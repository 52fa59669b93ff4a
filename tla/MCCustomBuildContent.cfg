SPECIFICATION Spec
CONSTANTS
    Units <- MCUnits
    LibDeps <- MCLibDeps
    Overridden <- MCOverridden
    Garbled <- MCGarbled
    MaxStamp = 3
    ContentStamps = TRUE
INVARIANT FreshRegistersJudgedOutput
