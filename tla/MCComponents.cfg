SPECIFICATION Spec
CONSTANTS
    Threads <- MCThreads
    MaxDepth = 3
    CatchUnwind = FALSE
    Keys <- MCKeys
    Values <- MCValues
    Text <- MCText
    PairLists <- MCPairLists
    Dicts <- MCDicts
    MaxHeld = 2
    Targets <- MCTargets
    Word <- MCWord
    Ticking <- MCTicking
    MaxTicks = 3
    Units <- MCUnits
    LibDeps <- MCLibDeps
    Overridden <- MCOverridden
    Garbled <- MCGarbled
    MaxStamp = 3
    ContentStamps = FALSE
INVARIANT TypeOK
INVARIANT MutualExclusion
INVARIANT FlagTellsOwnership
INVARIANT AliveWhileOwned
INVARIANT IdleSinceIsExact
INVARIANT DepStateLocated
INVARIANT FreshRegistersJudgedOutput
INVARIANT FreshWorkSucceeds
CHECK_DEADLOCK FALSE
