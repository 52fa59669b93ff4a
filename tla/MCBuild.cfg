SPECIFICATION Spec
CONSTANTS
    Units <- MCUnits
    LibDeps <- MCLibDeps
    Overridden <- MCOverridden
    Garbled <- MCGarbled
    MaxStamp = 2
    ContentStamps = FALSE
    N = 2
INVARIANT TypeOK
INVARIANT DepStateLocated
INVARIANT SecondBuildIsFresh
INVARIANT TopologicalOrder
INVARIANT ActiveCountsSlots
INVARIANT QueueHoldsReadyOnce
INVARIANT SuccessBuildsAll
PROPERTY RunnerRefined
PROPERTY BuildEndsUnlessKilled
