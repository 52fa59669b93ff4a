SPECIFICATION Spec
CONSTANTS
    Threads <- MCThreads
    MaxDepth = 3
    CatchUnwind = TRUE
INVARIANT MutualExclusion
CHECK_DEADLOCK FALSE
