SPECIFICATION Spec
CONSTANTS
    Targets <- MCHalfTargets
    Word <- MCWord
    Ticking <- MCTicking
    MaxTicks = 3
INVARIANT IdleSinceIsExact
CHECK_DEADLOCK FALSE
