SPECIFICATION Spec
CONSTANTS
    Targets <- MCTargets
    Word <- MCWord
    Ticking <- MCTicking
    MaxTicks = 3
INVARIANT IdleSinceIsPercentage
CHECK_DEADLOCK FALSE
