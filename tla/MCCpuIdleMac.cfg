SPECIFICATION Spec
CONSTANTS
    Targets <- MCMacTargets
    Word <- MCWord
    Ticking <- MCTicking
    MaxTicks = 3
PROPERTY CurrentCapturesAllCpus
CHECK_DEADLOCK FALSE
