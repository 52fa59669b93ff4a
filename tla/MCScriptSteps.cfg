SPECIFICATION Spec
CONSTANT Units <- MCUnits
CONSTANT HasCustomBuild <- MCHasCustomBuild
CONSTANT DepSets <- MCDepSets
CONSTANT Initial <- MCInitial
CONSTANT Names <- MCNames
CONSTANT Values <- MCValues
CONSTANT Envify <- MCEnvify
CONSTANT Features <- MCFeatures
CONSTANT MaxCfgs = 3
CONSTANT Inputs <- MCInputs
INVARIANT TypeOK
INVARIANT ToLinkIsLinkableClosure
INVARIANT MemoIsTransparent
INVARIANT BareNameSilencesKey
INVARIANT EnvCarriesCfgMap
INVARIANT ParseFollowsGrammar
PROPERTY EveryCallReturns
CHECK_DEADLOCK FALSE
