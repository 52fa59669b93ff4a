SPECIFICATION Spec
CONSTANTS
    Entropy <- MCEntropy
    SeedBytes <- MCSeedBytes
    Texts <- MCTexts
    FillSizes <- MCFillSizes
    MaxRngs <- MCMaxRngs
    MaxArcs <- MCMaxArcs
INVARIANT TypeOK
INVARIANT NoByteHandedTwice
INVARIANT SeedSurvivesPersistence
CHECK_DEADLOCK FALSE
