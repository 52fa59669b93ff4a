SPECIFICATION Spec
CONSTANT ValidateSlices <- MCValidateSlices
CONSTANT IteratorSlices <- MCIteratorSlices
CONSTANT Codepoints <- MCCodepoints
INVARIANT TypeOK
INVARIANT ValidateMatchesWellFormed
INVARIANT EndsWhenEmpty
INVARIANT IndicesTrackBytes
INVARIANT ForwardMatchesReference
INVARIANT BackwardAgreesWithForward
INVARIANT ValidateTestsPass
INVARIANT DecodeTestsPass
INVARIANT DecodeLastTestsPass
PROPERTY ImplementsChars
CHECK_DEADLOCK FALSE
