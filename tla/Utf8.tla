-------------------------------- MODULE Utf8 --------------------------------
(***************************************************************************)
(* The two users of the automaton of bstr/src/utf8.rs side by side:        *)
(* validate, and the iterator CharIndices.  They share the tables and the  *)
(* decoder of Utf8Dfa and nothing else, so a behaviour is one use of one   *)
(* of them: a call of validate on a slice, or the life of one CharIndices. *)
(* The one that is not used is left as it is made for the empty slice.     *)
(* Among the slices are those of the tests and examples of the source      *)
(* (Utf8Tests), and what they assert is checked with the rest.             *)
(***************************************************************************)
EXTENDS Utf8Tests

CONSTANTS
    ValidateSlices,     \* the slices validate is called with
    IteratorSlices      \* the slices a CharIndices is made for

VARIABLES
    slice, state, i, result,                                        \* validate
    bs, forward_index, reverse_index, item, input, front, back      \* CharIndices

validation == <<slice, state, i, result>>
iterator   == <<bs, forward_index, reverse_index, item, input, front, back>>
vars       == <<validation, iterator>>

V == INSTANCE Utf8Validate WITH Slices <- ValidateSlices \cup {<<>>}

C == INSTANCE Utf8CharIndices WITH Slices <- IteratorSlices \cup {<<>>}

Init ==
    \/ input = <<>> /\ C!Init /\ V!Init
    \/ slice = <<>> /\ V!Init /\ C!Init

\* A step of the call of validate.
Validating(step) == input = <<>> /\ step /\ UNCHANGED iterator

\* A call of a method of the iterator.
Iterating(call) == slice = <<>> /\ call /\ UNCHANGED validation

Next ==
    \/ Validating(V!SkipAscii)
    \/ Validating(V!StepByte)
    \/ Validating(V!RejectByte)
    \/ Validating(V!EndInSequence)
    \/ Validating(V!EndValid)
    \/ Iterating(C!NextSome)
    \/ Iterating(C!NextNone)
    \/ Iterating(C!NextBackSome)
    \/ Iterating(C!NextBackNone)

Spec == Init /\ [][Next]_vars

-----------------------------------------------------------------------------
(* Properties: those of the two modules.                                   *)

\* The states of the automaton are rows of its table, an error of validate
\* is at least one byte long, and every char an iterator yields is a
\* Unicode scalar value with a range that lies in the slice.
TypeOK == V!TypeOK /\ C!TypeOK

\* validate returns Ok exactly for well-formed UTF-8, and otherwise the end
\* of the longest well-formed prefix and the length of the ill-formed piece
\* after it, which find_valid_up_to reconstructs from a few bytes.
ValidateMatchesWellFormed == V!ValidateMatchesWellFormed

\* next and next_back return None only when no byte is left.
EndsWhenEmpty == C!EndsWhenEmpty

\* forward_index and reverse_index say where the bytes that are left lie
\* in the slice, whichever end was advanced.
IndicesTrackBytes == C!IndicesTrackBytes

\* next yields the characters of the reference decoding with their ranges.
ForwardMatchesReference == C!ForwardMatchesReference

\* next_back yields what next yields, last first, although decode_last
\* guesses where the last sequence starts.
BackwardAgreesWithForward == C!BackwardAgreesWithForward

\* CharIndices is Chars with indices: every call of next and next_back does
\* to the bytes what the same call of Chars does.
ImplementsChars == C!ImplementsChars

-----------------------------------------------------------------------------
(* Properties: what the tests and the examples of the source assert.       *)

\* The calls of validate that return are those of the slice `given`.
Returned(given) == slice = given /\ result # V!Running

\* The tests validate_all_codepoints, validate_multiple_codepoints and
\* validate_errors and the examples of Utf8Error and valid_up_to pass:
\* validate, with its skipping of ASCII and the backing up that
\* find_valid_up_to does from the rejected byte, returns for every slice
\* of theirs what they assert, and the accessors of the error give the
\* position and the length the examples give.
ValidateTestsPass ==
    /\ \A t \in ValidateTests : Returned(t[2]) => result = t[1]
    /\ \A t \in Utf8ErrorExamples :
            Returned(t[3]) =>
                /\ result \notin {Valid, Panicked}
                /\ valid_up_to(result.err) = t[1]
                /\ error_len(result.err) = t[2]

\* The characters of the items.
CharsOf(items) == [k \in DOMAIN items |-> items[k][3]]

\* Every case of the table is right about f of the bytes that are left.
Pass(f(_), table) == \A t \in table : bs = t[1] => f(bs) = t[2]

\* f in a loop with unwrap_or.
Replacing(f(_), bytes) == UnwrapOrReplacement(f(bytes))

\* The tests decode_valid, decode_invalid and decode_lossy and the examples
\* of decode, decode_lossy and as_bytes pass.  Whenever the bytes left to
\* an iterator are the slice of a case, decode and decode_lossy return the
\* character and the size the case asserts, and the loops of d and of the
\* examples the characters; an iterator made for the slice of the examples
\* and driven by next alone is that loop, and as_bytes returns what is left
\* after each call.
DecodeTestsPass ==
    /\ Pass(Decode, decode_invalid \cup DecodeExamples)
    /\ Pass(DecodeLossy, decode_lossy \cup DecodeLossyExamples)
    /\ Pass(DecodeAll, decode_valid)
    /\ Pass(LAMBDA b : Replacing(DecodeAll, b),
            {DecodeLoopExample, DecodeLossyLoopExample})
    /\ input = LoopBytes /\ bs = <<>> /\ back = <<>>
            => CharsOf(front) = LoopChars
    /\ \A t \in CharsAsBytesExample \cup CharIndicesAsBytesExample :
            input = abc /\ back = <<>> /\ Len(front) = t[1]
                => C!as_bytes = t[2]

\* The tests decode_last_valid, decode_last_invalid and decode_last_lossy
\* and the examples of decode_last and decode_last_lossy pass.  decode_last
\* finds the last sequence from the last leading byte within four bytes of
\* the end, and returns for the slice of every case the character and the
\* size the case asserts; the loops yield the characters last first, and so
\* does an iterator driven by next_back alone.
DecodeLastTestsPass ==
    /\ Pass(DecodeLast, decode_last_invalid \cup DecodeLastExamples)
    /\ Pass(DecodeLastLossy, decode_last_lossy \cup DecodeLastLossyExamples)
    /\ Pass(DecodeLastAll, decode_last_valid)
    /\ Pass(LAMBDA b : Replacing(DecodeLastAll, b),
            {DecodeLastLoopExample, DecodeLastLossyLoopExample})
    /\ input = LoopBytes /\ bs = <<>> /\ front = <<>>
            => CharsOf(back) = Reverse(LoopChars)

=============================================================================
