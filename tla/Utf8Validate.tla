---------------------------- MODULE Utf8Validate ----------------------------
(***************************************************************************)
(* validate of bstr/src/utf8.rs: the fast loop, which runs the automaton   *)
(* without keeping track of where the last sequence ended and skips runs   *)
(* of ASCII, and which on an error backs up to the last leading byte and   *)
(* runs the slow path on a few bytes to find the error position.           *)
(***************************************************************************)
EXTENDS Utf8WellFormed

CONSTANT Slices         \* the slices validate is called with

VARIABLES
    slice,
    state,              \* the state of the automaton
    i,                  \* the index of the next byte
    result              \* what validate returned, when it has

vars == <<slice, state, i, result>>

Running == [running |-> TRUE]

\* ascii::first_non_ascii_byte: the index of the first byte above 0x7F, or
\* the length of the slice.
FirstNonAsciiByte(s) ==
    LET at == SelectInSeq(s, LAMBDA b : b > 127)
    IN  IF at = 0 THEN Len(s) ELSE at - 1

Init ==
    /\ slice \in Slices
    /\ state = ACCEPT
    /\ i = 0
    /\ result = Running

InLoop == result = Running /\ i < Len(slice)

\* Two ASCII bytes in a row, between sequences.
AsciiAhead ==
    /\ state = ACCEPT
    /\ slice[i + 1] <= 127
    /\ i + 1 < Len(slice) /\ slice[i + 2] <= 127

\* The ASCII fast path.
SkipAscii ==
    /\ InLoop /\ AsciiAhead
    /\ i' = i + FirstNonAsciiByte(From(slice, i))
    /\ UNCHANGED <<slice, state, result>>

\* One byte through the automaton.
StepByte ==
    /\ InLoop /\ ~AsciiAhead
    /\ Step(state, slice[i + 1]) # REJECT
    /\ state' = Step(state, slice[i + 1])
    /\ i' = i + 1
    /\ UNCHANGED <<slice, result>>

\* The automaton rejects byte i.
RejectByte ==
    /\ InLoop /\ ~AsciiAhead
    /\ Step(state, slice[i + 1]) = REJECT
    /\ state' = REJECT
    /\ result' = FindValidUpTo(slice, i)
    /\ UNCHANGED <<slice, i>>

\* The slice ends inside a sequence.
EndInSequence ==
    /\ result = Running /\ i >= Len(slice)
    /\ state # ACCEPT
    /\ result' = FindValidUpTo(slice, Len(slice))
    /\ UNCHANGED <<slice, state, i>>

EndValid ==
    /\ result = Running /\ i >= Len(slice)
    /\ state = ACCEPT
    /\ result' = Valid
    /\ UNCHANGED <<slice, state, i>>

Next ==
    \/ SkipAscii
    \/ StepByte
    \/ RejectByte
    \/ EndInSequence
    \/ EndValid

Spec == Init /\ [][Next]_vars

-----------------------------------------------------------------------------
(* Properties.                                                             *)

\* The states of the automaton are the multiples of twelve up to 96, which
\* the unchecked read of STATES_FORWARD in `step` relies on, and an error
\* is at least one byte long.
TypeOK ==
    /\ slice \in Seq(Byte)
    /\ state \in {12 * k : k \in 0 .. 8}
    /\ i \in 0 .. Len(slice)
    /\ \/ result \in {Running, Valid, Panicked}
       \/ /\ ~result.ok
          /\ result.err.valid_up_to \in 0 .. Len(slice)
          /\ result.err.error_len \in {None} \cup {Some(n) : n \in 1 .. 3}

\* validate returns Ok exactly for well-formed UTF-8; for anything else
\* valid_up_to is the end of the longest well-formed prefix and error_len
\* the length of the ill-formed piece after it, None at a slice that ends
\* inside a sequence.  The fast loop does not know where the last sequence
\* ended and has skipped ASCII: find_valid_up_to reconstructs the error
\* from the bytes between the last leading byte and the rejected one, and
\* its unwrap_err never panics because slow finds an error there too.
ValidateMatchesWellFormed ==
    result # Running => result = RefValidate(slice)

=============================================================================
