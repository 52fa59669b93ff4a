------------------------------ MODULE Utf8Dfa ------------------------------
(***************************************************************************)
(* The UTF-8 decoder of bstr/src/utf8.rs as operators over sequences of    *)
(* bytes: the automaton (byte classes and transition table), decode_step,  *)
(* decode, decode_last, their lossy forms, and validate with its slow      *)
(* path and the backing up that finds the error position.                  *)
(*                                                                         *)
(* A slice is a sequence of numbers in 0 .. 255.  The code counts from 0,  *)
(* sequences from 1: byte i of the code is slice[i + 1], and the slice     *)
(* &s[a..b] is SubSeq(s, a + 1, b).                                        *)
(***************************************************************************)
EXTENDS Naturals, Sequences, SequencesExt

Byte == 0 .. 255

ACCEPT == 12
REJECT == 0

\* static CLASSES: [u8; 256], from index 1.
ClassTable ==
    <<0, 0, 0, 0, 0, 0, 0, 0, 0, 0, 0, 0, 0, 0, 0, 0, 0, 0, 0, 0, 0, 0, 0, 0, 0, 0, 0, 0, 0, 0, 0, 0,
      0, 0, 0, 0, 0, 0, 0, 0, 0, 0, 0, 0, 0, 0, 0, 0, 0, 0, 0, 0, 0, 0, 0, 0, 0, 0, 0, 0, 0, 0, 0, 0,
      0, 0, 0, 0, 0, 0, 0, 0, 0, 0, 0, 0, 0, 0, 0, 0, 0, 0, 0, 0, 0, 0, 0, 0, 0, 0, 0, 0, 0, 0, 0, 0,
      0, 0, 0, 0, 0, 0, 0, 0, 0, 0, 0, 0, 0, 0, 0, 0, 0, 0, 0, 0, 0, 0, 0, 0, 0, 0, 0, 0, 0, 0, 0, 0,
      1, 1, 1, 1, 1, 1, 1, 1, 1, 1, 1, 1, 1, 1, 1, 1, 9, 9, 9, 9, 9, 9, 9, 9, 9, 9, 9, 9, 9, 9, 9, 9,
      7, 7, 7, 7, 7, 7, 7, 7, 7, 7, 7, 7, 7, 7, 7, 7, 7, 7, 7, 7, 7, 7, 7, 7, 7, 7, 7, 7, 7, 7, 7, 7,
      8, 8, 2, 2, 2, 2, 2, 2, 2, 2, 2, 2, 2, 2, 2, 2, 2, 2, 2, 2, 2, 2, 2, 2, 2, 2, 2, 2, 2, 2, 2, 2,
      10, 3, 3, 3, 3, 3, 3, 3, 3, 3, 3, 3, 3, 4, 3, 3, 11, 6, 6, 6, 5, 8, 8, 8, 8, 8, 8, 8, 8, 8, 8, 8>>

\* static STATES_FORWARD, from index 1: twelve entries per state, the
\* state ids are multiplied by twelve already.
StatesForward ==
    <<0, 0, 0, 0, 0, 0, 0, 0, 0, 0, 0, 0,
      12, 0, 24, 36, 60, 96, 84, 0, 0, 0, 48, 72,
      0, 12, 0, 0, 0, 0, 0, 12, 0, 12, 0, 0,
      0, 24, 0, 0, 0, 0, 0, 24, 0, 24, 0, 0,
      0, 0, 0, 0, 0, 0, 0, 24, 0, 0, 0, 0,
      0, 24, 0, 0, 0, 0, 0, 0, 0, 24, 0, 0,
      0, 0, 0, 0, 0, 0, 0, 36, 0, 36, 0, 0,
      0, 36, 0, 0, 0, 0, 0, 36, 0, 36, 0, 0,
      0, 36, 0, 0, 0, 0, 0, 0, 0, 0, 0, 0>>

CLASSES(b) == ClassTable[b + 1]

\* validate::step, and the last line of decode_step.
Step(state, b) == StatesForward[state + CLASSES(b) + 1]

\* Option
None    == [some |-> FALSE]
Some(v) == [some |-> TRUE, val |-> v]

\* &slice[a..b] and &slice[a..]
Slice(s, a, b) == SubSeq(s, a + 1, b)
From(s, a)     == SubSeq(s, a + 1, Len(s))

AtLeast(n, m) == IF n < m THEN m ELSE n      \* cmp::max
AtMost(n, m)  == IF n < m THEN n ELSE m      \* cmp::min
Pred(n)       == IF n = 0 THEN 0 ELSE n - 1  \* saturating_sub(1)

\* (b & 0b1100_0000) != 0b1000_0000
IsLeadingUtf8Byte(b) == b \div 64 # 2

-----------------------------------------------------------------------------
(* decode_step and decode.                                                 *)

\* The code point after byte b.  In ACCEPT, (0xFF >> class) & b keeps the
\* low 8 - class bits of b (none for a class above 8); else the low six
\* bits of b are put under cp << 6.  The automaton accepts or rejects
\* within four bytes, so cp stays below 2^21 and the shift loses nothing
\* of its 32 bits.
Codepoint(state, cp, b) ==
    IF state = ACCEPT
    THEN IF CLASSES(b) >= 8 THEN 0 ELSE b % 2^(8 - CLASSES(b))
    ELSE (b % 64) + cp * 64

\* Mutant: a rejected byte gives back the bytes before it, which may be
\* none.
RECURSIVE DecodeFromNoMinimum(_, _, _, _)
DecodeFromNoMinimum(slice, state, cp, i) ==
    IF i >= Len(slice) THEN <<None, i>>
    ELSE LET b     == slice[i + 1]
             next  == Step(state, b)
             point == Codepoint(state, cp, b)
         IN  CASE next = ACCEPT -> <<Some(point), i + 1>>
               [] next = REJECT -> <<None, Pred(i + 1)>>
               [] OTHER         -> DecodeFromNoMinimum(slice, next, point, i + 1)

\* The loop of decode from byte i, with i bytes consumed so far.
RECURSIVE DecodeFrom(_, _, _, _)
DecodeFrom(slice, state, cp, i) ==
    IF i >= Len(slice) THEN <<None, i>>
    ELSE LET b     == slice[i + 1]
             next  == Step(state, b)
             point == Codepoint(state, cp, b)
         IN  CASE next = ACCEPT -> <<Some(point), i + 1>>
               [] next = REJECT -> <<None, AtLeast(1, Pred(i + 1))>>
               [] OTHER         -> DecodeFrom(slice, next, point, i + 1)

Decode(slice) ==
    CASE slice = <<>>     -> <<None, 0>>
      [] slice[1] <= 127  -> <<Some(slice[1]), 1>>
      [] OTHER            -> DecodeFrom(slice, ACCEPT, 0, 0)

REPLACEMENT == 65533    \* U+FFFD

Lossy(r) == IF r[1].some THEN <<r[1].val, r[2]>> ELSE <<REPLACEMENT, r[2]>>

DecodeLossy(slice) == Lossy(Decode(slice))

-----------------------------------------------------------------------------
(* decode_last.                                                            *)

\* The start of the last sequence: back from the last byte to a leading
\* byte, at most to len - 4.
RECURSIVE LastStart(_, _, _)
LastStart(slice, start, limit) ==
    IF start > limit /\ ~IsLeadingUtf8Byte(slice[start + 1])
    THEN LastStart(slice, start - 1, limit)
    ELSE start

\* Mutant: the search for the leading byte goes back three bytes only.
DecodeLastShort(slice) ==
    IF slice = <<>> THEN <<None, 0>>
    ELSE LET start == LastStart(slice, Len(slice) - 1,
                                IF Len(slice) < 3 THEN 0 ELSE Len(slice) - 3)
             r     == Decode(From(slice, start))
         IN  IF start + r[2] # Len(slice) THEN <<None, 1>> ELSE r

DecodeLast(slice) ==
    IF slice = <<>> THEN <<None, 0>>
    ELSE LET start == LastStart(slice, Len(slice) - 1,
                                IF Len(slice) < 4 THEN 0 ELSE Len(slice) - 4)
             r     == Decode(From(slice, start))
         IN  IF start + r[2] # Len(slice) THEN <<None, 1>> ELSE r

DecodeLastLossy(slice) == Lossy(DecodeLast(slice))

-----------------------------------------------------------------------------
(* validate: the slow path and find_valid_up_to.                           *)

Utf8Error(valid_up_to, error_len) ==
    [valid_up_to |-> valid_up_to, error_len |-> error_len]

Valid     == [ok |-> TRUE]
Err(e)    == [ok |-> FALSE, err |-> e]
Panicked  == [panic |-> TRUE]

\* Mutant: the error length is the distance alone, which may be zero.
RECURSIVE SlowFromNoMinimum(_, _, _, _)
SlowFromNoMinimum(slice, state, valid_up_to, i) ==
    IF i >= Len(slice)
    THEN IF state # ACCEPT THEN Err(Utf8Error(valid_up_to, None)) ELSE Valid
    ELSE LET next == Step(state, slice[i + 1])
         IN  CASE next = ACCEPT -> SlowFromNoMinimum(slice, next, i + 1, i + 1)
               [] next = REJECT ->
                     Err(Utf8Error(valid_up_to, Some(i - valid_up_to)))
               [] OTHER -> SlowFromNoMinimum(slice, next, valid_up_to, i + 1)

\* The loop of slow from byte i.
RECURSIVE SlowFrom(_, _, _, _)
SlowFrom(slice, state, valid_up_to, i) ==
    IF i >= Len(slice)
    THEN IF state # ACCEPT THEN Err(Utf8Error(valid_up_to, None)) ELSE Valid
    ELSE LET next == Step(state, slice[i + 1])
         IN  CASE next = ACCEPT -> SlowFrom(slice, next, i + 1, i + 1)
               [] next = REJECT ->
                     Err(Utf8Error(valid_up_to, Some(AtLeast(1, i - valid_up_to))))
               [] OTHER -> SlowFrom(slice, next, valid_up_to, i + 1)

Slow(slice) == SlowFrom(slice, ACCEPT, 0, 0)

\* The last leading byte at or before `backup`, or 0.
RECURSIVE BackUp(_, _)
BackUp(slice, backup) ==
    IF backup > 0 /\ ~IsLeadingUtf8Byte(slice[backup + 1])
    THEN BackUp(slice, backup - 1)
    ELSE backup

\* Mutant: the position found in the subslice is not moved back into the
\* slice.
FindValidUpToNoOffset(slice, rejected_at) ==
    LET backup == BackUp(slice, Pred(rejected_at))
        err    == Slow(Slice(slice, backup, AtMost(Len(slice), rejected_at + 1)))
    IN  IF err = Valid THEN Panicked ELSE err

\* find_valid_up_to: slow is run again from the last leading byte before
\* the rejected one; unwrap_err panics if it finds no error.
FindValidUpTo(slice, rejected_at) ==
    LET backup == BackUp(slice, Pred(rejected_at))
        err    == Slow(Slice(slice, backup, AtMost(Len(slice), rejected_at + 1)))
    IN  IF err = Valid THEN Panicked
        ELSE Err([err.err EXCEPT !.valid_up_to = @ + backup])

\* The accessors of Utf8Error.
valid_up_to(e) == e.valid_up_to
error_len(e)   == e.error_len

=============================================================================
