------------------------------- MODULE MCUtf8 -------------------------------
(***************************************************************************)
(* The slices.  For validate: every byte alone and every byte after a byte *)
(* of each class, so that every entry of the class table is read in both   *)
(* places; every slice of up to four bytes over the bytes at the edges of  *)
(* the ranges of the table of well-formed sequences; and slices of up to   *)
(* six bytes over a few bytes, in which a sequence of four bytes has bytes *)
(* on both sides.  For CharIndices: every slice of up to three bytes over  *)
(* the edges, of up to four over one byte of each kind, and of up to five  *)
(* over a few bytes, so that next_back searches as far as its limit of     *)
(* four bytes and stops there.  Both get the slices of the tests and the   *)
(* examples of the source as well.                                         *)
(***************************************************************************)
EXTENDS Utf8

\* validate_all_codepoints goes through 0 .. 0x10FFFF; here, through the
\* first and the last code point of every length of encoding, the code
\* points around the surrogates, and the surrogates at both ends.
MCCodepoints ==
    {0, 97, 127, 128, 2047, 2048, 55295, 55296, 57343, 57344, 65533, 65535,
     65536, 1114111}

MaxLenEdges == 4
MaxLenFew   == 6

\* a; the edges of the continuation ranges; the leading bytes at the edges
\* of their rows; bytes that never occur.
Edges ==
    {65, 128, 143, 144, 159, 160, 191, 192, 194, 223, 224, 237, 239,
     240, 241, 244, 255}

Kinds == {65, 128, 144, 191, 194, 224, 237, 240, 244}

Leaders == {65, 194, 224, 237, 240, 244}

MCValidateSlices ==
    {<<b>> : b \in Byte}
        \cup {<<l, b>> : l \in Leaders, b \in Byte}
        \cup BoundedSeq(Edges, MaxLenEdges)
        \cup BoundedSeq({65, 128, 191, 194, 224, 240}, MaxLenFew)
        \cup {t[2] : t \in ValidateTests}
        \cup {t[3] : t \in Utf8ErrorExamples}

MCIteratorSlices ==
    BoundedSeq(Edges, MaxLenEdges - 1)
        \cup BoundedSeq(Kinds, MaxLenEdges)
        \cup BoundedSeq({65, 128, 191, 224, 240}, MaxLenFew - 1)
        \cup IteratorTestSlices

=============================================================================
