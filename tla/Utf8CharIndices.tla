--------------------------- MODULE Utf8CharIndices ---------------------------
(***************************************************************************)
(* CharIndices of bstr/src/utf8.rs: the iterator of Chars that also gives  *)
(* the byte range of every character.  It keeps the offset of both ends of *)
(* the bytes that are left, and can be advanced from either end in any     *)
(* order.                                                                  *)
(*                                                                         *)
(* `input`, `front` and `back` are not in the code: they keep the slice    *)
(* the iterator was made for and what each end has yielded so far, for the *)
(* properties to speak of.                                                 *)
(***************************************************************************)
EXTENDS Utf8WellFormed

CONSTANT Slices         \* the slices the iterator is made for

VARIABLES
    bs,                 \* the bytes not yet yielded
    forward_index,      \* the offset of bs in the slice
    reverse_index,      \* the offset of the end of bs in the slice
    item,               \* what the last call returned: (start, end, char)
    input,              \* the slice
    front,              \* the items next has yielded, in order
    back                \* the items next_back has yielded, in order

vars == <<bs, forward_index, reverse_index, item, input, front, back>>

\* CharIndices::new
Init ==
    /\ input \in Slices
    /\ bs = input
    /\ forward_index = 0
    /\ reverse_index = Len(input)
    /\ item = None
    /\ front = <<>>
    /\ back = <<>>

\* Mutant: the end of the range is the size of the character.
NextSomeSizeForEnd ==
    LET r == DecodeLossy(bs) IN
    /\ r[2] # 0
    /\ bs' = From(bs, r[2])
    /\ forward_index' = forward_index + r[2]
    /\ item' = Some(<<forward_index, r[2], r[1]>>)
    /\ front' = Append(front, item'.val)
    /\ UNCHANGED <<reverse_index, input, back>>

\* next, with something left.
NextSome ==
    LET r == DecodeLossy(bs) IN
    /\ r[2] # 0
    /\ bs' = From(bs, r[2])
    /\ forward_index' = forward_index + r[2]
    /\ item' = Some(<<forward_index, forward_index + r[2], r[1]>>)
    /\ front' = Append(front, item'.val)
    /\ UNCHANGED <<reverse_index, input, back>>

\* Mutant: the early return is missing, and the end of the bytes is yielded
\* as a character of no bytes.
NextNoneYields ==
    /\ DecodeLossy(bs)[2] = 0
    /\ item' = Some(<<forward_index, forward_index, REPLACEMENT>>)
    /\ UNCHANGED <<bs, forward_index, reverse_index, input, front, back>>

\* next, at the end.
NextNone ==
    /\ DecodeLossy(bs)[2] = 0
    /\ item' = None
    /\ UNCHANGED <<bs, forward_index, reverse_index, input, front, back>>

\* Mutant: the bytes are dropped and the index of the end is left.
NextBackSomeKeepsIndex ==
    LET r == DecodeLastLossy(bs) IN
    /\ r[2] # 0
    /\ bs' = Slice(bs, 0, Len(bs) - r[2])
    /\ item' = Some(<<reverse_index - r[2], reverse_index, r[1]>>)
    /\ back' = Append(back, item'.val)
    /\ UNCHANGED <<forward_index, reverse_index, input, front>>

\* next_back, with something left.
NextBackSome ==
    LET r == DecodeLastLossy(bs) IN
    /\ r[2] # 0
    /\ bs' = Slice(bs, 0, Len(bs) - r[2])
    /\ reverse_index' = reverse_index - r[2]
    /\ item' = Some(<<reverse_index', reverse_index' + r[2], r[1]>>)
    /\ back' = Append(back, item'.val)
    /\ UNCHANGED <<forward_index, input, front>>

\* next_back, at the end.
NextBackNone ==
    /\ DecodeLastLossy(bs)[2] = 0
    /\ item' = None
    /\ UNCHANGED <<bs, forward_index, reverse_index, input, front, back>>

\* as_bytes: the bytes that are left.
as_bytes == bs

Next ==
    \/ NextSome
    \/ NextNone
    \/ NextBackSome
    \/ NextBackNone

Spec == Init /\ [][Next]_vars

-----------------------------------------------------------------------------
(* Properties.                                                             *)

IsItem(it) ==
    /\ it[1] \in 0 .. Len(input) /\ it[2] \in 0 .. Len(input)
    /\ IsScalarValue(it[3])

\* A char is a Unicode scalar value: decode makes it from the code point
\* with char::from_u32_unchecked, on the claim that decode_step leaves a
\* scalar value in `cp` whenever the automaton accepts.  A range lies in
\* the slice.
TypeOK ==
    /\ input \in Seq(Byte)
    /\ bs \in Seq(Byte)
    /\ forward_index \in 0 .. Len(input)
    /\ reverse_index \in 0 .. Len(input)
    /\ item = None \/ (item.some /\ IsItem(item.val))
    /\ \A k \in DOMAIN front : IsItem(front[k])
    /\ \A k \in DOMAIN back : IsItem(back[k])

\* The two indices say where the bytes that are left lie in the slice,
\* whichever end was advanced and in whatever order.
IndicesTrackBytes == bs = Slice(input, forward_index, reverse_index)

Chunks == RefChunks(input)

\* From the front the iterator yields the characters of the slice with
\* their ranges: the scalar value of every well-formed sequence, and one
\* replacement character for every maximal subpart of an ill-formed one.
ForwardMatchesReference == front = SubSeq(Chunks, 1, Len(front))

\* From the back the iterator yields the same characters with the same
\* ranges as from the front, last first, although next_back has only the
\* forward automaton and guesses where the last sequence starts from the
\* last leading byte within four bytes of the end.  So the two ends never
\* yield a byte twice and never split a sequence between them, wherever
\* they meet.
BackwardAgreesWithForward ==
    Reverse(back) = SubSeq(Chunks, Len(Chunks) - Len(back) + 1, Len(Chunks))

\* An end returns None only when no byte is left, and a call that yields
\* takes at least one byte: neither end stalls on bytes it cannot decode,
\* and neither is exhausted while the other still has bytes to yield.
EndsWhenEmpty ==
    /\ ENABLED NextNone <=> bs = <<>>
    /\ ENABLED NextBackNone <=> bs = <<>>

\* CharIndices is Chars with indices: forgetting the ranges, every call
\* does to the bytes and returns what the same call of Chars does.
Chars ==
    INSTANCE Utf8Chars WITH
        item <- IF item.some THEN Some(item.val[3]) ELSE None

ImplementsChars == Chars!Spec

=============================================================================
