------------------------------ MODULE Utf8Chars ------------------------------
(***************************************************************************)
(* Chars of bstr/src/utf8.rs: the iterator over the characters of a byte   *)
(* slice that need not be UTF-8, from both ends.  Ill-formed bytes are     *)
(* yielded as the replacement character.  CharIndices is shown to be this  *)
(* iterator with byte ranges added (Utf8CharIndices, ImplementsChars).     *)
(***************************************************************************)
EXTENDS Utf8Dfa

CONSTANT Slices         \* the slices the iterator is made for

VARIABLES
    bs,                 \* the bytes not yet yielded
    item                \* what the last call returned

vars == <<bs, item>>

\* Chars::new
Init ==
    /\ bs \in Slices
    /\ item = None

\* next, with something left.
NextSome ==
    LET r == DecodeLossy(bs) IN
    /\ r[2] # 0
    /\ bs' = From(bs, r[2])
    /\ item' = Some(r[1])

\* next, at the end.
NextNone ==
    /\ DecodeLossy(bs)[2] = 0
    /\ item' = None
    /\ UNCHANGED bs

\* next_back, with something left.
NextBackSome ==
    LET r == DecodeLastLossy(bs) IN
    /\ r[2] # 0
    /\ bs' = Slice(bs, 0, Len(bs) - r[2])
    /\ item' = Some(r[1])

\* next_back, at the end.
NextBackNone ==
    /\ DecodeLastLossy(bs)[2] = 0
    /\ item' = None
    /\ UNCHANGED bs

\* as_bytes: the bytes that are left.
as_bytes == bs

Next ==
    \/ NextSome
    \/ NextNone
    \/ NextBackSome
    \/ NextBackNone

Spec == Init /\ [][Next]_vars

=============================================================================
