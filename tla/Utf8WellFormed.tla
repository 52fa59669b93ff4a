--------------------------- MODULE Utf8WellFormed ---------------------------
(***************************************************************************)
(* Well-formed UTF-8 as the Unicode Standard defines it (table 3-7,        *)
(* "Well-Formed UTF-8 Byte Sequences"), and what a decoder that follows    *)
(* the "maximal subpart" practice returns.  Nothing here is taken from the *)
(* code: these are the definitions the decoder is checked against.         *)
(***************************************************************************)
EXTENDS Utf8Dfa, FiniteSetsExt

Cont == 128 .. 191

\* One row per line of the table: the ranges of the bytes of a sequence.
Rows ==
    { <<0 .. 127>>,
      <<194 .. 223, Cont>>,
      <<{224}, 160 .. 191, Cont>>,
      <<225 .. 236, Cont, Cont>>,
      <<{237}, 128 .. 159, Cont>>,
      <<238 .. 239, Cont, Cont>>,
      <<{240}, 144 .. 191, Cont, Cont>>,
      <<241 .. 243, Cont, Cont, Cont>>,
      <<{244}, 128 .. 143, Cont, Cont>> }

Within(t, row) == \A k \in DOMAIN t : t[k] \in row[k]

\* t is one well-formed sequence.
WellFormedSeq(t) == \E row \in Rows : Len(t) = Len(row) /\ Within(t, row)

\* t is the beginning of a well-formed sequence, and not all of it.
TruncatedSeq(t) ==
    t # <<>> /\ \E row \in Rows : Len(t) < Len(row) /\ Within(t, row)

\* The scalar value a well-formed sequence encodes.
ScalarOf(t) ==
    LET low(k) == t[k] - 128 IN
    CASE Len(t) = 1 -> t[1]
      [] Len(t) = 2 -> (t[1] - 192) * 64 + low(2)
      [] Len(t) = 3 -> (t[1] - 224) * 4096 + low(2) * 64 + low(3)
      [] Len(t) = 4 -> (t[1] - 240) * 262144 + low(2) * 4096 + low(3) * 64 + low(4)

\* A Unicode scalar value: a code point that is not a surrogate.
IsScalarValue(c) == c \in 0 .. 1114111 /\ c \notin 55296 .. 57343

\* The lengths n for which the first n bytes of s satisfy P.
Heads(s, P(_)) == {n \in 1 .. AtMost(4, Len(s)) : P(SubSeq(s, 1, n))}

\* What a decoder returns for a slice: the scalar value of the sequence it
\* begins with and its length; or nothing and the length of the maximal
\* subpart of an ill-formed sequence, which is at least one byte.
RefDecode(s) ==
    CASE s = <<>>                    -> <<None, 0>>
      [] Heads(s, WellFormedSeq) # {} ->
            LET n == Max(Heads(s, WellFormedSeq))
            IN  <<Some(ScalarOf(SubSeq(s, 1, n))), n>>
      [] OTHER -> <<None, Max(Heads(s, TruncatedSeq) \cup {1})>>

\* The slice cut into the pieces a decoder returns one after the other:
\* <<start, end, char>> with the replacement character for ill-formed pieces.
RECURSIVE RefChunksFrom(_, _)
RefChunksFrom(s, at) ==
    IF at >= Len(s) THEN <<>>
    ELSE LET r == Lossy(RefDecode(From(s, at)))
         IN  <<<<at, at + r[2], r[1]>>>> \o RefChunksFrom(s, at + r[2])

RefChunks(s) == RefChunksFrom(s, 0)

\* What validate returns: Ok for a concatenation of well-formed sequences;
\* else where the well-formed part ends, and the length of the ill-formed
\* piece that follows, or None when the slice ends inside a sequence.
RECURSIVE RefValidateFrom(_, _)
RefValidateFrom(s, at) ==
    LET rest == From(s, at)
        r    == RefDecode(rest)
    IN  CASE rest = <<>>       -> Valid
          [] r[1].some         -> RefValidateFrom(s, at + r[2])
          [] TruncatedSeq(rest) -> Err(Utf8Error(at, None))
          [] OTHER             -> Err(Utf8Error(at, Some(r[2])))

RefValidate(s) == RefValidateFrom(s, 0)

=============================================================================
