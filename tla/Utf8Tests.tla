----------------------------- MODULE Utf8Tests -----------------------------
(***************************************************************************)
(* What bstr/src/utf8.rs says of itself: the unit tests of `mod tests` and *)
(* the examples of the documentation, as tables of inputs with the results *)
(* they assert, and as the loops they run.  A definition has the name of   *)
(* its test.  The byte strings are the literals of the source, byte by     *)
(* byte; a str literal is the UTF-8 of its characters (Str).               *)
(*                                                                         *)
(* The model is checked against these tables as it is against the Unicode  *)
(* Standard (Utf8WellFormed): they are a second oracle, written by the     *)
(* authors of the code.  The test `chars` is not here: its table,          *)
(* LOSSY_TESTS, is in a file this repository does not have.                *)
(***************************************************************************)
EXTENDS Utf8Dfa

CONSTANT Codepoints     \* the numbers validate_all_codepoints goes through

foobar == <<102, 111, 111, 98, 97, 114>>
quux   == <<113, 117, 117, 120>>
snowman == <<226, 152, 131>>                \* b"\xE2\x98\x83"

\* char::from_u32: no char for a surrogate or above U+10FFFF.
from_u32(n) ==
    IF n \in 55296 .. 57343 \/ n > 1114111 THEN None ELSE Some(n)

\* char::encode_utf8.
encode_utf8(cp) ==
    LET Cont(k) == 128 + ((cp \div 64^k) % 64)
    IN  CASE cp < 128   -> <<cp>>
          [] cp < 2048  -> <<192 + (cp \div 64), Cont(0)>>
          [] cp < 65536 -> <<224 + (cp \div 4096), Cont(1), Cont(0)>>
          [] OTHER      -> <<240 + (cp \div 262144), Cont(2), Cont(1), Cont(0)>>

\* The bytes of a str literal with these characters.
Str(chars) == FlattenSeq([k \in DOMAIN chars |-> encode_utf8(chars[k])])

Somes(chars) == [k \in DOMAIN chars |-> Some(chars[k])]

-----------------------------------------------------------------------------
(* The tests of validate: <<what is asserted, the slice>>.                 *)

utf8e(upto) == Utf8Error(upto, None)

utf8e2(upto, len) == Utf8Error(upto, Some(len))

validate_all_codepoints ==
    { <<Valid, encode_utf8(from_u32(n).val)>> :
        n \in {m \in Codepoints : from_u32(m).some} }

validate_multiple_codepoints ==
    { <<Valid, s>> : s \in
        { <<97, 98, 99>>, <<97, 226, 152, 131, 97>>,
          <<97, 240, 157, 156, 183, 97>>, <<226, 152, 131, 240, 157, 156, 183>>,
          <<97, 226, 152, 131, 97, 240, 157, 156, 183, 97>>,
          <<239, 191, 189, 226, 152, 131, 239, 191, 189>> } }

validate_errors ==
    { <<Err(utf8e2(t[1], t[2])), t[3]>> : t \in
        { <<0, 1, <<255>>>>, <<1, 1, <<97, 255>>>>, <<2, 1, <<206, 178, 255>>>>,
          <<3, 1, <<226, 152, 131, 255>>>>, <<4, 1, <<240, 157, 157, 177, 255>>>>,
          <<0, 1, <<206, 240>>>>, <<0, 2, <<226, 152, 240>>>>,
          <<0, 3, <<240, 157, 157, 240>>>>,
          <<0, 1, <<240, 130, 130, 172>>>>, <<1, 1, <<97, 240, 130, 130, 172>>>>,
          <<3, 1, <<226, 152, 131, 240, 130, 130, 172>>>>,
          <<0, 1, <<237, 160, 128>>>>, <<1, 1, <<97, 237, 160, 128>>>>,
          <<3, 1, <<226, 152, 131, 237, 160, 128>>>>,
          <<0, 1, <<206, 97>>>>, <<1, 1, <<97, 206, 97>>>>,
          <<3, 1, <<226, 152, 131, 206, 226, 152, 131>>>>,
          <<0, 2, <<226, 152, 97>>>>, <<1, 2, <<97, 226, 152, 97>>>>,
          <<3, 2, <<226, 152, 131, 226, 152, 226, 152, 131>>>>,
          <<0, 3, <<240, 157, 156, 97>>>>, <<1, 3, <<97, 240, 157, 156, 97>>>>,
          <<4, 3, <<240, 157, 156, 177, 240, 157, 156, 226, 152, 131>>>>,
          <<6, 3, foobar \o <<241, 128, 128>> \o quux>>,
          <<8, 1, <<226, 152, 131, 206, 178, 227, 131, 132, 255>>>> } }
    \cup
    { <<Err(utf8e(t[1])), t[2]>> : t \in
        { <<0, <<206>>>>, <<1, <<97, 206>>>>, <<3, <<226, 152, 131, 206>>>>,
          <<0, <<226, 152>>>>, <<1, <<97, 226, 152>>>>,
          <<3, <<226, 152, 131, 226, 152>>>>,
          <<0, <<240, 157, 156>>>>, <<1, <<97, 240, 157, 156>>>>,
          <<4, <<240, 157, 156, 177, 240, 157, 156>>>> } }

\* The examples of Utf8Error, where to_str is validate:
\* <<err.valid_up_to(), err.error_len(), the slice>>.
Utf8ErrorExamples ==
    { <<6, None, foobar \o <<241, 128, 128>>>>,
      <<6, Some(3), foobar \o <<241, 128, 128>> \o quux>>,
      <<6, Some(1), foobar \o <<255, 255>> \o quux>>,
      <<6, Some(1), foobar \o <<255>>>> }

\* The example of valid_up_to: the slice before the error is "foobar", and
\* to_str of it "is guaranteed to never panic".
ValidUpToExample ==
    LET s == foobar \o <<241, 128, 128>> \o quux
    IN  { <<Err(utf8e2(Len(foobar), 3)), s>>,
          <<Valid, Slice(s, 0, Len(foobar))>> }

ValidateTests ==
    UNION {validate_all_codepoints, validate_multiple_codepoints,
           validate_errors, ValidUpToExample}

-----------------------------------------------------------------------------
(* The tests of decode and decode_lossy: <<the slice, what is asserted of  *)
(* what the function returns for it>>.                                     *)

\* A loop that takes no byte never ends: its place in the result, which is
\* no char.
Stuck == [some |-> FALSE, stuck |-> TRUE]

\* The loop of d and of the examples: what decode returns, call by call,
\* until no byte is left.
RECURSIVE DecodeAll(_)
DecodeAll(bytes) ==
    LET r == Decode(bytes)
    IN  CASE bytes = <<>> -> <<>>
          [] r[2] = 0     -> <<Stuck>>
          [] OTHER        -> <<r[1]>> \o DecodeAll(From(bytes, r[2]))

\* ch.unwrap_or('\u{FFFD}'), for every ch.
UnwrapOrReplacement(chs) == [k \in DOMAIN chs |-> Lossy(<<chs[k], 0>>)[1]]

\* The strings of decode_valid and decode_last_valid, as their characters.
ValidStrings ==
    { <<9731>>, <<9731, 9731>>, <<945, 946, 947, 948, 949>>,
      <<9731, 9924, 9927>>, <<120302, 120303, 120304, 120305, 120306>> }

\* d(s) is the characters of s: no ch.unwrap() panics.
decode_valid == { <<Str(s), Somes(s)>> : s \in ValidStrings }

\* The char asserted is None; <<the slice, the size>>.
DecodeInvalidCases ==
    { <<<<>>, 0>>, <<<<255>>, 1>>, <<<<206, 240>>, 1>>, <<<<226, 152, 240>>, 2>>,
      <<<<240, 157, 157>>, 3>>, <<<<240, 157, 157, 240>>, 3>>,
      <<<<240, 130, 130, 172>>, 1>>, <<<<237, 160, 128>>, 1>>,
      <<<<206, 97>>, 1>>, <<<<226, 152, 97>>, 2>>, <<<<240, 157, 156, 97>>, 3>> }

decode_invalid == { <<t[1], <<None, t[2]>>>> : t \in DecodeInvalidCases }

\* The same cases but the sequence of four bytes cut short at the end.
decode_lossy ==
    { <<t[1], <<REPLACEMENT, t[2]>>>> :
        t \in DecodeInvalidCases \ {<<<<240, 157, 157>>, 3>>} }

\* The slice of the examples that decode in a loop, and its characters.
LoopBytes == snowman \o <<255, 240, 157, 158, 131, 226, 152, 97>>
LoopChars == <<9731, REPLACEMENT, 120707, REPLACEMENT, 97>>

DecodeExamples == { <<snowman, <<Some(9731), 3>>>>, <<<<226, 152>>, <<None, 2>>>> }

DecodeLoopExample == <<LoopBytes, LoopChars>>

DecodeLossyExamples ==
    { <<snowman, <<9731, 3>>>>, <<<<226, 152>>, <<REPLACEMENT, 2>>>> }

\* The loop pushes what decode_lossy returns, which is what unwrap_or makes
\* of what decode returns.
DecodeLossyLoopExample == <<LoopBytes, LoopChars>>

-----------------------------------------------------------------------------
(* The tests of decode_last and decode_last_lossy.                         *)

\* The loop of d and of the examples, from the end.
RECURSIVE DecodeLastAll(_)
DecodeLastAll(bytes) ==
    LET r == DecodeLast(bytes)
    IN  CASE bytes = <<>> -> <<>>
          [] r[2] = 0     -> <<Stuck>>
          [] OTHER        ->
                <<r[1]>> \o DecodeLastAll(Slice(bytes, 0, Len(bytes) - r[2]))

decode_last_valid == { <<Str(s), Somes(Reverse(s))>> : s \in ValidStrings }

DecodeLastInvalidCases ==
    { <<<<>>, 0>>, <<<<255>>, 1>>, <<<<206, 240>>, 1>>, <<<<206>>, 1>>,
      <<<<226, 152, 240>>, 1>>, <<<<226, 152>>, 2>>,
      <<<<240, 157, 157, 240>>, 1>>, <<<<240, 157, 157>>, 3>>,
      <<<<240, 130, 130, 172>>, 1>>, <<<<237, 160, 128>>, 1>>,
      <<<<237, 160>>, 1>>, <<<<237>>, 1>>, <<<<97, 206>>, 1>>,
      <<<<97, 226, 152>>, 2>>, <<<<97, 240, 157, 156>>, 3>> }

decode_last_invalid == { <<t[1], <<None, t[2]>>>> : t \in DecodeLastInvalidCases }

decode_last_lossy ==
    { <<t[1], <<REPLACEMENT, t[2]>>>> : t \in DecodeLastInvalidCases }

DecodeLastExamples ==
    { <<snowman, <<Some(9731), 3>>>>, <<<<226, 152>>, <<None, 2>>>> }

DecodeLastLoopExample == <<LoopBytes, Reverse(LoopChars)>>

DecodeLastLossyExamples ==
    { <<snowman, <<9731, 3>>>>, <<<<226, 152>>, <<REPLACEMENT, 2>>>> }

DecodeLastLossyLoopExample == <<LoopBytes, Reverse(LoopChars)>>

-----------------------------------------------------------------------------
(* The examples of as_bytes, of Chars and of CharIndices: <<the calls of   *)
(* next so far, what as_bytes returns>>, for the slice b"abc".             *)

abc == <<97, 98, 99>>

CharsAsBytesExample == {<<0, abc>>, <<1, <<98, 99>>>>, <<3, <<>>>>}

CharIndicesAsBytesExample == {<<0, abc>>, <<1, <<98, 99>>>>, <<3, <<>>>>}

\* The slices the iterators are given by a test or an example.
IteratorTestSlices ==
    {abc, LoopBytes} \cup {Str(s) : s \in ValidStrings}
        \cup {t[1] : t \in DecodeInvalidCases \cup DecodeLastInvalidCases}

=============================================================================
