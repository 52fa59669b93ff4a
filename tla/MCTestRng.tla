----------------------------- MODULE MCTestRng -----------------------------
(***************************************************************************)
(* TestRng for the model checker: recordings short enough to be split to   *)
(* nothing, seeds of the right and of the wrong length, and regression     *)
(* lines that from_persistence accepts, accepts although to_persistence    *)
(* never writes them, and refuses.                                         *)
(***************************************************************************)
EXTENDS TestRng

MCMaxRngs == 2
MCMaxArcs == 2

\* What the external generators return: zeros, which new_rng_seed perturbs
\* to dwords with both halves above 2^15.
MCEntropy == {<<0>>}

\* Seeds of the right and of the wrong length for the external generators;
\* for PassThrough a recording of three bytes, too short for next_u32, that
\* new_rng_seed splits down to windows of one byte and of none.
MCSeedBytes ==
    [alg \in Algorithms |->
        CASE alg = "XorShift"    -> {SubSeq(Hardcoded, 17, 32), <<7>>}
          [] alg = "ChaCha"      -> {Reverse(Hardcoded), SubSeq(Hardcoded, 1, 16)}
          [] alg = "PassThrough" -> {<<1, 2, 250>>}]

MCFillSizes == {0, 1}

Line(alg, words) == Spaced(<<PersistenceKey(alg)>> \o words)

Hex64 == ToBase16(SubSeq(Hardcoded, 1, 32))

MCTexts ==
    { <<>>,                                                 \* ""
      <<122, 122, 32, 48, 48>>,                             \* "zz 00"
      Line("XorShift", <<<<49>>, <<50>>, <<51>>>>),         \* "xs 1 2 3"
      \* "xs 4294967295 +7 007 0"
      Line("XorShift", <<<<52, 50, 57, 52, 57, 54, 55, 50, 57, 53>>,
                         <<43, 55>>, <<48, 48, 55>>, <<48>>>>),
      \* "xs 4294967296 0 0 0"
      Line("XorShift", <<<<52, 50, 57, 52, 57, 54, 55, 50, 57, 54>>,
                         <<48>>, <<48>>, <<48>>>>),
      Line("XorShift", <<<<49>>, <<>>, <<50>>, <<51>>>>),   \* "xs 1  2 3"
      Line("ChaCha", <<Tail(Hex64)>>),                      \* a digit short
      Line("ChaCha", <<<<45>> \o Tail(Hex64)>>),            \* "cc -4..."
      <<9>> \o Line("PassThrough", <<<<43, 65, 102, 102>>>>) \o <<10>>,   \* "\tpt +Aff\n"
      Line("PassThrough", <<<<48, 97, 102>>>>),             \* "pt 0af"
      Line("PassThrough", <<<<48, 103>>>>) }                \* "pt 0g"

=============================================================================
