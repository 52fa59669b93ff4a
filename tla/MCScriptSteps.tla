---------------------------- MODULE MCScriptSteps ----------------------------
(***************************************************************************)
(* ScriptSteps for TLC.                                                    *)
(*                                                                         *)
(* build_map: a build with a binary, three libraries of which one is also  *)
(* built for the host, a compiler plugin and the run of a build script;    *)
(* every order of the initial units and of every dependency list is        *)
(* explored.                                                               *)
(*                                                                         *)
(* build_work: three names of which two have the same variable, two        *)
(* values, and up to three predicates: enough for a key met as a bare name *)
(* before, after and between its values, and for two keys walked in either *)
(* order.                                                                  *)
(*                                                                         *)
(* parse: bounded script outputs.                                          *)
(***************************************************************************)
EXTENDS ScriptSteps, SequencesExt, TLC

-----------------------------------------------------------------------------
(* build_map                                                               *)

Lib(pkg, kind) ==
    [pkg |-> pkg, kind |-> kind, for_host |-> FALSE, linkable |-> TRUE,
     custom_build |-> FALSE]

\* The binary of package a.
Bin ==
    [pkg |-> "a", kind |-> "Target", for_host |-> FALSE, linkable |-> FALSE,
     custom_build |-> FALSE]

\* The compiler plugin p, built for the host.
Plugin ==
    [pkg |-> "p", kind |-> "Host", for_host |-> TRUE, linkable |-> TRUE,
     custom_build |-> FALSE]

\* The run of the build script of package b.
RunScript ==
    [pkg |-> "b", kind |-> "Target", for_host |-> TRUE, linkable |-> FALSE,
     custom_build |-> TRUE]

A  == Lib("a", "Target")
B  == Lib("b", "Target")
C  == Lib("c", "Target")
CH == Lib("c", "Host")

MCUnits == {Bin, A, B, C, CH, Plugin, RunScript}

MCHasCustomBuild == {"a", "b", "c", "p"}

MCDepSets ==
    (Bin :> {A}) @@ (A :> {B, C, Plugin}) @@ (B :> {C, RunScript}) @@
    (C :> {}) @@ (CH :> {}) @@ (Plugin :> {CH}) @@ (RunScript :> {})

MCInitial == {Bin, B, Plugin}

-----------------------------------------------------------------------------
(* build_work                                                              *)

MCNames    == {"unix", "feat-x", "feat_x"}
MCValues   == {<<"v">>, <<"w">>}
MCEnvify   == ("unix" :> "UNIX") @@ ("feat-x" :> "FEAT_X") @@ ("feat_x" :> "FEAT_X")
MCFeatures == {"feat-x", "feat_x"}

-----------------------------------------------------------------------------
(* parse                                                                   *)

\* The symbols of BuildOutput.
WS    == " "
COLON == ":"
EQ    == "="
BAD   == "<invalid-utf8>"

\* Every line of at most MaxLineLen symbols over a small alphabet: all the
\* ways blanks, `:` and `=` can surround `cargo`, a known key and a word.
MaxLineLen == 5
SingleLines ==
    {<<l>> : l \in BoundedSeq({WS, COLON, EQ, "cargo", "rustc-cfg", "k"}, MaxLineLen)}

\* Every rustc-flags value of at most MaxFlagsLen symbols.
MaxFlagsLen == 5
FlagLines ==
    {<< <<"cargo", COLON, "rustc-flags", EQ>> \o v >> :
        v \in BoundedSeq({WS, "-l", "-L", "x"}, MaxFlagsLen)}

\* Outputs of at most MaxLines lines, one line of every kind the loop
\* tells apart.
MaxLines == 3
LineKinds ==
    { <<"cargo", COLON, "rustc-link-lib", EQ, "a">>,
      <<"cargo", COLON, "rustc-link-search", EQ, "p", WS>>,
      <<"cargo", COLON, "rustc-flags", EQ, "-l", WS, "b", WS, "-L", WS, "q">>,
      <<"cargo", COLON, "rustc-cfg", EQ, "c">>,
      <<"cargo", COLON, "warning", EQ, "w">>,
      <<"cargo", COLON, "rerun-if-changed", EQ, "f">>,
      <<WS, "cargo", COLON, "k", EQ, WS, "v">>,
      <<"cargo", COLON, "k", BAD, EQ, "v">>,
      <<"cargo", COLON, "oops">>,
      <<"cargo", COLON, "rustc-flags", EQ, "-l">>,
      <<"hello">> }
ManyLines == BoundedSeq(LineKinds, MaxLines)

MCInputs == SingleLines \cup FlagLines \cup ManyLines

=============================================================================
