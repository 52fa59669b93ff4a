---------------------------- MODULE BuildOutput ----------------------------
(***************************************************************************)
(* The parser of a build script's standard output: BuildOutput::parse and  *)
(* BuildOutput::parse_rustc_flags of cargo_rustc/custom_build.rs.          *)
(*                                                                         *)
(* The bytes of the output are abstracted to tokens.  An input is a        *)
(* sequence of lines (the pieces between line feeds) and a line is a       *)
(* sequence of symbols: the separators WS, COLON and EQ, the symbol BAD    *)
(* for a byte that is not valid UTF-8, and words.  A word stands for a     *)
(* non-empty run of characters with no separator in it, so splitting and   *)
(* trimming do to a line of symbols what the code does to a line of        *)
(* characters.                                                             *)
(*                                                                         *)
(* The module gives the parser twice: as operators (Parse, used by the     *)
(* modules that run build scripts) and as the loop of the code, one step   *)
(* per line, whose result is compared with the grammar of the design       *)
(* document written without the loop (Grammar).                            *)
(***************************************************************************)
EXTENDS Naturals, Sequences, SequencesExt

CONSTANT Inputs      \* the script outputs the loop is run on

WS    == " "
COLON == ":"
EQ    == "="
BAD   == "<invalid-utf8>"

(***************************************************************************)
(* struct BuildOutput, and the two results of a fallible function.         *)
(***************************************************************************)
EmptyOutput ==
    [library_paths |-> <<>>, library_links |-> <<>>, cfgs |-> <<>>,
     metadata |-> <<>>, rerun_if_changed |-> <<>>, warnings |-> <<>>]

Ok(out)      == [ok |-> TRUE, out |-> out]
Failure(why) == [ok |-> FALSE, err |-> why]

-----------------------------------------------------------------------------
(* str::trim, str::trim_right, str::splitn(2, sep), split on whitespace.   *)

IsSpace(c)  == c = WS
NotSpace(c) == c # WS

TrimRight(s) == SubSeq(s, 1, SelectLastInSeq(s, NotSpace))

Trim(s) ==
    LET first == SelectInSeq(s, NotSpace)
    IN  IF first = 0 THEN <<>> ELSE SubSeq(TrimRight(s), first, Len(TrimRight(s)))

\* One or two pieces: the whole of s, or what is before and after the
\* first sep.
SplitOnce(s, sep) ==
    LET at == SelectInSeq(s, LAMBDA c : c = sep)
    IN  IF at = 0 THEN <<s>>
        ELSE <<SubSeq(s, 1, at - 1), SubSeq(s, at + 1, Len(s))>>

\* value.split(is_whitespace).filter(non-empty): the runs of symbols
\* between separators.
RECURSIVE Words(_)
Words(s) ==
    LET pieces == SplitOnce(s, WS)
        rest   == IF Len(pieces) = 1 THEN <<>> ELSE Words(pieces[2])
    IN  IF s = <<>> THEN <<>>
        ELSE IF pieces[1] = <<>> THEN rest
        ELSE <<pieces[1]>> \o rest

-----------------------------------------------------------------------------
(* BuildOutput::parse_rustc_flags: the flags are consumed in pairs, and    *)
(* the first pair that is not `-l X` or `-L Y` ends the parse.             *)

RECURSIVE FlagPairs(_, _)
FlagPairs(flags, acc) ==
    IF flags = <<>> THEN acc
    ELSE IF Head(flags) \notin {<<"-l">>, <<"-L">>} THEN Failure("OnlyLlFlags")
    ELSE IF Len(flags) = 1 THEN Failure("FlagWithoutValue")
    ELSE FlagPairs(SubSeq(flags, 3, Len(flags)),
                   IF Head(flags) = <<"-l">>
                   THEN [acc EXCEPT !.library_links = Append(@, flags[2])]
                   ELSE [acc EXCEPT !.library_paths = Append(@, flags[2])])

ParseRustcFlags(value) ==
    FlagPairs(Words(Trim(value)),
              [ok |-> TRUE, library_paths |-> <<>>, library_links |-> <<>>])

-----------------------------------------------------------------------------
(* One turn of the loop of BuildOutput::parse.                             *)

\* What the head of the loop makes of a line: nothing ("skip"), an error
\* ("wrong"), or a key and a value.
Classify(line) ==
    LET parts == SplitOnce(Trim(line), COLON)
        kv    == SplitOnce(parts[2], EQ)
    IN  IF BAD \in ToSet(line) \/ parts[1] # <<"cargo">> \/ Len(parts) = 1
        THEN [kind |-> "skip"]
        ELSE IF Len(kv) = 1 THEN [kind |-> "wrong"]
        ELSE [kind |-> "directive", key |-> kv[1], value |-> TrimRight(kv[2])]

\* The keys whose value is pushed on one list as it is.
ListOf ==
    [k \in {<<"rustc-link-lib">>, <<"rustc-link-search">>, <<"rustc-cfg">>,
            <<"warning">>, <<"rerun-if-changed">>} |->
        CASE k = <<"rustc-link-lib">>    -> "library_links"
          [] k = <<"rustc-link-search">> -> "library_paths"
          [] k = <<"rustc-cfg">>         -> "cfgs"
          [] k = <<"warning">>           -> "warnings"
          [] k = <<"rerun-if-changed">>  -> "rerun_if_changed"]

\* Mutant: the pair returned by parse_rustc_flags is taken as (links,
\* paths), as the names of its binding suggest.
DirectiveSwapped(out, key, value) ==
    LET flags == ParseRustcFlags(value)
    IN  CASE key = <<"rustc-flags">> /\ flags.ok ->
                Ok([out EXCEPT !.library_links = @ \o flags.library_paths,
                               !.library_paths = @ \o flags.library_links])
          [] key = <<"rustc-flags">> /\ ~flags.ok -> flags
          [] key \in DOMAIN ListOf ->
                Ok([out EXCEPT ![ListOf[key]] = Append(@, value)])
          [] OTHER ->
                Ok([out EXCEPT !.metadata = Append(@, <<key, value>>)])

\* The `match key` of the loop.
Directive(out, key, value) ==
    LET flags == ParseRustcFlags(value)
    IN  CASE key = <<"rustc-flags">> /\ flags.ok ->
                Ok([out EXCEPT !.library_links = @ \o flags.library_links,
                               !.library_paths = @ \o flags.library_paths])
          [] key = <<"rustc-flags">> /\ ~flags.ok -> flags
          [] key \in DOMAIN ListOf ->
                Ok([out EXCEPT ![ListOf[key]] = Append(@, value)])
          [] OTHER ->
                Ok([out EXCEPT !.metadata = Append(@, <<key, value>>)])

ParseLine(out, line) ==
    LET c == Classify(line)
    IN  CASE c.kind = "skip"      -> Ok(out)
          [] c.kind = "wrong"     -> Failure("WrongOutput")
          [] c.kind = "directive" -> Directive(out, c.key, c.value)

RECURSIVE ParseFrom(_, _)
ParseFrom(lines, out) ==
    IF lines = <<>> THEN Ok(out)
    ELSE LET r == ParseLine(out, Head(lines))
         IN  IF r.ok THEN ParseFrom(Tail(lines), r.out) ELSE r

Parse(input) == ParseFrom(input, EmptyOutput)

\* BuildOutput::parse_file: a file that cannot be read is an error too.
NoFile == <<"<no file>">>
ParseFile(file) == IF file = NoFile THEN Failure("Io") ELSE Parse(file)

-----------------------------------------------------------------------------
(* The loop of BuildOutput::parse as a state machine.                      *)

VARIABLES
    input,      \* the lines being parsed
    pos,        \* the number of lines consumed
    acc,        \* the six lists built so far
    result      \* Parsing, or what the function returned

vars == <<input, pos, acc, result>>

Parsing == [parsing |-> TRUE]

Init ==
    /\ input \in Inputs
    /\ pos = 0
    /\ acc = EmptyOutput
    /\ result = Parsing

Line == input[pos + 1]

\* `continue`: an undecodable line, a line that is not `cargo:...`.
SkipLine ==
    /\ result = Parsing /\ pos < Len(input)
    /\ Classify(Line).kind = "skip"
    /\ pos' = pos + 1
    /\ UNCHANGED <<input, acc, result>>

\* A directive that is taken: the lists grow.
TakeDirective ==
    /\ result = Parsing /\ pos < Len(input)
    /\ ParseLine(acc, Line).ok /\ Classify(Line).kind = "directive"
    /\ acc' = ParseLine(acc, Line).out
    /\ pos' = pos + 1
    /\ UNCHANGED <<input, result>>

\* `bail!`: the function returns the error and the lists are dropped.
Bail ==
    /\ result = Parsing /\ pos < Len(input)
    /\ ~ParseLine(acc, Line).ok
    /\ result' = ParseLine(acc, Line)
    /\ UNCHANGED <<input, pos, acc>>

\* The end of the input: Ok(BuildOutput {..}).
Return ==
    /\ result = Parsing /\ pos = Len(input)
    /\ result' = Ok(acc)
    /\ UNCHANGED <<input, pos, acc>>

Next == SkipLine \/ TakeDirective \/ Bail \/ Return

Spec == Init /\ [][Next]_vars

-----------------------------------------------------------------------------
(* The grammar of the design document, without the loop.                   *)

\* A line is a directive when, trimmed, it starts with `cargo:`.
AfterPrefix(line) ==
    LET t == Trim(line) IN SubSeq(t, 3, Len(t))
IsDirective(line) ==
    /\ BAD \notin ToSet(line)
    /\ IsPrefix(<<"cargo", COLON>>, Trim(line))
Malformed(line) == IsDirective(line) /\ EQ \notin ToSet(AfterPrefix(line))

\* The key is what is before the first `=`, the value what is after it,
\* without its trailing blanks.
KeyOf(line) ==
    CHOOSE k \in Prefixes(AfterPrefix(line)) :
        /\ EQ \notin ToSet(k)
        /\ IsPrefix(Append(k, EQ), AfterPrefix(line))
ValueOf(line) ==
    LET rest == AfterPrefix(line)
        v    == SubSeq(rest, Len(KeyOf(line)) + 2, Len(rest))
    IN  CHOOSE w \in Prefixes(v) :
            /\ w = <<>> \/ Last(w) # WS
            /\ \A i \in Len(w) + 1 .. Len(v) : v[i] = WS

\* The words of a value: the maximal runs without a blank.
WordsOf(v) ==
    LET starts == {i \in DOMAIN v : v[i] # WS /\ (i = 1 \/ v[i - 1] = WS)}
        EndOf(i) == CHOOSE j \in i .. Len(v) :
                        /\ \A k \in i .. j : v[k] # WS
                        /\ j = Len(v) \/ v[j + 1] = WS
        order == SetToSortSeq(starts, <)
    IN  [n \in DOMAIN order |-> SubSeq(v, order[n], EndOf(order[n]))]

\* `-l X` and `-L Y` pairs only.
FlagsLegal(v) ==
    /\ Len(WordsOf(v)) % 2 = 0
    /\ \A i \in DOMAIN WordsOf(v) : i % 2 = 1 => WordsOf(v)[i] \in {<<"-l">>, <<"-L">>}
FlagValues(v, flag) ==
    LET w == WordsOf(v)
    IN  FlattenSeq([i \in DOMAIN w |->
            IF i % 2 = 0 /\ w[i - 1] = flag THEN <<w[i]>> ELSE <<>>])

IsHardError(line) ==
    \/ Malformed(line)
    \/ IsDirective(line) /\ ~Malformed(line)
         /\ KeyOf(line) = <<"rustc-flags">> /\ ~FlagsLegal(ValueOf(line))

\* What a well-formed line adds to the list `field`.
Adds(line, field) ==
    LET k == KeyOf(line)
        v == ValueOf(line)
    IN  IF ~IsDirective(line) THEN <<>>
        ELSE IF k = <<"rustc-flags">> THEN
            CASE field = "library_links" -> FlagValues(v, <<"-l">>)
              [] field = "library_paths" -> FlagValues(v, <<"-L">>)
              [] OTHER -> <<>>
        ELSE IF k \in DOMAIN ListOf THEN
            IF ListOf[k] = field THEN <<v>> ELSE <<>>
        ELSE IF field = "metadata" THEN << <<k, v>> >> ELSE <<>>

Grammar(lines) ==
    IF \E i \in DOMAIN lines : IsHardError(lines[i])
    THEN [ok |-> FALSE]
    ELSE Ok([field \in DOMAIN EmptyOutput |->
                FlattenSeq([i \in DOMAIN lines |-> Adds(lines[i], field)])])

-----------------------------------------------------------------------------
(* Properties.                                                             *)

TypeOK ==
    /\ pos \in 0 .. Len(input)
    /\ DOMAIN acc = DOMAIN EmptyOutput
    /\ result = Parsing \/ result.ok \in BOOLEAN

\* The loop of BuildOutput::parse follows the grammar of the design
\* document: before every line the six lists are those the grammar gives
\* for the lines read so far, none of which is malformed, and what is
\* returned is what the grammar says of the whole input, an error exactly
\* when a line is malformed (a line without `=` after `cargo:`, a
\* rustc-flags value that is not made of `-l X` and `-L Y` pairs).
ParseFollowsGrammar ==
    IF result = Parsing
    THEN Grammar(SubSeq(input, 1, pos)) = Ok(acc)
    ELSE /\ result.ok = Grammar(input).ok
         /\ result.ok => result = Grammar(input)

=============================================================================
