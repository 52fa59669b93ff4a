--------------------------- MODULE BuildScriptsMap ---------------------------
(***************************************************************************)
(* build_map: for every unit of the build, the build scripts whose output  *)
(* the unit has to consider.  `to_link` lists the (package, kind) pairs    *)
(* whose -L flags are passed on, in the order they are passed; `plugins`   *)
(* the packages whose scripts ran for a host dependency.                   *)
(*                                                                         *)
(* The function is a recursion over the unit graph that memoises what it   *)
(* returns in `out`.  The recursion is modelled with its call stack, one   *)
(* step per call, pre-flight check, loop iteration and return, so that the *)
(* order in which units are first met, which depends on the order of the   *)
(* initial units and of every dependency list, is explored.                *)
(***************************************************************************)
EXTENDS Naturals, Sequences, FiniteSets, SequencesExt, TLC

CONSTANTS
    Units,          \* records [pkg, kind, for_host, linkable, custom_build]
    HasCustomBuild, \* the packages that have a build script
    DepSets,        \* DepSets[u]: the units dep_targets(u) returns
    Initial         \* the units build_map is called with

Packages == {u.pkg : u \in Units}
Kinds    == {u.kind : u \in Units}
Keys     == Packages \X Kinds

RECURSIVE ReachableFrom(_)
ReachableFrom(S) ==
    LET more == S \cup UNION {DepSets[u] : u \in S}
    IN  IF more = S THEN S ELSE ReachableFrom(more)

ASSUME
    /\ HasCustomBuild \subseteq Packages
    /\ Initial \subseteq Units
    /\ \A u \in Units : DepSets[u] \subseteq Units
    /\ \A u \in Units : \A d \in DepSets[u] : u \notin ReachableFrom({d})

VARIABLES
    depTargets,     \* dep_targets: the dependencies of a unit, in order
    units,          \* the initial units not yet visited, in order
    out,            \* the memo: unit -> BuildScripts
    stack,          \* the calls of `build` in progress, innermost last
    buildScripts,   \* cx.build_scripts
    returned        \* what build_map returned: Ok, Err, or nothing yet

vars == <<depTargets, units, out, stack, buildScripts, returned>>

\* BuildScripts::default()
Default == [to_link |-> <<>>, seen_to_link |-> {}, plugins |-> {}]

Key(u) == <<u.pkg, u.kind>>

\* The unit is not the script itself, and its package has one.
LinksOwnScript(u) == ~u.custom_build /\ u.pkg \in HasCustomBuild

AddToLink(scripts, key) ==
    IF key \in scripts.seen_to_link THEN scripts
    ELSE [scripts EXCEPT !.seen_to_link = @ \cup {key},
                         !.to_link = Append(@, key)]

ExtendToLink(scripts, keys) == FoldLeft(AddToLink, scripts, keys)

\* One iteration of the loop over the dependencies, after the call: what
\* the dependency brings to the unit.
Merged(ret, dep, depScripts) ==
    IF dep.for_host
    THEN [ret EXCEPT !.plugins = @ \cup {k[1] : k \in ToSet(depScripts.to_link)}]
    ELSE IF dep.linkable THEN ExtendToLink(ret, depScripts.to_link)
    ELSE ret

Call(u) == [unit |-> u, ret |-> Default, next |-> 0]

Top == stack[Len(stack)]

\* Mutant: what a call returns is dropped by the loop of the caller.
ReturnedDropped(memo) ==
    IF Len(stack) = 1 THEN <<>>
    ELSE LET caller == stack[Len(stack) - 1]
         IN  Append(SubSeq(stack, 1, Len(stack) - 2),
                    [caller EXCEPT !.next = @ + 1])

\* The stack after the innermost call has returned &memo[unit]: the caller,
\* if there is one, merges it and goes on with its next dependency.
Returned(memo) ==
    IF Len(stack) = 1 THEN <<>>
    ELSE LET caller == stack[Len(stack) - 1]
         IN  Append(SubSeq(stack, 1, Len(stack) - 2),
                    [caller EXCEPT !.ret = Merged(@, Top.unit, memo[Top.unit]),
                                   !.next = @ + 1])

\* Every way to put the dependencies of the units of S in an order.
RECURSIVE Orderings(_)
Orderings(S) ==
    IF S = {} THEN {<<>>}
    ELSE LET u == CHOOSE u \in S : TRUE
         IN  {(u :> order) @@ rest :
                 order \in SetToSeqs(DepSets[u]), rest \in Orderings(S \ {u})}

Init ==
    /\ depTargets \in Orderings(Units)
    /\ units \in SetToSeqs(Initial)
    /\ out = <<>>
    /\ stack = <<>>
    /\ buildScripts = <<>>
    /\ returned = "nothing"

-----------------------------------------------------------------------------

\* for unit in units { build(&mut ret, cx, unit)?; }
BuildInitial ==
    /\ returned = "nothing"
    /\ stack = <<>> /\ units # <<>>
    /\ stack' = <<Call(Head(units))>>
    /\ units' = Tail(units)
    /\ UNCHANGED <<depTargets, out, buildScripts, returned>>

\* The pre-flight check finds the unit: the memoised value is returned.
Memoised ==
    /\ stack # <<>> /\ Top.next = 0
    /\ Top.unit \in DOMAIN out
    /\ stack' = Returned(out)
    /\ UNCHANGED <<depTargets, units, out, buildScripts, returned>>

\* The unit is new: its own script first.
Compute ==
    /\ stack # <<>> /\ Top.next = 0
    /\ Top.unit \notin DOMAIN out
    /\ stack' = [stack EXCEPT
                    ![Len(stack)].next = 1,
                    ![Len(stack)].ret = IF LinksOwnScript(Top.unit)
                                        THEN AddToLink(Default, Key(Top.unit))
                                        ELSE Default]
    /\ UNCHANGED <<depTargets, units, out, buildScripts, returned>>

\* dep_targets returns an error for the unit: every call in progress
\* returns it, and build_map returns it with cx.build_scripts as it was.
DepTargetsFails ==
    /\ stack # <<>> /\ Top.next = 0
    /\ Top.unit \notin DOMAIN out
    /\ stack' = <<>>
    /\ returned' = "Err"
    /\ UNCHANGED <<depTargets, units, out, buildScripts>>

\* The recursive call for the next dependency.
Descend ==
    /\ stack # <<>> /\ Top.next \in DOMAIN depTargets[Top.unit]
    /\ stack' = Append(stack, Call(depTargets[Top.unit][Top.next]))
    /\ UNCHANGED <<depTargets, units, out, buildScripts, returned>>

\* Mutant: the plugins of `ret` are not carried over to the entry.
EntryWithoutPlugins(memo, frame) ==
    ExtendToLink(IF frame.unit \in DOMAIN memo THEN memo[frame.unit] ELSE Default,
                 frame.ret.to_link)

\* The value of the unit in the memo once `ret` is merged into the entry.
Entry(memo, frame) ==
    LET prev == IF frame.unit \in DOMAIN memo THEN memo[frame.unit] ELSE Default
    IN  [ExtendToLink(prev, frame.ret.to_link)
            EXCEPT !.plugins = @ \cup frame.ret.plugins]

\* The loop is over: the result is stored in the memo and returned.
Store ==
    /\ stack # <<>> /\ Top.next > Len(depTargets[Top.unit])
    /\ out' = [u \in DOMAIN out \cup {Top.unit} |->
                  IF u = Top.unit THEN Entry(out, Top) ELSE out[u]]
    /\ stack' = Returned(out')
    /\ UNCHANGED <<depTargets, units, buildScripts, returned>>

\* Mutant: only the entries of the initial units are published.
PublishInitial ==
    /\ returned = "nothing"
    /\ stack = <<>> /\ units = <<>>
    /\ buildScripts' = [u \in DOMAIN out \cap Initial |-> out[u]]
    /\ returned' = "Ok"
    /\ UNCHANGED <<depTargets, units, out, stack>>

\* cx.build_scripts.extend(ret); return Ok(())
Publish ==
    /\ returned = "nothing"
    /\ stack = <<>> /\ units = <<>>
    /\ buildScripts' = out
    /\ returned' = "Ok"
    /\ UNCHANGED <<depTargets, units, out, stack>>

Next ==
    \/ BuildInitial
    \/ Memoised
    \/ Compute
    \/ DepTargetsFails
    \/ Descend
    \/ Store
    \/ Publish

Spec == Init /\ [][Next]_vars

-----------------------------------------------------------------------------
(* Reference definitions: what a unit links, said without memo or stack.   *)

\* The entries of s, each at its first occurrence.
FirstOccurrences(s) ==
    LET first == {i \in DOMAIN s : \A j \in 1 .. i - 1 : s[j] # s[i]}
        order == SetToSortSeq(first, <)
    IN  [i \in DOMAIN order |-> s[order[i]]]

PassesLinks(d) == ~d.for_host /\ d.linkable

RECURSIVE DirectToLink(_)
DirectToLink(u) ==
    LET deps    == depTargets[u]
        own     == IF LinksOwnScript(u) THEN <<Key(u)>> ELSE <<>>
        brought == [i \in DOMAIN deps |->
                       IF PassesLinks(deps[i]) THEN DirectToLink(deps[i]) ELSE <<>>]
    IN  FirstOccurrences(own \o FlattenSeq(brought))

DirectPlugins(u) ==
    {k[1] : k \in UNION {ToSet(DirectToLink(d)) :
                            d \in {d \in DepSets[u] : d.for_host}}}

\* The units whose link flags reach u: u, and what it links transitively.
RECURSIVE LinkedFrom(_)
LinkedFrom(S) ==
    LET more == S \cup UNION {{d \in DepSets[u] : PassesLinks(d)} : u \in S}
    IN  IF more = S THEN S ELSE LinkedFrom(more)

\* x needs y: a unit of x depends, directly or not, on a unit of y.
Needs(x, y) ==
    \E u, v \in Units :
        /\ Key(u) = x /\ Key(v) = y /\ u # v
        /\ v \in ReachableFrom({u})

-----------------------------------------------------------------------------
(* Properties.                                                             *)

BuildScriptsType ==
    [to_link : Seq(Keys), seen_to_link : SUBSET Keys, plugins : SUBSET Packages]

TypeOK ==
    /\ \A u \in Units : depTargets[u] \in Seq(Units)
    /\ units \in Seq(Units)
    /\ DOMAIN out \subseteq Units
    /\ \A u \in DOMAIN out : out[u] \in BuildScriptsType
    /\ \A i \in DOMAIN stack :
          /\ stack[i].unit \in Units
          /\ stack[i].ret \in BuildScriptsType
          /\ stack[i].next \in 0 .. Cardinality(Units)
    /\ DOMAIN buildScripts \subseteq Units
    /\ returned \in {"nothing", "Ok", "Err"}

\* No -L flag is lost and none is passed twice: the to_link of a unit holds
\* exactly the packages with a build script among the unit and the units it
\* links, directly or through linkable dependencies, each of them once, and
\* seen_to_link is the set of its entries, although a dependency met a
\* second time is answered from the memo and not walked again.
ToLinkIsLinkableClosure ==
    \A u \in DOMAIN out :
        /\ ToSet(out[u].to_link) =
               {Key(v) : v \in {w \in LinkedFrom({u}) : LinksOwnScript(w)}}
        /\ Len(out[u].to_link) = Cardinality(out[u].seen_to_link)
        /\ out[u].seen_to_link = ToSet(out[u].to_link)

\* The memo is transparent: the entry of a unit is what the recursion gives
\* without a memo, the same sequence entry for entry, so the order of the
\* -L flags of a unit depends on the graph alone and not on which initial
\* unit was given first or which unit was memoised before which.
MemoIsTransparent ==
    \A u \in DOMAIN out :
        /\ out[u].to_link = DirectToLink(u)
        /\ out[u].plugins = DirectPlugins(u)

\* The comment on BuildScripts::to_link: "we need to preserve the ordering
\* of `to_link` to be topologically sorted".  Whichever way the sort is
\* read, dependents first or dependencies first, no entry comes on the
\* wrong side of an entry it needs.
ToLinkTopologicallySorted ==
    \A u \in DOMAIN out :
        LET l == out[u].to_link IN
        \/ \A i, j \in DOMAIN l : i < j => ~Needs(l[j], l[i])
        \/ \A i, j \in DOMAIN l : i < j => ~Needs(l[i], l[j])

=============================================================================
