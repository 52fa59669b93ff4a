----------------------------- MODULE ScriptSteps -----------------------------
(***************************************************************************)
(* The three sequential algorithms of custom_build.rs around the run of a  *)
(* build script, side by side: build_map, which says before the build what *)
(* every unit links; the loop of build_work that sets the environment of   *)
(* the script; and BuildOutput::parse, which reads what the script         *)
(* printed.  Each has its own data and none reads the variables of         *)
(* another, so a behaviour follows one of them from its call to its        *)
(* return, and the variables of the two others are not in use.             *)
(***************************************************************************)
EXTENDS Naturals, Sequences

CONSTANTS
    Units, HasCustomBuild, DepSets, Initial,        \* BuildScriptsMap
    Names, Values, Envify, Features, MaxCfgs,       \* ScriptEnv
    Inputs                                          \* BuildOutput

VARIABLES
    following,                                      \* the algorithm followed
    depTargets, units, out, stack, buildScripts, returned,  \* BuildScriptsMap
    cfg, i, features, cfg_map, walked, env,         \* ScriptEnv
    input, pos, acc, result                         \* BuildOutput

map_vars   == <<depTargets, units, out, stack, buildScripts, returned>>
env_vars   == <<cfg, i, features, cfg_map, walked, env>>
parse_vars == <<input, pos, acc, result>>
vars       == <<following, map_vars, env_vars, parse_vars>>

BM == INSTANCE BuildScriptsMap

SE == INSTANCE ScriptEnv

BO == INSTANCE BuildOutput

\* The variables of an algorithm that is not followed are not in use.
NoBuildMap ==
    /\ depTargets = <<>> /\ units = <<>> /\ out = <<>> /\ stack = <<>>
    /\ buildScripts = <<>> /\ returned = "nothing"

NoBuildWork ==
    cfg = <<>> /\ i = 0 /\ features = {} /\ cfg_map = <<>> /\ walked = {} /\ env = <<>>

NoParse == input = <<>> /\ pos = 0 /\ acc = <<>> /\ result = <<>>

Init ==
    \/ following = "build_map" /\ BM!Init /\ NoBuildWork /\ NoParse
    \/ following = "build_work" /\ SE!Init /\ NoBuildMap /\ NoParse
    \/ following = "parse" /\ BO!Init /\ NoBuildMap /\ NoBuildWork

InBuildMap(step) ==
    following = "build_map" /\ step /\ UNCHANGED <<following, env_vars, parse_vars>>

InBuildWork(step) ==
    following = "build_work" /\ step /\ UNCHANGED <<following, map_vars, parse_vars>>

InParse(step) ==
    following = "parse" /\ step /\ UNCHANGED <<following, map_vars, env_vars>>

\* The steps of build_map, and those of the loops of build_work.
BuildMapNext == InBuildMap(BM!Next)

BuildWorkNext == InBuildWork(SE!Next)

Next ==
    \/ InBuildMap(BM!BuildInitial)
    \/ InBuildMap(BM!Memoised)
    \/ InBuildMap(BM!Compute)
    \/ InBuildMap(BM!DepTargetsFails)
    \/ InBuildMap(BM!Descend)
    \/ InBuildMap(BM!Store)
    \/ InBuildMap(BM!Publish)
    \/ InBuildWork(SE!SetFeature)
    \/ InBuildWork(SE!TakeName)
    \/ InBuildWork(SE!TakeKeyPair)
    \/ InBuildWork(SE!SetCfg)
    \/ InParse(BO!SkipLine)
    \/ InParse(BO!TakeDirective)
    \/ InParse(BO!Bail)
    \/ InParse(BO!Return)

\* build_map and the loops of build_work are sequential code without a
\* wait: each takes its next step whenever it has one.
Spec == Init /\ [][Next]_vars /\ WF_vars(BuildMapNext) /\ WF_vars(BuildWorkNext)

-----------------------------------------------------------------------------
(* Properties: those of the three modules, each of the algorithm it is     *)
(* about.                                                                  *)

TypeOK ==
    /\ following \in {"build_map", "build_work", "parse"}
    /\ following = "build_map" => BM!TypeOK
    /\ following = "build_work" => SE!TypeOK
    /\ following = "parse" => BO!TypeOK

\* build_map: to_link of a unit is what the unit and the linkable units it
\* reaches link, each key once, whatever the order of the dependencies.
ToLinkIsLinkableClosure == following = "build_map" => BM!ToLinkIsLinkableClosure

\* build_map: the memo gives a unit met again what its computation gave.
MemoIsTransparent == following = "build_map" => BM!MemoIsTransparent

\* "a topologically-sorted list of dependency build-output identifiers":
\* build_map gives to_link with every key after the keys it needs.
ToLinkTopologicallySorted == following = "build_map" => BM!ToLinkTopologicallySorted

\* build_work: a key met as a bare name has an empty variable, wherever
\* its values stand in the list of predicates.
BareNameSilencesKey == following = "build_work" => SE!BareNameSilencesKey

\* build_work: the environment holds what cfg_map holds.
EnvCarriesCfgMap == following = "build_work" => SE!EnvCarriesCfgMap

\* build_work: of the predicates of a key the last one decides.
CfgLastOccurrenceWins == following = "build_work" => SE!CfgLastOccurrenceWins

\* BuildOutput::parse: the lists returned are those of the grammar of the
\* directives, and an error is returned exactly for a malformed one.
ParseFollowsGrammar == following = "parse" => BO!ParseFollowsGrammar

\* The variables build_work sets for the predicates of cfg.
CfgVariables == {SE!CargoCfg(cfg[k].key) : k \in DOMAIN cfg}

\* Every call returns, and with all it was called for.  build_map: the
\* recursion over the unit graph ends, although units are met again and
\* again, and when it returns Ok, cx.build_scripts has an entry for every
\* unit the initial units reach, which is where the compile of any of them
\* looks its flags up.  build_work: the loops end with a variable for every
\* feature and for every key of a cfg predicate.
EveryCallReturns ==
    /\ following = "build_map" ~>
            \/ returned = "Err"
            \/ returned = "Ok" /\ DOMAIN buildScripts = BM!ReachableFrom(Initial)
    /\ following = "build_work" ~>
            DOMAIN env = {SE!CargoFeature(f) : f \in Features} \cup CfgVariables

=============================================================================
