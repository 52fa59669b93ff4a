------------------------------ MODULE ScriptEnv ------------------------------
(***************************************************************************)
(* The environment build_work gives a build script for what is known       *)
(* before the script runs: one CARGO_FEATURE_<F> per enabled feature and   *)
(* one CARGO_CFG_<K> per active cfg predicate of the unit's kind.          *)
(*                                                                         *)
(* The predicates come as a list of bare names and key=value pairs and are *)
(* first gathered in cfg_map, a hash map from the key to either None (a    *)
(* bare name) or the list of its values; the map is then walked, in the    *)
(* order of a hash map, that is any order.  envify, which upper-cases a    *)
(* name and turns '-' into '_', is a function that need not be injective.  *)
(***************************************************************************)
EXTENDS Naturals, Sequences, FiniteSets, SequencesExt

CONSTANTS
    Names,          \* the names of features and cfg keys
    Values,         \* the values of key=value predicates: sequences of tokens
    Envify,         \* Envify[n]: the name n as it appears in a variable
    Features,       \* cx.resolve.features(pkg): the enabled features
    MaxCfgs         \* bound on the number of predicates of cx.cfg(kind)

COMMA == ","

ASSUME
    /\ Features \subseteq Names
    /\ \A v \in Values : v \in Seq(STRING) /\ COMMA \notin ToSet(v)
    /\ MaxCfgs \in Nat

\* Cfg::Name and Cfg::KeyPair
Name(n)       == [key |-> n]
KeyPair(k, v) == [key |-> k, value |-> v]
IsName(c)     == DOMAIN c = {"key"}
Predicates    == {Name(n) : n \in Names} \cup {KeyPair(k, v) : k \in Names, v \in Values}

\* Option<Vec<String>>
None       == [some |-> FALSE]
Some(list) == [some |-> TRUE, list |-> list]

\* The names of the variables.
CargoFeature(n) == <<"CARGO_FEATURE", Envify[n]>>
CargoCfg(n)     == <<"CARGO_CFG", Envify[n]>>

\* list.join(",")
RECURSIVE Join(_)
Join(list) ==
    IF list = <<>> THEN <<>>
    ELSE IF Len(list) = 1 THEN list[1]
    ELSE list[1] \o <<COMMA>> \o Join(Tail(list))

VARIABLES
    cfg,            \* cx.cfg(unit.kind)
    i,              \* the predicates gathered so far
    features,       \* the features whose variable is not set yet
    cfg_map,
    walked,         \* the keys of cfg_map already walked
    env             \* the variables of cmd set here: name -> value

vars == <<cfg, i, features, cfg_map, walked, env>>

Set(e, name, value) ==
    [n \in DOMAIN e \cup {name} |-> IF n = name THEN value ELSE e[n]]

Init ==
    /\ cfg \in BoundedSeq(Predicates, MaxCfgs)
    /\ i = 0
    /\ features = Features
    /\ cfg_map = <<>>
    /\ walked = {}
    /\ env = <<>>

\* cmd.env(&format!("CARGO_FEATURE_{}", envify(feat)), "1")
SetFeature ==
    /\ \E feat \in features :
          /\ env' = Set(env, CargoFeature(feat), <<"1">>)
          /\ features' = features \ {feat}
    /\ UNCHANGED <<cfg, i, cfg_map, walked>>

Gathering == features = {} /\ i < Len(cfg)

\* Mutant: a bare name is entered only when the key is not in the map.
TakeNameIfAbsent ==
    /\ Gathering /\ IsName(cfg[i + 1])
    /\ cfg_map' = IF cfg[i + 1].key \in DOMAIN cfg_map THEN cfg_map
                  ELSE Set(cfg_map, cfg[i + 1].key, None)
    /\ i' = i + 1
    /\ UNCHANGED <<cfg, features, walked, env>>

\* Cfg::Name(n): cfg_map.insert(n, None)
TakeName ==
    /\ Gathering /\ IsName(cfg[i + 1])
    /\ cfg_map' = Set(cfg_map, cfg[i + 1].key, None)
    /\ i' = i + 1
    /\ UNCHANGED <<cfg, features, walked, env>>

\* The entry of k, or_insert(Some(Vec::new())).
EntryOf(k) == IF k \in DOMAIN cfg_map THEN cfg_map[k] ELSE Some(<<>>)

\* Mutant: the entry is made and the value is not pushed.
TakeKeyPairNoPush ==
    /\ Gathering /\ ~IsName(cfg[i + 1])
    /\ cfg_map' = Set(cfg_map, cfg[i + 1].key, EntryOf(cfg[i + 1].key))
    /\ i' = i + 1
    /\ UNCHANGED <<cfg, features, walked, env>>

\* Cfg::KeyPair(k, v): the value is pushed on the list of k, unless the
\* entry of k is None.
TakeKeyPair ==
    /\ Gathering /\ ~IsName(cfg[i + 1])
    /\ LET k == cfg[i + 1].key
           e == EntryOf(k)
       IN  cfg_map' = Set(cfg_map, k,
                          IF e.some THEN Some(Append(e.list, cfg[i + 1].value))
                          ELSE e)
    /\ i' = i + 1
    /\ UNCHANGED <<cfg, features, walked, env>>

Gathered == features = {} /\ i = Len(cfg)

\* The value of the variable of an entry of cfg_map.
ValueOf(v) == IF v.some THEN Join(v.list) ELSE <<>>

\* Mutant: no variable is set for a bare name.
SetCfgSkipsNames ==
    /\ Gathered
    /\ \E k \in DOMAIN cfg_map \ walked :
          /\ env' = IF cfg_map[k].some
                    THEN Set(env, CargoCfg(k), ValueOf(cfg_map[k])) ELSE env
          /\ walked' = walked \cup {k}
    /\ UNCHANGED <<cfg, i, features, cfg_map>>

\* for (k, v) in cfg_map: cmd.env("CARGO_CFG_" + envify(k), ...)
SetCfg ==
    /\ Gathered
    /\ \E k \in DOMAIN cfg_map \ walked :
          /\ env' = Set(env, CargoCfg(k), ValueOf(cfg_map[k]))
          /\ walked' = walked \cup {k}
    /\ UNCHANGED <<cfg, i, features, cfg_map>>

Next ==
    \/ SetFeature
    \/ TakeName
    \/ TakeKeyPair
    \/ SetCfg

Spec == Init /\ [][Next]_vars

-----------------------------------------------------------------------------
(* Properties.                                                             *)

EnvValues == Seq(UNION {ToSet(v) : v \in Values} \cup {COMMA, "1"})

TypeOK ==
    /\ cfg \in Seq(Predicates)
    /\ i \in 0 .. Len(cfg)
    /\ features \subseteq Features
    /\ DOMAIN cfg_map \subseteq Names
    /\ \A k \in DOMAIN cfg_map :
          cfg_map[k] = None
              \/ (cfg_map[k].some /\ cfg_map[k].list \in Seq(Values) \ {<<>>})
    /\ walked \subseteq DOMAIN cfg_map
    /\ \A n \in DOMAIN env : env[n] \in EnvValues

\* The predicates of key k gathered so far.
MetOf(k) == SelectSeq(SubSeq(cfg, 1, i), LAMBDA c : c.key = k)

\* A bare name silences its key for good: the entry of a key is None as
\* soon as the key was met as a bare name, before or after its values, and
\* else the values of the key in the order they were met.  (cfg_map.insert
\* replaces a list, and a value met after a bare name is dropped.)
BareNameSilencesKey ==
    \A k \in Names :
        LET met == MetOf(k) IN
        /\ k \in DOMAIN cfg_map <=> met # <<>>
        /\ k \in DOMAIN cfg_map =>
              cfg_map[k] = IF \E j \in DOMAIN met : IsName(met[j]) THEN None
                           ELSE Some([j \in DOMAIN met |-> met[j].value])

\* The keys of cfg_map whose variable is the variable of k: envify maps
\* `-` to `_` and lower case to upper case, so two keys can share one.
SharingVariable(k) == {o \in DOMAIN cfg_map : Envify[o] = Envify[k]}

\* Once the map is walked, every key has its variable, and the variable
\* carries the entry of a key it belongs to: of the key itself when no
\* other key shares the variable, whatever the order of the walk, and else
\* of one of the keys that share it (the walk of the hash map decides), so
\* that only keys that envify does not tell apart can make the environment
\* of a script differ from one run to the next.  No other CARGO_CFG_ variable is set,
\* and the variable of every feature is "1".
EnvCarriesCfgMap ==
    (Gathered /\ walked = DOMAIN cfg_map) =>
        /\ \A k \in DOMAIN cfg_map :
              /\ CargoCfg(k) \in DOMAIN env
              /\ env[CargoCfg(k)] \in {ValueOf(cfg_map[o]) : o \in SharingVariable(k)}
        /\ DOMAIN env = {CargoCfg(k) : k \in DOMAIN cfg_map}
                            \cup {CargoFeature(f) : f \in Features}
        /\ \A f \in Features : env[CargoFeature(f)] = <<"1">>

\* The design document on a key that is met both as a bare name and as
\* key=value: "last occurrence wins".  The variable of the key is then
\* empty exactly when the last predicate of the key is a bare name.
CfgLastOccurrenceWins ==
    (Gathered /\ walked = DOMAIN cfg_map) =>
        \A k \in DOMAIN cfg_map :
            LET met == MetOf(k) IN
            (\A other \in DOMAIN cfg_map \ {k} : Envify[other] # Envify[k])
                => (env[CargoCfg(k)] = <<>> <=> IsName(Last(met)))

=============================================================================
