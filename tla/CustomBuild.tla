---------------------------- MODULE CustomBuild ----------------------------
(***************************************************************************)
(* The run-script jobs of cargo_rustc/custom_build.rs: `prepare`, the      *)
(* dirty and fresh closures of `build_work`, and BuildState.               *)
(*                                                                         *)
(* A unit is a (package, kind) pair, which is also its key in              *)
(* BuildState.outputs.  What survives a build is on disk: the `output`     *)
(* file of every unit (the stdout of its script) and its fingerprint.      *)
(* What a build holds in memory is BuildState.outputs and one job per      *)
(* unit.  The process may be killed and started again at any step, and     *)
(* the sources of a package may be edited at any step.                     *)
(*                                                                         *)
(* The bytes a script prints are abstracted to what they are a function    *)
(* of: the stamp of the sources the script read and the outputs of its     *)
(* dependencies, which it is given as DEP_ variables.  The parser is the   *)
(* module BuildOutput; here a stdout either parses or is Garbled.          *)
(*                                                                         *)
(* The fingerprint engine and the scheduler are not part of this file:     *)
(* Snapshot, Freshness, WriteFingerprint, KeepFingerprint and Runnable     *)
(* follow the design document (sections 4.3 and 4.5).                      *)
(***************************************************************************)
EXTENDS Naturals, FiniteSets

CONSTANTS
    Units,          \* the run-script units: records [pkg, kind]
    LibDeps,        \* LibDeps[u]: the packages whose run-script units u depends on
    Overridden,     \* the units whose `links` name has an override for their kind
    MaxStamp,       \* input stamps are 1 .. MaxStamp
    Garbled,        \* the stamps at which a script prints a malformed directive
    ContentStamps   \* TRUE: a stamp is a content hash, and can come back

Stamps   == 1 .. MaxStamp
Packages == {u.pkg : u \in Units}

Key(id, kind) == [pkg |-> id, kind |-> kind]

\* The keys the dirty closure looks up: the dependency's package id with
\* the kind of the unit that is running.
DepKeys(u) == {Key(id, u.kind) : id \in LibDeps[u]}

RECURSIVE ReachableFrom(_)
ReachableFrom(S) ==
    LET more == S \cup UNION {DepKeys(v) : v \in S}
    IN  IF more = S THEN S ELSE ReachableFrom(more)

ASSUME
    /\ Overridden \subseteq Units
    /\ Garbled \subseteq Stamps
    /\ ContentStamps \in BOOLEAN
    /\ \A u \in Units : LibDeps[u] \subseteq Packages
       \* dep_run_custom_build yields units of the kind of u, and no cycle
    /\ \A u \in Units : DepKeys(u) \subseteq Units
    /\ \A u \in Units : u \notin ReachableFrom(DepKeys(u))

-----------------------------------------------------------------------------
(* Values.                                                                 *)

NoFile        == [from |-> "nofile"]    \* the `output` file does not exist
NoFingerprint == <<>>

\* What a script prints, given the sources and the DEP_ variables it read.
Stdout(stamp, env) == [from |-> "stdout", own |-> stamp, env |-> env]

None              == [from |-> "none"]
OverrideOutput(u) == [from |-> "override"]
ScriptOutput(stdout) == [from |-> "script", own |-> stdout.own, env |-> stdout.env]

\* BuildOutput::parse on captured stdout, and parse_file(..).ok().
ParseOk(stdout) == stdout.own \notin Garbled
ParseFile(file) ==
    IF file # NoFile /\ ParseOk(file) THEN ScriptOutput(file) ELSE None

Stages ==
    {"new", "queued", "running", "executed", "written", "worked", "done", "failed"}

NewJob ==
    [stage |-> "new", fresh |-> FALSE, judged |-> NoFingerprint, prev |-> None,
     env |-> <<>>, stdout |-> NoFile]

VARIABLES
    inputs,         \* disk: the stamp of every package's sources
    outputFile,     \* disk: the `output` file of every unit
    fingerprint,    \* disk: the fingerprint of every unit
    seen,           \* memory: the stamps the build computes fingerprints from
    outputs,        \* memory: BuildState.outputs
    job             \* memory: the Work prepared for every unit

disk   == <<inputs, outputFile, fingerprint>>
memory == <<seen, outputs, job>>
vars   == <<inputs, outputFile, fingerprint, seen, outputs, job>>

Init ==
    /\ inputs = [p \in Packages |-> 1]
    /\ outputFile = [u \in Units |-> NoFile]
    /\ fingerprint = [u \in Units |-> NoFingerprint]
    /\ seen = inputs
    /\ outputs = [u \in Units |-> None]
    /\ job = [u \in Units |-> NewJob]

\* The process starts: BuildState::new.  Whatever an earlier process held
\* in memory is gone, at whichever step it stopped.
NewBuild ==
    /\ seen' = inputs
    /\ outputs' = [u \in Units |-> None]
    /\ job' = [u \in Units |-> NewJob]
    /\ UNCHANGED disk

\* BuildState::insert.
Insert(u, output) == outputs' = [outputs EXCEPT ![u] = output]

-----------------------------------------------------------------------------
(* prepare.                                                                *)

\* The fingerprint of a unit covers its sources and those of every unit
\* it depends on.  A unit is Fresh when its fingerprint on disk is the one
\* computed now and every unit it depends on is Fresh; an overridden
\* script always is.
Snapshot(u) == [d \in ReachableFrom({u}) \ Overridden |-> seen[d.pkg]]
UpToDate(u) == u \in Overridden \/ fingerprint[u] = Snapshot(u)
Freshness(u) == \A d \in ReachableFrom({u}) : UpToDate(d)

Queued(u, prev) ==
    job' = [job EXCEPT ![u] = [NewJob EXCEPT !.stage = "queued",
                                             !.fresh = Freshness(u),
                                             !.judged = Snapshot(u),
                                             !.prev = prev]]

\* has_override: the unit's `links` name has an override for its kind.
HasOverride(u) == u \in Overridden

\* Mutant: has_override answers and registers nothing.
PrepareOverriddenNoInsert(u) ==
    /\ job[u].stage = "new" /\ HasOverride(u)
    /\ Queued(u, None)
    /\ UNCHANGED <<disk, seen, outputs>>

\* prepare when has_override finds an override: has_override puts it in
\* BuildState now, and both works are empty.
PrepareOverridden(u) ==
    /\ job[u].stage = "new" /\ HasOverride(u)
    /\ Insert(u, OverrideOutput(u))
    /\ Queued(u, None)
    /\ UNCHANGED <<disk, seen>>

\* prepare through build_work: the saved output is read now and kept for
\* the fresh work (its rerun-if-changed list goes to build_explicit_deps).
PrepareBuildWork(u) ==
    /\ job[u].stage = "new" /\ ~HasOverride(u)
    /\ Queued(u, ParseFile(outputFile[u]))
    /\ UNCHANGED <<disk, seen, outputs>>

-----------------------------------------------------------------------------
(* The works.                                                              *)

SetStage(u, stage) == job' = [job EXCEPT ![u].stage = stage]

\* The lookup of the dirty closure fails for some dependency.
MissingDepState(u) == \E key \in DepKeys(u) : outputs[key] = None

\* Mutant: the metadata is read when the work is made, before any
\* dependency has run.
DirtyStartEarlyEnv(u) ==
    /\ job[u].stage = "queued" /\ ~job[u].fresh /\ u \notin Overridden
    /\ job' = [job EXCEPT ![u].stage = "running",
                          ![u].env = [key \in DepKeys(u) |-> None]]
    /\ UNCHANGED <<disk, seen, outputs>>

\* The dirty closure up to the spawn: the metadata of the dependencies is
\* read under the lock of BuildState and put in the environment of the
\* script, and the work fails with `failed to locate build state` when a
\* dependency has none.
DirtyStart(u) ==
    /\ job[u].stage = "queued" /\ ~job[u].fresh /\ u \notin Overridden
    /\ job' = IF MissingDepState(u)
              THEN [job EXCEPT ![u].stage = "failed"]
              ELSE [job EXCEPT ![u].stage = "running",
                               ![u].env = [key \in DepKeys(u) |-> outputs[key]]]
    /\ UNCHANGED <<disk, seen, outputs>>

\* The dirty closure fails before the spawn for a reason of its
\* surroundings: OUT_DIR cannot be made, or add_plugin_deps returns an
\* error.
DirtyStartFails(u) ==
    /\ job[u].stage = "queued" /\ ~job[u].fresh /\ u \notin Overridden
    /\ SetStage(u, "failed")
    /\ UNCHANGED <<disk, seen, outputs>>

\* The script exits with status 0: its stdout is captured.
ExecOk(u) ==
    /\ job[u].stage = "running"
    /\ job' = [job EXCEPT ![u].stage = "executed",
                          ![u].stdout = Stdout(inputs[u.pkg], job[u].env)]
    /\ UNCHANGED <<disk, seen, outputs>>

\* The script cannot be run or exits with another status.
ExecFail(u) ==
    /\ job[u].stage = "running"
    /\ SetStage(u, "failed")
    /\ UNCHANGED <<disk, seen, outputs>>

\* Mutant: the stdout is kept in memory and never saved.
DirtyWriteSkipped(u) ==
    /\ job[u].stage = "executed"
    /\ SetStage(u, "written")
    /\ UNCHANGED <<disk, seen, outputs>>

\* paths::write: the stdout is written to the output file.
DirtyWrite(u) ==
    /\ job[u].stage = "executed"
    /\ outputFile' = [outputFile EXCEPT ![u] = job[u].stdout]
    /\ SetStage(u, "written")
    /\ UNCHANGED <<inputs, fingerprint, seen, outputs>>

\* paths::write returns an error: the file is as it was.
DirtyWriteFails(u) ==
    /\ job[u].stage = "executed"
    /\ SetStage(u, "failed")
    /\ UNCHANGED <<disk, seen, outputs>>

\* The rest of the dirty closure: the stdout is parsed and the output put
\* in BuildState; when the parse fails the work fails, with the file
\* written already.
DirtyStore(u) ==
    /\ job[u].stage = "written"
    /\ IF ParseOk(job[u].stdout)
       THEN Insert(u, ScriptOutput(job[u].stdout)) /\ SetStage(u, "worked")
       ELSE SetStage(u, "failed") /\ UNCHANGED outputs
    /\ UNCHANGED <<disk, seen>>

\* What the fresh closure registers: the output read by prepare, or else
\* the file read again.
FreshOutput(u) ==
    IF job[u].prev # None THEN job[u].prev ELSE ParseFile(outputFile[u])

\* The fresh closure: the output is registered, and the work fails when
\* there was none to read and parse_file fails again.
FreshWork(u) ==
    /\ job[u].stage = "queued" /\ job[u].fresh /\ u \notin Overridden
    /\ IF FreshOutput(u) # None
       THEN Insert(u, FreshOutput(u)) /\ SetStage(u, "worked")
       ELSE SetStage(u, "failed") /\ UNCHANGED outputs
    /\ UNCHANGED <<disk, seen>>

\* The empty work of an overridden script.
NoopWork(u) ==
    /\ job[u].stage = "queued" /\ u \in Overridden
    /\ SetStage(u, "worked")
    /\ UNCHANGED <<disk, seen, outputs>>

\* Mutant: the dirty job ends without saving the fingerprint.
WriteFingerprintSkipped(u) ==
    /\ job[u].stage = "worked" /\ ~job[u].fresh
    /\ SetStage(u, "done")
    /\ UNCHANGED <<disk, seen, outputs>>

\* work_dirty.then(dirty): the fingerprint computed by prepare is saved.
WriteFingerprint(u) ==
    /\ job[u].stage = "worked" /\ ~job[u].fresh
    /\ fingerprint' = [fingerprint EXCEPT ![u] = job[u].judged]
    /\ SetStage(u, "done")
    /\ UNCHANGED <<inputs, outputFile, seen, outputs>>

\* The fingerprint cannot be written: the unit fails.
WriteFingerprintFails(u) ==
    /\ job[u].stage = "worked" /\ ~job[u].fresh
    /\ SetStage(u, "failed")
    /\ UNCHANGED <<disk, seen, outputs>>

\* work_fresh.then(fresh): nothing is written, and the unit fails when the
\* fingerprint on disk is no longer the one it was judged on.
KeepFingerprint(u) ==
    /\ job[u].stage = "worked" /\ job[u].fresh
    /\ SetStage(u, IF u \in Overridden \/ fingerprint[u] = job[u].judged
                   THEN "done" ELSE "failed")
    /\ UNCHANGED <<disk, seen, outputs>>

-----------------------------------------------------------------------------
(* The environment.                                                        *)

\* What the scheduler promises a job that starts: every unit is prepared
\* and every unit it depends on is done.
Runnable(u) ==
    /\ \A v \in Units : job[v].stage # "new"
    /\ \A d \in DepKeys(u) : job[d].stage = "done"

\* The sources of a package change.  A stamp taken from modification
\* times is new each time; a content hash can be one seen before.
NextStamps(p) ==
    IF ContentStamps THEN Stamps \ {inputs[p]} ELSE {inputs[p] + 1} \cap Stamps

\* The packages whose sources some script that runs reads.
Scripted == {u.pkg : u \in Units \ Overridden}

Edit(p) ==
    /\ \E s \in NextStamps(p) : inputs' = [inputs EXCEPT ![p] = s]
    /\ UNCHANGED <<outputFile, fingerprint, memory>>

Next ==
    \/ NewBuild
    \/ \E u \in Units : PrepareOverridden(u)
    \/ \E u \in Units : PrepareBuildWork(u)
    \/ \E u \in Units : Runnable(u) /\ DirtyStart(u)
    \/ \E u \in Units : Runnable(u) /\ DirtyStartFails(u)
    \/ \E u \in Units : Runnable(u) /\ FreshWork(u)
    \/ \E u \in Units : Runnable(u) /\ NoopWork(u)
    \/ \E u \in Units : ExecOk(u)
    \/ \E u \in Units : ExecFail(u)
    \/ \E u \in Units : DirtyWrite(u)
    \/ \E u \in Units : DirtyWriteFails(u)
    \/ \E u \in Units : DirtyStore(u)
    \/ \E u \in Units : WriteFingerprint(u)
    \/ \E u \in Units : WriteFingerprintFails(u)
    \/ \E u \in Units : KeepFingerprint(u)
    \/ \E p \in Scripted : Edit(p)

Spec == Init /\ [][Next]_vars

-----------------------------------------------------------------------------
(* Properties.                                                             *)

TypeOK ==
    /\ inputs \in [Packages -> Stamps]
    /\ seen \in [Packages -> Stamps]
    /\ \A u \in Units :
        /\ outputFile[u].from \in {"nofile", "stdout"}
        /\ DOMAIN fingerprint[u] \in {{}, ReachableFrom({u}) \ Overridden}
        /\ outputs[u].from \in {"none", "script", "override"}
        /\ job[u].stage \in Stages
        /\ job[u].fresh \in BOOLEAN
        /\ job[u].prev.from \in {"none", "script"}
        /\ job[u].stdout.from \in {"nofile", "stdout"}

\* The lookup of the dirty closure never ends in `failed to locate build
\* state for env vars`: when the scheduler lets a job start, the output of
\* every dependency is in BuildState under the key the closure uses,
\* whether the dependency ran its script in this build, was found fresh
\* and registered its saved output, or is overridden and was registered by
\* has_override during prepare.
DepStateLocated ==
    \A u \in Units :
        (job[u].stage = "queued" /\ Runnable(u)) => ~MissingDepState(u)

\* What the script of u prints when it and the scripts below it run on the
\* sources of the snapshot.
RECURSIVE Expected(_, _)
Expected(u, snapshot) ==
    IF u \in Overridden THEN OverrideOutput(u)
    ELSE ScriptOutput(Stdout(snapshot[u],
                             [key \in DepKeys(u) |-> Expected(key, snapshot)]))

\* A unit that is found fresh registers the output its script would print
\* on the sources it was judged on, with the DEP_ variables its
\* dependencies would give it on those sources.  Between two builds the
\* `output` file and the fingerprint are written by different steps of the
\* dirty job, a build can stop between them or fail after the first, a
\* dependency can finish its job in a build that never reaches the unit,
\* and the sources can change while a script runs; yet a fingerprint that
\* matches never vouches for the stdout of other inputs.
FreshRegistersJudgedOutput ==
    \A u \in Units \ Overridden :
        (job[u].fresh /\ job[u].stage \in {"worked", "done"})
            => outputs[u] = Expected(u, job[u].judged)

\* The fresh closure never fails on its parse_file: a unit is judged fresh
\* only when an output file that parses is there for it, although a dirty
\* job writes the file before it knows that the stdout parses.
FreshWorkSucceeds ==
    \A u \in Units \ Overridden :
        (job[u].fresh /\ job[u].stage = "queued") => FreshOutput(u) # None

=============================================================================
