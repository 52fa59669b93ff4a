------------------------------- MODULE Build -------------------------------
(***************************************************************************)
(* A build: the run-script jobs of CustomBuild driven by the scheduler of  *)
(* JobQueue.  CustomBuild assumes of its scheduler that a job starts only  *)
(* when every unit is prepared and every dependency is done (Runnable);    *)
(* here that assumption is replaced by the coordinator and the workers of  *)
(* JobQueue, and shown to follow from them.                                *)
(*                                                                         *)
(* A worker that is given a unit runs the Work that prepare made for it,   *)
(* step by step, and reports the outcome on the channel.  The process can  *)
(* be killed and started again at any step, and sources can be edited at   *)
(* any step.                                                               *)
(***************************************************************************)
EXTENDS Naturals, Sequences, FiniteSets

CONSTANTS
    Units, LibDeps, Overridden, MaxStamp, Garbled, ContentStamps,   \* CustomBuild
    N                                                               \* JobQueue

VARIABLES
    inputs, outputFile, fingerprint, seen, outputs, job,            \* CustomBuild
    status, waiting, readyQueue, active, working, events, failure, exited

runner    == <<inputs, outputFile, fingerprint, seen, outputs, job>>
scheduler == <<status, waiting, readyQueue, active, working, events, failure, exited>>
vars      == <<runner, scheduler>>

CB == INSTANCE CustomBuild

JQ == INSTANCE JobQueue WITH
        Deps <- [u \in Units |-> CB!DepKeys(u)]

Init == CB!Init /\ JQ!Init

-----------------------------------------------------------------------------
(* The main thread: a new process, the preparation of every unit, then     *)
(* the loop of the coordinator.                                            *)

\* The process is started (again): nothing of the memory of an earlier one
\* is left, the disk is as it was.
Restart ==
    /\ CB!NewBuild
    /\ JQ!NewQueue

PrepareOverridden(u) == CB!PrepareOverridden(u) /\ UNCHANGED scheduler
PrepareBuildWork(u)  == CB!PrepareBuildWork(u) /\ UNCHANGED scheduler

\* The queue is executed once every unit is prepared and enqueued.
AllPrepared == \A u \in Units : job[u].stage # "new"

Spawn          == AllPrepared /\ JQ!Spawn /\ UNCHANGED runner
ReceiveSuccess == JQ!ReceiveSuccess /\ UNCHANGED runner
ReceiveFailure == JQ!ReceiveFailure /\ UNCHANGED runner
Exit           == AllPrepared /\ JQ!Exit /\ UNCHANGED runner

-----------------------------------------------------------------------------
(* A worker: the Work of the unit it was given, then the event.            *)

\* The first step of the work that the freshness of the unit selects.
WorkStart(u) ==
    /\ u \in working
    /\ \/ CB!DirtyStart(u) \/ CB!DirtyStartFails(u)
       \/ CB!FreshWork(u) \/ CB!NoopWork(u)
    /\ UNCHANGED scheduler

\* The steps that follow, to the end of the work or to its first error.
WorkStep(u) ==
    /\ u \in working
    /\ \/ CB!ExecOk(u) \/ CB!ExecFail(u)
       \/ CB!DirtyWrite(u) \/ CB!DirtyWriteFails(u) \/ CB!DirtyStore(u)
       \/ CB!WriteFingerprint(u) \/ CB!WriteFingerprintFails(u)
       \/ CB!KeepFingerprint(u)
    /\ UNCHANGED scheduler

\* Mutant: the success is reported when the work of the unit is done,
\* before the fingerprint step chained to it.
ReportSuccessEarly(u) ==
    /\ job[u].stage \in {"worked", "done"}
    /\ JQ!WorkerDone(u, TRUE)
    /\ UNCHANGED runner

\* The work returned Ok(()).
ReportSuccess(u) ==
    /\ job[u].stage = "done"
    /\ JQ!WorkerDone(u, TRUE)
    /\ UNCHANGED runner

\* Mutant: a worker whose work failed ends without sending its event.
ReportFailureLost(u) ==
    /\ job[u].stage = "failed" /\ u \in working
    /\ working' = working \ {u}
    /\ UNCHANGED <<runner, status, waiting, readyQueue, active, events, failure, exited>>

\* The work returned an error.
ReportFailure(u) ==
    /\ job[u].stage = "failed"
    /\ JQ!WorkerDone(u, FALSE)
    /\ UNCHANGED runner

Edit(p) == CB!Edit(p) /\ UNCHANGED scheduler

Coordinator == Spawn \/ ReceiveSuccess \/ ReceiveFailure \/ Exit
MainThread  ==
    \/ Coordinator
    \/ \E u \in Units : PrepareOverridden(u) \/ PrepareBuildWork(u)
Worker(u)   == WorkStart(u) \/ WorkStep(u) \/ ReportSuccess(u) \/ ReportFailure(u)

Next ==
    \/ Restart
    \/ \E u \in Units : PrepareOverridden(u)
    \/ \E u \in Units : PrepareBuildWork(u)
    \/ Spawn
    \/ ReceiveSuccess
    \/ ReceiveFailure
    \/ Exit
    \/ \E u \in Units : WorkStart(u)
    \/ \E u \in Units : WorkStep(u)
    \/ \E u \in Units : ReportSuccess(u)
    \/ \E u \in Units : ReportFailure(u)
    \/ \E p \in CB!Scripted : Edit(p)

\* The main thread and every worker thread run while they can: a script is
\* a process that ends, and nothing in the code waits with a timeout.
\* Nothing obliges the user to edit a file or to kill the build.
Fairness ==
    /\ WF_vars(MainThread)
    /\ \A u \in Units : WF_vars(Worker(u))

Spec == Init /\ [][Next]_vars /\ Fairness

-----------------------------------------------------------------------------
(* Properties.                                                             *)

TypeOK == CB!TypeOK /\ JQ!TypeOK

\* Read after scheduling: when a worker runs the dirty closure of a unit,
\* the output of every dependency is in BuildState under the key the
\* closure looks up.  The producer registers its output in its own worker
\* thread, the coordinator hears of it through the channel, and only then
\* releases the dependent, so the lookup cannot come too early.
DepStateLocated ==
    \A u \in working : job[u].stage = "queued" => ~CB!MissingDepState(u)

\* The scheduler gives the runner what CustomBuild assumes: every step of
\* a build is a step of CustomBuild, in which a work starts only when the
\* unit is Runnable.
RunnerRefined == CB!Init /\ [][CB!Next]_(CB!vars)

\* Idempotence: when a build ends with success and no source has changed
\* since it started, the next build finds every unit fresh, so no script
\* is run twice for the same inputs.  The verdict of the coordinator is
\* reached over the channel, the fingerprints are written by the workers.
SecondBuildIsFresh ==
    (exited /\ failure = {} /\ inputs = seen)
        => \A u \in Units : CB!Freshness(u)

\* The scheduler keeps its promises when the jobs are the works of
\* custom_build and the process is killed and started again at any step.
\* Topological execution: a unit is given to a worker only when every unit
\* it depends on has finished with success.
TopologicalOrder == JQ!TopologicalOrder

\* Concurrency bound: `active` counts the workers that run and the
\* outcomes not yet handled, so no more than N units have a slot.
ActiveCountsSlots == JQ!ActiveCountsSlots

\* At most once: the queue holds the Ready units, each of them once.
QueueHoldsReadyOnce == JQ!QueueHoldsReadyOnce

\* A build without failure leaves the loop only when every unit is
\* finished.
SuccessBuildsAll == JQ!SuccessBuildsAll

\* A build that is not killed ends: the coordinator leaves its loop, with
\* every unit finished or with the first failure, and no worker or
\* coordinator waits for ever for the other.
BuildEndsUnlessKilled == <>[]exited \/ []<><<Restart>>_vars

=============================================================================
