------------------------------ MODULE JobQueue ------------------------------
(***************************************************************************)
(* The job queue and scheduler of one build, after section 4.5 of the      *)
(* design document: a coordinator that owns the queue and a pool of at     *)
(* most N workers that report to it over one channel.                      *)
(*                                                                         *)
(* The coordinator's loop is                                               *)
(*     while active > 0 || !ready_queue.empty():                           *)
(*         if active < N && !ready_queue.empty(): spawn the next unit      *)
(*         otherwise: block on events, and handle one                      *)
(* and after a failure it spawns nothing more.  Read to the letter, the    *)
(* loop then never ends while a unit is left in the queue, so the loop is  *)
(* taken to run while a worker is active or a unit may be spawned.         *)
(***************************************************************************)
EXTENDS Naturals, Sequences, FiniteSets, SequencesExt

CONSTANTS
    Units,          \* the units of the build
    Deps,           \* Deps[u]: the units u depends on
    N               \* the number of worker slots

ASSUME
    /\ N \in Nat \ {0}
    /\ \A u \in Units : Deps[u] \subseteq Units \ {u}

Dependents(u) == {v \in Units : u \in Deps[v]}

VARIABLES
    status,         \* Pending, Ready, Running, Finished or Failed, per unit
    waiting,        \* pending: the dependencies of a unit not yet finished
    readyQueue,     \* ready_queue: FIFO of the units that may be spawned
    active,         \* the number of worker slots in use
    working,        \* the units a worker is executing
    events,         \* the channel from the workers: <<unit, succeeded>>
    failure,        \* the first unit that failed: a set of one unit, or none
    exited          \* the loop is left

vars == <<status, waiting, readyQueue, active, working, events, failure, exited>>

\* The units without dependencies are queued in the order the graph was
\* walked in, which is any order.
Roots == {u \in Units : Deps[u] = {}}
InitialStatus == [u \in Units |-> IF u \in Roots THEN "Ready" ELSE "Pending"]

Init ==
    /\ status = InitialStatus
    /\ waiting = Deps
    /\ readyQueue \in SetToSeqs(Roots)
    /\ active = 0
    /\ working = {}
    /\ events = <<>>
    /\ failure = {}
    /\ exited = FALSE

\* The queue of a process that starts again, for the modules that follow
\* the system over several builds: Init as a step.
NewQueue ==
    /\ status' = InitialStatus
    /\ waiting' = Deps
    /\ readyQueue' \in SetToSeqs(Roots)
    /\ active' = 0
    /\ working' = {}
    /\ events' = <<>>
    /\ failure' = {}
    /\ exited' = FALSE

-----------------------------------------------------------------------------
(* The coordinator.                                                        *)

\* Mutant: every ready unit is spawned, whatever the number of slots.
CanSpawnUnbounded == failure = {} /\ readyQueue # <<>>

CanSpawn == failure = {} /\ active < N /\ readyQueue # <<>>

\* Mutant: the loop is left as soon as no worker runs.
LoopRunsWhileActive == active > 0

LoopRuns == active > 0 \/ CanSpawn

\* Mutant: the head of the queue is read and left in the queue.
SpawnPeek ==
    /\ ~exited /\ LoopRuns /\ CanSpawn
    /\ status' = [status EXCEPT ![Head(readyQueue)] = "Running"]
    /\ active' = active + 1
    /\ working' = working \cup {Head(readyQueue)}
    /\ UNCHANGED <<waiting, readyQueue, events, failure, exited>>

\* Ready -> Running: the head of the queue is given to a worker.
Spawn ==
    /\ ~exited /\ LoopRuns /\ CanSpawn
    /\ status' = [status EXCEPT ![Head(readyQueue)] = "Running"]
    /\ readyQueue' = Tail(readyQueue)
    /\ active' = active + 1
    /\ working' = working \cup {Head(readyQueue)}
    /\ UNCHANGED <<waiting, events, failure, exited>>

\* Mutant: a dependent is released by the first dependency that ends.
ReleasedByAny(u) == {v \in Dependents(u) : status[v] = "Pending"}

\* The dependents of u that have nothing left to wait for once u is done.
Released(u) == {v \in Dependents(u) : waiting[v] = {u}}

\* Running -> Finished: the event of a success.  Every dependent whose last
\* dependency this was becomes Ready and is queued.
ReceiveSuccess ==
    /\ ~exited /\ LoopRuns /\ ~CanSpawn
    /\ events # <<>> /\ Head(events)[2]
    /\ LET u == Head(events)[1] IN
        /\ status' = [v \in Units |->
               IF v = u THEN "Finished"
               ELSE IF v \in Released(u) THEN "Ready" ELSE status[v]]
        /\ waiting' = [v \in Units |-> waiting[v] \ {u}]
        /\ \E order \in SetToSeqs(Released(u)) : readyQueue' = readyQueue \o order
    /\ events' = Tail(events)
    /\ active' = active - 1
    /\ UNCHANGED <<working, failure, exited>>

\* Mutant: the slot of a unit that failed is not given back.
ReceiveFailureKeepsSlot ==
    /\ ~exited /\ LoopRuns /\ ~CanSpawn
    /\ events # <<>> /\ ~Head(events)[2]
    /\ status' = [status EXCEPT ![Head(events)[1]] = "Failed"]
    /\ failure' = IF failure = {} THEN {Head(events)[1]} ELSE failure
    /\ events' = Tail(events)
    /\ UNCHANGED <<waiting, readyQueue, active, working, exited>>

\* Running -> Failed: the event of a failure.  The first one is the verdict
\* of the build.
ReceiveFailure ==
    /\ ~exited /\ LoopRuns /\ ~CanSpawn
    /\ events # <<>> /\ ~Head(events)[2]
    /\ status' = [status EXCEPT ![Head(events)[1]] = "Failed"]
    /\ failure' = IF failure = {} THEN {Head(events)[1]} ELSE failure
    /\ events' = Tail(events)
    /\ active' = active - 1
    /\ UNCHANGED <<waiting, readyQueue, working, exited>>

\* The loop is left.
Exit ==
    /\ ~exited /\ ~LoopRuns
    /\ exited' = TRUE
    /\ UNCHANGED <<status, waiting, readyQueue, active, working, events, failure>>

-----------------------------------------------------------------------------
(* The workers.                                                            *)

\* A worker is done with its unit and sends the outcome.
WorkerDone(u, succeeded) ==
    /\ u \in working
    /\ working' = working \ {u}
    /\ events' = Append(events, <<u, succeeded>>)
    /\ UNCHANGED <<status, waiting, readyQueue, active, failure, exited>>

Coordinator == Spawn \/ ReceiveSuccess \/ ReceiveFailure \/ Exit

Next ==
    \/ Spawn
    \/ ReceiveSuccess
    \/ ReceiveFailure
    \/ Exit
    \/ \E u \in Units : WorkerDone(u, TRUE)
    \/ \E u \in Units : WorkerDone(u, FALSE)

\* The coordinator is a sequential loop that runs while it can, and a
\* worker's job ends: there is no timeout and no kill in the scheduler.
Fairness ==
    /\ WF_vars(Coordinator)
    /\ \A u \in Units : WF_vars(WorkerDone(u, TRUE) \/ WorkerDone(u, FALSE))

Spec == Init /\ [][Next]_vars /\ Fairness

-----------------------------------------------------------------------------
(* Properties.                                                             *)

TypeOK ==
    /\ status \in [Units -> {"Pending", "Ready", "Running", "Finished", "Failed"}]
    /\ waiting \in [Units -> SUBSET Units]
    /\ readyQueue \in Seq(Units)
    /\ active \in 0 .. N
    /\ working \subseteq Units
    /\ events \in Seq(Units \X BOOLEAN)
    /\ failure \in {{}} \cup {{u} : u \in Units}
    /\ exited \in BOOLEAN

\* Topological execution: a unit is given to a worker only when every unit
\* it depends on has finished with success, whatever the order in which
\* the workers end and their events are handled.
TopologicalOrder ==
    \A u \in Units :
        status[u] \in {"Running", "Finished", "Failed"}
            => \A d \in Deps[u] : status[d] = "Finished"

\* Concurrency bound: `active` counts the workers that run and the
\* outcomes not yet handled, so no more than N units have a slot, and a
\* slot is given back exactly once.
ActiveCountsSlots ==
    /\ active = Cardinality(working) + Len(events)
    /\ working \cup {e[1] : e \in ToSet(events)} = {u \in Units : status[u] = "Running"}

\* At most once: the queue holds the Ready units, each of them once, so no
\* unit is spawned twice however its dependencies finish.
QueueHoldsReadyOnce ==
    /\ ToSet(readyQueue) = {u \in Units : status[u] = "Ready"}
    /\ Len(readyQueue) = Cardinality(ToSet(readyQueue))

\* A build without failure leaves the loop only when every unit is
\* finished: no unit is forgotten in Pending when its last dependency ends.
SuccessBuildsAll ==
    (exited /\ failure = {}) => \A u \in Units : status[u] = "Finished"

=============================================================================
