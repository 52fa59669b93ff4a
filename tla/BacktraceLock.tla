--------------------------- MODULE BacktraceLock ---------------------------
(***************************************************************************)
(* The global lock of the backtrace crate (backtrace/src/lib.rs): a        *)
(* process-wide mutex made re-entrant by a thread-local flag, and the Bomb *)
(* that turns a panic inside a guarded section into an abort.              *)
(*                                                                         *)
(* The callers of lock() are the synchronized entry points of the crate    *)
(* (trace, resolve), which keep the guard in a local variable for the      *)
(* length of the call and run a callback of the user inside.  The callback *)
(* may call an entry point again, and it may panic.  A thread is followed  *)
(* through lock() statement by statement; the guards it holds are dropped  *)
(* in the reverse order of their making, as locals are.                    *)
(***************************************************************************)
EXTENDS Naturals, Sequences, FiniteSets, SequencesExt

CONSTANTS
    Threads,        \* the threads of the process
    MaxDepth,       \* bound: the guards one thread holds at a time
    CatchUnwind     \* a thread that panics goes on (catch_unwind), or ends

ASSUME MaxDepth \in Nat \ {0} /\ CatchUnwind \in BOOLEAN

VARIABLES
    INIT,           \* the Once has run: LOCK points to the mutex
    mutex,          \* *LOCK: the thread that holds it, and the poison flag
    LOCK_HELD,      \* the thread-local flag of every thread
    pc,             \* where a thread is in lock()
    guards,         \* the LockGuards of a thread, innermost last:
                    \* TRUE for Some(MutexGuard), FALSE for None
    alive           \* the threads that have not ended

vars == <<INIT, mutex, LOCK_HELD, pc, guards, alive>>

Unlocked(poisoned) == [owner |-> {}, poisoned |-> poisoned]
LockedBy(t)        == [owner |-> {t}, poisoned |-> FALSE]

Init ==
    /\ INIT = FALSE
    /\ mutex = Unlocked(FALSE)
    /\ LOCK_HELD = [t \in Threads |-> FALSE]
    /\ pc = [t \in Threads |-> "out"]
    /\ guards = [t \in Threads |-> <<>>]
    /\ alive = Threads

\* A thread is at a call of lock(): it runs, and is not inside lock().
Calls(t) == t \in alive /\ pc[t] = "out" /\ Len(guards[t]) < MaxDepth

Push(t, guard) == guards' = [guards EXCEPT ![t] = Append(@, guard)]

-----------------------------------------------------------------------------
(* lock()                                                                  *)

\* Mutant: the flag is a plain static, shared by the threads.
LockReentrantShared(t) ==
    /\ Calls(t) /\ \E u \in Threads : LOCK_HELD[u]
    /\ Push(t, FALSE)
    /\ UNCHANGED <<INIT, mutex, LOCK_HELD, pc, alive>>

\* The thread holds the lock already: a guard without the mutex.
LockReentrant(t) ==
    /\ Calls(t) /\ LOCK_HELD[t]
    /\ Push(t, FALSE)
    /\ UNCHANGED <<INIT, mutex, LOCK_HELD, pc, alive>>

\* The flag is set before the mutex is asked for.
SetHeld(t) ==
    /\ Calls(t) /\ ~LOCK_HELD[t]
    /\ LOCK_HELD' = [LOCK_HELD EXCEPT ![t] = TRUE]
    /\ pc' = [pc EXCEPT ![t] = "once"]
    /\ UNCHANGED <<INIT, mutex, guards, alive>>

\* Mutant: the mutex is taken for allocated.
CallOnceSkipped(t) ==
    /\ t \in alive /\ pc[t] = "once"
    /\ pc' = [pc EXCEPT ![t] = "mutex"]
    /\ UNCHANGED <<INIT, mutex, LOCK_HELD, guards, alive>>

\* INIT.call_once: the first thread allocates the mutex, and every thread
\* leaves with the mutex allocated.
CallOnce(t) ==
    /\ t \in alive /\ pc[t] = "once"
    /\ INIT' = TRUE
    /\ pc' = [pc EXCEPT ![t] = "mutex"]
    /\ UNCHANGED <<mutex, LOCK_HELD, guards, alive>>

AtMutex(t) == t \in alive /\ pc[t] = "mutex" /\ mutex.owner = {}

\* (*LOCK).lock() returns the guard.
Acquire(t) ==
    /\ AtMutex(t) /\ ~mutex.poisoned
    /\ mutex' = LockedBy(t)
    /\ Push(t, TRUE)
    /\ pc' = [pc EXCEPT ![t] = "out"]
    /\ UNCHANGED <<INIT, LOCK_HELD, alive>>

\* What is left of a thread that panicked.
Unwound(t) == IF CatchUnwind THEN alive ELSE alive \ {t}

\* (*LOCK).lock() returns the poison error, and unwrap panics: the mutex is
\* given back with the error, no LockGuard was made, the flag stays set.
AcquirePoisoned(t) ==
    /\ AtMutex(t) /\ mutex.poisoned
    /\ pc' = [pc EXCEPT ![t] = "out"]
    /\ guards' = [guards EXCEPT ![t] = <<>>]
    /\ alive' = Unwound(t)
    /\ UNCHANGED <<INIT, mutex, LOCK_HELD>>

-----------------------------------------------------------------------------
(* The guards                                                              *)

Inside(t) == t \in alive /\ pc[t] = "out" /\ guards[t] # <<>>

\* A guard with the mutex clears the flag and then unlocks.
Release(t, poisoned) ==
    IF mutex.owner = {t}
    THEN /\ LOCK_HELD' = [LOCK_HELD EXCEPT ![t] = FALSE]
         /\ mutex' = Unlocked(poisoned)
    ELSE UNCHANGED <<LOCK_HELD, mutex>>

\* Mutant: a guard clears the flag whether or not it has the mutex.
DropClearsFlag(t) ==
    /\ Inside(t)
    /\ guards' = [guards EXCEPT ![t] = Front(@)]
    /\ LOCK_HELD' = [LOCK_HELD EXCEPT ![t] = FALSE]
    /\ mutex' = IF Last(guards[t]) THEN Unlocked(mutex.poisoned) ELSE mutex
    /\ UNCHANGED <<INIT, pc, alive>>

\* The innermost guard goes out of scope.
Drop(t) ==
    /\ Inside(t)
    /\ guards' = [guards EXCEPT ![t] = Front(@)]
    /\ IF Last(guards[t])
       THEN Release(t, mutex.poisoned)
       ELSE UNCHANGED <<LOCK_HELD, mutex>>
    /\ UNCHANGED <<INIT, pc, alive>>

\* The callback panics where no Bomb is armed: every guard of the thread is
\* dropped by the unwinding, and a mutex unlocked by it is poisoned.
Unwind(t) ==
    /\ Inside(t)
    /\ guards' = [guards EXCEPT ![t] = <<>>]
    /\ Release(t, TRUE)
    /\ alive' = Unwound(t)
    /\ UNCHANGED <<INIT, pc>>

\* The callback panics under an armed Bomb: the Bomb is dropped first and
\* panics in turn, which aborts the process.
BombDrop(t) ==
    /\ Inside(t)
    /\ alive' = {}
    /\ UNCHANGED <<INIT, mutex, LOCK_HELD, pc, guards>>

Next ==
    \/ \E t \in Threads : LockReentrant(t)
    \/ \E t \in Threads : SetHeld(t)
    \/ \E t \in Threads : CallOnce(t)
    \/ \E t \in Threads : Acquire(t)
    \/ \E t \in Threads : AcquirePoisoned(t)
    \/ \E t \in Threads : Drop(t)
    \/ \E t \in Threads : Unwind(t)
    \/ \E t \in Threads : BombDrop(t)

Spec == Init /\ [][Next]_vars

-----------------------------------------------------------------------------
(* Properties.                                                             *)

\* The mutex is dereferenced (pc "mutex") only once the Once has allocated
\* it, and a thread holds at most one guard with the mutex, the outermost.
TypeOK ==
    /\ INIT \in BOOLEAN
    /\ mutex \in [owner : {{}} \cup {{t} : t \in Threads}, poisoned : BOOLEAN]
    /\ LOCK_HELD \in [Threads -> BOOLEAN]
    /\ pc \in [Threads -> {"out", "once", "mutex"}]
    /\ alive \subseteq Threads
    /\ \A t \in Threads :
        /\ pc[t] = "mutex" => INIT
        /\ guards[t] \in Seq(BOOLEAN) /\ Len(guards[t]) <= MaxDepth
        /\ \A i \in 2 .. Len(guards[t]) : ~guards[t][i]

\* Mutual exclusion: at most one thread at a time is inside a section that
\* lock() guards, however the threads nest their calls, panic and end.
\* This is what lets trace and resolve call the unsynchronized functions.
MutualExclusion ==
    Cardinality({t \in Threads : Inside(t)}) <= 1

\* The thread-local flag tells the truth: it is set exactly while the thread
\* holds the mutex or is on its way to it in lock().  So the assertion in
\* LockGuard::drop holds, and a thread that re-enters lock() never waits
\* for the mutex it holds itself.
FlagTellsOwnership ==
    \A t \in alive :
        LOCK_HELD[t] <=> (mutex.owner = {t} \/ pc[t] # "out")

=============================================================================
