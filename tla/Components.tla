----------------------------- MODULE Components -----------------------------
(***************************************************************************)
(* The components that are checked each by itself, for safety alone, side  *)
(* by side: the guard of the global lock of backtrace, the wrappers of     *)
(* core-foundation around a dictionary, the CPU idle sampler of cargo, and *)
(* the run-script jobs of custom_build.rs under the promise of their       *)
(* scheduler.  None reads the variables of another, so a behaviour follows *)
(* one of them, and the variables of the others are not in use.            *)
(***************************************************************************)
EXTENDS Naturals

CONSTANTS
    Threads, MaxDepth, CatchUnwind,                     \* BacktraceLock
    Keys, Values, Text, PairLists, Dicts, MaxHeld,      \* CFDictionary
    Targets, Word, Ticking, MaxTicks,                   \* CpuIdle
    Units, LibDeps, Overridden, MaxStamp, Garbled, ContentStamps    \* CustomBuild

VARIABLES
    following,                                          \* the component followed
    INIT, mutex, LOCK_HELD, pc, guards, alive,          \* BacktraceLock
    retains, entries, wrapper, held, copies, result,    \* CFDictionary
    target, kernel, clock, previous, latest, idle,      \* CpuIdle
    inputs, outputFile, fingerprint, seen, outputs, job \* CustomBuild

lock_vars == <<INIT, mutex, LOCK_HELD, pc, guards, alive>>
dict_vars == <<retains, entries, wrapper, held, copies, result>>
cpu_vars  == <<target, kernel, clock, previous, latest, idle>>
job_vars  == <<inputs, outputFile, fingerprint, seen, outputs, job>>
vars      == <<following, lock_vars, dict_vars, cpu_vars, job_vars>>

BL == INSTANCE BacktraceLock

CF == INSTANCE CFDictionary

CPU == INSTANCE CpuIdle WITH result <- idle

CB == INSTANCE CustomBuild

\* The variables of a component that is not followed are not in use.
NoLock ==
    /\ INIT = FALSE /\ mutex = <<>> /\ LOCK_HELD = <<>>
    /\ pc = <<>> /\ guards = <<>> /\ alive = {}

NoDictionary ==
    /\ retains = <<>> /\ entries = <<>> /\ wrapper = <<>>
    /\ held = <<>> /\ copies = {} /\ result = <<>>

NoCpu ==
    /\ target = <<>> /\ kernel = <<>> /\ clock = <<>>
    /\ previous = <<>> /\ latest = <<>> /\ idle = <<>>

NoJobs ==
    /\ inputs = <<>> /\ outputFile = <<>> /\ fingerprint = <<>>
    /\ seen = <<>> /\ outputs = <<>> /\ job = <<>>

Init ==
    \/ following = "lock" /\ BL!Init /\ NoDictionary /\ NoCpu /\ NoJobs
    \/ following = "dictionary" /\ CF!Init /\ NoLock /\ NoCpu /\ NoJobs
    \/ following = "cpu" /\ CPU!Init /\ NoLock /\ NoDictionary /\ NoJobs
    \/ following = "jobs" /\ CB!Init /\ NoLock /\ NoDictionary /\ NoCpu

InLock(step) ==
    /\ following = "lock" /\ step
    /\ UNCHANGED <<following, dict_vars, cpu_vars, job_vars>>

InDictionary(step) ==
    /\ following = "dictionary" /\ step
    /\ UNCHANGED <<following, lock_vars, cpu_vars, job_vars>>

InCpu(step) ==
    /\ following = "cpu" /\ step
    /\ UNCHANGED <<following, lock_vars, dict_vars, job_vars>>

InJobs(step) ==
    /\ following = "jobs" /\ step
    /\ UNCHANGED <<following, lock_vars, dict_vars, cpu_vars>>

Next ==
    \/ \E t \in Threads : InLock(BL!LockReentrant(t))
    \/ \E t \in Threads : InLock(BL!SetHeld(t))
    \/ \E t \in Threads : InLock(BL!CallOnce(t))
    \/ \E t \in Threads : InLock(BL!Acquire(t))
    \/ \E t \in Threads : InLock(BL!AcquirePoisoned(t))
    \/ \E t \in Threads : InLock(BL!Drop(t))
    \/ \E t \in Threads : InLock(BL!Unwind(t))
    \/ \E t \in Threads : InLock(BL!BombDrop(t))
    \/ \E d \in Dicts, pairs \in PairLists : InDictionary(CF!FromPairs(d, pairs))
    \/ \E d \in Dicts, pairs \in PairLists : InDictionary(CF!MutableFromPairs(d, pairs))
    \/ \E d \in Dicts : InDictionary(CF!WithCapacity(d))
    \/ \E d, e \in Dicts : InDictionary(CF!CopyWithCapacity(d, e))
    \/ \E d \in Dicts, k \in Keys, v \in Values : InDictionary(CF!Add(d, k, v))
    \/ \E d \in Dicts, k \in Keys, v \in Values : InDictionary(CF!Set(d, k, v))
    \/ \E d \in Dicts, k \in Keys, v \in Values : InDictionary(CF!Replace(d, k, v))
    \/ \E d \in Dicts, k \in Keys : InDictionary(CF!RemoveKey(d, k))
    \/ \E d \in Dicts : InDictionary(CF!RemoveAll(d))
    \/ \E d \in Dicts : InDictionary(CF!Count(d))
    \/ \E d \in Dicts, k \in Keys : InDictionary(CF!ContainsKey(d, k))
    \/ \E d \in Dicts, k \in Keys : InDictionary(CF!Find(d, k))
    \/ \E d \in Dicts, k \in Keys : InDictionary(CF!FindClone(d, k))
    \/ \E d \in Dicts, k \in Keys : InDictionary(CF!Get(d, k))
    \/ \E d \in Dicts, k \in Keys : InDictionary(CF!GetPanics(d, k))
    \/ \E d \in Dicts : InDictionary(CF!GetKeysAndValues(d))
    \/ \E d \in Dicts : InDictionary(CF!Drop(d))
    \/ \E o \in Keys \cup Values : InDictionary(CF!DropItem(o))
    \/ InCpu(\E cpu \in CPU!Cpus, field \in Ticking : CPU!Tick(cpu, field))
    \/ InCpu(CPU!IowaitDrops)
    \/ InCpu(CPU!CurrentOk)
    \/ InCpu(CPU!CurrentErr)
    \/ InCpu(CPU!ReadFails)
    \/ InCpu(CPU!HostProcessorInfoFails)
    \/ InCpu(CPU!GetSystemTimesFails)
    \/ InCpu(CPU!CurrentPanics)
    \/ InCpu(CPU!IdleSince)
    \/ InCpu(CPU!IdleSincePanics)
    \/ InJobs(CB!NewBuild)
    \/ \E u \in Units : InJobs(CB!PrepareOverridden(u))
    \/ \E u \in Units : InJobs(CB!PrepareBuildWork(u))
    \/ \E u \in Units : InJobs(CB!Runnable(u) /\ CB!DirtyStart(u))
    \/ \E u \in Units : InJobs(CB!Runnable(u) /\ CB!DirtyStartFails(u))
    \/ \E u \in Units : InJobs(CB!Runnable(u) /\ CB!FreshWork(u))
    \/ \E u \in Units : InJobs(CB!Runnable(u) /\ CB!NoopWork(u))
    \/ \E u \in Units : InJobs(CB!ExecOk(u))
    \/ \E u \in Units : InJobs(CB!ExecFail(u))
    \/ \E u \in Units : InJobs(CB!DirtyWrite(u))
    \/ \E u \in Units : InJobs(CB!DirtyWriteFails(u))
    \/ \E u \in Units : InJobs(CB!DirtyStore(u))
    \/ \E u \in Units : InJobs(CB!WriteFingerprint(u))
    \/ \E u \in Units : InJobs(CB!WriteFingerprintFails(u))
    \/ \E u \in Units : InJobs(CB!KeepFingerprint(u))
    \/ InJobs(\E p \in CB!Scripted : CB!Edit(p))

Spec == Init /\ [][Next]_vars

-----------------------------------------------------------------------------
(* Properties: those of the four modules, each of the component it is      *)
(* about.                                                                  *)

TypeOK ==
    /\ following \in {"lock", "dictionary", "cpu", "jobs"}
    /\ following = "lock" => BL!TypeOK
    /\ following = "dictionary" => CF!TypeOK
    /\ following = "cpu" => CPU!TypeOK
    /\ following = "jobs" => CB!TypeOK

\* lock(): at most one thread at a time is inside a section that the
\* global lock guards.
MutualExclusion == following = "lock" => BL!MutualExclusion

\* lock(): the thread-local LOCK_HELD is set exactly while the thread holds
\* the mutex or is on its way to it.
FlagTellsOwnership == following = "lock" => BL!FlagTellsOwnership

\* CFDictionary, CFMutableDictionary: the retain count of an object is the
\* number of its owners, but for the dictionaries of copy_with_capacity.
AliveWhileOwned == following = "dictionary" => CF!AliveWhileOwned

\* idle_since: when ticks were counted between the two samples and no
\* counter was taken back, the percentage returned is the share of the
\* idle ticks among all ticks counted in between, also across the wrap of
\* a counter and the carry of a FILETIME.
IdleSinceIsExact == following = "cpu" => CPU!IdleSinceIsExact

\* The jobs: the lookup of the dirty closure never ends in `failed to
\* locate build state for env vars`, whichever of the three ways its
\* dependencies were registered in.
DepStateLocated == following = "jobs" => CB!DepStateLocated

\* The jobs: a unit found fresh registers the output its script would print
\* on the sources it was judged on, with a kill between any two steps of
\* any build, as between the write of the output file and that of the
\* fingerprint.
FreshRegistersJudgedOutput == following = "jobs" => CB!FreshRegistersJudgedOutput

\* The jobs: the parse_file of the fresh closure never fails, although a
\* dirty job writes the file before it knows that the stdout parses.
FreshWorkSucceeds == following = "jobs" => CB!FreshWorkSucceeds

=============================================================================
