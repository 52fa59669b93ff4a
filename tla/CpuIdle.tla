------------------------------ MODULE CpuIdle ------------------------------
(***************************************************************************)
(* The CPU idle sampler (cargo/util/cpu.rs): State::current reads the      *)
(* counters of the operating system, and idle_since turns two samples into *)
(* the share of the time in between that the CPUs were idle.               *)
(*                                                                         *)
(* The operating system is the environment: it counts ticks per CPU and    *)
(* per field while the program runs.  A program holds the last two samples *)
(* and asks for the idle share of the later one since the earlier one.     *)
(* A u64 is a number below Modulus, the square of Word (2^32 in the code). *)
(* macOS counts in words (natural_t) and hands them over as i32.           *)
(***************************************************************************)
EXTENDS Integers, Sequences, FiniteSets, Functions, SequencesExt

CONSTANTS
    Targets,        \* what the program was built for and runs on: records
                    \* [os, lines, columns, cpus, overflow_checks, uptime],
                    \* where lines and columns are those of /proc/stat and
                    \* uptime is what every counter holds at the start
    Word,           \* 2^32: the range of one half of a FILETIME, and of
                    \* a natural_t and an i32
    Ticking,        \* the fields that advance while the program runs
    MaxTicks        \* bound: the ticks counted while the program runs

Modulus == Word * Word

LinuxFields ==
    <<"user", "nice", "system", "idle", "iowait", "irq", "softirq", "steal",
      "guest", "guest_nice">>
MacFields     == <<"user", "system", "idle", "nice">>
WindowsFields == <<"idle", "kernel", "user">>

FieldsOf(os) ==
    CASE os = "linux" -> LinuxFields
      [] os = "macos" -> MacFields
      [] os = "windows" -> WindowsFields
      [] OTHER -> <<>>

VARIABLES
    target,         \* the member of Targets this behaviour is about
    kernel,         \* kernel[cpu][field]: the counters of the system
    clock,          \* history: the ticks counted so far, idle and all,
                    \* and how often a counter was taken back
    previous,       \* the sample before the latest
    latest,         \* the latest sample
    result          \* what the last call returned

vars == <<target, kernel, clock, previous, latest, result>>

None    == [some |-> FALSE]
Some(v) == [some |-> TRUE, val |-> v]

\* What a call gives: a State, an f64, an error, or a panic.
Returned(kind) == [kind |-> kind, num |-> 0, den |-> 0]
Ok(state)      == [kind |-> "ok", state |-> state]
Panicked       == Returned("panic")
Err            == Returned("err")

Fields == ToSet(FieldsOf(target.os))
Cpus   == 1 .. (IF target.os = "macos" THEN target.cpus ELSE 1)

\* The counters of one field over the CPUs.
Total(counters, field) == SumFunction([c \in DOMAIN counters |-> counters[c][field]])

-----------------------------------------------------------------------------
(* imp::current                                                            *)

\* The lines of /proc/stat, of which the first is read: the label and the
\* columns this kernel has.  The file of a /proc that is masked is empty.
ProcStat ==
    [l \in 1 .. target.lines |->
        [label  |-> "cpu",
         values |-> [i \in 1 .. target.columns |-> kernel[1][LinuxFields[i]]]]]

\* lines().next().unwrap() panics on an empty file, and every
\* parts.next().unwrap() on a line that has no column left.
LinuxCurrent ==
    IF ProcStat = <<>> THEN Panicked
    ELSE IF Head(ProcStat).label # "cpu" THEN Err
    ELSE IF Len(Head(ProcStat).values) < Len(LinuxFields) THEN Panicked
    ELSE Ok([i \in DOMAIN LinuxFields |-> Head(ProcStat).values[i]])

\* The system counts the ticks in a natural_t, and cpu_info points to i32:
\* the upper half of the words is read as the negative numbers.
AsI32(ticks) ==
    LET word == ticks % Word IN IF word >= Word \div 2 THEN word - Word ELSE word

\* `as u64` of an i32 extends the sign.
I32AsU64(n) == n % Modulus

\* What host_processor_info returns: for every processor its counters, in
\* the order of the CPU_STATE constants.
CpuInfo ==
    FlattenSeq([c \in Cpus |-> [i \in DOMAIN MacFields |-> AsI32(kernel[c][MacFields[i]])]])

\* slice.chunks(size)
Chunks(seq, size) ==
    [k \in 1 .. (Len(seq) + size - 1) \div size |->
        SubSeq(seq, size * (k - 1) + 1, IF size * k < Len(seq) THEN size * k ELSE Len(seq))]

\* An index past the end of a piece panics; `+=` panics in a build that
\* checks for overflow, and wraps in one that does not.
MacCurrent ==
    LET chunks == Chunks(CpuInfo, target.cpus)
        ret    == [i \in DOMAIN MacFields |->
                      SumFunction([k \in DOMAIN chunks |-> I32AsU64(chunks[k][i])])]
    IN  IF \/ \E k \in DOMAIN chunks : Len(chunks[k]) < Len(MacFields)
           \/ target.overflow_checks /\ \E i \in DOMAIN ret : ret[i] >= Modulus
        THEN Panicked
        ELSE Ok([i \in DOMAIN ret |-> ret[i] % Modulus])

\* Mutant: the high half is left out.
ToU64LowOnly(a) == a.dwLowDateTime

to_u64(a) == a.dwHighDateTime * Word + a.dwLowDateTime

FILETIME(time) == [dwLowDateTime |-> time % Word, dwHighDateTime |-> time \div Word]

WindowsCurrent ==
    Ok([i \in DOMAIN WindowsFields |-> FILETIME(kernel[1][WindowsFields[i]])])

\* The State, field by field in the order of FieldsOf, an error or a panic.
Current ==
    CASE target.os = "linux" -> LinuxCurrent
      [] target.os = "macos" -> MacCurrent
      [] target.os = "windows" -> WindowsCurrent
      [] OTHER -> Err

-----------------------------------------------------------------------------
(* imp::pct_idle                                                           *)

AsU64(value) == IF target.os = "windows" THEN to_u64(value) ELSE value

\* next.field - prev.field for every field, where the subtraction wraps.
Differences(prev, next) ==
    [i \in DOMAIN prev |-> (AsU64(next[i]) - AsU64(prev[i])) % Modulus]

Index(field) == CHOOSE i \in DOMAIN FieldsOf(target.os) : FieldsOf(target.os)[i] = field

\* The fields that `total` adds up; the kernel time of Windows has the idle
\* time in it.
Summed == IF target.os = "windows" THEN {"user", "kernel"} ELSE Fields

\* The quotient of two f64 is kept as the pair of them: 0/0 is NaN.
PctIdle(prev, next) ==
    LET diff  == Differences(prev, next)
        total == SumFunction([f \in Summed |-> diff[Index(f)]])
    IN  IF target.overflow_checks
           /\ (total >= Modulus \/ \E i \in DOMAIN prev : AsU64(next[i]) < AsU64(prev[i]))
        THEN Panicked
        ELSE [kind |-> "pct", num |-> 100 * diff[Index("idle")], den |-> total % Modulus]

-----------------------------------------------------------------------------
(* The system and the program                                              *)

Init ==
    /\ target \in Targets
    /\ kernel = [c \in Cpus |-> [f \in Fields |-> target.uptime]]
    /\ clock = [idle |-> 0, all |-> 0, back |-> 0]
    /\ previous = None /\ latest = None
    /\ result = Returned("ok")

Running == result.kind # "panic"

\* One tick of one CPU is counted.  Windows counts an idle tick as kernel
\* time too.
Tick(cpu, field) ==
    /\ Running /\ clock.all < MaxTicks
    /\ cpu \in Cpus /\ field \in Ticking \cap Fields
    /\ kernel' = [kernel EXCEPT ![cpu] =
           [f \in Fields |->
               IF f = field \/ (f = "kernel" /\ field = "idle") THEN @[f] + 1 ELSE @[f]]]
    /\ clock' = [clock EXCEPT
           !.all  = @ + 1,
           !.idle = IF field = "idle" THEN @ + 1 ELSE @]
    /\ UNCHANGED <<target, previous, latest, result>>

\* Linux takes iowait back when a task that waited on one CPU wakes up on
\* another.
IowaitDrops ==
    /\ Running /\ target.os = "linux" /\ kernel[1]["iowait"] > target.uptime
    /\ kernel' = [kernel EXCEPT ![1]["iowait"] = @ - 1]
    /\ clock' = [clock EXCEPT !.back = @ + 1]
    /\ UNCHANGED <<target, previous, latest, result>>

Panic ==
    /\ result' = Panicked
    /\ previous' = None /\ latest' = None
    /\ UNCHANGED <<target, kernel, clock>>

\* State::current returns a State.
CurrentOk ==
    /\ Running /\ Current.kind = "ok"
    /\ previous' = latest
    /\ latest' = Some([state |-> Current.state, clock |-> clock])
    /\ result' = Returned("ok")
    /\ UNCHANGED <<target, kernel, clock>>

\* State::current returns the error of its own: the platform has no
\* counters, or the first line of /proc/stat is not the one of `cpu`.
CurrentErr ==
    /\ Running /\ Current.kind = "err"
    /\ result' = Err
    /\ UNCHANGED <<target, kernel, clock, previous, latest>>

\* State::current returns the error of the system, which may refuse at
\* any call.
SystemFails(os) ==
    /\ Running /\ target.os = os
    /\ result' = Err
    /\ UNCHANGED <<target, kernel, clock, previous, latest>>

\* /proc/stat cannot be opened or read.
ReadFails == SystemFails("linux")

\* host_processor_info returns an error.
HostProcessorInfoFails == SystemFails("macos")

\* GetSystemTimes returns 0.
GetSystemTimesFails == SystemFails("windows")

\* State::current panics in an unwrap or at an index.
CurrentPanics == Running /\ Current.kind = "panic" /\ Panic

Sampled == Running /\ previous.some /\ latest.some

\* latest.idle_since(&previous) returns.
IdleSince ==
    /\ Sampled /\ PctIdle(previous.val.state, latest.val.state).kind = "pct"
    /\ result' = PctIdle(previous.val.state, latest.val.state)
    /\ UNCHANGED <<target, kernel, clock, previous, latest>>

\* A subtraction overflows in a build that checks for it.
IdleSincePanics ==
    Sampled /\ PctIdle(previous.val.state, latest.val.state).kind = "panic" /\ Panic

Next ==
    \/ \E cpu \in Cpus, field \in Ticking : Tick(cpu, field)
    \/ IowaitDrops
    \/ CurrentOk
    \/ CurrentErr
    \/ ReadFails
    \/ HostProcessorInfoFails
    \/ GetSystemTimesFails
    \/ CurrentPanics
    \/ IdleSince
    \/ IdleSincePanics

Spec == Init /\ [][Next]_vars

-----------------------------------------------------------------------------
(* Properties.                                                             *)

\* A State exists only on a platform that has counters, with a value for
\* every field, so pct_idle of the other platforms (unimplemented!) is out
\* of reach; numbers are u64.
TypeOK ==
    /\ target \in Targets
    /\ \A s \in {previous, latest} :
          s.some => /\ target.os # "other"
                    /\ DOMAIN s.val.state = DOMAIN FieldsOf(target.os)
                    /\ \A i \in DOMAIN s.val.state : AsU64(s.val.state[i]) \in 0 .. Modulus - 1
    /\ result.kind \in {"ok", "err", "panic", "pct"}
    /\ result.num \in 0 .. 100 * (Modulus - 1) /\ result.den \in 0 .. Modulus - 1

\* The ticks between the two samples held.
Between(what) == latest.val.clock[what] - previous.val.clock[what]

\* "Returns the percentage of time CPUs were idle from the current state
\* relative to the previous state, as a percentage from 0.0 to 100.0":
\* what idle_since returns is a number, and one between 0 and 100.
IdleSinceIsPercentage ==
    result.kind = "pct" => result.den > 0 /\ result.num <= 100 * result.den

\* "the amount of time that the entire system was idle between the
\* `previous` state and this own state": when ticks were counted between
\* the two samples and no counter was taken back, what idle_since returns
\* is the share of the idle ticks among all ticks counted in between, on
\* every CPU.  It stays so when a counter of the system wraps between the
\* samples, and when the low half of a FILETIME carries into the high
\* half: the differences are taken modulo 2^64, of sums that current added
\* up modulo 2^64.
IdleSinceIsExact ==
    (result.kind = "pct" /\ Between("back") = 0 /\ Between("all") > 0)
        => result.num * Between("all") = 100 * Between("idle") * result.den

\* "Captures the current state of all CPUs on the system": a call of
\* current that the system answers gives a State that holds, for every
\* field, the sum of the counters of all CPUs.
CurrentCapturesAllCpus ==
    [][(CurrentOk \/ CurrentPanics) =>
          /\ result'.kind = "ok"
          /\ \A i \in DOMAIN FieldsOf(target.os) :
                AsU64(latest'.val.state[i]) = Total(kernel, FieldsOf(target.os)[i])]_vars

=============================================================================
