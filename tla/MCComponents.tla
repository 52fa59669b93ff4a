---------------------------- MODULE MCComponents ----------------------------
(***************************************************************************)
(* Components for TLC.                                                     *)
(*                                                                         *)
(* lock: three threads that nest their calls three deep.                   *)
(*                                                                         *)
(* dictionary: two dictionaries over two keys that are equal and not the   *)
(* same, and two values; the slices of from_CFType_pairs are one of a      *)
(* single pair and one of two pairs with equal keys.                       *)
(*                                                                         *)
(* cpu: one target per platform and build, numbers of 16 bits.             *)
(*                                                                         *)
(* jobs: three packages with build scripts, where `a` depends on `b` and   *)
(* `c`, `b` depends on `c`, and the script of `c` is overridden.  `b` is   *)
(* also built for the host, so two units share its sources and differ in   *)
(* their key.                                                              *)
(***************************************************************************)
EXTENDS Components, TLC

MCThreads == {"t1", "t2", "t3"}

MCKeys   == {"bar", "bar2"}
MCValues == {"boo", "tru"}
MCDicts  == {"d1", "d2"}
MCText   == [k \in MCKeys |-> "Bar"]

MCPairLists ==
    { << <<"bar", "boo">> >>,
      << <<"bar", "boo">>, <<"bar2", "tru">> >> }

-----------------------------------------------------------------------------
(* cpu                                                                     *)

\* A u64 of 16 bits.
MCWord == 256

\* Counters that are one tick from the carry into the high half of a
\* FILETIME, which is where a natural_t wraps, and counters that are one
\* tick from the first negative i32.
MCUptime   == MCWord - 1
MCHalfTime == MCWord \div 2 - 1

Target(os, columns, cpus, uptimes) ==
    {[os |-> os, lines |-> 1, columns |-> columns, cpus |-> cpus,
      overflow_checks |-> checks, uptime |-> uptime] :
        checks \in BOOLEAN, uptime \in uptimes}

\* Linux where /proc/stat is masked by an empty file.
MCMasked == {[t EXCEPT !.lines = 0] : t \in Target("linux", 0, 1, {0})}

\* macOS on machines of two and of eight CPUs, just started.
MCMacTargets == Target("macos", 0, 2, {0}) \cup Target("macos", 0, 8, {0})

\* macOS on four CPUs whose counters are one tick from the first negative
\* i32.
MCHalfTargets == Target("macos", 0, 4, {MCHalfTime})

\* Linux with the ten columns of today, with the eight of a kernel before
\* 2.6.24 and with a masked /proc/stat; macOS on four CPUs, just started
\* and one tick from the wrap of a natural_t; Windows; a platform without
\* counters.
MCTargets ==
    Target("linux", 10, 1, {MCUptime}) \cup Target("linux", 8, 1, {MCUptime})
        \cup MCMasked \cup Target("macos", 0, 4, {0, MCUptime})
        \cup Target("windows", 0, 1, {MCUptime}) \cup Target("other", 0, 1, {0})

MCTicking == {"user", "idle", "iowait"}

-----------------------------------------------------------------------------
(* jobs                                                                    *)

U(pkg) == [pkg |-> pkg, kind |-> "Target"]
H(pkg) == [pkg |-> pkg, kind |-> "Host"]

MCUnits   == {U("a"), U("b"), U("c"), H("b")}
MCLibDeps ==
    (U("a") :> {"b", "c"}) @@ (U("b") :> {"c"}) @@ (U("c") :> {}) @@ (H("b") :> {})
MCOverridden == {U("c")}

\* The script prints a malformed directive at stamp 2, and a good one
\* before and after.
MCGarbled == {2}

=============================================================================
