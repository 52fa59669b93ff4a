------------------------------ MODULE MCBuild ------------------------------
(***************************************************************************)
(* A build of three packages with build scripts on two worker slots: `a`   *)
(* depends on `b` and `c`, the script of `c` is overridden, and `b` is     *)
(* built for the host too.  Three units can start at once, one more than   *)
(* there are slots.                                                        *)
(***************************************************************************)
EXTENDS Build, TLC

U(pkg) == [pkg |-> pkg, kind |-> "Target"]

H(pkg) == [pkg |-> pkg, kind |-> "Host"]

MCUnits   == {U("a"), U("b"), U("c"), H("b")}
MCLibDeps ==
    (U("a") :> {"b", "c"}) @@ (U("b") :> {}) @@ (U("c") :> {}) @@ (H("b") :> {})
MCOverridden == {U("c")}

\* The script prints a malformed directive at stamp 2.
MCGarbled == {2}

=============================================================================
