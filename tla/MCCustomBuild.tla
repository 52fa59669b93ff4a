--------------------------- MODULE MCCustomBuild ---------------------------
(***************************************************************************)
(* CustomBuild for three packages with build scripts: `a` depends on `b`   *)
(* and `c`, `b` depends on `c`, and the script of `c` is overridden.  `b`  *)
(* is also built for the host, so two units share its sources and differ   *)
(* in their key.                                                           *)
(***************************************************************************)
EXTENDS CustomBuild, TLC

U(pkg) == [pkg |-> pkg, kind |-> "Target"]
H(pkg) == [pkg |-> pkg, kind |-> "Host"]

MCUnits   == {U("a"), U("b"), U("c"), H("b")}
MCLibDeps ==
    (U("a") :> {"b", "c"}) @@ (U("b") :> {"c"}) @@ (U("c") :> {}) @@ (H("b") :> {})
MCOverridden == {U("c")}

\* The script prints a malformed directive at stamp 2, and a good one
\* before and after.
MCGarbled == {2}

=============================================================================
