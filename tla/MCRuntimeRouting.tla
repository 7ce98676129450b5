--------------------------- MODULE MCRuntimeRouting ---------------------------
(* Instances of RuntimeRouting for TLC: of three snapshots one passes both     *)
(* gates, one passes the only gate it checks, one fails a gate.                *)
EXTENDS RuntimeRouting, TLC

CONSTANTS g1, g2, s1, s2, s3, a1, a2, r1, r2, c1, c2

SnapshotChecks == (s1 :> {g1}) @@ (s2 :> {g1, g2}) @@ (s3 :> {g1, g2})
SnapshotPassed == (s1 :> {g1}) @@ (s2 :> {g1}) @@ (s3 :> {g1, g2})

\* Approvals, calls and requests are interchangeable.
Interchangeable ==
    Permutations(Approval) \union Permutations(Admin) \union Permutations(Request)
===============================================================================
