---------------------------- MODULE MCAccessLog ----------------------------
(* Small instances of AccessLog. *)
EXTENDS AccessLog, TLC

CONSTANTS r1, r2, r3, g1, g2, p1, p2

\* Every task in the same process.
OneProcess == [t \in Tasks |-> p1]

\* The first recall alone in its process.
TwoProcesses == [t \in Tasks |-> IF t = r1 THEN p1 ELSE p2]

Symmetry == Permutations(Recalls)
=============================================================================
