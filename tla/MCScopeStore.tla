---------------------------- MODULE MCScopeStore ----------------------------
(* Small instances of ScopeStore: two tasks in one process, one in another. *)
EXTENDS ScopeStore, TLC

CONSTANTS p1, p2, t1, t2, t3, i1, i2, i3, f1, f2

TwoTasksOneProcess == t1 :> p1 @@ t2 :> p1 @@ t3 :> p2

OneTaskEach == t1 :> p1 @@ t3 :> p2
=============================================================================
