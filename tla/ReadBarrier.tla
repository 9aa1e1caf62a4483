----------------------------- MODULE ReadBarrier -----------------------------
(***************************************************************************)
(* What the read barrier of one MCP server promises (server.rs), whatever  *)
(* it is made of: whoever waits gets past it only while no mutation runs,  *)
(* and mutations wait for nobody.                                          *)
(***************************************************************************)

CONSTANTS Mutations, Waiters

VARIABLES
    running,    \* mutations that were accepted and have not settled
    waiting,    \* waiters at the barrier
    passed      \* waiters past it

Barrier == <<running, waiting, passed>>

Init ==
    /\ running = {}
    /\ waiting = {}
    /\ passed = {}

\* A mutation is accepted.
Begin(m) ==
    /\ m \notin running
    /\ running' = running \cup {m}
    /\ UNCHANGED <<waiting, passed>>

\* A mutation settles.
Settle(m) ==
    /\ m \in running
    /\ running' = running \ {m}
    /\ UNCHANGED <<waiting, passed>>

Arrive(w) ==
    /\ w \notin waiting \cup passed
    /\ waiting' = waiting \cup {w}
    /\ UNCHANGED <<running, passed>>

\* Only an idle server lets a waiter pass.
Pass(w) ==
    /\ w \in waiting
    /\ running = {}
    /\ waiting' = waiting \ {w}
    /\ passed' = passed \cup {w}
    /\ UNCHANGED running

\* A waiter has its answer, or no longer asks.
Leave(w) ==
    /\ w \in waiting \cup passed
    /\ waiting' = waiting \ {w}
    /\ passed' = passed \ {w}
    /\ UNCHANGED running

Next ==
    \/ \E m \in Mutations : Begin(m) \/ Settle(m)
    \/ \E w \in Waiters : Arrive(w) \/ Pass(w) \/ Leave(w)

Spec == Init /\ [][Next]_Barrier
=============================================================================
