------------------------------ MODULE InFlight ------------------------------
(***************************************************************************)
(* The read barrier and shutdown drain of one MCP server (server.rs).      *)
(* Every accepted mutation runs in a task of its own that holds a guard of *)
(* a shared counter; dropping the last guard wakes everyone who waits for  *)
(* the server to be idle.  Reads wait before they run, and so does the     *)
(* server itself after its transport has closed, before it lets the        *)
(* runtime go.  Callers may cancel at any time.                            *)
(*                                                                         *)
(* The counter and tokio's Notify are modelled step by step: decrementing  *)
(* and notifying are two steps of a guard, registering, checking the       *)
(* counter and awaiting are three steps of a waiter.                       *)
(***************************************************************************)
EXTENDS Integers, FiniteSets

CONSTANTS
    Mutations,  \* calls whose class is not read-only
    Reads,      \* read-only calls
    Server      \* the drain of serve_stdio

Calls == Mutations \cup Reads

Waiters == Reads \cup {Server}

ASSUME InFlightAssumption ==
    /\ IsFiniteSet(Mutations)
    /\ Mutations \cap Waiters = {}
    /\ Server \notin Reads

VARIABLES
    pc,         \* where each call and the server are
    active,     \* InFlightMutations::active
    listening,  \* waiters registered with InFlightMutations::idle
    woken,      \* registered waiters that notify_waiters has reached
    before      \* the mutations each waiter found in flight when it came

vars == <<pc, active, listening, woken, before>>

\* The mutations that hold a guard.
InFlightNow == {m \in Mutations : pc[m] = "running"}

Places ==
    {"unsent", "received", "running", "notify", "settled", "cancelled",
     "serving", "barrier", "registered", "parked", "reading", "done", "exited"}

Init ==
    /\ pc = [x \in Calls \cup {Server} |->
               IF x = Server THEN "serving" ELSE "unsent"]
    /\ active = 0
    /\ listening = {}
    /\ woken = {}
    /\ before = [w \in Waiters |-> {}]

Goto(x, place) == pc' = [pc EXCEPT ![x] = place]

\* The runtime still runs.
Alive == pc[Server] # "exited"

-----------------------------------------------------------------------------
(* Calls arrive and mutations run.                                         *)

\* The transport hands a call to its handler; a read goes to the barrier.
Receive(c) ==
    /\ pc[Server] = "serving"
    /\ pc[c] = "unsent"
    /\ IF c \in Reads
       THEN /\ Goto(c, "barrier")
            /\ before' = [before EXCEPT ![c] = InFlightNow]
       ELSE Goto(c, "received") /\ UNCHANGED before
    /\ UNCHANGED <<active, listening, woken>>

\* Mutant: the guard is built without counting it.
BeginUncounted(m) ==
    /\ Alive
    /\ pc[m] = "received"
    /\ Goto(m, "running")
    /\ UNCHANGED <<active, listening, woken, before>>

\* InFlightMutations::begin, then tokio::spawn: the mutation is accepted.  A
\* handler that was already running may still get here after the transport has
\* closed.
Begin(m) ==
    /\ Alive
    /\ pc[m] = "received"
    /\ active' = active + 1
    /\ Goto(m, "running")
    /\ UNCHANGED <<listening, woken, before>>

\* Mutant: whether to notify is decided by an off-by-one count.
SettleUnnoticed(m) ==
    /\ Alive
    /\ pc[m] = "running"
    /\ active' = active - 1
    /\ Goto(m, IF active = 0 THEN "notify" ELSE "settled")
    /\ UNCHANGED <<listening, woken, before>>

\* The mutation returns or panics, and its guard's drop decrements the counter.
Settle(m) ==
    /\ Alive
    /\ pc[m] = "running"
    /\ active' = active - 1
    /\ Goto(m, IF active = 1 THEN "notify" ELSE "settled")
    /\ UNCHANGED <<listening, woken, before>>

\* Mutant: notify_one instead of notify_waiters.
NotifyOne(m) ==
    /\ Alive
    /\ pc[m] = "notify"
    /\ \/ listening = {} /\ UNCHANGED <<listening, woken>>
       \/ \E w \in listening :
            woken' = woken \cup {w} /\ listening' = listening \ {w}
    /\ Goto(m, "settled")
    /\ UNCHANGED <<active, before>>

\* The drop that reached zero wakes all registered waiters.
Notify(m) ==
    /\ Alive
    /\ pc[m] = "notify"
    /\ woken' = woken \cup listening
    /\ listening' = {}
    /\ Goto(m, "settled")
    /\ UNCHANGED <<active, before>>

-----------------------------------------------------------------------------
(* wait_for_idle.                                                          *)

\* Mutant: the waiter is not registered before it looks at the counter.
RegisterLate(w) ==
    /\ Alive
    /\ pc[w] = "barrier"
    /\ Goto(w, "registered")
    /\ UNCHANGED <<active, listening, woken, before>>

Register(w) ==
    /\ Alive
    /\ pc[w] = "barrier"
    /\ listening' = listening \cup {w}
    /\ Goto(w, "registered")
    /\ UNCHANGED <<active, woken, before>>

\* Mutant: a waiter that was woken does not look at the counter again.
CheckOnce(w) ==
    /\ Alive
    /\ pc[w] \in {"registered", "parked"}
    /\ IF active = 0 \/ w \in woken
       THEN /\ Goto(w, IF w = Server THEN "exited" ELSE "reading")
            /\ listening' = listening \ {w}
            /\ woken' = woken \ {w}
       ELSE Goto(w, "parked") /\ UNCHANGED <<listening, woken>>
    /\ UNCHANGED <<active, before>>

\* Idle: the read runs, or the server exits and takes the runtime with it.
Check(w) ==
    /\ Alive
    /\ pc[w] = "registered"
    /\ IF active = 0
       THEN /\ Goto(w, IF w = Server THEN "exited" ELSE "reading")
            /\ listening' = listening \ {w}
            /\ woken' = woken \ {w}
       ELSE Goto(w, "parked") /\ UNCHANGED <<listening, woken>>
    /\ UNCHANGED <<active, before>>

\* notified.await returns, and the loop starts over.
Wake(w) ==
    /\ Alive
    /\ pc[w] = "parked"
    /\ w \in woken
    /\ woken' = woken \ {w}
    /\ Goto(w, "barrier")
    /\ UNCHANGED <<active, listening, before>>

Answer(r) ==
    /\ Alive
    /\ pc[r] = "reading"
    /\ Goto(r, "done")
    /\ UNCHANGED <<active, listening, woken, before>>

-----------------------------------------------------------------------------
(* Cancellation and shutdown.                                              *)

\* Mutant: the mutation runs in the request's own future.
CancelAborts(c) ==
    /\ Alive
    /\ pc[c] \in {"received", "running", "barrier", "registered", "parked",
                  "reading"}
    /\ Goto(c, "cancelled")
    /\ listening' = listening \ {c}
    /\ woken' = woken \ {c}
    /\ UNCHANGED <<active, before>>

\* The request future is dropped.  A mutation that has begun is only detached
\* from it; a read, or a handler that has not begun its mutation, ends.
Cancel(c) ==
    /\ Alive
    /\ pc[c] \in {"received", "barrier", "registered", "parked", "reading"}
    /\ Goto(c, "cancelled")
    /\ listening' = listening \ {c}
    /\ woken' = woken \ {c}
    /\ UNCHANGED <<active, before>>

\* EOF or disconnect: serve_stdio goes on to wait_for_idle.
Close ==
    /\ pc[Server] = "serving"
    /\ Goto(Server, "barrier")
    /\ before' = [before EXCEPT ![Server] = InFlightNow]
    /\ UNCHANGED <<active, listening, woken>>

Exited == ~Alive /\ UNCHANGED vars

MutationStep(m) == Begin(m) \/ Settle(m) \/ Notify(m)

WaiterStep(w) == Register(w) \/ Check(w) \/ Wake(w)

Next ==
    \/ \E c \in Calls : Receive(c) \/ Cancel(c)
    \/ \E m \in Mutations : MutationStep(m)
    \/ \E w \in Waiters : WaiterStep(w)
    \/ \E r \in Reads : Answer(r)
    \/ Close
    \/ Exited

Spec == Init /\ [][Next]_vars

\* Tokio polls every ready task, and a file operation ends.  Nothing obliges a
\* client to call, to cancel or to close.
Fairness ==
    /\ \A m \in Mutations : WF_vars(MutationStep(m))
    /\ \A w \in Waiters : WF_vars(WaiterStep(w))

FairSpec == Spec /\ Fairness

-----------------------------------------------------------------------------

TypeOK ==
    /\ pc \in [Calls \cup {Server} -> Places]
    /\ active \in Nat
    /\ listening \in SUBSET Waiters
    /\ woken \in SUBSET Waiters
    /\ before \in [Waiters -> SUBSET Mutations]

\* The counter is the number of guards: what wait_for_idle reads as zero is an
\* idle server.
CounterIsExact == active = Cardinality(InFlightNow)

\* A read never overtakes a mutation accepted before it, and the runtime does
\* not end under a mutation accepted before the transport closed, whatever was
\* cancelled meanwhile.
BarrierHolds ==
    \A w \in Waiters :
        pc[w] \in {"reading", "done", "exited"} =>
            before[w] \cap InFlightNow = {}

\* No missed wakeup: whoever is parked was woken already, or is registered
\* while a guard is left that will notify, or that is about to.
NoMissedWakeup ==
    \A w \in Waiters :
        pc[w] = "parked" =>
            \/ w \in woken
            \/ /\ w \in listening
               /\ \/ InFlightNow # {}
                  \/ \E m \in Mutations : pc[m] = "notify"

\* A waiter that has registered keeps its registration until it is woken.
RegisteredListens ==
    \A w \in Waiters : pc[w] = "registered" => w \in listening \cup woken

\* Mutations found in flight had begun.
BeforeBegan ==
    \A w \in Waiters :
        \A m \in before[w] : pc[m] \in {"running", "notify", "settled"}

Abstract ==
    INSTANCE ReadBarrier WITH
        running <- InFlightNow,
        waiting <- {w \in Waiters : pc[w] \in {"barrier", "registered", "parked"}},
        passed  <- {w \in Waiters : pc[w] \in {"reading", "exited"}}

\* The counter, its guards and Notify make a read barrier: registering, checking
\* and parking are one wait, and only a server without a mutation ends it.
ImplementsReadBarrier == Abstract!Spec

\* The conjunction the proofs carry from step to step.
Inv ==
    /\ TypeOK
    /\ CounterIsExact
    /\ BarrierHolds
    /\ NoMissedWakeup
    /\ RegisteredListens
    /\ BeforeBegan

\* A read is answered, unless its caller cancels or the server exits.
ReadsAnswered ==
    \A r \in Reads :
        pc[r] = "barrier" ~> pc[r] \in {"reading", "done", "cancelled"} \/ ~Alive

\* The drain ends.
DrainEnds == pc[Server] = "barrier" ~> pc[Server] = "exited"

\* Cancelling its caller does not abort a mutation accepted before the close.
AcceptedMutationSettles ==
    \A m \in Mutations :
        pc[m] = "running" /\ pc[Server] = "serving" ~>
            pc[m] \in {"notify", "settled"}
=============================================================================
