--------------------------- MODULE InFlight_proofs ---------------------------
(***************************************************************************)
(* Proofs about InFlight, for any finite set of mutations and any set of   *)
(* reads.  The argument: the counter is exactly the number of guards, so   *)
(* a waiter that reads zero has seen every guard dropped; and whoever      *)
(* reads another value is registered already, so the guard that reaches    *)
(* zero, which is still to come, finds it.                                 *)
(***************************************************************************)
EXTENDS InFlight, FiniteSetTheorems, TLAPS

\* The guards held are finitely many, and zero of them means none.
LEMMA InFlightFinite ==
  /\ IsFiniteSet(InFlightNow)
  /\ Cardinality(InFlightNow) \in Nat
  /\ Cardinality(InFlightNow) = 0 <=> InFlightNow = {}
<1>1. InFlightNow \subseteq Mutations /\ IsFiniteSet(Mutations)
  BY InFlightAssumption DEF InFlightNow
<1>2. IsFiniteSet(InFlightNow)
  BY <1>1, FS_Subset
<1>3. QED
  BY <1>2, FS_EmptySet, FS_CardinalityType

\* The server starts idle.
LEMMA InitInv == Init => Inv
<1> SUFFICES ASSUME Init PROVE Inv
  OBVIOUS
<1>1. TypeOK
  BY DEF Init, TypeOK, Places
<1>2. InFlightNow = {}
  BY InFlightAssumption DEF Init, InFlightNow, Calls, Waiters
<1>3. CounterIsExact
  BY <1>2, FS_EmptySet DEF Init, CounterIsExact
<1>4. \A w \in Waiters : pc[w] \in {"serving", "unsent"} /\ before[w] = {}
  BY DEF Init, Waiters, Calls
<1>5. BarrierHolds /\ NoMissedWakeup /\ RegisteredListens /\ BeforeBegan
  BY <1>4 DEF BarrierHolds, NoMissedWakeup, RegisteredListens, BeforeBegan
<1>6. QED
  BY <1>1, <1>3, <1>5 DEF Inv

\* A step that moves one call or waiter, starts and ends no mutation.
LEMMA SameGuards ==
  ASSUME TypeOK, NEW x \in Calls \cup {Server}, NEW place \in Places,
         Goto(x, place),
         x \in Mutations => pc[x] # "running" /\ place # "running"
  PROVE  /\ pc' \in [Calls \cup {Server} -> Places]
         /\ InFlightNow' = InFlightNow
<1>1. pc \in [Calls \cup {Server} -> Places]
  BY DEF TypeOK
<1>2. \A m \in Mutations : m \in Calls \cup {Server}
  BY DEF Calls
<1>3. QED
  BY <1>1, <1>2 DEF Goto, InFlightNow

\* Arriving.
LEMMA ReceiveInv == ASSUME Inv, NEW c \in Calls, Receive(c) PROVE Inv'
<1> USE DEF Inv
<1>1. /\ pc[c] = "unsent" /\ Goto(c, IF c \in Reads THEN "barrier" ELSE "received")
      /\ UNCHANGED <<active, listening, woken>>
      /\ before' = IF c \in Reads THEN [before EXCEPT ![c] = InFlightNow]
                   ELSE before
  BY DEF Receive
<1>2. pc' \in [Calls \cup {Server} -> Places] /\ InFlightNow' = InFlightNow
  BY <1>1, SameGuards DEF Places
<1>3. TypeOK'
  BY <1>1, <1>2 DEF TypeOK, InFlightNow
<1>4. CounterIsExact'
  BY <1>1, <1>2 DEF CounterIsExact
<1>5. \A x \in Calls \cup {Server} :
        pc'[x] = IF x = c THEN IF c \in Reads THEN "barrier" ELSE "received"
                 ELSE pc[x]
  BY <1>1 DEF Goto, TypeOK
<1>6. \A w \in Waiters : w \in Calls \cup {Server}
                         /\ (w # c \/ c \notin Reads => before'[w] = before[w])
                         /\ (w = c => before'[w] = InFlightNow)
  BY <1>1, InFlightAssumption DEF Waiters, Calls, TypeOK
<1>7. BarrierHolds'
  BY <1>1, <1>2, <1>5, <1>6 DEF BarrierHolds
<1>8. NoMissedWakeup'
  BY <1>1, <1>2, <1>5, <1>6 DEF NoMissedWakeup, Calls
<1>9. RegisteredListens'
  BY <1>1, <1>5, <1>6 DEF RegisteredListens
<1>10. BeforeBegan'
  BY <1>1, <1>5, <1>6 DEF BeforeBegan, InFlightNow, Calls, TypeOK
<1>11. QED
  BY <1>3, <1>4, <1>7, <1>8, <1>9, <1>10

\* A step that starts and ends no mutation and finds no new ones keeps the
\* invariant, if the place it reaches and the registrations it leaves earn it.
LEMMA MoveInv ==
  ASSUME Inv, NEW x \in Calls \cup {Server}, NEW place \in Places,
         Goto(x, place), UNCHANGED <<active, before>>,
         x \in Mutations => pc[x] \notin {"running", "notify", "settled"}
                            /\ place # "running",
         listening' \in SUBSET Waiters, woken' \in SUBSET Waiters,
         \A w \in Waiters \ {x} :
            (w \in listening' <=> w \in listening) /\ (w \in woken' <=> w \in woken),
         x \in Waiters => place # "notify",
         x \in Waiters /\ place = "registered" => x \in listening' \cup woken',
         x \in Waiters /\ place = "parked" =>
            /\ InFlightNow # {}
            /\ x \in listening' \cup woken',
         x \in Waiters /\ place \in {"reading", "done", "exited"} =>
            before[x] \cap InFlightNow = {}
  PROVE  Inv'
<1> USE DEF Inv
<1>1. pc' \in [Calls \cup {Server} -> Places] /\ InFlightNow' = InFlightNow
  BY SameGuards
<1>2. TypeOK'
  BY <1>1 DEF TypeOK
<1>3. CounterIsExact'
  BY <1>1 DEF CounterIsExact
<1>4. \A y \in Calls \cup {Server} : pc'[y] = IF y = x THEN place ELSE pc[y]
  BY DEF Goto, TypeOK
<1>5. Waiters \subseteq Calls \cup {Server} /\ Mutations \subseteq Calls
      /\ Mutations \cap Waiters = {}
  BY InFlightAssumption DEF Waiters, Calls
<1>6. BarrierHolds'
  BY <1>1, <1>4, <1>5 DEF BarrierHolds
<1>7. RegisteredListens'
  BY <1>4, <1>5 DEF RegisteredListens
<1>8. BeforeBegan'
  BY <1>4, <1>5 DEF BeforeBegan, TypeOK
<1>9. NoMissedWakeup'
  <2>1. \A m \in Mutations : pc[m] = "notify" => pc'[m] = "notify"
    BY <1>4, <1>5
  <2>2. QED
    BY <1>1, <1>4, <1>5, <2>1 DEF NoMissedWakeup
<1>10. QED
  BY <1>2, <1>3, <1>6, <1>7, <1>8, <1>9

\* Accepting a mutation counts its guard.
LEMMA BeginInv == ASSUME Inv, NEW m \in Mutations, Begin(m) PROVE Inv'
<1> USE DEF Inv
<1>1. /\ pc[m] = "received" /\ pc' = [pc EXCEPT ![m] = "running"]
      /\ active' = active + 1 /\ UNCHANGED <<listening, woken, before>>
  BY DEF Begin, Goto
<1>2. /\ Waiters \subseteq Calls \cup {Server} /\ Mutations \subseteq Calls
      /\ Mutations \cap Waiters = {}
  BY InFlightAssumption DEF Waiters, Calls
<1>3. \A y \in Calls \cup {Server} : pc'[y] = IF y = m THEN "running" ELSE pc[y]
  BY <1>1 DEF TypeOK
<1>4. TypeOK'
  BY <1>1, <1>2 DEF TypeOK, Places
<1>5. InFlightNow' = InFlightNow \cup {m} /\ m \notin InFlightNow
  BY <1>1, <1>2, <1>3 DEF InFlightNow
<1>6. CounterIsExact'
  <2>1. Cardinality(InFlightNow \cup {m}) = Cardinality(InFlightNow) + 1
    BY <1>5, InFlightFinite, FS_AddElement
  <2>2. QED
    BY <1>1, <1>5, <2>1 DEF CounterIsExact
<1>7. \A w \in Waiters : m \notin before[w]
  BY <1>1 DEF BeforeBegan
<1>8. BarrierHolds'
  BY <1>1, <1>2, <1>3, <1>5, <1>7 DEF BarrierHolds
<1>9. RegisteredListens' /\ BeforeBegan'
  BY <1>1, <1>2, <1>3 DEF RegisteredListens, BeforeBegan, TypeOK
<1>10. NoMissedWakeup'
  BY <1>1, <1>2, <1>3, <1>5 DEF NoMissedWakeup
<1>11. QED
  BY <1>4, <1>6, <1>8, <1>9, <1>10

\* Dropping a guard: the one that reaches zero will notify.
LEMMA SettleInv == ASSUME Inv, NEW m \in Mutations, Settle(m) PROVE Inv'
<1> USE DEF Inv
<1> DEFINE place == IF active = 1 THEN "notify" ELSE "settled"
<1>1. /\ pc[m] = "running" /\ pc' = [pc EXCEPT ![m] = place]
      /\ active' = active - 1 /\ UNCHANGED <<listening, woken, before>>
  BY DEF Settle, Goto
<1>2. /\ Waiters \subseteq Calls \cup {Server} /\ Mutations \subseteq Calls
      /\ Mutations \cap Waiters = {}
  BY InFlightAssumption DEF Waiters, Calls
<1>3. \A y \in Calls \cup {Server} : pc'[y] = IF y = m THEN place ELSE pc[y]
  BY <1>1 DEF TypeOK
<1>4. InFlightNow' = InFlightNow \ {m} /\ m \in InFlightNow
  BY <1>1, <1>2, <1>3 DEF InFlightNow
<1>5. Cardinality(InFlightNow') = active - 1
  <2>1. Cardinality(InFlightNow \ {m}) = Cardinality(InFlightNow) - 1
    BY <1>4, InFlightFinite, FS_RemoveElement
  <2>2. QED
    BY <1>4, <2>1 DEF CounterIsExact
<1>6. IsFiniteSet(InFlightNow') /\ active - 1 \in Nat
  BY <1>4, <1>5, InFlightFinite, FS_RemoveElement, FS_CardinalityType
<1>7. TypeOK'
  BY <1>1, <1>2, <1>6 DEF TypeOK, Places
<1>8. CounterIsExact'
  BY <1>1, <1>5 DEF CounterIsExact
<1>9. BarrierHolds'
  BY <1>1, <1>2, <1>3, <1>4 DEF BarrierHolds
<1>10. RegisteredListens' /\ BeforeBegan'
  BY <1>1, <1>2, <1>3 DEF RegisteredListens, BeforeBegan, TypeOK
<1>11. active # 1 => InFlightNow' # {}
  BY <1>5, FS_EmptySet DEF TypeOK
<1>12. active = 1 => pc'[m] = "notify"
  BY <1>2, <1>3
<1>13. NoMissedWakeup'
  BY <1>1, <1>2, <1>3, <1>11, <1>12 DEF NoMissedWakeup
<1>14. QED
  BY <1>7, <1>8, <1>9, <1>10, <1>13

\* Notifying reaches everyone who is registered.
LEMMA NotifyInv == ASSUME Inv, NEW m \in Mutations, Notify(m) PROVE Inv'
<1> USE DEF Inv
<1>1. /\ pc[m] = "notify" /\ pc' = [pc EXCEPT ![m] = "settled"]
      /\ woken' = woken \cup listening /\ listening' = {}
      /\ UNCHANGED <<active, before>>
  BY DEF Notify, Goto
<1>2. /\ Waiters \subseteq Calls \cup {Server} /\ Mutations \subseteq Calls
      /\ Mutations \cap Waiters = {}
  BY InFlightAssumption DEF Waiters, Calls
<1>3. \A y \in Calls \cup {Server} : pc'[y] = IF y = m THEN "settled" ELSE pc[y]
  BY <1>1 DEF TypeOK
<1>4. TypeOK'
  BY <1>1, <1>2 DEF TypeOK, Places
<1>5. InFlightNow' = InFlightNow
  BY <1>1, <1>2, <1>3 DEF InFlightNow
<1>6. CounterIsExact' /\ BarrierHolds'
  BY <1>1, <1>2, <1>3, <1>5 DEF CounterIsExact, BarrierHolds
<1>7. RegisteredListens' /\ BeforeBegan'
  BY <1>1, <1>2, <1>3 DEF RegisteredListens, BeforeBegan, TypeOK
<1>8. NoMissedWakeup'
  BY <1>1, <1>2, <1>3 DEF NoMissedWakeup
<1>9. QED
  BY <1>4, <1>6, <1>7, <1>8

\* The three steps of wait_for_idle.
LEMMA WaiterInv == ASSUME Inv, NEW w \in Waiters, WaiterStep(w) PROVE Inv'
<1>1. /\ w \in Calls \cup {Server} /\ w \notin Mutations /\ TypeOK
      /\ {"registered", "parked", "barrier", "reading", "exited"} \subseteq Places
  BY InFlightAssumption DEF Waiters, Calls, Inv, Places
<1>2. CASE Register(w)
  <2>1. /\ Goto(w, "registered") /\ listening' = listening \cup {w}
        /\ UNCHANGED <<active, woken, before>>
    BY <1>2 DEF Register
  <2>2. QED
    BY <1>1, <2>1, MoveInv DEF TypeOK
<1>3. CASE Check(w)
  <2>1. CASE active = 0
    <3>1. PICK place \in {"reading", "exited"} : Goto(w, place)
      BY <1>3, <2>1 DEF Check
    <3>2. /\ listening' = listening \ {w} /\ woken' = woken \ {w}
          /\ UNCHANGED <<active, before>>
      BY <1>3, <2>1 DEF Check
    <3>3. InFlightNow = {}
      BY <2>1, InFlightFinite DEF Inv, CounterIsExact
    <3>4. QED
      BY <1>1, <3>1, <3>2, <3>3, MoveInv DEF TypeOK
  <2>2. CASE active # 0
    <3>1. /\ Goto(w, "parked") /\ pc[w] = "registered"
          /\ UNCHANGED <<active, listening, woken, before>>
      BY <1>3, <2>2 DEF Check
    <3>2. InFlightNow # {}
      BY <2>2, FS_EmptySet DEF Inv, CounterIsExact
    <3>3. w \in listening \cup woken
      BY <3>1 DEF Inv, RegisteredListens
    <3>4. QED
      BY <1>1, <3>1, <3>2, <3>3, MoveInv DEF TypeOK
  <2>3. QED
    BY <2>1, <2>2
<1>4. CASE Wake(w)
  <2>1. /\ Goto(w, "barrier") /\ woken' = woken \ {w}
        /\ UNCHANGED <<active, listening, before>>
    BY <1>4 DEF Wake
  <2>2. QED
    BY <1>1, <2>1, MoveInv DEF TypeOK
<1>5. QED
  BY <1>2, <1>3, <1>4 DEF WaiterStep

\* A read that is answered had the barrier hold when it passed.
LEMMA AnswerInv == ASSUME Inv, NEW r \in Reads, Answer(r) PROVE Inv'
<1>1. /\ pc[r] = "reading" /\ Goto(r, "done")
      /\ UNCHANGED <<active, listening, woken, before>>
  BY DEF Answer
<1>2. r \in Waiters /\ r \in Calls /\ r \notin Mutations /\ "done" \in Places
  BY InFlightAssumption DEF Waiters, Calls, Places
<1>3. before[r] \cap InFlightNow = {}
  BY <1>1, <1>2 DEF Inv, BarrierHolds
<1>4. QED
  BY <1>1, <1>2, <1>3, MoveInv DEF Inv, TypeOK

\* Cancelling ends a call that holds no guard.
LEMMA CancelInv == ASSUME Inv, NEW c \in Calls, Cancel(c) PROVE Inv'
<1>1. /\ pc[c] \in {"received", "barrier", "registered", "parked", "reading"}
      /\ Goto(c, "cancelled") /\ listening' = listening \ {c}
      /\ woken' = woken \ {c} /\ UNCHANGED <<active, before>>
  BY DEF Cancel
<1>2. "cancelled" \in Places
  BY DEF Places
<1>3. QED
  BY <1>1, <1>2, MoveInv DEF Inv, TypeOK

\* The drain finds the mutations in flight when the transport closed.
LEMMA CloseInv == ASSUME Inv, Close PROVE Inv'
<1> USE DEF Inv
<1>1. /\ pc[Server] = "serving" /\ Goto(Server, "barrier")
      /\ before' = [before EXCEPT ![Server] = InFlightNow]
      /\ UNCHANGED <<active, listening, woken>>
  BY DEF Close
<1>2. Server \notin Mutations /\ Mutations \cap Waiters = {} /\ Server \in Waiters
      /\ Mutations \subseteq Calls /\ Waiters \subseteq Calls \cup {Server}
  BY InFlightAssumption DEF Waiters, Calls
<1>3. pc' \in [Calls \cup {Server} -> Places] /\ InFlightNow' = InFlightNow
  BY <1>1, <1>2, SameGuards DEF Places
<1>4. \A y \in Calls \cup {Server} :
        pc'[y] = IF y = Server THEN "barrier" ELSE pc[y]
  BY <1>1 DEF Goto, TypeOK
<1>5. \A w \in Waiters :
        before'[w] = IF w = Server THEN InFlightNow ELSE before[w]
  BY <1>1 DEF TypeOK
<1>6. TypeOK'
  BY <1>1, <1>2, <1>3 DEF TypeOK, InFlightNow
<1>7. CounterIsExact' /\ BarrierHolds'
  BY <1>1, <1>2, <1>3, <1>4, <1>5 DEF CounterIsExact, BarrierHolds
<1>8. NoMissedWakeup' /\ RegisteredListens'
  BY <1>1, <1>2, <1>3, <1>4 DEF NoMissedWakeup, RegisteredListens
<1>9. BeforeBegan'
  BY <1>2, <1>4, <1>5 DEF BeforeBegan, TypeOK, InFlightNow
<1>10. QED
  BY <1>6, <1>7, <1>8, <1>9

\* The invariant is inductive.
LEMMA StepInv == Inv /\ [Next]_vars => Inv'
<1> SUFFICES ASSUME Inv, [Next]_vars PROVE Inv'
  OBVIOUS
<1>1. CASE UNCHANGED vars
  BY <1>1 DEF vars, Inv, TypeOK, CounterIsExact, BarrierHolds, NoMissedWakeup,
     RegisteredListens, BeforeBegan, InFlightNow
<1>2. CASE Next
  BY <1>1, <1>2, ReceiveInv, CancelInv, BeginInv, SettleInv, NotifyInv,
     WaiterInv, AnswerInv, CloseInv DEF Next, MutationStep, Exited
<1>3. QED
  BY <1>1, <1>2

\* The whole inductive invariant.
THEOREM Invariance == Spec => []Inv
<1>1. QED
  BY InitInv, StepInv, PTL DEF Spec

\* The variables of the server keep their types: the counter, a usize, is never
\* taken below zero.
THEOREM ServerTyped == Spec => []TypeOK
<1>1. Inv => TypeOK
  BY DEF Inv
<1> QED
  BY <1>1, Invariance, PTL

\* begin and drop: the counter is the number of guards.
THEOREM CounterExact == Spec => []CounterIsExact
<1>1. Inv => CounterIsExact
  BY DEF Inv
<1>2. QED
  BY <1>1, Invariance, PTL

\* execute_with_context, serve_stdio: no read and no exit overtakes a mutation
\* accepted before it.
THEOREM Barrier == Spec => []BarrierHolds
<1>1. Inv => BarrierHolds
  BY DEF Inv
<1>2. QED
  BY <1>1, Invariance, PTL

\* wait_for_idle: registering before the check rules out a missed wakeup.
THEOREM Wakeup == Spec => []NoMissedWakeup
<1>1. Inv => NoMissedWakeup
  BY DEF Inv
<1>2. QED
  BY <1>1, Invariance, PTL

-----------------------------------------------------------------------------
(* InFlight implements ReadBarrier.                                        *)

\* The steps of which the abstract barrier sees something.
LEMMA StepSimulation == Inv /\ [Next]_vars => [Abstract!Next]_(Abstract!Barrier)
<1> DEFINE waiting == {w \in Waiters : pc[w] \in {"barrier", "registered", "parked"}}
           passed  == {w \in Waiters : pc[w] \in {"reading", "exited"}}
<1> USE DEF Abstract!Barrier
<1>1. /\ Waiters \subseteq Calls \cup {Server} /\ Mutations \subseteq Calls
      /\ Mutations \cap Waiters = {}
  BY InFlightAssumption DEF Waiters, Calls
<1> SUFFICES ASSUME Inv, [Next]_vars,
                    ~ UNCHANGED <<InFlightNow, waiting, passed>>
             PROVE  Abstract!Next
  OBVIOUS
<1> TypeOK
  BY DEF Inv
<1>2. ASSUME NEW x \in Calls \cup {Server}, NEW place \in Places, Goto(x, place)
      PROVE  \A y \in Calls \cup {Server} :
                pc'[y] = IF y = x THEN place ELSE pc[y]
  BY <1>2 DEF Goto, TypeOK
<1>3. ASSUME NEW c \in Calls, Receive(c) PROVE Abstract!Next
  <2>1. /\ pc[c] = "unsent"
        /\ Goto(c, IF c \in Reads THEN "barrier" ELSE "received")
    BY <1>3 DEF Receive
  <2>2. \A y \in Calls \cup {Server} :
          pc'[y] = IF y = c THEN IF c \in Reads THEN "barrier" ELSE "received"
                   ELSE pc[y]
    BY <1>2, <2>1 DEF Places
  <2>3. UNCHANGED InFlightNow /\ UNCHANGED passed
    BY <1>1, <2>1, <2>2 DEF InFlightNow
  <2>4. c \in Waiters /\ waiting' = waiting \cup {c}
    BY <1>1, <2>1, <2>2, <2>3 DEF Calls, Waiters
  <2>5. c \notin waiting \cup passed
    BY <2>1
  <2>6. Abstract!Arrive(c)
    BY <2>3, <2>4, <2>5 DEF Abstract!Arrive
  <2>7. QED
    BY <2>4, <2>6 DEF Abstract!Next
<1>4. ASSUME NEW c \in Calls, Cancel(c) PROVE Abstract!Next
  <2>1. /\ pc[c] \in {"received", "barrier", "registered", "parked", "reading"}
        /\ Goto(c, "cancelled")
    BY <1>4 DEF Cancel
  <2>2. \A y \in Calls \cup {Server} :
          pc'[y] = IF y = c THEN "cancelled" ELSE pc[y]
    BY <1>2, <2>1 DEF Places
  <2>3. UNCHANGED InFlightNow
    BY <1>1, <2>1, <2>2 DEF InFlightNow
  <2>4. waiting' = waiting \ {c} /\ passed' = passed \ {c}
    BY <1>1, <2>1, <2>2
  <2>5. c \in waiting \cup passed
    BY <2>3, <2>4
  <2>6. c \in Waiters
    BY <2>5
  <2>7. Abstract!Leave(c)
    BY <2>3, <2>4, <2>5 DEF Abstract!Leave
  <2>8. QED
    BY <2>6, <2>7 DEF Abstract!Next
<1>5. ASSUME NEW m \in Mutations, MutationStep(m) PROVE Abstract!Next
  <2>1. PICK place \in {"running", "notify", "settled"} :
          /\ Goto(m, place)
          /\ pc[m] = "running" => place # "running"
          /\ pc[m] \in {"received", "running", "notify"}
          /\ place = "running" <=> pc[m] = "received"
    BY <1>5 DEF MutationStep, Begin, Settle, Notify
  <2>2. \A y \in Calls \cup {Server} : pc'[y] = IF y = m THEN place ELSE pc[y]
    BY <1>1, <1>2, <2>1 DEF Places
  <2>3. UNCHANGED waiting /\ UNCHANGED passed
    BY <1>1, <2>2
  <2>4. CASE pc[m] = "received"
    <3>1. InFlightNow' = InFlightNow \cup {m} /\ m \notin InFlightNow
      BY <1>1, <2>1, <2>2, <2>4 DEF InFlightNow
    <3>2. Abstract!Begin(m)
      BY <2>3, <3>1 DEF Abstract!Begin
    <3>3. QED
      BY <3>2 DEF Abstract!Next
  <2>5. CASE pc[m] = "running"
    <3>1. InFlightNow' = InFlightNow \ {m} /\ m \in InFlightNow
      BY <1>1, <2>1, <2>2, <2>5 DEF InFlightNow
    <3>2. Abstract!Settle(m)
      BY <2>3, <3>1 DEF Abstract!Settle
    <3>3. QED
      BY <3>2 DEF Abstract!Next
  <2>6. CASE pc[m] = "notify"
    <3>1. UNCHANGED InFlightNow
      BY <1>1, <2>1, <2>2, <2>6 DEF InFlightNow
    <3>2. QED
      BY <2>3, <3>1
  <2>7. QED
    BY <2>1, <2>4, <2>5, <2>6
<1>6. ASSUME NEW w \in Waiters, WaiterStep(w) PROVE Abstract!Next
  <2>1. PICK place \in {"barrier", "registered", "parked", "reading", "exited"} :
          /\ Goto(w, place)
          /\ pc[w] \in {"barrier", "registered", "parked"}
          /\ place \in {"reading", "exited"} => active = 0
    BY <1>6 DEF WaiterStep, Register, Check, Wake
  <2>2. \A y \in Calls \cup {Server} : pc'[y] = IF y = w THEN place ELSE pc[y]
    BY <1>1, <1>2, <2>1 DEF Places
  <2>3. UNCHANGED InFlightNow
    BY <1>1, <2>2 DEF InFlightNow
  <2>4. CASE place \in {"reading", "exited"}
    <3>1. InFlightNow = {}
      BY <2>1, <2>4, InFlightFinite DEF Inv, CounterIsExact
    <3>2. /\ w \in waiting
          /\ waiting' = waiting \ {w}
          /\ passed' = passed \cup {w}
      BY <1>1, <2>1, <2>2, <2>4
    <3>3. Abstract!Pass(w)
      BY <2>3, <3>1, <3>2 DEF Abstract!Pass
    <3>4. QED
      BY <3>3 DEF Abstract!Next
  <2>5. CASE place \in {"barrier", "registered", "parked"}
    <3>1. UNCHANGED waiting /\ UNCHANGED passed
      BY <1>1, <2>1, <2>2, <2>5
    <3>2. QED
      BY <2>3, <3>1
  <2>6. QED
    BY <2>1, <2>4, <2>5
<1>7. ASSUME NEW r \in Reads, Answer(r) PROVE Abstract!Next
  <2>1. pc[r] = "reading" /\ Goto(r, "done") /\ r \in Waiters /\ r \in Calls
    BY <1>7 DEF Answer, Waiters, Calls
  <2>2. \A y \in Calls \cup {Server} : pc'[y] = IF y = r THEN "done" ELSE pc[y]
    BY <1>2, <2>1 DEF Places
  <2>3. UNCHANGED InFlightNow
    BY <1>1, <2>1, <2>2 DEF InFlightNow
  <2>4. waiting' = waiting \ {r} /\ passed' = passed \ {r} /\ r \in passed
    BY <1>1, <2>1, <2>2
  <2>5. Abstract!Leave(r)
    BY <2>3, <2>4 DEF Abstract!Leave
  <2>6. QED
    BY <2>1, <2>5 DEF Abstract!Next
<1>8. CASE Close
  <2>1. /\ pc[Server] = "serving" /\ Goto(Server, "barrier")
        /\ Server \in Waiters /\ Server \notin Mutations
    BY <1>8, InFlightAssumption DEF Close, Waiters
  <2>2. \A y \in Calls \cup {Server} :
          pc'[y] = IF y = Server THEN "barrier" ELSE pc[y]
    BY <1>2, <2>1 DEF Places
  <2>3. UNCHANGED InFlightNow /\ UNCHANGED passed
    BY <1>1, <2>1, <2>2 DEF InFlightNow
  <2>4. waiting' = waiting \cup {Server} /\ Server \notin waiting \cup passed
    BY <1>1, <2>1, <2>2
  <2>5. Abstract!Arrive(Server)
    BY <2>3, <2>4 DEF Abstract!Arrive
  <2>6. QED
    BY <2>1, <2>5 DEF Abstract!Next
<1>9. CASE UNCHANGED vars
  BY <1>9 DEF vars, InFlightNow
<1>10. QED
  BY <1>3, <1>4, <1>5, <1>6, <1>7, <1>8, <1>9 DEF Next, Exited

\* wait_for_idle and the guards: the counter and Notify implement the barrier that
\* reads and the exit of the server count on.
THEOREM BarrierImplemented == Spec => ImplementsReadBarrier
<1>1. Init => Abstract!Init
  BY InFlightAssumption DEF Init, Abstract!Init, InFlightNow, Waiters, Calls
<1>2. QED
  BY <1>1, StepSimulation, Invariance, PTL
     DEF Spec, ImplementsReadBarrier, Abstract!Spec
=============================================================================
