--------------------------- MODULE Serving_proofs ---------------------------
(***************************************************************************)
(* What holds of the serving process for every value of the constants: a   *)
(* call of the MCP server stays inside the Projects of its host, a read    *)
(* sees what was accepted before it, and its answer names memories that    *)
(* can be opened, all the matches of a query and each of them once.        *)
(***************************************************************************)
EXTENDS Console_proofs, Recall_proofs

-----------------------------------------------------------------------------
(* Calls.  Fit says of the arguments of an accepted call what the access   *)
(* checks of the handler establish, Inside where such a call may be.       *)

Call == [action : Actions \cup {"none"}, project : Projects \cup {None},
         granted : Projects \cup {None}, scope : {"none", "global", "project"},
         id : Ids \cup {0}, blank : BOOLEAN, statuses : SUBSET AllStatuses]

ById == IdMutations \cup {"get"}

Fit(k) ==
    /\ k \in Call
    /\ k.action \in Actions
    /\ k.granted = k.project
    /\ k.scope = "project" => k.project # None
    /\ k.action \in ById \cup {"source"} => k.id \in Ids
    /\ k.action \in ById \cup {"shortlist"} => k.scope = "none"
    /\ k.action \in ScopedMutations => k.scope # "none"

Inside(k, root) ==
    CASE k.scope = "global" -> root = GlobalRoot
      [] k.scope = "project" -> k.granted # None /\ root = FirstClass(k.granted)
      [] OTHER -> \/ root = GlobalRoot
                  \/ k.granted # None /\ root = FirstClass(k.granted)

\* The host and the Project that the server made of its metadata.
Host(h) ==
    /\ h.context \in Projects \cup {None}
    /\ h.granted = h.context

LEMMA ScopedFit ==
    ASSUME NEW action \in ScopedReads \cup ScopedMutations, NEW h, NEW requested,
           Host(h), NEW k \in ScopedCalls(action, h, requested)
    PROVE  Fit(k) /\ k.action = action
<1>1. PICK scope \in DurableScopes :
        /\ AccessGranted(h.context, requested, scope)
        /\ k = [NoCall EXCEPT !.action = action, !.scope = scope,
                         !.project = Needed(scope, h.context),
                         !.granted = Needed(scope, h.granted)]
    BY DEF ScopedCalls
<1>2. k = [action |-> action, project |-> Needed(scope, h.context),
           granted |-> Needed(scope, h.granted), scope |-> scope, id |-> 0,
           blank |-> FALSE, statuses |-> {}]
    BY <1>1 DEF NoCall
<1>3. k \in Call
    BY <1>2 DEF Call, Actions, Needed, Host, DurableScopes
<1>. QED
    BY <1>1, <1>2, <1>3
       DEF Fit, ById, AccessGranted, DurableScopes, Needed, Host, ScopedReads,
           ScopedMutations, IdMutations, Actions

LEMMA ByIdFit ==
    ASSUME NEW action \in ById, NEW h, NEW requested, Host(h),
           NEW k \in ByIdCalls(action, h, requested)
    PROVE  Fit(k)
<1>1. PICK i \in Ids :
        k = [NoCall EXCEPT !.action = action, !.id = i,
                      !.project = h.context, !.granted = h.granted]
    BY DEF ByIdCalls
<1>2. k = [action |-> action, project |-> h.context, granted |-> h.granted,
           scope |-> "none", id |-> i, blank |-> FALSE, statuses |-> {}]
    BY <1>1 DEF NoCall
<1>3. k \in Call
    BY <1>2 DEF Call, Actions, ById, Host
<1>. QED
    BY <1>2, <1>3
       DEF Fit, ById, Host, ScopedMutations, IdMutations, Actions

LEMMA QueryFit ==
    ASSUME NEW h, NEW requested, Host(h), NEW k \in QueryCalls(h, requested)
    PROVE  Fit(k)
<1>1. PICK old \in ScopedCalls("query", h, requested), blank \in BOOLEAN,
           statuses \in StatusFilters :
        k = Asking(old, blank, statuses)
    BY DEF QueryCalls
<1>2. Fit(old) /\ old.action = "query"
    BY ScopedFit DEF ScopedReads
<1>3. statuses \in SUBSET AllStatuses
    BY ScopesAssumption DEF StatusFilters
<1>4. k \in Call
    BY <1>1, <1>2, <1>3 DEF Asking, Call, Fit
<1>5. /\ k.action = old.action /\ k.scope = old.scope
      /\ k.project = old.project /\ k.granted = old.granted
    BY <1>1, <1>2 DEF Asking, Fit, Call
<1>. QED
    BY <1>2, <1>4, <1>5 DEF Fit, ById, ScopedMutations, IdMutations

LEMMA FindFit ==
    ASSUME NEW h, NEW requested, Host(h),
           NEW k \in FindDuplicatesCalls(h, requested)
    PROVE  Fit(k)
<1>1. PICK old \in ScopedCalls("find_duplicates", h, requested), i \in Ids :
        k = [old EXCEPT !.id = i]
    BY DEF FindDuplicatesCalls
<1>2. Fit(old) /\ old.action = "find_duplicates"
    BY ScopedFit DEF ScopedReads
<1>3. k \in Call
    BY <1>1, <1>2 DEF Call, Fit
<1>4. /\ k.action = old.action /\ k.scope = old.scope
      /\ k.project = old.project /\ k.granted = old.granted
    BY <1>1, <1>2 DEF Fit, Call
<1>. QED
    BY <1>2, <1>3, <1>4 DEF Fit, ById, ScopedMutations, IdMutations

\* Whatever the arguments, an accepted call has the Project its host meant.
LEMMA ExecuteFit ==
    ASSUME NEW h, NEW requested, Host(h), NEW k \in Execute(h, requested)
    PROVE  Fit(k)
<1>1. CASE k \in QueryCalls(h, requested)
    BY <1>1, QueryFit
<1>2. CASE k \in FindDuplicatesCalls(h, requested)
    BY <1>2, FindFit
<1>3. CASE \E action \in ById : k \in ByIdCalls(action, h, requested)
    BY <1>3, ByIdFit
<1>4. CASE \E action \in ScopedReads \cup ScopedMutations :
             k \in ScopedCalls(action, h, requested)
    BY <1>4, ScopedFit
<1>5. {"get", "merge", "contradict", "split", "consolidate", "purge_id"}
        \subseteq ById
    BY DEF ById, IdMutations
<1>6. {"dream_read", "dream_publish", "write", "scan_blobs", "scan_duplicates",
       "purge", "inspect", "rebuild"} \subseteq ScopedReads \cup ScopedMutations
    BY DEF ScopedReads, ScopedMutations
<1>. QED
    BY <1>1, <1>2, <1>3, <1>4, <1>5, <1>6
       DEF Execute, GetCalls, DreamReadCalls, DreamPublishCalls, WriteCalls,
           MergeCalls, SplitCalls, ScanCalls, ConsolidateCalls, PurgeCalls,
           InspectCalls, RebuildCalls

-----------------------------------------------------------------------------
(* The invariant.  A call that is looked up by id has no scope of its own. *)

ByLookup(c) ==
    \/ pc[c] = "locate"
    \/ call[c].action \in {"get", "shortlist"}

IInv ==
    /\ DOMAIN pc = Slots
    /\ DOMAIN call = Slots
    /\ DOMAIN at = Slots
    /\ \A c \in Slots : pc[c] # "idle" => Inside(call[c], at[c])
    /\ \A c \in Slots : ByLookup(c) => call[c].scope = "none"

\* A slot that keeps its place, its call and its root keeps what holds of it.
Same(c) ==
    /\ \/ pc'[c] = pc[c]
       \/ pc'[c] # "locate" /\ pc[c] # "idle"
    /\ call'[c] = call[c]
    /\ at'[c] = at[c]

LEMMA StepByStep ==
    ASSUME IInv,
           DOMAIN pc' = Slots, DOMAIN call' = Slots, DOMAIN at' = Slots,
           \A c \in Slots :
             \/ Same(c)
             \/ pc'[c] = "idle" /\ call'[c] = NoCall
             \/ /\ Inside(call'[c], at'[c])
                /\ (\/ pc'[c] = "locate"
                    \/ call'[c].action \in {"get", "shortlist"})
                   => call'[c].scope = "none"
    PROVE  IInv'
<1>. SUFFICES ASSUME NEW c \in Slots
              PROVE  /\ pc'[c] # "idle" => Inside(call'[c], at'[c])
                     /\ (\/ pc'[c] = "locate"
                         \/ call'[c].action \in {"get", "shortlist"})
                        => call'[c].scope = "none"
    BY DEF IInv, ByLookup, Inside
<1>1. CASE Same(c)
    BY <1>1 DEF IInv, Same, ByLookup, Inside
<1>2. CASE pc'[c] = "idle" /\ call'[c] = NoCall
    BY <1>2 DEF NoCall
<1>. QED
    BY <1>1, <1>2

\* What an update of one slot leaves.
LEMMA Put ==
    ASSUME NEW f, NEW g, NEW c \in Slots, NEW v, DOMAIN f = Slots,
           g = [f EXCEPT ![c] = v]
    PROVE  /\ DOMAIN g = Slots
           /\ g[c] = v
           /\ \A d \in Slots : d # c => g[d] = f[d]
    OBVIOUS

\* Steps of one slot that let the other slots alone.
LEMMA AcceptKeeps ==
    ASSUME IInv, NEW c \in Slots, NEW new, Fit(new), Accept(c, new)
    PROVE  IInv'
<1>. DEFINE root == IF new.scope = "none" THEN FirstRoot(new.project)
                    ELSE RootOf(new.project, new.scope, new.project)
<1>1. Inside(new, root)
    BY DEF Inside, Fit, Call, FirstRoot, RootOf
<1>2. /\ call' = [call EXCEPT ![c] = new]
      /\ at' = [at EXCEPT ![c] = root]
    BY DEF Accept
<1>3. DOMAIN pc = Slots /\ DOMAIN call = Slots /\ DOMAIN at = Slots
    BY DEF IInv
<1>. HIDE DEF root
<1>4. \/ Goto(c, "barrier")
      \/ Goto(c, "reading")
      \/ Goto(c, "located")
      \/ Goto(c, "locate") /\ new.scope = "none"
    BY DEF Accept
<1>5. /\ DOMAIN pc' = Slots
      /\ pc'[c] = "locate" => new.scope = "none"
      /\ \A d \in Slots : d # c => pc'[d] = pc[d]
    BY <1>3, <1>4, Put DEF Goto
<1>6. /\ DOMAIN call' = Slots /\ call'[c] = new
      /\ \A d \in Slots : d # c => call'[d] = call[d]
    BY <1>2, <1>3, Put
<1>7. /\ DOMAIN at' = Slots /\ at'[c] = root
      /\ \A d \in Slots : d # c => at'[d] = at[d]
    BY <1>2, <1>3, Put
<1>8. new.action \in {"get", "shortlist"} => new.scope = "none"
    BY DEF Fit, ById
<1>9. Inside(call'[c], at'[c])
    BY <1>1, <1>6, <1>7 DEF Inside
<1>10. \A d \in Slots : d # c => Same(d)
    BY <1>5, <1>6, <1>7 DEF Same
<1>. QED
    BY <1>5, <1>6, <1>7, <1>8, <1>9, <1>10, StepByStep

LEMMA VacateKeeps ==
    ASSUME IInv, NEW c \in Slots, Vacate(c)
    PROVE  IInv'
<1>1. DOMAIN pc = Slots /\ DOMAIN call = Slots /\ DOMAIN at = Slots
    BY DEF IInv
<1>2. /\ DOMAIN pc' = Slots /\ pc'[c] = "idle"
      /\ \A d \in Slots : d # c => pc'[d] = pc[d]
    BY <1>1, Put DEF Vacate
<1>3. /\ DOMAIN call' = Slots /\ call'[c] = NoCall
      /\ \A d \in Slots : d # c => call'[d] = call[d]
    BY <1>1, Put DEF Vacate
<1>4. /\ DOMAIN at' = Slots
      /\ \A d \in Slots : d # c => at'[d] = at[d]
    BY <1>1, Put DEF Vacate
<1>5. \A d \in Slots : d # c => Same(d)
    BY <1>2, <1>3, <1>4 DEF Same
<1>. QED
    BY <1>2, <1>3, <1>4, <1>5, StepByStep

LEMMA MoveKeeps ==
    ASSUME IInv, NEW c \in Slots, NEW place, place # "locate", pc[c] # "idle",
           Goto(c, place), UNCHANGED <<call, at>>
    PROVE  IInv'
<1>1. DOMAIN pc = Slots /\ DOMAIN call = Slots /\ DOMAIN at = Slots
    BY DEF IInv
<1>2. /\ DOMAIN pc' = Slots /\ pc'[c] = place
      /\ \A d \in Slots : d # c => pc'[d] = pc[d]
    BY <1>1, Put DEF Goto
<1>3. call' = call /\ at' = at
    OBVIOUS
<1>4. \A d \in Slots : Same(d)
    BY <1>2, <1>3 DEF Same
<1>. QED
    BY <1>1, <1>2, <1>3, <1>4, StepByStep

\* A lookup goes on to Global.
LEMMA FallBackKeeps ==
    ASSUME IInv, NEW c \in Slots, ByLookup(c), pc[c] # "idle",
           at' = [at EXCEPT ![c] = GlobalRoot], UNCHANGED <<pc, call>>
    PROVE  IInv'
<1>1. DOMAIN pc = Slots /\ DOMAIN call = Slots /\ DOMAIN at = Slots
    BY DEF IInv
<1>2. /\ DOMAIN at' = Slots /\ at'[c] = GlobalRoot
      /\ \A d \in Slots : d # c => at'[d] = at[d]
    BY <1>1, Put
<1>3. call' = call /\ pc' = pc
    OBVIOUS
<1>4. call[c].scope = "none"
    BY DEF IInv
<1>5. Inside(call'[c], at'[c])
    BY <1>2, <1>3, <1>4 DEF Inside
<1>6. \A d \in Slots : d # c => Same(d)
    BY <1>2, <1>3 DEF Same
<1>. QED
    BY <1>1, <1>2, <1>3, <1>4, <1>5, <1>6, StepByStep

-----------------------------------------------------------------------------
(* Every step.                                                             *)

LEMMA ReceiveKeeps ==
    ASSUME IInv, NEW c \in Slots, Receive(c)
    PROVE  IInv'
<1>1. PICK meta \in Metas, requested \in Requested :
        \E new \in Execute([context |-> ResolveRequest(meta),
                            granted |-> HostProject(meta)], requested) :
            Accept(c, new)
    BY DEF Receive
<1>. DEFINE h == [context |-> ResolveRequest(meta),
                  granted |-> HostProject(meta)]
<1>2. Host(h)
    BY GatewayAssumption DEF Host, ResolveRequest, HostProject, Metas
<1>3. PICK new \in Execute(h, requested) : Accept(c, new)
    BY <1>1
<1>. HIDE DEF h
<1>4. Fit(new)
    BY <1>2, ExecuteFit
<1>. QED
    BY <1>3, <1>4, AcceptKeeps

LEMMA LibraryFit ==
    ASSUME NEW p \in Hosts \cup {None}, NEW k \in LibraryCalls(p)
    PROVE  Fit(k)
<1>. p \in Projects \cup {None}
    BY GatewayAssumption
<1>1. CASE k \in ShortlistCalls(p)
    <2>1. k = [NoCall EXCEPT !.action = "shortlist", !.project = p,
                             !.granted = p]
        BY <1>1 DEF ShortlistCalls
    <2>2. k = [action |-> "shortlist", project |-> p, granted |-> p,
               scope |-> "none", id |-> 0, blank |-> FALSE, statuses |-> {}]
        BY <2>1 DEF NoCall
    <2>3. k \in Call
        BY <2>2 DEF Call, Actions, LibraryReads
    <2>. QED
        BY <2>2, <2>3
           DEF Fit, ById, IdMutations, ScopedMutations, Actions, LibraryReads
<1>2. CASE k \in SourcesCalls(p) /\ p # None
    <2>1. k = [NoCall EXCEPT !.action = "sources", !.scope = "project",
                             !.project = p, !.granted = p,
                             !.statuses = {"active"}]
        BY <1>2 DEF SourcesCalls
    <2>2. k = [action |-> "sources", project |-> p, granted |-> p,
               scope |-> "project", id |-> 0, blank |-> FALSE,
               statuses |-> {"active"}]
        BY <2>1 DEF NoCall
    <2>3. k \in Call
        BY <2>2 DEF Call, Actions, LibraryReads, AllStatuses
    <2>. QED
        BY <1>2, <2>2, <2>3
           DEF Fit, ById, IdMutations, ScopedMutations, Actions, LibraryReads
<1>3. CASE k \in SourceCalls(p) /\ p # None
    <2>1. PICK i \in Ids :
            k = [NoCall EXCEPT !.action = "source", !.scope = "project",
                               !.project = p, !.granted = p, !.id = i]
        BY <1>3 DEF SourceCalls
    <2>2. k = [action |-> "source", project |-> p, granted |-> p,
               scope |-> "project", id |-> i, blank |-> FALSE, statuses |-> {}]
        BY <2>1 DEF NoCall
    <2>3. k \in Call
        BY <2>2 DEF Call, Actions, LibraryReads
    <2>. QED
        BY <1>3, <2>2, <2>3
           DEF Fit, ById, IdMutations, ScopedMutations, Actions, LibraryReads
<1>. QED
    BY <1>1, <1>2, <1>3 DEF LibraryCalls

LEMMA StartRecallKeeps ==
    ASSUME IInv, NEW c \in Slots, StartRecall(c)
    PROVE  IInv'
<1>1. PICK p \in Hosts \cup {None} :
        \E new \in LibraryCalls(p) : Accept(c, new)
    BY DEF StartRecall
<1>2. PICK new \in LibraryCalls(p) : Accept(c, new)
    BY <1>1
<1>3. Fit(new)
    BY LibraryFit
<1>. QED
    BY <1>2, <1>3, AcceptKeeps

LEMMA ReadKeeps ==
    ASSUME IInv, NEW c \in Slots,
           \/ Pass(c) \/ ReadIndex(c) \/ ReadFile(c) \/ ReadMarker(c)
           \/ ReadDream(c) \/ ReadSource(c) \/ Write(c)
    PROVE  IInv'
<1>1. CASE Pass(c)
    <2>1. Goto(c, "reading") /\ pc[c] # "idle" /\ UNCHANGED <<call, at>>
        BY <1>1 DEF Pass
    <2>. QED
        BY <2>1, MoveKeeps
<1>2. CASE ReadIndex(c)
    <2>1. Goto(c, "answer") /\ pc[c] # "idle" /\ UNCHANGED <<call, at>>
        BY <1>2 DEF ReadIndex, Answer
    <2>. QED
        BY <2>1, MoveKeeps
<1>3. CASE ReadFile(c)
    <2>1. PICK place \in {"answer", "reading"} : Goto(c, place)
        BY <1>3 DEF ReadFile
    <2>2. pc[c] # "idle" /\ UNCHANGED <<call, at>>
        BY <1>3 DEF ReadFile
    <2>. QED
        BY <2>1, <2>2, MoveKeeps
<1>4. CASE ReadMarker(c)
    <2>1. PICK place \in {"answer", "dream"} : Goto(c, place)
        BY <1>4 DEF ReadMarker
    <2>2. pc[c] # "idle" /\ UNCHANGED <<call, at>>
        BY <1>4 DEF ReadMarker
    <2>. QED
        BY <2>1, <2>2, MoveKeeps
<1>5. CASE ReadDream(c)
    <2>1. Goto(c, "answer") /\ pc[c] # "idle" /\ UNCHANGED <<call, at>>
        BY <1>5 DEF ReadDream, Answer
    <2>. QED
        BY <2>1, MoveKeeps
<1>6. CASE Write(c)
    <2>1. Goto(c, "written") /\ pc[c] # "idle" /\ UNCHANGED <<call, at>>
        BY <1>6 DEF Write
    <2>. QED
        BY <2>1, MoveKeeps
<1>7. CASE ReadSource(c)
    <2>1. Goto(c, "answer") /\ pc[c] # "idle" /\ UNCHANGED <<call, at>>
        BY <1>7 DEF ReadSource, Answer
    <2>. QED
        BY <2>1, MoveKeeps
<1>. QED
    BY <1>1, <1>2, <1>3, <1>4, <1>5, <1>6, <1>7

LEMMA ReadShortlistKeeps ==
    ASSUME IInv, NEW c \in Slots, ReadShortlist(c)
    PROVE  IInv'
<1>1. ByLookup(c) /\ pc[c] # "idle"
    BY DEF ReadShortlist, ByLookup
<1>2. CASE /\ at' = [at EXCEPT ![c] = GlobalRoot]
           /\ UNCHANGED <<pc, call>>
    BY <1>1, <1>2, FallBackKeeps
<1>3. CASE Goto(c, "answer") /\ UNCHANGED <<call, at>>
    BY <1>1, <1>3, MoveKeeps
<1>. QED
    BY <1>2, <1>3 DEF ReadShortlist, Answer

LEMMA LocateKeeps ==
    ASSUME IInv, NEW c \in Slots, Locate(c)
    PROVE  IInv'
<1>1. ByLookup(c) /\ pc[c] # "idle"
    BY DEF Locate, ByLookup
<1>2. UNCHANGED call
    BY DEF Locate
<1>3. CASE /\ at' = [at EXCEPT ![c] = GlobalRoot]
           /\ UNCHANGED pc
    BY <1>1, <1>2, <1>3, FallBackKeeps
<1>4. CASE /\ UNCHANGED at
           /\ \E place \in {"answer", "located", "failed"} : Goto(c, place)
    BY <1>1, <1>2, <1>4, MoveKeeps
<1>. QED
    BY <1>3, <1>4 DEF Locate

LEMMA StepKeeps ==
    ASSUME IInv, [Next]_servingVars
    PROVE  IInv'
<1>1. CASE UNCHANGED <<pc, call, at>>
    BY <1>1 DEF IInv, ByLookup, Inside
<1>2. CASE GatewayStep
    <2>1. CASE \E c \in Slots : Receive(c)
        BY <2>1, ReceiveKeeps
    <2>2. CASE \E c \in Slots : Locate(c)
        BY <2>2, LocateKeeps
    <2>3. CASE \E c \in Slots : StartRecall(c)
        BY <2>3, StartRecallKeeps
    <2>4. CASE \E c \in Slots : \/ Pass(c) \/ ReadIndex(c) \/ ReadFile(c)
                                \/ ReadMarker(c) \/ ReadDream(c)
                                \/ ReadSource(c) \/ Write(c)
        BY <2>4, ReadKeeps
    <2>5. CASE \E c \in Slots : ReadShortlist(c)
        BY <2>5, ReadShortlistKeeps
    <2>6. CASE \E c \in Slots : Vacate(c)
        BY <2>6, VacateKeeps
    <2>. QED
        BY <1>2, <2>1, <2>2, <2>3, <2>4, <2>5, <2>6
           DEF GatewayStep, Slots, Return, CancelRead, Refresh, RefreshFails,
               Refused
<1>. QED
    BY <1>1, <1>2 DEF Next, Serve, ServeUi, servingVars, gatewayVars

\* Every call of the server touches only the Global root and the root of the
\* Project that its host gave it, the one its scope names: neither another
\* argument nor the defaults of the server nor another call lead elsewhere.
THEOREM Isolation == Spec => []CallsStayInside
<1>1. Init => IInv
    <2>. SUFFICES ASSUME Init PROVE IInv
        OBVIOUS
    <2>1. \A c \in Slots : pc[c] = "idle" /\ call[c] = NoCall
        BY DEF Init, GatewayInit
    <2>2. DOMAIN pc = Slots /\ DOMAIN call = Slots /\ DOMAIN at = Slots
        BY DEF Init, GatewayInit
    <2>. QED
        BY <2>1, <2>2 DEF IInv, ByLookup, NoCall
<1>2. IInv /\ [Next]_servingVars => IInv'
    BY StepKeeps
<1>3. IInv => CallsStayInside
    BY DEF IInv, Inside, CallsStayInside
<1>. QED
    BY <1>1, <1>2, <1>3, PTL DEF Spec

-----------------------------------------------------------------------------
(***************************************************************************)
(* The scopes: stamps only grow, and what is derived never runs ahead.     *)
(***************************************************************************)

\* The snapshot new has every write that old has.
Behind(old, new) == \A i \in Ids : old[i].stamp <= new[i].stamp

\* The same of what may not be there.
Upto(old, new) == old # None => new # None /\ Behind(old, new)

DocsOK ==
    /\ docs \in [Roots -> Snapshot]
    /\ lexical \in [Roots -> Snapshot \cup {None}]
    /\ marker \in [Roots -> Snapshot \cup {None}]
    /\ locked \subseteq Roots
    /\ clock \in 0..MaxClock
    /\ \A r \in Roots : \A i \in Ids : docs[r][i].stamp <= clock
    /\ \A r \in Roots : /\ Upto(lexical[r], docs[r])
                        /\ Upto(marker[r], docs[r])

\* What a step may do to the scopes.
Grows ==
    \A r \in Roots :
        /\ Behind(docs[r], docs'[r])
        /\ Upto(lexical[r], lexical'[r])
        /\ Upto(marker[r], marker'[r])

LEMMA DocFacts ==
    ASSUME NEW d \in Doc
    PROVE  /\ d.stamp \in 0..MaxClock
           /\ d # Absent <=> d.stamp >= 1
           /\ d # Absent => d \in [status : AllStatuses, stamp : 1..MaxClock]
           /\ d # None
    BY ScopesAssumption DEF Doc, Absent

LEMMA SnapshotFacts ==
    ASSUME NEW m \in Snapshot
    PROVE  m # None /\ \A i \in Ids : m[i] \in Doc /\ m[i].stamp \in 0..MaxClock
    BY ScopesAssumption, DocFacts DEF Snapshot

LEMMA StillDocs == DocsOK /\ UNCHANGED scopeVars => DocsOK' /\ Grows
<1>. SUFFICES ASSUME DocsOK, UNCHANGED scopeVars PROVE DocsOK' /\ Grows
    OBVIOUS
<1>1. DocsOK'
    BY DEF DocsOK, scopeVars, Upto, Behind
<1>2. \A r \in Roots : Behind(docs[r], docs[r])
    BY SnapshotFacts DEF DocsOK, Behind
<1>3. \A m \in Snapshot \cup {None} : Upto(m, m)
    BY SnapshotFacts DEF Upto, Behind
<1>. QED
    BY <1>1, <1>2, <1>3 DEF Grows, scopeVars, DocsOK

\* Documents of one root are written with the next stamp.
Restamped(old, new) ==
    /\ new = [i \in Ids |-> new[i]]
    /\ \A i \in Ids : \/ new[i] = old[i]
                      \/ \E status \in AllStatuses :
                            new[i] = Stamped(status, clock + 1)

LEMMA WriteDocs ==
    ASSUME DocsOK, NEW root \in Roots, NEW m, Restamped(docs[root], m),
           docs' = [docs EXCEPT ![root] = m],
           UNCHANGED <<lexical, marker>>, locked' \subseteq Roots,
           \/ (\A i \in Ids : m[i] = docs[root][i]) /\ clock' = clock
           \/ clock < MaxClock /\ clock' = clock + 1
    PROVE  DocsOK' /\ Grows
<1>. USE ScopesAssumption
<1>1. m \in Snapshot
  <2>1. ASSUME NEW i \in Ids PROVE m[i] \in Doc
    <3>1. docs[root][i] \in Doc
        BY DEF DocsOK, Snapshot
    <3>2. CASE m[i] = docs[root][i]
        BY <3>1, <3>2
    <3>3. CASE clock < MaxClock /\ m[i] # docs[root][i]
      <4>1. PICK status \in AllStatuses : m[i] = Stamped(status, clock + 1)
          BY <3>3 DEF Restamped
      <4>2. clock + 1 \in 1..MaxClock
          BY <3>3 DEF DocsOK
      <4>. QED
          BY <4>1, <4>2 DEF Stamped, Doc
    <3>. QED
        BY <3>2, <3>3
  <2>. QED
      BY <2>1 DEF Snapshot, Restamped
<1>2. \A i \in Ids : /\ docs[root][i].stamp <= m[i].stamp
                     /\ m[i].stamp <= clock'
  <2>. SUFFICES ASSUME NEW i \in Ids
                PROVE  docs[root][i].stamp <= m[i].stamp /\ m[i].stamp <= clock'
      OBVIOUS
  <2>1. /\ docs[root][i].stamp \in 0..MaxClock
        /\ docs[root][i].stamp <= clock
        /\ clock \in 0..MaxClock
        /\ clock <= clock'
        /\ clock' \in Int
      BY SnapshotFacts DEF DocsOK
  <2>2. CASE m[i] = docs[root][i]
      BY <2>1, <2>2
  <2>3. CASE m[i] # docs[root][i]
    <3>1. clock' = clock + 1
        BY <2>3
    <3>2. m[i].stamp = clock + 1
        BY <2>3 DEF Restamped, Stamped
    <3>. QED
        BY <2>1, <3>1, <3>2
  <2>. QED
      BY <2>2, <2>3
<1>3. \A r \in Roots : docs'[r] = IF r = root THEN m ELSE docs[r]
    BY DEF DocsOK
<1>4. \A r \in Roots : Behind(docs[r], docs'[r])
  <2>1. \A r \in Roots : Behind(docs[r], docs[r])
      BY SnapshotFacts DEF DocsOK, Behind
  <2>. QED
      BY <1>2, <1>3, <2>1 DEF Behind
<1>5. ASSUME NEW r \in Roots, NEW old \in Snapshot \cup {None}, Upto(old, docs[r])
      PROVE  Upto(old, docs'[r])
  <2>. SUFFICES ASSUME old # None PROVE docs'[r] # None /\ Behind(old, docs'[r])
      BY DEF Upto
  <2>1. docs'[r] \in Snapshot /\ docs[r] \in Snapshot
      BY <1>1, <1>3 DEF DocsOK
  <2>2. Behind(old, docs[r]) /\ Behind(docs[r], docs'[r])
      BY <1>4, <1>5 DEF Upto
  <2>3. \A i \in Ids : /\ old[i].stamp \in Int
                       /\ docs[r][i].stamp \in Int
                       /\ docs'[r][i].stamp \in Int
      BY <2>1, SnapshotFacts
  <2>4. Behind(old, docs'[r])
      BY <2>2, <2>3 DEF Behind
  <2>. QED
      BY <2>1, <2>4, SnapshotFacts
<1>6. \A r \in Roots : Upto(lexical[r], lexical[r]) /\ Upto(marker[r], marker[r])
    BY SnapshotFacts DEF Upto, Behind, DocsOK
<1>7. Grows
    BY <1>4, <1>6 DEF Grows
<1>8. /\ docs' \in [Roots -> Snapshot]
      /\ clock' \in 0..MaxClock
    BY <1>1 DEF DocsOK
<1>9. \A r \in Roots : \A i \in Ids : docs'[r][i].stamp <= clock'
  <2>1. \A r \in Roots : \A i \in Ids :
            docs[r][i].stamp \in Int /\ docs[r][i].stamp <= clock
      BY SnapshotFacts DEF DocsOK
  <2>2. clock \in Int /\ clock' \in Int /\ clock <= clock'
      BY DEF DocsOK
  <2>. QED
      BY <1>2, <1>3, <2>1, <2>2
<1>10. \A r \in Roots : Upto(lexical[r], docs'[r]) /\ Upto(marker[r], docs'[r])
    BY <1>5 DEF DocsOK
<1>. QED
    BY <1>7, <1>8, <1>9, <1>10 DEF DocsOK

\* A refresh of one root brings what it derives up to the documents.
LEMMA RefreshDocs ==
    ASSUME DocsOK, NEW root \in Roots, UNCHANGED <<docs, clock>>,
           locked' \subseteq Roots,
           \/ lexical' = [lexical EXCEPT ![root] = docs[root]]
           \/ UNCHANGED lexical,
           \/ marker' = [marker EXCEPT ![root] = docs[root]]
           \/ UNCHANGED marker
    PROVE  DocsOK' /\ Grows
<1>1. /\ \A r \in Roots : docs[r] \in Snapshot
      /\ \A r \in Roots : Behind(docs[r], docs[r]) /\ Upto(docs[r], docs[r])
    BY SnapshotFacts DEF DocsOK, Behind, Upto
<1>2. \A m \in Snapshot \cup {None} : Upto(m, m)
    BY SnapshotFacts DEF Upto, Behind
<1>3. ASSUME NEW f, NEW g, f \in [Roots -> Snapshot \cup {None}],
             \A r \in Roots : Upto(f[r], docs[r]),
             g = [f EXCEPT ![root] = docs[root]] \/ g = f
      PROVE  /\ g \in [Roots -> Snapshot \cup {None}]
             /\ \A r \in Roots : Upto(g[r], docs[r])
             /\ \A r \in Roots : Upto(f[r], g[r])
  <2>1. \A r \in Roots : g[r] = f[r] \/ g[r] = docs[r]
      BY <1>3
  <2>. QED
      BY <1>1, <1>2, <1>3, <2>1
<1>4. /\ lexical' \in [Roots -> Snapshot \cup {None}]
      /\ \A r \in Roots : Upto(lexical'[r], docs[r])
      /\ \A r \in Roots : Upto(lexical[r], lexical'[r])
    BY <1>3 DEF DocsOK
<1>5. /\ marker' \in [Roots -> Snapshot \cup {None}]
      /\ \A r \in Roots : Upto(marker'[r], docs[r])
      /\ \A r \in Roots : Upto(marker[r], marker'[r])
    BY <1>3 DEF DocsOK
<1>. QED
    BY <1>1, <1>4, <1>5 DEF DocsOK, Grows

LEMMA OthersDocs == DocsOK /\ OthersStep => DocsOK' /\ Grows
<1>. SUFFICES ASSUME DocsOK, OthersStep PROVE DocsOK' /\ Grows
    OBVIOUS
<1>1. PICK root \in Roots : OtherWrites(root) \/ OtherRefreshes(root)
    BY ScopesAssumption DEF OthersStep
<1>2. CASE OtherWrites(root)
  <2>1. PICK i \in Ids, status \in {"active", "archived"} :
          docs' = [docs EXCEPT ![root][i] = Stamped(status, clock + 1)]
      BY <1>2 DEF OtherWrites
  <2>. DEFINE m == [docs[root] EXCEPT ![i] = Stamped(status, clock + 1)]
  <2>2. docs' = [docs EXCEPT ![root] = m]
      BY <2>1
  <2>3. docs[root] \in [Ids -> Doc]
      BY DEF DocsOK, Snapshot
  <2>4. m = [j \in Ids |-> m[j]]
      BY <2>3
  <2>5. \A j \in Ids : m[j] = IF j = i THEN Stamped(status, clock + 1)
                              ELSE docs[root][j]
      BY <2>3
  <2>6. status \in AllStatuses
      BY DEF AllStatuses
  <2>7. Restamped(docs[root], m)
      BY <2>4, <2>5, <2>6 DEF Restamped
  <2>8. /\ UNCHANGED <<lexical, marker>> /\ locked' \subseteq Roots
        /\ clock < MaxClock /\ clock' = clock + 1
      BY <1>2 DEF OtherWrites, DocsOK
  <2>. HIDE DEF m
  <2>. QED
      BY <2>2, <2>7, <2>8, WriteDocs
<1>3. CASE OtherRefreshes(root)
    BY <1>3, RefreshDocs DEF OtherRefreshes, DocsOK
<1>. QED
    BY <1>1, <1>2, <1>3

-----------------------------------------------------------------------------
(* What a mutation may leave.                                              *)

LEMMA RewrittenShape ==
    ASSUME NEW m \in Snapshot, NEW S, NEW status, NEW base,
           DOMAIN base = Ids,
           \A i \in Ids : \/ base[i] = m[i]
                          \/ \E old \in AllStatuses :
                                base[i] = Stamped(old, clock + 1),
           status \in AllStatuses
    PROVE  Restamped(m, Rewritten(base, S, status))
    BY DEF Restamped, Rewritten

LEMMA OutcomeShape ==
    ASSUME NEW m \in Snapshot, NEW k, NEW new \in Outcomes(k, m),
           k.action \in ScopedMutations \cup IdMutations,
           k.action \in IdMutations => k.id \in Ids /\ m[k.id] # Absent
    PROVE  Restamped(m, new)
<1>1. m \in [Ids -> Doc]
    BY DEF Snapshot
<1>2. Restamped(m, m)
    BY <1>1 DEF Restamped
<1>3. ASSUME NEW S, NEW status \in AllStatuses
      PROVE  Restamped(m, Rewritten(m, S, status))
    BY <1>1, RewrittenShape
<1>4. ASSUME NEW S, NEW T, NEW old \in AllStatuses, NEW status \in AllStatuses
      PROVE  Restamped(m, Rewritten(Rewritten(m, S, old), T, status))
  <2>1. Restamped(m, Rewritten(m, S, old))
      BY <1>3
  <2>. QED
      BY <2>1, RewrittenShape DEF Restamped
<1>5. {"active", "superseded", "contradicted", "archived"} \subseteq AllStatuses
    BY DEF AllStatuses
<1>6. ASSUME k.action = "write" PROVE Restamped(m, new)
  <2>1. \E j : new = Rewritten(m, {j}, "active")
      BY <1>6 DEF Outcomes
  <2>. QED
      BY <1>3, <1>5, <2>1
<1>7. ASSUME k.action = "merge" PROVE Restamped(m, new)
  <2>1. m[k.id].status \in AllStatuses
      BY <1>1, <1>7, DocFacts DEF IdMutations
  <2>2. \E S : new = Rewritten(Rewritten(m, {k.id}, m[k.id].status), S,
                              "superseded")
      BY <1>7 DEF Outcomes
  <2>. QED
      BY <1>4, <1>5, <2>1, <2>2
<1>8. ASSUME k.action = "contradict" PROVE Restamped(m, new)
  <2>1. new = m \/ new = Rewritten(m, {k.id}, "contradicted")
      BY <1>8 DEF Outcomes
  <2>. QED
      BY <1>2, <1>3, <1>5, <2>1
<1>9. ASSUME k.action = "split" PROVE Restamped(m, new)
  <2>1. \E S : new = Rewritten(Rewritten(m, {k.id}, "superseded"), S, "active")
      BY <1>9 DEF Outcomes
  <2>. QED
      BY <1>4, <1>5, <2>1
<1>10. ASSUME k.action = "consolidate" PROVE Restamped(m, new)
  <2>1. \E i, j : new = Consolidated(m, k.id, i, j)
      BY <1>10 DEF Outcomes
  <2>. QED
      BY <1>4, <1>5, <2>1 DEF Consolidated
<1>11. ASSUME k.action = "purge_id" \/ k.action = "purge"
       PROVE  Restamped(m, new)
  <2>1. \E S : new = Rewritten(m, S, "archived")
      BY <1>11 DEF Outcomes
  <2>. QED
      BY <1>3, <1>5, <2>1
<1>12. ASSUME k.action \in {"dream_publish", "rebuild"} PROVE Restamped(m, new)
  <2>1. new = m
      BY <1>12 DEF Outcomes
  <2>. QED
      BY <1>2, <2>1
<1>. QED
    BY <1>6, <1>7, <1>8, <1>9, <1>10, <1>11, <1>12
       DEF ScopedMutations, IdMutations

\* A mutation that derives nothing writes nothing.
LEMMA NothingWritten ==
    ASSUME NEW m, NEW k, NEW new \in Outcomes(k, m), k.action = "dream_publish"
    PROVE  new = m
    BY DEF Outcomes

-----------------------------------------------------------------------------
(* The slots.                                                              *)

Writes == Roots \X Ids \X (1..MaxClock)

ShapeOK ==
    /\ pc \in [Slots -> Places]
    /\ call \in [Slots -> Call]
    /\ at \in [Slots -> Roots]
    /\ DOMAIN seen = Slots
    /\ left \in [Slots -> SUBSET Ids]
    /\ wrote \in [Slots -> SUBSET Writes]
    /\ before \in [Slots -> SUBSET Mutators]
    /\ due \in [Slots -> SUBSET Writes]
    /\ \A c \in Slots : pc[c] # "idle" => Fit(call[c])

\* Only a read at the barrier has mutations before it, and those still run.
ReaderOK(c) ==
    /\ pc[c] \in {"idle", "barrier", "reading", "dream", "answer"}
    /\ wrote[c] = {}
    /\ before[c] \subseteq Running
    /\ pc[c] # "barrier" => before[c] = {}
    /\ pc[c] = "idle" => due[c] = {}
    /\ left[c] # {} => pc[c] = "reading" /\ Lists(call[c])
    /\ call[c].action \in LibraryReads => due[c] = {} /\ before[c] = {}
    /\ pc[c] = "dream" => call[c].action = "dream_read"
    /\ pc[c] = "barrier" /\ call[c].action = "get" =>
         at[c] = FirstRoot(call[c].project)

\* The snapshot m, if there is one, has the write w.
At(m, w) == m # None /\ m[w[2]].stamp >= w[3]

\* A mutation that was located finds its memory, and what it wrote is there.
WriterOK(c) ==
    /\ pc[c] \in {"idle", "locate", "located", "failed", "written"}
    /\ before[c] = {}
    /\ due[c] = {}
    /\ left[c] = {}
    /\ pc[c] # "idle" => call[c].action \in ScopedMutations \cup IdMutations
    /\ pc[c] = "located" /\ call[c].action \in IdMutations =>
         Has(at[c], call[c].id)
    /\ pc[c] # "written" => wrote[c] = {}
    /\ \A w \in wrote[c] : /\ w[1] = at[c]
                           /\ At(docs[w[1]], w)
                           /\ call[c].action # "dream_publish"

\* What is due to a read is where it looks.
DueOK(c) ==
    \A w \in due[c] :
        /\ At(docs[w[1]], w)
        /\ ~Canonical(call[c]) => At(lexical[w[1]], w) /\ At(marker[w[1]], w)

Asked(c, w) == call[c].action = "get" => w[2] = call[c].id

\* What a read has read so far has what is due to it.
SeenOK(c) ==
    /\ pc[c] = "reading" /\ Lists(call[c]) =>
         /\ seen[c] \in Snapshot
         /\ \A w \in due[c] :
              w[1] = at[c] /\ w[2] \notin left[c] => At(seen[c], w)
    /\ pc[c] = "reading" /\ call[c].action = "get" =>
         /\ seen[c] = None
         /\ at[c] # FirstRoot(call[c].project) =>
              \A w \in due[c] :
                  Asked(c, w) => w[1] # FirstRoot(call[c].project)
    /\ pc[c] \in {"dream", "answer"} =>
         \A w \in due[c] : Asked(c, w) => Shows(c, w)

\* What c has read can be opened where it was read.
Opens(c) == \A i \in Ids : seen[c][i] # Absent => Has(at[c], i)

Found(c) ==
    seen[c] # None =>
        IF call[c].action \in {"get", "source"} THEN Has(at[c], call[c].id)
        ELSE call[c].action # "dream_read" => seen[c] \in Snapshot /\ Opens(c)

FoundOK(c) ==
    /\ pc[c] = "reading" /\ Lists(call[c]) => Opens(c)
    /\ pc[c] = "answer" => Found(c)

ReadOK(c) == ReaderOK(c) /\ DueOK(c) /\ SeenOK(c) /\ FoundOK(c)

RInv ==
    /\ ShapeOK
    /\ DocsOK
    /\ \A c \in Readers : ReadOK(c)
    /\ \A c \in Mutators : WriterOK(c)

-----------------------------------------------------------------------------
(* The slots a step leaves alone.                                          *)

Keeps(c) ==
    /\ pc'[c] = pc[c] /\ call'[c] = call[c] /\ at'[c] = at[c]
    /\ seen'[c] = seen[c] /\ left'[c] = left[c] /\ wrote'[c] = wrote[c]

LEMMA Later ==
    ASSUME DocsOK, DocsOK', Grows, NEW w \in Writes
    PROVE  /\ At(docs[w[1]], w) => At(docs'[w[1]], w)
           /\ At(lexical[w[1]], w) => At(lexical'[w[1]], w)
           /\ At(marker[w[1]], w) => At(marker'[w[1]], w)
<1>1. w[1] \in Roots /\ w[2] \in Ids /\ w[3] \in Int
    BY ScopesAssumption DEF Writes
<1>2. ASSUME NEW old \in Snapshot \cup {None}, NEW new \in Snapshot \cup {None},
             Upto(old, new), At(old, w)
      PROVE  At(new, w)
  <2>1. new # None /\ old[w[2]].stamp <= new[w[2]].stamp
      BY <1>1, <1>2 DEF At, Upto, Behind
  <2>2. old[w[2]].stamp \in Int /\ new[w[2]].stamp \in Int
      BY <1>1, <1>2, <2>1, SnapshotFacts DEF At
  <2>. QED
      BY <1>1, <1>2, <2>1, <2>2 DEF At
<1>3. Upto(docs[w[1]], docs'[w[1]])
    BY <1>1, SnapshotFacts DEF Grows, Upto, DocsOK
<1>. QED
    BY <1>1, <1>2, <1>3 DEF DocsOK, Grows

\* What can be opened stays: nothing is removed.
LEMMA HasStays ==
    ASSUME DocsOK, DocsOK', Grows, NEW r \in Roots, NEW i \in Ids, Has(r, i)
    PROVE  Has(r, i)'
<1>1. docs[r][i] # Absent
    BY DEF Has
<1>2. docs[r][i].stamp <= docs'[r][i].stamp
    BY DEF Grows, Behind
<1>3. docs[r][i] \in Doc /\ docs'[r][i] \in Doc
    BY SnapshotFacts DEF DocsOK
<1>4. docs'[r][i] # Absent
    BY <1>1, <1>2, <1>3, DocFacts
<1>. QED
    BY <1>4 DEF Has

LEMMA FoundFrame ==
    ASSUME ShapeOK, DocsOK, DocsOK', Grows, NEW d \in Readers, FoundOK(d),
           Keeps(d)
    PROVE  FoundOK(d)'
<1>1. /\ at[d] \in Roots
      /\ pc[d] = "answer" /\ call[d].action \in {"get", "source"} =>
           call[d].id \in Ids
    BY DEF ShapeOK, Fit, ById, Slots
<1>2. \A i \in Ids : Has(at[d], i) => Has(at[d], i)'
  <2>1. at'[d] = at[d]
      BY DEF Keeps
  <2>2. ASSUME NEW i \in Ids, Has(at[d], i) PROVE docs'[at[d]][i] # Absent
      BY <1>1, <2>2, HasStays DEF Has
  <2>. QED
      BY <2>1, <2>2 DEF Has
<1>3. Opens(d) => Opens(d)'
    BY <1>2 DEF Opens, Keeps
<1>4. pc[d] = "answer" /\ Found(d) => Found(d)'
    BY <1>1, <1>2, <1>3 DEF Found, Keeps
<1>. QED
    BY <1>3, <1>4 DEF FoundOK, Keeps

LEMMA ReaderFrame ==
    ASSUME ShapeOK, DocsOK, DocsOK', Grows, NEW d \in Readers, ReadOK(d),
           Keeps(d), due'[d] = due[d],
           before'[d] \subseteq before[d], before'[d] \subseteq Running'
    PROVE  ReadOK(d)'
<1>. d \in Slots
    BY DEF Slots
<1>1. ReaderOK(d)'
    BY DEF ReadOK, ReaderOK, Keeps
<1>2. \A w \in due[d] : w \in Writes
    BY DEF ShapeOK
<1>3. DueOK(d)'
    BY <1>2, Later DEF ReadOK, DueOK, Keeps
<1>4. \A w : Shows(d, w)' = Shows(d, w) /\ Asked(d, w)' = Asked(d, w)
    BY DEF Shows, Answered, Asked, Keeps
<1>5. SeenOK(d)'
    BY <1>4 DEF ReadOK, SeenOK, Keeps
<1>6. FoundOK(d)'
    BY FoundFrame DEF ReadOK
<1>. QED
    BY <1>1, <1>3, <1>5, <1>6 DEF ReadOK

LEMMA WriterFrame ==
    ASSUME ShapeOK, DocsOK, DocsOK', Grows, NEW d \in Mutators, WriterOK(d),
           Keeps(d), before'[d] = before[d], due'[d] = due[d]
    PROVE  WriterOK(d)'
<1>. d \in Slots
    BY DEF Slots
<1>1. \A w \in wrote[d] : At(docs[w[1]], w)'
    BY Later DEF ShapeOK, WriterOK, At
<1>2. pc[d] = "located" /\ call[d].action \in IdMutations =>
        Has(at[d], call[d].id)'
  <2>. SUFFICES ASSUME pc[d] = "located", call[d].action \in IdMutations
                PROVE  docs'[at[d]][call[d].id] # Absent
      BY DEF Has, Keeps
  <2>1. at[d] \in Roots /\ call[d].id \in Ids
      BY DEF ShapeOK, Fit, ById
  <2>2. Has(at[d], call[d].id)
      BY DEF WriterOK
  <2>. QED
      BY <2>1, <2>2, HasStays DEF Has
<1>. QED
    BY <1>1, <1>2 DEF WriterOK, Keeps

\* A step of one reader.
LEMMA OneReader ==
    ASSUME RInv, NEW c \in Readers, ShapeOK', DocsOK', Grows, ReadOK(c)',
           \A d \in Slots : d # c =>
               Keeps(d) /\ before'[d] = before[d] /\ due'[d] = due[d]
    PROVE  RInv'
<1>1. Running' = Running
    BY GatewayAssumption DEF Running, Keeps, Slots
<1>2. ASSUME NEW d \in Readers, d # c PROVE ReadOK(d)'
  <2>1. /\ ReadOK(d) /\ Keeps(d) /\ due'[d] = due[d]
        /\ before'[d] \subseteq before[d] /\ before'[d] \subseteq Running'
      BY <1>1, <1>2 DEF RInv, Slots, ReadOK, ReaderOK
  <2>. QED
      BY <2>1, ReaderFrame DEF RInv
<1>3. ASSUME NEW d \in Mutators PROVE WriterOK(d)'
  <2>1. d \in Slots /\ d # c
      BY GatewayAssumption DEF Slots
  <2>. QED
      BY <2>1, WriterFrame DEF RInv
<1>. QED
    BY <1>2, <1>3 DEF RInv

\* A step of one mutation that goes on.
LEMMA OneWriter ==
    ASSUME RInv, NEW c \in Mutators, ShapeOK', DocsOK', Grows, WriterOK(c)',
           pc'[c] # "idle",
           \A d \in Slots : d # c => Keeps(d),
           UNCHANGED <<before, due>>
    PROVE  RInv'
<1>1. Running \subseteq Running'
    BY DEF Running, Keeps, Slots
<1>2. ASSUME NEW d \in Readers PROVE ReadOK(d)'
  <2>1. d \in Slots /\ d # c
      BY GatewayAssumption DEF Slots
  <2>2. /\ ReadOK(d) /\ Keeps(d) /\ due'[d] = due[d]
        /\ before'[d] \subseteq before[d] /\ before'[d] \subseteq Running'
      BY <1>1, <2>1 DEF RInv, ReadOK, ReaderOK
  <2>. QED
      BY <2>2, ReaderFrame DEF RInv
<1>3. ASSUME NEW d \in Mutators, d # c PROVE WriterOK(d)'
  <2>1. Keeps(d)
      BY <1>3 DEF Slots
  <2>. QED
      BY <2>1, WriterFrame DEF RInv
<1>. QED
    BY <1>2, <1>3 DEF RInv

-----------------------------------------------------------------------------
(* The steps of readers.                                                   *)

LEMMA RootsOK ==
    ASSUME NEW new, Fit(new)
    PROVE  /\ new.scope = "none" => FirstRoot(new.project) \in Roots
           /\ new.scope # "none" =>
                RootOf(new.project, new.scope, new.project) \in Roots
    BY DEF Fit, Call, FirstRoot, RootOf, Roots, FirstClass

LEMMA AcceptReads ==
    ASSUME RInv, NEW c \in Slots, NEW new, Fit(new),
           pc[c] = "idle", Accept(c, new), UNCHANGED scopeVars
    PROVE  RInv'
<1>1. DocsOK' /\ Grows
    BY StillDocs DEF RInv
<1>. DEFINE root == IF new.scope = "none" THEN FirstRoot(new.project)
                    ELSE RootOf(new.project, new.scope, new.project)
<1>2. root \in Roots
    BY RootsOK
<1>3. /\ call' = [call EXCEPT ![c] = new]
      /\ at' = [at EXCEPT ![c] = root]
      /\ UNCHANGED <<seen, left, wrote, due>>
      /\ (c \in Readers) = ReadOnly(new.action)
    BY DEF Accept
<1>4. \/ /\ c \in Readers /\ new.action \notin LibraryReads
         /\ pc' = [pc EXCEPT ![c] = "barrier"]
         /\ before' = [before EXCEPT ![c] = Running]
      \/ /\ c \in Readers /\ new.action \in LibraryReads
         /\ pc' = [pc EXCEPT ![c] = "reading"] /\ UNCHANGED before
      \/ /\ c \notin Readers /\ UNCHANGED before
         /\ \/ pc' = [pc EXCEPT ![c] = "locate"]
            \/ pc' = [pc EXCEPT ![c] = "located"] /\ new.scope # "none"
    BY DEF Accept, Goto
<1>5. ShapeOK
    BY DEF RInv
<1>6. new.scope = "none" => root = FirstRoot(new.project)
    OBVIOUS
<1>. HIDE DEF root
<1>7. Running \in SUBSET Mutators
    BY DEF Running
<1>8. new \in Call
    BY DEF Fit
<1>9. ShapeOK'
    BY <1>2, <1>3, <1>4, <1>5, <1>7, <1>8 DEF ShapeOK, Places
<1>10. /\ call'[c] = new /\ at'[c] = root /\ seen'[c] = seen[c]
       /\ left'[c] = left[c] /\ wrote'[c] = wrote[c] /\ due'[c] = due[c]
       /\ \A d \in Slots : d # c =>
            Keeps(d) /\ before'[d] = before[d] /\ due'[d] = due[d]
    BY <1>3, <1>4, <1>5 DEF ShapeOK, Keeps
<1>11. CASE c \in Readers
  <2>1. /\ ReaderOK(c) /\ due[c] = {} /\ left[c] = {} /\ before[c] = {}
        /\ wrote[c] = {}
      BY <1>11 DEF RInv, ReadOK, ReaderOK
  <2>2. \/ /\ new.action \notin LibraryReads
           /\ pc'[c] = "barrier" /\ before'[c] = Running
        \/ /\ new.action \in LibraryReads
           /\ pc'[c] = "reading" /\ before'[c] = {}
      BY <1>4, <1>5, <1>11, <2>1 DEF ShapeOK
  <2>3. Running' = Running
      BY <1>10, <1>11, GatewayAssumption DEF Running, Keeps, Slots
  <2>4. new.action = "get" => root = FirstRoot(new.project)
      BY <1>6 DEF Fit, ById
  <2>5. ReaderOK(c)'
      BY <1>10, <2>1, <2>2, <2>3, <2>4 DEF ReaderOK
  <2>6. DueOK(c)'
      BY <1>10, <2>1 DEF DueOK
  <2>7. SeenOK(c)'
      BY <1>10, <2>1, <2>2 DEF SeenOK, Lists, LibraryReads
  <2>8. FoundOK(c)'
      BY <1>10, <2>2 DEF FoundOK, Lists, LibraryReads
  <2>. QED
      BY <1>1, <1>9, <1>10, <1>11, <2>5, <2>6, <2>7, <2>8, OneReader
         DEF ReadOK
<1>12. CASE c \notin Readers
  <2>1. c \in Mutators
      BY <1>12 DEF Slots
  <2>2. /\ WriterOK(c) /\ wrote[c] = {}
      BY <2>1 DEF RInv, WriterOK
  <2>3. new.action \in ScopedMutations \cup IdMutations
      BY <1>3, <1>12 DEF ReadOnly, Fit, Actions, LibraryReads
  <2>4. /\ pc'[c] \in {"locate", "located"}
        /\ pc'[c] = "located" => new.scope # "none"
        /\ before' = before
      BY <1>4, <1>5, <1>12 DEF ShapeOK
  <2>5. new.action \in IdMutations => new.scope = "none"
      BY DEF Fit, ById
  <2>6. WriterOK(c)'
      BY <1>10, <2>2, <2>3, <2>4, <2>5 DEF WriterOK
  <2>. QED
      BY <1>1, <1>3, <1>9, <1>10, <2>1, <2>4, <2>6, OneWriter
<1>. QED
    BY <1>11, <1>12

\* A reader returns or is dropped.
LEMMA LeaveReads ==
    ASSUME RInv, NEW c \in Readers, Vacate(c), due' = [due EXCEPT ![c] = {}],
           UNCHANGED scopeVars
    PROVE  RInv'
<1>. c \in Slots /\ c \notin Mutators
    BY GatewayAssumption DEF Slots
<1>1. DocsOK' /\ Grows
    BY StillDocs DEF RInv
<1>2. ShapeOK
    BY DEF RInv
<1>3. NoCall \in Call /\ GlobalRoot \in Roots
    BY DEF NoCall, Call, Roots
<1>4. /\ pc' = [pc EXCEPT ![c] = "idle"]
      /\ call' = [call EXCEPT ![c] = NoCall]
      /\ at' = [at EXCEPT ![c] = GlobalRoot]
      /\ seen' = [seen EXCEPT ![c] = None]
      /\ left' = [left EXCEPT ![c] = {}]
      /\ wrote' = [wrote EXCEPT ![c] = {}]
      /\ before' = [d \in Slots |-> IF d = c THEN {} ELSE before[d] \ {c}]
    BY DEF Vacate
<1>5. ShapeOK'
    BY <1>2, <1>3, <1>4 DEF ShapeOK, Places
<1>6. \A d \in Slots : before[d] \ {c} = before[d]
    BY <1>2 DEF ShapeOK
<1>7. \A d \in Slots : d # c =>
        Keeps(d) /\ before'[d] = before[d] /\ due'[d] = due[d]
    BY <1>2, <1>4, <1>6 DEF ShapeOK, Keeps
<1>8. /\ pc'[c] = "idle" /\ call'[c] = NoCall /\ left'[c] = {}
      /\ wrote'[c] = {} /\ before'[c] = {} /\ due'[c] = {}
    BY <1>2, <1>4 DEF ShapeOK
<1>9. ReadOK(c)'
    BY <1>8 DEF ReadOK, ReaderOK, DueOK, SeenOK, FoundOK, NoCall
<1>. QED
    BY <1>1, <1>5, <1>7, <1>9, OneReader

LEMMA PassReads ==
    ASSUME RInv, NEW c \in Readers, Pass(c)
    PROVE  RInv'
<1>. c \in Slots
    BY DEF Slots
<1>1. ShapeOK /\ ReadOK(c) /\ DocsOK
    BY DEF RInv
<1>2. /\ pc[c] = "barrier" /\ Running = {}
      /\ pc' = [pc EXCEPT ![c] = "reading"]
      /\ seen' = [seen EXCEPT ![c] = IF Lists(call[c]) THEN NoDocs ELSE None]
      /\ left' = [left EXCEPT ![c] = IF Lists(call[c]) THEN Ids ELSE {}]
      /\ UNCHANGED <<call, at, wrote, before, due>> /\ UNCHANGED scopeVars
    BY DEF Pass, Goto
<1>3. DocsOK' /\ Grows
    BY <1>1, <1>2, StillDocs
<1>4. ShapeOK'
    BY <1>1, <1>2 DEF ShapeOK, Places
<1>5. \A d \in Slots : d # c =>
        Keeps(d) /\ before'[d] = before[d] /\ due'[d] = due[d]
    BY <1>1, <1>2 DEF ShapeOK, Keeps
<1>6. before[c] = {}
    BY <1>1, <1>2 DEF ReadOK, ReaderOK
<1>7. /\ pc'[c] = "reading"
      /\ seen'[c] = IF Lists(call[c]) THEN NoDocs ELSE None
      /\ left'[c] = IF Lists(call[c]) THEN Ids ELSE {}
    BY <1>1, <1>2 DEF ShapeOK
<1>8. UNCHANGED <<call, at, wrote, before, due, docs, lexical, marker>>
    BY <1>2 DEF scopeVars
<1>9. ReaderOK(c)'
    BY <1>1, <1>2, <1>6, <1>7, <1>8 DEF ReadOK, ReaderOK, Lists
<1>10. DueOK(c)'
    BY <1>1, <1>8 DEF ReadOK, DueOK
<1>11. \A w \in due[c] : w[2] \in Ids
    BY <1>1 DEF ShapeOK, Writes
<1>12. NoDocs \in Snapshot
    BY DEF NoDocs, Snapshot, Doc
<1>13. call[c].action = "get" => ~Lists(call[c]) /\ at[c] = FirstRoot(call[c].project)
    BY <1>1, <1>2 DEF Lists, ReadOK, ReaderOK
<1>14. SeenOK(c)'
    BY <1>7, <1>8, <1>11, <1>12, <1>13 DEF SeenOK, Lists
<1>15. FoundOK(c)'
    BY <1>7, <1>8 DEF FoundOK, Opens, NoDocs, Lists
<1>. QED
    BY <1>3, <1>4, <1>5, <1>9, <1>10, <1>14, <1>15, OneReader
       DEF RInv, ReadOK

\* A read has its answer, but for reading DREAM.md.
LEMMA AnswerReads ==
    ASSUME RInv, NEW c \in Readers, pc[c] \in {"reading", "dream"}, left[c] = {},
           NEW place \in {"answer", "dream"}, Goto(c, place),
           seen' = seen \/ \E answer : seen' = [seen EXCEPT ![c] = answer],
           UNCHANGED <<call, at, left, wrote, before, due>>, UNCHANGED scopeVars,
           place = "dream" => call[c].action = "dream_read",
           \A w \in due[c] : Asked(c, w) => Shows(c, w)',
           place = "answer" => Found(c)'
    PROVE  RInv'
<1>. c \in Slots
    BY DEF Slots
<1>1. ShapeOK /\ ReadOK(c) /\ DocsOK
    BY DEF RInv
<1>2. DocsOK' /\ Grows
    BY <1>1, StillDocs
<1>3. ShapeOK'
    BY <1>1 DEF ShapeOK, Places, Goto
<1>4. \A d \in Slots : d # c =>
        Keeps(d) /\ before'[d] = before[d] /\ due'[d] = due[d]
    BY <1>1 DEF ShapeOK, Keeps, Goto
<1>5. pc'[c] = place
    BY <1>1 DEF ShapeOK, Goto
<1>6. UNCHANGED <<docs, lexical, marker>>
    BY DEF scopeVars
<1>7. Running' = Running
    BY <1>4, GatewayAssumption DEF Running, Keeps, Slots
<1>8. ReaderOK(c)'
    BY <1>1, <1>5, <1>7 DEF ReadOK, ReaderOK
<1>9. DueOK(c)'
    BY <1>1, <1>6 DEF ReadOK, DueOK
<1>10. SeenOK(c)'
    BY <1>5 DEF SeenOK, Asked
<1>11. FoundOK(c)'
    BY <1>5 DEF FoundOK
<1>. QED
    BY <1>2, <1>3, <1>4, <1>8, <1>9, <1>10, <1>11, OneReader DEF ReadOK

\* The lexical index names what can be opened.
LEMMA IndexOpens ==
    ASSUME DocsOK, NEW r \in Roots, lexical[r] # None
    PROVE  /\ lexical[r] \in Snapshot
           /\ \A i \in Ids : lexical[r][i] # Absent => Has(r, i)
<1>1. lexical[r] \in Snapshot /\ docs[r] \in Snapshot
    BY DEF DocsOK
<1>2. ASSUME NEW i \in Ids, lexical[r][i] # Absent PROVE docs[r][i] # Absent
  <2>1. lexical[r][i].stamp <= docs[r][i].stamp
      BY DEF DocsOK, Upto, Behind
  <2>2. lexical[r][i] \in Doc /\ docs[r][i] \in Doc
      BY <1>1, SnapshotFacts
  <2>. QED
      BY <1>2, <2>1, <2>2, DocFacts
<1>. QED
    BY <1>1, <1>2 DEF Has

\* The index as an answer.
LEMMA IndexFound ==
    ASSUME RInv, NEW c \in Readers, UNCHANGED <<call, at, docs>>,
           call[c].action \notin {"get", "source"},
           seen' = [seen EXCEPT ![c] = lexical[at[c]]]
    PROVE  Found(c)'
<1>1. /\ DocsOK /\ at[c] \in Roots
      /\ seen'[c] = lexical[at[c]]
    BY DEF RInv, ShapeOK, Slots
<1>2. lexical[at[c]] # None => \A i \in Ids :
        lexical[at[c]][i] # Absent => docs[at[c]][i] # Absent
    BY <1>1, IndexOpens DEF Has
<1>3. lexical[at[c]] # None => lexical[at[c]] \in Snapshot
    BY <1>1, IndexOpens
<1>. QED
    BY <1>1, <1>2, <1>3 DEF Found, Opens, Has

\* An answer from one snapshot.
LEMMA ShowsSnapshot ==
    ASSUME RInv, NEW c \in Readers, NEW w \in due[c], call[c].action # "get",
           UNCHANGED <<call, at>>, NEW m, seen' = [seen EXCEPT ![c] = m],
           w[1] = at[c] => At(m, w)
    PROVE  Shows(c, w)'
<1>. c \in Slots /\ DOMAIN seen = Slots
    BY DEF Slots, RInv, ShapeOK
<1>1. seen'[c] = m
    OBVIOUS
<1>. QED
    BY <1>1 DEF Shows, Answered, At

LEMMA ReadIndexReads ==
    ASSUME RInv, NEW c \in Readers, ReadIndex(c)
    PROVE  RInv'
<1>1. /\ pc[c] = "reading" /\ Goto(c, "answer")
      /\ seen' = [seen EXCEPT ![c] = lexical[at[c]]]
      /\ UNCHANGED <<call, at, left, wrote, before, due>> /\ UNCHANGED scopeVars
      /\ call[c].action \in {"query", "sources"} /\ ~call[c].blank
    BY DEF ReadIndex, Answer
<1>2. ~Canonical(call[c]) /\ ~Lists(call[c]) /\ call[c].action # "get"
    BY <1>1 DEF Canonical, Lists
<1>3. ReadOK(c)
    BY DEF RInv
<1>4. left[c] = {}
    BY <1>2, <1>3 DEF ReadOK, ReaderOK
<1>5. \A w \in due[c] : w[1] = at[c] => At(lexical[at[c]], w)
    BY <1>2, <1>3 DEF ReadOK, DueOK
<1>6. \A w \in due[c] : Shows(c, w)'
    BY <1>1, <1>2, <1>5, ShowsSnapshot
<1>7. Found(c)'
  <2>1. UNCHANGED docs
      BY <1>1 DEF scopeVars
  <2>. QED
      BY <1>1, <2>1, IndexFound
<1>. QED
    BY <1>1, <1>4, <1>6, <1>7, AnswerReads

LEMMA ReadMarkerReads ==
    ASSUME RInv, NEW c \in Readers, ReadMarker(c)
    PROVE  RInv'
<1>1. /\ pc[c] = "reading" /\ call[c].action = "dream_read"
      /\ seen' = [seen EXCEPT ![c] = Generation(at[c])]
      /\ UNCHANGED <<call, at, left, wrote, before, due>> /\ UNCHANGED scopeVars
    BY DEF ReadMarker
<1>2. PICK place \in {"answer", "dream"} : Goto(c, place)
    BY DEF ReadMarker
<1>3. ~Canonical(call[c]) /\ ~Lists(call[c]) /\ call[c].action # "get"
    BY <1>1 DEF Canonical, Lists
<1>4. ReadOK(c)
    BY DEF RInv
<1>5. left[c] = {}
    BY <1>3, <1>4 DEF ReadOK, ReaderOK
<1>6. \A w \in due[c] : w[1] = at[c] => At(Generation(at[c]), w)
    BY <1>3, <1>4 DEF ReadOK, DueOK, Generation, At
<1>7. \A w \in due[c] : Shows(c, w)'
    BY <1>1, <1>3, <1>6, ShowsSnapshot
<1>8. Found(c)'
    BY <1>1 DEF Found
<1>. QED
    BY <1>1, <1>2, <1>5, <1>7, <1>8, AnswerReads

LEMMA ReadDreamReads ==
    ASSUME RInv, NEW c \in Readers, ReadDream(c)
    PROVE  RInv'
<1>. c \in Slots /\ DOMAIN seen = Slots
    BY DEF Slots, RInv, ShapeOK
<1>1. /\ pc[c] = "dream" /\ Goto(c, "answer")
      /\ seen' = [seen EXCEPT ![c] = seen[c]]
      /\ UNCHANGED <<call, at, left, wrote, before, due>> /\ UNCHANGED scopeVars
    BY DEF ReadDream, Answer
<1>2. ReadOK(c)
    BY DEF RInv
<1>3. left[c] = {}
    BY <1>1, <1>2 DEF ReadOK, ReaderOK
<1>4. seen'[c] = seen[c]
    BY <1>1
<1>5. \A w \in due[c] : Asked(c, w) => Shows(c, w)'
    BY <1>1, <1>2, <1>4 DEF ReadOK, SeenOK, Shows, Answered
<1>6. Found(c)'
    BY <1>1, <1>2 DEF ReadOK, ReaderOK, Found
<1>. QED
    BY <1>1, <1>3, <1>5, <1>6, AnswerReads

\* Nothing is due to reads of the library.
LEMMA LibraryReads1 ==
    ASSUME RInv, NEW c \in Readers, call[c].action \in LibraryReads
    PROVE  due[c] = {} /\ before[c] = {} /\ left[c] = {}
    BY DEF RInv, ReadOK, ReaderOK, LibraryReads, Lists

LEMMA ReadSourceReads ==
    ASSUME RInv, NEW c \in Readers, ReadSource(c)
    PROVE  RInv'
<1>1. /\ pc[c] = "reading" /\ Goto(c, "answer") /\ call[c].action = "source"
      /\ UNCHANGED <<call, at, left, wrote, before, due>> /\ UNCHANGED scopeVars
    BY DEF ReadSource, Answer
<1>2. seen' = [seen EXCEPT ![c] =
                 IF Has(at[c], call[c].id) THEN docs[at[c]][call[c].id]
                 ELSE None]
    BY DEF ReadSource, Answer
<1>3. due[c] = {} /\ left[c] = {}
    BY <1>1, LibraryReads1 DEF LibraryReads
<1>4. Found(c)'
  <2>1. UNCHANGED docs
      BY <1>1 DEF scopeVars
  <2>2. ~Has(at[c], call[c].id) => seen'[c] = None
      BY <1>2 DEF RInv, ShapeOK, Slots
  <2>. QED
      BY <1>1, <2>1, <2>2 DEF Found, Has
<1>. QED
    BY <1>1, <1>2, <1>3, <1>4, AnswerReads

\* A lookup of a reader goes on to Global.
LEMMA FallBackReads ==
    ASSUME RInv, NEW c \in Readers, pc[c] = "reading",
           at' = [at EXCEPT ![c] = GlobalRoot],
           UNCHANGED <<pc, call, seen, left, wrote, before, due>>,
           UNCHANGED scopeVars,
           call[c].action \in {"get", "shortlist"},
           call[c].action = "get" =>
             \A w \in due[c] : Asked(c, w) => w[1] # FirstRoot(call[c].project)
    PROVE  RInv'
<1>. c \in Slots
    BY DEF Slots
<1>1. ShapeOK /\ ReadOK(c) /\ DocsOK
    BY DEF RInv
<1>2. DocsOK' /\ Grows
    BY <1>1, StillDocs
<1>3. ShapeOK'
    BY <1>1 DEF ShapeOK, Roots
<1>4. \A d \in Slots : d # c =>
        Keeps(d) /\ before'[d] = before[d] /\ due'[d] = due[d]
    BY <1>1 DEF ShapeOK, Keeps
<1>5. UNCHANGED <<docs, lexical, marker>>
    BY DEF scopeVars
<1>6. Running' = Running
    BY DEF Running
<1>7. ReaderOK(c)'
    BY <1>1, <1>6 DEF ReadOK, ReaderOK
<1>8. DueOK(c)'
    BY <1>1, <1>5 DEF ReadOK, DueOK
<1>9. SeenOK(c)'
    BY <1>1 DEF ReadOK, SeenOK, Asked, Lists
<1>10. FoundOK(c)'
    BY DEF FoundOK, Lists
<1>. QED
    BY <1>2, <1>3, <1>4, <1>7, <1>8, <1>9, <1>10, OneReader DEF ReadOK

LEMMA ReadShortlistReads ==
    ASSUME RInv, NEW c \in Readers, ReadShortlist(c)
    PROVE  RInv'
<1>1. due[c] = {} /\ left[c] = {} /\ call[c].action = "shortlist"
      /\ pc[c] = "reading"
    BY LibraryReads1 DEF LibraryReads, ReadShortlist
<1>2. CASE Shortlist(lexical[at[c]]) = <<>> /\ at[c] # GlobalRoot
  <2>1. /\ at' = [at EXCEPT ![c] = GlobalRoot]
        /\ UNCHANGED <<pc, call, seen, left, wrote, before, due>>
        /\ UNCHANGED scopeVars
      BY <1>2 DEF ReadShortlist
  <2>. QED
      BY <1>1, <2>1, FallBackReads
<1>3. CASE ~(Shortlist(lexical[at[c]]) = <<>> /\ at[c] # GlobalRoot)
  <2>1. Answer(c, lexical[at[c]]) /\ UNCHANGED <<at, left>>
      BY <1>3 DEF ReadShortlist
  <2>2. Found(c)'
      BY <1>1, <2>1, IndexFound DEF Answer, scopeVars
  <2>. QED
      BY <1>1, <2>1, <2>2, AnswerReads DEF Answer
<1>. QED
    BY <1>2, <1>3

\* A document that is due to a get is there, or is not in the root it is at.
LEMMA DueIsThere ==
    ASSUME RInv, NEW c \in Readers, pc[c] = "reading", call[c].action = "get",
           NEW w \in due[c], Asked(c, w)
    PROVE  /\ w[2] = call[c].id
           /\ w[1] = at[c] => /\ Has(at[c], call[c].id)
                              /\ docs[at[c]][call[c].id].stamp >= w[3]
           /\ at[c] # FirstRoot(call[c].project) =>
                w[1] # FirstRoot(call[c].project)
<1>. c \in Slots
    BY DEF Slots
<1>1. ShapeOK /\ ReadOK(c) /\ DocsOK
    BY DEF RInv
<1>2. w[2] = call[c].id
    BY DEF Asked
<1>3. w[1] \in Roots /\ w[2] \in Ids /\ w[3] \in 1..MaxClock
    BY <1>1 DEF ShapeOK, Writes
<1>4. docs[w[1]][w[2]].stamp >= w[3]
    BY <1>1 DEF ReadOK, DueOK, At
<1>5. docs[w[1]][w[2]] # Absent
    BY <1>3, <1>4 DEF Absent
<1>. QED
    BY <1>1, <1>2, <1>4, <1>5 DEF Has, ReadOK, SeenOK

LEMMA LocateReads ==
    ASSUME RInv, NEW c \in Readers, Locate(c)
    PROVE  RInv'
<1>. c \in Slots
    BY DEF Slots
<1>1. ShapeOK /\ ReadOK(c) /\ DocsOK
    BY DEF RInv
<1>2. pc[c] = "reading" /\ call[c].action = "get"
    BY <1>1 DEF Locate, ReadOK, ReaderOK
<1>3. left[c] = {} /\ seen[c] = None
    BY <1>1, <1>2 DEF ReadOK, ReaderOK, SeenOK, Lists
<1>4. UNCHANGED <<call, left, wrote, before, due>> /\ UNCHANGED scopeVars
    BY DEF Locate
<1>5. call[c].id \in Ids /\ at[c] \in Roots
    BY <1>1, <1>2 DEF ShapeOK, Fit, ById
<1>6. CASE Has(at[c], call[c].id)
  <2>1. /\ UNCHANGED at /\ Goto(c, "answer")
        /\ seen' = [seen EXCEPT ![c] = docs[at[c]][call[c].id]]
      BY <1>6 DEF Locate
  <2>2. seen'[c] = docs[at[c]][call[c].id]
      BY <1>1, <2>1 DEF ShapeOK
  <2>3. seen'[c] # None
      BY <1>1, <1>5, <2>2, SnapshotFacts, DocFacts DEF DocsOK
  <2>4. \A w \in due[c] : Asked(c, w) => Shows(c, w)'
      BY <1>2, <1>4, <2>1, <2>2, <2>3, DueIsThere DEF Shows, Answered
  <2>5. Found(c)'
      BY <1>2, <1>4, <1>6, <2>1 DEF Found, Has, scopeVars
  <2>. QED
      BY <1>2, <1>3, <1>4, <2>1, <2>4, <2>5, AnswerReads
<1>7. CASE ~Has(at[c], call[c].id) /\ at[c] = GlobalRoot
  <2>1. UNCHANGED at /\ Goto(c, "answer") /\ seen' = seen
      BY <1>7 DEF Locate
  <2>2. \A w \in due[c] : Asked(c, w) => Shows(c, w)'
      BY <1>2, <1>4, <1>7, <2>1, DueIsThere DEF Shows
  <2>3. Found(c)'
      BY <1>3, <2>1 DEF Found
  <2>. QED
      BY <1>2, <1>3, <1>4, <2>1, <2>2, <2>3, AnswerReads
<1>8. CASE ~Has(at[c], call[c].id) /\ at[c] # GlobalRoot
  <2>1. at' = [at EXCEPT ![c] = GlobalRoot] /\ UNCHANGED <<pc, seen>>
      BY <1>8 DEF Locate
  <2>2. \A w \in due[c] : Asked(c, w) => w[1] # FirstRoot(call[c].project)
      BY <1>2, <1>8, DueIsThere
  <2>. QED
      BY <1>2, <1>4, <2>1, <2>2, FallBackReads
<1>. QED
    BY <1>6, <1>7, <1>8

LEMMA ReadFileReads ==
    ASSUME RInv, NEW c \in Readers, ReadFile(c)
    PROVE  RInv'
<1>. c \in Slots
    BY DEF Slots
<1>1. ShapeOK /\ ReadOK(c) /\ DocsOK
    BY DEF RInv
<1>2. PICK i \in left[c] :
        /\ seen' = [seen EXCEPT ![c][i] = docs[at[c]][i]]
        /\ left' = [left EXCEPT ![c] = @ \ {i}]
        /\ Goto(c, IF left[c] = {i} THEN "answer" ELSE "reading")
    BY DEF ReadFile
<1>3. /\ pc[c] = "reading" /\ UNCHANGED <<call, at, wrote, before, due>>
      /\ UNCHANGED scopeVars
    BY DEF ReadFile
<1>4. Lists(call[c])
    BY <1>1 DEF ReadOK, ReaderOK
<1>5. call[c].action # "get" /\ call[c].action # "dream_read"
    BY <1>4 DEF Lists
<1>6. at[c] \in Roots /\ i \in Ids
    BY <1>1 DEF ShapeOK
<1>7. docs[at[c]][i] \in Doc
    BY <1>1, <1>6, SnapshotFacts DEF DocsOK
<1>8. seen[c] \in Snapshot
    BY <1>1, <1>3, <1>4 DEF ReadOK, SeenOK
<1>9. /\ seen'[c] = [seen[c] EXCEPT ![i] = docs[at[c]][i]]
      /\ DOMAIN seen' = Slots
    BY <1>1, <1>2 DEF ShapeOK
<1>10. seen'[c] \in Snapshot
    BY <1>7, <1>8, <1>9 DEF Snapshot
<1>11. seen'[c] # None
    BY <1>10, SnapshotFacts
<1>12. /\ seen'[c][i] = docs[at[c]][i]
       /\ \A j \in Ids : j # i => seen'[c][j] = seen[c][j]
    BY <1>6, <1>8, <1>9 DEF Snapshot
<1>13. /\ left'[c] = left[c] \ {i}
       /\ pc'[c] = IF left[c] = {i} THEN "answer" ELSE "reading"
    BY <1>1, <1>2 DEF ShapeOK, Goto
<1>14. ASSUME NEW w \in due[c], w[1] = at[c], w[2] \notin left'[c]
       PROVE  At(seen'[c], w)
  <2>1. w[2] \in Ids
      BY <1>1 DEF ShapeOK, Writes
  <2>2. CASE w[2] = i
      BY <1>1, <1>11, <1>12, <1>14, <2>2 DEF ReadOK, DueOK, At
  <2>3. CASE w[2] # i
      BY <1>1, <1>3, <1>4, <1>11, <1>12, <1>13, <1>14, <2>1, <2>3
         DEF ReadOK, SeenOK, At
  <2>. QED
      BY <2>2, <2>3
<1>15. DocsOK' /\ Grows
    BY <1>1, <1>3, StillDocs
<1>16. ShapeOK'
  <2>1. pc' \in [Slots -> Places]
      BY <1>1, <1>2 DEF ShapeOK, Places, Goto
  <2>2. left' \in [Slots -> SUBSET Ids]
      BY <1>1, <1>2 DEF ShapeOK
  <2>3. \A d \in Slots : pc'[d] # "idle" => Fit(call[d])
      BY <1>1, <1>2, <1>3 DEF ShapeOK, Goto
  <2>. QED
      BY <1>1, <1>3, <1>9, <2>1, <2>2, <2>3 DEF ShapeOK
<1>17. \A d \in Slots : d # c =>
        Keeps(d) /\ before'[d] = before[d] /\ due'[d] = due[d]
    BY <1>1, <1>2, <1>3 DEF ShapeOK, Keeps, Goto
<1>18. Running' = Running
    BY <1>17, GatewayAssumption DEF Running, Keeps, Slots
<1>19. UNCHANGED <<docs, lexical, marker>>
    BY <1>3 DEF scopeVars
<1>20. left'[c] # {} => pc'[c] = "reading"
    BY <1>13
<1>21. ReaderOK(c)'
    BY <1>1, <1>3, <1>4, <1>13, <1>18, <1>20 DEF ReadOK, ReaderOK
<1>22. DueOK(c)'
    BY <1>1, <1>3, <1>19 DEF ReadOK, DueOK
<1>23. SeenOK(c)'
  <2>1. \/ pc'[c] = "reading"
        \/ pc'[c] = "answer" /\ left'[c] = {}
      BY <1>13
  <2>2. CASE pc'[c] = "reading"
      BY <1>3, <1>5, <1>10, <1>14, <2>2 DEF SeenOK, At
  <2>3. CASE pc'[c] = "answer" /\ left'[c] = {}
    <3>1. ASSUME NEW w \in due[c] PROVE Shows(c, w)'
        BY <1>3, <1>5, <1>11, <1>14, <2>3 DEF Shows, Answered, At
    <3>. QED
        BY <1>3, <2>3, <3>1 DEF SeenOK, Asked
  <2>. QED
      BY <2>1, <2>2, <2>3
<1>24. FoundOK(c)'
  <2>1. Opens(c)
      BY <1>1, <1>3, <1>4 DEF ReadOK, FoundOK
  <2>2. Opens(c)'
      BY <1>3, <1>12, <1>19, <2>1 DEF Opens, Has
  <2>3. Found(c)'
      BY <1>3, <1>4, <1>10, <2>2 DEF Found, Lists
  <2>. QED
      BY <2>2, <2>3 DEF FoundOK
<1>. QED
    BY <1>15, <1>16, <1>17, <1>21, <1>22, <1>23, <1>24, OneReader DEF ReadOK

-----------------------------------------------------------------------------
(* The steps of mutations.                                                 *)

LEMMA LocateWrites ==
    ASSUME RInv, NEW c \in Mutators, Locate(c)
    PROVE  RInv'
<1>. c \in Slots /\ c \notin Readers
    BY GatewayAssumption DEF Slots
<1>1. ShapeOK /\ WriterOK(c) /\ DocsOK
    BY DEF RInv
<1>2. pc[c] = "locate" /\ wrote[c] = {}
    BY <1>1 DEF Locate, WriterOK
<1>3. /\ UNCHANGED <<call, seen, left, wrote, before, due>>
      /\ UNCHANGED scopeVars
    BY DEF Locate
<1>4. \/ at' = [at EXCEPT ![c] = GlobalRoot] /\ UNCHANGED pc
      \/ UNCHANGED at /\ Goto(c, "failed")
      \/ UNCHANGED at /\ Goto(c, "located") /\ Has(at[c], call[c].id)
    BY DEF Locate
<1>5. DocsOK' /\ Grows
    BY <1>1, <1>3, StillDocs
<1>6. ShapeOK'
  <2>1. pc' \in [Slots -> Places]
      BY <1>1, <1>4 DEF ShapeOK, Places, Goto
  <2>2. at' \in [Slots -> Roots]
      BY <1>1, <1>4 DEF ShapeOK, Roots
  <2>3. \A d \in Slots : pc'[d] # "idle" => Fit(call[d])
      BY <1>1, <1>2, <1>4 DEF ShapeOK, Goto
  <2>. QED
      BY <1>1, <1>3, <2>1, <2>2, <2>3 DEF ShapeOK
<1>7. \A d \in Slots : d # c => Keeps(d)
    BY <1>1, <1>3, <1>4 DEF ShapeOK, Keeps, Goto
<1>8. \/ pc'[c] \in {"locate", "failed"}
      \/ pc'[c] = "located" /\ at' = at /\ Has(at[c], call[c].id)
    BY <1>1, <1>2, <1>4 DEF ShapeOK, Goto
<1>9. UNCHANGED docs
    BY <1>3 DEF scopeVars
<1>10. WriterOK(c)'
    BY <1>1, <1>2, <1>3, <1>8, <1>9 DEF WriterOK, Has
<1>11. pc'[c] # "idle"
    BY <1>8
<1>. QED
    BY <1>3, <1>5, <1>6, <1>7, <1>10, <1>11, OneWriter

LEMMA WriteReads ==
    ASSUME RInv, NEW c \in Mutators, Write(c)
    PROVE  RInv'
<1>. c \in Slots /\ c \notin Readers
    BY GatewayAssumption DEF Slots
<1>1. ShapeOK /\ WriterOK(c) /\ DocsOK
    BY DEF RInv
<1>. DEFINE changed(m) == {i \in Ids : m[i] # docs[at[c]][i]}
<1>2. PICK m \in Outcomes(call[c], docs[at[c]]) :
        /\ changed(m) # {} => clock < MaxClock
        /\ docs' = [docs EXCEPT ![at[c]] = m]
        /\ clock' = IF changed(m) = {} THEN clock ELSE clock + 1
        /\ wrote' = [wrote EXCEPT ![c] =
                       {<<at[c], i, clock + 1>> : i \in changed(m)}]
    BY DEF Write
<1>3. /\ pc[c] = "located" /\ Goto(c, "written")
      /\ UNCHANGED <<call, at, seen, left, before, due>>
      /\ UNCHANGED <<lexical, marker>>
      /\ locked' = locked \cup {at[c]}
    BY DEF Write
<1>4. Fit(call[c]) /\ at[c] \in Roots
    BY <1>1, <1>3 DEF ShapeOK
<1>5. docs[at[c]] \in Snapshot /\ clock \in Int
    BY <1>1, <1>4 DEF DocsOK
<1>6. call[c].action \in ScopedMutations \cup IdMutations
    BY <1>1, <1>3 DEF WriterOK
<1>7. call[c].action \in IdMutations =>
        call[c].id \in Ids /\ docs[at[c]][call[c].id] # Absent
    BY <1>1, <1>3, <1>4 DEF WriterOK, Has, Fit, ById
<1>8. Restamped(docs[at[c]], m)
    BY <1>2, <1>5, <1>6, <1>7, OutcomeShape
<1>9. locked' \subseteq Roots
    BY <1>1, <1>3, <1>4 DEF DocsOK
<1>10. DocsOK' /\ Grows
    BY <1>1, <1>2, <1>3, <1>4, <1>8, <1>9, WriteDocs
<1>11. \A i \in changed(m) : /\ clock + 1 \in 1..MaxClock
                             /\ m[i].stamp = clock + 1
    <2>. SUFFICES ASSUME NEW i \in changed(m)
                  PROVE  /\ clock + 1 \in 1..MaxClock
                         /\ m[i].stamp = clock + 1
        OBVIOUS
    <2>1. clock < MaxClock
        BY <1>2
    <2>2. clock + 1 \in 1..MaxClock
        BY <1>1, <2>1, ScopesAssumption DEF DocsOK
    <2>. QED
        BY <1>8, <2>2 DEF Restamped, Stamped
<1>12. /\ wrote'[c] = {<<at[c], i, clock + 1>> : i \in changed(m)}
       /\ \A d \in Slots : d # c => wrote'[d] = wrote[d]
       /\ DOMAIN wrote' = Slots
    BY <1>1, <1>2 DEF ShapeOK
<1>13. /\ docs'[at[c]] = m
       /\ m # None
    BY <1>1, <1>2, <1>4, <1>10, SnapshotFacts DEF DocsOK
<1>14. ASSUME NEW w \in wrote'[c]
       PROVE  w \in Writes /\ w[1] = at[c] /\ At(docs'[w[1]], w)
  <2>1. PICK i \in changed(m) : w = <<at[c], i, clock + 1>>
      BY <1>12
  <2>2. w[1] = at[c] /\ w[2] = i /\ w[3] = clock + 1
      BY <2>1
  <2>3. w \in Writes
      BY <1>4, <1>11, <2>1 DEF Writes
  <2>. QED
      BY <1>5, <1>11, <1>13, <2>2, <2>3 DEF At
<1>15. call[c].action = "dream_publish" => wrote'[c] = {}
  <2>. SUFFICES ASSUME call[c].action = "dream_publish" PROVE wrote'[c] = {}
      OBVIOUS
  <2>1. m = docs[at[c]]
      BY <1>2, NothingWritten
  <2>. QED
      BY <1>12, <2>1
<1>. HIDE DEF changed
<1>16. pc' \in [Slots -> Places] /\ pc'[c] = "written"
    BY <1>1, <1>3 DEF ShapeOK, Places, Goto
<1>17. ShapeOK'
  <2>1. wrote' \in [Slots -> SUBSET Writes]
    <3>1. wrote'[c] \in SUBSET Writes
        BY <1>14
    <3>2. wrote' = [wrote EXCEPT ![c] = wrote'[c]]
        BY <1>1, <1>2, <1>12 DEF ShapeOK
    <3>. HIDE DEF Writes
    <3>. QED
        BY <1>1, <3>1, <3>2 DEF ShapeOK
  <2>2. \A d \in Slots : pc'[d] # "idle" => Fit(call[d])
      BY <1>1, <1>3 DEF ShapeOK, Goto
  <2>. QED
      BY <1>1, <1>3, <1>16, <2>1, <2>2 DEF ShapeOK
<1>18. \A d \in Slots : d # c => Keeps(d)
    BY <1>1, <1>3, <1>12 DEF ShapeOK, Keeps, Goto
<1>19. WriterOK(c)'
    BY <1>1, <1>3, <1>14, <1>15, <1>16 DEF WriterOK
<1>. QED
    BY <1>3, <1>10, <1>16, <1>17, <1>18, <1>19, OneWriter

\* A mutation ends, and what it wrote is due to the reads it was before.
LEMMA LeaveWrites ==
    ASSUME RInv, NEW c \in Mutators, pc[c] # "idle", Vacate(c), DocsOK', Grows,
           NEW refreshed \in BOOLEAN, Owe(c, refreshed),
           refreshed => \A w \in wrote[c] : At(lexical'[w[1]], w)
                                            /\ At(marker'[w[1]], w)
    PROVE  RInv'
<1>. c \in Slots /\ c \notin Readers
    BY GatewayAssumption DEF Slots
<1>1. ShapeOK /\ WriterOK(c) /\ DocsOK
    BY DEF RInv
<1>2. /\ pc' = [pc EXCEPT ![c] = "idle"]
      /\ call' = [call EXCEPT ![c] = NoCall]
      /\ at' = [at EXCEPT ![c] = GlobalRoot]
      /\ seen' = [seen EXCEPT ![c] = None]
      /\ left' = [left EXCEPT ![c] = {}]
      /\ wrote' = [wrote EXCEPT ![c] = {}]
      /\ before' = [d \in Slots |-> IF d = c THEN {} ELSE before[d] \ {c}]
    BY DEF Vacate
<1>3. \A d \in Slots : d # c => Keeps(d) /\ before'[d] = before[d] \ {c}
    BY <1>1, <1>2 DEF ShapeOK, Keeps
<1>4. /\ pc'[c] = "idle" /\ wrote'[c] = {} /\ left'[c] = {}
      /\ before'[c] = {}
    BY <1>1, <1>2 DEF ShapeOK
<1>5. Running' = Running \ {c}
  <2>1. \A d \in Mutators : d # c => pc'[d] = pc[d]
      BY <1>3 DEF Keeps, Slots
  <2>. QED
      BY <1>4, <2>1 DEF Running
<1>6. \A d \in Slots :
        due'[d] = IF c \in before[d] /\ (refreshed \/ Canonical(call[d]))
                  THEN due[d] \cup wrote[c] ELSE due[d]
    BY DEF Owe
<1>7. ShapeOK'
  <2>1. /\ pc' \in [Slots -> Places]
        /\ \A d \in Slots : pc'[d] # "idle" => Fit(call'[d])
      BY <1>1, <1>2 DEF ShapeOK, Places
  <2>2. NoCall \in Call /\ GlobalRoot \in Roots
      BY DEF NoCall, Call, Roots
  <2>3. /\ call' \in [Slots -> Call] /\ at' \in [Slots -> Roots]
        /\ DOMAIN seen' = Slots /\ left' \in [Slots -> SUBSET Ids]
        /\ before' \in [Slots -> SUBSET Mutators]
      BY <1>1, <1>2, <2>2 DEF ShapeOK
  <2>4. /\ wrote' \in [Slots -> SUBSET Writes]
        /\ due' \in [Slots -> SUBSET Writes]
      BY <1>1, <1>2 DEF ShapeOK, Owe
  <2>. QED
      BY <2>1, <2>3, <2>4 DEF ShapeOK
<1>8. ASSUME NEW d \in Readers PROVE ReadOK(d)'
  <2>. d \in Slots /\ d # c
      BY DEF Slots
  <2>1. /\ ReadOK(d) /\ Keeps(d) /\ before'[d] = before[d] \ {c}
        /\ before'[d] \subseteq Running'
      BY <1>3, <1>5 DEF RInv, ReadOK, ReaderOK
  <2>2. CASE c \in before[d] /\ (refreshed \/ Canonical(call[d]))
    <3>1. due'[d] = due[d] \cup wrote[c]
        BY <1>6, <2>2
    <3>2. pc[d] = "barrier" /\ call[d].action \notin LibraryReads
        BY <2>1, <2>2 DEF ReadOK, ReaderOK
    <3>3. ReaderOK(d)'
        BY <2>1, <3>2 DEF ReadOK, ReaderOK, Keeps
    <3>4. \A w \in due[d] \cup wrote[c] : w \in Writes
        BY <1>1 DEF ShapeOK
    <3>5. \A w \in due[d] \cup wrote[c] : At(docs[w[1]], w)
        BY <1>1, <2>1 DEF ReadOK, DueOK, WriterOK
    <3>6. \A w \in due[d] \cup wrote[c] : At(docs'[w[1]], w)
        BY <1>1, <3>4, <3>5, Later
    <3>7. ~Canonical(call[d]) => \A w \in due[d] \cup wrote[c] :
            At(lexical'[w[1]], w) /\ At(marker'[w[1]], w)
      <4>1. ~Canonical(call[d]) => \A w \in due[d] :
              At(lexical'[w[1]], w) /\ At(marker'[w[1]], w)
          BY <1>1, <2>1, <3>4, Later DEF ReadOK, DueOK
      <4>. QED
          BY <2>2, <4>1
    <3>8. DueOK(d)'
        BY <2>1, <3>1, <3>6, <3>7 DEF DueOK, Keeps, Canonical, Lists
    <3>9. SeenOK(d)'
        BY <2>1, <3>2 DEF SeenOK, Keeps
    <3>10. FoundOK(d)'
        BY <2>1, <3>2 DEF FoundOK, Keeps
    <3>. QED
        BY <3>3, <3>8, <3>9, <3>10 DEF ReadOK
  <2>3. CASE ~(c \in before[d] /\ (refreshed \/ Canonical(call[d])))
    <3>1. due'[d] = due[d]
        BY <1>6, <2>3
    <3>. QED
        BY <1>1, <2>1, <3>1, ReaderFrame
  <2>. QED
      BY <2>2, <2>3
<1>9. ASSUME NEW d \in Mutators, d # c PROVE WriterOK(d)'
  <2>1. d \in Slots /\ WriterOK(d)
      BY DEF Slots, RInv
  <2>2. before[d] = {}
      BY <2>1 DEF WriterOK
  <2>3. Keeps(d) /\ before'[d] = before[d] /\ due'[d] = due[d]
      BY <1>3, <1>6, <1>9, <2>1, <2>2
  <2>. QED
      BY <1>1, <2>1, <2>3, WriterFrame
<1>10. WriterOK(c)'
  <2>1. due'[c] = {}
      BY <1>1, <1>6 DEF WriterOK
  <2>. QED
      BY <1>4, <2>1 DEF WriterOK
<1>. QED
    BY <1>7, <1>8, <1>9, <1>10 DEF RInv

LEMMA RefusedReads ==
    ASSUME RInv, NEW c \in Mutators, Refused(c)
    PROVE  RInv'
<1>1. c \in Slots /\ ShapeOK /\ WriterOK(c)
    BY DEF RInv, Slots
<1>2. pc[c] # "idle" /\ wrote[c] = {} /\ Vacate(c)
    BY <1>1 DEF Refused, WriterOK
<1>3. UNCHANGED due /\ UNCHANGED scopeVars
    BY DEF Refused
<1>4. DocsOK' /\ Grows
    BY <1>3, StillDocs DEF RInv
<1>5. Owe(c, FALSE)
  <2>1. due = [d \in Slots |-> due[d]]
      BY <1>1 DEF ShapeOK
  <2>2. \A d \in Slots : due[d] \cup wrote[c] = due[d]
      BY <1>2
  <2>. QED
      BY <1>3, <2>1, <2>2 DEF Owe
<1>. QED
    BY <1>2, <1>4, <1>5, LeaveWrites

LEMMA RefreshReads ==
    ASSUME RInv, NEW c \in Mutators, Refresh(c)
    PROVE  RInv'
<1>1. c \in Slots /\ ShapeOK /\ WriterOK(c) /\ DocsOK
    BY DEF RInv, Slots
<1>2. /\ pc[c] = "written" /\ Owe(c, TRUE) /\ Vacate(c)
      /\ UNCHANGED <<docs, clock>> /\ locked' = locked \ {at[c]}
    BY DEF Refresh
<1>3. at[c] \in Roots
    BY <1>1 DEF ShapeOK
<1>4. \/ /\ call[c].action = "dream_publish" /\ UNCHANGED <<lexical, marker>>
      \/ /\ lexical' = [lexical EXCEPT ![at[c]] = docs[at[c]]]
         /\ marker' = [marker EXCEPT ![at[c]] = docs[at[c]]]
    BY DEF Refresh
<1>5. locked' \subseteq Roots
    BY <1>1, <1>2 DEF DocsOK
<1>6. DocsOK' /\ Grows
    BY <1>1, <1>2, <1>3, <1>4, <1>5, RefreshDocs
<1>7. \A w \in wrote[c] : At(lexical'[w[1]], w) /\ At(marker'[w[1]], w)
  <2>1. CASE call[c].action = "dream_publish"
      BY <1>1, <2>1 DEF WriterOK
  <2>2. CASE call[c].action # "dream_publish"
    <3>1. lexical'[at[c]] = docs[at[c]] /\ marker'[at[c]] = docs[at[c]]
        BY <1>1, <1>3, <1>4, <2>2 DEF DocsOK
    <3>. QED
        BY <1>1, <3>1 DEF WriterOK
  <2>. QED
      BY <2>1, <2>2
<1>. QED
    BY <1>2, <1>6, <1>7, LeaveWrites

LEMMA RefreshFailsReads ==
    ASSUME RInv, NEW c \in Mutators, RefreshFails(c)
    PROVE  RInv'
<1>1. DocsOK
    BY DEF RInv
<1>2. /\ pc[c] # "idle" /\ Owe(c, FALSE) /\ Vacate(c)
      /\ UNCHANGED <<docs, lexical, marker, clock>>
      /\ locked' = locked \ {at[c]}
    BY DEF RefreshFails
<1>3. locked' \subseteq Roots
    BY <1>1, <1>2 DEF DocsOK
<1>4. DocsOK' /\ Grows
    BY <1>1, <1>2, <1>3, RefreshDocs DEF Roots
<1>. QED
    BY <1>2, <1>4, LeaveWrites

-----------------------------------------------------------------------------
(* Every step.                                                             *)

LEMMA ReceiveReads ==
    ASSUME RInv, NEW c \in Slots, Receive(c)
    PROVE  RInv'
<1>1. PICK meta \in Metas, requested \in Requested :
        \E new \in Execute([context |-> ResolveRequest(meta),
                            granted |-> HostProject(meta)], requested) :
            Accept(c, new)
    BY DEF Receive
<1>. DEFINE h == [context |-> ResolveRequest(meta),
                  granted |-> HostProject(meta)]
<1>2. Host(h)
    BY GatewayAssumption DEF Host, ResolveRequest, HostProject, Metas
<1>3. PICK new \in Execute(h, requested) : Accept(c, new)
    BY <1>1
<1>. HIDE DEF h
<1>4. Fit(new)
    BY <1>2, ExecuteFit
<1>5. pc[c] = "idle" /\ UNCHANGED scopeVars
    BY DEF Receive
<1>. QED
    BY <1>3, <1>4, <1>5, AcceptReads

LEMMA StartRecallReads ==
    ASSUME RInv, NEW c \in Slots, StartRecall(c)
    PROVE  RInv'
<1>1. PICK p \in Hosts \cup {None} :
        \E new \in LibraryCalls(p) : Accept(c, new)
    BY DEF StartRecall
<1>2. PICK new \in LibraryCalls(p) : Accept(c, new)
    BY <1>1
<1>3. Fit(new)
    BY LibraryFit
<1>4. pc[c] = "idle" /\ UNCHANGED scopeVars
    BY DEF StartRecall
<1>. QED
    BY <1>2, <1>3, <1>4, AcceptReads

\* The slots stay as they are while others write, or nobody.
LEMMA OthersReads ==
    ASSUME RInv, UNCHANGED gatewayVars, OthersStep \/ UNCHANGED scopeVars
    PROVE  RInv'
<1>1. DocsOK' /\ Grows
    BY OthersDocs, StillDocs DEF RInv
<1>2. UNCHANGED <<pc, call, at, seen, left, wrote, before, due>>
    BY DEF gatewayVars
<1>3. ShapeOK' /\ Running' = Running
    BY <1>2 DEF RInv, ShapeOK, Running
<1>4. \A c \in Slots : Keeps(c) /\ before'[c] = before[c] /\ due'[c] = due[c]
    BY <1>2 DEF Keeps
<1>5. ASSUME NEW c \in Readers PROVE ReadOK(c)'
  <2>1. ReadOK(c) /\ before'[c] \subseteq Running'
      BY <1>2, <1>3 DEF RInv, ReadOK, ReaderOK
  <2>. QED
      BY <1>1, <1>4, <2>1, ReaderFrame DEF RInv, Slots
<1>6. ASSUME NEW c \in Mutators PROVE WriterOK(c)'
    BY <1>1, <1>4, WriterFrame DEF RInv, Slots
<1>. QED
    BY <1>1, <1>3, <1>5, <1>6 DEF RInv

LEMMA StepReads ==
    ASSUME RInv, [Next]_servingVars
    PROVE  RInv'
<1>1. CASE GatewayStep
  <2>1. CASE \E c \in Slots : Receive(c)
      BY <2>1, ReceiveReads
  <2>2. CASE \E c \in Slots : Locate(c)
      BY <2>2, LocateReads, LocateWrites DEF Slots
  <2>3. CASE \E c \in Readers :
               \/ StartRecall(c) \/ Pass(c) \/ ReadIndex(c) \/ ReadShortlist(c)
               \/ ReadFile(c) \/ ReadMarker(c) \/ ReadDream(c) \/ ReadSource(c)
    <3>1. PICK c \in Readers :
               \/ StartRecall(c) \/ Pass(c) \/ ReadIndex(c) \/ ReadShortlist(c)
               \/ ReadFile(c) \/ ReadMarker(c) \/ ReadDream(c) \/ ReadSource(c)
        BY <2>3
    <3>2. CASE StartRecall(c)
        BY <3>2, StartRecallReads DEF Slots
    <3>3. CASE Pass(c) \/ ReadIndex(c) \/ ReadShortlist(c) \/ ReadFile(c)
        BY <3>3, PassReads, ReadIndexReads, ReadShortlistReads, ReadFileReads
    <3>4. CASE ReadMarker(c) \/ ReadDream(c) \/ ReadSource(c)
        BY <3>4, ReadMarkerReads, ReadDreamReads, ReadSourceReads
    <3>. QED
        BY <3>1, <3>2, <3>3, <3>4
  <2>4. CASE \E c \in Readers : Return(c) \/ CancelRead(c)
      BY <2>4, LeaveReads DEF Return, CancelRead
  <2>5. CASE \E c \in Mutators :
               Write(c) \/ Refresh(c) \/ RefreshFails(c) \/ Refused(c)
      BY <2>5, WriteReads, RefreshReads, RefreshFailsReads, RefusedReads
  <2>. QED
      BY <1>1, <2>1, <2>2, <2>3, <2>4, <2>5 DEF GatewayStep
<1>2. CASE OthersStep /\ UNCHANGED gatewayVars
    BY <1>2, OthersReads
<1>3. CASE UNCHANGED <<gatewayVars, scopeVars>>
    BY <1>3, OthersReads
<1>4. ConsoleStep => UNCHANGED scopeVars
    BY DEF ConsoleStep, ChooseScope, ChooseProject, ChooseSession, Search,
           FilterStatus, NextPage, BackToFirst, Retry, Show, OpenDetail,
           RefreshCatalog, OtherNotes, ServeSession, CountMemories,
           ServeMemories, ServeDetail, Inspect, ServeStatus, ServeCatalog, Lost,
           Reply, Dropped, EndList, EndStatus, EndDetail, EndCatalog
<1>. QED
    BY <1>1, <1>2, <1>3, <1>4 DEF Next, Serve, ServeUi, servingVars

LEMMA InitReads == Init => RInv
<1>. SUFFICES ASSUME Init PROVE RInv
    OBVIOUS
<1>1. /\ pc = [c \in Slots |-> "idle"]
      /\ call = [c \in Slots |-> NoCall]
      /\ at = [c \in Slots |-> GlobalRoot]
      /\ seen = [c \in Slots |-> None]
      /\ left = [c \in Slots |-> {}]
      /\ wrote = [c \in Slots |-> {}]
      /\ before = [c \in Slots |-> {}]
      /\ due = [c \in Slots |-> {}]
    BY DEF Init, GatewayInit
<1>2. NoCall \in Call /\ GlobalRoot \in Roots
    BY DEF NoCall, Call, Roots
<1>3. ShapeOK
    BY <1>1, <1>2 DEF ShapeOK, Places
<1>4. \A c \in Readers : ReadOK(c)
    BY <1>1 DEF ReadOK, ReaderOK, DueOK, SeenOK, FoundOK, NoCall, Slots
<1>5. \A c \in Mutators : WriterOK(c)
    BY <1>1 DEF WriterOK, Slots
<1>6. clock \in 0..MaxClock /\ \A i \in Ids : i <= clock
  <2>1. MaxClock \in 0..MaxClock
      BY ScopesAssumption
  <2>. QED
      BY <2>1, ScopesAssumption DEF Init, ScopesInit
<1>7. /\ docs = [r \in Roots |->
                   [i \in Ids |-> IF i \in InitDocs[r.layout]
                                  THEN Stamped("active", i) ELSE Absent]]
      /\ locked = {} /\ marker = lexical
    BY DEF Init, ScopesInit
<1>8. /\ lexical = [r \in Roots |-> IF InitDocs[r.layout] = {} THEN None
                                    ELSE docs[r]]
    BY DEF Init, ScopesInit
<1>9. \A i \in Ids : /\ Stamped("active", i) \in Doc
                     /\ Stamped("active", i).stamp <= clock
    BY <1>6, RecallAssumption, ScopesAssumption DEF Stamped, Doc, AllStatuses
<1>10. Absent \in Doc /\ Absent.stamp <= clock
    BY <1>6 DEF Absent, Doc
<1>11. /\ \A r \in Roots : docs[r] \in Snapshot
       /\ \A r \in Roots : \A i \in Ids : docs[r][i].stamp <= clock
    BY <1>7, <1>9, <1>10 DEF Snapshot
<1>12. \A r \in Roots : Upto(lexical[r], docs[r])
  <2>1. \A m \in Snapshot : Upto(m, m)
      BY SnapshotFacts DEF Upto, Behind
  <2>. QED
      BY <1>8, <1>11, <2>1 DEF Upto
<1>13. DocsOK
  <2>1. docs \in [Roots -> Snapshot]
      BY <1>7, <1>11
  <2>2. lexical \in [Roots -> Snapshot \cup {None}]
      BY <1>8, <1>11
  <2>. QED
      BY <1>6, <1>7, <1>11, <1>12, <2>1, <2>2 DEF DocsOK
<1>. QED
    BY <1>3, <1>4, <1>5, <1>13 DEF RInv

LEMMA RInvAlways == Spec => []RInv
<1>1. Init => RInv
    BY InitReads
<1>2. RInv /\ [Next]_servingVars => RInv'
    BY StepReads
<1>. QED
    BY <1>1, <1>2, PTL DEF Spec

\* Every read that answers has seen each write that an accepted mutation had
\* made, or was to make, when the read came.
THEOREM ReadsSeeAll == Spec => []ReadsSeeAccepted
<1>1. RInv => ReadsSeeAccepted
    BY DEF RInv, ReadOK, SeenOK, Asked, ReadsSeeAccepted
<1>. QED
    BY <1>1, RInvAlways, PTL

-----------------------------------------------------------------------------
(* What an answer says.  Found says where its documents are; the lists,    *)
(* the pages and the clusters are those of module Recall_proofs.           *)

LEMMA SnapshotKnown ==
    ASSUME NEW m \in Snapshot
    PROVE  Known(m) /\ \A i \in Ids : m[i] = Absent <=> m[i].status = "none"
<1>1. \A d \in Doc : d \in [status : AllStatuses \cup {"none"}, stamp : Nat]
    BY ScopesAssumption DEF Doc, Absent, AllStatuses
<1>2. \A d \in Doc : d = Absent <=> d.status = "none"
    BY DEF Doc, Absent, AllStatuses
<1>. QED
    BY <1>1, <1>2 DEF Known, Snapshot

\* A ranking lists the matches, each once, and they are there.
LEMMA RankingAll ==
    ASSUME NEW m \in Snapshot, NEW blank \in BOOLEAN,
           NEW statuses \in SUBSET AllStatuses
    PROVE  /\ Enumerates(Ranking(m, blank, statuses),
                         {i \in Ids : /\ m[i].status \in statuses
                                      /\ blank \/ Relevance[i] > 0})
           /\ ToSet(Ranking(m, blank, statuses)) \subseteq Present(m)
<1>. DEFINE M == {i \in Ids : /\ m[i].status \in statuses
                              /\ blank \/ Relevance[i] > 0}
<1>1. Known(m) /\ \A i \in Ids : m[i] = Absent <=> m[i].status = "none"
    BY SnapshotKnown
<1>2. Filtered(m, statuses) = {i \in Ids : m[i].status \in statuses}
    BY <1>1 DEF Filtered, Present, AllStatuses
<1>3. CASE blank
  <2>1. Enumerates(Listing(m, statuses), Filtered(m, statuses))
      BY <1>1, IdsFinite, ListingAll
  <2>2. M = Filtered(m, statuses) /\ Ranking(m, blank, statuses) = Listing(m, statuses)
      BY <1>2, <1>3 DEF Ranking
  <2>. QED
      BY <2>1, <2>2 DEF Enumerates, Filtered
<1>4. CASE ~blank
  <2>. DEFINE H == {i \in Filtered(m, statuses) : Relevance[i] > 0}
  <2>1. Enumerates(Hits(m, statuses), H)
      BY <1>1, IdsFinite, HitsAll
  <2>2. M = H /\ Ranking(m, blank, statuses) = Hits(m, statuses)
      BY <1>2, <1>4 DEF Ranking
  <2>3. H \subseteq Present(m)
      BY DEF Filtered
  <2>. QED
      BY <2>1, <2>2, <2>3 DEF Enumerates
<1>. QED
    BY <1>3, <1>4

\* The first page of a list holds members of it.
LEMMA FirstPageInside ==
    ASSUME NEW S \in SUBSET Ids, NEW s, Enumerates(s, S)
    PROVE  ToSet(Page(s, 0)) \subseteq S
<1>1. s \in Seq(S) /\ s \in Seq(Ids)
    BY DEF Enumerates
<1>2. Limit \in Nat \ {0} /\ Len(s) \in Nat
    BY <1>1, RecallAssumption
<1>. DEFINE n == IF 0 + Limit < Len(s) THEN 0 + Limit ELSE Len(s)
<1>3. n \in 0..Len(s) /\ 1 \in Int /\ n \in Int
    BY <1>2
<1>4. Page(s, 0) = SubSeq(s, 1, n)
    BY DEF Page
<1>. HIDE DEF n
<1>5. \A i \in 1..n : s[i] \in S
    BY <1>1, <1>2, <1>3
<1>6. Page(s, 0) \in Seq(S)
    BY <1>3, <1>4, <1>5, SubSeqProperties
<1>. QED
    BY <1>6 DEF ToSet

LEMMA NamedPresent ==
    ASSUME RInv, NEW c \in Readers, pc[c] = "answer", seen[c] \in Snapshot,
           call[c].action \notin {"get", "source"}
    PROVE  Named(c) \subseteq Present(seen[c])
<1>. DEFINE m == seen[c]
<1>1. /\ call[c].blank \in BOOLEAN
      /\ call[c].statuses \in SUBSET AllStatuses
    BY DEF RInv, ShapeOK, Fit, Call, Slots
<1>2. Known(m)
    BY SnapshotKnown
<1>3. \A statuses : Filtered(m, statuses) \subseteq Present(m)
    BY DEF Filtered
<1>4. Present(m) \subseteq Ids /\ Actives(m) \subseteq Present(m)
    BY <1>3 DEF Present, Actives
<1>5. CASE call[c].action \in {"query", "sources"}
  <2>1. Named(c) = ToSet(Ranking(seen[c], call[c].blank, call[c].statuses))
      BY <1>5 DEF Named
  <2>. QED
      BY <1>1, <2>1, RankingAll
<1>6. CASE call[c].action = "shortlist"
  <2>1. Named(c) = ToSet(Hits(m, {"active", "stale"}))
      BY <1>6, SnapshotFacts DEF Named, Shortlist
  <2>2. Enumerates(Hits(m, {"active", "stale"}),
                   {i \in Filtered(m, {"active", "stale"}) : Relevance[i] > 0})
      BY <1>2, IdsFinite, HitsAll
  <2>. QED
      BY <1>3, <2>1, <2>2 DEF Enumerates
<1>7. CASE call[c].action = "find_duplicates"
  <2>. DEFINE S == {j \in Actives(m) : {call[c].id, j} \in Similar}
  <2>1. Named(c) = ToSet(Page(InIdOrder(S), 0))
      BY <1>7 DEF Named, DuplicatesOf
  <2>2. S \in SUBSET Ids /\ IsFiniteSet(S) /\ S \subseteq Present(m)
      BY <1>4, IdsFinite, FS_Subset
  <2>. HIDE DEF S
  <2>3. ToSet(Page(InIdOrder(S), 0)) \subseteq S
      BY <2>2, InIdOrderAll, FirstPageInside
  <2>. QED
      BY <2>1, <2>2, <2>3
<1>8. CASE call[c].action = "scan_blobs"
  <2>1. Named(c) = ToSet(Blobs(m))
      BY <1>8 DEF Named
  <2>2. Enumerates(Blobs(m), {i \in Actives(m) : Sections[i] >= MinSections})
    <3>. HIDE DEF m
    <3>. QED
        BY IdsFinite, BlobsAll
  <2>. QED
      BY <1>4, <2>1, <2>2 DEF Enumerates
<1>9. CASE call[c].action = "scan_duplicates"
  <2>1. Named(c) = UNION Clusters(m)
      BY <1>9 DEF Named
  <2>2. Clusters(m) \in SUBSET (SUBSET Actives(m))
      BY <1>2, IdsFinite, ClustersSound
  <2>. QED
      BY <1>4, <2>1, <2>2
<1>10. CASE call[c].action \notin {"query", "sources", "shortlist",
                                   "find_duplicates", "scan_blobs",
                                   "scan_duplicates"}
  <2>1. Named(c) = {}
      BY <1>10 DEF Named
  <2>. QED
      BY <2>1
<1>. QED
    BY <1>5, <1>6, <1>7, <1>8, <1>9, <1>10

\* What an answer names can be opened where it was found, a caller that follows
\* the cursors to the end has got every match once, and duplicates come in
\* clusters that are apart, no larger than asked for, and miss no similar pair.
THEOREM AnswersSound == Spec => []AnswersAddUp
<1>1. ASSUME RInv, NEW c \in Readers, pc[c] = "answer", seen[c] # None
      PROVE  /\ \A i \in Named(c) : Has(at[c], i)
             /\ call[c].action = "query" =>
                  LET ids == Followed(Ranking(seen[c], call[c].blank,
                                              call[c].statuses))
                  IN  /\ ToSet(ids) = Matches(c)
                      /\ Len(ids) = Cardinality(Matches(c))
             /\ call[c].action = "scan_duplicates" =>
                  LET clusters == Clusters(seen[c])
                  IN  /\ \A A, B \in clusters : A = B \/ A \cap B = {}
                      /\ \A A \in clusters : Cardinality(A) \in 2..MaxMembers
                      /\ \A i, j \in Actives(seen[c]) :
                           i # j /\ {i, j} \in Similar =>
                              {i, j} \cap UNION clusters # {}
  <2>1. /\ Found(c)
        /\ call[c].blank \in BOOLEAN
        /\ call[c].statuses \in SUBSET AllStatuses
      BY <1>1 DEF RInv, ReadOK, FoundOK, ShapeOK, Fit, Call, Slots
  <2>2. call[c].action \notin {"get", "source", "dream_read"} =>
          seen[c] \in Snapshot /\ Opens(c)
      BY <1>1, <2>1 DEF Found
  <2>3. \A i \in Named(c) : Has(at[c], i)
    <3>1. CASE call[c].action \in {"get", "source"}
      <4>1. Named(c) = {call[c].id}
          BY <3>1 DEF Named
      <4>. QED
          BY <1>1, <2>1, <3>1, <4>1 DEF Found
    <3>2. CASE call[c].action = "dream_read"
      <4>1. Named(c) = {}
          BY <3>2 DEF Named
      <4>. QED
          BY <4>1
    <3>3. CASE call[c].action \notin {"get", "source", "dream_read"}
      <4>1. Named(c) \subseteq Present(seen[c])
          BY <1>1, <2>2, <3>3, NamedPresent
      <4>. QED
          BY <2>2, <3>3, <4>1 DEF Opens, Present
    <3>. QED
        BY <3>1, <3>2, <3>3
  <2>4. ASSUME call[c].action = "query"
        PROVE  LET ids == Followed(Ranking(seen[c], call[c].blank,
                                           call[c].statuses))
               IN  /\ ToSet(ids) = Matches(c)
                   /\ Len(ids) = Cardinality(Matches(c))
    <3>. DEFINE ids == Ranking(seen[c], call[c].blank, call[c].statuses)
    <3>1. Enumerates(ids, Matches(c))
        BY <2>1, <2>2, <2>4, RankingAll DEF Matches
    <3>2. Matches(c) \in SUBSET Ids
        BY DEF Matches
    <3>. HIDE DEF ids
    <3>3. /\ ids \in Seq(Ids) /\ ToSet(ids) = Matches(c)
          /\ Len(ids) = Cardinality(Matches(c))
        BY <3>1, <3>2 DEF Enumerates
    <3>4. Len(ids) <= Cardinality(Ids)
        BY <3>2, <3>3, IdsFinite, FS_Subset
    <3>5. Followed(ids) = ids
        BY <3>3, <3>4, IdsFinite, FollowedAll
    <3>. QED
        BY <3>3, <3>5 DEF ids
  <2>5. ASSUME call[c].action = "scan_duplicates"
        PROVE  LET clusters == Clusters(seen[c])
               IN  /\ \A A, B \in clusters : A = B \/ A \cap B = {}
                   /\ \A A \in clusters : Cardinality(A) \in 2..MaxMembers
                   /\ \A i, j \in Actives(seen[c]) :
                        i # j /\ {i, j} \in Similar =>
                           {i, j} \cap UNION clusters # {}
    <3>1. Known(seen[c])
        BY <2>2, <2>5, SnapshotKnown
    <3>. QED
        BY <3>1, IdsFinite, ClustersSound
  <2>. QED
      BY <2>3, <2>4, <2>5
<1>2. RInv => AnswersAddUp
    BY <1>1 DEF AnswersAddUp
<1>. QED
    BY <1>2, RInvAlways, PTL

-----------------------------------------------------------------------------
(* Types, of the two sides of the process.                                 *)

\* Every state of the process has its type: the scopes and the calls by what
\* the reads rely on, the console by what its page relies on.
THEOREM ServingTyped == Spec => []TypeOK
<1>1. RInv => ScopesTypeOK
    BY DEF RInv, DocsOK, ScopesTypeOK
<1>2. RInv => GatewayTypeOK
  <2>. SUFFICES ASSUME RInv PROVE GatewayTypeOK
      OBVIOUS
  <2>1. \A c \in Slots : call[c].action \in Actions \cup {"none"}
      BY DEF RInv, ShapeOK, Call
  <2>2. pc \in [Slots -> Places]
      BY DEF RInv, ShapeOK
  <2>3. \A c \in Slots :
          /\ at[c] \in Roots
          /\ left[c] \in SUBSET Ids
          /\ wrote[c] \in SUBSET Writes
          /\ before[c] \in SUBSET Mutators
          /\ due[c] \in SUBSET Writes
      BY DEF RInv, ShapeOK
  <2>. QED
      BY <2>1, <2>2, <2>3 DEF Writes, GatewayTypeOK
<1>3. CInv => ConsoleTypeOK
  <2>. SUFFICES ASSUME CInv PROVE ConsoleTypeOK
      OBVIOUS
  <2>1. /\ view.scope \in {"global", "project", "session"}
        /\ view.project \in Projects \cup {None}
        /\ view.session \in Sessions \cup {None}
        /\ view.cursor \in Nat
      BY DEF CInv, View
  <2>2. \A r \in net :
          /\ r.kind \in ViewKinds \cup {"catalog"}
          /\ r.place \in {"sent", "counted", "answered", "failed"}
          /\ r.current \in BOOLEAN
      BY DEF CInv, NetOK, RequestOK
  <2>. QED
      BY <2>1, <2>2 DEF CInv, NotesOK, ListOK, DetailOK, ConsoleTypeOK
<1>4. Init => command \in Commands
    BY DEF Init
<1>5. command \in Commands /\ [Next]_servingVars => (command \in Commands)'
    BY DEF Next, Serve, ServeUi, servingVars
<1>6. Spec => [](command \in Commands)
    BY <1>4, <1>5, PTL DEF Spec
<1>7. RInv /\ CInv /\ command \in Commands => TypeOK
    BY <1>1, <1>2, <1>3 DEF TypeOK
<1>. QED
    BY <1>6, <1>7, RInvAlways, CInvAlways, PTL

-----------------------------------------------------------------------------
(* Calls wait at the barrier that InFlight implements.                     *)

\* What the barrier sees of a step of one slot.
LEMMA SeenByBarrier ==
    ASSUME NEW c \in Slots,
           \A d \in Slots \ {c} : pc'[d] = pc[d] /\ call'[d] = call[d]
    PROVE  /\ \A m \in Mutators \ {c} : m \in Running' <=> m \in Running
           /\ \A d \in Readers \ {c} :
                /\ d \in Served({"barrier"})' <=> d \in Served({"barrier"})
                /\ d \in Served({"reading", "dream", "answer"})' <=>
                     d \in Served({"reading", "dream", "answer"})
    BY DEF Running, Served, Slots

LEMMA OneSlotOnly ==
    ASSUME ShapeOK, NEW c \in Slots, NEW place, NEW k,
           pc' = [pc EXCEPT ![c] = place], call' = [call EXCEPT ![c] = k]
    PROVE  /\ pc'[c] = place /\ call'[c] = k
           /\ \A d \in Slots \ {c} : pc'[d] = pc[d] /\ call'[d] = call[d]
    BY DEF ShapeOK

LEMMA AcceptBarrier ==
    ASSUME RInv, NEW c \in Slots, pc[c] = "idle", NEW new, Accept(c, new)
    PROVE  [Abstract!Next]_(Abstract!Barrier)
<1>. DEFINE waiting == Served({"barrier"})
            passed == Served({"reading", "dream", "answer"})
<1>1. ShapeOK /\ Readers \cap Mutators = {}
    BY GatewayAssumption DEF RInv
<1>2. PICK place \in {"barrier", "reading", "locate", "located"} :
        /\ pc' = [pc EXCEPT ![c] = place]
        /\ c \in Readers /\ new.action \notin LibraryReads => place = "barrier"
    BY DEF Accept, Goto
<1>3. call' = [call EXCEPT ![c] = new]
    BY DEF Accept
<1>4. /\ pc'[c] = place /\ call'[c] = new
      /\ \A d \in Slots \ {c} : pc'[d] = pc[d] /\ call'[d] = call[d]
    BY <1>1, <1>2, <1>3, OneSlotOnly
<1>5. /\ \A m \in Mutators \ {c} : m \in Running' <=> m \in Running
      /\ \A d \in Readers \ {c} :
           /\ d \in waiting' <=> d \in waiting
           /\ d \in passed' <=> d \in passed
    BY <1>4, SeenByBarrier
<1>6. CASE c \in Mutators
  <2>1. Running' = Running \cup {c} /\ c \notin Running
      BY <1>1, <1>4, <1>5, <1>6 DEF Running
  <2>2. waiting' = waiting /\ passed' = passed
      BY <1>1, <1>5, <1>6 DEF Served
  <2>3. Abstract!Begin(c)
      BY <2>1, <2>2 DEF Abstract!Begin
  <2>. QED
      BY <1>6, <2>3 DEF Abstract!Next
<1>7. CASE c \in Readers
  <2>1. Running' = Running
      BY <1>1, <1>5, <1>7 DEF Running
  <2>2. c \notin waiting /\ c \notin passed
      BY DEF Served
  <2>3. CASE new.action \in LibraryReads
    <3>1. c \notin waiting' /\ c \notin passed'
        BY <1>4, <2>3 DEF Served
    <3>2. waiting' = waiting /\ passed' = passed
        BY <1>5, <2>2, <3>1 DEF Served
    <3>. QED
        BY <2>1, <3>2 DEF Abstract!Barrier
  <2>4. CASE new.action \notin LibraryReads
    <3>1. c \in waiting' /\ c \notin passed'
        BY <1>2, <1>4, <1>7, <2>4 DEF Served
    <3>2. waiting' = waiting \cup {c} /\ passed' = passed
        BY <1>5, <2>2, <3>1 DEF Served
    <3>3. Abstract!Arrive(c)
        BY <2>1, <2>2, <3>2 DEF Abstract!Arrive
    <3>. QED
        BY <1>7, <3>3 DEF Abstract!Next
  <2>. QED
      BY <2>3, <2>4
<1>. QED
    BY <1>6, <1>7 DEF Slots

LEMMA VacateBarrier ==
    ASSUME RInv, NEW c \in Slots, pc[c] # "idle", Vacate(c)
    PROVE  [Abstract!Next]_(Abstract!Barrier)
<1>. DEFINE waiting == Served({"barrier"})
            passed == Served({"reading", "dream", "answer"})
<1>1. ShapeOK /\ Readers \cap Mutators = {}
    BY GatewayAssumption DEF RInv
<1>2. pc' = [pc EXCEPT ![c] = "idle"] /\ call' = [call EXCEPT ![c] = NoCall]
    BY DEF Vacate
<1>3. /\ pc'[c] = "idle"
      /\ \A d \in Slots \ {c} : pc'[d] = pc[d] /\ call'[d] = call[d]
    BY <1>1, <1>2, OneSlotOnly
<1>4. /\ \A m \in Mutators \ {c} : m \in Running' <=> m \in Running
      /\ \A d \in Readers \ {c} :
           /\ d \in waiting' <=> d \in waiting
           /\ d \in passed' <=> d \in passed
    BY <1>3, SeenByBarrier
<1>5. CASE c \in Mutators
  <2>1. Running' = Running \ {c} /\ c \in Running
      BY <1>3, <1>4, <1>5 DEF Running
  <2>2. waiting' = waiting /\ passed' = passed
      BY <1>1, <1>4, <1>5 DEF Served
  <2>3. Abstract!Settle(c)
      BY <2>1, <2>2 DEF Abstract!Settle
  <2>. QED
      BY <1>5, <2>3 DEF Abstract!Next
<1>6. CASE c \in Readers
  <2>1. Running' = Running
      BY <1>1, <1>4, <1>6 DEF Running
  <2>2. c \notin waiting' /\ c \notin passed'
      BY <1>3 DEF Served
  <2>3. waiting' = waiting \ {c} /\ passed' = passed \ {c}
      BY <1>4, <2>2 DEF Served
  <2>4. CASE c \in waiting \cup passed
    <3>1. Abstract!Leave(c)
        BY <2>1, <2>3, <2>4 DEF Abstract!Leave
    <3>. QED
        BY <1>6, <3>1 DEF Abstract!Next
  <2>5. CASE c \notin waiting \cup passed
    <3>1. waiting' = waiting /\ passed' = passed
        BY <2>3, <2>5
    <3>. QED
        BY <2>1, <3>1 DEF Abstract!Barrier
  <2>. QED
      BY <2>4, <2>5
<1>. QED
    BY <1>5, <1>6 DEF Slots

LEMMA PassBarrier ==
    ASSUME RInv, NEW c \in Readers, Pass(c)
    PROVE  [Abstract!Next]_(Abstract!Barrier)
<1>. DEFINE waiting == Served({"barrier"})
            passed == Served({"reading", "dream", "answer"})
<1>1. ShapeOK /\ Readers \cap Mutators = {} /\ c \in Slots
    BY GatewayAssumption DEF RInv, Slots
<1>2. /\ pc[c] = "barrier" /\ Running = {}
      /\ pc' = [pc EXCEPT ![c] = "reading"] /\ call' = call
    BY DEF Pass, Goto
<1>3. /\ pc'[c] = "reading"
      /\ \A d \in Slots \ {c} : pc'[d] = pc[d] /\ call'[d] = call[d]
    BY <1>1, <1>2 DEF ShapeOK
<1>4. /\ \A m \in Mutators \ {c} : m \in Running' <=> m \in Running
      /\ \A d \in Readers \ {c} :
           /\ d \in waiting' <=> d \in waiting
           /\ d \in passed' <=> d \in passed
    BY <1>1, <1>3, SeenByBarrier
<1>5. Running' = Running
    BY <1>1, <1>4 DEF Running
<1>6. CASE call[c].action \in LibraryReads
  <2>1. c \notin waiting /\ c \notin passed /\ c \notin waiting' /\ c \notin passed'
      BY <1>2, <1>6 DEF Served
  <2>2. waiting' = waiting /\ passed' = passed
      BY <1>4, <2>1 DEF Served
  <2>. QED
      BY <1>5, <2>2 DEF Abstract!Barrier
<1>7. CASE call[c].action \notin LibraryReads
  <2>1. /\ c \in waiting /\ c \notin passed
        /\ c \notin waiting' /\ c \in passed'
      BY <1>2, <1>3, <1>7 DEF Served
  <2>2. waiting' = waiting \ {c} /\ passed' = passed \cup {c}
      BY <1>4, <2>1 DEF Served
  <2>3. Abstract!Pass(c)
      BY <1>2, <1>5, <2>1, <2>2 DEF Abstract!Pass
  <2>. QED
      BY <2>3 DEF Abstract!Next
<1>. QED
    BY <1>6, <1>7

\* The other steps of a call leave it on its side of the barrier.
LEMMA MoveBarrier ==
    ASSUME RInv, NEW c \in Slots, UNCHANGED call,
           NEW place, pc' = [pc EXCEPT ![c] = place],
           \/ /\ c \in Readers
              /\ {pc[c], place} \subseteq {"reading", "dream", "answer"}
           \/ c \in Mutators /\ pc[c] # "idle" /\ place # "idle"
    PROVE  UNCHANGED Abstract!Barrier
<1>. DEFINE waiting == Served({"barrier"})
            passed == Served({"reading", "dream", "answer"})
<1>1. ShapeOK /\ Readers \cap Mutators = {}
    BY GatewayAssumption DEF RInv
<1>2. /\ pc'[c] = place
      /\ \A d \in Slots \ {c} : pc'[d] = pc[d] /\ call'[d] = call[d]
    BY <1>1 DEF ShapeOK
<1>3. /\ \A m \in Mutators \ {c} : m \in Running' <=> m \in Running
      /\ \A d \in Readers \ {c} :
           /\ d \in waiting' <=> d \in waiting
           /\ d \in passed' <=> d \in passed
    BY <1>2, SeenByBarrier
<1>4. Running' = Running
    BY <1>1, <1>2, <1>3 DEF Running
<1>5. waiting' = waiting
    BY <1>1, <1>2, <1>3 DEF Served
<1>6. passed' = passed
    BY <1>1, <1>2, <1>3 DEF Served
<1>. QED
    BY <1>4, <1>5, <1>6 DEF Abstract!Barrier

LEMMA ReadBarrierStep ==
    ASSUME RInv, NEW c \in Readers,
           \/ ReadIndex(c) \/ ReadShortlist(c) \/ ReadFile(c) \/ ReadMarker(c)
           \/ ReadDream(c) \/ ReadSource(c)
    PROVE  UNCHANGED Abstract!Barrier
<1>1. CASE UNCHANGED <<pc, call>>
    BY <1>1 DEF Abstract!Barrier, Running, Served
<1>2. CASE \E place \in {"reading", "dream", "answer"} :
             /\ pc' = [pc EXCEPT ![c] = place] /\ UNCHANGED call
             /\ pc[c] \in {"reading", "dream"}
    BY <1>2, MoveBarrier DEF Slots
<1>. QED
    BY <1>1, <1>2 DEF ReadIndex, ReadShortlist, ReadFile, ReadMarker, ReadDream,
       ReadSource, Answer, Goto

LEMMA LocateBarrier ==
    ASSUME RInv, NEW c \in Slots, Locate(c)
    PROVE  UNCHANGED Abstract!Barrier
<1>1. CASE UNCHANGED <<pc, call>>
    BY <1>1 DEF Abstract!Barrier, Running, Served
<1>2. CASE c \in Readers /\ Goto(c, "answer")
  <2>1. pc[c] = "reading"
      BY <1>2 DEF Locate, RInv, ReadOK, ReaderOK
  <2>. QED
      BY <1>2, <2>1, MoveBarrier DEF Locate, Goto
<1>3. CASE c \notin Readers /\ \E place \in {"located", "failed"} : Goto(c, place)
  <2>1. pc[c] # "idle" /\ c \in Mutators /\ UNCHANGED call
      BY <1>3 DEF Locate, Slots
  <2>2. PICK place \in {"located", "failed"} : pc' = [pc EXCEPT ![c] = place]
      BY <1>3 DEF Goto
  <2>. QED
      BY <2>1, <2>2, MoveBarrier
<1>. QED
    BY <1>1, <1>2, <1>3 DEF Locate

LEMMA BarrierSimulation ==
    RInv /\ [Next]_servingVars => [Abstract!Next]_(Abstract!Barrier)
<1>. SUFFICES ASSUME RInv, [Next]_servingVars
              PROVE  [Abstract!Next]_(Abstract!Barrier)
    OBVIOUS
<1>1. ASSUME NEW c \in Slots, Receive(c) \/ StartRecall(c)
      PROVE  [Abstract!Next]_(Abstract!Barrier)
  <2>1. pc[c] = "idle" /\ \E new : Accept(c, new)
      BY <1>1 DEF Receive, StartRecall
  <2>. QED
      BY <2>1, AcceptBarrier
<1>2. ASSUME NEW c \in Slots,
             Return(c) \/ CancelRead(c) \/ Refresh(c) \/ RefreshFails(c) \/ Refused(c)
      PROVE  [Abstract!Next]_(Abstract!Barrier)
  <2>1. pc[c] # "idle" /\ Vacate(c)
      BY <1>2 DEF Return, CancelRead, Refresh, RefreshFails, Refused
  <2>. QED
      BY <2>1, VacateBarrier
<1>3. ASSUME NEW c \in Mutators, Write(c)
      PROVE  [Abstract!Next]_(Abstract!Barrier)
  <2>1. /\ pc[c] = "located" /\ pc' = [pc EXCEPT ![c] = "written"]
        /\ UNCHANGED call
      BY <1>3 DEF Write, Goto
  <2>. QED
      BY <2>1, MoveBarrier DEF Slots
<1>4. CASE GatewayStep
    BY <1>1, <1>2, <1>3, <1>4, PassBarrier, ReadBarrierStep, LocateBarrier
       DEF GatewayStep, Slots
<1>5. CASE UNCHANGED gatewayVars
    BY <1>5 DEF gatewayVars, Abstract!Barrier, Running, Served
<1>. QED
    BY <1>4, <1>5 DEF Next, Serve, ServeUi, servingVars

\* execute_with_context: of a server with any number of calls the reads wait for
\* the mutations exactly as ReadBarrier says, which InFlight implements.
THEOREM CallsWait == Spec => ImplementsReadBarrier
<1>1. Init => Abstract!Init
    BY DEF Init, GatewayInit, Abstract!Init, Running, Served, Slots
<1>. QED
    BY <1>1, BarrierSimulation, RInvAlways, PTL
       DEF Spec, ImplementsReadBarrier, Abstract!Spec
=============================================================================
