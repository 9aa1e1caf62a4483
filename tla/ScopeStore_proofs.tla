-------------------------- MODULE ScopeStore_proofs --------------------------
(***************************************************************************)
(* Proofs about ScopeStore, for any number of processes, tasks, documents  *)
(* and operations.  The argument: the OS lock keeps writers apart, so what *)
(* a writer read under its lock stays what is on disk; therefore each      *)
(* write is one edit of the current version, each refresh shows the        *)
(* current documents, and a marker that names the current documents was    *)
(* written after everything else.                                          *)
(***************************************************************************)
EXTENDS ScopeStore, FiniteSetTheorems, TLAPS

(* Facts about the operators that make new versions of a document.         *)

\* A rewrite that keeps what the old version says is a document and an edit.
LEMMA RewriteFacts ==
  ASSUME NEW doc \in Doc, NEW status \in Statuses \cup {"none"},
         NEW body \in SUBSET Facts,
         NEW supersedes \in SUBSET Ids, NEW contradictedBy \in SUBSET Ids
  PROVE  LET new == Rewrite(doc, status, body, supersedes, contradictedBy)
         IN  /\ new \in Doc
             /\ doc.body \subseteq body /\ doc.supersedes \subseteq supersedes
                /\ doc.contradictedBy \subseteq contradictedBy
                => Extends(new, doc)
  BY DEF Rewrite, Doc, Extends

\* The absent document is a document.
LEMMA NoDocIsDoc == NoDoc \in Doc /\ NoDocs \in DocMap
  BY DEF NoDoc, Doc, NoDocs, DocMap

\* A created document is the first version of a file that was absent.
LEMMA CreatedFacts ==
  ASSUME NEW facts \in SUBSET Facts, NEW old \in SUBSET Ids
  PROVE  /\ Created(facts, old) \in Doc
         /\ Created(facts, old).rev = 1
         /\ Extends(Created(facts, old), NoDoc)
  BY DEF Created, Rewrite, Doc, NoDoc, Extends, Statuses

\* Changing a status is an edit, or changes nothing.
LEMMA RestatusFacts ==
  ASSUME NEW doc \in Doc, NEW status \in Statuses
  PROVE  /\ Restatus(doc, status) \in Doc
         /\ Restatus(doc, status) # doc => Extends(Restatus(doc, status), doc)
  BY DEF Restatus, Rewrite, Doc, Extends

\* Appending is an edit, also when it records superseded memories.
LEMMA AppendFacts ==
  ASSUME NEW doc \in Doc, NEW fact \in Facts, NEW old \in SUBSET Ids
  PROVE  /\ Append(doc, fact, old) \in Doc
         /\ Extends(Append(doc, fact, old), doc)
  BY DEF Append, Rewrite, Doc, Extends

-----------------------------------------------------------------------------

\* The store starts in the invariant.
LEMMA InitInv == Init => Inv
<1> SUFFICES ASSUME Init PROVE Inv
  OBVIOUS
<1>1. docs \in DocMap /\ AbsentIsEmpty
  <2>1. \A i \in Ids : docs[i] \in {NoDoc, Created({}, {})}
    BY DEF Init
  <2>2. Created({}, {}) \in Doc /\ Created({}, {}).rev = 1
    BY CreatedFacts
  <2>3. DOMAIN docs = Ids /\ docs = [i \in Ids |-> docs[i]]
    BY DEF Init
  <2>4. QED
    BY <2>1, <2>2, <2>3, NoDocIsDoc DEF DocMap, AbsentIsEmpty
<1>2. TypeOK
  <2>1. Idle \in [kind : AllKinds \cup {"idle"}, ids : SUBSET Ids]
    BY DEF Idle
  <2>2. artifacts \in [Artifacts -> DocMap \cup {None}]
    BY <1>1 DEF Init
  <2>3. /\ mutex \in [Procs -> Tasks \cup {None}]
        /\ oslock \in Tasks \cup {None}
        /\ dream \in DocMap \cup {None}
    BY DEF Init
  <2>4. pc \in [Tasks -> Places] /\ ops \in 0..MaxOps
    BY ScopeAssumption DEF Init, Places
  <2>5. /\ job \in [Tasks -> [kind : AllKinds \cup {"idle"}, ids : SUBSET Ids]]
        /\ snap \in [Tasks -> DocMap] /\ work \in [Tasks -> DocMap]
        /\ lead \in [Tasks -> SUBSET Ids] /\ follow \in [Tasks -> SUBSET Ids]
        /\ next \in [Tasks -> 1..3]
    BY <2>1, NoDocIsDoc DEF Init
  <2>6. QED
    BY <1>1, <2>2, <2>3, <2>4, <2>5 DEF TypeOK
<1>3. GuardsOwned /\ WorkIsCurrent /\ RefreshIsCurrent
  BY DEF Init, GuardsOwned, WorkIsCurrent, RefreshIsCurrent, Critical
<1>4. DerivedNotAhead /\ MarkerVouchesForIndexes
  <2>1. \A i \in Ids : docs[i].rev \in Nat
    BY <1>1 DEF DocMap, Doc
  <2>2. docs # None
    BY <1>1, NoneAssumption
  <2>3. \/ \A a \in Artifacts : artifacts[a] = docs
        \/ \A a \in Artifacts : artifacts[a] = None
    BY DEF Init
  <2>4. QED
    BY <2>1, <2>2, <2>3 DEF DerivedNotAhead, MarkerVouchesForIndexes, Artifacts
<1>5. QED
  BY <1>1, <1>2, <1>3, <1>4 DEF Inv

\* A step that leaves the files, the locks and the plans of writers alone and
\* moves one task between places keeps the invariant, if it earns its new place.
LEMMA MoveInv ==
  ASSUME Inv, NEW t \in Tasks, NEW place \in Places,
         Goto(t, place), UNCHANGED <<disk, local>>, ops' \in 0..MaxOps,
         mutex' \in [Procs -> Tasks \cup {None}],
         oslock' \in Tasks \cup {None},
         \A u \in Tasks \ {t} : pc[u] \in Critical => oslock' = u,
         \A u \in Tasks \ {t} :
            pc[u] \in Critical \cup {"os", "unlock"} => mutex'[ProcOf[u]] = u,
         place \in Critical => oslock' = t,
         place \in Critical \cup {"os", "unlock"} => mutex'[ProcOf[t]] = t,
         place \notin {"write", "rename", "refreshed"},
         place = "dream" => snap[t] = docs
  PROVE  Inv'
<1> USE DEF Goto, disk, local, Inv
<1>1. TypeOK'
  BY DEF TypeOK
<1>2. GuardsOwned'
  BY DEF GuardsOwned, TypeOK
<1>3. AbsentIsEmpty'
  BY DEF AbsentIsEmpty
<1>4. WorkIsCurrent'
  BY DEF WorkIsCurrent, TypeOK
<1>5. RefreshIsCurrent'
  BY DEF RefreshIsCurrent, TypeOK
<1>6. DerivedNotAhead' /\ MarkerVouchesForIndexes'
  BY DEF DerivedNotAhead, MarkerVouchesForIndexes
<1>7. QED
  BY <1>1, <1>2, <1>3, <1>4, <1>5, <1>6

\* Planning edits of the current documents, under the lock, keeps the invariant.
LEMMA EditInv ==
  ASSUME Inv, NEW t \in Tasks, pc[t] = "locked",
         NEW first \in SUBSET Ids, NEW then \in SUBSET Ids,
         NEW w \in DocMap,
         \A i \in first : Extends(w[i], docs[i]),
         \A i \in then : w[i] # docs[i] => Extends(w[i], docs[i]),
         Edit(t, first, then, w)
  PROVE  Inv'
<1> USE DEF Edit, Goto, disk, locks, Inv, Reread
<1>1. TypeOK'
  BY DEF TypeOK, Places, Critical
<1>2. GuardsOwned'
  BY DEF GuardsOwned, TypeOK, Critical
<1>3. AbsentIsEmpty'
  BY DEF AbsentIsEmpty
<1>4. WorkIsCurrent'
  <2> SUFFICES ASSUME NEW u \in Tasks, pc'[u] = "write",
                      NEW i \in lead'[u] \cup follow'[u]
               PROVE  Extends(work'[u][i], docs'[i])
    BY DEF WorkIsCurrent
  <2>1. CASE u = t
    <3>1. work'[t] = w /\ lead'[t] = first
      BY DEF TypeOK
    <3>2. follow'[t] = {j \in then : w[j] # docs[j]}
      BY DEF TypeOK
    <3>3. QED
      BY <2>1, <3>1, <3>2 DEF Extends
  <2>2. CASE u # t
    <3>1. pc[u] = "write" /\ i \in lead[u] \cup follow[u]
      BY <2>2 DEF TypeOK
    <3>2. work'[u] = work[u] /\ docs' = docs
      BY <2>2 DEF TypeOK
    <3>3. QED
      BY <3>1, <3>2 DEF WorkIsCurrent, Extends
  <2>3. QED
    BY <2>1, <2>2
<1>5. RefreshIsCurrent'
  BY DEF RefreshIsCurrent, TypeOK
<1>6. DerivedNotAhead' /\ MarkerVouchesForIndexes'
  BY DEF DerivedNotAhead, MarkerVouchesForIndexes
<1>7. QED
  BY <1>1, <1>2, <1>3, <1>4, <1>5, <1>6

\* Returning early or after an error only gives the lock back.
LEMMA LeaveInv ==
  ASSUME Inv, NEW t \in Tasks, pc[t] \in Critical, Leave(t)
  PROVE  Inv'
<1>1. ops' \in 0..MaxOps /\ mutex' \in [Procs -> Tasks \cup {None}]
      /\ oslock' \in Tasks \cup {None}
  BY DEF Leave, Inv, TypeOK, locks
<1>2. \A u \in Tasks :
        /\ pc[u] \in Critical => oslock' = u
        /\ pc[u] \in Critical \cup {"os", "unlock"} => mutex'[ProcOf[u]] = u
  BY DEF Leave, Inv, GuardsOwned, locks
<1>3. "leave" \in Places
  BY DEF Places, Critical
<1>4. Goto(t, "leave") /\ UNCHANGED <<disk, local>>
  BY DEF Leave
<1>5. QED
  BY <1>1, <1>2, <1>3, <1>4, MoveInv DEF Critical

\* Restating the status of some documents is planning edits.
LEMMA RestatusAllInv ==
  ASSUME Inv, NEW t \in Tasks, pc[t] = "locked",
         NEW S \in SUBSET Ids, NEW status \in Statuses,
         RestatusAll(t, S, status)
  PROVE  Inv'
<1> DEFINE w == [i \in Ids |-> IF i \in S THEN Restatus(docs[i], status)
                               ELSE docs[i]]
<1>1. \A i \in Ids : docs[i] \in Doc
  BY DEF Inv, TypeOK, DocMap
<1>2. \A i \in Ids :
        /\ Restatus(docs[i], status) \in Doc
        /\ Restatus(docs[i], status) # docs[i]
           => Extends(Restatus(docs[i], status), docs[i])
  BY <1>1, RestatusFacts
<1>3. w \in DocMap /\ \A i \in S : w[i] # docs[i] => Extends(w[i], docs[i])
  BY <1>1, <1>2 DEF DocMap
<1>4. Edit(t, {}, S, w)
  BY DEF RestatusAll, Reread
<1> HIDE DEF w
<1>5. QED
  BY <1>3, <1>4, EditInv

\* Creating successors of a task's targets is planning edits.
LEMMA SupersedeInv ==
  ASSUME Inv, NEW t \in Tasks, pc[t] = "locked",
         NEW new \in SUBSET Free(docs), NEW facts \in SUBSET Facts,
         Supersede(t, new, facts)
  PROVE  Inv'
<1> DEFINE w == [i \in Ids |->
                   IF i \in new THEN Created(facts, job[t].ids)
                   ELSE IF i \in job[t].ids THEN Restatus(docs[i], "superseded")
                   ELSE docs[i]]
<1>1. \A i \in Ids : docs[i] \in Doc
  BY DEF Inv, TypeOK, DocMap
<1>2. job[t].ids \in SUBSET Ids
  BY DEF Inv, TypeOK
<1>3. \A i \in Ids :
        /\ Restatus(docs[i], "superseded") \in Doc
        /\ Restatus(docs[i], "superseded") # docs[i]
           => Extends(Restatus(docs[i], "superseded"), docs[i])
  BY <1>1, RestatusFacts DEF Statuses
<1>4. /\ Created(facts, job[t].ids) \in Doc
      /\ Extends(Created(facts, job[t].ids), NoDoc)
  BY <1>2, CreatedFacts
<1>5. \A i \in new : i \in Ids /\ docs[i] = NoDoc
  BY <1>1 DEF Free, Present, Exists, Inv, AbsentIsEmpty, Doc
<1>6. w \in DocMap
  BY <1>1, <1>3, <1>4 DEF DocMap
<1>7. \A i \in new : w[i] = Created(facts, job[t].ids) /\ Extends(w[i], docs[i])
  BY <1>4, <1>5
<1>8. \A i \in job[t].ids : w[i] # docs[i] => Extends(w[i], docs[i])
  BY <1>2, <1>3, <1>7
<1>9. new \in SUBSET Ids
  BY <1>5
<1>10. Edit(t, new, job[t].ids, w)
  BY DEF Supersede, Reread
<1> HIDE DEF w
<1>11. QED
  BY <1>2, <1>6, <1>7, <1>8, <1>9, <1>10, EditInv

\* A step of a task that holds no lock yet, and changes only its own call.
LEMMA OutsideInv ==
  ASSUME Inv, NEW t \in Tasks, NEW place \in {"idle", "resolve", "local"},
         Goto(t, place), UNCHANGED <<disk, locks, work, lead, follow, next>>,
         ops' \in 0..MaxOps,
         job' \in [Tasks -> [kind : AllKinds \cup {"idle"}, ids : SUBSET Ids]],
         snap' \in [Tasks -> DocMap],
         \A u \in Tasks \ {t} : snap'[u] = snap[u]
  PROVE  Inv'
<1> USE DEF Goto, disk, locks, Inv
<1>1. TypeOK'
  BY DEF TypeOK, Places
<1>2. GuardsOwned'
  BY DEF GuardsOwned, TypeOK, Critical
<1>3. AbsentIsEmpty'
  BY DEF AbsentIsEmpty
<1>4. WorkIsCurrent'
  BY DEF WorkIsCurrent, TypeOK
<1>5. RefreshIsCurrent'
  BY DEF RefreshIsCurrent, TypeOK
<1>6. DerivedNotAhead' /\ MarkerVouchesForIndexes'
  BY DEF DerivedNotAhead, MarkerVouchesForIndexes
<1>7. QED
  BY <1>1, <1>2, <1>3, <1>4, <1>5, <1>6

\* Tasks that end, or die with their process, take nothing from the others.
LEMMA ForgetInv ==
  ASSUME Inv, NEW T \in SUBSET Tasks, Forget(T), UNCHANGED <<disk, ops>>,
         mutex' \in [Procs -> Tasks \cup {None}],
         oslock' \in Tasks \cup {None},
         \A u \in Tasks \ T :
            /\ pc[u] \in Critical => oslock' = u
            /\ pc[u] \in Critical \cup {"os", "unlock"} => mutex'[ProcOf[u]] = u
  PROVE  Inv'
<1> USE DEF Forget, disk, Inv
<1>1. \A u \in T : pc'[u] = "idle"
  BY DEF TypeOK
<1>2. \A u \in Tasks \ T :
        /\ pc'[u] = pc[u] /\ snap'[u] = snap[u] /\ work'[u] = work[u]
        /\ lead'[u] = lead[u] /\ follow'[u] = follow[u] /\ next'[u] = next[u]
  BY DEF TypeOK
<1>3. TypeOK'
  <2>1. Idle \in [kind : AllKinds \cup {"idle"}, ids : SUBSET Ids]
    BY DEF Idle
  <2>2. pc' \in [Tasks -> Places] /\ next' \in [Tasks -> 1..3]
    BY DEF TypeOK, Places
  <2>3. job' \in [Tasks -> [kind : AllKinds \cup {"idle"}, ids : SUBSET Ids]]
    BY <2>1 DEF TypeOK
  <2>4. snap' \in [Tasks -> DocMap] /\ work' \in [Tasks -> DocMap]
    BY NoDocIsDoc DEF TypeOK
  <2>5. lead' \in [Tasks -> SUBSET Ids] /\ follow' \in [Tasks -> SUBSET Ids]
    BY DEF TypeOK
  <2>6. QED
    BY <2>2, <2>3, <2>4, <2>5 DEF TypeOK
<1>4. GuardsOwned'
  BY <1>1, <1>2 DEF GuardsOwned, Critical
<1>5. AbsentIsEmpty'
  BY DEF AbsentIsEmpty
<1>6. WorkIsCurrent'
  BY <1>1, <1>2 DEF WorkIsCurrent
<1>7. RefreshIsCurrent'
  BY <1>1, <1>2 DEF RefreshIsCurrent
<1>8. DerivedNotAhead' /\ MarkerVouchesForIndexes'
  BY DEF DerivedNotAhead, MarkerVouchesForIndexes
<1>9. QED
  BY <1>3, <1>4, <1>5, <1>6, <1>7, <1>8

-----------------------------------------------------------------------------
(* One lemma per action.                                                   *)

\* The generation of the current scope is a document map.
LEMMA CurrentGenerationIsMap ==
  Inv /\ CurrentGeneration # None => CurrentGeneration \in DocMap
  BY DEF CurrentGeneration, Inv, TypeOK, Artifacts

\* A starting call holds nothing.
LEMMA StartInv ==
  ASSUME Inv, NEW t \in Tasks, Start(t) PROVE Inv'
<1>1. ops' \in 0..MaxOps
  BY ScopeAssumption DEF Start, Inv, TypeOK
<1>2. snap' \in [Tasks -> DocMap] /\ \A u \in Tasks \ {t} : snap'[u] = snap[u]
  BY CurrentGenerationIsMap DEF Start, Inv, TypeOK
<1>3. job' \in [Tasks -> [kind : AllKinds \cup {"idle"}, ids : SUBSET Ids]]
  BY DEF Start, Inv, TypeOK, AllKinds, ResolvingKinds, ListingKinds
<1>4. Goto(t, "resolve") \/ Goto(t, "local")
  BY DEF Start
<1>5. UNCHANGED <<disk, locks, work, lead, follow, next>>
  BY DEF Start
<1>6. QED
  BY <1>1, <1>2, <1>3, <1>4, <1>5, OutsideInv

\* Resolving reads, and may end the call.
LEMMA ResolveInv ==
  ASSUME Inv, NEW t \in Tasks, Resolve(t) PROVE Inv'
<1>1. ops' \in 0..MaxOps
  BY DEF Resolve, Inv, TypeOK
<1>2. snap' \in [Tasks -> DocMap] /\ \A u \in Tasks \ {t} : snap'[u] = snap[u]
  BY DEF Resolve, Inv, TypeOK
<1>3. job' \in [Tasks -> [kind : AllKinds \cup {"idle"}, ids : SUBSET Ids]]
  BY DEF Resolve, Inv, TypeOK, Idle
<1>4. Goto(t, "idle") \/ Goto(t, "local")
  BY DEF Resolve
<1>5. UNCHANGED <<disk, locks, work, lead, follow, next>>
  BY DEF Resolve
<1>6. QED
  BY <1>1, <1>2, <1>3, <1>4, <1>5, OutsideInv

\* Taking and giving back the two locks.
LEMMA LockStepInv ==
  ASSUME Inv, NEW t \in Tasks,
         AcquireLocal(t) \/ AcquireOs(t) \/ OsLockFails(t) \/ ReleaseOs(t)
  PROVE  Inv'
<1>1. ops' \in 0..MaxOps /\ UNCHANGED <<disk, local>>
  BY DEF AcquireLocal, AcquireOs, OsLockFails, ReleaseOs, Inv, TypeOK
<1>2. /\ mutex \in [Procs -> Tasks \cup {None}]
      /\ oslock \in Tasks \cup {None}
      /\ ProcOf \in [Tasks -> Procs] /\ None \notin Tasks
  BY ScopeAssumption DEF Inv, TypeOK
<1>3. \A u \in Tasks :
        /\ pc[u] \in Critical => oslock = u
        /\ pc[u] \in Critical \cup {"os", "unlock"} => mutex[ProcOf[u]] = u
  BY DEF Inv, GuardsOwned
<1>4. {"os", "locked", "unlock"} \subseteq Places
  BY DEF Places, Critical
<1>5. CASE AcquireLocal(t)
  <2>1. mutex' \in [Procs -> Tasks \cup {None}] /\ mutex'[ProcOf[t]] = t
    BY <1>2, <1>5 DEF AcquireLocal
  <2>2. \A u \in Tasks \ {t} :
          pc[u] \in Critical \cup {"os", "unlock"} => mutex'[ProcOf[u]] = u
    BY <1>2, <1>3, <1>5 DEF AcquireLocal
  <2>3. Goto(t, "os") /\ oslock' = oslock
    BY <1>5 DEF AcquireLocal
  <2>4. QED
    BY <1>1, <1>2, <1>3, <1>4, <2>1, <2>2, <2>3, MoveInv DEF Critical
<1>6. CASE AcquireOs(t)
  <2>1. Goto(t, "locked") /\ oslock' = t /\ mutex' = mutex /\ pc[t] = "os"
    BY <1>6 DEF AcquireOs
  <2>2. \A u \in Tasks \ {t} : pc[u] \notin Critical
    BY <1>2, <1>3, <1>6 DEF AcquireOs
  <2>3. QED
    BY <1>1, <1>2, <1>3, <1>4, <2>1, <2>2, MoveInv DEF Critical
<1>7. CASE OsLockFails(t)
  <2>1. /\ Goto(t, "unlock") /\ oslock' = oslock /\ mutex' = mutex
        /\ pc[t] = "os"
    BY <1>7 DEF OsLockFails, locks
  <2>2. QED
    BY <1>1, <1>2, <1>3, <1>4, <2>1, MoveInv DEF Critical
<1>8. CASE ReleaseOs(t)
  <2>1. /\ Goto(t, "unlock") /\ oslock' = None /\ mutex' = mutex
        /\ pc[t] \in {"refreshed", "leave"}
    BY <1>8 DEF ReleaseOs
  <2>2. \A u \in Tasks \ {t} : pc[u] \notin Critical
    BY <1>3, <2>1 DEF Critical
  <2>3. QED
    BY <1>1, <1>2, <1>3, <1>4, <2>1, <2>2, MoveInv DEF Critical
<1>9. QED
  BY <1>5, <1>6, <1>7, <1>8

\* Writing: an append to a similar memory or a new one.
LEMMA PlanWriteInv ==
  ASSUME Inv, NEW t \in Tasks, PlanWrite(t) PROVE Inv'
<1>1. pc[t] = "locked" /\ Reread(t) = docs
  BY DEF PlanWrite, Locked, Reread
<1>2. \A i \in Ids : docs[i] \in Doc
  BY DEF Inv, TypeOK, DocMap
<1>3. PICK f \in Facts :
        \/ \E i \in Matching(docs, {"active"}) :
             Edit(t, {i}, {}, [docs EXCEPT ![i] = Append(docs[i], f, {})])
        \/ \E i \in Free(docs) :
             Edit(t, {i}, {}, [docs EXCEPT ![i] = Created({f}, {})])
        \/ Leave(t)
  BY <1>1 DEF PlanWrite
<1>4. ASSUME NEW i \in Matching(docs, {"active"}),
             Edit(t, {i}, {}, [docs EXCEPT ![i] = Append(docs[i], f, {})])
      PROVE  Inv'
  <2> DEFINE w == [docs EXCEPT ![i] = Append(docs[i], f, {})]
  <2>1. i \in Ids
    BY DEF Matching, Present
  <2>2. Append(docs[i], f, {}) \in Doc /\ Extends(Append(docs[i], f, {}), docs[i])
    BY <1>2, <2>1, AppendFacts
  <2>3. w \in DocMap /\ w[i] = Append(docs[i], f, {})
    BY <2>1, <2>2 DEF Inv, TypeOK, DocMap
  <2>4. Edit(t, {i}, {}, w)
    BY <1>4
  <2> HIDE DEF w
  <2>5. QED
    BY <1>1, <2>1, <2>2, <2>3, <2>4, EditInv
<1>5. ASSUME NEW i \in Free(docs),
             Edit(t, {i}, {}, [docs EXCEPT ![i] = Created({f}, {})])
      PROVE  Inv'
  <2> DEFINE w == [docs EXCEPT ![i] = Created({f}, {})]
  <2>1. i \in Ids /\ docs[i] = NoDoc
    BY <1>2 DEF Free, Present, Exists, Inv, AbsentIsEmpty, Doc
  <2>2. Created({f}, {}) \in Doc /\ Extends(Created({f}, {}), NoDoc)
    BY CreatedFacts
  <2>3. w \in DocMap /\ w[i] = Created({f}, {})
    BY <2>1, <2>2 DEF Inv, TypeOK, DocMap
  <2>4. Edit(t, {i}, {}, w)
    BY <1>5
  <2> HIDE DEF w
  <2>5. QED
    BY <1>1, <2>1, <2>2, <2>3, <2>4, EditInv
<1>6. QED
  BY <1>1, <1>3, <1>4, <1>5, LeaveInv DEF Critical

\* Archiving restates the status of the resolved document.
LEMMA PlanArchiveInv ==
  ASSUME Inv, NEW t \in Tasks, PlanArchive(t) PROVE Inv'
<1>1. PICK m \in Modes : RestatusAll(t, job[t].ids, m)
  BY DEF PlanArchive, RestatusAll
<1>2. m \in Statuses /\ job[t].ids \in SUBSET Ids /\ pc[t] = "locked"
  BY ScopeAssumption DEF PlanArchive, Locked, Inv, TypeOK
<1>3. QED
  BY <1>1, <1>2, RestatusAllInv

\* Splitting and consolidating create successors, or find no free id.
LEMMA PlanSuccessorInv ==
  ASSUME Inv, NEW t \in Tasks, PlanSplit(t) \/ PlanConsolidate(t) PROVE Inv'
<1>1. pc[t] = "locked" /\ Reread(t) = docs
  BY DEF PlanSplit, PlanConsolidate, Locked, Reread
<1>2. \/ \E new \in SUBSET Free(docs), f \in Facts : Supersede(t, new, {f})
      \/ Leave(t)
  BY <1>1 DEF PlanSplit, PlanConsolidate
<1>3. QED
  BY <1>1, <1>2, SupersedeInv, LeaveInv DEF Critical

\* Merging appends to the target and supersedes the sources.
LEMMA PlanMergeInv ==
  ASSUME Inv, NEW t \in Tasks, PlanMerge(t) PROVE Inv'
<1>1. pc[t] = "locked" /\ Reread(t) = docs
  BY DEF PlanMerge, Locked, Reread
<1>2. CASE Leave(t)
  BY <1>1, <1>2, LeaveInv DEF Critical
<1>3. CASE ~Leave(t)
  <2>1. PICK target \in job[t].ids, f \in Facts :
          \E sources \in SUBSET (Ids \ {target}) :
            Edit(t, {target}, sources \cap Present(docs),
                 [i \in Ids |->
                    IF i = target THEN Append(docs[i], f, sources)
                    ELSE IF i \in sources \cap Present(docs)
                    THEN Restatus(docs[i], "superseded")
                    ELSE docs[i]])
    BY <1>1, <1>3 DEF PlanMerge
  <2>2. PICK sources \in SUBSET (Ids \ {target}) :
          Edit(t, {target}, sources \cap Present(docs),
               [i \in Ids |->
                  IF i = target THEN Append(docs[i], f, sources)
                  ELSE IF i \in sources \cap Present(docs)
                  THEN Restatus(docs[i], "superseded")
                  ELSE docs[i]])
    BY <2>1
  <2> DEFINE w == [i \in Ids |->
                     IF i = target THEN Append(docs[i], f, sources)
                     ELSE IF i \in sources \cap Present(docs)
                     THEN Restatus(docs[i], "superseded")
                     ELSE docs[i]]
  <2>3. \A i \in Ids : docs[i] \in Doc
    BY DEF Inv, TypeOK, DocMap
  <2>4. target \in Ids
    BY DEF Inv, TypeOK
  <2>5. /\ Append(docs[target], f, sources) \in Doc
        /\ Extends(Append(docs[target], f, sources), docs[target])
    BY <2>3, <2>4, AppendFacts
  <2>6. \A i \in Ids :
          /\ Restatus(docs[i], "superseded") \in Doc
          /\ Restatus(docs[i], "superseded") # docs[i]
             => Extends(Restatus(docs[i], "superseded"), docs[i])
    BY <2>3, RestatusFacts DEF Statuses
  <2>7. w \in DocMap
    BY <2>3, <2>5, <2>6 DEF DocMap
  <2>8. Extends(w[target], docs[target])
    BY <2>4, <2>5
  <2>9. \A i \in sources \cap Present(docs) :
          w[i] # docs[i] => Extends(w[i], docs[i])
    BY <2>6
  <2>10. Edit(t, {target}, sources \cap Present(docs), w)
    BY <2>2
  <2>11. {target} \in SUBSET Ids /\ sources \cap Present(docs) \in SUBSET Ids
    BY <2>4
  <2> HIDE DEF w
  <2>12. QED
    BY <1>1, <2>7, <2>8, <2>9, <2>10, <2>11, EditInv
<1>4. QED
  BY <1>2, <1>3

\* Marking a contradiction adds links and sets the status.
LEMMA PlanContradictInv ==
  ASSUME Inv, NEW t \in Tasks, PlanContradict(t) PROVE Inv'
<1>1. pc[t] = "locked" /\ Reread(t) = docs
  BY DEF PlanContradict, Locked, Reread
<1>2. PICK target \in job[t].ids : \E by \in SUBSET (Present(docs) \ {target}) :
        LET old == docs[target]
            links == old.contradictedBy \cup by
            status == IF by # {} THEN "contradicted" ELSE old.status
            new == IF status = old.status /\ links = old.contradictedBy
                   THEN old
                   ELSE Rewrite(old, status, old.body, old.supersedes, links)
        IN  Edit(t, {}, {target}, [docs EXCEPT ![target] = new])
  BY <1>1 DEF PlanContradict
<1>3. target \in Ids /\ docs[target] \in Doc
  BY DEF Inv, TypeOK, DocMap
<1>4. PICK by \in SUBSET (Present(docs) \ {target}) :
        LET old == docs[target]
            links == old.contradictedBy \cup by
            status == IF by # {} THEN "contradicted" ELSE old.status
            new == IF status = old.status /\ links = old.contradictedBy
                   THEN old
                   ELSE Rewrite(old, status, old.body, old.supersedes, links)
        IN  Edit(t, {}, {target}, [docs EXCEPT ![target] = new])
  BY <1>2
<1> DEFINE old == docs[target]
           links == old.contradictedBy \cup by
           status == IF by # {} THEN "contradicted" ELSE old.status
           new == IF status = old.status /\ links = old.contradictedBy
                  THEN old
                  ELSE Rewrite(old, status, old.body, old.supersedes, links)
           w == [docs EXCEPT ![target] = new]
<1>5. Edit(t, {}, {target}, w)
  BY <1>4
<1>6. /\ status \in Statuses \cup {"none"} /\ old.body \in SUBSET Facts
      /\ old.supersedes \in SUBSET Ids /\ links \in SUBSET Ids
  BY <1>3 DEF Doc, Statuses, Present
<1> HIDE DEF status, links
<1>7. LET n == Rewrite(old, status, old.body, old.supersedes, links)
      IN  n \in Doc /\ Extends(n, old)
  <2>1. old.contradictedBy \subseteq links
    BY DEF links
  <2>2. QED
    BY <1>3, <1>6, <2>1, RewriteFacts
<1>8. new \in Doc /\ (new # old => Extends(new, old))
  BY <1>3, <1>7
<1> HIDE DEF new
<1>9. w \in DocMap /\ w[target] = new
  BY <1>3, <1>8 DEF Inv, TypeOK, DocMap
<1> HIDE DEF w
<1>10. \A i \in {target} : w[i] # docs[i] => Extends(w[i], docs[i])
  BY <1>8, <1>9
<1>11. {target} \in SUBSET Ids
  BY <1>3
<1>12. QED
  BY <1>1, <1>5, <1>9, <1>10, <1>11, EditInv

\* The purge and the two gardeners restate the status of what they chose.
LEMMA PlanGardenInv ==
  ASSUME Inv, NEW t \in Tasks, PlanPurge(t) \/ PlanCapacity(t) \/ PlanExpire(t)
  PROVE  Inv'
<1>1. pc[t] = "locked" /\ Reread(t) = docs
  BY DEF PlanPurge, PlanCapacity, PlanExpire, Locked, Reread
<1>2. \/ Leave(t)
      \/ \E S \in SUBSET Ids, status \in Statuses : RestatusAll(t, S, status)
  <2>1. CASE PlanPurge(t)
    BY <2>1, ScopeAssumption DEF PlanPurge, Matching, Present
  <2>2. CASE PlanCapacity(t)
    <3>1. \/ Leave(t)
          \/ \E S \in SUBSET (Scorable(docs) \cap ProjectIds) :
               RestatusAll(t, S, "archived")
      BY <1>1, <2>2 DEF PlanCapacity
    <3>2. Scorable(docs) \subseteq Ids
      BY DEF Scorable, Matching, Present
    <3>3. QED
      BY <3>1, <3>2 DEF Statuses
  <2>3. CASE PlanExpire(t)
    BY <2>3 DEF PlanExpire, Matching, Present, Statuses
  <2>4. QED
    BY <2>1, <2>2, <2>3
<1>3. QED
  BY <1>1, <1>2, LeaveInv, RestatusAllInv DEF Critical

\* A rebuild goes straight to the refresh; a publisher whose generation is the
\* current one goes on to write the Dream.
LEMMA PlanDerivedInv ==
  ASSUME Inv, NEW t \in Tasks, PlanRebuild(t) \/ PlanPublish(t) PROVE Inv'
<1>1. pc[t] = "locked" /\ Reread(t) = docs
  BY DEF PlanRebuild, PlanPublish, Locked, Reread
<1>2. \/ Leave(t)
      \/ /\ Goto(t, "refresh") \/ (Goto(t, "dream") /\ snap[t] = docs)
         /\ UNCHANGED <<disk, locks, local, ops>>
  BY <1>1 DEF PlanRebuild, PlanPublish
<1>3. CASE Leave(t)
  BY <1>1, <1>3, LeaveInv DEF Critical
<1>4. ASSUME NEW place \in {"refresh", "dream"}, Goto(t, place),
             place = "dream" => snap[t] = docs,
             UNCHANGED <<disk, locks, local, ops>>
      PROVE  Inv'
  <2>1. /\ mutex' \in [Procs -> Tasks \cup {None}] /\ ops' \in 0..MaxOps
        /\ oslock' \in Tasks \cup {None}
    BY <1>4 DEF Inv, TypeOK, locks
  <2>2. \A u \in Tasks :
          /\ pc[u] \in Critical => oslock' = u
          /\ pc[u] \in Critical \cup {"os", "unlock"} => mutex'[ProcOf[u]] = u
    BY <1>4 DEF Inv, GuardsOwned, locks
  <2>3. place \in Places
    BY DEF Places, Critical
  <2>4. QED
    BY <1>1, <1>4, <2>1, <2>2, <2>3, MoveInv DEF Critical
<1>5. QED
  BY <1>2, <1>3, <1>4

\* While one task is in the critical section, no other is.
LEMMA OnlyOneCritical ==
  ASSUME Inv, NEW t \in Tasks, pc[t] \in Critical,
         NEW u \in Tasks, pc[u] \in Critical
  PROVE  t = u
  BY DEF Inv, GuardsOwned

\* Writing one document makes one edit, and leaves every derived file behind.
LEMMA WriteDocInv ==
  ASSUME Inv, NEW t \in Tasks, WriteDoc(t) PROVE Inv'
<1>1. PICK i \in lead[t] \cup follow[t] :
        /\ docs' = [docs EXCEPT ![i] = work[t][i]]
        /\ lead' = [lead EXCEPT ![t] = @ \ {i}]
        /\ follow' = [follow EXCEPT ![t] = @ \ {i}]
  BY DEF WriteDoc
<1>2. /\ pc[t] = "write"
      /\ UNCHANGED <<artifacts, dream, mutex, oslock, pc, job, snap, work,
                     next, ops>>
  BY DEF WriteDoc, locks
<1>3. TypeOK
  BY DEF Inv
<1>4. i \in Ids /\ work[t] \in DocMap /\ docs \in DocMap
  BY <1>3 DEF TypeOK
<1>5. docs[i].rev \in Nat /\ work[t][i] \in Doc
  BY <1>4 DEF DocMap, Doc
<1>6. /\ docs' \in DocMap /\ docs'[i] = work[t][i]
      /\ \A j \in Ids \ {i} : docs'[j] = docs[j]
  BY <1>1, <1>4, <1>5 DEF DocMap
<1>7. docs'[i].rev = docs[i].rev + 1
  BY <1>2, <1>6 DEF Inv, WorkIsCurrent, Extends
<1>8. \A u \in Tasks : pc[u] \in Critical => u = t
  BY <1>2, OnlyOneCritical DEF Critical
<1>9. TypeOK'
  <2>1. lead' \in [Tasks -> SUBSET Ids] /\ follow' \in [Tasks -> SUBSET Ids]
    BY <1>1, <1>3 DEF TypeOK
  <2>2. QED
    BY <1>2, <1>3, <1>6, <2>1 DEF TypeOK
<1>10. GuardsOwned'
  BY <1>2 DEF Inv, GuardsOwned
<1>11. AbsentIsEmpty'
  BY <1>5, <1>6, <1>7 DEF Inv, AbsentIsEmpty
<1>12. WorkIsCurrent'
  <2> SUFFICES ASSUME NEW u \in Tasks, pc'[u] = "write",
                      NEW j \in lead'[u] \cup follow'[u]
               PROVE  Extends(work'[u][j], docs'[j])
    BY DEF WorkIsCurrent
  <2>1. u = t
    BY <1>2, <1>8 DEF Critical
  <2>2. j \in lead[t] \cup follow[t] /\ j # i
    BY <1>1, <1>3, <2>1 DEF TypeOK
  <2>3. docs'[j] = docs[j] /\ work'[u][j] = work[t][j]
    BY <1>2, <1>3, <1>6, <2>1, <2>2 DEF TypeOK
  <2>4. Extends(work[t][j], docs[j])
    BY <1>2, <2>2 DEF Inv, WorkIsCurrent
  <2>5. QED
    BY <2>3, <2>4 DEF Extends
<1>13. RefreshIsCurrent'
  BY <1>2, <1>8 DEF RefreshIsCurrent, Critical
<1>14. DerivedNotAhead'
  <2>1. \A a \in Artifacts : artifacts[a] # None => artifacts[a] \in DocMap
    BY <1>3 DEF TypeOK
  <2>2. \A a \in Artifacts : artifacts[a] # None =>
          \A j \in Ids : artifacts[a][j].rev \in Nat
    BY <2>1 DEF DocMap, Doc
  <2>3. QED
    BY <1>2, <1>5, <1>6, <1>7, <2>2 DEF Inv, DerivedNotAhead
<1>15. MarkerVouchesForIndexes'
  <2>1. artifacts["generation"] # docs'
    BY <1>4, <1>5, <1>6, <1>7, NoneAssumption
       DEF Inv, DerivedNotAhead, Artifacts
  <2>2. QED
    BY <1>2, <2>1 DEF MarkerVouchesForIndexes
<1>16. QED
  BY <1>9, <1>10, <1>11, <1>12, <1>13, <1>14, <1>15 DEF Inv

\* The audit line changes nothing this module keeps.
LEMMA AppendAuditInv ==
  ASSUME Inv, NEW t \in Tasks, AppendAudit(t) PROVE Inv'
<1>1. /\ pc[t] = "write" /\ Goto(t, "refresh")
      /\ UNCHANGED <<disk, locks, local, ops>>
  BY DEF AppendAudit
<1>2. /\ mutex' \in [Procs -> Tasks \cup {None}] /\ ops' \in 0..MaxOps
      /\ oslock' \in Tasks \cup {None}
  BY <1>1 DEF Inv, TypeOK, locks
<1>3. \A u \in Tasks :
        /\ pc[u] \in Critical => oslock' = u
        /\ pc[u] \in Critical \cup {"os", "unlock"} => mutex'[ProcOf[u]] = u
  BY <1>1 DEF Inv, GuardsOwned, locks
<1>4. "refresh" \in Places
  BY DEF Places, Critical
<1>5. QED
  BY <1>1, <1>2, <1>3, <1>4, MoveInv DEF Critical

\* Staging reads the current documents.
LEMMA StageArtifactsInv ==
  ASSUME Inv, NEW t \in Tasks, StageArtifacts(t) PROVE Inv'
<1>1. /\ pc[t] = "refresh"
      /\ snap' = [snap EXCEPT ![t] = docs]
      /\ next' = [next EXCEPT ![t] = 1]
      /\ pc' = [pc EXCEPT ![t] = "rename"]
      /\ UNCHANGED <<docs, artifacts, dream, mutex, oslock, job, work, lead,
                     follow, ops>>
  BY DEF StageArtifacts, Goto, disk, locks
<1>2. TypeOK
  BY DEF Inv
<1>3. TypeOK'
  BY <1>1, <1>2 DEF TypeOK, Places, Critical
<1>4. GuardsOwned'
  BY <1>1, <1>2 DEF Inv, GuardsOwned, TypeOK, Critical
<1>5. AbsentIsEmpty'
  BY <1>1 DEF Inv, AbsentIsEmpty
<1>6. WorkIsCurrent'
  BY <1>1, <1>2 DEF Inv, WorkIsCurrent, TypeOK
<1>7. RefreshIsCurrent'
  BY <1>1, <1>2 DEF Inv, RefreshIsCurrent, TypeOK
<1>8. DerivedNotAhead' /\ MarkerVouchesForIndexes'
  BY <1>1 DEF Inv, DerivedNotAhead, MarkerVouchesForIndexes
<1>9. QED
  BY <1>3, <1>4, <1>5, <1>6, <1>7, <1>8 DEF Inv

\* A rename shows the current documents; the last one is the marker.
LEMMA RenameArtifactInv ==
  ASSUME Inv, NEW t \in Tasks, RenameArtifact(t) PROVE Inv'
<1> DEFINE a == ArtifactAt[next[t]]
<1>1. /\ pc[t] = "rename"
      /\ artifacts' = [artifacts EXCEPT ![a] = snap[t]]
      /\ \/ next[t] = 3 /\ pc' = [pc EXCEPT ![t] = "refreshed"] /\ next' = next
         \/ /\ next[t] # 3
            /\ next' = [next EXCEPT ![t] = next[t] + 1] /\ pc' = pc
      /\ UNCHANGED <<docs, dream, mutex, oslock, job, snap, work, lead, follow,
                     ops>>
  BY DEF RenameArtifact, Goto, locks
<1>2. TypeOK
  BY DEF Inv
<1>3. next[t] \in 1..3 /\ docs \in DocMap
  BY <1>2 DEF TypeOK
<1>4. /\ a \in Artifacts
      /\ ArtifactAt[1] = "lexical" /\ ArtifactAt[2] = "graph"
      /\ ArtifactAt[3] = "generation"
  BY <1>3 DEF Artifacts, ArtifactAt
<1> HIDE DEF a
<1>5. snap[t] = docs
  BY <1>1 DEF Inv, RefreshIsCurrent
<1>6. \A n \in 1..3 : n < next[t] => artifacts[ArtifactAt[n]] = docs
  BY <1>1 DEF Inv, RefreshIsCurrent
<1>7. /\ artifacts' \in [Artifacts -> DocMap \cup {None}] /\ artifacts'[a] = docs
      /\ \A b \in Artifacts \ {a} : artifacts'[b] = artifacts[b]
  BY <1>1, <1>2, <1>3, <1>4, <1>5 DEF TypeOK
<1>8. \A u \in Tasks : pc[u] \in Critical => u = t
  BY <1>1, OnlyOneCritical DEF Critical
<1>9. \A n \in 1..3 : n <= next[t] => artifacts'[ArtifactAt[n]] = docs
  <2> SUFFICES ASSUME NEW n \in 1..3, n <= next[t]
               PROVE  artifacts'[ArtifactAt[n]] = docs
    OBVIOUS
  <2>1. CASE n = next[t]
    BY <1>7, <2>1 DEF a
  <2>2. CASE n # next[t]
    <3>1. artifacts[ArtifactAt[n]] = docs
      BY <1>3, <1>6, <2>2
    <3>2. ArtifactAt[n] \in Artifacts
      BY <1>4 DEF Artifacts
    <3>3. QED
      BY <1>7, <3>1, <3>2
  <2>3. QED
    BY <2>1, <2>2
<1>10. next[t] = 3 => \A b \in Artifacts : artifacts'[b] = docs
  BY <1>4, <1>9 DEF Artifacts
<1>11. TypeOK'
  <2>1. pc' \in [Tasks -> Places]
    BY <1>1, <1>2 DEF TypeOK, Places, Critical
  <2>2. next' \in [Tasks -> 1..3]
    BY <1>1, <1>2, <1>3 DEF TypeOK
  <2>3. QED
    BY <1>1, <1>2, <1>7, <2>1, <2>2 DEF TypeOK
<1>12. GuardsOwned'
  BY <1>1, <1>2 DEF Inv, GuardsOwned, TypeOK, Critical
<1>13. AbsentIsEmpty'
  BY <1>1 DEF Inv, AbsentIsEmpty
<1>14. WorkIsCurrent'
  BY <1>1, <1>2, <1>8 DEF WorkIsCurrent, TypeOK, Critical
<1>15. RefreshIsCurrent'
  <2> SUFFICES ASSUME NEW u \in Tasks
               PROVE  /\ pc'[u] \in {"rename", "dream"} => snap'[u] = docs'
                      /\ pc'[u] = "rename" => \A n \in 1..3 :
                           n < next'[u] => artifacts'[ArtifactAt[n]] = docs'
                      /\ pc'[u] = "refreshed" =>
                           \A b \in Artifacts : artifacts'[b] = docs'
    BY DEF RefreshIsCurrent
  <2>1. CASE u # t
    <3>1. pc'[u] = pc[u] /\ pc[u] \notin Critical
      BY <1>1, <1>2, <1>8, <2>1 DEF TypeOK
    <3>2. QED
      BY <3>1 DEF Critical
  <2>2. CASE u = t /\ next[t] = 3
    BY <1>1, <1>2, <1>10, <2>2 DEF TypeOK
  <2>3. CASE u = t /\ next[t] # 3
    <3>1. pc'[t] = "rename" /\ next'[t] = next[t] + 1
      BY <1>1, <1>2, <2>3 DEF TypeOK
    <3>2. \A n \in 1..3 : n < next'[t] => n <= next[t]
      BY <1>3, <3>1
    <3>3. QED
      BY <1>1, <1>5, <1>9, <2>3, <3>1, <3>2
  <2>4. QED
    BY <2>1, <2>2, <2>3
<1>16. DerivedNotAhead'
  <2>1. \A i \in Ids : docs[i].rev <= docs[i].rev
    BY <1>3 DEF DocMap, Doc
  <2>2. QED
    BY <1>1, <1>7, <2>1 DEF Inv, DerivedNotAhead
<1>17. MarkerVouchesForIndexes'
  <2>1. CASE next[t] = 3
    BY <1>1, <1>10, <2>1 DEF MarkerVouchesForIndexes
  <2>2. CASE next[t] # 3
    <3>1. a # "generation"
      BY <1>3, <1>4, <2>2 DEF a
    <3>2. artifacts'["generation"] = artifacts["generation"]
      BY <1>7, <3>1 DEF Artifacts
    <3>3. QED
      BY <1>1, <1>7, <3>2 DEF Inv, MarkerVouchesForIndexes
  <2>3. QED
    BY <2>1, <2>2
<1>18. QED
  BY <1>11, <1>12, <1>13, <1>14, <1>15, <1>16, <1>17 DEF Inv

\* A Dream is published for the current documents.
LEMMA WriteDreamInv ==
  ASSUME Inv, NEW t \in Tasks, WriteDream(t) PROVE Inv' /\ dream' = docs
<1> USE DEF Inv
<1>1. /\ pc[t] = "dream" /\ dream' = snap[t]
      /\ pc' = [pc EXCEPT ![t] = "leave"]
      /\ UNCHANGED <<docs, artifacts, mutex, oslock, job, snap, work, lead,
                     follow, next, ops>>
  BY DEF WriteDream, Goto, locks, local
<1>2. snap[t] = docs
  BY <1>1 DEF RefreshIsCurrent
<1>3. TypeOK'
  BY <1>1 DEF TypeOK, Places, Critical
<1>4. GuardsOwned'
  BY <1>1 DEF GuardsOwned, TypeOK, Critical
<1>5. AbsentIsEmpty' /\ DerivedNotAhead' /\ MarkerVouchesForIndexes'
  BY <1>1 DEF AbsentIsEmpty, DerivedNotAhead, MarkerVouchesForIndexes
<1>6. WorkIsCurrent' /\ RefreshIsCurrent'
  BY <1>1 DEF WorkIsCurrent, RefreshIsCurrent, TypeOK
<1>7. QED
  BY <1>1, <1>2, <1>3, <1>4, <1>5, <1>6

\* A call that ends gives its mutex back and forgets what it read.
LEMMA ReleaseLocalInv ==
  ASSUME Inv, NEW t \in Tasks, ReleaseLocal(t) PROVE Inv'
<1>1. /\ pc[t] = "unlock" /\ Forget({t}) /\ UNCHANGED <<disk, ops>>
      /\ mutex' = [mutex EXCEPT ![ProcOf[t]] = None] /\ oslock' = oslock
  BY DEF ReleaseLocal
<1>2. ProcOf \in [Tasks -> Procs] /\ mutex \in [Procs -> Tasks \cup {None}]
      /\ None \notin Tasks /\ oslock \in Tasks \cup {None}
  BY ScopeAssumption DEF Inv, TypeOK
<1>3. \A u \in Tasks :
        /\ pc[u] \in Critical => oslock = u
        /\ pc[u] \in Critical \cup {"os", "unlock"} => mutex[ProcOf[u]] = u
  BY DEF Inv, GuardsOwned
<1>4. mutex' \in [Procs -> Tasks \cup {None}]
  BY <1>1, <1>2
<1>5. \A u \in Tasks \ {t} :
        /\ pc[u] \in Critical => oslock' = u
        /\ pc[u] \in Critical \cup {"os", "unlock"} => mutex'[ProcOf[u]] = u
  BY <1>1, <1>2, <1>3
<1>6. QED
  BY <1>1, <1>2, <1>4, <1>5, ForgetInv

\* A crash frees what its process held, and nothing else.
LEMMA CrashInv ==
  ASSUME Inv, NEW p \in Procs, Crash(p) PROVE Inv'
<1> DEFINE T == {t \in Tasks : ProcOf[t] = p}
<1>1. /\ Forget(T) /\ UNCHANGED <<disk, ops>>
      /\ mutex' = [mutex EXCEPT ![p] = None]
      /\ oslock' = IF \E t \in Tasks : ProcOf[t] = p /\ oslock = t
                   THEN None ELSE oslock
  BY DEF Crash
<1>2. ProcOf \in [Tasks -> Procs] /\ mutex \in [Procs -> Tasks \cup {None}]
      /\ oslock \in Tasks \cup {None}
  BY ScopeAssumption DEF Inv, TypeOK
<1>3. \A u \in Tasks :
        /\ pc[u] \in Critical => oslock = u
        /\ pc[u] \in Critical \cup {"os", "unlock"} => mutex[ProcOf[u]] = u
  BY DEF Inv, GuardsOwned
<1>4. mutex' \in [Procs -> Tasks \cup {None}] /\ oslock' \in Tasks \cup {None}
  BY <1>1, <1>2
<1>5. \A u \in Tasks \ T :
        /\ pc[u] \in Critical => oslock' = u
        /\ pc[u] \in Critical \cup {"os", "unlock"} => mutex'[ProcOf[u]] = u
  BY <1>1, <1>2, <1>3
<1>6. QED
  BY <1>1, <1>4, <1>5, ForgetInv

-----------------------------------------------------------------------------

\* The invariant is inductive.
LEMMA StepInv == Inv /\ [Next]_vars => Inv'
<1> SUFFICES ASSUME Inv, [Next]_vars PROVE Inv'
  OBVIOUS
<1>1. ASSUME NEW t \in Tasks, Start(t) \/ Step(t) PROVE Inv'
  <2>1. CASE Start(t)
    BY <2>1, StartInv
  <2>2. CASE Resolve(t)
    BY <2>2, ResolveInv
  <2>3. CASE AcquireLocal(t) \/ AcquireOs(t) \/ OsLockFails(t) \/ ReleaseOs(t)
    BY <2>3, LockStepInv
  <2>4. CASE Plan(t)
    BY <2>4, PlanWriteInv, PlanArchiveInv, PlanSuccessorInv, PlanMergeInv,
       PlanContradictInv, PlanGardenInv, PlanDerivedInv DEF Plan
  <2>5. CASE WriteDoc(t)
    BY <2>5, WriteDocInv
  <2>6. CASE AppendAudit(t)
    BY <2>6, AppendAuditInv
  <2>7. CASE StageArtifacts(t)
    BY <2>7, StageArtifactsInv
  <2>8. CASE RenameArtifact(t)
    BY <2>8, RenameArtifactInv
  <2>9. CASE WriteDream(t)
    BY <2>9, WriteDreamInv
  <2>10. CASE Fail(t)
    BY <2>10, LeaveInv DEF Fail, Critical
  <2>11. CASE ReleaseLocal(t)
    BY <2>11, ReleaseLocalInv
  <2>12. QED
    BY <1>1, <2>1, <2>2, <2>3, <2>4, <2>5, <2>6, <2>7, <2>8, <2>9, <2>10,
       <2>11 DEF Step
<1>2. ASSUME NEW p \in Procs, Crash(p) PROVE Inv'
  BY <1>2, CrashInv
<1>3. CASE UNCHANGED vars
  BY <1>3 DEF vars, disk, locks, local, Inv, TypeOK, GuardsOwned, AbsentIsEmpty,
     WorkIsCurrent, RefreshIsCurrent, DerivedNotAhead, MarkerVouchesForIndexes
<1>4. QED
  BY <1>1, <1>2, <1>3 DEF Next, Finished

\* The whole inductive invariant holds of every behaviour of the store
\* (acquire_scope_write_guard and everything done under it).
THEOREM Invariance == Spec => []Inv
<1>1. QED
  BY InitInv, StepInv, PTL DEF Spec

\* The variables keep their types.
THEOREM TypeCorrect == Spec => []TypeOK
<1>1. Inv => TypeOK
  BY DEF Inv
<1>2. QED
  BY <1>1, Invariance, PTL

\* acquire_scope_write_guard: no two writers of a scope, in any number of
\* processes, with any crashes.
THEOREM Exclusion == Spec => []MutualExclusion
<1>1. Inv => MutualExclusion
  BY DEF Inv, GuardsOwned, MutualExclusion
<1>2. QED
  BY <1>1, Invariance, PTL

\* acquire_scope_write_guard: the mutex in front of the file lock bounds the
\* blocking waiters of a process to one.
THEOREM OneWaiter == Spec => []OneWaiterPerProcess
<1>1. Inv => OneWaiterPerProcess
  BY DEF Inv, GuardsOwned, OneWaiterPerProcess
<1>2. QED
  BY <1>1, Invariance, PTL

\* refresh_scope_artifacts: a marker that names the documents on disk was
\* renamed after every other file of the same refresh.
THEOREM MarkerVouches == Spec => []MarkerVouchesForIndexes
<1>1. Inv => MarkerVouchesForIndexes
  BY DEF Inv
<1>2. QED
  BY <1>1, Invariance, PTL

\* refresh_scope_artifacts: success means that every derived file is current.
THEOREM Freshness == Spec => []SuccessIsFresh
<1>1. Inv => SuccessIsFresh
  BY DEF Inv, RefreshIsCurrent, SuccessIsFresh
<1>2. QED
  BY <1>1, Invariance, PTL

\* query_scope: what an index names can be opened.
THEOREM NoDangling == Spec => []IndexNeverDangles
<1>1. Inv => IndexNeverDangles
  <2> SUFFICES ASSUME Inv, NEW a \in Artifacts, artifacts[a] # None,
                      NEW i \in Ids, artifacts[a][i].rev > 0
               PROVE  docs[i].rev > 0
    BY DEF IndexNeverDangles, Present, Exists
  <2>1. artifacts[a] \in DocMap /\ docs \in DocMap
    BY DEF Inv, TypeOK
  <2>2. artifacts[a][i].rev \in Nat /\ docs[i].rev \in Nat
    BY <2>1 DEF DocMap, Doc
  <2>3. artifacts[a][i].rev <= docs[i].rev
    BY DEF Inv, DerivedNotAhead
  <2>4. QED
    BY <2>2, <2>3
<1>2. QED
  BY <1>1, Invariance, PTL

-----------------------------------------------------------------------------

\* The documents change only by one edit of one of them.
LEMMA DocsStep ==
  ASSUME Inv, [Next]_vars
  PROVE  \/ docs' = docs
         \/ \E i \in Ids :
              /\ docs' = [docs EXCEPT ![i] = docs'[i]]
              /\ Extends(docs'[i], docs[i])
              /\ artifacts' = artifacts /\ dream' = dream
<1>1. ASSUME NEW t \in Tasks, WriteDoc(t)
      PROVE  \E i \in Ids :
               /\ docs' = [docs EXCEPT ![i] = docs'[i]]
               /\ Extends(docs'[i], docs[i])
               /\ artifacts' = artifacts /\ dream' = dream
  <2>1. PICK i \in lead[t] \cup follow[t] : docs' = [docs EXCEPT ![i] = work[t][i]]
    BY <1>1 DEF WriteDoc
  <2>2. i \in Ids /\ docs \in DocMap
    BY DEF Inv, TypeOK
  <2>3. docs'[i] = work[t][i]
    BY <2>1, <2>2 DEF DocMap
  <2>4. Extends(work[t][i], docs[i])
    BY <1>1 DEF WriteDoc, Inv, WorkIsCurrent
  <2>5. QED
    BY <1>1, <2>1, <2>2, <2>3, <2>4 DEF WriteDoc
<1>2. ASSUME NEW t \in Tasks, Plan(t) PROVE docs' = docs
  BY <1>2 DEF Plan, PlanWrite, PlanArchive, PlanSplit, PlanConsolidate,
     PlanMerge, PlanContradict, PlanPurge, PlanCapacity, PlanExpire,
     PlanRebuild, PlanPublish, Supersede, RestatusAll, Edit, Leave, disk
<1>3. ASSUME NEW t \in Tasks, Start(t) \/ Step(t), ~WriteDoc(t)
      PROVE  docs' = docs
  BY <1>2, <1>3 DEF Start, Step, Resolve, AcquireLocal, AcquireOs, OsLockFails,
     AppendAudit, StageArtifacts, RenameArtifact, WriteDream, Fail, Leave,
     ReleaseOs, ReleaseLocal, disk
<1>4. ASSUME NEW p \in Procs, Crash(p) PROVE docs' = docs
  BY <1>4 DEF Crash, disk
<1>5. QED
  BY <1>1, <1>3, <1>4 DEF Next, Finished, vars, disk, Step

\* Issue 235: no interleaving of any number of mutators loses an update; every
\* change is one edit of the version on disk.
THEOREM NoUpdateLost == Spec => NoLostUpdate
<1>1. Inv /\ [Next]_vars =>
        [\A i \in Ids : docs'[i] # docs[i] => Extends(docs'[i], docs[i])]_docs
  <2> SUFFICES ASSUME Inv, [Next]_vars, NEW i \in Ids, docs'[i] # docs[i]
               PROVE  Extends(docs'[i], docs[i])
    OBVIOUS
  <2>1. PICK j \in Ids : /\ docs' = [docs EXCEPT ![j] = docs'[j]]
                         /\ Extends(docs'[j], docs[j])
    BY DocsStep
  <2>2. i = j
    BY <2>1 DEF Inv, TypeOK, DocMap
  <2>3. QED
    BY <2>1, <2>2
<1>2. QED
  BY <1>1, Invariance, PTL DEF Spec, NoLostUpdate

-----------------------------------------------------------------------------
(* ScopeStore implements VersionedScope.                                   *)

\* Every step on disk is one abstract step, or leaves the disk alone.
LEMMA StepSimulation == Inv /\ [Next]_vars => [Abstract!Next]_(Abstract!Scope)
<1> SUFFICES ASSUME Inv, [Next]_vars, disk' # disk PROVE Abstract!Next
  BY DEF Abstract!Scope, disk
<1>1. CASE docs' # docs
  <2>1. PICK i \in Ids : /\ docs' = [docs EXCEPT ![i] = docs'[i]]
                         /\ Extends(docs'[i], docs[i])
                         /\ artifacts' = artifacts /\ dream' = dream
    BY <1>1, DocsStep
  <2>2. Abstract!Edit(i)
    BY <2>1 DEF Abstract!Edit, Extends
  <2>3. QED
    BY <2>2 DEF Abstract!Next
<1>2. ASSUME NEW t \in Tasks, RenameArtifact(t) PROVE Abstract!Next
  <2> DEFINE a == ArtifactAt[next[t]]
  <2>1. next[t] \in 1..3 /\ pc[t] = "rename"
    BY <1>2 DEF RenameArtifact, Inv, TypeOK
  <2>2. a \in Artifacts /\ (a = "generation" => next[t] = 3)
        /\ Artifacts \ {"generation"} = {ArtifactAt[1], ArtifactAt[2]}
    BY <2>1 DEF Artifacts, ArtifactAt
  <2>3. snap[t] = docs
        /\ \A n \in 1..3 : n < next[t] => artifacts[ArtifactAt[n]] = docs
    BY <2>1 DEF Inv, RefreshIsCurrent
  <2>4. a = "generation" =>
          \A b \in Artifacts \ {"generation"} : artifacts[b] = docs
    BY <2>2, <2>3
  <2>5. /\ artifacts' = [artifacts EXCEPT ![a] = docs]
        /\ docs' = docs /\ dream' = dream
    BY <1>2, <2>3 DEF RenameArtifact
  <2> HIDE DEF a
  <2>6. Abstract!Derive(a)
    BY <2>4, <2>5 DEF Abstract!Derive
  <2>7. QED
    BY <2>2, <2>6 DEF Abstract!Next
<1>3. ASSUME NEW t \in Tasks, WriteDream(t) PROVE Abstract!Next
  <2>1. dream' = docs /\ docs' = docs /\ artifacts' = artifacts
    BY <1>3, WriteDreamInv DEF WriteDream
  <2>2. QED
    BY <2>1 DEF Abstract!Next, Abstract!PublishDream
<1>4. ASSUME NEW t \in Tasks, Plan(t) PROVE disk' = disk
  BY <1>4 DEF Plan, PlanWrite, PlanArchive, PlanSplit, PlanConsolidate,
     PlanMerge, PlanContradict, PlanPurge, PlanCapacity, PlanExpire,
     PlanRebuild, PlanPublish, Supersede, RestatusAll, Edit, Leave, disk
<1>5. ASSUME NEW t \in Tasks, Start(t) \/ Step(t), docs' = docs,
             ~RenameArtifact(t), ~WriteDream(t), ~WriteDoc(t)
      PROVE  disk' = disk
  BY <1>4, <1>5 DEF Start, Step, Resolve, AcquireLocal, AcquireOs, OsLockFails,
     AppendAudit, StageArtifacts, Fail, Leave, ReleaseOs, ReleaseLocal, disk
<1>6. ASSUME NEW t \in Tasks, WriteDoc(t), docs' = docs PROVE disk' = disk
  BY <1>6 DEF WriteDoc, disk
<1>7. ASSUME NEW p \in Procs, Crash(p) PROVE disk' = disk
  BY <1>7 DEF Crash
<1>8. CASE docs' = docs
  BY <1>2, <1>3, <1>5, <1>6, <1>7, <1>8 DEF Next, Finished, vars, Step
<1>9. QED
  BY <1>1, <1>8

\* What clients may rely on (VersionedScope) holds of the store with its locks,
\* its piecewise writes, its failures and its crashes.
THEOREM Refinement == Spec => RefinesVersionedScope
<1>1. Init => Abstract!Init
  BY DEF Init, Abstract!Init
<1>2. QED
  BY <1>1, StepSimulation, Invariance, PTL
     DEF Spec, RefinesVersionedScope, Abstract!Spec

-----------------------------------------------------------------------------
(* Lineage and capacity: split, consolidate and merge hide nothing without *)
(* a successor, and the capacity gardener never hides too much.  Only the  *)
(* task that holds the scope changes documents, so its plan, made under    *)
(* the lock, tells at every moment what may still be hidden.               *)

Working == {"write", "refresh", "rename"}

Hiding == {"split", "consolidate", "merge"}

\* What a task has in hand.
Hand(t) == <<pc[t], job[t], snap[t], work[t], lead[t], follow[t]>>

\* Who is to hide a document has its successor on disk, or writes it first.
SuccessorFirst(t) ==
  pc[t] = "write" /\ job[t].kind \in Hiding =>
    /\ \A i \in lead[t] :
         work[t][i].status = "superseded" => docs[i].status = "superseded"
    /\ \A i \in follow[t] : work[t][i].status = "superseded" =>
         \E j \in Ids \ {i} :
           \/ j \in lead[t] /\ i \in work[t][j].supersedes
           \/ i \in docs[j].supersedes

\* What the gardener has not in hand is enough, and holds all exempt memories.
EnoughLeft(t) ==
  job[t].kind = "capacity" /\ pc[t] \in Working =>
    /\ lead[t] = {}
    /\ follow[t] \subseteq ProjectIds
    /\ Cardinality(Scorable(docs) \ follow[t]) >= Capacity
    /\ Scorable(snap[t]) \ ProjectIds \subseteq Scorable(docs)

LineageInv == \A t \in Tasks : SuccessorFirst(t) /\ EnoughLeft(t)

-----------------------------------------------------------------------------
(* What a step does to one task and the documents.                         *)

\* A step of one task leaves what the others have in hand.
LEMMA OthersStay ==
  ASSUME Inv, NEW u \in Tasks, Start(u) \/ Step(u), NEW t \in Tasks, t # u
  PROVE  Hand(t)' = Hand(t)
<1> USE DEF Hand, Inv, TypeOK
<1>1. CASE Start(u)
  BY <1>1 DEF Start, Goto
<1>2. CASE Resolve(u)
  BY <1>2 DEF Resolve, Goto
<1>3. CASE AcquireLocal(u) \/ AcquireOs(u) \/ OsLockFails(u) \/ ReleaseOs(u)
  BY <1>3 DEF AcquireLocal, AcquireOs, OsLockFails, ReleaseOs, Goto, local
<1>4. ASSUME NEW first, NEW then, NEW w, Edit(u, first, then, w)
      PROVE  Hand(t)' = Hand(t)
  BY <1>4 DEF Edit, Goto
<1>5. CASE Leave(u)
  BY <1>5 DEF Leave, Goto, local
<1>6. CASE Plan(u)
  <2>1. CASE PlanWrite(u) \/ PlanArchive(u) \/ PlanContradict(u)
    BY <2>1, <1>4, <1>5 DEF PlanWrite, PlanArchive, PlanContradict
  <2>2. CASE PlanSplit(u) \/ PlanConsolidate(u) \/ PlanMerge(u)
    BY <2>2, <1>4, <1>5 DEF PlanSplit, PlanConsolidate, PlanMerge, Supersede
  <2>3. CASE PlanPurge(u) \/ PlanCapacity(u) \/ PlanExpire(u)
    BY <2>3, <1>4, <1>5 DEF PlanPurge, PlanCapacity, PlanExpire, RestatusAll
  <2>4. CASE PlanRebuild(u) \/ PlanPublish(u)
    BY <2>4, <1>5 DEF PlanRebuild, PlanPublish, Goto, local
  <2>5. QED
    BY <1>6, <2>1, <2>2, <2>3, <2>4 DEF Plan
<1>7. CASE WriteDoc(u) \/ AppendAudit(u) \/ StageArtifacts(u)
  BY <1>7 DEF WriteDoc, AppendAudit, StageArtifacts, Goto, local
<1>8. CASE RenameArtifact(u) \/ WriteDream(u) \/ Fail(u)
  BY <1>5, <1>8 DEF RenameArtifact, WriteDream, Fail, Goto, local
<1>9. CASE ReleaseLocal(u)
  BY <1>9 DEF ReleaseLocal, Forget
<1>10. QED
  BY <1>1, <1>2, <1>3, <1>6, <1>7, <1>8, <1>9 DEF Step

\* Only WriteDoc changes a document.
LEMMA DocsKept ==
  ASSUME NEW t \in Tasks, Start(t) \/ Step(t), ~WriteDoc(t)
  PROVE  docs' = docs
<1>1. ASSUME Plan(t) PROVE docs' = docs
  BY <1>1 DEF Plan, PlanWrite, PlanArchive, PlanSplit, PlanConsolidate,
     PlanMerge, PlanContradict, PlanPurge, PlanCapacity, PlanExpire,
     PlanRebuild, PlanPublish, Supersede, RestatusAll, Edit, Leave, disk
<1>2. QED
  BY <1>1 DEF Start, Step, Resolve, AcquireLocal, AcquireOs, OsLockFails,
     AppendAudit, StageArtifacts, RenameArtifact, WriteDream, Fail, Leave,
     ReleaseOs, ReleaseLocal, disk

\* For one task a step is its own work, or leaves it what it has in hand, or
\* finds and leaves it outside its work.
LEMMA Frame ==
  ASSUME Inv, [Next]_vars, NEW t \in Tasks
  PROVE  \/ docs' = docs /\ Hand(t)' = Hand(t)
         \/ pc'[t] \notin Working
         \/ Plan(t)
         \/ WriteDoc(t)
         \/ AppendAudit(t) \/ StageArtifacts(t) \/ RenameArtifact(t)
<1>1. CASE Start(t) \/ Step(t)
  <2>1. CASE Start(t) \/ Resolve(t) \/ AcquireLocal(t) \/ AcquireOs(t)
    BY <2>1 DEF Start, Resolve, AcquireLocal, AcquireOs, Goto, Inv, TypeOK,
       Working
  <2>2. CASE OsLockFails(t) \/ WriteDream(t) \/ Fail(t) \/ ReleaseOs(t)
    BY <2>2 DEF OsLockFails, WriteDream, Fail, Leave, ReleaseOs, Goto, Inv,
       TypeOK, Working
  <2>3. CASE ReleaseLocal(t)
    BY <2>3 DEF ReleaseLocal, Forget, Working
  <2>4. QED
    BY <1>1, <2>1, <2>2, <2>3 DEF Step
<1>2. ASSUME NEW u \in Tasks, u # t, Start(u) \/ Step(u)
      PROVE  \/ docs' = docs /\ Hand(t)' = Hand(t)
             \/ pc'[t] \notin Working
  <2>1. Hand(t)' = Hand(t)
    BY <1>2, OthersStay
  <2>2. CASE WriteDoc(u)
    <3>1. pc[u] \in Critical
      BY <2>2 DEF WriteDoc, Critical
    <3>2. pc[t] \notin Critical
      BY <1>2, <3>1, OnlyOneCritical
    <3>3. QED
      BY <2>1, <3>2 DEF Hand, Working, Critical
  <2>3. CASE ~WriteDoc(u)
    BY <1>2, <2>1, <2>3, DocsKept
  <2>4. QED
    BY <2>2, <2>3
<1>3. ASSUME NEW p \in Procs, Crash(p)
      PROVE  \/ docs' = docs /\ Hand(t)' = Hand(t)
             \/ pc'[t] \notin Working
  BY <1>3 DEF Crash, Forget, disk, Hand, Working
<1>4. CASE UNCHANGED vars
  BY <1>4 DEF vars, disk, local, Hand
<1>5. QED
  BY <1>1, <1>2, <1>3, <1>4 DEF Next, Finished

-----------------------------------------------------------------------------
(* Successors.                                                             *)

LEMMA SupersedeLineage ==
  ASSUME Inv, NEW t \in Tasks, pc[t] = "locked",
         NEW new \in SUBSET Ids, new # {}, NEW facts,
         Supersede(t, new, facts)
  PROVE  SuccessorFirst(t)'
<1> DEFINE w == [i \in Ids |->
                   IF i \in new THEN Created(facts, job[t].ids)
                   ELSE IF i \in job[t].ids
                   THEN Restatus(docs[i], "superseded")
                   ELSE docs[i]]
<1>1. Edit(t, new, job[t].ids, w)
  BY DEF Supersede, Reread
<1>2. job[t].ids \in SUBSET Ids
  BY DEF Inv, TypeOK
<1> HIDE DEF w
<1>3. /\ work'[t] = w /\ lead'[t] = new
      /\ follow'[t] \subseteq job[t].ids
  BY <1>1 DEF Edit, Inv, TypeOK
<1>4. /\ \A i \in new : w[i].status = "active" /\ w[i].supersedes = job[t].ids
  BY DEF w, Created, Rewrite
<1>5. ASSUME NEW i \in follow'[t], w[i].status = "superseded"
      PROVE  \E j \in Ids \ {i} : j \in new /\ i \in w[j].supersedes
  <2>1. i \notin new
    BY <1>4, <1>5
  <2>2. PICK j \in new : TRUE
    OBVIOUS
  <2>3. QED
    BY <1>3, <1>4, <2>1, <2>2
<1>6. QED
  BY <1>3, <1>4, <1>5 DEF SuccessorFirst

LEMMA PlanLineage ==
  ASSUME Inv, NEW t \in Tasks, Plan(t) PROVE SuccessorFirst(t)'
<1>1. /\ pc[t] = "locked" /\ job' = job
      /\ \A u \in Tasks : Reread(u) = docs
  BY DEF Plan, PlanWrite, PlanArchive, PlanSplit, PlanConsolidate, PlanMerge,
     PlanContradict, PlanPurge, PlanCapacity, PlanExpire, PlanRebuild,
     PlanPublish, Supersede, RestatusAll, Edit, Leave, Locked, local, Reread
<1>2. CASE job[t].kind \notin Hiding
  BY <1>1, <1>2 DEF SuccessorFirst
<1>3. CASE Leave(t)
  BY <1>3 DEF Leave, Goto, SuccessorFirst, Inv, TypeOK
<1>4. CASE PlanSplit(t) /\ ~Leave(t)
  <2>1. PICK new \in SUBSET Free(docs), f \in Facts :
          /\ Cardinality(new) \in 1..MaxPieces
          /\ Supersede(t, new, {f})
    BY <1>1, <1>4 DEF PlanSplit
  <2>2. new # {} /\ new \subseteq Ids
    BY <2>1, FS_EmptySet DEF Free
  <2>3. QED
    BY <1>1, <2>1, <2>2, SupersedeLineage
<1>5. CASE PlanConsolidate(t) /\ ~Leave(t)
  <2>1. PICK i \in Free(docs), f \in Facts : Supersede(t, {i}, {f})
    BY <1>1, <1>5 DEF PlanConsolidate
  <2>2. QED
    BY <1>1, <2>1, SupersedeLineage DEF Free
<1>6. CASE PlanMerge(t) /\ ~Leave(t)
  <2> DEFINE merged(target, f, sources) ==
               [i \in Ids |-> IF i = target THEN Append(docs[i], f, sources)
                              ELSE IF i \in sources \cap Present(docs)
                              THEN Restatus(docs[i], "superseded")
                              ELSE docs[i]]
  <2>1. PICK target \in job[t].ids, f \in Facts :
          \E sources \in SUBSET (Ids \ {target}) :
            Edit(t, {target}, sources \cap Present(docs),
                 merged(target, f, sources))
    BY <1>1, <1>6 DEF PlanMerge
  <2>2. PICK sources \in SUBSET (Ids \ {target}) :
          Edit(t, {target}, sources \cap Present(docs),
               merged(target, f, sources))
    BY <2>1
  <2> DEFINE w == merged(target, f, sources)
  <2>3. target \in Ids
    BY DEF Inv, TypeOK
  <2>4. /\ w[target].status = docs[target].status
        /\ sources \subseteq w[target].supersedes
    BY <2>3 DEF Append, Rewrite
  <2>5. Edit(t, {target}, sources \cap Present(docs), w)
    BY <2>2
  <2> HIDE DEF w, merged
  <2>6. /\ work'[t] = w /\ lead'[t] = {target} /\ docs' = docs
        /\ follow'[t] \subseteq sources
    BY <2>5, <1>1 DEF Edit, Inv, TypeOK, disk
  <2>7. QED
    BY <2>3, <2>4, <2>6 DEF SuccessorFirst
<1>7. QED
  BY <1>1, <1>2, <1>3, <1>4, <1>5, <1>6 DEF Plan, PlanWrite, PlanArchive,
     PlanContradict, PlanPurge, PlanCapacity, PlanExpire, PlanRebuild,
     PlanPublish, Locked, Hiding

\* What one write does, for the task that makes it.
LEMMA WriteFacts ==
  ASSUME Inv, NEW t \in Tasks, WriteDoc(t)
  PROVE  \E i \in Ids :
           /\ \/ i \in lead[t]
              \/ lead[t] = {} /\ i \in follow[t]
           /\ docs'[i] = work[t][i]
           /\ docs[i].supersedes \subseteq docs'[i].supersedes
           /\ \A j \in Ids \ {i} : docs'[j] = docs[j]
           /\ pc[t] = "write" /\ pc' = pc /\ job' = job /\ snap' = snap
           /\ work' = work
           /\ lead'[t] = lead[t] \ {i} /\ follow'[t] = follow[t] \ {i}
<1>1. PICK i \in IF lead[t] # {} THEN lead[t] ELSE follow[t] :
        /\ docs' = [docs EXCEPT ![i] = work[t][i]]
        /\ lead' = [lead EXCEPT ![t] = @ \ {i}]
        /\ follow' = [follow EXCEPT ![t] = @ \ {i}]
  BY DEF WriteDoc
<1>2. /\ i \in Ids
      /\ \/ i \in lead[t]
         \/ lead[t] = {} /\ i \in follow[t]
  BY <1>1 DEF Inv, TypeOK
<1>3. docs'[i] = work[t][i] /\ \A j \in Ids \ {i} : docs'[j] = docs[j]
  BY <1>1, <1>2 DEF Inv, TypeOK, DocMap
<1>4. lead'[t] = lead[t] \ {i} /\ follow'[t] = follow[t] \ {i}
  BY <1>1 DEF Inv, TypeOK
<1>5. docs[i].supersedes \subseteq docs'[i].supersedes
  BY <1>2, <1>3 DEF WriteDoc, Inv, WorkIsCurrent, Extends
<1>6. /\ pc[t] = "write" /\ pc' = pc /\ job' = job /\ snap' = snap
      /\ work' = work
  BY DEF WriteDoc
<1>7. QED
  BY <1>2, <1>3, <1>4, <1>5, <1>6

LEMMA WriteLineage ==
  ASSUME Inv, NEW t \in Tasks, SuccessorFirst(t), WriteDoc(t)
  PROVE  SuccessorFirst(t)'
<1>1. PICK i \in Ids :
        /\ \/ i \in lead[t]
           \/ lead[t] = {} /\ i \in follow[t]
        /\ docs'[i] = work[t][i]
        /\ docs[i].supersedes \subseteq docs'[i].supersedes
        /\ \A j \in Ids \ {i} : docs'[j] = docs[j]
        /\ pc[t] = "write" /\ pc' = pc /\ job' = job /\ snap' = snap
        /\ work' = work
        /\ lead'[t] = lead[t] \ {i} /\ follow'[t] = follow[t] \ {i}
  BY WriteFacts
<1> SUFFICES ASSUME job[t].kind \in Hiding PROVE SuccessorFirst(t)'
  BY <1>1 DEF SuccessorFirst
<1>2. lead[t] \subseteq Ids /\ follow[t] \subseteq Ids
  BY DEF Inv, TypeOK
<1>3. \A j \in lead'[t] :
        work'[t][j].status = "superseded" => docs'[j].status = "superseded"
  BY <1>1, <1>2 DEF SuccessorFirst
<1>4. ASSUME NEW k \in follow'[t], work'[t][k].status = "superseded"
      PROVE  \E j \in Ids \ {k} :
               \/ j \in lead'[t] /\ k \in work'[t][j].supersedes
               \/ k \in docs'[j].supersedes
  <2>1. PICK j \in Ids \ {k} :
          \/ j \in lead[t] /\ k \in work[t][j].supersedes
          \/ k \in docs[j].supersedes
    BY <1>1, <1>4 DEF SuccessorFirst
  <2>2. CASE j = i
    BY <1>1, <2>1, <2>2
  <2>3. CASE j # i
    BY <1>1, <2>1, <2>3
  <2>4. QED
    BY <2>2, <2>3
<1>5. QED
  BY <1>1, <1>3, <1>4 DEF SuccessorFirst

-----------------------------------------------------------------------------
(* Capacity.                                                               *)

LEMMA ScorableFinite ==
  ASSUME NEW d PROVE IsFiniteSet(Scorable(d)) /\ Scorable(d) \subseteq Ids
<1>1. Scorable(d) \subseteq Ids
  BY DEF Scorable, Matching, Present
<1>2. QED
  BY <1>1, FS_Subset, FiniteAssumption

\* A set that contains one that is large enough is large enough.
LEMMA AtLeast ==
  ASSUME NEW S, IsFiniteSet(S), NEW T \in SUBSET S, Cardinality(T) >= Capacity
  PROVE  Cardinality(S) >= Capacity
<1>1. /\ Cardinality(T) <= Cardinality(S)
      /\ Cardinality(T) \in Nat /\ Cardinality(S) \in Nat
  BY FS_Subset, FS_CardinalityType
<1>2. QED
  BY <1>1, ScopeAssumption

LEMMA PlanEnough ==
  ASSUME Inv, NEW t \in Tasks, Plan(t) PROVE EnoughLeft(t)'
<1>1. job' = job
  BY DEF Plan, PlanWrite, PlanArchive, PlanSplit, PlanConsolidate, PlanMerge,
     PlanContradict, PlanPurge, PlanCapacity, PlanExpire, PlanRebuild,
     PlanPublish, Supersede, RestatusAll, Edit, Leave, local
<1>2. CASE job[t].kind # "capacity"
  BY <1>1, <1>2 DEF EnoughLeft
<1>3. CASE Leave(t)
  BY <1>3 DEF Leave, Goto, EnoughLeft, Inv, TypeOK, Working
<1>4. CASE PlanCapacity(t) /\ ~Leave(t)
  <2> DEFINE scorable == Scorable(docs)
             w(S) == [i \in Ids |-> IF i \in S
                                    THEN Restatus(docs[i], "archived")
                                    ELSE docs[i]]
  <2>1. Reread(t) = docs
    BY DEF Reread
  <2>2. PICK S \in SUBSET (scorable \cap ProjectIds) :
          /\ Cardinality(S) \in Nat
             => Cardinality(S) <= Cardinality(scorable) - Capacity
          /\ RestatusAll(t, S, "archived")
    <3>1. /\ Cardinality(scorable) \in Nat
          /\ Cardinality(scorable \cap ProjectIds) \in Nat
          /\ Capacity \in Nat /\ MaxArchivals \in Nat
      BY ScorableFinite, FS_Subset, FS_CardinalityType, ScopeAssumption
    <3>2. QED
      BY <1>4, <2>1, <3>1 DEF PlanCapacity
  <2>3. Edit(t, {}, S, w(S))
    BY <2>1, <2>2 DEF RestatusAll
  <2> HIDE DEF w
  <2>4. /\ lead'[t] = {} /\ follow'[t] \subseteq S /\ snap'[t] = docs
        /\ docs' = docs
    BY <2>1, <2>3 DEF Edit, Inv, TypeOK, disk
  <2>5. /\ IsFiniteSet(S) /\ Cardinality(S) \in Nat
        /\ IsFiniteSet(scorable) /\ Cardinality(scorable) \in Nat
    BY ScorableFinite, FS_Subset, FS_CardinalityType
  <2>6. Cardinality(scorable \ S) >= Capacity
    <3>1. scorable \cap S = S
      OBVIOUS
    <3>2. Cardinality(scorable \ S) = Cardinality(scorable) - Cardinality(S)
      BY <2>5, <3>1, FS_Difference
    <3>3. QED
      BY <2>2, <2>5, <3>2, ScopeAssumption
  <2>7. IsFiniteSet(scorable \ follow'[t])
    BY <2>5, FS_Difference
  <2>8. Cardinality(scorable \ follow'[t]) >= Capacity
    BY <2>4, <2>6, <2>7, AtLeast
  <2>9. Scorable(docs)' = Scorable(docs)
    BY <2>4 DEF Scorable, Matching, Present, Exists
  <2>10. Scorable(snap[t])' = Scorable(docs)
    BY <2>4 DEF Scorable, Matching, Present, Exists
  <2>11. QED
    BY <2>2, <2>4, <2>8, <2>9, <2>10 DEF EnoughLeft
<1>5. QED
  BY <1>2, <1>3, <1>4 DEF Plan, PlanWrite, PlanArchive, PlanSplit,
     PlanConsolidate, PlanMerge, PlanContradict, PlanPurge, PlanExpire,
     PlanRebuild, PlanPublish, Locked

LEMMA WriteEnough ==
  ASSUME Inv, NEW t \in Tasks, EnoughLeft(t), WriteDoc(t)
  PROVE  EnoughLeft(t)'
<1>1. PICK i \in Ids :
        /\ \/ i \in lead[t]
           \/ lead[t] = {} /\ i \in follow[t]
        /\ docs'[i] = work[t][i]
        /\ docs[i].supersedes \subseteq docs'[i].supersedes
        /\ \A j \in Ids \ {i} : docs'[j] = docs[j]
        /\ pc[t] = "write" /\ pc' = pc /\ job' = job /\ snap' = snap
        /\ work' = work
        /\ lead'[t] = lead[t] \ {i} /\ follow'[t] = follow[t] \ {i}
  BY WriteFacts
<1> SUFFICES ASSUME job[t].kind = "capacity" PROVE EnoughLeft(t)'
  BY <1>1 DEF EnoughLeft
<1>2. /\ lead[t] = {} /\ follow[t] \subseteq ProjectIds
      /\ Cardinality(Scorable(docs) \ follow[t]) >= Capacity
      /\ Scorable(snap[t]) \ ProjectIds \subseteq Scorable(docs)
  BY <1>1 DEF EnoughLeft, Working
<1>3. i \in follow[t] /\ i \in ProjectIds
  BY <1>1, <1>2
<1>4. \A j \in Ids \ {i} : j \in Scorable(docs) => j \in Scorable(docs')
  BY <1>1 DEF Scorable, Matching, Present, Exists
<1>5. Scorable(docs) \ follow[t] \subseteq Scorable(docs') \ follow'[t]
  BY <1>1, <1>3, <1>4, ScorableFinite
<1>6. IsFiniteSet(Scorable(docs') \ follow'[t])
  BY ScorableFinite, FS_Difference
<1>7. Cardinality(Scorable(docs') \ follow'[t]) >= Capacity
  BY <1>2, <1>5, <1>6, AtLeast
<1>8. Scorable(snap[t]) \ ProjectIds \subseteq Scorable(docs')
  BY <1>2, <1>3, <1>4, ScorableFinite
<1>9. Scorable(docs)' = Scorable(docs') /\ Scorable(snap[t])' = Scorable(snap[t])
  BY <1>1 DEF Scorable, Matching, Present, Exists
<1>10. QED
  BY <1>1, <1>2, <1>7, <1>8, <1>9 DEF EnoughLeft

LEMMA RefreshEnough ==
  ASSUME Inv, NEW t \in Tasks, EnoughLeft(t),
         AppendAudit(t) \/ StageArtifacts(t) \/ RenameArtifact(t)
  PROVE  EnoughLeft(t)'
<1>1. /\ pc[t] \in Working /\ docs' = docs /\ job' = job
      /\ lead' = lead /\ follow' = follow
      /\ snap'[t] \in {snap[t], docs}
  BY DEF AppendAudit, StageArtifacts, RenameArtifact, disk, local, Working,
     Inv, TypeOK
<1>2. Scorable(docs)' = Scorable(docs)
  BY <1>1 DEF Scorable, Matching, Present, Exists
<1>3. Scorable(snap[t])' \in {Scorable(snap[t]), Scorable(docs)}
  BY <1>1 DEF Scorable, Matching, Present, Exists
<1>4. QED
  BY <1>1, <1>2, <1>3 DEF EnoughLeft

-----------------------------------------------------------------------------

LEMMA InitLineage == Init => LineageInv
  BY DEF Init, LineageInv, SuccessorFirst, EnoughLeft, Working

\* What a task has in hand, and the documents, are all that is asked about.
LEMMA HandKept ==
  ASSUME NEW t \in Tasks, SuccessorFirst(t), EnoughLeft(t), docs' = docs,
         Hand(t)' = Hand(t)
  PROVE  SuccessorFirst(t)' /\ EnoughLeft(t)'
<1>1. /\ pc'[t] = pc[t] /\ job'[t] = job[t] /\ snap'[t] = snap[t]
      /\ work'[t] = work[t] /\ lead'[t] = lead[t] /\ follow'[t] = follow[t]
  BY DEF Hand
<1>2. /\ Scorable(docs)' = Scorable(docs)
      /\ Scorable(snap[t])' = Scorable(snap[t])
  BY <1>1 DEF Scorable, Matching, Present, Exists
<1>3. SuccessorFirst(t)'
  BY <1>1 DEF SuccessorFirst
<1>4. EnoughLeft(t)'
  BY <1>1, <1>2 DEF EnoughLeft
<1>5. QED
  BY <1>3, <1>4

LEMMA StepLineage == Inv /\ LineageInv /\ [Next]_vars => LineageInv'
<1> SUFFICES ASSUME Inv, LineageInv, [Next]_vars, NEW t \in Tasks
             PROVE  SuccessorFirst(t)' /\ EnoughLeft(t)'
  BY DEF LineageInv
<1>1. SuccessorFirst(t) /\ EnoughLeft(t)
  BY DEF LineageInv
<1>2. CASE docs' = docs /\ Hand(t)' = Hand(t)
  BY <1>1, <1>2, HandKept
<1>3. CASE pc'[t] \notin Working
  BY <1>3 DEF SuccessorFirst, EnoughLeft, Working
<1>4. CASE Plan(t)
  BY <1>4, PlanLineage, PlanEnough
<1>5. CASE WriteDoc(t)
  BY <1>1, <1>5, WriteLineage, WriteEnough
<1>6. CASE AppendAudit(t) \/ StageArtifacts(t) \/ RenameArtifact(t)
  <2>1. pc'[t] # "write"
    BY <1>6 DEF AppendAudit, StageArtifacts, RenameArtifact, Goto, Inv, TypeOK
  <2>2. QED
    BY <1>1, <1>6, <2>1, RefreshEnough DEF SuccessorFirst
<1>7. QED
  BY <1>2, <1>3, <1>4, <1>5, <1>6, Frame

LEMMA LineageHolds == Spec => []LineageInv
<1>1. QED
  BY InitLineage, StepLineage, Invariance, PTL DEF Spec

\* split_memory, consolidate_memories, merge_memory: whatever fails or crashes
\* between their writes, whoever else writes, a memory is superseded only when
\* the one that supersedes it is on disk.
THEOREM NothingHiddenAlone == Spec => HiddenOnlyBySuccessor
<1>1. ASSUME Inv, LineageInv, [Next]_vars, NEW i \in Ids, NEW t \in Tasks,
             job[t].kind \in Hiding, pc[t] = "write",
             docs'[i].status = "superseded", docs[i].status # "superseded"
      PROVE  \E j \in Ids \ {i} : i \in docs[j].supersedes
  <2>1. WriteDoc(t)
    <3>1. docs' # docs /\ pc[t] \in Critical
      BY <1>1 DEF Critical
    <3>2. PICK u \in Tasks : WriteDoc(u)
      BY <1>1, <3>1, DocsKept DEF Next, Crash, Finished, vars, disk
    <3>3. pc[u] \in Critical
      BY <3>2 DEF WriteDoc, Critical
    <3>4. QED
      BY <1>1, <3>1, <3>2, <3>3, OnlyOneCritical
  <2>2. PICK k \in Ids :
          /\ \/ k \in lead[t]
             \/ lead[t] = {} /\ k \in follow[t]
          /\ docs'[k] = work[t][k]
          /\ \A j \in Ids \ {k} : docs'[j] = docs[j]
    BY <1>1, <2>1, WriteFacts
  <2>3. k = i
    BY <1>1, <2>2
  <2>4. SuccessorFirst(t)
    BY <1>1 DEF LineageInv
  <2>5. QED
    BY <1>1, <2>2, <2>3, <2>4 DEF SuccessorFirst
<1>2. Inv /\ LineageInv /\ [Next]_vars =>
        [\A i \in Ids, t \in Tasks :
           /\ job[t].kind \in {"split", "consolidate", "merge"}
           /\ pc[t] = "write" /\ oslock = t
           /\ docs'[i].status = "superseded" /\ docs[i].status # "superseded"
           => \E j \in Ids \ {i} : i \in docs[j].supersedes]_docs
  BY <1>1 DEF Hiding
<1>3. QED
  BY <1>2, Invariance, LineageHolds, PTL DEF Spec, HiddenOnlyBySuccessor

\* enforce_scope_capacity: at every moment of its work, for any number of
\* documents and any other writers, recall keeps Capacity memories and every
\* exempt one the gardener found.
THEOREM CapacityKept == Spec => []CapacityFloor
<1>1. Inv /\ LineageInv => CapacityFloor
  <2> SUFFICES ASSUME LineageInv, NEW t \in Tasks,
                      job[t].kind = "capacity", pc[t] \in Working
               PROVE  /\ Cardinality(Scorable(docs)) >= Capacity
                      /\ Scorable(snap[t]) \ ProjectIds \subseteq Scorable(docs)
    BY DEF CapacityFloor, Working
  <2>1. /\ Cardinality(Scorable(docs) \ follow[t]) >= Capacity
        /\ Scorable(snap[t]) \ ProjectIds \subseteq Scorable(docs)
    BY DEF LineageInv, EnoughLeft
  <2>2. QED
    BY <2>1, ScorableFinite, AtLeast
<1>2. QED
  BY <1>1, Invariance, LineageHolds, PTL
=============================================================================
