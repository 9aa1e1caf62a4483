----------------------------- MODULE ScopeStore -----------------------------
(***************************************************************************)
(* One durable memory scope of the jiandu-memory crate (store.rs): the     *)
(* canonical documents, the artifacts derived from them, the Dream         *)
(* snapshot, and every operation that mutates them.  Tasks are mutator     *)
(* futures; each runs in one OS process.  A mutator resolves its targets   *)
(* without a lock, takes the process-local mutex and then the OS advisory  *)
(* lock of the scope, reads the documents again, writes them one file at a *)
(* time, appends its audit line, and publishes the artifacts by renaming   *)
(* them one by one, the generation marker last.  Any step may fail, and a  *)
(* process may crash between any two steps.                                *)
(*                                                                         *)
(* Data abstraction.  A body is the set of facts written into it, a        *)
(* document's rev counts its rewrites (it stands for updated_at, which     *)
(* every rewrite changes), and a generation is the document map it was     *)
(* hashed from.  Arguments that nothing reads before the lock is held are  *)
(* chosen when they are first used.                                        *)
(***************************************************************************)
EXTENDS Integers, FiniteSets

CONSTANTS
    Procs,          \* OS processes sharing the data directory
    Tasks,          \* mutator futures
    ProcOf,         \* the process a task runs in
    Ids,            \* memory ids of the scope
    Facts,          \* what a body may say
    InitIds,        \* the documents already there
    ProjectIds,     \* ids given to documents of type project (evictable)
    VolatileIds,    \* ids given to documents of day or week granularity
    Kinds,          \* the operations in use
    Modes,          \* target statuses the callers of archive and purge pass
    MaxFacts,       \* MAX_DURABLE_MEMORY_BODY_CHARS, in facts
    MaxPieces,      \* bound on the pieces of one split
    Capacity,       \* capacity passed to the capacity gardener
    MaxArchivals,   \* max_archivals passed to the capacity gardener
    MaxOps,         \* bound on the operations started, rebuilds aside
    None            \* no task, no snapshot

Statuses == {"active", "stale", "superseded", "contradicted", "archived"}

ResolvingKinds == {"archive", "split", "consolidate", "contradict", "merge"}

ListingKinds == {"write", "purge", "capacity", "expire", "rebuild"}

AllKinds == ResolvingKinds \cup ListingKinds \cup {"publish"}

\* The files of one refresh, in the order they are renamed.  "lexical" and
\* "graph" stand for the ten artifacts that precede the generation marker.
Artifacts == {"lexical", "graph", "generation"}

\* Mutant: the generation marker is not the last file.
MarkerFirst == <<"generation", "lexical", "graph">>

ArtifactAt == <<"lexical", "graph", "generation">>

ASSUME ScopeAssumption ==
    /\ ProcOf \in [Tasks -> Procs]
    /\ InitIds \subseteq Ids
    /\ Kinds \subseteq AllKinds
    /\ Modes \subseteq Statuses
    /\ MaxFacts \in Nat \ {0}
    /\ MaxPieces \in Nat \ {0}
    /\ Capacity \in Nat \ {0}
    /\ MaxArchivals \in Nat \ {0}
    /\ MaxOps \in Nat
    /\ None \notin Tasks

-----------------------------------------------------------------------------

Doc == [status : Statuses \cup {"none"}, body : SUBSET Facts,
        supersedes : SUBSET Ids, contradictedBy : SUBSET Ids, rev : Nat]

NoDoc == [status |-> "none", body |-> {}, supersedes |-> {},
          contradictedBy |-> {}, rev |-> 0]

DocMap == [Ids -> Doc]

ASSUME NoneAssumption == None \notin DocMap

\* A directory holds finitely many documents.
ASSUME FiniteAssumption == IsFiniteSet(Ids)

NoDocs == [i \in Ids |-> NoDoc]

VARIABLES
    docs,       \* topics/*.md: the canonical documents
    artifacts,  \* the derived files, each as the documents it was built from
    dream,      \* DREAM.md, as its source_generation
    mutex,      \* process-local scope mutex of each process
    oslock,     \* OS advisory lock on the scope's lock file
    pc,         \* where each task is
    job,        \* what each task does, and to which ids
    snap,       \* the document map a task last read
    work,       \* the rewritten documents a task holds in memory
    lead,       \* documents a task writes first
    follow,     \* documents a task writes after all of lead
    next,       \* the artifact a task renames next
    ops         \* operations started, rebuilds aside

disk == <<docs, artifacts, dream>>
locks == <<mutex, oslock>>
local == <<job, snap, work, lead, follow, next>>
vars == <<disk, locks, pc, local, ops>>

Idle == [kind |-> "idle", ids |-> {}]

\* A task holds the OS lock in these places.
Critical == {"locked", "write", "refresh", "rename", "dream", "refreshed",
             "leave"}

Places == Critical \cup {"idle", "resolve", "local", "os", "unlock"}

Exists(d, i) == d[i].rev > 0

Present(d) == {i \in Ids : Exists(d, i)}

Free(d) == Ids \ Present(d)

Matching(d, S) == {i \in Present(d) : d[i].status \in S}

\* The rewrite of a document: every rewrite sets updated_at.
Rewrite(doc, status, body, supersedes, contradictedBy) ==
    [status |-> status, body |-> body, supersedes |-> supersedes,
     contradictedBy |-> contradictedBy, rev |-> doc.rev + 1]

Created(facts, old) == Rewrite(NoDoc, "active", facts, old, {})

\* set_memory_status: no write when the status is already the one wanted.
Restatus(doc, status) ==
    IF doc.status = status THEN doc
    ELSE Rewrite(doc, status, doc.body, doc.supersedes, doc.contradictedBy)

Append(doc, fact, old) ==
    Rewrite(doc, doc.status, doc.body \cup {fact}, doc.supersedes \cup old,
            doc.contradictedBy)

Init ==
    /\ docs = [i \in Ids |->
                 IF i \in InitIds
                 THEN Created({}, {})
                 ELSE NoDoc]
    /\ artifacts \in {[a \in Artifacts |-> docs], [a \in Artifacts |-> None]}
    /\ dream = None
    /\ mutex = [p \in Procs |-> None]
    /\ oslock = None
    /\ pc = [t \in Tasks |-> "idle"]
    /\ job = [t \in Tasks |-> Idle]
    /\ snap = [t \in Tasks |-> NoDocs]
    /\ work = [t \in Tasks |-> NoDocs]
    /\ lead = [t \in Tasks |-> {}]
    /\ follow = [t \in Tasks |-> {}]
    /\ next = [t \in Tasks |-> 1]
    /\ ops = 0

Goto(t, place) == pc' = [pc EXCEPT ![t] = place]

-----------------------------------------------------------------------------
(* Reaching the critical section.                                          *)

\* current_scope_generation: the marker file, or the generation of the empty
\* scope when there is no marker and no document; otherwise an error.
CurrentGeneration ==
    IF artifacts["generation"] # None THEN artifacts["generation"]
    ELSE IF Present(docs) = {} THEN docs ELSE None

\* A caller starts an operation.  A Dream publisher first observed a generation.
\* Rebuilds are not counted: they change no document, so a run may hold any
\* number of them.
Start(t) ==
    /\ pc[t] = "idle"
    /\ \/ /\ \E k \in Kinds \cap ResolvingKinds, I \in SUBSET Ids :
                /\ IF k = "consolidate" THEN Cardinality(I) >= 2
                                        ELSE Cardinality(I) = 1
                /\ job' = [job EXCEPT ![t] = [kind |-> k, ids |-> I]]
          /\ Goto(t, "resolve")
          /\ UNCHANGED snap
       \/ /\ \E k \in Kinds \cap ListingKinds :
                job' = [job EXCEPT ![t] = [kind |-> k, ids |-> {}]]
          /\ Goto(t, "local")
          /\ UNCHANGED snap
       \/ /\ "publish" \in Kinds
          /\ CurrentGeneration # None
          /\ job' = [job EXCEPT ![t] = [kind |-> "publish", ids |-> {}]]
          /\ snap' = [snap EXCEPT ![t] = CurrentGeneration]
          /\ Goto(t, "local")
    /\ IF job'[t].kind = "rebuild" THEN UNCHANGED ops
       ELSE ops < MaxOps /\ ops' = ops + 1
    /\ UNCHANGED <<disk, locks, work, lead, follow, next>>

\* get_memory before the lock: a missing id ends the call.
Resolve(t) ==
    /\ pc[t] = "resolve"
    /\ IF job[t].ids \subseteq Present(docs)
       THEN /\ snap' = [snap EXCEPT ![t] = docs]
            /\ Goto(t, "local")
            /\ UNCHANGED job
       ELSE /\ job' = [job EXCEPT ![t] = Idle]
            /\ Goto(t, "idle")
            /\ UNCHANGED snap
    /\ UNCHANGED <<disk, locks, work, lead, follow, next, ops>>

\* Mutant: every store instance has a mutex of its own.
AcquireOwnMutex(t) ==
    /\ pc[t] = "local"
    /\ mutex' = [mutex EXCEPT ![ProcOf[t]] = t]
    /\ Goto(t, "os")
    /\ UNCHANGED <<disk, oslock, local, ops>>

AcquireLocal(t) ==
    /\ pc[t] = "local"
    /\ mutex[ProcOf[t]] = None
    /\ mutex' = [mutex EXCEPT ![ProcOf[t]] = t]
    /\ Goto(t, "os")
    /\ UNCHANGED <<disk, oslock, local, ops>>

\* Mutant: the file lock is a shared one.
AcquireOsShared(t) ==
    /\ pc[t] = "os"
    /\ oslock' = t
    /\ Goto(t, "locked")
    /\ UNCHANGED <<disk, mutex, local, ops>>

AcquireOs(t) ==
    /\ pc[t] = "os"
    /\ oslock = None
    /\ oslock' = t
    /\ Goto(t, "locked")
    /\ UNCHANGED <<disk, mutex, local, ops>>

\* Mutant: the error returns before the local owner is dropped.
OsLockFailsKeepingMutex(t) ==
    /\ pc[t] = "os"
    /\ Goto(t, "idle")
    /\ UNCHANGED <<disk, locks, local, ops>>

\* Opening or locking the lock file fails: the local owner is dropped.
OsLockFails(t) ==
    /\ pc[t] = "os"
    /\ Goto(t, "unlock")
    /\ UNCHANGED <<disk, locks, local, ops>>

-----------------------------------------------------------------------------
(* What each operation decides to write, under the lock.                   *)

\* Mutant: the five resolve-then-lock methods do not read again.
StaleReread(t) == IF job[t].kind \in ResolvingKinds THEN snap[t] ELSE docs

\* The documents as read again under the lock.
Reread(t) == docs

\* projected_merged_body_chars within the cap, or nothing to append.
Fits(doc, fact) == Cardinality(doc.body \cup {fact}) <= MaxFacts

\* Write the documents of w that differ from the ones read, first before then.
Edit(t, first, then, w) ==
    /\ snap' = [snap EXCEPT ![t] = Reread(t)]
    /\ work' = [work EXCEPT ![t] = w]
    /\ lead' = [lead EXCEPT ![t] = first]
    /\ follow' = [follow EXCEPT ![t] = {i \in then : w[i] # Reread(t)[i]}]
    /\ Goto(t, "write")
    /\ UNCHANGED <<disk, locks, job, next, ops>>

\* Return without writing: refused, nothing to do, no id left.  (A target that
\* was resolved is still there under the lock: no operation deletes a document,
\* so the not-found return after the second read is never taken.)
Leave(t) ==
    /\ Goto(t, "leave")
    /\ UNCHANGED <<disk, locks, local, ops>>

Locked(t, kind) == pc[t] = "locked" /\ job[t].kind = kind

\* write_memory: append to a similar active memory if the body cap allows,
\* else create a memory under an id no file has.
PlanWrite(t) ==
    /\ Locked(t, "write")
    /\ \E f \in Facts :
         \/ \E i \in Matching(Reread(t), {"active"}) :
              /\ Fits(Reread(t)[i], f)
              /\ Edit(t, {i}, {}, [Reread(t) EXCEPT ![i] = Append(@, f, {})])
         \/ \E i \in Free(Reread(t)) :
              Edit(t, {i}, {}, [Reread(t) EXCEPT ![i] = Created({f}, {})])
         \/ Free(Reread(t)) = {} /\ Leave(t)

\* archive_memory
PlanArchive(t) ==
    /\ Locked(t, "archive")
    /\ \E m \in Modes :
         Edit(t, {}, job[t].ids,
              [i \in Ids |-> IF i \in job[t].ids THEN Restatus(Reread(t)[i], m)
                             ELSE Reread(t)[i]])

\* Mutant: the targets may be marked before their successors are written.
SupersedeUnordered(t, new, facts) ==
    Edit(t, {}, new \cup job[t].ids,
         [i \in Ids |->
            IF i \in new THEN Created(facts, job[t].ids)
            ELSE IF i \in job[t].ids THEN Restatus(Reread(t)[i], "superseded")
            ELSE Reread(t)[i]])

\* The new documents supersede the targets, which are marked after all of them.
Supersede(t, new, facts) ==
    Edit(t, new, job[t].ids,
         [i \in Ids |->
            IF i \in new THEN Created(facts, job[t].ids)
            ELSE IF i \in job[t].ids THEN Restatus(Reread(t)[i], "superseded")
            ELSE Reread(t)[i]])

\* split_memory: one new document per piece.
PlanSplit(t) ==
    /\ Locked(t, "split")
    /\ \/ \E new \in SUBSET Free(Reread(t)), f \in Facts :
            /\ Cardinality(new) \in 1..MaxPieces
            /\ Supersede(t, new, {f})
       \/ Free(Reread(t)) = {} /\ Leave(t)

\* consolidate_memories: one new document for all the targets.
PlanConsolidate(t) ==
    /\ Locked(t, "consolidate")
    /\ \/ \E i \in Free(Reread(t)), f \in Facts : Supersede(t, {i}, {f})
       \/ Free(Reread(t)) = {} /\ Leave(t)

\* merge_memory: append to the target, then supersede the named sources that
\* exist; ids that do not exist are still recorded in supersedes.
PlanMerge(t) ==
    /\ Locked(t, "merge")
    /\ \E target \in job[t].ids, f \in Facts :
       \E sources \in SUBSET (Ids \ {target}) :
         \/ /\ Fits(Reread(t)[target], f)
            /\ Edit(t, {target}, sources \cap Present(Reread(t)),
                    [i \in Ids |->
                       IF i = target
                       THEN Append(Reread(t)[i], f, sources)
                       ELSE IF i \in sources \cap Present(Reread(t))
                       THEN Restatus(Reread(t)[i], "superseded")
                       ELSE Reread(t)[i]])
         \/ ~Fits(Reread(t)[target], f) /\ Leave(t)

\* mark_memory_contradicted: only contradicting ids that exist count.
PlanContradict(t) ==
    /\ Locked(t, "contradict")
    /\ \E target \in job[t].ids :
       \E by \in SUBSET (Present(Reread(t)) \ {target}) :
         LET old == Reread(t)[target]
             links == old.contradictedBy \cup by
             status == IF by # {} THEN "contradicted" ELSE old.status
             new == IF status = old.status /\ links = old.contradictedBy
                    THEN old
                    ELSE Rewrite(old, status, old.body, old.supersedes, links)
         IN  Edit(t, {}, {target}, [Reread(t) EXCEPT ![target] = new])

RestatusAll(t, S, status) ==
    Edit(t, {}, S,
         [i \in Ids |-> IF i \in S THEN Restatus(Reread(t)[i], status)
                        ELSE Reread(t)[i]])

\* purge_memories: every document the filter matches.
PlanPurge(t) ==
    /\ Locked(t, "purge")
    /\ \E S \in {{s} : s \in Statuses} \cup {Statuses}, m \in Modes :
         RestatusAll(t, Matching(Reread(t), S), m)

Scorable(d) == Matching(d, {"active", "stale"})

\* Mutant: the overflow is one too many.
PlanCapacityOneTooMany(t) ==
    /\ Locked(t, "capacity")
    /\ LET scorable == Scorable(Reread(t))
           evictable == scorable \cap ProjectIds
           overflow == Cardinality(scorable) - Capacity + 1
       IN  IF overflow <= 0 \/ evictable = {} THEN Leave(t)
           ELSE \E i \in evictable : RestatusAll(t, {i}, "archived")

\* enforce_scope_capacity: archive the least valuable evictable documents
\* (any, as values are not modelled), never more than overflow or the budget,
\* and none when the exempt documents alone exceed the capacity.
PlanCapacity(t) ==
    /\ Locked(t, "capacity")
    /\ LET scorable == Scorable(Reread(t))
           evictable == scorable \cap ProjectIds
           overflow == Cardinality(scorable) - Capacity
           Least(a, b) == IF a < b THEN a ELSE b
           target == Least(Least(overflow, MaxArchivals),
                           Cardinality(evictable))
       IN  IF \/ overflow <= 0
              \/ Cardinality(scorable \ evictable) > Capacity
              \/ target = 0
           THEN Leave(t)
           ELSE \E S \in SUBSET evictable :
                  /\ Cardinality(S) = target
                  /\ RestatusAll(t, S, "archived")

\* expire_stale_granularity: the active volatile documents that are old enough.
PlanExpire(t) ==
    /\ Locked(t, "expire")
    /\ \E S \in SUBSET (Matching(Reread(t), {"active"}) \cap VolatileIds) :
         IF S = {} THEN Leave(t) ELSE RestatusAll(t, S, "stale")

\* rebuild_scope
PlanRebuild(t) ==
    /\ Locked(t, "rebuild")
    /\ Goto(t, "refresh")
    /\ UNCHANGED <<disk, locks, local, ops>>

\* Mutant: the observed generation is not compared with the current one.
PlanPublishUnchecked(t) ==
    /\ Locked(t, "publish")
    /\ Goto(t, "dream")
    /\ UNCHANGED <<disk, locks, local, ops>>

\* publish_dream_snapshot: the generation is recomputed from the documents and
\* compared with the one the host observed.
PlanPublish(t) ==
    /\ Locked(t, "publish")
    /\ IF snap[t] = Reread(t)
       THEN Goto(t, "dream") /\ UNCHANGED <<disk, locks, local, ops>>
       ELSE Leave(t)

Plan(t) ==
    \/ PlanWrite(t)
    \/ PlanArchive(t)
    \/ PlanSplit(t)
    \/ PlanConsolidate(t)
    \/ PlanMerge(t)
    \/ PlanContradict(t)
    \/ PlanPurge(t)
    \/ PlanCapacity(t)
    \/ PlanExpire(t)
    \/ PlanRebuild(t)
    \/ PlanPublish(t)

-----------------------------------------------------------------------------
(* Carrying it out.                                                        *)

\* write_document: one atomic replacement of one topic file.
WriteDoc(t) ==
    /\ pc[t] = "write"
    /\ \E i \in IF lead[t] # {} THEN lead[t] ELSE follow[t] :
         /\ docs' = [docs EXCEPT ![i] = work[t][i]]
         /\ lead' = [lead EXCEPT ![t] = @ \ {i}]
         /\ follow' = [follow EXCEPT ![t] = @ \ {i}]
    /\ UNCHANGED <<artifacts, dream, locks, pc, job, snap, work, next, ops>>

\* append_audit.  The gardeners audit each document right after writing it; an
\* audit that fails there is Fail between two writes.
AppendAudit(t) ==
    /\ pc[t] = "write"
    /\ lead[t] = {} /\ follow[t] = {}
    /\ Goto(t, "refresh")
    /\ UNCHANGED <<disk, locks, local, ops>>

\* Mutant: the refresh renders the documents in memory, even before they are
\* written.
StageBeforeWriting(t) ==
    /\ pc[t] \in {"write", "refresh"}
    /\ snap' = [snap EXCEPT ![t] = IF pc[t] = "write" THEN work[t] ELSE docs]
    /\ next' = [next EXCEPT ![t] = 1]
    /\ Goto(t, "rename")
    /\ UNCHANGED <<disk, locks, job, work, lead, follow, ops>>

\* Mutant: the refresh renders the documents as listed before the write.
StageOldListing(t) ==
    /\ pc[t] = "refresh"
    /\ next' = [next EXCEPT ![t] = 1]
    /\ Goto(t, "rename")
    /\ UNCHANGED <<disk, locks, job, snap, work, lead, follow, ops>>

\* refresh_scope_artifacts: list the documents, render and stage every file.
StageArtifacts(t) ==
    /\ pc[t] = "refresh"
    /\ snap' = [snap EXCEPT ![t] = docs]
    /\ next' = [next EXCEPT ![t] = 1]
    /\ Goto(t, "rename")
    /\ UNCHANGED <<disk, locks, job, work, lead, follow, ops>>

\* Mutant: the index of the next file runs past the last one.
RenamePastTheEnd(t) ==
    /\ pc[t] = "rename"
    /\ artifacts' = [artifacts EXCEPT ![ArtifactAt[next[t]]] = snap[t]]
    /\ next' = [next EXCEPT ![t] = @ + 1]
    /\ IF next[t] = 3 THEN Goto(t, "refreshed") ELSE UNCHANGED pc
    /\ UNCHANGED <<docs, dream, locks, job, snap, work, lead, follow, ops>>

\* atomic_write_batch, phase 2: one rename.
RenameArtifact(t) ==
    /\ pc[t] = "rename"
    /\ artifacts' = [artifacts EXCEPT ![ArtifactAt[next[t]]] = snap[t]]
    /\ IF next[t] = 3
       THEN Goto(t, "refreshed") /\ UNCHANGED next
       ELSE next' = [next EXCEPT ![t] = @ + 1] /\ UNCHANGED pc
    /\ UNCHANGED <<docs, dream, locks, job, snap, work, lead, follow, ops>>

WriteDream(t) ==
    /\ pc[t] = "dream"
    /\ dream' = snap[t]
    /\ Goto(t, "leave")
    /\ UNCHANGED <<docs, artifacts, locks, local, ops>>

\* An I/O error: the ? operator returns, the guard is dropped, and what was
\* written stays.
Fail(t) ==
    /\ pc[t] \in {"locked", "write", "refresh", "rename", "dream"}
    /\ Leave(t)

\* Mutant: the file lock outlives the guard.
ReleaseOsForgotten(t) ==
    /\ pc[t] \in {"refreshed", "leave"}
    /\ Goto(t, "unlock")
    /\ UNCHANGED <<disk, locks, local, ops>>

\* ScopeWriteGuard drops its advisory half first, then the local half.
ReleaseOs(t) ==
    /\ pc[t] \in {"refreshed", "leave"}
    /\ oslock' = None
    /\ Goto(t, "unlock")
    /\ UNCHANGED <<disk, mutex, local, ops>>

Forget(T) ==
    /\ pc' = [t \in Tasks |-> IF t \in T THEN "idle" ELSE pc[t]]
    /\ job' = [t \in Tasks |-> IF t \in T THEN Idle ELSE job[t]]
    /\ snap' = [t \in Tasks |-> IF t \in T THEN NoDocs ELSE snap[t]]
    /\ work' = [t \in Tasks |-> IF t \in T THEN NoDocs ELSE work[t]]
    /\ lead' = [t \in Tasks |-> IF t \in T THEN {} ELSE lead[t]]
    /\ follow' = [t \in Tasks |-> IF t \in T THEN {} ELSE follow[t]]
    /\ next' = [t \in Tasks |-> IF t \in T THEN 1 ELSE next[t]]

ReleaseLocal(t) ==
    /\ pc[t] = "unlock"
    /\ mutex' = [mutex EXCEPT ![ProcOf[t]] = None]
    /\ Forget({t})
    /\ UNCHANGED <<disk, oslock, ops>>

\* A process dies: its tasks and its mutex vanish, the kernel drops its file
\* lock, the files stay as they are.
Crash(p) ==
    /\ \E t \in Tasks : ProcOf[t] = p /\ pc[t] # "idle"
    /\ Forget({t \in Tasks : ProcOf[t] = p})
    /\ mutex' = [mutex EXCEPT ![p] = None]
    /\ oslock' = IF \E t \in Tasks : ProcOf[t] = p /\ oslock = t
                 THEN None ELSE oslock
    /\ UNCHANGED <<disk, ops>>

\* Every operation of the bounded run has ended.
Finished ==
    /\ ops = MaxOps
    /\ \A t \in Tasks : pc[t] = "idle"
    /\ UNCHANGED vars

Step(t) ==
    \/ Resolve(t)
    \/ AcquireLocal(t)
    \/ AcquireOs(t)
    \/ OsLockFails(t)
    \/ Plan(t)
    \/ WriteDoc(t)
    \/ AppendAudit(t)
    \/ StageArtifacts(t)
    \/ RenameArtifact(t)
    \/ WriteDream(t)
    \/ Fail(t)
    \/ ReleaseOs(t)
    \/ ReleaseLocal(t)

Next ==
    \/ \E t \in Tasks : Start(t) \/ Step(t)
    \/ \E p \in Procs : Crash(p)
    \/ Finished

Spec == Init /\ [][Next]_vars

\* What a task does on its own once it has what it waits for.  Errors are not
\* among these steps: they may happen, and nothing forces one.
Proceed(t) ==
    \/ Resolve(t)
    \/ Plan(t)
    \/ WriteDoc(t)
    \/ AppendAudit(t)
    \/ StageArtifacts(t)
    \/ RenameArtifact(t)
    \/ WriteDream(t)
    \/ ReleaseOs(t)
    \/ ReleaseLocal(t)

\* Tokio drives every accepted task, and its mutex is FIFO.  A waiter on the
\* file lock blocks until the lock is granted: neither time nor the holder makes
\* file.lock() fail.  flock queues are not FIFO in general: strong fairness on
\* AcquireOs assumes a waiting process is not overtaken for ever.
Fairness ==
    \A t \in Tasks :
      /\ WF_vars(Proceed(t))
      /\ SF_vars(AcquireLocal(t))
      /\ SF_vars(AcquireOs(t))

FairSpec == Spec /\ Fairness

-----------------------------------------------------------------------------

TypeOK ==
    /\ docs \in DocMap
    /\ artifacts \in [Artifacts -> DocMap \cup {None}]
    /\ dream \in DocMap \cup {None}
    /\ mutex \in [Procs -> Tasks \cup {None}]
    /\ oslock \in Tasks \cup {None}
    /\ pc \in [Tasks -> Places]
    /\ job \in [Tasks -> [kind : AllKinds \cup {"idle"}, ids : SUBSET Ids]]
    /\ snap \in [Tasks -> DocMap]
    /\ work \in [Tasks -> DocMap]
    /\ lead \in [Tasks -> SUBSET Ids]
    /\ follow \in [Tasks -> SUBSET Ids]
    /\ next \in [Tasks -> 1..3]
    /\ ops \in 0..MaxOps

\* Writers of one scope never overlap, in one process or across processes
\* (acquire_scope_write_guard).
MutualExclusion ==
    \A t, u \in Tasks : pc[t] \in Critical /\ pc[u] \in Critical => t = u

\* The local mutex keeps one process from queueing two blocking waiters for the
\* file lock: at most one task of a process is past the mutex.
OneWaiterPerProcess ==
    \A t, u \in Tasks :
        /\ ProcOf[t] = ProcOf[u]
        /\ pc[t] \in Critical \cup {"os", "unlock"}
        /\ pc[u] \in Critical \cup {"os", "unlock"}
        => t = u

\* new is what one more edit makes of old: nothing said or linked is dropped.
Extends(new, old) ==
    /\ new.rev = old.rev + 1
    /\ old.body \subseteq new.body
    /\ old.supersedes \subseteq new.supersedes
    /\ old.contradictedBy \subseteq new.contradictedBy

\* No lost update (#235): whatever the interleaving, each change of a document
\* is one edit of the version that is on disk, no document ever disappears, and
\* no edit takes another one's content back.
NoLostUpdate ==
    [][\A i \in Ids : docs'[i] # docs[i] => Extends(docs'[i], docs[i])]_docs

\* The generation marker is renamed last: when it names the documents on disk,
\* every other derived file was built from exactly them, whatever failed or
\* crashed before.
MarkerVouchesForIndexes ==
    artifacts["generation"] = docs =>
        \A a \in Artifacts : artifacts[a] = docs

\* An operation that reports success after its refresh leaves derived files
\* that agree with the documents, even after earlier failures: this is why one
\* rebuild repairs a scope.
SuccessIsFresh ==
    \A t \in Tasks :
        pc[t] = "refreshed" => \A a \in Artifacts : artifacts[a] = docs

\* An index never names a memory that get cannot open, not even one left behind
\* by a crash or a failed refresh: recall's hydration of a hit cannot miss.
IndexNeverDangles ==
    \A a \in Artifacts :
        artifacts[a] # None => Present(artifacts[a]) \subseteq Present(docs)

\* Split, consolidate and merge hide a memory only once a document that
\* supersedes it is on disk, so no crash or error between their writes can
\* hide a memory without lineage.
HiddenOnlyBySuccessor ==
    [][\A i \in Ids, t \in Tasks :
         /\ job[t].kind \in {"split", "consolidate", "merge"}
         /\ pc[t] = "write" /\ oslock = t
         /\ docs'[i].status = "superseded" /\ docs[i].status # "superseded"
         => \E j \in Ids \ {i} : i \in docs[j].supersedes]_docs

\* While the capacity gardener works, recall keeps at least the capacity: it
\* stops exactly at the bound and never touches an exempt memory.
CapacityFloor ==
    \A t \in Tasks :
        job[t].kind = "capacity" /\ pc[t] \in {"write", "refresh", "rename"}
        => /\ Cardinality(Scorable(docs)) >= Capacity
           /\ Scorable(snap[t]) \ ProjectIds \subseteq Scorable(docs)

\* A guard is never kept: success, error and crash all give it back.
GuardReleased == \A t \in Tasks : oslock = t ~> oslock # t

\* A mutator that waits for the scope gets its turn, or an error that nothing
\* here forces on it, although others may take the scope again and again.
WaitersServed == \A t \in Tasks : pc[t] = "local" ~> pc[t] = "idle"

-----------------------------------------------------------------------------
(* The inductive invariant behind the safety properties.                   *)

\* A task in the critical section owns the OS lock, one past the local mutex
\* owns that mutex.
GuardsOwned ==
    \A t \in Tasks :
        /\ pc[t] \in Critical => oslock = t
        /\ pc[t] \in Critical \cup {"os", "unlock"} => mutex[ProcOf[t]] = t

\* A file that does not exist has no content.
AbsentIsEmpty == \A i \in Ids : docs[i].rev = 0 => docs[i] = NoDoc

\* What a task is about to write is one edit of what is on disk.
WorkIsCurrent ==
    \A t \in Tasks : pc[t] = "write" =>
        \A i \in lead[t] \cup follow[t] : Extends(work[t][i], docs[i])

\* The staged files, and those already renamed, show the documents on disk;
\* so does the generation a Dream is published for.
RefreshIsCurrent ==
    \A t \in Tasks :
        /\ pc[t] \in {"rename", "dream"} => snap[t] = docs
        /\ pc[t] = "rename" =>
             \A n \in 1..3 : n < next[t] => artifacts[ArtifactAt[n]] = docs
        /\ pc[t] = "refreshed" => \A a \in Artifacts : artifacts[a] = docs

\* No derived file is ahead of the documents.
DerivedNotAhead ==
    \A a \in Artifacts : artifacts[a] # None =>
        \A i \in Ids : artifacts[a][i].rev <= docs[i].rev

\* The conjunction the proofs carry from step to step: locks are held by those
\* who write, and everything a writer has in hand under its lock is current.
Inv ==
    /\ TypeOK
    /\ GuardsOwned
    /\ AbsentIsEmpty
    /\ WorkIsCurrent
    /\ RefreshIsCurrent
    /\ DerivedNotAhead
    /\ MarkerVouchesForIndexes

-----------------------------------------------------------------------------
(* A statement of the source that the code does not keep.                  *)

\* store.rs says the generation dream_read compares with is the identity of the
\* current canonical set: a Dream reported as not stale, while no writer is at
\* work, was then synthesized from the documents on disk.
FreshDreamIsCurrent ==
    /\ \A t \in Tasks : pc[t] = "idle"
    /\ dream # None
    /\ dream = CurrentGeneration
    => dream = docs

-----------------------------------------------------------------------------
(* The scope as a client may think of it.                                  *)

Abstract == INSTANCE VersionedScope WITH Marker <- "generation"

\* Every step of every mutator is one edit of one document, one derived file
\* rebuilt from the current documents, or one Dream published for them.
RefinesVersionedScope == Abstract!Spec
=============================================================================
