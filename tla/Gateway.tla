------------------------------ MODULE Gateway -------------------------------
(***************************************************************************)
(* The durable calls of one MCP server (server.rs, context.rs, handler.rs, *)
(* args.rs): from the host's identity and the model's arguments to the     *)
(* root a call may touch, through the read barrier to the store.  Reads    *)
(* wait until no accepted mutation is in flight (InFlight has the barrier  *)
(* step by step), mutations run in tasks of their own.                     *)
(*                                                                         *)
(* A refused call changes nothing and answers an error: it is not a step.  *)
(* Session calls are in SessionNotes, the access log of query in AccessLog *)
(***************************************************************************)
EXTENDS Scopes, FiniteSets

CONSTANTS
    Readers,    \* slots for read-only calls
    Mutators,   \* slots for mutating calls
    Calls,      \* actions in use
    Requested,  \* values of the argument project_key, None included
    Hosts,      \* Projects that the hosts of this server are in
    Default     \* --project-id of the server, None without it

Slots == Readers \cup Mutators

ScopedReads == {"query", "dream_read", "find_duplicates", "scan_blobs",
                "scan_duplicates", "inspect"}

ScopedMutations == {"write", "dream_publish", "purge", "rebuild"}

IdMutations == {"merge", "contradict", "split", "consolidate", "purge_id"}

\* What hosts read through the library, without the server.
LibraryReads == {"shortlist", "sources", "source"}

Actions ==
    ScopedReads \cup {"get"} \cup LibraryReads \cup ScopedMutations
        \cup IdMutations

\* Actions that list the documents, one file after the other.
Lists(call) ==
    \/ call.action \in {"find_duplicates", "scan_blobs", "scan_duplicates",
                        "inspect"}
    \/ call.action = "query" /\ call.blank

\* MemoryArgs::class.
ReadOnly(action) == action \in ScopedReads \cup {"get"} \cup LibraryReads

Metas == {"unsent"} \cup Hosts \cup {None}

ASSUME GatewayAssumption ==
    /\ Readers \cap Mutators = {}
    /\ Calls \subseteq Actions
    /\ Requested \subseteq Projects \cup {None}
    /\ Hosts \subseteq Projects
    /\ Default \in Projects \cup {None}
    /\ "unsent" \notin Projects
    /\ None # "unsent"

VARIABLES
    pc,         \* where each slot is
    call,       \* the call in each slot
    at,         \* the root a call is at
    seen,       \* what a read has read so far, or its answer
    left,       \* files a listing has still to read
    wrote,      \* history: root, id and stamp of what a mutation wrote
    before,     \* history: the mutations in flight when a read came
    due         \* history: what those mutations have written since

gatewayVars == <<pc, call, at, seen, left, wrote, before, due>>

NoCall == [action |-> "none", project |-> None, granted |-> None,
           scope |-> "none", id |-> 0, blank |-> FALSE,
           statuses |-> {}]

GatewayInit ==
    /\ pc = [c \in Slots |-> "idle"]
    /\ call = [c \in Slots |-> NoCall]
    /\ at = [c \in Slots |-> GlobalRoot]
    /\ seen = [c \in Slots |-> None]
    /\ left = [c \in Slots |-> {}]
    /\ wrote = [c \in Slots |-> {}]
    /\ before = [c \in Slots |-> {}]
    /\ due = [c \in Slots |-> {}]

Goto(c, place) == pc' = [pc EXCEPT ![c] = place]

Running == {m \in Mutators : pc[m] # "idle"}

-----------------------------------------------------------------------------
(* Identity and access.                                                    *)

\* Mutant: what the metadata leaves out is taken from the defaults.
MergeDefaults(meta) ==
    IF meta \in {"unsent", None} THEN Default ELSE meta

\* resolve_request: a metadata object replaces all the defaults of the server.
ResolveRequest(meta) == IF meta = "unsent" THEN Default ELSE meta

\* resolve_project_id: the argument may repeat the host's Project, and may
\* neither replace nor grant one.
ProjectKeyAccepted(context, requested) == requested \in {None, context}

\* resolve_access, without the store it binds.
AccessGranted(context, requested, scope) ==
    /\ ProjectKeyAccepted(context, requested)
    /\ scope = "project" => context # None
    /\ KeyAccepted(context, scope, context)

\* What the host meant, whatever the server makes of it.
HostProject(meta) == IF meta = "unsent" THEN Default ELSE meta

\* A Project that is granted makes no difference to a Global call.
Needed(scope, project) == IF scope = "global" THEN None ELSE project

\* An accepted call takes a free slot of its class.
Accept(c, new) ==
    /\ (c \in Readers) = ReadOnly(new.action)
    /\ call' = [call EXCEPT ![c] = new]
    /\ at' = [at EXCEPT ![c] =
                IF new.scope = "none" THEN FirstRoot(new.project)
                ELSE RootOf(new.project, new.scope, new.project)]
    /\ IF c \in Readers /\ new.action \notin LibraryReads
       THEN /\ Goto(c, "barrier")
            /\ before' = [before EXCEPT ![c] = Running]
       ELSE /\ Goto(c, IF c \in Readers THEN "reading"
                       ELSE IF new.scope = "none" THEN "locate" ELSE "located")
            /\ UNCHANGED before
    /\ UNCHANGED <<seen, left, wrote, due>>

-----------------------------------------------------------------------------
(* The arms of execute: the calls that the host h, with the Project the    *)
(* server made of its metadata in h.context and the one the host meant in  *)
(* h.granted, can make with an argument project_key, of the calls in use.  *)

DurableScopes == {"global", "project"}

\* parse_query_filters: without a filter every status passes.
StatusFilters == Filters \cup {AllStatuses}

ScopedCalls(action, h, requested) ==
    IF action \notin Calls THEN {}
    ELSE {[NoCall EXCEPT !.action = action, !.scope = scope,
                         !.project = Needed(scope, h.context),
                         !.granted = Needed(scope, h.granted)] :
            scope \in {s \in DurableScopes :
                         AccessGranted(h.context, requested, s)}}

\* resolve_id_access: as Global access, with the Project kept for the lookup.
ByIdCalls(action, h, requested) ==
    IF action \notin Calls THEN {}
    ELSE {[NoCall EXCEPT !.action = action, !.id = i, !.project = h.context,
                         !.granted = h.granted] :
            i \in {j \in Ids : AccessGranted(h.context, requested, "global")}}

Asking(k, blank, statuses) ==
    [k EXCEPT !.blank = blank, !.statuses = statuses]

\* The cursor that a query may carry only picks the page of its answer.
QueryCalls(h, requested) ==
    {Asking(k, blank, statuses) :
       k \in ScopedCalls("query", h, requested), blank \in BOOLEAN,
       statuses \in StatusFilters}

GetCalls(h, requested) == ByIdCalls("get", h, requested)

DreamReadCalls(h, requested) == ScopedCalls("dream_read", h, requested)

DreamPublishCalls(h, requested) == ScopedCalls("dream_publish", h, requested)

WriteCalls(h, requested) == ScopedCalls("write", h, requested)

\* The mode contradict turns a merge into another mutation.
MergeCalls(h, requested) ==
    UNION {ByIdCalls(mode, h, requested) : mode \in {"merge", "contradict"}}

SplitCalls(h, requested) == ByIdCalls("split", h, requested)

\* The text of find_duplicates is that of some memory.
FindDuplicatesCalls(h, requested) ==
    {[k EXCEPT !.id = i] :
       k \in ScopedCalls("find_duplicates", h, requested), i \in Ids}

ScanCalls(h, requested) ==
    UNION {ScopedCalls(action, h, requested) :
             action \in {"scan_blobs", "scan_duplicates"}}

ConsolidateCalls(h, requested) == ByIdCalls("consolidate", h, requested)

\* purge takes an id, or else a scope and filters.
PurgeCalls(h, requested) ==
    ByIdCalls("purge_id", h, requested) \cup ScopedCalls("purge", h, requested)

InspectCalls(h, requested) == ScopedCalls("inspect", h, requested)

RebuildCalls(h, requested) == ScopedCalls("rebuild", h, requested)

\* MemoryHandler::execute, as far as it goes before the store is touched.
Execute(h, requested) ==
    UNION {QueryCalls(h, requested), GetCalls(h, requested),
           DreamReadCalls(h, requested), DreamPublishCalls(h, requested),
           WriteCalls(h, requested), MergeCalls(h, requested),
           SplitCalls(h, requested), FindDuplicatesCalls(h, requested),
           ScanCalls(h, requested), ConsolidateCalls(h, requested),
           PurgeCalls(h, requested), InspectCalls(h, requested),
           RebuildCalls(h, requested)}

Receive(c) ==
    /\ pc[c] = "idle"
    /\ \E meta \in Metas, requested \in Requested :
        \E new \in Execute([context |-> ResolveRequest(meta),
                           granted |-> HostProject(meta)], requested) :
            Accept(c, new)
    /\ UNCHANGED scopeVars

\* Passive recall of a host, in a Project or not.
ShortlistCalls(p) ==
    {[NoCall EXCEPT !.action = "shortlist", !.project = p, !.granted = p]}

\* query_project_sources_read_only: the active memories of one Project that
\* match some words.
SourcesCalls(p) ==
    {[NoCall EXCEPT !.action = "sources", !.scope = "project", !.project = p,
                    !.granted = p, !.statuses = {"active"}]}

\* get_project_source_read_only: one memory of exactly that Project.  Whether it
\* is active and still the version the host adopted is told from the document.
SourceCalls(p) ==
    {[NoCall EXCEPT !.action = "source", !.scope = "project", !.project = p,
                    !.granted = p, !.id = i] : i \in Ids}

LibraryCalls(p) ==
    IF p = None THEN ShortlistCalls(p)
    ELSE UNION {ShortlistCalls(p), SourcesCalls(p), SourceCalls(p)}

\* A process of a host reads through the library and waits for nobody.
StartRecall(c) ==
    /\ pc[c] = "idle"
    /\ \E p \in Hosts \cup {None} : \E new \in LibraryCalls(p) :
        new.action \in Calls /\ Accept(c, new)
    /\ UNCHANGED scopeVars

-----------------------------------------------------------------------------
(* Reads.                                                                  *)

\* Mutant: reads are not ordered after the mutations.
PassUnordered(c) ==
    /\ pc[c] = "barrier"
    /\ Goto(c, "reading")
    /\ seen' = [seen EXCEPT ![c] = IF Lists(call[c]) THEN NoDocs ELSE None]
    /\ left' = [left EXCEPT ![c] = IF Lists(call[c]) THEN Ids ELSE {}]
    /\ UNCHANGED <<call, at, wrote, before, due, scopeVars>>

\* wait_for_idle returns, and the read runs in the task of its caller.
Pass(c) ==
    /\ pc[c] = "barrier"
    /\ Running = {}
    /\ Goto(c, "reading")
    /\ seen' = [seen EXCEPT ![c] = IF Lists(call[c]) THEN NoDocs ELSE None]
    /\ left' = [left EXCEPT ![c] = IF Lists(call[c]) THEN Ids ELSE {}]
    /\ UNCHANGED <<call, at, wrote, before, due, scopeVars>>

Answer(c, answer) ==
    /\ Goto(c, "answer")
    /\ seen' = [seen EXCEPT ![c] = answer]
    /\ UNCHANGED <<call, wrote, before, due, scopeVars>>

\* query with words: the index is one file.  Without it the call fails.  The
\* documents of the page may be opened for their relations.
ReadIndex(c) ==
    /\ pc[c] = "reading"
    /\ call[c].action \in {"query", "sources"} /\ ~call[c].blank
    /\ Answer(c, lexical[at[c]])
    /\ UNCHANGED <<at, left>>

\* shortlist_relevant_memories: the index of the Project and, when it has no
\* hit or is not there, that of Global; no index is no hit.
ReadShortlist(c) ==
    /\ pc[c] = "reading"
    /\ call[c].action = "shortlist"
    /\ IF Shortlist(lexical[at[c]]) = <<>> /\ at[c] # GlobalRoot
       THEN /\ at' = [at EXCEPT ![c] = GlobalRoot]
            /\ UNCHANGED <<pc, call, seen, left, wrote, before, due, scopeVars>>
       ELSE Answer(c, lexical[at[c]]) /\ UNCHANGED <<at, left>>

\* list_memory_documents reads one file after the other, in no known order.
ReadFile(c) ==
    /\ pc[c] = "reading"
    /\ \E i \in left[c] :
        /\ seen' = [seen EXCEPT ![c][i] = docs[at[c]][i]]
        /\ left' = [left EXCEPT ![c] = @ \ {i}]
        /\ Goto(c, IF left[c] = {i} THEN "answer" ELSE "reading")
    /\ UNCHANGED <<call, at, wrote, before, due, scopeVars>>

\* dream_read: the generation marker first, and no answer without one.
ReadMarker(c) ==
    /\ pc[c] = "reading"
    /\ call[c].action = "dream_read"
    /\ Goto(c, IF Generation(at[c]) = None THEN "answer" ELSE "dream")
    /\ seen' = [seen EXCEPT ![c] = Generation(at[c])]
    /\ UNCHANGED <<call, at, left, wrote, before, due,
                   scopeVars>>

\* Then DREAM.md (ScopeStore has it), which the answer calls stale when its
\* source is another generation.
ReadDream(c) ==
    /\ pc[c] = "dream"
    /\ Answer(c, seen[c])
    /\ UNCHANGED <<at, left>>

\* get_memory, one locator at a time, for get and for the arms that take an id.
Locate(c) ==
    /\ \/ pc[c] = "reading" /\ call[c].action = "get"
       \/ pc[c] = "locate"
    /\ LET found == Has(at[c], call[c].id)
       IN  /\ IF ~found /\ at[c] # GlobalRoot
              THEN at' = [at EXCEPT ![c] = GlobalRoot] /\ UNCHANGED pc
              ELSE /\ UNCHANGED at
                   /\ Goto(c, IF c \in Readers THEN "answer"
                              ELSE IF found THEN "located" ELSE "failed")
           /\ seen' = IF c \in Readers /\ found
                      THEN [seen EXCEPT ![c] = docs[at[c]][call[c].id]]
                      ELSE seen
    /\ UNCHANGED <<call, left, wrote, before, due, scopeVars>>

\* get_memory_at_locator for a source: no other root is tried.
ReadSource(c) ==
    /\ pc[c] = "reading"
    /\ call[c].action = "source"
    /\ Answer(c, IF Has(at[c], call[c].id) THEN docs[at[c]][call[c].id]
                 ELSE None)
    /\ UNCHANGED <<at, left>>

\* The slot is free again.
Vacate(c) ==
    /\ pc' = [pc EXCEPT ![c] = "idle"]
    /\ call' = [call EXCEPT ![c] = NoCall]
    /\ at' = [at EXCEPT ![c] = GlobalRoot]
    /\ seen' = [seen EXCEPT ![c] = None]
    /\ left' = [left EXCEPT ![c] = {}]
    /\ wrote' = [wrote EXCEPT ![c] = {}]
    /\ before' = [d \in Slots |-> IF d = c THEN {} ELSE before[d] \ {c}]

Return(c) ==
    /\ pc[c] = "answer"
    /\ Vacate(c)
    /\ due' = [due EXCEPT ![c] = {}]
    /\ UNCHANGED <<scopeVars>>

\* The request future of a read is dropped.  A mutation is only detached.
CancelRead(c) ==
    /\ c \in Readers
    /\ pc[c] \in {"barrier", "reading", "dream"}
    /\ Vacate(c)
    /\ due' = [due EXCEPT ![c] = {}]
    /\ UNCHANGED <<scopeVars>>

-----------------------------------------------------------------------------
(* Mutations.                                                              *)

Free(m) == Ids \ Present(m)

\* The documents S written with a status and the stamp of the mutation.
Rewritten(m, S, status) ==
    [j \in Ids |-> IF j \in S THEN Stamped(status, clock + 1) ELSE m[j]]

\* The memories i and j give way to a new one.
Consolidated(m, i, j, new) ==
    Rewritten(Rewritten(m, {i, j}, "superseded"), {new}, "active")

\* The documents that the call k may leave for the snapshot m: what the
\* mutators of ScopeStore write in all.
Outcomes(k, m) ==
    CASE k.action = "write" ->
           {Rewritten(m, {j}, "active") : j \in Free(m) \cup MergeTargets(m)}
      [] k.action = "merge" ->
           {Rewritten(Rewritten(m, {k.id}, m[k.id].status), S, "superseded") :
              S \in SUBSET (Present(m) \ {k.id})}
      [] k.action = "contradict" -> {m, Rewritten(m, {k.id}, "contradicted")}
      [] k.action = "split" ->
           {Rewritten(Rewritten(m, {k.id}, "superseded"), S, "active") :
              S \in (SUBSET Free(m)) \ {{}}}
      [] k.action = "consolidate" ->
           {Consolidated(m, k.id, i, j) :
              i \in Present(m) \ {k.id}, j \in Free(m)}
      [] k.action = "purge_id" -> {Rewritten(m, {k.id}, "archived")}
      [] k.action = "purge" ->
           {Rewritten(m, Filtered(m, statuses), "archived") :
              statuses \in Filters}
      [] k.action \in {"dream_publish", "rebuild"} -> {m}

\* Under the write lock the mutation reads the documents and writes its own.
\* dream_publish writes no document.
Write(c) ==
    /\ pc[c] = "located"
    /\ at[c] \notin locked
    /\ \E m \in Outcomes(call[c], docs[at[c]]) :
        LET changed == {i \in Ids : m[i] # docs[at[c]][i]}
        IN  /\ changed # {} => clock < MaxClock
            /\ docs' = [docs EXCEPT ![at[c]] = m]
            /\ clock' = IF changed = {} THEN clock ELSE clock + 1
            /\ wrote' = [wrote EXCEPT ![c] =
                           {<<at[c], i, clock + 1>> : i \in changed}]
    /\ locked' = locked \cup {at[c]}
    /\ Goto(c, "written")
    /\ UNCHANGED <<call, at, seen, left, before, due, lexical,
                   marker>>

\* Reads that look at documents, not at what is derived from them.
Canonical(k) == Lists(k) \/ k.action = "get"

\* What a mutation wrote is due to the reads that found it in flight: in the
\* documents, and if it could refresh them in the index and the marker.
Owe(c, refreshed) ==
    due' = [d \in Slots |->
              IF c \in before[d] /\ (refreshed \/ Canonical(call[d]))
              THEN due[d] \cup wrote[c] ELSE due[d]]

\* refresh_scope_artifacts, and the lock is released.
Refresh(c) ==
    /\ pc[c] = "written"
    /\ IF call[c].action = "dream_publish" THEN UNCHANGED <<lexical, marker>>
       ELSE /\ lexical' = [lexical EXCEPT ![at[c]] = docs[at[c]]]
            /\ marker' = [marker EXCEPT ![at[c]] = docs[at[c]]]
    /\ locked' = locked \ {at[c]}
    /\ Owe(c, TRUE)
    /\ Vacate(c)
    /\ UNCHANGED <<docs, clock>>

\* An error after the documents are written: they stay, nothing is derived.
RefreshFails(c) ==
    /\ pc[c] = "written"
    /\ locked' = locked \ {at[c]}
    /\ Owe(c, FALSE)
    /\ Vacate(c)
    /\ UNCHANGED <<docs, lexical, marker, clock>>

\* Not found, a payload the store rejects, no lock: nothing was written.
Refused(c) ==
    /\ pc[c] \in {"located", "failed"}
    /\ Vacate(c)
    /\ UNCHANGED <<due, scopeVars>>

-----------------------------------------------------------------------------

GatewayStep ==
    \/ \E c \in Slots : Receive(c) \/ Locate(c)
    \/ \E c \in Readers :
        \/ StartRecall(c) \/ Pass(c) \/ ReadIndex(c) \/ ReadShortlist(c)
        \/ ReadFile(c) \/ ReadMarker(c)
        \/ ReadDream(c) \/ ReadSource(c) \/ Return(c) \/ CancelRead(c)
    \/ \E c \in Mutators :
        Write(c) \/ Refresh(c) \/ RefreshFails(c) \/ Refused(c)

Places == {"idle", "barrier", "reading", "dream", "answer", "locate",
           "located", "failed", "written"}

GatewayTypeOK ==
    /\ pc \in [Slots -> Places]
    /\ \A c \in Slots :
        /\ call[c].action \in Actions \cup {"none"}
        /\ at[c] \in Roots
        /\ left[c] \subseteq Ids
        /\ wrote[c] \subseteq Roots \X Ids \X (1..MaxClock)
        /\ before[c] \subseteq Mutators
        /\ due[c] \subseteq Roots \X Ids \X (1..MaxClock)

\* The reads of this server at the places; a library read waits for nobody.
Served(places) ==
    {c \in Readers : pc[c] \in places /\ call[c].action \notin LibraryReads}

Abstract ==
    INSTANCE ReadBarrier WITH
        Mutations <- Mutators,
        Waiters   <- Readers,
        running   <- Running,
        waiting   <- Served({"barrier"}),
        passed    <- Served({"reading", "dream", "answer"})

\* Calls wait for one another as InFlight, too, shows them to: Pass is one step
\* here and the counter, its guards and Notify there.
ImplementsReadBarrier == Abstract!Spec

\* A call touches the Global root and the first-class root of the Project that
\* the host gave it, and of these the one its scope names: whatever its other
\* arguments say, and whatever Project the server or another call was given.
CallsStayInside ==
    \A c \in Slots :
        pc[c] # "idle" =>
            LET own == IF call[c].granted = None THEN {}
                       ELSE {FirstClass(call[c].granted)}
            IN  at[c] \in CASE call[c].scope = "global" -> {GlobalRoot}
                            [] call[c].scope = "project" -> own
                            [] OTHER -> own \cup {GlobalRoot}

\* The stamp of id i in the answer of a call, zero when it has none.
Answered(c, i) ==
    CASE seen[c] = None -> 0
      [] call[c].action = "get" -> seen[c].stamp
      [] OTHER -> seen[c][i].stamp

\* The answer has the write w or a later one, or is of another root than w's; a
\* get reaches Global only when the Project has no such document.
Shows(c, w) ==
    IF w[1] = at[c] THEN Answered(c, w[2]) >= w[3]
    ELSE call[c].action = "get" => w[1] # FirstRoot(call[c].project)

\* A read answers at least as new as every mutation this server had accepted
\* before the read came: a listing and a get although the mutation failed after
\* it had written, the index and the marker when it succeeded, and whatever
\* became of its caller.  A get may answer from the Project instead of Global.
ReadsSeeAccepted ==
    \A c \in Readers :
        pc[c] = "answer" =>
            \A w \in due[c] :
                (call[c].action = "get" => w[2] = call[c].id) => Shows(c, w)

\* Matches by definition, not by rank.
Matches(c) ==
    {i \in Ids : /\ seen[c][i].status \in call[c].statuses
                 /\ call[c].blank \/ Relevance[i] > 0}

\* The memories that an answer names.
Named(c) ==
    CASE call[c].action \in {"get", "source"} -> {call[c].id}
      [] call[c].action \in {"query", "sources"} ->
           ToSet(Ranking(seen[c], call[c].blank, call[c].statuses))
      [] call[c].action = "shortlist" -> ToSet(Shortlist(seen[c]))
      [] call[c].action = "find_duplicates" ->
           ToSet(DuplicatesOf(seen[c], call[c].id))
      [] call[c].action = "scan_blobs" -> ToSet(Blobs(seen[c]))
      [] call[c].action = "scan_duplicates" -> UNION Clusters(seen[c])
      [] OTHER -> {}

\* An answer names memories that can be opened where it was found, whatever was
\* written since.  A caller that follows the cursors to the end has got every
\* match once, if what it pages through does not change.  Of two similar active
\* memories one at least is in a cluster of duplicates, none is in two, and no
\* cluster is larger than asked for.
AnswersAddUp ==
    \A c \in Readers :
        pc[c] = "answer" /\ seen[c] # None =>
            /\ \A i \in Named(c) : Has(at[c], i)
            /\ call[c].action = "query" =>
                LET ids == Followed(Ranking(seen[c], call[c].blank,
                                            call[c].statuses))
                IN  /\ ToSet(ids) = Matches(c)
                    /\ Len(ids) = Cardinality(Matches(c))
            /\ call[c].action = "scan_duplicates" =>
                LET clusters == Clusters(seen[c])
                IN  /\ \A A, B \in clusters : A = B \/ A \cap B = {}
                    /\ \A A \in clusters : Cardinality(A) \in 2..MaxMembers
                    /\ \A i, j \in Actives(seen[c]) :
                        i # j /\ {i, j} \in Similar =>
                            {i, j} \cap UNION clusters # {}
=============================================================================
