------------------------------- MODULE Scopes -------------------------------
(***************************************************************************)
(* The durable scopes of one data directory as their readers see them      *)
(* (store.rs, paths.rs): the Global root, a first-class root per Project   *)
(* and the legacy root of the same Project key, each with its documents,   *)
(* lexical index, generation marker and Dream snapshot.  Mutations of a    *)
(* root exclude each other; readers take no lock.  ScopeStore has the      *)
(* mutators file by file; here one writes its documents in a step and      *)
(* publishes what is derived from them in another, or never.               *)
(***************************************************************************)
EXTENDS Recall

CONSTANTS
    Projects,   \* first-class Project ids
    InitDocs,   \* ids of the documents there at first, by layout
    Others,     \* roots that other processes write to
    Filters,    \* status filters in use
    MaxClock    \* bound on the stamps given out

Layouts == {"global", "project", "legacy"}

GlobalRoot == [layout |-> "global", key |-> None]

FirstClass(p) == [layout |-> "project", key |-> p]

Legacy(p) == [layout |-> "legacy", key |-> p]

Roots == {GlobalRoot} \cup {FirstClass(p) : p \in Projects}
            \cup {Legacy(p) : p \in Projects}

Doc == [status : AllStatuses, stamp : 1..MaxClock] \cup {Absent}

Snapshot == [Ids -> Doc]

ASSUME ScopesAssumption ==
    /\ None \notin Projects
    /\ None \notin Doc
    /\ None \notin Snapshot
    /\ InitDocs \in [Layouts -> SUBSET Ids]
    /\ Others \subseteq Roots
    /\ Filters \subseteq SUBSET AllStatuses
    /\ MaxClock \in Nat
    /\ \A i \in Ids : i <= MaxClock

VARIABLES
    docs,       \* topics/*.md of each root
    lexical,    \* the lexical index of each root, as its documents
    marker,     \* the generation marker, as the documents it was hashed from
    locked,     \* the roots whose write lock is held
    clock       \* the last stamp given out

scopeVars == <<docs, lexical, marker, locked, clock>>

NoDocs == [i \in Ids |-> Absent]

Stamped(status, stamp) == [status |-> status, stamp |-> stamp]

ScopesInit ==
    /\ docs = [r \in Roots |->
                 [i \in Ids |-> IF i \in InitDocs[r.layout]
                                THEN Stamped("active", i) ELSE Absent]]
    /\ lexical = [r \in Roots |->
                    IF InitDocs[r.layout] = {} THEN None ELSE docs[r]]
    /\ marker = lexical
    /\ locked = {}
    /\ clock = CHOOSE n \in 0..MaxClock : \A i \in Ids : i <= n

ScopesTypeOK ==
    /\ \A r \in Roots :
        /\ docs[r] \in Snapshot
        /\ lexical[r] \in Snapshot \cup {None}
        /\ marker[r] \in Snapshot \cup {None}
    /\ DOMAIN docs = Roots
    /\ locked \subseteq Roots
    /\ clock \in 0..MaxClock

-----------------------------------------------------------------------------
(* Paths and identity.                                                     *)

\* MemoryPathResolver: a store bound to a Project reaches that Project's
\* first-class root; any other key is a legacy scope directory.
RootOf(bound, scope, key) ==
    IF scope = "global" THEN GlobalRoot
    ELSE IF bound = key THEN FirstClass(key) ELSE Legacy(key)

\* require_project_key: Project scope needs a key, and a bound store its own.
KeyAccepted(bound, scope, key) ==
    scope = "project" => key # None /\ bound \in {None, key}

\* get_memory_at_locator: the file of that id under that root and no other.
Has(root, i) == docs[root][i] # Absent

\* Mutant: no case for a call without a Project.
FirstRootUnchecked(project) == RootOf(project, "project", project)

\* The root get_memory tries first and, with a Project, the one it falls back
\* to.
FirstRoot(project) ==
    IF project = None THEN GlobalRoot
    ELSE RootOf(project, "project", project)

\* list_project_ids of an unbound store: Projects whose first-class memory
\* directory exists, which the first write creates.
Inventory == {p \in Projects : Present(docs[FirstClass(p)]) # {}}

\* current_scope_generation: without a marker an empty scope has the
\* generation of no documents, and any other scope has none.
Generation(root) ==
    IF marker[root] # None THEN marker[root]
    ELSE IF Present(docs[root]) = {} THEN NoDocs ELSE None

-----------------------------------------------------------------------------
(* Mutations by other processes.                                           *)

\* One document created, rewritten or given another status.
OtherWrites(root) ==
    /\ root \notin locked
    /\ clock < MaxClock
    /\ clock' = clock + 1
    /\ \E i \in Ids, status \in {"active", "archived"} :
        docs' = [docs EXCEPT ![root][i] = Stamped(status, clock + 1)]
    /\ UNCHANGED <<lexical, marker, locked>>

\* refresh_scope_artifacts, the marker last; it may stop before the marker.
OtherRefreshes(root) ==
    /\ root \notin locked
    /\ lexical' = [lexical EXCEPT ![root] = docs[root]]
    /\ \/ marker' = [marker EXCEPT ![root] = docs[root]]
       \/ UNCHANGED marker
    /\ UNCHANGED <<docs, locked, clock>>

OthersStep ==
    \E root \in Others : OtherWrites(root) \/ OtherRefreshes(root)
=============================================================================
