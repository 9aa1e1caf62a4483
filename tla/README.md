# Jiandu in TLA+

Jiandu is a shared memory store for coding agents: a Rust library that keeps
Markdown documents, indexes and notes in a data directory
(`src/crates/jiandu-memory`), and an MCP server that exposes it as one `memory`
tool (`src/crates/jiandu-mcp`). Several processes, each with several tasks, may
use one data directory at a time. These modules model the parts of Jiandu where
that matters, check them with TLC, and prove their main safety properties with
TLAPS for every number of processes, tasks, documents and calls.

In this document `store.rs`, `recall.rs`, `lexical_bm25.rs`, `mod.rs`, `paths.rs`
and `bound_project.rs` are under `src/crates/jiandu-memory/src/memory_store`,
`atomic_fs.rs` and `bamboo_import.rs` under `src/crates/jiandu-memory/src`, and
`server.rs`, `handler.rs`, `args.rs`, `context.rs`, `ui.rs`, `ui/console.js` and
`bin/jiandu.rs` under `src/crates/jiandu-mcp/src`.

## 1. Inventory

| Component | State | Operations | What is hard | What makes it correct |
|---|---|---|---|---|
| **Durable scope store** (`store.rs`, `atomic_fs.rs`) | per scope (Global, or one Project): `topics/*.md` documents; ten derived indexes and views and a generation marker; `DREAM.md`; a process-local mutex and an OS lock file | write, archive, split, consolidate, merge, contradict, purge, capacity and freshness gardeners, rebuild, Dream publish; lock-free get, query, views, Dream read | targets resolved before the lock; several processes; several files per operation, each of which may fail or be the last before a crash | writers exclude each other, no update is lost, nothing is hidden without its successor, the marker vouches only for what it was renamed after, one success repairs all derived files, no index names a missing document |
| **In-flight barrier** (`server.rs`) | a counter of accepted mutations and a `Notify` | accept and detach a mutation, wait for idle, drain after EOF | a wakeup between check and await; a cancelled caller; a drain racing with late handlers | a read never overtakes an accepted mutation, no waiter is stranded, the runtime outlives accepted mutations |
| **Atomic file writes** (`atomic_fs.rs`) | temporary siblings, targets | write one file, write a batch | failure, crash and power loss between stage, rename and directory sync; directories that are created on the way; Windows, where a target is removed before it is replaced | a target is never missing or torn, and what was reported survives a power loss as far as directories are synced |
| **Session notes** (`store.rs:497-680`, `handler.rs:58-181`) | one file per topic, `state.json` per session | read, append, replace, clear, list, mark extracted | two doors with different locks, both per process; `state.json` rewritten from what was read; reads that fail without an error | no append of a process is lost to its own calls; a mark stays; the record lists the topics on disk |
| **Recall access log** (`store.rs:3638-3781`, `access_log.rs`) | `access_log.jsonl` per scope | append, compact, aggregate | the compaction replaces what it read; recalls that are dropped half-way; torn lines; a lock nested in the scope guard | no recent access is forgotten, a torn line costs one access, bounded size, no deadlock |
| **Bamboo import** (`bamboo_import.rs`) | source and destination roots, staging directory | scan, stage, rebuild, verify, scan again, publish | a source that changes while it is scanned, a destination that fills up, a failing rename | all or nothing; what is published is a snapshot; nothing is overwritten |
| **Scope roots, bound Projects** (`paths.rs`, `bound_project.rs`, `project_id.rs`) | path construction, read roots | resolve, list, read a Project's sources | two homes of a Project (first-class, legacy), fallback to Global | a lookup leaves neither Project nor Global |
| **Recall and ranking** (`recall.rs`, `lexical_bm25.rs`, `mod.rs`) | none | tokenise, score, rank, group | floating point, text; fallback to Global | each match once, in one order |
| **Query, inspect, paging** (`store.rs:735-1117`) | none (reads documents or the index) | filter, rank, page, cluster | index and documents of two moments, documents of several | the cursor reaches every match once, hits can be opened |
| **Document format** (`types.rs`, `mod.rs`) | none | parse, render, bound metadata | text | round trip |
| **Freshness windows** (`freshness.rs`) | none | age against granularity | day boundaries | only day and week memories expire |
| **Tool handlers** (`handler.rs`, `args.rs`) | per-session locks | parse, authorise, call the store, render | the class of an action decides the barrier; ids are resolved without a scope | a call stays inside its host's Project |
| **Per-call context** (`context.rs`) | server defaults | default and wire identity | hosts of several Projects on one server | a call never widens its Project |
| **Local console** (`ui.rs`, `console.js`) | selection, panes, generations, request controllers | load list, status, detail, catalog | answers that arrive after a newer request, or after an abort | each pane shows what is selected |
| **Command line, npm package** | none | argument parsing, download | I/O only | — |

Interactions. A tool call enters `server.rs`; if it mutates, it is counted and
runs in a task of its own; the handler calls the store, which takes the scope's
two locks, rewrites documents through `atomic_fs.rs`, appends to an audit log and
refreshes the derived files. Reads pass the barrier and go to the store without
a lock. The capacity gardener reads the access log while it holds the scope's
locks. The import uses a store of its own on a staging directory. The console is
another process that only reads. Host programs link the library and read a
Project's sources, or a shortlist for passive recall, without the server.

The hazards this code is exposed to, each at its line and with the properties
that would catch it, are listed in `PROJECT.json`.

## 2. Modules

| Module | What it is |
|---|---|
| `ScopeStore` | one durable scope with all its mutators, processes, failures and crashes |
| `VersionedScope` | what the scope promises, three kinds of steps |
| `MCScopeStore` | small instances of `ScopeStore` |
| `ScopeStore_proofs` | theorems about `ScopeStore`: that it implements `VersionedScope`, and what its writers may hide |
| `ReadBarrier` | what the barrier promises to the calls, five kinds of steps |
| `InFlight` | the barrier and the drain of one server |
| `MCInFlight` | small instances of `InFlight` |
| `InFlight_proofs` | theorems about `InFlight`, among them that it implements `ReadBarrier` |
| `AccessLog` | the access log of one scope, with the recalls and gardeners that use it |
| `MCAccessLog` | small instances of `AccessLog` |
| `AccessLog_proofs` | theorems about `AccessLog` |
| `AtomicFs` | one atomic file write, step by step, and what a power loss undoes |
| `SessionNotes` | the notes of one session; extends `AtomicFs` and writes through it |
| `MCSessionNotes`, `SessionNotes_proofs` | a small instance of `SessionNotes`; theorems about its notes and about `state.json` |
| `BambooImport` | the import |
| `MCBambooImport`, `BambooImport_proofs` | a small instance of `BambooImport`; theorems about it |
| `Recall`, `Recall_proofs` | pure operators: filter, rank, page, cluster; theorems about the lists, the pages and the clusters |
| `Scopes` | all durable scopes of a data directory as readers see them; extends `Recall` |
| `Gateway` | the durable calls of one MCP server, from identity to answer; extends `Scopes` |
| `Console` | the console's handlers and its page; extends `Scopes` |
| `Serving` | composes `Gateway` and `Console`: the binary as a server or as a console, beside other processes |
| `Console_proofs` | theorems about `Serving` as a console: what the page shows |
| `MCServing`, `Serving_proofs` | a small instance of `Serving`; theorems about it as a server |

Definitions named as a *Mutant* are plausible mistakes, each right before the
definition it would replace. No behaviour of the specifications uses them.

### ScopeStore

A *task* is one mutator future, running in process `ProcOf[t]`. Its `pc` follows
the code:

| `pc` | The task is |
|---|---|
| `resolve` | before `get_memory`, without a lock (the five methods that resolve and then lock) |
| `local`, `os` | in `acquire_scope_write_guard`, before the mutex, before the file lock |
| `locked` | holding the guard, about to read again and decide (`Plan...`, one action per operation) |
| `write` | rewriting documents, one `atomic_write` per step, then the audit line |
| `refresh`, `rename` | in `refresh_scope_artifacts`, then in the rename loop of `atomic_write_batch` |
| `dream` | about to replace `DREAM.md` |
| `refreshed`, `leave`, `unlock` | returning success after a refresh; returning anything else; between the drops of the guard's two halves |

The part of an operation between taking the lock and the first write reads only
what the lock protects, so it is one action (`PlanWrite`, `PlanMerge`, ...). Its
choice is kept in `work` (the documents as they will be written), `lead` (those
the code writes first) and `follow` (those after all of `lead`). From then on
every file operation is a step, `Fail(t)` may end the operation between any two,
and `Crash(p)` may end a whole process.

Abstractions, and what they stand for:

- A body is the set of facts written into it; `MaxFacts` is the cap on merged
  bodies. Titles, tags, keywords, related links and source ranges are left out:
  no operation takes a decision from them that changes which documents are
  written, except similarity, which is a free choice.
- `rev` counts the rewrites of a document and stands for `updated_at` (nanosecond
  RFC 3339), which every rewrite changes. A generation is the document map it
  hashes, so SHA-256 is taken to be injective.
- `lexical` and `graph` stand for the ten derived files that are renamed before
  the generation marker.
- One scope. A mutator never holds two scopes' guards, and `consolidate` refuses
  sources of two scopes before it takes any lock.
- `purge` filters on one status or on none. The gardeners' scoring and age tests
  are free choices among the documents the code allows: active or stale `project`
  documents, active volatile ones.
- The gardeners append an audit line after each document; one that fails is
  `Fail` between two writes.
- An I/O error while a target is resolved leaves no trace, like a call that never
  started. Validation errors before the lock are not started calls either.
- A crash is the death of a process: files keep what was renamed. Power loss
  and the remove-then-rename fallback on Windows are in `AtomicFs` and its user
  `SessionNotes`, not here.
- A future that its direct caller drops between two file operations is `Fail`; one
  dropped while a blocking file operation still runs is the case the store
  documents as its caller's duty (`store.rs:352-359`), which the server fulfils.
- After the second read a target cannot be missing, since nothing deletes
  documents; `Leave` says so.

### InFlight

`Begin` is `InFlightMutations::begin` followed by the spawn. `Settle` and
`Notify` are the two steps of the guard's drop, `Register`, `Check` and `Wake`
the three of `wait_for_idle`; any other step may come between them. `Cancel` is
the drop of a request future: it ends a read, or a handler that has not begun,
but not a mutation that has. `Close` is the end of the transport, and the
server itself is then a waiter like the reads; when its check finds no guard it
exits and nothing runs any more. `before[w]` is a history variable: the mutations
`w` found in flight when it came.

A handler whose mutation begins after the drain's check may be lost with the
runtime. The source says as much ("Runtime shutdown can still terminate
outstanding work", `server.rs:112`), and `BarrierHolds` promises only what was
accepted before the transport closed.

`ReadBarrier` says what a call may count on: mutations begin and settle when they
like, and nobody who waits passes while one runs. `InFlight` implements it
(`ImplementsReadBarrier`): registering, parking and waking are one wait there, and
the step past the barrier is the `Check` that reads zero. `Gateway` implements it
too, with one step `Pass`, so the two modules meet in `ReadBarrier`.

### AccessLog

A recall that returned a page goes through `Lock` (the path's mutex and the time
stamp), `Open`, `Write`, `Measure` and, past the trigger, `Read` and `Replace`. A
gardener takes the scope guard, then the mutex (`LockUnderScope`), reads
(`Scan`), and ranks and archives (`Score`; what it may archive is in
`ScopeStore`).

- Files are kept apart from the path: a recall that has the log open when it is
  replaced writes to a file nobody will read.
- An entry is the number of its access, in the order of the writes, so that
  order in a file is order of numbers and the readable lines of a file are a set.
  Ids are left out: nothing in the log depends on whose access a line is. Lines
  stand for bytes.
- `TornWrite` cuts a write in a line. There is no newline then, so the next line
  joins it and neither can be parsed: `Lines` adds the first entry of the next
  append to `swallowed`. A cut right before the newline leaves a line that can
  be read until the next append; the model counts it as unreadable at once.
- `Fail` is any other failing file operation. `metadata` of an open file does not
  fail without an error in the model, where the code would take zero.
- `Cancel` drops a recall's future with its mutex guard, as the server does with a
  read's. A write or rename may be in Tokio's blocking pool at that moment; it
  runs nevertheless, as `Detached`, some time later. With `Cancelling = FALSE`
  callers wait for their recalls.

### AtomicFs and SessionNotes

`AtomicFs` keeps what readers see (`visible`) apart from what a power loss leaves
(`durable`). Staged bytes are synced before the rename; the directory entry is
durable when `sync_parent_dir` ran on Unix, or when the kernel happened to write
it back. `sync_parent_dir` is best effort: it may not sync and say nothing
(`SyncFails`). On Windows a rename onto an existing file is refused, the target is
removed (`RemoveTarget`) and the rename repeated, and directories cannot be
synced.

The directories of a file may be missing, and `create_dir_all` makes them
(`Missing`, `MakeDirs`), in part when it fails. `dirs` says which exist and whose
entry is synced. The code syncs the directory a file is in and nothing above it, so
the entry of a new directory is synced only when a file beside it is written: a note's
in `sessions/<id>/note/` by the write of `sessions/<id>/state.json` that follows,
that of `sessions/<id>/` itself never. `Reverted`, the power loss, may take any
directory that is made and not synced, with all that is below. One directory stands
for `sessions/<id>/` and those above it that do not exist yet.

A task of `SessionNotes` is one call: `lock`, `act` (its first look at the note),
`write` (an `AtomicFs` write of the note), `list`, `state`, `save` (the topics
listed, then `state.json` written with what was read in between). `door` says how
a process gets there: through the MCP handler, with a mutex per session over the
whole call, or through the library, with a mutex per topic for append only.
Notes are sets of pieces, named by the calls that wrote them.

- Some failures are not told to the caller. `Path::exists` is false when the
  metadata cannot be read, so a note, the notes' directory or the record may be
  taken for absent in `Append`, `Clear`, `Mark` and `List`; and
  `persist_session_state` takes a record it cannot read or parse for none and
  writes a new one without the mark (`Save`, `store.rs:3521-3538`). Each of these
  actions has such an alternative.
- `disturbed` records that a call overlapped another one it was not excluded
  from, or that a failure was hidden from it. `UndisturbedIsExact` and `MarkKept` are
  about the others: the source promises nothing for two writers without a common
  lock, and the code lets a mark go with a record it cannot read.
- `missed` has the appends that found no note where one should be, because of its
  metadata or, on Windows, in a writer's gap between removal and rename. They drop
  what the note held, and `OwnAppendsKept` is about the others, on either platform.
- `UndisturbedIsExact` says of a power loss what the code gives: the note and the
  record reported can be taken back only with the whole new session (on Windows
  nothing is promised).
- `owed` records the pieces appended to a topic and not cleared or replaced since.
- Library reads take no lock and change nothing, so they are no actions; what
  they can see is `NotesStayVisible`.
- A process never reaches the notes through both doors: the server uses the
  handler's, other programs link the library.
- Validation of session ids and topics, which precedes the lock, is no action.

### BambooImport

`pc` follows `import_bamboo_durable_memory`: `start`, the first scan (`scan
global`, `scan projects`, `scan`, one directory listing or one file per step),
`stage` (one batch per step), `rebuild`, `verify`, the second scan (`again ...`),
`remove` for a destination that was an empty directory, `rename`, and an end. A
file that vanished between listing and reading fails the import, like one that
does not validate. Bamboo writes and another program uses the destination at any
time. `frozen` and `touched` are history.

- A version is never reused for a topic, so equal content means unchanged. With
  content that changes and changes back between the two scans a torn scan passes
  the comparison, and each topic is still what the source held at some time.
- The staging directory has a random name and is nobody else's, so its own steps
  are coarse.

### Recall, Scopes, Gateway, Console, Serving

`Recall` is a library of operators on one snapshot of a scope. What BM25, the
Jaccard index and the keyword sets make of words is given by the constants
`Relevance` and `Similar`; statuses, filters, ranks, ties, pages and the greedy
clusters are computed as in the code.

`Scopes` has a root per layout and Project with documents, lexical index and marker.
A mutation is one step that writes documents under the root's lock and one that
publishes what is derived from them, or fails to; `ScopeStore` has its file
operations.

`Gateway` has slots for calls. `Receive` computes from the metadata of a call
(`ResolveRequest`) and its argument `project_key` the calls that the arm of
`execute_parsed` lets through (`Execute`, one operator per arm); a refused call
leaves no trace. Reads then wait at the barrier, of which only its outcome is
here (`Pass`, the steps are in `InFlight`; both implement `ReadBarrier`), and read: the index in one step, a
listing one file per step, dream_read the marker and then the Dream, get one root
after the other. `StartRecall` is a host's read through the library, past the barrier.
Mutations find their target (`Locate`), write and refresh. `CancelRead` drops a
read's future; a mutation whose request is dropped goes on, so there is nothing
to model. `granted` is what the host meant, `before` and `due` say what a read must
see; all three are history.

- `Outcomes` gives all documents a mutator may leave for those it found, in one step and without
  the decisions that `ScopeStore` has. Of `memory_purge` it has the default
  mode only (`handler.rs:583-589` has others), and of consolidation two sources.
- A refresh leaves the index and the marker as of one moment here.
- A library read of one source compares the version and status the caller names
  with the document; both are told from `seen`.
- The limit on how many clusters or blobs a report lists is left out: `AnswersAddUp`
  is about what a report is taken from.

`Console` has the page's selection (`view`), its requests in flight (`net`), its
three panes, its pickers, and the handlers of `ui.rs`, in two steps where they read
twice. The page numbers its views and details and aborts what it replaces; a
request's flag `current` says that its number is still the last one. What an
outdated request would answer is not kept, only that it ends some time. The
page's promise holds because `Dropped` does nothing; its mutant clears a busy flag
that belongs to a newer request.

In `Serving`, the variable `command` makes the process a server or a console. While
the console runs, other processes change session notes but not documents: a
document does not tell one page from another, and whatever a handler finds is
already nondeterministic in what the user selects.

## 3. Runs

| Run | Asks | Instance |
|---|---|---|
| `ScopeEdits` | do writers exclude each other, is one task per process past its mutex, is every guard given back and every waiter served although others take the scope again and again | three tasks, two of them in one process; one merge and any number of rebuilds; two ids, one fact, bodies of one |
| `ScopeLineage` | is no update lost, does the inductive invariant hold, is nothing hidden before its successor is on disk, can every indexed document be opened, does eviction stop at the capacity and spare the exempt | two processes; write, archive, split, consolidate, merge, purge, contradict, capacity and freshness gardeners; two operations; three ids, two of them in use at the start, one of `project` type and one volatile; capacity one |
| `ScopeRecovery` | does the store implement `VersionedScope`, does the marker vouch only for current indexes, does one success repair all | two processes; write, archive, publish, and any number of rebuilds; three operations |
| `Barrier` | does a read or the exit overtake an accepted mutation, do counter and `Notify` implement `ReadBarrier`, is a wakeup missed, is every waiter answered, does the drain end, does an accepted mutation settle | two mutations, two reads, the drain, cancellation of each |
| `LogKept` | is a recent access ever forgotten, does the log stay bounded, do its users exclude each other | two recalls, a gardener, one process; pages of two, five accesses, trigger two, retained three, a window of one day out of three, one torn line, crashes |
| `LogTorn` | what does a torn line cost, does the nested lock ever stop anyone | two recalls in two processes, a gardener in one of them; pages of two, two accesses, trigger one, one torn line, one dropped recall |
| `Notes` | is an append lost to a call of its own process, a mark dropped, a note missing (Unix), the record wrong or taken back (Unix) | three calls, two of them in one process that is a server or a library user and appends, clears, reads or marks, one in another process, a library user that appends or replaces; one topic; a new session with two directories; a limit of two pieces; Unix and Windows, hidden failures, crashes, power loss |
| `Import` | is what is published a snapshot, is anything overwritten, is a refusal justified | two imports, one write by Bamboo, three topics in Global and a Project, two of them with one id, batches of one |
| `Serving` | does a call leave its Project, does a read miss what was accepted before it, do pages and clusters add up, does the page show the selection | one read slot, one mutation slot, every action; two Projects with a host in one; three ids, pages of one; another process that writes to the host's Project until the clock ends. Console: two sessions, one topic, up to two requests when the user acts |
| `ScopeStaleDream` | *violated*: can a Dream reported as fresh predate a write | a write and a publish |
| `LogCancelled` | *violated*: are append and compaction one critical section when a recall is dropped | two recalls in one process, one dropped |
| `LogHot` | *violated*: does compaction make room for later appends | one recall, trigger two, retained six |

Why the bounds are enough. Interference in a scope needs two operations, one that
is cut or slow and one that overtakes it; mutators of two processes meet in
`ScopeLineage` and `ScopeRecovery`, and in `ScopeEdits` two of one process and one
of another. Two documents tell a target from a successor, the third lets a consolidation or a split have both. A body of one
fact makes the cap bite at once. Two pieces make a partial split possible. Rebuilds change
no document and are not counted, so runs with them have behaviours of any
length, and repair after repeated failures is among them. For the barrier, two
mutations are needed for one to settle unnoticed while another is left, or to
begin between a settling and its late notification, and two reads for one
notification to reach the wrong waiter. For the log, five accesses on
three days reach past the trigger, the cap and the window, and two recalls are
enough for one to append while the other compacts. As in the code, more entries
are retained than the trigger admits. `CHECK_DEADLOCK` is off in these runs:
nobody has to recall anything, and the accesses of a run are counted. The safety properties among
these are proved for all bounds as well (section 4), which is why the runs are
kept small.

For the notes, what each process asks for is bounded (`KindsOf`); the proofs have no
such bound. One topic and three calls suffice for a read and two writes, or for
two writers in one process and a third in another, with the record between them;
topics only meet in the record, where a topic is present or absent. For the
import, one write by Bamboo may fall between any two steps of a scan, and the
proofs cover any number of writes; three topics give a scan that is torn
within a scope and between scopes, batches, and an id used twice. For serving,
one read beside one mutation and another process is every pair of overlapping
calls; two hits make two pages of one, three documents two overlapping
pairs for the clusters, and a second Project gives something to leak. The proofs
cover any number of calls, Projects, memories and requests.

Fairness. In `ScopeStore`, `WF` on what a task does in its turn (`Proceed`): Tokio
polls each ready task, and a file operation ends. Nothing forces an error, a crash or
a start; `file.lock()` in particular just blocks, and `OsLockFails` may happen but
never has to. `SF` on taking the mutex: Tokio's mutex is FIFO. `SF` on taking the file
lock assumes that the operating system does not let one waiting process be overtaken
for ever; `flock` queues make no stronger promise. Both are needed: rebuilds are not
counted, so the scope may be taken for ever by others, and with `WF` in place of
either `SF` TLC finds a waiter that is never served. In `InFlight` mutations and waiters are weakly fair; clients owe
nothing. A read is only answered because the calls of a run are finite: a server
that always has some mutation in flight starves its reads, by design of
`wait_for_idle`. In `AccessLog` the mutex, and the FIFO mutex in front of the file
lock of the scope guard, are strongly fair; `LogTorn` has one gardener, so that
nothing rests on the operating system's order.

The violations are statements of the source that the code does not keep.

- `store.rs:2584` calls the marker's content the identity "of the current
  canonical durable-memory set". A write whose audit or refresh fails leaves the
  marker behind, so `read_dream_snapshot` (`store.rs:2665`) reports
  `stale: false` for a Dream that predates the document. Publishing is not
  affected: it recomputes the generation under the lock, and `ScopeRecovery` and the
  theorem `Refinement` show that a Dream is only published for the documents it
  was made from.
- `store.rs:3706-3708` calls compaction "safe under concurrent recalls because the
  caller already holds `path`'s lock", and `store.rs:3662` the whole of append and
  compaction "one critical section". The lock is a mutex of one process, so a
  recall of another process on the same data root may append between the reading
  and the renaming, and its line is gone. But even in one process a recall is
  a read-only call, which runs in its caller's task: dropped while its rename is in
  the blocking pool it gives the mutex back first, another recall appends, and the
  rename removes that line (`LogCancelled`). The server gives every mutation a task
  of its own for this reason (`server.rs:109-112`). What is lost is a count, which
  lowers the keep-value of a memory; the log is documented as best effort.
- `access_log.rs:51` retains 20,000 entries, and `access_log.rs:39` triggers at
  256 KiB, which at the 40 to 60 bytes per line of the comment is 4,400 to 6,600
  entries. Once that many accesses fall in the window, compaction drops nothing
  and the next recall compacts again, against "amortized O(1) per append"
  (`access_log.rs:37`) and "once per several thousand recalls" (`store.rs:3711`).

## 4. Proofs

Every safety property of a passing run is a theorem, for all values of the
constants, and so are the two refinements.

All theorems assume only what the modules assume of their constants
(`ScopeAssumption`, `NoneAssumption`, `FiniteAssumption`, `InFlightAssumption`,
`AccessLogAssumption`, `NotesAssumption`, `ImportAssumption`, `RecallAssumption`,
`ScopesAssumption`, `GatewayAssumption`, `ConsoleAssumption`): shapes, that the
documents of a scope, the calls of a server, and the files are finite in number,
and that "nothing" (`None`) is neither a document nor a snapshot. Two theorems
about the log have the hypothesis `Alone`, one process whose callers wait for
their recalls.

`ScopeStore_proofs`. `Inv` is inductive. Mutual exclusion alone is not: it needs
`GuardsOwned`, that a writer owns the file lock and whoever is past the mutex owns the
mutex. With exclusion, what a writer holds in memory cannot be overtaken:
`WorkIsCurrent` (each document about to be written is one edit of the one on
disk) and `RefreshIsCurrent` (what was staged, and what of it was renamed, shows
the documents on disk). `AbsentIsEmpty` makes a creation an edit of nothing, and
`DerivedNotAhead` bounds every derived file by the documents.
`MarkerVouchesForIndexes` needs both: an edit makes the old marker differ from
the documents because it raises a `rev` above every derived one, and the marker
is renamed when the others are known to be current. There is one lemma per action; those that
only move one task share a lemma about the move. From `Inv` follow `Exclusion`,
`OneWaiter`, `MarkerVouches`, `Freshness`, `NoDangling`, and with one case per
action `NoUpdateLost` and `Refinement`: each step is one `Edit`, one `Derive`, one
`PublishDream`, or leaves the three shared variables alone.

Its second half has `NothingHiddenAlone` (`HiddenOnlyBySuccessor`) and
`CapacityKept` (`CapacityFloor`). `LineageInv` says
of each task what it may still hide: for every target to be superseded, a
successor on disk or among the documents that are written first; and for the
gardener, that the memories it has not in hand number at least `Capacity` and
include every exempt one. `Frame` sorts the steps: only the holder of the scope
changes documents, so the plans of the others stay as they are. `CapacityKept`
counts, hence `FiniteAssumption`.

`InFlight_proofs`. `CounterIsExact` equates the counter with the cardinality of
the set of guards, one lemma for adding and one for removing a member.
`BarrierHolds` then follows at `Check`, where zero means no guard at all.
Types are `ServerTyped`. `NoMissedWakeup` needs `RegisteredListens`: whoever has registered stays
registered until woken, so that the check cannot lie between a notification and
the registration. `BeforeBegan` keeps a mutation from entering a set it was
found in. `BarrierImplemented` is the refinement: each step is one `Begin`,
`Settle`, `Arrive`, `Pass` or `Leave` of `ReadBarrier`, or one it does not see;
`Pass` needs `CounterIsExact`, that zero means no guard.

`AccessLog_proofs`. `LogSafety` (`SectionIsLocked`, and the types, `LogTyped`) and
`TornLinesCostOne` hold for any processes and with recalls dropped anywhere. The
latter counts: a torn line is counted in `tears` when it is written, and either
still waits at the end of some file or was paid for with one swallowed access;
it needs `PagesFull`, that whoever writes has a line to write. `AccessesKept` is
about one process with `Cancelling = FALSE` (`Alone`), both
needed: `LogCancelled` shows what happens without the second, and with
`TwoProcesses` for `ProcOf` in its place TLC finds the loss without the first. By mutual exclusion the
file a writer has open is the path's own, and nothing is appended between a
compaction's reading and its renaming; `KeptInv` says that what it will drop is
*expendable*, out of the window or behind `Retained` newer accesses, and that
stays so as days pass and accesses come. That compaction itself drops only what
is expendable is `CompactedKeeps`, a count of the numbers above an entry.
`LogStaysBounded` (`LogBounded`) adds `CompactedKept`, that what a recall is about
to rename numbers at most `Retained` (`CompactedFew`: of the entries with fewer
than `Retained` newer ones, the least has all the others above it). A recall becomes recorded in `Measure`,
where the size was seen to be within the trigger, or in `Replace`, and nobody
appends in between.

`SessionNotes_proofs`. `NotesKeepOwnAppends` and `NotesKeptVisible` hold for any
number of processes, calls and topics. The inductive invariant has six parts:
shapes (`ShapeOK`), that notes hold notes (`NotesAreNotes`), that whoever is past
`lock` holds the mutex (`MutexHeld`), that a write goes to the file its call is
about (`WritesItsFile`), that what is owed is in the note (`OwedIsVisible`), and
the heart, `AppendHoldsOwed`: what an append is about to write holds all that its
own process is owed. It is kept because, while an append is being written, its
mutex lets no other append of the process come between, and a clear or a
replacement only makes less owed. A power loss reduces what is owed to what is
left. It holds on Windows as well, for the appends that are not in `missed`: a note
that is not there while something is owed puts the append that sees it there.

Its second half has `UndisturbedExact` (`UndisturbedIsExact`), `MarkNeverDropped`
(`MarkKept`) and the types (`NotesTyped`). `RInv` adds `Apart`:
two mutations of which one is undisturbed are calls of one handler, so its session
mutex keeps one of them waiting, and the files stay as they are between two steps
of the other. Hence what such a call has read stays true until it writes it:
`ListsAll` for the topics, `KeepsMark` for the mark, and `Synced` for what a power
loss cannot take back. For the last, `MadeDir` says that a call which wrote a note has
made its directory, and `DirsKept` that no step but a power loss unmakes one, so the
sync that follows the write of the record covers it. A call that a failure is hidden
from becomes disturbed in the same step, so nothing is claimed of it
afterwards.

`BambooImport_proofs`. For any number of imports, topics, Projects and writes by
Bamboo: types (`ImportTyped`), `DestinationKept`, `RefusalOnlyIfWritten` and
`ImportIsSnapshot`. The invariant says of each import that a topic nobody wrote
since it began has been read as it is or is still to be (`Faithful`, `Covered`),
whichever directory it is in. So the first scan has all of these (`Kept`), and two
scans of an untouched source agree. For the snapshot it needs time: what was read
is no newer than the last write (`ReadAged`), hence a topic written after the
first scan ended is newer than what that scan found, in the source and in what
the second scan reads of it (`Later`); when the scans agree, there was no such
write (`Snapshot`).

`Serving_proofs`. `Isolation`: for any number of calls, Projects, hosts and other
processes a call is at the Global root or at the first-class root of its own
host's Project. The invariant adds that the Project the server made of the
metadata is the one the host meant (`granted`), that a call with a scope has a
root of that scope, and that without one it is at its Project's or at Global; the
last is what the fallbacks of `Locate` and `ReadShortlist` preserve.

`ReadsSeeAll` (`ReadsSeeAccepted`) is about time. `RInv` says of the scopes that
what is derived is never ahead of the documents and that their stamps only grow
(`DocsOK`, `Grows`). Of each mutation it says that what it wrote is in the
documents until it has settled (`WriterOK`); of each read, that the mutations it
found in flight still run as long as it is at the barrier, and none once it has
passed (`ReaderOK`), that what is due to it is in the files it has still to read
(`DueOK`), and in what it has read (`SeenOK`). A write becomes due when its mutation
settles, and then it is on disk; what was due when a read passed is in every file
it opens later. A `get` that falls back to Global has found no document in the
Project, so nothing of its id was due there.

`AnswersSound` (`AnswersAddUp`) adds `FoundOK`: a document that was read can still be
opened, since nothing deletes documents, and an index names only what it was
built from. The rest is about the operators, from `Recall_proofs`. `CallsWait`: the
calls of a server, any number of them, implement `ReadBarrier`; together with
`BarrierImplemented` the steps of `InFlight` and the one step `Pass` allow the calls
the same. `ServingTyped` are the types.

`Recall_proofs`. A list holds each memory that matches once (`RankingAll`, from
`Ranked`): the rank of a member is the number of those before it, and in a finite
set with a strict total order these are the numbers from 0 on. `Newer` and `Outranks`
are such orders because ids break ties. `FollowedAll`: whoever follows the cursors gets the list,
for any length and any `Limit`; after `n` more pages he has all of it, or its
members up to the cursor, which is past `n` (`GotSoFar`). `ClustersSound`: clusters of
duplicates are disjoint, have two to `MaxMembers` members, and of two similar active
memories at least one is in a cluster; after `k` seeds this holds for the pairs
that meet the first `k` (`Sound`). Both follow a recursive function to its end. No
induction theorem is used: were the claim false somewhere, there would be a least
such number (`Least`), which is not the first, and the step before it holds
(`StepsTo`). That the recursively defined functions have values at all is
`Iterated`, by the same argument.

`Console_proofs`. `PageIsRight` (`PageShowsSelection`): in whatever order answers
arrive, each pane shows what the server said of the selection. `CInv` says of the
requests in flight that at most one of each kind is current and that it asks for
what is selected now; `PageShowsSelection` itself is a conjunct, with what it says
of panes that are still loading. A step that changes the selection makes the requests before it outdated, and what ends an outdated
request leaves the panes alone.

Only model-checked: the liveness properties (`GuardReleased`, `WaitersServed`,
`ReadsAnswered`, `DrainEnds`, `AcceptedMutationSettles`, `EveryoneReturns`), which
need fairness and `ENABLED`, out of the prover's reach; and the three runs that
show a violation.

## 5. Not modelled, and what is left

Left out for good:

- Ranking scores and similarity (floating point over text): constants of `Recall`.
- The document format, metadata bounds, and the freshness texts: text. That a
  document may be refused, and that rendering drops retired metadata, is in
  `BambooImport`; the gardener's age test is a free choice in `ScopeStore`.
- The syntax of ids and of the command line, HTTP headers and the page's layout.
- The npm package: download and unpacking.
- The access multiplier: floating point.
- The budget of accumulated source ranges (`store.rs:264-283`): sums over text
  positions that decide, like the cap on bodies, between merging and creating;
  the model has the cap.

What the model does not promise because the source does not either: two merges, of
A into B and of B into A, may leave both superseded; two processes that append to
one note may drop each other's pieces; on Windows a reader may find a note missing
for a moment, and an append that looks at that moment starts the note anew; a session
mutation that cannot read `state.json` writes a new record and drops the mark; a
power loss may take a whole new session, whose directory entry is not synced;
temporary files of crashed writers stay.

Open: to have the mutations of `Gateway`, which write all their documents in one
step, write them one at a time, so that `ScopeStore` can be shown to implement what
`Scopes` assumes of its writers; and a property of sequences of merges.
