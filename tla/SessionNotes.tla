---------------------------- MODULE SessionNotes ----------------------------
(***************************************************************************)
(* The notes of one session (store.rs, handler.rs): one file per topic and *)
(* a state.json that lists the topics.  A process reaches them through one *)
(* of two doors.  The MCP handler holds a mutex per session over a whole   *)
(* call.  Library callers take a mutex per topic for append_session_topic  *)
(* and none for write, delete and mark.  Both mutexes live in the process, *)
(* so two processes are not excluded from each other.  Files are written   *)
(* through AtomicFs; any write may fail, a process may crash and the power *)
(* may be lost between any two steps.                                      *)
(*                                                                         *)
(* Several reads fail without a word: Path::exists is false for a path     *)
(* whose metadata cannot be read, and persist_session_state takes a        *)
(* state.json it cannot read or parse for none at all.  The call goes on   *)
(* as if there were no file.  The history variables disturbed and missed   *)
(* remember what the caller is not told.                                   *)
(*                                                                         *)
(* Data abstraction.  A task is one call; a note is the set of pieces      *)
(* written to it, each named by the call that wrote it; of state.json the  *)
(* topics and whether an extraction was marked are kept.  Sessions share   *)
(* nothing, so there is one.                                               *)
(***************************************************************************)
EXTENDS AtomicFs, FiniteSets

CONSTANTS
    Procs,      \* OS processes sharing the data directory
    Tasks,      \* calls
    ProcOf,     \* the process of a task
    DoorChoices,\* how the processes may reach the notes
    KindsOf,    \* bound: what the callers of a process ask for
    Topics,     \* topic names
    State,      \* the file state.json
    Session,    \* the key of the session mutex
    MaxNote,    \* MAX_SESSION_NOTE_CHARS, in pieces
    NoTask      \* nobody

Doors == {"handler", "library"}

Kinds == {"append", "replace", "clear", "read", "mark"}

Note == [pieces : SUBSET Tasks]

Record == [topics : SUBSET Topics, extracted : BOOLEAN]

Keys == Topics \cup {Session}

ASSUME NotesAssumption ==
    /\ ProcOf \in [Tasks -> Procs]
    /\ DoorChoices \subseteq [Procs -> Doors]
    /\ KindsOf \in [Procs -> SUBSET Kinds]
    /\ Writers = Tasks
    /\ Files = Topics \cup {State}
    /\ State \notin Topics
    /\ Session \notin Topics
    /\ NoTask \notin Tasks
    /\ NoFile \notin Note \cup Record
    /\ DirOf[State] \in Dirs
    /\ ParentOf[DirOf[State]] \notin Dirs
    /\ \A k \in Topics : ParentOf[DirOf[k]] = DirOf[State]
    /\ MaxNote \in Nat \ {0}

VARIABLES
    door,       \* how each process reaches the notes
    mutex,      \* holder of each mutex of each process
    pc,         \* where each call is
    job,        \* what each call does, and to which topic
    names,      \* the topics a call has listed
    disturbed,  \* history: a call not excluded by the same mutex overlapped,
                \* or a failure was kept from the caller
    missed,     \* history: appends that start anew a note that was there
    owed        \* history: pieces appended to a topic and not cleared since

noteVars == <<door, mutex, pc, job, names, disturbed, missed, owed>>
vars == <<fsVars, noteVars>>

\* A call that returned, crashed or lost its process is over.
Places == {"idle", "lock", "act", "write", "list", "state", "save", "done",
           "over"}

Idle == [kind |-> "idle", topic |-> State]

Running(t) == pc[t] \notin {"idle", "over"}

NoWrite == [file |-> State, content |-> NoFile]

Goto(t, place) == pc' = [pc EXCEPT ![t] = place]

Door(t) == door[ProcOf[t]]

\* session_memory_lock for the handler, path_lock for append_session_topic.
Locks(t, kind) == Door(t) = "handler" \/ kind = "append"

Key(t) == IF Door(t) = "handler" THEN Session ELSE job[t].topic

Listed == {k \in Topics : visible[k] # NoFile}

\* A note that should be there: its file is, or nobody cleared what it held.
There(k) == visible[k] # NoFile \/ owed[k] # {}

\* A read of t found nothing where there was something, and t went on.
Noted(t, lapse) == disturbed' = [disturbed EXCEPT ![t] = @ \/ lapse]

Init ==
    /\ visible = [f \in Files |-> NoFile]
    /\ durable = visible
    /\ dirs = [d \in Dirs |-> "none"]
    /\ out = [t \in Tasks |-> NoWrite]
    /\ io = [t \in Tasks |-> "idle"]
    /\ platform \in Platforms
    /\ door \in DoorChoices
    /\ mutex = [p \in Procs |-> [k \in Keys |-> NoTask]]
    /\ pc = [t \in Tasks |-> "idle"]
    /\ job = [t \in Tasks |-> Idle]
    /\ names = [t \in Tasks |-> {}]
    /\ disturbed = [t \in Tasks |-> FALSE]
    /\ missed = {}
    /\ owed = [k \in Topics |-> {}]

-----------------------------------------------------------------------------

\* The mutations another call overlaps without being excluded from them.
Rivals(t) ==
    {u \in Tasks \ {t} :
        /\ Running(u)
        /\ job[u].kind # "read"
        /\ ~(ProcOf[u] = ProcOf[t] /\ Door(t) = "handler")}

\* A caller makes a call.  Marking is not offered by the handler, and library
\* readers take no lock and are left out.
Start(t) ==
    /\ pc[t] = "idle"
    /\ \E kind \in KindsOf[ProcOf[t]], topic \in Topics :
         /\ IF Door(t) = "handler" THEN kind # "mark" ELSE kind # "read"
         /\ job' = [job EXCEPT ![t] = [kind |-> kind, topic |-> topic]]
         /\ Goto(t, IF Locks(t, kind) THEN "lock" ELSE "act")
         /\ disturbed' = [u \in Tasks |->
                            IF u = t THEN Rivals(t) # {}
                            ELSE disturbed[u]
                                 \/ (u \in Rivals(t) /\ kind # "read")]
    /\ UNCHANGED <<fsVars, door, mutex, names, missed, owed>>

\* Mutant: every server instance has locks of its own.
LockOwn(t) ==
    /\ pc[t] = "lock"
    /\ mutex' = [mutex EXCEPT ![ProcOf[t]][Key(t)] = t]
    /\ Goto(t, "act")
    /\ UNCHANGED <<fsVars, door, job, names, disturbed, missed, owed>>

Lock(t) ==
    /\ pc[t] = "lock"
    /\ mutex[ProcOf[t]][Key(t)] = NoTask
    /\ mutex' = [mutex EXCEPT ![ProcOf[t]][Key(t)] = t]
    /\ Goto(t, "act")
    /\ UNCHANGED <<fsVars, door, job, names, disturbed, missed, owed>>

Acting(t, kind) == pc[t] = "act" /\ job[t].kind = kind

Pieces(note) == IF note = NoFile THEN {} ELSE note.pieces

Text(pieces) == [pieces |-> pieces]

\* session_append and append_session_topic: read the note, and write it back
\* with the new piece.  Only the handler has a limit.
Append(t) ==
    LET k == job[t].topic IN
      /\ Acting(t, "append")
      /\ \E found \in {visible[k], NoFile} :
           LET new == Pieces(found) \cup {t}
               lapse == found = NoFile /\ There(k)
           IN
             /\ Noted(t, lapse)
             /\ missed' = IF lapse THEN missed \cup {t} ELSE missed
             /\ IF Door(t) = "handler" /\ Cardinality(new) > MaxNote
                THEN Goto(t, "done") /\ UNCHANGED <<dirs, out, io>>
                ELSE Goto(t, "write") /\ Submit(t, k, Text(new))
      /\ UNCHANGED <<visible, durable, platform, door, mutex, job, names, owed>>

\* session_replace and write_session_topic.
Replace(t) ==
    /\ Acting(t, "replace")
    /\ Goto(t, "write")
    /\ Submit(t, job[t].topic, Text({t}))
    /\ UNCHANGED <<visible, durable, platform, door, mutex, job, names,
                   disturbed, missed, owed>>

\* session_clear and delete_session_topic.  No directory is synced.  A note
\* that is not seen is not removed.
Clear(t) ==
    LET k == job[t].topic IN
      /\ Acting(t, "clear")
      /\ \/ /\ Replaced(k, NoFile)
            /\ owed' = [owed EXCEPT ![k] = {}]
            /\ UNCHANGED disturbed
         \/ /\ visible[k] # NoFile
            /\ Noted(t, TRUE)
            /\ UNCHANGED <<visible, durable, owed>>
      /\ Goto(t, "list")
      /\ UNCHANGED <<dirs, out, io, platform, door, mutex, job, names, missed>>

\* The note cannot be read or removed, or another caller removed it after the
\* check that it exists.
ActFails(t) ==
    /\ pc[t] = "act"
    /\ Goto(t, "done")
    /\ UNCHANGED <<fsVars, door, mutex, job, names, disturbed, missed, owed>>

\* session_read and session_list_topics.
Read(t) ==
    /\ Acting(t, "read")
    /\ Goto(t, "done")
    /\ UNCHANGED <<fsVars, door, mutex, job, names, disturbed, missed, owed>>

\* What the file says, or a new record.
Existing(found, topics) ==
    IF found # NoFile THEN found ELSE [topics |-> topics, extracted |-> FALSE]

\* mark_session_extracted: the whole record is read, by read_session_state, and
\* written back.  An error of the read itself ends the call (ActFails).
Mark(t) ==
    /\ Acting(t, "mark")
    /\ Goto(t, "save")
    /\ \E found \in {visible[State], NoFile}, topics \in {Listed, {}} :
         /\ found # NoFile => topics = Listed
         /\ Noted(t, found # visible[State] \/ topics # Listed)
         /\ Submit(t, State,
                   [Existing(found, topics) EXCEPT !.extracted = TRUE])
    /\ UNCHANGED <<visible, durable, platform, door, mutex, job, names, missed,
                   owed>>

-----------------------------------------------------------------------------
(* The write of the note, then persist_session_state.                      *)

\* What a rename by t makes of the pieces owed.
OwedAfter(t) ==
    LET k == job[t].topic IN
      IF pc[t] # "write" THEN owed
      ELSE [owed EXCEPT ![k] =
              IF job[t].kind = "append"
              THEN (@ \cup {t}) \cap out[t].content.pieces ELSE {}]

\* One step of the write in progress.
WriteStep(t) ==
    /\ pc[t] \in {"write", "save"}
    /\ \/ IoStep(t) /\ UNCHANGED disturbed
       \/ SyncFails(t) /\ Noted(t, TRUE)
    /\ owed' = IF io'[t] = "sync" THEN OwedAfter(t) ELSE owed
    /\ UNCHANGED <<door, mutex, pc, job, names, missed>>

\* The note is in place, written or removed.
Listing(t) == pc[t] = "list" \/ (pc[t] = "write" /\ io[t] = "ok")

\* The result of the write is taken.
Taken(t) ==
    /\ IoAt(t, "idle")
    /\ out' = [out EXCEPT ![t] = NoWrite]
    /\ missed' = missed \ {t}

\* The topics found are what the record will list.
Names(t, found) ==
    /\ Listing(t)
    /\ names' = [names EXCEPT ![t] = found]
    /\ Taken(t)
    /\ Goto(t, "state")
    /\ UNCHANGED <<visible, durable, dirs, platform, door, mutex, job, owed>>

\* Mutant: the topics were listed before the note was written.
ListOthers(t) == Names(t, Listed \ {job[t].topic}) /\ UNCHANGED disturbed

\* list_current_session_topics: a directory that is not seen holds no topic.
List(t) ==
    \E found \in {Listed, {}} : Names(t, found) /\ Noted(t, found # Listed)

\* The record is submitted, and the call has no more use for the topics.
Persist(t, file, extracted) ==
    /\ pc[t] = "state"
    /\ Submit(t, file, [topics |-> names[t], extracted |-> extracted])
    /\ names' = [names EXCEPT ![t] = {}]
    /\ Goto(t, "save")
    /\ UNCHANGED <<visible, durable, platform, door, mutex, job, missed, owed>>

\* Mutant: the record is built anew.
SaveFresh(t) == Persist(t, State, FALSE) /\ UNCHANGED disturbed

\* Mutant: the record is written to the path of the note.
SaveOverNote(t) == Persist(t, job[t].topic, FALSE) /\ UNCHANGED disturbed

\* persist_session_state: the record on disk with the topics listed.  A record
\* that cannot be read or parsed is replaced by a new one, without the mark.
Save(t) ==
    \E found \in {visible[State], NoFile} :
      /\ Persist(t, State, Existing(found, names[t]).extracted)
      /\ Noted(t, found # visible[State])

\* Calls that end or vanish.
Forget(T) ==
    /\ pc' = [t \in Tasks |-> IF t \in T THEN "over" ELSE pc[t]]
    /\ job' = [t \in Tasks |-> IF t \in T THEN Idle ELSE job[t]]
    /\ names' = [t \in Tasks |-> IF t \in T THEN {} ELSE names[t]]
    /\ disturbed' = [t \in Tasks |-> t \notin T /\ disturbed[t]]
    /\ io' = [t \in Tasks |-> IF t \in T THEN "idle" ELSE io[t]]
    /\ out' = [t \in Tasks |-> IF t \in T THEN NoWrite ELSE out[t]]
    /\ missed' = missed \ T

\* Their guards are dropped with them.
Unlock(T) ==
    mutex' = [p \in Procs |-> [k \in Keys |->
                IF mutex[p][k] \in T THEN NoTask ELSE mutex[p][k]]]

\* The call has its result, or an error: the ? operator returns, and what was
\* written stays.
Ended(t) ==
    \/ pc[t] = "done"
    \/ pc[t] = "write" /\ io[t] = "err"
    \/ pc[t] = "save" /\ io[t] \in {"ok", "err"}

\* The call returns.
Return(t) ==
    /\ Ended(t)
    /\ Forget({t})
    /\ Unlock({t})
    /\ UNCHANGED <<visible, durable, dirs, platform, door, owed>>

\* A process dies.
Crash(p) ==
    LET T == {t \in Tasks : ProcOf[t] = p /\ Running(t)} IN
      /\ T # {}
      /\ Forget(T)
      /\ Unlock(T)
      /\ UNCHANGED <<visible, durable, dirs, platform, door, owed>>

\* The power is lost: every process dies, and renames may be undone.
PowerLoss ==
    LET T == {t \in Tasks : Running(t)} IN
      /\ ~(T = {} /\ Settled)
      /\ Forget(T)
      /\ Unlock(T)
      /\ Reverted
      /\ owed' = [k \in Topics |-> owed[k] \cap Pieces(visible'[k])]
      /\ UNCHANGED <<platform, door>>

\* Every call is over.
Finished ==
    /\ \A t \in Tasks : pc[t] = "over"
    /\ UNCHANGED vars

Step(t) ==
    \/ Lock(t)
    \/ Append(t)
    \/ Replace(t)
    \/ Clear(t)
    \/ ActFails(t)
    \/ Read(t)
    \/ Mark(t)
    \/ WriteStep(t)
    \/ List(t)
    \/ Save(t)
    \/ Return(t)

Next ==
    \/ \E t \in Tasks : Start(t) \/ Step(t)
    \/ \E p \in Procs : Crash(p)
    \/ PowerLoss
    \/ Finished

Spec == Init /\ [][Next]_vars

-----------------------------------------------------------------------------

TypeOK ==
    /\ visible \in [Files -> Note \cup Record \cup {NoFile}]
    /\ durable \in [Files -> Note \cup Record \cup {NoFile}]
    /\ \A k \in Topics : {visible[k], durable[k]} \subseteq Note \cup {NoFile}
    /\ {visible[State], durable[State]} \subseteq Record \cup {NoFile}
    /\ out \in [Tasks ->
                  [file : Files, content : Note \cup Record \cup {NoFile}]]
    /\ io \in [Tasks -> IoPlaces]
    /\ dirs \in [Dirs -> DirStates]
    /\ platform \in Platforms
    /\ door \in DoorChoices
    /\ mutex \in [Procs -> [Keys -> Tasks \cup {NoTask}]]
    /\ pc \in [Tasks -> Places]
    /\ job \in [Tasks -> [kind : Kinds \cup {"idle"}, topic : Files]]
    /\ names \in [Tasks -> SUBSET Topics]
    /\ disturbed \in [Tasks -> BOOLEAN]
    /\ missed \subseteq Tasks
    /\ owed \in [Topics -> SUBSET Tasks]

\* The renames that publish a note or a record.
Publishes(t) == io[t] \in {"rename", "gap"} /\ io'[t] = "sync"

\* No append is lost to another append of its process (#235): what an append
\* writes still holds every piece that calls of the same process appended to
\* the topic and that nobody cleared or replaced, whatever other processes,
\* crashes and power losses do in between.  It is said of an append that found
\* the note where one should be.  One that did not starts the note anew and
\* drops all it held: on either platform when the metadata of the file cannot
\* be read, and on Windows also when a writer has removed the file and not, or
\* never, put the new one in its place.  Two processes share no mutex and do
\* drop each other's pieces.
OwnAppendsKept ==
    [][\A t \in Tasks :
         /\ Publishes(t)
         /\ pc[t] = "write"
         /\ job[t].kind = "append"
         /\ t \notin missed
         => \A c \in owed[job[t].topic] \ owed'[job[t].topic] :
              ProcOf[c] # ProcOf[t]]_vars

\* A mutation that reports success, met no call it was not excluded from, and
\* had no failure hidden from it, leaves a state.json that lists exactly the
\* topics there are, and neither the note nor the record can be taken back by a
\* power loss, except together with the whole session: the entry of the
\* session's own directory is the one the code never syncs, so a session that
\* is new may vanish until the kernel has written that entry back.  (On Windows
\* no directory is ever synced, and nothing is said of a power loss.)
UndisturbedIsExact ==
    \A t \in Tasks :
        /\ pc[t] = "save" /\ io[t] = "ok"
        /\ ~disturbed[t]
        /\ job[t].kind \in {"append", "replace", "clear"}
        => /\ visible[State].topics = Listed
           /\ platform = "unix" =>
                /\ SettledBut(State, {DirOf[State]})
                /\ job[t].kind # "clear" =>
                     SettledBut(job[t].topic, {DirOf[State]})

\* persist_session_state rewrites the whole record, but an extraction that was
\* marked stays marked, unless the two calls overlapped or the one that writes
\* could not read the record and took it for none (store.rs swallows the error).
MarkKept ==
    [][\A t \in Tasks :
         /\ Publishes(t)
         /\ out[t].file = State
         /\ ~disturbed[t]
         /\ visible[State] # NoFile
         /\ visible[State].extracted
         => visible'[State].extracted]_vars

\* A reader, who takes no lock, never finds a note missing that nobody cleared,
\* except where a rename cannot replace a file.
NotesStayVisible ==
    [][platform = "unix" =>
         \A k \in Topics :
           visible[k] # NoFile /\ visible'[k] = NoFile =>
             \/ \A t \in Tasks : ~Running(t)'
             \/ \E t \in Tasks : Acting(t, "clear") /\ job[t].topic = k]_vars
=============================================================================
