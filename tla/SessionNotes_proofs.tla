------------------------ MODULE SessionNotes_proofs ------------------------
(***************************************************************************)
(* SessionNotes for every number of processes, calls and topics: the       *)
(* mutexes keep the appends of one process, and state.json lists what      *)
(* there is and keeps its mark.                                            *)
(***************************************************************************)
EXTENDS SessionNotes, TLAPS

\* Only what the argument reads of the state is typed.
ShapeOK ==
    /\ visible = [f \in Files |-> visible[f]]
    /\ io \in [Tasks -> IoPlaces]
    /\ pc \in [Tasks -> Places]
    /\ door \in [Procs -> Doors]
    /\ mutex \in [Procs -> [Keys -> Tasks \cup {NoTask}]]
    /\ job \in [Tasks -> [kind : Kinds \cup {"idle"}, topic : Files]]
    /\ out = [t \in Tasks |-> out[t]]
    /\ owed \in [Topics -> SUBSET Tasks]
    /\ \A t \in Tasks : Running(t) => job[t].topic \in Topics

\* What a topic file holds, or is about to hold, is a note.
NotesAreNotes ==
    /\ \A k \in Topics :
         /\ visible[k] \in Note \cup {NoFile}
         /\ durable[k] \in Note \cup {NoFile}
    /\ \A t \in Tasks : pc[t] = "write" => out[t].content \in Note

Inside(t) == Running(t) /\ pc[t] # "lock"

\* A call past its lock holds the mutex it needs.
MutexHeld ==
    \A t \in Tasks :
        Inside(t) /\ Locks(t, job[t].kind) => mutex[ProcOf[t]][Key(t)] = t

\* Each write goes to the file of its stage.
WritesItsFile ==
    \A t \in Tasks :
        /\ pc[t] = "write" => out[t].file = job[t].topic
        /\ pc[t] = "save" => out[t].file = State

\* A note that is there holds what is owed.
OwedIsVisible ==
    \A k \in Topics : visible[k] # NoFile => owed[k] \subseteq Pieces(visible[k])

\* What an append is about to write holds what its process is owed.
AppendHoldsOwed ==
    \A t \in Tasks :
        /\ pc[t] = "write"
        /\ job[t].kind = "append"
        /\ io[t] \in {"rename", "gap"}
        /\ t \notin missed
        => \A c \in owed[job[t].topic] :
             ProcOf[c] = ProcOf[t] => c \in out[t].content.pieces

IInv ==
    /\ ShapeOK
    /\ NotesAreNotes
    /\ MutexHeld
    /\ WritesItsFile
    /\ OwedIsVisible
    /\ AppendHoldsOwed

-----------------------------------------------------------------------------

LEMMA InitIInv ==
    Init => IInv
<1> SUFFICES ASSUME Init PROVE IInv
    OBVIOUS
<1> USE NotesAssumption DEF Init
<1>1. ShapeOK
    BY DEF ShapeOK, Running, Places, IoPlaces, Idle, Doors, Kinds
<1>2. MutexHeld /\ WritesItsFile /\ AppendHoldsOwed
    BY DEF MutexHeld, WritesItsFile, AppendHoldsOwed, Inside, Running
<1>3. OwedIsVisible /\ NotesAreNotes
    BY DEF OwedIsVisible, NotesAreNotes
<1> QED
    BY <1>1, <1>2, <1>3 DEF IInv

\* The steps that end calls: the shape and the mutexes survive them.
LEMMA EndingShape ==
    ASSUME ShapeOK, NEW T \in SUBSET Tasks, Forget(T), Unlock(T),
           visible' = [f \in Files |-> visible'[f]], door' = door,
           owed' \in [Topics -> SUBSET Tasks]
    PROVE  ShapeOK'
<1> USE NotesAssumption DEF ShapeOK, Forget, Unlock
<1>1. io' \in [Tasks -> IoPlaces] /\ pc' \in [Tasks -> Places]
    BY DEF IoPlaces, Places
<1>2. mutex' \in [Procs -> [Keys -> Tasks \cup {NoTask}]]
    OBVIOUS
<1>3. job' \in [Tasks -> [kind : Kinds \cup {"idle"}, topic : Files]]
    BY DEF Idle
<1>4. out' = [t \in Tasks |-> out'[t]]
    OBVIOUS
<1>5. \A t \in Tasks : Running(t)' => job'[t].topic \in Topics
    BY DEF Running
<1> QED
    BY <1>1, <1>2, <1>3, <1>4, <1>5

LEMMA EndingRest ==
    ASSUME ShapeOK, MutexHeld, WritesItsFile, NEW T \in SUBSET Tasks,
           Forget(T), Unlock(T), door' = door
    PROVE  MutexHeld' /\ WritesItsFile'
<1> USE NotesAssumption DEF ShapeOK, Forget, Unlock
<1>1. ASSUME NEW t \in Tasks, Inside(t)', Locks(t, job[t].kind)'
      PROVE  mutex'[ProcOf[t]][Key(t)'] = t
  <2>1. t \notin T /\ Inside(t) /\ Locks(t, job[t].kind) /\ Key(t)' = Key(t)
      BY <1>1 DEF Inside, Running, Locks, Key, Door
  <2>2. Key(t) \in Keys /\ ProcOf[t] \in Procs
      BY <2>1 DEF Key, Keys, Inside
  <2> QED
      BY <2>1, <2>2 DEF MutexHeld
<1>2. WritesItsFile'
    BY DEF WritesItsFile
<1> QED
    BY <1>1, <1>2 DEF MutexHeld

\* The steps of a call past its lock: jobs, doors and mutexes stay.
LEMMA InsideStep ==
    ASSUME MutexHeld, NEW t \in Tasks, Inside(t), NEW place,
           pc \in [Tasks -> Places], Goto(t, place),
           UNCHANGED <<door, mutex, job>>
    PROVE  MutexHeld'
<1> SUFFICES ASSUME NEW u \in Tasks, Inside(u)', Locks(u, job[u].kind)'
             PROVE  mutex[ProcOf[u]][Key(u)'] = u
    BY DEF MutexHeld
<1>1. Inside(u)
    BY DEF Inside, Running, Goto
<1> QED
    BY <1>1 DEF MutexHeld, Locks, Key, Door

LEMMA ShapeStep ==
    ASSUME ShapeOK, NEW t \in Tasks, Inside(t), NEW place \in Places,
           Goto(t, place), UNCHANGED <<door, mutex, job>>,
           visible' = [f \in Files |-> visible'[f]],
           io' \in [Tasks -> IoPlaces], out' = [u \in Tasks |-> out'[u]],
           owed' \in [Topics -> SUBSET Tasks]
    PROVE  ShapeOK'
<1>1. pc' \in [Tasks -> Places]
    BY DEF ShapeOK, Goto
<1>2. \A u \in Tasks : Running(u)' => Running(u)
    BY DEF ShapeOK, Goto, Running, Inside
<1>3. \A u \in Tasks : Running(u)' => job'[u].topic \in Topics
    BY <1>2 DEF ShapeOK
<1> QED
    BY <1>1, <1>3 DEF ShapeOK

LEMMA SubmitShape ==
    ASSUME ShapeOK, NEW t \in Tasks, NEW file, NEW content,
           Submit(t, file, content)
    PROVE  /\ io' \in [Tasks -> IoPlaces]
           /\ out' = [u \in Tasks |-> out'[u]]
           /\ out'[t] = [file |-> file, content |-> content]
           /\ \A u \in Tasks \ {t} : out'[u] = out[u] /\ io'[u] = io[u]
<1> QED
    BY DEF ShapeOK, Submit, IoAt, IoPlaces

\* What a call that appends holds back.
LEMMA OneAppendPerProcess ==
    ASSUME IInv, NEW t \in Tasks, NEW u \in Tasks, ProcOf[t] = ProcOf[u],
           Inside(t), Inside(u), job[t].kind = "append",
           job[u].kind = "append", job[t].topic = job[u].topic
    PROVE  t = u
<1>1. Key(t) = Key(u) /\ Locks(t, job[t].kind) /\ Locks(u, job[u].kind)
    BY DEF Key, Door, Locks
<1> QED
    BY <1>1 DEF IInv, MutexHeld

-----------------------------------------------------------------------------

LEMMA StartIInv ==
    ASSUME IInv, NEW t \in Tasks, Start(t)
    PROVE  IInv'
<1> USE NotesAssumption DEF IInv
<1>1. PICK kind \in Kinds, topic \in Topics :
        /\ job' = [job EXCEPT ![t] = [kind |-> kind, topic |-> topic]]
        /\ Goto(t, IF Locks(t, kind) THEN "lock" ELSE "act")
    BY DEF Start
<1>2. pc[t] = "idle" /\ UNCHANGED <<fsVars, door, mutex, missed, owed>>
    BY DEF Start
<1>3. pc' = [pc EXCEPT ![t] = IF Locks(t, kind) THEN "lock" ELSE "act"]
    BY <1>1 DEF Goto
<1>4. job'[t] = [kind |-> kind, topic |-> topic]
      /\ \A u \in Tasks \ {t} : job'[u] = job[u] /\ pc'[u] = pc[u]
    BY <1>1, <1>3 DEF ShapeOK
<1>5. ShapeOK'
  <2>1. job' \in [Tasks -> [kind : Kinds \cup {"idle"}, topic : Files]]
      BY <1>1 DEF ShapeOK
  <2>2. pc' \in [Tasks -> Places]
      BY <1>3 DEF ShapeOK, Places
  <2>3. \A u \in Tasks : Running(u)' => job'[u].topic \in Topics
      BY <1>4, <1>3 DEF ShapeOK, Running
  <2> QED
      BY <2>1, <2>2, <2>3, <1>2 DEF ShapeOK, fsVars
<1>6. MutexHeld'
  <2> SUFFICES ASSUME NEW u \in Tasks, Inside(u)', Locks(u, job[u].kind)'
               PROVE  mutex[ProcOf[u]][Key(u)'] = u
      BY <1>2 DEF MutexHeld
  <2>1. u # t
    <3>1. pc'[t] = IF Locks(t, kind) THEN "lock" ELSE "act"
        BY <1>3 DEF ShapeOK
    <3>2. Locks(t, job[t].kind)' = Locks(t, kind)
        BY <1>4, <1>2 DEF Locks, Door
    <3> QED
        BY <3>1, <3>2 DEF Inside
  <2>2. Inside(u) /\ Locks(u, job[u].kind) /\ Key(u)' = Key(u)
      BY <2>1, <1>4, <1>2 DEF Inside, Running, Locks, Key, Door
  <2> QED
      BY <2>2 DEF MutexHeld
<1>7. \A u \in Tasks : pc'[u] \in {"write", "save"} => u # t
    BY <1>3 DEF ShapeOK
<1>8. WritesItsFile' /\ NotesAreNotes'
    BY <1>2, <1>4, <1>7 DEF WritesItsFile, NotesAreNotes, fsVars
<1>9. OwedIsVisible' /\ AppendHoldsOwed'
    BY <1>2, <1>4, <1>7 DEF OwedIsVisible, AppendHoldsOwed, fsVars
<1> QED
    BY <1>5, <1>6, <1>8, <1>9

LEMMA LockIInv ==
    ASSUME IInv, NEW t \in Tasks, Lock(t)
    PROVE  IInv'
<1> USE NotesAssumption DEF IInv
<1>1. /\ pc[t] = "lock"
      /\ mutex[ProcOf[t]][Key(t)] = NoTask
      /\ mutex' = [mutex EXCEPT ![ProcOf[t]][Key(t)] = t]
      /\ pc' = [pc EXCEPT ![t] = "act"]
      /\ UNCHANGED <<fsVars, door, job, missed, owed>>
    BY DEF Lock, Goto
<1>2. ProcOf[t] \in Procs /\ Key(t) \in Keys
    BY <1>1 DEF ShapeOK, Key, Keys, Running
<1>3. \A u \in Tasks :
        /\ Key(u)' = Key(u)
        /\ Locks(u, job[u].kind)' = Locks(u, job[u].kind)
    BY <1>1 DEF Key, Locks, Door
<1>4. mutex'[ProcOf[t]][Key(t)] = t
    BY <1>1, <1>2 DEF ShapeOK
<1>5. ShapeOK'
  <2>1. mutex' \in [Procs -> [Keys -> Tasks \cup {NoTask}]]
      BY <1>1, <1>2 DEF ShapeOK
  <2>2. pc' \in [Tasks -> Places] /\ \A u \in Tasks : Running(u)' => Running(u)
      BY <1>1 DEF ShapeOK, Places, Running
  <2> QED
      BY <1>1, <2>1, <2>2 DEF ShapeOK, fsVars
<1>6. MutexHeld'
  <2> SUFFICES ASSUME NEW u \in Tasks, Inside(u)', Locks(u, job[u].kind)
               PROVE  mutex'[ProcOf[u]][Key(u)] = u
      BY <1>3 DEF MutexHeld
  <2>1. CASE u = t
      BY <2>1, <1>4
  <2>2. CASE u # t
    <3>1. Inside(u)
        BY <2>2, <1>1 DEF Inside, Running, ShapeOK
    <3>2. mutex[ProcOf[u]][Key(u)] = u
        BY <3>1 DEF MutexHeld
    <3>3. <<ProcOf[u], Key(u)>> # <<ProcOf[t], Key(t)>>
        BY <3>2, <1>1
    <3>4. Key(u) \in Keys /\ ProcOf[u] \in Procs
        BY <3>1 DEF ShapeOK, Key, Keys, Inside
    <3> QED
        BY <3>2, <3>3, <3>4, <1>1, <1>2 DEF ShapeOK
  <2> QED
      BY <2>1, <2>2
<1>7. \A u \in Tasks : pc'[u] \in {"write", "save"} => pc'[u] = pc[u]
    BY <1>1 DEF ShapeOK
<1>8. WritesItsFile' /\ NotesAreNotes'
    BY <1>1, <1>7 DEF WritesItsFile, NotesAreNotes, fsVars
<1>9. OwedIsVisible' /\ AppendHoldsOwed'
    BY <1>1, <1>7 DEF OwedIsVisible, AppendHoldsOwed, fsVars
<1> QED
    BY <1>5, <1>6, <1>8, <1>9

\* A call goes on without a write of its own in progress and without touching
\* a note.
LEMMA QuietIInv ==
    ASSUME IInv, NEW t \in Tasks, Inside(t), NEW place \in Places,
           place \notin {"write", "save"}, Goto(t, place),
           UNCHANGED <<visible, durable, platform, door, mutex, job, owed>>,
           missed \ {t} \subseteq missed',
           io' \in [Tasks -> IoPlaces], out' = [u \in Tasks |-> out'[u]],
           \A u \in Tasks \ {t} : out'[u] = out[u] /\ io'[u] = io[u]
    PROVE  IInv'
<1> USE DEF IInv
<1>1. ShapeOK'
    BY ShapeStep DEF ShapeOK
<1>2. MutexHeld'
    BY InsideStep DEF ShapeOK
<1>3. \A u \in Tasks : pc'[u] \in {"write", "save"} => u # t /\ pc'[u] = pc[u]
    BY DEF ShapeOK, Goto
<1>4. WritesItsFile' /\ NotesAreNotes'
    BY <1>3 DEF WritesItsFile, NotesAreNotes
<1>5. OwedIsVisible' /\ AppendHoldsOwed'
    BY <1>3 DEF OwedIsVisible, AppendHoldsOwed
<1> QED
    BY <1>1, <1>2, <1>4, <1>5

\* A call hands a note to AtomicFs.
LEMMA NoteIInv ==
    ASSUME IInv, NEW t \in Tasks, Inside(t), NEW pieces \in SUBSET Tasks,
           Goto(t, "write"), Submit(t, job[t].topic, Text(pieces)),
           job[t].kind = "append" /\ t \notin missed' =>
             owed[job[t].topic] \subseteq pieces,
           missed \subseteq missed',
           UNCHANGED <<visible, durable, platform, door, mutex, job, owed>>
    PROVE  IInv'
<1> USE DEF IInv
<1>1. /\ io' \in [Tasks -> IoPlaces]
      /\ out' = [u \in Tasks |-> out'[u]]
      /\ out'[t] = [file |-> job[t].topic, content |-> Text(pieces)]
      /\ \A u \in Tasks \ {t} : out'[u] = out[u] /\ io'[u] = io[u]
    BY SubmitShape
<1>2. pc'[t] = "write" /\ \A u \in Tasks \ {t} : pc'[u] = pc[u]
    BY DEF ShapeOK, Goto
<1>3. ShapeOK'
  <2>1. ShapeOK /\ "write" \in Places
      BY DEF Places
  <2>2. visible' = [f \in Files |-> visible'[f]]
        /\ owed' \in [Topics -> SUBSET Tasks]
      BY <2>1 DEF ShapeOK
  <2> QED
      BY <1>1, <2>1, <2>2, ShapeStep
<1>4. MutexHeld'
    BY InsideStep DEF ShapeOK
<1>5. WritesItsFile'
    BY <1>1, <1>2 DEF WritesItsFile
<1>6. NotesAreNotes'
    BY <1>1, <1>2 DEF NotesAreNotes, Text, Note
<1>7. OwedIsVisible'
    BY DEF OwedIsVisible
<1>8. job[t].topic \in Topics
    BY DEF ShapeOK, Inside
<1>9. AppendHoldsOwed'
  <2> SUFFICES ASSUME NEW u \in Tasks, pc'[u] = "write",
                      job[u].kind = "append", io'[u] \in {"rename", "gap"},
                      u \notin missed',
                      NEW c \in owed[job[u].topic], ProcOf[c] = ProcOf[u]
               PROVE  c \in out'[u].content.pieces
      BY DEF AppendHoldsOwed
  <2>1. CASE u = t
      BY <2>1, <1>1, <1>8 DEF Text
  <2>2. CASE u # t
      BY <2>2, <1>1, <1>2 DEF AppendHoldsOwed
  <2> QED
      BY <2>1, <2>2
<1> QED
    BY <1>3, <1>4, <1>5, <1>6, <1>7, <1>9

\* A call hands the record to AtomicFs.
LEMMA RecordIInv ==
    ASSUME IInv, NEW t \in Tasks, Inside(t), NEW content,
           Goto(t, "save"), Submit(t, State, content),
           UNCHANGED <<visible, durable, platform, door, mutex, job, missed,
                       owed>>
    PROVE  IInv'
<1> USE DEF IInv
<1>1. /\ io' \in [Tasks -> IoPlaces]
      /\ out' = [u \in Tasks |-> out'[u]]
      /\ out'[t] = [file |-> State, content |-> content]
      /\ \A u \in Tasks \ {t} : out'[u] = out[u] /\ io'[u] = io[u]
    BY SubmitShape
<1>2. pc'[t] = "save" /\ \A u \in Tasks \ {t} : pc'[u] = pc[u]
    BY DEF ShapeOK, Goto
<1>3. ShapeOK'
  <2>1. ShapeOK /\ "save" \in Places
      BY DEF Places
  <2>2. visible' = [f \in Files |-> visible'[f]]
        /\ owed' \in [Topics -> SUBSET Tasks]
      BY <2>1 DEF ShapeOK
  <2> QED
      BY <1>1, <2>1, <2>2, ShapeStep
<1>4. MutexHeld'
    BY InsideStep DEF ShapeOK
<1>5. WritesItsFile' /\ NotesAreNotes'
    BY <1>1, <1>2 DEF WritesItsFile, NotesAreNotes
<1>6. OwedIsVisible' /\ AppendHoldsOwed'
    BY <1>1, <1>2 DEF OwedIsVisible, AppendHoldsOwed
<1> QED
    BY <1>3, <1>4, <1>5, <1>6

\* A call removes its note.
LEMMA RemovedIInv ==
    ASSUME IInv, NEW t \in Tasks, Inside(t), pc[t] = "act",
           Replaced(job[t].topic, NoFile),
           owed' = [owed EXCEPT ![job[t].topic] = {}], Goto(t, "list"),
           UNCHANGED <<out, io, platform, door, mutex, job, missed>>
    PROVE  IInv'
<1> USE NotesAssumption DEF IInv
<1> DEFINE k == job[t].topic
<1>1. /\ Replaced(k, NoFile)
      /\ owed' = [owed EXCEPT ![k] = {}]
      /\ pc' = [pc EXCEPT ![t] = "list"]
    BY DEF Goto
<1>2. k \in Topics
    BY <1>1 DEF ShapeOK, Inside
<1>3. /\ visible' = [visible EXCEPT ![k] = NoFile]
      /\ \A j \in Topics : durable'[j] \in {durable[j], visible[j]}
  <2>1. PICK old \in {durable[k], visible[k]} :
          durable' = [durable EXCEPT ![k] = old]
      BY <1>1 DEF Replaced
  <2>2. visible' = [visible EXCEPT ![k] = NoFile]
      BY <1>1 DEF Replaced
  <2> QED
      BY <2>1, <2>2 DEF NotesAreNotes
<1>4. /\ visible' = [f \in Files |-> visible'[f]]
      /\ visible'[k] = NoFile
      /\ \A j \in Topics \ {k} : visible'[j] = visible[j]
    BY <1>2, <1>3 DEF ShapeOK
<1>5. /\ owed' \in [Topics -> SUBSET Tasks]
      /\ owed'[k] = {}
      /\ \A j \in Topics \ {k} : owed'[j] = owed[j]
    BY <1>1, <1>2 DEF ShapeOK
<1> HIDE DEF k
<1>6. ShapeOK'
  <2>1. ShapeOK /\ "list" \in Places
      BY DEF Places
  <2>2. io' \in [Tasks -> IoPlaces] /\ out' = [u \in Tasks |-> out'[u]]
      BY <1>1, <2>1 DEF ShapeOK
  <2> QED
      BY <1>1, <1>4, <1>5, <2>1, <2>2, ShapeStep
<1>7. MutexHeld'
    BY <1>1, InsideStep DEF ShapeOK
<1>8. \A u \in Tasks : pc'[u] \in {"write", "save"} => u # t /\ pc'[u] = pc[u]
    BY <1>1 DEF ShapeOK, Goto
<1>9. WritesItsFile' /\ NotesAreNotes'
    BY <1>1, <1>3, <1>4, <1>8 DEF WritesItsFile, NotesAreNotes
<1>10. OwedIsVisible'
    BY <1>1, <1>4, <1>5 DEF OwedIsVisible
<1>11. AppendHoldsOwed'
  <2> SUFFICES ASSUME NEW u \in Tasks, pc'[u] = "write",
                      job[u].kind = "append", io[u] \in {"rename", "gap"},
                      u \notin missed, NEW c \in owed'[job[u].topic],
                      ProcOf[c] = ProcOf[u]
               PROVE  c \in out[u].content.pieces
      BY <1>1 DEF AppendHoldsOwed
  <2>1. pc[u] = "write" /\ job[u].topic \in Topics
      BY <1>8 DEF ShapeOK, Running
  <2>2. c \in owed[job[u].topic]
      BY <2>1, <1>5
  <2> QED
      BY <2>1, <2>2 DEF AppendHoldsOwed
<1> QED
    BY <1>6, <1>7, <1>9, <1>10, <1>11

LEMMA ClearIInv ==
    ASSUME IInv, NEW t \in Tasks, Clear(t)
    PROVE  IInv'
<1>1. /\ Inside(t) /\ pc[t] = "act"
      /\ Goto(t, "list")
      /\ UNCHANGED <<out, io, platform, door, mutex, job, missed>>
      /\ \/ /\ Replaced(job[t].topic, NoFile)
            /\ owed' = [owed EXCEPT ![job[t].topic] = {}]
         \/ UNCHANGED <<visible, durable, owed>>
    BY DEF Clear, Acting, Inside, Running
<1>2. CASE /\ Replaced(job[t].topic, NoFile)
           /\ owed' = [owed EXCEPT ![job[t].topic] = {}]
    BY <1>1, <1>2, RemovedIInv
<1>3. CASE UNCHANGED <<visible, durable, owed>>
  <2>1. io' \in [Tasks -> IoPlaces] /\ out' = [u \in Tasks |-> out'[u]]
      BY <1>1 DEF IInv, ShapeOK
  <2>2. missed \ {t} \subseteq missed' /\ "list" \in Places
      BY <1>1 DEF Places
  <2>3. \A u \in Tasks \ {t} : out'[u] = out[u] /\ io'[u] = io[u]
      BY <1>1
  <2> QED
      BY <1>1, <1>3, <2>1, <2>2, <2>3, QuietIInv
<1> QED
    BY <1>1, <1>2, <1>3

-----------------------------------------------------------------------------

\* What a step of AtomicFs does: either it only moves the writer on, or it
\* renames, or it removes a target that a rename cannot replace.
LEMMA IoShape ==
    ASSUME ShapeOK, NEW t \in Tasks, IoStep(t) \/ SyncFails(t)
    PROVE  /\ UNCHANGED <<out, platform>>
           /\ io' \in [Tasks -> IoPlaces]
           /\ \A u \in Tasks \ {t} : io'[u] = io[u]
           /\ io'[t] \in {"gap", "sync", "err", "ok"}
           /\ visible' = [f \in Files |-> visible'[f]]
           /\ \/ /\ visible' = visible
                 /\ io'[t] \in {"err", "ok"}
              \/ /\ visible' = [visible EXCEPT ![out[t].file] = NoFile]
                 /\ platform = "windows"
                 /\ io'[t] = "gap"
              \/ /\ visible' = [visible EXCEPT ![out[t].file] = out[t].content]
                 /\ io[t] \in {"rename", "gap"}
                 /\ io'[t] = "sync"
<1> USE NotesAssumption DEF ShapeOK
<1>1. CASE RemoveTarget(t)
    BY <1>1 DEF RemoveTarget, Replaced, IoAt, IoPlaces, Blocked
<1>2. CASE Rename(t)
    BY <1>2 DEF Rename, Replaced, IoAt, IoPlaces
<1>3. CASE RenameFails(t)
    BY <1>3 DEF RenameFails, IoAt, IoPlaces
<1>4. CASE SyncDir(t)
    BY <1>4 DEF SyncDir, IoAt, IoPlaces
<1>5. CASE SyncFails(t)
    BY <1>5 DEF SyncFails, IoAt, IoPlaces
<1>6. CASE IoStep(t)
    BY <1>1, <1>2, <1>3, <1>4, <1>6 DEF IoStep
<1> QED
    BY <1>5, <1>6

\* The durable entries of topics are notes too.
LEMMA IoDurable ==
    ASSUME ShapeOK, NEW t \in Tasks, IoStep(t) \/ SyncFails(t)
    PROVE  \A j \in Topics : durable[j] \in Note \cup {NoFile}
                             /\ visible[j] \in Note \cup {NoFile}
                             => durable'[j] \in Note \cup {NoFile}
<1> SUFFICES ASSUME NEW j \in Topics, durable[j] \in Note \cup {NoFile},
                    visible[j] \in Note \cup {NoFile}
             PROVE  durable'[j] \in Note \cup {NoFile}
    OBVIOUS
<1> USE NotesAssumption
<1>1. ASSUME NEW f, NEW content, Replaced(f, content)
      PROVE  durable'[j] \in {durable[j], visible[j]}
    BY <1>1 DEF Replaced
<1>2. CASE RemoveTarget(t)
    BY <1>1, <1>2 DEF RemoveTarget
<1>3. CASE Rename(t)
    BY <1>1, <1>3 DEF Rename
<1>4. CASE RenameFails(t)
    BY <1>4 DEF RenameFails
<1>5. CASE SyncDir(t) \/ SyncFails(t)
    BY <1>5 DEF SyncDir, SyncFails
<1> QED
    BY <1>2, <1>3, <1>4, <1>5 DEF IoStep

\* A rename of a note by t, and what is owed after it.
LEMMA RenamedNote ==
    ASSUME IInv, NEW t \in Tasks, pc[t] = "write", owed' = OwedAfter(t),
           visible' = [visible EXCEPT ![out[t].file] = out[t].content]
    PROVE  LET k == job[t].topic IN
             /\ k \in Topics
             /\ visible'[k] = out[t].content /\ out[t].content \in Note
             /\ \A j \in Topics \ {k} :
                  visible'[j] = visible[j] /\ owed'[j] = owed[j]
             /\ owed'[k] = IF job[t].kind = "append"
                           THEN (owed[k] \cup {t}) \cap out[t].content.pieces
                           ELSE {}
             /\ owed' \in [Topics -> SUBSET Tasks]
<1> USE NotesAssumption DEF IInv
<1> DEFINE k == job[t].topic
<1>1. k \in Topics /\ out[t].file = k /\ out[t].content \in Note
    BY DEF ShapeOK, WritesItsFile, NotesAreNotes, Running
<1>2. owed' = [owed EXCEPT ![k] =
                 IF job[t].kind = "append"
                 THEN (owed[k] \cup {t}) \cap out[t].content.pieces ELSE {}]
    BY DEF OwedAfter
<1>3. owed' \in [Topics -> SUBSET Tasks]
    BY <1>1, <1>2 DEF ShapeOK
<1> QED
    BY <1>1, <1>2, <1>3 DEF ShapeOK

\* Only a write whose rename is to come is about to rename.
LEMMA IoPending ==
    ASSUME NEW t \in Tasks, IoStep(t) \/ SyncFails(t), io'[t] = "gap",
           io \in [Tasks -> IoPlaces]
    PROVE  io[t] = "rename"
<1> QED
    BY DEF IoStep, RemoveTarget, Rename, RenameFails, SyncDir, SyncFails, IoAt

LEMMA WriteStepOwed ==
    ASSUME IInv, NEW t \in Tasks, WriteStep(t)
    PROVE  /\ owed' \in [Topics -> SUBSET Tasks]
           /\ NotesAreNotes'
           /\ OwedIsVisible'
           /\ AppendHoldsOwed'
<1> USE NotesAssumption DEF IInv
<1>1. /\ pc[t] \in {"write", "save"}
      /\ IoStep(t) \/ SyncFails(t)
      /\ owed' = IF io'[t] = "sync" THEN OwedAfter(t) ELSE owed
      /\ UNCHANGED <<door, mutex, pc, job, missed>>
    BY DEF WriteStep
<1>2. UNCHANGED <<out, platform>> /\ \A u \in Tasks \ {t} : io'[u] = io[u]
    BY <1>1, IoShape
<1>3. \A j \in Topics : durable'[j] \in Note \cup {NoFile}
    BY <1>1, IoDurable DEF NotesAreNotes
<1>4. CASE visible' = visible /\ io'[t] \in {"err", "ok"}
    BY <1>1, <1>2, <1>3, <1>4
       DEF ShapeOK, NotesAreNotes, OwedIsVisible, AppendHoldsOwed
<1>5. CASE /\ visible' = [visible EXCEPT ![out[t].file] = NoFile]
           /\ platform = "windows" /\ io'[t] = "gap"
  <2>1. \A j \in Topics : visible'[j] \in Note \cup {NoFile}
      BY <1>5 DEF NotesAreNotes, ShapeOK
  <2>2. owed' = owed
      BY <1>1, <1>5
  <2>3. NotesAreNotes'
      BY <1>1, <1>2, <1>3, <2>1 DEF NotesAreNotes
  <2>4. \A j \in Topics : visible'[j] # NoFile => visible'[j] = visible[j]
      BY <1>5 DEF ShapeOK
  <2>5. OwedIsVisible'
      BY <2>2, <2>4 DEF OwedIsVisible
  <2>6. \A u \in Tasks : pc[u] = "write" /\ io'[u] \in {"rename", "gap"} =>
          io[u] \in {"rename", "gap"}
      BY <1>1, <1>2, <1>5, IoPending DEF ShapeOK
  <2>7. AppendHoldsOwed'
      BY <1>1, <1>2, <2>2, <2>6 DEF AppendHoldsOwed
  <2> QED
      BY <2>2, <2>3, <2>5, <2>7 DEF ShapeOK
<1>6. CASE /\ visible' = [visible EXCEPT ![out[t].file] = out[t].content]
           /\ io[t] \in {"rename", "gap"} /\ io'[t] = "sync"
  <2>1. CASE pc[t] = "save"
    <3>1. owed' = owed /\ out[t].file = State
        BY <1>1, <1>6, <2>1 DEF OwedAfter, WritesItsFile
    <3>2. \A j \in Topics : visible'[j] = visible[j]
        BY <3>1, <1>6 DEF ShapeOK
    <3>3. AppendHoldsOwed'
      <4> SUFFICES ASSUME NEW u \in Tasks, pc[u] = "write",
                          job[u].kind = "append", io'[u] \in {"rename", "gap"},
                          u \notin missed, NEW c \in owed[job[u].topic],
                          ProcOf[c] = ProcOf[u]
                   PROVE  c \in out[u].content.pieces
          BY <1>1, <1>2, <3>1 DEF AppendHoldsOwed
      <4>1. u # t
          BY <2>1
      <4> QED
          BY <4>1, <1>2 DEF AppendHoldsOwed
    <3> QED
        BY <1>1, <1>2, <1>3, <3>1, <3>2, <3>3
           DEF ShapeOK, NotesAreNotes, OwedIsVisible
  <2>2. CASE pc[t] = "write"
    <3> DEFINE k == job[t].topic
    <3>1. owed' = OwedAfter(t)
        BY <1>1, <1>6
    <3>2. /\ k \in Topics
          /\ visible'[k] = out[t].content /\ out[t].content \in Note
          /\ \A j \in Topics \ {k} :
               visible'[j] = visible[j] /\ owed'[j] = owed[j]
          /\ owed'[k] = IF job[t].kind = "append"
                        THEN (owed[k] \cup {t}) \cap out[t].content.pieces
                        ELSE {}
          /\ owed' \in [Topics -> SUBSET Tasks]
        BY <1>6, <2>2, <3>1, RenamedNote
    <3> HIDE DEF k
    <3>3. NotesAreNotes'
        BY <1>1, <1>2, <1>3, <3>2 DEF NotesAreNotes
    <3>4. OwedIsVisible'
      <4> SUFFICES ASSUME NEW j \in Topics, visible'[j] # NoFile
                   PROVE  owed'[j] \subseteq Pieces(visible'[j])
          BY DEF OwedIsVisible, Pieces
      <4>1. CASE j = k
          BY <4>1, <3>2 DEF Pieces
      <4>2. CASE j # k
          BY <4>2, <3>2 DEF OwedIsVisible
      <4> QED
          BY <4>1, <4>2
    <3>5. AppendHoldsOwed'
      <4> SUFFICES ASSUME NEW u \in Tasks, pc[u] = "write",
                          job[u].kind = "append", io'[u] \in {"rename", "gap"},
                          u \notin missed, NEW c \in owed'[job[u].topic],
                          ProcOf[c] = ProcOf[u]
                   PROVE  c \in out[u].content.pieces
          BY <1>1, <1>2 DEF AppendHoldsOwed
      <4>1. u # t
          BY <1>6
      <4>2. job[u].topic \in Topics
          BY DEF ShapeOK, Running
      <4>3. c \in owed[job[u].topic]
        <5>1. CASE job[u].topic # k
            BY <5>1, <4>2, <3>2
        <5>2. CASE job[u].topic = k
          <6>1. job[t].kind = "append" /\ c \in owed[k] \cup {t}
              BY <5>2, <3>2
          <6>2. ASSUME c = t PROVE FALSE
            <7>1. ProcOf[t] = ProcOf[u]
                BY <6>2
            <7>2. job[t].topic = job[u].topic
                BY <5>2 DEF k
            <7>3. Inside(t) /\ Inside(u)
                BY <2>2 DEF Inside, Running
            <7> QED
                BY <7>1, <7>2, <7>3, <6>1, <4>1, OneAppendPerProcess
          <6> QED
              BY <5>2, <6>1, <6>2
        <5> QED
            BY <5>1, <5>2
      <4> QED
          BY <4>1, <4>3, <1>2 DEF AppendHoldsOwed
    <3> QED
        BY <3>2, <3>3, <3>4, <3>5
  <2> QED
      BY <1>1, <2>1, <2>2
<1> QED
    BY <1>1, <1>4, <1>5, <1>6, IoShape

LEMMA WriteStepIInv ==
    ASSUME IInv, NEW t \in Tasks, WriteStep(t)
    PROVE  IInv'
<1>1. (IoStep(t) \/ SyncFails(t)) /\ UNCHANGED <<door, mutex, pc, job>>
    BY DEF WriteStep
<1>2. /\ UNCHANGED out
      /\ io' \in [Tasks -> IoPlaces]
      /\ visible' = [f \in Files |-> visible'[f]]
    BY <1>1, IoShape DEF IInv
<1>3. owed' \in [Topics -> SUBSET Tasks]
    BY WriteStepOwed
<1>4. ShapeOK'
    BY <1>1, <1>2, <1>3 DEF IInv, ShapeOK, Running
<1>5. MutexHeld' /\ WritesItsFile'
    BY <1>1, <1>2
       DEF IInv, MutexHeld, WritesItsFile, Inside, Running, Locks, Key, Door
<1> QED
    BY <1>4, <1>5, WriteStepOwed DEF IInv

-----------------------------------------------------------------------------

\* Calls end, and what is visible stays.
LEMMA EndIInv ==
    ASSUME IInv, NEW T \in SUBSET Tasks, Forget(T), Unlock(T),
           UNCHANGED <<visible, durable, platform, door, owed>>
    PROVE  IInv'
<1> USE DEF IInv
<1>1. ShapeOK'
    BY EndingShape DEF ShapeOK
<1>2. MutexHeld' /\ WritesItsFile'
    BY EndingRest
<1>3. \A u \in Tasks : pc'[u] = "write" =>
        /\ pc[u] = "write"
        /\ job'[u] = job[u] /\ out'[u] = out[u] /\ io'[u] = io[u]
        /\ u \notin missed' => u \notin missed
    BY DEF Forget
<1>4. NotesAreNotes' /\ OwedIsVisible'
    BY <1>3 DEF NotesAreNotes, OwedIsVisible
<1>5. AppendHoldsOwed'
    BY <1>3 DEF AppendHoldsOwed
<1> QED
    BY <1>1, <1>2, <1>4, <1>5

\* After a power loss every file is what it was, what was durable, or gone.
LEMMA RevertedFacts ==
    ASSUME Reverted
    PROVE  /\ durable' = visible'
           /\ visible' = [f \in Files |-> visible'[f]]
           /\ \A f \in Files : visible'[f] \in {NoFile, durable[f], visible[f]}
           /\ dirs' = [d \in Dirs |-> dirs'[d]]
           /\ \A d \in Dirs : dirs'[d] \in {"none", "synced"}
<1>1. PICK G \in SUBSET {d \in Dirs : dirs[d] = "made"} :
        /\ dirs' = [d \in Dirs |->
                      IF d \in G \/ ParentOf[d] \in G \/ dirs[d] = "none"
                      THEN "none" ELSE "synced"]
        /\ \E F \in SUBSET {f \in Files : /\ durable[f] # visible[f]
                                          /\ Way(f) \cap G = {}} :
             visible' = [f \in Files |-> IF Way(f) \cap G # {} THEN NoFile
                                         ELSE IF f \in F THEN durable[f]
                                         ELSE visible[f]]
    BY DEF Reverted
<1>2. PICK F \in SUBSET {f \in Files : /\ durable[f] # visible[f]
                                       /\ Way(f) \cap G = {}} :
        visible' = [f \in Files |-> IF Way(f) \cap G # {} THEN NoFile
                                    ELSE IF f \in F THEN durable[f]
                                    ELSE visible[f]]
    BY <1>1
<1> HIDE DEF Way
<1>3. /\ visible' = [f \in Files |-> visible'[f]]
      /\ \A f \in Files : visible'[f] \in {NoFile, durable[f], visible[f]}
    BY <1>2
<1>4. /\ dirs' = [d \in Dirs |-> dirs'[d]]
      /\ \A d \in Dirs : dirs'[d] \in {"none", "synced"}
    BY <1>1
<1> QED
    BY <1>3, <1>4 DEF Reverted

LEMMA PowerLossIInv ==
    ASSUME IInv, PowerLoss
    PROVE  IInv'
<1> USE NotesAssumption DEF IInv
<1> DEFINE T == {t \in Tasks : Running(t)}
<1>1. /\ Forget(T) /\ Unlock(T) /\ Reverted
      /\ owed' = [k \in Topics |-> owed[k] \cap Pieces(visible'[k])]
      /\ UNCHANGED <<platform, door>>
    BY DEF PowerLoss
<1>3. visible' = [f \in Files |-> visible'[f]] /\ durable' = visible'
    BY <1>1, RevertedFacts
<1>4. \A k \in Topics : visible'[k] \in Note \cup {NoFile}
    BY <1>1, RevertedFacts DEF NotesAreNotes
<1>5. owed' \in [Topics -> SUBSET Tasks]
    BY <1>1 DEF ShapeOK
<1>6. \A u \in Tasks : pc'[u] \notin {"write", "save"}
    BY <1>1 DEF Forget, Running
<1> HIDE DEF T
<1>7. T \in SUBSET Tasks
    BY DEF T
<1>8. ShapeOK'
    BY <1>1, <1>3, <1>5, <1>7, EndingShape
<1>9. MutexHeld' /\ WritesItsFile'
    BY <1>1, <1>7, EndingRest
<1>10. NotesAreNotes' /\ AppendHoldsOwed'
    BY <1>3, <1>4, <1>6 DEF NotesAreNotes, AppendHoldsOwed
<1>11. OwedIsVisible'
    BY <1>1 DEF OwedIsVisible, Pieces
<1> QED
    BY <1>8, <1>9, <1>10, <1>11

LEMMA StutterIInv ==
    ASSUME IInv, UNCHANGED vars
    PROVE  IInv'
<1> QED
    BY DEF IInv, ShapeOK, NotesAreNotes, MutexHeld, WritesItsFile,
           OwedIsVisible, AppendHoldsOwed, Inside, Running, Locks, Key, Door,
           Pieces, vars, fsVars, noteVars

LEMMA StepIInv ==
    ASSUME IInv, NEW t \in Tasks, Step(t)
    PROVE  IInv'
<1> USE NotesAssumption
<1>1. CASE Lock(t)
    BY <1>1, LockIInv
<1>2. CASE Append(t)
  <2>1. Inside(t) /\ job[t].kind = "append"
      BY <1>2 DEF Append, Acting, Inside, Running
  <2>2. job[t].topic \in Topics
      BY <2>1 DEF IInv, ShapeOK, Inside
  <2>3. UNCHANGED <<visible, durable, platform, door, mutex, job, owed>>
      BY <1>2 DEF Append
  <2>4. PICK found \in {visible[job[t].topic], NoFile} :
          /\ missed' = IF found = NoFile /\ There(job[t].topic)
                       THEN missed \cup {t} ELSE missed
          /\ \/ Goto(t, "done") /\ UNCHANGED <<out, io>>
             \/ /\ Goto(t, "write")
                /\ Submit(t, job[t].topic, Text(Pieces(found) \cup {t}))
      BY <1>2 DEF Append
  <2>5. missed \subseteq missed'
      BY <2>4
  <2>6. CASE Goto(t, "done") /\ UNCHANGED <<out, io>>
      BY <2>1, <2>3, <2>5, <2>6, QuietIInv DEF IInv, ShapeOK, Places
  <2>7. CASE /\ Goto(t, "write")
             /\ Submit(t, job[t].topic, Text(Pieces(found) \cup {t}))
    <3> DEFINE new == Pieces(found) \cup {t}
    <3>1. new \in SUBSET Tasks
        BY <2>2, <2>4 DEF IInv, NotesAreNotes, Pieces, Note
    <3>2. ASSUME t \notin missed' PROVE owed[job[t].topic] \subseteq new
        BY <2>2, <2>4, <3>2 DEF There, IInv, OwedIsVisible, Pieces
    <3> HIDE DEF new
    <3>3. Submit(t, job[t].topic, Text(new))
        BY <2>7 DEF new
    <3> QED
        BY <2>1, <2>3, <2>5, <2>7, <3>1, <3>2, <3>3, NoteIInv
  <2> QED
      BY <2>4, <2>6, <2>7
<1>3. CASE Replace(t)
    BY <1>3, NoteIInv DEF Replace, Acting, Inside, Running
<1>4. CASE Clear(t)
    BY <1>4, ClearIInv
<1>5. CASE ActFails(t) \/ Read(t)
    BY <1>5, QuietIInv
       DEF ActFails, Read, Acting, Inside, Running, IInv, ShapeOK, Places, fsVars
<1>6. CASE Mark(t)
  <2>1. PICK record : Submit(t, State, record)
      BY <1>6 DEF Mark
  <2> QED
      BY <1>6, <2>1, RecordIInv DEF Mark, Acting, Inside, Running
<1>7. CASE WriteStep(t)
    BY <1>7, WriteStepIInv
<1>8. CASE List(t)
  <2>1. /\ Inside(t) /\ Goto(t, "state") /\ Taken(t)
        /\ UNCHANGED <<visible, durable, platform, door, mutex, job, owed>>
      BY <1>8 DEF List, Names, Listing, Inside, Running
  <2>2. /\ io' \in [Tasks -> IoPlaces]
        /\ out' = [u \in Tasks |-> out'[u]]
        /\ \A u \in Tasks \ {t} : out'[u] = out[u] /\ io'[u] = io[u]
        /\ missed \ {t} \subseteq missed'
      BY <2>1 DEF Taken, IoAt, IInv, ShapeOK, IoPlaces
  <2> QED
      BY <2>1, <2>2, QuietIInv DEF Places
<1>9. CASE Save(t)
  <2>1. PICK extracted : Persist(t, State, extracted)
      BY <1>9 DEF Save
  <2> QED
      BY <2>1, RecordIInv DEF Persist, Inside, Running
<1>10. CASE Return(t)
  <2>1. {t} \in SUBSET Tasks
      OBVIOUS
  <2> QED
      BY <1>10, <2>1, EndIInv DEF Return
<1> QED
    BY <1>1, <1>2, <1>3, <1>4, <1>5, <1>6, <1>7, <1>8, <1>9, <1>10 DEF Step

LEMMA NextIInv ==
    ASSUME IInv, [Next]_vars
    PROVE  IInv'
<1>1. CASE \E t \in Tasks : Start(t) \/ Step(t)
    BY <1>1, StartIInv, StepIInv
<1>2. CASE \E p \in Procs : Crash(p)
  <2>1. PICK p \in Procs : Crash(p)
      BY <1>2
  <2> DEFINE T == {t \in Tasks : ProcOf[t] = p /\ Running(t)}
  <2>2. T \in SUBSET Tasks
      OBVIOUS
  <2>3. /\ Forget(T) /\ Unlock(T)
        /\ UNCHANGED <<visible, durable, platform, door, owed>>
      BY <2>1 DEF Crash
  <2> HIDE DEF T
  <2> QED
      BY <2>2, <2>3, EndIInv
<1>3. CASE PowerLoss
    BY <1>3, PowerLossIInv
<1>4. CASE Finished \/ UNCHANGED vars
    BY <1>4, StutterIInv DEF Finished
<1> QED
    BY <1>1, <1>2, <1>3, <1>4 DEF Next

LEMMA SpecIInv ==
    Spec => []IInv
<1> QED
    BY InitIInv, NextIInv, PTL DEF Spec

-----------------------------------------------------------------------------

\* The only step that publishes for t is its own step of AtomicFs.
LEMMA OnlyRenamePublishes ==
    ASSUME IInv, [Next]_vars, NEW t \in Tasks, Publishes(t)
    PROVE  WriteStep(t)
<1> USE NotesAssumption
<1>1. io[t] \in {"rename", "gap"} /\ io'[t] = "sync"
    BY DEF Publishes
<1>2. ASSUME NEW u \in Tasks, Start(u) \/ Lock(u) \/ ActFails(u) \/ Read(u)
                              \/ Clear(u)
      PROVE  FALSE
    BY <1>1, <1>2 DEF Start, Lock, ActFails, Read, Clear, fsVars
<1>3. ASSUME NEW u \in Tasks, NEW file, NEW content, Submit(u, file, content)
      PROVE  FALSE
    BY <1>1, <1>3 DEF Submit, IoAt, IInv, ShapeOK
<1>4. ASSUME NEW u \in Tasks, Append(u) \/ Replace(u) \/ Mark(u) \/ Save(u)
      PROVE  FALSE
    BY <1>1, <1>3, <1>4 DEF Append, Replace, Mark, Save, Persist
<1>5. ASSUME NEW u \in Tasks, List(u)
      PROVE  FALSE
    BY <1>1, <1>5 DEF List, Names, Taken, IoAt, IInv, ShapeOK
<1>6. ASSUME NEW T \in SUBSET Tasks, Forget(T)
      PROVE  FALSE
    BY <1>1, <1>6 DEF Forget
<1>7. ASSUME NEW u \in Tasks, Return(u)
      PROVE  FALSE
  <2>1. {u} \in SUBSET Tasks
      OBVIOUS
  <2> QED
      BY <1>6, <1>7, <2>1 DEF Return
<1>8. ASSUME PowerLoss \/ \E p \in Procs : Crash(p)
      PROVE  FALSE
    BY <1>6, <1>8 DEF PowerLoss, Crash
<1>9. ASSUME NEW u \in Tasks, u # t, WriteStep(u)
      PROVE  FALSE
    BY <1>1, <1>9, IoShape DEF WriteStep, IInv
<1>10. ~UNCHANGED vars
    BY <1>1 DEF vars, fsVars
<1> QED
    BY <1>2, <1>4, <1>5, <1>7, <1>8, <1>9, <1>10 DEF Next, Step, Finished

\* No append is lost to another append of its process that found the note, on
\* Unix and on Windows alike.
THEOREM NotesKeepOwnAppends ==
    Spec => OwnAppendsKept
<1>1. ASSUME IInv, [Next]_vars, NEW t \in Tasks,
             Publishes(t), pc[t] = "write", job[t].kind = "append",
             t \notin missed,
             NEW c \in owed[job[t].topic] \ owed'[job[t].topic]
      PROVE  ProcOf[c] # ProcOf[t]
  <2>1. WriteStep(t) /\ io'[t] = "sync" /\ io[t] \in {"rename", "gap"}
      BY <1>1, OnlyRenamePublishes DEF Publishes
  <2>2. visible' = [visible EXCEPT ![out[t].file] = out[t].content]
      BY <2>1, IoShape, <1>1 DEF WriteStep, IInv
  <2>3. owed' = OwedAfter(t)
      BY <2>1 DEF WriteStep
  <2>4. owed'[job[t].topic] =
          (owed[job[t].topic] \cup {t}) \cap out[t].content.pieces
      BY <1>1, <2>2, <2>3, RenamedNote
  <2>5. c \notin out[t].content.pieces
      BY <1>1, <2>4
  <2> QED
      BY <1>1, <2>1, <2>5 DEF IInv, AppendHoldsOwed
<1>2. IInv /\ [Next]_vars =>
        (\A t \in Tasks :
           /\ Publishes(t)
           /\ pc[t] = "write"
           /\ job[t].kind = "append"
           /\ t \notin missed
           => \A c \in owed[job[t].topic] \ owed'[job[t].topic] :
                ProcOf[c] # ProcOf[t])
    BY <1>1
<1> QED
    BY SpecIInv, <1>2, PTL DEF Spec, OwnAppendsKept

\* No reader misses a note that nobody cleared, where a rename replaces a file.
THEOREM NotesKeptVisible ==
    Spec => NotesStayVisible
<1> USE NotesAssumption
<1>1. ASSUME IInv, [Next]_vars, platform = "unix", NEW k \in Topics,
             visible[k] # NoFile, visible'[k] = NoFile
      PROVE  \/ \A t \in Tasks : ~Running(t)'
             \/ \E t \in Tasks : Acting(t, "clear") /\ job[t].topic = k
  <2>1. CASE PowerLoss
      BY <2>1 DEF PowerLoss, Forget, Running
  <2>2. ASSUME NEW t \in Tasks, Clear(t)
        PROVE  Acting(t, "clear") /\ job[t].topic = k
    <3>1. visible' = [visible EXCEPT ![job[t].topic] = NoFile]
        BY <1>1, <2>2 DEF Clear, Replaced
    <3>2. job[t].topic = k
        BY <1>1, <3>1 DEF IInv, ShapeOK
    <3> QED
        BY <2>2, <3>2 DEF Clear
  <2>3. ASSUME NEW t \in Tasks, WriteStep(t)
        PROVE  FALSE
    <3>1. (IoStep(t) \/ SyncFails(t)) /\ pc[t] \in {"write", "save"}
        BY <2>3 DEF WriteStep
    <3>2. visible' = [visible EXCEPT ![out[t].file] = out[t].content]
        BY <1>1, <3>1, IoShape DEF IInv
    <3>3. CASE pc[t] = "save"
        BY <1>1, <3>2, <3>3 DEF IInv, WritesItsFile, ShapeOK
    <3>4. CASE pc[t] = "write"
      <4>1. out[t].file = job[t].topic /\ out[t].content \in Note
          BY <1>1, <3>4 DEF IInv, WritesItsFile, NotesAreNotes
      <4> QED
          BY <1>1, <3>2, <4>1 DEF IInv, ShapeOK
    <3> QED
        BY <3>1, <3>3, <3>4
  <2>4. visible' # visible
      BY <1>1
  <2>5. ASSUME NEW t \in Tasks, Start(t) \/ Lock(t) \/ Append(t) \/ Replace(t)
                 \/ ActFails(t) \/ Read(t) \/ Mark(t) \/ List(t) \/ Save(t)
                 \/ Return(t)
        PROVE  FALSE
      BY <2>4, <2>5 DEF Start, Lock, Append, Replace, ActFails, Read, Mark,
                        List, Names, Save, Persist, Return, fsVars
  <2>6. ~\E p \in Procs : Crash(p)
      BY <2>4 DEF Crash
  <2>7. ~Finished /\ ~UNCHANGED vars
      BY <2>4 DEF Finished, vars, fsVars
  <2> QED
      BY <1>1, <2>1, <2>2, <2>3, <2>5, <2>6, <2>7 DEF Next, Step
<1>2. IInv /\ [Next]_vars =>
        (platform = "unix" =>
           \A k \in Topics :
             visible[k] # NoFile /\ visible'[k] = NoFile =>
               \/ \A t \in Tasks : ~Running(t)'
               \/ \E t \in Tasks : Acting(t, "clear") /\ job[t].topic = k)
    BY <1>1
<1> QED
    BY SpecIInv, <1>2, PTL DEF Spec, NotesStayVisible
-----------------------------------------------------------------------------
(* state.json, which every call rewrites from what it has read: the topics   *)
(* it lists, and the mark.  Both promises hold of calls that met no rival.   *)
(* The argument: whoever runs beside an undisturbed call is kept out by the  *)
(* session mutex of the handler, so the files stay as they are between two   *)
(* of its steps.  A directory that was made stays, until the power is lost.  *)

Mutating(t) == job[t].kind # "read"

\* Past its action a call is about to change files.
Past == {"write", "list", "state", "save"}

\* The parts of the type invariant that ShapeOK leaves out.
FilesOK ==
    /\ visible \in [Files -> Note \cup Record \cup {NoFile}]
    /\ durable \in [Files -> Note \cup Record \cup {NoFile}]
    /\ visible[State] \in Record \cup {NoFile}
    /\ durable[State] \in Record \cup {NoFile}
    /\ dirs \in [Dirs -> DirStates]

CallsOK ==
    /\ out \in [Tasks ->
                  [file : Files, content : Note \cup Record \cup {NoFile}]]
    /\ platform \in Platforms
    /\ door \in DoorChoices
    /\ names \in [Tasks -> SUBSET Topics]
    /\ disturbed \in [Tasks -> BOOLEAN]
    /\ missed \subseteq Tasks

\* What a call does at its place.
StageOK ==
    \A t \in Tasks :
        /\ pc[t] = "save" => out[t].content \in Record
        /\ pc[t] \in Past => Mutating(t)
        /\ pc[t] = "list" => job[t].kind = "clear"

\* The directory a note is written to is there.
MadeDir(t) ==
    /\ job[t].kind \in {"append", "replace"}
    /\ pc[t] \in {"state", "save"} \/ (pc[t] = "write" /\ io[t] # "err")
    /\ DirOf[job[t].topic] \in Dirs
    => dirs[DirOf[job[t].topic]] # "none"

\* An undisturbed mutation runs beside others of its own handler only.
Apart ==
    \A t, u \in Tasks :
        /\ t # u /\ Running(t) /\ Running(u)
        /\ Mutating(t) /\ Mutating(u)
        /\ ~disturbed[t]
        => ProcOf[u] = ProcOf[t] /\ Door(t) = "handler"

\* The mark is in what an undisturbed call is about to publish.
KeepsMark(t) ==
    /\ pc[t] = "save" /\ io[t] \in {"rename", "gap"} /\ ~disturbed[t]
    /\ visible[State] # NoFile
    /\ visible[State].extracted
    => out[t].content.extracted

\* What an undisturbed call lists stays what there is, and is what it writes.
ListsAll(t) ==
    ~disturbed[t] /\ job[t].kind \in {"append", "replace", "clear"} =>
        /\ pc[t] = "state" => names[t] = Listed
        /\ pc[t] = "save" /\ io[t] \in {"rename", "gap"}
           => out[t].content.topics = Listed
        /\ pc[t] = "save" /\ io[t] \in {"sync", "ok"}
           => visible[State].topics = Listed

\* Where directories are synced, its note and its record are safe.
Synced(t) ==
    platform = "unix" /\ ~disturbed[t] =>
        /\ pc[t] = "save" /\ io[t] = "ok" => durable[State] = visible[State]
        /\ /\ \/ pc[t] \in {"state", "save"}
              \/ pc[t] = "write" /\ io[t] = "ok"
           /\ job[t].kind \in {"append", "replace"}
           => durable[job[t].topic] = visible[job[t].topic]
        /\ /\ pc[t] = "save" /\ io[t] = "ok"
           /\ job[t].kind \in {"append", "replace"}
           /\ DirOf[job[t].topic] \in Dirs
           => dirs[DirOf[job[t].topic]] = "synced"

Careful(t) == KeepsMark(t) /\ ListsAll(t) /\ Synced(t)

RInv ==
    /\ IInv
    /\ FilesOK
    /\ CallsOK
    /\ StageOK
    /\ \A t \in Tasks : MadeDir(t)
    /\ Apart
    /\ \A t \in Tasks : Careful(t)

-----------------------------------------------------------------------------
(* How a step may look.                                                    *)

Ending(T) ==
    /\ Forget(T)
    /\ UNCHANGED <<platform, door>>
    /\ \/ UNCHANGED <<visible, durable, dirs>>
       \/ Reverted /\ \A t \in Tasks : Running(t) => t \in T

Working(t) ==
    \/ Lock(t) \/ Append(t) \/ Replace(t) \/ Clear(t) \/ ActFails(t)
    \/ Read(t) \/ Mark(t) \/ WriteStep(t) \/ List(t) \/ Save(t)

LEMMA Steps ==
    ASSUME [Next]_vars
    PROVE  \/ \E t \in Tasks : Start(t) \/ Working(t)
           \/ \E T \in SUBSET Tasks : Ending(T)
           \/ UNCHANGED vars
<1>1. ASSUME NEW t \in Tasks, Step(t)
      PROVE  Working(t) \/ \E T \in SUBSET Tasks : Ending(T)
  <2>1. CASE Return(t)
    <3>1. {t} \in SUBSET Tasks /\ Ending({t})
        BY <2>1 DEF Return, Ending
    <3> QED
        BY <3>1
  <2> QED
      BY <1>1, <2>1 DEF Step, Working
<1>2. ASSUME NEW p \in Procs, Crash(p)
      PROVE  \E T \in SUBSET Tasks : Ending(T)
  <2> DEFINE T == {t \in Tasks : ProcOf[t] = p /\ Running(t)}
  <2>1. T \in SUBSET Tasks /\ Ending(T)
      BY <1>2 DEF Crash, Ending
  <2> QED
      BY <2>1
<1>3. CASE PowerLoss
  <2> DEFINE T == {t \in Tasks : Running(t)}
  <2>1. T \in SUBSET Tasks /\ Ending(T)
      BY <1>3 DEF PowerLoss, Ending
  <2> QED
      BY <2>1
<1> QED
    BY <1>1, <1>2, <1>3 DEF Next, Finished

\* A step of one call leaves the others' own state.
LEMMA OthersOwn ==
    ASSUME IInv, CallsOK, NEW u \in Tasks, Working(u), NEW t \in Tasks, t # u
    PROVE  /\ pc'[t] = pc[t] /\ job'[t] = job[t] /\ io'[t] = io[t]
           /\ out'[t] = out[t] /\ names'[t] = names[t]
<1> USE DEF IInv, ShapeOK, CallsOK, Goto
<1>1. ASSUME NEW file, NEW content, Submit(u, file, content)
      PROVE  out'[t] = out[t] /\ io'[t] = io[t]
    BY <1>1, SubmitShape
<1>2. CASE Lock(u) \/ ActFails(u) \/ Read(u) \/ Clear(u)
    BY <1>2 DEF Lock, ActFails, Read, Clear, fsVars
<1>3. CASE Append(u) \/ Replace(u) \/ Mark(u) \/ Save(u)
    BY <1>1, <1>3 DEF Append, Replace, Mark, Save, Persist
<1>4. CASE WriteStep(u)
    BY <1>4, IoShape DEF WriteStep
<1>5. CASE List(u)
    BY <1>5 DEF List, Names, Taken, IoAt
<1> QED
    BY <1>2, <1>3, <1>4, <1>5 DEF Working

\* A call that notes a lapse disturbs nobody else.
LEMMA NotedFacts ==
    ASSUME CallsOK, NEW u \in Tasks, NEW lapse \in BOOLEAN, Noted(u, lapse)
    PROVE  /\ disturbed' \in [Tasks -> BOOLEAN]
           /\ \A t \in Tasks : ~disturbed'[t] => ~disturbed[t]
           /\ \A t \in Tasks \ {u} : disturbed'[t] = disturbed[t]
           /\ lapse => disturbed'[u]
<1>1. disturbed' = [disturbed EXCEPT ![u] = disturbed[u] \/ lapse]
    BY DEF Noted
<1>2. disturbed \in [Tasks -> BOOLEAN]
    BY DEF CallsOK
<1> QED
    BY <1>1, <1>2

\* A call that runs stays the same call, and a step disturbs nobody else.
LEMMA SameCalls ==
    ASSUME CallsOK, NEW u \in Tasks, Working(u)
    PROVE  /\ UNCHANGED <<job, door, platform>>
           /\ disturbed' \in [Tasks -> BOOLEAN]
           /\ \A t \in Tasks : ~disturbed'[t] => ~disturbed[t]
           /\ \A t \in Tasks \ {u} : disturbed'[t] = disturbed[t]
           /\ missed' \subseteq Tasks
<1>1. UNCHANGED <<job, door, platform>>
  <2>1. WriteStep(u) => platform' = platform
      BY DEF WriteStep, IoStep, RemoveTarget, Rename, RenameFails, SyncDir,
         SyncFails
  <2> QED
      BY <2>1 DEF Working, Lock, Append, Replace, Clear, ActFails, Read, Mark,
         WriteStep, List, Names, Save, Persist, fsVars
<1>2. \/ UNCHANGED disturbed
      \/ \E lapse \in BOOLEAN : Noted(u, lapse)
  <2>1. CASE Append(u)
    <3>1. PICK found : Noted(u, found = NoFile /\ There(job[u].topic))
        BY <2>1 DEF Append
    <3>2. (found = NoFile /\ There(job[u].topic)) \in BOOLEAN
        OBVIOUS
    <3> QED
        BY <3>1, <3>2
  <2>2. CASE Clear(u)
      BY <2>2 DEF Clear
  <2>3. CASE Mark(u)
    <3>1. PICK found, topics :
            Noted(u, found # visible[State] \/ topics # Listed)
        BY <2>3 DEF Mark
    <3>2. (found # visible[State] \/ topics # Listed) \in BOOLEAN
        OBVIOUS
    <3> QED
        BY <3>1, <3>2
  <2>4. CASE WriteStep(u)
      BY <2>4 DEF WriteStep
  <2>5. CASE List(u)
    <3>1. PICK found : Noted(u, found # Listed)
        BY <2>5 DEF List
    <3>2. (found # Listed) \in BOOLEAN
        OBVIOUS
    <3> QED
        BY <3>1, <3>2
  <2>6. CASE Save(u)
    <3>1. PICK found : Noted(u, found # visible[State])
        BY <2>6 DEF Save
    <3>2. (found # visible[State]) \in BOOLEAN
        OBVIOUS
    <3> QED
        BY <3>1, <3>2
  <2>7. CASE Lock(u) \/ Replace(u) \/ ActFails(u) \/ Read(u)
      BY <2>7 DEF Lock, Replace, ActFails, Read
  <2> QED
      BY <2>1, <2>2, <2>3, <2>4, <2>5, <2>6, <2>7 DEF Working
<1>3. missed' \subseteq Tasks
    BY DEF CallsOK, Working, Lock, Append, Replace, Clear, ActFails, Read, Mark,
       WriteStep, List, Names, Taken, Save, Persist
<1>4. /\ disturbed' \in [Tasks -> BOOLEAN]
      /\ \A t \in Tasks : ~disturbed'[t] => ~disturbed[t]
      /\ \A t \in Tasks \ {u} : disturbed'[t] = disturbed[t]
  <2>1. CASE UNCHANGED disturbed
      BY <2>1 DEF CallsOK
  <2>2. CASE \E lapse \in BOOLEAN : Noted(u, lapse)
      BY <2>2, NotedFacts
  <2> QED
      BY <1>2, <2>1, <2>2
<1> QED
    BY <1>1, <1>3, <1>4

\* Beside an undisturbed mutation that is past its lock, no file changes.
LEMMA Undisturbed ==
    ASSUME RInv, NEW t \in Tasks, NEW u \in Tasks, t # u, Working(u),
           pc[t] \in Past, ~disturbed[t]
    PROVE  UNCHANGED <<visible, durable>>
<1> USE DEF RInv
<1>1. Inside(t) /\ Running(t) /\ Mutating(t)
    BY DEF Inside, Running, Past, StageOK
<1>2. ASSUME Inside(u), Mutating(u) PROVE FALSE
  <2>1. Running(u)
      BY <1>2 DEF Inside
  <2>2. /\ ProcOf[u] = ProcOf[t] /\ Door(t) = "handler"
      BY <1>1, <1>2, <2>1 DEF Apart
  <2>3. Door(u) = "handler"
      BY <2>2 DEF Door
  <2>4. /\ Locks(t, job[t].kind) /\ Locks(u, job[u].kind)
        /\ Key(t) = Session /\ Key(u) = Session
      BY <2>2, <2>3 DEF Locks, Key
  <2> QED
      BY <1>1, <1>2, <2>2, <2>4 DEF IInv, MutexHeld
<1>3. ~Clear(u)
    BY <1>2 DEF Clear, Acting, Inside, Running, Mutating
<1>4. ~WriteStep(u)
    BY <1>2 DEF WriteStep, Inside, Running, StageOK, Past
<1> QED
    BY <1>3, <1>4 DEF Working, Lock, Append, Replace, ActFails, Read, Mark,
       List, Names, Save, Persist, fsVars

-----------------------------------------------------------------------------
(* Types and stages.                                                       *)

LEMMA ExistingTyped ==
    ASSUME FilesOK, NEW found \in {visible[State], NoFile},
           NEW topics \in SUBSET Topics
    PROVE  Existing(found, topics) \in Record
<1> QED
    BY DEF FilesOK, Existing, Record

LEMMA ListedTyped == Listed \in SUBSET Topics
    BY DEF Listed

LEMMA ReplacedFacts ==
    ASSUME FilesOK, NEW f \in Files, NEW c \in Note \cup Record \cup {NoFile},
           Replaced(f, c)
    PROVE  /\ visible' \in [Files -> Note \cup Record \cup {NoFile}]
           /\ durable' \in [Files -> Note \cup Record \cup {NoFile}]
           /\ visible'[f] = c
           /\ durable'[f] \in {durable[f], visible[f]}
           /\ \A g \in Files \ {f} :
                visible'[g] = visible[g] /\ durable'[g] = durable[g]
<1>1. PICK old \in {durable[f], visible[f]} :
        durable' = [durable EXCEPT ![f] = old]
    BY DEF Replaced
<1>2. old \in Note \cup Record \cup {NoFile}
    BY DEF FilesOK
<1> QED
    BY <1>1, <1>2 DEF Replaced, FilesOK

\* No directory is forgotten or unsynced but by a power loss.
DirsKept ==
    /\ dirs' \in [Dirs -> DirStates]
    /\ \A d \in Dirs : dirs[d] # "none" => dirs'[d] # "none"
    /\ \A d \in Dirs : dirs[d] = "synced" => dirs'[d] = "synced"

\* atomic_write has made the directory before it stages anything.
LEMMA SubmitDirs ==
    ASSUME FilesOK, ShapeOK, NEW t \in Tasks, NEW f \in Files, NEW c,
           Submit(t, f, c)
    PROVE  /\ DirsKept
           /\ io'[t] # "err" /\ DirOf[f] \in Dirs => dirs'[DirOf[f]] # "none"
<1>1. PICK D \in SUBSET Missing(f) : MakeDirs(D)
    BY DEF Submit
<1>2. DirsKept
    BY <1>1 DEF MakeDirs, Missing, Way, DirsKept, FilesOK, DirStates
<1>3. ASSUME io'[t] # "err" PROVE MakeDirs(Missing(f))
    BY <1>3 DEF Submit, IoAt, ShapeOK
<1>4. ASSUME MakeDirs(Missing(f)), DirOf[f] \in Dirs
      PROVE  dirs'[DirOf[f]] # "none"
    BY <1>4 DEF MakeDirs, Missing, Way
<1> QED
    BY <1>2, <1>3, <1>4

\* A step of AtomicFs for a note or for the record.
LEMMA WriteFiles ==
    ASSUME RInv, NEW t \in Tasks, WriteStep(t)
    PROVE  /\ FilesOK' /\ DirsKept
           /\ out' = out
           /\ out[t].file \in Files
           /\ \/ /\ io[t] = "rename" /\ io'[t] = "gap"
                 /\ platform = "windows"
                 /\ Replaced(out[t].file, NoFile)
              \/ /\ io[t] \in {"rename", "gap"} /\ io'[t] = "sync"
                 /\ Replaced(out[t].file, out[t].content)
              \/ io'[t] = "err" /\ UNCHANGED <<visible, durable>>
              \/ /\ io[t] = "sync" /\ io'[t] = "ok"
                 /\ visible' = visible
                 /\ \A f \in Files : durable'[f] \in {durable[f], visible[f]}
                 /\ platform = "unix" /\ ~disturbed'[t] =>
                      /\ \A f \in Files : DirOf[f] = DirOf[out[t].file]
                                             => durable'[f] = visible[f]
                      /\ \A d \in Dirs : /\ ParentOf[d] = DirOf[out[t].file]
                                          /\ dirs[d] # "none"
                                          => dirs'[d] = "synced"
<1> USE NotesAssumption DEF RInv
<1>1. \/ /\ pc[t] = "write" /\ out[t].file \in Topics
         /\ out[t].content \in Note
      \/ /\ pc[t] = "save" /\ out[t].file = State
         /\ out[t].content \in Record
    BY DEF WriteStep, IInv, ShapeOK, WritesItsFile, NotesAreNotes, StageOK,
       Running
<1>2. /\ io \in [Tasks -> IoPlaces]
      /\ IoStep(t) \/ (SyncFails(t) /\ Noted(t, TRUE))
    BY DEF IInv, ShapeOK, WriteStep
<1>3. CASE RemoveTarget(t)
  <2>1. /\ io[t] = "rename" /\ io'[t] = "gap" /\ platform = "windows"
        /\ Replaced(out[t].file, NoFile) /\ out' = out /\ dirs' = dirs
      BY <1>2, <1>3 DEF RemoveTarget, IoAt, Blocked
  <2>2. FilesOK' /\ DirsKept
      BY <1>1, <2>1, ReplacedFacts DEF FilesOK, DirsKept
  <2> QED
      BY <1>1, <2>1, <2>2
<1>4. CASE Rename(t)
  <2>1. /\ io[t] \in {"rename", "gap"} /\ io'[t] = "sync"
        /\ Replaced(out[t].file, out[t].content) /\ out' = out /\ dirs' = dirs
      BY <1>2, <1>4 DEF Rename, IoAt
  <2>2. FilesOK' /\ DirsKept
      BY <1>1, <2>1, ReplacedFacts DEF FilesOK, DirsKept
  <2> QED
      BY <1>1, <2>1, <2>2
<1>5. CASE RenameFails(t)
    BY <1>1, <1>2, <1>5 DEF RenameFails, IoAt, FilesOK, DirsKept
<1>6. CASE SyncDir(t)
  <2> DEFINE dir == DirOf[out[t].file]
  <2>1. /\ io[t] = "sync" /\ io'[t] = "ok"
        /\ visible' = visible /\ out' = out
      BY <1>2, <1>6 DEF SyncDir, IoAt
  <2>2. /\ durable' = [f \in Files |-> IF platform = "unix" /\ DirOf[f] = dir
                                       THEN visible[f] ELSE durable[f]]
        /\ dirs' = [d \in Dirs |-> IF /\ platform = "unix"
                                      /\ ParentOf[d] = dir
                                      /\ dirs[d] = "made"
                                   THEN "synced" ELSE dirs[d]]
      BY <1>6 DEF SyncDir
  <2> HIDE DEF dir
  <2>3. DirsKept
      BY <2>2 DEF DirsKept, FilesOK, DirStates
  <2>4. FilesOK'
      BY <2>1, <2>2, <2>3 DEF FilesOK, DirsKept
  <2>5. \A f \in Files : durable'[f] \in {durable[f], visible[f]}
      BY <2>2
  <2>6. ASSUME platform = "unix", NEW f \in Files, DirOf[f] = dir
        PROVE  durable'[f] = visible[f]
      BY <2>2, <2>6
  <2>7. ASSUME platform = "unix", NEW d \in Dirs, ParentOf[d] = dir,
               dirs[d] # "none"
        PROVE  dirs'[d] = "synced"
      BY <2>2, <2>7 DEF FilesOK, DirStates
  <2> QED
      BY <1>1, <2>1, <2>3, <2>4, <2>5, <2>6, <2>7 DEF dir
<1>7. CASE SyncFails(t) /\ Noted(t, TRUE)
  <2>1. /\ io[t] = "sync" /\ io'[t] = "ok"
        /\ visible' = visible /\ durable' = durable /\ dirs' = dirs
        /\ out' = out
      BY <1>2, <1>7 DEF SyncFails, IoAt
  <2>2. disturbed'[t]
      BY <1>7, NotedFacts
  <2>3. FilesOK' /\ DirsKept
      BY <2>1 DEF FilesOK, DirsKept
  <2> QED
      BY <1>1, <2>1, <2>2, <2>3
<1> QED
    BY <1>2, <1>3, <1>4, <1>5, <1>6, <1>7 DEF IoStep

LEMMA WorkingFiles ==
    ASSUME RInv, NEW t \in Tasks, Working(t)
    PROVE  FilesOK' /\ DirsKept
<1> USE NotesAssumption DEF RInv
<1>1. CASE WriteStep(t)
    BY <1>1, WriteFiles
<1>2. CASE Clear(t)
  <2>1. /\ job[t].topic \in Topics /\ dirs' = dirs
        /\ \/ Replaced(job[t].topic, NoFile)
           \/ UNCHANGED <<visible, durable>>
      BY <1>2 DEF Clear, Acting, IInv, ShapeOK, Running
  <2> QED
      BY <2>1, ReplacedFacts DEF FilesOK, DirsKept
<1>3. CASE Lock(t) \/ ActFails(t) \/ Read(t) \/ List(t)
    BY <1>3 DEF Lock, ActFails, Read, List, Names, fsVars, FilesOK, DirsKept
<1>4. CASE Append(t) \/ Replace(t) \/ Mark(t) \/ Save(t)
  <2>1. UNCHANGED <<visible, durable>>
      BY <1>4 DEF Append, Replace, Mark, Save, Persist
  <2>2. job[t].topic \in Files
      BY <1>4 DEF IInv, ShapeOK
  <2>3. \/ dirs' = dirs
        \/ \E f \in Files : \E c : Submit(t, f, c)
      BY <1>4, <2>2 DEF Append, Replace, Mark, Save, Persist
  <2>4. DirsKept
      BY <2>3, SubmitDirs DEF FilesOK, DirsKept, IInv
  <2> QED
      BY <2>1, <2>4 DEF FilesOK, DirsKept
<1> QED
    BY <1>1, <1>2, <1>3, <1>4 DEF Working

\* Where a step of a call goes, and what it hands on.
LEMMA WorkingCalls ==
    ASSUME RInv, NEW t \in Tasks, Working(t)
    PROVE  CallsOK' /\ StageOK'
<1> USE NotesAssumption DEF RInv, CallsOK
<1>1. /\ UNCHANGED <<job, door, platform>>
      /\ disturbed' \in [Tasks -> BOOLEAN]
      /\ missed' \subseteq Tasks
    BY SameCalls
<1>2. \A u \in Tasks \ {t} :
        /\ pc'[u] = pc[u] /\ job'[u] = job[u] /\ io'[u] = io[u]
        /\ out'[u] = out[u] /\ names'[u] = names[u]
    BY OthersOwn
<1>3. pc \in [Tasks -> Places] /\ io \in [Tasks -> IoPlaces]
    BY DEF IInv, ShapeOK
<1>4. SUFFICES
        /\ out' \in [Tasks ->
             [file : Files, content : Note \cup Record \cup {NoFile}]]
        /\ names' \in [Tasks -> SUBSET Topics]
        /\ pc'[t] = "save" => out'[t].content \in Record
        /\ pc'[t] \in Past => Mutating(t)
        /\ pc'[t] = "list" => job[t].kind = "clear"
    BY <1>1, <1>2 DEF StageOK, Mutating
<1>5. ASSUME NEW f \in Files, NEW c \in Note \cup Record, Submit(t, f, c)
      PROVE  /\ out' \in [Tasks ->
                  [file : Files, content : Note \cup Record \cup {NoFile}]]
             /\ out'[t].content = c
    BY <1>5 DEF Submit
<1>6. CASE Lock(t) \/ ActFails(t) \/ Read(t)
    BY <1>3, <1>6 DEF Lock, ActFails, Read, Goto, fsVars, Past
<1>7. CASE Append(t)
  <2>1. job[t].topic \in Topics
      BY <1>7 DEF Append, Acting, IInv, ShapeOK, Running
  <2>2. PICK found \in {visible[job[t].topic], NoFile} :
          \/ Goto(t, "done") /\ out' = out
          \/ /\ Goto(t, "write")
             /\ Submit(t, job[t].topic, Text(Pieces(found) \cup {t}))
      BY <1>7 DEF Append
  <2> DEFINE new == Pieces(found) \cup {t}
  <2>3. Text(new) \in Note
      BY <2>1, <2>2 DEF IInv, NotesAreNotes, Pieces, Note, Text
  <2> HIDE DEF new
  <2>4. /\ \/ pc'[t] = "done" /\ out' = out
           \/ pc'[t] = "write" /\ Submit(t, job[t].topic, Text(new))
        /\ names' = names /\ job[t].kind = "append"
      BY <1>3, <1>7, <2>2 DEF Append, Acting, Goto, new
  <2> QED
      BY <1>5, <2>1, <2>3, <2>4 DEF Past, Mutating
<1>8. CASE Replace(t)
  <2>1. job[t].topic \in Topics
      BY <1>8 DEF Replace, Acting, IInv, ShapeOK, Running
  <2>2. Text({t}) \in Note
      BY DEF Note, Text
  <2>3. /\ pc'[t] = "write" /\ Submit(t, job[t].topic, Text({t}))
        /\ names' = names /\ job[t].kind = "replace"
      BY <1>3, <1>8 DEF Replace, Acting, Goto
  <2> QED
      BY <1>5, <2>1, <2>2, <2>3 DEF Past, Mutating
<1>9. CASE Clear(t)
    BY <1>3, <1>9 DEF Clear, Acting, Goto, Past, Mutating
<1>10. CASE Mark(t)
  <2>1. PICK found \in {visible[State], NoFile} :
          \E topics \in {Listed, {}} :
            Submit(t, State,
                   [Existing(found, topics) EXCEPT !.extracted = TRUE])
      BY <1>10 DEF Mark
  <2>2. PICK topics \in {Listed, {}} :
          Submit(t, State, [Existing(found, topics) EXCEPT !.extracted = TRUE])
      BY <2>1
  <2> DEFINE record == [Existing(found, topics) EXCEPT !.extracted = TRUE]
  <2>3. topics \in SUBSET Topics
      BY ListedTyped
  <2>4. Existing(found, topics) \in Record
      BY <2>3, ExistingTyped
  <2>5. record \in Record
      BY <2>4 DEF Record
  <2>6. /\ pc'[t] = "save" /\ names' = names /\ job[t].kind = "mark"
        /\ Submit(t, State, record)
      BY <1>3, <1>10, <2>2 DEF Mark, Acting, Goto
  <2> HIDE DEF record
  <2> QED
      BY <1>5, <2>5, <2>6 DEF Past, Mutating
<1>11. CASE WriteStep(t)
    BY <1>11, WriteFiles DEF WriteStep, StageOK
<1>12. CASE List(t)
  <2>1. PICK found \in {Listed, {}} : Names(t, found)
      BY <1>12 DEF List
  <2>2. /\ pc'[t] = "state" /\ names' = [names EXCEPT ![t] = found]
        /\ out' = [out EXCEPT ![t] = NoWrite]
        /\ Mutating(t)
      BY <1>3, <2>1 DEF Names, Listing, Taken, Goto, StageOK, Past
  <2>3. found \in SUBSET Topics
      BY ListedTyped
  <2> QED
      BY <2>2, <2>3 DEF NoWrite
<1>13. CASE Save(t)
  <2>1. PICK found \in {visible[State], NoFile} :
          Persist(t, State, Existing(found, names[t]).extracted)
      BY <1>13 DEF Save
  <2> DEFINE record == [topics |-> names[t],
                        extracted |-> Existing(found, names[t]).extracted]
  <2>2. Existing(found, names[t]) \in Record
      BY <2>1, ExistingTyped
  <2>3. record \in Record
      BY <2>2 DEF Record
  <2>4. /\ pc'[t] = "save" /\ names' = [names EXCEPT ![t] = {}]
        /\ Submit(t, State, record)
        /\ Mutating(t)
      BY <1>3, <2>1 DEF Persist, Goto, StageOK, Past
  <2> HIDE DEF record
  <2> QED
      BY <1>5, <2>3, <2>4
<1> QED
    BY <1>6, <1>7, <1>8, <1>9, <1>10, <1>11, <1>12, <1>13 DEF Working

\* A call writes its note to a directory that is there.
LEMMA WorkingMade ==
    ASSUME RInv, NEW u \in Tasks, Working(u), NEW t \in Tasks
    PROVE  MadeDir(t)'
<1> USE NotesAssumption DEF RInv
<1>1. UNCHANGED job /\ DirsKept
    BY SameCalls, WorkingFiles
<1>2. SUFFICES ASSUME job[t].kind \in {"append", "replace"},
                      \/ pc'[t] \in {"state", "save"}
                      \/ pc'[t] = "write" /\ io'[t] # "err",
                      DirOf[job[t].topic] \in Dirs
               PROVE  dirs'[DirOf[job[t].topic]] # "none"
    BY <1>1 DEF MadeDir
<1>3. CASE \/ pc[t] \in {"state", "save"}
           \/ pc[t] = "write" /\ io[t] # "err"
    BY <1>1, <1>2, <1>3 DEF MadeDir, DirsKept
<1>4. CASE ~ \/ pc[t] \in {"state", "save"}
             \/ pc[t] = "write" /\ io[t] # "err"
  <2>1. t = u
      BY <1>2, <1>4, OthersOwn
  <2>2. pc \in [Tasks -> Places] /\ io \in [Tasks -> IoPlaces]
      BY DEF IInv, ShapeOK
  <2>3. ~(Lock(t) \/ ActFails(t) \/ Read(t) \/ Clear(t))
      BY <1>2, <2>2 DEF Lock, ActFails, Read, Clear, Goto
  <2>4. ~Mark(t)
      BY <1>2 DEF Mark, Acting
  <2>5. ~Save(t)
      BY <1>4 DEF Save, Persist
  <2>6. ~List(t)
      BY <1>2, <1>4, <2>2 DEF List, Names, Listing, StageOK
  <2>7. ~WriteStep(t)
    <3>1. ASSUME WriteStep(t) PROVE pc' = pc /\ pc[t] \in {"write", "save"}
        BY <3>1 DEF WriteStep
    <3>2. ASSUME IoStep(t) \/ SyncFails(t) PROVE io[t] # "err"
        BY <3>2 DEF IoStep, RemoveTarget, Rename, RenameFails, SyncDir,
           SyncFails
    <3> QED
        BY <1>4, <3>1, <3>2 DEF WriteStep
  <2>8. CASE Append(t) \/ Replace(t)
    <3>1. pc'[t] # "done" /\ job[t].topic \in Files
        BY <1>2, <1>4 DEF IInv, ShapeOK
    <3>2. \/ Goto(t, "done")
          \/ \E c : Goto(t, "write") /\ Submit(t, job[t].topic, c)
        BY <2>8 DEF Append, Replace
    <3>3. PICK c : Goto(t, "write") /\ Submit(t, job[t].topic, c)
        BY <2>2, <3>1, <3>2 DEF Goto
    <3>4. pc'[t] = "write"
        BY <2>2, <3>3 DEF Goto
    <3> QED
        BY <1>2, <3>1, <3>3, <3>4, SubmitDirs DEF IInv
  <2> QED
      BY <2>1, <2>3, <2>4, <2>5, <2>6, <2>7, <2>8 DEF Working
<1> QED
    BY <1>3, <1>4

-----------------------------------------------------------------------------
(* The calls apart, and the record.                                        *)

LEMMA WorkingApart ==
    ASSUME RInv, NEW u \in Tasks, Working(u) PROVE Apart'
<1>1. /\ UNCHANGED <<job, door, platform>>
      /\ \A t \in Tasks : ~disturbed'[t] => ~disturbed[t]
    BY SameCalls DEF RInv
<1>2. \A t \in Tasks : Running(t)' => Running(t)
  <2>1. Running(u)
      BY DEF Working, Lock, Append, Replace, Clear, ActFails, Read, Mark,
         WriteStep, List, Names, Listing, Save, Persist, Acting, Running
  <2>2. \A t \in Tasks \ {u} : pc'[t] = pc[t]
      BY OthersOwn DEF RInv
  <2> QED
      BY <2>1, <2>2 DEF Running
<1> QED
    BY <1>1, <1>2 DEF RInv, Apart, Mutating, Door

LEMMA OthersCareful ==
    ASSUME RInv, NEW u \in Tasks, Working(u), NEW t \in Tasks, t # u
    PROVE  Careful(t)'
<1> USE DEF RInv
<1>1. UNCHANGED <<job, door, platform>> /\ disturbed'[t] = disturbed[t]
    BY SameCalls
<1>2. /\ pc'[t] = pc[t] /\ job'[t] = job[t] /\ io'[t] = io[t]
      /\ out'[t] = out[t] /\ names'[t] = names[t]
    BY OthersOwn
<1>3. CASE pc[t] \notin Past \/ disturbed[t]
    BY <1>1, <1>2, <1>3 DEF Careful, KeepsMark, ListsAll, Synced, Past
<1>4. CASE pc[t] \in Past /\ ~disturbed[t]
  <2>1. visible' = visible /\ durable' = durable
      BY <1>4, Undisturbed
  <2>2. KeepsMark(t)'
      BY <1>1, <1>2, <2>1 DEF Careful, KeepsMark
  <2>3. ListsAll(t)'
      BY <1>1, <1>2, <2>1 DEF Careful, ListsAll, Listed
  <2>4. Synced(t)'
    <3>1. \A d \in Dirs : dirs[d] = "synced" => dirs'[d] = "synced"
        BY WorkingFiles DEF DirsKept
    <3> QED
        BY <1>1, <1>2, <2>1, <3>1 DEF Careful, Synced
  <2> QED
      BY <2>2, <2>3, <2>4 DEF Careful
<1> QED
    BY <1>3, <1>4

LEMMA WriteCareful ==
    ASSUME RInv, NEW t \in Tasks, WriteStep(t) PROVE Careful(t)'
<1> USE NotesAssumption DEF RInv
<1>1. /\ UNCHANGED <<job, platform, pc, names>>
      /\ ~disturbed'[t] => ~disturbed[t]
      /\ pc[t] \in {"write", "save"}
  <2>1. Working(t)
      BY DEF Working
  <2> QED
      BY <2>1, SameCalls DEF WriteStep
<1>2. /\ out' = out /\ out[t].file \in Files
      /\ pc[t] = "write" => out[t].file = job[t].topic
      /\ pc[t] = "save" => out[t].file = State
      /\ pc[t] = "save" => out[t].content \in Record
      /\ job[t].topic \in Topics
      /\ out[t].content \in Note \cup Record \cup {NoFile}
    BY WriteFiles, <1>1 DEF IInv, WritesItsFile, ShapeOK, Running, StageOK,
       CallsOK
<1> DEFINE file == out[t].file
           Gap == /\ io[t] = "rename" /\ io'[t] = "gap"
                  /\ platform = "windows"
                  /\ Replaced(file, NoFile)
           Renamed == /\ io[t] \in {"rename", "gap"} /\ io'[t] = "sync"
                      /\ Replaced(file, out[t].content)
           Failed == io'[t] = "err" /\ UNCHANGED <<visible, durable>>
           Over == /\ io[t] = "sync" /\ io'[t] = "ok"
                   /\ visible' = visible
                   /\ \A f \in Files : durable'[f] \in {durable[f], visible[f]}
           Sure == /\ \A f \in Files : DirOf[f] = DirOf[file]
                                        => durable'[f] = visible[f]
                   /\ \A d \in Dirs : /\ ParentOf[d] = DirOf[file]
                                       /\ dirs[d] # "none"
                                       => dirs'[d] = "synced"
<1>3. /\ Gap \/ Renamed \/ Failed \/ Over
      /\ Over /\ platform = "unix" /\ ~disturbed'[t] => Sure
    BY WriteFiles
<1>4. \A c \in Note \cup Record \cup {NoFile} : Replaced(file, c) =>
        /\ visible'[file] = c
        /\ \A g \in Files \ {file} :
             visible'[g] = visible[g] /\ durable'[g] = durable[g]
    BY <1>2, ReplacedFacts
<1>5. KeepsMark(t)'
    BY <1>1, <1>2, <1>3, <1>4 DEF Careful, KeepsMark
<1>6. pc[t] = "save" => Listed' = Listed
    BY <1>1, <1>2, <1>3, <1>4 DEF Listed
<1>7. ListsAll(t)'
    BY <1>1, <1>2, <1>3, <1>4, <1>6 DEF Careful, ListsAll
<1>8. Synced(t)'
  <2> SUFFICES ASSUME platform = "unix", ~disturbed'[t] PROVE Synced(t)'
      BY <1>1 DEF Synced
  <2>1. ASSUME io'[t] = "ok" PROVE Over /\ Sure
      BY <1>3, <2>1
  <2>2. ASSUME pc[t] = "save", io'[t] = "ok"
        PROVE  durable'[State] = visible'[State]
      BY <1>2, <2>1, <2>2
  <2>3. ASSUME pc[t] = "write", io'[t] = "ok"
        PROVE  durable'[job[t].topic] = visible'[job[t].topic]
      BY <1>2, <2>1, <2>3
  <2>4. ASSUME pc[t] = "save", job[t].kind \in {"append", "replace"}
        PROVE  durable'[job[t].topic] = visible'[job[t].topic]
    <3>1. durable[job[t].topic] = visible[job[t].topic]
        BY <1>1, <2>4 DEF Careful, Synced
    <3>2. job[t].topic \in Files \ {file}
        BY <1>2, <2>4
    <3> QED
        BY <1>2, <1>3, <1>4, <3>1, <3>2
  <2>5. ASSUME pc[t] = "save", io'[t] = "ok",
               job[t].kind \in {"append", "replace"},
               DirOf[job[t].topic] \in Dirs
        PROVE  dirs'[DirOf[job[t].topic]] = "synced"
    <3>1. dirs[DirOf[job[t].topic]] # "none"
        BY <2>5 DEF MadeDir
    <3>2. ParentOf[DirOf[job[t].topic]] = DirOf[file]
        BY <1>2, <2>5
    <3> QED
        BY <2>1, <2>5, <3>1, <3>2
  <2> HIDE DEF file, Gap, Renamed, Failed, Over, Sure
  <2> QED
      BY <1>1, <2>2, <2>3, <2>4, <2>5 DEF Synced
<1> QED
    BY <1>5, <1>7, <1>8 DEF Careful

LEMMA OwnCareful ==
    ASSUME RInv, NEW t \in Tasks, Working(t) PROVE Careful(t)'
<1> USE NotesAssumption DEF RInv
<1>1. UNCHANGED <<job, door, platform>> /\ (~disturbed'[t] => ~disturbed[t])
    BY SameCalls
<1>2. pc \in [Tasks -> Places] /\ io \in [Tasks -> IoPlaces]
      /\ names \in [Tasks -> SUBSET Topics]
    BY DEF IInv, ShapeOK, CallsOK
<1>3. ASSUME NEW f, NEW c, Submit(t, f, c)
      PROVE  io'[t] \in {"rename", "err"} /\ out'[t].content = c
    BY <1>2, <1>3 DEF Submit, IoAt, CallsOK
<1>4. CASE Lock(t) \/ ActFails(t) \/ Read(t) \/ Clear(t)
  <2>1. pc'[t] \in {"act", "done", "list"}
      BY <1>2, <1>4 DEF Lock, ActFails, Read, Clear, Goto
  <2> QED
      BY <2>1 DEF Careful, KeepsMark, ListsAll, Synced
<1>5. CASE Append(t) \/ Replace(t)
  <2>1. \/ pc'[t] = "done"
        \/ pc'[t] = "write" /\ io'[t] \in {"rename", "err"}
      BY <1>2, <1>3, <1>5 DEF Append, Replace, Goto
  <2> QED
      BY <2>1 DEF Careful, KeepsMark, ListsAll, Synced
<1>6. CASE Mark(t)
  <2>1. PICK found \in {visible[State], NoFile} :
          \E topics \in {Listed, {}} :
            Submit(t, State,
                   [Existing(found, topics) EXCEPT !.extracted = TRUE])
      BY <1>6 DEF Mark
  <2>2. PICK topics \in {Listed, {}} :
          Submit(t, State, [Existing(found, topics) EXCEPT !.extracted = TRUE])
      BY <2>1
  <2>3. topics \in SUBSET Topics
      BY ListedTyped
  <2>4. Existing(found, topics) \in Record
      BY <2>3, ExistingTyped
  <2>5. [Existing(found, topics) EXCEPT !.extracted = TRUE].extracted
      BY <2>4 DEF Record
  <2>6. /\ io'[t] \in {"rename", "err"}
        /\ out'[t].content = [Existing(found, topics) EXCEPT !.extracted = TRUE]
      BY <1>3, <2>2
  <2>7. pc'[t] = "save" /\ job'[t].kind = "mark"
      BY <1>1, <1>2, <1>6 DEF Mark, Acting, Goto
  <2>8. out'[t].content.extracted
      BY <2>5, <2>6
  <2> QED
      BY <2>6, <2>7, <2>8 DEF Careful, KeepsMark, ListsAll, Synced
<1>7. CASE WriteStep(t)
    BY <1>7, WriteCareful
<1>8. CASE List(t)
  <2>1. PICK found \in {Listed, {}} :
          Names(t, found) /\ Noted(t, found # Listed)
      BY <1>8 DEF List
  <2>2. /\ pc'[t] = "state" /\ names'[t] = found
        /\ UNCHANGED <<visible, durable>>
        /\ pc[t] = "list" \/ (pc[t] = "write" /\ io[t] = "ok")
      BY <1>2, <2>1 DEF Names, Listing, Goto
  <2>3. (found # Listed) \in BOOLEAN
      OBVIOUS
  <2>4. ~disturbed'[t] => found = Listed
      BY <2>1, <2>3, NotedFacts
  <2>5. Listed' = Listed
      BY <2>2 DEF Listed
  <2>6. Synced(t)'
      BY <1>1, <2>2 DEF Synced, Careful, StageOK
  <2>7. KeepsMark(t)'
      BY <2>2 DEF KeepsMark
  <2>8. ListsAll(t)'
      BY <2>2, <2>4, <2>5 DEF ListsAll
  <2> QED
      BY <2>6, <2>7, <2>8 DEF Careful
<1>9. CASE Save(t)
  <2>1. PICK found \in {visible[State], NoFile} :
          /\ Persist(t, State, Existing(found, names[t]).extracted)
          /\ Noted(t, found # visible[State])
      BY <1>9 DEF Save
  <2>2. /\ pc[t] = "state" /\ pc'[t] = "save" /\ io'[t] \in {"rename", "err"}
        /\ out'[t].content =
             [topics |-> names[t],
              extracted |-> Existing(found, names[t]).extracted]
        /\ UNCHANGED <<visible, durable>>
      BY <1>2, <1>3, <2>1 DEF Persist, Goto
  <2>3. (found # visible[State]) \in BOOLEAN
      OBVIOUS
  <2>4. ~disturbed'[t] => found = visible[State]
      BY <2>1, <2>3, NotedFacts
  <2>5. Listed' = Listed
      BY <2>2 DEF Listed
  <2>6. KeepsMark(t)'
      BY <2>2, <2>4 DEF KeepsMark, Existing
  <2>7. ListsAll(t)'
      BY <1>1, <2>2, <2>5 DEF ListsAll, Careful
  <2>8. Synced(t)'
      BY <1>1, <2>2 DEF Synced, Careful
  <2> QED
      BY <2>6, <2>7, <2>8 DEF Careful
<1> QED
    BY <1>4, <1>5, <1>6, <1>7, <1>8, <1>9 DEF Working

-----------------------------------------------------------------------------

LEMMA StartRInv ==
    ASSUME RInv, NEW s \in Tasks, Start(s) PROVE RInv'
<1> USE NotesAssumption DEF RInv
<1>1. PICK kind \in KindsOf[ProcOf[s]], topic \in Topics :
        /\ job' = [job EXCEPT ![s] = [kind |-> kind, topic |-> topic]]
        /\ Goto(s, IF Locks(s, kind) THEN "lock" ELSE "act")
        /\ disturbed' = [u \in Tasks |->
                            IF u = s THEN Rivals(s) # {}
                            ELSE disturbed[u]
                                 \/ (u \in Rivals(s) /\ kind # "read")]
    BY DEF Start
<1>2. /\ pc[s] = "idle"
      /\ UNCHANGED <<visible, durable, dirs, out, io, platform, door, mutex,
                     names, missed, owed>>
    BY DEF Start, fsVars
<1>3. /\ pc'[s] \in {"lock", "act"}
      /\ \A t \in Tasks \ {s} : pc'[t] = pc[t] /\ job'[t] = job[t]
      /\ job'[s].kind = kind
    BY <1>1 DEF Goto, IInv, ShapeOK
<1>4. IInv'
    BY StartIInv
<1>5. FilesOK' /\ CallsOK'
    BY <1>1, <1>2 DEF FilesOK, CallsOK
<1>6. StageOK'
    BY <1>2, <1>3 DEF StageOK, Past, Mutating
<1>7. \A t \in Tasks \ {s} : Running(t)' = Running(t) /\ Mutating(t)' = Mutating(t)
    BY <1>3 DEF Running, Mutating
<1>8. \A t \in Tasks \ {s} : disturbed'[t] = (disturbed[t]
                                  \/ (t \in Rivals(s) /\ kind # "read"))
    BY <1>1
<1>9. disturbed'[s] = (Rivals(s) # {})
    BY <1>1
<1>10. Apart'
  <2> SUFFICES ASSUME NEW t \in Tasks, NEW u \in Tasks, t # u, Running(t)',
                      Running(u)', Mutating(t)', Mutating(u)', ~disturbed'[t]
               PROVE  ProcOf[u] = ProcOf[t] /\ Door(t) = "handler"
      BY <1>2 DEF Apart, Door
  <2>1. CASE t = s
    <3>1. u \notin Rivals(s) /\ Running(u) /\ job[u].kind # "read"
        BY <1>7, <1>9, <2>1 DEF Mutating
    <3> QED
        BY <2>1, <3>1 DEF Rivals
  <2>2. CASE u = s
    <3>1. kind # "read" /\ t \notin Rivals(s)
        BY <1>3, <1>8, <2>2 DEF Mutating
    <3>2. Running(t) /\ job[t].kind # "read"
        BY <1>7, <2>2 DEF Mutating
    <3> QED
        BY <2>2, <3>1, <3>2 DEF Rivals, Door
  <2>3. CASE t # s /\ u # s
    <3>1. ~disturbed[t]
        BY <1>8, <2>3
    <3> QED
        BY <1>7, <2>3, <3>1 DEF Apart
  <2> QED
      BY <2>1, <2>2, <2>3
<1>11. ASSUME NEW t \in Tasks PROVE Careful(t)'
  <2>1. CASE t = s
      BY <1>3, <2>1 DEF Careful, KeepsMark, ListsAll, Synced
  <2>2. CASE t # s
    <3>1. /\ pc'[t] = pc[t]
          /\ job'[t] = job[t]
          /\ ~disturbed'[t] => ~disturbed[t]
        BY <1>3, <1>8, <2>2
    <3>2. Listed' = Listed
        BY <1>2 DEF Listed
    <3>3. KeepsMark(t)'
        BY <1>2, <3>1 DEF Careful, KeepsMark
    <3>4. ListsAll(t)'
        BY <1>2, <1>3, <1>8, <2>2, <3>2 DEF Careful, ListsAll
    <3>5. Synced(t)'
        BY <1>2, <1>3, <1>8, <2>2 DEF Careful, Synced
    <3> QED
        BY <3>3, <3>4, <3>5 DEF Careful
  <2> QED
      BY <2>1, <2>2
<1>12. \A t \in Tasks : MadeDir(t)'
    BY <1>2, <1>3 DEF MadeDir
<1> QED
    BY <1>4, <1>5, <1>6, <1>10, <1>11, <1>12

LEMMA EndingRInv ==
    ASSUME RInv, IInv', NEW T \in SUBSET Tasks, Ending(T) PROVE RInv'
<1> USE NotesAssumption DEF RInv
<1>1. Forget(T) /\ UNCHANGED <<platform, door>>
    BY DEF Ending
<1>2. ASSUME NEW t \in Tasks
      PROVE  \/ pc'[t] = "over" /\ ~disturbed'[t]
             \/ /\ t \notin T /\ pc'[t] = pc[t] /\ job'[t] = job[t]
                /\ io'[t] = io[t] /\ out'[t] = out[t]
                /\ names'[t] = names[t] /\ disturbed'[t] = disturbed[t]
  <2>1. CASE t \in T
      BY <1>1, <2>1 DEF Forget
  <2>2. CASE t \notin T
    <3>1. disturbed'[t] = disturbed[t]
        BY <1>1, <2>2 DEF Forget, CallsOK
    <3> QED
        BY <1>1, <2>2, <3>1 DEF Forget
  <2> QED
      BY <2>1, <2>2
<1>3. FilesOK'
  <2>1. CASE UNCHANGED <<visible, durable, dirs>>
      BY <2>1 DEF FilesOK
  <2>2. CASE Reverted
      BY <2>2, RevertedFacts DEF FilesOK, DirStates
  <2> QED
      BY <2>1, <2>2 DEF Ending
<1>4. CallsOK'
  <2>1. NoWrite \in [file : Files, content : Note \cup Record \cup {NoFile}]
      BY DEF NoWrite
  <2>2. out' \in [Tasks ->
           [file : Files, content : Note \cup Record \cup {NoFile}]]
      BY <1>1, <2>1 DEF Forget, CallsOK
  <2> QED
      BY <1>1, <2>2 DEF Forget, CallsOK
<1>5. StageOK'
    BY <1>2 DEF StageOK, Past, Mutating
<1>6. Apart'
    BY <1>1, <1>2 DEF Apart, Running, Mutating, Door
<1>7. ASSUME NEW t \in Tasks PROVE Careful(t)'
  <2>1. CASE pc'[t] = "over"
      BY <2>1 DEF Careful, KeepsMark, ListsAll, Synced
  <2>2. CASE pc'[t] # "over"
    <3>1. /\ t \notin T /\ pc'[t] = pc[t] /\ job'[t] = job[t]
          /\ io'[t] = io[t] /\ out'[t] = out[t]
          /\ names'[t] = names[t] /\ disturbed'[t] = disturbed[t]
        BY <1>2, <2>2
    <3>2. CASE UNCHANGED <<visible, durable, dirs>>
      <4>1. Listed' = Listed
          BY <3>2 DEF Listed
      <4>2. KeepsMark(t)'
          BY <3>1, <3>2 DEF Careful, KeepsMark
      <4>3. ListsAll(t)'
          BY <3>1, <3>2, <4>1 DEF Careful, ListsAll
      <4>4. Synced(t)'
          BY <1>1, <3>1, <3>2 DEF Careful, Synced
      <4> QED
          BY <4>2, <4>3, <4>4 DEF Careful
    <3>3. CASE \A u \in Tasks : Running(u) => u \in T
      <4>1. pc'[t] = "idle"
          BY <2>2, <3>1, <3>3 DEF Running
      <4> QED
          BY <4>1 DEF Careful, KeepsMark, ListsAll, Synced
    <3> QED
        BY <3>2, <3>3 DEF Ending
  <2> QED
      BY <2>1, <2>2
<1>8. ASSUME NEW t \in Tasks PROVE MadeDir(t)'
  <2>1. CASE UNCHANGED <<visible, durable, dirs>>
      BY <1>2, <2>1 DEF MadeDir
  <2>2. CASE \A u \in Tasks : Running(u) => u \in T
    <3>1. pc'[t] \in {"over", "idle"}
        BY <1>2, <2>2 DEF Running
    <3> QED
        BY <3>1 DEF MadeDir
  <2> QED
      BY <2>1, <2>2 DEF Ending
<1> QED
    BY <1>3, <1>4, <1>5, <1>6, <1>7, <1>8

LEMMA InitRInv == Init => RInv
<1> SUFFICES ASSUME Init PROVE RInv
    OBVIOUS
<1> USE NotesAssumption DEF Init
<1>1. FilesOK /\ CallsOK
    BY DEF FilesOK, CallsOK, NoWrite, DirStates
<1>2. StageOK /\ Apart /\ \A t \in Tasks : MadeDir(t)
    BY DEF StageOK, Past, Apart, Running, MadeDir
<1>3. \A t \in Tasks : Careful(t)
    BY DEF Careful, KeepsMark, ListsAll, Synced
<1> QED
    BY <1>1, <1>2, <1>3, InitIInv DEF RInv

LEMMA NextRInv == RInv /\ [Next]_vars => RInv'
<1> SUFFICES ASSUME RInv, [Next]_vars PROVE RInv'
    OBVIOUS
<1>1. IInv'
    BY NextIInv DEF RInv
<1>2. ASSUME NEW t \in Tasks, Working(t) PROVE RInv'
  <2>1. \A u \in Tasks : Careful(u)'
      BY <1>2, OthersCareful, OwnCareful
  <2>2. \A u \in Tasks : MadeDir(u)'
      BY <1>2, WorkingMade
  <2> QED
      BY <1>1, <1>2, <2>1, <2>2, WorkingFiles, WorkingCalls, WorkingApart
         DEF RInv
<1>3. CASE UNCHANGED vars
  <2>1. FilesOK' /\ CallsOK' /\ StageOK' /\ Apart'
      BY <1>3 DEF vars, fsVars, noteVars, RInv, FilesOK, CallsOK, StageOK, Apart,
         Past, Mutating, Running, Door
  <2>2. \A t \in Tasks : Careful(t)' /\ MadeDir(t)'
      BY <1>3 DEF vars, fsVars, noteVars, RInv, Careful, KeepsMark, ListsAll,
         Synced, Listed, MadeDir
  <2> QED
      BY <1>1, <2>1, <2>2 DEF RInv
<1> QED
    BY <1>1, <1>2, <1>3, Steps, StartRInv, EndingRInv

LEMMA SpecRInv == Spec => []RInv
<1> QED
    BY InitRInv, NextRInv, PTL DEF Spec

\* Every state of the notes has its type.
THEOREM NotesTyped == Spec => []TypeOK
<1>1. RInv => TypeOK
    BY NotesAssumption DEF RInv, IInv, ShapeOK, NotesAreNotes, FilesOK, CallsOK,
       TypeOK
<1> QED
    BY <1>1, SpecRInv, PTL

\* persist_session_state: the record of a mutation that met no rival, and from
\* which no failure was hidden, lists what there is, and on Unix a power loss
\* takes neither the note nor it back, unless it takes the new directory of the
\* whole session, whose entry is never synced.
THEOREM UndisturbedExact == Spec => []UndisturbedIsExact
<1>1. ASSUME RInv, NEW t \in Tasks, pc[t] = "save", io[t] = "ok", ~disturbed[t],
             job[t].kind \in {"append", "replace", "clear"}
      PROVE  /\ visible[State].topics = Listed
             /\ platform = "unix" =>
                  /\ SettledBut(State, {DirOf[State]})
                  /\ job[t].kind # "clear" =>
                       SettledBut(job[t].topic, {DirOf[State]})
  <2> USE NotesAssumption DEF RInv
  <2>1. visible[State].topics = Listed
      BY <1>1 DEF Careful, ListsAll
  <2>2. ASSUME platform = "unix" PROVE SettledBut(State, {DirOf[State]})
    <3>1. durable[State] = visible[State]
        BY <1>1, <2>2 DEF Careful, Synced
    <3>2. Way(State) \ {DirOf[State]} = {}
        BY DEF Way
    <3> QED
        BY <3>1, <3>2 DEF SettledBut
  <2>3. ASSUME platform = "unix", job[t].kind # "clear"
        PROVE  SettledBut(job[t].topic, {DirOf[State]})
    <3> DEFINE k == job[t].topic
    <3>1. k \in Topics
        BY <1>1 DEF IInv, ShapeOK, Running
    <3>2. /\ durable[k] = visible[k]
          /\ DirOf[k] \in Dirs => dirs[DirOf[k]] = "synced"
        BY <1>1, <2>3 DEF Careful, Synced
    <3>3. \A d \in Way(k) \ {DirOf[State]} : d = DirOf[k] /\ d \in Dirs
        BY <3>1 DEF Way
    <3> QED
        BY <3>2, <3>3 DEF SettledBut
  <2> QED
      BY <2>1, <2>2, <2>3
<1>2. RInv => UndisturbedIsExact
    BY <1>1 DEF UndisturbedIsExact
<1> QED
    BY <1>2, SpecRInv, PTL

\* persist_session_state and mark_session_extracted: only a call that
\* overlapped another one, or could not read the record and took it for none,
\* can take a mark away.
THEOREM MarkNeverDropped == Spec => MarkKept
<1>1. ASSUME RInv, [Next]_vars, NEW t \in Tasks, Publishes(t),
             out[t].file = State, ~disturbed[t], visible[State] # NoFile,
             visible[State].extracted
      PROVE  visible'[State].extracted
  <2>1. WriteStep(t)
      BY <1>1, OnlyRenamePublishes DEF RInv
  <2>2. /\ io[t] \in {"rename", "gap"} /\ io'[t] = "sync"
        /\ pc[t] \in {"write", "save"}
      BY <1>1, <2>1 DEF Publishes, WriteStep
  <2>3. pc[t] = "save"
      BY <1>1, <2>2, NotesAssumption DEF RInv, IInv, WritesItsFile, ShapeOK,
         Running
  <2>4. Replaced(State, out[t].content)
      BY <1>1, <2>1, <2>2, WriteFiles
  <2>5. visible'[State] = out[t].content
      BY <1>1, <2>4, NotesAssumption DEF Replaced, RInv, FilesOK
  <2> QED
      BY <1>1, <2>2, <2>3, <2>5 DEF RInv, Careful, KeepsMark
<1>2. RInv /\ [Next]_vars =>
        [\A t \in Tasks :
           /\ Publishes(t)
           /\ out[t].file = State
           /\ ~disturbed[t]
           /\ visible[State] # NoFile
           /\ visible[State].extracted
           => visible'[State].extracted]_vars
    BY <1>1
<1> QED
    BY <1>2, SpecRInv, PTL DEF Spec, MarkKept
=============================================================================
