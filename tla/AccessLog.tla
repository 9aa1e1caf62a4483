----------------------------- MODULE AccessLog -----------------------------
(***************************************************************************)
(* The access log of one scope (store.rs, access_log.rs).  A recall appends *)
(* one line per memory it returned, and rewrites the log when it has grown *)
(* past a trigger; the capacity gardener reads the log while it holds the  *)
(* scope guard.  A per-process mutex serialises the users of the log in    *)
(* one process; nothing orders those of different processes.               *)
(*                                                                         *)
(* A recall runs in its caller's task: when the caller goes away, the      *)
(* future is dropped at an await and its mutex guard with it, while the    *)
(* file operation it had handed to the blocking pool still takes place.    *)
(*                                                                         *)
(* An entry is the number of the access it records, counted in the order   *)
(* of the writes.  That is also the order of the lines in a file, so the   *)
(* readable lines of a file are a set of such numbers.                     *)
(***************************************************************************)
EXTENDS Integers, Sequences, FiniteSets

CONSTANTS
    Recalls,      \* tasks that recall memories
    Gardeners,    \* tasks that enforce a scope's capacity
    Processes,
    ProcOf,       \* the process of each task
    NoTask,
    Trigger,      \* ACCESS_LOG_COMPACT_TRIGGER_BYTES, in lines
    Retained,     \* ACCESS_LOG_MAX_RETAINED_ENTRIES
    Window,       \* ACCESS_LOG_AGING_WINDOW_DAYS
    Cancelling,   \* whether callers may drop a recall
    Inodes,       \* bound: files that exist at a time
    MaxPage,      \* bound: memories one recall returns
    MaxAccesses,  \* bound: accesses recorded in a behaviour
    MaxDay,       \* bound: days that pass
    MaxTears,     \* bound: appends cut in a line
    MaxCancels    \* bound: recalls dropped

Tasks == Recalls \cup Gardeners

ASSUME AccessLogAssumption ==
    /\ ProcOf \in [Tasks -> Processes]
    /\ NoTask \notin Tasks
    /\ Recalls \cap Gardeners = {}
    /\ {Trigger, Retained, Window} \subseteq Nat
    /\ IsFiniteSet(Inodes) /\ Inodes \subseteq Nat \ {0} /\ Inodes # {}
    /\ {MaxPage, MaxAccesses, MaxDay, MaxTears, MaxCancels} \subseteq Nat
    /\ Cancelling \in BOOLEAN

VARIABLES
    today,     \* the day Utc::now() falls on
    accesses,  \* the day of each access recorded so far
    files,     \* the contents of the files
    path,      \* the file the log's path names
    swallowed, \* accesses whose line was joined to a torn one
    tears,     \* torn lines so far
    detached,  \* file operations of dropped recalls
    cancels,   \* recalls dropped so far
    lock,      \* the task that holds the log's mutex, per process
    scope,     \* the task that holds the scope guard
    pc,
    local      \* what each task knows

vars == <<today, accesses, files, path, swallowed, tears, detached, cancels, lock,
          scope, pc, local>>

disk == <<accesses, files, path, swallowed, tears>>

Empty == [kept |-> {}, junk |-> 0, torn |-> FALSE]

\* Lines of a file, the unreadable ones included.
Size(file) == Cardinality(file.kept) + file.junk

InWindow(access, day) == day - accesses[access] <= Window

\* Mutant: only the window bounds what is retained.
CompactedUncapped(kept, day) == {e \in kept : InWindow(e, day)}

\* compact_entries: entries of the window, the oldest dropped beyond Retained.
Compacted(kept, day) ==
    LET fresh == {e \in kept : InWindow(e, day)}
    IN  {e \in fresh : Cardinality({d \in fresh : d > e}) < Retained}

Places ==
    {"idle", "waiting", "opening", "writing", "measuring", "reading",
     "replacing", "recorded", "guarding", "queueing", "scanning", "scoring"}

\* The steps between taking and releasing the log's mutex.
Critical ==
    {"opening", "writing", "measuring", "reading", "replacing", "scanning"}

Blank == [page |-> 0, day |-> 0, file |-> 0, kept |-> {}]

\* Files a task or an operation still has open.
Handles ==
    {local[t].file : t \in Tasks} \cup {d.file : d \in detached}

Init ==
    /\ today = 0
    /\ accesses = <<>>
    /\ files = [n \in Inodes |-> Empty]
    /\ \E n \in Inodes : (\A m \in Inodes : n <= m) /\ path = n
    /\ swallowed = {}
    /\ tears = 0
    /\ detached = {}
    /\ cancels = 0
    /\ lock = [p \in Processes |-> NoTask]
    /\ scope = NoTask
    /\ pc = [t \in Tasks |-> "idle"]
    /\ local = [t \in Tasks |-> Blank]

Goto(t, place) == pc' = [pc EXCEPT ![t] = place]

Holds(t) == lock[ProcOf[t]] = t

\* t is through: its mutex guard and its file handle are dropped.
Return(t, place) ==
    /\ Goto(t, place)
    /\ lock' = [lock EXCEPT ![ProcOf[t]] = IF @ = t THEN NoTask ELSE @]
    /\ local' = [local EXCEPT ![t] = Blank]

-----------------------------------------------------------------------------
(* What the file operations do.                                            *)

\* n whole lines stamped day go to the end of file f.  Behind a torn line the
\* first of them only completes the unreadable one.
Lines(f, n, day, torn) ==
    LET new    == Len(accesses) + 1 .. Len(accesses) + n
        joined == IF files[f].torn /\ n > 0 THEN {Len(accesses) + 1} ELSE {}
    IN  /\ accesses' = accesses \o [i \in 1..n |-> day]
        /\ swallowed' = swallowed \cup joined
        /\ files' = [files EXCEPT ![f] =
             [kept |-> @.kept \cup (new \ joined),
              junk |-> @.junk + IF torn /\ (n > 0 \/ ~@.torn) THEN 1 ELSE 0,
              torn |-> torn]]
        /\ UNCHANGED path

\* Mutant: the buffer does not end in a newline.
AppendUnterminated(f, n, day) ==
    Lines(f, n, day, TRUE) /\ UNCHANGED tears

\* One write_all of the buffer.
AppendLines(f, n, day) ==
    Lines(f, n, day, FALSE) /\ UNCHANGED tears

\* The write fails in the middle of a line, as on a full disk.
AppendTorn(f, n, day) ==
    /\ tears < MaxTears
    /\ tears' = tears + 1
    /\ \E k \in 0 .. n - 1 : Lines(f, k, day, TRUE)

\* atomic_write renames a complete new file over the path; the old one is gone
\* when nobody has it open.
ReplaceFile(kept) ==
    \E new \in Inodes \ (Handles \cup {path}) :
        /\ \A n \in Inodes \ (Handles \cup {path}) : new <= n
        /\ path' = new
        /\ files' = [n \in Inodes |->
             IF n = new THEN [kept |-> kept, junk |-> 0, torn |-> FALSE]
             ELSE IF n \in Handles THEN files[n] ELSE Empty]
        /\ UNCHANGED <<accesses, swallowed, tears>>

-----------------------------------------------------------------------------
(* record_memory_accesses.                                                 *)

\* A query returns a page of n memories and goes to record them.
Recall(t) ==
    /\ pc[t] \in {"idle", "recorded"}
    /\ \E n \in 1..MaxPage :
         /\ Len(accesses) + n <= MaxAccesses
         /\ local' = [local EXCEPT ![t] = 
              [page |-> n, day |-> 0, file |-> 0, kept |-> {}]]
    /\ Goto(t, "waiting")
    /\ UNCHANGED <<today, disk, detached, cancels, lock, scope>>

\* Mutant: appends go on while another task is in the critical section.
LockShared(t) ==
    /\ pc[t] = "waiting"
    /\ lock' = [lock EXCEPT ![ProcOf[t]] = t]
    /\ local' = [local EXCEPT ![t].day = today]
    /\ Goto(t, "opening")
    /\ UNCHANGED <<today, disk, detached, cancels, scope>>

\* The mutex of the path, then the time stamp.
Lock(t) ==
    /\ pc[t] = "waiting"
    /\ lock[ProcOf[t]] = NoTask
    /\ lock' = [lock EXCEPT ![ProcOf[t]] = t]
    /\ local' = [local EXCEPT ![t].day = today]
    /\ Goto(t, "opening")
    /\ UNCHANGED <<today, disk, detached, cancels, scope>>

\* Mutant: the recall wants the scope guard as well before it opens the log.
OpenGuarded(t) ==
    /\ pc[t] = "opening"
    /\ scope = NoTask
    /\ local' = [local EXCEPT ![t].file = path]
    /\ Goto(t, "writing")
    /\ UNCHANGED <<today, disk, detached, cancels, lock, scope>>

\* The handle stays with this file even if the path is replaced.
Open(t) ==
    /\ pc[t] = "opening"
    /\ local' = [local EXCEPT ![t].file = path]
    /\ Goto(t, "writing")
    /\ UNCHANGED <<today, disk, detached, cancels, lock, scope>>

Write(t) ==
    /\ pc[t] = "writing"
    /\ AppendLines(local[t].file, local[t].page, local[t].day)
    /\ Goto(t, "measuring")
    /\ UNCHANGED <<today, detached, cancels, lock, scope, local>>

TornWrite(t) ==
    /\ pc[t] = "writing"
    /\ AppendTorn(local[t].file, local[t].page, local[t].day)
    /\ Return(t, "idle")
    /\ UNCHANGED <<today, detached, cancels, scope>>

\* The size of the opened file decides whether to compact the one at the path.
Measure(t) ==
    /\ pc[t] = "measuring"
    /\ IF Size(files[local[t].file]) > Trigger
       THEN /\ Goto(t, "reading")
            /\ local' = [local EXCEPT ![t].file = 0]
            /\ UNCHANGED lock
       ELSE Return(t, "recorded")
    /\ UNCHANGED <<today, disk, detached, cancels, scope>>

\* Mutant: the log is read before the recall's own lines are in it.
ReadBeforeWrite(t) ==
    /\ pc[t] = "reading"
    /\ local' = [local EXCEPT ![t].kept =
         Compacted({e \in files[path].kept :
                      e <= Len(accesses) - local[t].page}, today)]
    /\ Goto(t, "replacing")
    /\ UNCHANGED <<today, disk, detached, cancels, lock, scope>>

\* compact_access_log_at reads, parses and filters.
Read(t) ==
    /\ pc[t] = "reading"
    /\ local' = [local EXCEPT ![t].kept = Compacted(files[path].kept, today)]
    /\ Goto(t, "replacing")
    /\ UNCHANGED <<today, disk, detached, cancels, lock, scope>>

Replace(t) ==
    /\ pc[t] = "replacing"
    /\ ReplaceFile(local[t].kept)
    /\ Return(t, "recorded")
    /\ UNCHANGED <<today, detached, cancels, scope>>

\* Any other file operation fails; the error is logged and the recall answers.
Fail(t) ==
    /\ pc[t] \in {"opening", "writing", "measuring", "reading", "replacing"}
    /\ Return(t, "idle")
    /\ UNCHANGED <<today, disk, detached, cancels, scope>>

-----------------------------------------------------------------------------
(* Dropped recalls.                                                        *)

\* The write or rename a recall may have in the blocking pool.
Pending(t) ==
    CASE pc[t] = "writing" ->
           {[op |-> "append", task |-> t, file |-> local[t].file,
             kept |-> {}, page |-> local[t].page, day |-> local[t].day]}
      [] pc[t] = "replacing" ->
           {[op |-> "rename", task |-> t, file |-> 0,
             kept |-> local[t].kept, page |-> 0, day |-> 0]}
      [] OTHER -> {}

\* The request's future is dropped, and the mutex guard with it.
Cancel(t) ==
    /\ Cancelling
    /\ cancels < MaxCancels
    /\ cancels' = cancels + 1
    /\ pc[t] \notin {"idle", "recorded"}
    /\ \E ops \in SUBSET Pending(t) : detached' = detached \cup ops
    /\ Return(t, "idle")
    /\ UNCHANGED <<today, disk, scope>>

\* A file operation whose recall is gone takes place, or fails.
Detached(d) ==
    /\ detached' = detached \ {d}
    /\ \/ d.op = "append" /\ AppendLines(d.file, d.page, d.day)
       \/ d.op = "append" /\ AppendTorn(d.file, d.page, d.day)
       \/ d.op = "rename" /\ ReplaceFile(d.kept)
       \/ UNCHANGED disk
    /\ UNCHANGED <<today, cancels, lock, scope, pc, local>>

-----------------------------------------------------------------------------
(* The capacity gardener's use of the log; what it then archives is in     *)
(* ScopeStore.                                                             *)

Garden(t) ==
    /\ pc[t] = "idle"
    /\ Goto(t, "guarding")
    /\ UNCHANGED <<today, disk, detached, cancels, lock, scope, local>>

\* Mutant: the guard is the process's, not the task's.
TakeScopeForProcess(t) ==
    /\ pc[t] = "guarding"
    /\ scope = NoTask
    /\ scope' = ProcOf[t]
    /\ Goto(t, "queueing")
    /\ UNCHANGED <<today, disk, detached, cancels, lock, local>>

TakeScope(t) ==
    /\ pc[t] = "guarding"
    /\ scope = NoTask
    /\ scope' = t
    /\ Goto(t, "queueing")
    /\ UNCHANGED <<today, disk, detached, cancels, lock, local>>

\* access_log_stats takes the log's mutex under the scope guard.
LockUnderScope(t) ==
    /\ pc[t] = "queueing"
    /\ lock[ProcOf[t]] = NoTask
    /\ lock' = [lock EXCEPT ![ProcOf[t]] = t]
    /\ Goto(t, "scanning")
    /\ UNCHANGED <<today, disk, detached, cancels, scope, local>>

\* What the log holds is aggregated; a failed read counts for an empty log.
Scan(t) ==
    /\ pc[t] = "scanning"
    /\ Return(t, "scoring")
    /\ UNCHANGED <<today, disk, detached, cancels, scope>>

\* The rest of the pass, and the release of the scope guard.
Score(t) ==
    /\ pc[t] = "scoring"
    /\ scope' = NoTask
    /\ Goto(t, "idle")
    /\ UNCHANGED <<today, disk, detached, cancels, lock, local>>

-----------------------------------------------------------------------------

Tick ==
    /\ today < MaxDay
    /\ today' = today + 1
    /\ UNCHANGED <<disk, detached, cancels, lock, scope, pc, local>>

\* A process dies and starts again.
Crash(p) ==
    LET own == {t \in Tasks : ProcOf[t] = p} IN
    /\ \E t \in own : pc[t] \notin {"idle", "recorded"}
    /\ pc' = [t \in Tasks |-> IF t \in own THEN "idle" ELSE pc[t]]
    /\ lock' = [lock EXCEPT ![p] = NoTask]
    /\ scope' = IF scope \in own THEN NoTask ELSE scope
    /\ detached' = {d \in detached : d.task \notin own}
    /\ local' = [t \in Tasks |-> IF t \in own THEN Blank ELSE local[t]]
    /\ UNCHANGED <<today, disk, cancels>>

Access(t) == Open(t) \/ Write(t) \/ Measure(t) \/ Read(t) \/ Replace(t)

Gardening(t) == Scan(t) \/ Score(t)

Next ==
    \/ \E t \in Recalls :
         \/ Recall(t) \/ Lock(t) \/ Access(t)
         \/ TornWrite(t) \/ Fail(t) \/ Cancel(t)
    \/ \E d \in detached : Detached(d)
    \/ \E t \in Gardeners :
         Garden(t) \/ TakeScope(t) \/ LockUnderScope(t) \/ Gardening(t)
    \/ \E p \in Processes : Crash(p)
    \/ Tick

Spec == Init /\ [][Next]_vars

\* Tokio polls ready tasks and file operations end; its mutex is first come,
\* first served, and so is the mutex in front of the scope guard's file lock.
Fairness ==
    /\ \A t \in Recalls :
         /\ WF_vars(Access(t))
         /\ SF_vars(Lock(t))
    /\ \A t \in Gardeners :
         /\ WF_vars(Gardening(t))
         /\ SF_vars(TakeScope(t))
         /\ SF_vars(LockUnderScope(t))

FairSpec == Spec /\ Fairness

-----------------------------------------------------------------------------

Numbers == 1 .. Len(accesses)

Files == [kept : SUBSET Numbers, junk : Nat, torn : BOOLEAN]

Locals ==
    [page : 0..MaxPage, day : 0..MaxDay, file : Inodes \cup {0},
     kept : SUBSET Numbers]

Operations ==
    [op : {"append", "rename"}, task : Recalls, page : 0..MaxPage,
     day : 0..MaxDay, file : Inodes \cup {0}, kept : SUBSET Numbers]

\* Types; whoever writes or measures has the log open.
TypeOK ==
    /\ today \in 0..MaxDay
    /\ accesses \in Seq(0..MaxDay)
    /\ files \in [Inodes -> Files]
    /\ path \in Inodes
    /\ swallowed \subseteq Numbers
    /\ tears \in 0..MaxTears
    /\ detached \subseteq Operations
    /\ \A d \in detached : d.op = "append" => d.file \in Inodes
    /\ cancels \in 0..MaxCancels
    /\ lock \in [Processes -> Tasks \cup {NoTask}]
    /\ scope \in Gardeners \cup {NoTask}
    /\ pc \in [Tasks -> Places]
    /\ local \in [Tasks -> Locals]
    /\ \A t \in Recalls :
         pc[t] \in {"writing", "measuring"} => local[t].file \in Inodes

\* Whoever is in the critical section holds its process's mutex.
SectionIsLocked == \A t \in Tasks : pc[t] \in Critical => Holds(t)

\* Every access of the window that is among the newest Retained ones is in the
\* log, whatever compactions, failures and crashes came after it, unless a torn
\* line swallowed it: what the gardener will count is complete.
RecentAccessesKept ==
    \A a \in Numbers :
        InWindow(a, today) /\ a > Len(accesses) - Retained =>
            a \in files[path].kept \cup swallowed

\* An append that fails in a line costs later recalls at most one access.
TornLineCostsOne ==
    Cardinality(swallowed) + Cardinality({n \in Inodes : files[n].torn}) <= tears

\* A recall whose recording succeeded leaves a log within the bounds.
LogBounded ==
    [][\A t \in Recalls :
         pc[t] # "recorded" /\ pc'[t] = "recorded" =>
            \/ Size(files'[path']) <= Trigger
            \/ Size(files'[path']) <= Retained]_vars

\* Compaction makes room, so that not every later append compacts again.
CompactionMakesRoom ==
    [][\A t \in Recalls :
         pc[t] = "replacing" /\ pc'[t] = "recorded" =>
            Size(files'[path']) <= Trigger]_vars

\* Nobody who uses the log waits for ever.
EveryoneReturns ==
    \A t \in Tasks :
        pc[t] \notin {"idle", "recorded"} ~> pc[t] \in {"idle", "recorded"}
=============================================================================
