-------------------------- MODULE AccessLog_proofs --------------------------
(***************************************************************************)
(* Proofs about AccessLog.  For any tasks and processes: the types, and    *)
(* that whoever works on the log holds its process's mutex.  When all      *)
(* tasks are in one process and no recall is dropped, the mutex makes      *)
(* append, measure and compact one critical section, so a compaction drops *)
(* nothing but what has left the window or the newest Retained accesses.   *)
(***************************************************************************)
EXTENDS AccessLog, FiniteSetTheorems, SequenceTheorems,
        WellFoundedInduction, TLAPS

Safe == TypeOK /\ SectionIsLocked

\* What any append does to the log's file f.
Grown(f) ==
    /\ accesses' \in Seq(0..MaxDay)
    /\ Len(accesses) <= Len(accesses')
    /\ \A a \in Numbers : accesses'[a] = accesses[a]
    /\ files' \in [Inodes -> Files']
    /\ path' = path
    /\ swallowed' \subseteq Numbers'
    /\ swallowed \subseteq swallowed'
    /\ files[f].kept \subseteq files'[f].kept
    /\ \A a \in Numbers' : a \in Numbers \/ a \in files'[f].kept \cup swallowed'

\* More accesses, larger types.
LEMMA Wider ==
  ASSUME accesses \in Seq(0..MaxDay), accesses' \in Seq(0..MaxDay),
         Len(accesses) <= Len(accesses')
  PROVE  /\ Numbers \subseteq Numbers'
         /\ Files \subseteq Files'
         /\ Locals \subseteq Locals'
         /\ Operations \subseteq Operations'
<1>1. Len(accesses) \in Nat /\ Len(accesses') \in Nat
  OBVIOUS
<1>2. Numbers \subseteq Numbers'
  BY <1>1 DEF Numbers
<1>3. \A S \in SUBSET Numbers : S \in SUBSET Numbers'
  BY <1>2
<1>4. Files \subseteq Files'
  BY <1>3 DEF Files
<1>5. Locals \subseteq Locals'
  BY <1>3 DEF Locals
<1>6. Operations \subseteq Operations'
  BY <1>3 DEF Operations
<1> QED
  BY <1>2, <1>4, <1>5, <1>6

\* Whole lines, and possibly a torn one behind them.
LEMMA LinesGrow ==
  ASSUME TypeOK, NEW f \in Inodes, NEW n \in Nat, NEW day \in 0..MaxDay,
         NEW torn \in BOOLEAN, Lines(f, n, day, torn)
  PROVE  Grown(f)
<1> DEFINE added == [i \in 1..n |-> day]
           new == Len(accesses) + 1 .. Len(accesses) + n
           joined == IF files[f].torn /\ n > 0 THEN {Len(accesses) + 1} ELSE {}
           more == IF torn /\ (n > 0 \/ ~files[f].torn) THEN 1 ELSE 0
<1>1. accesses \in Seq(0..MaxDay) /\ files \in [Inodes -> Files]
  BY DEF TypeOK
<1>2. added \in Seq(0..MaxDay) /\ Len(added) = n
  OBVIOUS
<1>3. accesses' = accesses \o added
  BY DEF Lines
<1>4. /\ accesses' \in Seq(0..MaxDay)
      /\ Len(accesses') = Len(accesses) + n
      /\ \A a \in 1..Len(accesses) : accesses'[a] = accesses[a]
  <2> HIDE DEF added
  <2>1. /\ Len(accesses \o added) = Len(accesses) + Len(added)
        /\ \A i \in 1 .. Len(accesses) + Len(added) :
             (accesses \o added)[i] =
               IF i <= Len(accesses) THEN accesses[i]
               ELSE added[i - Len(accesses)]
    BY <1>1, <1>2, ConcatProperties
  <2>2. Len(accesses) \in Nat /\ n \in Nat
    BY <1>1
  <2>3. \A a \in 1..Len(accesses) :
          a \in 1 .. Len(accesses) + n /\ a <= Len(accesses)
    BY <2>2
  <2>4. accesses \o added \in Seq(0..MaxDay)
    BY <1>1, <1>2, ConcatProperties
  <2> QED
    BY <1>2, <1>3, <2>1, <2>3, <2>4
<1>5. /\ swallowed' = swallowed \cup joined
      /\ files' = [files EXCEPT ![f] =
           [kept |-> @.kept \cup (new \ joined), junk |-> @.junk + more,
            torn |-> torn]]
      /\ path' = path
  BY DEF Lines
<1>6. Len(accesses) \in Nat
  BY <1>1
<1>7. /\ Numbers = 1..Len(accesses)
      /\ Numbers' = Numbers \cup new
      /\ joined \subseteq new
  BY <1>4, <1>6 DEF Numbers
<1>8. /\ files[f].kept \subseteq Numbers
      /\ files[f].junk \in Nat
      /\ more \in Nat
  BY <1>1 DEF Files
<1>9. /\ files'[f] = [kept |-> files[f].kept \cup (new \ joined),
                      junk |-> files[f].junk + more, torn |-> torn]
      /\ \A m \in Inodes \ {f} : files'[m] = files[m]
      /\ DOMAIN files' = Inodes
      /\ files' = [m \in Inodes |-> files'[m]]
  BY <1>1, <1>5
<1>10. files'[f] \in Files'
  <2> HIDE DEF new, joined, more
  <2>1. files[f].kept \cup (new \ joined) \in SUBSET Numbers'
    BY <1>7, <1>8
  <2>2. files[f].junk + more \in Nat
    BY <1>8
  <2> QED
    BY <2>1, <2>2, <1>9 DEF Files
<1>11. files' \in [Inodes -> Files']
  <2>0. Len(accesses) <= Len(accesses')
    BY <1>4, <1>6
  <2>1. Files \subseteq Files'
    BY <1>1, <1>4, <2>0, Wider
  <2>2. \A m \in Inodes : files'[m] \in Files'
    BY <1>1, <1>9, <1>10, <2>1
  <2> QED
    BY <2>2, <1>9
<1>12. swallowed \subseteq Numbers
  BY DEF TypeOK
<1> HIDE DEF new, joined, more, added
<1>13. Len(accesses) <= Len(accesses')
  BY <1>4, <1>6
<1>14. /\ swallowed' \subseteq Numbers'
       /\ swallowed \subseteq swallowed'
       /\ files[f].kept \subseteq files'[f].kept
       /\ \A a \in Numbers' :
            a \in Numbers \/ a \in files'[f].kept \cup swallowed'
  BY <1>5, <1>7, <1>9, <1>12
<1>15. \A a \in Numbers : accesses'[a] = accesses[a]
  BY <1>4, <1>7
<1> QED
  BY <1>4, <1>5, <1>11, <1>13, <1>14, <1>15 DEF Grown

\* An append, torn or not.
LEMMA AppendGrows ==
  ASSUME TypeOK, NEW f \in Inodes, NEW n \in 0..MaxPage, NEW day \in 0..MaxDay,
         AppendLines(f, n, day) \/ AppendTorn(f, n, day)
  PROVE  Grown(f) /\ tears' \in 0..MaxTears
<1>0. tears \in 0..MaxTears /\ MaxTears \in Nat /\ MaxPage \in Nat
  BY AccessLogAssumption DEF TypeOK
<1>1. CASE AppendLines(f, n, day)
  <2>0. n \in Nat
    BY <1>0
  <2>1. Lines(f, n, day, FALSE) /\ tears' = tears
    BY <1>1, Zenon DEF AppendLines
  <2>2. Grown(f)
    BY <2>0, <2>1, LinesGrow
  <2> QED
    BY <1>0, <2>1, <2>2
<1>2. CASE AppendTorn(f, n, day)
  <2>1. PICK k \in 0 .. n - 1 : Lines(f, k, day, TRUE)
    BY <1>2 DEF AppendTorn
  <2>2. k \in Nat
    BY <1>0, <2>1
  <2>3. tears' \in 0..MaxTears
    BY <1>0, <1>2 DEF AppendTorn
  <2> QED
    BY <2>1, <2>2, <2>3, LinesGrow
<1> QED
  BY <1>1, <1>2

\* A new file at the path.
LEMMA ReplaceTyped ==
  ASSUME TypeOK, NEW kept \in SUBSET Numbers, ReplaceFile(kept)
  PROVE  /\ files' \in [Inodes -> Files]
         /\ path' \in Inodes
         /\ files'[path'].kept = kept
         /\ UNCHANGED <<accesses, swallowed, tears>>
<1>1. PICK new \in Inodes \ (Handles \cup {path}) :
        /\ path' = new
        /\ files' = [n \in Inodes |->
             IF n = new THEN [kept |-> kept, junk |-> 0, torn |-> FALSE]
             ELSE IF n \in Handles THEN files[n] ELSE Empty]
        /\ UNCHANGED <<accesses, swallowed, tears>>
  BY DEF ReplaceFile
<1>2. files \in [Inodes -> Files] /\ Empty \in Files
  BY DEF TypeOK, Files, Empty
<1>3. [kept |-> kept, junk |-> 0, torn |-> FALSE] \in Files
  BY DEF Files
<1> QED
  BY <1>1, <1>2, <1>3

-----------------------------------------------------------------------------

LEMMA InitSafe == Init => Safe
<1> SUFFICES ASSUME Init PROVE Safe
  OBVIOUS
<1>1. {} \subseteq Numbers /\ Empty \in Files /\ Blank \in Locals
  BY AccessLogAssumption DEF Files, Empty, Locals, Blank
<1>2. /\ today \in 0..MaxDay /\ accesses \in Seq(0..MaxDay)
      /\ tears \in 0..MaxTears /\ cancels \in 0..MaxCancels
  BY AccessLogAssumption DEF Init
<1>3. /\ files \in [Inodes -> Files] /\ path \in Inodes
      /\ swallowed \subseteq Numbers
      /\ detached = {}
  BY <1>1 DEF Init
<1>4. /\ lock \in [Processes -> Tasks \cup {NoTask}]
      /\ scope = NoTask
      /\ pc = [t \in Tasks |-> "idle"]
      /\ pc \in [Tasks -> Places]
      /\ local \in [Tasks -> Locals]
  BY <1>1 DEF Init, Places
<1>5. \A t \in Recalls : t \in Tasks
  BY DEF Tasks
<1>6. TypeOK
  BY <1>2, <1>3, <1>4, <1>5 DEF TypeOK
<1>7. SectionIsLocked
  BY <1>4 DEF SectionIsLocked, Critical
<1> QED
  BY <1>6, <1>7 DEF Safe

\* t leaves, and gives its mutex back if it has it.
LEMMA Returning ==
  ASSUME Safe, NEW t \in Tasks, NEW place \in Places \ Critical,
         Return(t, place)
  PROVE  /\ pc' = [pc EXCEPT ![t] = place]
         /\ pc' \in [Tasks -> Places]
         /\ lock' \in [Processes -> Tasks \cup {NoTask}]
         /\ local' = [local EXCEPT ![t] = Blank]
         /\ local' \in [Tasks -> Locals]
         /\ SectionIsLocked'
<1>1. /\ pc \in [Tasks -> Places] /\ local \in [Tasks -> Locals]
      /\ lock \in [Processes -> Tasks \cup {NoTask}]
      /\ ProcOf \in [Tasks -> Processes]
  BY AccessLogAssumption DEF Safe, TypeOK
<1>2. Blank \in Locals
  BY AccessLogAssumption DEF Blank, Locals
<1>3. /\ pc' = [pc EXCEPT ![t] = place]
      /\ lock' = [lock EXCEPT ![ProcOf[t]] =
                    IF lock[ProcOf[t]] = t THEN NoTask ELSE lock[ProcOf[t]]]
      /\ local' = [local EXCEPT ![t] = Blank]
  BY DEF Return, Goto
<1>4. SectionIsLocked'
  <2> SUFFICES ASSUME NEW s \in Tasks, pc'[s] \in Critical
               PROVE  lock'[ProcOf[s]] = s
    BY DEF SectionIsLocked, Holds
  <2>1. s # t /\ pc[s] \in Critical
    BY <1>1, <1>3
  <2>2. lock[ProcOf[s]] = s
    BY <2>1 DEF Safe, SectionIsLocked, Holds
  <2> QED
    BY <1>1, <1>3, <2>1, <2>2
<1> QED
  BY <1>1, <1>2, <1>3, <1>4

\* t moves on with its mutex as it is.
LEMMA Moving ==
  ASSUME Safe, NEW t \in Tasks, NEW place \in Places, Goto(t, place),
         place \in Critical => pc[t] \in Critical, UNCHANGED lock
  PROVE  pc' \in [Tasks -> Places] /\ SectionIsLocked'
BY AccessLogAssumption
   DEF Safe, TypeOK, SectionIsLocked, Holds, Goto

\* t takes the free mutex.
LEMMA Locking ==
  ASSUME Safe, NEW t \in Tasks, NEW place \in Places, Goto(t, place),
         lock[ProcOf[t]] = NoTask, lock' = [lock EXCEPT ![ProcOf[t]] = t]
  PROVE  /\ pc' \in [Tasks -> Places]
         /\ lock' \in [Processes -> Tasks \cup {NoTask}]
         /\ SectionIsLocked'
<1>1. /\ pc \in [Tasks -> Places]
      /\ lock \in [Processes -> Tasks \cup {NoTask}]
      /\ ProcOf \in [Tasks -> Processes] /\ NoTask \notin Tasks
  BY AccessLogAssumption DEF Safe, TypeOK
<1>2. SectionIsLocked'
  <2> SUFFICES ASSUME NEW s \in Tasks, pc'[s] \in Critical
               PROVE  lock'[ProcOf[s]] = s
    BY DEF SectionIsLocked, Holds
  <2>1. s # t => lock[ProcOf[s]] = s
    BY <1>1 DEF Goto, Safe, SectionIsLocked, Holds
  <2> QED
    BY <1>1, <2>1
<1> QED
  BY <1>1, <1>2 DEF Goto
\* Safe' from its parts: the disk's types, the moves and what is left alone.
LEMMA SafeAgain ==
  ASSUME Safe, Len(accesses) <= Len(accesses'),
         today' \in 0..MaxDay, accesses' \in Seq(0..MaxDay),
         files' \in [Inodes -> Files'], path' \in Inodes,
         swallowed' \subseteq Numbers', tears' \in 0..MaxTears,
         \A d \in detached' :
            /\ d \in detached \/ d \in Operations
            /\ d.op = "append" => d.file \in Inodes,
         cancels' \in 0..MaxCancels,
         lock' \in [Processes -> Tasks \cup {NoTask}],
         scope' \in Gardeners \cup {NoTask},
         pc' \in [Tasks -> Places], local' \in [Tasks -> Locals],
         \A t \in Recalls :
            pc'[t] \in {"writing", "measuring"} => local'[t].file \in Inodes,
         SectionIsLocked'
  PROVE  Safe'
<1>1. /\ Locals \subseteq Locals' /\ Operations \subseteq Operations'
  BY Wider DEF Safe, TypeOK
<1>2. local' \in [Tasks -> Locals']
  BY <1>1
<1>3. detached' \subseteq Operations'
  BY <1>1 DEF Safe, TypeOK
<1> QED
  BY <1>2, <1>3 DEF Safe, TypeOK

\* A step that leaves the files, the clock and the dropped recalls alone.
LEMMA SafeTask ==
  ASSUME Safe, UNCHANGED <<today, disk, detached, cancels>>,
         lock' \in [Processes -> Tasks \cup {NoTask}],
         scope' \in Gardeners \cup {NoTask},
         pc' \in [Tasks -> Places], local' \in [Tasks -> Locals],
         \A t \in Recalls :
            pc'[t] \in {"writing", "measuring"} => local'[t].file \in Inodes,
         SectionIsLocked'
  PROVE  Safe'
<1>1. /\ Len(accesses) <= Len(accesses') /\ accesses' = accesses
      /\ Files' = Files /\ Numbers' = Numbers
  BY DEF Safe, TypeOK, disk, Files, Numbers
<1> QED
  BY <1>1, SafeAgain DEF Safe, TypeOK, disk

LEMMA RecallSafe == ASSUME Safe, NEW t \in Recalls, Recall(t) PROVE Safe'
<1>0. t \in Tasks /\ \A r \in Recalls : r \in Tasks
  BY DEF Tasks
<1>1. /\ Goto(t, "waiting") /\ UNCHANGED lock /\ UNCHANGED scope
      /\ UNCHANGED <<today, disk, detached, cancels>>
  BY DEF Recall
<1>2. pc' \in [Tasks -> Places] /\ SectionIsLocked'
  BY <1>0, <1>1, Moving DEF Critical, Places
<1>3. PICK n \in 1..MaxPage :
        local' = [local EXCEPT ![t] =
                   [page |-> n, day |-> 0, file |-> 0, kept |-> {}]]
  BY DEF Recall
<1>4. [page |-> n, day |-> 0, file |-> 0, kept |-> {}] \in Locals
  BY AccessLogAssumption DEF Locals
<1>5. local' \in [Tasks -> Locals]
  BY <1>3, <1>4 DEF Safe, TypeOK
<1>6. \A r \in Recalls :
        pc'[r] \in {"writing", "measuring"} => local'[r].file \in Inodes
  BY <1>0, <1>1, <1>3 DEF Safe, TypeOK, Goto
<1> QED
  BY <1>1, <1>2, <1>5, <1>6, SafeTask DEF Safe, TypeOK

LEMMA LockSafe == ASSUME Safe, NEW t \in Recalls, Lock(t) PROVE Safe'
<1>0. t \in Tasks /\ \A r \in Recalls : r \in Tasks
  BY DEF Tasks
<1>1. /\ Goto(t, "opening") /\ UNCHANGED scope
      /\ lock[ProcOf[t]] = NoTask /\ lock' = [lock EXCEPT ![ProcOf[t]] = t]
      /\ UNCHANGED <<today, disk, detached, cancels>>
      /\ local' = [local EXCEPT ![t].day = today]
  BY DEF Lock
<1>2. /\ pc' \in [Tasks -> Places] /\ SectionIsLocked'
      /\ lock' \in [Processes -> Tasks \cup {NoTask}]
  BY <1>0, <1>1, Locking DEF Places
<1>3. local' \in [Tasks -> Locals]
  BY <1>0, <1>1 DEF Safe, TypeOK, Locals
<1>4. \A r \in Recalls :
        pc'[r] \in {"writing", "measuring"} => local'[r].file \in Inodes
  BY <1>0, <1>1 DEF Safe, TypeOK, Goto
<1> QED
  BY <1>1, <1>2, <1>3, <1>4, SafeTask DEF Safe, TypeOK

LEMMA OpenSafe == ASSUME Safe, NEW t \in Recalls, Open(t) PROVE Safe'
<1>0. t \in Tasks /\ \A r \in Recalls : r \in Tasks
  BY DEF Tasks
<1>1. /\ Goto(t, "writing") /\ UNCHANGED scope /\ UNCHANGED lock
      /\ pc[t] = "opening" /\ UNCHANGED <<today, disk, detached, cancels>>
      /\ local' = [local EXCEPT ![t].file = path]
  BY DEF Open
<1>2. pc' \in [Tasks -> Places] /\ SectionIsLocked'
  BY <1>0, <1>1, Moving DEF Places, Critical
<1>3. local' \in [Tasks -> Locals] /\ local'[t].file \in Inodes
  BY <1>0, <1>1 DEF Safe, TypeOK, Locals
<1>4. \A r \in Recalls :
        pc'[r] \in {"writing", "measuring"} => local'[r].file \in Inodes
  BY <1>0, <1>1, <1>3 DEF Safe, TypeOK, Goto
<1> QED
  BY <1>1, <1>2, <1>3, <1>4, SafeTask DEF Safe, TypeOK

\* What the log's writers know about their file, page and stamp.
LEMMA Writing ==
  ASSUME Safe, NEW t \in Recalls, pc[t] = "writing"
  PROVE  /\ local[t].file \in Inodes
         /\ local[t].page \in 0..MaxPage
         /\ local[t].day \in 0..MaxDay
BY DEF Safe, TypeOK, Locals, Tasks

LEMMA WriteSafe == ASSUME Safe, NEW t \in Recalls, Write(t) PROVE Safe'
<1>0. t \in Tasks /\ \A r \in Recalls : r \in Tasks
  BY DEF Tasks
<1>1. /\ Goto(t, "measuring") /\ UNCHANGED scope /\ UNCHANGED lock
      /\ pc[t] = "writing" /\ UNCHANGED <<today, detached, cancels, local>>
      /\ AppendLines(local[t].file, local[t].page, local[t].day)
  BY DEF Write
<1>2. pc' \in [Tasks -> Places] /\ SectionIsLocked'
  BY <1>0, <1>1, Moving DEF Places, Critical
<1>3. Grown(local[t].file) /\ tears' \in 0..MaxTears
  BY <1>1, Writing, AppendGrows DEF Safe
<1>4. \A r \in Recalls :
        pc'[r] \in {"writing", "measuring"} => local'[r].file \in Inodes
  BY <1>0, <1>1 DEF Safe, TypeOK, Goto
<1> QED
  BY <1>1, <1>2, <1>3, <1>4, SafeAgain DEF Safe, TypeOK, Grown

LEMMA TornWriteSafe == ASSUME Safe, NEW t \in Recalls, TornWrite(t) PROVE Safe'
<1>0. t \in Tasks /\ \A r \in Recalls : r \in Tasks
  BY DEF Tasks
<1>1. /\ Return(t, "idle") /\ UNCHANGED scope
      /\ pc[t] = "writing" /\ UNCHANGED <<today, detached, cancels>>
      /\ AppendTorn(local[t].file, local[t].page, local[t].day)
  BY DEF TornWrite
<1>2. /\ pc' = [pc EXCEPT ![t] = "idle"] /\ pc' \in [Tasks -> Places]
      /\ SectionIsLocked' /\ lock' \in [Processes -> Tasks \cup {NoTask}]
      /\ local' = [local EXCEPT ![t] = Blank] /\ local' \in [Tasks -> Locals]
  BY <1>0, <1>1, Returning DEF Places, Critical
<1>3. Grown(local[t].file) /\ tears' \in 0..MaxTears
  BY <1>1, Writing, AppendGrows DEF Safe
<1>4. \A r \in Recalls :
        pc'[r] \in {"writing", "measuring"} => local'[r].file \in Inodes
  BY <1>0, <1>1, <1>2 DEF Safe, TypeOK
<1> QED
  BY <1>1, <1>2, <1>3, <1>4, SafeAgain DEF Safe, TypeOK, Grown

LEMMA MeasureSafe == ASSUME Safe, NEW t \in Recalls, Measure(t) PROVE Safe'
<1>0. t \in Tasks /\ \A r \in Recalls : r \in Tasks
  BY DEF Tasks
<1>1. pc[t] = "measuring" /\ UNCHANGED <<today, disk, detached, cancels>>
      /\ UNCHANGED scope
  BY DEF Measure
<1>2. CASE Goto(t, "reading") /\ local' = [local EXCEPT ![t].file = 0]
           /\ UNCHANGED lock
  <2>1. pc' \in [Tasks -> Places] /\ SectionIsLocked'
    BY <1>0, <1>1, <1>2, Moving DEF Places, Critical
  <2>2. local' \in [Tasks -> Locals]
    BY <1>0, <1>2 DEF Safe, TypeOK, Locals
  <2>3. \A r \in Recalls :
          pc'[r] \in {"writing", "measuring"} => local'[r].file \in Inodes
    BY <1>0, <1>1, <1>2 DEF Safe, TypeOK, Goto
  <2> QED
    BY <1>1, <1>2, <2>1, <2>2, <2>3, SafeTask DEF Safe, TypeOK
<1>3. CASE Return(t, "recorded")
  <2>1. /\ pc' = [pc EXCEPT ![t] = "recorded"] /\ pc' \in [Tasks -> Places]
        /\ SectionIsLocked' /\ lock' \in [Processes -> Tasks \cup {NoTask}]
        /\ local' = [local EXCEPT ![t] = Blank] /\ local' \in [Tasks -> Locals]
    BY <1>0, <1>3, Returning DEF Places, Critical
  <2>2. \A r \in Recalls :
          pc'[r] \in {"writing", "measuring"} => local'[r].file \in Inodes
    BY <1>0, <2>1 DEF Safe, TypeOK
  <2> QED
    BY <1>1, <2>1, <2>2, SafeTask DEF Safe, TypeOK
<1> QED
  BY <1>2, <1>3 DEF Measure

\* What a compaction keeps was in the log.
LEMMA CompactedSubset ==
  ASSUME NEW kept, NEW day PROVE Compacted(kept, day) \subseteq kept
BY DEF Compacted

LEMMA ReadSafe == ASSUME Safe, NEW t \in Recalls, Read(t) PROVE Safe'
<1>0. t \in Tasks /\ \A r \in Recalls : r \in Tasks
  BY DEF Tasks
<1> DEFINE kept == Compacted(files[path].kept, today)
<1>1. /\ Goto(t, "replacing") /\ UNCHANGED scope /\ UNCHANGED lock
      /\ pc[t] = "reading" /\ UNCHANGED <<today, disk, detached, cancels>>
      /\ local' = [local EXCEPT ![t].kept = kept]
  BY DEF Read
<1>2. pc' \in [Tasks -> Places] /\ SectionIsLocked'
  BY <1>0, <1>1, Moving DEF Places, Critical
<1>3. files[path].kept \subseteq Numbers
  BY DEF Safe, TypeOK, Files
<1>4. kept \in SUBSET Numbers
  BY <1>3, CompactedSubset
<1> HIDE DEF kept
<1>5. local' \in [Tasks -> Locals]
  BY <1>0, <1>1, <1>4 DEF Safe, TypeOK, Locals
<1>6. \A r \in Recalls :
        pc'[r] \in {"writing", "measuring"} => local'[r].file \in Inodes
  BY <1>0, <1>1 DEF Safe, TypeOK, Goto
<1> QED
  BY <1>1, <1>2, <1>5, <1>6, SafeTask DEF Safe, TypeOK

LEMMA ReplaceSafe == ASSUME Safe, NEW t \in Recalls, Replace(t) PROVE Safe'
<1>0. t \in Tasks /\ \A r \in Recalls : r \in Tasks
  BY DEF Tasks
<1>1. /\ Return(t, "recorded") /\ UNCHANGED scope
      /\ UNCHANGED <<today, detached, cancels>>
      /\ ReplaceFile(local[t].kept)
  BY DEF Replace
<1>2. /\ pc' = [pc EXCEPT ![t] = "recorded"] /\ pc' \in [Tasks -> Places]
      /\ SectionIsLocked' /\ lock' \in [Processes -> Tasks \cup {NoTask}]
      /\ local' = [local EXCEPT ![t] = Blank] /\ local' \in [Tasks -> Locals]
  BY <1>0, <1>1, Returning DEF Places, Critical
<1>3. local[t].kept \in SUBSET Numbers
  BY <1>0 DEF Safe, TypeOK, Locals
<1>4. /\ files' \in [Inodes -> Files] /\ path' \in Inodes
      /\ UNCHANGED <<accesses, swallowed, tears>>
  BY <1>1, <1>3, ReplaceTyped DEF Safe
<1>5. Files' = Files /\ Numbers' = Numbers /\ Len(accesses) <= Len(accesses')
  BY <1>4 DEF Files, Numbers, Safe, TypeOK
<1>6. \A r \in Recalls :
        pc'[r] \in {"writing", "measuring"} => local'[r].file \in Inodes
  BY <1>0, <1>2 DEF Safe, TypeOK
<1> QED
  BY <1>1, <1>2, <1>4, <1>5, <1>6, SafeAgain DEF Safe, TypeOK

LEMMA FailSafe == ASSUME Safe, NEW t \in Recalls, Fail(t) PROVE Safe'
<1>0. t \in Tasks /\ \A r \in Recalls : r \in Tasks
  BY DEF Tasks
<1>1. /\ Return(t, "idle") /\ UNCHANGED scope
      /\ UNCHANGED <<today, disk, detached, cancels>>
  BY DEF Fail
<1>2. /\ pc' = [pc EXCEPT ![t] = "idle"] /\ pc' \in [Tasks -> Places]
      /\ SectionIsLocked' /\ lock' \in [Processes -> Tasks \cup {NoTask}]
      /\ local' = [local EXCEPT ![t] = Blank] /\ local' \in [Tasks -> Locals]
  BY <1>0, <1>1, Returning DEF Places, Critical
<1>3. \A r \in Recalls :
        pc'[r] \in {"writing", "measuring"} => local'[r].file \in Inodes
  BY <1>0, <1>2 DEF Safe, TypeOK
<1> QED
  BY <1>1, <1>2, <1>3, SafeTask DEF Safe, TypeOK
LEMMA CancelSafe == ASSUME Safe, NEW t \in Recalls, Cancel(t) PROVE Safe'
<1>0. t \in Tasks /\ \A r \in Recalls : r \in Tasks
  BY DEF Tasks
<1>1. /\ Return(t, "idle") /\ UNCHANGED scope /\ UNCHANGED <<today, disk>>
      /\ cancels < MaxCancels /\ cancels' = cancels + 1
  BY DEF Cancel
<1>2. /\ pc' = [pc EXCEPT ![t] = "idle"] /\ pc' \in [Tasks -> Places]
      /\ SectionIsLocked' /\ lock' \in [Processes -> Tasks \cup {NoTask}]
      /\ local' = [local EXCEPT ![t] = Blank] /\ local' \in [Tasks -> Locals]
  BY <1>0, <1>1, Returning DEF Places, Critical
<1>3. \A r \in Recalls :
        pc'[r] \in {"writing", "measuring"} => local'[r].file \in Inodes
  BY <1>0, <1>2 DEF Safe, TypeOK
<1>4. cancels' \in 0..MaxCancels
  BY <1>1, AccessLogAssumption DEF Safe, TypeOK
<1>5. \A d \in Pending(t) : d \in Operations /\ (d.op = "append" => d.file \in Inodes)
  <2>1. /\ local[t].page \in 0..MaxPage /\ local[t].day \in 0..MaxDay
        /\ local[t].file \in Inodes \cup {0} /\ local[t].kept \in SUBSET Numbers
        /\ pc[t] = "writing" => local[t].file \in Inodes
    BY <1>0 DEF Safe, TypeOK, Locals
  <2>2. {} \in SUBSET Numbers /\ 0 \in 0..MaxPage /\ 0 \in 0..MaxDay
    BY AccessLogAssumption
  <2>3. CASE pc[t] = "writing"
    BY <2>1, <2>2, <2>3 DEF Pending, Operations
  <2>4. CASE pc[t] = "replacing"
    BY <2>1, <2>2, <2>4 DEF Pending, Operations
  <2>5. CASE pc[t] \notin {"writing", "replacing"}
    BY <2>5 DEF Pending
  <2> QED
    BY <2>3, <2>4, <2>5
<1>6. \A d \in detached' : d \in detached \/ d \in Pending(t)
  BY DEF Cancel
<1>7. \A d \in detached' :
        /\ d \in detached \/ d \in Operations
        /\ d.op = "append" => d.file \in Inodes
  BY <1>5, <1>6 DEF Safe, TypeOK
<1>8. /\ Files' = Files /\ Numbers' = Numbers /\ Len(accesses) <= Len(accesses')
  BY <1>1 DEF Files, Numbers, Safe, TypeOK, disk
<1> QED
  BY <1>1, <1>2, <1>3, <1>4, <1>7, <1>8, SafeAgain DEF Safe, TypeOK, disk

LEMMA DetachedSafe == ASSUME Safe, NEW d \in detached, Detached(d) PROVE Safe'
<1>1. UNCHANGED <<today, cancels, lock, scope, pc, local>>
      /\ detached' = detached \ {d}
  BY DEF Detached
<1>2. d \in Operations /\ (d.op = "append" => d.file \in Inodes)
  BY DEF Safe, TypeOK
<1>3. /\ d.page \in 0..MaxPage /\ d.day \in 0..MaxDay
      /\ d.kept \in SUBSET Numbers
  BY <1>2 DEF Operations
<1>4. SectionIsLocked'
  BY <1>1 DEF Safe, SectionIsLocked, Holds
<1>5. /\ accesses' \in Seq(0..MaxDay) /\ Len(accesses) <= Len(accesses')
      /\ files' \in [Inodes -> Files'] /\ path' \in Inodes
      /\ swallowed' \subseteq Numbers' /\ tears' \in 0..MaxTears
  <2>1. CASE d.op = "append" /\ (AppendLines(d.file, d.page, d.day)
                                 \/ AppendTorn(d.file, d.page, d.day))
    <3>1. Grown(d.file) /\ tears' \in 0..MaxTears
      BY <1>2, <1>3, <2>1, AppendGrows DEF Safe
    <3> QED
      BY <3>1 DEF Grown, Safe, TypeOK
  <2>2. CASE d.op = "rename" /\ ReplaceFile(d.kept)
    <3>1. /\ files' \in [Inodes -> Files] /\ path' \in Inodes
          /\ UNCHANGED <<accesses, swallowed, tears>>
      BY <1>3, <2>2, ReplaceTyped DEF Safe
    <3> QED
      BY <3>1 DEF Files, Numbers, Safe, TypeOK
  <2>3. CASE UNCHANGED disk
    BY <2>3 DEF disk, Files, Numbers, Safe, TypeOK
  <2> QED
    BY <2>1, <2>2, <2>3 DEF Detached
<1> QED
  BY <1>1, <1>4, <1>5, SafeAgain DEF Safe, TypeOK

LEMMA GardenerSafe ==
  ASSUME Safe, NEW t \in Gardeners,
         Garden(t) \/ TakeScope(t) \/ LockUnderScope(t) \/ Gardening(t)
  PROVE  Safe'
<1>0. t \in Tasks /\ \A r \in Recalls : r \in Tasks /\ r # t
  BY AccessLogAssumption DEF Tasks
<1>1. CASE Garden(t) \/ TakeScope(t) \/ Score(t)
  <2>1. /\ UNCHANGED <<today, disk, detached, cancels, lock, local>>
        /\ \E place \in {"guarding", "queueing", "idle"} : Goto(t, place)
        /\ scope' \in {scope, t, NoTask}
    BY <1>1 DEF Garden, TakeScope, Score
  <2>2. PICK place \in {"guarding", "queueing", "idle"} : Goto(t, place)
    BY <2>1
  <2>3. pc' \in [Tasks -> Places] /\ SectionIsLocked'
    BY <1>0, <2>1, <2>2, Moving DEF Places, Critical
  <2>4. \A r \in Recalls :
          pc'[r] \in {"writing", "measuring"} => local'[r].file \in Inodes
    BY <1>0, <2>1, <2>2 DEF Safe, TypeOK, Goto
  <2> QED
    BY <2>1, <2>3, <2>4, SafeTask DEF Safe, TypeOK
<1>2. CASE LockUnderScope(t)
  <2>1. /\ UNCHANGED <<today, disk, detached, cancels, scope, local>>
        /\ Goto(t, "scanning") /\ lock[ProcOf[t]] = NoTask
        /\ lock' = [lock EXCEPT ![ProcOf[t]] = t]
    BY <1>2 DEF LockUnderScope
  <2>2. /\ pc' \in [Tasks -> Places] /\ SectionIsLocked'
        /\ lock' \in [Processes -> Tasks \cup {NoTask}]
    BY <1>0, <2>1, Locking DEF Places
  <2>3. \A r \in Recalls :
          pc'[r] \in {"writing", "measuring"} => local'[r].file \in Inodes
    BY <1>0, <2>1 DEF Safe, TypeOK, Goto
  <2> QED
    BY <2>1, <2>2, <2>3, SafeTask DEF Safe, TypeOK
<1>3. CASE Scan(t)
  <2>1. /\ UNCHANGED <<today, disk, detached, cancels, scope>>
        /\ Return(t, "scoring")
    BY <1>3 DEF Scan
  <2>2. /\ pc' = [pc EXCEPT ![t] = "scoring"] /\ pc' \in [Tasks -> Places]
        /\ SectionIsLocked' /\ lock' \in [Processes -> Tasks \cup {NoTask}]
        /\ local' = [local EXCEPT ![t] = Blank] /\ local' \in [Tasks -> Locals]
    BY <1>0, <2>1, Returning DEF Places, Critical
  <2>3. \A r \in Recalls :
          pc'[r] \in {"writing", "measuring"} => local'[r].file \in Inodes
    BY <1>0, <2>2 DEF Safe, TypeOK
  <2> QED
    BY <2>1, <2>2, <2>3, SafeTask DEF Safe, TypeOK
<1> QED
  BY <1>1, <1>2, <1>3 DEF Gardening

LEMMA CrashSafe == ASSUME Safe, NEW p \in Processes, Crash(p) PROVE Safe'
<1> DEFINE own == {t \in Tasks : ProcOf[t] = p}
<1>1. /\ pc' = [t \in Tasks |-> IF t \in own THEN "idle" ELSE pc[t]]
      /\ lock' = [lock EXCEPT ![p] = NoTask]
      /\ scope' = IF scope \in own THEN NoTask ELSE scope
      /\ detached' = {d \in detached : d.task \notin own}
      /\ local' = [t \in Tasks |-> IF t \in own THEN Blank ELSE local[t]]
      /\ UNCHANGED <<today, disk, cancels>>
  BY DEF Crash
<1>2. Blank \in Locals
  BY AccessLogAssumption DEF Blank, Locals
<1>3. /\ pc' \in [Tasks -> Places] /\ local' \in [Tasks -> Locals]
      /\ lock' \in [Processes -> Tasks \cup {NoTask}]
  BY <1>1, <1>2 DEF Safe, TypeOK, Places
<1>4. \A r \in Recalls :
        pc'[r] \in {"writing", "measuring"} => local'[r].file \in Inodes
  BY <1>1 DEF Safe, TypeOK, Tasks
<1>5. SectionIsLocked'
  <2> SUFFICES ASSUME NEW s \in Tasks, pc'[s] \in Critical
               PROVE  lock'[ProcOf[s]] = s
    BY DEF SectionIsLocked, Holds
  <2>1. ProcOf[s] # p /\ pc[s] \in Critical
    BY <1>1 DEF Critical
  <2> QED
    BY <1>1, <2>1 DEF Safe, TypeOK, SectionIsLocked, Holds
<1>6. /\ Files' = Files /\ Numbers' = Numbers /\ Len(accesses) <= Len(accesses')
  BY <1>1 DEF Files, Numbers, Safe, TypeOK, disk
<1>7. \A d \in detached' :
        /\ d \in detached \/ d \in Operations
        /\ d.op = "append" => d.file \in Inodes
  BY <1>1 DEF Safe, TypeOK
<1>8. scope' \in Gardeners \cup {NoTask}
  BY <1>1 DEF Safe, TypeOK
<1> HIDE DEF own
<1> QED
  BY <1>1, <1>3, <1>4, <1>5, <1>6, <1>7, <1>8, SafeAgain DEF Safe, TypeOK, disk

LEMMA TickSafe == ASSUME Safe, Tick PROVE Safe'
<1>1. today' \in 0..MaxDay
  BY AccessLogAssumption DEF Tick, Safe, TypeOK
<1>2. UNCHANGED <<disk, detached, cancels, lock, scope, pc, local>>
  BY DEF Tick
<1>3. /\ Files' = Files /\ Numbers' = Numbers /\ Len(accesses) <= Len(accesses')
      /\ SectionIsLocked'
  BY <1>2 DEF Files, Numbers, Safe, TypeOK, disk, SectionIsLocked, Holds
<1> QED
  BY <1>1, <1>2, <1>3, SafeAgain DEF Safe, TypeOK, disk

LEMMA NextSafe == ASSUME Safe, [Next]_vars PROVE Safe'
<1>1. CASE UNCHANGED vars
  BY <1>1 DEF vars, Safe, TypeOK, SectionIsLocked, Holds, Files, Locals,
              Operations, Numbers
<1>2. ASSUME NEW t \in Recalls,
             \/ Recall(t) \/ Lock(t) \/ Access(t)
             \/ TornWrite(t) \/ Fail(t) \/ Cancel(t)
      PROVE  Safe'
  BY <1>2, RecallSafe, LockSafe, OpenSafe, WriteSafe, MeasureSafe, ReadSafe,
     ReplaceSafe, TornWriteSafe, FailSafe, CancelSafe DEF Access
<1> QED
  BY <1>1, <1>2, DetachedSafe, GardenerSafe, CrashSafe, TickSafe DEF Next

\* Types hold, and the users of the log in one process exclude each other,
\* whoever fails, is dropped or crashes.
THEOREM LogSafety == Spec => []TypeOK /\ []SectionIsLocked
<1>1. Init => Safe
  BY InitSafe
<1>2. Safe /\ [Next]_vars => Safe'
  BY NextSafe
<1>3. Safe => TypeOK /\ SectionIsLocked
  BY DEF Safe
<1> QED
  BY <1>1, <1>2, <1>3, PTL DEF Spec

\* The variables of the log keep their types: whatever line is in a file, or on
\* its way to one, is an access that was made.
THEOREM LogTyped == Spec => []TypeOK
  BY LogSafety, PTL

-----------------------------------------------------------------------------
(* One process, no dropped recalls.                                        *)

\* The numbers the inequalities are about.
LEMMA Days ==
  ASSUME TypeOK
  PROVE  /\ Len(accesses) \in Nat /\ Retained \in Nat /\ Window \in Nat
         /\ today \in Int
         /\ \A a \in Numbers : a \in Nat /\ accesses[a] \in Int
<1>1. /\ accesses \in Seq(0..MaxDay) /\ today \in 0..MaxDay
      /\ MaxDay \in Nat /\ Retained \in Nat /\ Window \in Nat
  BY AccessLogAssumption DEF TypeOK
<1>2. Len(accesses) \in Nat /\ \A a \in 1..Len(accesses) : accesses[a] \in 0..MaxDay
  BY <1>1, ElementOfSeq
<1> QED
  BY <1>1, <1>2 DEF Numbers

\* A compaction keeps every access of the window that is among the newest
\* Retained ones: fewer than Retained entries can be newer than it.
LEMMA CompactedKeeps ==
  ASSUME TypeOK, NEW kept \in SUBSET Numbers, NEW a \in kept,
         InWindow(a, today), a > Len(accesses) - Retained
  PROVE  a \in Compacted(kept, today)
<1> DEFINE fresh == {e \in kept : InWindow(e, today)}
           newer == {d \in fresh : d > a}
<1>1. Len(accesses) \in Nat /\ a \in 1..Len(accesses) /\ Retained \in Nat
  BY AccessLogAssumption DEF TypeOK, Numbers
<1>2. newer \subseteq a + 1 .. Len(accesses)
  <2> SUFFICES ASSUME NEW d \in newer PROVE d \in a + 1 .. Len(accesses)
    OBVIOUS
  <2>1. d \in 1..Len(accesses) /\ d > a
    BY DEF Numbers
  <2> QED
    BY <1>1, <2>1
<1>3. /\ IsFiniteSet(a + 1 .. Len(accesses))
      /\ Cardinality(a + 1 .. Len(accesses)) = Len(accesses) - a
  BY <1>1, FS_Interval
<1>4. Cardinality(newer) <= Len(accesses) - a /\ IsFiniteSet(newer)
  <2> HIDE DEF newer
  <2> QED
    BY <1>2, <1>3, FS_Subset
<1>5. Cardinality(newer) \in Nat
  <2> HIDE DEF newer
  <2> QED
    BY <1>4, FS_CardinalityType
<1>6. Cardinality(newer) < Retained
  BY <1>1, <1>4, <1>5
<1> QED
  BY <1>6 DEF Compacted

\* Every task is in the same process, and callers wait for their recalls.
Alone == (\A s, t \in Tasks : ProcOf[s] = ProcOf[t]) /\ ~Cancelling

\* An entry that compaction may drop, now and ever after.
Expendable(a) ==
    ~InWindow(a, today) \/ a <= Len(accesses) - Retained

\* What one writer at a time preserves: it has the path's own file open, and a
\* compaction about to replace the log drops only what is expendable.
KeptInv ==
    /\ Safe
    /\ detached = {}
    /\ RecentAccessesKept
    /\ \A t \in Recalls :
         /\ pc[t] \in {"writing", "measuring"} => local[t].file = path
         /\ pc[t] = "replacing" =>
              \A a \in files[path].kept : a \in local[t].kept \/ Expendable(a)

\* Nobody else is in the critical section.
LEMMA OnlyOne ==
  ASSUME Alone, Safe, NEW s \in Tasks, NEW t \in Tasks,
         pc[s] \in Critical, pc[t] \in Critical
  PROVE  s = t
BY DEF Alone, Safe, SectionIsLocked, Holds

\* What is expendable stays so.
LEMMA ExpendableStays ==
  ASSUME Safe, NEW a \in Numbers, Expendable(a), Safe',
         today <= today', Len(accesses) <= Len(accesses'),
         accesses'[a] = accesses[a]
  PROVE  Expendable(a)'
<1>1. /\ Len(accesses) \in Nat /\ Len(accesses') \in Nat /\ Retained \in Nat
      /\ today \in Int /\ today' \in Int /\ Window \in Nat
      /\ a \in Nat /\ accesses[a] \in Int
  <2>1. today' \in Int /\ Len(accesses') \in Nat
    BY AccessLogAssumption DEF Safe, TypeOK
  <2> QED
    BY <2>1, Days DEF Safe
<1> QED
  BY <1>1 DEF Expendable, InWindow

\* Steps that leave the log alone, and bring nobody to write or replace it.
LEMMA KeptQuiet ==
  ASSUME KeptInv, Safe', UNCHANGED disk, today <= today', detached' = {},
         \A s \in Recalls :
            pc'[s] \in {"writing", "measuring", "replacing"} =>
               pc[s] = pc'[s] /\ local[s] = local'[s]
  PROVE  KeptInv'
<1>1. /\ accesses' = accesses /\ files' = files /\ path' = path
      /\ swallowed' = swallowed
  BY DEF disk
<1>2. /\ Len(accesses) \in Nat /\ Retained \in Nat /\ Window \in Nat
      /\ today \in Int /\ today' \in Int
      /\ \A a \in Numbers : accesses[a] \in Int
  <2>1. today' \in Int
    BY AccessLogAssumption DEF Safe, TypeOK
  <2> QED
    BY <2>1, Days DEF KeptInv, Safe
<1>3. \A a \in Numbers : InWindow(a, today)' => InWindow(a, today)
  BY <1>1, <1>2 DEF InWindow
<1>4. RecentAccessesKept'
  BY <1>1, <1>3 DEF KeptInv, RecentAccessesKept, Numbers
<1>5. files[path].kept \subseteq Numbers
  BY DEF KeptInv, Safe, TypeOK, Files
<1>6. \A a \in files[path].kept : Expendable(a) => Expendable(a)'
  BY <1>1, <1>2, <1>5, ExpendableStays DEF KeptInv
<1>7. \A s \in Recalls :
        /\ pc'[s] \in {"writing", "measuring"} => local'[s].file = path'
        /\ pc'[s] = "replacing" =>
             \A a \in files'[path'].kept :
                a \in local'[s].kept \/ Expendable(a)'
  BY <1>1, <1>6 DEF KeptInv
<1> QED
  BY <1>4, <1>7 DEF KeptInv

\* An append adds its accesses to the log, and forgets none.
LEMMA KeptAppend ==
  ASSUME Alone, KeptInv, Safe', NEW t \in Recalls, pc[t] = "writing",
         Grown(local[t].file), UNCHANGED <<today, detached>>,
         pc'[t] = "measuring" \/ pc'[t] = "idle",
         pc'[t] = "measuring" => local'[t] = local[t],
         \A s \in Recalls \ {t} : pc'[s] = pc[s] /\ local'[s] = local[s]
  PROVE  KeptInv'
<1>0. \A s \in Recalls : s \in Tasks
  BY DEF Tasks
<1>1. local[t].file = path /\ path' = path
  BY DEF KeptInv, Grown
<1>2. \A s \in Recalls \ {t} :
        pc'[s] \notin {"writing", "measuring", "replacing"}
  BY <1>0, OnlyOne DEF KeptInv, Critical
<1>3. /\ Len(accesses) \in Nat /\ Len(accesses') \in Nat /\ Retained \in Nat
      /\ Len(accesses) <= Len(accesses')
      /\ Numbers = 1..Len(accesses) /\ Numbers' = 1..Len(accesses')
  BY AccessLogAssumption DEF KeptInv, Safe, TypeOK, Grown, Numbers
<1>4. RecentAccessesKept'
  <2> SUFFICES ASSUME NEW a \in Numbers', InWindow(a, today)',
                      a > Len(accesses') - Retained
               PROVE  a \in files'[path'].kept \cup swallowed'
    BY DEF RecentAccessesKept
  <2>1. CASE a \in Numbers
    <3>1. InWindow(a, today)
      BY <2>1 DEF Grown, InWindow
    <3>2. a > Len(accesses) - Retained
      BY <1>3
    <3>3. a \in files[path].kept \cup swallowed
      BY <2>1, <3>1, <3>2 DEF KeptInv, RecentAccessesKept
    <3> QED
      BY <1>1, <3>3 DEF Grown
  <2>2. CASE a \notin Numbers
    BY <1>1, <2>2 DEF Grown
  <2> QED
    BY <2>1, <2>2
<1>5. \A s \in Recalls :
        /\ pc'[s] \in {"writing", "measuring"} => local'[s].file = path'
        /\ pc'[s] = "replacing" =>
             \A a \in files'[path'].kept :
                a \in local'[s].kept \/ Expendable(a)'
  BY <1>1, <1>2 DEF KeptInv
<1> QED
  BY <1>4, <1>5 DEF KeptInv

LEMMA KeptOpen ==
  ASSUME Alone, KeptInv, Safe', NEW t \in Recalls, Open(t) PROVE KeptInv'
<1>0. t \in Tasks /\ \A s \in Recalls : s \in Tasks
  BY DEF Tasks
<1>1. /\ UNCHANGED <<today, disk, detached>> /\ pc[t] = "opening"
      /\ pc' = [pc EXCEPT ![t] = "writing"]
      /\ local' = [local EXCEPT ![t].file = path]
  BY DEF Open, Goto
<1>2. /\ pc \in [Tasks -> Places] /\ local \in [Tasks -> Locals]
  BY DEF KeptInv, Safe, TypeOK
<1>3. \A s \in Recalls \ {t} :
        pc'[s] \notin {"writing", "measuring", "replacing"}
  BY <1>0, <1>1, <1>2, OnlyOne DEF KeptInv, Critical
<1>4. local'[t].file = path /\ pc'[t] = "writing"
  BY <1>0, <1>1, <1>2 DEF Locals
<1>5. RecentAccessesKept' /\ path' = path /\ detached' = {}
  BY <1>1 DEF KeptInv, RecentAccessesKept, disk, Numbers, InWindow
<1> QED
  BY <1>3, <1>4, <1>5 DEF KeptInv

LEMMA KeptRead ==
  ASSUME Alone, KeptInv, Safe', NEW t \in Recalls, Read(t) PROVE KeptInv'
<1>0. t \in Tasks /\ \A s \in Recalls : s \in Tasks
  BY DEF Tasks
<1> DEFINE kept == Compacted(files[path].kept, today)
<1>1. /\ UNCHANGED <<today, disk, detached>> /\ pc[t] = "reading"
      /\ pc' = [pc EXCEPT ![t] = "replacing"]
      /\ local' = [local EXCEPT ![t].kept = kept]
  BY DEF Read, Goto
<1>2. /\ pc \in [Tasks -> Places] /\ local \in [Tasks -> Locals]
  BY DEF KeptInv, Safe, TypeOK
<1>3. \A s \in Recalls \ {t} :
        pc'[s] \notin {"writing", "measuring", "replacing"}
  BY <1>0, <1>1, <1>2, OnlyOne DEF KeptInv, Critical
<1>4. files[path].kept \in SUBSET Numbers
  BY DEF KeptInv, Safe, TypeOK, Files
<1>5. Len(accesses) \in Nat /\ Retained \in Nat
      /\ \A a \in files[path].kept : a \in Int
  BY <1>4, AccessLogAssumption DEF KeptInv, Safe, TypeOK, Numbers
<1>6. \A a \in files[path].kept : a \in kept \/ Expendable(a)
  <2> SUFFICES ASSUME NEW a \in files[path].kept, ~Expendable(a)
               PROVE  a \in kept
    OBVIOUS
  <2>1. InWindow(a, today) /\ a > Len(accesses) - Retained
    BY <1>5 DEF Expendable
  <2> QED
    BY <1>4, <2>1, CompactedKeeps DEF KeptInv, Safe
<1> HIDE DEF kept
<1>7. local'[t].kept = kept /\ pc'[t] = "replacing"
  BY <1>0, <1>1, <1>2 DEF Locals
<1>8. /\ RecentAccessesKept' /\ path' = path /\ files' = files
      /\ detached' = {} /\ accesses' = accesses /\ today' = today
  BY <1>1 DEF KeptInv, RecentAccessesKept, disk, Numbers, InWindow
<1>9. \A a \in files'[path'].kept : a \in local'[t].kept \/ Expendable(a)'
  BY <1>6, <1>7, <1>8 DEF Expendable, InWindow
<1> QED
  BY <1>3, <1>7, <1>8, <1>9 DEF KeptInv

LEMMA KeptReplace ==
  ASSUME Alone, KeptInv, Safe', NEW t \in Recalls, Replace(t) PROVE KeptInv'
<1>0. t \in Tasks /\ \A s \in Recalls : s \in Tasks
  BY DEF Tasks
<1>1. /\ UNCHANGED <<today, detached>> /\ pc[t] = "replacing"
      /\ pc' = [pc EXCEPT ![t] = "recorded"]
      /\ ReplaceFile(local[t].kept)
  BY DEF Replace, Return, Goto
<1>2. /\ pc \in [Tasks -> Places] /\ local[t].kept \in SUBSET Numbers
  BY <1>0 DEF KeptInv, Safe, TypeOK, Locals
<1>3. /\ files'[path'].kept = local[t].kept
      /\ UNCHANGED <<accesses, swallowed>>
  BY <1>1, <1>2, ReplaceTyped DEF KeptInv, Safe
<1>4. \A s \in Recalls :
        pc'[s] \notin {"writing", "measuring", "replacing"}
  BY <1>0, <1>1, <1>2, OnlyOne DEF KeptInv, Critical
<1>5. RecentAccessesKept'
  <2> SUFFICES ASSUME NEW a \in Numbers, InWindow(a, today),
                      a > Len(accesses) - Retained
               PROVE  a \in local[t].kept \cup swallowed
    BY <1>1, <1>3 DEF RecentAccessesKept, Numbers, InWindow
  <2>1. a \in files[path].kept \cup swallowed
    BY DEF KeptInv, RecentAccessesKept
  <2>2. Len(accesses) \in Nat /\ Retained \in Nat /\ a \in Nat
    BY AccessLogAssumption DEF Numbers, KeptInv, Safe, TypeOK
  <2>3. ~(a <= Len(accesses) - Retained)
    BY <2>2
  <2>4. ~Expendable(a)
    BY <2>3 DEF Expendable
  <2> QED
    BY <1>1, <2>1, <2>4 DEF KeptInv
<1> QED
  BY <1>1, <1>4, <1>5 DEF KeptInv

LEMMA KeptMeasure ==
  ASSUME KeptInv, Safe', NEW t \in Recalls, Measure(t) PROVE KeptInv'
<1>1. /\ UNCHANGED <<today, disk, detached>>
      /\ \E place \in {"reading", "recorded"} : pc' = [pc EXCEPT ![t] = place]
      /\ \E blank : local' = [local EXCEPT ![t] = blank]
  BY DEF Measure, Return, Goto
<1>2. \A s \in Recalls :
        pc'[s] \in {"writing", "measuring", "replacing"} =>
           pc[s] = pc'[s] /\ local[s] = local'[s]
  BY <1>1 DEF KeptInv, Safe, TypeOK, Tasks
<1> QED
  BY <1>1, <1>2, KeptQuiet DEF KeptInv, Safe, TypeOK

LEMMA KeptNext == ASSUME Alone, KeptInv, [Next]_vars PROVE KeptInv'
<1>0. Safe'
  BY NextSafe DEF KeptInv
<1> USE <1>0
<1>t. /\ \A s \in Recalls : s \in Tasks
      /\ \A s \in Gardeners : s \in Tasks /\ s \notin Recalls
      /\ pc \in [Tasks -> Places] /\ local \in [Tasks -> Locals]
      /\ today \in Nat /\ detached = {}
  BY AccessLogAssumption DEF Tasks, KeptInv, Safe, TypeOK
<1> DEFINE Quiet ==
      /\ UNCHANGED disk
      /\ today <= today'
      /\ detached' = {}
      /\ \A s \in Recalls :
           pc'[s] \in {"writing", "measuring", "replacing"} =>
              pc[s] = pc'[s] /\ local[s] = local'[s]
<1>q. Quiet => KeptInv'
  BY KeptQuiet
<1>1. CASE UNCHANGED vars
  <2>1. Quiet
    BY <1>1, <1>t DEF vars, disk
  <2> QED
    BY <2>1, <1>q
<1>2. ASSUME NEW t \in Recalls, Recall(t) \/ Lock(t) PROVE KeptInv'
  <2>1. Quiet
    BY <1>2, <1>t DEF Recall, Lock, Goto
  <2> QED
    BY <2>1, <1>q
<1>3. ASSUME NEW t \in Recalls, Fail(t) PROVE KeptInv'
  <2>1. Quiet
    BY <1>3, <1>t DEF Fail, Return, Goto
  <2> QED
    BY <2>1, <1>q
<1>4. ASSUME NEW t \in Recalls, Cancel(t) PROVE KeptInv'
  BY <1>4 DEF Cancel, Alone
<1>5. ASSUME NEW t \in Recalls, Write(t) PROVE KeptInv'
  <2>1. /\ pc[t] = "writing" /\ pc'[t] = "measuring"
        /\ UNCHANGED <<today, detached, local>>
        /\ \A s \in Recalls \ {t} : pc'[s] = pc[s]
        /\ AppendLines(local[t].file, local[t].page, local[t].day)
    BY <1>5, <1>t DEF Write, Goto
  <2>2. Grown(local[t].file)
    BY <2>1, Writing, AppendGrows DEF KeptInv, Safe
  <2> QED
    BY <2>1, <2>2, KeptAppend
<1>6. ASSUME NEW t \in Recalls, TornWrite(t) PROVE KeptInv'
  <2>1. /\ pc[t] = "writing" /\ pc'[t] = "idle"
        /\ UNCHANGED <<today, detached>>
        /\ \A s \in Recalls \ {t} : pc'[s] = pc[s] /\ local'[s] = local[s]
        /\ AppendTorn(local[t].file, local[t].page, local[t].day)
    BY <1>6, <1>t DEF TornWrite, Return, Goto
  <2>2. Grown(local[t].file)
    BY <2>1, Writing, AppendGrows DEF KeptInv, Safe
  <2> QED
    BY <2>1, <2>2, KeptAppend
<1>7. ASSUME NEW t \in Recalls, Access(t) PROVE KeptInv'
  BY <1>7, <1>5, KeptOpen, KeptMeasure, KeptRead, KeptReplace DEF Access
<1>8. ASSUME NEW d \in detached, Detached(d) PROVE KeptInv'
  BY <1>8, <1>t
<1>9. ASSUME NEW t \in Gardeners,
             Garden(t) \/ TakeScope(t) \/ LockUnderScope(t) \/ Gardening(t)
      PROVE  KeptInv'
  <2>1. Quiet
    BY <1>9, <1>t DEF Garden, TakeScope, LockUnderScope, Gardening, Scan,
                      Score, Return, Goto
  <2> QED
    BY <2>1, <1>q
<1>10. ASSUME NEW p \in Processes, Crash(p) PROVE KeptInv'
  <2>1. Quiet
    BY <1>10, <1>t DEF Crash
  <2> QED
    BY <2>1, <1>q
<1>11. CASE Tick
  <2>1. Quiet
    BY <1>11, <1>t DEF Tick
  <2> QED
    BY <2>1, <1>q
<1> QED
  BY <1>1, <1>2, <1>3, <1>4, <1>6, <1>7, <1>8, <1>9, <1>10, <1>11 DEF Next

LEMMA InitKept == Init => KeptInv
<1> SUFFICES ASSUME Init PROVE KeptInv
  OBVIOUS
<1>1. Safe
  BY InitSafe
<1>2. accesses = << >> /\ detached = {} /\ pc = [t \in Tasks |-> "idle"]
  BY DEF Init
<1>3. Numbers = {}
  BY <1>2 DEF Numbers
<1> QED
  BY <1>1, <1>2, <1>3 DEF KeptInv, RecentAccessesKept, Tasks

\* In one process whose callers wait for their recalls, no compaction, failed
\* write or crash loses an access of the window that is among the newest
\* Retained ones, but for what a torn line swallows.
THEOREM AccessesKept == ASSUME Alone PROVE Spec => []RecentAccessesKept
<1>1. Init => KeptInv
  BY InitKept
<1>2. KeptInv /\ [Next]_vars => KeptInv'
  BY KeptNext
<1>3. KeptInv => RecentAccessesKept
  BY DEF KeptInv
<1> QED
  BY <1>1, <1>2, <1>3, PTL DEF Spec
-----------------------------------------------------------------------------
(* Torn lines, in any number of processes.                                 *)

Torn == {n \in Inodes : files[n].torn}

\* The sets that are counted are finite.
LEMMA TornFinite ==
  ASSUME TypeOK
  PROVE  /\ IsFiniteSet(swallowed) /\ Cardinality(swallowed) \in Nat
         /\ IsFiniteSet(Torn) /\ Cardinality(Torn) \in Nat
         /\ tears \in Nat
<1>1. Len(accesses) \in Nat /\ tears \in Nat
  BY AccessLogAssumption, Days DEF TypeOK
<1>2. IsFiniteSet(Numbers) /\ swallowed \in SUBSET Numbers
  BY <1>1, FS_Interval DEF Numbers, TypeOK
<1>3. IsFiniteSet(Inodes) /\ Torn \in SUBSET Inodes
  BY AccessLogAssumption DEF Torn
<1>4. IsFiniteSet(swallowed) /\ IsFiniteSet(Torn)
  BY <1>2, <1>3, FS_Subset
<1> QED
  BY <1>1, <1>4, FS_CardinalityType

\* An append swallows an access only by joining it to a torn line.
LEMMA LinesCost ==
  ASSUME TypeOK, NEW f \in Inodes, NEW n \in Nat, NEW day,
         NEW torn \in BOOLEAN, Lines(f, n, day, torn)
  PROVE  /\ f \in Torn /\ n > 0 =>
              swallowed' = swallowed \cup {Len(accesses) + 1}
         /\ f \notin Torn \/ n = 0 => swallowed' = swallowed
         /\ Torn' = IF torn THEN Torn \cup {f} ELSE Torn \ {f}
<1> DEFINE joined == IF files[f].torn /\ n > 0 THEN {Len(accesses) + 1} ELSE {}
           new == Len(accesses) + 1 .. Len(accesses) + n
<1>1. swallowed' = swallowed \cup joined
  BY DEF Lines
<1>2. PICK junk :
        files' = [files EXCEPT ![f] =
          [kept |-> files[f].kept \cup (new \ joined), junk |-> junk,
           torn |-> torn]]
  BY DEF Lines
<1>3. files \in [Inodes -> Files]
  BY DEF TypeOK
<1>4. /\ files'[f].torn = torn
      /\ \A m \in Inodes \ {f} : files'[m] = files[m]
  <2> HIDE DEF joined, new
  <2> QED
    BY <1>2, <1>3
<1>5. \A m \in Inodes \ {f} : m \in Torn' <=> m \in Torn
  BY <1>4 DEF Torn
<1>6. f \in Torn' <=> torn
  BY <1>4 DEF Torn
<1>7. Torn \subseteq Inodes /\ Torn' \subseteq Inodes
  BY DEF Torn
<1>8. Torn' = IF torn THEN Torn \cup {f} ELSE Torn \ {f}
  <2>1. CASE torn
    <3>1. Torn' = Torn \cup {f}
      BY <1>5, <1>6, <1>7, <2>1
    <3> QED
      BY <2>1, <3>1
  <2>2. CASE ~torn
    <3>1. Torn' = Torn \ {f}
      BY <1>5, <1>6, <1>7, <2>2
    <3> QED
      BY <2>2, <3>1
  <2> QED
    BY <2>1, <2>2
<1>9. f \in Torn <=> files[f].torn
  BY DEF Torn
<1>10. f \in Torn /\ n > 0 => swallowed' = swallowed \cup {Len(accesses) + 1}
  BY <1>1, <1>9
<1>11. f \notin Torn \/ ~(n > 0) => swallowed' = swallowed
  BY <1>1, <1>9
<1>12. n = 0 => ~(n > 0)
  OBVIOUS
<1> QED
  BY <1>8, <1>10, <1>11, <1>12

\* One more torn line, or one less for the access it swallowed.
LEMMA AppendCost ==
  ASSUME TypeOK, TypeOK', TornLineCostsOne, NEW f \in Inodes,
         NEW n \in 1..MaxPage, NEW day,
         AppendLines(f, n, day) \/ AppendTorn(f, n, day)
  PROVE  TornLineCostsOne'
<1>0. n \in Nat /\ n > 0 /\ 0 \notin {n}
  BY AccessLogAssumption
<1> DEFINE S == Cardinality(swallowed)
           T == Cardinality(Torn)
<1>1. /\ S \in Nat /\ T \in Nat /\ tears \in Nat /\ S + T <= tears
      /\ IsFiniteSet(swallowed) /\ IsFiniteSet(Torn)
  BY TornFinite DEF TornLineCostsOne, Torn
<1>2. SUFFICES Cardinality(swallowed') + Cardinality(Torn') <= tears'
  BY DEF TornLineCostsOne, Torn
<1> DEFINE next == Len(accesses) + 1
<1> HIDE DEF next
<1>3. /\ Cardinality(swallowed \cup {next}) <= S + 1
      /\ Cardinality(swallowed \cup {next}) \in Nat
  <2>1. Cardinality(swallowed \cup {next}) = IF next \in swallowed THEN S ELSE S + 1
    BY <1>1, FS_AddElement
  <2> HIDE DEF S
  <2> QED
    BY <1>1, <2>1
<1>4. /\ Cardinality(Torn \cup {f}) = IF f \in Torn THEN T ELSE T + 1
      /\ Cardinality(Torn \ {f}) = IF f \in Torn THEN T - 1 ELSE T
  BY <1>1, FS_AddElement, FS_RemoveElement
<1> HIDE DEF S, T
<1>5. CASE AppendLines(f, n, day)
  <2>1. Lines(f, n, day, FALSE) /\ tears' = tears
    BY <1>5, Zenon DEF AppendLines
  <2>2. Torn' = Torn \ {f}
    BY <1>0, <2>1, LinesCost
  <2>3. /\ f \in Torn => swallowed' = swallowed \cup {next}
        /\ f \notin Torn => swallowed' = swallowed
    BY <1>0, <2>1, LinesCost DEF next
  <2>4. CASE f \in Torn
    <3>1. Cardinality(Torn') = T - 1
      BY <1>4, <2>2, <2>4
    <3>2. Cardinality(swallowed') <= S + 1 /\ Cardinality(swallowed') \in Nat
      BY <1>3, <2>3, <2>4
    <3> QED
      BY <1>1, <2>1, <3>1, <3>2
  <2>5. CASE f \notin Torn
    BY <1>1, <1>4, <2>1, <2>2, <2>3, <2>5 DEF S
  <2> QED
    BY <2>4, <2>5
<1>6. CASE AppendTorn(f, n, day)
  <2>1. PICK k \in 0 .. n - 1 : Lines(f, k, day, TRUE)
    BY <1>6 DEF AppendTorn
  <2>2. tears' = tears + 1 /\ k \in Nat
    BY <1>0, <1>6, <2>1 DEF AppendTorn
  <2>3. Torn' = Torn \cup {f}
    BY <2>1, <2>2, LinesCost
  <2>4. /\ f \in Torn /\ k > 0 => swallowed' = swallowed \cup {next}
        /\ f \notin Torn \/ k = 0 => swallowed' = swallowed
    BY <2>1, <2>2, LinesCost DEF next
  <2>5. CASE f \in Torn /\ k > 0
    <3>1. Cardinality(Torn') = T
      BY <1>4, <2>3, <2>5
    <3>2. Cardinality(swallowed') <= S + 1 /\ Cardinality(swallowed') \in Nat
      BY <1>3, <2>4, <2>5
    <3> QED
      BY <1>1, <2>2, <3>1, <3>2
  <2>6. CASE f \notin Torn \/ k = 0
    BY <1>1, <1>4, <2>2, <2>3, <2>4, <2>6 DEF S
  <2> QED
    BY <2>2, <2>5, <2>6
<1> QED
  BY <1>5, <1>6

\* A new file at the path holds no torn line.
LEMMA ReplaceCost ==
  ASSUME TypeOK, TypeOK', TornLineCostsOne, NEW kept, ReplaceFile(kept)
  PROVE  TornLineCostsOne'
<1>1. PICK new \in Inodes :
        /\ files' = [n \in Inodes |->
             IF n = new THEN [kept |-> kept, junk |-> 0, torn |-> FALSE]
             ELSE IF n \in Handles THEN files[n] ELSE Empty]
        /\ UNCHANGED <<accesses, swallowed, tears>>
  BY DEF ReplaceFile
<1>2. \A n \in Inodes : files'[n].torn => files[n].torn
  BY <1>1 DEF Empty
<1>3. Torn' \subseteq Torn
  BY <1>2 DEF Torn
<1>4. IsFiniteSet(Torn) /\ Cardinality(Torn) \in Nat
      /\ Cardinality(swallowed) \in Nat /\ tears \in Nat
  BY TornFinite
<1>5. Cardinality(Torn') <= Cardinality(Torn) /\ Cardinality(Torn') \in Nat
  BY <1>3, <1>4, TornFinite, FS_Subset, FS_CardinalityType
<1> QED
  BY <1>1, <1>4, <1>5 DEF TornLineCostsOne, Torn

\* Whoever writes, or has a write pending, writes at least a line.
PagesFull ==
    /\ \A t \in Recalls :
         pc[t] \in {"waiting", "opening", "writing"} => local[t].page # 0
    /\ \A d \in detached : d.op = "append" => d.page # 0

TornInv == Safe /\ PagesFull /\ TornLineCostsOne

LEMMA NextPages == ASSUME Safe, PagesFull, [Next]_vars PROVE PagesFull'
<1>t. /\ \A s \in Recalls : s \in Tasks
      /\ \A s \in Gardeners : s \in Tasks /\ s \notin Recalls
      /\ pc \in [Tasks -> Places] /\ local \in [Tasks -> Locals]
  BY AccessLogAssumption DEF Tasks, Safe, TypeOK
<1>1. CASE UNCHANGED vars
  BY <1>1 DEF vars, PagesFull
<1>2. ASSUME NEW t \in Recalls, Recall(t) PROVE PagesFull'
  <2>1. PICK n \in 1..MaxPage :
          local' = [local EXCEPT ![t] =
                     [page |-> n, day |-> 0, file |-> 0, kept |-> {}]]
    BY <1>2 DEF Recall
  <2>2. n # 0 /\ local'[t].page = n
    BY <1>t, <2>1
  <2>3. Goto(t, "waiting") /\ UNCHANGED detached
    BY <1>2 DEF Recall
  <2> QED
    BY <1>t, <2>1, <2>2, <2>3 DEF PagesFull, Goto
<1>3. ASSUME NEW t \in Recalls, Lock(t) \/ Open(t) PROVE PagesFull'
  <2>1. /\ UNCHANGED detached
        /\ pc[t] \in {"waiting", "opening"}
        /\ \E place \in {"opening", "writing"} : Goto(t, place)
        /\ \/ local' = [local EXCEPT ![t].day = today]
           \/ local' = [local EXCEPT ![t].file = path]
    BY <1>3 DEF Lock, Open
  <2>2. local'[t].page = local[t].page
    BY <1>t, <2>1 DEF Locals
  <2> QED
    BY <1>t, <2>1, <2>2 DEF PagesFull, Goto
<1>4. ASSUME NEW t \in Tasks, NEW place \in {"idle", "recorded", "scoring"},
             Return(t, place), detached' \subseteq detached
      PROVE  PagesFull'
  BY <1>t, <1>4 DEF PagesFull, Return, Goto
<1>5. ASSUME NEW t \in Recalls, Write(t) PROVE PagesFull'
  BY <1>t, <1>5 DEF Write, PagesFull, Goto
<1>6. ASSUME NEW t \in Recalls, Measure(t) PROVE PagesFull'
  <2>1. CASE Return(t, "recorded") /\ UNCHANGED detached
    BY <1>t, <1>4, <2>1
  <2>2. CASE Goto(t, "reading") /\ UNCHANGED detached
             /\ local' = [local EXCEPT ![t].file = 0]
    BY <1>t, <2>2 DEF PagesFull, Goto
  <2> QED
    BY <1>6, <2>1, <2>2 DEF Measure
<1>7. ASSUME NEW t \in Recalls, Read(t) PROVE PagesFull'
  <2>1. /\ UNCHANGED detached /\ Goto(t, "replacing")
        /\ \E kept : local' = [local EXCEPT ![t].kept = kept]
    BY <1>7 DEF Read
  <2> QED
    BY <1>t, <2>1 DEF PagesFull, Goto
<1>8. ASSUME NEW t \in Recalls, Replace(t) \/ TornWrite(t) \/ Fail(t)
      PROVE  PagesFull'
  <2>1. UNCHANGED detached /\ (Return(t, "idle") \/ Return(t, "recorded"))
    BY <1>8 DEF Replace, TornWrite, Fail
  <2> QED
    BY <1>t, <1>4, <2>1
<1>9. ASSUME NEW t \in Recalls, Cancel(t) PROVE PagesFull'
  <2>1. /\ Return(t, "idle")
        /\ \A d \in detached' : d \in detached \/ d \in Pending(t)
    BY <1>9 DEF Cancel
  <2>2. \A d \in Pending(t) : d.op = "append" => d.page # 0
    BY DEF Pending, PagesFull
  <2> QED
    BY <1>t, <2>1, <2>2 DEF PagesFull, Return, Goto
<1>10. ASSUME NEW d \in detached, Detached(d) PROVE PagesFull'
  BY <1>10 DEF Detached, PagesFull
<1>11. ASSUME NEW t \in Gardeners,
              Garden(t) \/ TakeScope(t) \/ LockUnderScope(t) \/ Gardening(t)
       PROVE  PagesFull'
  BY <1>t, <1>11 DEF Garden, TakeScope, LockUnderScope, Gardening, Scan,
                     Score, Return, Goto, PagesFull
<1>12. ASSUME NEW p \in Processes, Crash(p) PROVE PagesFull'
  BY <1>t, <1>12 DEF Crash, PagesFull
<1>13. CASE Tick
  BY <1>13 DEF Tick, PagesFull
<1> QED
  BY <1>1, <1>2, <1>3, <1>5, <1>6, <1>7, <1>8, <1>9, <1>10, <1>11, <1>12,
     <1>13 DEF Next, Access

LEMMA NextTorn == ASSUME TornInv, [Next]_vars PROVE TornInv'
<1>1. Safe' /\ PagesFull'
  BY NextSafe, NextPages DEF TornInv
<1>2. TypeOK /\ TypeOK' /\ TornLineCostsOne
  BY <1>1 DEF TornInv, Safe
<1>3. ASSUME UNCHANGED disk PROVE TornLineCostsOne'
  BY <1>2, <1>3 DEF disk, TornLineCostsOne
<1>4. ASSUME NEW t \in Recalls, Write(t) \/ TornWrite(t)
      PROVE  TornLineCostsOne'
  <2>1. /\ pc[t] = "writing"
        /\ \/ AppendLines(local[t].file, local[t].page, local[t].day)
           \/ AppendTorn(local[t].file, local[t].page, local[t].day)
    BY <1>4 DEF Write, TornWrite
  <2>2. /\ local[t].file \in Inodes /\ local[t].page \in 0..MaxPage
        /\ local[t].page # 0
    BY <2>1, Writing DEF TornInv, PagesFull
  <2>3. local[t].page \in 1..MaxPage
    BY <2>2, AccessLogAssumption
  <2> QED
    BY <1>2, <2>1, <2>2, <2>3, AppendCost
<1>5. ASSUME NEW t \in Recalls, Replace(t) PROVE TornLineCostsOne'
  BY <1>2, <1>5, ReplaceCost DEF Replace
<1>6. ASSUME NEW d \in detached, Detached(d) PROVE TornLineCostsOne'
  <2>1. /\ d.page \in 0..MaxPage
        /\ d.op = "append" => d.file \in Inodes /\ d.page # 0
    BY <1>2 DEF TypeOK, Operations, TornInv, PagesFull
  <2>2. d.op = "append" => d.page \in 1..MaxPage
    BY <2>1, AccessLogAssumption
  <2> QED
    BY <1>2, <1>3, <1>6, <2>1, <2>2, AppendCost, ReplaceCost DEF Detached, TornInv
<1>7. \/ UNCHANGED disk
      \/ \E t \in Recalls : Write(t) \/ TornWrite(t) \/ Replace(t)
      \/ \E d \in detached : Detached(d)
  BY DEF Next, vars, disk, Access, Gardening, Recall, Lock, Open, Measure, Read,
         Fail, Cancel, Garden, TakeScope, LockUnderScope, Scan, Score, Crash,
         Tick
<1> QED
  BY <1>1, <1>3, <1>4, <1>5, <1>6, <1>7 DEF TornInv

LEMMA InitTorn == Init => TornInv
<1> SUFFICES ASSUME Init PROVE TornInv
  OBVIOUS
<1>1. Safe
  BY InitSafe
<1>2. /\ swallowed = {} /\ detached = {} /\ tears = 0
      /\ files = [n \in Inodes |-> Empty] /\ pc = [t \in Tasks |-> "idle"]
  BY DEF Init
<1>3. {n \in Inodes : files[n].torn} = {}
  BY <1>2 DEF Empty
<1>4. TornLineCostsOne
  BY <1>2, <1>3, FS_EmptySet DEF TornLineCostsOne
<1>5. PagesFull
  BY <1>2 DEF PagesFull, Tasks
<1> QED
  BY <1>1, <1>4, <1>5 DEF TornInv

\* However many appends are cut in a line, by any number of processes and with
\* recalls dropped at any point, each costs later recalls at most one access.
THEOREM TornLinesCostOne == Spec => []TornLineCostsOne
<1>1. Init => TornInv
  BY InitTorn
<1>2. TornInv /\ [Next]_vars => TornInv'
  BY NextTorn
<1>3. TornInv => TornLineCostsOne
  BY DEF TornInv
<1> QED
  BY <1>1, <1>2, <1>3, PTL DEF Spec
-----------------------------------------------------------------------------
(* The bound of the log.                                                   *)

\* A set of numbers has a least element: of the intervals that reach from 0 to
\* a member of it, one contains no other.
LEMMA LeastMember ==
  ASSUME NEW S \in SUBSET Nat, S # {}
  PROVE  \E n \in S : \A m \in S : n <= m
<1> DEFINE R == StrictSubsetOrdering(Nat)
           T == {0..n : n \in S}
<1>1. IsWellFoundedOn(R, FiniteSubsetsOf(Nat))
  BY FS_StrictSubsetOrderingWellFounded
<1>2. T \subseteq FiniteSubsetsOf(Nat) /\ T # {}
  <2>1. ASSUME NEW n \in S PROVE 0..n \in FiniteSubsetsOf(Nat)
    <3>1. n \in Int /\ 0 \in Int /\ 0..n \in SUBSET Nat
      OBVIOUS
    <3>2. IsFiniteSet(0..n)
      BY <3>1, FS_Interval
    <3> QED
      BY <3>1, <3>2 DEF FiniteSubsetsOf
  <2> QED
    BY <2>1
<1> HIDE DEF R
<1>3. \E x \in T : \A y \in T : ~(<<y, x>> \in R)
  <2> HIDE DEF T
  <2> QED
    BY <1>1, <1>2, WFMin
<1>4. PICK n \in S : \A m \in S : ~(<<0..m, 0..n>> \in R)
  BY <1>3
<1>5. ASSUME NEW m \in S, m < n PROVE FALSE
  <2>1. 0..m \subseteq 0..n /\ n \in 0..n /\ n \notin 0..m
    BY <1>5
  <2>2. 0..m # 0..n
    BY <2>1
  <2>3. 0..m \in SUBSET Nat /\ 0..n \in SUBSET Nat
    OBVIOUS
  <2>4. <<0..m, 0..n>> \in R
    BY <2>1, <2>2, <2>3 DEF R, StrictSubsetOrdering
  <2> QED
    BY <2>4, <1>4
<1> QED
  BY <1>4, <1>5

\* The members that fewer than Retained others exceed are at most Retained.
LEMMA NewestFew ==
  ASSUME NEW fresh \in SUBSET Nat, IsFiniteSet(fresh)
  PROVE  LET newest ==
               {e \in fresh : Cardinality({d \in fresh : d > e}) < Retained}
         IN  IsFiniteSet(newest) /\ Cardinality(newest) <= Retained
<1> DEFINE Above(e) == {d \in fresh : d > e}
           newest == {e \in fresh : Cardinality(Above(e)) < Retained}
<1>1. IsFiniteSet(newest)
  <2>1. newest \in SUBSET fresh
    OBVIOUS
  <2> HIDE DEF newest
  <2> QED
    BY <2>1, FS_Subset
<1>2. Retained \in Nat
  BY AccessLogAssumption
<1>3. CASE newest = {}
  <2>1. Cardinality(newest) <= Retained
    <3> HIDE DEF newest
    <3> QED
      BY <1>2, <1>3, FS_EmptySet
  <2> QED
    BY <1>1, <2>1
<1>4. CASE newest # {}
  <2>1. newest \in SUBSET Nat
    OBVIOUS
  <2>2. PICK n \in newest : \A m \in newest : n <= m
    <3> HIDE DEF newest
    <3> QED
      BY <1>4, <2>1, LeastMember
  <2>3. n \in Nat /\ Cardinality(Above(n)) < Retained
    BY <2>1, <2>2
  <2>4. newest \ {n} \subseteq Above(n)
    BY <2>1, <2>2
  <2>5. IsFiniteSet(Above(n))
    <3>1. Above(n) \in SUBSET fresh
      OBVIOUS
    <3> HIDE DEF Above
    <3> QED
      BY <3>1, FS_Subset
  <2> HIDE DEF newest, Above
  <2>6. /\ Cardinality(newest \ {n}) = Cardinality(newest) - 1
        /\ Cardinality(newest) \in Nat
    BY <1>1, <2>2, FS_RemoveElement, FS_CardinalityType
  <2>7. /\ Cardinality(newest \ {n}) <= Cardinality(Above(n))
        /\ Cardinality(Above(n)) \in Nat
    BY <2>4, <2>5, FS_Subset, FS_CardinalityType
  <2>8. Cardinality(newest) <= Retained
    BY <1>2, <2>3, <2>6, <2>7
  <2> QED
    BY <1>1, <2>8 DEF newest, Above
<1> QED
  BY <1>3, <1>4

\* Compaction leaves at most Retained entries.
LEMMA CompactedFew ==
  ASSUME Safe, NEW kept \in SUBSET Numbers, NEW day
  PROVE  Cardinality(Compacted(kept, day)) <= Retained
<1> DEFINE fresh == {e \in kept : InWindow(e, day)}
<1>1. Len(accesses) \in Nat
  BY DEF Safe, TypeOK
<1>2. Numbers \in SUBSET Nat /\ IsFiniteSet(Numbers)
  <2>1. IsFiniteSet(1 .. Len(accesses))
    BY <1>1, FS_Interval
  <2> QED
    BY <1>1, <2>1 DEF Numbers
<1>3. fresh \in SUBSET Numbers
  OBVIOUS
<1> HIDE DEF fresh
<1>4. fresh \in SUBSET Nat /\ IsFiniteSet(fresh)
  BY <1>2, <1>3, FS_Subset
<1>5. Cardinality({e \in fresh : Cardinality({d \in fresh : d > e}) < Retained})
        <= Retained
  BY <1>4, NewestFew
<1> QED
  BY <1>5 DEF Compacted, fresh

\* What a compaction is about to put at the path is within the bound.
CompactedKept ==
    \A t \in Recalls :
        pc[t] = "replacing" => Cardinality(local[t].kept) <= Retained

LEMMA NextCompacted ==
  ASSUME Safe, CompactedKept, [Next]_vars
  PROVE  CompactedKept'
<1>t. /\ \A s \in Recalls : s \in Tasks
      /\ \A s \in Gardeners : s \in Tasks /\ s \notin Recalls
      /\ pc \in [Tasks -> Places] /\ local \in [Tasks -> Locals]
  BY AccessLogAssumption DEF Tasks, Safe, TypeOK
<1>1. ASSUME UNCHANGED <<pc, local>> PROVE CompactedKept'
  BY <1>1 DEF CompactedKept
<1>2. ASSUME NEW t \in Tasks, NEW place \in Places, Goto(t, place),
             place # "replacing" \/ t \notin Recalls,
             \A s \in Recalls \ {t} : local'[s] = local[s]
      PROVE  CompactedKept'
  BY <1>t, <1>2 DEF CompactedKept, Goto
<1>3. ASSUME NEW t \in Recalls, Recall(t) \/ Lock(t) \/ Open(t) \/ Write(t)
                                \/ Measure(t) \/ Replace(t) \/ TornWrite(t)
                                \/ Fail(t) \/ Cancel(t)
      PROVE  CompactedKept'
  <2>1. \E place \in Places \ {"replacing"} : Goto(t, place)
    BY <1>3 DEF Recall, Lock, Open, Write, Measure, Replace, TornWrite, Fail,
                Cancel, Return, Places
  <2>2. \A s \in Recalls \ {t} : local'[s] = local[s]
    BY <1>t, <1>3 DEF Recall, Lock, Open, Write, Measure, Replace, TornWrite,
                      Fail, Cancel, Return
  <2> QED
    BY <1>t, <1>2, <2>1, <2>2
<1>4. ASSUME NEW t \in Recalls, Read(t) PROVE CompactedKept'
  <2>1. /\ local' = [local EXCEPT ![t].kept = Compacted(files[path].kept, today)]
        /\ Goto(t, "replacing")
    BY <1>4 DEF Read
  <2>2. files[path].kept \in SUBSET Numbers
    BY DEF Safe, TypeOK, Files
  <2>3. Cardinality(Compacted(files[path].kept, today)) <= Retained
    BY <2>2, CompactedFew
  <2>4. /\ local'[t].kept = Compacted(files[path].kept, today)
        /\ \A s \in Recalls \ {t} : local'[s] = local[s]
    BY <1>t, <2>1 DEF Locals
  <2> QED
    BY <1>t, <2>1, <2>3, <2>4 DEF CompactedKept, Goto
<1>5. ASSUME NEW t \in Gardeners,
             Garden(t) \/ TakeScope(t) \/ LockUnderScope(t) \/ Gardening(t)
      PROVE  CompactedKept'
  BY <1>t, <1>5 DEF Garden, TakeScope, LockUnderScope, Gardening, Scan, Score,
                    Return, Goto, CompactedKept
<1>6. ASSUME NEW p \in Processes, Crash(p) PROVE CompactedKept'
  BY <1>t, <1>6 DEF Crash, CompactedKept
<1>7. ASSUME NEW d \in detached, Detached(d) PROVE CompactedKept'
  BY <1>1, <1>7 DEF Detached
<1>8. CASE Tick
  BY <1>1, <1>8 DEF Tick
<1>9. CASE UNCHANGED vars
  BY <1>1, <1>9 DEF vars
<1> QED
  BY <1>3, <1>4, <1>5, <1>6, <1>7, <1>8, <1>9 DEF Next, Access

BoundInv == KeptInv /\ CompactedKept

\* A recall is recorded after it measured the log, or after it compacted it.
LEMMA RecordedBounded ==
  ASSUME BoundInv, [Next]_vars, NEW t \in Recalls,
         pc[t] # "recorded", pc'[t] = "recorded"
  PROVE  \/ Size(files'[path']) <= Trigger
         \/ Size(files'[path']) <= Retained
<1>t. /\ \A s \in Recalls : s \in Tasks
      /\ \A s \in Gardeners : s \in Tasks /\ s \notin Recalls
      /\ pc \in [Tasks -> Places]
  BY AccessLogAssumption DEF Tasks, BoundInv, KeptInv, Safe, TypeOK
<1>1. Measure(t) \/ Replace(t)
  <2>1. ASSUME NEW s \in Recalls, Recall(s) \/ Lock(s) \/ Open(s) \/ Write(s)
                 \/ Read(s) \/ TornWrite(s) \/ Fail(s) \/ Cancel(s)
        PROVE  FALSE
    BY <1>t, <2>1 DEF Recall, Lock, Open, Write, Read, TornWrite, Fail, Cancel,
                      Return, Goto
  <2>2. ASSUME NEW s \in Recalls, Measure(s) \/ Replace(s) PROVE s = t
    BY <1>t, <2>2 DEF Measure, Replace, Return, Goto
  <2>3. ASSUME NEW s \in Gardeners,
               Garden(s) \/ TakeScope(s) \/ LockUnderScope(s) \/ Gardening(s)
        PROVE  FALSE
    BY <1>t, <2>3 DEF Garden, TakeScope, LockUnderScope, Gardening, Scan, Score,
                      Return, Goto
  <2>4. ASSUME NEW p \in Processes, Crash(p) PROVE FALSE
    BY <1>t, <2>4 DEF Crash
  <2>5. ~(UNCHANGED vars) /\ ~Tick /\ \A d \in detached : ~Detached(d)
    BY DEF vars, Tick, Detached
  <2> QED
    BY <2>1, <2>2, <2>3, <2>4, <2>5 DEF Next, Access
<1>2. CASE Measure(t)
  <2>1. pc[t] = "measuring" /\ local[t].file = path
    BY <1>2 DEF Measure, BoundInv, KeptInv
  <2>2. files' = files /\ path' = path
    BY <1>2 DEF Measure, disk
  <2>3. ~(Size(files[local[t].file]) > Trigger)
    BY <1>t, <1>2 DEF Measure, Goto
  <2>4. Size(files[path]) \in Int /\ Trigger \in Int
    <3>1. files[path].kept \in SUBSET Numbers /\ files[path].junk \in Nat
      BY DEF BoundInv, KeptInv, Safe, TypeOK, Files
    <3>2. Len(accesses) \in Nat
      BY DEF BoundInv, KeptInv, Safe, TypeOK
    <3>3. IsFiniteSet(1 .. Len(accesses))
      BY <3>2, FS_Interval
    <3>4. Cardinality(files[path].kept) \in Nat
      BY <3>1, <3>3, FS_Subset, FS_CardinalityType DEF Numbers
    <3> QED
      BY <3>1, <3>4, AccessLogAssumption DEF Size
  <2> QED
    BY <2>1, <2>2, <2>3, <2>4
<1>3. CASE Replace(t)
  <2>1. pc[t] = "replacing" /\ ReplaceFile(local[t].kept)
    BY <1>3 DEF Replace
  <2>2. PICK new \in Inodes :
          /\ path' = new
          /\ files' = [n \in Inodes |->
               IF n = new
               THEN [kept |-> local[t].kept, junk |-> 0, torn |-> FALSE]
               ELSE IF n \in Handles THEN files[n] ELSE Empty]
    BY <2>1 DEF ReplaceFile
  <2>3. /\ files'[path'].kept = local[t].kept
        /\ files'[path'].junk = 0
    BY <2>2
  <2>4. Cardinality(local[t].kept) <= Retained
    BY <2>1 DEF BoundInv, CompactedKept
  <2>5. Cardinality(local[t].kept) \in Int
    <3>1. local[t].kept \in SUBSET Numbers
      BY <1>t DEF BoundInv, KeptInv, Safe, TypeOK, Locals
    <3>2. Len(accesses) \in Nat
      BY DEF BoundInv, KeptInv, Safe, TypeOK
    <3>3. IsFiniteSet(1 .. Len(accesses))
      BY <3>2, FS_Interval
    <3> QED
      BY <3>1, <3>3, FS_Subset, FS_CardinalityType DEF Numbers
  <2> QED
    BY <2>3, <2>4, <2>5 DEF Size
<1> QED
  BY <1>1, <1>2, <1>3

\* In one process whose callers wait for their recalls, a recall that recorded
\* its accesses leaves a log that is below the trigger or holds no more than the
\* newest Retained entries, however long it was before.
THEOREM LogStaysBounded == ASSUME Alone PROVE Spec => LogBounded
<1>1. Init => BoundInv
  BY InitKept DEF BoundInv, CompactedKept, Init, Tasks
<1>2. BoundInv /\ [Next]_vars => BoundInv'
  BY KeptNext, NextCompacted DEF BoundInv, KeptInv
<1>3. BoundInv /\ [Next]_vars =>
        [\A t \in Recalls :
         pc[t] # "recorded" /\ pc'[t] = "recorded" =>
            \/ Size(files'[path']) <= Trigger
            \/ Size(files'[path']) <= Retained]_vars
  BY RecordedBounded
<1> QED
  BY <1>1, <1>2, <1>3, PTL DEF Spec, LogBounded
=============================================================================
