------------------------ MODULE BambooImport_proofs -------------------------
(***************************************************************************)
(* Proofs about BambooImport, for any number of imports, topics and        *)
(* Projects.  The argument: a topic that was not written since an import   *)
(* began is found by its scan, whichever directory it is in; and a topic   *)
(* that both scans found with the same content cannot have been written in *)
(* between, since what Bamboo writes is newer than all that was read.      *)
(***************************************************************************)
EXTENDS BambooImport, TLAPS

Second == {"again global", "again projects", "again"}

Publishing == {"remove", "rename"}

\* The places after the first scan.
Fixed == {"stage", "rebuild", "verify"} \cup Second \cup Publishing

\* What one import sees, apart from the destination.
Mine(i) == <<pc[i], todo[i], listed[i], got[i], first[i], staged[i],
             rebuilt[i], frozen[i], touched[i]>>

\* A destination that does not exist holds nothing.
DestShape == ~dest.exists => dest = NoDirectory

\* Nothing is newer than the last write.
SourceAged ==
    \A t \in Topics : source[t] # Absent => source[t].version <= writes

ReadAged(i) ==
    \A t \in Topics :
        /\ got[i][t] # Absent => got[i][t].version <= writes
        /\ first[i][t] # Absent => first[i][t].version <= writes

\* An import that does not run has read nothing.
Blank(i) == pc[i] \in {"start"} \cup Ended => got[i] = Nothing

\* What was read of a topic nobody wrote is what the source holds.
Faithful(i) ==
    \A t \in Topics \ touched[i] : got[i][t] # Absent => got[i][t] = source[t]

\* A topic nobody wrote has been read, or is still to be.
Covered(i) ==
    \A t \in Held(source) \ touched[i] :
        /\ pc[i] \in {"scan projects", "again projects", "scan", "again"}
           /\ ScopeOf[t] = Global
           => t \in listed[i] \/ got[i][t] = source[t]
        /\ pc[i] \in {"scan", "again"} /\ ScopeOf[t] # Global
           => \/ ScopeOf[t] \in todo[i]
              \/ t \in listed[i]
              \/ got[i][t] = source[t]

\* The first scan has all that nobody wrote since, and no id twice.
Kept(i) ==
    pc[i] \in Fixed =>
        /\ \A t \in Topics \ touched[i] : first[i][t] = source[t]
        /\ UniqueIds(first[i])

\* What is not what the source held when the first scan ended is newer than
\* what that scan found.
Later(i) ==
    pc[i] \in Fixed =>
        \A t \in Held(first[i]) :
            /\ \/ source[t] \in {Absent, frozen[i][t]}
               \/ source[t].version > first[i][t].version
            /\ \/ got[i][t] \in {Absent, frozen[i][t]}
               \/ got[i][t].version > first[i][t].version

\* Once the scans agree, they agree on what the source held in between.
Snapshot(i) ==
    pc[i] \in Publishing =>
        \A t \in Held(first[i]) : first[i][t] = frozen[i][t]

\* The staging directory is what the first scan found.
Staged(i) ==
    /\ pc[i] \in Second \cup Publishing => staged[i] = Render(first[i])
    /\ pc[i] \in {"verify"} \cup Second \cup Publishing
       => rebuilt[i] = UsedScopes(first[i])

Justified(i) == pc[i] = "changed" => touched[i] # {}

Local(i) ==
    /\ ReadAged(i)
    /\ Blank(i)
    /\ Faithful(i)
    /\ Covered(i)
    /\ Kept(i)
    /\ Later(i)
    /\ Snapshot(i)
    /\ Staged(i)
    /\ Justified(i)

IInv ==
    /\ TypeOK
    /\ DestShape
    /\ SourceAged
    /\ \A i \in Importers : Local(i)

-----------------------------------------------------------------------------
(* What a step of one import leaves to the others.                         *)

LEMMA Untouched ==
    ASSUME NEW j \in Importers, Local(j),
           UNCHANGED <<source, writes, Mine(j)>>
    PROVE  Local(j)'
<1>1. /\ pc'[j] = pc[j] /\ todo'[j] = todo[j] /\ listed'[j] = listed[j]
      /\ got'[j] = got[j] /\ first'[j] = first[j] /\ staged'[j] = staged[j]
      /\ rebuilt'[j] = rebuilt[j] /\ frozen'[j] = frozen[j]
      /\ touched'[j] = touched[j] /\ source' = source /\ writes' = writes
    BY DEF Mine
<1>2. ReadAged(j)' /\ Blank(j)' /\ Faithful(j)'
    BY <1>1 DEF Local, ReadAged, Blank, Faithful
<1>3. Covered(j)'
    BY <1>1 DEF Local, Covered, Held
<1>4. Kept(j)'
    BY <1>1 DEF Local, Kept, Held, UniqueIds
<1>5. Later(j)'
    BY <1>1 DEF Local, Later, Held
<1>6. Snapshot(j)' /\ Staged(j)' /\ Justified(j)'
    BY <1>1 DEF Local, Snapshot, Staged, Justified, Held, Render, UsedScopes
<1> QED
    BY <1>2, <1>3, <1>4, <1>5, <1>6 DEF Local

LEMMA Combine ==
    ASSUME IInv, NEW i \in Importers, TypeOK', DestShape', Local(i)',
           UNCHANGED <<source, writes>>,
           \A j \in Importers \ {i} : Mine(j)' = Mine(j)
    PROVE  IInv'
<1>1. \A j \in Importers \ {i} : Local(j)'
    BY Untouched DEF IInv
<1>2. SourceAged'
    BY DEF IInv, SourceAged
<1> QED
    BY <1>1, <1>2 DEF IInv

\* Versions are numbers.
LEMMA Versions ==
    ASSUME NEW map \in Contents, NEW t \in Topics, map[t] # Absent
    PROVE  map[t] \in Content /\ map[t].version \in Nat
<1>1. map[t] \in Content
    BY DEF Contents
<1> QED
    BY <1>1, ImportAssumption DEF Content

LEMMA InitIInv == Init => IInv
<1> SUFFICES ASSUME Init PROVE IInv
    OBVIOUS
<1> USE ImportAssumption
<1>1. Nothing \in Contents
    BY DEF Nothing, Contents
<1>2. source \in Contents
    BY DEF Init, Contents, Content
<1>3. TypeOK
  <2>1. dest \in Directory
    <3>1. NoDirectory \in Directory
        BY <1>1 DEF Directory, NoDirectory
    <3>2. EmptyDirectory \in Directory
        BY <3>1 DEF Directory, EmptyDirectory
    <3> QED
        BY <3>1, <3>2 DEF Init
  <2>2. /\ got \in [Importers -> Contents] /\ first \in [Importers -> Contents]
        /\ staged \in [Importers -> Contents]
        /\ frozen \in [Importers -> Contents]
      BY <1>1 DEF Init
  <2>3. pc \in [Importers -> Places]
      BY DEF Init, Places
  <2> QED
      BY <1>2, <2>1, <2>2, <2>3 DEF Init, TypeOK
<1>4. DestShape /\ SourceAged
    BY DEF Init, DestShape, SourceAged, NoDirectory, EmptyDirectory
<1>5. ASSUME NEW i \in Importers PROVE Local(i)
  <2>1. /\ pc[i] = "start" /\ got[i] = Nothing /\ first[i] = Nothing
      BY DEF Init
  <2>2. ReadAged(i) /\ Blank(i) /\ Faithful(i) /\ Covered(i) /\ Justified(i)
      BY <2>1 DEF ReadAged, Blank, Faithful, Covered, Justified, Nothing
  <2>3. Kept(i) /\ Later(i) /\ Snapshot(i) /\ Staged(i)
      BY <2>1 DEF Kept, Later, Snapshot, Staged, Fixed, Second, Publishing
  <2> QED
      BY <2>2, <2>3 DEF Local
<1> QED
    BY <1>3, <1>4, <1>5 DEF IInv

-----------------------------------------------------------------------------
(* The rest of the world.                                                  *)

LEMMA BambooIInv == ASSUME IInv, BambooWrites PROVE IInv'
<1> USE ImportAssumption DEF IInv
<1>1. PICK t \in Topics :
        /\ source' \in {[source EXCEPT ![t] = c] :
             c \in [version : {writes'}, form : Forms] \cup {Absent}}
        /\ touched' = [i \in Importers |->
                         IF pc[i] \in {"start"} \cup Ended THEN touched[i]
                         ELSE touched[i] \cup {t}]
    BY DEF BambooWrites
<1>2. PICK c \in [version : {writes'}, form : Forms] \cup {Absent} :
        source' = [source EXCEPT ![t] = c]
    BY <1>1
<1>3. /\ writes' = writes + 1 /\ writes' \in 0..MaxWrites /\ writes \in Nat
      /\ UNCHANGED <<dest, pc, wasEmpty, todo, listed, got, first, staged,
                     rebuilt, frozen>>
    BY DEF BambooWrites, TypeOK, scanVars, stageVars
<1>4. /\ source'[t] = c
      /\ c # Absent => c.version = writes + 1
      /\ c \in Content \cup {Absent}
      /\ \A u \in Topics \ {t} : source'[u] = source[u]
    BY <1>2, <1>3 DEF TypeOK, Contents, Content
<1>5. TypeOK'
  <2>1. source' \in Contents
      BY <1>2, <1>4 DEF TypeOK, Contents
  <2>2. touched' \in [Importers -> SUBSET Topics]
      BY <1>1 DEF TypeOK
  <2> QED
      BY <2>1, <2>2, <1>3 DEF TypeOK
<1>6. DestShape' /\ SourceAged'
  <2>1. \A u \in Topics : source[u] # Absent => source[u].version \in Nat
      BY Versions DEF TypeOK
  <2>2. \A u \in Topics \ {t} : source[u] # Absent => source[u].version <= writes
      BY DEF SourceAged
  <2>3. \A u \in Topics :
          source'[u] # Absent => source'[u].version <= writes + 1
      BY <1>3, <1>4, <2>1, <2>2
  <2> QED
      BY <1>3, <2>3 DEF DestShape, SourceAged
<1>7. ASSUME NEW i \in Importers PROVE Local(i)'
  <2> USE DEF Local
  <2>1. /\ touched[i] \subseteq touched'[i]
        /\ pc[i] \notin {"start"} \cup Ended => t \in touched'[i]
      BY <1>1 DEF TypeOK
  <2>2. ReadAged(i)'
    <3>1. \A u \in Topics :
            /\ got[i][u] # Absent => got[i][u].version \in Nat
            /\ first[i][u] # Absent => first[i][u].version \in Nat
        BY Versions DEF TypeOK
    <3> QED
        BY <1>3, <3>1 DEF ReadAged
  <2>3. Blank(i)' /\ Snapshot(i)' /\ Staged(i)' /\ Justified(i)'
      BY <1>3, <2>1 DEF Blank, Snapshot, Staged, Justified, Held, UsedScopes
  <2>4. Faithful(i)'
    <3>1. CASE pc[i] \in {"start"} \cup Ended
        BY <3>1, <1>3 DEF Faithful, Blank, Nothing
    <3>2. CASE pc[i] \notin {"start"} \cup Ended
        BY <3>2, <1>3, <1>4, <2>1 DEF Faithful
    <3> QED
        BY <3>1, <3>2
  <2>5. Covered(i)'
      BY <1>3, <1>4, <2>1 DEF Covered, Held, Ended
  <2>6. Kept(i)'
      BY <1>3, <1>4, <2>1 DEF Kept, Fixed, Second, Publishing, Ended, UniqueIds,
         Held
  <2>7. Later(i)'
    <3> SUFFICES ASSUME pc[i] \in Fixed, NEW u \in Held(first[i])
                 PROVE  /\ \/ source'[u] \in {Absent, frozen[i][u]}
                           \/ source'[u].version > first[i][u].version
                        /\ \/ got[i][u] \in {Absent, frozen[i][u]}
                           \/ got[i][u].version > first[i][u].version
        BY <1>3 DEF Later, Held
    <3>1. u \in Topics /\ first[i][u] # Absent
        BY DEF Held
    <3>2. first[i][u].version <= writes
        BY <3>1 DEF ReadAged
    <3>3. first[i][u].version \in Nat
        BY <3>1, Versions DEF TypeOK
    <3>4. CASE u = t
      <4>1. c = Absent \/ c.version > first[i][u].version
          BY <3>2, <3>3, <1>3, <1>4
      <4> QED
          BY <3>4, <4>1, <1>4 DEF Later
    <3>5. CASE u # t
        BY <3>1, <3>5, <1>4 DEF Later
    <3> QED
        BY <3>4, <3>5
  <2> QED
      BY <2>2, <2>3, <2>4, <2>5, <2>6, <2>7
<1> QED
    BY <1>5, <1>6, <1>7

LEMMA DestinationIInv == ASSUME IInv, DestinationUsed PROVE IInv'
<1> USE DEF IInv
<1>1. UNCHANGED <<source, writes, pc, wasEmpty, todo, listed, got, first,
                  staged, rebuilt, frozen, touched>>
    BY DEF DestinationUsed, scanVars, stageVars
<1>2. dest' \in Directory /\ dest'.exists
    BY DEF DestinationUsed, TypeOK, Directory
<1>3. TypeOK' /\ DestShape' /\ SourceAged'
    BY <1>1, <1>2 DEF TypeOK, DestShape, SourceAged
<1>4. \A i \in Importers : Local(i)'
    BY <1>1, Untouched DEF Mine
<1> QED
    BY <1>3, <1>4

-----------------------------------------------------------------------------
(* The steps of an import.                                                 *)

\* A step that changes nothing but what import i sees, and its place.
LEMMA StepIInv ==
    ASSUME IInv, NEW i \in Importers,
           UNCHANGED <<source, writes, dest, touched>>,
           pc' \in [Importers -> Places],
           wasEmpty' \in [Importers -> BOOLEAN],
           todo' \in [Importers -> SUBSET Projects],
           listed' \in [Importers -> SUBSET Topics],
           {got', first', staged', frozen'} \subseteq [Importers -> Contents],
           rebuilt' \in [Importers -> SUBSET Scopes],
           \A j \in Importers \ {i} : Mine(j)' = Mine(j),
           Local(i)'
    PROVE  IInv'
<1>1. TypeOK'
    BY DEF IInv, TypeOK
<1>2. DestShape'
    BY DEF IInv, DestShape
<1> QED
    BY <1>1, <1>2, Combine

\* What an import sees when it goes to a place that asks for nothing new.
LEMMA CheckIInv ==
    ASSUME IInv, NEW i \in Importers, CheckDestination(i) PROVE IInv'
<1>1. /\ pc[i] = "start" /\ pc' = [pc EXCEPT ![i] = "scan global"]
      /\ wasEmpty' = [wasEmpty EXCEPT ![i] = dest.exists]
      /\ UNCHANGED <<source, writes, dest, todo, listed, got, first, staged,
                     rebuilt, frozen, touched>>
    BY DEF CheckDestination, Goto, scanVars, stageVars
<1>2. /\ pc' \in [Importers -> Places] /\ pc'[i] = "scan global"
      /\ \A j \in Importers \ {i} : Mine(j)' = Mine(j)
    BY <1>1 DEF IInv, TypeOK, Mine, Places, Scanning
<1>3. dest.exists \in BOOLEAN
    BY DEF IInv, TypeOK, Directory
<1>4. wasEmpty' \in [Importers -> BOOLEAN]
    BY <1>1, <1>3 DEF IInv, TypeOK
<1>5. Local(i)'
  <2> USE DEF IInv, Local
  <2>1. ReadAged(i)' /\ Blank(i)' /\ Faithful(i)' /\ Covered(i)'
      BY <1>1, <1>2 DEF ReadAged, Blank, Faithful, Covered, Ended
  <2>2. Kept(i)' /\ Later(i)' /\ Snapshot(i)' /\ Staged(i)' /\ Justified(i)'
      BY <1>2 DEF Kept, Later, Snapshot, Staged, Justified, Fixed, Second,
         Publishing
  <2> QED
      BY <2>1, <2>2
<1> QED
    BY <1>1, <1>2, <1>4, <1>5, StepIInv DEF IInv, TypeOK

\* A step that leaves the scans and the staging directory alone.
LEMMA Stays ==
    ASSUME NEW i \in Importers, Local(i),
           source' = source, got'[i] = got[i], first'[i] = first[i],
           staged'[i] = staged[i], rebuilt'[i] = rebuilt[i],
           frozen'[i] = frozen[i], touched'[i] = touched[i],
           pc'[i] \in Fixed => pc[i] \in Fixed,
           pc'[i] \in Publishing => pc[i] \in Publishing,
           pc'[i] \in Second \cup Publishing
             => pc[i] \in Second \cup Publishing,
           pc'[i] \in {"verify"} \cup Second \cup Publishing
             => pc[i] \in {"verify"} \cup Second \cup Publishing
    PROVE  Kept(i)' /\ Later(i)' /\ Snapshot(i)' /\ Staged(i)'
<1>1. Kept(i)'
    BY DEF Local, Kept, UniqueIds, Held
<1>2. Later(i)'
    BY DEF Local, Later, Held
<1>3. Snapshot(i)'
    BY DEF Local, Snapshot, Held
<1>4. Staged(i)'
    BY DEF Local, Staged, UsedScopes, Render, Held
<1> QED
    BY <1>1, <1>2, <1>3, <1>4

LEMMA ListGlobalIInv ==
    ASSUME IInv, NEW i \in Importers, ListGlobal(i) PROVE IInv'
<1> DEFINE place == IF pc[i] = "scan global" THEN "scan projects"
                    ELSE "again projects"
           global == {t \in Held(source) : ScopeOf[t] = Global}
<1>1. /\ pc[i] \in {"scan global", "again global"}
      /\ pc' = [pc EXCEPT ![i] = place]
      /\ listed' = [listed EXCEPT ![i] = global]
      /\ UNCHANGED <<source, writes, dest, wasEmpty, todo, got, first, staged,
                     rebuilt, frozen, touched>>
    BY DEF ListGlobal, Lists, Goto, stageVars
<1>2. place \in Places /\ global \subseteq Topics
    BY DEF Places, Scanning, Held
<1>3. /\ pc' \in [Importers -> Places]
      /\ pc'[i] = place
      /\ listed' \in [Importers -> SUBSET Topics]
      /\ listed'[i] = global
      /\ \A j \in Importers \ {i} : Mine(j)' = Mine(j)
    BY <1>1, <1>2 DEF IInv, TypeOK, Mine
<1>4. Local(i)'
  <2> USE DEF IInv, Local
  <2>1. ReadAged(i)' /\ Blank(i)' /\ Faithful(i)' /\ Justified(i)'
      BY <1>1, <1>3 DEF ReadAged, Blank, Faithful, Justified, Ended
  <2>2. Covered(i)'
      BY <1>1, <1>3 DEF Covered, Held
  <2>3. Kept(i)' /\ Later(i)' /\ Snapshot(i)' /\ Staged(i)'
    <3>1. /\ pc'[i] \in Fixed => pc[i] \in Fixed
          /\ pc'[i] \notin Publishing
          /\ pc'[i] \in Second => pc[i] \in Second
          /\ pc'[i] # "verify"
        BY <1>1, <1>3 DEF Fixed, Second, Publishing
    <3> QED
        BY <1>1, <3>1, Stays
  <2> QED
      BY <2>1, <2>2, <2>3
<1> QED
    BY <1>1, <1>3, <1>4, StepIInv DEF IInv, TypeOK

LEMMA ListProjectsIInv ==
    ASSUME IInv, NEW i \in Importers, ListProjects(i) PROVE IInv'
<1> DEFINE place == IF pc[i] = "scan projects" THEN "scan" ELSE "again"
           scopes == {ScopeOf[t] : t \in Held(source)} \ {Global}
<1>1. /\ pc[i] \in {"scan projects", "again projects"}
      /\ listed[i] = {}
      /\ pc' = [pc EXCEPT ![i] = place]
      /\ todo' = [todo EXCEPT ![i] = scopes]
      /\ UNCHANGED <<source, writes, dest, wasEmpty, listed, got, first, staged,
                     rebuilt, frozen, touched>>
    BY DEF ListProjects, Goto, stageVars
<1>2. place \in Places /\ scopes \subseteq Projects
    BY ImportAssumption DEF Places, Scanning, Held, Scopes
<1>3. /\ pc' \in [Importers -> Places]
      /\ pc'[i] = place
      /\ todo' \in [Importers -> SUBSET Projects]
      /\ todo'[i] = scopes
      /\ \A j \in Importers \ {i} : Mine(j)' = Mine(j)
    BY <1>1, <1>2 DEF IInv, TypeOK, Mine
<1>4. Local(i)'
  <2> USE DEF IInv, Local
  <2>1. ReadAged(i)' /\ Blank(i)' /\ Faithful(i)' /\ Justified(i)'
      BY <1>1, <1>3 DEF ReadAged, Blank, Faithful, Justified, Ended
  <2>2. Covered(i)'
      BY <1>1, <1>3 DEF Covered, Held
  <2>3. Kept(i)' /\ Later(i)' /\ Snapshot(i)' /\ Staged(i)'
    <3>1. /\ pc'[i] \in Fixed => pc[i] \in Fixed
          /\ pc'[i] \notin Publishing
          /\ pc'[i] \in Second => pc[i] \in Second
          /\ pc'[i] # "verify"
        BY <1>1, <1>3 DEF Fixed, Second, Publishing
    <3> QED
        BY <1>1, <3>1, Stays
  <2> QED
      BY <2>1, <2>2, <2>3
<1> QED
    BY <1>1, <1>3, <1>4, StepIInv DEF IInv, TypeOK

LEMMA ListProjectIInv ==
    ASSUME IInv, NEW i \in Importers, ListProject(i) PROVE IInv'
<1>1. PICK p \in todo[i] :
        /\ Lists(i, p)
        /\ todo' = [todo EXCEPT ![i] = @ \ {p}]
    BY DEF ListProject
<1> DEFINE new == {t \in Held(source) : ScopeOf[t] = p}
<1>2. /\ pc[i] \in {"scan", "again"} /\ listed[i] = {}
      /\ listed' = [listed EXCEPT ![i] = new]
      /\ UNCHANGED <<source, writes, dest, pc, wasEmpty, got, first, staged,
                     rebuilt, frozen, touched>>
    BY <1>1 DEF ListProject, Lists, stageVars
<1>3. /\ listed' \in [Importers -> SUBSET Topics]
      /\ listed'[i] = new
      /\ todo' \in [Importers -> SUBSET Projects]
      /\ todo'[i] = todo[i] \ {p}
      /\ \A j \in Importers \ {i} : Mine(j)' = Mine(j)
    BY <1>1, <1>2 DEF IInv, TypeOK, Mine, Held
<1>4. Local(i)'
  <2> USE DEF IInv, Local
  <2>1. ReadAged(i)' /\ Blank(i)' /\ Faithful(i)' /\ Justified(i)'
      BY <1>2, <1>3 DEF ReadAged, Blank, Faithful, Justified, Ended
  <2>2. Covered(i)'
      BY <1>2, <1>3 DEF Covered, Held
  <2>3. Kept(i)' /\ Later(i)' /\ Snapshot(i)' /\ Staged(i)'
      BY <1>2, Stays
  <2> QED
      BY <2>1, <2>2, <2>3
<1> QED
    BY <1>2, <1>3, <1>4, StepIInv DEF IInv, TypeOK

LEMMA ReadTopicIInv ==
    ASSUME IInv, NEW i \in Importers, ReadTopic(i) PROVE IInv'
<1>1. PICK t \in listed[i] :
        /\ source[t] # Absent
        /\ got' = [got EXCEPT ![i][t] = source[t]]
        /\ listed' = [listed EXCEPT ![i] = @ \ {t}]
    BY DEF ReadTopic
<1>2. /\ pc[i] \in Scanning
      /\ UNCHANGED <<source, writes, dest, pc, wasEmpty, todo, first, staged,
                     rebuilt, frozen, touched>>
    BY DEF ReadTopic, stageVars
<1>3. t \in Topics /\ source[t] \in Content
    BY <1>1, Versions DEF IInv, TypeOK
<1>4. /\ got' \in [Importers -> Contents]
      /\ got'[i][t] = source[t]
      /\ \A u \in Topics \ {t} : got'[i][u] = got[i][u]
      /\ listed' \in [Importers -> SUBSET Topics]
      /\ listed'[i] = listed[i] \ {t}
    BY <1>1, <1>3 DEF IInv, TypeOK, Contents
<1>5. \A j \in Importers \ {i} : Mine(j)' = Mine(j)
    BY <1>1, <1>2 DEF IInv, TypeOK, Mine
<1>6. Local(i)'
  <2> USE DEF IInv, Local
  <2>1. ReadAged(i)'
      BY <1>1, <1>2, <1>3, <1>4 DEF ReadAged, SourceAged
  <2>2. Blank(i)' /\ Snapshot(i)' /\ Justified(i)'
      BY <1>2 DEF Blank, Snapshot, Justified, Scanning, Ended, Publishing
  <2>3. Faithful(i)'
      BY <1>2, <1>4 DEF Faithful
  <2>4. Covered(i)'
      BY <1>2, <1>4 DEF Covered, Held
  <2>5. Kept(i)' /\ Staged(i)'
      BY <1>2 DEF Kept, Staged, UniqueIds, Held, Render, UsedScopes
  <2>6. Later(i)'
      BY <1>2, <1>4 DEF Later, Held
  <2> QED
      BY <2>1, <2>2, <2>3, <2>4, <2>5, <2>6
<1> QED
    BY <1>2, <1>4, <1>5, <1>6, StepIInv DEF IInv, TypeOK

LEMMA NothingTyped == Nothing \in Contents
    BY DEF Nothing, Contents

LEMMA ValidateIInv ==
    ASSUME IInv, NEW i \in Importers, Validate(i) PROVE IInv'
<1>1. /\ pc[i] = "scan" /\ todo[i] = {} /\ listed[i] = {}
      /\ UniqueIds(got[i])
      /\ first' = [first EXCEPT ![i] = got[i]]
      /\ frozen' = [frozen EXCEPT ![i] = source]
      /\ got' = [got EXCEPT ![i] = Nothing]
      /\ pc' = [pc EXCEPT ![i] = "stage"]
      /\ UNCHANGED <<source, writes, dest, wasEmpty, todo, listed, staged,
                     rebuilt, touched>>
    BY DEF Validate, Scanned, Goto
<1>2. /\ first' \in [Importers -> Contents] /\ first'[i] = got[i]
      /\ frozen' \in [Importers -> Contents] /\ frozen'[i] = source
      /\ got' \in [Importers -> Contents] /\ got'[i] = Nothing
      /\ pc'[i] = "stage"
    BY <1>1, NothingTyped DEF IInv, TypeOK
<1>3. pc' \in [Importers -> Places]
    BY <1>1 DEF IInv, TypeOK, Places
<1>4. \A j \in Importers \ {i} : Mine(j)' = Mine(j)
    BY <1>1 DEF IInv, TypeOK, Mine
<1>5. Local(i)'
  <2> USE DEF IInv, Local
  <2>1. ReadAged(i)' /\ Blank(i)' /\ Faithful(i)'
      BY <1>1, <1>2 DEF ReadAged, Blank, Faithful, Nothing
  <2>2. Covered(i)' /\ Snapshot(i)' /\ Staged(i)' /\ Justified(i)'
      BY <1>2 DEF Covered, Snapshot, Staged, Justified, Second, Publishing
  <2>3. Kept(i)'
    <3>1. \A t \in Topics \ touched[i] : got[i][t] = source[t]
        BY <1>1 DEF Faithful, Covered, Held
    <3> QED
        BY <1>1, <1>2, <3>1 DEF Kept, UniqueIds, Held
  <2>4. Later(i)'
      BY <1>1, <1>2 DEF Later, Held, Nothing
  <2> QED
      BY <2>1, <2>2, <2>3, <2>4
<1> QED
    BY <1>1, <1>2, <1>3, <1>4, <1>5, StepIInv DEF IInv, TypeOK

\* What is rendered stays content, and Absent stays Absent.
LEMMA RenderTyped ==
    ASSUME NEW map \in Contents
    PROVE  Render(map) \in Contents /\ Held(Render(map)) = Held(map)
<1>1. \A t \in Topics : map[t] # Absent =>
        [map[t] EXCEPT !.form = "current"] \in Content
    BY Versions DEF Content, Forms
<1>2. \A t \in Topics :
        Render(map)[t] = IF map[t] = Absent THEN Absent
                         ELSE [map[t] EXCEPT !.form = "current"]
    BY DEF Render
<1>3. \A t \in Topics : Render(map)[t] # Absent <=> map[t] # Absent
  <2> SUFFICES ASSUME NEW t \in Topics, map[t] # Absent
               PROVE  Render(map)[t] # Absent
      BY <1>2
  <2>1. Render(map)[t] \in Content
      BY <1>1, <1>2
  <2> QED
      BY <2>1, ImportAssumption
<1>4. \A t \in Topics : Render(map)[t] \in Content \cup {Absent}
    BY <1>1, <1>2
<1>5. Render(map) = [t \in Topics |-> Render(map)[t]]
    BY DEF Render
<1>6. Render(map) \in Contents
    BY <1>4, <1>5 DEF Contents
<1>7. Held(Render(map)) = Held(map)
    BY <1>3 DEF Held
<1> QED
    BY <1>6, <1>7

LEMMA StageBatchIInv ==
    ASSUME IInv, NEW i \in Importers, StageBatch(i) PROVE IInv'
<1>1. PICK B \in SUBSET Unstaged(i) :
        staged' = [staged EXCEPT ![i] =
          [t \in Topics |-> IF t \in B THEN Render(first[i])[t] ELSE @[t]]]
    BY DEF StageBatch
<1>2. /\ pc[i] = "stage"
      /\ UNCHANGED <<source, writes, dest, pc, wasEmpty, todo, listed, got,
                     first, rebuilt, frozen, touched>>
    BY DEF StageBatch, scanVars
<1>3. first[i] \in Contents /\ staged[i] \in Contents
    BY DEF IInv, TypeOK
<1>4. \A t \in Topics :
        /\ Render(first[i])[t] \in Content \cup {Absent}
        /\ staged[i][t] \in Content \cup {Absent}
    BY <1>3, RenderTyped DEF Contents
<1>5. [t \in Topics |-> IF t \in B THEN Render(first[i])[t]
                        ELSE staged[i][t]] \in Contents
    BY <1>4 DEF Contents
<1>6. staged' \in [Importers -> Contents]
    BY <1>1, <1>5 DEF IInv, TypeOK
<1>7. \A j \in Importers \ {i} : Mine(j)' = Mine(j)
    BY <1>1, <1>2 DEF IInv, TypeOK, Mine
<1>8. Local(i)'
  <2> USE DEF IInv, Local
  <2>1. ReadAged(i)' /\ Blank(i)' /\ Faithful(i)' /\ Covered(i)'
      BY <1>2 DEF ReadAged, Blank, Faithful, Covered, Held
  <2>2. Kept(i)' /\ Later(i)'
      BY <1>2 DEF Kept, Later, UniqueIds, Held
  <2>3. Snapshot(i)' /\ Staged(i)' /\ Justified(i)'
      BY <1>2 DEF Snapshot, Staged, Justified, Second, Publishing
  <2> QED
      BY <2>1, <2>2, <2>3
<1> QED
    BY <1>2, <1>6, <1>7, <1>8, StepIInv DEF IInv, TypeOK

LEMMA StagedAllIInv ==
    ASSUME IInv, NEW i \in Importers, StagedAll(i) PROVE IInv'
<1>1. /\ pc[i] = "stage" /\ pc' = [pc EXCEPT ![i] = "rebuild"]
      /\ UNCHANGED <<source, writes, dest, wasEmpty, todo, listed, got, first,
                     staged, rebuilt, frozen, touched>>
    BY DEF StagedAll, Goto, scanVars, stageVars
<1>2. /\ pc' \in [Importers -> Places] /\ pc'[i] = "rebuild"
      /\ \A j \in Importers \ {i} : Mine(j)' = Mine(j)
    BY <1>1 DEF IInv, TypeOK, Mine, Places
<1>3. Local(i)'
  <2>1. ReadAged(i)' /\ Blank(i)' /\ Faithful(i)'
      BY <1>1, <1>2 DEF IInv, Local, ReadAged, Blank, Faithful, Ended
  <2>2. Covered(i)' /\ Justified(i)'
      BY <1>2 DEF Covered, Justified
  <2>3. Kept(i)' /\ Later(i)' /\ Snapshot(i)' /\ Staged(i)'
    <3>1. pc[i] \in Fixed /\ pc'[i] \notin {"verify"} \cup Second \cup Publishing
        BY <1>1, <1>2 DEF Fixed, Second, Publishing
    <3> QED
        BY <1>1, <3>1, Stays DEF IInv
  <2> QED
      BY <2>1, <2>2, <2>3 DEF Local
<1> QED
    BY <1>1, <1>2, <1>3, StepIInv DEF IInv, TypeOK

LEMMA RebuildScopesIInv ==
    ASSUME IInv, NEW i \in Importers, RebuildScopes(i) PROVE IInv'
<1>1. /\ pc[i] = "rebuild" /\ pc' = [pc EXCEPT ![i] = "verify"]
      /\ rebuilt' = [rebuilt EXCEPT ![i] = UsedScopes(first[i])]
      /\ UNCHANGED <<source, writes, dest, wasEmpty, todo, listed, got, first,
                     staged, frozen, touched>>
    BY DEF RebuildScopes, Goto, scanVars
<1>2. UsedScopes(first[i]) \subseteq Scopes
    BY ImportAssumption DEF UsedScopes, Held
<1>3. /\ pc' \in [Importers -> Places] /\ pc'[i] = "verify"
      /\ rebuilt' \in [Importers -> SUBSET Scopes]
      /\ rebuilt'[i] = UsedScopes(first[i])
      /\ \A j \in Importers \ {i} : Mine(j)' = Mine(j)
    BY <1>1, <1>2 DEF IInv, TypeOK, Mine, Places
<1>4. Local(i)'
  <2> USE DEF IInv, Local
  <2>1. ReadAged(i)' /\ Blank(i)' /\ Faithful(i)'
      BY <1>1, <1>3 DEF ReadAged, Blank, Faithful, Ended
  <2>2. Covered(i)' /\ Justified(i)' /\ Snapshot(i)'
      BY <1>3 DEF Covered, Justified, Snapshot, Publishing
  <2>3. pc[i] \in Fixed
      BY <1>1 DEF Fixed
  <2>4. Kept(i)' /\ Later(i)'
      BY <1>1, <2>3 DEF Kept, Later, UniqueIds, Held
  <2>5. Staged(i)'
    <3>1. UsedScopes(first[i])' = UsedScopes(first[i])
        BY <1>1 DEF UsedScopes, Held
    <3> QED
        BY <1>1, <1>3, <3>1 DEF Staged, Second, Publishing
  <2> QED
      BY <2>1, <2>2, <2>4, <2>5
<1> QED
    BY <1>1, <1>3, <1>4, StepIInv DEF IInv, TypeOK

LEMMA VerifyIInv ==
    ASSUME IInv, NEW i \in Importers, Verify(i) PROVE IInv'
<1>1. /\ pc[i] = "verify" /\ staged[i] = Render(first[i])
      /\ pc' = [pc EXCEPT ![i] = "again global"]
      /\ UNCHANGED <<source, writes, dest, wasEmpty, todo, listed, got, first,
                     staged, rebuilt, frozen, touched>>
    BY DEF Verify, Goto, scanVars, stageVars
<1>2. /\ pc' \in [Importers -> Places] /\ pc'[i] = "again global"
      /\ \A j \in Importers \ {i} : Mine(j)' = Mine(j)
    BY <1>1 DEF IInv, TypeOK, Mine, Places, Scanning
<1>3. Local(i)'
  <2> USE DEF IInv, Local
  <2>1. ReadAged(i)' /\ Blank(i)' /\ Faithful(i)'
      BY <1>1, <1>2 DEF ReadAged, Blank, Faithful, Ended
  <2>2. Covered(i)' /\ Justified(i)' /\ Snapshot(i)'
      BY <1>2 DEF Covered, Justified, Snapshot, Publishing
  <2>3. pc[i] \in Fixed
      BY <1>1 DEF Fixed
  <2>4. Kept(i)' /\ Later(i)'
      BY <1>1, <2>3 DEF Kept, Later, UniqueIds, Held
  <2>5. Staged(i)'
    <3>1. /\ UsedScopes(first[i])' = UsedScopes(first[i])
          /\ Render(first[i])' = Render(first[i])
        BY <1>1 DEF UsedScopes, Held, Render
    <3> QED
        BY <1>1, <3>1 DEF Staged
  <2> QED
      BY <2>1, <2>2, <2>4, <2>5
<1> QED
    BY <1>1, <1>2, <1>3, StepIInv DEF IInv, TypeOK

LEMMA CompareIInv ==
    ASSUME IInv, NEW i \in Importers, Compare(i) PROVE IInv'
<1> DEFINE place == IF wasEmpty[i] THEN "remove" ELSE "rename"
<1>1. /\ pc[i] = "again" /\ got[i] = first[i]
      /\ got' = [got EXCEPT ![i] = Nothing]
      /\ pc' = [pc EXCEPT ![i] = place]
      /\ UNCHANGED <<source, writes, dest, wasEmpty, todo, listed, first,
                     staged, rebuilt, frozen, touched>>
    BY DEF Compare, Scanned, SameSource, Goto, stageVars
<1>2. place \in Publishing /\ place \in Places
    BY DEF Publishing, Places
<1>3. /\ pc' \in [Importers -> Places] /\ pc'[i] = place
      /\ got' \in [Importers -> Contents] /\ got'[i] = Nothing
      /\ \A j \in Importers \ {i} : Mine(j)' = Mine(j)
    BY <1>1, <1>2, NothingTyped DEF IInv, TypeOK, Mine
<1>4. Local(i)'
  <2> USE DEF IInv, Local
  <2> HIDE DEF place
  <2>1. ReadAged(i)' /\ Blank(i)' /\ Faithful(i)'
      BY <1>1, <1>3 DEF ReadAged, Blank, Faithful, Nothing
  <2>2. Covered(i)' /\ Justified(i)'
      BY <1>2, <1>3 DEF Covered, Justified, Publishing
  <2>3. pc[i] \in Fixed /\ pc[i] \in Second
      BY <1>1 DEF Fixed, Second
  <2>4. Kept(i)'
      BY <1>1, <2>3 DEF Kept, UniqueIds, Held
  <2>5. Later(i)'
      BY <1>1, <1>3, <2>3 DEF Later, Held, Nothing
  <2>6. Snapshot(i)'
    <3>1. ASSUME NEW t \in Held(first[i]) PROVE first[i][t] = frozen[i][t]
      <4>1. /\ t \in Topics /\ first[i][t] # Absent
            /\ got[i][t] = first[i][t]
          BY <1>1 DEF Held
      <4>2. first[i][t].version \in Nat
          BY <4>1, Versions DEF TypeOK
      <4>3. \/ got[i][t] \in {Absent, frozen[i][t]}
            \/ got[i][t].version > first[i][t].version
          BY <2>3 DEF Later
      <4> QED
          BY <4>1, <4>2, <4>3
    <3> QED
        BY <1>1, <3>1 DEF Snapshot, Held
  <2>7. Staged(i)'
    <3>1. /\ UsedScopes(first[i])' = UsedScopes(first[i])
          /\ Render(first[i])' = Render(first[i])
        BY <1>1 DEF UsedScopes, Held, Render
    <3> QED
        BY <1>1, <2>3, <3>1 DEF Staged
  <2> QED
      BY <2>1, <2>2, <2>4, <2>5, <2>6, <2>7
<1> QED
    BY <1>1, <1>3, <1>4, StepIInv DEF IInv, TypeOK

LEMMA DirectoriesTyped ==
    NoDirectory \in Directory /\ EmptyDirectory \in Directory
<1>1. NoDirectory \in Directory
    BY NothingTyped DEF Directory, NoDirectory
<1> QED
    BY <1>1 DEF Directory, EmptyDirectory

LEMMA RemoveEmptyIInv ==
    ASSUME IInv, NEW i \in Importers, RemoveEmpty(i) PROVE IInv'
<1>1. /\ pc[i] = "remove" /\ pc' = [pc EXCEPT ![i] = "rename"]
      /\ dest' = NoDirectory
      /\ UNCHANGED <<source, writes, wasEmpty, todo, listed, got, first,
                     staged, rebuilt, frozen, touched>>
    BY DEF RemoveEmpty, Goto, scanVars, stageVars
<1>2. /\ pc' \in [Importers -> Places] /\ pc'[i] = "rename"
      /\ \A j \in Importers \ {i} : Mine(j)' = Mine(j)
    BY <1>1 DEF IInv, TypeOK, Mine, Places
<1>3. TypeOK' /\ DestShape'
    BY <1>1, <1>2, DirectoriesTyped DEF IInv, TypeOK, DestShape
<1>4. Local(i)'
  <2>1. ReadAged(i)' /\ Blank(i)' /\ Faithful(i)'
      BY <1>1, <1>2 DEF IInv, Local, ReadAged, Blank, Faithful, Ended
  <2>2. Covered(i)' /\ Justified(i)'
      BY <1>2 DEF Covered, Justified
  <2>3. Kept(i)' /\ Later(i)' /\ Snapshot(i)' /\ Staged(i)'
    <3>1. pc[i] \in Fixed /\ pc[i] \in Publishing
        BY <1>1 DEF Fixed, Publishing
    <3> QED
        BY <1>1, <3>1, Stays DEF IInv
  <2> QED
      BY <2>1, <2>2, <2>3 DEF Local
<1> QED
    BY <1>1, <1>2, <1>3, <1>4, Combine

\* However an import ends, it leaves nothing behind.
LEMMA EndsIInv ==
    ASSUME IInv, NEW i \in Importers, NEW how \in Ended, Ends(i, how),
           UNCHANGED <<source, writes>>, dest' \in Directory, DestShape',
           how = "changed" => touched[i] # {}
    PROVE  IInv'
<1> USE DEF IInv
<1>1. /\ pc' = [pc EXCEPT ![i] = how]
      /\ todo' = [todo EXCEPT ![i] = {}]
      /\ listed' = [listed EXCEPT ![i] = {}]
      /\ got' = [got EXCEPT ![i] = Nothing]
      /\ first' = [first EXCEPT ![i] = Nothing]
      /\ staged' = [staged EXCEPT ![i] = Nothing]
      /\ rebuilt' = [rebuilt EXCEPT ![i] = {}]
      /\ frozen' = [frozen EXCEPT ![i] = Nothing]
      /\ wasEmpty' = [wasEmpty EXCEPT ![i] = FALSE]
      /\ touched' = [touched EXCEPT ![i] = IF how = "changed" THEN @ ELSE {}]
    BY DEF Ends, Goto
<1>2. /\ pc' \in [Importers -> Places] /\ pc'[i] = how
      /\ todo' \in [Importers -> SUBSET Projects]
      /\ listed' \in [Importers -> SUBSET Topics]
      /\ rebuilt' \in [Importers -> SUBSET Scopes]
      /\ wasEmpty' \in [Importers -> BOOLEAN]
    BY <1>1 DEF TypeOK, Places
<1>3. /\ got' \in [Importers -> Contents] /\ got'[i] = Nothing
      /\ first' \in [Importers -> Contents] /\ first'[i] = Nothing
      /\ staged' \in [Importers -> Contents]
      /\ frozen' \in [Importers -> Contents]
    BY <1>1, NothingTyped DEF TypeOK
<1>4. /\ touched' \in [Importers -> SUBSET Topics]
      /\ how = "changed" => touched'[i] = touched[i]
    BY <1>1 DEF TypeOK
<1>5. TypeOK'
    BY <1>2, <1>3, <1>4 DEF TypeOK
<1>6. \A j \in Importers \ {i} : Mine(j)' = Mine(j)
    BY <1>1 DEF TypeOK, Mine
<1>7. Local(i)'
  <2>1. ReadAged(i)' /\ Blank(i)' /\ Faithful(i)' /\ Justified(i)'
      BY <1>2, <1>3, <1>4 DEF ReadAged, Blank, Faithful, Justified, Nothing
  <2>2. Covered(i)'
      BY <1>2 DEF Covered, Ended
  <2>3. how \notin Fixed /\ how # "verify"
        /\ how \notin Second /\ how \notin Publishing
      BY DEF Fixed, Second, Publishing, Ended
  <2>4. Kept(i)' /\ Later(i)' /\ Snapshot(i)' /\ Staged(i)'
      BY <1>2, <2>3 DEF Kept, Later, Snapshot, Staged
  <2> QED
      BY <2>1, <2>2, <2>4 DEF Local
<1> QED
    BY <1>5, <1>6, <1>7, Combine

LEMMA ChangedIInv ==
    ASSUME IInv, NEW i \in Importers, Changed(i) PROVE IInv'
<1>1. /\ pc[i] = "again" /\ todo[i] = {} /\ listed[i] = {}
      /\ got[i] # first[i]
      /\ Ends(i, "changed")
      /\ UNCHANGED <<source, writes, dest>>
    BY DEF Changed, Scanned, SameSource
<1>2. touched[i] # {}
  <2> SUFFICES ASSUME touched[i] = {} PROVE FALSE
      OBVIOUS
  <2>1. \A t \in Topics : got[i][t] = source[t]
      BY <1>1 DEF IInv, Local, Faithful, Covered, Held
  <2>2. \A t \in Topics : first[i][t] = source[t]
      BY <1>1 DEF IInv, Local, Kept, Fixed, Second
  <2>3. got[i] \in Contents /\ first[i] \in Contents
      BY DEF IInv, TypeOK
  <2> QED
      BY <1>1, <2>1, <2>2, <2>3 DEF Contents
<1>3. dest' \in Directory /\ DestShape'
    BY <1>1 DEF IInv, TypeOK, DestShape
<1> QED
    BY <1>1, <1>2, <1>3, EndsIInv DEF Ended

LEMMA PublishIInv ==
    ASSUME IInv, NEW i \in Importers, Publish(i) PROVE IInv'
<1>1. /\ dest' = [exists |-> TRUE, topics |-> staged[i],
                  scopes |-> rebuilt[i], foreign |-> FALSE]
      /\ Ends(i, "done")
      /\ UNCHANGED <<source, writes>>
    BY DEF Publish
<1>2. dest' \in Directory /\ dest'.exists
    BY <1>1 DEF IInv, TypeOK, Directory
<1> QED
    BY <1>1, <1>2, EndsIInv DEF Ended, DestShape

LEMMA PublishFailsIInv ==
    ASSUME IInv, NEW i \in Importers, PublishFails(i) PROVE IInv'
<1>1. /\ dest' \in {dest, EmptyDirectory}
      /\ Ends(i, "failed")
      /\ UNCHANGED <<source, writes>>
    BY DEF PublishFails
<1>2. dest' \in Directory
    BY <1>1, DirectoriesTyped DEF IInv, TypeOK
<1>3. DestShape'
    BY <1>1 DEF IInv, DestShape, EmptyDirectory, NoDirectory
<1> QED
    BY <1>1, <1>2, <1>3, EndsIInv DEF Ended

LEMMA FailsIInv ==
    ASSUME IInv, NEW i \in Importers, Fails(i) PROVE IInv'
<1>1. Ends(i, "failed") /\ UNCHANGED <<source, writes, dest>>
    BY DEF Fails
<1>2. dest' \in Directory /\ DestShape'
    BY <1>1 DEF IInv, TypeOK, DestShape
<1> QED
    BY <1>1, <1>2, EndsIInv DEF Ended

LEMMA NextIInv == IInv /\ [Next]_vars => IInv'
<1> SUFFICES ASSUME IInv, [Next]_vars PROVE IInv'
    OBVIOUS
<1>1. ASSUME NEW i \in Importers, Step(i) PROVE IInv'
    BY <1>1, CheckIInv, ListGlobalIInv, ListProjectsIInv, ListProjectIInv,
       ReadTopicIInv, ValidateIInv, StageBatchIInv, StagedAllIInv,
       RebuildScopesIInv, VerifyIInv, CompareIInv, ChangedIInv,
       RemoveEmptyIInv, PublishIInv, PublishFailsIInv, FailsIInv DEF Step
<1>2. ASSUME UNCHANGED vars PROVE IInv'
  <2>1. UNCHANGED <<source, writes, dest, pc, wasEmpty, todo, listed, got,
                    first, staged, rebuilt, frozen, touched>>
      BY <1>2 DEF vars, scanVars, stageVars
  <2>2. TypeOK' /\ DestShape' /\ SourceAged'
      BY <2>1 DEF IInv, TypeOK, DestShape, SourceAged
  <2>3. \A i \in Importers : Local(i)'
      BY <2>1, Untouched DEF IInv, Mine
  <2> QED
      BY <2>2, <2>3 DEF IInv
<1> QED
    BY <1>1, <1>2, BambooIInv, DestinationIInv DEF Next, Finished

LEMMA IInvHolds == Spec => []IInv
<1> QED
    BY InitIInv, NextIInv, PTL DEF Spec

-----------------------------------------------------------------------------
(* What the import promises.                                               *)

\* Every reachable state has its type.
THEOREM ImportTyped == Spec => []TypeOK
<1>1. IInv => TypeOK
    BY DEF IInv
<1> QED
    BY <1>1, IInvHolds, PTL

\* An import says that the source changed only when Bamboo wrote during it:
\* two scans of a source nobody wrote find the same.
THEOREM RefusalOnlyIfWritten == Spec => []RefusalIsJustified
<1>1. IInv => RefusalIsJustified
    BY DEF IInv, Local, Justified, RefusalIsJustified
<1> QED
    BY <1>1, IInvHolds, PTL

\* Whatever imports and other programs race for the destination, what it holds
\* stays there.
THEOREM DestinationKept == Spec => NeverOverwrites
<1>1. ASSUME IInv, [Next]_vars
      PROVE  [~Vacant(dest) =>
                /\ dest'.topics = dest.topics
                /\ dest'.scopes = dest.scopes
                /\ dest.foreign => dest'.foreign]_vars
  <2> SUFFICES ASSUME Next, ~Vacant(dest), dest' # dest
               PROVE  /\ dest'.topics = dest.topics
                      /\ dest'.scopes = dest.scopes
                      /\ dest.foreign => dest'.foreign
      BY <1>1 DEF vars
  <2>1. dest \in Directory /\ dest.exists
      BY <1>1 DEF IInv, TypeOK, DestShape, Vacant
  <2>2. DestinationUsed
    <3>1. ASSUME NEW i \in Importers, Step(i) PROVE FALSE
      <4>1. CASE PublishFails(i)
          BY <2>1, <4>1 DEF PublishFails
      <4>2. CASE Publish(i) \/ RemoveEmpty(i)
          BY <4>2 DEF Publish, RemoveEmpty, Vacant
      <4> QED
          BY <3>1, <4>1, <4>2 DEF Step, CheckDestination, ListGlobal,
             ListProjects, ListProject, ReadTopic, Validate, StageBatch,
             StagedAll, RebuildScopes, Verify, Compare, Changed, Fails
    <3> QED
        BY <3>1 DEF Next, BambooWrites, Finished, vars
  <2> QED
      BY <2>1, <2>2 DEF DestinationUsed, Directory
<1> QED
    BY <1>1, IInvHolds, PTL DEF Spec, NeverOverwrites

\* Only the rename makes an import succeed.
LEMMA DoneByPublish ==
    ASSUME IInv, [Next]_vars, NEW i \in Importers,
           pc[i] = "rename", pc'[i] = "done"
    PROVE  Publish(i)
<1>1. Next
    BY DEF vars
<1>2. PICK j \in Importers : Step(j)
    BY <1>1 DEF Next, BambooWrites, DestinationUsed, Finished, vars
<1>3. pc \in [Importers -> Places]
    BY DEF IInv, TypeOK
<1>4. j = i
  <2> SUFFICES ASSUME j # i PROVE FALSE
      OBVIOUS
  <2>1. pc'[i] = pc[i]
      BY <1>2, <1>3 DEF Step, CheckDestination, ListGlobal, ListProjects,
         ListProject, ReadTopic, Validate, StageBatch, StagedAll,
         RebuildScopes, Verify, Compare, Changed, RemoveEmpty, Publish,
         PublishFails, Fails, Ends, Goto, Scanned
  <2> QED
      BY <2>1
<1>5. CASE PublishFails(i) \/ Fails(i)
    BY <1>3, <1>5 DEF PublishFails, Fails, Ends, Goto
<1> QED
    BY <1>2, <1>4, <1>5 DEF Step, CheckDestination, ListGlobal, ListProjects,
       ListProject, ReadTopic, Validate, StageBatch, StagedAll, RebuildScopes,
       Verify, Compare, Changed, RemoveEmpty, Scanned, Scanning

\* What a successful import makes visible is what the source held at one moment,
\* although the import never locks it: a change in between shows in the second
\* scan, because what Bamboo writes is new.
THEOREM ImportIsSnapshot == Spec => PublishedIsSnapshot
<1> DEFINE Published(i) ==
        /\ \A t \in Held(dest'.topics) :
             dest'.topics[t] = Render(frozen[i])[t]
        /\ \A t \in Held(source) \ touched[i] :
             dest'.topics[t] = Render(source)[t]
        /\ UniqueIds(dest'.topics)
        /\ dest'.scopes = UsedScopes(dest'.topics)
<1>1. ASSUME IInv, [Next]_vars, NEW i \in Importers,
             pc[i] = "rename", pc'[i] = "done"
      PROVE  Published(i)
  <2>1. Publish(i)
      BY <1>1, DoneByPublish
  <2>2. /\ staged[i] = Render(first[i])
        /\ rebuilt[i] = UsedScopes(first[i])
        /\ \A t \in Held(first[i]) : first[i][t] = frozen[i][t]
        /\ \A t \in Topics \ touched[i] : first[i][t] = source[t]
        /\ UniqueIds(first[i])
        /\ first[i] \in Contents
      BY <1>1 DEF IInv, TypeOK, Local, Staged, Snapshot, Kept, Fixed, Publishing
  <2>3. /\ dest'.topics = Render(first[i])
        /\ dest'.scopes = UsedScopes(first[i])
      BY <2>1, <2>2 DEF Publish
  <2>4. Held(dest'.topics) = Held(first[i])
      BY <2>2, <2>3, RenderTyped
  <2>5. \A t \in Held(dest'.topics) :
          dest'.topics[t] = Render(frozen[i])[t]
      BY <2>2, <2>3, <2>4 DEF Render, Held
  <2>6. \A t \in Held(source) \ touched[i] :
          dest'.topics[t] = Render(source)[t]
      BY <2>2, <2>3 DEF Render, Held
  <2>7. UniqueIds(dest'.topics) /\ UsedScopes(dest'.topics) = dest'.scopes
      BY <2>2, <2>3, <2>4 DEF UniqueIds, UsedScopes
  <2> QED
      BY <2>5, <2>6, <2>7
<1>2. IInv /\ [Next]_vars =>
        [\A i \in Importers :
           pc[i] = "rename" /\ pc'[i] = "done" => Published(i)]_vars
    BY <1>1
<1> QED
    BY <1>2, IInvHolds, PTL DEF Spec, PublishedIsSnapshot
=============================================================================
