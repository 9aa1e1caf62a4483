---------------------------- MODULE BambooImport ----------------------------
(***************************************************************************)
(* The one-shot import of Bamboo's topics (bamboo_import.rs).  Importers   *)
(* scan a source they never lock, file after file, stage what they read in *)
(* a directory of their own, scan the source again, and rename the staging *)
(* directory to a destination that has to be absent or empty.  Meanwhile   *)
(* Bamboo may write its topics and another program may use the             *)
(* destination.                                                            *)
(*                                                                         *)
(* Data abstraction.  A topic's content is a version, which Bamboo never   *)
(* uses twice for one topic, and a form: in the current schema, with       *)
(* retired metadata that rendering drops, or refused by the validation.    *)
(* The two content identities are compared as the contents they hash.      *)
(***************************************************************************)
EXTENDS Integers, FiniteSets

CONSTANTS
    Importers,  \* runs of the import, with one source and one destination
    Topics,     \* canonical topic files
    Projects,   \* Project directories
    Global,     \* the Global scope
    ScopeOf,    \* the scope whose directory a topic is in
    IdOf,       \* the memory id in a topic's file name
    BatchSize,  \* TOPIC_BATCH_SIZE
    MaxWrites,  \* bound on what Bamboo writes during the imports
    Absent      \* no such file

Scopes == Projects \cup {Global}

Forms == {"current", "retired", "invalid"}

Content == [version : 0..MaxWrites, form : Forms]

ASSUME ImportAssumption ==
    /\ Global \notin Projects
    /\ ScopeOf \in [Topics -> Scopes]
    /\ BatchSize \in Nat \ {0}
    /\ MaxWrites \in Nat
    /\ Absent \notin Content

VARIABLES
    source,     \* Bamboo's topics
    writes,     \* how often Bamboo has written
    dest,       \* the destination directory
    pc,         \* where each import is
    wasEmpty,   \* the destination was an empty directory, not absent
    todo,       \* the scopes a scan has still to list
    listed,     \* the topics it has listed and not read
    got,        \* what it has read
    first,      \* the first scan
    staged,     \* the topics in the staging directory
    rebuilt,    \* the scopes rebuilt there
    frozen,     \* history: the source when the first scan ended
    touched     \* history: the topics written since the first scan began

scanVars == <<todo, listed, got>>
stageVars == <<first, staged, rebuilt, frozen>>
vars == <<source, writes, dest, pc, wasEmpty, scanVars, stageVars, touched>>

Contents == [Topics -> Content \cup {Absent}]

Nothing == [t \in Topics |-> Absent]

Held(map) == {t \in Topics : map[t] # Absent}

\* parse_markdown_document, then render_markdown_document.
Render(map) ==
    [t \in Topics |-> IF map[t] = Absent THEN Absent
                      ELSE [map[t] EXCEPT !.form = "current"]]

\* A directory: what an import puts there, and whether there is more.
Directory == [exists : BOOLEAN, topics : Contents, scopes : SUBSET Scopes,
              foreign : BOOLEAN]

NoDirectory ==
    [exists |-> FALSE, topics |-> Nothing, scopes |-> {}, foreign |-> FALSE]

EmptyDirectory == [NoDirectory EXCEPT !.exists = TRUE]

Vacant(d) == d \in {NoDirectory, EmptyDirectory}

Scanning == {"scan global", "scan projects", "scan", "again global",
             "again projects", "again"}

Ended == {"done", "failed", "changed"}

Places == {"start", "stage", "rebuild", "verify", "remove", "rename"}
          \cup Scanning \cup Ended

Goto(i, place) == pc' = [pc EXCEPT ![i] = place]

Init ==
    /\ source \in [Topics -> [version : {0}, form : Forms] \cup {Absent}]
    /\ writes = 0
    /\ dest \in {NoDirectory, EmptyDirectory}
    /\ pc = [i \in Importers |-> "start"]
    /\ wasEmpty = [i \in Importers |-> FALSE]
    /\ todo = [i \in Importers |-> {}]
    /\ listed = [i \in Importers |-> {}]
    /\ got = [i \in Importers |-> Nothing]
    /\ first = got
    /\ staged = got
    /\ rebuilt = [i \in Importers |-> {}]
    /\ frozen = got
    /\ touched = [i \in Importers |-> {}]

-----------------------------------------------------------------------------
(* The rest of the world.                                                  *)

\* Bamboo writes a topic anew, creates it or deletes it.
BambooWrites ==
    /\ writes < MaxWrites
    /\ writes' = writes + 1
    /\ \E t \in Topics :
         /\ source' \in {[source EXCEPT ![t] = c] :
              c \in [version : {writes'}, form : Forms]
                    \cup (IF source[t] = Absent THEN {} ELSE {Absent})}
         /\ touched' = [i \in Importers |->
                          IF pc[i] \in {"start"} \cup Ended THEN touched[i]
                          ELSE touched[i] \cup {t}]
    /\ UNCHANGED <<dest, pc, wasEmpty, scanVars, stageVars>>

\* Another program creates the destination, or a file in it.
DestinationUsed ==
    /\ dest' = [dest EXCEPT !.exists = TRUE, !.foreign = dest.exists]
    /\ dest' # dest
    /\ UNCHANGED <<source, writes, pc, wasEmpty, scanVars, stageVars, touched>>

-----------------------------------------------------------------------------
(* An import.                                                              *)

\* destination_is_absent_or_empty
CheckDestination(i) ==
    /\ pc[i] = "start"
    /\ Vacant(dest)
    /\ wasEmpty' = [wasEmpty EXCEPT ![i] = dest.exists]
    /\ Goto(i, "scan global")
    /\ UNCHANGED <<source, writes, dest, scanVars, stageVars, touched>>

\* scan_topic_directory: the directory of one scope is listed.
Lists(i, s) ==
    listed' = [listed EXCEPT ![i] = {t \in Held(source) : ScopeOf[t] = s}]

ListGlobal(i) ==
    /\ pc[i] \in {"scan global", "again global"}
    /\ Lists(i, Global)
    /\ Goto(i, IF pc[i] = "scan global" THEN "scan projects"
               ELSE "again projects")
    /\ UNCHANGED <<source, writes, dest, wasEmpty, todo, got, stageVars,
                   touched>>

\* Mutant: the Global directory is taken for a Project's.
ListEveryScope(i) ==
    /\ pc[i] \in {"scan projects", "again projects"}
    /\ listed[i] = {}
    /\ todo' = [todo EXCEPT ![i] = {ScopeOf[t] : t \in Held(source)}]
    /\ Goto(i, IF pc[i] = "scan projects" THEN "scan" ELSE "again")
    /\ UNCHANGED <<source, writes, dest, wasEmpty, listed, got, stageVars,
                   touched>>

\* scan_bamboo_topics lists the Project directories once.
ListProjects(i) ==
    /\ pc[i] \in {"scan projects", "again projects"}
    /\ listed[i] = {}
    /\ todo' = [todo EXCEPT
                  ![i] = {ScopeOf[t] : t \in Held(source)} \ {Global}]
    /\ Goto(i, IF pc[i] = "scan projects" THEN "scan" ELSE "again")
    /\ UNCHANGED <<source, writes, dest, wasEmpty, listed, got, stageVars,
                   touched>>

ListProject(i) ==
    /\ pc[i] \in {"scan", "again"}
    /\ listed[i] = {}
    /\ \E p \in todo[i] :
         /\ Lists(i, p)
         /\ todo' = [todo EXCEPT ![i] = @ \ {p}]
    /\ UNCHANGED <<source, writes, dest, pc, wasEmpty, got, stageVars, touched>>

\* A listed topic is read and validated.
ReadTopic(i) ==
    /\ pc[i] \in Scanning
    /\ \E t \in listed[i] :
         /\ source[t] # Absent
         /\ source[t].form # "invalid"
         /\ got' = [got EXCEPT ![i][t] = source[t]]
         /\ listed' = [listed EXCEPT ![i] = @ \ {t}]
    /\ UNCHANGED <<source, writes, dest, pc, wasEmpty, todo, stageVars,
                   touched>>

\* The scan has read everything it listed.
Scanned(i, place) == pc[i] = place /\ todo[i] = {} /\ listed[i] = {}

\* No id is used by two topics, whatever their scopes.
UniqueIds(map) ==
    \A t, u \in Held(map) : IdOf[t] = IdOf[u] => t = u

\* The first scan ends, and a staging directory is made beside the destination.
Validate(i) ==
    /\ Scanned(i, "scan")
    /\ UniqueIds(got[i])
    /\ first' = [first EXCEPT ![i] = got[i]]
    /\ frozen' = [frozen EXCEPT ![i] = source]
    /\ got' = [got EXCEPT ![i] = Nothing]
    /\ Goto(i, "stage")
    /\ UNCHANGED <<source, writes, dest, wasEmpty, todo, listed, staged,
                   rebuilt, touched>>

Unstaged(i) == Held(first[i]) \ Held(staged[i])

Smaller(a, b) == IF a < b THEN a ELSE b

\* One batch of rendered topics is written.
StageBatch(i) ==
    /\ pc[i] = "stage"
    /\ Unstaged(i) # {}
    /\ \E B \in SUBSET Unstaged(i) :
         /\ Cardinality(B) = Smaller(BatchSize, Cardinality(Unstaged(i)))
         /\ staged' = [staged EXCEPT ![i] =
              [t \in Topics |-> IF t \in B THEN Render(first[i])[t] ELSE @[t]]]
    /\ UNCHANGED <<source, writes, dest, pc, wasEmpty, scanVars, first,
                   rebuilt, frozen, touched>>

StagedAll(i) ==
    /\ pc[i] = "stage"
    /\ Unstaged(i) = {}
    /\ Goto(i, "rebuild")
    /\ UNCHANGED <<source, writes, dest, wasEmpty, scanVars, stageVars,
                   touched>>

\* The scopes that have topics.
UsedScopes(map) == {ScopeOf[t] : t \in Held(map)}

\* rebuild_scope of the staging store, for each scope with topics.
RebuildScopes(i) ==
    /\ pc[i] = "rebuild"
    /\ rebuilt' = [rebuilt EXCEPT ![i] = UsedScopes(first[i])]
    /\ Goto(i, "verify")
    /\ UNCHANGED <<source, writes, dest, wasEmpty, scanVars, first, staged,
                   frozen, touched>>

\* The staging directory, which nobody else knows, is scanned: its contents and
\* what they render to are both the expected ones.
Verify(i) ==
    /\ pc[i] = "verify"
    /\ staged[i] = Render(first[i])
    /\ Render(staged[i]) = Render(first[i])
    /\ Goto(i, "again global")
    /\ UNCHANGED <<source, writes, dest, wasEmpty, scanVars, stageVars,
                   touched>>

\* Mutant: the second scan is compared with what was staged.
SameAsStaged(i) == got[i] = staged[i]

\* Mutant: only the number of topics is compared.
SameCount(i) == Cardinality(Held(got[i])) = Cardinality(Held(first[i]))

\* Both content identities of the second scan are those of the first.
SameSource(i) == got[i] = first[i] /\ Render(got[i]) = Render(first[i])

\* The second scan ends, and has to find what the first one found.
Compare(i) ==
    /\ Scanned(i, "again")
    /\ UniqueIds(got[i])
    /\ SameSource(i)
    /\ got' = [got EXCEPT ![i] = Nothing]
    /\ Goto(i, IF wasEmpty[i] THEN "remove" ELSE "rename")
    /\ UNCHANGED <<source, writes, dest, wasEmpty, todo, listed, stageVars,
                   touched>>

\* The import ends: its staging directory is published, dropped, or left where
\* nobody looks for it.
Ends(i, how) ==
    /\ Goto(i, how)
    /\ todo' = [todo EXCEPT ![i] = {}]
    /\ listed' = [listed EXCEPT ![i] = {}]
    /\ got' = [got EXCEPT ![i] = Nothing]
    /\ first' = [first EXCEPT ![i] = Nothing]
    /\ staged' = [staged EXCEPT ![i] = Nothing]
    /\ rebuilt' = [rebuilt EXCEPT ![i] = {}]
    /\ frozen' = [frozen EXCEPT ![i] = Nothing]
    /\ wasEmpty' = [wasEmpty EXCEPT ![i] = FALSE]
    /\ touched' = [touched EXCEPT ![i] = IF how = "changed" THEN @ ELSE {}]

\* Bamboo changed its topics meanwhile.
Changed(i) ==
    /\ Scanned(i, "again")
    /\ UniqueIds(got[i])
    /\ ~SameSource(i)
    /\ Ends(i, "changed")
    /\ UNCHANGED <<source, writes, dest>>

\* Mutant: remove_dir_all.
RemoveAll(i) ==
    /\ pc[i] = "remove"
    /\ dest' = NoDirectory
    /\ Goto(i, "rename")
    /\ UNCHANGED <<source, writes, wasEmpty, scanVars, stageVars, touched>>

\* remove_dir takes an empty directory only.
RemoveEmpty(i) ==
    /\ pc[i] = "remove"
    /\ dest = EmptyDirectory
    /\ dest' = NoDirectory
    /\ Goto(i, "rename")
    /\ UNCHANGED <<source, writes, wasEmpty, scanVars, stageVars, touched>>

\* rename replaces an empty directory, never one with entries.
Publish(i) ==
    /\ pc[i] = "rename"
    /\ Vacant(dest)
    /\ dest' = [exists |-> TRUE, topics |-> staged[i], scopes |-> rebuilt[i],
                foreign |-> FALSE]
    /\ Ends(i, "done")
    /\ UNCHANGED <<source, writes>>

\* The rename fails, and the empty directory is put back as well as possible.
PublishFails(i) ==
    /\ pc[i] = "rename"
    /\ dest' \in {dest, IF wasEmpty[i] /\ ~dest.exists THEN EmptyDirectory
                        ELSE dest}
    /\ Ends(i, "failed")
    /\ UNCHANGED <<source, writes>>

\* Any other step fails, or the process dies.
Fails(i) ==
    /\ pc[i] \notin Ended
    /\ Ends(i, "failed")
    /\ UNCHANGED <<source, writes, dest>>

Step(i) ==
    \/ CheckDestination(i)
    \/ ListGlobal(i)
    \/ ListProjects(i)
    \/ ListProject(i)
    \/ ReadTopic(i)
    \/ Validate(i)
    \/ StageBatch(i)
    \/ StagedAll(i)
    \/ RebuildScopes(i)
    \/ Verify(i)
    \/ Compare(i)
    \/ Changed(i)
    \/ RemoveEmpty(i)
    \/ Publish(i)
    \/ PublishFails(i)
    \/ Fails(i)

\* Every import has ended.
Finished ==
    /\ \A i \in Importers : pc[i] \in Ended
    /\ UNCHANGED vars

Next ==
    \/ \E i \in Importers : Step(i)
    \/ BambooWrites
    \/ DestinationUsed
    \/ Finished

Spec == Init /\ [][Next]_vars

-----------------------------------------------------------------------------

TypeOK ==
    /\ source \in Contents
    /\ writes \in 0..MaxWrites
    /\ dest \in Directory
    /\ pc \in [Importers -> Places]
    /\ wasEmpty \in [Importers -> BOOLEAN]
    /\ todo \in [Importers -> SUBSET Projects]
    /\ listed \in [Importers -> SUBSET Topics]
    /\ {got, first, staged, frozen} \subseteq [Importers -> Contents]
    /\ rebuilt \in [Importers -> SUBSET Scopes]
    /\ touched \in [Importers -> SUBSET Topics]

\* What becomes visible is a snapshot although the source is never locked: each
\* published topic is what the source held when the first scan ended, no topic
\* that stayed as it was is missing, no id occurs twice, and the scopes that
\* have topics are rebuilt.
PublishedIsSnapshot ==
    [][\A i \in Importers :
         pc[i] = "rename" /\ pc'[i] = "done" =>
           /\ \A t \in Held(dest'.topics) :
                dest'.topics[t] = Render(frozen[i])[t]
           /\ \A t \in Held(source) \ touched[i] :
                dest'.topics[t] = Render(source)[t]
           /\ UniqueIds(dest'.topics)
           /\ dest'.scopes = UsedScopes(dest'.topics)]_vars

\* A destination that holds anything keeps it: neither the removal of an empty
\* directory nor the rename can hit one that was filled since it was checked.
NeverOverwrites ==
    [][~Vacant(dest) =>
         /\ dest'.topics = dest.topics
         /\ dest'.scopes = dest.scopes
         /\ dest.foreign => dest'.foreign]_vars

\* An import is refused as changed only when Bamboo did write during it, however
\* much the imported form differs from the source.
RefusalIsJustified ==
    \A i \in Importers : pc[i] = "changed" => touched[i] # {}
=============================================================================
