------------------------------ MODULE AtomicFs ------------------------------
(***************************************************************************)
(* atomic_write of the jiandu-memory crate (atomic_fs.rs): one writer      *)
(* creates the directories that are missing, stages a temporary sibling    *)
(* and syncs it, renames it over the target, and then syncs the directory  *)
(* the target is in as well as it can.  What readers see (visible) and     *)
(* what a power loss leaves (durable) are kept apart: the bytes of a       *)
(* staged file are durable before its rename, the rename itself only after *)
(* the directory is synced or the kernel has written it back.  The same    *)
(* goes for a directory that was created: its entry is in its parent,      *)
(* which is synced only by a write of a file in that parent.               *)
(*                                                                         *)
(* A temporary file has a name of its own, which no reader looks for, so   *)
(* it is only what its writer is about to publish, and one that is left    *)
(* behind is not modelled.  The batch of atomic_write_batch is in          *)
(* ScopeStore.                                                             *)
(***************************************************************************)
EXTENDS Integers

CONSTANTS
    Writers,    \* tasks that write files
    Files,      \* the target files
    DirOf,      \* the directory a file is in
    Dirs,       \* the directories that may have to be created
    ParentOf,   \* the directory a directory is in
    NoFile      \* the file does not exist

VARIABLES
    visible,    \* the content of each file, or NoFile
    durable,    \* its content after a power loss that spares its directory
    dirs,       \* whether each directory is there, and its entry synced
    out,        \* what each writer is writing, and where
    io,         \* how far each writer is
    platform    \* on "windows" a rename cannot replace a file, and no
                \* directory can be opened to be synced

fsVars == <<visible, durable, dirs, out, io, platform>>

IoPlaces == {"idle", "rename", "gap", "sync", "ok", "err"}

Platforms == {"unix", "windows"}

\* A directory whose entry is not synced is "made".
DirStates == {"none", "made", "synced"}

\* The directories of Dirs on the way to a file, which is two levels deep.
Way(f) == {DirOf[f], ParentOf[DirOf[f]]} \cap Dirs

IoAt(w, place) == io' = [io EXCEPT ![w] = place]

\* The directories create_dir_all has to make for a file.
Missing(f) == {d \in Way(f) : dirs[d] = "none"}

MakeDirs(D) == dirs' = [d \in Dirs |-> IF d \in D THEN "made" ELSE dirs[d]]

\* atomic_write is called, and write_and_sync stages the bytes under a name no
\* other writer uses; or the directories are created in part, or the bytes are
\* not staged, and the target is left alone.
Submit(w, file, content) ==
    /\ io[w] = "idle"
    /\ out' = [out EXCEPT ![w] = [file |-> file, content |-> content]]
    /\ \/ MakeDirs(Missing(file)) /\ IoAt(w, "rename")
       \/ /\ \E D \in {{}, Missing(file) \ {DirOf[file]}, Missing(file)} :
               MakeDirs(D)
          /\ IoAt(w, "err")

\* A directory entry changes.  The kernel may have written the previous one
\* back by then.
Replaced(f, content) ==
    /\ visible' = [visible EXCEPT ![f] = content]
    /\ \E old \in {durable[f], visible[f]} :
         durable' = [durable EXCEPT ![f] = old]

Blocked(w) == platform = "windows" /\ visible[out[w].file] # NoFile

\* Mutant: the Windows fallback is taken everywhere.
RemoveAlways(w) ==
    /\ io[w] = "rename"
    /\ Replaced(out[w].file, NoFile)
    /\ IoAt(w, "gap")
    /\ UNCHANGED <<dirs, out, platform>>

\* atomic_rename on Windows: the rename is refused, so the target is removed.
RemoveTarget(w) ==
    /\ io[w] = "rename"
    /\ Blocked(w)
    /\ Replaced(out[w].file, NoFile)
    /\ IoAt(w, "gap")
    /\ UNCHANGED <<dirs, out, platform>>

\* The rename.
Rename(w) ==
    /\ io[w] \in {"rename", "gap"}
    /\ ~Blocked(w)
    /\ Replaced(out[w].file, out[w].content)
    /\ IoAt(w, "sync")
    /\ UNCHANGED <<dirs, out, platform>>

\* The rename fails, always when another writer filled the gap on Windows.
RenameFails(w) ==
    /\ io[w] \in {"rename", "gap"}
    /\ IoAt(w, "err")
    /\ UNCHANGED <<visible, durable, dirs, out, platform>>

\* Mutant: the file that was renamed is opened and synced, not its directory.
SyncTarget(w) ==
    /\ io[w] = "sync"
    /\ IoAt(w, "ok")
    /\ UNCHANGED <<visible, durable, dirs, out, platform>>

\* sync_parent_dir: every entry of the directory the file is in, those of its
\* subdirectories too.  The entry of that directory itself is not synced.
SyncDir(w) ==
    LET dir == DirOf[out[w].file] IN
      /\ io[w] = "sync"
      /\ durable' = [f \in Files |->
                       IF platform = "unix" /\ DirOf[f] = dir
                       THEN visible[f] ELSE durable[f]]
      /\ dirs' = [d \in Dirs |->
                    IF /\ platform = "unix"
                       /\ ParentOf[d] = dir
                       /\ dirs[d] = "made"
                    THEN "synced" ELSE dirs[d]]
      /\ IoAt(w, "ok")
      /\ UNCHANGED <<visible, out, platform>>

\* It is best effort: the directory cannot be opened or synced, and the write
\* has succeeded all the same.
SyncFails(w) ==
    /\ io[w] = "sync"
    /\ platform = "unix"
    /\ IoAt(w, "ok")
    /\ UNCHANGED <<visible, durable, dirs, out, platform>>

IoStep(w) ==
    \/ RemoveTarget(w)
    \/ Rename(w)
    \/ RenameFails(w)
    \/ SyncDir(w)

\* The power is lost.  Directories G, whose entries were not synced, are gone
\* with all that is below; elsewhere every entry is the one last synced (those
\* of F) or the latest.
Reverted ==
    /\ \E G \in SUBSET {d \in Dirs : dirs[d] = "made"} :
         /\ \A d \in G : ParentOf[d] \notin G
         /\ dirs' = [d \in Dirs |->
                       IF d \in G \/ ParentOf[d] \in G \/ dirs[d] = "none"
                       THEN "none" ELSE "synced"]
         /\ \E F \in SUBSET {f \in Files : /\ durable[f] # visible[f]
                                           /\ Way(f) \cap G = {}} :
              visible' = [f \in Files |-> IF Way(f) \cap G # {} THEN NoFile
                                          ELSE IF f \in F THEN durable[f]
                                          ELSE visible[f]]
    /\ durable' = visible'

\* A power loss would change nothing.
Settled == durable = visible /\ \A d \in Dirs : dirs[d] # "made"

\* Nothing of f is left to the kernel but the entries of the directories D.
SettledBut(f, D) ==
    /\ durable[f] = visible[f]
    /\ \A d \in Way(f) \ D : dirs[d] = "synced"
=============================================================================
