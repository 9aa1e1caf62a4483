--------------------------- MODULE MCSessionNotes ---------------------------
(* Two calls of one process, which may exclude each other, and one of       *)
(* another process.                                                        *)
EXTENDS SessionNotes, TLC

CONSTANTS p1, p2, a, b, c, k1, k2

\* The process with two calls is a server or a library user, the other one is
\* a library user.
HandlerOrLibrary == {p1 :> d @@ p2 :> "library" : d \in Doors}

\* Between them the processes use every operation.
SharedOut == p1 :> {"append", "clear", "mark", "read"} @@
             p2 :> {"append", "replace"}

TwoAndOne == a :> p1 @@ b :> p1 @@ c :> p2

\* note/*.md and state.json are in two directories.
NoteDirAndRoot == k1 :> "note" @@ k2 :> "note" @@ State :> "session"

\* The note directory is in that of the session, which is in one that exists.
NoteInSession == "note" :> "session" @@ "session" :> "sessions"

\* The calls of one process may be exchanged.
Symmetry == Permutations({a, b})
=============================================================================
