--------------------------- MODULE VersionedScope ---------------------------
(***************************************************************************)
(* What one durable scope promises, whatever its writers do: documents     *)
(* change one edit at a time and keep what they say, every derived file is *)
(* rebuilt from the current documents, the generation marker only after    *)
(* all the others, and a Dream is published only for the current           *)
(* documents.                                                              *)
(***************************************************************************)
EXTENDS Naturals

CONSTANTS Ids, Artifacts, Marker, None

VARIABLES docs, artifacts, dream

Scope == <<docs, artifacts, dream>>

Init ==
    /\ artifacts \in {[a \in Artifacts |-> docs], [a \in Artifacts |-> None]}
    /\ dream = None

\* One edit: the next version, keeping the old content and links.
Edit(i) ==
    /\ docs' = [docs EXCEPT ![i] = docs'[i]]
    /\ docs'[i].rev = docs[i].rev + 1
    /\ docs[i].body \subseteq docs'[i].body
    /\ docs[i].supersedes \subseteq docs'[i].supersedes
    /\ docs[i].contradictedBy \subseteq docs'[i].contradictedBy
    /\ UNCHANGED <<artifacts, dream>>

\* One derived file follows the documents.
Derive(a) ==
    /\ a = Marker => \A b \in Artifacts \ {Marker} : artifacts[b] = docs
    /\ artifacts' = [artifacts EXCEPT ![a] = docs]
    /\ UNCHANGED <<docs, dream>>

PublishDream ==
    /\ dream' = docs
    /\ UNCHANGED <<docs, artifacts>>

Next ==
    \/ \E i \in Ids : Edit(i)
    \/ \E a \in Artifacts : Derive(a)
    \/ PublishDream

Spec == Init /\ [][Next]_Scope
=============================================================================
