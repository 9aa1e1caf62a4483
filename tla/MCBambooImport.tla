--------------------------- MODULE MCBambooImport ---------------------------
(* Two imports from a source with a Global and two Project topics, one of   *)
(* which has the id of the Global topic.                                   *)
EXTENDS BambooImport, TLC

CONSTANTS i1, i2, P, t1, t2, t3

TopicScopes == t1 :> Global @@ t2 :> P @@ t3 :> P

TopicIds == t1 :> "x" @@ t2 :> "x" @@ t3 :> "y"

Symmetry == Permutations({i1, i2})
=============================================================================
