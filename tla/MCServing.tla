----------------------------- MODULE MCServing ------------------------------
(* Values for TLC. *)
EXTENDS Serving

CONSTANTS p1, p2, s1, s2, r1, m1

MCRelevance == [i \in Ids |-> IF i = 2 THEN 2 ELSE 1]
MCStability == [i \in Ids |-> IF i = 3 THEN 0 ELSE 1]
MCSimilar == {{1, 2}, {2, 3}}
MCSections == [i \in Ids |-> i]

\* A document in Global and, in each Project, another with the same id.
MCInitDocs ==
    [layout \in Layouts |->
       CASE layout = "global" -> {1, 2}
         [] layout = "project" -> {1}
         [] OTHER -> {}]

MCOthers == {FirstClass(p1)}

MCFilters == {AllStatuses, {"active"}}
=============================================================================
