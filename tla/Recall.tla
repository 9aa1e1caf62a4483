------------------------------- MODULE Recall -------------------------------
(***************************************************************************)
(* How the documents of one scope are matched, ranked, paged and searched  *)
(* for duplicates (store.rs, recall.rs, lexical_bm25.rs, mod.rs).  Pure    *)
(* operators on a snapshot of the scope: the canonical documents, or the   *)
(* lexical index, which is such a snapshot taken at the last refresh.      *)
(*                                                                         *)
(* Data abstraction.  Content is fixed per id: Relevance is what BM25(F)   *)
(* makes of an active document for the query in use, zero when no token of *)
(* the query occurs in it, and Similar holds the pairs whose keyword sets  *)
(* reach the Jaccard threshold.  A stamp stands for updated_at, and the    *)
(* order of the ids for that of the titles.                                *)
(***************************************************************************)
EXTENDS Integers, FiniteSets, Sequences, SequencesExt

CONSTANTS
    Ids,        \* memory ids
    Relevance,  \* score of each id for the query, before the status counts
    Stability,  \* cache_stability_rank of the granularity of each id
    Similar,    \* unordered pairs of ids with similar keywords
    Sections,   \* sections appended to each id's body
    MinSections,\* min_sections of scan_blobs
    MaxMembers, \* members of a duplicate cluster
    Limit,      \* limit of a page
    None        \* no Project, no artifact

AllStatuses == {"active", "stale", "superseded", "contradicted", "archived"}

ASSUME RecallAssumption ==
    /\ Ids \subseteq Nat \ {0}
    /\ Relevance \in [Ids -> Nat]
    /\ Stability \in [Ids -> Nat]
    /\ Similar \subseteq SUBSET Ids
    /\ Sections \in [Ids -> Nat]
    /\ MinSections \in Nat
    /\ MaxMembers \in Nat \ {0, 1}
    /\ Limit \in Nat \ {0}

Absent == [status |-> "none", stamp |-> 0]

Present(m) == {i \in Ids : m[i] # Absent}

\* The ids that the filters let through.
Filtered(m, statuses) == {i \in Present(m) : m[i].status \in statuses}

Actives(m) == Filtered(m, {"active"})

-----------------------------------------------------------------------------
(* Rank and page.                                                          *)

\* A stale document scores half of what it would score if it were active.
Score(m, i) ==
    IF m[i].status = "stale" THEN Relevance[i] ELSE 2 * Relevance[i]

\* A list sorted by Before, which puts any two of its elements in order: an
\* element comes after as many as come before it.
Ordered(S, Before(_, _)) ==
    [n \in 1..Cardinality(S) |->
       CHOOSE i \in S : Cardinality({j \in S : Before(j, i)}) = n - 1]

Newer(m, i, j) ==
    \/ m[i].stamp > m[j].stamp
    \/ m[i].stamp = m[j].stamp /\ i < j

\* sort_recall_candidates: score, then the stabler horizon, then recency.
Outranks(m, i, j) ==
    \/ Score(m, i) > Score(m, j)
    \/ /\ Score(m, i) = Score(m, j)
       /\ \/ Stability[i] < Stability[j]
          \/ Stability[i] = Stability[j] /\ Newer(m, i, j)

\* What a query with words finds in the index, every status included.
Hits(m, statuses) ==
    Ordered({i \in Filtered(m, statuses) : Relevance[i] > 0},
            LAMBDA i, j : Outranks(m, i, j))

\* What a blank query lists: every match scores alike, so recency decides.
Listing(m, statuses) ==
    Ordered(Filtered(m, statuses), LAMBDA i, j : Newer(m, i, j))

Ranking(m, blank, statuses) ==
    IF blank THEN Listing(m, statuses) ELSE Hits(m, statuses)

\* Passive recall ranks active and stale documents only.
Shortlist(index) ==
    IF index = None THEN <<>> ELSE Hits(index, {"active", "stale"})

\* Skip the cursor's offset, take one page.
Page(ranked, offset) ==
    SubSeq(ranked, offset + 1,
           IF offset + Limit < Len(ranked) THEN offset + Limit ELSE Len(ranked))

\* Mutant: the cursor points at the last item returned.
NextFromLast(ranked, offset) ==
    IF offset + Limit < Len(ranked)
    THEN offset + Len(Page(ranked, offset)) - 1 ELSE 0

\* next_cursor, zero when nothing remains.
NextOffset(ranked, offset) ==
    IF offset + Limit < Len(ranked)
    THEN offset + Len(Page(ranked, offset)) ELSE 0

\* What a caller has got, and the cursor it has, after one more page.
Turned(ranked, got) ==
    IF got.next = 0 THEN got
    ELSE [ids |-> got.ids \o Page(ranked, got.next),
          next |-> NextOffset(ranked, got.next)]

\* The ids a caller gets that follows the cursors to the end, page by page.
Followed(ranked) ==
    LET walk[n \in 0..Cardinality(Ids)] ==
            IF n = 0
            THEN [ids |-> Page(ranked, 0), next |-> NextOffset(ranked, 0)]
            ELSE Turned(ranked, walk[n - 1])
    IN  walk[Cardinality(Ids)].ids

-----------------------------------------------------------------------------
(* Duplicates and blobs: active documents only.                            *)

\* Memories in the order of their ids, which stands for that of their titles.
InIdOrder(S) == Ordered(S, <)

\* Documents similar to the text of i, in the order of their ids.
DuplicatesOf(m, i) ==
    Page(InIdOrder({j \in Actives(m) : {i, j} \in Similar}), 0)

\* The documents that find_similar_memory may have a write merged into: which
\* one it takes depends on the words, that it is active does not.
MergeTargets(m) == Actives(m)

\* As for clusters, the limit on the report is left out.
Blobs(m) ==
    Ordered({i \in Actives(m) : Sections[i] >= MinSections},
            LAMBDA i, j : \/ Sections[i] > Sections[j]
                          \/ Sections[i] = Sections[j] /\ i < j)

\* The partners of the seed at place k: later in the list, in no cluster yet,
\* the strongest up to the cap (scores are not told apart, so the first ids).
Partners(order, k, used) ==
    LET later == {j \in {order[n] : n \in (k + 1)..Len(order)} :
                    {order[k], j} \in Similar /\ j \notin used}
        best  == InIdOrder(later)
    IN  {best[n] : n \in {x \in 1..Len(best) : x < MaxMembers}}

\* The clusters so far and, unless it is in one or has no partner, that of the
\* seed at place k.
Seeded(order, k, clusters) ==
    LET used     == UNION clusters
        partners == Partners(order, k, used)
    IN  IF order[k] \in used \/ partners = {} THEN clusters
        ELSE clusters \cup {partners \cup {order[k]}}

\* Greedy clustering, seeded in list order.
Clusters(m) ==
    LET order == Listing(m, {"active"})
        grown[k \in 0..Len(order)] ==
            IF k = 0 THEN {} ELSE Seeded(order, k, grown[k - 1])
    IN  grown[Len(order)]
=============================================================================
