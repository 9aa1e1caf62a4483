--------------------------- MODULE Recall_proofs ----------------------------
(***************************************************************************)
(* What the lists and clusters of Recall hold, for every snapshot of a     *)
(* finite scope.  A list holds each of its memories once: the ranks of the *)
(* members of a finite ordered set are its numbers from zero.  What is     *)
(* computed step by step, page after page or cluster after cluster, is     *)
(* reasoned about by the least step at which a claim would fail.           *)
(***************************************************************************)
EXTENDS Recall, FiniteSetTheorems, FunctionTheorems, SequenceTheorems,
        WellFoundedInduction, TLAPS

-----------------------------------------------------------------------------
(* Steps counted from zero.                                                *)

\* A set of numbers has a least element: of the intervals that reach from 0 to
\* a member of it, one contains no other.
LEMMA Least ==
  ASSUME NEW S \in SUBSET Nat, S # {}
  PROVE  \E n \in S : \A m \in S : n <= m
<1> DEFINE R == StrictSubsetOrdering(Nat)
           T == {0..n : n \in S}
<1>1. IsWellFoundedOn(R, FiniteSubsetsOf(Nat))
  BY FS_StrictSubsetOrderingWellFounded
<1>2. T \subseteq FiniteSubsetsOf(Nat) /\ T # {}
  <2>1. ASSUME NEW n \in S PROVE 0..n \in FiniteSubsetsOf(Nat)
    <3>1. n \in Int /\ 0 \in Int /\ 0..n \in SUBSET Nat
      OBVIOUS
    <3>2. IsFiniteSet(0..n)
      BY <3>1, FS_Interval
    <3> QED
      BY <3>1, <3>2 DEF FiniteSubsetsOf
  <2> QED
    BY <2>1
<1> HIDE DEF R
<1>3. \E x \in T : \A y \in T : ~(<<y, x>> \in R)
  <2> HIDE DEF T
  <2> QED
    BY <1>1, <1>2, WFMin
<1>4. PICK n \in S : \A m \in S : ~(<<0..m, 0..n>> \in R)
  BY <1>3
<1>5. ASSUME NEW m \in S, m < n PROVE FALSE
  <2>1. 0..m \subseteq 0..n /\ n \in 0..n /\ n \notin 0..m
    BY <1>5
  <2>2. 0..m # 0..n
    BY <2>1
  <2>3. 0..m \in SUBSET Nat /\ 0..n \in SUBSET Nat
    OBVIOUS
  <2>4. <<0..m, 0..n>> \in R
    BY <2>1, <2>2, <2>3 DEF R, StrictSubsetOrdering
  <2> QED
    BY <2>4, <1>4
<1> QED
  BY <1>4, <1>5

\* Induction over the steps up to N: P is the set of those that are fine.
LEMMA StepsTo ==
  ASSUME NEW N \in Nat, NEW P, 0 \in P,
         \A n \in 0..N : n \in P /\ n < N => n + 1 \in P
  PROVE  \A n \in 0..N : n \in P
<1> DEFINE bad == (0..N) \ P
<1>1. SUFFICES ASSUME bad # {} PROVE FALSE
  OBVIOUS
<1>2. PICK n \in bad : \A m \in bad : n <= m
  <2>1. bad \in SUBSET Nat
    OBVIOUS
  <2> HIDE DEF bad
  <2> QED
    BY <1>1, <2>1, Least
<1>3. n \in 1..N /\ n - 1 \in 0..N
  BY <1>2
<1>4. n - 1 \in P
  BY <1>2, <1>3
<1>5. (n - 1) + 1 = n /\ n - 1 < N
  BY <1>3
<1> QED
  BY <1>2, <1>3, <1>4, <1>5

\* The values g[0], ..., g[N] start at a and go on by the steps f.
Walk(g, N, T, a, f) ==
    /\ g \in [0..N -> T]
    /\ \A n \in 0..N : g[n] = IF n = 0 THEN a ELSE f[<<n, g[n - 1]>>]

\* There is such a walk.
LEMMA Iterated ==
  ASSUME NEW T, NEW a \in T, NEW N \in Nat, NEW f \in [(1..N) \X T -> T]
  PROVE  \E g : Walk(g, N, T, a, f)
<1> DEFINE Steps(k, g) ==
             \A n \in 0..k : g[n] = IF n = 0 THEN a ELSE f[<<n, g[n - 1]>>]
           P == {k \in 0..N : \E g \in [0..k -> T] : Steps(k, g)}
<1>1. 0 \in P
  <2>1. [n \in 0..0 |-> a] \in [0..0 -> T] /\ Steps(0, [n \in 0..0 |-> a])
    OBVIOUS
  <2>2. \E g \in [0..0 -> T] : Steps(0, g)
    BY <2>1
  <2>3. 0 \in 0..N
    OBVIOUS
  <2> QED
    BY <2>2, <2>3
<1>2. ASSUME NEW k \in 0..N, k \in P, k < N PROVE k + 1 \in P
  <2>1. PICK g \in [0..k -> T] : Steps(k, g)
    BY <1>2
  <2> DEFINE h == [n \in 0..k + 1 |-> IF n <= k THEN g[n]
                                      ELSE f[<<k + 1, g[k]>>]]
  <2>2. k \in Nat /\ k + 1 \in 1..N /\ k \in 0..k
    BY <1>2
  <2>3. <<k + 1, g[k]>> \in (1..N) \X T
    BY <2>1, <2>2
  <2>4. f[<<k + 1, g[k]>>] \in T
    BY <2>3
  <2>5. h \in [0..k + 1 -> T]
    BY <2>1, <2>2, <2>4
  <2>6. ASSUME NEW n \in 0..k + 1
        PROVE  h[n] = IF n = 0 THEN a ELSE f[<<n, h[n - 1]>>]
    <3>1. CASE n = 0
      <4>1. h[n] = g[0] /\ 0 \in 0..k
        BY <2>2, <3>1
      <4> HIDE DEF h
      <4> QED
        BY <2>1, <3>1, <4>1
    <3>2. CASE n \in 1..k
      <4>1. h[n] = g[n] /\ h[n - 1] = g[n - 1] /\ n \in 0..k /\ n # 0
        BY <2>2, <3>2
      <4> HIDE DEF h
      <4> QED
        BY <2>1, <4>1
    <3>3. CASE n = k + 1
      <4>1. h[n] = f[<<k + 1, g[k]>>] /\ h[k] = g[k] /\ n - 1 = k /\ n # 0
        BY <2>2, <3>3
      <4> HIDE DEF h
      <4> QED
        BY <3>3, <4>1
    <3> QED
      BY <2>2, <3>1, <3>2, <3>3
  <2>7. Steps(k + 1, h)
    BY <2>6
  <2>8. \E e \in [0..k + 1 -> T] : Steps(k + 1, e)
    <3> HIDE DEF h, Steps
    <3> QED
      BY <2>5, <2>7
  <2>9. k + 1 \in 0..N
    BY <2>2
  <2> HIDE DEF h, Steps
  <2> QED
    BY <2>8, <2>9
<1>3. \A n \in 0..N : n \in P
  <2> HIDE DEF P
  <2> QED
    BY <1>1, <1>2, StepsTo
<1>4. N \in P
  BY <1>3
<1> QED
  BY <1>4 DEF Walk

-----------------------------------------------------------------------------
(* Lists.                                                                  *)

\* The list s holds each member of S once, and nothing else.
Enumerates(s, S) ==
    /\ s \in Seq(S)
    /\ Len(s) = Cardinality(S)
    /\ ToSet(s) = S
    /\ \A m, n \in 1..Len(s) : s[m] = s[n] => m = n

\* What comes before each member of S, in some order of S.
Order(S, below) ==
    /\ below \in [S -> SUBSET S]
    /\ \A i \in S : i \notin below[i]
    /\ \A i, j \in S : i \in below[j] => below[i] \subseteq below[j]
    /\ \A i, j \in S : i = j \/ i \in below[j] \/ j \in below[i]

\* In a finite set the ranks are the numbers from zero, each once.
LEMMA Ranks ==
  ASSUME NEW S, IsFiniteSet(S), NEW below, Order(S, below)
  PROVE  /\ Cardinality(S) \in Nat
         /\ \A i, j \in S :
              Cardinality(below[i]) = Cardinality(below[j]) => i = j
         /\ \A n \in 1..Cardinality(S) :
              \E i \in S : Cardinality(below[i]) = n - 1
<1> DEFINE N == Cardinality(S)
           rank == [i \in S |-> Cardinality(below[i]) + 1]
<1>1. N \in Nat
  BY FS_CardinalityType
<1>2. ASSUME NEW i \in S
      PROVE  IsFiniteSet(below[i]) /\ Cardinality(below[i]) \in 0 .. N - 1
  <2>1. below[i] \in SUBSET (S \ {i})
    BY DEF Order
  <2>2. IsFiniteSet(S \ {i}) /\ Cardinality(S \ {i}) = N - 1
    BY FS_RemoveElement
  <2>3. /\ IsFiniteSet(below[i]) /\ Cardinality(below[i]) \in Nat
        /\ Cardinality(below[i]) <= N - 1
    BY <2>1, <2>2, FS_Subset, FS_CardinalityType
  <2> QED
    BY <1>1, <2>3
<1>3. ASSUME NEW i \in S, NEW j \in S, i \in below[j]
      PROVE  Cardinality(below[i]) < Cardinality(below[j])
  <2>1. below[i] \in SUBSET below[j] /\ below[i] # below[j]
    BY <1>3 DEF Order
  <2>2. /\ Cardinality(below[i]) <= Cardinality(below[j])
        /\ Cardinality(below[i]) # Cardinality(below[j])
    BY <1>2, <2>1, FS_Subset
  <2> QED
    BY <1>2, <2>2
<1>4. ASSUME NEW i \in S, NEW j \in S,
             Cardinality(below[i]) = Cardinality(below[j])
      PROVE  i = j
  <2>1. /\ Cardinality(below[i]) \in Int /\ Cardinality(below[j]) \in Int
    BY <1>2
  <2>2. i \notin below[j]
    BY <1>3, <1>4, <2>1
  <2>3. j \notin below[i]
    BY <1>3, <1>4, <2>1
  <2> QED
    BY <2>2, <2>3 DEF Order
<1>5. rank \in Injection(S, 1..N)
  <2>1. rank \in [S -> 1..N]
    BY <1>1, <1>2
  <2>2. ASSUME NEW i \in S, NEW j \in S, rank[i] = rank[j] PROVE i = j
    <3>1. Cardinality(below[i]) + 1 = Cardinality(below[j]) + 1
      BY <2>2
    <3> QED
      BY <1>2, <1>4, <3>1
  <2> HIDE DEF rank
  <2> QED
    BY <2>1, <2>2, Fun_IsInj
<1>6. IsFiniteSet(1..N) /\ Cardinality(1..N) = N
  BY <1>1, FS_Interval
<1>7. rank \in Surjection(S, 1..N)
  <2> HIDE DEF rank
  <2> QED
    BY <1>5, <1>6, FS_Injection
<1>8. ASSUME NEW n \in 1..N PROVE \E i \in S : Cardinality(below[i]) = n - 1
  <2>1. PICK i \in S : rank[i] = n
    <3> HIDE DEF rank
    <3> QED
      BY <1>7 DEF Surjection
  <2>2. Cardinality(below[i]) \in Int /\ Cardinality(below[i]) + 1 = n
    BY <1>2, <2>1
  <2> QED
    BY <2>2
<1> QED
  BY <1>1, <1>4, <1>8

\* A list that has at each place the member of that rank.
LEMMA Ranked ==
  ASSUME NEW S, IsFiniteSet(S), NEW below, Order(S, below),
         NEW s, s = [n \in 1..Cardinality(S) |-> s[n]],
         \A n \in 1..Cardinality(S) :
            s[n] \in S /\ Cardinality(below[s[n]]) = n - 1
  PROVE  Enumerates(s, S)
<1> DEFINE N == Cardinality(S)
<1>1. N \in Nat
  BY Ranks
<1>2. s \in [1..N -> S] /\ DOMAIN s = 1..N
  OBVIOUS
<1>3. s \in Seq(S) /\ Len(s) = N
  BY <1>1, <1>2
<1>4. ASSUME NEW m \in 1..N, NEW n \in 1..N, s[m] = s[n] PROVE m = n
  <2>1. m - 1 = n - 1
    BY <1>4
  <2> QED
    BY <1>1, <2>1
<1>5. IsFiniteSet(1..N) /\ Cardinality(1..N) = N
  BY <1>1, FS_Interval
<1>6. s \in Injection(1..N, S)
  BY <1>2, <1>4, Fun_IsInj
<1>7. s \in Surjection(1..N, S)
  BY <1>5, <1>6, FS_Injection
<1>8. \A i \in S : \E n \in 1..N : s[n] = i
  BY <1>7 DEF Surjection
<1>9. ToSet(s) = S
  BY <1>2, <1>8 DEF ToSet
<1> QED
  BY <1>3, <1>4, <1>9 DEF Enumerates

\* A snapshot: what Scopes calls one, as far as lists look at it.
Known(m) ==
    m \in [Ids -> [status : AllStatuses \cup {"none"}, stamp : Nat]]

LEMMA FilteredFinite ==
  ASSUME IsFiniteSet(Ids), NEW m, NEW statuses
  PROVE  /\ Filtered(m, statuses) \in SUBSET Ids
         /\ IsFiniteSet(Filtered(m, statuses))
         /\ Cardinality(Filtered(m, statuses)) <= Cardinality(Ids)
<1>1. Filtered(m, statuses) \in SUBSET Ids
  BY DEF Filtered, Present
<1> QED
  BY <1>1, FS_Subset

\* Recency orders any memories, the ids deciding between equal stamps.
LEMMA NewerOrders ==
  ASSUME NEW m, Known(m), NEW S \in SUBSET Ids
  PROVE  Order(S, [i \in S |-> {j \in S : Newer(m, j, i)}])
<1> DEFINE below == [i \in S |-> {j \in S : Newer(m, j, i)}]
<1>1. \A i \in S : i \in Int /\ m[i].stamp \in Int
  BY RecallAssumption DEF Known
<1>2. ASSUME NEW i \in S PROVE ~Newer(m, i, i)
  BY <1>1 DEF Newer
<1>3. ASSUME NEW i \in S, NEW j \in S, NEW k \in S,
             Newer(m, k, i), Newer(m, i, j)
      PROVE  Newer(m, k, j)
  BY <1>1, <1>3 DEF Newer
<1>4. ASSUME NEW i \in S, NEW j \in S
      PROVE  i = j \/ Newer(m, i, j) \/ Newer(m, j, i)
  BY <1>1 DEF Newer
<1> QED
  BY <1>2, <1>3, <1>4 DEF Order

\* So does the ranking, in which recency decides last.
LEMMA OutranksOrders ==
  ASSUME NEW m, Known(m), NEW S \in SUBSET Ids
  PROVE  Order(S, [i \in S |-> {j \in S : Outranks(m, j, i)}])
<1>1. /\ \A i \in S : i \in Int /\ m[i].stamp \in Int
      /\ \A i \in S : Score(m, i) \in Int /\ Stability[i] \in Int
  BY RecallAssumption DEF Known, Score
<1>2. ASSUME NEW i \in S PROVE ~Outranks(m, i, i)
  BY <1>1 DEF Outranks, Newer
<1>3. ASSUME NEW i \in S, NEW j \in S, NEW k \in S,
             Outranks(m, k, i), Outranks(m, i, j)
      PROVE  Outranks(m, k, j)
  BY <1>1, <1>3 DEF Outranks, Newer
<1>4. ASSUME NEW i \in S, NEW j \in S
      PROVE  i = j \/ Outranks(m, i, j) \/ Outranks(m, j, i)
  BY <1>1 DEF Outranks, Newer
<1> QED
  BY <1>2, <1>3, <1>4 DEF Order

LEMMA ListingAll ==
  ASSUME IsFiniteSet(Ids), NEW m, Known(m), NEW statuses
  PROVE  Enumerates(Listing(m, statuses), Filtered(m, statuses))
<1> DEFINE S == Filtered(m, statuses)
           s == Listing(m, statuses)
           below == [i \in S |-> {j \in S : Newer(m, j, i)}]
<1>1. IsFiniteSet(S) /\ S \in SUBSET Ids
  BY FilteredFinite
<1>2. Order(S, below)
  BY <1>1, NewerOrders
<1>3. \A n \in 1..Cardinality(S) :
        \E i \in S : Cardinality(below[i]) = n - 1
  <2> HIDE DEF S, below
  <2> QED
    BY <1>1, <1>2, Ranks
<1> DEFINE pick(n) ==
             CHOOSE i \in S : Cardinality({j \in S : Newer(m, j, i)}) = n - 1
<1>4. s = [n \in 1..Cardinality(S) |-> pick(n)]
  BY DEF Listing, Ordered
<1> HIDE DEF S, s
<1>5. \A n \in 1..Cardinality(S) :
        /\ s[n] \in S
        /\ Cardinality({j \in S : Newer(m, j, s[n])}) = n - 1
  BY <1>3, <1>4
<1>6. \A n \in 1..Cardinality(S) :
        s[n] \in S /\ Cardinality(below[s[n]]) = n - 1
  BY <1>5
<1>7. s = [n \in 1..Cardinality(S) |-> s[n]]
  <2> HIDE DEF pick
  <2> QED
    BY <1>4
<1> HIDE DEF below
<1>8. Enumerates(s, S)
  BY <1>1, <1>2, <1>6, <1>7, Ranked
<1> QED
  BY <1>8 DEF s, S

LEMMA HitsAll ==
  ASSUME IsFiniteSet(Ids), NEW m, Known(m), NEW statuses
  PROVE  Enumerates(Hits(m, statuses),
                    {i \in Filtered(m, statuses) : Relevance[i] > 0})
<1> DEFINE S == {i \in Filtered(m, statuses) : Relevance[i] > 0}
           s == Hits(m, statuses)
           below == [i \in S |-> {j \in S : Outranks(m, j, i)}]
<1>1. IsFiniteSet(S) /\ S \in SUBSET Ids
  <2>1. S \in SUBSET Filtered(m, statuses)
    OBVIOUS
  <2> HIDE DEF S
  <2> QED
    BY <2>1, FilteredFinite, FS_Subset
<1>2. Order(S, below)
  <2> HIDE DEF S
  <2> QED
    BY <1>1, OutranksOrders
<1>3. \A n \in 1..Cardinality(S) :
        \E i \in S : Cardinality(below[i]) = n - 1
  <2> HIDE DEF S, below
  <2> QED
    BY <1>1, <1>2, Ranks
<1> DEFINE pick(n) ==
             CHOOSE i \in S : Cardinality({j \in S : Outranks(m, j, i)}) = n - 1
<1>4. s = [n \in 1..Cardinality(S) |-> pick(n)]
  BY DEF Hits, Ordered
<1> HIDE DEF S, s
<1>5. \A n \in 1..Cardinality(S) :
        /\ s[n] \in S
        /\ Cardinality({j \in S : Outranks(m, j, s[n])}) = n - 1
  BY <1>3, <1>4
<1>6. \A n \in 1..Cardinality(S) :
        s[n] \in S /\ Cardinality(below[s[n]]) = n - 1
  BY <1>5
<1>7. s = [n \in 1..Cardinality(S) |-> s[n]]
  <2> HIDE DEF pick
  <2> QED
    BY <1>4
<1> HIDE DEF below
<1>8. Enumerates(s, S)
  BY <1>1, <1>2, <1>6, <1>7, Ranked
<1> QED
  BY <1>8 DEF s, S

\* Memories in the order of their ids.
LEMMA InIdOrderAll ==
  ASSUME NEW S \in SUBSET Ids, IsFiniteSet(S)
  PROVE  Enumerates(InIdOrder(S), S)
<1> DEFINE s == InIdOrder(S)
           below == [i \in S |-> {j \in S : j < i}]
<1>1. \A i \in S : i \in Int
  BY RecallAssumption
<1>2. Order(S, below)
  BY <1>1 DEF Order
<1>3. \A n \in 1..Cardinality(S) :
        \E i \in S : Cardinality(below[i]) = n - 1
  <2> HIDE DEF below
  <2> QED
    BY <1>2, Ranks
<1> DEFINE pick(n) == CHOOSE i \in S : Cardinality({j \in S : j < i}) = n - 1
<1>4. s = [n \in 1..Cardinality(S) |-> pick(n)]
  BY DEF InIdOrder, Ordered
<1> HIDE DEF s
<1>5. \A n \in 1..Cardinality(S) :
        s[n] \in S /\ Cardinality({j \in S : j < s[n]}) = n - 1
  BY <1>3, <1>4
<1>6. \A n \in 1..Cardinality(S) :
        s[n] \in S /\ Cardinality(below[s[n]]) = n - 1
  BY <1>5
<1>7. s = [n \in 1..Cardinality(S) |-> s[n]]
  <2> HIDE DEF pick
  <2> QED
    BY <1>4
<1> HIDE DEF below
<1>8. Enumerates(s, S)
  BY <1>2, <1>6, <1>7, Ranked
<1> QED
  BY <1>8 DEF s

\* The largest bodies first.
LEMMA BlobsAll ==
  ASSUME IsFiniteSet(Ids), NEW m
  PROVE  Enumerates(Blobs(m), {i \in Actives(m) : Sections[i] >= MinSections})
<1> DEFINE S == {i \in Actives(m) : Sections[i] >= MinSections}
           s == Blobs(m)
           below == [i \in S |->
                       {j \in S : \/ Sections[j] > Sections[i]
                                  \/ Sections[j] = Sections[i] /\ j < i}]
<1>1. IsFiniteSet(S) /\ S \in SUBSET Ids
  <2>1. S \in SUBSET Filtered(m, {"active"})
    BY DEF Actives
  <2> HIDE DEF S
  <2> QED
    BY <2>1, FilteredFinite, FS_Subset
<1>2. \A i \in S : i \in Int /\ Sections[i] \in Int
  <2> HIDE DEF S
  <2> QED
    BY <1>1, RecallAssumption
<1>3. Order(S, below)
  <2> HIDE DEF S
  <2> QED
    BY <1>2 DEF Order
<1>4. \A n \in 1..Cardinality(S) :
        \E i \in S : Cardinality(below[i]) = n - 1
  <2> HIDE DEF S, below
  <2> QED
    BY <1>1, <1>3, Ranks
<1> DEFINE pick(n) ==
             CHOOSE i \in S :
               Cardinality({j \in S : \/ Sections[j] > Sections[i]
                                      \/ Sections[j] = Sections[i] /\ j < i})
                 = n - 1
<1>5. s = [n \in 1..Cardinality(S) |-> pick(n)]
  BY DEF Blobs, Ordered
<1> HIDE DEF S, s
<1>6. \A n \in 1..Cardinality(S) :
        /\ s[n] \in S
        /\ Cardinality({j \in S :
             \/ Sections[j] > Sections[s[n]]
             \/ Sections[j] = Sections[s[n]] /\ j < s[n]}) = n - 1
  BY <1>4, <1>5
<1>7. \A n \in 1..Cardinality(S) :
        s[n] \in S /\ Cardinality(below[s[n]]) = n - 1
  BY <1>6
<1>8. s = [n \in 1..Cardinality(S) |-> s[n]]
  <2> HIDE DEF pick
  <2> QED
    BY <1>5
<1> HIDE DEF below
<1>9. Enumerates(s, S)
  BY <1>1, <1>3, <1>7, <1>8, Ranked
<1> QED
  BY <1>9 DEF s, S

-----------------------------------------------------------------------------
(* Clusters.                                                               *)

\* The similar memories behind place k that are in no cluster yet.
Candidates(order, k, used) ==
    {j \in {order[n] : n \in (k + 1)..Len(order)} :
       {order[k], j} \in Similar /\ j \notin used}

\* A seed takes some of them, fewer than a cluster may hold, and none only if
\* there is none.
LEMMA PartnersFew ==
  ASSUME IsFiniteSet(Ids), NEW order \in Seq(Ids), NEW k \in 1..Len(order),
         NEW used
  PROVE  /\ Partners(order, k, used) \subseteq Candidates(order, k, used)
         /\ IsFiniteSet(Partners(order, k, used))
         /\ Cardinality(Partners(order, k, used)) \in 0 .. MaxMembers - 1
         /\ Partners(order, k, used) = {} => Candidates(order, k, used) = {}
<1> DEFINE later == Candidates(order, k, used)
           best == InIdOrder(later)
           X == {x \in 1..Len(best) : x < MaxMembers}
           P == {best[n] : n \in X}
<1>1. Partners(order, k, used) = P
  BY DEF Partners, Candidates
<1>2. later \in SUBSET Ids /\ IsFiniteSet(later)
  <2>1. \A n \in (k + 1)..Len(order) : order[n] \in Ids
    OBVIOUS
  <2>2. later \in SUBSET Ids
    BY <2>1 DEF Candidates
  <2> HIDE DEF later
  <2> QED
    BY <2>2, FS_Subset
<1>3. Enumerates(best, later)
  <2> HIDE DEF later
  <2> QED
    BY <1>2, InIdOrderAll
<1>4. /\ best \in Seq(later) /\ Len(best) = Cardinality(later)
      /\ Len(best) \in Nat /\ MaxMembers \in Nat /\ MaxMembers > 1
  BY <1>3, RecallAssumption DEF Enumerates
<1> HIDE DEF best, later
<1>5. P \subseteq later
  BY <1>4
<1>6. IsFiniteSet(X) /\ Cardinality(X) <= MaxMembers - 1 /\ Cardinality(X) \in Nat
  <2>1. X \in SUBSET (1 .. MaxMembers - 1)
    BY <1>4
  <2>2. /\ IsFiniteSet(1 .. MaxMembers - 1)
        /\ Cardinality(1 .. MaxMembers - 1) = MaxMembers - 1
    <3>1. MaxMembers - 1 \in Int /\ ~(1 > MaxMembers - 1)
      BY <1>4
    <3>2. /\ IsFiniteSet(1 .. MaxMembers - 1)
          /\ Cardinality(1 .. MaxMembers - 1) =
               IF 1 > MaxMembers - 1 THEN 0 ELSE (MaxMembers - 1) - 1 + 1
      BY <3>1, FS_Interval
    <3> QED
      BY <1>4, <3>1, <3>2
  <2> HIDE DEF X
  <2> QED
    BY <2>1, <2>2, FS_Subset, FS_CardinalityType
<1>7. IsFiniteSet(P) /\ Cardinality(P) <= Cardinality(X)
  <2> DEFINE f == [n \in X |-> best[n]]
  <2>1. f \in Surjection(X, P)
    <3>1. f \in [X -> P] /\ \A p \in P : \E n \in X : f[n] = p
      <4> HIDE DEF X
      <4> QED
        OBVIOUS
    <3> HIDE DEF f, X, P
    <3> QED
      BY <3>1 DEF Surjection
  <2> HIDE DEF f, X, P
  <2> QED
    BY <1>6, <2>1, FS_Surjection
<1>8. Cardinality(P) \in 0 .. MaxMembers - 1
  <2>1. Cardinality(P) \in Nat
    <3> HIDE DEF P
    <3> QED
      BY <1>7, FS_CardinalityType
  <2> HIDE DEF P, X
  <2> QED
    BY <1>4, <1>6, <1>7, <2>1
<1>9. ASSUME P = {} PROVE later = {}
  <2>1. X = {}
    <3> HIDE DEF X
    <3> QED
      BY <1>9
  <2>2. Len(best) = 0
    BY <1>4, <2>1
  <2> QED
    BY <1>2, <1>4, <2>2, FS_EmptySet
<1> HIDE DEF P
<1> QED
  BY <1>1, <1>5, <1>7, <1>8, <1>9 DEF later

\* What is true of the clusters grown from the first k seeds of a list.
Sound(order, k, clusters) ==
    /\ clusters \in SUBSET (SUBSET ToSet(order))
    /\ \A A, B \in clusters : A = B \/ A \cap B = {}
    /\ \A A \in clusters : Cardinality(A) \in 2..MaxMembers
    /\ \A a \in 1..k : \A b \in (a + 1)..Len(order) :
         {order[a], order[b]} \in Similar =>
            order[a] \in UNION clusters \/ order[b] \in UNION clusters

LEMMA SeededSound ==
  ASSUME IsFiniteSet(Ids), NEW order \in Seq(Ids),
         \A a, b \in 1..Len(order) : order[a] = order[b] => a = b,
         NEW k \in 1..Len(order), NEW clusters, Sound(order, k - 1, clusters)
  PROVE  Sound(order, k, Seeded(order, k, clusters))
<1> DEFINE used == UNION clusters
           P == Partners(order, k, used)
           seed == order[k]
           new == P \cup {seed}
           next == Seeded(order, k, clusters)
<1>1. /\ P \subseteq Candidates(order, k, used) /\ IsFiniteSet(P)
      /\ Cardinality(P) \in 0 .. MaxMembers - 1
      /\ P = {} => Candidates(order, k, used) = {}
  BY PartnersFew
<1>2. \A j \in Candidates(order, k, used) :
        /\ j \in ToSet(order) /\ j \notin used /\ j # seed
  <2>1. \A n \in (k + 1)..Len(order) :
          n \in 1..Len(order) /\ n # k /\ n \in DOMAIN order
    OBVIOUS
  <2> QED
    BY <2>1 DEF Candidates, ToSet
<1>3. seed \in ToSet(order)
  BY DEF ToSet
<1>4. \A b \in (k + 1)..Len(order) :
        {seed, order[b]} \in Similar =>
           order[b] \in used \/ order[b] \in Candidates(order, k, used)
  BY DEF Candidates
<1>5. next = IF seed \in used \/ P = {} THEN clusters ELSE clusters \cup {new}
  BY DEF Seeded
<1>6. \A a \in 1..k : a = k \/ a \in 1 .. k - 1
  OBVIOUS
<1> HIDE DEF next, P, used, seed
<1>7. CASE seed \in used \/ P = {}
  <2>1. next = clusters
    BY <1>5, <1>7
  <2>2. ASSUME NEW b \in (k + 1)..Len(order), {seed, order[b]} \in Similar
        PROVE  seed \in used \/ order[b] \in used
    BY <1>1, <1>4, <1>7, <2>2
  <2>3. ASSUME NEW a \in 1..k, NEW b \in (a + 1)..Len(order),
               {order[a], order[b]} \in Similar
        PROVE  order[a] \in UNION clusters \/ order[b] \in UNION clusters
    <3>1. CASE a = k
      BY <2>2, <2>3, <3>1 DEF used, seed
    <3>2. CASE a \in 1 .. k - 1
      BY <2>3, <3>2 DEF Sound
    <3> QED
      BY <1>6, <3>1, <3>2
  <2>4. Sound(order, k, clusters)
    BY <2>3 DEF Sound
  <2> QED
    BY <2>1, <2>4 DEF next
<1>8. CASE seed \notin used /\ P # {}
  <2>1. next = clusters \cup {new}
    BY <1>5, <1>8
  <2>2. new \in SUBSET ToSet(order)
    BY <1>1, <1>2, <1>3
  <2>3. new \cap used = {}
    BY <1>1, <1>2, <1>8
  <2>4. Cardinality(new) \in 2..MaxMembers
    <3>1. seed \notin P
      BY <1>1, <1>2
    <3>2. Cardinality(new) = Cardinality(P) + 1
      BY <1>1, <3>1, FS_AddElement
    <3>3. Cardinality(P) # 0
      BY <1>1, <1>8, FS_EmptySet
    <3>4. MaxMembers \in Nat
      BY RecallAssumption
    <3> QED
      BY <1>1, <3>2, <3>3, <3>4
  <2> HIDE DEF new
  <2>5. next \in SUBSET (SUBSET ToSet(order))
    BY <2>1, <2>2 DEF Sound
  <2>6. ASSUME NEW A \in next, NEW B \in next PROVE A = B \/ A \cap B = {}
    <3>1. \A C \in clusters : C \subseteq used
      BY DEF used
    <3>2. (A \in clusters \/ A = new) /\ (B \in clusters \/ B = new)
      BY <2>1
    <3> QED
      BY <2>3, <3>1, <3>2 DEF Sound
  <2>7. \A A \in next : Cardinality(A) \in 2..MaxMembers
    BY <2>1, <2>4 DEF Sound
  <2>8. seed \in UNION next /\ used \subseteq UNION next
    BY <2>1 DEF used, new
  <2>9. ASSUME NEW a \in 1..k, NEW b \in (a + 1)..Len(order),
               {order[a], order[b]} \in Similar
        PROVE  order[a] \in UNION next \/ order[b] \in UNION next
    <3>1. CASE a = k
      BY <2>8, <3>1 DEF seed
    <3>2. CASE a \in 1 .. k - 1
      <4>1. order[a] \in used \/ order[b] \in used
        BY <2>9, <3>2 DEF Sound, used
      <4> QED
        BY <2>8, <4>1
    <3> QED
      BY <1>6, <3>1, <3>2
  <2>10. Sound(order, k, next)
    BY <2>5, <2>6, <2>7, <2>9 DEF Sound
  <2> QED
    BY <2>10 DEF next
<1> QED
  BY <1>7, <1>8

\* Clusters of duplicates are apart and no larger than asked for, and of two
\* similar active memories one at least is in a cluster.
THEOREM ClustersSound ==
  ASSUME IsFiniteSet(Ids), NEW m, Known(m)
  PROVE  /\ Clusters(m) \in SUBSET (SUBSET Actives(m))
         /\ \A A, B \in Clusters(m) : A = B \/ A \cap B = {}
         /\ \A A \in Clusters(m) : Cardinality(A) \in 2..MaxMembers
         /\ \A i, j \in Actives(m) :
              i # j /\ {i, j} \in Similar =>
                 {i, j} \cap UNION Clusters(m) # {}
<1> DEFINE order == Listing(m, {"active"})
           N == Len(order)
           T == SUBSET (SUBSET ToSet(order))
           step == [x \in (1..N) \X T |-> Seeded(order, x[1], x[2])]
           Grown(g) ==
             g = [k \in 0..N |-> IF k = 0 THEN {}
                                 ELSE Seeded(order, k, g[k - 1])]
           grown == CHOOSE g : Grown(g)
           P == {k \in 0..N : Sound(order, k, grown[k])}
<1>1. Enumerates(order, Actives(m))
  BY ListingAll DEF Actives
<1>2. /\ order \in Seq(Ids) /\ N \in Nat /\ ToSet(order) = Actives(m)
      /\ \A a, b \in 1..N : order[a] = order[b] => a = b
  <2>1. Actives(m) \subseteq Ids
    BY FilteredFinite DEF Actives
  <2> HIDE DEF order
  <2> QED
    BY <1>1, <2>1, SeqMonotonic DEF Enumerates
<1>3. Clusters(m) = grown[N]
  BY DEF Clusters
<1> HIDE DEF order
<1>4. ASSUME NEW k \in 1..N, NEW clusters \in T
      PROVE  Seeded(order, k, clusters) \in T
  <2>1. Partners(order, k, UNION clusters) \subseteq
          Candidates(order, k, UNION clusters)
    BY <1>2, PartnersFew
  <2>2. Candidates(order, k, UNION clusters) \subseteq ToSet(order)
    <3>1. \A n \in (k + 1)..N : n \in DOMAIN order
      BY <1>2
    <3> QED
      BY <3>1 DEF Candidates, ToSet
  <2>3. order[k] \in ToSet(order)
    BY <1>2 DEF ToSet
  <2> QED
    BY <2>1, <2>2, <2>3 DEF Seeded
<1>5. step \in [(1..N) \X T -> T]
  BY <1>4
<1>6. PICK g \in [0..N -> T] :
        \A n \in 0..N : g[n] = IF n = 0 THEN {} ELSE step[<<n, g[n - 1]>>]
  <2>1. {} \in T
    OBVIOUS
  <2>2. N \in Nat
    BY <1>2
  <2> HIDE DEF T, step, N
  <2>3. \E e : Walk(e, N, T, {}, step)
    BY <1>5, <2>1, <2>2, Iterated
  <2> QED
    BY <2>3 DEF Walk
<1>7. Grown(g)
  <2>1. ASSUME NEW n \in 0..N
        PROVE  g[n] = IF n = 0 THEN {} ELSE Seeded(order, n, g[n - 1])
    <3>1. CASE n = 0
      BY <1>6, <3>1
    <3>2. CASE n # 0
      <4>1. n \in 1..N /\ n - 1 \in 0..N
        BY <1>2, <3>2
      <4>2. <<n, g[n - 1]>> \in (1..N) \X T
        BY <1>6, <4>1
      <4>3. g[n] = step[<<n, g[n - 1]>>]
        BY <1>6, <3>2
      <4> QED
        BY <3>2, <4>2, <4>3
    <3> QED
      BY <3>1, <3>2
  <2>2. g = [n \in 0..N |-> g[n]]
    BY <1>6
  <2> QED
    BY <2>1, <2>2
<1>8. Grown(grown)
  <2> HIDE DEF Grown
  <2> QED
    BY <1>7
<1>9. \A k \in 0..N : grown[k] = IF k = 0 THEN {}
                                 ELSE Seeded(order, k, grown[k - 1])
  <2> HIDE DEF grown
  <2> QED
    BY <1>8
<1> HIDE DEF grown, Grown, step, T
<1>10. 0 \in P
  <2>1. grown[0] = {} /\ 0 \in 0..N
    BY <1>2, <1>9
  <2>2. Sound(order, 0, {})
    BY DEF Sound
  <2> QED
    BY <2>1, <2>2
<1>11. ASSUME NEW n \in 0..N, n \in P /\ n < N PROVE n + 1 \in P
  <2>1. n + 1 \in 1..N /\ n + 1 \in 0..N /\ (n + 1) - 1 = n /\ n + 1 # 0
    BY <1>2, <1>11
  <2>2. Sound(order, n, grown[n])
    BY <1>11
  <2>3. Sound(order, n + 1, Seeded(order, n + 1, grown[n]))
    BY <1>2, <2>1, <2>2, SeededSound
  <2>4. grown[n + 1] = Seeded(order, n + 1, grown[n])
    BY <1>9, <2>1
  <2> QED
    BY <2>1, <2>3, <2>4
<1>12. N \in P
  <2> HIDE DEF P
  <2>1. \A n \in 0..N : n \in P
    BY <1>2, <1>10, <1>11, StepsTo
  <2> QED
    BY <1>2, <2>1
<1>13. Sound(order, N, Clusters(m))
  BY <1>3, <1>12
<1>14. ASSUME NEW i \in Actives(m), NEW j \in Actives(m), i # j,
              {i, j} \in Similar
       PROVE  {i, j} \cap UNION Clusters(m) # {}
  <2>1. PICK a \in 1..N, b \in 1..N : order[a] = i /\ order[b] = j
    BY <1>2 DEF ToSet
  <2>2. a # b /\ {order[a], order[b]} = {i, j} /\ {order[b], order[a]} = {i, j}
    BY <1>14, <2>1
  <2>3. CASE a < b
    <3>1. b \in (a + 1)..N /\ a \in 1..N
      BY <1>2, <2>3
    <3>2. order[a] \in UNION Clusters(m) \/ order[b] \in UNION Clusters(m)
      BY <1>13, <1>14, <2>2, <3>1 DEF Sound
    <3> QED
      BY <2>1, <3>2
  <2>4. CASE b < a
    <3>1. a \in (b + 1)..N /\ b \in 1..N
      BY <1>2, <2>4
    <3>2. order[a] \in UNION Clusters(m) \/ order[b] \in UNION Clusters(m)
      BY <1>13, <1>14, <2>2, <3>1 DEF Sound
    <3> QED
      BY <2>1, <3>2
  <2> QED
    BY <1>2, <2>2, <2>3, <2>4
<1> QED
  BY <1>2, <1>13, <1>14 DEF Sound
-----------------------------------------------------------------------------
(* Following the cursors.                                                  *)

\* One page.
LEMMA PageIs ==
    ASSUME NEW ranked \in Seq(Ids), NEW offset \in 0..Len(ranked)
    PROVE  /\ offset + Limit < Len(ranked) =>
                /\ Page(ranked, offset) =
                     SubSeq(ranked, offset + 1, offset + Limit)
                /\ Len(Page(ranked, offset)) = Limit
                /\ NextOffset(ranked, offset) = offset + Limit
           /\ ~(offset + Limit < Len(ranked)) =>
                /\ Page(ranked, offset) = SubSeq(ranked, offset + 1, Len(ranked))
                /\ NextOffset(ranked, offset) = 0
           /\ Page(ranked, offset) \in Seq(Ids)
<1>1. Limit \in Nat \ {0} /\ Len(ranked) \in Nat /\ offset \in Nat
    BY RecallAssumption
<1>2. \A i \in 1..Len(ranked) : ranked[i] \in Ids
    OBVIOUS
<1>3. CASE offset + Limit < Len(ranked)
  <2>1. Page(ranked, offset) = SubSeq(ranked, offset + 1, offset + Limit)
      BY <1>3 DEF Page
  <2>2. \A i \in offset + 1 .. offset + Limit : ranked[i] \in Ids
      BY <1>1, <1>2, <1>3
  <2>3. offset + 1 \in Int /\ offset + Limit \in Int
      BY <1>1
  <2>4. /\ SubSeq(ranked, offset + 1, offset + Limit) \in Seq(Ids)
        /\ Len(SubSeq(ranked, offset + 1, offset + Limit)) =
             IF offset + 1 <= offset + Limit
             THEN (offset + Limit) - (offset + 1) + 1 ELSE 0
      BY <2>2, <2>3, SubSeqProperties
  <2>5. Len(Page(ranked, offset)) = Limit
      BY <1>1, <2>1, <2>4
  <2>6. NextOffset(ranked, offset) = offset + Limit
      BY <1>3, <2>5 DEF NextOffset
  <2>. QED
      BY <1>3, <2>1, <2>4, <2>5, <2>6
<1>4. CASE ~(offset + Limit < Len(ranked))
  <2>1. Page(ranked, offset) = SubSeq(ranked, offset + 1, Len(ranked))
      BY <1>4 DEF Page
  <2>2. \A i \in offset + 1 .. Len(ranked) : ranked[i] \in Ids
      BY <1>1, <1>2
  <2>3. offset + 1 \in Int /\ Len(ranked) \in Int
      BY <1>1
  <2>4. SubSeq(ranked, offset + 1, Len(ranked)) \in Seq(Ids)
      BY <2>2, <2>3, SubSeqProperties
  <2>5. NextOffset(ranked, offset) = 0
      BY <1>4 DEF NextOffset
  <2>. QED
      BY <1>4, <2>1, <2>4, <2>5
<1>. QED
    BY <1>3, <1>4

Progress == [ids : Seq(Ids), next : Nat]

\* After n more pages the caller has all of the list, or has got as far as its
\* cursor, which moves on.
GotSoFar(ranked, n, got) ==
    /\ got \in Progress
    /\ \/ got.next = 0 /\ got.ids = ranked
       \/ /\ got.next \in n + 1 .. Len(ranked) - 1
          /\ got.ids = SubSeq(ranked, 1, got.next)

LEMMA FirstPageGot ==
    ASSUME NEW ranked \in Seq(Ids)
    PROVE  GotSoFar(ranked, 0, [ids |-> Page(ranked, 0),
                                next |-> NextOffset(ranked, 0)])
<1>1. Limit \in Nat \ {0} /\ Len(ranked) \in Nat /\ 0 \in 0..Len(ranked)
    BY RecallAssumption
<1>2. Page(ranked, 0) \in Seq(Ids)
    BY <1>1, PageIs
<1>3. CASE Limit < Len(ranked)
  <2>1. Page(ranked, 0) = SubSeq(ranked, 1, Limit) /\ NextOffset(ranked, 0) = Limit
    <3>1. 0 + Limit < Len(ranked) /\ 0 + Limit = Limit /\ 0 + 1 = 1
        BY <1>1, <1>3
    <3>. QED
        BY <1>1, <3>1, PageIs
  <2>. QED
      BY <1>1, <1>2, <1>3, <2>1 DEF GotSoFar, Progress
<1>4. CASE ~(Limit < Len(ranked))
  <2>1. /\ Page(ranked, 0) = SubSeq(ranked, 1, Len(ranked))
        /\ NextOffset(ranked, 0) = 0
    <3>1. ~(0 + Limit < Len(ranked)) /\ 0 + 1 = 1
        BY <1>1, <1>4
    <3>. QED
        BY <1>1, <3>1, PageIs
  <2>2. SubSeq(ranked, 1, Len(ranked)) = ranked
      BY SubSeqFull
  <2>. QED
      BY <1>2, <2>1, <2>2 DEF GotSoFar, Progress
<1>. QED
    BY <1>3, <1>4

LEMMA TurnedType ==
    ASSUME NEW ranked \in Seq(Ids), NEW n \in Nat, NEW got,
           GotSoFar(ranked, n, got)
    PROVE  GotSoFar(ranked, n + 1, Turned(ranked, got))
<1>1. Limit \in Nat \ {0} /\ Len(ranked) \in Nat
    BY RecallAssumption
<1>2. CASE got.next = 0
  <2>1. Turned(ranked, got) = got
      BY <1>2 DEF Turned
  <2>2. ~(got.next \in n + 1 .. Len(ranked) - 1)
      BY <1>2
  <2>3. got.ids = ranked /\ got \in Progress
      BY <2>2 DEF GotSoFar
  <2>. QED
      BY <1>2, <2>1, <2>3 DEF GotSoFar
<1>3. CASE got.next # 0
  <2>. DEFINE k == got.next
  <2>1. /\ k \in n + 1 .. Len(ranked) - 1 /\ got.ids = SubSeq(ranked, 1, k)
        /\ got.ids \in Seq(Ids)
      BY <1>3 DEF GotSoFar, Progress
  <2>2. /\ Turned(ranked, got) = [ids |-> got.ids \o Page(ranked, k),
                                  next |-> NextOffset(ranked, k)]
        /\ Turned(ranked, got).ids = got.ids \o Page(ranked, k)
        /\ Turned(ranked, got).next = NextOffset(ranked, k)
      BY <1>3 DEF Turned
  <2>. HIDE DEF k
  <2>3. k \in 1..Len(ranked) /\ k \in 0..Len(ranked) /\ 1 \in 1..Len(ranked) + 1
        /\ k \in 1 - 1 .. Len(ranked)
      BY <1>1, <2>1
  <2>4. Page(ranked, k) \in Seq(Ids)
      BY <2>3, PageIs
  <2>5. got.ids \o Page(ranked, k) \in Seq(Ids)
      BY <2>1, <2>4, ConcatProperties
  <2>6. CASE k + Limit < Len(ranked)
    <3>1. /\ Page(ranked, k) = SubSeq(ranked, k + 1, k + Limit)
          /\ NextOffset(ranked, k) = k + Limit
        BY <2>3, <2>6, PageIs
    <3>2. k + Limit \in k .. Len(ranked)
        BY <1>1, <2>3, <2>6
    <3>3. SubSeq(ranked, 1, k) \o SubSeq(ranked, k + 1, k + Limit) =
            SubSeq(ranked, 1, k + Limit)
        BY <2>3, <3>2, ConcatAdjacentSubSeq
    <3>4. k + Limit \in (n + 1) + 1 .. Len(ranked) - 1 /\ k + Limit \in Nat
        BY <1>1, <2>1, <2>6
    <3>. QED
        BY <2>1, <2>2, <2>5, <3>1, <3>3, <3>4 DEF GotSoFar, Progress
  <2>7. CASE ~(k + Limit < Len(ranked))
    <3>1. /\ Page(ranked, k) = SubSeq(ranked, k + 1, Len(ranked))
          /\ NextOffset(ranked, k) = 0
        BY <2>3, <2>7, PageIs
    <3>2. Len(ranked) \in k .. Len(ranked)
        BY <1>1, <2>3
    <3>3. SubSeq(ranked, 1, k) \o SubSeq(ranked, k + 1, Len(ranked)) =
            SubSeq(ranked, 1, Len(ranked))
        BY <2>3, <3>2, ConcatAdjacentSubSeq
    <3>4. SubSeq(ranked, 1, Len(ranked)) = ranked
        BY SubSeqFull
    <3>5. Turned(ranked, got).ids = ranked /\ Turned(ranked, got).next = 0
        BY <2>1, <2>2, <3>1, <3>3, <3>4
    <3>6. Turned(ranked, got) \in Progress
        BY <2>2, <2>5, <3>1 DEF Progress
    <3>. QED
        BY <3>5, <3>6 DEF GotSoFar
  <2>. QED
      BY <2>6, <2>7
<1>. QED
    BY <1>2, <1>3

\* Whoever follows the cursors to the end gets the list.
THEOREM FollowedAll ==
    ASSUME IsFiniteSet(Ids), NEW ranked \in Seq(Ids),
           Len(ranked) <= Cardinality(Ids)
    PROVE  Followed(ranked) = ranked
<1>. DEFINE N == Cardinality(Ids)
            first == [ids |-> Page(ranked, 0), next |-> NextOffset(ranked, 0)]
            turn == [x \in (1..N) \X Progress |->
                       IF Turned(ranked, x[2]) \in Progress
                       THEN Turned(ranked, x[2]) ELSE first]
            Walks(g) ==
              g = [n \in 0..N |-> IF n = 0 THEN first
                                  ELSE Turned(ranked, g[n - 1])]
            walk == CHOOSE g : Walks(g)
            P == {n \in 0..N : GotSoFar(ranked, n, walk[n])}
<1>1. N \in Nat /\ Len(ranked) \in Nat /\ Len(ranked) <= N
    BY FS_CardinalityType
<1>2. Followed(ranked) = walk[N].ids
    BY DEF Followed
<1>3. GotSoFar(ranked, 0, first) /\ first \in Progress
    BY FirstPageGot DEF GotSoFar
<1>. HIDE DEF N, first
<1>4. turn \in [(1..N) \X Progress -> Progress]
    BY <1>3
<1>5. \E e : Walk(e, N, Progress, first, turn)
  <2>. HIDE DEF turn, Walks, walk, P
  <2>. QED
      BY <1>1, <1>3, <1>4, Iterated
<1>6. PICK g \in [0..N -> Progress] :
        \A n \in 0..N : g[n] = IF n = 0 THEN first ELSE turn[<<n, g[n - 1]>>]
  <2>. HIDE DEF turn
  <2>. QED
      BY <1>5 DEF Walk
<1>. DEFINE Q == {n \in 0..N : GotSoFar(ranked, n, g[n])}
<1>7. ASSUME NEW n \in 0..N, n \in Q, n < N
      PROVE  n + 1 \in Q /\ g[n + 1] = Turned(ranked, g[n])
  <2>1. n + 1 \in 1..N /\ n + 1 \in 0..N /\ (n + 1) - 1 = n /\ n + 1 # 0
        /\ n \in Nat
      BY <1>1, <1>7
  <2>2. GotSoFar(ranked, n + 1, Turned(ranked, g[n]))
      BY <1>7, <2>1, TurnedType
  <2>3. Turned(ranked, g[n]) \in Progress
      BY <2>2 DEF GotSoFar
  <2>4. <<n + 1, g[n]>> \in (1..N) \X Progress
      BY <1>6, <2>1
  <2>5. g[n + 1] = turn[<<n + 1, g[n]>>]
    <3>. HIDE DEF turn
    <3>. QED
        BY <1>6, <2>1
  <2>6. turn[<<n + 1, g[n]>>] = Turned(ranked, g[n])
      BY <2>3, <2>4
  <2>. HIDE DEF turn
  <2>. QED
      BY <2>1, <2>2, <2>5, <2>6
<1>. HIDE DEF turn
<1>8. \A n \in 0..N : n \in Q
  <2>1. 0 \in 0..N
      BY <1>1
  <2>2. g[0] = first
      BY <1>6, <2>1
  <2>3. 0 \in Q
      BY <1>3, <2>1, <2>2
  <2>. HIDE DEF Q
  <2>. QED
      BY <1>1, <1>7, <2>3, StepsTo
<1>9. Walks(g)
  <2>1. ASSUME NEW n \in 0..N
        PROVE  g[n] = IF n = 0 THEN first ELSE Turned(ranked, g[n - 1])
    <3>1. CASE n = 0
        BY <1>6, <3>1
    <3>2. CASE n # 0
      <4>1. n - 1 \in 0..N /\ n - 1 < N /\ (n - 1) + 1 = n
          BY <1>1, <3>2
      <4>2. g[(n - 1) + 1] = Turned(ranked, g[n - 1])
          BY <1>7, <1>8, <4>1
      <4>. QED
          BY <3>2, <4>1, <4>2
    <3>. QED
        BY <3>1, <3>2
  <2>2. g = [n \in 0..N |-> g[n]]
      BY <1>6
  <2>. QED
      BY <2>1, <2>2
<1>10. Walks(walk)
  <2>. HIDE DEF Walks
  <2>. QED
      BY <1>9
<1>11. \A n \in 0..N : walk[n] = IF n = 0 THEN first
                                 ELSE Turned(ranked, walk[n - 1])
  <2>. HIDE DEF walk
  <2>. QED
      BY <1>10
<1>. HIDE DEF walk, Walks
<1>12. 0 \in P
    BY <1>1, <1>3, <1>11
<1>13. ASSUME NEW n \in 0..N, n \in P /\ n < N PROVE n + 1 \in P
  <2>1. n + 1 \in 0..N /\ (n + 1) - 1 = n /\ n + 1 # 0 /\ n \in Nat
      BY <1>1, <1>13
  <2>2. walk[n + 1] = Turned(ranked, walk[n])
      BY <1>11, <2>1
  <2>3. GotSoFar(ranked, n + 1, Turned(ranked, walk[n]))
      BY <1>13, <2>1, TurnedType
  <2>. QED
      BY <2>1, <2>2, <2>3
<1>14. N \in P
  <2>. HIDE DEF P
  <2>1. \A n \in 0..N : n \in P
      BY <1>1, <1>12, <1>13, StepsTo
  <2>. QED
      BY <1>1, <2>1
<1>15. ~(walk[N].next \in N + 1 .. Len(ranked) - 1)
    BY <1>1
<1>. QED
    BY <1>2, <1>14, <1>15 DEF GotSoFar
=============================================================================
