--------------------------- MODULE Console_proofs ---------------------------
(***************************************************************************)
(* What the page of the console shows, for every value of the constants:   *)
(* whatever order the answers come in, the panes show what is selected.    *)
(***************************************************************************)
EXTENDS Serving, FiniteSetTheorems, TLAPS

-----------------------------------------------------------------------------
(* The state of the page.                                                  *)

View == [scope : {"global", "project", "session"},
         project : Projects \cup {None}, session : Sessions \cup {None},
         blank : BOOLEAN, cursor : Nat, statuses : SUBSET AllStatuses]

RequestFields == {"kind", "of", "id", "current", "place", "data"}

\* A request of the page with the selection v and the detail d.  Only the last
\* request of its kind is served, and it asks for what is selected.
RequestOK(r, v, d) ==
    /\ DOMAIN r = RequestFields
    /\ r.kind \in ViewKinds \cup {"catalog"}
    /\ r.place \in {"sent", "counted", "answered", "failed"}
    /\ r.current \in BOOLEAN
    /\ ~r.current => r.place = "sent"
    /\ r.current /\ r.kind = "list" => r.of = Parameters(v)
    /\ r.current /\ r.kind = "status" => r.of.root = Target(v)
    /\ r.current /\ r.kind = "detail" => r.of.root = Target(v) /\ r.id = d.asked
    /\ r.kind = "list" /\ r.place = "answered" => r.data.page.next \in Nat
    /\ r.kind = "detail" /\ r.place = "answered" => r.data.id = r.id
    /\ r.kind = "catalog" /\ r.place = "answered" =>
         /\ r.data.options.projects \subseteq Projects
         /\ r.data.options.sessions \subseteq Sessions

NetOK(N, v, d) ==
    /\ \A r \in N : RequestOK(r, v, d)
    /\ \A r, q \in N : r.current /\ q.current /\ r.kind = q.kind => r = q

AwaitedIn(N, kind) == \E r \in N : r.kind = kind /\ r.current

ListOK ==
    /\ list.shown \in {"waiting", "loading", "items", "error"}
    /\ list.busy \in BOOLEAN
    /\ list.page.next \in Nat

DetailFields == {"shown", "busy", "of", "id", "asked"}

DetailOK ==
    /\ DOMAIN detail = DetailFields
    /\ detail.shown \in {"closed", "loading", "open", "error"}
    /\ detail.busy \in BOOLEAN

NotesOK ==
    /\ DOMAIN notes = Sessions
    /\ \A s \in Sessions : notes[s] = None \/ notes[s] \subseteq Topics

CInv ==
    /\ NotesOK
    /\ view \in View
    /\ NetOK(net, view, detail)
    /\ ListOK
    /\ DetailOK
    /\ pane.shown \in {"waiting", "loading", "known", "error"}
    /\ options.projects \subseteq Projects
    /\ options.sessions \subseteq Sessions
    /\ refreshing \in BOOLEAN
    /\ PageShowsSelection

-----------------------------------------------------------------------------
(* The requests in flight.                                                 *)

LEMMA AwaitedNow ==
    /\ \A kind : Awaited(kind) = AwaitedIn(net, kind)
    /\ \A kind : Awaited(kind)' = AwaitedIn(net', kind)
    BY DEF Awaited, AwaitedIn

\* What a record is when it is made, and after an update.
LEMMA FreshFields ==
    ASSUME NEW kind, NEW of, NEW id
    PROVE  /\ DOMAIN Request(kind, of, id) = RequestFields
           /\ Request(kind, of, id).kind = kind
           /\ Request(kind, of, id).of = of
           /\ Request(kind, of, id).id = id
           /\ Request(kind, of, id).current
           /\ Request(kind, of, id).place = "sent"
<1>. DEFINE data == NoData
            r == Request(kind, of, id)
<1>1. r = [kind |-> kind, of |-> of, id |-> id, current |-> TRUE,
           place |-> "sent", data |-> data]
    BY DEF Request
<1>. HIDE DEF data, r
<1>2. /\ DOMAIN r = RequestFields
      /\ r.kind = kind /\ r.of = of /\ r.id = id /\ r.current
      /\ r.place = "sent"
    BY <1>1 DEF RequestFields
<1>. QED
    BY <1>2 DEF r

LEMMA Outdated1 ==
    ASSUME NEW r, DOMAIN r = RequestFields, NEW q,
           q = [r EXCEPT !.current = FALSE]
    PROVE  /\ DOMAIN q = RequestFields
           /\ q.kind = r.kind /\ q.current = FALSE /\ q.place = r.place
    BY DEF RequestFields

LEMMA OldFields ==
    ASSUME NEW kind, NEW q,
           q = [Request(kind, NoParameters, 0) EXCEPT !.current = FALSE]
    PROVE  /\ DOMAIN q = RequestFields
           /\ q.kind = kind /\ q.current = FALSE /\ q.place = "sent"
<1>. DEFINE of == NoParameters
<1>1. PICK r : r = Request(kind, of, 0)
    OBVIOUS
<1>2. q = [r EXCEPT !.current = FALSE]
    BY <1>1
<1>. HIDE DEF of
<1>3. DOMAIN r = RequestFields /\ r.kind = kind /\ r.place = "sent"
    BY <1>1, FreshFields
<1>. QED
    BY <1>2, <1>3, Outdated1

LEMMA Outdate ==
    ASSUME NEW kinds, NEW v, NEW d, NetOK(net, view, detail),
           "detail" \in kinds, v = view \/ ViewKinds \subseteq kinds
    PROVE  /\ NetOK(Outdated(kinds), v, d)
           /\ \A kind : AwaitedIn(Outdated(kinds), kind) <=>
                          AwaitedIn(net, kind) /\ kind \notin kinds
<1>. DEFINE old(r) == [Request(r.kind, NoParameters, 0) EXCEPT !.current = FALSE]
            now(r) == IF r.kind \in kinds THEN old(r) ELSE r
<1>1. \A r : /\ DOMAIN old(r) = RequestFields
             /\ old(r).kind = r.kind /\ old(r).current = FALSE
             /\ old(r).place = "sent"
    BY OldFields
<1>. HIDE DEF old
<1>2. Outdated(kinds) = {now(r) : r \in net}
    BY DEF Outdated, old
<1>3. ASSUME NEW r \in net
      PROVE  /\ RequestOK(now(r), v, d)
             /\ now(r).kind = r.kind
             /\ now(r).current <=> r.current /\ r.kind \notin kinds
             /\ now(r).current => now(r) = r
  <2>1. RequestOK(r, view, detail)
      BY DEF NetOK
  <2>2. CASE r.kind \in kinds
    <3>1. /\ DOMAIN now(r) = RequestFields
          /\ now(r).kind = r.kind /\ now(r).current = FALSE
          /\ now(r).place = "sent"
        BY <1>1, <2>2
    <3>. HIDE DEF now
    <3>2. RequestOK(now(r), v, d)
        BY <2>1, <3>1 DEF RequestOK
    <3>. QED
        BY <2>2, <3>1, <3>2
  <2>3. CASE r.kind \notin kinds
    <3>1. now(r) = r
        BY <2>3
    <3>2. r.kind # "detail" /\ (v = view \/ r.kind \notin ViewKinds)
        BY <2>3
    <3>3. RequestOK(r, v, d)
        BY <2>1, <3>2 DEF RequestOK, ViewKinds
    <3>4. r.current \in BOOLEAN
        BY <2>1 DEF RequestOK
    <3>. QED
        BY <2>3, <3>1, <3>3, <3>4
  <2>. QED
      BY <2>2, <2>3
<1>. HIDE DEF now
<1>4. \A r, q \in net : r.current /\ q.current /\ r.kind = q.kind => r = q
    BY DEF NetOK
<1>5. NetOK(Outdated(kinds), v, d)
    BY <1>2, <1>3, <1>4 DEF NetOK
<1>6. ASSUME NEW kind
      PROVE  AwaitedIn(Outdated(kinds), kind) <=>
               AwaitedIn(net, kind) /\ kind \notin kinds
    BY <1>2, <1>3 DEF AwaitedIn
<1>. QED
    BY <1>5, <1>6

LEMMA Send ==
    ASSUME NEW N, NEW v, NEW d, NetOK(N, v, d), NEW q, RequestOK(q, v, d),
           q.current, ~AwaitedIn(N, q.kind)
    PROVE  /\ NetOK(N \cup {q}, v, d)
           /\ \A kind : AwaitedIn(N \cup {q}, kind) <=>
                          AwaitedIn(N, kind) \/ kind = q.kind
    BY DEF NetOK, AwaitedIn

LEMMA Withdraw ==
    ASSUME NEW N, NEW v, NEW d, NetOK(N, v, d), NEW r \in N
    PROVE  /\ NetOK(N \ {r}, v, d)
           /\ \A kind : AwaitedIn(N \ {r}, kind) <=>
                          AwaitedIn(N, kind) /\ (r.current => kind # r.kind)
<1>1. NetOK(N \ {r}, v, d)
    BY DEF NetOK
<1>2. r.current \in BOOLEAN
    BY DEF NetOK, RequestOK
<1>3. \A q \in N : q.current /\ r.current /\ q.kind = r.kind => q = r
    BY DEF NetOK
<1>4. ASSUME NEW kind
      PROVE  AwaitedIn(N \ {r}, kind) <=>
               AwaitedIn(N, kind) /\ (r.current => kind # r.kind)
    BY <1>2, <1>3 DEF AwaitedIn
<1>. QED
    BY <1>1, <1>4

\* A request that the page makes.
LEMMA Fresh ==
    ASSUME NEW kind \in ViewKinds \cup {"catalog"}, NEW of, NEW id, NEW v, NEW d,
           kind = "list" => of = Parameters(v),
           kind = "status" => of.root = Target(v),
           kind = "detail" => of.root = Target(v) /\ id = d.asked
    PROVE  /\ RequestOK(Request(kind, of, id), v, d)
           /\ Request(kind, of, id).kind = kind
           /\ Request(kind, of, id).current
<1>. DEFINE r == Request(kind, of, id)
<1>1. /\ DOMAIN r = RequestFields
      /\ r.kind = kind /\ r.of = of /\ r.id = id /\ r.current
      /\ r.place = "sent"
    BY FreshFields
<1>. HIDE DEF r
<1>2. RequestOK(r, v, d)
    BY <1>1 DEF RequestOK
<1>. QED
    BY <1>1, <1>2 DEF r

-----------------------------------------------------------------------------
(* What the user does.                                                     *)

LEMMA TargetOf ==
    ASSUME NEW v
    PROVE  Parameters(v).root = Target(v) /\ Parameters(v).cursor = v.cursor
    BY DEF Parameters

LEMMA LoadViewKeeps ==
    ASSUME NEW v \in View, NEW rest, NetOK(rest, v, Closed), LoadView(v, rest),
           \A kind \in ViewKinds : ~AwaitedIn(rest, kind),
           refreshing' \in BOOLEAN, refreshing' <=> AwaitedIn(rest, "catalog"),
           options'.projects \subseteq Projects,
           options'.sessions \subseteq Sessions,
           NotesOK'
    PROVE  CInv'
<1>1. view' = v /\ detail' = Closed
    BY DEF LoadView
<1>2. DetailOK' /\ detail'.busy = FALSE /\ detail'.shown = "closed"
    BY <1>1 DEF DetailOK, Closed, DetailFields
<1>3. CASE Parameters(v).root = None
  <2>1. /\ list' = BlankList("waiting") /\ pane' = BlankPane("waiting")
        /\ net' = rest
      BY <1>3 DEF LoadView
  <2>2. ListOK' /\ list'.busy = FALSE /\ list'.shown = "waiting"
      BY <2>1 DEF BlankList, ListOK, NoPage
  <2>3. pane'.shown = "waiting"
      BY <2>1 DEF BlankPane
  <2>4. PageShowsSelection'
      BY <1>2, <2>1, <2>2, <2>3, AwaitedNow DEF PageShowsSelection, ViewKinds
  <2>. QED
      BY <1>1, <1>2, <2>1, <2>2, <2>3, <2>4 DEF CInv
<1>4. CASE Parameters(v).root # None
  <2>. DEFINE l == Request("list", Parameters(v), 0)
              s == Request("status", Parameters(v), 0)
              full == IF v.scope = "session" THEN rest \cup {l}
                      ELSE (rest \cup {l}) \cup {s}
  <2>1. /\ list' = BlankList("loading") /\ pane' = BlankPane("loading")
        /\ net' = full
      BY <1>4 DEF LoadView
  <2>2. /\ RequestOK(l, v, Closed) /\ l.kind = "list" /\ l.current
        /\ RequestOK(s, v, Closed) /\ s.kind = "status" /\ s.current
      BY Fresh, TargetOf DEF ViewKinds
  <2>. HIDE DEF l, s
  <2>3. /\ NetOK(rest \cup {l}, v, Closed)
        /\ \A kind : AwaitedIn(rest \cup {l}, kind) <=>
                       AwaitedIn(rest, kind) \/ kind = "list"
      BY <2>2, Send DEF ViewKinds
  <2>4. /\ NetOK((rest \cup {l}) \cup {s}, v, Closed)
        /\ \A kind : AwaitedIn((rest \cup {l}) \cup {s}, kind) <=>
                       AwaitedIn(rest \cup {l}, kind) \/ kind = "status"
      BY <2>2, <2>3, Send DEF ViewKinds
  <2>5. /\ NetOK(net', v, Closed)
        /\ AwaitedIn(net', "list") /\ ~AwaitedIn(net', "detail")
        /\ v.scope # "session" => AwaitedIn(net', "status")
        /\ AwaitedIn(net', "catalog") <=> AwaitedIn(rest, "catalog")
      BY <2>1, <2>3, <2>4 DEF ViewKinds
  <2>6. ListOK' /\ list'.busy = TRUE /\ list'.shown = "loading"
      BY <2>1 DEF BlankList, ListOK, NoPage
  <2>7. pane'.shown = "loading"
      BY <2>1 DEF BlankPane
  <2>8. PageShowsSelection'
      BY <1>1, <1>2, <2>5, <2>6, <2>7, AwaitedNow DEF PageShowsSelection
  <2>. QED
      BY <1>1, <1>2, <2>5, <2>6, <2>7, <2>8 DEF CInv
<1>. QED
    BY <1>3, <1>4

LEMMA ShowKeeps ==
    ASSUME CInv, NEW v \in View, Show(v)
    PROVE  CInv'
<1>1. /\ LoadView(v, Outdated(ViewKinds))
      /\ UNCHANGED <<options, refreshing, notes>>
    BY DEF Show
<1>2. /\ NetOK(Outdated(ViewKinds), v, Closed)
      /\ \A kind : AwaitedIn(Outdated(ViewKinds), kind) <=>
                     AwaitedIn(net, kind) /\ kind \notin ViewKinds
    BY Outdate DEF CInv, ViewKinds
<1>3. refreshing <=> AwaitedIn(Outdated(ViewKinds), "catalog")
    BY <1>2, AwaitedNow DEF CInv, PageShowsSelection, ViewKinds
<1>4. NotesOK'
    BY <1>1 DEF CInv, NotesOK
<1>. QED
    BY <1>1, <1>2, <1>3, <1>4, LoadViewKeeps DEF CInv

LEMMA FirstPageOK ==
    ASSUME NEW v \in View
    PROVE  FirstPage(v) \in View
    BY DEF FirstPage, View

LEMMA UserKeeps ==
    ASSUME CInv,
           \/ ChooseScope \/ ChooseProject \/ ChooseSession \/ Search
           \/ FilterStatus \/ NextPage \/ BackToFirst \/ Retry
    PROVE  CInv'
<1>1. view \in View /\ list.page.next \in Nat
    BY DEF CInv, ListOK
<1>2. CASE ChooseScope
  <2>1. PICK scope \in {"global", "project", "session"} :
          Show(FirstPage([view EXCEPT !.scope = scope]))
      BY <1>2 DEF ChooseScope
  <2>2. [view EXCEPT !.scope = scope] \in View
      BY <1>1 DEF View
  <2>. QED
      BY <2>1, <2>2, FirstPageOK, ShowKeeps
<1>3. CASE ChooseProject
  <2>1. PICK p \in options.projects :
          Show(FirstPage([view EXCEPT !.project = p]))
      BY <1>3 DEF ChooseProject
  <2>2. [view EXCEPT !.project = p] \in View
      BY <1>1 DEF View, CInv
  <2>. QED
      BY <2>1, <2>2, FirstPageOK, ShowKeeps
<1>4. CASE ChooseSession
  <2>1. PICK s \in options.sessions :
          Show(FirstPage([view EXCEPT !.session = s]))
      BY <1>4 DEF ChooseSession
  <2>2. [view EXCEPT !.session = s] \in View
      BY <1>1 DEF View, CInv
  <2>. QED
      BY <2>1, <2>2, FirstPageOK, ShowKeeps
<1>5. CASE Search
  <2>1. PICK blank \in BOOLEAN :
          Show(FirstPage([view EXCEPT !.blank = blank]))
      BY <1>5 DEF Search
  <2>2. [view EXCEPT !.blank = blank] \in View
      BY <1>1 DEF View
  <2>. QED
      BY <2>1, <2>2, FirstPageOK, ShowKeeps
<1>6. CASE FilterStatus
  <2>1. PICK f \in Filters : Show(FirstPage([view EXCEPT !.statuses = f]))
      BY <1>6 DEF FilterStatus
  <2>2. [view EXCEPT !.statuses = f] \in View
      BY <1>1, ScopesAssumption DEF View
  <2>. QED
      BY <2>1, <2>2, FirstPageOK, ShowKeeps
<1>7. CASE NextPage
  <2>1. Show([view EXCEPT !.cursor = list.page.next])
      BY <1>7 DEF NextPage
  <2>2. [view EXCEPT !.cursor = list.page.next] \in View
      BY <1>1 DEF View
  <2>. QED
      BY <2>1, <2>2, ShowKeeps
<1>8. CASE BackToFirst \/ Retry
    BY <1>1, <1>8, FirstPageOK, ShowKeeps DEF BackToFirst, Retry
<1>. QED
    BY <1>2, <1>3, <1>4, <1>5, <1>6, <1>7, <1>8

LEMMA OpenDetailKeeps == CInv /\ OpenDetail => CInv'
<1>. SUFFICES ASSUME CInv, OpenDetail PROVE CInv'
    OBVIOUS
<1>1. PICK i :
        /\ net' = Outdated({"detail"}) \cup {Request("detail", list.of, i)}
        /\ detail' = [Closed EXCEPT !.shown = "loading", !.busy = TRUE,
                                    !.asked = i]
    BY DEF OpenDetail
<1>2. /\ list.shown = "items"
      /\ UNCHANGED <<view, list, pane, options, refreshing, notes>>
    BY DEF OpenDetail
<1>3. /\ DOMAIN detail' = DetailFields
      /\ detail'.shown = "loading" /\ detail'.busy = TRUE /\ detail'.asked = i
  <2>1. DOMAIN Closed = DetailFields
      BY DEF Closed, DetailFields
  <2>. QED
      BY <1>1, <2>1 DEF DetailFields
<1>4. /\ NetOK(Outdated({"detail"}), view, detail')
      /\ \A kind : AwaitedIn(Outdated({"detail"}), kind) <=>
                     AwaitedIn(net, kind) /\ kind # "detail"
    BY Outdate DEF CInv
<1>. DEFINE q == Request("detail", list.of, i)
<1>5. list.of.root = Target(view)
    BY <1>2, TargetOf DEF CInv, PageShowsSelection
<1>6. RequestOK(q, view, detail') /\ q.kind = "detail" /\ q.current
    BY <1>3, <1>5, Fresh DEF ViewKinds
<1>. HIDE DEF q
<1>7. /\ NetOK(net', view, detail')
      /\ \A kind : AwaitedIn(net', kind) <=>
                     AwaitedIn(net, kind) \/ kind = "detail"
    BY <1>1, <1>4, <1>6, Send DEF q
<1>8. DetailOK' /\ detail'.busy = TRUE /\ detail'.shown = "loading"
    BY <1>3 DEF DetailOK
<1>9. PageShowsSelection'
    BY <1>2, <1>7, <1>8, AwaitedNow DEF CInv, PageShowsSelection
<1>. QED
    BY <1>2, <1>7, <1>8, <1>9 DEF CInv, NotesOK, ListOK

LEMMA RefreshCatalogKeeps == CInv /\ RefreshCatalog => CInv'
<1>. SUFFICES ASSUME CInv, RefreshCatalog PROVE CInv'
    OBVIOUS
<1>. DEFINE kinds == ViewKinds \cup {"catalog"}
            q == Request("catalog", NoParameters, 0)
<1>1. /\ refreshing' = TRUE /\ view' = FirstPage(view)
      /\ list' = BlankList("loading") /\ detail' = Closed
      /\ pane' = BlankPane("loading")
      /\ net' = Outdated(kinds) \cup {q}
      /\ UNCHANGED <<options, notes>>
    BY DEF RefreshCatalog
<1>2. /\ NetOK(Outdated(kinds), view', Closed)
      /\ \A kind : AwaitedIn(Outdated(kinds), kind) <=>
                     AwaitedIn(net, kind) /\ kind \notin kinds
    BY Outdate DEF CInv, ViewKinds
<1>3. RequestOK(q, view', Closed) /\ q.kind = "catalog" /\ q.current
    BY Fresh
<1>. HIDE DEF q
<1>4. /\ NetOK(net', view', Closed)
      /\ \A kind : AwaitedIn(net', kind) <=>
                     AwaitedIn(Outdated(kinds), kind) \/ kind = "catalog"
    BY <1>1, <1>2, <1>3, Send
<1>5. \A kind \in ViewKinds : ~AwaitedIn(net', kind)
    BY <1>2, <1>4 DEF ViewKinds
<1>6. AwaitedIn(net', "catalog")
    BY <1>4
<1>7. ListOK' /\ list'.busy = TRUE /\ list'.shown = "loading"
    BY <1>1 DEF BlankList, ListOK, NoPage
<1>8. DetailOK' /\ detail'.busy = FALSE /\ detail'.shown = "closed"
    BY <1>1 DEF DetailOK, Closed, DetailFields
<1>9. pane'.shown = "loading"
    BY <1>1 DEF BlankPane
<1>10. PageShowsSelection'
    BY <1>1, <1>5, <1>6, <1>7, <1>8, <1>9, AwaitedNow
       DEF PageShowsSelection, ViewKinds
<1>11. view' \in View
    BY <1>1, FirstPageOK DEF CInv
<1>. QED
    BY <1>1, <1>4, <1>7, <1>8, <1>9, <1>10, <1>11 DEF CInv, NotesOK

-----------------------------------------------------------------------------
(* The handlers.                                                           *)

\* Whatever the answer, the request stays in flight.
LEMMA ReplyKeeps ==
    ASSUME CInv, NEW r \in net, r.current,
           NEW place \in {"counted", "answered", "failed"}, NEW data,
           Reply(r, place, data),
           r.kind = "list" /\ place = "answered" => data.page.next \in Nat,
           r.kind = "detail" /\ place = "answered" => data.id = r.id,
           r.kind = "catalog" /\ place = "answered" =>
             /\ data.options.projects \subseteq Projects
             /\ data.options.sessions \subseteq Sessions
    PROVE  CInv'
<1>. DEFINE q == [r EXCEPT !.place = place, !.data = data]
<1>1. net' = (net \ {r}) \cup {q} /\ UNCHANGED <<notes, pageVars>>
    BY DEF Reply
<1>2. UNCHANGED <<notes, view, list, detail, pane, options, refreshing>>
    BY <1>1 DEF pageVars
<1>3. RequestOK(r, view, detail)
    BY DEF CInv, NetOK
<1>4. /\ DOMAIN q = RequestFields
      /\ q.kind = r.kind /\ q.of = r.of /\ q.id = r.id
      /\ q.current = r.current /\ q.place = place /\ q.data = data
    BY <1>3 DEF RequestOK, RequestFields
<1>. HIDE DEF q
<1>5. RequestOK(q, view, detail) /\ q.kind = r.kind /\ q.current
    BY <1>3, <1>4 DEF RequestOK
<1>6. /\ NetOK(net \ {r}, view, detail)
      /\ \A kind : AwaitedIn(net \ {r}, kind) <=>
                     AwaitedIn(net, kind) /\ (r.current => kind # r.kind)
    BY Withdraw DEF CInv
<1>7. /\ NetOK(net', view, detail)
      /\ \A kind : AwaitedIn(net', kind) <=>
                     AwaitedIn(net \ {r}, kind) \/ kind = r.kind
    BY <1>1, <1>5, <1>6, Send
<1>8. AwaitedIn(net, r.kind)
    BY DEF AwaitedIn
<1>9. \A kind : AwaitedIn(net', kind) <=> AwaitedIn(net, kind)
    BY <1>6, <1>7, <1>8
<1>10. PageShowsSelection'
    BY <1>2, <1>9, AwaitedNow DEF CInv, PageShowsSelection
<1>. QED
    BY <1>2, <1>7, <1>10 DEF CInv, NotesOK, ListOK, DetailOK

-----------------------------------------------------------------------------
(* The pages that are answered.                                            *)

\* No id is larger than the clock can get.
LEMMA IdsFinite == IsFiniteSet(Ids)
<1>1. Ids \subseteq 0..MaxClock
    BY RecallAssumption, ScopesAssumption
<1>2. IsFiniteSet(0..MaxClock)
    BY FS_Interval, ScopesAssumption
<1>. QED
    BY <1>1, <1>2, FS_Subset

LEMMA CountIsNat ==
    ASSUME NEW S, S \subseteq Ids
    PROVE  Cardinality(S) \in Nat
    BY IdsFinite, FS_Subset, FS_CardinalityType

\* A function on 1..k is a sequence, and its next offset a number.
LEMMA PageLength ==
    ASSUME NEW S, NEW s \in Seq(S), NEW offset \in Nat, NEW n \in Nat
    PROVE  Len(SubSeq(s, offset + 1, offset + n)) \in Nat
    OBVIOUS

LEMMA NextIsNat ==
    ASSUME NEW ranked, NEW k \in Nat, ranked = [n \in 1..k |-> ranked[n]],
           NEW offset \in Nat
    PROVE  PageOf(ranked, offset).next \in Nat
<1>1. ranked \in Seq({ranked[n] : n \in 1..k})
    OBVIOUS
<1>2. ASSUME NEW S, ranked \in Seq(S) PROVE NextOffset(ranked, offset) \in Nat
  <2>. DEFINE page == SubSeq(ranked, offset + 1, offset + Limit)
  <2>1. Limit \in Nat
      BY RecallAssumption
  <2>2. Len(page) \in Nat
      BY <1>2, <2>1, PageLength
  <2>3. CASE offset + Limit < Len(ranked)
    <3>1. Page(ranked, offset) = page
        BY <2>3 DEF Page
    <3>. HIDE DEF page
    <3>. QED
        BY <2>2, <2>3, <3>1 DEF NextOffset
  <2>4. CASE ~(offset + Limit < Len(ranked))
      BY <2>4 DEF NextOffset
  <2>. QED
      BY <2>3, <2>4
<1>. QED
    BY <1>1, <1>2 DEF PageOf

LEMMA RankingIsSequence ==
    ASSUME NEW m, NEW blank, NEW statuses, NEW ranked,
           ranked = Ranking(m, blank, statuses)
    PROVE  \E k \in Nat : ranked = [n \in 1..k |-> ranked[n]]
<1>1. CASE blank
  <2>. DEFINE S == Filtered(m, statuses)
  <2>1. ranked = [n \in 1..Cardinality(S) |->
                    CHOOSE i \in S :
                        Cardinality({j \in S : Newer(m, j, i)}) = n - 1]
      BY <1>1 DEF Ranking, Listing, Ordered
  <2>2. Cardinality(S) \in Nat
      BY CountIsNat DEF Filtered, Present
  <2>. HIDE DEF S
  <2>. QED
      BY <2>1, <2>2
<1>2. CASE ~blank
  <2>. DEFINE S == {i \in Filtered(m, statuses) : Relevance[i] > 0}
  <2>1. ranked = [n \in 1..Cardinality(S) |->
                    CHOOSE i \in S :
                        Cardinality({j \in S : Outranks(m, j, i)}) = n - 1]
      BY <1>2 DEF Ranking, Hits, Ordered
  <2>2. Cardinality(S) \in Nat
      BY CountIsNat DEF Filtered, Present
  <2>. HIDE DEF S
  <2>. QED
      BY <2>1, <2>2
<1>. QED
    BY <1>1, <1>2

LEMMA TopicsAreSequence ==
    ASSUME CInv, NEW r, IsSession(r), Selected(r.of.root),
           NEW ranked, ranked = TopicsOf(r)
    PROVE  \E k \in Nat : ranked = [n \in 1..k |-> ranked[n]]
<1>. DEFINE key == r.of.root.key
            S == {i \in notes[key] : r.of.blank \/ Relevance[i] > 0}
<1>1. key \in Stored
    BY DEF IsSession, Selected
<1>2. notes[key] \subseteq Topics
    BY <1>1 DEF Stored, CInv, NotesOK
<1>3. S \subseteq Ids
    BY <1>2, ConsoleAssumption
<1>4. ranked = [n \in 1..Cardinality(S) |->
                  CHOOSE i \in S : Cardinality({j \in S : j < i}) = n - 1]
    BY DEF TopicsOf, Ordered
<1>5. Cardinality(S) \in Nat
    BY <1>3, CountIsNat
<1>. HIDE DEF S
<1>. QED
    BY <1>4, <1>5

LEMMA DataFields ==
    ASSUME NEW v
    PROVE  /\ [NoData EXCEPT !.page = v].page = v
           /\ [NoData EXCEPT !.id = v].id = v
           /\ [NoData EXCEPT !.options = v].options = v
<1>1. {"page", "id", "options"} \subseteq DOMAIN NoData
    BY DEF NoData
<1>. QED
    BY <1>1

LEMMA ListCursor ==
    ASSUME CInv, NEW r \in net, r.kind = "list", r.current
    PROVE  r.of.cursor \in Nat
<1>1. r.of = Parameters(view)
    BY DEF CInv, NetOK, RequestOK
<1>. QED
    BY <1>1, TargetOf DEF CInv, View

\* Only the last request of its kind has an answer.
LEMMA AnsweredIsCurrent ==
    ASSUME CInv, NEW r \in net, r.place # "sent"
    PROVE  r.current
    BY DEF CInv, NetOK, RequestOK

LEMMA HandlerKeeps ==
    ASSUME CInv, NEW r \in net,
           \/ ServeSession(r) \/ CountMemories(r) \/ ServeMemories(r)
           \/ ServeDetail(r) \/ Inspect(r) \/ ServeStatus(r) \/ ServeCatalog(r)
           \/ Lost(r)
    PROVE  CInv'
<1>1. CASE r.current /\ Reply(r, "failed", NoData)
    BY <1>1, ReplyKeeps
<1>2. CASE r.current /\ Reply(r, "counted", Counted(r))
    BY <1>2, ReplyKeeps
<1>3. CASE ServeSession(r)
  <2>1. r.kind = "list" /\ r.current /\ IsSession(r)
      BY <1>3 DEF ServeSession, Ask
  <2>2. CASE Selected(r.of.root)
    <3>. DEFINE page == PageOf(TopicsOf(r), r.of.cursor)
                data == [NoData EXCEPT !.page = page]
    <3>1. Reply(r, "answered", data)
        BY <1>3, <2>2 DEF ServeSession
    <3>2. page.next \in Nat
        BY <2>1, <2>2, TopicsAreSequence, ListCursor, NextIsNat
    <3>3. data.page = page
        BY DataFields
    <3>. HIDE DEF page, data
    <3>. QED
        BY <2>1, <3>1, <3>2, <3>3, ReplyKeeps
  <2>. QED
      BY <1>1, <1>3, <2>1, <2>2 DEF ServeSession
<1>4. CASE ServeMemories(r)
  <2>1. r.kind = "list" /\ r.current
      BY <1>4, AnsweredIsCurrent DEF ServeMemories
  <2>2. CASE Reply(r, "failed", NoData)
      BY <1>1, <2>1, <2>2
  <2>3. CASE \E m, blank : Reply(r, "answered", [NoData EXCEPT !.page =
                 PageOf(Ranking(m, blank, r.of.statuses), r.of.cursor)])
    <3>1. PICK m, blank : Reply(r, "answered", [NoData EXCEPT !.page =
                 PageOf(Ranking(m, blank, r.of.statuses), r.of.cursor)])
        BY <2>3
    <3>. DEFINE page == PageOf(Ranking(m, blank, r.of.statuses), r.of.cursor)
                data == [NoData EXCEPT !.page = page]
    <3>2. Reply(r, "answered", data)
        BY <3>1
    <3>3. page.next \in Nat
        BY <2>1, RankingIsSequence, ListCursor, NextIsNat
    <3>4. data.page = page
        BY DataFields
    <3>. HIDE DEF page, data
    <3>. QED
        BY <2>1, <3>2, <3>3, <3>4, ReplyKeeps
  <2>. QED
      BY <1>4, <2>2, <2>3 DEF ServeMemories
<1>5. CASE ServeDetail(r)
  <2>1. r.kind = "detail" /\ r.current
      BY <1>5 DEF ServeDetail, Ask
  <2>. DEFINE data == [NoData EXCEPT !.id = r.id]
  <2>2. data.id = r.id
      BY DataFields
  <2>3. Reply(r, "answered", data) \/ Reply(r, "failed", NoData)
      BY <1>5 DEF ServeDetail
  <2>. HIDE DEF data
  <2>. QED
      BY <1>1, <2>1, <2>2, <2>3, ReplyKeeps
<1>6. CASE ServeStatus(r)
  <2>1. r.kind = "status" /\ r.current
      BY <1>6, AnsweredIsCurrent DEF ServeStatus
  <2>2. PICK data : Reply(r, "answered", data)
      BY <1>6 DEF ServeStatus
  <2>. QED
      BY <2>1, <2>2, ReplyKeeps
<1>7. CASE ServeCatalog(r)
  <2>1. r.kind = "catalog" /\ r.current
      BY <1>7 DEF ServeCatalog, Ask
  <2>. DEFINE offered == [projects |-> Inventory, sessions |-> Stored]
              data == [NoData EXCEPT !.options = offered]
  <2>2. /\ offered.projects \subseteq Projects
        /\ offered.sessions \subseteq Sessions
      BY DEF Inventory, Stored
  <2>3. data.options = offered
      BY DataFields
  <2>4. Reply(r, "answered", data)
      BY <1>7 DEF ServeCatalog
  <2>. HIDE DEF data, offered
  <2>. QED
      BY <2>1, <2>2, <2>3, <2>4, ReplyKeeps
<1>8. CASE Lost(r)
    BY <1>1, <1>8 DEF Lost
<1>9. CASE CountMemories(r) \/ Inspect(r)
    BY <1>1, <1>2, <1>9 DEF CountMemories, Inspect, Ask
<1>. QED
    BY <1>3, <1>4, <1>5, <1>6, <1>7, <1>8, <1>9

-----------------------------------------------------------------------------
(* What the page does when a request ends.                                 *)

LEMMA DroppedKeeps ==
    ASSUME CInv, NEW r \in net, Dropped(r)
    PROVE  CInv'
<1>1. ~r.current /\ net' = net \ {r} /\ UNCHANGED <<notes, pageVars>>
    BY DEF Dropped, Gone
<1>2. UNCHANGED <<notes, view, list, detail, pane, options, refreshing>>
    BY <1>1 DEF pageVars
<1>3. /\ NetOK(net', view, detail)
      /\ \A kind : AwaitedIn(net', kind) <=> AwaitedIn(net, kind)
    BY <1>1, Withdraw DEF CInv
<1>4. PageShowsSelection'
    BY <1>2, <1>3, AwaitedNow DEF CInv, PageShowsSelection
<1>. QED
    BY <1>2, <1>3, <1>4 DEF CInv, NotesOK, ListOK, DetailOK

LEMMA EndListKeeps ==
    ASSUME CInv, NEW r \in net, EndList(r)
    PROVE  CInv'
<1>1. /\ r.kind = "list" /\ r.current
      /\ UNCHANGED <<notes, view, detail, pane, options, refreshing>>
    BY DEF EndList
<1>2. r.place \in {"answered", "failed"} /\ net' = net \ {r}
    BY <1>1 DEF EndList, Gone
<1>3. RequestOK(r, view, detail)
    BY DEF CInv, NetOK
<1>4. /\ NetOK(net', view, detail)
      /\ \A kind : AwaitedIn(net', kind) <=>
                     AwaitedIn(net, kind) /\ kind # "list"
    BY <1>1, <1>2, Withdraw DEF CInv
<1>5. /\ ListOK' /\ list'.busy = FALSE
      /\ \/ list'.shown = "items" /\ list'.of = Parameters(view)
         \/ list'.shown = "error"
  <2>1. CASE r.place = "answered"
    <3>1. list' = [shown |-> "items", busy |-> FALSE, of |-> r.of,
                   page |-> r.data.page]
        BY <2>1 DEF EndList
    <3>2. r.of = Parameters(view) /\ r.data.page.next \in Nat
        BY <1>1, <1>3, <2>1 DEF RequestOK
    <3>. QED
        BY <3>1, <3>2 DEF ListOK
  <2>2. CASE r.place # "answered"
    <3>1. list' = BlankList("error")
        BY <2>2 DEF EndList
    <3>. QED
        BY <3>1 DEF BlankList, ListOK, NoPage
  <2>. QED
      BY <2>1, <2>2
<1>6. PageShowsSelection'
    BY <1>1, <1>4, <1>5, AwaitedNow DEF CInv, PageShowsSelection
<1>. QED
    BY <1>1, <1>4, <1>5, <1>6 DEF CInv, NotesOK, DetailOK

LEMMA EndStatusKeeps ==
    ASSUME CInv, NEW r \in net, EndStatus(r)
    PROVE  CInv'
<1>1. /\ r.kind = "status" /\ r.current
      /\ UNCHANGED <<notes, view, list, detail, options, refreshing>>
    BY DEF EndStatus
<1>2. r.place \in {"answered", "failed"} /\ net' = net \ {r}
    BY <1>1 DEF EndStatus, Gone
<1>3. r.of.root = Target(view)
    BY <1>1 DEF CInv, NetOK, RequestOK
<1>4. /\ NetOK(net', view, detail)
      /\ \A kind : AwaitedIn(net', kind) <=>
                     AwaitedIn(net, kind) /\ kind # "status"
    BY <1>1, <1>2, Withdraw DEF CInv
<1>5. \/ pane'.shown = "known" /\ pane'.of = r.of
      \/ pane'.shown = "error"
    BY DEF EndStatus, BlankPane
<1>6. PageShowsSelection'
    BY <1>1, <1>3, <1>4, <1>5, AwaitedNow DEF CInv, PageShowsSelection
<1>. QED
    BY <1>1, <1>4, <1>5, <1>6 DEF CInv, NotesOK, ListOK, DetailOK

LEMMA EndDetailKeeps ==
    ASSUME CInv, NEW r \in net, EndDetail(r)
    PROVE  CInv'
<1>1. /\ r.kind = "detail" /\ r.current
      /\ UNCHANGED <<notes, view, list, pane, options, refreshing>>
    BY DEF EndDetail
<1>2. r.place \in {"answered", "failed"} /\ net' = net \ {r}
    BY <1>1 DEF EndDetail, Gone
<1>3. RequestOK(r, view, detail) /\ DOMAIN detail = DetailFields
    BY DEF CInv, NetOK, DetailOK
<1>4. /\ NetOK(net \ {r}, view, detail)
      /\ \A kind : AwaitedIn(net', kind) <=>
                     AwaitedIn(net, kind) /\ kind # "detail"
    BY <1>1, <1>2, Withdraw DEF CInv
<1>5. /\ DetailOK' /\ detail'.busy = FALSE
      /\ \/ /\ detail'.shown = "open" /\ detail'.of = r.of
            /\ detail'.id = detail'.asked /\ r.of.root = Target(view)
         \/ detail'.shown = "error"
  <2>1. CASE r.place = "answered"
    <3>1. detail' = [detail EXCEPT !.shown = "open", !.busy = FALSE,
                                   !.of = r.of, !.id = r.data.id]
        BY <2>1 DEF EndDetail
    <3>2. /\ DOMAIN detail' = DetailFields
          /\ detail'.shown = "open" /\ detail'.busy = FALSE
          /\ detail'.of = r.of /\ detail'.id = r.data.id
          /\ detail'.asked = detail.asked
        BY <1>3, <3>1 DEF DetailFields
    <3>3. /\ r.of.root = Target(view) /\ r.id = detail.asked
          /\ r.data.id = r.id
        BY <1>1, <1>3, <2>1 DEF RequestOK
    <3>. QED
        BY <3>2, <3>3 DEF DetailOK
  <2>2. CASE r.place # "answered"
    <3>1. detail' = [Closed EXCEPT !.shown = "error"]
        BY <2>2 DEF EndDetail
    <3>2. DOMAIN Closed = DetailFields /\ Closed.busy = FALSE
        BY DEF Closed, DetailFields
    <3>3. /\ DOMAIN detail' = DetailFields
          /\ detail'.shown = "error" /\ detail'.busy = FALSE
        BY <3>1, <3>2 DEF DetailFields
    <3>. QED
        BY <3>3 DEF DetailOK
  <2>. QED
      BY <2>1, <2>2
<1>6. NetOK(net', view, detail')
  <2>1. \A q \in net \ {r} : q.current => q.kind # "detail"
      BY <1>1, <1>2, <1>4 DEF AwaitedIn
  <2>2. \A q \in net \ {r} : RequestOK(q, view, detail')
      BY <1>4, <2>1 DEF NetOK, RequestOK
  <2>. QED
      BY <1>2, <1>4, <2>2 DEF NetOK
<1>7. PageShowsSelection'
    BY <1>1, <1>4, <1>5, AwaitedNow DEF CInv, PageShowsSelection
<1>. QED
    BY <1>1, <1>5, <1>6, <1>7 DEF CInv, NotesOK, ListOK

LEMMA EndCatalogKeeps ==
    ASSUME CInv, NEW r \in net, EndCatalog(r)
    PROVE  CInv'
<1>. DEFINE rest == Outdated(ViewKinds) \ {r}
<1>1. /\ r.kind = "catalog" /\ r.current /\ refreshing' = FALSE
      /\ r.place \in {"answered", "failed"} /\ UNCHANGED notes
    BY DEF EndCatalog
<1>2. /\ \A v : NetOK(Outdated(ViewKinds), v, Closed)
      /\ \A kind : AwaitedIn(Outdated(ViewKinds), kind) <=>
                     AwaitedIn(net, kind) /\ kind \notin ViewKinds
    BY Outdate DEF CInv, ViewKinds
<1>3. r \in Outdated(ViewKinds)
    BY <1>1 DEF Outdated, ViewKinds
<1>4. /\ \A v : NetOK(rest, v, Closed)
      /\ \A kind : AwaitedIn(rest, kind) <=>
                     AwaitedIn(Outdated(ViewKinds), kind) /\ kind # "catalog"
    BY <1>1, <1>2, <1>3, Withdraw
<1>5. /\ \A kind \in ViewKinds : ~AwaitedIn(rest, kind)
      /\ ~AwaitedIn(rest, "catalog")
    BY <1>2, <1>4
<1>6. NotesOK'
    BY <1>1 DEF CInv, NotesOK
<1>7. view \in View
    BY DEF CInv
<1>8. CASE r.place = "answered"
  <2>1. options' = r.data.options
      BY <1>8 DEF EndCatalog
  <2>2. PICK p \in Fill(view.project, options'.projects) :
          \E s \in Fill(view.session, options'.sessions) :
            LoadView(FirstPage([view EXCEPT !.project = p, !.session = s]), rest)
      BY <1>8 DEF EndCatalog
  <2>3. PICK s \in Fill(view.session, options'.sessions) :
            LoadView(FirstPage([view EXCEPT !.project = p, !.session = s]), rest)
      BY <2>2
  <2>4. /\ options'.projects \subseteq Projects
        /\ options'.sessions \subseteq Sessions
      BY <1>1, <1>8, <2>1 DEF CInv, NetOK, RequestOK
  <2>5. p \in Projects \cup {None} /\ s \in Sessions \cup {None}
      BY <1>7, <2>4 DEF Fill, View
  <2>6. [view EXCEPT !.project = p, !.session = s] \in View
      BY <1>7, <2>5 DEF View
  <2>. HIDE DEF rest
  <2>. QED
      BY <1>1, <1>4, <1>5, <1>6, <2>3, <2>4, <2>6, FirstPageOK, LoadViewKeeps
<1>9. CASE r.place # "answered"
  <2>1. UNCHANGED options /\ LoadView(FirstPage(view), rest)
      BY <1>9 DEF EndCatalog
  <2>. HIDE DEF rest
  <2>. QED
      BY <1>1, <1>4, <1>5, <1>6, <1>7, <2>1, FirstPageOK, LoadViewKeeps DEF CInv
<1>. QED
    BY <1>8, <1>9

LEMMA OtherNotesKeeps == CInv /\ OtherNotes => CInv'
<1>. SUFFICES ASSUME CInv, OtherNotes PROVE CInv'
    OBVIOUS
<1>1. UNCHANGED <<net, view, list, detail, pane, options, refreshing>>
    BY DEF OtherNotes, pageVars
<1>2. PICK s \in Sessions, i \in Topics :
        notes' = [notes EXCEPT ![s] = IF notes[s] = None THEN {i}
                                      ELSE IF i \in notes[s] THEN notes[s] \ {i}
                                      ELSE notes[s] \cup {i}]
    BY DEF OtherNotes
<1>3. NotesOK'
    BY <1>2 DEF CInv, NotesOK
<1>4. PageShowsSelection'
    BY <1>1 DEF CInv, PageShowsSelection, Awaited
<1>. QED
    BY <1>1, <1>3, <1>4 DEF CInv, ListOK, DetailOK

LEMMA StepShows == CInv /\ [Next]_servingVars => CInv'
<1>. SUFFICES ASSUME CInv, [Next]_servingVars PROVE CInv'
    OBVIOUS
<1>1. CASE ConsoleStep
  <2>1. CASE \E r \in net :
          \/ ServeSession(r) \/ CountMemories(r) \/ ServeMemories(r)
          \/ ServeDetail(r) \/ Inspect(r) \/ ServeStatus(r) \/ ServeCatalog(r)
          \/ Lost(r)
      BY <2>1, HandlerKeeps
  <2>2. CASE \E r \in net :
          Dropped(r) \/ EndList(r) \/ EndStatus(r) \/ EndDetail(r)
      BY <2>2, DroppedKeeps, EndListKeeps, EndStatusKeeps, EndDetailKeeps
  <2>3. CASE \E r \in net : EndCatalog(r)
      BY <2>3, EndCatalogKeeps
  <2>. QED
      BY <1>1, <2>1, <2>2, <2>3, UserKeeps, OpenDetailKeeps, RefreshCatalogKeeps,
         OtherNotesKeeps DEF ConsoleStep
<1>2. CASE UNCHANGED consoleVars
  <2>1. UNCHANGED <<notes, net, view, list, detail, pane, options, refreshing>>
      BY <1>2 DEF consoleVars, pageVars
  <2>2. PageShowsSelection'
      BY <2>1 DEF CInv, PageShowsSelection, Awaited
  <2>. QED
      BY <2>1, <2>2 DEF CInv, NotesOK, ListOK, DetailOK
<1>. QED
    BY <1>1, <1>2 DEF Next, Serve, ServeUi, servingVars

LEMMA InitShows == Init => CInv
<1>. SUFFICES ASSUME Init PROVE CInv
    OBVIOUS
<1>. DEFINE q == Request("catalog", NoParameters, 0)
<1>1. /\ notes = [s \in Sessions |-> IF s \in InitSessions THEN Topics ELSE None]
      /\ view = [scope |-> "global", project |-> None, session |-> None,
                 blank |-> TRUE, cursor |-> 0,
                 statuses |-> CHOOSE f \in Filters : TRUE]
      /\ net = {q} /\ list = BlankList("loading") /\ detail = Closed
      /\ pane = BlankPane("loading") /\ options = NoOptions
      /\ refreshing = TRUE
    BY DEF Init, ConsoleInit
<1>2. (CHOOSE f \in Filters : TRUE) \in SUBSET AllStatuses
    BY ConsoleAssumption, ScopesAssumption
<1>3. view \in View
    BY <1>1, <1>2 DEF View
<1>4. RequestOK(q, view, detail) /\ q.kind = "catalog" /\ q.current
    BY Fresh
<1>. HIDE DEF q
<1>5. NetOK(net, view, detail)
    BY <1>1, <1>4 DEF NetOK
<1>6. \A kind : AwaitedIn(net, kind) <=> kind = "catalog"
    BY <1>1, <1>4 DEF AwaitedIn
<1>7. ListOK /\ list.shown = "loading" /\ list.busy = TRUE
    BY <1>1 DEF ListOK, BlankList, NoPage
<1>8. DetailOK /\ detail.shown = "closed" /\ detail.busy = FALSE
    BY <1>1 DEF DetailOK, Closed, DetailFields
<1>9. pane.shown = "loading"
    BY <1>1 DEF BlankPane
<1>10. PageShowsSelection
    BY <1>1, <1>6, <1>7, <1>8, <1>9, AwaitedNow DEF PageShowsSelection
<1>11. NotesOK
    BY <1>1 DEF NotesOK
<1>. QED
    BY <1>1, <1>3, <1>5, <1>7, <1>8, <1>9, <1>10, <1>11 DEF CInv, NoOptions

LEMMA CInvAlways == Spec => []CInv
<1>1. Init => CInv
    BY InitShows
<1>2. CInv /\ [Next]_servingVars => CInv'
    BY StepShows
<1>. QED
    BY <1>1, <1>2, PTL DEF Spec

\* Whatever order the answers come in, each pane of the console shows what is
\* selected, and one that says it is loading has a request in flight for it.
THEOREM PageIsRight == Spec => []PageShowsSelection
<1>1. CInv => PageShowsSelection
    BY DEF CInv
<1>. QED
    BY <1>1, CInvAlways, PTL
=============================================================================
