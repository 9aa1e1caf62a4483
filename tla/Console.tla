------------------------------ MODULE Console -------------------------------
(***************************************************************************)
(* The read-only local console (ui.rs and ui/console.js): one page in a    *)
(* browser, its requests in flight, and the handlers that answer them from *)
(* the durable scopes and the session notes while other processes write.   *)
(*                                                                         *)
(* The page numbers its views, details and catalogs and aborts a request   *)
(* whenever it raises the number, so one flag of a request, current, says  *)
(* that its number is still the last one and that it was not aborted.  An  *)
(* aborted request may still deliver an answer that had arrived.           *)
(***************************************************************************)
EXTENDS Scopes, FiniteSets

CONSTANTS
    Sessions,   \* session ids
    InitSessions,\* those that have notes at first
    Topics,     \* topics that sessions may have, named as ids
    MaxPending  \* bound on the requests in flight when the user acts

ASSUME ConsoleAssumption ==
    /\ Sessions \cap Projects = {}
    /\ None \notin Sessions
    /\ Filters # {}
    /\ InitSessions \subseteq Sessions
    /\ Topics \subseteq Ids
    /\ MaxPending \in Nat

VARIABLES
    notes,      \* the topics of each session, None before its first
    view,       \* state: what the user selected
    net,        \* the requests in flight
    list,       \* the list pane
    detail,     \* the detail pane
    pane,       \* the status pane
    options,    \* the pickers
    refreshing  \* the catalog button is disabled

pageVars == <<view, list, detail, pane, options, refreshing>>
consoleVars == <<notes, net, pageVars>>

SessionRoot(s) == [layout |-> "session", key |-> s]

\* context(): what the selection addresses, None when nothing is to be picked.
Target(v) ==
    CASE v.scope = "global" -> GlobalRoot
      [] v.scope = "project" ->
           IF v.project = None THEN None ELSE FirstClass(v.project)
      [] v.scope = "session" ->
           IF v.session = None THEN None ELSE SessionRoot(v.session)

\* The parameters of a list request; a session has no status filter.
Parameters(v) ==
    [root |-> Target(v), blank |-> v.blank, cursor |-> v.cursor,
     statuses |-> IF v.scope = "session" THEN {} ELSE v.statuses]

NoParameters == [root |-> None, blank |-> TRUE, cursor |-> 0, statuses |-> {}]

NoPage == [ids |-> <<>>, next |-> 0]

NoOptions == [projects |-> {}, sessions |-> {}]

\* What an answer may carry, one field per kind of request.
NoData == [empty |-> FALSE, page |-> NoPage, id |-> 0, index |-> "none",
           options |-> NoOptions]

Request(kind, of, id) ==
    [kind |-> kind, of |-> of, id |-> id, current |-> TRUE, place |-> "sent",
     data |-> NoData]

\* abort and a new number: what is in flight is old.  Its handler may go on, it
\* only reads, and what it answers may still arrive, of which only the kind is
\* kept.
Outdated(kinds) ==
    {IF r.kind \in kinds
     THEN [Request(r.kind, NoParameters, 0) EXCEPT !.current = FALSE]
     ELSE r : r \in net}

ViewKinds == {"list", "status", "detail"}

BlankList(shown) ==
    [shown |-> shown, busy |-> shown = "loading", of |-> NoParameters,
     page |-> NoPage]

Closed == [shown |-> "closed", busy |-> FALSE, of |-> NoParameters, id |-> 0,
           asked |-> 0]

BlankPane(shown) == [shown |-> shown, of |-> NoParameters, index |-> "none"]

ConsoleInit ==
    /\ notes = [s \in Sessions |-> IF s \in InitSessions THEN Topics ELSE None]
    /\ view = [scope |-> "global", project |-> None, session |-> None,
               blank |-> TRUE, cursor |-> 0,
               statuses |-> CHOOSE f \in Filters : TRUE]
    /\ net = {Request("catalog", NoParameters, 0)}
    /\ list = BlankList("loading")
    /\ detail = Closed
    /\ pane = BlankPane("loading")
    /\ options = NoOptions
    /\ refreshing = TRUE

-----------------------------------------------------------------------------
(* What the user does.                                                     *)

\* loadView on the selection v with the requests rest in flight.
LoadView(v, rest) ==
    LET of == Parameters(v)
    IN  /\ view' = v
        /\ detail' = Closed
        /\ IF of.root = None
           THEN /\ list' = BlankList("waiting")
                /\ pane' = BlankPane("waiting")
                /\ net' = rest
           ELSE /\ list' = BlankList("loading")
                /\ pane' = BlankPane("loading")
                /\ net' = rest \cup {Request("list", of, 0)} \cup
                     IF v.scope = "session" THEN {}
                     ELSE {Request("status", of, 0)}

Show(v) ==
    /\ Cardinality(net) <= MaxPending
    /\ LoadView(v, Outdated(ViewKinds))
    /\ UNCHANGED <<options, refreshing, notes, scopeVars>>

FirstPage(v) == [v EXCEPT !.cursor = 0]

ChooseScope ==
    \E scope \in {"global", "project", "session"} :
        Show(FirstPage([view EXCEPT !.scope = scope]))

ChooseProject ==
    /\ view.scope = "project"
    /\ \E p \in options.projects \ {view.project} :
        Show(FirstPage([view EXCEPT !.project = p]))

ChooseSession ==
    /\ view.scope = "session"
    /\ \E s \in options.sessions \ {view.session} :
        Show(FirstPage([view EXCEPT !.session = s]))

Search == \E blank \in BOOLEAN : Show(FirstPage([view EXCEPT !.blank = blank]))

FilterStatus ==
    /\ view.scope # "session"
    /\ \E f \in Filters \ {view.statuses} :
        Show(FirstPage([view EXCEPT !.statuses = f]))

NextPage ==
    /\ list.page.next # 0
    /\ Show([view EXCEPT !.cursor = list.page.next])

BackToFirst ==
    /\ list.shown \in {"items", "error"}
    /\ view.cursor # 0
    /\ Show(FirstPage(view))

\* The button of the error placeholder.
Retry == list.shown = "error" /\ Show(view)

\* A card exists as long as the list that made it is shown.
OpenDetail ==
    /\ list.shown = "items"
    /\ Cardinality(net) <= MaxPending
    /\ \E i \in ToSet(list.page.ids) :
        /\ net' = Outdated({"detail"}) \cup {Request("detail", list.of, i)}
        /\ detail' = [Closed EXCEPT !.shown = "loading", !.busy = TRUE,
                                    !.asked = i]
    /\ UNCHANGED <<view, list, pane, options, refreshing, notes, scopeVars>>

\* refreshCatalog until its answer: it clears the view and asks.
RefreshCatalog ==
    /\ ~refreshing
    /\ Cardinality(net) <= MaxPending
    /\ refreshing' = TRUE
    /\ view' = FirstPage(view)
    /\ list' = BlankList("loading")
    /\ detail' = Closed
    /\ pane' = BlankPane("loading")
    /\ net' = Outdated(ViewKinds \cup {"catalog"})
                \cup {Request("catalog", NoParameters, 0)}
    /\ UNCHANGED <<options, notes, scopeVars>>

-----------------------------------------------------------------------------
(* The handlers of ui.rs.                                                  *)

Reply(r, place, data) ==
    /\ net' = (net \ {r}) \cup {[r EXCEPT !.place = place, !.data = data]}
    /\ UNCHANGED <<notes, pageVars, scopeVars>>

\* list_session_ids: the first note makes a session, and it stays when the last
\* one is removed.
Stored == {s \in Sessions : notes[s] # None}

\* selected_store and require_session: only what the inventory lists.
Selected(root) ==
    CASE root.layout = "project" -> root.key \in Inventory
      [] root.layout = "session" -> root.key \in Stored
      [] OTHER -> TRUE

Ask(r, kind) == r.current /\ r.kind = kind /\ r.place = "sent"

IsSession(r) == r.of.root # None /\ r.of.root.layout = "session"

PageOf(ranked, offset) ==
    [ids |-> Page(ranked, offset), next |-> NextOffset(ranked, offset)]

TopicsOf(r) ==
    Ordered({i \in notes[r.of.root.key] : r.of.blank \/ Relevance[i] > 0}, <)

\* GET /api/session
ServeSession(r) ==
    /\ Ask(r, "list") /\ IsSession(r)
    /\ IF Selected(r.of.root)
       THEN Reply(r, "answered",
                  [NoData EXCEPT !.page = PageOf(TopicsOf(r), r.of.cursor)])
       ELSE Reply(r, "failed", NoData)

Counted(r) == [NoData EXCEPT !.empty = Present(docs[r.of.root]) = {}]

\* GET /api/memories: a search of an empty scope is answered as a listing,
\* decided by a count that comes before the query itself.
CountMemories(r) ==
    /\ Ask(r, "list") /\ ~IsSession(r)
    /\ IF Selected(r.of.root)
       THEN Reply(r, "counted", Counted(r))
       ELSE Reply(r, "failed", NoData)

ServeMemories(r) ==
    /\ r.kind = "list" /\ r.place = "counted"
    /\ LET blank == r.of.blank \/ r.data.empty
           source == IF blank THEN docs[r.of.root] ELSE lexical[r.of.root]
       IN  IF source = None THEN Reply(r, "failed", NoData)
           ELSE Reply(r, "answered", [NoData EXCEPT !.page =
                      PageOf(Ranking(source, blank, r.of.statuses),
                             r.of.cursor)])

\* GET /api/memory and /api/topic: get_memory falls back to Global, and what
\* is found there is not in the selected Project.
ServeDetail(r) ==
    /\ Ask(r, "detail")
    /\ IF /\ Selected(r.of.root)
          /\ IF IsSession(r) THEN r.id \in notes[r.of.root.key]
             ELSE Has(r.of.root, r.id)
       THEN Reply(r, "answered", [NoData EXCEPT !.id = r.id])
       ELSE Reply(r, "failed", NoData)

\* GET /api/status: the documents are counted before the index is read.
Inspect(r) ==
    /\ Ask(r, "status")
    /\ IF Selected(r.of.root)
       THEN Reply(r, "counted", Counted(r))
       ELSE Reply(r, "failed", NoData)

ServeStatus(r) ==
    /\ r.kind = "status" /\ r.place = "counted"
    /\ Reply(r, "answered", [NoData EXCEPT !.index =
             IF lexical[r.of.root] # None THEN "ready"
             ELSE IF r.data.empty THEN "empty" ELSE "missing"])

\* GET /api/catalog
ServeCatalog(r) ==
    /\ Ask(r, "catalog")
    /\ Reply(r, "answered", [NoData EXCEPT !.options =
             [projects |-> Inventory, sessions |-> Stored]])

\* The connection breaks, or the store answers an I/O error.
Lost(r) ==
    r.current /\ r.place \in {"sent", "counted"} /\ Reply(r, "failed", NoData)

-----------------------------------------------------------------------------
(* What the page does when a request ends.                                 *)

Gone(r) ==
    /\ r.place \in {"answered", "failed"} \/ ~r.current
    /\ net' = net \ {r}

\* Mutant: the finally clause does not look at the generation.
DroppedClearingBusy(r) ==
    /\ ~r.current
    /\ Gone(r)
    /\ list' = IF r.kind = "list" THEN [list EXCEPT !.busy = FALSE] ELSE list
    /\ UNCHANGED <<notes, view, detail, pane, options, refreshing, scopeVars>>

\* An old request ends: the checks of the generation find nothing to do.
Dropped(r) ==
    /\ ~r.current
    /\ Gone(r)
    /\ UNCHANGED <<notes, pageVars, scopeVars>>

EndList(r) ==
    /\ r.kind = "list" /\ r.current
    /\ Gone(r)
    /\ list' = IF r.place = "answered"
               THEN [shown |-> "items", busy |-> FALSE, of |-> r.of,
                     page |-> r.data.page]
               ELSE BlankList("error")
    /\ UNCHANGED <<notes, view, detail, pane, options, refreshing, scopeVars>>

EndStatus(r) ==
    /\ r.kind = "status" /\ r.current
    /\ Gone(r)
    /\ pane' = IF r.place = "answered"
               THEN [shown |-> "known", of |-> r.of, index |-> r.data.index]
               ELSE BlankPane("error")
    /\ UNCHANGED <<notes, view, list, detail, options, refreshing, scopeVars>>

EndDetail(r) ==
    /\ r.kind = "detail" /\ r.current
    /\ Gone(r)
    /\ detail' = IF r.place = "answered"
                 THEN [detail EXCEPT !.shown = "open", !.busy = FALSE,
                                     !.of = r.of, !.id = r.data.id]
                 ELSE [Closed EXCEPT !.shown = "error"]
    /\ UNCHANGED <<notes, view, list, pane, options, refreshing, scopeVars>>

\* fillSelect: the selection stays if it is still offered, else the first.
Fill(selected, values) ==
    CASE values = {} -> {None}
      [] selected \in values -> {selected}
      [] OTHER -> values

\* The rest of refreshCatalog, whose finally clause loads the view.
EndCatalog(r) ==
    /\ r.kind = "catalog" /\ r.current
    /\ r.place \in {"answered", "failed"}
    /\ refreshing' = FALSE
    /\ LET rest == Outdated(ViewKinds) \ {r}
       IN  IF r.place = "answered"
           THEN /\ options' = r.data.options
                /\ \E p \in Fill(view.project, options'.projects),
                      s \in Fill(view.session, options'.sessions) :
                    LoadView(FirstPage([view EXCEPT !.project = p,
                                                    !.session = s]), rest)
           ELSE /\ UNCHANGED options
                /\ LoadView(FirstPage(view), rest)
    /\ UNCHANGED <<notes, scopeVars>>

\* Another process adds a note to a session or removes one.
OtherNotes ==
    /\ \E s \in Sessions, i \in Topics :
        notes' = [notes EXCEPT ![s] = IF @ = None THEN {i}
                                      ELSE IF i \in @ THEN @ \ {i}
                                      ELSE @ \cup {i}]
    /\ UNCHANGED <<net, pageVars, scopeVars>>

-----------------------------------------------------------------------------

ConsoleStep ==
    \/ ChooseScope \/ ChooseProject \/ ChooseSession \/ Search
    \/ FilterStatus \/ NextPage \/ BackToFirst \/ Retry
    \/ OpenDetail \/ RefreshCatalog \/ OtherNotes
    \/ \E r \in net :
        \/ ServeSession(r) \/ CountMemories(r) \/ ServeMemories(r)
        \/ ServeDetail(r) \/ Inspect(r) \/ ServeStatus(r) \/ ServeCatalog(r)
        \/ Lost(r)
        \/ Dropped(r) \/ EndList(r) \/ EndStatus(r) \/ EndDetail(r)
        \/ EndCatalog(r)

ConsoleTypeOK ==
    /\ \A s \in Sessions : notes[s] = None \/ notes[s] \subseteq Topics
    /\ view.scope \in {"global", "project", "session"}
    /\ view.project \in Projects \cup {None}
    /\ view.session \in Sessions \cup {None}
    /\ view.cursor \in Nat
    /\ \A r \in net :
        /\ r.kind \in ViewKinds \cup {"catalog"}
        /\ r.place \in {"sent", "counted", "answered", "failed"}
        /\ r.current \in BOOLEAN
    /\ list.shown \in {"waiting", "loading", "items", "error"}
    /\ detail.shown \in {"closed", "loading", "open", "error"}
    /\ pane.shown \in {"waiting", "loading", "known", "error"}
    /\ options.projects \subseteq Projects
    /\ options.sessions \subseteq Sessions
    /\ refreshing \in BOOLEAN

Awaited(kind) == \E r \in net : r.kind = kind /\ r.current

\* Whatever order the answers come in, each pane shows what is selected now:
\* the list the selected scope, search, filter and page, the detail the card
\* opened last, the status the selected scope; and a pane that says it is
\* loading has a request in flight for it, so it does not stay that way.
PageShowsSelection ==
    /\ list.shown = "items" => list.of = Parameters(view)
    /\ pane.shown = "known" => pane.of.root = Target(view)
    /\ detail.shown = "open" =>
        detail.of.root = Target(view) /\ detail.id = detail.asked
    /\ list.busy \equiv list.shown = "loading"
    /\ Awaited("list") => list.busy
    /\ list.busy => Awaited("list") \/ refreshing
    /\ detail.busy \equiv Awaited("detail")
    /\ view.scope # "session" /\ pane.shown = "loading" =>
        Awaited("status") \/ refreshing
    /\ refreshing \equiv Awaited("catalog")
=============================================================================
