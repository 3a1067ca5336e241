----------------------------- MODULE AdminIndex ------------------------------
(* The lists of the administration (pages/admin/*/index.tsx and the table they    *)
(* share, components/admin/ui/index-table.tsx): what is searched, sorted, paged   *)
(* and ticked, and the actions on the ticked rows.  A list navigates by visits of *)
(* Inertia, one at a time: a new visit interrupts the one under way.             *)
EXTENDS Integers, FiniteSets, SequencesExt

CONSTANTS
  None,
  Rows,       \* a set of numbers: what the table of the database holds at the start
  Texts,      \* what may be typed in the search, "" among it
  Matches,    \* text -> the rows it finds
  PerPage,
  MaxMoves    \* bound: what the administrator does

NoText == ""

Filters == [query : Texts, tab : {"all", "on", "off"}, direction : {"asc", "desc"}, page : Nat]
Visits == [ids : SUBSET Rows, action : {"get", "delete", "suspend", "reactivate"}, to : Filters]
Dialogs == [action : {"delete", "suspend", "reactivate"}, ids : Seq(Rows)]

AdminIndexAssumption ==
  /\ IsFiniteSet(Rows) /\ Rows \subseteq Nat /\ NoText \in Texts
  /\ PerPage \in Nat \ {0} /\ MaxMoves \in Nat
  /\ None \notin Visits /\ None \notin Dialogs

\* The lists: their tabs, whether a tab clears the search, whether they have the shared table
\* with its columns to sort by, and how what is ticked is acted on.
LibrariesIndex == [tabs |-> {"all"}, clears |-> FALSE, table |-> TRUE, acts |-> {"delete"}]
CrawlRequestsIndex == [tabs |-> {"all", "on", "off"}, clears |-> FALSE, table |-> TRUE, acts |-> {"delete"}]
ProxyConfigsIndex == [tabs |-> {"all", "on", "off"}, clears |-> FALSE, table |-> TRUE, acts |-> {"delete"}]
UsersIndex == [tabs |-> {"all", "on", "off"}, clears |-> TRUE, table |-> TRUE, acts |-> {"suspend", "reactivate"}]
PagesIndex == [tabs |-> {"all"}, clears |-> FALSE, table |-> FALSE, acts |-> {}]
Kinds == {LibrariesIndex, CrawlRequestsIndex, ProxyConfigsIndex, UsersIndex, PagesIndex}

VARIABLES
  kind,
  status,      \* the rows of the database: "on", "off" or "gone"
  shown,       \* the props: [filters, rows]
  mode,        \* "default" or "filtering": the tabs or the search
  query,       \* the text in the search
  timer,       \* the 300 ms of the search are running
  visit,       \* the visit under way
  selectedIds, \* the ticked rows, in the order they were ticked
  scope,       \* selectionScope: "none", "page" or "all"
  dialog,      \* bulkDialog: [action, ids]
  confirming,  \* rows of PagesIndex that ask for a confirmation
  missed,      \* what got no answer: "act", an action, since the last one that was answered;
               \* "search", a visit to another text, since the effect of the search ran (history)
  moves

tableVars == <<selectedIds, scope, dialog, confirming>>
searchVars == <<mode, query, timer>>
vars == <<kind, status, shown, searchVars, visit, tableVars, missed, moves>>

Shown == ToSet(shown.rows)
Ticked == ToSet(selectedIds)
SomeSelected == scope = "all" \/ Ticked \cap Shown # {}

Count == moves < MaxMoves /\ moves' = moves + 1
Move == dialog = None /\ Count   \* a dialog covers the page

Unfiltered == [query |-> NoText, tab |-> "all", direction |-> "desc", page |-> 1]

Before(r, among, direction) == {q \in among : IF direction = "asc" THEN q < r ELSE r < q}

\* The answer of the server: the rows of a page, each after those that come before it.
Listing(f, all) ==
  LET found == {r \in Rows : all[r] # "gone" /\ r \in Matches[f.query] /\ f.tab \in {"all", all[r]}}
      rank(r, among) == Cardinality(Before(r, among, f.direction))
      passed == (f.page - 1) * PerPage
      page == {r \in found : rank(r, found) \in passed..passed + PerPage - 1}
  IN [i \in 1..Cardinality(page) |-> CHOOSE r \in page : rank(r, page) = i - 1]

HasNext == Listing([shown.filters EXCEPT !.page = @ + 1], status) # <<>>

Init ==
  /\ kind \in Kinds /\ status \in [Rows -> {"on"}]
  /\ shown = [filters |-> Unfiltered, rows |-> Listing(Unfiltered, status)]
  /\ mode = (IF kind.table THEN "default" ELSE "filtering") /\ query = NoText /\ timer = FALSE /\ visit = None
  /\ selectedIds = <<>> /\ scope = "none" /\ dialog = None /\ confirming = {}
  /\ missed = {} /\ moves = 0

-----------------------------------------------------------------------------
(* Visits.                                                                     *)

Acted(all, ids, action) ==
  [r \in Rows |-> IF r \notin ids THEN all[r]
                  ELSE CASE action = "delete" -> "gone"
                         [] action = "suspend" -> "off"
                         [] action = "reactivate" -> "on"]

Get(f) == [ids |-> {}, action |-> "get", to |-> f]
Act(ids, action) == [ids |-> ids, action |-> action, to |-> Unfiltered]

\* What is interrupted has reached the server, or has not.
Interrupted == {status} \cup IF visit = None THEN {} ELSE {Acted(status, visit.ids, visit.action)}

\* What is not answered when the visit under way ends without an answer.
Unanswered ==
  missed \cup
    IF visit = None THEN {}
    ELSE IF visit.action # "get" THEN {"act"}
    ELSE IF visit.to.query # shown.filters.query THEN {"search"} ELSE {}

Interrupting(next) == status' \in Interrupted /\ visit' = next
Visit(next) == Interrupting(next) /\ missed' = Unanswered

\* navigate: what the page shows, with what was chosen; any other page than the first is asked
\* by number.
Chosen(filters) == Get([filters EXCEPT !.page = 1])
Navigate(filters) == Visit(Chosen(filters))

\* The effect of the search, with the visits `open` that got no answer.
Searching(text, shownText, open) == timer' = (text # shownText) /\ missed' = open \ {"search"}

\* It runs when the text is another.
SearchingIf(text, open) ==
  IF text # query THEN Searching(text, shown.filters.query, open) ELSE UNCHANGED timer /\ missed' = open

-----------------------------------------------------------------------------
(* The search.                                                                 *)

Type(text) ==
  /\ mode = "filtering" /\ text # query /\ Move /\ query' = text
  /\ Searching(text, shown.filters.query, missed)
  /\ UNCHANGED <<kind, status, shown, mode, visit, tableVars>>

TimerFires ==
  /\ timer /\ timer' = FALSE
  /\ Navigate([shown.filters EXCEPT !.query = query])
  /\ UNCHANGED <<kind, shown, mode, query, tableVars, moves>>

\* The form of PagesIndex: the timer goes on.
Submit ==
  /\ ~kind.table /\ Move /\ Navigate([shown.filters EXCEPT !.query = query])
  /\ UNCHANGED <<kind, shown, searchVars, tableVars>>

\* The magnifying glass, or the key f.
OpenSearch ==
  /\ mode = "default" /\ mode' = "filtering"
  /\ UNCHANGED <<kind, status, shown, query, timer, visit, tableVars, missed, moves>>

\* Cancel, Escape, or the cross of PagesIndex.
CancelSearch ==
  /\ mode = "filtering" /\ (kind.table \/ shown.filters.query # NoText) /\ Move
  /\ mode' = (IF kind.table THEN "default" ELSE mode) /\ query' = NoText
  /\ SearchingIf(NoText, Unanswered)
  /\ Interrupting(Chosen([shown.filters EXCEPT !.query = NoText]))
  /\ UNCHANGED <<kind, shown, tableVars>>

-----------------------------------------------------------------------------
(* Tabs, columns, pages.                                                       *)

SelectTab(tab) ==
  /\ mode = "default" /\ tab \in kind.tabs /\ Cardinality(kind.tabs) > 1 /\ Move
  /\ LET text == IF kind.clears THEN NoText ELSE query
     IN /\ query' = text
        /\ SearchingIf(text, Unanswered)
        /\ Interrupting(Chosen([shown.filters EXCEPT !.tab = tab, !.query = IF kind.clears THEN NoText ELSE @]))
  /\ UNCHANGED <<kind, shown, mode, tableVars>>

\* The column that is sorted by, once more; the bar of what is ticked hides the columns.
SortClick ==
  /\ kind.table /\ ~SomeSelected /\ Move
  /\ Navigate([shown.filters EXCEPT !.direction = IF @ = "asc" THEN "desc" ELSE "asc"])
  /\ UNCHANGED <<kind, shown, searchVars, tableVars>>

ChangePage(by) ==
  /\ by \in {-1, 1} /\ (by = 1 => HasNext) /\ (by = -1 => shown.filters.page > 1) /\ Move
  /\ Visit(Get([shown.filters EXCEPT !.page = @ + by]))
  /\ UNCHANGED <<kind, shown, searchVars, tableVars>>

-----------------------------------------------------------------------------
(* The table.                                                                  *)

ToggleSelectAll ==
  /\ kind.table /\ Shown # {} /\ Move
  /\ IF Shown \subseteq Ticked
     THEN selectedIds' = <<>> /\ scope' = "none"
     ELSE selectedIds' = shown.rows /\ scope' = "page"
  /\ UNCHANGED <<kind, status, shown, searchVars, visit, dialog, confirming, missed>>

\* A row is ticked once.
Without(r, ids) == RemoveAt(ids, CHOOSE i \in DOMAIN ids : ids[i] = r)

ToggleRow(r) ==
  /\ kind.table /\ r \in Shown /\ Move
  /\ selectedIds' = IF r \in Ticked THEN Without(r, selectedIds) ELSE Append(selectedIds, r)
  /\ scope' = IF selectedIds' = <<>> THEN "none" ELSE "page"
  /\ UNCHANGED <<kind, status, shown, searchVars, visit, dialog, confirming, missed>>

\* "Select all" and "Deselect all" of the menu: all of the table, but the ids of this page.
SelectAll(all) ==
  /\ SomeSelected /\ Move
  /\ selectedIds' = (IF all THEN shown.rows ELSE <<>>) /\ scope' = (IF all THEN "all" ELSE "none")
  /\ UNCHANGED <<kind, status, shown, searchVars, visit, dialog, confirming, missed>>

\* A button of the bar over the ticked rows.
AskBulk(action) ==
  /\ SomeSelected /\ action \in kind.acts /\ Move
  /\ dialog' = [action |-> action, ids |-> selectedIds]
  /\ UNCHANGED <<kind, status, shown, searchVars, visit, selectedIds, scope, confirming, missed>>

CancelBulk ==
  /\ dialog # None /\ Count /\ dialog' = None
  /\ UNCHANGED <<kind, status, shown, searchVars, visit, selectedIds, scope, confirming, missed>>

\* A deletion is a visit for each row, each of which interrupts the one before; a suspension is
\* one visit for all of them.
ExecuteBulk ==
  /\ dialog # None /\ Count /\ dialog' = None
  /\ LET ids == ToSet(dialog.ids)
         last == IF dialog.action = "delete" /\ ids # {} THEN {Last(dialog.ids)} ELSE ids
     IN IF dialog.action = "delete" /\ ids = {}
        THEN UNCHANGED <<status, visit, missed>>
        ELSE /\ \E before \in Interrupted, reached \in SUBSET (ids \ last) :
                  status' = Acted(before, reached, dialog.action)
             /\ visit' = Act(last, dialog.action) /\ missed' = Unanswered
  /\ UNCHANGED <<kind, shown, searchVars, selectedIds, scope, confirming>>

\* PagesIndex: the bin of a row, "No", "Confirm".
AskDelete(r, on) ==
  /\ ~kind.table /\ r \in Shown /\ on # (r \in confirming) /\ Move
  /\ confirming' = IF on THEN confirming \cup {r} ELSE confirming \ {r}
  /\ UNCHANGED <<kind, status, shown, searchVars, visit, selectedIds, scope, dialog, missed>>

DeletePage(r) ==
  /\ r \in confirming /\ Move /\ Visit(Act({r}, "delete"))
  /\ UNCHANGED <<kind, shown, searchVars, tableVars>>

-----------------------------------------------------------------------------
(* The answers.                                                                *)

\* Variant: the effect of the search does not look at new props.
SearchAgainNever(f, open) == UNCHANGED timer /\ missed' = open

\* The page is not among the filters that the props hold; Inertia keeps those it finds equal.
Unpaged(f) == [query |-> f.query, tab |-> f.tab, direction |-> f.direction]

\* The table's pages make their navigate anew from other filters, and then the effect runs again;
\* that of PagesIndex only when the text of the answer is another.
SearchAgain(f, open) ==
  IF f.query # shown.filters.query \/ (kind.table /\ Unpaged(f) # Unpaged(shown.filters))
  THEN Searching(query, f.query, open)
  ELSE UNCHANGED timer /\ missed' = open

\* The page is built anew.
Remount(f, open) ==
  /\ query' = f.query /\ timer' = FALSE /\ missed' = open \ {"search"} /\ mode' = "default"
  /\ selectedIds' = <<>> /\ scope' = "none" /\ dialog' = None /\ UNCHANGED confirming

Kept(f, open) ==
  /\ SearchAgain(f, open) /\ confirming' = confirming \cap ToSet(Listing(f, status'))
  /\ UNCHANGED <<mode, query, selectedIds, scope, dialog>>

\* Variant: what was ticked outlives the action.
AfterAnswerKept(f, action, open) == Kept(f, open)

\* preserveState: not after an action on what was ticked.
AfterAnswer(f, action, open) ==
  IF kind.table /\ action # "get" THEN Remount(f, open) ELSE Kept(f, open)

VisitAnswers ==
  /\ visit # None
  /\ status' = Acted(status, visit.ids, visit.action)
  /\ shown' = [filters |-> visit.to, rows |-> Listing(visit.to, status')]
  /\ AfterAnswer(visit.to, visit.action, missed \ IF visit.action = "get" THEN {} ELSE {"act"})
  /\ visit' = None
  /\ UNCHANGED <<kind, moves>>

VisitFails ==
  /\ visit # None /\ visit' = None /\ status' \in Interrupted
  /\ missed' = Unanswered
  /\ UNCHANGED <<kind, shown, searchVars, tableVars, moves>>

Next ==
  \/ \E text \in Texts : Type(text)
  \/ TimerFires \/ Submit \/ OpenSearch \/ CancelSearch
  \/ \E tab \in kind.tabs : SelectTab(tab)
  \/ SortClick \/ \E by \in {-1, 1} : ChangePage(by)
  \/ ToggleSelectAll \/ \E r \in Rows : ToggleRow(r)
  \/ \E all \in BOOLEAN : SelectAll(all)
  \/ \E action \in kind.acts : AskBulk(action)
  \/ CancelBulk \/ ExecuteBulk
  \/ \E r \in Rows, on \in BOOLEAN : AskDelete(r, on)
  \/ \E r \in Rows : DeletePage(r)
  \/ VisitAnswers \/ VisitFails

Spec == Init /\ [][Next]_vars

-----------------------------------------------------------------------------
(* Properties.                                                                 *)

Idle == visit = None /\ ~timer /\ missed = {}

\* A list with the shared table shows, once nothing is under way, what its search asks for,
\* whatever was typed while a search was on its way, unless the visit of a search failed or was
\* overtaken by another one (a page turned, a tab chosen again, an action) and the effect of the
\* search has not run since: after a page turn that overtook it the text stays in the box and the
\* list is not searched.
SearchSettles == Idle /\ kind.table => shown.filters.query = query

\* Unless an action was interrupted by a click or failed, nothing that is gone is still ticked,
\* here or on a page that is not shown: the next action cannot be about it.
TickedExist == Idle => \A r \in Ticked : status[r] # "gone"

\* The inductive invariant: what is shown is of the search, or the search is still on its way; and
\* until an action is asked for, or one was not answered, what is shown or ticked exists.
SearchedOrSearching ==
  kind.table =>
    \/ shown.filters.query = query \/ timer \/ "search" \in missed
    \/ visit # None /\ visit.action = "get" /\ visit.to.query # shown.filters.query

NoActionIsOpen == "act" \notin missed /\ (visit = None \/ visit.action = "get")

TypeOK ==
  /\ kind \in Kinds /\ status \in [Rows -> {"on", "off", "gone"}]
  /\ shown \in [filters : Filters, rows : Seq(Rows)] /\ query \in Texts
  /\ visit \in Visits \cup {None} /\ dialog \in Dialogs \cup {None}
  /\ selectedIds \in Seq(Rows) /\ confirming \subseteq Rows

Inductive ==
  /\ TypeOK /\ SearchedOrSearching
  /\ visit # None /\ visit.action = "get" => visit.ids = {}
  /\ kind.table /\ NoActionIsOpen => \A r \in Ticked \cup Shown : status[r] # "gone"
  /\ ~kind.table => selectedIds = <<>> /\ scope = "none" /\ dialog = None
=============================================================================
