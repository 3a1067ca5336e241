-------------------------------- MODULE Panels --------------------------------
(* The list panels of the dashboard: sources, pages, locations and devices      *)
(* (ui/*-panel.tsx, hooks/use-panel-data.ts, hooks/use-sources-panel-controller). *)
(* A panel's mode comes from the path, the filters of the URL and the tab last   *)
(* chosen; a change of the mode or the query aborts the fetch under way and      *)
(* starts another, and a click on a row filters by what the mode says its rows   *)
(* are.  `panel` is the panel looked at: the others only share the URL.  The     *)
(* sources panel has two more fetches, for what takes it over once a source is   *)
(* filtered: its referrers, or Google's search terms.  The details dialog of a   *)
(* panel (remote-details-dialog.tsx) is always mounted and keeps its rows while   *)
(* it is closed, unless its own close button closed it; its search and sort are   *)
(* of module Details.                                                            *)
EXTENDS DashboardUrl

CONSTANTS
  Rows,        \* panel -> what its rows are called
  StartUrls,   \* URLs the dashboard may be opened at
  StartModes,  \* panel -> the modes the server may have answered with
  MaxMoves     \* bound: what the administrator does

PanelsAssumption == MaxMoves \in Nat

ListPanels == {"sources", "pages", "locations", "devices"}
Slots == {"list", "referrers", "terms"}

VARIABLES
  panel,      \* the panel looked at
  url, past,  \* as in the top bar
  at,         \* the memo of the URL (useMemo)
  preferred,  \* preferredMode: the tab last chosen, or a drill-down
  restore,    \* countriesRestoreModeRef of the locations panel
  shown,      \* slot -> [of, loading, failed]: whose answer is shown; failed, as last told
  lastKey,    \* slot -> what was last asked for
  fetches,    \* fetches under way: [slot, id, key, aborted]
  ids,        \* slot -> the number of the last fetch
  clicked,    \* the row last clicked: [dim, of] (history)
  moves,      \* bound
  dialog      \* the details dialog: [rows, asked, more, loading, fresh]
\* rows: the modes its rows are of; asked: the mode of the first page under way, or None; more: further
\* pages under way, [of, at]; loading: its button is disabled; fresh (history): the first page was
\* answered since the dialog last asked it, and no further page of before that was under way.

vars == <<panel, url, at, past, preferred, restore, shown, lastKey, fetches, ids, clicked, moves, dialog>>

-----------------------------------------------------------------------------
(* Modes and what a row of each filters by.                                    *)

\* What the panels read of a URL: its path and, decoded once, its query.
Memo(u) == [path |-> u.path, query |-> QueryOf(u)]

DialogMode(p, a) ==
  LET d == ParseDialog(a.path) IN IF d.type = "segment" THEN ModeForSegment(p, d.of) ELSE None

Or(a, b) == IF a # None THEN a ELSE b

SourcesView(a, pref) ==
  ResolveSourcesView(ParseDialog(a.path), a.query.filters, pref, InferSourcesMode(a.query.filters))

\* The mode of the card of panel p.
CardMode(p, a, pref) ==
  CASE p = "sources" -> SourcesView(a, pref).mode
    [] p = "pages" -> pref
    [] p = "locations" -> Or(DialogMode(p, a), pref)
    [] p = "devices" -> InferDevicesMode(Or(DialogMode(p, a), pref), a.query.filters)

\* The mode of its details dialog.
DetailsMode(p, a, pref) ==
  CASE p = "pages" -> Or(DialogMode(p, a), pref)
    [] p = "locations" /\ CardMode(p, a, pref) = "map" -> "countries"
    [] OTHER -> CardMode(p, a, pref)

RowDim(p, mode) ==
  CASE p = "pages" -> (CASE mode = "entry" -> "entry_page" [] mode = "exit" -> "exit_page" [] OTHER -> "page")
    [] p = "devices" -> (CASE mode = "browser-versions" -> "browser_version"
                           [] mode = "operating-system-versions" -> "os_version"
                           [] mode = "operating-systems" -> "os" [] mode = "screen-sizes" -> "size"
                           [] OTHER -> "browser")
    [] p = "locations" -> (CASE mode = "regions" -> "region" [] mode = "cities" -> "city" [] OTHER -> "country")
    [] p = "sources" -> SourcesFilterKey(mode)

\* The dialogs that are open: each panel decides for itself.
OpenDialogs(a, pref) ==
  LET view == SourcesView(a, pref)
  IN {p \in ListPanels \ {"sources"} : DialogMode(p, a) # None}
       \cup (IF view.detailsOpen \/ view.refDetailsOpen THEN {"sources"} ELSE {})

\* What the details dialog lists while it is open: its mode, or the search terms, and the query.
DialogKey(a, pref) ==
  LET view == SourcesView(a, pref)
      isOpen == IF panel = "sources" THEN view.detailsOpen ELSE DialogMode(panel, a) # None
      terms == panel = "sources" /\ view.takeover = "search-terms"
  IN IF isOpen THEN <<IF terms THEN "terms" ELSE DetailsMode(panel, a, pref), a.query>> ELSE <<>>

-----------------------------------------------------------------------------
(* Rendering: the effects of usePanelData, of the two takeovers and of the dialog. *)

\* What a slot of panel p asks for; nothing while a takeover is off.
Wanted(p, slot, a, pref) ==
  LET view == SourcesView(a, pref)
      query == [a.query EXCEPT !.labels = <<>>]
  IN IF slot = "list" THEN <<CardMode(p, a, pref), query>>
     ELSE IF p = "sources" /\ slot = "referrers" /\ view.takeover = "referrers"
          THEN <<view.activeSource, query>>
     ELSE IF p = "sources" /\ slot = "terms" /\ view.takeover = "search-terms" THEN <<"terms", query>>
     ELSE <<>>

\* The query's key: the panel is rendered again, and every effect whose key changed
\* aborts its fetch and, unless its takeover ended, starts the next one.
Render(a, pref) ==
  LET changed == {slot \in Slots : lastKey'[slot] # lastKey[slot]}
      started == {slot \in changed : lastKey'[slot] # <<>>}
  IN /\ lastKey' = [slot \in Slots |-> Wanted(panel, slot, a, pref)]
     /\ ids' = [slot \in Slots |-> IF slot \in started THEN ids[slot] + 1 ELSE ids[slot]]
     /\ fetches' = {[fe EXCEPT !.aborted = @ \/ fe.slot \in changed] : fe \in fetches}
                     \cup {[slot |-> slot, id |-> ids[slot] + 1, key |-> lastKey'[slot],
                            aborted |-> FALSE] : slot \in started}
     /\ shown' = [slot \in Slots |->
          IF slot \in started THEN [shown[slot] EXCEPT !.loading = TRUE, !.failed = FALSE]
          ELSE IF slot \in changed THEN [of |-> <<>>, loading |-> FALSE, failed |-> FALSE]
          ELSE shown[slot]]

\* Locations: a filter that goes away takes the panel up again.
AfterFilters(a, pref) ==
  LET mode == CardMode("locations", a, pref)
      up == LocationsModeAfterFilterChange(mode, at.query.filters, a.query.filters, restore)
  IN IF panel = "locations" /\ up # None /\ up # mode THEN up ELSE pref

\* The dialog asks its first page when it opens and when its mode or its query changes; the rows it
\* has stay until the answer.
Asks(d, a, pref) ==
  LET key == DialogKey(a, pref)
  IN IF key = DialogKey(at, preferred) THEN d
     ELSE IF key = <<>> THEN [d EXCEPT !.asked = None, !.fresh = FALSE]
     ELSE [d EXCEPT !.asked = key[1], !.loading = TRUE, !.fresh = FALSE]

\* The URL and the tab are shown, by a dialog that has become d.
ShowBy(d, u, pref) ==
  /\ url' = u /\ at' = Memo(u) /\ preferred' = AfterFilters(at', pref)
  /\ Render(at', preferred') /\ dialog' = Asks(d, at', preferred')

Show(u, pref) == ShowBy(dialog, u, pref)

Init ==
  /\ panel \in ListPanels
  /\ url \in StartUrls /\ at = Memo(url) /\ past = <<>>
  /\ preferred \in StartModes[panel]
  /\ restore = "countries"
  /\ lastKey = [slot \in Slots |-> Wanted(panel, slot, at, preferred)]
  /\ ids = [slot \in Slots |-> IF slot # "list" /\ lastKey[slot] # <<>> THEN 1 ELSE 0]
  /\ fetches = {[slot |-> slot, id |-> 1, key |-> lastKey[slot], aborted |-> FALSE] :
                  slot \in {s \in Slots : ids[s] = 1}}
  /\ shown = [slot \in Slots |-> [of |-> IF slot = "list" THEN lastKey[slot] ELSE <<>>,
                                  loading |-> ids[slot] = 1, failed |-> FALSE]]
  /\ clicked = [dim |-> None, of |-> None] /\ moves = 0
  /\ LET key == DialogKey(at, preferred)
     IN dialog = [rows |-> {}, asked |-> IF key = <<>> THEN None ELSE key[1], more |-> {},
                  loading |-> key # <<>>, fresh |-> FALSE]

Move == moves < MaxMoves /\ moves' = moves + 1

\* navigate: another entry of the history, even for the URL it is at.
Navigate(u, pref) == Show(u, pref) /\ past' = Append(past, url)

\* updateQuery, which does not navigate to the URL it is at.
UpdateQuery(q, closeDialog, pref) ==
  LET next == NavigationUrl(url, q, closeDialog)
  IN IF next = url THEN Show(url, pref) /\ UNCHANGED past ELSE Navigate(next, pref)

-----------------------------------------------------------------------------
(* What the panels offer.                                                      *)

TakenBy == IF panel = "sources" THEN SourcesView(at, preferred).takeover ELSE "none"

\* The slot whose rows the card shows, and whether a skeleton stands for them.
CardSlot ==
  CASE TakenBy = "referrers" -> "referrers" [] TakenBy = "search-terms" -> "terms" [] OTHER -> "list"

\* Variant: rows stay while the next ones are loaded.
RowsAlways == IF shown[CardSlot].of = <<>> THEN {} ELSE Rows[panel]
RowsOffered ==
  IF shown["list"].loading \/ shown[CardSlot].loading \/ shown[CardSlot].of = <<>> THEN {}
  ELSE Rows[panel]

\* The sources panel hides its tabs while it is taken over.
TabsOffered ==
  IF TakenBy # "none" THEN {} ELSE Modes[panel]

\* Search terms that failed for being too recent offer the last 28 days.
TermsOffer ==
  IF TakenBy # "search-terms" \/ shown["list"].loading \/ shown["terms"].loading THEN {}
  ELSE IF shown["terms"].failed THEN {"last 28 days"} ELSE {"details"}

-----------------------------------------------------------------------------
(* Actions.                                                                    *)

SelectTab(mode) ==
  /\ mode \in TabsOffered /\ OpenDialogs(at, preferred) = {} /\ Move
  /\ Show(url, mode)
  /\ UNCHANGED <<panel, past, restore, clicked>>

\* A location keeps its name as a label, sources of a channel are shown at once, and a
\* country or a region leads on to its regions or cities.
Drill(row, mode, closeDialog, of) ==
  LET dim == RowDim(panel, mode)
      q == at.query
      next == [q EXCEPT !.filters = PutKey(@, dim, row),
                        !.labels = IF panel = "locations" THEN DropKey(@, dim) ELSE @]
      onward == CASE panel = "locations" /\ dim = "country" -> "regions"
                  [] panel = "locations" /\ dim = "region" -> "cities"
                  [] panel = "sources" /\ mode = "channels" -> "all"
                  [] OTHER -> preferred
  IN /\ clicked' = [dim |-> dim, of |-> of]
     /\ restore' = IF panel = "locations" /\ dim = "country"
                   THEN (IF mode = "map" THEN "map" ELSE "countries") ELSE restore
     /\ IF panel = "locations"
        THEN Navigate(NavigationUrl(url, next, TRUE), onward)
        ELSE UpdateQuery(next, closeDialog, onward)

\* The click of a row of the card.
ClickRow(row) ==
  /\ TakenBy = "none" /\ row \in RowsOffered /\ OpenDialogs(at, preferred) = {} /\ Move
  /\ Drill(row, CardMode(panel, at, preferred), FALSE, shown["list"].of[1])
  /\ UNCHANGED panel

\* "Direct / None" has no referrer to filter by.
ClickReferrer(row, closeDialog) ==
  /\ TakenBy = "referrers" /\ Move
  /\ IF closeDialog THEN SourcesView(at, preferred).refDetailsOpen
     ELSE row \in RowsOffered /\ OpenDialogs(at, preferred) = {}
  /\ IF row = "Direct / None"
     THEN closeDialog /\ UpdateQuery(at.query, TRUE, preferred)
     ELSE UpdateQuery([at.query EXCEPT !.filters = PutKey(@, "referrer", row)], closeDialog, preferred)
  /\ UNCHANGED <<panel, restore, clicked>>

\* The click of a row of the details dialog, of whatever mode m it is: the handler reads the dialog's
\* own mode.  Rows of search terms are not clickable.
ClickDetailsRow(row, m) ==
  LET key == DialogKey(at, preferred)
  IN /\ key # <<>> /\ key[1] # "terms" /\ m \in dialog.rows /\ row \in Rows[panel] /\ Move
     /\ Drill(row, key[1], TRUE, m)
     /\ UNCHANGED panel

OpenDetails ==
  /\ RowsOffered # {} \/ TermsOffer # {}
  /\ OpenDialogs(at, preferred) = {} /\ Move
  /\ LET view == SourcesView(at, preferred)
         path == CASE TakenBy = "referrers" -> <<"referrers", view.activeSource>>
                   [] TakenBy = "search-terms" -> <<"referrers", "Google">>
                   [] OTHER -> <<SegmentForMode(panel, CardMode(panel, at, preferred))>>
     IN Navigate([path |-> path, params |-> PutWord(url.params, "dialog", None)], preferred)
  /\ UNCHANGED <<panel, restore, clicked>>

\* The button and the backdrop of the dialog empty it (handleClose); Escape does not.  Escape is heard
\* by the window and the dialog alike: the second entry of the history is left out.
CloseDetails(clears) ==
  /\ OpenDialogs(at, preferred) # {} /\ Move
  /\ ShowBy(IF clears /\ DialogKey(at, preferred) # <<>> THEN [dialog EXCEPT !.rows = {}] ELSE dialog,
            [path |-> <<>>, params |-> PutWord(url.params, "dialog", None)], preferred)
  /\ past' = Append(past, url)
  /\ UNCHANGED <<panel, restore, clicked>>

\* loadMore: the next page, of what the dialog lists now.  Nothing aborts it.
LoadMore ==
  LET key == DialogKey(at, preferred)
  IN /\ key # <<>> /\ dialog.rows # {} /\ ~dialog.loading /\ Move
     /\ dialog' = [dialog EXCEPT !.more = @ \cup {[of |-> key[1], at |-> moves]}, !.loading = TRUE]
     /\ UNCHANGED <<panel, url, at, past, preferred, restore, shown, lastKey, fetches, ids, clicked>>

SetLast28Days ==
  /\ "last 28 days" \in TermsOffer /\ Move
  /\ UpdateQuery([at.query EXCEPT !.period = "28d", !.comparison = None, !.day = EmptyMap,
                                      !.matchDayOfWeek = FALSE], FALSE, preferred)
  /\ UNCHANGED <<panel, restore, clicked>>

\* The top bar: another period, a filter removed.
ChangePeriod ==
  /\ OpenDialogs(at, preferred) = {} /\ Move
  /\ UpdateQuery([at.query EXCEPT !.period = IF @ = "7d" THEN "day" ELSE "7d"], FALSE, preferred)
  /\ UNCHANGED <<panel, restore, clicked>>

RemoveFilter(dim) ==
  /\ OpenDialogs(at, preferred) = {} /\ Move
  /\ UpdateQuery([at.query EXCEPT !.filters = DropKey(@, dim)], FALSE, preferred)
  /\ UNCHANGED <<panel, restore, clicked>>

Back ==
  /\ past # <<>> /\ Move
  /\ Show(Last(past), preferred) /\ past' = Front(past)
  /\ UNCHANGED <<panel, restore, clicked>>

-----------------------------------------------------------------------------
(* Answers.                                                                    *)

\* Variant: the end of any fetch ends the loading.
CountsAny(fe) == TRUE
Counts(fe) == fe.id = ids[fe.slot]

\* then: the data of the last fetch only; an aborted one is rejected.
Answer(fe) ==
  /\ fe \in fetches /\ ~fe.aborted
  /\ fetches' = fetches \ {fe}
  /\ shown' = IF Counts(fe) THEN [shown EXCEPT ![fe.slot] = [of |-> fe.key, loading |-> FALSE, failed |-> FALSE]]
              ELSE shown
  /\ UNCHANGED <<panel, url, at, past, preferred, restore, lastKey, ids, clicked, moves, dialog>>

\* Variant: the loading ends in then, not in finally.
FailWithoutFinally(fe) ==
  /\ fe \in fetches /\ ~fe.aborted
  /\ fetches' = fetches \ {fe}
  /\ shown' = IF Counts(fe) THEN [shown EXCEPT ![fe.slot].failed = TRUE] ELSE shown
  /\ UNCHANGED <<panel, url, at, past, preferred, restore, lastKey, ids, clicked, moves, dialog>>

\* An error keeps the data the panel has; search terms give theirs up.
Fail(fe) ==
  /\ fe \in fetches /\ ~fe.aborted
  /\ fetches' = fetches \ {fe}
  /\ shown' = IF Counts(fe)
              THEN [shown EXCEPT ![fe.slot] = [of |-> IF fe.slot = "terms" THEN <<>> ELSE shown[fe.slot].of,
                                               loading |-> FALSE, failed |-> TRUE]]
              ELSE shown
  /\ UNCHANGED <<panel, url, at, past, preferred, restore, lastKey, ids, clicked, moves, dialog>>

\* finally, of a fetch that was aborted.
Aborted(fe) ==
  /\ fe \in fetches /\ fe.aborted
  /\ fetches' = fetches \ {fe}
  /\ shown' = IF Counts(fe) THEN [shown EXCEPT ![fe.slot].loading = FALSE] ELSE shown
  /\ UNCHANGED <<panel, url, at, past, preferred, restore, lastKey, ids, clicked, moves, dialog>>

\* The first page that the dialog last asked takes the place of its rows; a failure keeps them.
DialogAnswers(fails) ==
  /\ dialog.asked # None
  /\ dialog' = [dialog EXCEPT !.rows = IF fails THEN @ ELSE {dialog.asked}, !.asked = None,
                              !.loading = FALSE, !.fresh = ~fails /\ dialog.more = {}]
  /\ UNCHANGED <<panel, url, at, past, preferred, restore, shown, lastKey, fetches, ids, clicked, moves>>

\* A further page is appended to whatever the dialog holds by then.
MoreAnswers(fe, fails) ==
  /\ fe \in dialog.more
  /\ dialog' = [dialog EXCEPT !.rows = IF fails THEN @ ELSE @ \cup {fe.of}, !.more = @ \ {fe},
                              !.loading = FALSE]
  /\ UNCHANGED <<panel, url, at, past, preferred, restore, shown, lastKey, fetches, ids, clicked, moves>>

-----------------------------------------------------------------------------

Settled ==
  \/ \E fe \in fetches : Answer(fe) \/ Fail(fe) \/ Aborted(fe)
  \/ \E fails \in BOOLEAN : DialogAnswers(fails) \/ \E fe \in dialog.more : MoreAnswers(fe, fails)

Next ==
  \/ \E mode \in UNION {Modes[p] : p \in ListPanels} : SelectTab(mode)
  \/ \E row \in Rows[panel] :
       \/ ClickRow(row) \/ \E m \in dialog.rows : ClickDetailsRow(row, m)
       \/ \E closeDialog \in BOOLEAN : ClickReferrer(row, closeDialog)
  \/ OpenDetails \/ (\E clears \in BOOLEAN : CloseDetails(clears)) \/ LoadMore
  \/ SetLast28Days \/ ChangePeriod
  \/ \E dim \in Keys(at.query.filters) : RemoveFilter(dim)
  \/ Back
  \/ Settled

Spec == Init /\ [][Next]_vars

-----------------------------------------------------------------------------
(* Properties.                                                                 *)

\* What a panel shows, once nothing is loading, is the answer to the question its URL
\* and tab ask now, unless the last fetch failed: no late answer of another query or
\* mode stays, in the list or in what takes it over (the request numbers).
ShownIsAsked ==
  \A slot \in Slots :
    ~shown[slot].loading /\ ~shown[slot].failed => shown[slot].of = Wanted(panel, slot, at, preferred)

\* A row filters by what the row is: the mode whose rows were clicked and the dimension
\* the click filters by belong together (handleSelect and its kin read the mode, not the data).  Left
\* out are a card whose fetch failed, and a details dialog whose first page has not been answered since
\* it last asked, or was answered while a further page of an earlier question was under way: both show
\* rows of another mode, which the click takes for rows of theirs.
ClickMatchesRow ==
  LET reliable == IF DialogKey(at, preferred) # <<>> THEN dialog.fresh ELSE ~shown["list"].failed
  IN clicked' # clicked /\ reliable => clicked'.dim = RowDim(panel, clicked'.of)

IsShown(s) ==
  /\ s = [of |-> s.of, loading |-> s.loading, failed |-> s.failed]
  /\ s.loading \in BOOLEAN /\ s.failed \in BOOLEAN

IsFetch(fe) ==
  /\ fe = [slot |-> fe.slot, id |-> fe.id, key |-> fe.key, aborted |-> fe.aborted]
  /\ fe.slot \in Slots /\ fe.id \in Nat /\ fe.aborted \in BOOLEAN

IsDialog(d) ==
  d = [rows |-> d.rows, asked |-> d.asked, more |-> d.more, loading |-> d.loading, fresh |-> d.fresh]

TypeOK ==
  /\ ids \in [Slots -> Nat] /\ shown = [slot \in Slots |-> shown[slot]]
  /\ \A slot \in Slots : IsShown(shown[slot])
  /\ \A fe \in fetches : IsFetch(fe)
  /\ panel \in ListPanels /\ IsDialog(dialog)

\* A fetch that was not aborted asks what its slot asks; one that was aborted, and that no other has
\* followed, was that of a takeover that ended.
FetchFits(fe) ==
  /\ fe.id <= ids[fe.slot]
  /\ ~fe.aborted => fe.key = lastKey[fe.slot]
  /\ fe.aborted /\ Counts(fe) => lastKey[fe.slot] = <<>> /\ shown[fe.slot].of = <<>>

SlotFits(slot) == ~shown[slot].loading /\ ~shown[slot].failed => shown[slot].of = lastKey[slot]

\* The first page under way is of the mode the dialog is in; the rows of a fresh dialog, and the
\* further pages it awaits, are of it too.
DialogFits ==
  LET key == DialogKey(at, preferred)
  IN /\ dialog.asked # None => key # <<>> /\ dialog.asked = key[1]
     /\ dialog.fresh => key # <<>> /\ \A m \in dialog.rows \cup {fe.of : fe \in dialog.more} : m = key[1]

Inductive ==
  /\ TypeOK /\ DialogFits /\ lastKey = [slot \in Slots |-> Wanted(panel, slot, at, preferred)]
  /\ \A fe \in fetches : FetchFits(fe)
  /\ \A slot \in Slots : SlotFits(slot)

\* The skeleton of the panel, or of what takes it over, is shown.
Busy == \E slot \in Slots : shown[slot].loading
=============================================================================
