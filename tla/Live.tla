--------------------------------- MODULE Live ---------------------------------
(* The live page (live/show.tsx, its hooks, its events panel): sessions pushed   *)
(* over Action Cable, a globe on which a cell of sessions or the session of an   *)
(* event is selected, the panel of recent events with its hint of new ones, and  *)
(* the search for a place.  What is asynchronous: the flight of the globe to a    *)
(* session, after which its card is anchored; the animation frame after which    *)
(* the hint appears; the 300 ms and the geocoder behind the suggestions; the     *)
(* 120 ms after which a blurred search closes.                                   *)
EXTENDS Integers, FiniteSets, Sequences, Functions

CONSTANTS
  None,
  Order,       \* the sessions, in the order the server lists them
  CellOf,      \* session -> the H3 cell of its coordinates, None without any
  Devices,     \* the layouts with a globe each
  Texts,       \* what may be typed in the search; Short: too short to search
  Short,
  MaxVisible,  \* MAX_VISIBLE_EVENTS
  MaxEvents,   \* bound: events pushed
  MaxMoves     \* bound: what the administrator does

NoText == ""

LiveAssumption ==
  MaxVisible \in Nat /\ MaxEvents \in Nat /\ MaxMoves \in Nat /\ NoText \in Short /\ Short \subseteq Texts

Sessions == Range(Order)
Cells == {CellOf[s] : s \in Sessions} \ {None}

VARIABLES
  connection, live, feed, pushed,                  \* useLiveStats; pushed: events so far
  cell, session, anchors, request, flights,        \* the selection; flights: [request, cell, device]
  closed,                                          \* nothing selected since it was closed (history)
  atBottom, collapsed, hint, counted, frame,       \* the events panel
  text, visible, focused, blurring, suggestions, searches,  \* useLiveLocationSearch
  moves

statsVars == <<connection, live, feed, pushed>>
selectionVars == <<cell, session, anchors, request, flights, closed>>
panelVars == <<atBottom, collapsed, hint, counted, frame>>
searchVars == <<text, visible, focused, blurring, suggestions, searches>>
vars == <<statsVars, selectionVars, panelVars, searchVars, moves>>

NoAnchors == [d \in Devices |-> None]

Init ==
  /\ connection = "connecting" /\ live = Sessions /\ feed = <<>> /\ pushed = 0
  /\ cell = None /\ session = None /\ anchors = NoAnchors /\ request = 0 /\ flights = {}
  /\ closed = TRUE
  /\ atBottom = TRUE /\ collapsed = FALSE /\ hint = FALSE /\ counted = 0 /\ frame = FALSE
  /\ text = NoText /\ visible = FALSE /\ focused = FALSE /\ blurring = FALSE
  /\ suggestions = None /\ searches = {}
  /\ moves = 0

Move == moves < MaxMoves /\ moves' = moves + 1

-----------------------------------------------------------------------------
(* What is shown.                                                              *)

Cluster(c) == IF c = None THEN <<>> ELSE SelectSeq(Order, LAMBDA s : s \in live /\ CellOf[s] = c)

\* The selected session while it is live, else another of the selected cell, else one known
\* by its events only.
SelectedSession ==
  CASE session \in live -> session
    [] session \notin live /\ Cluster(cell) # <<>> -> Head(Cluster(cell))
    [] OTHER -> IF \E e \in Range(feed) : e.of = session THEN session ELSE None

VisibleEvents(f, s) ==
  LET shown == IF s = None THEN f ELSE SelectSeq(f, LAMBDA e : e.of = s)
  IN SubSeq(shown, IF Len(shown) > MaxVisible THEN Len(shown) - MaxVisible + 1 ELSE 1, Len(shown))

\* A card at the cell where it was anchored, or at the side for a session without a place.
CardShown(d) ==
  IF SelectedSession = None THEN "none"
  ELSE IF cell # None /\ anchors[d] = cell THEN "anchored"
  ELSE IF cell # None /\ CellOf[SelectedSession] # None THEN "none" ELSE "aside"

-----------------------------------------------------------------------------
(* The events panel: the effect of the number of events, of the scroll position *)
(* and of the collapse.  It cancels the frame it asked for when it runs again.   *)

\* Variant: the frame is not cancelled.
FrameKept(more, pending) == more \/ pending
FrameAfter(more, pending) == more

PanelEffect(n, bottom, shut, hinted) ==
  LET runs == n # counted \/ bottom # atBottom \/ shut # collapsed
      more == n > counted /\ ~(bottom /\ ~shut)
  IN /\ atBottom' = bottom /\ collapsed' = shut /\ hint' = hinted /\ counted' = n
     /\ frame' = IF runs THEN FrameAfter(more, frame) ELSE frame

\* A render with other events, or another session whose events are shown.
EventsShown(f, s) == PanelEffect(Len(VisibleEvents(f, s)), atBottom, collapsed, hint)

FrameRuns ==
  /\ frame /\ frame' = FALSE /\ hint' = TRUE
  /\ UNCHANGED <<statsVars, selectionVars, atBottom, collapsed, counted, searchVars, moves>>

Scroll(bottom) ==
  /\ ~collapsed /\ bottom # atBottom /\ Move
  /\ PanelEffect(counted, bottom, collapsed, IF bottom THEN FALSE ELSE hint)
  /\ UNCHANGED <<statsVars, selectionVars, searchVars>>

ToggleCollapsed ==
  /\ Move /\ PanelEffect(counted, atBottom, ~collapsed, FALSE)
  /\ UNCHANGED <<statsVars, selectionVars, searchVars>>

\* "New events", under the list or, collapsed, under its title.
FollowHint ==
  /\ hint /\ Move
  /\ PanelEffect(counted, IF collapsed THEN atBottom ELSE TRUE, FALSE, FALSE)
  /\ UNCHANGED <<statsVars, selectionVars, searchVars>>

-----------------------------------------------------------------------------
(* The subscription.                                                           *)

Connect(status) ==
  /\ connection # status /\ connection' = status
  /\ UNCHANGED <<live, feed, pushed, selectionVars, panelVars, searchVars, moves>>

\* received: the pushed stats replace what is shown; an event is new, or the oldest has left
\* the window, and a session has come or gone.
Received ==
  /\ connection = "connected" /\ pushed < MaxEvents
  /\ \E s \in Sessions, on \in BOOLEAN :
       /\ live' = IF on THEN live \cup {s} ELSE live \ {s}
       /\ pushed' = pushed + 1
       /\ feed' \in {Append(feed, [id |-> pushed, of |-> s])} \cup
                    (IF feed = <<>> THEN {} ELSE {Append(Tail(feed), [id |-> pushed, of |-> s])})
  /\ EventsShown(feed', session)
  /\ UNCHANGED <<connection, selectionVars, searchVars, moves>>

-----------------------------------------------------------------------------
(* The selection.                                                              *)

\* focusSessionFromActivity, up to the flight.
SelectActivity(s, d) ==
  /\ Move
  /\ \E e \in Range(VisibleEvents(feed, session)) : e.of = s
  /\ ~collapsed
  /\ request' = request + 1 /\ session' = s /\ anchors' = NoAnchors /\ closed' = FALSE
  /\ cell' = CellOf[s]
  /\ flights' = IF CellOf[s] = None THEN flights
                ELSE flights \cup {[request |-> request + 1, cell |-> CellOf[s], device |-> d]}
  /\ EventsShown(feed, s)
  /\ UNCHANGED <<statsVars, searchVars>>

\* The flight ends, or is cut short by another: the view changed on the way, and the card
\* is anchored where the session is, if it can be seen.
FlightEnds(f, seen) ==
  /\ f \in flights /\ flights' = flights \ {f}
  /\ IF f.request # request THEN anchors' = NoAnchors /\ UNCHANGED cell
     ELSE IF seen THEN anchors' = [NoAnchors EXCEPT ![f.device] = f.cell] /\ UNCHANGED cell
     ELSE anchors' = NoAnchors /\ cell' = None
  /\ UNCHANGED <<session, request, closed, statsVars, panelVars, searchVars, moves>>

\* handleCellSelection: a cell of the globe, or beside it.
SelectCell(c, d) ==
  /\ Move
  /\ c # None => Cluster(c) # <<>>
  /\ anchors' = [anchors EXCEPT ![d] = c] /\ cell' = c
  /\ session' = IF c = None THEN None ELSE Head(Cluster(c))
  /\ closed' = FALSE
  /\ EventsShown(feed, session')
  /\ UNCHANGED <<request, flights, statsVars, searchVars>>

\* The other sessions of the cell, on the card.
SelectOther(s) ==
  /\ \E d \in Devices : CardShown(d) # "none"
  /\ s \in Range(Cluster(cell)) \ {session} /\ Move
  /\ session' = s /\ EventsShown(feed, s)
  /\ UNCHANGED <<cell, anchors, request, flights, closed, statsVars, searchVars>>

\* Variant: the flight under way still counts.
CloseButFly ==
  /\ SelectedSession # None \/ cell # None
  /\ Move
  /\ cell' = None /\ session' = None /\ anchors' = NoAnchors /\ closed' = TRUE
  /\ EventsShown(feed, None)
  /\ UNCHANGED <<request, flights, statsVars, searchVars>>

\* closeSelectedSession, by the card or by Escape.
Close ==
  /\ SelectedSession # None \/ cell # None
  /\ Move
  /\ request' = request + 1
  /\ cell' = None /\ session' = None /\ anchors' = NoAnchors /\ closed' = TRUE
  /\ EventsShown(feed, None)
  /\ UNCHANGED <<flights, statsVars, searchVars>>

\* The globe is turned.
ChangeView ==
  /\ anchors # NoAnchors /\ Move /\ anchors' = NoAnchors
  /\ UNCHANGED <<cell, session, request, flights, closed, statsVars, panelVars, searchVars>>

-----------------------------------------------------------------------------
(* The search for a place.                                                     *)

ShouldSearch(t, v, f) == (v \/ f) /\ t \notin Short

\* The effect: the search under way is aborted, and another waits for 300 ms.
SearchEffect(t, v, f) ==
  LET runs == t # text \/ ShouldSearch(t, v, f) # ShouldSearch(text, visible, focused)
  IN /\ text' = t /\ visible' = v /\ focused' = f
     /\ searches' = IF ~runs THEN searches
          ELSE {[x EXCEPT !.aborted = TRUE] : x \in {y \in searches : y.stage = "asked"}}
                 \cup (IF ShouldSearch(t, v, f)
                       THEN {[text |-> t, stage |-> "waits", aborted |-> FALSE]} ELSE {})

VisibleSuggestions == IF ShouldSearch(text, visible, focused) THEN suggestions ELSE None

TypeText(t) ==
  /\ visible \/ (focused /\ ~blurring)
  /\ t # text /\ Move
  /\ SearchEffect(t, visible, focused)
  /\ UNCHANGED <<blurring, suggestions, statsVars, selectionVars, panelVars>>

\* The clear button and Escape.
ClearText ==
  /\ text # NoText /\ Move
  /\ SearchEffect(NoText, visible, focused) /\ suggestions' = None
  /\ UNCHANGED <<blurring, statsVars, selectionVars, panelVars>>

ToggleSearch ==
  /\ Move /\ SearchEffect(text, ~visible, focused) /\ suggestions' = None
  /\ UNCHANGED <<blurring, statsVars, selectionVars, panelVars>>

Focus ==
  /\ ~focused /\ Move /\ SearchEffect(text, visible, TRUE)
  /\ UNCHANGED <<blurring, suggestions, statsVars, selectionVars, panelVars>>

Blur ==
  /\ focused /\ ~blurring /\ Move /\ blurring' = TRUE
  /\ UNCHANGED <<text, visible, focused, suggestions, searches, statsVars, selectionVars, panelVars>>

BlurFires ==
  /\ blurring /\ blurring' = FALSE /\ SearchEffect(text, visible, FALSE)
  /\ UNCHANGED <<suggestions, statsVars, selectionVars, panelVars, moves>>

\* A suggestion is chosen: the globe flies there (a flight no card waits for).
PickSuggestion ==
  /\ VisibleSuggestions # None /\ Move
  /\ suggestions' = None
  /\ \/ visible /\ SearchEffect(text, FALSE, focused)
     \/ focused /\ SearchEffect(text, visible, focused)
  /\ anchors' = NoAnchors
  /\ UNCHANGED <<blurring, cell, session, request, flights, closed, statsVars, panelVars>>

SearchStarts(x) ==
  /\ x \in searches /\ x.stage = "waits"
  /\ searches' = (searches \ {x}) \cup {[x EXCEPT !.stage = "asked"]}
  /\ UNCHANGED <<text, visible, focused, blurring, suggestions, statsVars, selectionVars, panelVars, moves>>

\* Variant: the geocoder is not told of the abort.
HeardAll(x) == TRUE
Heard(x) == ~x.aborted

\* An error empties the list; an abort leaves everything as it is.
SearchEnds(x, found) ==
  /\ x \in searches /\ x.stage = "asked"
  /\ searches' = searches \ {x}
  /\ suggestions' = IF Heard(x) THEN (IF found THEN x.text ELSE None) ELSE suggestions
  /\ UNCHANGED <<text, visible, focused, blurring, statsVars, selectionVars, panelVars, moves>>

-----------------------------------------------------------------------------

Next ==
  \/ \E status \in {"connected", "disconnected"} : Connect(status)
  \/ Received
  \/ FrameRuns \/ ToggleCollapsed \/ FollowHint
  \/ \E bottom \in BOOLEAN : Scroll(bottom)
  \/ \E s \in Sessions, d \in Devices : SelectActivity(s, d)
  \/ \E f \in flights, seen \in BOOLEAN : FlightEnds(f, seen)
  \/ \E c \in Cells \cup {None}, d \in Devices : SelectCell(c, d)
  \/ \E s \in Sessions : SelectOther(s)
  \/ Close \/ ChangeView
  \/ \E t \in Texts : TypeText(t)
  \/ ClearText \/ ToggleSearch \/ Focus \/ Blur \/ BlurFires \/ PickSuggestion
  \/ \E x \in searches : SearchStarts(x) \/ \E found \in BOOLEAN : SearchEnds(x, found)

Spec == Init /\ [][Next]_vars

-----------------------------------------------------------------------------
(* Properties.                                                                 *)

\* Once closed, the selection stays closed: a flight that ends later neither anchors a card
\* nor selects a cell (selectionRequestRef).
ClosedStaysClosed == closed => cell = None /\ session = None /\ anchors = NoAnchors

\* The hint of new events is given only to who does not see them: the list is collapsed or
\* scrolled away (the frame that shows the hint is cancelled when either changes).
HintOnlyWhenAway == hint => ~atBottom \/ collapsed

\* When no search is on its way, the suggestions offered are for what is typed.
SuggestionsFollowText ==
  searches = {} /\ VisibleSuggestions # None => VisibleSuggestions = text

\* The inductive invariant.  Of the selection: the flights begun before it was closed are of an
\* earlier request.  Of the panel: the frame is asked for by who will be away when it runs.  Of the
\* search: one that is not aborted is for what is typed, and is on its way while what was found is not.
Closed ==
  /\ request \in Nat /\ \A f \in flights : f.request \in Nat /\ f.request <= request
  /\ closed => \A f \in flights : f.request < request
  /\ ClosedStaysClosed

Away == frame \/ hint => ~atBottom \/ collapsed

Sought ==
  /\ text \in Texts /\ searches \subseteq [text : Texts, stage : {"waits", "asked"}, aborted : BOOLEAN]
  /\ \A x \in searches : ~x.aborted => x.text = text
  /\ suggestions \notin {None, text} /\ ShouldSearch(text, visible, focused) => \E x \in searches : ~x.aborted

Inductive == Closed /\ Away /\ Sought
=============================================================================
