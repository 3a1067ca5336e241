------------------------------ MODULE Dashboard ------------------------------
(* The dashboard: the top bar, the visitors' graph, a list panel, the behaviors   *)
(* panel, a details dialog and the sheet of a visitor's journey, one at a time,   *)
(* each an instance of its module over the same variables s1, s2, ...: `part`     *)
(* says which one is looked at, and what its module names them.                   *)
EXTENDS Integers, Sequences

CONSTANTS
  Nil,
  BarUrls, Days, Values, Segments, Countries, Hints, BarMoves,             \* of TopBar
  PanelUrls, Rows, StartModes, PanelMoves,                                 \* of Panels
  Tabs, Funnels, Properties, Searches, BehaviorsMoves,                     \* of Behaviors
  Queries, Graphable, UnitsOf, DefaultOf, Urls, Stored, GraphMoves,
  MaxCount,                                                                \* of VisitorGraph
  Scopes, MetricsOf, DefaultSort, Texts, ReportPages, DetailsMoves,        \* of Details
  Profiles, HeatmapDays, Visits, SessionPages, JourneyMoves                \* of Journey

VARIABLES part, s1, s2, s3, s4, s5, s6, s7, s8, s9, s10, s11, s12, s13, s14, s15, s16, s17,
          s18, s19

afterGraph == <<s18, s19>>
afterDetails == <<s15, s16, s17, afterGraph>>
afterPanel == <<s14, afterDetails>>
afterTopBar == <<s12, s13, afterPanel>>
all == <<part, s1, s2, s3, s4, s5, s6, s7, s8, s9, s10, s11, afterTopBar>>

-----------------------------------------------------------------------------

TopBar == INSTANCE TopBar WITH
  StartUrls <- BarUrls, MaxMoves <- BarMoves,
  url <- s1, past <- s2, today <- s3, calendar <- s4, opening <- s5, form <- s6, suggest <- s7,
  fetches <- s8, wanted <- s9, asked <- s10, moves <- s11

Panels == INSTANCE Panels WITH
  StartUrls <- PanelUrls, MaxMoves <- PanelMoves,
  panel <- s1, url <- s2, past <- s3, at <- s4, preferred <- s5, restore <- s6, shown <- s7,
  lastKey <- s8, fetches <- s9, ids <- s10, clicked <- s11, moves <- s12, dialog <- s13

Behaviors == INSTANCE Behaviors WITH
  None <- Nil, MaxMoves <- BehaviorsMoves,
  query <- s1, mode <- s2, funnel <- s3, property <- s4, dialog <- s5, data <- s6, lastKey <- s7,
  dataId <- s8, armed <- s9, profiles <- s10, search <- s11, page <- s12, profilesId <- s13,
  timer <- s14, loadingMore <- s15, loading <- s16, fetches <- s17, failed <- s18, moves <- s19

Graph == INSTANCE VisitorGraph WITH
  None <- Nil, MaxMoves <- GraphMoves, Intervals <- UnitsOf,
  query <- s1, stats <- s2, metric <- s3, interval <- s4, stored <- s5, initial <- s6,
  graph <- s7, loading <- s8, asked <- s9, statsAsked <- s10, missed <- s11, count <- s12,
  pushed <- s13, connected <- s14, visible <- s15, resync <- s16, moves <- s17

Details == INSTANCE Details WITH
  MaxPages <- ReportPages, MaxMoves <- DetailsMoves,
  open <- s1, scope <- s2, search <- s3, debounced <- s4, timer <- s5, sort <- s6, pages <- s7,
  page <- s8, hasMore <- s9, loading <- s10, first <- s11, more <- s12, missed <- s13, moves <- s14

Journey == INSTANCE Journey WITH
  None <- Nil, Days <- HeatmapDays, MaxPages <- SessionPages, MaxMoves <- JourneyMoves,
  open <- s1, profile <- s2, day <- s3, data <- s4, loading <- s5, journeyAsked <- s6,
  sessions <- s7, page <- s8, hasMore <- s9, sessionsLoading <- s10, asked <- s11, id <- s12,
  current <- s13, expanded <- s14, payloads <- s15, payloadAsked <- s16, missed <- s17, moves <- s18,
  query <- s19

ASSUME DashboardAssumption ==
  /\ TopBar!TopBarAssumption /\ Panels!PanelsAssumption /\ Behaviors!BehaviorsAssumption
  /\ Graph!GraphAssumption /\ Details!DetailsAssumption /\ Journey!JourneyAssumption

-----------------------------------------------------------------------------

Init ==
  \/ /\ part = "top bar" /\ TopBar!Init
     /\ s12 = Nil /\ s13 = Nil /\ s14 = Nil /\ s15 = Nil /\ s16 = Nil /\ s17 = Nil
     /\ s18 = Nil /\ s19 = Nil
  \/ /\ part = "panel" /\ Panels!Init
     /\ s14 = Nil /\ s15 = Nil /\ s16 = Nil /\ s17 = Nil /\ s18 = Nil /\ s19 = Nil
  \/ part = "behaviors" /\ Behaviors!Init
  \/ part = "graph" /\ Graph!Init /\ s18 = Nil /\ s19 = Nil
  \/ /\ part = "details" /\ Details!Init
     /\ s15 = Nil /\ s16 = Nil /\ s17 = Nil /\ s18 = Nil /\ s19 = Nil
  \/ part = "journey" /\ Journey!Init

InTopBar(step) == part = "top bar" /\ step /\ UNCHANGED <<part, afterTopBar>>
InPanel(step) == part = "panel" /\ step /\ UNCHANGED <<part, afterPanel>>
InBehaviors(step) == part = "behaviors" /\ step /\ UNCHANGED part
InGraph(step) == part = "graph" /\ step /\ UNCHANGED <<part, afterGraph>>
InDetails(step) == part = "details" /\ step /\ UNCHANGED <<part, afterDetails>>
InJourney(step) == part = "journey" /\ step /\ UNCHANGED part

Next ==
  \/ InTopBar(TopBar!Next) \/ InPanel(Panels!Next) \/ InBehaviors(Behaviors!Next)
  \/ InGraph(Graph!Next) \/ InDetails(Details!Next) \/ InJourney(Journey!Next)

\* What the browser does by itself: it settles every fetch, aborted or not, and runs every timer.
Settles ==
  \/ InPanel(Panels!Settled) \/ InBehaviors(Behaviors!Browser) \/ InGraph(Graph!GraphSettles)
  \/ InDetails(Details!Settle) \/ InJourney(Journey!SessionsSettle)

Fairness == WF_all(Settles) /\ WF_all(InGraph(Graph!StatsSettle))

Spec == Init /\ [][Next]_all /\ Fairness

-----------------------------------------------------------------------------
(* Properties.                                                                 *)

\* What the URL says is what was last asked for, through every way of writing and reading it, and
\* after Back what was asked for at that entry: the page, a reload and a bookmark show the same
\* report.  A range that was picked on a calendar begins before it ends, whatever the order of the
\* clicks and whatever happened to the calendar in between (updateQuery, the codec, handleDayClick).  The
\* filters of a query are left out if one is by a key with a comma, which the codec cuts there.
UrlIsWhatWasAsked == part = "top bar" => TopBar!IntentInUrl /\ TopBar!RangesOrdered

\* After a period was chosen, and while it is the day it was chosen on, the menu marks it; and the
\* suggestions that arrive are those for what the input holds, its fetcher's query and property
\* (ApplyPeriodSelection and ActivePeriods, the ignore flag of SuggestInput).
TopBarSteps == [][part = "top bar" => TopBar!PeriodMarked /\ TopBar!SuggestedAsAsked]_all

\* What a panel shows, once nothing is loading, is the answer to the question its URL and tab ask
\* now, unless the last fetch failed: no late answer of another query or mode stays, in the list or
\* in what takes it over (the request numbers of use-panel-data.ts).
ShownIsAsked == part = "panel" => Panels!ShownIsAsked

\* A row filters by what the row is: the mode whose rows were clicked and the dimension the click
\* filters by belong together (handleSelect and its kin read the mode, not the data).  Left out are a
\* card whose fetch failed, and a details dialog that still shows, or may be given late, rows of what it
\* listed before: those are filtered by as if they were of its present mode (remote-details-dialog.tsx).
ClickMatchesRow == [][part = "panel" => Panels!ClickMatchesRow]_all

\* Between two answers the first page of the visitors is the one the query and the search ask for,
\* however they changed while the timer ran or a fetch was under way
\* (use-behaviors-panel-controller.ts).
FirstPageIsAsked == part = "behaviors" => Behaviors!FirstPageIsAsked

\* An answer settles: taking the funnel or property it resolved as the selected one does not ask the
\* same question again (lastRequestKeyRef is rewritten for this).
AnswersSettle == [][part = "behaviors" => Behaviors!AnswersSettle]_all

\* When no graph is under way and the last one asked did not fail, the graph drawn is the one its
\* tile and its interval picker name, for the query of the page; and whatever was stored or
\* picked under another period, it is never asked by an interval its period does not have
\* (visitor-graph.tsx, dashboard-context.tsx).
GraphIsAsked == part = "graph" => Graph!GraphIsAsked /\ Graph!IntervalFits

\* Once the first page is answered, the rows of an open details dialog begin with the first page of
\* its report, by the search it last asked for and the column it is sorted by (remote-details-dialog.tsx).
FirstPageShown == part = "details" => Details!FirstPageShown

\* Once the last request is answered or failed, the sessions listed in the open sheet are the first pages
\* of the visitor's sessions of the chosen day, without a gap and without a page of another day or
\* visitor, however days, visitors and pages were asked for in between.  A list whose first page failed,
\* and one that a change of the query emptied without asking it again, is left out until its first page
\* comes (profile-journey-sheet.tsx, whose two effects have different dependencies).
SessionsAreOfDay == part = "journey" => Journey!SessionsAreOfDay

Busy ==
  CASE part = "panel" -> Panels!Busy [] part = "behaviors" -> Behaviors!Busy
    [] part = "graph" -> Graph!Busy [] part = "details" -> Details!Busy
    [] part = "journey" -> Journey!Busy [] OTHER -> FALSE

\* The skeletons of a list panel, of the visitors, of an open dialog and of the list of sessions and
\* the spinner over the graph go, however often what they load changes meanwhile.
LoadingEnds == Busy ~> ~Busy
=============================================================================
