-------------------------------- MODULE Pages ---------------------------------
(* Pages of the application and what runs in them, one at a time: the analytics   *)
(* tracker of a public page, the live view, the analytics settings, the lists and *)
(* the record pages of the administration, the shell of the signed-in pages, and  *)
(* the library's pages.  Each is an instance of its module over the same variables    *)
(* s1, s2, ...: `open` says which one is looked at, and what its module names     *)
(* them.                                                                          *)
EXTENDS Integers, Sequences

CONSTANTS
  Nil,
  Locations, Configs, BatchSize, LongEnough, MaxTicks, TrackerMoves,             \* of Tracker
  SessionOrder, CellOf, Devices, Places, Short, MaxVisible, MaxEvents, LiveMoves,    \* of Live
  GoalPool, GoalOrder, Suggested, RulePaths, NormalPath, StepPool, MaxSteps, SettingsMoves,   \* of AnalyticsSettings
  ListRows, ListTexts, Matches, PerPage, ListMoves,                               \* of AdminIndex
  RecordMoves,                                                                   \* of AdminRecords
  Ids, Staff, Owners, MaxCached, ShellMoves,                                     \* of ShellCache
  VersionNames, ChannelFor, Rank, Counts, MaxVersions, LibraryMoves              \* of Catalogue

VARIABLES open, s1, s2, s3, s4, s5, s6, s7, s8, s9, s10, s11, s12, s13, s14, s15,
          s16, s17, s18, s19, s20, s21, s22

afterIndex == <<s14, s15, s16, s17, s18, s19, s20, s21, s22>>
afterTracker == <<s12, s13, afterIndex>>
afterSettings == <<s11, afterTracker>>
afterRecords == <<s9, s10, afterSettings>>
afterCatalogue == <<s8, afterRecords>>
all == <<open, s1, s2, s3, s4, s5, s6, s7, afterCatalogue>>

-----------------------------------------------------------------------------

Tracker == INSTANCE Tracker WITH
  MaxMoves <- TrackerMoves,
  config <- s1, loc <- s2, visible <- s3, focus <- s4, life <- s5, scroll <- s6, now <- s7,
  initial <- s8, t <- s9, stay <- s10, moves <- s11

Live == INSTANCE Live WITH
  None <- Nil, Order <- SessionOrder, Texts <- Places, MaxMoves <- LiveMoves,
  connection <- s1, live <- s2, feed <- s3, pushed <- s4, cell <- s5, session <- s6, anchors <- s7,
  request <- s8, flights <- s9, closed <- s10, atBottom <- s11, collapsed <- s12, hint <- s13,
  counted <- s14, frame <- s15, text <- s16, visible <- s17, focused <- s18, blurring <- s19,
  suggestions <- s20, searches <- s21, moves <- s22

Settings == INSTANCE AnalyticsSettings WITH
  Ordered <- GoalOrder, Paths <- RulePaths, Normal <- NormalPath, MaxMoves <- SettingsMoves,
  server <- s1, props <- s2, tab <- s3, ui <- s4, builder <- s5, saves <- s6, asked <- s7,
  answers <- s8, mount <- s9, moves <- s10

Index == INSTANCE AdminIndex WITH
  None <- Nil, Rows <- ListRows, Texts <- ListTexts, MaxMoves <- ListMoves,
  kind <- s1, status <- s2, shown <- s3, mode <- s4, query <- s5, timer <- s6, visit <- s7,
  selectedIds <- s8, scope <- s9, dialog <- s10, confirming <- s11, missed <- s12, moves <- s13

Records == INSTANCE AdminRecords WITH
  None <- Nil, MaxMoves <- RecordMoves,
  page <- s1, records <- s2, shown <- s3, dialog <- s4, busy <- s5, visit <- s6, upset <- s7,
  moves <- s8

Shell == INSTANCE ShellCache WITH
  None <- Nil, MaxMoves <- ShellMoves,
  session <- s1, account <- s2, clock <- s3, shown <- s4, cache <- s5, dialog <- s6, visit <- s7,
  acked <- s8, sure <- s9, moves <- s10, coming <- s11

Catalogue == INSTANCE Catalogue WITH
  None <- Nil, Names <- VersionNames, MaxMoves <- LibraryMoves,
  versions <- s1, library <- s2, admin <- s3, save <- s4, reader <- s5, ask <- s6, moves <- s7

ASSUME PagesAssumption ==
  /\ Tracker!TrackerAssumption /\ Live!LiveAssumption /\ Settings!SettingsAssumption
  /\ Index!AdminIndexAssumption /\ Records!AdminRecordsAssumption
  /\ Shell!ShellCacheAssumption /\ Catalogue!CatalogueAssumption

-----------------------------------------------------------------------------

LaterThanIndex == s14 = Nil /\ s15 = Nil /\ s16 = Nil /\ s17 = Nil /\ s18 = Nil /\ s19 = Nil
                    /\ s20 = Nil /\ s21 = Nil /\ s22 = Nil
LaterThanSettings == s11 = Nil /\ s12 = Nil /\ s13 = Nil /\ LaterThanIndex

Init ==
  \/ open = "tracker" /\ Tracker!Init /\ s12 = Nil /\ s13 = Nil /\ LaterThanIndex
  \/ open = "live" /\ Live!Init
  \/ open = "settings" /\ Settings!Init /\ LaterThanSettings
  \/ open = "list" /\ Index!Init /\ LaterThanIndex
  \/ open = "record" /\ Records!Init /\ s9 = Nil /\ s10 = Nil /\ LaterThanSettings
  \/ open = "shell" /\ Shell!Init /\ s12 = Nil /\ s13 = Nil /\ LaterThanIndex
  \/ open = "library" /\ Catalogue!Init /\ s8 = Nil /\ s9 = Nil /\ s10 = Nil /\ LaterThanSettings

Next ==
  \/ open = "tracker" /\ Tracker!Next /\ UNCHANGED <<open, afterTracker>>
  \/ open = "live" /\ Live!Next /\ UNCHANGED open
  \/ open = "settings" /\ Settings!Next /\ UNCHANGED <<open, afterSettings>>
  \/ open = "list" /\ Index!Next /\ UNCHANGED <<open, afterIndex>>
  \/ open = "record" /\ Records!Next /\ UNCHANGED <<open, afterRecords>>
  \/ open = "shell" /\ Shell!Next /\ UNCHANGED <<open, afterTracker>>
  \/ open = "library" /\ Catalogue!Next /\ UNCHANGED <<open, afterCatalogue>>

Spec == Init /\ [][Next]_all

-----------------------------------------------------------------------------
(* Properties.                                                                 *)

\* Engaged time is not invented: however navigation, visibility, focus, the back-forward cache and
\* the dedupe of page views interleave, what is reported for a page is no more than the time it was
\* shown.  A tracked page being shown is counted, under its own key.  No event waits without a timer
\* or a flush that comes back to it (entrypoints/analytics.ts).
TrackerCounts ==
  open = "tracker" => Tracker!EngagedWithinStay /\ Tracker!ShownIsCounted /\ Tracker!QueueIsServed

\* A document that is hidden or left has handed everything to fetch in that very callback: a drain
\* never has to wait for a second batch, which the browser would not let it post.
NothingLeftBehind == [][open = "tracker" => Tracker!NothingLeftBehind]_all

\* Once closed, a selection of the live view stays closed, whichever flight of the globe ends later;
\* the hint of new events is given only to who does not see them; and when no search is on its way,
\* the places suggested are for what is typed (live/show.tsx and its hooks).
LiveSettles ==
  open = "live" => Live!ClosedStaysClosed /\ Live!HintOnlyWhenAway /\ Live!SuggestionsFollowText

\* Goals are edited by their position in a list that a reload may replace: a form nobody touched
\* would save exactly the goal it was filled from.  The exclusions shown are, once nothing is under
\* way and but for repeated slashes, what the page was last told, unless the last change here was
\* refused, got no answer or was overwritten before the page heard of it: such a change may stay on
\* the screen.  The step that "Update step" replaces is the one that was clicked.  A button of the
\* goals and exclusions is disabled by a save under way only (pages/admin/analytics/settings.tsx).
SettingsAgree ==
  open = "settings" => /\ Settings!FormMatchesTarget /\ Settings!RulesSettle
                       /\ Settings!EditedStepStays /\ Settings!BusyIsUnderWay

\* A list with the shared table shows, once nothing is under way, what its search asks for, whatever
\* was clicked while the search was on its way, unless the search's visit failed or another visit,
\* which knows nothing of the text in the box, took its place; and unless an action was interrupted
\* or failed, nothing that is gone is still ticked: the next action cannot be about it
\* (pages/admin/libraries/index.tsx, index-table.tsx).
ListsSettle == open = "list" => Index!SearchSettles /\ Index!TickedExist

\* A button of a record page is disabled by its own visit only, and not after it; a crawl request
\* that failed is retried once, however often its button is pressed, unless a visit failed or was
\* interrupted by another button (pages/admin/*/show.tsx).
RecordsSettle == open = "record" => Records!BusyIsUnderWay /\ Records!RetriedOnce

\* Once a sign-in, a sign-up or a log-out was answered, no public page that was kept before it is
\* shown; and once a form of the application was answered, no page of the application that shows what
\* it wrote is shown as it was before (flushPublicShellCache and the cache tags that the forms name).
\* Nothing is said of the pages of the application after a log-out, nor of the name on public pages:
\* those are not dropped.
ShellIsFresh == open = "shell" => Shell!PublicPagesOfSession /\ Shell!OwnWritesShown

\* Whatever was imported, renamed, deleted or made the default, a reader who asks for no version gets
\* one with pages as long as a version has some; the numbers under the pages lead everywhere; and
\* turning the pages stays in the search they are of (Library#best_version, pages/libraries/show.tsx).
LibraryServes ==
  open = "library" => Catalogue!ServedHasPages /\ Catalogue!NumbersReachAll /\ Catalogue!PagesOfSearch

\* After an import the library's default is one of its versions, also when it was renamed or deleted
\* before (should_promote_default_version?).
DefaultHealed == [][open = "library" => Catalogue!DefaultHealed]_all
=============================================================================
