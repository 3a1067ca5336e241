------------------------------ MODULE Behaviors ------------------------------
(* The behaviors panel of the dashboard (ui/behaviors-panel.tsx and             *)
(* hooks/use-behaviors-panel-controller.ts): visitors, goals, properties and     *)
(* funnels in one card.  Two effects fetch for it: one for the goals, properties *)
(* and funnels, which asks nothing it has asked last, and one for the visitors,  *)
(* 200 ms after the last change.  Both share one `loading`.  An effect runs again *)
(* when what it depends on changes, and aborts first what it started before; the *)
(* rejection of an aborted fetch follows at once, its `finally` with it.         *)
EXTENDS Sequences, FiniteSets, Integers, Functions

CONSTANTS
  None,
  Tabs,        \* the modes the site has: of "visitors", "conversions", "props", "funnels"
  Funnels,     \* the site's funnels, in the server's order
  Properties,  \* its property keys
  Searches,    \* what may be typed, "" among it
  MaxMoves     \* bound: what the administrator does

BehaviorsAssumption ==
  /\ MaxMoves \in Nat /\ "" \in Searches
  /\ Properties \in Seq(Range(Properties)) /\ None \notin Range(Properties)

VARIABLES
  query,                            \* baseQuery: [period, goal, prop]
  mode, funnel, property,           \* modeState, selectedFunnelState, selectedPropertyState
  dialog,                           \* what the path and the search say of the details dialog
  data, lastKey, dataId, armed,     \* armed: the fetch the effect aborts when it runs again
  profiles, search, page, profilesId, timer, loadingMore,
  loading,
  fetches,                          \* under way: [kind, id, key]
  failed,                           \* kind -> its last fetch ended with an error
  moves

vars == <<query, mode, funnel, property, dialog, data, lastKey, dataId, armed, profiles,
          search, page, profilesId, timer, loadingMore, loading, fetches, failed, moves>>

-----------------------------------------------------------------------------
(* What is asked, and what the server answers.                                 *)

Modes == Tabs
Or(a, b) == IF a # None THEN a ELSE b
First(seq) == IF seq = <<>> THEN None ELSE Head(seq)

EffectiveMode(d, m) == IF d # None THEN d.mode ELSE m
RequestedFunnel(d, f) == IF d # None THEN Or(d.funnel, f) ELSE f

\* requestKey
Key(q, m, f, p) ==
  <<q, m, CASE m = "funnels" -> f [] m = "props" -> p [] OTHER -> None>>

\* The server takes the first funnel or property for one it does not have.
Resolve(seq, asked) == IF asked \in Range(seq) THEN asked ELSE First(seq)

ServerAnswer(key) ==
  [kind |-> key[2], of |-> key,
   active |-> CASE key[2] = "funnels" -> Resolve(Funnels, key[3])
                [] key[2] = "props" -> Resolve(Properties, key[3])
                [] OTHER -> None]

\* The key an answer leaves behind: that of the funnel or property it resolved, so that
\* taking it as the selected one asks nothing again.
KeyAsAsked(key, answer) == key
KeyAfterAnswer(key, answer) ==
  IF answer.kind = "funnels" \/ (answer.kind = "props" /\ answer.active # None)
  THEN <<key[1], key[2], answer.active>> ELSE key

-----------------------------------------------------------------------------
(* The effects.                                                                *)

DataDeps(q, m, f, p) == <<q, m, f, p>>
\* Variant: the search is left out of what the effect depends on.
ProfilesDepsNoSearch(q, m, s) == <<q, m>>
ProfilesDeps(q, m, s) == <<q, m, s>>

InFlight(kind) == {fe \in fetches : fe.kind = kind}

\* A render with this state, and the effects that follow; `last` is lastRequestKeyRef,
\* `under` the fetches under way.
\* An aborted fetch that no other of its kind has followed ends the loading.
Rerender(q, d, m, f, p, s, last, busy, under) ==
  LET em == EffectiveMode(d, m)
      rf == RequestedFunnel(d, f)
      old == EffectiveMode(dialog, mode)
      dataRuns == DataDeps(q, em, rf, p) # DataDeps(query, old, RequestedFunnel(dialog, funnel), property)
      asks == dataRuns /\ em # "visitors" /\ Key(q, em, rf, p) # last
      profilesRun == ProfilesDeps(q, em, s) # ProfilesDeps(query, old, search)
      waits == profilesRun /\ em = "visitors"
      aborted == {fe \in under : \/ dataRuns /\ fe.kind = "data" /\ fe.id = armed
                                 \/ profilesRun /\ fe.kind = "profiles" /\ fe.id = profilesId}
      ends == \E fe \in aborted : (fe.kind = "data" /\ ~asks) \/ (fe.kind = "profiles" /\ ~waits)
  IN /\ query' = q /\ dialog' = d /\ mode' = m /\ funnel' = f /\ property' = p /\ search' = s
     /\ lastKey' = IF asks THEN Key(q, em, rf, p) ELSE last
     /\ dataId' = IF asks THEN dataId + 1 ELSE dataId
     /\ armed' = IF asks THEN dataId + 1 ELSE IF dataRuns THEN 0 ELSE armed
     /\ profilesId' = IF waits THEN profilesId + 1 ELSE profilesId
     /\ timer' = IF profilesRun THEN waits ELSE timer
     /\ page' = IF waits THEN 1 ELSE page
     /\ fetches' = (under \ aborted)
          \cup (IF asks THEN {[kind |-> "data", id |-> dataId + 1, key |-> Key(q, em, rf, p)]} ELSE {})
     /\ failed' = [kind \in {"data", "profiles"} |->
          CASE kind = "data" /\ asks -> FALSE
            [] kind = "profiles" /\ waits -> FALSE
            [] OTHER -> failed[kind]]
     /\ loading' = IF ends THEN FALSE ELSE IF asks \/ waits THEN TRUE ELSE busy

\* A render in which only some of it changes.
Render(q, d, m, f, p) == Rerender(q, d, m, f, p, search, lastKey, loading, fetches)

\* The page as the server renders it, in the first of the tabs.
Init ==
  /\ query = [period |-> 1, goal |-> FALSE, prop |-> None]
  /\ mode = "visitors" /\ dialog = None
  /\ funnel = None /\ property = None
  /\ data = [kind |-> "none", of |-> <<>>, active |-> None]
  /\ lastKey = Key(query, "visitors", None, None) /\ dataId = 0 /\ armed = 0
  /\ profiles = << <<query, "", 1>> >> /\ search = "" /\ page = 1
  /\ profilesId = 1 /\ timer = TRUE /\ loadingMore = FALSE /\ loading = TRUE
  /\ fetches = {} /\ failed = [kind \in {"data", "profiles"} |-> FALSE]
  /\ moves = 0

Move == moves < MaxMoves /\ moves' = moves + 1

-----------------------------------------------------------------------------
(* What the card offers.                                                       *)

\* The properties can be chosen once an answer has listed them; until then their tab is
\* a tab like the others.
PropertyOptions == IF mode = "props" /\ data.kind = "props" THEN Properties ELSE <<>>
TabsOffered ==
  {m \in Tabs : m = "props" => PropertyOptions = <<>>}

ActiveProperty ==
  IF PropertyOptions = <<>> THEN None
  ELSE LET route == IF dialog # None THEN dialog.property ELSE None
           known == Range(PropertyOptions)
       IN First(SelectSeq(<<route, property, data.active, First(PropertyOptions)>>, LAMBDA p : p \in known))

SelectedFunnel ==
  Or(RequestedFunnel(dialog, funnel), IF data.kind = "funnels" THEN data.active ELSE None)

\* Rows to click: a table, once nothing is loading.
TableShown == EffectiveMode(dialog, mode) \in {"conversions", "props"} /\ ~loading
              /\ data.kind \in {"conversions", "props"}

FunnelsOffered ==
  IF mode = "funnels" /\ ~loading /\ data.kind = "funnels" /\ Len(Funnels) > 1 THEN Range(Funnels) ELSE {}

MoreOffered == mode = "visitors" /\ ~loading /\ profiles # <<>> /\ ~loadingMore

-----------------------------------------------------------------------------
(* Actions.                                                                    *)

\* setAndStoreMode
SelectTab(m) ==
  /\ dialog = None /\ m \in TabsOffered /\ Move
  /\ Render(query, dialog, m, funnel, property)
  /\ UNCHANGED <<data, profiles, loadingMore>>

\* selectModeWithValue
SelectProperty(p) ==
  /\ dialog = None /\ p \in Range(PropertyOptions) /\ Move
  /\ Render(query, dialog, "props", funnel, p)
  /\ UNCHANGED <<data, profiles, loadingMore>>

SelectFunnel(f) ==
  /\ dialog = None /\ f \in FunnelsOffered /\ Move
  /\ Render(query, dialog, "funnels", f, property)
  /\ UNCHANGED <<data, profiles, loadingMore>>

TypeSearch(s) ==
  /\ dialog = None /\ mode = "visitors" /\ s # search /\ Move
  /\ Rerender(query, dialog, mode, funnel, property, s, lastKey, loading, fetches)
  /\ UNCHANGED <<data, profiles, loadingMore>>

\* handleRowClick: a property's value filters by it; a goal filters by the goal, and goes on
\* to the properties where the site has them.
ClickRow ==
  /\ TableShown /\ Move
  /\ LET closed == None
         m == EffectiveMode(dialog, mode)
     IN IF m = "props"
        THEN IF ActiveProperty = None THEN Render(query, closed, mode, funnel, property)
             ELSE Render([query EXCEPT !.prop = ActiveProperty], closed, mode, funnel, property)
        ELSE Render([query EXCEPT !.goal = TRUE], closed,
                    IF "props" \in Tabs THEN "props" ELSE mode, funnel, property)
  /\ UNCHANGED <<data, profiles, loadingMore>>

OpenDetails ==
  /\ dialog = None /\ TableShown /\ Move
  /\ Render(query, [mode |-> mode, funnel |-> SelectedFunnel, property |-> ActiveProperty],
            mode, funnel, property)
  /\ UNCHANGED <<data, profiles, loadingMore>>

CloseDetails ==
  /\ dialog # None /\ Move
  /\ Render(query, None, mode, funnel, property)
  /\ UNCHANGED <<data, profiles, loadingMore>>

\* The top bar changes the query.
ChangeQuery ==
  /\ dialog = None /\ Move
  /\ \/ Render([query EXCEPT !.period = 3 - @], dialog, mode, funnel, property)
     \/ query.goal /\ Render([query EXCEPT !.goal = FALSE], dialog, mode, funnel, property)
  /\ UNCHANGED <<data, profiles, loadingMore>>

\* loadMoreProfiles: no signal, no number.
LoadMore ==
  /\ dialog = None /\ MoreOffered /\ Move
  /\ loadingMore' = TRUE
  /\ fetches' = fetches \cup {[kind |-> "more", id |-> page + 1, key |-> <<query, search, page + 1>>]}
  /\ UNCHANGED <<query, mode, funnel, property, dialog, data, lastKey, dataId, armed, profiles,
                 search, page, profilesId, timer, loading, failed>>

-----------------------------------------------------------------------------
(* Timers and answers.                                                         *)

TimerFires ==
  /\ timer /\ timer' = FALSE
  /\ fetches' = fetches \cup {[kind |-> "profiles", id |-> profilesId, key |-> <<query, search, 1>>]}
  /\ UNCHANGED <<query, mode, funnel, property, dialog, data, lastKey, dataId, armed, profiles,
                 search, page, profilesId, loadingMore, loading, failed, moves>>

\* then and finally, in one render: the funnel or property the server took becomes the
\* selected one.
DataAnswer(fe) ==
  LET answer == ServerAnswer(fe.key)
      f == IF answer.kind = "funnels" /\ RequestedFunnel(dialog, funnel) \notin Range(Funnels)
           THEN answer.active ELSE funnel
      p == IF answer.kind = "props" /\ (answer.active # None \/ property # None)
           THEN answer.active ELSE property
  IN /\ fe \in InFlight("data") /\ fe.id = dataId
     /\ data' = answer
     /\ Rerender(query, dialog, mode, f, p, search, KeyAfterAnswer(fe.key, answer), FALSE,
                 fetches \ {fe})
     /\ UNCHANGED <<profiles, loadingMore, moves>>

Ended(fe) == fetches' = fetches \ {fe}

Fails(fe) ==
  /\ fe \in fetches /\ Ended(fe)
  /\ loading' = IF fe.kind = "more" THEN loading ELSE FALSE
  /\ loadingMore' = IF fe.kind = "more" THEN FALSE ELSE loadingMore
  /\ failed' = IF fe.kind = "more" THEN failed ELSE [failed EXCEPT ![fe.kind] = TRUE]
  /\ UNCHANGED <<query, mode, funnel, property, dialog, data, lastKey, dataId, armed, profiles,
                 search, page, profilesId, timer, moves>>

\* Variant: the loading ends only with the goals, properties and funnels.
ProfilesAnswerStillLoading(fe) ==
  /\ fe \in InFlight("profiles") /\ fe.id = profilesId /\ Ended(fe)
  /\ profiles' = <<fe.key>>
  /\ UNCHANGED <<query, mode, funnel, property, dialog, data, lastKey, dataId, armed, search,
                 page, profilesId, timer, loadingMore, loading, failed, moves>>

ProfilesAnswer(fe) ==
  /\ fe \in InFlight("profiles") /\ fe.id = profilesId /\ Ended(fe)
  /\ profiles' = <<fe.key>> /\ loading' = FALSE
  /\ UNCHANGED <<query, mode, funnel, property, dialog, data, lastKey, dataId, armed, search,
                 page, profilesId, timer, loadingMore, failed, moves>>

\* Appended to whatever is shown when it comes.
MoreAnswer(fe) ==
  /\ fe \in InFlight("more") /\ Ended(fe)
  /\ profiles' = Append(profiles, fe.key) /\ page' = fe.id /\ loadingMore' = FALSE
  /\ UNCHANGED <<query, mode, funnel, property, dialog, data, lastKey, dataId, armed, search,
                 profilesId, timer, loading, failed, moves>>

-----------------------------------------------------------------------------

Settle == \E fe \in fetches : ProfilesAnswer(fe) \/ MoreAnswer(fe) \/ Fails(fe)
SettleData == \E fe \in InFlight("data") : DataAnswer(fe)

Next ==
  \/ \E m \in Modes : SelectTab(m)
  \/ \E p \in Range(Properties) : SelectProperty(p)
  \/ \E f \in Range(Funnels) : SelectFunnel(f)
  \/ \E s \in Searches : TypeSearch(s)
  \/ ClickRow \/ OpenDetails \/ CloseDetails \/ ChangeQuery \/ LoadMore
  \/ TimerFires
  \/ SettleData
  \/ Settle

\* What the browser does on its own: timers run out, fetches settle.
Browser == TimerFires \/ SettleData \/ Settle

Spec == Init /\ [][Next]_vars

-----------------------------------------------------------------------------
(* Properties.                                                                 *)

\* Between two answers the first page of the visitors is the one the query and the search
\* ask for, however they changed while the timer ran or a fetch was under way.
FirstPageIsAsked ==
  EffectiveMode(dialog, mode) = "visitors" /\ ~timer /\ InFlight("profiles") = {} /\ ~failed["profiles"]
    => Head(profiles) = <<query, search, 1>>

\* An answer settles: taking the funnel or property it resolved as the selected one does
\* not ask the same question again (lastRequestKeyRef is rewritten for this).
AnswersSettle == data' # data => dataId' = dataId

TypeOK ==
  /\ dataId \in Nat /\ property \in Range(Properties) \cup {None}
  /\ profiles \in Seq(Range(profiles)) \ {<<>>}
  /\ failed \in [{"data", "profiles"} -> BOOLEAN]
  /\ \A fe \in fetches : fe.kind \in {"data", "profiles", "more"}

\* The last fetch of each effect, while it is under way, asks what the panel asks; the effect of the
\* visitors has no other under way.
DataFits(fe) ==
  fe.kind = "data" =>
    /\ fe.id \in 0 .. dataId
    /\ fe.id = dataId => /\ armed = dataId
                         /\ fe.key = Key(query, EffectiveMode(dialog, mode),
                                         RequestedFunnel(dialog, funnel), property)

VisitorsFit(fe) == fe.kind = "profiles" => fe.id = profilesId /\ fe.key = <<query, search, 1>>

Inductive ==
  /\ TypeOK /\ FirstPageIsAsked
  /\ \A fe \in fetches : DataFits(fe) /\ VisitorsFit(fe)

\* The skeleton is shown for the visitors.
Busy == mode = "visitors" /\ loading
=============================================================================
