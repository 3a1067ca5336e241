----------------------------- MODULE VisitorGraph -----------------------------
(* The head of the dashboard: the top statistics, the graph of one of them, and *)
(* the count of live visitors that is pushed to it (ui/visitor-graph.tsx and its *)
(* preferences, dashboard-context.tsx).  Two effects ask the server, each on its *)
(* own dependencies; the graph asks for a metric that the answer of the other    *)
(* may take away; the live count comes by three ways.                           *)
EXTENDS Integers, FiniteSets, Sequences, Functions

CONSTANTS
  None,
  Queries,      \* what the URL may ask for, without metric and interval
  Graphable,    \* query -> the metrics of its answer that can be drawn, in order
  Intervals,    \* query -> the intervals of its period, in order
  DefaultOf,    \* query -> the interval the server draws it by
  Urls, Stored, \* what the URL and localStorage may hold at the start: [metric, interval]
  MaxMoves,     \* bound: what the administrator does
  MaxCount      \* bound: changes of the number of live visitors

Metrics == UNION {Range(Graphable[q]) : q \in Queries}
Units == UNION {Range(Intervals[q]) : q \in Queries}

GraphAssumption ==
  /\ MaxMoves \in Nat /\ MaxCount \in Nat
  /\ \A q \in Queries : /\ Graphable[q] \in Seq(Metrics) /\ Graphable[q] # <<>>
                        /\ Intervals[q] \in Seq(Units) /\ DefaultOf[q] \in Range(Intervals[q])
  /\ None \notin [of : Queries, metric : Metrics, interval : Units]

VARIABLES
  query, stats,            \* stats: [of, live], the answer shown
  metric, interval,        \* selectedMetric, selectedInterval
  stored, initial,         \* localStorage; initialGraph
  graph, loading,          \* the graph drawn: [of, metric, interval]
  asked,                   \* the graph's request under way, None without one
  statsAsked,              \* the top statistics' request: [of, live]; live: None until it is computed
  missed,                  \* the last request of the graph failed (history)
  count, pushed,           \* the server's count; what it sent over the cable, not yet received
  connected, visible, resync,
  moves

graphVars == <<metric, interval, stored, initial, graph, loading, asked>>
liveVars == <<count, pushed, connected, visible, resync>>
vars == <<query, stats, graphVars, statsAsked, missed, liveVars, moves>>

Move == moves < MaxMoves /\ moves' = moves + 1

\* resolvePreferredMetric and resolvePreferredInterval: the stored one, else the fallback.
PreferredMetric(q, kept, fallback) == IF kept.metric \in Range(Graphable[q]) THEN kept.metric ELSE fallback

PreferredInterval(q, kept) ==
  LET fits == Range(Intervals[q])
  IN CASE kept.interval \in fits -> kept.interval
       [] kept.interval \notin fits /\ initial.interval \in fits -> initial.interval
       [] OTHER -> Head(Intervals[q])

EffectiveMetric(shown, picked, kept) ==
  IF picked \in Range(Graphable[shown]) THEN picked
  ELSE PreferredMetric(shown, kept, Head(Graphable[shown]))

\* Variant: what was picked is kept for any period.
AnyInterval(q, picked, kept) == picked

EffectiveInterval(q, picked, kept) ==
  IF picked \in Range(Intervals[q]) THEN picked ELSE PreferredInterval(q, kept)

Shown == [of |-> query, metric |-> EffectiveMetric(stats.of, metric, stored),
          interval |-> EffectiveInterval(query, interval, stored)]

\* Variant: the interval is not a dependency of the graph's effect.
DepsWithoutInterval(r) == <<r.of, r.metric>>
Deps(r) == <<r.of, r.metric, r.interval>>

\* A render with another query, other top statistics or another choice: the effect of the
\* graph asks when what it depends on has changed, and aborts what it asked before.
Render(q, s, m, i, kept) ==
  LET next == [of |-> q, metric |-> EffectiveMetric(s.of, m, kept),
               interval |-> EffectiveInterval(q, i, kept)]
      asks == Deps(next) # Deps(Shown)
  IN /\ query' = q /\ stats' = s /\ metric' = m /\ interval' = i /\ stored' = kept
     /\ UNCHANGED initial
     /\ asked' = IF asks THEN next ELSE asked
     /\ loading' = (asks \/ loading)
     /\ missed' = (missed /\ ~asks)

Or(a, b) == IF a # None THEN a ELSE b

\* The page is loaded with the server's answers.  What is stored counts only when the URL
\* asks for what cannot be drawn; the graph is asked at once when it is not the one drawn,
\* the top statistics always.
Init ==
  /\ query \in Queries /\ stats = [of |-> query, live |-> 0] /\ stored \in Stored
  /\ \E url \in Urls :
       /\ initial = [of |-> query,
                     metric |-> IF url.metric \in Range(Graphable[query]) THEN url.metric ELSE Head(Graphable[query]),
                     interval |-> IF url.interval \in Range(Intervals[query]) THEN url.interval ELSE DefaultOf[query]]
       /\ metric = IF Or(url.metric, initial.metric) \in Range(Graphable[query]) THEN Or(url.metric, initial.metric)
                   ELSE PreferredMetric(query, stored, initial.metric)
       /\ interval = IF Or(url.interval, initial.interval) \in Range(Intervals[query])
                     THEN Or(url.interval, initial.interval) ELSE PreferredInterval(query, stored)
  /\ graph = initial
  /\ loading = (Shown # graph) /\ asked = IF Shown # graph THEN Shown ELSE None
  /\ statsAsked = [of |-> query, live |-> None]
  /\ missed = FALSE
  /\ count = 0 /\ pushed = <<>> /\ connected = FALSE /\ visible = TRUE /\ resync = None
  /\ moves = 0

-----------------------------------------------------------------------------
(* What the administrator does.                                                *)

\* Another query: the top statistics are asked, and the subscription is made anew, which
\* asks for the live count again when it is connected.
ChangeQuery(q) ==
  /\ q # query /\ Move
  /\ Render(q, stats, metric, interval, stored)
  /\ statsAsked' = [of |-> q, live |-> None]
  /\ connected' = FALSE /\ pushed' = <<>> /\ resync' = None
  /\ UNCHANGED <<graph, count, visible>>

ChangeMetric(m) ==
  /\ m \in Range(Graphable[stats.of]) \ {Shown.metric} /\ Move
  /\ Render(query, stats, m, interval, [stored EXCEPT !.metric = m])
  /\ UNCHANGED <<graph, statsAsked, liveVars>>

ChangeInterval(i) ==
  /\ i \in Range(Intervals[query]) \ {Shown.interval} /\ Move
  /\ Render(query, stats, metric, i, [stored EXCEPT !.interval = i])
  /\ UNCHANGED <<graph, statsAsked, liveVars>>

-----------------------------------------------------------------------------
(* The answers.                                                                *)

GraphAnswer ==
  /\ asked # None /\ graph' = asked /\ asked' = None /\ loading' = FALSE
  /\ UNCHANGED <<query, stats, metric, interval, stored, initial, statsAsked, missed, liveVars, moves>>

\* Variant: the spinner is taken away by an answer only.
FailWithoutFinally ==
  /\ asked # None /\ asked' = None /\ missed' = TRUE
  /\ UNCHANGED <<query, stats, metric, interval, stored, initial, graph, loading, statsAsked, liveVars, moves>>

GraphFails ==
  /\ asked # None /\ asked' = None /\ loading' = FALSE /\ missed' = TRUE
  /\ UNCHANGED <<query, stats, metric, interval, stored, initial, graph, statsAsked, liveVars, moves>>

StatsComputed ==
  /\ statsAsked # None /\ statsAsked.live = None /\ statsAsked' = [statsAsked EXCEPT !.live = count]
  /\ UNCHANGED <<query, stats, graphVars, missed, liveVars, moves>>

\* The answer replaces all of the top statistics, the live count included.
StatsAnswer ==
  /\ statsAsked # None /\ statsAsked.live # None /\ statsAsked' = None
  /\ Render(query, statsAsked, metric, interval, stored)
  /\ UNCHANGED <<graph, liveVars, moves>>

StatsFail ==
  /\ statsAsked # None /\ statsAsked' = None
  /\ UNCHANGED <<query, stats, graphVars, missed, liveVars, moves>>

-----------------------------------------------------------------------------
(* The live count.                                                             *)

ApplyLive(n) == stats' = [stats EXCEPT !.live = n]

\* A visitor comes or goes; who is subscribed is told.
CountChanges ==
  /\ count < MaxCount /\ count' = count + 1
  /\ pushed' = IF connected THEN Append(pushed, count + 1) ELSE pushed
  /\ UNCHANGED <<query, stats, graphVars, statsAsked, missed, connected, visible, resync, moves>>

Asking == [live |-> None]

\* Connected, for the first time or again: the count is asked if the page is seen.
Connect ==
  /\ ~connected /\ connected' = TRUE
  /\ resync' = IF visible THEN Asking ELSE resync
  /\ UNCHANGED <<query, stats, graphVars, statsAsked, missed, count, pushed, visible, moves>>

ConnectionLost ==
  /\ connected /\ Move /\ connected' = FALSE /\ pushed' = <<>>
  /\ UNCHANGED <<query, stats, graphVars, statsAsked, missed, count, visible, resync>>

Receive ==
  /\ pushed # <<>> /\ pushed' = Tail(pushed) /\ ApplyLive(Head(pushed))
  /\ UNCHANGED <<query, graphVars, statsAsked, missed, count, connected, visible, resync, moves>>

OnVisibilityChange ==
  /\ Move /\ visible' = ~visible
  /\ resync' = IF visible THEN resync ELSE Asking
  /\ UNCHANGED <<query, stats, graphVars, statsAsked, missed, count, pushed, connected>>

ResyncComputed ==
  /\ resync # None /\ resync.live = None /\ resync' = [live |-> count]
  /\ UNCHANGED <<query, stats, graphVars, statsAsked, missed, count, pushed, connected, visible, moves>>

ResyncAnswer ==
  /\ resync # None /\ resync.live # None /\ resync' = None /\ ApplyLive(resync.live)
  /\ UNCHANGED <<query, graphVars, statsAsked, missed, count, pushed, connected, visible, moves>>

ResyncFails ==
  /\ resync # None /\ resync' = None
  /\ UNCHANGED <<query, stats, graphVars, statsAsked, missed, count, pushed, connected, visible, moves>>

-----------------------------------------------------------------------------

GraphSettles == GraphAnswer \/ GraphFails
StatsSettle == StatsComputed \/ StatsAnswer \/ StatsFail

Next ==
  \/ \E q \in Queries : ChangeQuery(q)
  \/ \E m \in Metrics : ChangeMetric(m)
  \/ \E i \in Units : ChangeInterval(i)
  \/ GraphSettles \/ StatsSettle
  \/ CountChanges \/ Connect \/ ConnectionLost \/ Receive \/ OnVisibilityChange
  \/ ResyncComputed \/ ResyncAnswer \/ ResyncFails

Spec == Init /\ [][Next]_vars

-----------------------------------------------------------------------------
(* Properties.                                                                 *)

Answers == [of : Queries, live : Nat]

TypeOK ==
  /\ query \in Queries /\ stats \in Answers
  /\ statsAsked \in [of : Queries, live : Nat \cup {None}] \cup {None}
  /\ count \in Nat /\ pushed \in Seq(Nat)
  /\ resync \in [live : Nat \cup {None}] \cup {None}

\* What is under way is what is shown, and what is drawn is it too when nothing is under way, unless
\* it failed: with the types, this is inductive.
Drawn == (asked # None => asked = Shown) /\ (asked = None /\ ~missed => graph = Shown)
Inductive == TypeOK /\ Drawn

\* When no graph is under way and the last one asked did not fail, the graph drawn is the one its
\* tile and its interval picker name, for the query of the page.
GraphIsAsked == asked = None /\ ~missed => graph = Shown

\* Whatever was stored or picked under another period, the graph is never asked by an
\* interval that its period does not have.
IntervalFits == asked # None => asked.interval \in Range(Intervals[asked.of])

\* The spinner is over the graph.
Busy == loading
=============================================================================
