---------------------------- MODULE DashboardProofs ----------------------------
(* What the URL says and what the graph, the details dialog and the journey      *)
(* sheet show is what was asked, for every value of the constants.  The         *)
(* inductive invariants are those of their modules.                             *)
EXTENDS Dashboard, FiniteSets, FiniteSetTheorems, WellFoundedInduction, TLAPS

LEMMA EmptySeq ==
    ASSUME NEW S
    PROVE  <<>> \in Seq(S)
OBVIOUS

-----------------------------------------------------------------------------
(* The graph.                                                                  *)

\* Whatever was picked and stored, the metric and the interval the graph is asked by are among those
\* its answer and its period have (EffectiveMetric, EffectiveInterval).
LEMMA GraphChoice ==
    ASSUME NEW q \in Queries, NEW picked, NEW kept
    PROVE  /\ Graph!EffectiveInterval(q, picked, kept) \in Graph!Range(UnitsOf[q])
           /\ Graph!EffectiveMetric(q, picked, kept) \in Graph!Range(Graphable[q])
<1>1. /\ Head(UnitsOf[q]) \in Graph!Range(UnitsOf[q])
      /\ Head(Graphable[q]) \in Graph!Range(Graphable[q])
  <2>1. /\ Graphable[q] \in Seq(Graph!Metrics) /\ Graphable[q] # <<>>
        /\ UnitsOf[q] \in Seq(Graph!Units) /\ UnitsOf[q] # <<>>
    BY DashboardAssumption DEF Graph!GraphAssumption, Graph!Range
  <2> QED BY <2>1 DEF Graph!Range
<1>2. Graph!PreferredInterval(q, kept) \in Graph!Range(UnitsOf[q])
  BY <1>1 DEF Graph!PreferredInterval
<1> QED BY <1>1, <1>2 DEF Graph!EffectiveInterval, Graph!EffectiveMetric, Graph!PreferredMetric

\* A request of the graph is never taken for none.
LEMMA GraphAsksSome ==
    ASSUME NEW q \in Queries, NEW of \in Queries, NEW m, NEW i, NEW kept
    PROVE  [of |-> q, metric |-> Graph!EffectiveMetric(of, m, kept),
            interval |-> Graph!EffectiveInterval(q, i, kept)] # Nil
<1>1. /\ Graph!EffectiveInterval(q, i, kept) \in Graph!Units
      /\ Graph!EffectiveMetric(of, m, kept) \in Graph!Metrics
  BY GraphChoice DEF Graph!Units, Graph!Metrics
<1> QED BY <1>1, DashboardAssumption DEF Graph!GraphAssumption

\* A render asks for what it shows, unless that is what was shown (the effect of the graph).
LEMMA GraphRenders ==
    ASSUME Graph!Drawn, s7' = s7, NEW q \in Queries, NEW s, s.of \in Queries, NEW m, NEW i, NEW kept,
           Graph!Render(q, s, m, i, kept)
    PROVE  Graph!Drawn'
<1> DEFINE next == [of |-> q, metric |-> Graph!EffectiveMetric(s.of, m, kept),
                    interval |-> Graph!EffectiveInterval(q, i, kept)]
<1>1. Graph!Shown' = next
  BY DEF Graph!Render, Graph!Shown, Graph!EffectiveInterval, Graph!PreferredInterval,
         Graph!EffectiveMetric, Graph!PreferredMetric
<1>2. next # Nil
  BY GraphAsksSome
<1>3. CASE Graph!Deps(next) # Graph!Deps(Graph!Shown)
  <2>1. s9' = next
    BY <1>3 DEF Graph!Render
  <2> QED BY <1>1, <1>2, <2>1 DEF Graph!Drawn
<1>4. CASE Graph!Deps(next) = Graph!Deps(Graph!Shown)
  <2>1. next = Graph!Shown
    BY <1>4 DEF Graph!Deps, Graph!Shown
  <2>2. s9' = s9 /\ (s11' <=> s11)
    BY <1>4 DEF Graph!Render
  <2> QED BY <1>1, <2>1, <2>2 DEF Graph!Drawn
<1> QED BY <1>3, <1>4

\* The graph that is shown depends on nothing but the query, the top statistics' own, what is picked,
\* what is stored and what the page was loaded with.
LEMMA GraphStays ==
    ASSUME Graph!Drawn, UNCHANGED <<s1, s2.of, s3, s4, s5, s6, s7, s9, s11>>
    PROVE  Graph!Drawn'
BY DEF Graph!Drawn, Graph!Shown, Graph!EffectiveInterval, Graph!PreferredInterval,
       Graph!EffectiveMetric, Graph!PreferredMetric

LEMMA GraphTypes ==
    ASSUME Graph!TypeOK, Graph!Next
    PROVE  Graph!TypeOK'
<1> USE DEF Graph!TypeOK, Graph!Answers, Graph!Render, Graph!graphVars, Graph!liveVars
<1>1. ASSUME NEW q \in Queries, Graph!ChangeQuery(q) PROVE Graph!TypeOK'
  BY <1>1 DEF Graph!ChangeQuery
<1>2. ASSUME NEW m \in Graph!Metrics, Graph!ChangeMetric(m) PROVE Graph!TypeOK'
  BY <1>2 DEF Graph!ChangeMetric
<1>3. ASSUME NEW i \in Graph!Units, Graph!ChangeInterval(i) PROVE Graph!TypeOK'
  BY <1>3 DEF Graph!ChangeInterval
<1>4. CASE Graph!GraphSettles
  BY <1>4 DEF Graph!GraphSettles, Graph!GraphAnswer, Graph!GraphFails
<1>5. CASE Graph!StatsSettle
  BY <1>5 DEF Graph!StatsSettle, Graph!StatsComputed, Graph!StatsAnswer, Graph!StatsFail
<1>6. CASE Graph!CountChanges
  <2>1. Append(s13, s12 + 1) \in Seq(Nat) /\ s12 + 1 \in Nat
    OBVIOUS
  <2>2. s13' \in Seq(Nat) /\ s12' \in Nat
    BY <1>6, <2>1 DEF Graph!CountChanges
  <2> QED BY <1>6, <2>2 DEF Graph!CountChanges
<1>7. CASE Graph!Connect \/ Graph!ConnectionLost \/ Graph!OnVisibilityChange
  <2>1. s16' \in [live : Nat \cup {Nil}] \cup {Nil}
    BY <1>7 DEF Graph!Connect, Graph!ConnectionLost, Graph!OnVisibilityChange, Graph!Asking
  <2>2. s13' = s13 \/ s13' = <<>>
    BY <1>7, Zenon DEF Graph!Connect, Graph!ConnectionLost, Graph!OnVisibilityChange
  <2>3. s13' \in Seq(Nat)
    BY <2>2, EmptySeq
  <2>4. s1' = s1 /\ s2' = s2 /\ s10' = s10 /\ s12' = s12
    BY <1>7 DEF Graph!Connect, Graph!ConnectionLost, Graph!OnVisibilityChange
  <2> QED BY <2>1, <2>3, <2>4
<1>8. CASE Graph!Receive
  <2>1. s13 # <<>> /\ s13' = Tail(s13) /\ s2' = [s2 EXCEPT !.live = Head(s13)]
    BY <1>8 DEF Graph!Receive, Graph!ApplyLive
  <2>2. s13' \in Seq(Nat) /\ Head(s13) \in Nat
    BY <2>1
  <2> DEFINE n == Head(s13)
  <2>3. s2' = [s2 EXCEPT !.live = n] /\ n \in Nat
    BY <2>1, <2>2
  <2> HIDE DEF n
  <2>4. s1' = s1 /\ s10' = s10 /\ s12' = s12 /\ s16' = s16
    BY <1>8 DEF Graph!Receive
  <2> QED BY <2>2, <2>3, <2>4
<1>9. CASE Graph!ResyncComputed \/ Graph!ResyncAnswer \/ Graph!ResyncFails
  BY <1>9 DEF Graph!ResyncComputed, Graph!ResyncAnswer, Graph!ResyncFails, Graph!ApplyLive
<1> QED BY <1>1, <1>2, <1>3, <1>4, <1>5, <1>6, <1>7, <1>8, <1>9 DEF Graph!Next

LEMMA GraphStep ==
    ASSUME Graph!Inductive, Graph!Next
    PROVE  Graph!Inductive'
<1>1. /\ Graph!Drawn /\ s1 \in Queries /\ s2 \in Graph!Answers
      /\ s10 # Nil => s10.of \in Queries
  BY DEF Graph!Inductive, Graph!TypeOK, Graph!Answers
<1>2. s2.of \in Queries
  BY <1>1 DEF Graph!Answers
<1>3. Graph!TypeOK'
  BY GraphTypes DEF Graph!Inductive
<1>4. Graph!Drawn'
  <2>1. ASSUME NEW q \in Queries, Graph!ChangeQuery(q) PROVE Graph!Drawn'
    BY <1>1, <1>2, <2>1, GraphRenders DEF Graph!ChangeQuery
  <2>2. ASSUME NEW m \in Graph!Metrics, Graph!ChangeMetric(m) PROVE Graph!Drawn'
    BY <1>1, <1>2, <2>2, GraphRenders DEF Graph!ChangeMetric
  <2>3. ASSUME NEW i \in Graph!Units, Graph!ChangeInterval(i) PROVE Graph!Drawn'
    BY <1>1, <1>2, <2>3, GraphRenders DEF Graph!ChangeInterval
  <2>4. CASE Graph!GraphSettles
    <3>1. Graph!Shown' = Graph!Shown
      BY <2>4 DEF Graph!GraphSettles, Graph!GraphAnswer, Graph!GraphFails, Graph!Shown,
                  Graph!EffectiveInterval, Graph!PreferredInterval, Graph!EffectiveMetric,
                  Graph!PreferredMetric
    <3> QED BY <1>1, <2>4, <3>1
            DEF Graph!GraphSettles, Graph!GraphAnswer, Graph!GraphFails, Graph!Drawn
  <2>5. CASE Graph!StatsAnswer
    BY <1>1, <1>2, <2>5, GraphRenders DEF Graph!StatsAnswer
  <2>6. CASE Graph!StatsComputed \/ Graph!StatsFail \/ Graph!CountChanges \/ Graph!Connect
             \/ Graph!ConnectionLost \/ Graph!OnVisibilityChange \/ Graph!ResyncComputed
             \/ Graph!ResyncFails
    BY <1>1, <2>6, GraphStays
       DEF Graph!StatsComputed, Graph!StatsFail, Graph!CountChanges, Graph!Connect,
           Graph!ConnectionLost, Graph!OnVisibilityChange, Graph!ResyncComputed,
           Graph!ResyncFails, Graph!graphVars
  <2>7. CASE Graph!Receive \/ Graph!ResyncAnswer
    <3>1. s2'.of = s2.of
      BY <1>1, <2>7 DEF Graph!Receive, Graph!ResyncAnswer, Graph!ApplyLive, Graph!Answers
    <3> QED BY <1>1, <2>7, <3>1, GraphStays DEF Graph!Receive, Graph!ResyncAnswer, Graph!graphVars
  <2> QED BY <2>1, <2>2, <2>3, <2>4, <2>5, <2>6, <2>7 DEF Graph!Next, Graph!StatsSettle
<1> QED BY <1>3, <1>4 DEF Graph!Inductive

LEMMA GraphStart ==
    ASSUME Graph!Init
    PROVE  Graph!Inductive
<1>1. Graph!TypeOK
  BY DEF Graph!Init, Graph!TypeOK, Graph!Answers
<1>2. Graph!Shown # Nil
  <2>1. s1 \in Queries /\ s2.of \in Queries
    BY <1>1 DEF Graph!TypeOK, Graph!Answers
  <2> QED BY <2>1, GraphAsksSome DEF Graph!Shown
<1>3. Graph!Drawn
  BY <1>2 DEF Graph!Init, Graph!Drawn
<1> QED BY <1>1, <1>3 DEF Graph!Inductive

-----------------------------------------------------------------------------
(* The details dialog.                                                         *)

\* The first page is asked of a report and by a column that there are.
LEMMA FetchTypes ==
    ASSUME Details!FetchedTypes, NEW isOpen \in BOOLEAN, NEW sc \in Scopes, NEW text \in Texts,
           NEW by \in Details!Sorts, NEW n \in Nat, NEW busy \in BOOLEAN,
           Details!Fetch(isOpen, sc, text, by, n, busy, s13)
    PROVE  Details!FetchedTypes'
<1> DEFINE Firsts == [of : Scopes, search : Texts, sort : Details!Sorts, page : {1}, heard : BOOLEAN]
<1>1. Details!AskedFirst(sc, text, by) \in Firsts
  BY DEF Details!AskedFirst
<1>2. Details!Ignored(s11) \subseteq Firsts /\ s11 \subseteq Firsts
  <2>1. \A a \in Firsts : [a EXCEPT !.heard = FALSE] \in Firsts
    OBVIOUS
  <2> QED BY <2>1 DEF Details!Ignored, Details!FetchedTypes
<1>3. s11' \subseteq Firsts
  BY <1>1, <1>2 DEF Details!Fetch
<1>4. s10' \in BOOLEAN /\ s13' \in BOOLEAN
  BY Zenon DEF Details!Fetch
<1>5. s8' \in Nat
  BY DEF Details!Fetch
<1> QED BY <1>3, <1>4, <1>5 DEF Details!Fetch, Details!FetchedTypes

\* What is asked anew is the only thing listened to; without it, nothing has changed that would ask.
LEMMA FetchListens ==
    ASSUME Details!FetchedTypes, Details!Listens, Details!FirstPageShown,
           NEW isOpen \in BOOLEAN, NEW sc \in Scopes, NEW text \in Texts,
           NEW by \in Details!Sorts, NEW n \in Nat, NEW busy \in BOOLEAN,
           Details!Fetch(isOpen, sc, text, by, n, busy, s13), isOpen => s7' = s7
    PROVE  Details!Listens' /\ Details!FirstPageShown'
<1> DEFINE new == Details!AskedFirst(sc, text, by)
<1>1. CASE <<isOpen, sc, text, by>> # <<s1, s2, s4, s6>>
  <2>1. \A a \in Details!Ignored(s11) : ~a.heard
    BY DEF Details!Ignored, Details!FetchedTypes
  <2>2. CASE isOpen
    <3>1. s11' = Details!Ignored(s11) \cup {new} /\ s1' = TRUE /\ s2' = sc /\ s4' = text /\ s6' = by
      BY <1>1, <2>2 DEF Details!Fetch
    <3>2. new.heard /\ Details!Content(new) = Details!Asked(sc, text, by, 1)
      BY DEF Details!AskedFirst, Details!Content, Details!Asked
    <3>3. Details!Awaited' = {new}
      BY <2>1, <3>1, <3>2 DEF Details!Awaited
    <3>4. Details!Wanted' = Details!Asked(sc, text, by, 1)
      BY <3>1 DEF Details!Wanted, Details!Asked
    <3> QED BY <3>1, <3>2, <3>3, <3>4 DEF Details!Listens, Details!FirstPageShown, Details!Content
  <2>3. CASE ~isOpen
    <3>1. s11' = Details!Ignored(s11) /\ s1' = FALSE
      BY <1>1, <2>3 DEF Details!Fetch
    <3>2. Details!Awaited' = {}
      BY <2>1, <3>1 DEF Details!Awaited
    <3> QED BY <3>1, <3>2 DEF Details!Listens, Details!FirstPageShown
  <2> QED BY <2>2, <2>3
<1>2. CASE <<isOpen, sc, text, by>> = <<s1, s2, s4, s6>>
  <2>1. s1' = s1 /\ s2' = s2 /\ s4' = s4 /\ s6' = s6 /\ s11' = s11 /\ (s13' <=> s13)
    BY <1>2 DEF Details!Fetch
  <2>2. s1 => s7' = s7
    BY <1>2
  <2> QED BY <2>1, <2>2
          DEF Details!Listens, Details!FirstPageShown, Details!Awaited, Details!Wanted,
              Details!Begins, Details!Content, Details!Asked
<1> QED BY <1>1, <1>2

\* A column that is given up gives way to one there is (SortAfter).
LEMMA SortAfterIsSort ==
    ASSUME s6 \in Details!Sorts, NEW sc \in Scopes
    PROVE  Details!SortAfter(sc) \in Details!Sorts
<1>1. \A m \in MetricsOf[sc] : m \in Details!Keys
  BY DEF Details!Keys
<1>2. "name" \in Details!Keys
  BY DEF Details!Keys
<1> QED BY <1>1, <1>2 DEF Details!SortAfter, Details!Sorts

LEMMA DetailsAsks ==
    ASSUME Details!Inductive,
           \/ Details!Open \/ Details!Leave \/ Details!Close \/ Details!TimerFires
           \/ \E sc \in Scopes : Details!ChangeScope(sc)
           \/ \E key \in Details!Keys : Details!ToggleSort(key)
    PROVE  Details!Inductive'
<1>1. /\ Details!FetchedTypes /\ Details!OtherTypes /\ Details!Listens /\ Details!FirstPageShown
      /\ s1 \in BOOLEAN /\ s2 \in Scopes /\ s3 \in Texts /\ s4 \in Texts /\ s6 \in Details!Sorts
      /\ s8 \in Nat /\ s9 \in BOOLEAN /\ s10 \in BOOLEAN /\ s14 \in Nat
      /\ s5 \in Texts \cup {Details!Silent}
  BY DEF Details!Inductive, Details!TypeOK, Details!FetchedTypes, Details!OtherTypes
<1>2. "" \in Texts
  BY DashboardAssumption DEF Details!DetailsAssumption
<1>3. CASE Details!Open
  <2>1. Details!Fetch(TRUE, s2, s4, s6, s8, s10, s13) /\ s7' = s7
    BY <1>3 DEF Details!Open
  <2>2. Details!FetchedTypes'
    BY <1>1, <2>1, FetchTypes
  <2>3. Details!OtherTypes'
    BY <1>1, <1>3, <2>1 DEF Details!Open, Details!Move, Details!OtherTypes
  <2> QED BY <1>1, <2>1, <2>2, <2>3, FetchListens DEF Details!Inductive, Details!TypeOK
<1>4. CASE Details!Leave
  <2>1. Details!Fetch(FALSE, s2, s4, s6, s8, s10, s13) /\ s7' = s7
    BY <1>4 DEF Details!Leave
  <2>2. Details!FetchedTypes'
    BY <1>1, <2>1, FetchTypes
  <2>3. Details!OtherTypes'
    BY <1>1, <1>4, <2>1 DEF Details!Leave, Details!Move, Details!OtherTypes
  <2> QED BY <1>1, <2>1, <2>2, <2>3, FetchListens DEF Details!Inductive, Details!TypeOK
<1>5. CASE Details!Close
  <2>1. Details!Fetch(FALSE, s2, "", s6, 1, s10, s13) /\ s7' = <<>>
    BY <1>5 DEF Details!Close
  <2>2. Details!FetchedTypes'
    BY <1>1, <1>2, <2>1, FetchTypes
  <2>3. Details!OtherTypes'
    <3>1. s7' \in Seq(Details!Answers) /\ s9' \in BOOLEAN
      BY <1>5, <2>1, EmptySeq DEF Details!Close
    <3>2. s3' \in Texts
      BY <1>2, <1>5, Zenon DEF Details!Close
    <3>3. s5' = s5 /\ s12' = s12 /\ s14' = s14 + 1
      BY <1>5 DEF Details!Close, Details!Move
    <3> QED BY <1>1, <3>1, <3>2, <3>3 DEF Details!OtherTypes
  <2> QED BY <1>1, <1>2, <2>1, <2>2, <2>3, FetchListens DEF Details!Inductive, Details!TypeOK
<1>6. CASE Details!TimerFires
  <2>1. Details!Fetch(s1, s2, s5, s6, 1, s10, s13) /\ s7' = s7 /\ s5 \in Texts
    BY <1>1, <1>6 DEF Details!TimerFires
  <2>2. Details!FetchedTypes'
    BY <1>1, <2>1, FetchTypes
  <2>3. Details!OtherTypes'
    BY <1>1, <1>6, <2>1 DEF Details!TimerFires, Details!OtherTypes
  <2> QED BY <1>1, <2>1, <2>2, <2>3, FetchListens DEF Details!Inductive, Details!TypeOK
<1>7. ASSUME NEW sc \in Scopes, Details!ChangeScope(sc) PROVE Details!Inductive'
  <2>1. Details!Fetch(s1, sc, s4, s6, s8, s10, s13) /\ s7' = s7
    BY <1>7 DEF Details!ChangeScope
  <2>2. Details!FetchedTypes'
    BY <1>1, <2>1, FetchTypes
  <2>3. Details!OtherTypes'
    BY <1>1, <1>7, <2>1 DEF Details!ChangeScope, Details!Move, Details!OtherTypes
  <2> QED BY <1>1, <2>1, <2>2, <2>3, FetchListens DEF Details!Inductive, Details!TypeOK
<1>8. ASSUME NEW key \in Details!Keys, Details!ToggleSort(key) PROVE Details!Inductive'
  <2>1. PICK by \in Details!Sorts : Details!Fetch(s1, s2, s4, by, s8, s10, s13) /\ s7' = s7
    <3> DEFINE chosen == IF key # s6.key THEN [key |-> key, direction |-> Details!Direction(key)]
                         ELSE [key |-> key, direction |-> IF s6.direction = "asc" THEN "desc" ELSE "asc"]
    <3>1. chosen \in Details!Sorts
      BY DEF Details!Sorts, Details!Direction
    <3>2. Details!Fetch(s1, s2, s4, chosen, s8, s10, s13) /\ s7' = s7
      BY <1>8 DEF Details!ToggleSort
    <3> QED BY <3>1, <3>2
  <2>2. Details!FetchedTypes'
    BY <1>1, <2>1, FetchTypes
  <2>3. Details!OtherTypes'
    BY <1>1, <1>8, <2>1 DEF Details!ToggleSort, Details!Move, Details!OtherTypes
  <2> QED BY <1>1, <2>1, <2>2, <2>3, FetchListens DEF Details!Inductive, Details!TypeOK
<1> QED BY <1>3, <1>4, <1>5, <1>6, <1>7, <1>8

LEMMA DetailsGoesOn ==
    ASSUME Details!Inductive,
           Details!LoadMore \/ \E text \in Texts : Details!Type(text)
    PROVE  Details!Inductive'
<1>1. /\ Details!FetchedTypes /\ Details!OtherTypes /\ Details!Listens /\ Details!FirstPageShown
      /\ s2 \in Scopes /\ s4 \in Texts /\ s6 \in Details!Sorts /\ s8 + 1 \in Nat /\ s14 \in Nat
  BY DEF Details!Inductive, Details!TypeOK, Details!FetchedTypes, Details!OtherTypes
<1>2. UNCHANGED <<s1, s2, s4, s6, s7, s8, s11, s13>>
  BY DEF Details!LoadMore, Details!Type
<1>3. s10' \in BOOLEAN
  BY <1>1, Zenon DEF Details!LoadMore, Details!Type, Details!FetchedTypes
<1>4. Details!FetchedTypes'
  BY <1>1, <1>2, <1>3 DEF Details!FetchedTypes
<1>5. Details!OtherTypes'
  <2>1. ASSUME NEW text \in Texts, Details!Type(text) PROVE Details!OtherTypes'
    BY <1>1, <2>1 DEF Details!Type, Details!Move, Details!OtherTypes
  <2>2. CASE Details!LoadMore
    <3>1. Details!Asked(s2, s4, s6, s8 + 1) \in Details!Answers
      BY <1>1 DEF Details!Asked, Details!Answers
    <3> QED BY <1>1, <2>2, <3>1 DEF Details!LoadMore, Details!Move, Details!OtherTypes
  <2> QED BY <2>1, <2>2
<1>6. Details!Listens' /\ Details!FirstPageShown'
  BY <1>1, <1>2 DEF Details!Listens, Details!FirstPageShown, Details!Awaited, Details!Wanted,
                    Details!Begins, Details!Content, Details!Asked
<1> QED BY <1>4, <1>5, <1>6 DEF Details!Inductive, Details!TypeOK

\* An answer that is listened to is the only one, and is the first page the dialog asks for; when the
\* column it was sorted by is given up, another is asked at once (loadInitial).
LEMMA FirstAnswered ==
    ASSUME Details!Inductive, NEW a \in s11, NEW others \in BOOLEAN,
           Details!FirstAnswer(a, others)
    PROVE  Details!Inductive'
<1>1. /\ Details!FetchedTypes /\ Details!OtherTypes /\ Details!Listens /\ Details!FirstPageShown
      /\ s2 \in Scopes /\ s4 \in Texts /\ s6 \in Details!Sorts /\ s8 \in Nat
      /\ a \in [of : Scopes, search : Texts, sort : Details!Sorts, page : {1}, heard : BOOLEAN]
      /\ s11 \subseteq [of : Scopes, search : Texts, sort : Details!Sorts, page : {1}, heard : BOOLEAN]
  BY DEF Details!Inductive, Details!TypeOK, Details!FetchedTypes, Details!OtherTypes
<1>2. CASE ~a.heard
  <2>1. s11' = s11 \ {a} /\ UNCHANGED <<s1, s2, s3, s4, s5, s6, s7, s8, s9, s10, s12, s13, s14>>
    BY <1>2 DEF Details!FirstAnswer
  <2>2. Details!Awaited' = Details!Awaited
    BY <1>2, <2>1 DEF Details!Awaited
  <2>3. Details!FetchedTypes' /\ Details!OtherTypes'
    BY <1>1, <2>1 DEF Details!FetchedTypes, Details!OtherTypes
  <2>4. Details!Listens' /\ Details!FirstPageShown'
    BY <1>1, <2>1, <2>2 DEF Details!Listens, Details!FirstPageShown, Details!Wanted, Details!Begins,
                            Details!Content, Details!Asked
  <2> QED BY <2>3, <2>4 DEF Details!Inductive, Details!TypeOK
<1>3. CASE a.heard
  <2> DEFINE by == Details!SortAfter(a.of)
             new == Details!AskedFirst(s2, s4, by)
  <2>1. /\ s7' = <<Details!Content(a)>> /\ s9' = others /\ s6' = by /\ s13' = FALSE
        /\ s8' = (IF by # s6 THEN 1 ELSE s8) /\ (s10' <=> by # s6)
        /\ s11' = (s11 \ {a}) \cup IF by # s6 THEN {new} ELSE {}
        /\ UNCHANGED <<s1, s2, s3, s4, s5, s12, s14>>
    BY <1>3 DEF Details!FirstAnswer
  <2>2. by \in Details!Sorts
    BY <1>1, SortAfterIsSort
  <2>3. Details!Content(a) = Details!Wanted /\ s1
    BY <1>3 DEF Details!Inductive, Details!Listens, Details!Awaited
  <2>4. \A b \in s11 \ {a} : ~b.heard
    <3>1. ASSUME NEW b \in s11, b.heard PROVE b = a
      <4>1. Details!Content(b) = Details!Content(a)
        BY <1>1, <2>3, <3>1 DEF Details!Listens, Details!Awaited
      <4> QED BY <1>1, <1>3, <3>1, <4>1 DEF Details!Content, Details!Asked
    <3> QED BY <3>1
  <2>5. Details!FetchedTypes'
    <3>1. new \in [of : Scopes, search : Texts, sort : Details!Sorts, page : {1}, heard : BOOLEAN]
      BY <1>1, <2>2 DEF Details!AskedFirst
    <3>2. s10' \in BOOLEAN
      BY <1>3, Zenon DEF Details!FirstAnswer
    <3> QED BY <1>1, <2>1, <2>2, <3>1, <3>2 DEF Details!FetchedTypes
  <2>6. Details!OtherTypes'
    <3>1. Details!Content(a) \in Details!Answers
      BY <1>1 DEF Details!Content, Details!Asked, Details!Answers
    <3> QED BY <1>1, <2>1, <3>1 DEF Details!OtherTypes
  <2>7. CASE by # s6
    <3>1. new.heard /\ Details!Content(new) = Details!Asked(s2, s4, by, 1)
      BY DEF Details!AskedFirst, Details!Content, Details!Asked
    <3>2. Details!Awaited' = {new} /\ Details!Wanted' = Details!Asked(s2, s4, by, 1) /\ s1'
      BY <2>1, <2>3, <2>4, <2>7, <3>1 DEF Details!Awaited, Details!Wanted, Details!Asked
    <3>3. Details!Listens' /\ Details!FirstPageShown'
      BY <3>1, <3>2 DEF Details!Listens, Details!FirstPageShown, Details!Content
    <3> QED BY <2>5, <2>6, <3>3 DEF Details!Inductive, Details!TypeOK
  <2>8. CASE by = s6
    <3>1. Details!Awaited' = {} /\ Details!Wanted' = Details!Wanted
      BY <2>1, <2>4, <2>8 DEF Details!Awaited, Details!Wanted, Details!Asked
    <3>2. Details!Begins'
      BY <2>1, <2>3, <3>1 DEF Details!Begins
    <3>3. Details!Listens' /\ Details!FirstPageShown'
      BY <3>1, <3>2 DEF Details!Listens, Details!FirstPageShown
    <3> QED BY <2>5, <2>6, <3>3 DEF Details!Inductive, Details!TypeOK
  <2> QED BY <2>7, <2>8
<1> QED BY <1>2, <1>3

LEMMA DetailsAnswered ==
    ASSUME Details!Inductive,
           \/ \E a \in s11 : Details!FirstFails(a)
           \/ \E a \in s12 : Details!MoreFails(a)
           \/ \E a \in s12, others \in BOOLEAN : Details!MoreAnswer(a, others)
    PROVE  Details!Inductive'
<1>1. /\ Details!FetchedTypes /\ Details!OtherTypes /\ Details!Listens /\ Details!FirstPageShown
      /\ s12 \subseteq Details!Answers /\ s7 \in Seq(Details!Answers)
  BY DEF Details!Inductive, Details!TypeOK, Details!OtherTypes
<1>2. ASSUME NEW a \in s11, Details!FirstFails(a) PROVE Details!Inductive'
  <2>1. s11' = s11 \ {a} /\ UNCHANGED <<s1, s2, s3, s4, s5, s6, s7, s8, s9, s12, s14>>
    BY <1>2 DEF Details!FirstFails
  <2>2. s10' \in BOOLEAN /\ s13' \in BOOLEAN
    BY <1>1, <1>2, Zenon DEF Details!FirstFails
  <2>3. Details!FetchedTypes' /\ Details!OtherTypes'
    BY <1>1, <2>1, <2>2 DEF Details!FetchedTypes, Details!OtherTypes
  <2>4. (s13' <=> s13 \/ a.heard) /\ Details!Awaited' = Details!Awaited \ {a}
    BY <1>2, <2>1 DEF Details!FirstFails, Details!Awaited
  <2>5. ~s13' => Details!Awaited' = Details!Awaited /\ ~s13
    BY <2>4 DEF Details!Awaited
  <2>6. Details!Listens' /\ Details!FirstPageShown'
    BY <1>1, <2>1, <2>4, <2>5 DEF Details!Listens, Details!FirstPageShown, Details!Wanted,
                                  Details!Begins, Details!Content, Details!Asked
  <2> QED BY <2>3, <2>6 DEF Details!Inductive, Details!TypeOK
<1>3. ASSUME NEW a \in s12, Details!MoreFails(a) PROVE Details!Inductive'
  <2>1. s12' \subseteq s12 /\ s10' = FALSE
        /\ UNCHANGED <<s1, s2, s3, s4, s5, s6, s7, s8, s9, s11, s13, s14>>
    BY <1>3 DEF Details!MoreFails
  <2>2. Details!FetchedTypes' /\ Details!OtherTypes'
    BY <1>1, <2>1 DEF Details!FetchedTypes, Details!OtherTypes
  <2>3. Details!Listens' /\ Details!FirstPageShown'
    BY <1>1, <2>1 DEF Details!Listens, Details!FirstPageShown, Details!Awaited, Details!Wanted,
                      Details!Begins, Details!Content, Details!Asked
  <2> QED BY <2>2, <2>3 DEF Details!Inductive, Details!TypeOK
<1>4. ASSUME NEW a \in s12, NEW others \in BOOLEAN, Details!MoreAnswer(a, others)
      PROVE  Details!Inductive'
  <2>1. /\ s12' \subseteq s12 /\ s10' = FALSE /\ s7' = Append(s7, a) /\ s9' = others /\ s8' = a.page
        /\ UNCHANGED <<s1, s2, s3, s4, s5, s6, s11, s13, s14>>
    BY <1>4 DEF Details!MoreAnswer
  <2>2. a \in Details!Answers /\ a.page \in Nat
    BY <1>1 DEF Details!Answers
  <2>3. s7' \in Seq(Details!Answers) /\ (s7 # <<>> => s7' # <<>> /\ s7'[1] = s7[1])
    BY <1>1, <2>1, <2>2
  <2>4. Details!FetchedTypes' /\ Details!OtherTypes'
    BY <1>1, <2>1, <2>2, <2>3 DEF Details!FetchedTypes, Details!OtherTypes
  <2>5. Details!Listens' /\ Details!FirstPageShown'
    BY <1>1, <2>1, <2>3 DEF Details!Listens, Details!FirstPageShown, Details!Awaited, Details!Wanted,
                            Details!Begins, Details!Content, Details!Asked
  <2> QED BY <2>4, <2>5 DEF Details!Inductive, Details!TypeOK
<1> QED BY <1>2, <1>3, <1>4

LEMMA DetailsStart ==
    ASSUME Details!Init
    PROVE  Details!Inductive
<1>1. /\ s1 = FALSE /\ s2 \in Scopes /\ s3 = "" /\ s4 = "" /\ s5 = Details!Silent /\ s7 = <<>> /\ s8 = 1
      /\ s9 = FALSE /\ s10 = FALSE /\ s11 = {} /\ s12 = {} /\ s13 = FALSE /\ s14 = 0
      /\ s6 = [key |-> DefaultSort, direction |-> Details!Direction(DefaultSort)]
  BY DEF Details!Init
<1>2. s6 \in Details!Sorts /\ "" \in Texts
  BY <1>1, DashboardAssumption DEF Details!Sorts, Details!Direction, Details!DetailsAssumption
<1>3. s7 \in Seq(Details!Answers)
  BY <1>1, EmptySeq
<1> QED BY <1>1, <1>2, <1>3
        DEF Details!Inductive, Details!TypeOK, Details!FetchedTypes, Details!OtherTypes,
            Details!Listens, Details!FirstPageShown, Details!Awaited

LEMMA DetailsStep ==
    ASSUME Details!Inductive, Details!Next
    PROVE  Details!Inductive'
BY DetailsAsks, DetailsGoesOn, FirstAnswered, DetailsAnswered DEF Details!Next, Details!Settle

-----------------------------------------------------------------------------
(* The journey sheet.                                                          *)

\* Aborting a request changes neither its number nor what it asks for.
LEMMA AbortedRequests ==
    ASSUME s11 \subseteq Journey!Requests, Journey!Numbered, NEW ids
    PROVE  /\ Journey!Aborted(s11, ids) \subseteq Journey!Requests
           /\ \A x \in Journey!Aborted(s11, ids) : \E r \in s11 : x.id = r.id
           /\ \A x, y \in Journey!Aborted(s11, ids) : x.id = y.id => x = y
<1> DEFINE f(r) == IF r.id \in ids THEN [r EXCEPT !.aborted = TRUE] ELSE r
<1>1. \A r \in Journey!Requests : f(r) \in Journey!Requests /\ f(r).id = r.id
  BY DEF Journey!Requests
<1>2. Journey!Aborted(s11, ids) = {f(r) : r \in s11}
  BY DEF Journey!Aborted
<1>3. \A x \in {f(r) : r \in s11} : \E r \in s11 : x = f(r)
  OBVIOUS
<1>4. \A r \in s11 : f(r) \in Journey!Requests /\ f(r).id = r.id
  BY <1>1
<1> HIDE DEF f
<1>5. ASSUME NEW x \in {f(r) : r \in s11}, NEW y \in {f(r) : r \in s11}, x.id = y.id PROVE x = y
  <2>1. PICK r \in s11 : x = f(r)
    BY <1>3
  <2>2. PICK t \in s11 : y = f(t)
    BY <1>3
  <2>3. r.id = t.id
    BY <1>4, <1>5, <2>1, <2>2
  <2> QED BY <2>1, <2>2, <2>3 DEF Journey!Numbered
<1> QED BY <1>2, <1>3, <1>4, <1>5

LEMMA JourneyStays ==
    ASSUME Journey!Inductive, UNCHANGED <<s1, s2, s3, s7, s8, s9, s10, s11, s12, s13, s17, s19>>
    PROVE  Journey!Inductive'
BY DEF Journey!Inductive, Journey!TypeOK, Journey!Numbered, Journey!Pending, Journey!Heard,
       Journey!GoesOn, Journey!Scope, Journey!FirstPages, Journey!SessionsAreOfDay

\* The effect of the sessions asks under a new number, which is then the only one listened to; that
\* of the journey alone leaves the first page under way, or a list that nobody asked for.
LEMMA JourneyRenders ==
    ASSUME Journey!Inductive, NEW isOpen \in BOOLEAN, NEW p \in Profiles \cup {Nil},
           NEW q \in Queries, NEW d \in HeatmapDays \cup {Nil}, Journey!Render(isOpen, p, q, d)
    PROVE  Journey!Inductive'
<1> DEFINE resets == <<isOpen, p, q>> # <<s1, s2, s19>> /\ isOpen
           chosen == IF resets THEN Nil ELSE d
           runs == Journey!Deps(isOpen, p, chosen) # Journey!Deps(s1, s2, s3)
           new == [of |-> Journey!Scope(p, chosen), page |-> 1, more |-> FALSE, id |-> s12 + 1,
                   aborted |-> FALSE]
<1>1. /\ Journey!TypeOK /\ Journey!Numbered /\ s12 \in Nat /\ s11 \subseteq Journey!Requests
      /\ s9 \in BOOLEAN /\ s10 \in BOOLEAN /\ s17 \in BOOLEAN /\ s8 \in Nat \ {0}
  BY DEF Journey!Inductive, Journey!TypeOK
<1>2. chosen \in HeatmapDays \cup {Nil}
  OBVIOUS
<1>3. s1' = isOpen /\ s2' = p /\ s3' = chosen /\ s19' = q
  BY DEF Journey!Render
<1>4. CASE runs /\ isOpen
  <2>1. PICK n : n = new
    OBVIOUS
  <2>2. PICK ids : s11' = Journey!Aborted(s11, ids) \cup {n}
    BY <1>4, <2>1 DEF Journey!Render
  <2> DEFINE old == Journey!Aborted(s11, ids)
  <2>3. s12' = s12 + 1 /\ s13' = s12 + 1 /\ s7' = <<>> /\ s8' = 1 /\ s9' = FALSE
    BY <1>4 DEF Journey!Render
  <2>4. s10' = TRUE /\ s17' = FALSE
    BY <1>4, Zenon DEF Journey!Render
  <2>5. n \in Journey!Requests /\ n.id = s12 + 1
    BY <1>1, <1>2, <2>1 DEF Journey!Requests, Journey!Scope
  <2>6. /\ old \subseteq Journey!Requests /\ \A x \in old : x.id <= s12 /\ x.id \in Nat
        /\ \A x, y \in old : x.id = y.id => x = y
    BY <1>1, AbortedRequests DEF Journey!Numbered, Journey!Requests
  <2>7. ~n.aborted /\ ~n.more /\ n.page = 1 /\ n.of = Journey!Scope(p, chosen)
    BY <2>1
  <2>8. Journey!GoesOn(n)'
    BY <1>3, <2>3, <2>7 DEF Journey!GoesOn, Journey!Scope
  <2> HIDE DEF new, chosen, runs, old
  <2>9. Journey!Numbered'
    BY <1>1, <2>2, <2>3, <2>5, <2>6 DEF Journey!Numbered, old
  <2>10. Journey!Pending' = {n}
    BY <1>1, <2>2, <2>3, <2>5, <2>6 DEF Journey!Pending, Journey!Heard, old
  <2>11. Journey!TypeOK'
    <3>1. s11' \subseteq Journey!Requests
      BY <2>2, <2>5, <2>6 DEF old
    <3>2. s9' \in BOOLEAN /\ s10' \in BOOLEAN /\ s17' \in BOOLEAN
      BY <2>3, <2>4, Zenon
    <3>3. s12' \in Nat /\ s8' \in Nat \ {0}
      BY <1>1, <2>3
    <3>4. s1' \in BOOLEAN /\ s2' \in Profiles \cup {Nil} /\ s3' \in HeatmapDays \cup {Nil} /\ s19' \in Queries
      BY <1>2, <1>3
    <3> QED BY <3>1, <3>2, <3>3, <3>4 DEF Journey!TypeOK
  <2>12. Journey!SessionsAreOfDay' /\ \A r \in Journey!Pending' : Journey!GoesOn(r)'
    BY <2>8, <2>10 DEF Journey!SessionsAreOfDay
  <2> QED BY <2>4, <2>9, <2>11, <2>12 DEF Journey!Inductive
<1>5. CASE runs /\ ~isOpen
  <2>1. PICK ids : s11' = Journey!Aborted(s11, ids)
    BY <1>5 DEF Journey!Render
  <2>2. UNCHANGED <<s7, s8, s9, s12, s13>> /\ s1' = FALSE
    BY <1>5 DEF Journey!Render
  <2>3. (s10' <=> s10) /\ s10' \in BOOLEAN /\ s17' \in BOOLEAN
    BY <1>1, <1>5, Zenon DEF Journey!Render
  <2>4. Journey!Numbered'
    BY <1>1, <2>1, <2>2, AbortedRequests DEF Journey!Numbered
  <2>5. Journey!Pending = {} => Journey!Pending' = {}
    BY <1>1, <2>1, <2>2, AbortedRequests DEF Journey!Pending, Journey!Heard
  <2>6. Journey!TypeOK'
    BY <1>1, <1>2, <1>3, <2>1, <2>2, <2>3, AbortedRequests DEF Journey!TypeOK
  <2> QED BY <2>2, <2>3, <2>4, <2>5, <2>6 DEF Journey!Inductive, Journey!SessionsAreOfDay
<1>6. CASE ~runs /\ resets
  <2>1. isOpen = s1 /\ p = s2 /\ chosen = s3 /\ isOpen
    BY <1>6 DEF Journey!Deps
  <2>2. s11' = s11 /\ UNCHANGED <<s12, s13>> /\ s7' = <<>> /\ s8' = 1 /\ s9' = FALSE
    BY <1>6, <2>1 DEF Journey!Render
  <2>3. (s10' <=> s10) /\ s17' /\ s10' \in BOOLEAN /\ s17' \in BOOLEAN
    <3>1. s10' = ((runs /\ isOpen) \/ s10) /\ s17' = (~(runs /\ isOpen) /\ (s17 \/ resets))
      BY DEF Journey!Render
    <3> HIDE DEF runs, resets
    <3> QED BY <1>1, <1>6, <3>1, Zenon
  <2>4. Journey!Numbered' /\ Journey!Pending' = Journey!Pending
    BY <1>1, <2>2 DEF Journey!Numbered, Journey!Pending, Journey!Heard
  <2>5. Journey!TypeOK'
    <3> HIDE DEF chosen, resets, runs
    <3>1. /\ s1' \in BOOLEAN /\ s2' \in Profiles \cup {Nil} /\ s3' \in HeatmapDays \cup {Nil}
          /\ s19' \in Queries
      BY <1>2, <1>3
    <3>2. s8' \in Nat \ {0} /\ s11' \subseteq Journey!Requests /\ s12' \in Nat
      BY <1>1, <2>2
    <3>3. s9' \in BOOLEAN
      BY <2>2, Zenon
    <3> QED BY <2>3, <3>1, <3>2, <3>3, Zenon DEF Journey!TypeOK
  <2>6. ASSUME NEW r \in Journey!Pending', ~r.more PROVE Journey!GoesOn(r)'
    <3>1. Journey!GoesOn(r)
      BY <2>1, <2>4, <2>6 DEF Journey!Inductive
    <3> QED BY <1>3, <2>1, <2>2, <2>6, <3>1 DEF Journey!GoesOn, Journey!Scope
  <2>7. ~s10' => Journey!Pending' = {}
    BY <2>3, <2>4 DEF Journey!Inductive
  <2> QED BY <2>3, <2>4, <2>5, <2>6, <2>7 DEF Journey!Inductive, Journey!SessionsAreOfDay
<1>7. CASE ~runs /\ ~resets
  <2>1. isOpen = s1 /\ p = s2 /\ chosen = s3
    BY <1>7 DEF Journey!Deps
  <2>2. s11' = s11 /\ UNCHANGED <<s7, s8, s9, s12, s13>>
    BY <1>7, <2>1 DEF Journey!Render
  <2>3. (s10' <=> s10) /\ (s17' <=> s17) /\ s10' \in BOOLEAN /\ s17' \in BOOLEAN
    BY <1>1, <1>7, Zenon DEF Journey!Render
  <2>4. s10' = s10 /\ s17' = s17 /\ Journey!TypeOK'
    BY <1>1, <1>2, <1>3, <2>2, <2>3 DEF Journey!TypeOK
  <2> QED BY <1>3, <2>1, <2>2, <2>4
          DEF Journey!Inductive, Journey!Numbered, Journey!Pending, Journey!Heard, Journey!GoesOn,
              Journey!Scope, Journey!FirstPages, Journey!SessionsAreOfDay
<1> QED BY <1>4, <1>5, <1>6, <1>7

\* A page that goes on where the sessions end makes them one page longer.
LEMMA JourneyShown ==
    ASSUME Journey!TypeOK, NEW x, x = [of |-> Journey!Scope(s2, s3), page |-> s8 + 1],
           s7 = Journey!FirstPages(s8)
    PROVE  Append(s7, x) = Journey!FirstPages(s8 + 1)
<1> DEFINE at(m) == [of |-> Journey!Scope(s2, s3), page |-> m]
<1>1. s8 \in Nat /\ s7 = [m \in 1 .. s8 |-> at(m)] /\ x = at(s8 + 1)
  BY DEF Journey!TypeOK, Journey!FirstPages
<1>2. Journey!FirstPages(s8 + 1) = [m \in 1 .. s8 + 1 |-> at(m)]
  BY DEF Journey!FirstPages
<1> HIDE DEF at
<1> QED BY <1>1, <1>2

\* The next page is asked where the sessions end, when none is on its way.
LEMMA JourneyAsksMore ==
    ASSUME Journey!Inductive, Journey!LoadMoreSessions
    PROVE  Journey!Inductive'
<1>1. /\ Journey!TypeOK /\ Journey!Numbered /\ s12 \in Nat /\ s11 \subseteq Journey!Requests
      /\ s8 \in Nat \ {0} /\ s2 \in Profiles \cup {Nil} /\ s3 \in HeatmapDays \cup {Nil}
      /\ s9 \in BOOLEAN /\ s17 \in BOOLEAN /\ s19 \in Queries
  BY DEF Journey!Inductive, Journey!TypeOK
<1>2. PICK n : n = [of |-> Journey!Scope(s2, s3), page |-> s8 + 1, more |-> TRUE, id |-> s12 + 1,
                    aborted |-> FALSE]
  OBVIOUS
<1>3. PICK ids : s11' = Journey!Aborted(s11, ids) \cup {n}
  BY <1>2 DEF Journey!LoadMoreSessions
<1> DEFINE old == Journey!Aborted(s11, ids)
<1>4. s12' = s12 + 1 /\ s13' = s12 + 1 /\ UNCHANGED <<s1, s2, s3, s7, s8, s9, s17, s19>> /\ s1
  BY DEF Journey!LoadMoreSessions
<1>5. s10' = TRUE
  BY DEF Journey!LoadMoreSessions
<1>6. n \in Journey!Requests /\ n.id = s12 + 1
  BY <1>1, <1>2 DEF Journey!Requests, Journey!Scope
<1>7. /\ old \subseteq Journey!Requests /\ \A x \in old : x.id <= s12 /\ x.id \in Nat
      /\ \A x, y \in old : x.id = y.id => x = y
  BY <1>1, AbortedRequests DEF Journey!Numbered, Journey!Requests
<1>8. ~s17 => Journey!GoesOn(n)'
  <2>1. ~s17 => s7 = Journey!FirstPages(s8)
    BY <1>4 DEF Journey!LoadMoreSessions, Journey!Inductive, Journey!SessionsAreOfDay
  <2>2. ~s17 => s7' = Journey!FirstPages(s8)'
    BY <1>4, <2>1 DEF Journey!FirstPages, Journey!Scope
  <2> QED BY <1>2, <1>4, <2>2 DEF Journey!GoesOn, Journey!Scope
<1> HIDE DEF old
<1>9. Journey!Numbered'
  BY <1>1, <1>3, <1>4, <1>6, <1>7 DEF Journey!Numbered, old
<1>10. Journey!Pending' = {n}
  BY <1>1, <1>3, <1>4, <1>6, <1>7 DEF Journey!Pending, Journey!Heard, old
<1>11. Journey!TypeOK'
  <2>1. s11' \subseteq Journey!Requests
    BY <1>3, <1>6, <1>7 DEF old
  <2>2. s10' \in BOOLEAN
    BY <1>5, Zenon
  <2>3. s12' \in Nat
    BY <1>1, <1>4
  <2> QED BY <1>1, <1>4, <2>1, <2>2, <2>3 DEF Journey!TypeOK
<1>12. /\ Journey!SessionsAreOfDay'
       /\ s1' => \A r \in Journey!Pending' : (s17' /\ r.more) \/ Journey!GoesOn(r)'
  BY <1>1, <1>2, <1>4, <1>8, <1>10 DEF Journey!SessionsAreOfDay
<1> QED BY <1>5, <1>9, <1>11, <1>12 DEF Journey!Inductive

LEMMA JourneySettles ==
    ASSUME Journey!Inductive, NEW r \in s11,
           Journey!SessionsFail(r) \/ \E others \in BOOLEAN : Journey!SessionsAnswer(r, others)
    PROVE  Journey!Inductive'
<1>1. /\ Journey!TypeOK /\ Journey!Numbered /\ s12 \in Nat /\ s11 \subseteq Journey!Requests
      /\ s8 \in Nat \ {0} /\ s2 \in Profiles \cup {Nil} /\ s3 \in HeatmapDays \cup {Nil}
      /\ s9 \in BOOLEAN /\ s17 \in BOOLEAN /\ s10 \in BOOLEAN
  BY DEF Journey!Inductive, Journey!TypeOK
<1>2. s11' = s11 \ {r} /\ UNCHANGED <<s1, s2, s3, s12, s13, s19>>
  BY DEF Journey!SessionsFail, Journey!SessionsAnswer, Journey!Answered
<1>3. Journey!Numbered' /\ s11' \subseteq Journey!Requests
  BY <1>1, <1>2 DEF Journey!Numbered
<1>4. Journey!Pending' = Journey!Pending \ {r}
  BY <1>2 DEF Journey!Pending, Journey!Heard
<1>5. Journey!Heard(r) => Journey!Pending = {r}
  BY <1>1 DEF Journey!Pending, Journey!Heard, Journey!Numbered
<1>6. CASE Journey!SessionsFail(r)
  <2>1. UNCHANGED <<s7, s8, s9>> /\ (s17' <=> s17 \/ (Journey!Heard(r) /\ ~r.more))
        /\ (s10' <=> s10 /\ ~Journey!Heard(r))
    BY <1>6 DEF Journey!SessionsFail, Journey!Heard
  <2>2. s10' \in BOOLEAN /\ s17' \in BOOLEAN
    BY <1>1, <1>6, Zenon DEF Journey!SessionsFail
  <2>3. Journey!TypeOK'
    BY <1>1, <1>2, <1>3, <2>1, <2>2 DEF Journey!TypeOK
  <2>4. ~Journey!Heard(r) => Journey!Pending' = Journey!Pending
    BY <1>4 DEF Journey!Pending
  <2>5. \A x : Journey!GoesOn(x) => Journey!GoesOn(x)'
    BY <1>2, <2>1 DEF Journey!GoesOn, Journey!Scope, Journey!FirstPages
  <2>6. Journey!FirstPages(s8)' = Journey!FirstPages(s8)
    BY <1>2, <2>1 DEF Journey!FirstPages, Journey!Scope
  <2>7. s1 /\ ~s17 /\ Journey!Heard(r) /\ r.more => s7 = Journey!FirstPages(s8)
    BY <1>5 DEF Journey!Inductive, Journey!GoesOn
  <2>8. Journey!SessionsAreOfDay'
    BY <1>2, <1>4, <1>5, <2>1, <2>4, <2>6, <2>7 DEF Journey!Inductive, Journey!SessionsAreOfDay
  <2>9. s1' => \A x \in Journey!Pending' : (s17' /\ x.more) \/ Journey!GoesOn(x)'
    BY <1>2, <1>4, <2>1, <2>5 DEF Journey!Inductive
  <2>10. ~s10' => Journey!Pending' = {}
    BY <1>4, <1>5, <2>1, <2>4 DEF Journey!Inductive
  <2> QED BY <1>3, <2>3, <2>8, <2>9, <2>10 DEF Journey!Inductive
<1>7. ASSUME NEW others \in BOOLEAN, Journey!SessionsAnswer(r, others) PROVE Journey!Inductive'
  <2>1. CASE ~Journey!Heard(r)
    <3>1. UNCHANGED <<s7, s8, s9, s10, s17>>
      BY <1>7, <2>1 DEF Journey!SessionsAnswer
    <3>2. Journey!Pending' = Journey!Pending
      BY <1>4, <2>1 DEF Journey!Pending
    <3> QED BY <1>1, <1>2, <1>3, <3>1, <3>2
            DEF Journey!Inductive, Journey!TypeOK, Journey!SessionsAreOfDay, Journey!GoesOn,
                Journey!Scope, Journey!FirstPages
  <2>2. CASE Journey!Heard(r)
    <3> DEFINE x == [of |-> r.of, page |-> r.page]
    <3>1. /\ s7' = IF r.more THEN Append(s7, x) ELSE <<x>>
          /\ s8' = IF r.more THEN r.page ELSE s8
          /\ s9' = others /\ s10' = FALSE /\ (s17' <=> s17 /\ r.more)
      BY <1>7, <2>2 DEF Journey!SessionsAnswer
    <3>2. Journey!Pending' = {} /\ r \in Journey!Pending
      BY <1>4, <1>5, <2>2
    <3>3. Journey!TypeOK'
      <4>1. s8' \in Nat \ {0}
        BY <1>1, <3>1 DEF Journey!Requests
      <4>2. s9' \in BOOLEAN /\ s10' \in BOOLEAN /\ s17' \in BOOLEAN
        BY <1>7, <2>2, <3>1, Zenon DEF Journey!SessionsAnswer
      <4> QED BY <1>1, <1>2, <1>3, <3>1, <4>1, <4>2 DEF Journey!TypeOK
    <3>4. s1 /\ ~s17' => s7' = Journey!FirstPages(s8)'
      <4>1. SUFFICES ASSUME s1, ~s17' PROVE s7' = Journey!FirstPages(s8)'
        OBVIOUS
      <4>2. Journey!GoesOn(r)
        BY <3>1, <3>2, <4>1 DEF Journey!Inductive
      <4>3. CASE r.more
        <5>1. Append(s7, x) = Journey!FirstPages(s8 + 1) /\ s8' = s8 + 1
          BY <1>1, <3>1, <4>2, <4>3, JourneyShown DEF Journey!GoesOn
        <5> QED BY <1>2, <3>1, <4>3, <5>1 DEF Journey!FirstPages, Journey!Scope
      <4>4. CASE ~r.more
        <5>1. s8' = 1 /\ s7' = << [of |-> Journey!Scope(s2, s3), page |-> 1] >>
          BY <3>1, <4>2, <4>4 DEF Journey!GoesOn
        <5> QED BY <1>2, <5>1 DEF Journey!FirstPages, Journey!Scope
      <4> QED BY <4>3, <4>4
    <3> QED BY <1>2, <1>3, <3>1, <3>2, <3>3, <3>4 DEF Journey!Inductive, Journey!SessionsAreOfDay
  <2> QED BY <2>1, <2>2
<1> QED BY <1>6, <1>7

LEMMA JourneyStart ==
    ASSUME Journey!Init
    PROVE  Journey!Inductive
<1>1. /\ s1 = FALSE /\ s2 = Nil /\ s3 = Nil /\ s8 = 1 /\ s9 = FALSE /\ s10 = FALSE /\ s11 = {} /\ s12 = 0
      /\ s13 = 0 /\ s17 = FALSE /\ s19 \in Queries
  BY DEF Journey!Init
<1>2. s1 \in BOOLEAN /\ s9 \in BOOLEAN /\ s10 \in BOOLEAN /\ s17 \in BOOLEAN
  BY <1>1, Zenon
<1>3. s8 \in Nat \ {0} /\ s12 \in Nat
  BY <1>1
<1>4. Journey!TypeOK
  BY <1>1, <1>2, <1>3 DEF Journey!TypeOK
<1> QED BY <1>1, <1>4 DEF Journey!Inductive, Journey!Numbered, Journey!Pending,
                    Journey!SessionsAreOfDay

LEMMA JourneyStep ==
    ASSUME Journey!Inductive, Journey!Next
    PROVE  Journey!Inductive'
<1>1. s1 \in BOOLEAN /\ s2 \in Profiles \cup {Nil} /\ s3 \in HeatmapDays \cup {Nil} /\ s19 \in Queries
  BY DEF Journey!Inductive, Journey!TypeOK
<1>2. ASSUME NEW p \in Profiles, Journey!OpenProfile(p) PROVE Journey!Inductive'
  BY <1>1, <1>2, JourneyRenders DEF Journey!OpenProfile
<1>3. CASE Journey!Close
  BY <1>1, <1>3, JourneyRenders DEF Journey!Close
<1>4. ASSUME NEW d \in HeatmapDays \cup {Nil}, Journey!SelectDay(d) PROVE Journey!Inductive'
  BY <1>1, <1>4, JourneyRenders DEF Journey!SelectDay
<1>5. ASSUME NEW v, Journey!ToggleSession(v) PROVE Journey!Inductive'
  BY <1>5, JourneyStays DEF Journey!ToggleSession, Journey!sessionVars
<1>6. CASE Journey!JourneyAnswer \/ Journey!JourneyFails
  BY <1>6, JourneyStays DEF Journey!JourneyAnswer, Journey!JourneyFails, Journey!sessionVars
<1>7. ASSUME NEW a, NEW found, Journey!PayloadEnds(a, found) PROVE Journey!Inductive'
  BY <1>7, JourneyStays DEF Journey!PayloadEnds, Journey!sessionVars
<1>8. ASSUME NEW q \in Queries, Journey!ChangeQuery(q) PROVE Journey!Inductive'
  BY <1>1, <1>8, JourneyRenders DEF Journey!ChangeQuery
<1> QED BY <1>2, <1>3, <1>4, <1>5, <1>6, <1>7, <1>8, JourneyAsksMore, JourneySettles
        DEF Journey!Next, Journey!SessionsSettle

-----------------------------------------------------------------------------
(* What a fold computes.  A set of natural numbers has a least element, so what   *)
(* holds at 0 and goes from each number to the next holds up to n.                *)

LEMMA LeastNatural ==
    ASSUME NEW T, T \subseteq Nat, T # {}
    PROVE  \E n \in T : \A m \in T : n <= m
<1> DEFINE less == {p \in Nat \X Nat : p[1] < p[2]}
<1>1. IsWellFoundedOn(less, Nat)
  BY NatLessThanWellFounded, SMT DEF OpToRel
<1>2. \A m, n \in Nat : m < n => <<m, n>> \in less
  BY SMT
<1> HIDE DEF less
<1>3. PICK n \in T : \A m \in T : ~(<<m, n>> \in less)
  BY <1>1, WFMin
<1>4. \A m \in T : ~(m < n)
  BY <1>2, <1>3, Zenon
<1> QED BY <1>4, SMT

LEMMA UpTo ==
    ASSUME NEW n \in Nat, NEW T, 0 \in T, \A i \in 1..n : i - 1 \in T => i \in T
    PROVE  \A i \in 0..n : i \in T
<1> DEFINE missing == {i \in 0..n : i \notin T}
<1> SUFFICES ASSUME missing # {} PROVE FALSE
  OBVIOUS
<1>1. missing \subseteq Nat
  OBVIOUS
<1>2. PICK m \in missing : \A i \in missing : m <= i
  <2> HIDE DEF missing
  <2> QED BY <1>1, LeastNatural
<1>3. m \in 1..n /\ m - 1 \in 0..n /\ m - 1 \notin missing
  BY <1>2
<1> QED BY <1>2, <1>3

LEMMA MaxIn ==
    ASSUME NEW n \in Nat, NEW t, t \subseteq 1..n, t # {}
    PROVE  TopBar!Max(t) \in t /\ \A y \in t : TopBar!Max(t) >= y
<1> DEFINE above == {k \in Nat : \A y \in t : y <= k}
<1>1. n \in above
  OBVIOUS
<1>2. PICK k \in above : \A i \in above : k <= i
  BY <1>1, LeastNatural
<1>3. k \in t
  <2> SUFFICES ASSUME k \notin t PROVE FALSE
    OBVIOUS
  <2>0. PICK y \in t : y \in 1..n
    <3> HIDE DEF above
    <3> QED BY Zenon
  <2>1. k >= 1 /\ \A z \in t : z <= k - 1
    BY <1>2, <2>0
  <2>2. k - 1 \in above
    BY <2>1
  <2> QED BY <1>2, <2>2
<1>4. \A y \in t : k >= y
  BY <1>2
<1> HIDE DEF above
<1> QED BY <1>3, <1>4, Zenon DEF TopBar!Max

\* The segment 1..i has the greatest element i.
LEMMA MaxOfSegment ==
    ASSUME NEW n \in Nat, NEW i \in 1..n
    PROVE  /\ 1..i \in SUBSET (1..n) /\ 1..i # {} /\ TopBar!Max(1..i) = i
           /\ (1..i) \ {i} = 1..(i - 1)
<1>1. 1..i \in SUBSET (1..n) /\ 1..i # {} /\ (1..i) \ {i} = 1..(i - 1)
  OBVIOUS
<1>2. TopBar!Max(1..i) \in 1..i /\ \A y \in 1..i : TopBar!Max(1..i) >= y
  BY <1>1, MaxIn
<1> QED BY <1>1, <1>2

FoldTable(h, n, S, a, g) ==
  /\ h \in [SUBSET (1..n) -> S]
  /\ \A t \in SUBSET (1..n) :
       h[t] = IF t = {} THEN a ELSE g[<<TopBar!Max(t), h[t \ {TopBar!Max(t)}]>>]

\* A fold over the positions 1..n, whose step is g, is a function: what the definition of the
\* recursion chooses exists.
LEMMA FoldExists ==
    ASSUME NEW n \in Nat, NEW S, NEW a \in S, NEW g \in [(1..n) \X S -> S]
    PROVE  \E h : FoldTable(h, n, S, a, g)
<1> DEFINE Folds(h, m) == \A t \in SUBSET (1..m) :
             h[t] = IF t = {} THEN a ELSE g[<<TopBar!Max(t), h[t \ {TopBar!Max(t)}]>>]
           T == {m \in 0..n : \E h \in [SUBSET (1..m) -> S] : Folds(h, m)}
<1>1. 0 \in T
  <2> DEFINE h == [t \in SUBSET (1..0) |-> a]
  <2>1. Folds(h, 0) /\ h \in [SUBSET (1..0) -> S]
    OBVIOUS
  <2>2. \E w \in [SUBSET (1..0) -> S] : Folds(w, 0)
    <3> HIDE DEF h, Folds
    <3> QED BY <2>1, Zenon
  <2>3. 0 \in 0..n
    OBVIOUS
  <2> HIDE DEF h, Folds
  <2> QED BY <2>2, <2>3, Zenon
<1>2. ASSUME NEW m \in 1..n, m - 1 \in T PROVE m \in T
  <2>1. PICK h \in [SUBSET (1..(m - 1)) -> S] : Folds(h, m - 1)
    BY <1>2
  <2>0. ASSUME NEW t \in SUBSET (1..m), t # {}
        PROVE  TopBar!Max(t) \in t /\ \A y \in t : TopBar!Max(t) >= y
    <3>1. m \in Nat /\ t \subseteq 1..m
      OBVIOUS
    <3> HIDE DEF T, Folds
    <3> QED BY <2>0, <3>1, MaxIn
  <2> DEFINE k == [t \in SUBSET (1..m) |-> IF m \in t THEN g[<<m, h[t \ {m}]>>] ELSE h[t]]
  <2>2. \A t \in SUBSET (1..m) : t \ {m} \in SUBSET (1..(m - 1)) /\ (m \notin t => t \in SUBSET (1..(m - 1)))
    OBVIOUS
  <2>3. k \in [SUBSET (1..m) -> S]
    BY <2>2
  <2>4. ASSUME NEW t \in SUBSET (1..m)
        PROVE  k[t] = IF t = {} THEN a ELSE g[<<TopBar!Max(t), k[t \ {TopBar!Max(t)}]>>]
    <3>1. CASE m \in t
      <4>0. TopBar!Max(t) \in t /\ \A y \in t : TopBar!Max(t) >= y
        BY <2>0, <3>1, MaxIn
      <4>1. TopBar!Max(t) = m
        <5>1. t \subseteq 1..m /\ m \in t
          BY <3>1
        <5>2. \A x \in t : x \in 1..m
          BY <5>1
        <5>3. \A x \in 1..m : x >= m => x = m
          OBVIOUS
        <5> HIDE DEF T, Folds, k
        <5> QED BY <4>0, <5>1, <5>2, <5>3, Zenon
      <4>2. t \ {m} \in SUBSET (1..m) /\ m \notin t \ {m}
        OBVIOUS
      <4>3. k[t \ {m}] = h[t \ {m}]
        BY <4>2
      <4> QED BY <3>1, <4>1, <4>3
    <3>2. CASE m \notin t /\ t # {}
      <4>1. TopBar!Max(t) \in t
        BY <2>0, <3>2, MaxIn
      <4> DEFINE r == t \ {TopBar!Max(t)}
      <4>2. r \in SUBSET (1..m) /\ m \notin r
        BY <3>2
      <4>3. k[t] = h[t] /\ k[r] = h[r]
        BY <3>2, <4>2
      <4>4. h[t] = g[<<TopBar!Max(t), h[r]>>]
        BY <2>1, <2>2, <3>2
      <4> QED BY <3>2, <4>3, <4>4
    <3>3. CASE t = {}
      <4>1. h[{}] = a
        BY <2>1
      <4> QED BY <3>3, <4>1
    <3> QED BY <3>1, <3>2, <3>3
  <2>5. Folds(k, m)
    <3> HIDE DEF k
    <3> QED BY <2>4
  <2> HIDE DEF k, Folds
  <2> QED BY <2>3, <2>5
<1>3. n \in T
  <2> HIDE DEF T
  <2> QED BY <1>1, <1>2, UpTo
<1> QED BY <1>3 DEF FoldTable

\* Filtering a sequence, step by step.
LEMMA OnlyLoop ==
    ASSUME NEW X, NEW s \in Seq(X), NEW A
    PROVE  \E u : /\ u[0] = <<>> /\ TopBar!Only(s, A) = u[Len(s)]
                  /\ \A i \in 1..Len(s) : u[i] = IF s[i] \in A THEN Append(u[i - 1], s[i]) ELSE u[i - 1]
<1> DEFINE n == Len(s)
           Is(f) == f = [t \in SUBSET DOMAIN s |->
                      IF t = {} THEN <<>>
                      ELSE IF s[TopBar!Max(t)] \in A
                           THEN Append(f[t \ {TopBar!Max(t)}], s[TopBar!Max(t)])
                           ELSE f[t \ {TopBar!Max(t)}]]
           f == CHOOSE h : Is(h)
           g == [p \in (1..n) \X Seq(X) |-> IF s[p[1]] \in A THEN Append(p[2], s[p[1]]) ELSE p[2]]
<1>1. n \in Nat /\ DOMAIN s = 1..n
  OBVIOUS
<1>2. g \in [(1..n) \X Seq(X) -> Seq(X)] /\ <<>> \in Seq(X)
  OBVIOUS
<1>3. PICK h \in [SUBSET (1..n) -> Seq(X)] : \A t \in SUBSET (1..n) :
        h[t] = IF t = {} THEN <<>> ELSE g[<<TopBar!Max(t), h[t \ {TopBar!Max(t)}]>>]
  <2> HIDE DEF g, n
  <2>1. \E h : FoldTable(h, n, Seq(X), <<>>, g)
    BY <1>1, <1>2, FoldExists
  <2> QED BY <2>1 DEF FoldTable
<1>4. ASSUME NEW t \in SUBSET (1..n), t # {}
      PROVE  h[t] = IF s[TopBar!Max(t)] \in A
                    THEN Append(h[t \ {TopBar!Max(t)}], s[TopBar!Max(t)]) ELSE h[t \ {TopBar!Max(t)}]
  <2>1. TopBar!Max(t) \in 1..n
    BY <1>1, <1>4, MaxIn
  <2> QED BY <1>3, <1>4, <2>1
<1>5. Is(h)
  BY <1>1, <1>3, <1>4
<1>6. Is(f)
  <2> HIDE DEF Is
  <2> QED BY <1>5, Zenon
<1>7. TopBar!Only(s, A) = f[1..n]
  BY <1>1 DEF TopBar!Only, TopBar!FoldLeft, TopBar!MapThenFoldSet, TopBar!Max
<1> HIDE DEF f
<1> DEFINE u == [i \in 0..n |-> f[1..i]]
<1>8. u[0] = <<>>
  BY <1>1, <1>6
<1>9. ASSUME NEW i \in 1..n
      PROVE  u[i] = IF s[i] \in A THEN Append(u[i - 1], s[i]) ELSE u[i - 1]
  <2>1. /\ 1..i \in SUBSET (1..n) /\ 1..i # {} /\ TopBar!Max(1..i) = i
        /\ (1..i) \ {i} = 1..(i - 1) /\ i \in 0..n /\ i - 1 \in 0..n
    <3> HIDE DEF n
    <3> QED BY <1>1, MaxOfSegment
  <2>2. f[1..i] = IF s[i] \in A THEN Append(f[1..(i - 1)], s[i]) ELSE f[1..(i - 1)]
    BY <1>1, <1>6, <2>1
  <2> QED BY <2>1, <2>2
<1>10. u[n] = f[1..n]
  BY <1>1
<1> HIDE DEF u
<1> QED BY <1>1, <1>7, <1>8, <1>9, <1>10

\* Dropping repeated elements, step by step.
LEMMA DedupedLoop ==
    ASSUME NEW X, NEW s \in Seq(X)
    PROVE  \E u : /\ u[0] = <<>> /\ TopBar!Deduped(s) = u[Len(s)]
                  /\ \A i \in 1..Len(s) : u[i] = IF s[i] \in TopBar!ToSet(u[i - 1]) THEN u[i - 1] ELSE Append(u[i - 1], s[i])
<1> DEFINE n == Len(s)
           Is(f) == f = [t \in SUBSET DOMAIN s |-> IF t = {} THEN <<>> ELSE IF s[TopBar!Max(t)] \in TopBar!ToSet(f[t \ {TopBar!Max(t)}]) THEN f[t \ {TopBar!Max(t)}] ELSE Append(f[t \ {TopBar!Max(t)}], s[TopBar!Max(t)])]
           f == CHOOSE h : Is(h)
           g == [p \in (1..n) \X Seq(X) |-> IF s[p[1]] \in TopBar!ToSet(p[2]) THEN p[2] ELSE Append(p[2], s[p[1]])]
<1>1. n \in Nat /\ DOMAIN s = 1..n
  OBVIOUS
<1>2. g \in [(1..n) \X Seq(X) -> Seq(X)] /\ <<>> \in Seq(X)
  OBVIOUS
<1>3. PICK h \in [SUBSET (1..n) -> Seq(X)] : \A t \in SUBSET (1..n) :
        h[t] = IF t = {} THEN <<>> ELSE g[<<TopBar!Max(t), h[t \ {TopBar!Max(t)}]>>]
  <2> HIDE DEF g, n
  <2>1. \E h : FoldTable(h, n, Seq(X), <<>>, g)
    BY <1>1, <1>2, FoldExists
  <2> QED BY <2>1 DEF FoldTable
<1>4. ASSUME NEW t \in SUBSET (1..n), t # {}
      PROVE  h[t] = IF s[TopBar!Max(t)] \in TopBar!ToSet(h[t \ {TopBar!Max(t)}]) THEN h[t \ {TopBar!Max(t)}] ELSE Append(h[t \ {TopBar!Max(t)}], s[TopBar!Max(t)])
  <2>1. TopBar!Max(t) \in 1..n
    BY <1>1, <1>4, MaxIn
  <2> QED BY <1>3, <1>4, <2>1
<1>5. Is(h)
  BY <1>1, <1>3, <1>4
<1>6. Is(f)
  <2> HIDE DEF Is
  <2> QED BY <1>5, Zenon
<1>7. TopBar!Deduped(s) = f[1..n]
  BY <1>1 DEF TopBar!Deduped, TopBar!FoldLeft, TopBar!MapThenFoldSet, TopBar!Max
<1> HIDE DEF f
<1> DEFINE u == [i \in 0..n |-> f[1..i]]
<1>8. u[0] = <<>>
  BY <1>1, <1>6
<1>9. ASSUME NEW i \in 1..n
      PROVE  u[i] = IF s[i] \in TopBar!ToSet(u[i - 1]) THEN u[i - 1] ELSE Append(u[i - 1], s[i])
  <2>1. /\ 1..i \in SUBSET (1..n) /\ 1..i # {} /\ TopBar!Max(1..i) = i
        /\ (1..i) \ {i} = 1..(i - 1) /\ i \in 0..n /\ i - 1 \in 0..n
    <3> HIDE DEF n
    <3> QED BY <1>1, MaxOfSegment
  <2>2. f[1..i] = IF s[i] \in TopBar!ToSet(f[1..(i - 1)]) THEN f[1..(i - 1)] ELSE Append(f[1..(i - 1)], s[i])
    BY <1>1, <1>6, <2>1
  <2> QED BY <2>1, <2>2
<1>10. u[n] = f[1..n]
  BY <1>1
<1> HIDE DEF u
<1> QED BY <1>1, <1>7, <1>8, <1>9, <1>10

LEMMA AppendSet ==
    ASSUME NEW X, NEW q \in Seq(X), NEW e \in X
    PROVE  TopBar!ToSet(Append(q, e)) = TopBar!ToSet(q) \cup {e}
<1> DEFINE n == Len(q)
           r == Append(q, e)
<1>1. /\ n \in Nat /\ DOMAIN q = 1..n /\ DOMAIN r = 1..(n + 1) /\ r[n + 1] = e
      /\ \A i \in 1..n : r[i] = q[i]
  OBVIOUS
<1> HIDE DEF n, r
<1>2. DOMAIN r = DOMAIN q \cup {n + 1}
  BY <1>1
<1>3. TopBar!ToSet(r) = TopBar!ToSet(q) \cup {e}
  <2>1. ASSUME NEW x \in TopBar!ToSet(r) PROVE x \in TopBar!ToSet(q) \cup {e}
    <3>1. PICK i \in DOMAIN r : x = r[i]
      BY DEF TopBar!ToSet
    <3> QED BY <1>1, <1>2, <3>1 DEF TopBar!ToSet
  <2>2. ASSUME NEW x \in TopBar!ToSet(q) PROVE x \in TopBar!ToSet(r)
    <3>1. PICK i \in DOMAIN q : x = q[i]
      BY DEF TopBar!ToSet
    <3> QED BY <1>1, <1>2, <3>1 DEF TopBar!ToSet
  <2>3. e \in TopBar!ToSet(r)
    BY <1>1, <1>2 DEF TopBar!ToSet
  <2> QED BY <2>1, <2>2, <2>3, Zenon
<1> QED BY <1>3 DEF r

\* Setting a key replaces its entry and leaves the others.
LEMMA PutTypes ==
    ASSUME NEW K, NEW V, NEW q \in Seq(K \X V), NEW key \in K, NEW value \in V
    PROVE  TopBar!PutKey(q, key, value) \in Seq(K \X V)
<1>0. q \in Seq(K \X V) /\ <<key, value>> \in K \X V
  OBVIOUS
<1>1. CASE key \in TopBar!Keys(q)
  <2> DEFINE next == [i \in DOMAIN q |-> IF q[i][1] = key THEN <<key, value>> ELSE q[i]]
  <2>1. next \in Seq(K \X V)
    <3>1. Len(q) \in Nat /\ DOMAIN q = 1..Len(q) /\ \A i \in 1..Len(q) : q[i] \in K \X V
      BY <1>0
    <3>2. next \in [1..Len(q) -> K \X V]
      BY <1>0, <3>1
    <3> HIDE DEF next
    <3> QED BY <3>1, <3>2
  <2> HIDE DEF next
  <2>2. TopBar!PutKey(q, key, value) = next
    BY <1>1, Zenon DEF TopBar!PutKey, next
  <2> QED BY <2>1, <2>2
<1>2. CASE key \notin TopBar!Keys(q)
  <2>1. TopBar!PutKey(q, key, value) = Append(q, <<key, value>>)
    BY <1>2 DEF TopBar!PutKey
  <2> QED BY <1>0, <2>1
<1> QED BY <1>1, <1>2

LEMMA PutSet ==
    ASSUME NEW K, NEW V, NEW q \in Seq(K \X V), NEW key \in K, NEW value \in V
    PROVE  TopBar!ToSet(TopBar!PutKey(q, key, value))
             = {e \in TopBar!ToSet(q) : e[1] # key} \cup {<<key, value>>}
<1> DEFINE next == TopBar!PutKey(q, key, value)
<1>0. q \in Seq(K \X V)
  OBVIOUS
<1>1. CASE key \in TopBar!Keys(q)
  <2>1. next = [i \in DOMAIN q |-> IF q[i][1] = key THEN <<key, value>> ELSE q[i]]
    BY <1>1 DEF TopBar!PutKey
  <2>2. PICK k \in DOMAIN q : q[k][1] = key
    BY <1>1 DEF TopBar!Keys
  <2>3. DOMAIN next = DOMAIN q /\ \A i \in DOMAIN q : next[i] = IF q[i][1] = key THEN <<key, value>> ELSE q[i]
    BY <2>1
  <2> HIDE DEF next
  <2>4. ASSUME NEW x \in TopBar!ToSet(next) PROVE x \in {e \in TopBar!ToSet(q) : e[1] # key} \cup {<<key, value>>}
    <3>1. PICK i \in DOMAIN q : x = next[i]
      BY <2>3 DEF TopBar!ToSet
    <3>2. q[i] \in TopBar!ToSet(q)
      BY DEF TopBar!ToSet
    <3> QED BY <2>3, <3>1, <3>2
  <2>5. ASSUME NEW x \in TopBar!ToSet(q), x[1] # key PROVE x \in TopBar!ToSet(next)
    <3>1. PICK i \in DOMAIN q : x = q[i]
      BY DEF TopBar!ToSet
    <3>2. next[i] = x
      BY <2>3, <2>5, <3>1
    <3> QED BY <2>3, <3>2 DEF TopBar!ToSet
  <2>6. <<key, value>> \in TopBar!ToSet(next)
    <3>1. next[k] = <<key, value>>
      BY <2>2, <2>3
    <3> QED BY <2>3, <3>1 DEF TopBar!ToSet
  <2>7. TopBar!ToSet(next) = {e \in TopBar!ToSet(q) : e[1] # key} \cup {<<key, value>>}
    BY <2>4, <2>5, <2>6
  <2> QED BY <2>7 DEF next
<1>2. CASE key \notin TopBar!Keys(q)
  <2>1. next = Append(q, <<key, value>>)
    BY <1>2 DEF TopBar!PutKey
  <2>2. \A e \in TopBar!ToSet(q) : e[1] # key
    BY <1>2 DEF TopBar!Keys, TopBar!ToSet
  <2>3. TopBar!ToSet(next) = TopBar!ToSet(q) \cup {<<key, value>>}
    <3>1. \A e \in K \X V : TopBar!ToSet(Append(q, e)) = TopBar!ToSet(q) \cup {e}
      BY <1>0, AppendSet
    <3>2. <<key, value>> \in K \X V
      OBVIOUS
    <3> HIDE DEF next
    <3> QED BY <2>1, <3>1, <3>2, Zenon
  <2> QED BY <2>2, <2>3
<1> QED BY <1>1, <1>2

LEMMA FilterKeyOther ==
    ASSUME NEW dim
    PROVE  TopBar!FilterKey(dim) # "event:goal"
BY DEF TopBar!FilterKey

\* Reading the filters, token by token (parseQueryParams).
LEMMA FiltersLoop ==
    ASSUME NEW X, NEW s \in Seq(X)
    PROVE  \E u : /\ u[0] = <<>> /\ TopBar!ParseFilters(s) = u[Len(s)]
                  /\ \A i \in 1..Len(s) : u[i] = IF s[i][1] = "is" THEN TopBar!PutKey(u[i - 1], TopBar!FilterKey(s[i][2]), s[i][3]) ELSE u[i - 1]
<1> DEFINE n == Len(s)
           K == {TopBar!FilterKey(s[i][2]) : i \in 1..n}
           V == {s[i][3] : i \in 1..n}
           Entries == Seq(K \X V)
           Is(f) == f = [t \in SUBSET DOMAIN s |-> IF t = {} THEN <<>> ELSE IF s[TopBar!Max(t)][1] = "is" THEN TopBar!PutKey(f[t \ {TopBar!Max(t)}], TopBar!FilterKey(s[TopBar!Max(t)][2]), s[TopBar!Max(t)][3]) ELSE f[t \ {TopBar!Max(t)}]]
           f == CHOOSE h : Is(h)
           g == [p \in (1..n) \X Entries |-> IF s[p[1]][1] = "is" THEN TopBar!PutKey(p[2], TopBar!FilterKey(s[p[1]][2]), s[p[1]][3]) ELSE p[2]]
<1>1. n \in Nat /\ DOMAIN s = 1..n
  OBVIOUS
<1>a. ASSUME NEW i \in 1..n, NEW q \in Entries
      PROVE  (IF s[i][1] = "is" THEN TopBar!PutKey(q, TopBar!FilterKey(s[i][2]), s[i][3]) ELSE q) \in Entries
  <2>2. TopBar!FilterKey(s[i][2]) \in K /\ s[i][3] \in V
    OBVIOUS
  <2> HIDE DEF K, V
  <2> QED BY <2>2, PutTypes
<1>2. g \in [(1..n) \X Entries -> Entries] /\ <<>> \in Entries
  <2>1. <<>> \in Entries
    OBVIOUS
  <2>2. \A p \in (1..n) \X Entries : p[1] \in 1..n /\ p[2] \in Entries
    OBVIOUS
  <2> HIDE DEF Entries, n
  <2> QED BY <1>a, <2>1, <2>2
<1>3. PICK h \in [SUBSET (1..n) -> Entries] : \A t \in SUBSET (1..n) :
        h[t] = IF t = {} THEN <<>> ELSE g[<<TopBar!Max(t), h[t \ {TopBar!Max(t)}]>>]
  <2> HIDE DEF g, n, Entries
  <2>1. \E h : FoldTable(h, n, Entries, <<>>, g)
    BY <1>1, <1>2, FoldExists
  <2> QED BY <2>1 DEF FoldTable
<1>4. ASSUME NEW t \in SUBSET (1..n), t # {}
      PROVE  h[t] = IF s[TopBar!Max(t)][1] = "is" THEN TopBar!PutKey(h[t \ {TopBar!Max(t)}], TopBar!FilterKey(s[TopBar!Max(t)][2]), s[TopBar!Max(t)][3]) ELSE h[t \ {TopBar!Max(t)}]
  <2>1. TopBar!Max(t) \in 1..n
    BY <1>1, <1>4, MaxIn
  <2> QED BY <1>3, <1>4, <2>1
<1>5. Is(h)
  BY <1>1, <1>3, <1>4
<1>6. Is(f)
  <2> HIDE DEF Is
  <2> QED BY <1>5, Zenon
<1>7. TopBar!ParseFilters(s) = f[1..n]
  BY <1>1 DEF TopBar!ParseFilters, TopBar!FoldLeft, TopBar!MapThenFoldSet, TopBar!Max
<1> HIDE DEF f
<1> DEFINE u == [i \in 0..n |-> f[1..i]]
<1>8. u[0] = <<>>
  BY <1>1, <1>6
<1>9. ASSUME NEW i \in 1..n
      PROVE  u[i] = IF s[i][1] = "is" THEN TopBar!PutKey(u[i - 1], TopBar!FilterKey(s[i][2]), s[i][3]) ELSE u[i - 1]
  <2>1. /\ 1..i \in SUBSET (1..n) /\ 1..i # {} /\ TopBar!Max(1..i) = i
        /\ (1..i) \ {i} = 1..(i - 1) /\ i \in 0..n /\ i - 1 \in 0..n
    <3>1. n \in Nat
      BY <1>1
    <3>2. i \in 0..n /\ i - 1 \in 0..n
      BY <3>1
    <3> HIDE DEF n
    <3> QED BY <3>1, <3>2, MaxOfSegment, Zenon
  <2>2. f[1..i] = IF s[i][1] = "is" THEN TopBar!PutKey(f[1..(i - 1)], TopBar!FilterKey(s[i][2]), s[i][3]) ELSE f[1..(i - 1)]
    <3>1. \A t \in SUBSET (1..n) :
            f[t] = IF t = {} THEN <<>>
                   ELSE IF s[TopBar!Max(t)][1] = "is"
                        THEN TopBar!PutKey(f[t \ {TopBar!Max(t)}], TopBar!FilterKey(s[TopBar!Max(t)][2]), s[TopBar!Max(t)][3])
                        ELSE f[t \ {TopBar!Max(t)}]
      <4> HIDE DEF n
      <4> QED BY <1>1, <1>6
    <3> HIDE DEF K, V, Entries, g, n, Is
    <3> DEFINE t == 1..i
    <3>2. t \in SUBSET (1..n) /\ t # {} /\ TopBar!Max(t) = i /\ t \ {i} = 1..(i - 1)
      BY <2>1
    <3> HIDE DEF t
    <3>3. f[t] = IF s[i][1] = "is" THEN TopBar!PutKey(f[t \ {i}], TopBar!FilterKey(s[i][2]), s[i][3]) ELSE f[t \ {i}]
      BY <3>1, <3>2
    <3> QED BY <3>2, <3>3 DEF t
  <2> QED BY <2>1, <2>2
<1>10. u[n] = f[1..n]
  BY <1>1
<1> HIDE DEF u
<1> QED BY <1>1, <1>7, <1>8, <1>9, <1>10

LEMMA InSet ==
    ASSUME NEW X, NEW s \in Seq(X)
    PROVE  /\ TopBar!ToSet(s) \subseteq X
           /\ \A Y : TopBar!ToSet(s) \subseteq Y => s \in Seq(Y)
           /\ TopBar!ToSet(s) = {s[i] : i \in 1..Len(s)}
<1>1. Len(s) \in Nat /\ DOMAIN s = 1..Len(s) /\ \A i \in 1..Len(s) : s[i] \in X
  OBVIOUS
<1>2. TopBar!ToSet(s) = {s[i] : i \in 1..Len(s)}
  BY <1>1 DEF TopBar!ToSet
<1>3. ASSUME NEW Y, TopBar!ToSet(s) \subseteq Y PROVE s \in Seq(Y)
  <2>1. \A i \in 1..Len(s) : s[i] \in Y
    BY <1>2, <1>3
  <2> QED BY <2>1
<1> QED BY <1>1, <1>2, <1>3

LEMMA EmptySet == TopBar!ToSet(<<>>) = {}
BY DEF TopBar!ToSet

LEMMA ConcatSet ==
    ASSUME NEW X, NEW s \in Seq(X), NEW t \in Seq(X)
    PROVE  s \o t \in Seq(X) /\ TopBar!ToSet(s \o t) = TopBar!ToSet(s) \cup TopBar!ToSet(t)
<1> DEFINE r == s \o t
           m == Len(s)
           n == Len(t)
<1>1. /\ m \in Nat /\ n \in Nat /\ r \in Seq(X) /\ Len(r) = m + n
      /\ \A i \in 1..m : r[i] = s[i]
      /\ \A i \in 1..n : r[m + i] = t[i]
  OBVIOUS
<1>2. /\ TopBar!ToSet(s) = {s[i] : i \in 1..m} /\ TopBar!ToSet(t) = {t[i] : i \in 1..n}
      /\ TopBar!ToSet(r) = {r[i] : i \in 1..(m + n)}
  BY <1>1, InSet
<1> HIDE DEF r, m, n
<1>3. ASSUME NEW x \in TopBar!ToSet(r) PROVE x \in TopBar!ToSet(s) \cup TopBar!ToSet(t)
  <2>1. PICK i \in 1..(m + n) : x = r[i]
    BY <1>2
  <2>2. CASE i \in 1..m
    BY <1>1, <1>2, <2>1, <2>2
  <2>3. CASE i \notin 1..m
    <3>1. i - m \in 1..n /\ m + (i - m) = i
      BY <1>1, <2>3
    <3> QED BY <1>1, <1>2, <2>1, <3>1
  <2> QED BY <2>2, <2>3
<1>4. ASSUME NEW x \in TopBar!ToSet(s) PROVE x \in TopBar!ToSet(r)
  <2>1. PICK i \in 1..m : x = s[i]
    BY <1>2
  <2>2. i \in 1..(m + n) /\ r[i] = x
    BY <1>1, <2>1
  <2> QED BY <1>2, <2>2
<1>5. ASSUME NEW x \in TopBar!ToSet(t) PROVE x \in TopBar!ToSet(r)
  <2>1. PICK i \in 1..n : x = t[i]
    BY <1>2
  <2>2. m + i \in 1..(m + n) /\ r[m + i] = x
    BY <1>1, <2>1
  <2> QED BY <1>2, <2>2
<1>6. TopBar!ToSet(r) = TopBar!ToSet(s) \cup TopBar!ToSet(t)
  BY <1>3, <1>4, <1>5
<1> QED BY <1>1, <1>6 DEF r

LEMMA OnlyRange ==
    ASSUME NEW X, NEW s \in Seq(X), NEW A
    PROVE  /\ TopBar!Only(s, A) \in Seq(X)
           /\ TopBar!ToSet(TopBar!Only(s, A)) = TopBar!ToSet(s) \cap A
<1>1. PICK u : /\ u[0] = <<>> /\ TopBar!Only(s, A) = u[Len(s)]
               /\ \A i \in 1..Len(s) : u[i] = IF s[i] \in A THEN Append(u[i - 1], s[i]) ELSE u[i - 1]
  BY OnlyLoop
<1> DEFINE n == Len(s)
           Upto(i) == {s[j] : j \in 1..i}
           T == {i \in 0..n : u[i] \in Seq(X) /\ TopBar!ToSet(u[i]) = Upto(i) \cap A}
<1>2. n \in Nat /\ \A i \in 1..n : s[i] \in X
  OBVIOUS
<1>3. Upto(0) = {} /\ \A i \in 1..n : Upto(i) = Upto(i - 1) \cup {s[i]}
  <2>1. Upto(0) = {}
    OBVIOUS
  <2>2. ASSUME NEW i \in 1..n PROVE 1..i = 1..(i - 1) \cup {i}
    OBVIOUS
  <2>3. ASSUME NEW i \in 1..n PROVE Upto(i) = Upto(i - 1) \cup {s[i]}
    BY <2>2
  <2> QED BY <2>1, <2>3
<1> HIDE DEF n, Upto
<1>4. 0 \in T
  <2>1. 0 \in 0..n /\ <<>> \in Seq(X)
    BY <1>2
  <2> QED BY <1>1, <1>3, <2>1, EmptySet
<1>5. ASSUME NEW i \in 1..n, i - 1 \in T PROVE i \in T
  <2>1. u[i - 1] \in Seq(X) /\ TopBar!ToSet(u[i - 1]) = Upto(i - 1) \cap A /\ i \in 0..n /\ s[i] \in X
    BY <1>2, <1>5
  <2>2. TopBar!ToSet(Append(u[i - 1], s[i])) = TopBar!ToSet(u[i - 1]) \cup {s[i]}
    BY <2>1, AppendSet
  <2>3. u[i] = IF s[i] \in A THEN Append(u[i - 1], s[i]) ELSE u[i - 1]
    BY <1>1 DEF n
  <2>4. Upto(i) = Upto(i - 1) \cup {s[i]}
    BY <1>3
  <2>5. u[i] \in Seq(X)
    BY <2>1, <2>3
  <2> QED BY <2>1, <2>2, <2>3, <2>4, <2>5
<1>6. n \in T
  <2>1. \A i \in 0..n : i \in T
    <3> HIDE DEF T
    <3> QED BY <1>2, <1>4, <1>5, UpTo
  <2> QED BY <1>2, <2>1
<1>7. TopBar!ToSet(s) = Upto(n)
  BY InSet DEF n, Upto
<1> QED BY <1>1, <1>6, <1>7 DEF n

LEMMA DedupedRange ==
    ASSUME NEW X, NEW s \in Seq(X)
    PROVE  TopBar!Deduped(s) \in Seq(X) /\ TopBar!ToSet(TopBar!Deduped(s)) = TopBar!ToSet(s)
<1>1. PICK u : /\ u[0] = <<>> /\ TopBar!Deduped(s) = u[Len(s)]
               /\ \A i \in 1..Len(s) : u[i] = IF s[i] \in TopBar!ToSet(u[i - 1]) THEN u[i - 1] ELSE Append(u[i - 1], s[i])
  BY DedupedLoop
<1> DEFINE n == Len(s)
           Upto(i) == {s[j] : j \in 1..i}
           T == {i \in 0..n : u[i] \in Seq(X) /\ TopBar!ToSet(u[i]) = Upto(i)}
<1>2. n \in Nat /\ \A i \in 1..n : s[i] \in X
  OBVIOUS
<1>3. Upto(0) = {} /\ \A i \in 1..n : Upto(i) = Upto(i - 1) \cup {s[i]}
  <2>1. Upto(0) = {}
    OBVIOUS
  <2>2. ASSUME NEW i \in 1..n PROVE 1..i = 1..(i - 1) \cup {i}
    OBVIOUS
  <2>3. ASSUME NEW i \in 1..n PROVE Upto(i) = Upto(i - 1) \cup {s[i]}
    BY <2>2
  <2> QED BY <2>1, <2>3
<1> HIDE DEF n, Upto
<1>4. 0 \in T
  <2>1. 0 \in 0..n /\ <<>> \in Seq(X)
    BY <1>2
  <2> QED BY <1>1, <1>3, <2>1, EmptySet
<1>5. ASSUME NEW i \in 1..n, i - 1 \in T PROVE i \in T
  <2>1. u[i - 1] \in Seq(X) /\ TopBar!ToSet(u[i - 1]) = Upto(i - 1) /\ i \in 0..n /\ s[i] \in X
    BY <1>2, <1>5
  <2>2. TopBar!ToSet(Append(u[i - 1], s[i])) = TopBar!ToSet(u[i - 1]) \cup {s[i]}
    BY <2>1, AppendSet
  <2>3. u[i] = IF s[i] \in TopBar!ToSet(u[i - 1]) THEN u[i - 1] ELSE Append(u[i - 1], s[i])
    BY <1>1 DEF n
  <2>4. Upto(i) = Upto(i - 1) \cup {s[i]}
    BY <1>3
  <2>5. u[i] \in Seq(X)
    BY <2>1, <2>3
  <2> QED BY <2>1, <2>2, <2>3, <2>4, <2>5
<1>6. n \in T
  <2>1. \A i \in 0..n : i \in T
    <3> HIDE DEF T
    <3> QED BY <1>2, <1>4, <1>5, UpTo
  <2> QED BY <1>2, <2>1
<1>7. TopBar!ToSet(s) = Upto(n)
  BY InSet DEF n, Upto
<1> QED BY <1>1, <1>6, <1>7 DEF n


\* The filters of a query.
LEMMA KeysOfSet ==
    ASSUME NEW q
    PROVE  TopBar!Keys(q) = {e[1] : e \in TopBar!ToSet(q)}
<1>1. ASSUME NEW k \in TopBar!Keys(q) PROVE k \in {e[1] : e \in TopBar!ToSet(q)}
  <2>1. PICK i \in DOMAIN q : k = q[i][1]
    BY DEF TopBar!Keys
  <2>2. q[i] \in TopBar!ToSet(q)
    BY DEF TopBar!ToSet
  <2> QED BY <2>1, <2>2
<1>2. ASSUME NEW e \in TopBar!ToSet(q) PROVE e[1] \in TopBar!Keys(q)
  <2>1. PICK i \in DOMAIN q : e = q[i]
    BY DEF TopBar!ToSet
  <2> QED BY <2>1 DEF TopBar!Keys
<1> QED BY <1>1, <1>2

\* Entries are pairs of their keys and of their values.
LEMMA PairsAre ==
    ASSUME NEW q
    PROVE  TopBar!Pairs(q) <=> q \in Seq(TopBar!Keys(q) \X {e[2] : e \in TopBar!ToSet(q)})
<1> DEFINE K == TopBar!Keys(q)
           V == {e[2] : e \in TopBar!ToSet(q)}
<1>1. ASSUME TopBar!Pairs(q) PROVE q \in Seq(K \X V)
  <2>1. q \in Seq(TopBar!ToSet(q)) /\ \A e \in TopBar!ToSet(q) : e = <<e[1], e[2]>>
    BY <1>1 DEF TopBar!Pairs
  <2>2. \A e \in TopBar!ToSet(q) : e \in K \X V
    BY <2>1, KeysOfSet
  <2> HIDE DEF K, V
  <2>3. TopBar!ToSet(q) \subseteq K \X V
    BY <2>2
  <2> QED BY <2>1, <2>3, InSet
<1>2. ASSUME q \in Seq(K \X V) PROVE TopBar!Pairs(q)
  <2> HIDE DEF K, V
  <2>1. TopBar!ToSet(q) \subseteq K \X V /\ q \in Seq(TopBar!ToSet(q))
    BY <1>2, InSet
  <2>2. \A e \in TopBar!ToSet(q) : e = <<e[1], e[2]>>
    BY <2>1
  <2> QED BY <2>1, <2>2 DEF TopBar!Pairs
<1> QED BY <1>1, <1>2

\* Pairs over any keys and values are pairs.
LEMMA PairsOver ==
    ASSUME NEW K, NEW V, NEW q \in Seq(K \X V)
    PROVE  TopBar!Pairs(q)
<1>1. TopBar!ToSet(q) \subseteq K \X V /\ q \in Seq(TopBar!ToSet(q))
  BY InSet
<1>2. \A e \in TopBar!ToSet(q) : e = <<e[1], e[2]>>
  BY <1>1
<1> QED BY <1>1, <1>2 DEF TopBar!Pairs

LEMMA PutPairs ==
    ASSUME NEW q, TopBar!Pairs(q), NEW key, NEW value
    PROVE  /\ TopBar!Pairs(TopBar!PutKey(q, key, value))
           /\ TopBar!ToSet(TopBar!PutKey(q, key, value))
                = {e \in TopBar!ToSet(q) : e[1] # key} \cup {<<key, value>>}
           /\ TopBar!Keys(TopBar!PutKey(q, key, value)) = TopBar!Keys(q) \cup {key}
<1> DEFINE K == TopBar!Keys(q) \cup {key}
           V == {e[2] : e \in TopBar!ToSet(q)} \cup {value}
           next == TopBar!PutKey(q, key, value)
<1>1. \A e \in TopBar!ToSet(q) : e = <<e[1], e[2]>> /\ e[1] \in K /\ e[2] \in V
  BY KeysOfSet DEF TopBar!Pairs
<1>2. key \in K /\ value \in V
  OBVIOUS
<1> HIDE DEF K, V
<1>3. q \in Seq(K \X V)
  <2>1. TopBar!ToSet(q) \subseteq K \X V
    BY <1>1
  <2>2. q \in Seq(TopBar!ToSet(q))
    BY DEF TopBar!Pairs
  <2> QED BY <2>1, <2>2, InSet
<1>4. next \in Seq(K \X V)
  BY <1>2, <1>3, PutTypes
<1>5. TopBar!ToSet(next) = {e \in TopBar!ToSet(q) : e[1] # key} \cup {<<key, value>>}
  BY <1>2, <1>3, PutSet
<1> HIDE DEF next
<1>6. TopBar!Pairs(next)
  BY <1>4, PairsOver
<1>7. TopBar!Keys(next) = TopBar!Keys(q) \cup {key}
  <2>1. /\ TopBar!Keys(next) = {e[1] : e \in TopBar!ToSet(next)}
        /\ TopBar!Keys(q) = {e[1] : e \in TopBar!ToSet(q)}
    BY KeysOfSet
  <2>2. ASSUME NEW k \in TopBar!Keys(next) PROVE k \in TopBar!Keys(q) \cup {key}
    BY <1>5, <2>1
  <2>3. ASSUME NEW k \in TopBar!Keys(q), k # key PROVE k \in TopBar!Keys(next)
    <3>1. PICK e \in TopBar!ToSet(q) : e[1] = k
      BY <2>1
    <3> QED BY <1>5, <2>1, <2>3, <3>1
  <2>4. key \in TopBar!Keys(next)
    <3>1. <<key, value>> \in TopBar!ToSet(next)
      BY <1>5
    <3> QED BY <2>1, <3>1
  <2> QED BY <2>2, <2>3, <2>4
<1> QED BY <1>5, <1>6, <1>7 DEF next

LEMMA PutFilter ==
    ASSUME NEW q, TopBar!OfFilters(q), NEW key, NEW value, key # "event:goal"
    PROVE  TopBar!OfFilters(TopBar!PutKey(q, key, value))
<1> DEFINE next == TopBar!PutKey(q, key, value)
<1>1. /\ TopBar!Pairs(next) /\ TopBar!Keys(next) = TopBar!Keys(q) \cup {key}
      /\ TopBar!ToSet(next) = {e \in TopBar!ToSet(q) : e[1] # key} \cup {<<key, value>>}
  BY PutPairs DEF TopBar!OfFilters
<1> HIDE DEF next
<1>2. \A e, g \in TopBar!ToSet(next) : e[1] = g[1] => e = g
  <2>1. \A e, g \in TopBar!ToSet(q) : e[1] = g[1] => e = g
    BY DEF TopBar!OfFilters
  <2>2. \A e \in TopBar!ToSet(next) : e = <<key, value>> \/ (e \in TopBar!ToSet(q) /\ e[1] # key)
    BY <1>1
  <2> QED BY <2>1, <2>2
<1>3. "event:goal" \notin TopBar!Keys(next)
  BY <1>1 DEF TopBar!OfFilters
<1> QED BY <1>1, <1>2, <1>3 DEF TopBar!OfFilters, next

LEMMA SubFilters ==
    ASSUME NEW q, TopBar!OfFilters(q), NEW A
    PROVE  TopBar!OfFilters(TopBar!Only(q, A))
<1> DEFINE next == TopBar!Only(q, A)
<1>1. q \in Seq(TopBar!ToSet(q)) /\ \A e \in TopBar!ToSet(q) : e = <<e[1], e[2]>>
  BY DEF TopBar!OfFilters, TopBar!Pairs
<1>2. next \in Seq(TopBar!ToSet(q)) /\ TopBar!ToSet(next) = TopBar!ToSet(q) \cap A
  BY <1>1, OnlyRange
<1> HIDE DEF next
<1>3. TopBar!Pairs(next)
  <2>1. next \in Seq(TopBar!ToSet(next))
    BY <1>2, InSet
  <2> QED BY <1>1, <1>2, <2>1 DEF TopBar!Pairs
<1>4. \A e, g \in TopBar!ToSet(next) : e[1] = g[1] => e = g
  BY <1>2 DEF TopBar!OfFilters
<1>5. TopBar!Keys(next) \subseteq TopBar!Keys(q)
  <2>1. TopBar!Keys(next) = {e[1] : e \in TopBar!ToSet(next)} /\ TopBar!Keys(q) = {e[1] : e \in TopBar!ToSet(q)}
    BY KeysOfSet
  <2> QED BY <1>2, <2>1
<1> QED BY <1>3, <1>4, <1>5 DEF TopBar!OfFilters, next

LEMMA SubTokens ==
    ASSUME NEW q, TopBar!Triples(q), NEW A
    PROVE  /\ TopBar!Triples(TopBar!Only(q, A))
           /\ TopBar!ToSet(TopBar!Only(q, A)) = TopBar!ToSet(q) \cap A
<1> DEFINE next == TopBar!Only(q, A)
<1>1. q \in Seq(TopBar!ToSet(q)) /\ \A e \in TopBar!ToSet(q) : e = <<e[1], e[2], e[3]>>
  BY DEF TopBar!Triples
<1>2. next \in Seq(TopBar!ToSet(q)) /\ TopBar!ToSet(next) = TopBar!ToSet(q) \cap A
  BY <1>1, OnlyRange
<1> HIDE DEF next
<1>3. TopBar!Triples(next)
  <2>1. next \in Seq(TopBar!ToSet(next))
    BY <1>2, InSet
  <2> QED BY <1>1, <1>2, <2>1 DEF TopBar!Triples
<1> QED BY <1>2, <1>3 DEF next

\* The filters that are read are those of the equality tokens.
LEMMA ParsedFilters ==
    ASSUME NEW s, s \in Seq(TopBar!ToSet(s))
    PROVE  /\ TopBar!OfFilters(TopBar!ParseFilters(s))
           /\ \A e \in TopBar!ToSet(TopBar!ParseFilters(s)) :
                \E t \in TopBar!ToSet(s) : t[1] = "is" /\ e = <<TopBar!FilterKey(t[2]), t[3]>>
           /\ \A t \in TopBar!ToSet(s) : t[1] = "is" => TopBar!FilterKey(t[2]) \in TopBar!Keys(TopBar!ParseFilters(s))
<1>1. PICK u : /\ u[0] = <<>> /\ TopBar!ParseFilters(s) = u[Len(s)]
               /\ \A i \in 1..Len(s) : u[i] = IF s[i][1] = "is" THEN TopBar!PutKey(u[i - 1], TopBar!FilterKey(s[i][2]), s[i][3]) ELSE u[i - 1]
  BY FiltersLoop
<1> DEFINE n == Len(s)
           Known(i) == \A e \in TopBar!ToSet(u[i]) :
                         \E t \in TopBar!ToSet(s) : t[1] = "is" /\ e = <<TopBar!FilterKey(t[2]), t[3]>>
           Read(i) == \A j \in 1..i : s[j][1] = "is" => TopBar!FilterKey(s[j][2]) \in TopBar!Keys(u[i])
           T == {i \in 0..n : TopBar!OfFilters(u[i]) /\ Known(i) /\ Read(i)}
<1>2. n \in Nat
  OBVIOUS
<1>7. TopBar!ToSet(s) = {s[j] : j \in 1..n}
  BY InSet
<1> HIDE DEF n
<1>4. 0 \in T
  <2>1. TopBar!OfFilters(u[0])
    <3>1. TopBar!ToSet(u[0]) = {} /\ u[0] \in Seq({})
      BY <1>1, EmptySet
    <3>2. TopBar!Keys(u[0]) = {}
      BY <3>1, KeysOfSet
    <3> QED BY <3>1, <3>2 DEF TopBar!OfFilters, TopBar!Pairs
  <2>2. Known(0)
    BY <1>1, EmptySet
  <2>3. Read(0)
    OBVIOUS
  <2>4. 0 \in 0..n
    BY <1>2
  <2> HIDE DEF Known, Read
  <2> QED BY <2>1, <2>2, <2>3, <2>4
<1>5. ASSUME NEW i \in 1..n, i - 1 \in T PROVE i \in T
  <2>1. TopBar!OfFilters(u[i - 1]) /\ Known(i - 1) /\ Read(i - 1) /\ i \in 0..n /\ i - 1 \in Nat
    BY <1>2, <1>5
  <2>3. u[i] = IF s[i][1] = "is" THEN TopBar!PutKey(u[i - 1], TopBar!FilterKey(s[i][2]), s[i][3]) ELSE u[i - 1]
    BY <1>1 DEF n
  <2>6. \A j \in 1..i : j = i \/ j \in 1..(i - 1)
    BY <1>2
  <2>4. CASE s[i][1] = "is"
    <3> DEFINE key == TopBar!FilterKey(s[i][2])
    <3>2. key # "event:goal"
      BY FilterKeyOther
    <3>1. u[i] = TopBar!PutKey(u[i - 1], key, s[i][3])
      BY <2>3, <2>4
    <3> HIDE DEF Known, Read, T, key
    <3>3. TopBar!OfFilters(u[i])
      BY <2>1, <3>1, <3>2, PutFilter
    <3>4. /\ TopBar!Keys(u[i]) = TopBar!Keys(u[i - 1]) \cup {key}
          /\ TopBar!ToSet(u[i]) = {e \in TopBar!ToSet(u[i - 1]) : e[1] # key} \cup {<<key, s[i][3]>>}
      <4>1. TopBar!Pairs(u[i - 1])
        BY <2>1 DEF TopBar!OfFilters
      <4> QED BY <3>1, <4>1, PutPairs
    <3>5. Known(i)
      <4>1. s[i] \in TopBar!ToSet(s)
        BY <1>7
      <4>2. SUFFICES ASSUME NEW e \in TopBar!ToSet(u[i])
                     PROVE  \E t \in TopBar!ToSet(s) : t[1] = "is" /\ e = <<TopBar!FilterKey(t[2]), t[3]>>
        BY DEF Known
      <4>3. CASE e = <<key, s[i][3]>>
        BY <2>4, <4>1, <4>3 DEF key
      <4>4. CASE e \in TopBar!ToSet(u[i - 1])
        BY <2>1, <4>4 DEF Known
      <4> QED BY <3>4, <4>3, <4>4
    <3>6. Read(i)
      <4>1. SUFFICES ASSUME NEW j \in 1..i, s[j][1] = "is"
                     PROVE  TopBar!FilterKey(s[j][2]) \in TopBar!Keys(u[i])
        BY DEF Read
      <4>2. CASE j = i
        BY <3>4, <4>2 DEF key
      <4>3. CASE j \in 1..(i - 1)
        BY <2>1, <3>4, <4>1, <4>3 DEF Read
      <4> QED BY <2>6, <4>2, <4>3
    <3> QED BY <2>1, <3>3, <3>5, <3>6 DEF T
  <2>5. CASE s[i][1] # "is"
    <3>1. u[i] = u[i - 1]
      BY <2>3, <2>5
    <3>2. Known(i)
      BY <2>1, <3>1
    <3>3. Read(i)
      BY <2>1, <2>5, <2>6, <3>1
    <3> HIDE DEF Known, Read
    <3> QED BY <2>1, <3>1, <3>2, <3>3
  <2> QED BY <2>4, <2>5
<1>6. n \in T
  <2>1. \A i \in 0..n : i \in T
    <3> HIDE DEF T
    <3> QED BY <1>2, <1>4, <1>5, UpTo
  <2> HIDE DEF T
  <2> QED BY <1>2, <2>1
<1>8. TopBar!ParseFilters(s) = u[n]
  BY <1>1 DEF n
<1>9. TopBar!OfFilters(u[n]) /\ Known(n) /\ Read(n)
  BY <1>6
<1>10. \A t \in TopBar!ToSet(s) : t[1] = "is" => TopBar!FilterKey(t[2]) \in TopBar!Keys(u[n])
  BY <1>7, <1>9
<1> QED BY <1>8, <1>9, <1>10

\* What is read from a URL is a query (parseQueryParams).
LEMMA ReadsQuery ==
    ASSUME NEW u, TopBar!OfUrl(u)
    PROVE  TopBar!OfQuery(TopBar!QueryOf(u))
<1> DEFINE p == u.params
           q == TopBar!QueryOf(u)
           period == IF TopBar!Word(p, "period") \in TopBar!Periods THEN TopBar!Word(p, "period") ELSE "day"
           comparison == IF TopBar!Word(p, "comparison") # TopBar!None THEN TopBar!Word(p, "comparison") ELSE TopBar!None
           imported == TopBar!BooleanParam(TopBar!Word(p, "with_imported"), FALSE)
           match == TopBar!BooleanParam(TopBar!Word(p, "match_day_of_week"), TRUE)
           filters == TopBar!ParseFilters(p.f)
           labels == q.labels
           advanced == TopBar!Only(p.f, {t \in TopBar!ToSet(p.f) : t[1] \in {"is_not", "contains"}})
<1>1. TopBar!OfDays(p.day) /\ TopBar!Triples(p.f)
  BY DEF TopBar!OfUrl
<1>2. "day" \in TopBar!Periods
  BY DEF TopBar!Periods, TopBar!Selections, TopBar!Shortcuts, TopBar!Selection
<1>3. imported \in BOOLEAN /\ match \in BOOLEAN
  BY DEF TopBar!BooleanParam
<1>4. q = [period |-> period, comparison |-> comparison, day |-> p.day, withImported |-> imported,
           matchDayOfWeek |-> match, filters |-> filters, labels |-> labels, advanced |-> advanced]
  BY DEF TopBar!QueryOf, TopBar!ParseQueryParams, TopBar!DefaultQuery
<1>5. period \in TopBar!Periods
  BY <1>2
<1>6. TopBar!OfFilters(filters)
  BY <1>1, ParsedFilters DEF TopBar!Triples
<1>7. TopBar!OfTokens(advanced)
  <2>1. TopBar!Triples(advanced) /\ TopBar!ToSet(advanced) \subseteq {t \in TopBar!ToSet(p.f) : t[1] \in {"is_not", "contains"}}
    BY <1>1, SubTokens
  <2> HIDE DEF advanced
  <2> QED BY <2>1 DEF TopBar!OfTokens
<1> HIDE DEF p, period, comparison, imported, match, filters, labels, advanced, q
<1>8. q.day = p.day /\ q.filters = filters /\ q.advanced = advanced
  BY <1>4
<1>9. q \in [period : TopBar!Periods, comparison : {q.comparison}, day : {q.day}, withImported : BOOLEAN,
             matchDayOfWeek : BOOLEAN, filters : {q.filters}, labels : {q.labels}, advanced : {q.advanced}]
  BY <1>3, <1>4, <1>5
<1>10. TopBar!OfQuery(q)
  BY <1>1, <1>6, <1>7, <1>8, <1>9 DEF TopBar!OfQuery
<1> QED BY <1>10 DEF q

\* The filters a query writes, equalities first and each once (buildQueryParams).
LEMMA WrittenFilters ==
    ASSUME NEW filters, TopBar!Pairs(filters), NEW advanced, TopBar!Triples(advanced), NEW is, NEW f,
           is = [i \in DOMAIN filters |-> <<"is", filters[i][1], filters[i][2]>>],
           f = TopBar!Deduped(is \o advanced)
    PROVE  /\ TopBar!Triples(f)
           /\ TopBar!ToSet(f) = {<<"is", e[1], e[2]>> : e \in TopBar!ToSet(filters)} \cup TopBar!ToSet(advanced)
<1> DEFINE I == {<<"is", e[1], e[2]>> : e \in TopBar!ToSet(filters)}
           A == TopBar!ToSet(advanced)
           X == I \cup A
<1>1. is \in Seq(I) /\ TopBar!ToSet(is) = I
  <2>1. DOMAIN filters = 1..Len(filters) /\ Len(filters) \in Nat
    BY DEF TopBar!Pairs
  <2>2. TopBar!ToSet(filters) = {filters[i] : i \in DOMAIN filters}
    BY DEF TopBar!ToSet
  <2>3. \A i \in DOMAIN filters : is[i] = <<"is", filters[i][1], filters[i][2]>> /\ filters[i] \in TopBar!ToSet(filters)
    BY <2>2
  <2>4. \A i \in DOMAIN filters : is[i] \in I
    BY <2>3
  <2>5. DOMAIN is = DOMAIN filters /\ is = [i \in DOMAIN filters |-> is[i]]
    OBVIOUS
  <2>6. is \in [1..Len(filters) -> I]
    <3> HIDE DEF I
    <3> QED BY <2>1, <2>4, <2>5
  <2>7. is \in Seq(I)
    <3> HIDE DEF I
    <3> QED BY <2>1, <2>6
  <2>8. TopBar!ToSet(is) = {is[i] : i \in DOMAIN filters}
    BY <2>5 DEF TopBar!ToSet
  <2>9. ASSUME NEW x \in I PROVE x \in TopBar!ToSet(is)
    <3>1. PICK e \in TopBar!ToSet(filters) : x = <<"is", e[1], e[2]>>
      OBVIOUS
    <3>2. PICK i \in DOMAIN filters : e = filters[i]
      BY <2>2
    <3> QED BY <2>3, <2>8, <3>1, <3>2
  <2>10. TopBar!ToSet(is) \subseteq I
    <3> HIDE DEF I
    <3> QED BY <2>4, <2>8
  <2> HIDE DEF I
  <2> QED BY <2>7, <2>9, <2>10
<1>2. advanced \in Seq(A) /\ \A t \in A : t = <<t[1], t[2], t[3]>>
  BY DEF TopBar!Triples
<1>3. \A t \in I : t = <<t[1], t[2], t[3]>>
  OBVIOUS
<1> HIDE DEF I, A
<1>4. is \in Seq(X) /\ advanced \in Seq(X)
  <2>1. TopBar!ToSet(is) \subseteq X /\ TopBar!ToSet(advanced) \subseteq X
    BY <1>1 DEF A
  <2> HIDE DEF X
  <2> QED BY <1>1, <1>2, <2>1, InSet
<1>5. is \o advanced \in Seq(X) /\ TopBar!ToSet(is \o advanced) = TopBar!ToSet(is) \cup TopBar!ToSet(advanced)
  <2> HIDE DEF X
  <2> QED BY <1>4, ConcatSet
<1>6. f \in Seq(X) /\ TopBar!ToSet(f) = TopBar!ToSet(is \o advanced)
  <2> HIDE DEF X
  <2> QED BY <1>5, DedupedRange
<1>7. TopBar!ToSet(f) = X
  BY <1>1, <1>5, <1>6 DEF A
<1>8. TopBar!Triples(f)
  <2>1. \A t \in X : t = <<t[1], t[2], t[3]>>
    BY <1>2, <1>3
  <2> HIDE DEF X
  <2> QED BY <1>6, <1>7, <2>1 DEF TopBar!Triples
<1> QED BY <1>7, <1>8 DEF I, A

\* The token of a filter has three parts, and they are the filter's if its key has no comma.
LEMMA TokenParts ==
    ASSUME NEW op, NEW key, NEW value, NEW token, token = TopBar!Token(<<op, key, value>>)
    PROVE  /\ token = <<token[1], token[2], token[3]>>
           /\ TopBar!Commas(key) = {} => token = <<op, key, value>>
<1> DEFINE parts == TopBar!Parted(key, value)
<1>1. token = <<op, parts[1], parts[2]>>
  BY DEF TopBar!Token
<1>2. TopBar!Commas(key) = {} => parts = <<key, value>>
  BY DEF TopBar!Parted
<1> HIDE DEF parts
<1> QED BY <1>1, <1>2

\* The tokens of the filters (serializeFilterEntry), by the parts they are read as.
LEMMA WrittenTokens ==
    ASSUME NEW entries, TopBar!Triples(entries), NEW f, f = [i \in DOMAIN entries |-> TopBar!Token(entries[i])]
    PROVE  /\ TopBar!Triples(f)
           /\ (\A t \in TopBar!ToSet(entries) : TopBar!Commas(t[2]) = {}) => TopBar!ToSet(f) = TopBar!ToSet(entries)
<1>1. /\ entries \in Seq(TopBar!ToSet(entries)) /\ TopBar!ToSet(entries) = {entries[i] : i \in DOMAIN entries}
      /\ \A t \in TopBar!ToSet(entries) : t = <<t[1], t[2], t[3]>>
  BY DEF TopBar!Triples, TopBar!ToSet
<1>2. DOMAIN entries = 1..Len(entries) /\ Len(entries) \in Nat
  BY <1>1
<1>3. DOMAIN f = DOMAIN entries /\ f = [i \in DOMAIN entries |-> f[i]] /\ TopBar!ToSet(f) = {f[i] : i \in DOMAIN entries}
  BY DEF TopBar!ToSet
<1>4. ASSUME NEW i \in DOMAIN entries
      PROVE  /\ f[i] = <<f[i][1], f[i][2], f[i][3]>> /\ f[i] \in TopBar!ToSet(f)
             /\ TopBar!Commas(entries[i][2]) = {} => f[i] = entries[i]
  <2>1. entries[i] = <<entries[i][1], entries[i][2], entries[i][3]>>
    BY <1>1
  <2>2. f[i] = TopBar!Token(<<entries[i][1], entries[i][2], entries[i][3]>>)
    BY <2>1
  <2> QED BY <1>3, <2>1, <2>2, TokenParts
<1>5. f \in Seq(TopBar!ToSet(f))
  <2>1. f \in [1..Len(entries) -> TopBar!ToSet(f)]
    BY <1>2, <1>3, <1>4
  <2> QED BY <1>2, <2>1
<1>6. TopBar!Triples(f)
  BY <1>3, <1>4, <1>5 DEF TopBar!Triples
<1>7. ASSUME \A t \in TopBar!ToSet(entries) : TopBar!Commas(t[2]) = {}
      PROVE  TopBar!ToSet(f) = TopBar!ToSet(entries)
  <2>1. \A i \in DOMAIN entries : f[i] = entries[i]
    BY <1>1, <1>4, <1>7
  <2> QED BY <1>1, <1>3, <2>1
<1> QED BY <1>6, <1>7

\* What is read from those tokens is what was written.
LEMMA ReadBack ==
    ASSUME NEW filters, TopBar!OfFilters(filters), NEW advanced, TopBar!OfTokens(advanced), NEW f, TopBar!Triples(f),
           TopBar!ToSet(f) = {<<"is", e[1], e[2]>> : e \in TopBar!ToSet(filters)} \cup TopBar!ToSet(advanced)
    PROVE  /\ TopBar!ToSet(TopBar!ParseFilters(f)) = TopBar!ToSet(filters)
           /\ TopBar!ToSet(TopBar!Only(f, {t \in TopBar!ToSet(f) : t[1] \in {"is_not", "contains"}})) = TopBar!ToSet(advanced)
<1> DEFINE read == TopBar!ParseFilters(f)
           F == TopBar!ToSet(filters)
           A == TopBar!ToSet(advanced)
<1>1. /\ \A e \in F : e = <<e[1], e[2]>> /\ e[1] # "event:goal"
      /\ \A e, g \in F : e[1] = g[1] => e = g
  BY KeysOfSet DEF TopBar!OfFilters, TopBar!Pairs
<1>2. \A t \in A : t[1] \in {"is_not", "contains"}
  BY DEF TopBar!OfTokens
<1>3. /\ \A e \in TopBar!ToSet(read) : \E t \in TopBar!ToSet(f) : t[1] = "is" /\ e = <<TopBar!FilterKey(t[2]), t[3]>>
      /\ \A t \in TopBar!ToSet(f) : t[1] = "is" => TopBar!FilterKey(t[2]) \in TopBar!Keys(read)
  BY ParsedFilters DEF TopBar!Triples
<1>4. \A t \in TopBar!ToSet(f) : t \in A \/ \E e \in F : t = <<"is", e[1], e[2]>>
  OBVIOUS
<1>5. \A e \in F : <<"is", e[1], e[2]>> \in TopBar!ToSet(f)
  OBVIOUS
<1>9. \A t \in A : t \in TopBar!ToSet(f)
  OBVIOUS
<1> HIDE DEF read, F, A
<1>6. ASSUME NEW x \in TopBar!ToSet(read) PROVE x \in F
  <2>1. PICK t \in TopBar!ToSet(f) : t[1] = "is" /\ x = <<TopBar!FilterKey(t[2]), t[3]>>
    BY <1>3
  <2>2. PICK e \in F : t = <<"is", e[1], e[2]>>
    BY <1>2, <1>4, <2>1
  <2>3. TopBar!FilterKey(t[2]) = e[1]
    BY <1>1, <2>2 DEF TopBar!FilterKey
  <2> QED BY <1>1, <2>1, <2>2, <2>3
<1>7. ASSUME NEW e \in F PROVE e \in TopBar!ToSet(read)
  <2>1. TopBar!FilterKey(e[1]) = e[1]
    BY <1>1 DEF TopBar!FilterKey
  <2>2. e[1] \in TopBar!Keys(read)
    <3>1. <<"is", e[1], e[2]>> \in TopBar!ToSet(f)
      BY <1>5
    <3>2. TopBar!FilterKey(<<"is", e[1], e[2]>>[2]) \in TopBar!Keys(read)
      BY <1>3, <3>1
    <3> QED BY <2>1, <3>2
  <2>3. PICK g \in TopBar!ToSet(read) : g[1] = e[1]
    BY <2>2, KeysOfSet
  <2> QED BY <1>1, <1>6, <2>3
<1>8. TopBar!ToSet(TopBar!Only(f, {t \in TopBar!ToSet(f) : t[1] \in {"is_not", "contains"}})) = A
  <2> DEFINE B == {t \in TopBar!ToSet(f) : t[1] \in {"is_not", "contains"}}
  <2>1. TopBar!ToSet(TopBar!Only(f, B)) = TopBar!ToSet(f) \cap B
    BY SubTokens
  <2>2. ASSUME NEW x \in TopBar!ToSet(f) \cap B PROVE x \in A
    BY <1>4
  <2>3. ASSUME NEW x \in A PROVE x \in TopBar!ToSet(f) \cap B
    BY <1>2, <1>9
  <2> QED BY <2>1, <2>2, <2>3
<1> QED BY <1>6, <1>7, <1>8 DEF read, F, A

\* What may be chosen from the menu and by the keys.
LEMMA ShortcutList ==
    ASSUME NEW x \in TopBar!Selections
    PROVE  \/ x = TopBar!Selection("day", "current")
           \/ x = TopBar!Selection("day", "last")
           \/ x = TopBar!Selection("realtime", TopBar!None)
           \/ x = TopBar!Selection("24h", TopBar!None)
           \/ x = TopBar!Selection("7d", TopBar!None)
           \/ x = TopBar!Selection("28d", TopBar!None)
           \/ x = TopBar!Selection("91d", TopBar!None)
           \/ x = TopBar!Selection("month", "current")
           \/ x = TopBar!Selection("month", "last")
           \/ x = TopBar!Selection("year", "current")
           \/ x = TopBar!Selection("6mo", TopBar!None)
           \/ x = TopBar!Selection("12mo", TopBar!None)
           \/ x = TopBar!Selection("all", TopBar!None)
<1>1. PICK hint \in DOMAIN TopBar!Shortcuts : x = TopBar!Shortcuts[hint]
  BY DEF TopBar!Selections
<1>2. DOMAIN TopBar!Shortcuts = {"D", "E", "R", "H", "W", "F", "N", "M", "P", "Y", "S", "L", "A"}
  BY DEF TopBar!Shortcuts
<1>3. /\ TopBar!Shortcuts["D"] = TopBar!Selection("day", "current")
      /\ TopBar!Shortcuts["E"] = TopBar!Selection("day", "last")
      /\ TopBar!Shortcuts["R"] = TopBar!Selection("realtime", TopBar!None)
      /\ TopBar!Shortcuts["H"] = TopBar!Selection("24h", TopBar!None)
      /\ TopBar!Shortcuts["W"] = TopBar!Selection("7d", TopBar!None)
      /\ TopBar!Shortcuts["F"] = TopBar!Selection("28d", TopBar!None)
      /\ TopBar!Shortcuts["N"] = TopBar!Selection("91d", TopBar!None)
      /\ TopBar!Shortcuts["M"] = TopBar!Selection("month", "current")
      /\ TopBar!Shortcuts["P"] = TopBar!Selection("month", "last")
      /\ TopBar!Shortcuts["Y"] = TopBar!Selection("year", "current")
      /\ TopBar!Shortcuts["S"] = TopBar!Selection("6mo", TopBar!None)
      /\ TopBar!Shortcuts["L"] = TopBar!Selection("12mo", TopBar!None)
      /\ TopBar!Shortcuts["A"] = TopBar!Selection("all", TopBar!None)
  BY DEF TopBar!Shortcuts
<1> QED BY <1>1, <1>2, <1>3

LEMMA NoPeriod == TopBar!None \notin TopBar!Periods
<1>1. ASSUME NEW x \in TopBar!Selections PROVE x.value # ""
  <2>1. \E v \in {"day", "realtime", "24h", "7d", "28d", "91d", "month", "year", "6mo", "12mo", "all"} : \E d :
          x = TopBar!Selection(v, d)
    BY ShortcutList
  <2>2. PICK v \in {"day", "realtime", "24h", "7d", "28d", "91d", "month", "year", "6mo", "12mo", "all"} : x.value = v
    BY <2>1 DEF TopBar!Selection
  <2> QED BY <2>2
<1> QED BY <1>1 DEF TopBar!Periods, TopBar!None

\* The canonical form keeps what the URL says (canonicalizeDashboardSearchParams).
LEMMA CanonicalSays ==
    ASSUME NEW p, p = [word |-> p.word, day |-> p.day, f |-> p.f, l |-> p.l], NEW canonical,
           canonical = TopBar!Canonicalize(p)
    PROVE  /\ canonical = [word |-> canonical.word, day |-> p.day, f |-> p.f, l |-> p.l]
           /\ TopBar!Word(canonical, "period") = IF TopBar!Word(p, "period") \in TopBar!Periods \ {"day"} THEN TopBar!Word(p, "period") ELSE TopBar!None
           /\ TopBar!Word(canonical, "with_imported") = IF TopBar!Word(p, "with_imported") = "false" THEN TopBar!None ELSE TopBar!Word(p, "with_imported")
           /\ TopBar!Word(canonical, "comparison") = TopBar!Word(p, "comparison")
           /\ TopBar!Word(canonical, "match_day_of_week") = TopBar!Word(p, "match_day_of_week")
<1> DEFINE R == TopBar!Redundant(p)
           words == [k \in DOMAIN p.word \ R |-> p.word[k]]
<1>1. canonical = [word |-> words, day |-> p.day, f |-> p.f, l |-> p.l]
  BY DEF TopBar!Canonicalize
<1>2. canonical.word = words
  BY <1>1
<1>3. TopBar!None \notin TopBar!Periods
  BY NoPeriod
<1>4. /\ "comparison" \notin R /\ "match_day_of_week" \notin R
      /\ "period" \in DOMAIN p.word => ("period" \in R <=> TopBar!Word(p, "period") \notin TopBar!Periods \ {"day"})
      /\ "with_imported" \in DOMAIN p.word => ("with_imported" \in R <=> TopBar!Word(p, "with_imported") = "false")
  <2> HIDE DEF words
  <2> QED BY DEF TopBar!Redundant, TopBar!Legacy
<1> HIDE DEF R
<1>5. ASSUME NEW k
      PROVE  TopBar!Word(canonical, k) = IF k \in DOMAIN p.word /\ k \in R THEN TopBar!None ELSE TopBar!Word(p, k)
  BY <1>2 DEF TopBar!Word
<1> HIDE DEF words
<1>6. ASSUME NEW k, k \notin DOMAIN p.word
      PROVE  TopBar!Word(p, k) = TopBar!None
  BY <1>6 DEF TopBar!Word
<1>7. TopBar!None # "false"
  BY DEF TopBar!None
<1> QED BY <1>1, <1>2, <1>3, <1>4, <1>5, <1>6, <1>7

\* So the page shows the same report after the URL was replaced by its canonical form.
LEMMA CanonicalReads ==
    ASSUME NEW u, TopBar!OfUrl(u), NEW v, v = [u EXCEPT !.params = TopBar!Canonicalize(u.params)]
    PROVE  TopBar!OfUrl(v) /\ TopBar!QueryOf(v) = TopBar!QueryOf(u)
<1> DEFINE p == u.params
           c == TopBar!Canonicalize(p)
<1>1. p = [word |-> p.word, day |-> p.day, f |-> p.f, l |-> p.l] /\ TopBar!OfDays(p.day) /\ TopBar!Triples(p.f)
      /\ u = [path |-> u.path, params |-> p]
  BY DEF TopBar!OfUrl
<1>2. v = [path |-> u.path, params |-> c]
  BY <1>1
<1> HIDE DEF c, p
<1>3. v.params = c /\ v.path = u.path
  BY <1>2
<1>4. /\ c = [word |-> c.word, day |-> p.day, f |-> p.f, l |-> p.l]
      /\ TopBar!Word(c, "period") = IF TopBar!Word(p, "period") \in TopBar!Periods \ {"day"} THEN TopBar!Word(p, "period") ELSE TopBar!None
      /\ TopBar!Word(c, "with_imported") = IF TopBar!Word(p, "with_imported") = "false" THEN TopBar!None ELSE TopBar!Word(p, "with_imported")
      /\ TopBar!Word(c, "comparison") = TopBar!Word(p, "comparison")
      /\ TopBar!Word(c, "match_day_of_week") = TopBar!Word(p, "match_day_of_week")
  <2>1. c = TopBar!Canonicalize(p)
    BY DEF c
  <2> QED BY <1>1, <2>1, CanonicalSays
<1>5. c.day = p.day /\ c.f = p.f /\ c.l = p.l
  BY <1>4
<1>6. TopBar!OfUrl(v)
  BY <1>1, <1>2, <1>3, <1>4, <1>5 DEF TopBar!OfUrl
<1>7. TopBar!None \notin TopBar!Periods
  BY NoPeriod
<1>8. /\ (IF TopBar!Word(c, "period") \in TopBar!Periods THEN TopBar!Word(c, "period") ELSE "day")
           = (IF TopBar!Word(p, "period") \in TopBar!Periods THEN TopBar!Word(p, "period") ELSE "day")
      /\ TopBar!BooleanParam(TopBar!Word(c, "with_imported"), FALSE) = TopBar!BooleanParam(TopBar!Word(p, "with_imported"), FALSE)
  <2>1. TopBar!BooleanParam(TopBar!None, FALSE) = FALSE /\ TopBar!BooleanParam("false", FALSE) = FALSE
    BY DEF TopBar!BooleanParam, TopBar!None
  <2> QED BY <1>4, <1>7, <2>1
<1>9. TopBar!QueryOf(v) = TopBar!QueryOf(u)
  BY <1>3, <1>4, <1>5, <1>8 DEF TopBar!QueryOf, TopBar!ParseQueryParams, TopBar!DefaultQuery, p
<1> QED BY <1>6, <1>9

\* What a query is written as, and what the parameters of the report are merged into.
LEMMA WrittenQuery ==
    ASSUME NEW u, TopBar!OfUrl(u), NEW q, TopBar!OfQuery(q), NEW close, NEW v,
           v = TopBar!NavigationUrl(u, q, close)
    PROVE  TopBar!Says(v, q)
<1> DEFINE written == TopBar!BuildQueryParams(q)
           rest == DOMAIN u.params.word \ TopBar!WordKeys
           merged == [written EXCEPT !.word = [k \in DOMAIN @ \cup rest |-> IF k \in rest THEN u.params.word[k] ELSE @[k]]]
           canonical == TopBar!Canonicalize(merged)
           is == [i \in DOMAIN q.filters |-> <<"is", q.filters[i][1], q.filters[i][2]>>]
           entries == TopBar!Deduped(is \o q.advanced)
           f == [i \in DOMAIN entries |-> TopBar!Token(entries[i])]
           used == {d \in DOMAIN q.day : q.comparison # TopBar!None \/ d \notin TopBar!CompareDays}
           day == [k \in used |-> q.day[k]]
           named == SelectSeq(q.labels, LAMBDA e : e[1] \in TopBar!Keys(q.filters) /\ TopBar!ValueOf(q.filters, e[1]) # e[2])
           l == [i \in DOMAIN named |-> TopBar!Parted(named[i][1], named[i][2])]
           keys == {"period", "with_imported"} \cup (IF q.comparison = TopBar!None THEN {} ELSE {"comparison", "match_day_of_week"})
           word == [k \in keys |->
               CASE k = "period" -> q.period
                 [] k = "comparison" -> q.comparison
                 [] k = "with_imported" -> TopBar!OfBoolean(q.withImported)
                 [] k = "match_day_of_week" -> TopBar!OfBoolean(q.matchDayOfWeek)]
<1>1. written = [word |-> word, day |-> day, f |-> f, l |-> l]
  BY DEF TopBar!BuildQueryParams
<1>2. v = [path |-> v.path, params |-> canonical] /\ v.params = canonical
  BY DEF TopBar!NavigationUrl, TopBar!MergeReportQueryParams
<1>3. /\ q.period \in TopBar!Periods /\ q.withImported \in BOOLEAN /\ q.matchDayOfWeek \in BOOLEAN
      /\ TopBar!OfDays(q.day) /\ TopBar!OfFilters(q.filters) /\ TopBar!OfTokens(q.advanced)
  BY DEF TopBar!OfQuery
<1>4. /\ merged = [word |-> merged.word, day |-> day, f |-> f, l |-> l]
      /\ merged.word = [k \in keys \cup rest |-> IF k \in rest THEN u.params.word[k] ELSE word[k]]
  <2> HIDE DEF word, day, f, l, rest, written
  <2>1. DOMAIN word = keys
    BY DEF word
  <2> QED BY <1>1, <2>1
<1>5. keys \cap rest = {} /\ "period" \notin rest /\ "comparison" \notin rest /\ "with_imported" \notin rest /\ "match_day_of_week" \notin rest
  BY DEF TopBar!WordKeys
<1>6. /\ "period" \in keys /\ "with_imported" \in keys
      /\ "comparison" \in keys <=> q.comparison # TopBar!None
      /\ "match_day_of_week" \in keys <=> q.comparison # TopBar!None
  OBVIOUS
<1>7. /\ word["period"] = q.period /\ word["with_imported"] = TopBar!OfBoolean(q.withImported)
      /\ q.comparison # TopBar!None => word["comparison"] = q.comparison /\ word["match_day_of_week"] = TopBar!OfBoolean(q.matchDayOfWeek)
  <2> HIDE DEF rest, merged, f, l, day, written, used
  <2> QED BY <1>6
<1>8. /\ TopBar!Triples(f)
      /\ TopBar!PlainKeys(q) =>
           TopBar!ToSet(f) = {<<"is", e[1], e[2]>> : e \in TopBar!ToSet(q.filters)} \cup TopBar!ToSet(q.advanced)
  <2>1. is = [i \in DOMAIN q.filters |-> <<"is", q.filters[i][1], q.filters[i][2]>>]
    OBVIOUS
  <2>2. entries = TopBar!Deduped(is \o q.advanced)
    OBVIOUS
  <2>3. TopBar!Pairs(q.filters) /\ TopBar!Triples(q.advanced)
    BY <1>3 DEF TopBar!OfFilters, TopBar!OfTokens
  <2>4. f = [i \in DOMAIN entries |-> TopBar!Token(entries[i])]
    OBVIOUS
  <2> HIDE DEF is, entries, f
  <2>5. /\ TopBar!Triples(entries)
        /\ TopBar!ToSet(entries) = {<<"is", e[1], e[2]>> : e \in TopBar!ToSet(q.filters)} \cup TopBar!ToSet(q.advanced)
    BY <2>1, <2>2, <2>3, WrittenFilters
  <2>6. /\ TopBar!Triples(f)
        /\ (\A t \in TopBar!ToSet(entries) : TopBar!Commas(t[2]) = {}) => TopBar!ToSet(f) = TopBar!ToSet(entries)
    BY <2>4, <2>5, WrittenTokens
  <2>7. ASSUME TopBar!PlainKeys(q), NEW t \in TopBar!ToSet(entries) PROVE TopBar!Commas(t[2]) = {}
    <3>1. CASE t \in TopBar!ToSet(q.advanced)
      BY <2>7, <3>1 DEF TopBar!PlainKeys
    <3>2. CASE \E e \in TopBar!ToSet(q.filters) : t = <<"is", e[1], e[2]>>
      BY <2>7, <3>2 DEF TopBar!PlainKeys
    <3> QED BY <2>5, <2>7, <3>1, <3>2
  <2> QED BY <2>5, <2>6, <2>7
<1>9. TopBar!OfDays(day)
  <2>1. used \subseteq DOMAIN q.day /\ DOMAIN day = used /\ \A k \in used : day[k] = q.day[k]
    OBVIOUS
  <2>2. day = [k \in used |-> q.day[k]]
    OBVIOUS
  <2> HIDE DEF used, day
  <2>3. day \in [DOMAIN day -> TopBar!Dates]
    BY <1>3, <2>1, <2>2 DEF TopBar!OfDays
  <2>4. TopBar!Ordered(day)
    BY <1>3, <2>1 DEF TopBar!OfDays, TopBar!Ordered, TopBar!CompareDays
  <2> QED BY <2>3, <2>4 DEF TopBar!OfDays
<1> HIDE DEF written, rest, merged, canonical, is, entries, f, word, keys, named, l, day
<1>10. /\ TopBar!Word(merged, "period") = q.period
       /\ TopBar!Word(merged, "with_imported") = TopBar!OfBoolean(q.withImported)
       /\ TopBar!Word(merged, "comparison") = q.comparison
       /\ q.comparison # TopBar!None => TopBar!Word(merged, "match_day_of_week") = TopBar!OfBoolean(q.matchDayOfWeek)
  <2>1. /\ DOMAIN merged.word = keys \cup rest
        /\ \A k \in keys : k \notin rest => merged.word[k] = word[k]
    BY <1>4
  <2> QED BY <1>5, <1>6, <1>7, <2>1 DEF TopBar!Word
<1>11. merged = [word |-> merged.word, day |-> merged.day, f |-> merged.f, l |-> merged.l]
       /\ merged.day = day /\ merged.f = f /\ merged.l = l
  BY <1>4
<1>12. /\ canonical = [word |-> canonical.word, day |-> day, f |-> f, l |-> l]
       /\ TopBar!Word(canonical, "period") = IF q.period \in TopBar!Periods \ {"day"} THEN q.period ELSE TopBar!None
       /\ TopBar!Word(canonical, "with_imported") = IF TopBar!OfBoolean(q.withImported) = "false" THEN TopBar!None ELSE TopBar!OfBoolean(q.withImported)
       /\ TopBar!Word(canonical, "comparison") = q.comparison
       /\ q.comparison # TopBar!None => TopBar!Word(canonical, "match_day_of_week") = TopBar!OfBoolean(q.matchDayOfWeek)
  <2>1. canonical = TopBar!Canonicalize(merged)
    BY DEF canonical
  <2> QED BY <1>10, <1>11, <2>1, CanonicalSays
<1>13. canonical.day = day /\ canonical.f = f
  BY <1>12
<1>14. TopBar!OfUrl(v)
  BY <1>2, <1>8, <1>9, <1>12, <1>13 DEF TopBar!OfUrl
<1>15. TopBar!OfQuery(TopBar!QueryOf(v))
  BY <1>14, ReadsQuery
<1> DEFINE r == TopBar!QueryOf(v)
<1>16. /\ r.period = q.period /\ r.comparison = q.comparison /\ r.withImported = q.withImported
       /\ q.comparison # TopBar!None => r.matchDayOfWeek = q.matchDayOfWeek
       /\ r.day = day /\ r.filters = TopBar!ParseFilters(f)
       /\ r.advanced = TopBar!Only(f, {t \in TopBar!ToSet(f) : t[1] \in {"is_not", "contains"}})
  <2>1. /\ r.period = IF TopBar!Word(canonical, "period") \in TopBar!Periods THEN TopBar!Word(canonical, "period") ELSE "day"
        /\ r.comparison = IF TopBar!Word(canonical, "comparison") # TopBar!None THEN TopBar!Word(canonical, "comparison") ELSE TopBar!None
        /\ r.withImported = TopBar!BooleanParam(TopBar!Word(canonical, "with_imported"), FALSE)
        /\ r.matchDayOfWeek = TopBar!BooleanParam(TopBar!Word(canonical, "match_day_of_week"), TRUE)
        /\ r.day = canonical.day /\ r.filters = TopBar!ParseFilters(canonical.f)
        /\ r.advanced = TopBar!Only(canonical.f, {t \in TopBar!ToSet(canonical.f) : t[1] \in {"is_not", "contains"}})
    BY <1>2 DEF TopBar!QueryOf, TopBar!ParseQueryParams, TopBar!DefaultQuery
  <2>2. r.period = q.period
    BY <1>3, <1>12, <2>1, NoPeriod
  <2>3. r.comparison = q.comparison
    BY <1>12, <2>1
  <2>4. r.withImported = q.withImported
    BY <1>3, <1>12, <2>1 DEF TopBar!BooleanParam, TopBar!OfBoolean, TopBar!None
  <2>5. q.comparison # TopBar!None => r.matchDayOfWeek = q.matchDayOfWeek
    BY <1>3, <1>12, <2>1 DEF TopBar!BooleanParam, TopBar!OfBoolean
  <2> QED BY <1>13, <2>1, <2>2, <2>3, <2>4, <2>5
<1>17. TopBar!PlainKeys(q) => TopBar!SameFilters(r, q)
  BY <1>3, <1>8, <1>16, ReadBack DEF TopBar!SameFilters
<1>18. TopBar!UsedDays(r) = TopBar!UsedDays(q)
  <2>1. TopBar!UsedDays(q) = {<<k, q.day[k]>> : k \in used}
    BY DEF TopBar!UsedDays
  <2>2. DOMAIN day = used /\ \A k \in used : day[k] = q.day[k]
    BY DEF day
  <2>3. {d \in DOMAIN r.day : r.comparison # TopBar!None \/ d \notin TopBar!CompareDays} = used
    BY <1>16, <2>2
  <2>4. TopBar!UsedDays(r) = {<<k, r.day[k]>> : k \in used}
    BY <2>3 DEF TopBar!UsedDays
  <2> HIDE DEF used, r
  <2>5. \A k \in used : <<k, r.day[k]>> = <<k, q.day[k]>>
    BY <1>16, <2>2
  <2> QED BY <2>1, <2>4, <2>5
<1>19. TopBar!SameReport(r, q)
  BY <1>16, <1>17, <1>18 DEF TopBar!SameReport, TopBar!SameTimes
<1> QED BY <1>14, <1>19 DEF TopBar!Says

-----------------------------------------------------------------------------
(* The queries the controls of the top bar ask for are queries.                 *)

DaysPut(days, key, found, next) ==
  /\ next \in [DOMAIN next -> TopBar!Dates]
  /\ DOMAIN next = (DOMAIN days \ {key}) \cup (IF found = {} THEN {} ELSE {key})
  /\ \A k \in DOMAIN next \ {key} : next[k] = days[k]
  /\ found # {} => next[key] \in found

LEMMA PutDays ==
    ASSUME NEW days, days \in [DOMAIN days -> TopBar!Dates], NEW key, NEW found \in SUBSET TopBar!Dates
    PROVE  DaysPut(days, key, found, TopBar!PutDay(days, key, found))
<1> DEFINE next == TopBar!PutDay(days, key, found)
           D == (DOMAIN days \ {key}) \cup (IF found = {} THEN {} ELSE {key})
           d == CHOOSE x \in found : TRUE
<1>1. found # {} => d \in found
  BY Zenon
<1>2. next = [k \in D |-> IF k = key THEN d ELSE days[k]]
  BY DEF TopBar!PutDay
<1>3. \A k \in D : k # key => k \in DOMAIN days
  OBVIOUS
<1>4. key \in D => found # {}
  OBVIOUS
<1> HIDE DEF d
<1>5. \A k \in D : (IF k = key THEN d ELSE days[k]) \in TopBar!Dates
  BY <1>1, <1>3, <1>4
<1>6. found # {} => key \in D
  OBVIOUS
<1> HIDE DEF D, next
<1>7. DaysPut(days, key, found, next)
  BY <1>1, <1>2, <1>5, <1>6 DEF D, DaysPut
<1> QED BY <1>7 DEF next

LEMMA Concatenated ==
    ASSUME NEW X, NEW m \in Seq(X), NEW n \in Seq(X)
    PROVE  /\ Len(m \o n) = Len(m) + Len(n) /\ m \o n \in Seq(X)
           /\ \A i \in 1..Len(m) : (m \o n)[i] = m[i]
           /\ \A i \in 1..Len(n) : (m \o n)[Len(m) + i] = n[i]
OBVIOUS

LEMMA PairAndOne ==
    ASSUME NEW a, NEW b, NEW x
    PROVE  <<a, b>> \o <<x>> = <<a, b, x>>
<1> DEFINE X == {a, b, x}
           m == <<a, b>>
           n == <<x>>
           r == m \o n
<1>1. m \in Seq(X) /\ n \in Seq(X)
  OBVIOUS
<1>2. Len(m) = 2 /\ Len(n) = 1 /\ m[1] = a /\ m[2] = b /\ n[1] = x
  OBVIOUS
<1> HIDE DEF X, m, n
<1>0. /\ Len(r) = Len(m) + Len(n) /\ r \in Seq(X)
      /\ \A i \in 1..Len(m) : r[i] = m[i]
      /\ \A i \in 1..Len(n) : r[Len(m) + i] = n[i]
  BY <1>1, Concatenated
<1> HIDE DEF r
<1>3. r \in Seq(X) /\ Len(r) = 3
  BY <1>0, <1>2
<1>4. r[1] = a /\ r[2] = b
  BY <1>0, <1>2
<1>5. r[3] = x
  BY <1>0, <1>2
<1>6. r = <<r[1], r[2], r[3]>>
  BY <1>3
<1>7. r = <<a, b, x>>
  BY <1>4, <1>5, <1>6
<1> QED BY <1>7 DEF r, m, n

LEMMA DaysOfMonths ==
    ASSUME NEW d \in TopBar!Dates
    PROVE  /\ TopBar!MonthBefore(d)[1] \in Int /\ TopBar!MonthBefore(d)[2] \in Int
           /\ TopBar!MonthBefore(d) = <<TopBar!MonthBefore(d)[1], TopBar!MonthBefore(d)[2]>>
           /\ TopBar!Yesterday(d) \in TopBar!Dates /\ TopBar!SetMonthBack(d) \in TopBar!Dates
<1> DEFINE m == TopBar!MonthBefore(d)
<1>1. d[1] \in Int /\ d[2] \in Int /\ d[3] \in Int /\ d = <<d[1], d[2], d[3]>>
  BY DEF TopBar!Dates
<1>2. m[1] \in Int /\ m[2] \in Int /\ m = <<m[1], m[2]>>
  BY <1>1 DEF TopBar!MonthBefore
<1>3. \A y, n : TopBar!DaysIn(y, n) \in Int
  BY DEF TopBar!DaysIn
<1> HIDE DEF m
<1>4. \A x : m \o <<x>> = <<m[1], m[2], x>>
  BY <1>2, PairAndOne
<1>5. TopBar!Yesterday(d) = IF d[3] > 1 THEN <<d[1], d[2], d[3] - 1>> ELSE m \o <<TopBar!DaysIn(m[1], m[2])>>
  BY DEF TopBar!Yesterday, m
<1>6. TopBar!Yesterday(d) \in TopBar!Dates
  BY <1>1, <1>2, <1>3, <1>4, <1>5 DEF TopBar!Dates
<1>7. TopBar!SetMonthBack(d) = IF d[3] - TopBar!DaysIn(m[1], m[2]) > 0 THEN <<d[1], d[2], d[3] - TopBar!DaysIn(m[1], m[2])>> ELSE m \o <<d[3]>>
  BY DEF TopBar!SetMonthBack, m
<1>8. TopBar!SetMonthBack(d) \in TopBar!Dates
  <2>1. TopBar!DaysIn(m[1], m[2]) \in Int
    BY <1>3
  <2> QED BY <1>1, <1>2, <1>4, <1>7, <2>1 DEF TopBar!Dates
<1> QED BY <1>2, <1>6, <1>8 DEF m

LEMMA SelectedDay ==
    ASSUME NEW x, NEW d \in TopBar!Dates
    PROVE  TopBar!SelectionDay(x, d) \subseteq TopBar!Dates
<1>1. TopBar!Yesterday(d) \in TopBar!Dates /\ TopBar!SetMonthBack(d) \in TopBar!Dates
  BY DaysOfMonths
<1>2. d[1] \in Int /\ d[2] \in Int
  BY DEF TopBar!Dates
<1>3. TopBar!SetMonthBack(d)[1] \in Int /\ TopBar!SetMonthBack(d)[2] \in Int
  BY <1>1 DEF TopBar!Dates
<1>4. CASE x = TopBar!Selection("day", "last")
  <2>1. x.value = "day"
    BY <1>4 DEF TopBar!Selection
  <2>2. TopBar!SelectionDay(x, d) = {TopBar!Yesterday(d)}
    BY <1>4, <2>1 DEF TopBar!SelectionDay
  <2> QED BY <1>1, <2>2
<1>5. CASE x # TopBar!Selection("day", "last") /\ x.value = "month"
  <2> DEFINE e == IF x.setDate = "last" THEN TopBar!SetMonthBack(d) ELSE d
  <2>1. e[1] \in Int /\ e[2] \in Int
    BY <1>2, <1>3
  <2>2. TopBar!SelectionDay(x, d) = {<<e[1], e[2], 1>>}
    BY <1>5 DEF TopBar!SelectionDay
  <2> HIDE DEF e
  <2> QED BY <2>1, <2>2 DEF TopBar!Dates
<1>6. CASE x # TopBar!Selection("day", "last") /\ x.value = "year"
  <2>1. TopBar!SelectionDay(x, d) = {<<IF x.setDate = "last" THEN d[1] - 1 ELSE d[1], 1, 1>>}
    BY <1>6 DEF TopBar!SelectionDay
  <2> QED BY <1>2, <2>1 DEF TopBar!Dates
<1>7. CASE x # TopBar!Selection("day", "last") /\ x.value \notin {"month", "year"}
  BY <1>7 DEF TopBar!SelectionDay
<1> QED BY <1>4, <1>5, <1>6, <1>7

\* A query asks for something else when its period, its days, its comparison or its filters change.
LEMMA OtherQuery ==
    ASSUME NEW q, TopBar!OfQuery(q), NEW period \in TopBar!Periods, NEW comparison, NEW day, TopBar!OfDays(day),
           NEW match \in BOOLEAN, NEW filters, TopBar!OfFilters(filters), NEW labels,
           NEW advanced, TopBar!OfTokens(advanced), NEW r,
           r = [period |-> period, comparison |-> comparison, day |-> day, withImported |-> q.withImported,
                matchDayOfWeek |-> match, filters |-> filters, labels |-> labels, advanced |-> advanced]
    PROVE  TopBar!OfQuery(r)
<1>1. q.withImported \in BOOLEAN
  BY DEF TopBar!OfQuery
<1>2. r \in [period : TopBar!Periods, comparison : {r.comparison}, day : {r.day}, withImported : BOOLEAN,
             matchDayOfWeek : BOOLEAN, filters : {r.filters}, labels : {r.labels}, advanced : {r.advanced}]
  BY <1>1
<1> QED BY <1>2 DEF TopBar!OfQuery

LEMMA QueryParts ==
    ASSUME NEW q, TopBar!OfQuery(q)
    PROVE  /\ q = [period |-> q.period, comparison |-> q.comparison, day |-> q.day, withImported |-> q.withImported,
                   matchDayOfWeek |-> q.matchDayOfWeek, filters |-> q.filters, labels |-> q.labels, advanced |-> q.advanced]
           /\ q.period \in TopBar!Periods /\ q.withImported \in BOOLEAN /\ q.matchDayOfWeek \in BOOLEAN
           /\ TopBar!OfDays(q.day) /\ TopBar!OfFilters(q.filters) /\ TopBar!OfTokens(q.advanced)
BY DEF TopBar!OfQuery

LEMMA PeriodQuery ==
    ASSUME NEW q, TopBar!OfQuery(q), NEW x, x.value \in TopBar!Periods, NEW d \in TopBar!Dates
    PROVE  TopBar!OfQuery(TopBar!ApplyPeriodSelection(q, x, d))
<1> DEFINE a == TopBar!PutDay(q.day, "from", {})
           b == TopBar!PutDay(a, "to", {})
           c == TopBar!PutDay(b, "date", TopBar!SelectionDay(x, d))
           r == TopBar!ApplyPeriodSelection(q, x, d)
<1>1. q.day \in [DOMAIN q.day -> TopBar!Dates] /\ TopBar!Ordered(q.day)
  BY QueryParts DEF TopBar!OfDays
<1>2. TopBar!SelectionDay(x, d) \subseteq TopBar!Dates
  BY SelectedDay
<1>3. r = [period |-> x.value, comparison |-> q.comparison, day |-> c, withImported |-> q.withImported,
           matchDayOfWeek |-> q.matchDayOfWeek, filters |-> q.filters, labels |-> q.labels, advanced |-> q.advanced]
  <2>1. q = [period |-> q.period, comparison |-> q.comparison, day |-> q.day, withImported |-> q.withImported,
             matchDayOfWeek |-> q.matchDayOfWeek, filters |-> q.filters, labels |-> q.labels, advanced |-> q.advanced]
    BY QueryParts, Zenon
  <2>2. r = [q EXCEPT !.period = x.value, !.day = c]
    BY DEF TopBar!ApplyPeriodSelection
  <2> HIDE DEF r, c
  <2> QED BY <2>1, <2>2
<1> HIDE DEF r
<1>4. /\ a \in [DOMAIN a -> TopBar!Dates] /\ DOMAIN a = DOMAIN q.day \ {"from"}
      /\ \A k \in DOMAIN a : a[k] = q.day[k]
  <2>1. a = TopBar!PutDay(q.day, "from", {})
    OBVIOUS
  <2> HIDE DEF a, b, c
  <2>2. {} \in SUBSET TopBar!Dates
    OBVIOUS
  <2>3. DaysPut(q.day, "from", {}, a)
    BY <1>1, <2>1, <2>2, PutDays
  <2> QED BY <2>3 DEF DaysPut
<1>5. /\ b \in [DOMAIN b -> TopBar!Dates] /\ DOMAIN b = DOMAIN a \ {"to"}
      /\ \A k \in DOMAIN b : b[k] = a[k]
  <2>1. b = TopBar!PutDay(a, "to", {})
    OBVIOUS
  <2> HIDE DEF a, b, c
  <2>2. {} \in SUBSET TopBar!Dates
    OBVIOUS
  <2>3. DaysPut(a, "to", {}, b)
    BY <1>4, <2>1, <2>2, PutDays
  <2> QED BY <2>3 DEF DaysPut
<1>6. /\ c \in [DOMAIN c -> TopBar!Dates] /\ DOMAIN c \subseteq DOMAIN b \cup {"date"}
      /\ \A k \in DOMAIN c \ {"date"} : c[k] = b[k]
  <2>1. c = TopBar!PutDay(b, "date", TopBar!SelectionDay(x, d))
    OBVIOUS
  <2> HIDE DEF a, b, c
  <2>2. DaysPut(b, "date", TopBar!SelectionDay(x, d), c)
    BY <1>2, <1>5, <2>1, PutDays
  <2> QED BY <2>2 DEF DaysPut
<1> HIDE DEF a, b, c
<1>7. TopBar!Ordered(c)
  BY <1>1, <1>4, <1>5, <1>6 DEF TopBar!Ordered, TopBar!CompareDays
<1>8. TopBar!OfDays(c)
  BY <1>6, <1>7 DEF TopBar!OfDays
<1>9. TopBar!OfQuery(r)
  BY <1>3, <1>8, QueryParts, OtherQuery
<1> QED BY <1>9 DEF r

\* Clearing the days of a comparison.
LEMMA ClearedDays ==
    ASSUME NEW days, TopBar!OfDays(days)
    PROVE  TopBar!OfDays(TopBar!PutDay(TopBar!PutDay(days, "compare_from", {}), "compare_to", {}))
<1> DEFINE a == TopBar!PutDay(days, "compare_from", {})
           b == TopBar!PutDay(a, "compare_to", {})
<1>1. days \in [DOMAIN days -> TopBar!Dates] /\ TopBar!Ordered(days) /\ {} \in SUBSET TopBar!Dates
  BY DEF TopBar!OfDays
<1>2. DaysPut(days, "compare_from", {}, a)
  BY <1>1, PutDays
<1> HIDE DEF a
<1>3. a \in [DOMAIN a -> TopBar!Dates]
  BY <1>2 DEF DaysPut
<1>4. DaysPut(a, "compare_to", {}, b)
  BY <1>1, <1>3, PutDays
<1> HIDE DEF b
<1>5. TopBar!Ordered(b)
  BY <1>1, <1>2, <1>4 DEF DaysPut, TopBar!Ordered, TopBar!CompareDays
<1>6. TopBar!OfDays(b)
  BY <1>4, <1>5 DEF DaysPut, TopBar!OfDays
<1> QED BY <1>6 DEF a, b

\* Whatever the order of the clicks, the range of a calendar is ordered (handleDayClick).
LEMMA ClickedDays ==
    ASSUME NEW days, TopBar!OfDays(days), NEW start \in TopBar!Dates, NEW day \in TopBar!Dates,
           NEW from, NEW to, <<from, to>> \in {<<"from", "to">>, <<"compare_from", "compare_to">>},
           NEW range, range = TopBar!RangeOf(start, day)
    PROVE  TopBar!OfDays(TopBar!PutRange(days, from, to, range[1], range[2]))
<1> DEFINE a == TopBar!PutDay(days, from, {range[1]})
           b == TopBar!PutDay(a, to, {range[2]})
<1>0. /\ start[1] \in Int /\ start[2] \in Int /\ start[3] \in Int
      /\ day[1] \in Int /\ day[2] \in Int /\ day[3] \in Int
  BY DEF TopBar!Dates
<1>1. range[1] \in TopBar!Dates /\ range[2] \in TopBar!Dates /\ ~TopBar!Before(range[2], range[1])
  <2>1. CASE TopBar!Before(day, start)
    <3>1. range[1] = day /\ range[2] = start
      BY <2>1 DEF TopBar!RangeOf
    <3>2. ~TopBar!Before(start, day)
      BY <1>0, <2>1 DEF TopBar!Before
    <3> QED BY <3>1, <3>2
  <2>2. CASE ~TopBar!Before(day, start)
    BY <2>2 DEF TopBar!RangeOf
  <2> QED BY <2>1, <2>2
<1>2. days \in [DOMAIN days -> TopBar!Dates] /\ TopBar!Ordered(days)
  BY DEF TopBar!OfDays
<1>3. DaysPut(days, from, {range[1]}, a)
  <2>1. {range[1]} \in SUBSET TopBar!Dates
    BY <1>1
  <2> QED BY <1>2, <2>1, PutDays
<1> HIDE DEF a
<1>4. a \in [DOMAIN a -> TopBar!Dates]
  BY <1>3 DEF DaysPut
<1>5. DaysPut(a, to, {range[2]}, b)
  <2>1. {range[2]} \in SUBSET TopBar!Dates
    BY <1>1
  <2> QED BY <1>4, <2>1, PutDays
<1> HIDE DEF b
<1>6. /\ DOMAIN b = (DOMAIN days \cup {from}) \cup {to} /\ b[to] = range[2] /\ b[from] = range[1]
      /\ \A k \in DOMAIN b \ {from, to} : b[k] = days[k]
  <2>0. from # to
    OBVIOUS
  <2>1. /\ DOMAIN a = (DOMAIN days \ {from}) \cup {from} /\ a[from] = range[1]
        /\ \A k \in DOMAIN a \ {from} : a[k] = days[k]
    BY <1>3 DEF DaysPut
  <2>2. /\ DOMAIN b = (DOMAIN a \ {to}) \cup {to} /\ b[to] = range[2]
        /\ \A k \in DOMAIN b \ {to} : b[k] = a[k]
    BY <1>5 DEF DaysPut
  <2> QED BY <2>0, <2>1, <2>2
<1>7. TopBar!Ordered(b)
  <2>1. CASE from = "from" /\ to = "to"
    BY <1>1, <1>2, <1>6, <2>1 DEF TopBar!Ordered, TopBar!CompareDays
  <2>2. CASE from = "compare_from" /\ to = "compare_to"
    BY <1>1, <1>2, <1>6, <2>2 DEF TopBar!Ordered, TopBar!CompareDays
  <2> QED BY <2>1, <2>2
<1>8. TopBar!OfDays(b)
  BY <1>5, <1>7 DEF DaysPut, TopBar!OfDays
<1> QED BY <1>8 DEF a, b, TopBar!PutRange

LEMMA AppendToken ==
    ASSUME NEW tokens, TopBar!OfTokens(tokens), NEW op \in {"is_not", "contains"}, NEW dim, NEW value
    PROVE  TopBar!OfTokens(Append(tokens, <<op, dim, value>>))
<1> DEFINE t == <<op, dim, value>>
           X == TopBar!ToSet(tokens) \cup {t}
           next == Append(tokens, t)
<1>1. /\ tokens \in Seq(TopBar!ToSet(tokens)) /\ \A x \in TopBar!ToSet(tokens) : x = <<x[1], x[2], x[3]>>
      /\ \A x \in TopBar!ToSet(tokens) : x[1] \in {"is_not", "contains"}
  BY DEF TopBar!OfTokens, TopBar!Triples
<1>2. t = <<t[1], t[2], t[3]>> /\ t[1] \in {"is_not", "contains"}
  OBVIOUS
<1> HIDE DEF t
<1>3. tokens \in Seq(X) /\ t \in X
  <2>1. TopBar!ToSet(tokens) \subseteq X /\ t \in X
    OBVIOUS
  <2> HIDE DEF X
  <2> QED BY <1>1, <2>1, InSet
<1>4. next \in Seq(X) /\ TopBar!ToSet(next) = X
  <2>1. TopBar!ToSet(next) = TopBar!ToSet(tokens) \cup {t} /\ next \in Seq(X)
    <3> HIDE DEF X
    <3> QED BY <1>3, AppendSet
  <2> QED BY <2>1
<1>5. \A x \in X : x = <<x[1], x[2], x[3]>> /\ x[1] \in {"is_not", "contains"}
  BY <1>1, <1>2
<1> HIDE DEF X, next
<1>6. TopBar!OfTokens(next)
  BY <1>4, <1>5 DEF TopBar!OfTokens, TopBar!Triples
<1> QED BY <1>6 DEF next, t

LEMMA SubOfTokens ==
    ASSUME NEW tokens, TopBar!OfTokens(tokens), NEW A
    PROVE  TopBar!OfTokens(TopBar!Only(tokens, A))
BY SubTokens DEF TopBar!OfTokens

FieldApplied(q, dim, op, value, r) ==
  LET dropped == TopBar!DropKey(q.filters, dim)
      without == TopBar!Only(q.advanced, {t \in TopBar!ToSet(q.advanced) : t[2] # dim})
  IN /\ TopBar!OfQuery(r)
     /\ r = [period |-> q.period, comparison |-> q.comparison, day |-> q.day, withImported |-> q.withImported,
             matchDayOfWeek |-> q.matchDayOfWeek, filters |-> r.filters, labels |-> q.labels, advanced |-> r.advanced]
     /\ r.filters \in {dropped, TopBar!PutKey(dropped, dim, value)}
     /\ r.advanced \in {without, Append(without, <<op, dim, value>>)}

\* One field of a form filters by its dimension, or by nothing of it (applyOperatorFilters).
LEMMA FieldQuery ==
    ASSUME NEW q, TopBar!OfQuery(q), NEW dim, dim # "event:goal", NEW op \in TopBar!Operators, NEW value,
           NEW r, r = TopBar!ApplyField(q, dim, op, value)
    PROVE  FieldApplied(q, dim, op, value, r)
<1> DEFINE dropped == TopBar!DropKey(q.filters, dim)
           put == TopBar!PutKey(dropped, dim, value)
           without == TopBar!Only(q.advanced, {t \in TopBar!ToSet(q.advanced) : t[2] # dim})
           appended == Append(without, <<op, dim, value>>)
           With(f, a) == [period |-> q.period, comparison |-> q.comparison, day |-> q.day, withImported |-> q.withImported,
                          matchDayOfWeek |-> q.matchDayOfWeek, filters |-> f, labels |-> q.labels, advanced |-> a]
<1>1. q = With(q.filters, q.advanced)
  BY QueryParts, Zenon
<1>2. TopBar!OfFilters(q.filters) /\ TopBar!OfTokens(q.advanced)
  BY QueryParts
<1>3. TopBar!OfFilters(dropped) /\ TopBar!OfTokens(without)
  BY <1>2, SubFilters, SubOfTokens DEF TopBar!DropKey
<1>4. op # "is" => op \in {"is_not", "contains"}
  BY DEF TopBar!Operators
<1>5. r = IF value = TopBar!None THEN [q EXCEPT !.filters = dropped, !.advanced = without]
          ELSE IF op = "is" THEN [[q EXCEPT !.filters = dropped, !.advanced = without] EXCEPT !.filters = TopBar!PutKey(@, dim, value)]
          ELSE [[q EXCEPT !.filters = dropped, !.advanced = without] EXCEPT !.advanced = Append(@, <<op, dim, value>>)]
  BY DEF TopBar!ApplyField
<1>6. TopBar!OfFilters(put) /\ (op # "is" => TopBar!OfTokens(appended))
  <2> HIDE DEF dropped, without
  <2> QED BY <1>3, <1>4, PutFilter, AppendToken
<1> HIDE DEF dropped, without
<1>7. \/ r = With(dropped, without)
      \/ r = With(put, without)
      \/ op # "is" /\ r = With(dropped, appended)
  <2>1. [q EXCEPT !.filters = dropped, !.advanced = without] = With(dropped, without)
    <3> DEFINE x == [q EXCEPT !.filters = dropped, !.advanced = without]
    <3>1. x = [q EXCEPT !.filters = dropped, !.advanced = without]
      OBVIOUS
    <3>2. q = [period |-> q.period, comparison |-> q.comparison, day |-> q.day, withImported |-> q.withImported,
               matchDayOfWeek |-> q.matchDayOfWeek, filters |-> q.filters, labels |-> q.labels, advanced |-> q.advanced]
      BY <1>1
    <3> HIDE DEF x
    <3>3. x = With(dropped, without)
      BY <3>1, <3>2
    <3> QED BY <3>3 DEF x
  <2> QED BY <1>5, <2>1
<1> HIDE DEF put, appended
<1>8. \E f, a : r = With(f, a) /\ TopBar!OfFilters(f) /\ TopBar!OfTokens(a) /\ f \in {dropped, put} /\ a \in {without, appended}
  BY <1>3, <1>6, <1>7
<1>9. PICK f, a : r = With(f, a) /\ TopBar!OfFilters(f) /\ TopBar!OfTokens(a) /\ f \in {dropped, put} /\ a \in {without, appended}
  BY <1>8
<1>10. TopBar!OfQuery(r)
  BY <1>9, QueryParts, OtherQuery
<1>11. r.filters = f /\ r.advanced = a
  BY <1>9
<1>12. r.filters \in {dropped, put} /\ r.advanced \in {without, appended}
  BY <1>9, <1>11
<1> QED BY <1>9, <1>10, <1>11, <1>12 DEF dropped, put, without, appended, FieldApplied

\* The elements of a finite set, in some order.
LEMMA InOrder ==
    ASSUME NEW S, IsFiniteSet(S)
    PROVE  TopBar!SetToSeq(S) \in Seq(S)
<1>1. Cardinality(S) \in Nat /\ ExistsBijection(1..Cardinality(S), S)
  BY FS_CardinalityType
<1>2. TopBar!Cardinality(S) = Cardinality(S)
  BY DEF TopBar!Cardinality, Cardinality
<1>3. PICK h \in [1..Cardinality(S) -> S] : IsInjective(h)
  BY <1>1 DEF ExistsBijection, Bijection, Injection
<1>4. TopBar!IsInjective(h)
  BY <1>3 DEF IsInjective, TopBar!IsInjective
<1>5. TopBar!SetToSeq(S) \in [1..Cardinality(S) -> S]
  BY <1>2, <1>3, <1>4, Zenon DEF TopBar!SetToSeq
<1> QED BY <1>1, <1>5

LEMMA FormDimensions ==
    ASSUME NEW type \in DOMAIN TopBar!FormDims
    PROVE  /\ IsFiniteSet(TopBar!FormDims[type])
           /\ "event:goal" \notin TopBar!FormDims[type] /\ TopBar!None \notin TopBar!FormDims[type]
<1>1. DOMAIN TopBar!FormDims = {"page", "location", "source", "utm", "browser", "browser_version", "os", "os_version", "size", "goal", "property"}
  BY DEF TopBar!FormDims
<1>2. \A a, b, c : IsFiniteSet({a}) /\ IsFiniteSet({a, b, c})
  <2> SUFFICES ASSUME NEW a, NEW b, NEW c PROVE IsFiniteSet({a}) /\ IsFiniteSet({a, b, c})
    OBVIOUS
  <2>1. IsFiniteSet({a})
    BY FS_Singleton
  <2>2. IsFiniteSet({a} \cup {b})
    BY <2>1, FS_AddElement
  <2>3. IsFiniteSet(({a} \cup {b}) \cup {c})
    BY <2>2, FS_AddElement
  <2>4. ({a} \cup {b}) \cup {c} = {a, b, c}
    OBVIOUS
  <2> QED BY <2>1, <2>3, <2>4
<1>7. TopBar!ToSet(TopBar!UtmOrder) = ({"utm_medium", "utm_source", "utm_campaign"} \cup {"utm_content"}) \cup {"utm_term"}
  <2>1. DOMAIN TopBar!UtmOrder = 1..5
    BY DEF TopBar!UtmOrder
  <2>2. 1..5 = {1, 2, 3, 4, 5}
    OBVIOUS
  <2>3. /\ TopBar!UtmOrder[1] = "utm_medium" /\ TopBar!UtmOrder[2] = "utm_source" /\ TopBar!UtmOrder[3] = "utm_campaign"
        /\ TopBar!UtmOrder[4] = "utm_content" /\ TopBar!UtmOrder[5] = "utm_term"
    BY DEF TopBar!UtmOrder
  <2> QED BY <2>1, <2>2, <2>3 DEF TopBar!ToSet
<1>3. IsFiniteSet(TopBar!ToSet(TopBar!UtmOrder))
  <2>1. IsFiniteSet({"utm_medium", "utm_source", "utm_campaign"})
    BY <1>2
  <2>2. IsFiniteSet({"utm_medium", "utm_source", "utm_campaign"} \cup {"utm_content"})
    BY <2>1, FS_AddElement
  <2>3. IsFiniteSet(({"utm_medium", "utm_source", "utm_campaign"} \cup {"utm_content"}) \cup {"utm_term"})
    BY <2>2, FS_AddElement
  <2> QED BY <1>7, <2>3
<1>4. /\ TopBar!FormDims["page"] = {"page", "entry_page", "exit_page"}
      /\ TopBar!FormDims["location"] = {"country", "region", "city"} /\ TopBar!FormDims["source"] = {"source"}
      /\ TopBar!FormDims["utm"] = TopBar!ToSet(TopBar!UtmOrder) /\ TopBar!FormDims["browser"] = {"browser"}
      /\ TopBar!FormDims["browser_version"] = {"browser_version"} /\ TopBar!FormDims["os"] = {"os"}
      /\ TopBar!FormDims["os_version"] = {"os_version"} /\ TopBar!FormDims["size"] = {"size"}
      /\ TopBar!FormDims["goal"] = {"goal"} /\ TopBar!FormDims["property"] = {"prop"}
  BY DEF TopBar!FormDims
<1>5. /\ IsFiniteSet({"page", "entry_page", "exit_page"}) /\ IsFiniteSet({"country", "region", "city"})
      /\ IsFiniteSet({"source"}) /\ IsFiniteSet({"browser"}) /\ IsFiniteSet({"browser_version"}) /\ IsFiniteSet({"os"})
      /\ IsFiniteSet({"os_version"}) /\ IsFiniteSet({"size"}) /\ IsFiniteSet({"goal"}) /\ IsFiniteSet({"prop"})
  BY <1>2, Zenon
<1>6. TopBar!ToSet(TopBar!UtmOrder) = {"utm_medium", "utm_source", "utm_campaign", "utm_content", "utm_term"}
  BY <1>7
<1>8. "event:goal" \notin TopBar!FormDims[type]
  BY <1>1, <1>4, <1>6
<1>9. "" \notin TopBar!FormDims[type]
  <2> DEFINE dims == {"page", "entry_page", "exit_page", "country", "region", "city", "source", "browser", "browser_version",
                     "os", "os_version", "size", "goal", "prop",
                     "utm_medium", "utm_source", "utm_campaign", "utm_content", "utm_term"}
  <2>1. TopBar!FormDims[type] \subseteq dims
    BY <1>1, <1>4, <1>6
  <2>2. "" \notin dims
    OBVIOUS
  <2> QED BY <2>1, <2>2, Zenon
<1>10. IsFiniteSet(TopBar!FormDims[type])
  BY <1>1, <1>3, <1>4, <1>5
<1> QED BY <1>8, <1>9, <1>10 DEF TopBar!None

\* Applying the fields one after another, step by step.
LEMMA FormLoop ==
    ASSUME NEW q, TopBar!OfQuery(q), NEW fm, NEW dims, NEW X, dims \in Seq(X), dims = TopBar!SetToSeq(DOMAIN fm.fields),
           \A i \in 1..Len(dims) : /\ TopBar!FilterDim(fm, dims[i]) # "event:goal"
                                   /\ fm.fields[dims[i]][1] \in TopBar!Operators
    PROVE  TopBar!OfQuery(TopBar!ApplyForm(q, fm))
<1> DEFINE n == Len(dims)
           Field(r, i) == TopBar!ApplyField(r, TopBar!FilterDim(fm, dims[i]), fm.fields[dims[i]][1], fm.fields[dims[i]][2])
           K == TopBar!Keys(q.filters) \cup {TopBar!FilterDim(fm, dims[i]) : i \in 1..n}
           V == {e[2] : e \in TopBar!ToSet(q.filters)} \cup {fm.fields[dims[i]][2] : i \in 1..n}
           T == TopBar!ToSet(q.advanced) \cup {<<fm.fields[dims[i]][1], TopBar!FilterDim(fm, dims[i]), fm.fields[dims[i]][2]>> : i \in 1..n}
           With(f, a) == [period |-> q.period, comparison |-> q.comparison, day |-> q.day, withImported |-> q.withImported,
                          matchDayOfWeek |-> q.matchDayOfWeek, filters |-> f, labels |-> q.labels, advanced |-> a]
           All == {With(f, a) : f \in Seq(K \X V), a \in Seq(T)}
           S == {r \in All : TopBar!OfQuery(r)}
           Is(f) == f = [t \in SUBSET DOMAIN dims |-> IF t = {} THEN q ELSE Field(f[t \ {TopBar!Max(t)}], TopBar!Max(t))]
           f == CHOOSE h : Is(h)
           g == [p \in (1..n) \X S |-> Field(p[2], p[1])]
<1>1. n \in Nat /\ DOMAIN dims = 1..n
  OBVIOUS
<1>2. q \in S
  <2>1. q.filters \in Seq(K \X V)
    <3>1. q.filters \in Seq(TopBar!Keys(q.filters) \X {e[2] : e \in TopBar!ToSet(q.filters)})
      BY QueryParts, PairsAre DEF TopBar!OfFilters
    <3>2. TopBar!ToSet(q.filters) \subseteq TopBar!Keys(q.filters) \X {e[2] : e \in TopBar!ToSet(q.filters)}
      BY <3>1, InSet
    <3>3. TopBar!ToSet(q.filters) \subseteq K \X V
      BY <3>2
    <3> HIDE DEF K, V
    <3> QED BY <3>1, <3>3, InSet
  <2>2. q.advanced \in Seq(T)
    <3>1. q.advanced \in Seq(TopBar!ToSet(q.advanced))
      BY QueryParts DEF TopBar!OfTokens, TopBar!Triples
    <3>2. TopBar!ToSet(q.advanced) \subseteq T
      OBVIOUS
    <3> HIDE DEF T
    <3> QED BY <3>1, <3>2, InSet
  <2>3. q = With(q.filters, q.advanced)
    BY QueryParts, Zenon
  <2> HIDE DEF K, V, T
  <2>4. q \in All
    BY <2>1, <2>2, <2>3
  <2> HIDE DEF All
  <2> QED BY <2>4
<1>3. ASSUME NEW r \in S, NEW i \in 1..n PROVE Field(r, i) \in S
  <2> DEFINE dim == TopBar!FilterDim(fm, dims[i])
             op == fm.fields[dims[i]][1]
             value == fm.fields[dims[i]][2]
             next == Field(r, i)
             without == TopBar!Only(r.advanced, {t \in TopBar!ToSet(r.advanced) : t[2] # dim})
  <2>1. TopBar!OfQuery(r) /\ r \in All
    <3> HIDE DEF All
    <3> QED OBVIOUS
  <2>2. dim # "event:goal" /\ op \in TopBar!Operators
    BY <1>1
  <2>3. dim \in K /\ value \in V /\ <<op, dim, value>> \in T
    <3> HIDE DEF n
    <3>1. dim \in {TopBar!FilterDim(fm, dims[j]) : j \in 1..n}
      OBVIOUS
    <3>2. value \in {fm.fields[dims[j]][2] : j \in 1..n}
      OBVIOUS
    <3>3. <<op, dim, value>> \in {<<fm.fields[dims[j]][1], TopBar!FilterDim(fm, dims[j]), fm.fields[dims[j]][2]>> : j \in 1..n}
      OBVIOUS
    <3> HIDE DEF dim, value, op
    <3> QED BY <3>1, <3>2, <3>3
  <2>4. next = TopBar!ApplyField(r, dim, op, value)
    OBVIOUS
  <2> HIDE DEF K, V, T
  <2>5. PICK rf \in Seq(K \X V), ra \in Seq(T) : r = With(rf, ra)
    BY <2>1
  <2> HIDE DEF dim, op, value, next, All
  <2>6. r.filters = rf /\ r.advanced = ra
    BY <2>5
  <2>7. /\ TopBar!OfQuery(next)
        /\ next = [period |-> r.period, comparison |-> r.comparison, day |-> r.day, withImported |-> r.withImported,
                   matchDayOfWeek |-> r.matchDayOfWeek, filters |-> next.filters, labels |-> r.labels, advanced |-> next.advanced]
        /\ next.filters \in {TopBar!DropKey(r.filters, dim), TopBar!PutKey(TopBar!DropKey(r.filters, dim), dim, value)}
        /\ next.advanced \in {without, Append(without, <<op, dim, value>>)}
    <3>1. FieldApplied(r, dim, op, value, next)
      BY <2>1, <2>2, <2>4, FieldQuery
    <3> QED BY <3>1 DEF FieldApplied
  <2>8. next.filters \in Seq(K \X V)
    <3>1. TopBar!DropKey(r.filters, dim) \in Seq(K \X V)
      BY <2>6, OnlyRange DEF TopBar!DropKey
    <3>2. TopBar!PutKey(TopBar!DropKey(r.filters, dim), dim, value) \in Seq(K \X V)
      BY <2>3, <3>1, PutTypes
    <3> QED BY <2>7, <3>1, <3>2
  <2>9. next.advanced \in Seq(T)
    <3>1. without \in Seq(T)
      BY <2>6, OnlyRange
    <3> HIDE DEF without
    <3>2. Append(without, <<op, dim, value>>) \in Seq(T)
      BY <2>3, <3>1
    <3> QED BY <2>7, <3>1, <3>2
  <2>10. next = With(next.filters, next.advanced)
    <3>1. /\ r.period = q.period /\ r.comparison = q.comparison /\ r.day = q.day /\ r.withImported = q.withImported
          /\ r.matchDayOfWeek = q.matchDayOfWeek /\ r.labels = q.labels
      BY <2>5
    <3> QED BY <2>7, <3>1
  <2>11. next \in All
    BY <2>8, <2>9, <2>10 DEF All
  <2>12. next \in S
    BY <2>7, <2>11
  <2> QED BY <2>12 DEF next
<1> HIDE DEF K, V, T, All
<1>4. g \in [(1..n) \X S -> S]
  <2> HIDE DEF S, n
  <2> QED BY <1>3
<1>5. PICK h \in [SUBSET (1..n) -> S] : \A t \in SUBSET (1..n) :
        h[t] = IF t = {} THEN q ELSE g[<<TopBar!Max(t), h[t \ {TopBar!Max(t)}]>>]
  <2> HIDE DEF g, n, S
  <2>1. \E h : FoldTable(h, n, S, q, g)
    BY <1>1, <1>2, <1>4, FoldExists
  <2> QED BY <2>1 DEF FoldTable
<1>6. ASSUME NEW t \in SUBSET (1..n), t # {}
      PROVE  h[t] = Field(h[t \ {TopBar!Max(t)}], TopBar!Max(t))
  <2> DEFINE m == TopBar!Max(t)
             x == h[t \ {m}]
  <2>1. m \in 1..n
    BY <1>1, <1>6, MaxIn
  <2>2. h[t] = g[<<m, x>>]
    BY <1>5, <1>6
  <2>3. x \in S
    <3> HIDE DEF S, n, g, m
    <3> QED BY <1>5
  <2> HIDE DEF m, x, S, n
  <2>4. g[<<m, x>>] = Field(x, m)
    BY <2>1, <2>3
  <2> QED BY <2>2, <2>4 DEF m, x
<1>7. Is(h)
  <2> HIDE DEF S, n, g, Field
  <2> QED BY <1>1, <1>5, <1>6
<1>8. Is(f)
  <2> HIDE DEF Is
  <2> QED BY <1>7, Zenon
<1>9. TopBar!ApplyForm(q, fm) = f[1..n]
  BY <1>1 DEF TopBar!ApplyForm, TopBar!FoldLeft, TopBar!MapThenFoldSet, TopBar!Max
<1> HIDE DEF f
<1> DEFINE I == {i \in 0..n : f[1..i] \in S}
<1>10. 0 \in I
  <2>1. f[1..0] = q
    <3> HIDE DEF S, Field, n
    <3> QED BY <1>1, <1>8
  <2> HIDE DEF S, n
  <2> QED BY <1>1, <1>2, <2>1
<1>11. ASSUME NEW i \in 1..n, i - 1 \in I PROVE i \in I
  <2>1. /\ 1..i \in SUBSET (1..n) /\ 1..i # {} /\ TopBar!Max(1..i) = i
        /\ (1..i) \ {i} = 1..(i - 1) /\ i \in 0..n /\ i - 1 \in 0..n
    <3>1. n \in Nat
      BY <1>1
    <3>2. i \in 0..n /\ i - 1 \in 0..n
      BY <3>1
    <3> HIDE DEF n
    <3> QED BY <3>1, <3>2, MaxOfSegment, Zenon
  <2>2. f[1..i] = Field(f[1..(i - 1)], i)
    <3> HIDE DEF S, Field, n
    <3> QED BY <1>1, <1>8, <2>1
  <2>3. f[1..(i - 1)] \in S
    BY <1>11
  <2>4. f[1..i] \in S
    <3> HIDE DEF S, Field, n
    <3> QED BY <1>3, <2>2, <2>3
  <2> HIDE DEF S, n
  <2> QED BY <2>1, <2>4
<1>12. n \in I
  <2>1. \A i \in 0..n : i \in I
    <3> HIDE DEF I, n
    <3> QED BY <1>1, <1>10, <1>11, UpTo
  <2> HIDE DEF I, n
  <2> QED BY <1>1, <2>1
<1>13. f[1..n] \in S
  <2> HIDE DEF S, n
  <2> QED BY <1>12
<1> QED BY <1>9, <1>13

\* A form that may be applied filters the query by its dimensions (applyOperatorFilters).
LEMMA FormQuery ==
    ASSUME NEW q, TopBar!OfQuery(q), NEW fm, TopBar!OfForm(fm), TopBar!CanApply(fm)
    PROVE  TopBar!OfQuery(TopBar!ApplyForm(q, fm))
<1> DEFINE D == DOMAIN fm.fields
           dims == TopBar!SetToSeq(D)
<1>1. fm # TopBar!NoForm
  <2>1. PICK dim \in DOMAIN fm.fields : TRUE
    BY DEF TopBar!CanApply
  <2>2. DOMAIN TopBar!NoForm.fields = {}
    BY DEF TopBar!NoForm, TopBar!EmptyMap
  <2> QED BY <2>1, <2>2
<1>2. /\ fm.type \in DOMAIN TopBar!FormDims /\ fm.key \in Values["property"] \cup {TopBar!None}
      /\ D = TopBar!FormDims[fm.type]
      /\ \A dim \in D : fm.fields[dim][1] \in TopBar!Operators
  <2>1. /\ fm \in [type : DOMAIN TopBar!FormDims, key : Values["property"] \cup {TopBar!None}, fields : {fm.fields}]
        /\ fm.fields = [dim \in TopBar!FormDims[fm.type] |-> fm.fields[dim]]
        /\ \A dim \in TopBar!FormDims[fm.type] : fm.fields[dim][1] \in TopBar!Operators
    BY <1>1, Zenon DEF TopBar!OfForm
  <2>2. D = TopBar!FormDims[fm.type]
    BY <2>1
  <2>3. fm.type \in DOMAIN TopBar!FormDims /\ fm.key \in Values["property"] \cup {TopBar!None}
    BY <2>1
  <2> HIDE DEF D
  <2> QED BY <2>1, <2>2, <2>3
<1>3. dims \in Seq(D)
  BY <1>2, FormDimensions, InOrder
<1>4. ASSUME NEW dim \in D PROVE TopBar!FilterDim(fm, dim) # "event:goal"
  <2>1. CASE fm.type = "property"
    <3>1. fm.key \in Values["property"]
      BY <1>2, <2>1 DEF TopBar!CanApply
    <3>2. "prop:" \o fm.key # "event:goal"
      BY <3>1, DashboardAssumption DEF TopBar!TopBarAssumption
    <3> QED BY <2>1, <3>2 DEF TopBar!FilterDim
  <2>2. CASE fm.type # "property"
    <3>1. dim # "event:goal"
      BY <1>2, FormDimensions
    <3> QED BY <2>2, <3>1 DEF TopBar!FilterDim
  <2> QED BY <2>1, <2>2
<1>5. \A i \in 1..Len(dims) : dims[i] \in D
  <2> HIDE DEF dims, D
  <2> QED BY <1>3
<1>6. /\ dims = TopBar!SetToSeq(DOMAIN fm.fields)
      /\ \A i \in 1..Len(dims) : TopBar!FilterDim(fm, dims[i]) # "event:goal" /\ fm.fields[dims[i]][1] \in TopBar!Operators
  <2>1. dims = TopBar!SetToSeq(DOMAIN fm.fields)
    OBVIOUS
  <2> HIDE DEF dims, D
  <2> QED BY <1>2, <1>4, <1>5, <2>1
<1> HIDE DEF dims, D
<1> QED BY <1>3, <1>6, FormLoop

-----------------------------------------------------------------------------
(* The top bar's steps.                                                        *)

LEMMA DaysAreDates == Days \subseteq TopBar!Dates
BY DashboardAssumption DEF TopBar!TopBarAssumption

LEMMA CurrentQuery ==
    ASSUME TopBar!Inductive
    PROVE  TopBar!OfUrl(s1) /\ TopBar!OfQuery(TopBar!Current) /\ s3 \in TopBar!Dates
<1>1. TopBar!OfUrl(s1) /\ s3 \in Days
  BY DEF TopBar!Inductive, TopBar!History, TopBar!Says, TopBar!TypeOK
<1> QED BY <1>1, DaysAreDates, ReadsQuery DEF TopBar!Current

\* What a calendar is opened with, and set again to, is a range of the query.
LEMMA OpenedCalendar ==
    ASSUME NEW which \in {"custom", "compare"}, NEW q, TopBar!OfQuery(q)
    PROVE  TopBar!Opened(which, q) \in [open : BOOLEAN, start : Days \cup {TopBar!Nothing}, preloaded : BOOLEAN,
                                        given : (TopBar!Dates \X TopBar!Dates) \cup {TopBar!Nothing}]
<1>1. TopBar!Given(which, q) \in (TopBar!Dates \X TopBar!Dates) \cup {TopBar!Nothing}
  <2>1. q.day \in [DOMAIN q.day -> TopBar!Dates]
    BY QueryParts DEF TopBar!OfDays
  <2>2. \A from, to \in DOMAIN q.day : <<q.day[from], q.day[to]>> \in TopBar!Dates \X TopBar!Dates
    BY <2>1
  <2> QED BY <2>2 DEF TopBar!Given
<1> QED BY <1>1 DEF TopBar!Opened

LEMMA RefreshedCalendars ==
    ASSUME NEW cal \in TopBar!Calendars, NEW q, TopBar!OfQuery(q)
    PROVE  TopBar!Refreshed(cal, q) \in TopBar!Calendars
<1>1. DOMAIN cal = {"custom", "compare"}
  BY DEF TopBar!Calendars
<1>2. \A which \in {"custom", "compare"} :
        /\ cal[which] \in [open : BOOLEAN, start : Days \cup {TopBar!Nothing}, preloaded : BOOLEAN,
                           given : (TopBar!Dates \X TopBar!Dates) \cup {TopBar!Nothing}]
        /\ TopBar!Opened(which, q) \in [open : BOOLEAN, start : Days \cup {TopBar!Nothing}, preloaded : BOOLEAN,
                                        given : (TopBar!Dates \X TopBar!Dates) \cup {TopBar!Nothing}]
  BY OpenedCalendar DEF TopBar!Calendars
<1> QED BY <1>1, <1>2 DEF TopBar!Refreshed, TopBar!Calendars

LEMMA ShutCalendar ==
    ASSUME NEW cal \in TopBar!Calendars, NEW which \in {"custom", "compare"}
    PROVE  [cal EXCEPT ![which] = TopBar!Shut] \in TopBar!Calendars
<1>1. TopBar!Shut \in [open : BOOLEAN, start : Days \cup {TopBar!Nothing}, preloaded : BOOLEAN,
                       given : (TopBar!Dates \X TopBar!Dates) \cup {TopBar!Nothing}]
  BY DEF TopBar!Shut
<1> HIDE DEF TopBar!Shut
<1> QED BY <1>1 DEF TopBar!Calendars

\* What a history is once an entry was added to it, and once its last one was left.
Grown(s, e, t) ==
  /\ t \in Seq(TopBar!ToSet(t)) /\ Len(t) = Len(s) + 1 /\ t[Len(s) + 1] = e
  /\ \A i \in 1..Len(s) : t[i] = s[i]

LEMMA AppendedHistory ==
    ASSUME NEW s, s \in Seq(TopBar!ToSet(s)), NEW e
    PROVE  Grown(s, e, Append(s, e))
<1> DEFINE X == TopBar!ToSet(s) \cup {e}
           t == Append(s, e)
<1>1. TopBar!ToSet(s) \subseteq X /\ e \in X
  OBVIOUS
<1> HIDE DEF X
<1>2. s \in Seq(X)
  BY <1>1, InSet
<1>3. t \in Seq(X) /\ Len(t) = Len(s) + 1 /\ t[Len(s) + 1] = e /\ \A i \in 1..Len(s) : t[i] = s[i]
  BY <1>1, <1>2
<1> HIDE DEF t
<1>4. t \in Seq(TopBar!ToSet(t))
  BY <1>3, InSet
<1>5. Grown(s, e, t)
  BY <1>3, <1>4 DEF Grown
<1> QED BY <1>5 DEF t

Shortened(s, e, t) ==
  /\ t \in Seq(TopBar!ToSet(t)) /\ Len(t) = Len(s) - 1 /\ Len(s) \in 1..Len(s) /\ s[Len(s)] = e
  /\ \A i \in 1..Len(t) : i \in 1..Len(s) /\ t[i] = s[i]

LEMMA ShortenedHistory ==
    ASSUME NEW s, s \in Seq(TopBar!ToSet(s)), s # <<>>
    PROVE  Shortened(s, TopBar!Last(s), TopBar!Front(s))
<1> DEFINE t == TopBar!Front(s)
           X == TopBar!ToSet(s)
<1> HIDE DEF X
<1>1. s \in Seq(X)
  BY DEF X
<1>2. t \in Seq(X) /\ Len(t) = Len(s) - 1 /\ Len(s) \in 1..Len(s) /\ \A i \in 1..Len(t) : i \in 1..Len(s) /\ t[i] = s[i]
  <2>1. Len(s) \in Nat /\ Len(s) # 0 /\ Len(s) - 1 \in Nat /\ Len(s) \in 1..Len(s)
    BY <1>1
  <2>2. t = SubSeq(s, 1, Len(s) - 1)
    BY DEF TopBar!Front
  <2>3. t = [i \in 1..Len(s) - 1 |-> s[i]]
    BY <1>1, <2>1, <2>2
  <2> HIDE DEF t
  <2>4. \A i \in 1..Len(s) - 1 : i \in 1..Len(s) /\ s[i] \in X
    BY <1>1, <2>1
  <2>5. t \in Seq(X) /\ Len(t) = Len(s) - 1
    BY <2>1, <2>3, <2>4
  <2> QED BY <2>1, <2>3, <2>4, <2>5
<1>3. TopBar!Last(s) = s[Len(s)]
  BY DEF TopBar!Last
<1> HIDE DEF t
<1>4. t \in Seq(TopBar!ToSet(t))
  BY <1>2, InSet
<1>5. Shortened(s, TopBar!Last(s), t)
  BY <1>2, <1>3, <1>4 DEF Shortened
<1> QED BY <1>5 DEF t

\* A step that writes a query to the URL keeps the history: the URL says what was asked for.
LEMMA QueryUpdates ==
    ASSUME TopBar!Inductive, NEW q, TopBar!OfQuery(q), NEW cal \in TopBar!Calendars, NEW close,
           TopBar!UpdateQuery(q, cal, close)
    PROVE  TopBar!History' /\ s4' \in TopBar!Calendars
<1> DEFINE next == TopBar!NavigationUrl(s1, q, close)
<1>1. TopBar!Says(next, q)
  BY CurrentQuery, WrittenQuery
<1>2. /\ TopBar!Says(s1, s9) /\ s2 \in Seq(TopBar!ToSet(s2)) /\ s10 \in Seq(TopBar!ToSet(s10)) /\ Len(s2) = Len(s10)
      /\ \A i \in 1..Len(s2) : TopBar!Says(s2[i], s10[i])
  BY DEF TopBar!Inductive, TopBar!History
<1>3. s9' = q
  BY DEF TopBar!UpdateQuery
<1> HIDE DEF next
<1>4. CASE next = s1
  <2>1. s1' = s1 /\ s2' = s2 /\ s10' = s10 /\ s4' = cal
    BY <1>4 DEF TopBar!UpdateQuery, next
  <2>2. TopBar!Says(s1, q)'
    BY <1>1, <1>4, <2>1
  <2> QED BY <1>1, <1>2, <1>3, <1>4, <2>1 DEF TopBar!History
<1>5. CASE next # s1
  <2>1. s1' = next /\ s2' = Append(s2, s1) /\ s10' = Append(s10, s9) /\ s4' = TopBar!Refreshed(cal, TopBar!QueryOf(next))
    BY <1>5 DEF TopBar!UpdateQuery, next
  <2>2. TopBar!OfQuery(TopBar!QueryOf(next))
    BY <1>1, ReadsQuery DEF TopBar!Says
  <2>3. s4' \in TopBar!Calendars
    BY <2>1, <2>2, RefreshedCalendars
  <2>4. Grown(s2, s1, s2') /\ Grown(s10, s9, s10')
    <3>1. Grown(s2, s1, Append(s2, s1)) /\ Grown(s10, s9, Append(s10, s9))
      BY <1>2, AppendedHistory
    <3> QED BY <2>1, <3>1
  <2>5. /\ s2' \in Seq(TopBar!ToSet(s2')) /\ Len(s2') = Len(s2) + 1 /\ s2'[Len(s2) + 1] = s1
        /\ \A i \in 1..Len(s2) : s2'[i] = s2[i]
        /\ s10' \in Seq(TopBar!ToSet(s10')) /\ Len(s10') = Len(s10) + 1 /\ s10'[Len(s10) + 1] = s9
        /\ \A i \in 1..Len(s10) : s10'[i] = s10[i]
    BY <2>4 DEF Grown
  <2>6. \A i \in 1..Len(s2') : TopBar!Says(s2'[i], s10'[i])
    <3>1. \A i \in 1..Len(s2') : i \in 1..Len(s2) \/ i = Len(s2) + 1
      BY <1>2, <2>5
    <3> QED BY <1>2, <2>5, <3>1
  <2>7. TopBar!Says(s1', s9')
    BY <1>1, <1>3, <2>1
  <2>8. Len(s2') = Len(s10')
    BY <1>2, <2>5
  <2>9. TopBar!History'
    BY <2>5, <2>6, <2>7, <2>8 DEF TopBar!History
  <2> QED BY <2>3, <2>9
<1> QED BY <1>4, <1>5

\* Back: what the entry says is what was asked for there.
LEMMA GoesBack ==
    ASSUME TopBar!Inductive, TopBar!Back
    PROVE  TopBar!History' /\ s4' \in TopBar!Calendars
<1>1. /\ s2 \in Seq(TopBar!ToSet(s2)) /\ s10 \in Seq(TopBar!ToSet(s10)) /\ Len(s2) = Len(s10) /\ s4 \in TopBar!Calendars
      /\ \A i \in 1..Len(s2) : TopBar!Says(s2[i], s10[i])
  BY DEF TopBar!Inductive, TopBar!History, TopBar!TypeOK
<1>2. /\ s2 # <<>> /\ s1' = TopBar!Last(s2) /\ s2' = TopBar!Front(s2) /\ s9' = TopBar!Last(s10) /\ s10' = TopBar!Front(s10)
      /\ s4' = TopBar!Refreshed(s4, TopBar!QueryOf(s1'))
  BY DEF TopBar!Back
<1>3. s10 # <<>>
  <2>1. Len(s2) # 0
    BY <1>1, <1>2
  <2> QED BY <1>1, <2>1
<1>4. Shortened(s2, s1', s2') /\ Shortened(s10, s9', s10')
  <2>1. Shortened(s2, TopBar!Last(s2), TopBar!Front(s2)) /\ Shortened(s10, TopBar!Last(s10), TopBar!Front(s10))
    BY <1>1, <1>2, <1>3, ShortenedHistory
  <2> QED BY <1>2, <2>1
<1>5. /\ s2' \in Seq(TopBar!ToSet(s2')) /\ Len(s2') = Len(s2) - 1 /\ Len(s2) \in 1..Len(s2) /\ s2[Len(s2)] = s1'
      /\ \A i \in 1..Len(s2') : i \in 1..Len(s2) /\ s2'[i] = s2[i]
      /\ s10' \in Seq(TopBar!ToSet(s10')) /\ Len(s10') = Len(s10) - 1 /\ s10[Len(s10)] = s9'
      /\ \A i \in 1..Len(s10') : s10'[i] = s10[i]
  BY <1>4 DEF Shortened
<1>6. TopBar!Says(s1', s9') /\ Len(s2') = Len(s10') /\ \A i \in 1..Len(s2') : TopBar!Says(s2'[i], s10'[i])
  BY <1>1, <1>5
<1>7. s4' \in TopBar!Calendars
  <2>1. TopBar!OfQuery(TopBar!QueryOf(s1'))
    BY <1>6, ReadsQuery DEF TopBar!Says
  <2> QED BY <1>1, <1>2, <2>1, RefreshedCalendars
<1> QED BY <1>5, <1>6, <1>7 DEF TopBar!History

\* The canonical URL says what the URL said.
LEMMA BecomesCanonical ==
    ASSUME TopBar!Inductive, TopBar!ReplaceByCanonical
    PROVE  TopBar!History' /\ s4' \in TopBar!Calendars
<1>1. TopBar!Says(s1, s9) /\ s4 \in TopBar!Calendars
  BY DEF TopBar!Inductive, TopBar!History, TopBar!TypeOK
<1>2. /\ s1' = [s1 EXCEPT !.params = TopBar!Canonicalize(@)] /\ s2' = s2 /\ s9' = s9 /\ s10' = s10
      /\ s4' = TopBar!Refreshed(s4, TopBar!QueryOf(s1'))
  BY DEF TopBar!ReplaceByCanonical
<1>3. TopBar!OfUrl(s1') /\ TopBar!QueryOf(s1') = TopBar!QueryOf(s1)
  BY <1>1, <1>2, CanonicalReads DEF TopBar!Says
<1>4. TopBar!Says(s1', s9')
  BY <1>1, <1>2, <1>3 DEF TopBar!Says
<1>5. s4' \in TopBar!Calendars
  <2>1. TopBar!OfQuery(TopBar!QueryOf(s1'))
    BY <1>3, ReadsQuery
  <2> QED BY <1>1, <1>2, <2>1, RefreshedCalendars
<1> QED BY <1>2, <1>4, <1>5 DEF TopBar!Inductive, TopBar!History

\* A step that leaves the URL and what was asked for leaves the history.
LEMMA SameHistory ==
    ASSUME TopBar!Inductive, s1' = s1, s2' = s2, s9' = s9, s10' = s10
    PROVE  TopBar!History'
<1>1. /\ TopBar!Says(s1, s9) /\ s2 \in Seq(TopBar!ToSet(s2)) /\ s10 \in Seq(TopBar!ToSet(s10)) /\ Len(s2) = Len(s10)
      /\ \A i \in 1..Len(s2) : TopBar!Says(s2[i], s10[i])
  BY DEF TopBar!Inductive, TopBar!History
<1> QED BY <1>1 DEF TopBar!History

\* The effect of the focused input runs again: what was under way is ignored.
LEMMA RestartedSuggestions ==
    ASSUME TopBar!Inductive, s5' = s5, s6' = s6, s7' = TopBar!Restart(s7), s8' = TopBar!Ignored(s8)
    PROVE  TopBar!OfSuggest(s7') /\ TopBar!Suggests' /\ s7'.options = s7.options
<1>1. /\ s7 \in [field : {s7.field}, due : BOOLEAN, searching : BOOLEAN, options : {s7.options}]
      /\ s7.due => s7.field # TopBar!None
      /\ s6.type = TopBar!None => s7.field = TopBar!None
      /\ s5 # TopBar!None => s6.type = TopBar!None
  BY DEF TopBar!Inductive, TopBar!TypeOK, TopBar!OfSuggest, TopBar!Suggests
<1>2. /\ s7' \in [field : {s7.field}, due : BOOLEAN, searching : BOOLEAN, options : {s7.options}]
      /\ s7'.field = s7.field /\ s7'.options = s7.options
      /\ s7'.due => s7'.field # TopBar!None
  BY <1>1 DEF TopBar!Restart
<1>3. s8' = {}
  BY DEF TopBar!Ignored
<1>4. TopBar!Suggests'
  BY <1>1, <1>2, <1>3 DEF TopBar!Suggests
<1> QED BY <1>2, <1>4 DEF TopBar!OfSuggest

\* A step of the open dialog leaves the suggestions to an input of it.
LEMMA DialogSuggestions ==
    ASSUME TopBar!Inductive, s6.type # TopBar!None, s5' = s5, s8' = TopBar!Ignored(s8),
           s7'.due => s7'.field # TopBar!None, s6'.type = TopBar!None => s7'.field = TopBar!None
    PROVE  TopBar!Suggests'
<1>1. s5 = TopBar!None
  BY DEF TopBar!Inductive, TopBar!Suggests
<1>2. s8' = {}
  BY DEF TopBar!Ignored
<1> QED BY <1>1, <1>2 DEF TopBar!Suggests

LEMMA NoSuggestions ==
    TopBar!OfSuggest(TopBar!NoSuggest) /\ ~TopBar!NoSuggest.due /\ TopBar!NoSuggest.field = TopBar!None
      /\ TopBar!NoSuggest.options = TopBar!Nothing
BY DEF TopBar!NoSuggest, TopBar!OfSuggest

\* A query asked for by a control of the bar.
LEMMA Updates ==
    ASSUME TopBar!Inductive, NEW q, TopBar!OfQuery(q), TopBar!Update(q)
    PROVE  TopBar!Inductive'
<1>1. /\ TopBar!UpdateQuery(q, s4, FALSE) /\ s7' = TopBar!Restart(s7) /\ s8' = TopBar!Ignored(s8)
      /\ s3' = s3 /\ s5' = s5 /\ s6' = s6
  BY DEF TopBar!Update
<1>2. s4 \in TopBar!Calendars /\ s3 \in Days /\ s5 \in DOMAIN TopBar!FormDims \cup {TopBar!None} /\ TopBar!OfForm(s6)
  BY DEF TopBar!Inductive, TopBar!TypeOK
<1>3. TopBar!History' /\ s4' \in TopBar!Calendars
  BY <1>1, <1>2, QueryUpdates
<1>4. TopBar!OfSuggest(s7') /\ TopBar!Suggests'
  BY <1>1, RestartedSuggestions
<1> QED BY <1>1, <1>2, <1>3, <1>4 DEF TopBar!Inductive, TopBar!TypeOK

\* The URL alone changed, by Back or by its canonical form.
LEMMA Returns ==
    ASSUME TopBar!Inductive, TopBar!Back \/ TopBar!ReplaceByCanonical
    PROVE  TopBar!Inductive'
<1>1. TopBar!History' /\ s4' \in TopBar!Calendars
  BY GoesBack, BecomesCanonical
<1>2. s7' = TopBar!Restart(s7) /\ s8' = TopBar!Ignored(s8) /\ s3' = s3 /\ s5' = s5 /\ s6' = s6
  BY DEF TopBar!Back, TopBar!ReplaceByCanonical
<1>3. s3 \in Days /\ s5 \in DOMAIN TopBar!FormDims \cup {TopBar!None} /\ TopBar!OfForm(s6)
  BY DEF TopBar!Inductive, TopBar!TypeOK
<1>4. TopBar!OfSuggest(s7') /\ TopBar!Suggests'
  BY <1>2, RestartedSuggestions
<1> QED BY <1>1, <1>2, <1>3, <1>4 DEF TopBar!Inductive, TopBar!TypeOK

\* A step that leaves the query, the dialog and its suggestions.
LEMMA CalendarSteps ==
    ASSUME TopBar!Inductive, s3' \in Days, s4' \in TopBar!Calendars,
           UNCHANGED <<s1, s2, s5, s6, s7, s8, s9, s10>>
    PROVE  TopBar!Inductive'
<1>1. TopBar!History'
  BY SameHistory
<1>2. /\ s5 \in DOMAIN TopBar!FormDims \cup {TopBar!None} /\ TopBar!OfForm(s6) /\ TopBar!OfSuggest(s7)
      /\ s8 \subseteq {TopBar!SuggestKey} /\ (s7.due => s7.field # TopBar!None)
      /\ (s6.type = TopBar!None => s7.field = TopBar!None /\ s8 = {})
      /\ (s5 # TopBar!None => s6.type = TopBar!None)
  BY DEF TopBar!Inductive, TopBar!TypeOK, TopBar!Suggests
<1>3. TopBar!SuggestKey' = TopBar!SuggestKey
  BY DEF TopBar!SuggestKey
<1>4. TopBar!Suggests'
  BY <1>2, <1>3 DEF TopBar!Suggests
<1> QED BY <1>1, <1>2, <1>4 DEF TopBar!Inductive, TopBar!TypeOK

\* A step of the filter menu, of the dialog or of its suggestions.
LEMMA DialogSteps ==
    ASSUME TopBar!Inductive, UNCHANGED <<s1, s2, s3, s4, s9, s10>>,
           s5' \in DOMAIN TopBar!FormDims \cup {TopBar!None}, TopBar!OfForm(s6'), TopBar!OfSuggest(s7'), TopBar!Suggests'
    PROVE  TopBar!Inductive'
<1>1. TopBar!History'
  BY SameHistory
<1>2. s3 \in Days /\ s4 \in TopBar!Calendars
  BY DEF TopBar!Inductive, TopBar!TypeOK
<1> QED BY <1>1, <1>2 DEF TopBar!Inductive, TopBar!TypeOK

\* Periods and comparisons.
LEMMA PeriodOfKey ==
    ASSUME NEW hint \in Hints
    PROVE  TopBar!Shortcuts[hint] \in TopBar!Selections /\ TopBar!Shortcuts[hint].value \in TopBar!Periods
<1>1. hint \in DOMAIN TopBar!Shortcuts
  BY DashboardAssumption DEF TopBar!TopBarAssumption
<1>2. TopBar!Shortcuts[hint] \in TopBar!Selections
  BY <1>1, Zenon DEF TopBar!Selections
<1> QED BY <1>2, Zenon DEF TopBar!Periods

LEMMA ChoosesPeriod ==
    ASSUME TopBar!Inductive, NEW hint \in Hints,
           TopBar!PressKey(hint) \/ TopBar!PickPeriod(TopBar!Shortcuts[hint])
    PROVE  TopBar!Inductive'
<1> DEFINE x == TopBar!Shortcuts[hint]
           q == TopBar!ApplyPeriodSelection(TopBar!Current, x, s3)
<1>1. TopBar!Update(q)
  BY DEF TopBar!PressKey, TopBar!PickPeriod
<1>2. x.value \in TopBar!Periods
  BY PeriodOfKey
<1> HIDE DEF x
<1>3. TopBar!OfQuery(q)
  BY <1>2, CurrentQuery, PeriodQuery
<1> HIDE DEF q
<1> QED BY <1>1, <1>3, Updates

\* A control that sets the comparison, its days or how they are matched.
LEMMA ComparisonQuery ==
    ASSUME NEW q, TopBar!OfQuery(q), NEW comparison, NEW days, TopBar!OfDays(days), NEW match \in BOOLEAN,
           NEW r, r = [[[q EXCEPT !.day = days] EXCEPT !.comparison = comparison] EXCEPT !.matchDayOfWeek = match]
    PROVE  TopBar!OfQuery(r)
<1>1. q = [period |-> q.period, comparison |-> q.comparison, day |-> q.day, withImported |-> q.withImported,
           matchDayOfWeek |-> q.matchDayOfWeek, filters |-> q.filters, labels |-> q.labels, advanced |-> q.advanced]
      /\ q.period \in TopBar!Periods /\ TopBar!OfFilters(q.filters) /\ TopBar!OfTokens(q.advanced)
  BY QueryParts
<1>2. r = [period |-> q.period, comparison |-> comparison, day |-> days, withImported |-> q.withImported,
           matchDayOfWeek |-> match, filters |-> q.filters, labels |-> q.labels, advanced |-> q.advanced]
  BY <1>1
<1>3. q.withImported \in BOOLEAN
  BY QueryParts
<1>4. r \in [period : TopBar!Periods, comparison : {comparison}, day : {days}, withImported : BOOLEAN,
            matchDayOfWeek : BOOLEAN, filters : {q.filters}, labels : {q.labels}, advanced : {q.advanced}]
      /\ r.comparison = comparison /\ r.day = days /\ r.filters = q.filters /\ r.labels = q.labels /\ r.advanced = q.advanced
  BY <1>1, <1>2, <1>3
<1> QED BY <1>1, <1>4 DEF TopBar!OfQuery

LEMMA ChoosesComparison ==
    ASSUME TopBar!Inductive,
           \/ TopBar!PressX
           \/ \E choice \in {"compare", "disable", "previous_period", "year_over_year"} : TopBar!PickComparison(choice)
           \/ \E b \in BOOLEAN : TopBar!MatchDayOfWeek(b)
    PROVE  TopBar!Inductive'
<1> DEFINE q == TopBar!Current
<1>1. /\ q = [period |-> q.period, comparison |-> q.comparison, day |-> q.day, withImported |-> q.withImported,
               matchDayOfWeek |-> q.matchDayOfWeek, filters |-> q.filters, labels |-> q.labels, advanced |-> q.advanced]
      /\ TopBar!OfQuery(q) /\ TopBar!OfDays(q.day) /\ q.matchDayOfWeek \in BOOLEAN
  BY CurrentQuery, QueryParts
<1>2. ASSUME NEW comparison, NEW days, TopBar!OfDays(days), NEW match \in BOOLEAN
      PROVE  TopBar!OfQuery([[[q EXCEPT !.day = days] EXCEPT !.comparison = comparison] EXCEPT !.matchDayOfWeek = match])
  <2> HIDE DEF q
  <2> QED BY <1>1, <1>2, ComparisonQuery
<1>3. CASE TopBar!PressX
  <2> DEFINE comparison == IF q.comparison = "previous_period" THEN TopBar!None ELSE "previous_period"
             r == [q EXCEPT !.comparison = comparison]
  <2>1. TopBar!Update(r)
    BY <1>3 DEF TopBar!PressX
  <2> HIDE DEF q, comparison
  <2>2. r = [[[q EXCEPT !.day = q.day] EXCEPT !.comparison = comparison] EXCEPT !.matchDayOfWeek = q.matchDayOfWeek]
    BY <1>1
  <2>3. TopBar!OfQuery(r)
    BY <1>1, <1>2, <2>2
  <2> HIDE DEF r
  <2> QED BY <2>1, <2>3, Updates
<1>4. ASSUME NEW choice, TopBar!PickComparison(choice) PROVE TopBar!Inductive'
  <2> DEFINE days == IF choice = "compare" THEN q.day
                     ELSE TopBar!PutDay(TopBar!PutDay(q.day, "compare_from", {}), "compare_to", {})
             comparison == CASE choice = "disable" -> TopBar!None
                             [] choice = "compare" -> "previous_period"
                             [] OTHER -> choice
             r == [q EXCEPT !.day = days, !.comparison = comparison]
  <2>1. TopBar!Update(r)
    BY <1>4 DEF TopBar!PickComparison
  <2>2. TopBar!OfDays(days)
    <3> HIDE DEF q
    <3> QED BY <1>1, ClearedDays
  <2> HIDE DEF q, days, comparison
  <2>3. r = [[[q EXCEPT !.day = days] EXCEPT !.comparison = comparison] EXCEPT !.matchDayOfWeek = q.matchDayOfWeek]
    BY <1>1
  <2>4. TopBar!OfQuery(r)
    BY <1>1, <1>2, <2>2, <2>3
  <2> HIDE DEF r
  <2> QED BY <2>1, <2>4, Updates
<1>5. ASSUME NEW b \in BOOLEAN, TopBar!MatchDayOfWeek(b) PROVE TopBar!Inductive'
  <2> DEFINE r == [q EXCEPT !.matchDayOfWeek = b]
  <2>1. TopBar!Update(r)
    BY <1>5 DEF TopBar!MatchDayOfWeek
  <2> HIDE DEF q
  <2>2. r = [[[q EXCEPT !.day = q.day] EXCEPT !.comparison = q.comparison] EXCEPT !.matchDayOfWeek = b]
    BY <1>1
  <2>3. TopBar!OfQuery(r)
    BY <1>1, <1>2, <2>2
  <2> HIDE DEF r
  <2> QED BY <2>1, <2>3, Updates
<1> QED BY <1>3, <1>4, <1>5

\* The calendars.
LEMMA MovesCalendar ==
    ASSUME TopBar!Inductive, NEW which \in {"custom", "compare"},
           \/ TopBar!OpenCalendar(which) \/ TopBar!CloseCalendar(which)
           \/ \E day \in Days : TopBar!ClickDay(which, day)
    PROVE  TopBar!Inductive'
<1>1. s4 \in TopBar!Calendars /\ s3 \in Days
  BY DEF TopBar!Inductive, TopBar!TypeOK
<1>2. CASE TopBar!OpenCalendar(which)
  <2>1. s4' = [s4 EXCEPT ![which] = TopBar!Opened(which, TopBar!Current)]
        /\ UNCHANGED <<s1, s2, s3, s5, s6, s7, s8, s9, s10>>
    BY <1>2 DEF TopBar!OpenCalendar
  <2>2. s4' \in TopBar!Calendars
    BY <1>1, <2>1, CurrentQuery, OpenedCalendar DEF TopBar!Calendars
  <2> QED BY <1>1, <2>1, <2>2, CalendarSteps
<1>3. CASE TopBar!CloseCalendar(which)
  <2>1. s4' = [s4 EXCEPT ![which] = TopBar!Shut] /\ UNCHANGED <<s1, s2, s3, s5, s6, s7, s8, s9, s10>>
    BY <1>3 DEF TopBar!CloseCalendar
  <2> QED BY <1>1, <2>1, ShutCalendar, CalendarSteps
<1>4. ASSUME NEW day \in Days, TopBar!ClickDay(which, day) PROVE TopBar!Inductive'
  <2> DEFINE cal == s4[which]
             first == cal.preloaded \/ cal.start = TopBar!Nothing
             range == TopBar!RangeOf(cal.start, day)
             from == IF which = "custom" THEN "from" ELSE "compare_from"
             to == IF which = "custom" THEN "to" ELSE "compare_to"
             q == TopBar!Current
             days == TopBar!PutRange(q.day, from, to, range[1], range[2])
             r == IF which = "custom" THEN [q EXCEPT !.period = "custom", !.day = days]
                  ELSE [q EXCEPT !.comparison = "custom", !.day = days]
             shut == [s4 EXCEPT ![which] = TopBar!Shut]
  <2>1. cal \in [open : BOOLEAN, start : Days \cup {TopBar!Nothing}, preloaded : BOOLEAN,
                 given : (TopBar!Dates \X TopBar!Dates) \cup {TopBar!Nothing}]
    BY <1>1 DEF TopBar!Calendars
  <2>2. CASE first
    <3>1. /\ s4' = [s4 EXCEPT ![which] = [@ EXCEPT !.start = day, !.preloaded = FALSE]]
          /\ UNCHANGED <<s1, s2, s3, s5, s6, s7, s8, s9, s10>>
      BY <1>4, <2>2 DEF TopBar!ClickDay
    <3> DEFINE next == [cal EXCEPT !.start = day, !.preloaded = FALSE]
    <3>2. next \in [open : BOOLEAN, start : Days \cup {TopBar!Nothing}, preloaded : BOOLEAN,
                    given : (TopBar!Dates \X TopBar!Dates) \cup {TopBar!Nothing}]
      BY <2>1
    <3>3. s4' = [s4 EXCEPT ![which] = next]
      BY <3>1
    <3> HIDE DEF next
    <3>4. s4' \in TopBar!Calendars
      BY <1>1, <3>2, <3>3 DEF TopBar!Calendars
    <3> QED BY <1>1, <3>1, <3>4, CalendarSteps
  <2>3. CASE ~first
    <3>1. /\ TopBar!UpdateQuery(r, shut, FALSE) /\ s7' = TopBar!Restart(s7) /\ s8' = TopBar!Ignored(s8)
          /\ s3' = s3 /\ s5' = s5 /\ s6' = s6
      BY <1>4, <2>3 DEF TopBar!ClickDay
    <3>2. shut \in TopBar!Calendars
      BY <1>1, ShutCalendar
    <3>3. <<from, to>> \in {<<"from", "to">>, <<"compare_from", "compare_to">>}
      BY DEF TopBar!Nothing
    <3>4. cal.start \in TopBar!Dates /\ day \in TopBar!Dates
      BY <2>1, <2>3, DaysAreDates
    <3>5. TopBar!OfQuery(q)
      BY CurrentQuery
    <3> HIDE DEF cal, from, to, shut, q, range
    <3>6. TopBar!OfDays(days)
      <4>1. TopBar!OfDays(q.day)
        BY <3>5, QueryParts
      <4> QED BY <3>3, <3>4, <4>1, ClickedDays DEF range
    <3> HIDE DEF days
    <3>7. TopBar!OfQuery(r)
      <4>1. q = [period |-> q.period, comparison |-> q.comparison, day |-> q.day, withImported |-> q.withImported,
                 matchDayOfWeek |-> q.matchDayOfWeek, filters |-> q.filters, labels |-> q.labels, advanced |-> q.advanced]
            /\ q.period \in TopBar!Periods /\ q.matchDayOfWeek \in BOOLEAN
            /\ TopBar!OfFilters(q.filters) /\ TopBar!OfTokens(q.advanced)
        BY <3>5, QueryParts
      <4>2. "custom" \in TopBar!Periods
        BY Zenon DEF TopBar!Periods
      <4> DEFINE period == IF which = "custom" THEN "custom" ELSE q.period
                 comparison == IF which = "custom" THEN q.comparison ELSE "custom"
      <4>3. r = [period |-> period, comparison |-> comparison, day |-> days, withImported |-> q.withImported,
                 matchDayOfWeek |-> q.matchDayOfWeek, filters |-> q.filters, labels |-> q.labels, advanced |-> q.advanced]
        BY <4>1
      <4>4. period \in TopBar!Periods
        BY <4>1, <4>2
      <4> HIDE DEF period, comparison, r
      <4> QED BY <3>5, <3>6, <4>1, <4>3, <4>4, OtherQuery
    <3> HIDE DEF r
    <3>8. TopBar!History' /\ s4' \in TopBar!Calendars
      BY <3>1, <3>2, <3>7, QueryUpdates
    <3>9. TopBar!OfSuggest(s7') /\ TopBar!Suggests'
      BY <3>1, RestartedSuggestions
    <3>10. s5 \in DOMAIN TopBar!FormDims \cup {TopBar!None} /\ TopBar!OfForm(s6)
      BY DEF TopBar!Inductive, TopBar!TypeOK
    <3> QED BY <1>1, <3>1, <3>8, <3>9, <3>10 DEF TopBar!Inductive, TopBar!TypeOK
  <2> QED BY <2>2, <2>3
<1> QED BY <1>2, <1>3, <1>4

\* The filters, the segments and the map.
LEMMA FilterQuery ==
    ASSUME NEW q, TopBar!OfQuery(q), NEW filters, TopBar!OfFilters(filters), NEW labels,
           NEW advanced, TopBar!OfTokens(advanced),
           NEW r, r = [[[q EXCEPT !.filters = filters] EXCEPT !.labels = labels] EXCEPT !.advanced = advanced]
    PROVE  TopBar!OfQuery(r)
<1>1. q = [period |-> q.period, comparison |-> q.comparison, day |-> q.day, withImported |-> q.withImported,
           matchDayOfWeek |-> q.matchDayOfWeek, filters |-> q.filters, labels |-> q.labels, advanced |-> q.advanced]
      /\ q.period \in TopBar!Periods /\ q.withImported \in BOOLEAN /\ q.matchDayOfWeek \in BOOLEAN /\ TopBar!OfDays(q.day)
  BY QueryParts
<1>2. r = [period |-> q.period, comparison |-> q.comparison, day |-> q.day, withImported |-> q.withImported,
           matchDayOfWeek |-> q.matchDayOfWeek, filters |-> filters, labels |-> labels, advanced |-> advanced]
  BY <1>1
<1>3. r \in [period : TopBar!Periods, comparison : {q.comparison}, day : {q.day}, withImported : BOOLEAN,
            matchDayOfWeek : BOOLEAN, filters : {filters}, labels : {labels}, advanced : {advanced}]
      /\ r.comparison = q.comparison /\ r.day = q.day /\ r.filters = filters /\ r.labels = labels /\ r.advanced = advanced
  BY <1>1, <1>2
<1> QED BY <1>1, <1>3 DEF TopBar!OfQuery

LEMMA NothingFiltered == TopBar!OfFilters(<<>>) /\ TopBar!OfTokens(<<>>)
<1>1. TopBar!ToSet(<<>>) = {} /\ TopBar!Keys(<<>>) = {}
  BY DEF TopBar!ToSet, TopBar!Keys
<1>2. <<>> \in Seq(TopBar!ToSet(<<>>))
  OBVIOUS
<1> QED BY <1>1, <1>2 DEF TopBar!OfFilters, TopBar!OfTokens, TopBar!Pairs, TopBar!Triples

LEMMA ChoosesFilters ==
    ASSUME TopBar!Inductive,
           \/ \E badge \in TopBar!ToSet(TopBar!Badges(TopBar!Current)) : TopBar!RemoveBadge(badge)
           \/ TopBar!ClearAll
           \/ \E segment \in Segments \cup {TopBar!None} : TopBar!ApplySegment(segment)
           \/ \E country \in Countries : TopBar!Drilldown(country)
    PROVE  TopBar!Inductive'
<1> DEFINE q == TopBar!Current
<1>1. /\ q = [period |-> q.period, comparison |-> q.comparison, day |-> q.day, withImported |-> q.withImported,
               matchDayOfWeek |-> q.matchDayOfWeek, filters |-> q.filters, labels |-> q.labels, advanced |-> q.advanced]
      /\ TopBar!OfQuery(q) /\ TopBar!OfFilters(q.filters) /\ TopBar!OfTokens(q.advanced)
  BY CurrentQuery, QueryParts
<1>2. ASSUME NEW filters, TopBar!OfFilters(filters), NEW labels, NEW advanced, TopBar!OfTokens(advanced)
      PROVE  TopBar!OfQuery([[[q EXCEPT !.filters = filters] EXCEPT !.labels = labels] EXCEPT !.advanced = advanced])
  <2> HIDE DEF q
  <2> QED BY <1>1, <1>2, FilterQuery
<1>3. ASSUME NEW badge, TopBar!RemoveBadge(badge) PROVE TopBar!Inductive'
  <2> DEFINE filters == TopBar!DropKey(q.filters, badge[1])
             labels == TopBar!DropKey(q.labels, badge[1])
             advanced == TopBar!Only(q.advanced, TopBar!ToSet(q.advanced) \ {badge})
             r == IF Len(badge) = 2 THEN [q EXCEPT !.filters = filters, !.labels = labels]
                  ELSE [q EXCEPT !.advanced = advanced]
  <2>1. TopBar!Update(r)
    BY <1>3 DEF TopBar!RemoveBadge
  <2> HIDE DEF q
  <2>2. TopBar!OfFilters(filters)
    BY <1>1, SubFilters DEF TopBar!DropKey
  <2>3. TopBar!OfTokens(advanced)
    BY <1>1, SubOfTokens
  <2> HIDE DEF filters, labels, advanced
  <2>4. TopBar!OfQuery(r)
    <3>1. CASE Len(badge) = 2
      <4>1. r = [[[q EXCEPT !.filters = filters] EXCEPT !.labels = labels] EXCEPT !.advanced = q.advanced]
        BY <1>1, <3>1
      <4>2. TopBar!OfQuery([[[q EXCEPT !.filters = filters] EXCEPT !.labels = labels] EXCEPT !.advanced = q.advanced])
        BY <1>1, <1>2, <2>2, Zenon
      <4> QED BY <4>1, <4>2, Zenon
    <3>2. CASE Len(badge) # 2
      <4>1. r = [[[q EXCEPT !.filters = q.filters] EXCEPT !.labels = q.labels] EXCEPT !.advanced = advanced]
        BY <1>1, <3>2
      <4> QED BY <1>1, <1>2, <2>3, <4>1
    <3> QED BY <3>1, <3>2
  <2> HIDE DEF r
  <2> QED BY <2>1, <2>4, Updates
<1>4. CASE TopBar!ClearAll
  <2> DEFINE r == [q EXCEPT !.filters = <<>>, !.labels = <<>>, !.advanced = <<>>]
  <2>1. TopBar!Update(r)
    BY <1>4 DEF TopBar!ClearAll
  <2> HIDE DEF q
  <2>2. r = [[[q EXCEPT !.filters = <<>>] EXCEPT !.labels = <<>>] EXCEPT !.advanced = <<>>]
    BY <1>1
  <2>3. TopBar!OfQuery(r)
    BY <1>2, <2>2, NothingFiltered
  <2> HIDE DEF r
  <2> QED BY <2>1, <2>3, Updates
<1>5. ASSUME NEW segment, TopBar!ApplySegment(segment) PROVE TopBar!Inductive'
  <2> DEFINE filters == IF segment = TopBar!None THEN TopBar!DropKey(q.filters, "segment")
                        ELSE TopBar!PutKey(q.filters, "segment", segment)
             r == [q EXCEPT !.filters = filters]
  <2>1. TopBar!Update(r)
    BY <1>5 DEF TopBar!ApplySegment
  <2> HIDE DEF q
  <2>2. TopBar!OfFilters(filters)
    <3>1. TopBar!OfFilters(TopBar!DropKey(q.filters, "segment"))
      BY <1>1, SubFilters DEF TopBar!DropKey
    <3>2. TopBar!OfFilters(TopBar!PutKey(q.filters, "segment", segment))
      BY <1>1, PutFilter
    <3> QED BY <3>1, <3>2
  <2> HIDE DEF filters
  <2>3. r = [[[q EXCEPT !.filters = filters] EXCEPT !.labels = q.labels] EXCEPT !.advanced = q.advanced]
    BY <1>1
  <2>4. TopBar!OfQuery(r)
    <3>1. TopBar!OfQuery([[[q EXCEPT !.filters = filters] EXCEPT !.labels = q.labels] EXCEPT !.advanced = q.advanced])
      BY <1>1, <1>2, <2>2, Zenon
    <3> QED BY <2>3, <3>1, Zenon
  <2> HIDE DEF r
  <2> QED BY <2>1, <2>4, Updates
<1>6. ASSUME NEW country, TopBar!Drilldown(country) PROVE TopBar!Inductive'
  <2> DEFINE filters == TopBar!PutKey(q.filters, "country", country[1])
             labels == IF country[2] # country[1] THEN TopBar!PutKey(q.labels, "country", country[2])
                       ELSE TopBar!DropKey(q.labels, "country")
             r == [q EXCEPT !.filters = filters, !.labels = labels]
  <2>1. /\ TopBar!UpdateQuery(r, s4, TRUE) /\ s7' = TopBar!Restart(s7) /\ s8' = TopBar!Ignored(s8)
        /\ s3' = s3 /\ s5' = s5 /\ s6' = s6
    BY <1>6 DEF TopBar!Drilldown
  <2> HIDE DEF q
  <2>2. TopBar!OfFilters(filters)
    BY <1>1, PutFilter
  <2> HIDE DEF filters, labels
  <2>3. r = [[[q EXCEPT !.filters = filters] EXCEPT !.labels = labels] EXCEPT !.advanced = q.advanced]
    BY <1>1
  <2>4. TopBar!OfQuery(r)
    <3>1. TopBar!OfQuery([[[q EXCEPT !.filters = filters] EXCEPT !.labels = labels] EXCEPT !.advanced = q.advanced])
      BY <1>1, <1>2, <2>2, Zenon
    <3> QED BY <2>3, <3>1, Zenon
  <2> HIDE DEF r
  <2>5. s4 \in TopBar!Calendars /\ s3 \in Days /\ s5 \in DOMAIN TopBar!FormDims \cup {TopBar!None} /\ TopBar!OfForm(s6)
    BY DEF TopBar!Inductive, TopBar!TypeOK
  <2>6. TopBar!History' /\ s4' \in TopBar!Calendars
    BY <2>1, <2>4, <2>5, QueryUpdates
  <2>7. TopBar!OfSuggest(s7') /\ TopBar!Suggests'
    BY <2>1, RestartedSuggestions
  <2> QED BY <2>1, <2>5, <2>6, <2>7 DEF TopBar!Inductive, TopBar!TypeOK
<1> QED BY <1>3, <1>4, <1>5, <1>6

\* The filter menu and the dialog.
LEMMA FieldOfForm ==
    ASSUME NEW fm, TopBar!OfForm(fm), fm.type # TopBar!None, NEW dim \in DOMAIN fm.fields,
           NEW field, field = <<field[1], field[2]>>, field[1] \in TopBar!Operators,
           NEW next, next = [fm EXCEPT !.fields = [fm.fields EXCEPT ![dim] = field]]
    PROVE  TopBar!OfForm(next) /\ next.type = fm.type
<1>1. fm # TopBar!NoForm
  BY DEF TopBar!NoForm
<1>2. /\ fm \in [type : DOMAIN TopBar!FormDims, key : Values["property"] \cup {TopBar!None}, fields : {fm.fields}]
      /\ fm.fields = [d \in TopBar!FormDims[fm.type] |-> fm.fields[d]]
      /\ \A d \in TopBar!FormDims[fm.type] :
           fm.fields[d] = <<fm.fields[d][1], fm.fields[d][2]>> /\ fm.fields[d][1] \in TopBar!Operators
  BY <1>1, Zenon DEF TopBar!OfForm
<1> DEFINE D == TopBar!FormDims[fm.type]
           F == DOMAIN TopBar!FormDims
<1> HIDE DEF F
<1>3. /\ next \in [type : F, key : Values["property"] \cup {TopBar!None}, fields : {next.fields}]
      /\ next.type = fm.type /\ next.fields = [fm.fields EXCEPT ![dim] = field]
  BY <1>2 DEF F
<1>4. /\ next.fields = [d \in D |-> next.fields[d]]
      /\ \A d \in D : next.fields[d] = <<next.fields[d][1], next.fields[d][2]>> /\ next.fields[d][1] \in TopBar!Operators
  <2>1. DOMAIN fm.fields = D
    BY <1>2
  <2> HIDE DEF D
  <2>2. \A d \in D : fm.fields[d] = <<fm.fields[d][1], fm.fields[d][2]>> /\ fm.fields[d][1] \in TopBar!Operators
    BY <1>2 DEF D
  <2>3. fm.fields = [d \in D |-> fm.fields[d]]
    BY <1>2 DEF D
  <2> QED BY <1>3, <2>1, <2>2, <2>3
<1> QED BY <1>3, <1>4 DEF TopBar!OfForm, F

LEMMA NewForm ==
    ASSUME NEW type \in DOMAIN TopBar!FormDims
    PROVE  TopBar!OfForm([type |-> type, key |-> TopBar!None, fields |-> TopBar!FreshFields(type)])
<1> DEFINE F == DOMAIN TopBar!FormDims
           D == TopBar!FormDims[type]
           fields == [dim \in D |-> <<"is", TopBar!None>>]
           fm == [type |-> type, key |-> TopBar!None, fields |-> fields]
<1>1. TopBar!FreshFields(type) = fields
  BY DEF TopBar!FreshFields
<1>2. type \in F
  OBVIOUS
<1> HIDE DEF F
<1>3. /\ fm \in [type : F, key : Values["property"] \cup {TopBar!None}, fields : {fm.fields}]
      /\ fm.type = type /\ fm.fields = fields
  BY <1>2
<1>4. /\ fields = [dim \in D |-> fields[dim]]
      /\ \A dim \in D : fields[dim] = <<fields[dim][1], fields[dim][2]>> /\ fields[dim][1] \in TopBar!Operators
  <2> HIDE DEF D
  <2> QED BY DEF TopBar!Operators
<1> HIDE DEF fields, fm
<1>5. TopBar!OfForm(fm)
  BY <1>3, <1>4 DEF TopBar!OfForm, F
<1> QED BY <1>1, <1>5 DEF fm

LEMMA KeyOfForm ==
    ASSUME NEW fm, TopBar!OfForm(fm), fm.type # TopBar!None, NEW key \in Values["property"],
           NEW next, next = [fm EXCEPT !.key = key, !.fields = [dim \in DOMAIN fm.fields |-> <<fm.fields[dim][1], TopBar!None>>]]
    PROVE  TopBar!OfForm(next) /\ next.type = fm.type
<1>1. fm # TopBar!NoForm
  BY DEF TopBar!NoForm
<1>2. /\ fm \in [type : DOMAIN TopBar!FormDims, key : Values["property"] \cup {TopBar!None}, fields : {fm.fields}]
      /\ fm.fields = [d \in TopBar!FormDims[fm.type] |-> fm.fields[d]]
      /\ \A d \in TopBar!FormDims[fm.type] :
           fm.fields[d] = <<fm.fields[d][1], fm.fields[d][2]>> /\ fm.fields[d][1] \in TopBar!Operators
  BY <1>1, Zenon DEF TopBar!OfForm
<1> DEFINE D == TopBar!FormDims[fm.type]
           F == DOMAIN TopBar!FormDims
<1> HIDE DEF F
<1>3. /\ next \in [type : F, key : Values["property"] \cup {TopBar!None}, fields : {next.fields}]
      /\ next.type = fm.type /\ next.fields = [dim \in DOMAIN fm.fields |-> <<fm.fields[dim][1], TopBar!None>>]
  BY <1>2 DEF F
<1>4. /\ next.fields = [d \in D |-> next.fields[d]]
      /\ \A d \in D : next.fields[d] = <<next.fields[d][1], next.fields[d][2]>> /\ next.fields[d][1] \in TopBar!Operators
  <2>1. DOMAIN fm.fields = D
    BY <1>2
  <2> HIDE DEF D
  <2>2. \A d \in D : fm.fields[d][1] \in TopBar!Operators
    BY <1>2 DEF D
  <2> QED BY <1>3, <2>1, <2>2
<1> QED BY <1>3, <1>4 DEF TopBar!OfForm, F

LEMMA MovesDialog ==
    ASSUME TopBar!Inductive,
           \/ \E type \in DOMAIN Values : TopBar!ChooseForm(type)
           \/ TopBar!ShowForm \/ TopBar!CloseForm
           \/ \E key \in Values["property"] : TopBar!TypeKey(key)
           \/ \E dim \in DOMAIN s6.fields :
                \/ \E value \in Values[s6.type] : TopBar!TypeValue(dim, value)
                \/ \E op \in TopBar!Operators : TopBar!ChooseOperator(dim, op)
    PROVE  TopBar!Inductive'
<1>1. /\ s5 \in DOMAIN TopBar!FormDims \cup {TopBar!None} /\ TopBar!OfForm(s6) /\ TopBar!OfSuggest(s7)
      /\ s8 \subseteq {TopBar!SuggestKey} /\ (s7.due => s7.field # TopBar!None)
      /\ (s6.type = TopBar!None => s7.field = TopBar!None /\ s8 = {})
      /\ (s5 # TopBar!None => s6.type = TopBar!None)
  BY DEF TopBar!Inductive, TopBar!TypeOK, TopBar!Suggests
<1>2. ASSUME NEW type, TopBar!ChooseForm(type) PROVE TopBar!Inductive'
  <2>1. /\ s6.type = TopBar!None /\ type \in DOMAIN TopBar!FormDims /\ s5' = type
        /\ UNCHANGED <<s1, s2, s3, s4, s6, s7, s8, s9, s10>>
    BY <1>2 DEF TopBar!ChooseForm
  <2>2. TopBar!SuggestKey' = TopBar!SuggestKey
    BY <2>1 DEF TopBar!SuggestKey
  <2>3. TopBar!Suggests'
    BY <1>1, <2>1, <2>2 DEF TopBar!Suggests
  <2> QED BY <1>1, <2>1, <2>3, DialogSteps
<1>3. CASE TopBar!ShowForm
  <2>1. /\ s5 # TopBar!None /\ s5' = TopBar!None
        /\ s6' = [type |-> s5, key |-> TopBar!None, fields |-> TopBar!FreshFields(s5)]
        /\ UNCHANGED <<s1, s2, s3, s4, s7, s8, s9, s10>>
    BY <1>3 DEF TopBar!ShowForm
  <2>2. TopBar!OfForm(s6')
    <3>1. s5 \in DOMAIN TopBar!FormDims
      BY <1>1, <2>1
    <3>2. TopBar!OfForm([type |-> s5, key |-> TopBar!None, fields |-> TopBar!FreshFields(s5)])
      BY <3>1, NewForm
    <3> QED BY <2>1, <3>2
  <2>3. s8' = {} /\ s7'.field = TopBar!None /\ ~s7'.due
    BY <1>1, <2>1 DEF TopBar!OfSuggest
  <2>4. TopBar!Suggests'
    BY <2>1, <2>3 DEF TopBar!Suggests
  <2> QED BY <1>1, <2>1, <2>2, <2>4, DialogSteps
<1>4. CASE TopBar!CloseForm
  <2>1. /\ s6.type # TopBar!None /\ s6' = TopBar!NoForm /\ s7' = TopBar!NoSuggest /\ s8' = TopBar!Ignored(s8)
        /\ UNCHANGED <<s1, s2, s3, s4, s5, s9, s10>>
    BY <1>4 DEF TopBar!CloseForm
  <2>2. TopBar!OfForm(s6') /\ TopBar!OfSuggest(s7') /\ ~s7'.due /\ s7'.field = TopBar!None
    BY <2>1, NoSuggestions DEF TopBar!OfForm
  <2>3. TopBar!Suggests'
    BY <2>1, <2>2, DialogSuggestions
  <2> QED BY <1>1, <2>1, <2>2, <2>3, DialogSteps
<1>5. ASSUME NEW key \in Values["property"], TopBar!TypeKey(key) PROVE TopBar!Inductive'
  <2>1. /\ s6.type = "property" /\ s7' = TopBar!NoSuggest /\ s8' = TopBar!Ignored(s8)
        /\ s6' = [s6 EXCEPT !.key = key, !.fields = [dim \in DOMAIN s6.fields |-> <<s6.fields[dim][1], TopBar!None>>]]
        /\ UNCHANGED <<s1, s2, s3, s4, s5, s9, s10>>
    BY <1>5 DEF TopBar!TypeKey
  <2>2. s6.type # TopBar!None
    BY <2>1 DEF TopBar!None
  <2>3. TopBar!OfForm(s6')
    BY <1>1, <2>1, <2>2, KeyOfForm
  <2>4. TopBar!OfSuggest(s7') /\ ~s7'.due /\ s7'.field = TopBar!None
    BY <2>1, NoSuggestions
  <2>5. TopBar!Suggests'
    BY <2>1, <2>2, <2>4, DialogSuggestions
  <2> QED BY <1>1, <2>1, <2>3, <2>4, <2>5, DialogSteps
<1>6. ASSUME NEW dim \in DOMAIN s6.fields, NEW value, TopBar!TypeValue(dim, value) PROVE TopBar!Inductive'
  <2> DEFINE field == <<s6.fields[dim][1], value>>
  <2>1. /\ s6.type # TopBar!None /\ s7' = TopBar!Restart(s7) /\ s8' = TopBar!Ignored(s8)
        /\ s6' = [s6 EXCEPT !.fields = [s6.fields EXCEPT ![dim] = field]]
        /\ UNCHANGED <<s1, s2, s3, s4, s5, s9, s10>>
    BY <1>6 DEF TopBar!TypeValue, TopBar!WithField
  <2>2. field[1] \in TopBar!Operators
    <3>1. s6 # TopBar!NoForm
      BY <2>1 DEF TopBar!NoForm
    <3>2. s6.fields = [d \in TopBar!FormDims[s6.type] |-> s6.fields[d]]
          /\ \A d \in TopBar!FormDims[s6.type] : s6.fields[d][1] \in TopBar!Operators
      BY <1>1, <3>1, Zenon DEF TopBar!OfForm
    <3>3. DOMAIN s6.fields = TopBar!FormDims[s6.type]
      BY <3>2
    <3> QED BY <3>2, <3>3
  <2>3. field = <<field[1], field[2]>>
    OBVIOUS
  <2> HIDE DEF field
  <2>4. TopBar!OfForm(s6') /\ s6'.type = s6.type
    BY <1>1, <2>1, <2>2, <2>3, FieldOfForm
  <2>5. TopBar!OfSuggest(s7') /\ (s7'.due => s7'.field # TopBar!None)
    BY <1>1, <2>1 DEF TopBar!Restart, TopBar!OfSuggest
  <2>6. TopBar!Suggests'
    BY <2>1, <2>4, <2>5, DialogSuggestions
  <2> QED BY <1>1, <2>1, <2>4, <2>5, <2>6, DialogSteps
<1>7. ASSUME NEW dim \in DOMAIN s6.fields, NEW op \in TopBar!Operators, TopBar!ChooseOperator(dim, op) PROVE TopBar!Inductive'
  <2> DEFINE field == <<op, s6.fields[dim][2]>>
  <2>1. /\ s6.type # TopBar!None /\ s7' = TopBar!NoSuggest /\ s8' = TopBar!Ignored(s8)
        /\ s6' = [s6 EXCEPT !.fields = [s6.fields EXCEPT ![dim] = field]]
        /\ UNCHANGED <<s1, s2, s3, s4, s5, s9, s10>>
    BY <1>7 DEF TopBar!ChooseOperator, TopBar!WithField
  <2>2. field = <<field[1], field[2]>> /\ field[1] \in TopBar!Operators
    OBVIOUS
  <2> HIDE DEF field
  <2>3. TopBar!OfForm(s6') /\ s6'.type = s6.type
    BY <1>1, <2>1, <2>2, FieldOfForm
  <2>4. TopBar!OfSuggest(s7') /\ ~s7'.due /\ s7'.field = TopBar!None
    BY <2>1, NoSuggestions
  <2>5. TopBar!Suggests'
    BY <2>1, <2>3, <2>4, DialogSuggestions
  <2> QED BY <1>1, <2>1, <2>3, <2>4, <2>5, DialogSteps
<1> QED BY <1>2, <1>3, <1>4, <1>5, <1>6, <1>7

LEMMA SubmitsForm ==
    ASSUME TopBar!Inductive, TopBar!SubmitForm
    PROVE  TopBar!Inductive'
<1> DEFINE q == TopBar!ApplyForm(TopBar!Current, s6)
<1>1. /\ s6.type # TopBar!None /\ TopBar!CanApply(s6) /\ TopBar!UpdateQuery(q, s4, FALSE)
      /\ s6' = TopBar!NoForm /\ s7' = TopBar!NoSuggest /\ s8' = TopBar!Ignored(s8) /\ s3' = s3 /\ s5' = s5
  BY DEF TopBar!SubmitForm
<1>2. s4 \in TopBar!Calendars /\ s3 \in Days /\ s5 \in DOMAIN TopBar!FormDims \cup {TopBar!None} /\ TopBar!OfForm(s6)
  BY DEF TopBar!Inductive, TopBar!TypeOK
<1>3. TopBar!OfQuery(q)
  BY <1>1, <1>2, CurrentQuery, FormQuery
<1> HIDE DEF q
<1>4. TopBar!History' /\ s4' \in TopBar!Calendars
  BY <1>1, <1>2, <1>3, QueryUpdates
<1>5. TopBar!OfForm(s6') /\ TopBar!OfSuggest(s7') /\ ~s7'.due /\ s7'.field = TopBar!None
  BY <1>1, NoSuggestions DEF TopBar!OfForm
<1>6. TopBar!Suggests'
  BY <1>1, <1>5, DialogSuggestions
<1> QED BY <1>1, <1>2, <1>4, <1>5, <1>6 DEF TopBar!Inductive, TopBar!TypeOK

\* The focused input's suggestions.
LEMMA MovesSuggestions ==
    ASSUME TopBar!Inductive,
           \/ \E dim \in DOMAIN s6.fields : TopBar!FocusInput(dim)
           \/ TopBar!BlurInput \/ TopBar!AskSuggestions
           \/ \E fe \in s8 : TopBar!ReceiveSuggestions(fe)
    PROVE  TopBar!Inductive'
<1>1. /\ s5 \in DOMAIN TopBar!FormDims \cup {TopBar!None} /\ TopBar!OfForm(s6) /\ TopBar!OfSuggest(s7)
      /\ s8 \subseteq {TopBar!SuggestKey} /\ (s7.due => s7.field # TopBar!None)
      /\ (s6.type = TopBar!None => s7.field = TopBar!None /\ s8 = {})
      /\ (s5 # TopBar!None => s6.type = TopBar!None)
  BY DEF TopBar!Inductive, TopBar!TypeOK, TopBar!Suggests
<1>2. ASSUME NEW dim \in DOMAIN s6.fields, TopBar!FocusInput(dim) PROVE TopBar!Inductive'
  <2>1. /\ s6.type # TopBar!None /\ s7' = [TopBar!NoSuggest EXCEPT !.field = dim, !.due = TRUE] /\ s8' = TopBar!Ignored(s8)
        /\ UNCHANGED <<s1, s2, s3, s4, s5, s6, s9, s10>>
    BY <1>2 DEF TopBar!FocusInput
  <2>2. dim # TopBar!None
    <3>1. s6 # TopBar!NoForm
      BY <2>1 DEF TopBar!NoForm
    <3>2. /\ s6 \in [type : DOMAIN TopBar!FormDims, key : Values["property"] \cup {TopBar!None}, fields : {s6.fields}]
          /\ s6.fields = [d \in TopBar!FormDims[s6.type] |-> s6.fields[d]]
      BY <1>1, <3>1, Zenon DEF TopBar!OfForm
    <3>3. dim \in TopBar!FormDims[s6.type] /\ s6.type \in DOMAIN TopBar!FormDims
      BY <3>2
    <3> QED BY <3>3, FormDimensions
  <2>3. TopBar!OfSuggest(s7') /\ s7'.field = dim
    BY <2>1 DEF TopBar!NoSuggest, TopBar!OfSuggest
  <2>4. TopBar!Suggests'
    BY <2>1, <2>2, <2>3, DialogSuggestions
  <2> QED BY <1>1, <2>1, <2>3, <2>4, DialogSteps
<1>3. CASE TopBar!BlurInput
  <2>1. /\ s7.field # TopBar!None /\ s7' = TopBar!NoSuggest /\ s8' = TopBar!Ignored(s8)
        /\ UNCHANGED <<s1, s2, s3, s4, s5, s6, s9, s10>>
    BY <1>3 DEF TopBar!BlurInput
  <2>2. TopBar!OfSuggest(s7') /\ ~s7'.due /\ s7'.field = TopBar!None
    BY <2>1, NoSuggestions
  <2>3. TopBar!Suggests'
    BY <1>1, <2>1, <2>2, DialogSuggestions
  <2> QED BY <1>1, <2>1, <2>2, <2>3, DialogSteps
<1>4. CASE TopBar!AskSuggestions
  <2>1. /\ s7.due /\ s7' = [s7 EXCEPT !.due = FALSE, !.searching = TRUE] /\ s8' = s8 \cup {TopBar!SuggestKey}
        /\ UNCHANGED <<s1, s2, s3, s4, s5, s6, s9, s10>>
    BY <1>4 DEF TopBar!AskSuggestions
  <2>2. TopBar!OfSuggest(s7') /\ ~s7'.due /\ s7'.field = s7.field
    BY <1>1, <2>1 DEF TopBar!OfSuggest
  <2>3. TopBar!SuggestKey' = TopBar!SuggestKey
    BY <2>1, <2>2 DEF TopBar!SuggestKey
  <2>4. TopBar!Suggests'
    BY <1>1, <2>1, <2>2, <2>3 DEF TopBar!Suggests
  <2> QED BY <1>1, <2>1, <2>2, <2>4, DialogSteps
<1>5. ASSUME NEW fe \in s8, TopBar!ReceiveSuggestions(fe) PROVE TopBar!Inductive'
  <2>1. /\ s8' = s8 \ {fe} /\ s7' = [s7 EXCEPT !.options = fe, !.searching = FALSE]
        /\ UNCHANGED <<s1, s2, s3, s4, s5, s6, s9, s10>>
    BY <1>5 DEF TopBar!ReceiveSuggestions
  <2>2. TopBar!OfSuggest(s7') /\ s7'.due = s7.due /\ s7'.field = s7.field
    BY <1>1, <2>1 DEF TopBar!OfSuggest
  <2>3. TopBar!SuggestKey' = TopBar!SuggestKey
    BY <2>1, <2>2 DEF TopBar!SuggestKey
  <2>4. TopBar!Suggests'
    BY <1>1, <2>1, <2>2, <2>3 DEF TopBar!Suggests
  <2> QED BY <1>1, <2>1, <2>2, <2>4, DialogSteps
<1> QED BY <1>2, <1>3, <1>4, <1>5

LEMMA TopBarStays ==
    ASSUME TopBar!Inductive, TopBar!Next
    PROVE  TopBar!Inductive'
<1>1. CASE TopBar!ReplaceByCanonical \/ TopBar!Back
  BY <1>1, Returns
<1>2. CASE TopBar!Midnight
  <2>1. s3' \in Days /\ UNCHANGED <<s1, s2, s4, s5, s6, s7, s8, s9, s10>>
    BY <1>2 DEF TopBar!Midnight
  <2>2. s4' \in TopBar!Calendars
    BY <2>1 DEF TopBar!Inductive, TopBar!TypeOK
  <2> QED BY <2>1, <2>2, CalendarSteps
<1>3. ASSUME NEW hint \in Hints, TopBar!PressKey(hint) \/ TopBar!PickPeriod(TopBar!Shortcuts[hint])
      PROVE  TopBar!Inductive'
  BY <1>3, ChoosesPeriod
<1> QED BY <1>1, <1>2, <1>3, ChoosesComparison, MovesCalendar, ChoosesFilters, MovesDialog, SubmitsForm,
           MovesSuggestions, Zenon DEF TopBar!Next

LEMMA TopBarUnchanged ==
    ASSUME TopBar!Inductive, UNCHANGED <<s1, s2, s3, s4, s5, s6, s7, s8, s9, s10>>
    PROVE  TopBar!Inductive'
<1>1. s3' \in Days /\ s4' \in TopBar!Calendars
  BY DEF TopBar!Inductive, TopBar!TypeOK
<1> QED BY <1>1, CalendarSteps

LEMMA TopBarStarts ==
    ASSUME TopBar!Init
    PROVE  TopBar!Inductive
<1>1. s1 \in BarUrls /\ s3 \in Days /\ s2 = <<>> /\ s10 = <<>> /\ s9 = TopBar!QueryOf(s1)
      /\ s4 = [which \in {"custom", "compare"} |-> TopBar!Shut]
      /\ s5 = TopBar!None /\ s6 = TopBar!NoForm /\ s7 = TopBar!NoSuggest /\ s8 = {}
  BY DEF TopBar!Init
<1>2. TopBar!Says(s1, s9)
  <2>1. TopBar!OfUrl(s1)
    BY <1>1, DashboardAssumption DEF TopBar!TopBarAssumption
  <2>2. TopBar!OfQuery(TopBar!QueryOf(s1))
    BY <2>1, ReadsQuery
  <2> QED BY <1>1, <2>1, <2>2 DEF TopBar!Says, TopBar!SameReport, TopBar!SameTimes, TopBar!SameFilters
<1>3. TopBar!History
  <2>1. TopBar!ToSet(<<>>) = {}
    BY DEF TopBar!ToSet
  <2> QED BY <1>1, <1>2, <2>1 DEF TopBar!History
<1>4. s4 \in TopBar!Calendars
  <2>1. TopBar!Shut \in [open : BOOLEAN, start : Days \cup {TopBar!Nothing}, preloaded : BOOLEAN,
                         given : (TopBar!Dates \X TopBar!Dates) \cup {TopBar!Nothing}]
    BY DEF TopBar!Shut
  <2> QED BY <1>1, <2>1 DEF TopBar!Calendars
<1>5. TopBar!Suggests
  BY <1>1, NoSuggestions DEF TopBar!Suggests, TopBar!NoForm
<1>6. TopBar!TypeOK
  BY <1>1, <1>4, NoSuggestions DEF TopBar!TypeOK, TopBar!OfForm
<1> QED BY <1>3, <1>5, <1>6 DEF TopBar!Inductive

\* What the URL says is what was asked for, and the ranges it says are in order.
LEMMA UrlSays ==
    ASSUME TopBar!Inductive
    PROVE  TopBar!IntentInUrl /\ TopBar!RangesOrdered
<1>1. TopBar!OfUrl(s1) /\ TopBar!SameReport(TopBar!QueryOf(s1), s9)
  BY DEF TopBar!Inductive, TopBar!History, TopBar!Says
<1>2. TopBar!OfQuery(TopBar!QueryOf(s1))
  BY <1>1, ReadsQuery
<1>3. TopBar!Ordered(TopBar!QueryOf(s1).day)
  BY <1>2, QueryParts DEF TopBar!OfDays
<1> QED BY <1>1, <1>3 DEF TopBar!IntentInUrl, TopBar!RangesOrdered

\* The date written for a selection is the one its mark is computed from.
LEMMA MarkedPeriod ==
    ASSUME NEW q, TopBar!OfQuery(q), NEW x \in TopBar!Selections, NEW d \in TopBar!Dates,
           NEW r, r.period = x.value, "date" \in DOMAIN r.day <=> TopBar!SelectionDay(x, d) # {},
           "date" \in DOMAIN r.day => r.day["date"] \in TopBar!SelectionDay(x, d)
    PROVE  TopBar!IsPeriodSelectionActive(r, x, d)
<1>1. CASE x.value = "day"
  <2>1. x = TopBar!Selection("day", "current") \/ x = TopBar!Selection("day", "last")
    BY <1>1, ShortcutList DEF TopBar!Selection
  <2>2. CASE x = TopBar!Selection("day", "current")
    <3>1. TopBar!SelectionDay(x, d) = {} /\ x.setDate = "current"
      BY <2>2 DEF TopBar!SelectionDay, TopBar!Selection
    <3> QED BY <1>1, <3>1 DEF TopBar!IsPeriodSelectionActive
  <2>3. CASE x = TopBar!Selection("day", "last")
    <3>1. TopBar!SelectionDay(x, d) = {TopBar!Yesterday(d)} /\ x.setDate = "last"
      BY <2>3 DEF TopBar!SelectionDay, TopBar!Selection
    <3> QED BY <1>1, <3>1 DEF TopBar!IsPeriodSelectionActive
  <2> QED BY <2>1, <2>2, <2>3
<1>2. CASE x.value = "month"
  <2> DEFINE m == IF x.setDate = "last" THEN TopBar!SetMonthBack(d) ELSE d
  <2>1. TopBar!SelectionDay(x, d) = {<<m[1], m[2], 1>>}
    BY <1>2 DEF TopBar!SelectionDay, TopBar!Selection
  <2> HIDE DEF m
  <2>2. "date" \in DOMAIN r.day /\ r.day["date"] = <<m[1], m[2], 1>>
    BY <2>1
  <2>3. r.day["date"][1] = m[1] /\ r.day["date"][2] = m[2]
    BY <2>2
  <2> QED BY <1>2, <2>2, <2>3 DEF TopBar!IsPeriodSelectionActive, m
<1>3. CASE x.value = "year"
  <2> DEFINE y == IF x.setDate = "last" THEN d[1] - 1 ELSE d[1]
  <2>1. TopBar!SelectionDay(x, d) = {<<y, 1, 1>>}
    BY <1>3 DEF TopBar!SelectionDay, TopBar!Selection
  <2> HIDE DEF y
  <2>2. "date" \in DOMAIN r.day /\ r.day["date"] = <<y, 1, 1>>
    BY <2>1
  <2>3. r.day["date"][1] = y
    BY <2>2
  <2> QED BY <1>3, <2>2, <2>3 DEF TopBar!IsPeriodSelectionActive, y
<1>4. CASE x.value \notin {"day", "month", "year"}
  BY <1>4 DEF TopBar!IsPeriodSelectionActive
<1> QED BY <1>1, <1>2, <1>3, <1>4

\* What choosing a period asks for.
LEMMA PeriodSays ==
    ASSUME NEW q, TopBar!OfQuery(q), NEW x, NEW d \in TopBar!Dates, NEW w, w = TopBar!ApplyPeriodSelection(q, x, d)
    PROVE  /\ w.period = x.value
           /\ "date" \in DOMAIN w.day <=> TopBar!SelectionDay(x, d) # {}
           /\ "date" \in DOMAIN w.day => w.day["date"] \in TopBar!SelectionDay(x, d)
<1> DEFINE days == TopBar!PutDay(TopBar!PutDay(q.day, "from", {}), "to", {})
           found == TopBar!SelectionDay(x, d)
           put == TopBar!PutDay(days, "date", found)
<1>1. q = [period |-> q.period, comparison |-> q.comparison, day |-> q.day, withImported |-> q.withImported,
           matchDayOfWeek |-> q.matchDayOfWeek, filters |-> q.filters, labels |-> q.labels, advanced |-> q.advanced]
  BY QueryParts
<1>2. w = [q EXCEPT !.period = x.value, !.day = put]
  BY DEF TopBar!ApplyPeriodSelection
<1> HIDE DEF put
<1>3. w.period = x.value /\ w.day = put
  BY <1>1, <1>2
<1> HIDE DEF days, found
<1>4. "date" \in DOMAIN put <=> found # {}
  BY DEF put, TopBar!PutDay
<1>5. "date" \in DOMAIN put => put["date"] \in found
  <2>1. found # {} => (CHOOSE e \in found : TRUE) \in found
    BY Zenon
  <2>2. "date" \in DOMAIN put => put["date"] = CHOOSE e \in found : TRUE
    BY DEF put, TopBar!PutDay
  <2> QED BY <1>4, <2>1, <2>2
<1> QED BY <1>3, <1>4, <1>5 DEF found

LEMMA MarksPeriod ==
    ASSUME TopBar!Inductive, TopBar!Inductive'
    PROVE  TopBar!PeriodMarked
<1> SUFFICES ASSUME NEW x \in TopBar!Selections, s9' = TopBar!ApplyPeriodSelection(TopBar!Current, x, s3),
                    x \in TopBar!PickerOptions(x.value)
             PROVE  x \in TopBar!ActivePeriods(TopBar!QueryOf(s1'), s3)
  BY DEF TopBar!PeriodMarked
<1> DEFINE q == TopBar!Current
           r == TopBar!QueryOf(s1')
           w == s9'
           found == TopBar!SelectionDay(x, s3)
<1>1. TopBar!OfQuery(q) /\ s3 \in TopBar!Dates
  BY CurrentQuery
<1>2. TopBar!Says(s1', w)
  BY DEF TopBar!Inductive, TopBar!History
<1>3. r.period = w.period /\ TopBar!UsedDays(r) = TopBar!UsedDays(w)
  BY <1>2 DEF TopBar!Says, TopBar!SameReport, TopBar!SameTimes
<1>4. w.period = x.value /\ ("date" \in DOMAIN w.day <=> found # {}) /\ ("date" \in DOMAIN w.day => w.day["date"] \in found)
  BY <1>1, PeriodSays
<1> HIDE DEF q, r, w, found
<1>5. ASSUME NEW a, NEW b, TopBar!UsedDays(a) = TopBar!UsedDays(b), "date" \in DOMAIN a.day
      PROVE  "date" \in DOMAIN b.day /\ b.day["date"] = a.day["date"]
  <2>1. <<"date", a.day["date"]>> \in TopBar!UsedDays(a)
    BY <1>5 DEF TopBar!UsedDays, TopBar!CompareDays
  <2>2. PICK k \in DOMAIN b.day : <<"date", a.day["date"]>> = <<k, b.day[k]>>
    BY <1>5, <2>1 DEF TopBar!UsedDays
  <2> QED BY <2>2
<1>6. ("date" \in DOMAIN r.day <=> found # {}) /\ ("date" \in DOMAIN r.day => r.day["date"] \in found)
  <2>1. "date" \in DOMAIN r.day => "date" \in DOMAIN w.day /\ w.day["date"] = r.day["date"]
    BY <1>3, <1>5
  <2>2. "date" \in DOMAIN w.day => "date" \in DOMAIN r.day
    BY <1>3, <1>5
  <2> QED BY <1>4, <2>1, <2>2
<1>7. TopBar!IsPeriodSelectionActive(r, x, s3)
  BY <1>1, <1>3, <1>4, <1>6, MarkedPeriod DEF found
<1>8. x \in TopBar!PickerOptions(r.period)
  BY <1>3, <1>4
<1>9. x \in TopBar!ActivePeriods(r, s3)
  BY <1>7, <1>8 DEF TopBar!ActivePeriods
<1> QED BY <1>9 DEF r

\* An answer that is not ignored is one for what the input holds.
LEMMA AnswersInput ==
    ASSUME TopBar!Inductive, TopBar!Next
    PROVE  TopBar!SuggestedAsAsked
<1>1. /\ s7 \in [field : {s7.field}, due : BOOLEAN, searching : BOOLEAN, options : {s7.options}]
      /\ s8 \subseteq {TopBar!SuggestKey}
  BY DEF TopBar!Inductive, TopBar!TypeOK, TopBar!OfSuggest, TopBar!Suggests
<1>2. CASE s7' = s7
  BY <1>2 DEF TopBar!SuggestedAsAsked
<1>3. CASE s7' = TopBar!Restart(s7)
  <2>1. s7'.options = s7.options
    BY <1>1, <1>3 DEF TopBar!Restart
  <2> QED BY <2>1 DEF TopBar!SuggestedAsAsked
<1>4. CASE s7' = TopBar!NoSuggest
  <2>1. s7'.options = TopBar!Nothing
    BY <1>4 DEF TopBar!NoSuggest
  <2> QED BY <2>1 DEF TopBar!SuggestedAsAsked
<1>5. CASE \E dim : TopBar!FocusInput(dim)
  <2>1. s7'.options = TopBar!Nothing
    BY <1>5 DEF TopBar!FocusInput, TopBar!NoSuggest
  <2> QED BY <2>1 DEF TopBar!SuggestedAsAsked
<1>6. CASE TopBar!AskSuggestions
  <2>1. s7'.options = s7.options
    BY <1>1, <1>6 DEF TopBar!AskSuggestions
  <2> QED BY <2>1 DEF TopBar!SuggestedAsAsked
<1>7. ASSUME NEW fe \in s8, TopBar!ReceiveSuggestions(fe) PROVE TopBar!SuggestedAsAsked
  <2>1. s7'.options = fe
    BY <1>1, <1>7 DEF TopBar!ReceiveSuggestions
  <2> QED BY <1>1, <2>1 DEF TopBar!SuggestedAsAsked
<1>8. \/ s7' = s7 \/ s7' = TopBar!Restart(s7) \/ s7' = TopBar!NoSuggest
      \/ (\E dim : TopBar!FocusInput(dim)) \/ TopBar!AskSuggestions
      \/ \E fe \in s8 : TopBar!ReceiveSuggestions(fe)
  <2>1. ASSUME NEW which, NEW day, TopBar!ClickDay(which, day) PROVE s7' = s7 \/ s7' = TopBar!Restart(s7)
    BY <2>1 DEF TopBar!ClickDay
  <2> QED BY <2>1 DEF TopBar!Next, TopBar!ReplaceByCanonical, TopBar!Back, TopBar!Midnight, TopBar!PressKey,
        TopBar!PickPeriod, TopBar!PressX, TopBar!PickComparison, TopBar!MatchDayOfWeek, TopBar!OpenCalendar,
        TopBar!CloseCalendar, TopBar!RemoveBadge, TopBar!ClearAll, TopBar!ApplySegment, TopBar!Drilldown,
        TopBar!ChooseForm, TopBar!ShowForm, TopBar!CloseForm, TopBar!SubmitForm, TopBar!TypeKey, TopBar!TypeValue,
        TopBar!ChooseOperator, TopBar!BlurInput, TopBar!Update
<1> QED BY <1>2, <1>3, <1>4, <1>5, <1>6, <1>7, <1>8

-----------------------------------------------------------------------------
(* The dashboard.                                                              *)

Inductive ==
  /\ part = "top bar" => TopBar!Inductive
  /\ part = "graph" => Graph!Inductive
  /\ part = "details" => Details!Inductive
  /\ part = "journey" => Journey!Inductive

\* One part of the dashboard is looked at, and its steps are those of its module.
LEMMA PartSteps ==
    ASSUME Next
    PROVE  /\ part' = part
           /\ part = "top bar" => TopBar!Next
           /\ part = "graph" => Graph!Next
           /\ part = "details" => Details!Next
           /\ part = "journey" => Journey!Next
BY DEF Next, InTopBar, InPanel, InBehaviors, InGraph, InDetails, InJourney

LEMMA GraphStutters ==
    ASSUME Graph!Inductive, UNCHANGED all
    PROVE  Graph!Inductive'
<1>1. UNCHANGED <<s1, s2, s3, s4, s5, s6, s7, s9, s10, s11, s12, s13, s16>>
  BY DEF all, afterTopBar, afterPanel, afterDetails
<1>2. Graph!TypeOK'
  BY <1>1 DEF Graph!Inductive, Graph!TypeOK
<1>3. Graph!Drawn'
  BY <1>1, GraphStays DEF Graph!Inductive
<1> QED BY <1>2, <1>3 DEF Graph!Inductive

LEMMA DetailsStutters ==
    ASSUME Details!Inductive, UNCHANGED all
    PROVE  Details!Inductive'
<1>1. UNCHANGED <<s1, s2, s3, s4, s5, s6, s7, s8, s9, s10, s11, s12, s13, s14>>
  BY DEF all, afterTopBar, afterPanel
<1> QED BY <1>1 DEF Details!Inductive, Details!TypeOK, Details!FetchedTypes, Details!OtherTypes,
                    Details!Listens, Details!FirstPageShown, Details!Awaited, Details!Wanted,
                    Details!Begins, Details!Content, Details!Asked

LEMMA JourneyStutters ==
    ASSUME Journey!Inductive, UNCHANGED all
    PROVE  Journey!Inductive'
BY JourneyStays DEF all, afterTopBar, afterPanel, afterDetails, afterGraph

\* Whichever part of the dashboard is looked at, its inductive invariant holds, for every value of the
\* constants: of the top bar, every entry of the history says what was asked for there; of the graph and
\* of a details dialog, what is drawn and listed is of what was asked; of a visitor's sheet, either the
\* sessions are the first pages of the day or the list is one that a failure, or a change of the query
\* with no day chosen, left empty until its first page comes.  The list and behaviors panels are in PanelsProofs.
THEOREM DashboardInductive == Spec => []Inductive
<1>1. Init => Inductive
  BY TopBarStarts, GraphStart, DetailsStart, JourneyStart DEF Init, Inductive
<1>2. Inductive /\ [Next]_all => Inductive'
  <2>1. ASSUME Inductive, Next PROVE Inductive'
    BY <2>1, PartSteps, TopBarStays, GraphStep, DetailsStep, JourneyStep DEF Inductive
  <2>2. ASSUME Inductive, UNCHANGED all PROVE Inductive'
    <3>1. part' = part /\ UNCHANGED <<s1, s2, s3, s4, s5, s6, s7, s8, s9, s10>>
      BY <2>2 DEF all
    <3> QED BY <2>2, <3>1, TopBarUnchanged, GraphStutters, DetailsStutters, JourneyStutters DEF Inductive
  <2> QED BY <2>1, <2>2
<1> QED BY <1>1, <1>2, PTL DEF Spec

\* For every URL, day and value: through every way of writing the query to the URL and reading it,
\* replacing it by its canonical form, and Back, the URL says the times that were last asked for at its
\* entry, and the filters too if no key of that query has a comma; and a range that was clicked on a
\* calendar begins before it ends.  The text of a filter ends its key at the first comma (Token): that a
\* key without one comes back whole is WrittenTokens and ReadBack (updateQuery, the codec, handleDayClick).
THEOREM UrlTheorem == Spec => []UrlIsWhatWasAsked
<1>1. Inductive => UrlIsWhatWasAsked
  BY UrlSays DEF Inductive, UrlIsWhatWasAsked
<1> QED BY <1>1, DashboardInductive, PTL

\* For every day and value: the menu marks the period that was chosen, and the suggestions that arrive
\* are those for what the input holds (period.ts, SuggestInput).
THEOREM BarStepsTheorem == Spec => TopBarSteps
<1>1. Inductive /\ Inductive' /\ [Next]_all => [part = "top bar" => TopBar!PeriodMarked /\ TopBar!SuggestedAsAsked]_all
  <2>1. ASSUME Inductive, Inductive', Next, part = "top bar" PROVE TopBar!PeriodMarked /\ TopBar!SuggestedAsAsked
    BY <2>1, PartSteps, MarksPeriod, AnswersInput DEF Inductive
  <2> QED BY <2>1
<1> QED BY <1>1, DashboardInductive, PTL DEF Spec, TopBarSteps

\* For every value of the constants: the graph that is drawn, when none is under way and the last one
\* asked did not fail, is the one its tile and its interval picker name, and it is never asked by an
\* interval its period does not have (visitor-graph.tsx).
THEOREM GraphTheorem == Spec => []GraphIsAsked
<1>1. Inductive => GraphIsAsked
  <2>1. SUFFICES ASSUME part = "graph", Graph!Inductive PROVE Graph!GraphIsAsked /\ Graph!IntervalFits
    BY DEF Inductive, GraphIsAsked
  <2>2. Graph!GraphIsAsked
    BY <2>1 DEF Graph!Inductive, Graph!Drawn, Graph!GraphIsAsked
  <2>3. Graph!IntervalFits
    <3>1. s1 \in Queries
      BY <2>1 DEF Graph!Inductive, Graph!TypeOK
    <3>2. Graph!Shown.interval \in Graph!Range(UnitsOf[Graph!Shown.of])
      BY <3>1, GraphChoice DEF Graph!Shown
    <3> QED BY <2>1, <3>2 DEF Graph!Inductive, Graph!Drawn, Graph!IntervalFits
  <2> QED BY <2>2, <2>3
<1> QED BY <1>1, DashboardInductive, PTL

\* For every report, text and column: once the first page is answered, the rows of an open details
\* dialog begin with the first page of its report, by the search it last asked for and the column it
\* is sorted by (remote-details-dialog.tsx).
THEOREM DetailsTheorem == Spec => []FirstPageShown
<1>1. Inductive => FirstPageShown
  BY DEF Inductive, FirstPageShown, Details!Inductive
<1> QED BY <1>1, DashboardInductive, PTL

\* For every visitor, day, query and number of pages: once the last request is answered or failed, the
\* sessions listed in the open sheet are the first pages of the visitor's sessions of that day, without
\* a gap, or the list is one whose first page failed or which a change of the query emptied: such a
\* list is asked for by nobody, and is left out until a first page comes (profile-journey-sheet.tsx).
THEOREM JourneyTheorem == Spec => []SessionsAreOfDay
<1>1. Inductive => SessionsAreOfDay
  BY DEF Inductive, SessionsAreOfDay, Journey!Inductive
<1> QED BY <1>1, DashboardInductive, PTL
=============================================================================
