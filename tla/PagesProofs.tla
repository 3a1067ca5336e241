----------------------------- MODULE PagesProofs ------------------------------
(* What the pages promise, for every value of the constants: each page has the     *)
(* inductive invariant of its module, and a step of one is no step of another.     *)
EXTENDS Pages, FiniteSets, FiniteSetTheorems, WellFoundedInduction, TLAPS

-----------------------------------------------------------------------------
(* The record pages.                                                           *)

\* The buttons of a page are those listed for it, and only the account's has no flag.
LEMMA ButtonTypes ==
    ASSUME NEW p \in Records!Pages, NEW b \in p.buttons
    PROVE  /\ b \in Records!Buttons
           /\ b.to \in Records!Values
           /\ p.buttons = Records!CrawlRequestButtons => b.flag # Nil
<1>1. b \in Records!Buttons
  BY DEF Records!Buttons
<1>2. b.to \in Records!Values
  <2>1. /\ \A x \in Records!CrawlRequestButtons : x.to \in Records!Values
        /\ \A x \in Records!ProxyButtons : x.to \in Records!Values
        /\ \A x \in Records!LibraryButtons : x.to \in Records!Values
        /\ \A x \in Records!UserButtons : x.to \in Records!Values
    BY DEF Records!ProxyButtons, Records!CrawlRequestButtons, Records!LibraryButtons,
           Records!UserButtons, Records!IdentityButtons, Records!MembershipButtons,
           Records!Plain, Records!Asking, Records!Values
  <2> QED BY <2>1 DEF Records!Pages
<1>3. ASSUME p.buttons = Records!CrawlRequestButtons PROVE b.flag # Nil
  <2>1. b \notin Records!MembershipButtons
    <3>1. b.act # "reactivate"
      BY <1>3 DEF Records!CrawlRequestButtons, Records!Plain, Records!Asking
    <3> QED BY <3>1 DEF Records!MembershipButtons, Records!Asking
  <2>2. b.flag \in {x.flag : x \in Records!Buttons \ Records!MembershipButtons}
    BY <1>1, <2>1
  <2> QED BY <2>2, PagesAssumption DEF Records!AdminRecordsAssumption
<1> QED BY <1>1, <1>2, <1>3

\* Setting an attribute of a row leaves what the rows were made from.
LEMMA ChangedKeepsRows ==
    ASSUME s2 \in Seq(Records!Row), NEW id \in 1..Len(s2), NEW attr, NEW to \in Records!Values
    PROVE  /\ Records!Changed(id, attr, to) \in Seq(Records!Row)
           /\ Len(Records!Changed(id, attr, to)) = Len(s2)
           /\ \A i \in 1..Len(s2) : Records!Changed(id, attr, to)[i].of = s2[i].of
<1> DEFINE new == [is |-> [s2[id].is EXCEPT ![attr] = to], of |-> s2[id].of]
<1>1. s2[id] \in Records!Row
  OBVIOUS
<1>2. new \in Records!Row
  BY <1>1 DEF Records!Row, Records!Is
<1>3. Records!Changed(id, attr, to) = [s2 EXCEPT ![id] = new]
  BY DEF Records!Changed
<1> HIDE DEF new
<1>4. new.of = s2[id].of
  BY DEF new
<1> QED BY <1>2, <1>3, <1>4

\* What a visit does at the server keeps what the rows were made from; only a retry adds one.
LEMMA EffectKeepsRows ==
    ASSUME s1 \in Records!Pages, s2 \in Seq(Records!Row),
           NEW v \in [button : s1.buttons, id : 1..Len(s2)]
    PROVE  /\ Records!Effect(v) \in Seq(Records!Row)
           /\ Len(Records!Effect(v)) = Len(s2) \/ Len(Records!Effect(v)) = Len(s2) + 1
           /\ \A i \in 1..Len(s2) : Records!Effect(v)[i].of = s2[i].of
           /\ Len(Records!Effect(v)) # Len(s2) =>
                v.button.act = "retry" /\ Records!Effect(v)[Len(s2) + 1].of = v.id
           /\ ~Records!Rejected(v) /\ v.button.act = "retry" => Len(Records!Effect(v)) = Len(s2) + 1
<1>1. CASE Records!Rejected(v)
  BY <1>1 DEF Records!Effect
<1>2. CASE ~Records!Rejected(v) /\ v.button.act = "retry"
  <2> DEFINE new == [is |-> s1.is, of |-> v.id]
  <2>1. s1.is \in Records!Is
    BY DEF Records!Pages, Records!AtFirst, Records!Is, Records!Values
  <2>2. new \in Records!Row
    BY <2>1 DEF Records!Row
  <2>3. Records!Effect(v) = Append(s2, new)
    BY <1>2 DEF Records!Effect
  <2> HIDE DEF new
  <2>4. new.of = v.id
    BY DEF new
  <2> QED BY <1>2, <2>2, <2>3, <2>4
<1>3. CASE ~Records!Rejected(v) /\ v.button.act # "retry"
  <2>1. Records!Effect(v) = Records!Changed(v.id, v.button.attr, v.button.to)
    BY <1>3 DEF Records!Effect
  <2>2. v.button.to \in Records!Values
    BY ButtonTypes
  <2> QED BY <1>3, <2>1, <2>2, ChangedKeepsRows
<1> QED BY <1>1, <1>2, <1>3
\* What was interrupted, and has reached the server or has not, keeps it too.
LEMMA InterruptedKeepsRows ==
    ASSUME Records!Inductive, s2' \in Records!Interrupted
    PROVE  s2' \in Seq(Records!Row) /\ Len(s2') >= Len(s2)
<1>1. CASE s2' = s2
  BY <1>1 DEF Records!Inductive
<1>2. CASE s6 # Nil /\ s2' = Records!Effect(s6)
  <2>1. s6 \in [button : s1.buttons, id : 1..Len(s2)] /\ s1 \in Records!Pages /\ s2 \in Seq(Records!Row)
    BY <1>2 DEF Records!Inductive
  <2> QED BY <1>2, <2>1, EffectKeepsRows
<1> QED BY <1>1, <1>2 DEF Records!Interrupted

\* A button that sends its visit: the page that was interrupted has gone wrong, and the flag of the
\* new visit is the one that is set.
LEMMA SendKeepsRecords ==
    ASSUME Records!Inductive, NEW b \in s1.buttons, s3 # Nil, b.flag \notin s5, Records!Send(b),
           UNCHANGED <<s1, s3>>, s4' \in s1.buttons \cup {Nil}
    PROVE  Records!Inductive'
<1>1. b \in Records!Buttons /\ s1 \in Records!Pages
  BY ButtonTypes DEF Records!Inductive
<1>2. s2' \in Seq(Records!Row) /\ Len(s2') >= Len(s2) /\ s2 \in Seq(Records!Row)
  BY InterruptedKeepsRows DEF Records!Send, Records!Inductive
<1>3. s3.id \in 1..Len(s2')
  BY <1>2 DEF Records!Inductive
<1>4. s6' = [button |-> b, id |-> s3.id]
  BY DEF Records!Send
<1>5. s6' \in [button : s1.buttons, id : Nat] /\ s6' # Nil /\ s6'.id = s3.id
  BY <1>1, <1>3, <1>4, PagesAssumption DEF Records!AdminRecordsAssumption
<1>6. s5' = {s6'.button.flag} \ {Nil}
  <2>1. CASE s6 = Nil
    BY <1>4, <2>1 DEF Records!Send, Records!BusyWith, Records!Finished, Records!Inductive
  <2>2. CASE s6 # Nil
    <3>1. s5 = {s6.button.flag} \ {Nil}
      BY <2>2 DEF Records!Inductive
    <3>2. s5' = (s5 \cup ({b.flag} \ {Nil})) \ {s6.button.flag}
      BY <2>2 DEF Records!Send, Records!BusyWith, Records!Finished
    <3> QED BY <1>4, <3>1, <3>2
  <2> QED BY <2>1, <2>2
<1>7. s7' \in BOOLEAN
  BY Zenon DEF Records!Send
<1>8. ASSUME ~s7', s1.buttons = Records!CrawlRequestButtons PROVE s2' = s2 /\ ~s7
  <2>1. b.flag # Nil
    BY <1>1, <1>8, ButtonTypes
  <2>2. s6 = Nil
    BY <1>8, <2>1 DEF Records!Send, Records!Inductive
  <2> QED BY <1>8, <2>2 DEF Records!Send, Records!Interrupted
<1>9. ~s7' /\ s1.buttons = Records!CrawlRequestButtons => Records!Chain'
  BY <1>8 DEF Records!Inductive, Records!Chain
<1> QED BY <1>1, <1>2, <1>3, <1>5, <1>6, <1>7, <1>9 DEF Records!Inductive

LEMMA RecordsStep ==
    ASSUME Records!Inductive, Records!Next
    PROVE  Records!Inductive'
<1>1. ASSUME NEW id \in DOMAIN s2, Records!Others(id) PROVE Records!Inductive'
  <2>1. PICK b \in s1.buttons, new \in {"yes", "no", "processing", "completed", "failed"} :
           s2' = Records!Changed(id, b.attr, new)
    BY <1>1 DEF Records!Others
  <2>2. s2 \in Seq(Records!Row) /\ id \in 1..Len(s2) /\ new \in Records!Values
    BY DEF Records!Inductive, Records!Values
  <2>3. /\ s2' \in Seq(Records!Row) /\ Len(s2') = Len(s2)
        /\ \A i \in 1..Len(s2) : s2'[i].of = s2[i].of
    BY <2>1, <2>2, ChangedKeepsRows
  <2> QED BY <1>1, <2>3 DEF Records!Others, Records!Inductive, Records!Chain
<1>2. ASSUME NEW b \in s1.buttons, Records!Press(b) PROVE Records!Inductive'
  <2>1. CASE b.asks
    BY <1>2, <2>1 DEF Records!Press, Records!Inductive, Records!Chain
  <2>2. CASE ~b.asks
    BY <1>2, <2>2, SendKeepsRecords DEF Records!Press, Records!Inductive
  <2> QED BY <2>1, <2>2
<1>3. CASE Records!Confirm
  <2>1. s4 \in s1.buttons /\ s4' = s4
    BY <1>3 DEF Records!Confirm, Records!Inductive
  <2> QED BY <1>3, <2>1, SendKeepsRecords DEF Records!Confirm
<1>4. CASE Records!CloseDialog
  BY <1>4 DEF Records!CloseDialog, Records!Inductive, Records!Chain
<1>5. CASE Records!Answer
  <2>1. /\ s6 \in [button : s1.buttons, id : 1..Len(s2)] /\ s3 # Nil /\ s6.id = s3.id
        /\ s1 \in Records!Pages /\ s2 \in Seq(Records!Row) /\ s6 # Nil /\ ~Records!Rejected(s6)
    BY <1>5 DEF Records!Answer, Records!Inductive
  <2>2. s2' = Records!Effect(s6)
    BY <1>5 DEF Records!Answer
  <2>3. /\ s2' \in Seq(Records!Row) /\ (Len(s2') = Len(s2) \/ Len(s2') = Len(s2) + 1)
        /\ \A i \in 1..Len(s2) : s2'[i].of = s2[i].of
        /\ Len(s2') # Len(s2) => s6.button.act = "retry" /\ s2'[Len(s2) + 1].of = s6.id
        /\ s6.button.act = "retry" => Len(s2') = Len(s2) + 1
    BY <2>1, <2>2, EffectKeepsRows
  <2>4. s3' # Nil => s3'.id = (IF s6.button.act = "retry" THEN Len(s2') ELSE s6.id)
    <3>1. CASE s6.button.act = "delete"
      BY <1>5, <3>1 DEF Records!Answer
    <3>2. CASE s6.button.act = "retry"
      BY <1>5, <3>2 DEF Records!Answer, Records!Props
    <3>3. CASE s6.button.act \notin {"delete", "retry"}
      BY <1>5, <3>3 DEF Records!Answer, Records!Props
    <3> QED BY <3>1, <3>2, <3>3
  <2>5. s3' # Nil => s3'.id \in 1..Len(s2')
    BY <2>1, <2>3, <2>4
  <2>6. s5' = {} /\ s6' = Nil /\ s1' = s1 /\ s7' = s7
    BY <1>5, <2>1 DEF Records!Answer, Records!Finished, Records!Inductive
  <2>7. s4' \in s1.buttons \cup {Nil}
    BY <1>5 DEF Records!Answer, Records!DialogAfter, Records!Inductive
  <2>8. ASSUME Records!Chain PROVE Records!Chain'
    <3>1. \A i \in 1..Len(s2') : s2'[i].of = IF i = 1 THEN Nil ELSE i - 1
      <4>1. ASSUME NEW i \in 1..Len(s2) PROVE s2'[i].of = IF i = 1 THEN Nil ELSE i - 1
        BY <2>3, <2>8 DEF Records!Chain
      <4>2. ASSUME Len(s2') # Len(s2) PROVE s2'[Len(s2) + 1].of = Len(s2) /\ Len(s2) + 1 # 1
        BY <2>1, <2>3, <2>8, <4>2 DEF Records!Chain
      <4> QED BY <2>1, <2>3, <4>1, <4>2
    <3>2. s3' # Nil => s3'.id = Len(s2')
      BY <2>1, <2>3, <2>4, <2>8 DEF Records!Chain
    <3> QED BY <3>1, <3>2 DEF Records!Chain
  <2>9. Records!Inductive
    OBVIOUS
  <2> QED BY <2>1, <2>3, <2>5, <2>6, <2>7, <2>8, <2>9 DEF Records!Inductive
<1>6. CASE Records!Fails
  <2>1. s2' \in Seq(Records!Row) /\ Len(s2') >= Len(s2) /\ s2 \in Seq(Records!Row)
    BY <1>6, InterruptedKeepsRows DEF Records!Fails, Records!Inductive
  <2>2. s5' = {}
    BY <1>6 DEF Records!Fails, Records!Finished, Records!Inductive
  <2>3. s6' = Nil /\ s7' = TRUE /\ UNCHANGED <<s1, s3, s4>>
    BY <1>6 DEF Records!Fails
  <2>4. s3 # Nil => s3.id \in 1..Len(s2')
    BY <2>1 DEF Records!Inductive
  <2> QED BY <2>1, <2>2, <2>3, <2>4 DEF Records!Inductive
<1> QED BY <1>1, <1>2, <1>3, <1>4, <1>5, <1>6 DEF Records!Next

LEMMA RecordsStart ==
    ASSUME Records!Init
    PROVE  Records!Inductive
<1>1. s1.is \in Records!Is
  BY DEF Records!Init, Records!Pages, Records!AtFirst, Records!Is, Records!Values
<1> DEFINE first == [is |-> s1.is, of |-> Nil]
<1>2. first \in Records!Row /\ first.of = Nil
  BY <1>1 DEF Records!Row
<1>3. s2 = <<first>> /\ s3.id = 1
  BY DEF Records!Init, Records!Props
<1> HIDE DEF first
<1>4. s2 \in Seq(Records!Row) /\ Len(s2) = 1 /\ s2[1].of = Nil
  BY <1>2, <1>3
<1>5. Records!Chain
  BY <1>3, <1>4 DEF Records!Chain
<1>6. s1 \in Records!Pages /\ s4 = Nil /\ s5 = {} /\ s6 = Nil /\ s7 = FALSE
  BY DEF Records!Init
<1>7. s3.id \in 1..Len(s2)
  BY <1>3, <1>4
<1>8. s4 \in s1.buttons \cup {Nil} /\ s7 \in BOOLEAN /\ s5 = {}
  BY <1>6
<1> QED BY <1>4, <1>5, <1>6, <1>7, <1>8 DEF Records!Inductive

\* What the invariant says of the page.
LEMMA RecordsHold ==
    ASSUME Records!Inductive
    PROVE  Records!BusyIsUnderWay /\ Records!RetriedOnce
<1>1. Records!BusyIsUnderWay
  BY DEF Records!Inductive, Records!BusyIsUnderWay
<1>2. Records!RetriedOnce
  <2>1. s2 \in Seq(Records!Row)
    BY DEF Records!Inductive
  <2> QED BY <2>1 DEF Records!Inductive, Records!Chain, Records!RetriedOnce
<1> QED BY <1>1, <1>2

\* The finite sets of the lists' module are those of the library.
LEMMA SameFiniteSets ==
    ASSUME NEW S
    PROVE  /\ Index!IsFiniteSet(S) <=> IsFiniteSet(S)
           /\ Index!Cardinality(S) = Cardinality(S)
<1>1. Index!IsFiniteSet(S) <=> IsFiniteSet(S)
  BY DEF Index!IsFiniteSet, IsFiniteSet
<1>2. Index!Cardinality(S) = Cardinality(S)
  BY DEF Index!Cardinality, Cardinality
<1> QED BY <1>1, <1>2

\* Counting those that come before, in one direction or the other, numbers a finite set of numbers
\* from 0 without a gap.
LEMMA EachRankIsTaken ==
    ASSUME NEW P, IsFiniteSet(P), P \subseteq Nat, NEW way
    PROVE  \A i \in 1..Cardinality(P) :
             \E r \in P : Cardinality(Index!Before(r, P, way)) = i - 1
<1> DEFINE Before(r) == {q \in P : IF way = "asc" THEN q < r ELSE r < q}
           n == Cardinality(P)
           rank == [r \in P |-> Cardinality(Before(r))]
<1>1. n \in Nat
  BY FS_CardinalityType
<1>2. ASSUME NEW r \in P PROVE /\ IsFiniteSet(Before(r)) /\ Cardinality(Before(r)) \in 0..n - 1
  <2>1. /\ IsFiniteSet(P \ {r}) /\ Cardinality(P \ {r}) = n - 1
    BY FS_RemoveElement
  <2>2. Before(r) \subseteq P \ {r}
    OBVIOUS
  <2>3. IsFiniteSet(Before(r)) /\ Cardinality(Before(r)) <= n - 1
    BY <2>1, <2>2, FS_Subset
  <2>4. Cardinality(Before(r)) \in Nat
    BY <2>3, FS_CardinalityType
  <2> QED BY <1>1, <2>3, <2>4
<1>3. ASSUME NEW r \in P, NEW q \in Before(r) PROVE rank[q] # rank[r]
  <2>1. q \in P /\ IsFiniteSet(Before(r))
    BY <1>2
  <2>2. /\ IsFiniteSet(Before(r) \ {q}) /\ Cardinality(Before(r) \ {q}) = Cardinality(Before(r)) - 1
    BY <2>1, FS_RemoveElement
  <2>3. Before(q) \subseteq Before(r) \ {q}
    <3> SUFFICES ASSUME NEW x \in Before(q) PROVE x \in Before(r) /\ x # q
      OBVIOUS
    <3>1. x \in Nat /\ q \in Nat /\ r \in Nat /\ x \in P
      OBVIOUS
    <3>2. (IF way = "asc" THEN x < q ELSE q < x) /\ (IF way = "asc" THEN q < r ELSE r < q)
      OBVIOUS
    <3>3. (IF way = "asc" THEN x < r ELSE r < x) /\ x # q
      BY <3>1, <3>2
    <3> QED BY <3>1, <3>3
  <2>4. Cardinality(Before(q)) <= Cardinality(Before(r)) - 1
    BY <2>2, <2>3, FS_Subset
  <2>5. Cardinality(Before(q)) \in Int /\ Cardinality(Before(r)) \in Int
    BY <1>2, <2>1
  <2> HIDE DEF Before
  <2> QED BY <2>1, <2>4, <2>5
<1>4. \A r, q \in P : r # q => rank[r] # rank[q]
  <2> SUFFICES ASSUME NEW r \in P, NEW q \in P, r # q PROVE rank[r] # rank[q]
    OBVIOUS
  <2>1. q \in Before(r) \/ r \in Before(q)
    OBVIOUS
  <2> HIDE DEF Before, rank
  <2> QED BY <1>3, <2>1
<1>5. rank \in Injection(P, 0..n - 1)
  <2>1. rank \in [P -> 0..n - 1]
    BY <1>2
  <2> HIDE DEF rank
  <2> QED BY <1>4, <2>1 DEF Injection, IsInjective
<1>6. IsFiniteSet(0..n - 1) /\ Cardinality(0..n - 1) = n
  <2> HIDE DEF n
  <2>1. n - 1 \in Int /\ 0 \in Int
    BY <1>1
  <2>2. IsFiniteSet(0..n - 1) /\ Cardinality(0..n - 1) = IF 0 > n - 1 THEN 0 ELSE n - 1 - 0 + 1
    BY <2>1, FS_Interval
  <2> QED BY <1>1, <2>2
<1>7. rank \in Surjection(P, 0..n - 1)
  <2> HIDE DEF rank
  <2> QED BY <1>5, <1>6, FS_Injection
<1>8. ASSUME NEW i \in 1..n PROVE \E r \in P : Cardinality(Before(r)) = i - 1
  <2>1. i - 1 \in 0..n - 1
    BY <1>1
  <2>2. \E r \in P : rank[r] = i - 1
    <3> HIDE DEF rank, Before
    <3> QED BY <1>7, <2>1 DEF Surjection
  <2> QED BY <2>2
<1> QED BY <1>8 DEF Index!Before

\* The rows of a page are found, so they exist.
LEMMA ListingOfWhatExists ==
    ASSUME NEW f, NEW rows
    PROVE  /\ Index!Listing(f, rows) \in Seq(ListRows)
           /\ \A r \in Index!ToSet(Index!Listing(f, rows)) : rows[r] # "gone"
<1> DEFINE found == {r \in ListRows : rows[r] # "gone" /\ r \in Matches[f.query] /\ f.tab \in {"all", rows[r]}}
           rank(r, among) == Index!Cardinality(Index!Before(r, among, f.direction))
           passed == (f.page - 1) * PerPage
           page == {r \in found : rank(r, found) \in passed..passed + PerPage - 1}
           row(i) == CHOOSE r \in page : rank(r, page) = i - 1
<1>1. Index!Listing(f, rows) = [i \in 1..Index!Cardinality(page) |-> row(i)]
  BY Zenon DEF Index!Listing
<1>2. /\ page \subseteq ListRows /\ \A r \in page : rows[r] # "gone"
  OBVIOUS
<1>3. IsFiniteSet(ListRows) /\ ListRows \subseteq Nat
  BY PagesAssumption, SameFiniteSets DEF Index!AdminIndexAssumption
<1> HIDE DEF page
<1>4. IsFiniteSet(page) /\ page \subseteq Nat
  BY <1>2, <1>3, FS_Subset
<1>5. Cardinality(page) \in Nat /\ Index!Cardinality(page) = Cardinality(page)
  BY <1>4, FS_CardinalityType, SameFiniteSets
<1>6. ASSUME NEW i \in 1..Index!Cardinality(page) PROVE row(i) \in page
  <2>1. \E r \in page : Cardinality(Index!Before(r, page, f.direction)) = i - 1
    BY <1>4, <1>5, EachRankIsTaken
  <2>2. \E r \in page : rank(r, page) = i - 1
    BY <2>1, SameFiniteSets
  <2> HIDE DEF rank
  <2> QED BY <2>2
<1> HIDE DEF row
<1>7. Index!Listing(f, rows) \in Seq(page)
  BY <1>1, <1>5, <1>6
<1>8. \A i \in DOMAIN Index!Listing(f, rows) : Index!Listing(f, rows)[i] \in page
  BY <1>7
<1>9. Index!Listing(f, rows) \in Seq(ListRows)
  BY <1>2, <1>7
<1> QED BY <1>2, <1>8, <1>9 DEF Index!ToSet

\* Acting on rows leaves each of them on, off or gone; a visit that only reads changes none.
LEMMA ActedTypes ==
    ASSUME NEW rows \in [ListRows -> {"on", "off", "gone"}], NEW ids, NEW action
    PROVE  /\ ids = {} => Index!Acted(rows, ids, action) = rows
           /\ ids = {} \/ action \in {"delete", "suspend", "reactivate"} =>
                Index!Acted(rows, ids, action) \in [ListRows -> {"on", "off", "gone"}]
<1>1. ids = {} => Index!Acted(rows, ids, action) = rows
  BY DEF Index!Acted
<1>2. CASE action = "delete"
  BY <1>1, <1>2 DEF Index!Acted
<1>3. CASE action = "suspend"
  BY <1>1, <1>3 DEF Index!Acted
<1>4. CASE action = "reactivate"
  BY <1>1, <1>4 DEF Index!Acted
<1> QED BY <1>1, <1>2, <1>3, <1>4

LEMMA InterruptedKeepsStatus ==
    ASSUME Index!Inductive, NEW rows \in Index!Interrupted
    PROVE  /\ rows \in [ListRows -> {"on", "off", "gone"}]
           /\ s7 = Nil \/ s7.action = "get" => rows = s2
<1>1. s2 \in [ListRows -> {"on", "off", "gone"}]
  BY DEF Index!Inductive, Index!TypeOK
<1>2. CASE rows = s2
  BY <1>1, <1>2
<1>3. CASE s7 # Nil /\ rows = Index!Acted(s2, s7.ids, s7.action)
  <2>1. s7 \in Index!Visits
    BY <1>3 DEF Index!Inductive, Index!TypeOK
  <2>2. s7.action = "get" => s7.ids = {}
    BY <1>3 DEF Index!Inductive
  <2>3. s7.action \in {"get", "delete", "suspend", "reactivate"}
    BY <2>1 DEF Index!Visits
  <2> QED BY <1>1, <1>3, <2>2, <2>3, ActedTypes
<1> QED BY <1>2, <1>3 DEF Index!Interrupted

\* A step that sends nothing: what it ticks is shown.
LEMMA ListQuiet ==
    ASSUME Index!Inductive, UNCHANGED <<s1, s2, s3, s7>>, s12 \ {"search"} \subseteq s12',
           s5' \in ListTexts, s8' \in Seq(ListRows), s10' \in Index!Dialogs \cup {Nil},
           s11' \subseteq ListRows, Index!SearchedOrSearching',
           Index!ToSet(s8') \subseteq Index!Ticked \cup Index!Shown,
           ~s1.table => s8' = <<>> /\ s9' = "none" /\ s10' = Nil
    PROVE  Index!Inductive'
<1>1. Index!TypeOK'
  BY DEF Index!Inductive, Index!TypeOK
<1>2. (s1.table /\ Index!NoActionIsOpen => \A r \in Index!Ticked \cup Index!Shown : s2[r] # "gone")'
  BY DEF Index!Inductive, Index!NoActionIsOpen, Index!Ticked, Index!Shown
<1>3. (s7 # Nil /\ s7.action = "get" => s7.ids = {})'
  BY DEF Index!Inductive
<1> QED BY <1>1, <1>2, <1>3 DEF Index!Inductive

\* A search that is overtaken is remembered.
LEMMA SearchOvertaken ==
    ASSUME Index!Inductive, UNCHANGED <<s1, s3, s5, s6>>, Index!Unanswered \subseteq s12'
    PROVE  Index!SearchedOrSearching'
<1>1. Index!SearchedOrSearching /\ s12 \subseteq Index!Unanswered
  BY DEF Index!Inductive, Index!Unanswered
<1>2. s7 # Nil /\ s7.action = "get" /\ s7.to.query # s3.filters.query => "search" \in Index!Unanswered
  BY DEF Index!Unanswered
<1> QED BY <1>1, <1>2 DEF Index!SearchedOrSearching

\* A step that asks for a list.
LEMMA ListNavigates ==
    ASSUME Index!Inductive, NEW f \in Index!Filters, Index!Interrupting(Index!Get(f)),
           Index!Unanswered \ {"search"} \subseteq s12', Index!SearchedOrSearching',
           UNCHANGED <<s1, s3, s8, s9, s10, s11>>, s5' \in ListTexts
    PROVE  Index!Inductive'
<1>1. s7' = [ids |-> {}, action |-> "get", to |-> f]
  BY DEF Index!Interrupting, Index!Get
<1>2. s7' \in Index!Visits /\ s7' # Nil
  BY <1>1, PagesAssumption DEF Index!Visits, Index!AdminIndexAssumption
<1>3. /\ s2' \in [ListRows -> {"on", "off", "gone"}]
      /\ s7 = Nil \/ s7.action = "get" => s2' = s2
  BY InterruptedKeepsStatus DEF Index!Interrupting
<1>4. Index!TypeOK'
  BY <1>2, <1>3 DEF Index!Inductive, Index!TypeOK
<1>6. Index!NoActionIsOpen' => Index!NoActionIsOpen
  BY DEF Index!NoActionIsOpen, Index!Unanswered
<1>7. (s1.table /\ Index!NoActionIsOpen => \A r \in Index!Ticked \cup Index!Shown : s2[r] # "gone")'
  BY <1>3, <1>6 DEF Index!Inductive, Index!Ticked, Index!Shown, Index!NoActionIsOpen
<1>8. s7'.ids = {}
  BY <1>1
<1>9. (~s1.table => s8 = <<>> /\ s9 = "none" /\ s10 = Nil)'
  BY DEF Index!Inductive
<1> QED BY <1>4, <1>7, <1>8, <1>9 DEF Index!Inductive

\* What is chosen of a list are filters.
LEMMA ChosenTypes ==
    ASSUME NEW f \in Index!Filters
    PROVE  /\ [f EXCEPT !.page = 1] \in Index!Filters
           /\ \A n \in Nat : [f EXCEPT !.page = n] \in Index!Filters
           /\ \A text \in ListTexts : [f EXCEPT !.query = text] \in Index!Filters
           /\ \A way \in {"asc", "desc"} : [f EXCEPT !.direction = way] \in Index!Filters
           /\ \A tab \in {"all", "on", "off"}, text \in ListTexts :
                [f EXCEPT !.tab = tab, !.query = text] \in Index!Filters
BY DEF Index!Filters

LEMMA WithoutTypes ==
    ASSUME NEW S, NEW ids \in Seq(S), NEW r \in Index!ToSet(ids)
    PROVE  /\ Index!Without(r, ids) \in Seq(S)
           /\ Index!ToSet(Index!Without(r, ids)) \subseteq Index!ToSet(ids)
<1> DEFINE i == CHOOSE i \in DOMAIN ids : ids[i] = r
           before == SubSeq(ids, 1, i - 1)
           after == SubSeq(ids, i + 1, Len(ids))
<1>1. i \in 1..Len(ids)
  BY DEF Index!ToSet
<1> HIDE DEF i
<1>2. /\ before \in Seq(S) /\ after \in Seq(S)
      /\ \A j \in 1..Len(before) : before[j] \in Index!ToSet(ids)
      /\ \A j \in 1..Len(after) : after[j] \in Index!ToSet(ids)
  BY <1>1 DEF Index!ToSet
<1>3. Index!Without(r, ids) = before \o after
  BY DEF Index!Without, Index!RemoveAt, i
<1> HIDE DEF before, after
<1>4. before \o after \in Seq(S)
  BY <1>2
<1>5. \A j \in 1..Len(before \o after) : (before \o after)[j] \in Index!ToSet(ids)
  BY <1>2
<1>6. Index!ToSet(before \o after) \subseteq Index!ToSet(ids)
  BY <1>4, <1>5 DEF Index!ToSet
<1> QED BY <1>3, <1>4, <1>6

LEMMA ListTypes ==
    ASSUME Index!Inductive
    PROVE  /\ s1 \in Index!Kinds /\ s2 \in [ListRows -> {"on", "off", "gone"}]
           /\ s3.filters \in Index!Filters /\ s3.rows \in Seq(ListRows) /\ s5 \in ListTexts
           /\ s3.filters.query \in ListTexts /\ s3.filters.page \in Nat /\ s3.filters.direction \in {"asc", "desc"}
           /\ s7 \in Index!Visits \cup {Nil} /\ s10 \in Index!Dialogs \cup {Nil}
           /\ s8 \in Seq(ListRows) /\ s11 \subseteq ListRows
           /\ Index!NoText \in ListTexts
BY PagesAssumption DEF Index!Inductive, Index!TypeOK, Index!Filters, Index!AdminIndexAssumption

\* The search.
LEMMA ListSearches ==
    ASSUME Index!Inductive,
           \/ \E text \in ListTexts : Index!Type(text)
           \/ Index!TimerFires \/ Index!Submit \/ Index!OpenSearch \/ Index!CancelSearch
    PROVE  Index!Inductive'
<1> USE ListTypes
<1>1. ASSUME NEW text \in ListTexts, Index!Type(text) PROVE Index!Inductive'
  <2>1. Index!SearchedOrSearching' /\ s12' = s12 \ {"search"}
    BY <1>1 DEF Index!Type, Index!Searching, Index!SearchedOrSearching
  <2> QED BY <1>1, <2>1, ListQuiet DEF Index!Type, Index!tableVars, Index!Ticked, Index!Inductive
<1>2. CASE Index!TimerFires
  <2> DEFINE f == [[s3.filters EXCEPT !.query = s5] EXCEPT !.page = 1]
  <2>1. f \in Index!Filters /\ f.query = s5
    BY ChosenTypes DEF Index!Filters
  <2>2. Index!Visit(Index!Get(f)) /\ UNCHANGED <<s1, s3, s5, s8, s9, s10, s11>>
    BY <1>2 DEF Index!TimerFires, Index!Navigate, Index!Chosen, Index!tableVars
  <2> HIDE DEF f
  <2>3. s7' = [ids |-> {}, action |-> "get", to |-> f] /\ s7' # Nil
    BY <2>1, <2>2, PagesAssumption
    DEF Index!Visit, Index!Interrupting, Index!Get, Index!Visits, Index!AdminIndexAssumption
  <2>4. Index!SearchedOrSearching'
    BY <2>1, <2>2, <2>3 DEF Index!SearchedOrSearching
  <2> QED BY <2>1, <2>2, <2>4, ListNavigates DEF Index!Visit
<1>3. CASE Index!Submit
  <2> DEFINE f == [[s3.filters EXCEPT !.query = s5] EXCEPT !.page = 1]
  <2>1. f \in Index!Filters
    BY ChosenTypes
  <2>2. Index!Visit(Index!Get(f)) /\ UNCHANGED <<s1, s3, s5, s8, s9, s10, s11>> /\ ~s1.table
    BY <1>3 DEF Index!Submit, Index!Navigate, Index!Chosen, Index!tableVars, Index!searchVars
  <2>3. Index!SearchedOrSearching'
    BY <2>2 DEF Index!SearchedOrSearching
  <2> HIDE DEF f
  <2> QED BY <2>1, <2>2, <2>3, ListNavigates DEF Index!Visit
<1>4. CASE Index!OpenSearch
  BY <1>4, ListQuiet DEF Index!OpenSearch, Index!tableVars, Index!Ticked, Index!Inductive,
     Index!SearchedOrSearching
<1>5. CASE Index!CancelSearch
  <2> DEFINE f == [[s3.filters EXCEPT !.query = Index!NoText] EXCEPT !.page = 1]
  <2>1. f \in Index!Filters /\ f.query = Index!NoText
    BY ChosenTypes DEF Index!Filters
  <2>2. /\ Index!Interrupting(Index!Get(f)) /\ Index!SearchingIf(Index!NoText, Index!Unanswered)
        /\ UNCHANGED <<s1, s3, s8, s9, s10, s11>> /\ s5' = Index!NoText
    BY <1>5 DEF Index!CancelSearch, Index!Chosen, Index!tableVars
  <2> HIDE DEF f
  <2>3. s7' = [ids |-> {}, action |-> "get", to |-> f] /\ s7' # Nil
    BY <2>1, <2>2, PagesAssumption
    DEF Index!Interrupting, Index!Get, Index!Visits, Index!AdminIndexAssumption
  <2>4. Index!SearchedOrSearching'
    BY <2>1, <2>2, <2>3 DEF Index!SearchedOrSearching
  <2>5. Index!Unanswered \ {"search"} \subseteq s12'
    BY <2>2 DEF Index!SearchingIf, Index!Searching
  <2> QED BY <2>1, <2>2, <2>4, <2>5, ListNavigates
<1> QED BY <1>1, <1>2, <1>3, <1>4, <1>5

\* Tabs, columns, pages.
LEMMA ListTurns ==
    ASSUME Index!Inductive,
           \/ \E tab \in s1.tabs : Index!SelectTab(tab)
           \/ Index!SortClick
           \/ \E by \in {-1, 1} : Index!ChangePage(by)
    PROVE  Index!Inductive'
<1> USE ListTypes
<1>1. ASSUME NEW tab \in s1.tabs, Index!SelectTab(tab) PROVE Index!Inductive'
  <2> DEFINE text == IF s1.clears THEN Index!NoText ELSE s3.filters.query
             left == IF s1.clears THEN Index!NoText ELSE s5
             f == [[s3.filters EXCEPT !.tab = tab, !.query = text] EXCEPT !.page = 1]
  <2>1. tab \in {"all", "on", "off"}
    BY DEF Index!Kinds, Index!LibrariesIndex, Index!CrawlRequestsIndex, Index!ProxyConfigsIndex,
           Index!UsersIndex, Index!PagesIndex
  <2>2. text \in ListTexts /\ left \in ListTexts
    OBVIOUS
  <2>3. /\ Index!Interrupting(Index!Get(f)) /\ Index!SearchingIf(left, Index!Unanswered)
        /\ UNCHANGED <<s1, s3, s8, s9, s10, s11>> /\ s5' = left
    BY <1>1 DEF Index!SelectTab, Index!Chosen, Index!tableVars
  <2>4. f \in Index!Filters
    <3> HIDE DEF text
    <3>1. [s3.filters EXCEPT !.tab = tab, !.query = text] \in Index!Filters
      BY <2>1, <2>2, ChosenTypes
    <3> QED BY <3>1, ChosenTypes
  <2> HIDE DEF f, text, left
  <2>5. Index!SearchedOrSearching'
    <3>1. CASE left = s5
      BY <2>3, <3>1, SearchOvertaken DEF Index!SearchingIf
    <3>2. CASE left # s5
      BY <2>3, <3>2 DEF Index!SearchingIf, Index!Searching, Index!SearchedOrSearching
    <3> QED BY <3>1, <3>2
  <2>6. Index!Unanswered \ {"search"} \subseteq s12'
    BY <2>3 DEF Index!SearchingIf, Index!Searching
  <2> QED BY <2>2, <2>3, <2>4, <2>5, <2>6, ListNavigates
<1>2. CASE Index!SortClick
  <2> DEFINE way == IF s3.filters.direction = "asc" THEN "desc" ELSE "asc"
             f == [[s3.filters EXCEPT !.direction = way] EXCEPT !.page = 1]
  <2>1. f \in Index!Filters
    BY ChosenTypes
  <2>2. Index!Visit(Index!Get(f)) /\ UNCHANGED <<s1, s3, s5, s6, s8, s9, s10, s11>>
    BY <1>2 DEF Index!SortClick, Index!Navigate, Index!Chosen, Index!tableVars, Index!searchVars
  <2> HIDE DEF f
  <2>3. Index!SearchedOrSearching'
    BY <2>2, SearchOvertaken DEF Index!Visit
  <2> QED BY <2>1, <2>2, <2>3, ListNavigates DEF Index!Visit
<1>3. ASSUME NEW by \in {-1, 1}, Index!ChangePage(by) PROVE Index!Inductive'
  <2> DEFINE f == [s3.filters EXCEPT !.page = s3.filters.page + by]
  <2>1. s3.filters.page + by \in Nat
    BY <1>3 DEF Index!ChangePage
  <2>2. f \in Index!Filters
    BY <2>1, ChosenTypes
  <2>3. Index!Visit(Index!Get(f)) /\ UNCHANGED <<s1, s3, s5, s6, s8, s9, s10, s11>>
    BY <1>3 DEF Index!ChangePage, Index!tableVars, Index!searchVars
  <2> HIDE DEF f
  <2>4. Index!SearchedOrSearching'
    BY <2>3, SearchOvertaken DEF Index!Visit
  <2> QED BY <2>2, <2>3, <2>4, ListNavigates DEF Index!Visit
<1> QED BY <1>1, <1>2, <1>3

\* The table: what is ticked is shown, or was ticked before.
LEMMA ListTicks ==
    ASSUME Index!Inductive,
           \/ Index!ToggleSelectAll
           \/ \E r \in ListRows : Index!ToggleRow(r)
           \/ \E rows \in BOOLEAN : Index!SelectAll(rows)
           \/ \E action \in s1.acts : Index!AskBulk(action)
           \/ Index!CancelBulk
           \/ \E r \in ListRows, on \in BOOLEAN : Index!AskDelete(r, on)
    PROVE  Index!Inductive'
<1> USE ListTypes
<1>1. ASSUME UNCHANGED <<s1, s3, s5, s6, s7, s12>> PROVE Index!SearchedOrSearching'
  BY <1>1 DEF Index!Inductive, Index!SearchedOrSearching
<1>2. ASSUME ~s1.table PROVE ~Index!SomeSelected /\ s8 = <<>> /\ s9 = "none" /\ s10 = Nil
  BY <1>2 DEF Index!Inductive, Index!SomeSelected, Index!Ticked, Index!ToSet
<1>3. <<>> \in Seq(ListRows) /\ Index!ToSet(<<>>) = {}
  BY DEF Index!ToSet
<1>4. CASE Index!ToggleSelectAll
  BY <1>1, <1>3, <1>4, ListQuiet
  DEF Index!ToggleSelectAll, Index!searchVars, Index!Shown, Index!Ticked
<1>5. ASSUME NEW r \in ListRows, Index!ToggleRow(r) PROVE Index!Inductive'
  <2>1. /\ s8' \in Seq(ListRows) /\ Index!ToSet(s8') \subseteq Index!Ticked \cup Index!Shown
    <3>1. CASE r \in Index!Ticked
      BY <1>5, <3>1, WithoutTypes DEF Index!ToggleRow, Index!Ticked
    <3>2. CASE r \notin Index!Ticked
      BY <1>5, <3>2 DEF Index!ToggleRow, Index!Ticked, Index!Shown, Index!ToSet
    <3> QED BY <3>1, <3>2
  <2> QED BY <1>1, <1>5, <2>1, ListQuiet DEF Index!ToggleRow, Index!searchVars
<1>6. ASSUME NEW rows \in BOOLEAN, Index!SelectAll(rows) PROVE Index!Inductive'
  BY <1>1, <1>2, <1>3, <1>6, ListQuiet DEF Index!SelectAll, Index!searchVars, Index!Shown
<1>7. ASSUME NEW action \in s1.acts, Index!AskBulk(action) PROVE Index!Inductive'
  <2>1. action \in {"delete", "suspend", "reactivate"}
    BY DEF Index!Kinds, Index!LibrariesIndex, Index!CrawlRequestsIndex, Index!ProxyConfigsIndex,
           Index!UsersIndex, Index!PagesIndex
  <2>2. s10' \in Index!Dialogs
    BY <1>7, <2>1 DEF Index!AskBulk, Index!Dialogs
  <2> QED BY <1>1, <1>2, <1>7, <2>2, ListQuiet DEF Index!AskBulk, Index!searchVars, Index!Ticked
<1>8. CASE Index!CancelBulk
  BY <1>1, <1>2, <1>8, ListQuiet DEF Index!CancelBulk, Index!searchVars, Index!Ticked
<1>9. ASSUME NEW r \in ListRows, NEW on \in BOOLEAN, Index!AskDelete(r, on) PROVE Index!Inductive'
  BY <1>1, <1>2, <1>9, ListQuiet DEF Index!AskDelete, Index!searchVars, Index!Ticked
<1> QED BY <1>4, <1>5, <1>6, <1>7, <1>8, <1>9

\* A step that acts on rows: until it is answered nothing is said of what exists.
LEMMA ListActs ==
    ASSUME Index!Inductive, NEW ids \in SUBSET ListRows,
           NEW action \in {"delete", "suspend", "reactivate"},
           s7' = Index!Act(ids, action), s2' \in [ListRows -> {"on", "off", "gone"}],
           s12' = Index!Unanswered,
           UNCHANGED <<s1, s3, s5, s6, s8, s9, s11>>, s10' \in {s10, Nil}
    PROVE  Index!Inductive'
<1> USE ListTypes
<1>1. s7' = [ids |-> ids, action |-> action, to |-> Index!Unfiltered]
  BY DEF Index!Act
<1>2. Index!Unfiltered \in Index!Filters
  BY DEF Index!Unfiltered, Index!Filters
<1>3. s7' \in Index!Visits /\ s7' # Nil /\ s7'.action # "get"
  BY <1>1, <1>2, PagesAssumption DEF Index!Visits, Index!AdminIndexAssumption
<1>4. Index!TypeOK'
  BY <1>3 DEF Index!Inductive, Index!TypeOK
<1>5. Index!SearchedOrSearching' /\ ~Index!NoActionIsOpen'
  BY <1>3, SearchOvertaken DEF Index!NoActionIsOpen
<1> QED BY <1>3, <1>4, <1>5 DEF Index!Inductive

LEMMA ListDeletes ==
    ASSUME Index!Inductive, Index!ExecuteBulk \/ \E r \in ListRows : Index!DeletePage(r)
    PROVE  Index!Inductive'
<1> USE ListTypes
<1>1. CASE Index!ExecuteBulk
  <2> DEFINE ids == Index!ToSet(s10.ids)
             last == IF s10.action = "delete" /\ ids # {} THEN {Index!Last(s10.ids)} ELSE ids
  <2>1. /\ s10 # Nil /\ s10' = Nil
        /\ s10.action \in {"delete", "suspend", "reactivate"} /\ s10.ids \in Seq(ListRows)
    BY <1>1 DEF Index!ExecuteBulk, Index!Dialogs
  <2>2. ids \subseteq ListRows
    BY <2>1 DEF Index!ToSet
  <2>3. last \subseteq ListRows
    <3>1. ids # {} => Len(s10.ids) \in DOMAIN s10.ids
      BY <2>1 DEF Index!ToSet
    <3> QED BY <2>1, <2>2, <3>1 DEF Index!Last
  <2>4. UNCHANGED <<s1, s3, s5, s6, s8, s9, s11>>
    BY <1>1 DEF Index!ExecuteBulk, Index!searchVars
  <2>5. CASE s10.action = "delete" /\ ids = {}
    <3>1. UNCHANGED <<s2, s7, s12>>
      BY <1>1, <2>5 DEF Index!ExecuteBulk
    <3>2. Index!SearchedOrSearching'
      BY <2>4, <3>1 DEF Index!Inductive, Index!SearchedOrSearching
    <3> QED BY <2>1, <2>4, <3>1, <3>2, ListQuiet DEF Index!Ticked, Index!Inductive
  <2>6. CASE ~(s10.action = "delete" /\ ids = {})
    <3>1. PICK before \in Index!Interrupted, reached \in SUBSET (ids \ last) :
             s2' = Index!Acted(before, reached, s10.action)
      BY <1>1, <2>6 DEF Index!ExecuteBulk
    <3>2. s7' = Index!Act(last, s10.action) /\ s12' = Index!Unanswered
      BY <1>1, <2>6 DEF Index!ExecuteBulk
    <3>3. s2' \in [ListRows -> {"on", "off", "gone"}]
      BY <2>1, <3>1, InterruptedKeepsStatus, ActedTypes
    <3> HIDE DEF last
    <3> QED BY <2>1, <2>3, <2>4, <3>2, <3>3, ListActs
  <2> QED BY <2>5, <2>6
<1>2. ASSUME NEW r \in ListRows, Index!DeletePage(r) PROVE Index!Inductive'
  <2>1. s7' = Index!Act({r}, "delete") /\ s2' \in Index!Interrupted /\ s12' = Index!Unanswered
    BY <1>2 DEF Index!DeletePage, Index!Visit, Index!Interrupting
  <2>2. UNCHANGED <<s1, s3, s5, s6, s8, s9, s10, s11>>
    BY <1>2 DEF Index!DeletePage, Index!searchVars, Index!tableVars
  <2> QED BY <2>1, <2>2, InterruptedKeepsStatus, ListActs
<1> QED BY <1>1, <1>2

\* The answer to a visit, and its failure.
LEMMA ListAnswers ==
    ASSUME Index!Inductive, Index!VisitAnswers
    PROVE  Index!Inductive'
<1> USE ListTypes
<1> DEFINE f == s7.to
<1>1. s7 # Nil /\ s7 \in Index!Visits /\ s7' = Nil /\ s1' = s1
  BY DEF Index!VisitAnswers
<1>2. f \in Index!Filters /\ f.query \in ListTexts /\ s7.action \in {"get", "delete", "suspend", "reactivate"}
  BY <1>1 DEF Index!Visits, Index!Filters
<1>3. s7.action = "get" => s7.ids = {}
  BY <1>1 DEF Index!Inductive
<1>4. /\ s2' \in [ListRows -> {"on", "off", "gone"}]
      /\ s7.action = "get" => s2' = s2
  <2>1. s2' = Index!Acted(s2, s7.ids, s7.action)
    BY DEF Index!VisitAnswers
  <2> QED BY <1>2, <1>3, <2>1, ActedTypes
<1>5. s3' = [filters |-> f, rows |-> Index!Listing(f, s2')]
  BY DEF Index!VisitAnswers
<1>6. /\ Index!Listing(f, s2') \in Seq(ListRows)
      /\ \A r \in Index!ToSet(Index!Listing(f, s2')) : s2'[r] # "gone"
  BY ListingOfWhatExists
<1>7. s3'.filters = f /\ s3' \in [filters : Index!Filters, rows : Seq(ListRows)]
  BY <1>2, <1>5, <1>6
<1>8. \A r \in Index!Shown' : s2'[r] # "gone"
  BY <1>5, <1>6 DEF Index!Shown
<1> DEFINE still == s12 \ IF s7.action = "get" THEN {} ELSE {"act"}
<1>9. Index!AfterAnswer(f, s7.action, still)
  BY DEF Index!VisitAnswers
<1>10. CASE s1.table /\ s7.action # "get"
  <2>1. s5' = f.query /\ s8' = <<>> /\ s9' = "none" /\ s10' = Nil /\ s11' = s11
    BY <1>9, <1>10 DEF Index!AfterAnswer, Index!Remount
  <2>2. Index!TypeOK'
    BY <1>1, <1>2, <1>4, <1>7, <2>1 DEF Index!TypeOK
  <2>3. Index!SearchedOrSearching'
    BY <1>7, <2>1 DEF Index!SearchedOrSearching
  <2>4. Index!Ticked' = {}
    BY <2>1 DEF Index!Ticked, Index!ToSet
  <2> QED BY <1>1, <1>8, <2>1, <2>2, <2>3, <2>4 DEF Index!Inductive
<1>11. CASE ~(s1.table /\ s7.action # "get")
  <2>1. Index!Kept(f, still) /\ Index!SearchAgain(f, still)
    BY <1>9, <1>11 DEF Index!AfterAnswer, Index!Kept
  <2>2. UNCHANGED <<s5, s8, s9, s10>> /\ s11' \subseteq s11
    BY <2>1 DEF Index!Kept
  <2>3. Index!TypeOK'
    BY <1>1, <1>4, <1>7, <2>2 DEF Index!TypeOK
  <2>4. Index!SearchedOrSearching'
    <3>1. CASE f.query # s3.filters.query \/ (s1.table /\ Index!Unpaged(f) # Index!Unpaged(s3.filters))
      BY <1>1, <1>7, <2>1, <2>2, <3>1 DEF Index!SearchAgain, Index!Searching, Index!SearchedOrSearching
    <3>2. CASE ~(f.query # s3.filters.query \/ (s1.table /\ Index!Unpaged(f) # Index!Unpaged(s3.filters)))
      <4>1. s6' = s6 /\ s12' = still /\ s3'.filters.query = s3.filters.query
        BY <1>7, <2>1, <3>2 DEF Index!SearchAgain
      <4>2. s1.table => s7.action = "get" /\ s12' = s12
        BY <1>11, <4>1
      <4>3. Index!SearchedOrSearching
        BY DEF Index!Inductive
      <4> QED BY <1>1, <2>2, <3>2, <4>1, <4>2, <4>3 DEF Index!SearchedOrSearching
    <3> QED BY <3>1, <3>2
  <2>7. still \ {"search"} \subseteq s12'
    BY <2>1 DEF Index!SearchAgain, Index!Searching
  <2>5. (s1.table /\ Index!NoActionIsOpen => \A r \in Index!Ticked \cup Index!Shown : s2[r] # "gone")'
    <3> SUFFICES ASSUME s1.table, Index!NoActionIsOpen' PROVE (\A r \in Index!Ticked : s2[r] # "gone")'
      BY <1>1, <1>8
    <3>1. s7.action = "get" /\ "act" \notin s12
      BY <1>11, <2>7 DEF Index!NoActionIsOpen
    <3>2. \A r \in Index!Ticked : s2[r] # "gone"
      BY <3>1 DEF Index!Inductive, Index!NoActionIsOpen
    <3>3. Index!Ticked' = Index!Ticked /\ s2' = s2
      BY <1>4, <2>2, <3>1 DEF Index!Ticked
    <3> QED BY <3>2, <3>3
  <2>6. (~s1.table => s8 = <<>> /\ s9 = "none" /\ s10 = Nil)'
    BY <1>1, <2>2 DEF Index!Inductive
  <2> QED BY <1>1, <2>3, <2>4, <2>5, <2>6 DEF Index!Inductive
<1> QED BY <1>10, <1>11

LEMMA ListFails ==
    ASSUME Index!Inductive, Index!VisitFails
    PROVE  Index!Inductive'
<1> USE ListTypes
<1>1. /\ s7 # Nil /\ s7' = Nil /\ s2' \in Index!Interrupted /\ s12' = Index!Unanswered
      /\ UNCHANGED <<s1, s3, s5, s6, s8, s9, s10, s11>>
  BY DEF Index!VisitFails, Index!searchVars, Index!tableVars
<1>2. /\ s2' \in [ListRows -> {"on", "off", "gone"}]
      /\ s7.action = "get" => s2' = s2
  BY <1>1, InterruptedKeepsStatus
<1>3. Index!TypeOK'
  BY <1>1, <1>2 DEF Index!Inductive, Index!TypeOK
<1>4. Index!SearchedOrSearching'
  BY <1>1, SearchOvertaken
<1>5. Index!NoActionIsOpen' => Index!NoActionIsOpen
  BY <1>1 DEF Index!NoActionIsOpen, Index!Unanswered
<1>6. (s1.table /\ Index!NoActionIsOpen => \A r \in Index!Ticked \cup Index!Shown : s2[r] # "gone")'
  BY <1>1, <1>2, <1>5 DEF Index!Inductive, Index!Ticked, Index!Shown, Index!NoActionIsOpen
<1> QED BY <1>1, <1>3, <1>4, <1>6 DEF Index!Inductive

LEMMA ListStep ==
    ASSUME Index!Inductive, Index!Next
    PROVE  Index!Inductive'
BY ListSearches, ListTurns, ListTicks, ListDeletes, ListAnswers, ListFails DEF Index!Next

LEMMA ListStart ==
    ASSUME Index!Init
    PROVE  Index!Inductive
<1> DEFINE rows == Index!Listing(Index!Unfiltered, s2)
<1>1. /\ rows \in Seq(ListRows)
      /\ \A r \in Index!ToSet(rows) : s2[r] # "gone"
  BY ListingOfWhatExists
<1>2. s3 = [filters |-> Index!Unfiltered, rows |-> rows]
  BY DEF Index!Init
<1>3. /\ Index!Unfiltered \in Index!Filters /\ Index!Unfiltered.query = Index!NoText
      /\ Index!NoText \in ListTexts
  BY PagesAssumption DEF Index!Unfiltered, Index!Filters, Index!AdminIndexAssumption
<1> HIDE DEF rows
<1>4. s3 \in [filters : Index!Filters, rows : Seq(ListRows)] /\ s3.filters.query = Index!NoText /\ s3.rows = rows
  BY <1>1, <1>2, <1>3
<1>5. Index!TypeOK
  BY <1>3, <1>4 DEF Index!Init, Index!TypeOK
<1>6. Index!SearchedOrSearching
  BY <1>4 DEF Index!Init, Index!SearchedOrSearching
<1>7. \A r \in Index!Ticked \cup Index!Shown : s2[r] # "gone"
  BY <1>1, <1>4 DEF Index!Init, Index!Ticked, Index!Shown, Index!ToSet
<1> QED BY <1>5, <1>6, <1>7 DEF Index!Init, Index!Inductive

\* What the invariant says of a list when nothing is under way.
LEMMA ListHolds ==
    ASSUME Index!Inductive
    PROVE  Index!SearchSettles /\ Index!TickedExist
<1>1. Index!SearchSettles
  BY DEF Index!Inductive, Index!SearchedOrSearching, Index!SearchSettles, Index!Idle
<1>2. Index!TickedExist
  BY DEF Index!Inductive, Index!TickedExist, Index!Idle, Index!NoActionIsOpen, Index!Ticked, Index!ToSet
<1> QED BY <1>1, <1>2

-----------------------------------------------------------------------------
(* The shell of the signed-in pages.                                           *)

LEMMA ShellTypes ==
    ASSUME Shell!Inductive
    PROVE  /\ s1 \in Ids \cup {Nil} /\ s2 \in Shell!Accounts /\ s3 \in Nat
           /\ s4 \in Shell!Shells /\ s5 \in [Shell!Paths -> Shell!Shells \cup {Nil}]
           /\ s11 \in [Shell!Paths -> Shell!Shells \cup {Nil}]
           /\ s7 \in Shell!Visits \cup {Nil} /\ s8 \in [{"name", "tokens", "crawls"} -> Nat]
           /\ Nil \notin Ids /\ Nil \notin Shell!Shells /\ Nil \notin Shell!Visits
           /\ Shell!Server \in Shell!Servers
           /\ Shell!Server.session = s1 /\ Shell!Server.account = s2 /\ Shell!Server.clock = s3
BY PagesAssumption
DEF Shell!Inductive, Shell!TypeOK, Shell!ShellCacheAssumption, Shell!Server, Shell!Servers

\* Every request ends at a page, and only that for a new password at the form for one.
LEMMA LandsSomewhere ==
    ASSUME NEW p \in Shell!Paths \cup {Shell!Reset, Shell!Menu}, NEW id \in Ids \cup {Nil},
           NEW accounts \in Shell!Accounts
    PROVE  /\ Shell!Lands(p, id, accounts) \in Shell!Paths \cup {Shell!Reset, Shell!Menu}
           /\ p # Shell!Reset => Shell!Lands(p, id, accounts) # Shell!Reset
<1>1. \A state : /\ Shell!Home(state) \in Shell!Paths \cup {Shell!Menu}
                 /\ Shell!Home(state) # Shell!Reset
  BY DEF Shell!Home, Shell!Paths, Shell!Public, Shell!AppShell, Shell!Menu, Shell!Reset
<1>2. /\ Shell!Reset \notin Shell!Paths /\ {"/login", Shell!OwnTokens} \subseteq Shell!Paths
      /\ Shell!Public \subseteq Shell!Paths /\ Shell!Guest \subseteq Shell!Paths
      /\ Shell!AppShell \subseteq Shell!Paths /\ Shell!Admin \subseteq Shell!Paths
  BY DEF Shell!Paths, Shell!Public, Shell!Guest, Shell!AppShell, Shell!Tokens, Shell!OwnTokens, Shell!Admin,
         Shell!Reset
<1> QED BY <1>1, <1>2 DEF Shell!Lands

LEMMA PageTypes ==
    ASSUME NEW p \in Shell!Paths \cup {Shell!Reset, Shell!Menu}, NEW s \in Shell!Servers
    PROVE  /\ Shell!Page(p, s) \in Shell!Shells
           /\ Shell!Page(p, s).who = s.session /\ Shell!Page(p, s).at = s.clock
           /\ Shell!Page(p, s).astray = FALSE
           /\ p # Shell!Reset => Shell!Page(p, s).path # Shell!Reset
<1> DEFINE path == Shell!Lands(p, s.session, s.account)
<1>1. s.session \in Ids \cup {Nil} /\ s.account \in Shell!Accounts /\ s.clock \in Nat
  BY DEF Shell!Servers
<1>2. /\ path \in Shell!Paths \cup {Shell!Reset, Shell!Menu}
      /\ p # Shell!Reset => path # Shell!Reset
  BY <1>1, LandsSomewhere
<1>3. Shell!Page(p, s) = [path |-> path, who |-> s.session, at |-> s.clock, astray |-> FALSE]
  BY DEF Shell!Page
<1> HIDE DEF path
<1> QED BY <1>1, <1>2, <1>3 DEF Shell!Shells

\* What the server makes of a visit: who is signed in changes by a sign-in, a log-out or by leaving.
LEMMA ServedTypes ==
    ASSUME Shell!Inductive, NEW v \in Shell!Visits
    PROVE  /\ Shell!Served(v) \in Shell!Servers /\ Shell!Served(v).clock >= s3
           /\ v.kind \notin Shell!SignIns \cup {"logout", "leave"} => Shell!Served(v).session = s1
<1> USE ShellTypes
<1>1. v.kind \in Shell!Kinds /\ v.as \in Ids \cup {Nil}
  BY DEF Shell!Visits
<1>2. Shell!Server = [session |-> s1, account |-> s2, clock |-> s3]
  BY DEF Shell!Server
<1>3. CASE v.kind \in Shell!Writes
  <2>1. Shell!Served(v) = IF Shell!Writing(v) THEN [Shell!Server EXCEPT !.clock = @ + 1] ELSE Shell!Server
    BY <1>3 DEF Shell!Served, Shell!Writing, Shell!Writes, Shell!SignIns
  <2> QED BY <1>2, <1>3, <2>1 DEF Shell!Servers
<1>4. CASE v.kind \in Shell!SignIns
  BY <1>1, <1>2, <1>4 DEF Shell!Served, Shell!Writing, Shell!Writes, Shell!SignIns, Shell!Servers
<1>5. CASE v.kind = "logout"
  BY <1>2, <1>5 DEF Shell!Served, Shell!Writing, Shell!Writes, Shell!SignIns, Shell!Servers
<1>6. CASE v.kind = "leave"
  <2> DEFINE new == [s2 EXCEPT ![s1] = IF s1 \in Owners THEN "cancelled" ELSE "left"]
  <2>1. new \in Shell!Accounts
    BY DEF Shell!Accounts
  <2>2. Shell!Served(v) = IF Shell!HasAccount THEN [Shell!Server EXCEPT !.session = Nil, !.account = new] ELSE Shell!Server
    BY <1>6 DEF Shell!Served, Shell!Writing, Shell!Writes, Shell!SignIns
  <2> HIDE DEF new
  <2>3. Shell!Served(v) \in Shell!Servers /\ Shell!Served(v).clock = s3
    <3>1. CASE Shell!HasAccount
      <4>1. Shell!Served(v) = [session |-> Nil, account |-> new, clock |-> s3]
        BY <1>2, <2>2, <3>1
      <4> QED BY <2>1, <4>1 DEF Shell!Servers
    <3>2. CASE ~Shell!HasAccount
      BY <2>2, <3>2
    <3> QED BY <3>1, <3>2
  <2> QED BY <1>6, <2>3 DEF Shell!Writes
<1>7. CASE v.kind = "reactivate"
  <2> DEFINE new == [s2 EXCEPT ![s1] = "active"]
  <2>1. new \in Shell!Accounts
    BY DEF Shell!Accounts
  <2>2. Shell!Served(v) = IF s1 # Nil THEN [Shell!Server EXCEPT !.account = new] ELSE Shell!Server
    BY <1>7 DEF Shell!Served, Shell!Writing, Shell!Writes, Shell!SignIns
  <2> HIDE DEF new
  <2> QED BY <1>2, <1>7, <2>1, <2>2 DEF Shell!Servers, Shell!Writes
<1>8. CASE v.kind = "get"
  BY <1>2, <1>8 DEF Shell!Served, Shell!Writing, Shell!Writes, Shell!SignIns, Shell!Servers
<1> QED BY <1>1, <1>3, <1>4, <1>5, <1>6, <1>7, <1>8 DEF Shell!Kinds

\* A visit that is given up may have changed the server; then the session is no longer sure.
LEMMA GivesUpTypes ==
    ASSUME Shell!Inductive, Shell!GivesUp
    PROVE  /\ s1' \in Ids \cup {Nil} /\ s2' \in Shell!Accounts /\ s3' \in Nat /\ s3' >= s3
           /\ s9' => s9 /\ s1' = s1
<1> USE ShellTypes
<1>1. CASE UNCHANGED <<s1, s2, s3, s9>>
  BY <1>1
<1>2. CASE s7 # Nil /\ Shell!Reaches(s7) /\ s9' = (s9 /\ s1' = s1)
  <2>1. Shell!Served(s7) \in Shell!Servers /\ Shell!Served(s7).clock >= s3
    BY <1>2, ServedTypes
  <2>2. s1' = Shell!Served(s7).session /\ s2' = Shell!Served(s7).account /\ s3' = Shell!Served(s7).clock
    BY <1>2 DEF Shell!Reaches
  <2> QED BY <1>2, <2>1, <2>2 DEF Shell!Servers
<1> QED BY <1>1, <1>2 DEF Shell!GivesUp

\* What drops cached pages leaves the others as they are, and marks those under way.
LEMMA DropsTypes ==
    ASSUME Shell!Inductive, NEW tags
    PROVE  /\ Shell!Without(tags) \in [Shell!Paths -> Shell!Shells \cup {Nil}]
           /\ \A p \in Shell!Paths : Shell!Without(tags)[p] \in {s5[p], Nil}
           /\ \A p \in Shell!Paths : Shell!TagsOf(p) \cap tags # {} => Shell!Without(tags)[p] = Nil
           /\ Shell!Overtaken(tags) \in [Shell!Paths -> Shell!Shells \cup {Nil}]
           /\ \A p \in Shell!Paths : IF s11[p] = Nil \/ Shell!TagsOf(p) \cap tags = {}
                                      THEN Shell!Overtaken(tags)[p] = s11[p]
                                      ELSE /\ Shell!Overtaken(tags)[p].astray
                                           /\ Shell!Overtaken(tags)[p].path = s11[p].path
<1> USE ShellTypes
<1>1. \A page \in Shell!Shells : /\ [page EXCEPT !.astray = TRUE] \in Shell!Shells
                                /\ [page EXCEPT !.astray = TRUE].astray
                                /\ [page EXCEPT !.astray = TRUE].path = page.path
  BY DEF Shell!Shells
<1>2. \A p \in Shell!Paths : s11[p] # Nil => s11[p] \in Shell!Shells
  OBVIOUS
<1> QED BY <1>1, <1>2 DEF Shell!Without, Shell!Overtaken

LEMMA PathsAreTagged ==
    /\ Shell!Public \subseteq Shell!Paths /\ Shell!AppShell \subseteq Shell!Paths
    /\ Shell!Tokens \subseteq Shell!AppShell
    /\ Shell!Reset \notin Shell!Paths
    /\ \A p \in Shell!Public : Shell!TagsOf(p) \cap Shell!AllPublicTags # {}
    /\ \A p \in Shell!AppShell : Shell!TagsOf(p) \cap Shell!AllAppTags # {}
    /\ \A p \in Shell!Tokens : "app-access-tokens" \in Shell!TagsOf(p)
    /\ "app-dashboard" \in Shell!TagsOf("/app/dashboard")
<1>1. /\ Shell!Public \subseteq Shell!Paths /\ Shell!AppShell \subseteq Shell!Paths
      /\ Shell!Tokens \subseteq Shell!AppShell /\ Shell!Reset \notin Shell!Paths
  BY DEF Shell!Public, Shell!Guest, Shell!AppShell, Shell!Tokens, Shell!OwnTokens, Shell!Admin, Shell!Paths,
         Shell!Reset
<1>2. \A p \in Shell!Public : Shell!TagsOf(p) \cap Shell!AllPublicTags # {}
  BY DEF Shell!Public, Shell!TagsOf, Shell!PublicShellCacheTags, Shell!AllPublicTags
<1>3. /\ Shell!AppShellCacheTags("/app/dashboard") = {"app-dashboard"}
      /\ Shell!AppShellCacheTags("/app/crawl/new") = {"app-crawl-requests"}
      /\ Shell!AppShellCacheTags("/app/settings") = {"app-settings"}
      /\ \A p \in Shell!Tokens : Shell!AppShellCacheTags(p) = {"app-access-tokens"}
  BY DEF Shell!AppShellCacheTags, Shell!Tokens, Shell!OwnTokens
<1>4. \A p \in Shell!AppShell : Shell!TagsOf(p) \cap Shell!AllAppTags # {}
  BY <1>3 DEF Shell!AppShell, Shell!TagsOf, Shell!AllAppTags
<1> QED BY <1>1, <1>2, <1>3, <1>4 DEF Shell!TagsOf

\* A form of the application drops every page that shows what it writes.
LEMMA WriteDrops ==
    ASSUME NEW kind \in Shell!Writes
    PROVE  /\ Shell!WriteOf(kind).thing \in {"name", "tokens", "crawls"}
           /\ \A p \in Shell!AppShell : Shell!WriteOf(kind).thing \in Shell!Sees(p) =>
                Shell!TagsOf(p) \cap Shell!WriteOf(kind).tags # {}
<1> USE PathsAreTagged
<1>1. CASE kind \in {"token_create", "token_revoke"}
  <2>1. Shell!WriteOf(kind) = [thing |-> "tokens", tags |-> {"app-access-tokens"}]
    BY <1>1 DEF Shell!WriteOf, Shell!TokenWrite, Shell!AppShellCacheTags, Shell!Tokens, Shell!OwnTokens
  <2>2. \A p \in Shell!AppShell : "tokens" \in Shell!Sees(p) => p \in Shell!Tokens
    BY DEF Shell!Sees
  <2> QED BY <2>1, <2>2
<1>2. CASE kind = "profile"
  <2>1. Shell!WriteOf(kind) = [thing |-> "name", tags |-> Shell!AllAppTags]
    BY <1>2 DEF Shell!WriteOf, Shell!SettingsWrite
  <2> QED BY <2>1
<1>3. CASE kind = "crawl"
  <2>1. Shell!WriteOf(kind) = [thing |-> "crawls", tags |-> {"app-dashboard"}]
    BY <1>3 DEF Shell!WriteOf, Shell!CrawlWrite, Shell!AppShellCacheTags, Shell!Tokens, Shell!OwnTokens
  <2>2. \A p \in Shell!AppShell : "crawls" \in Shell!Sees(p) => p = "/app/dashboard"
    BY DEF Shell!Sees
  <2> QED BY <2>1, <2>2
<1> QED BY <1>1, <1>2, <1>3 DEF Shell!Writes

LEMMA SeesThings ==
    ASSUME NEW p PROVE Shell!Sees(p) \subseteq {"name", "tokens", "crawls"}
BY DEF Shell!Sees

\* A step that keeps the page shown and what was answered: cached pages may go, or come from those under
\* way, and the visit may be given up.
LEMMA ShellQuiet ==
    ASSUME Shell!Inductive, UNCHANGED <<s4, s8>>,
           s1' \in Ids \cup {Nil}, s2' \in Shell!Accounts, s3' \in Nat, s3' >= s3, s9' => s9 /\ s1' = s1,
           s5' \in [Shell!Paths -> Shell!Shells \cup {Nil}], s11' \in [Shell!Paths -> Shell!Shells \cup {Nil}],
           \A p \in Shell!Paths : s5'[p] \in {s5[p], s11[p], Nil} /\ s11'[p] \in {s11[p], Nil},
           s7' \in Shell!Visits \cup {Nil},
           s7' # Nil /\ s7'.kind = "reset" => s4.path = Shell!Reset
    PROVE  Shell!Inductive'
<1> USE ShellTypes
<1>1. Shell!TypeOK'
  BY DEF Shell!TypeOK
<1>2. Shell!PublicPagesOfSession' /\ Shell!OwnWritesShown' /\ \A t \in DOMAIN s8' : s8'[t] <= s3'
  BY DEF Shell!Inductive, Shell!PublicPagesOfSession, Shell!OwnWritesShown
<1>3. ASSUME NEW p, NEW page, Shell!Kept(p, page) PROVE Shell!Kept(p, page)'
  BY <1>3 DEF Shell!Kept
<1>4. ASSUME NEW p \in Shell!Paths, s5'[p] # Nil PROVE Shell!Kept(p, s5[p])'
  <2>1. PICK page : page = s5'[p]
    OBVIOUS
  <2>2. Shell!Kept(p, page)
    BY <1>4, <2>1 DEF Shell!Inductive
  <2> QED BY <1>3, <2>1, <2>2 DEF Shell!Kept
<1>5. ASSUME NEW p \in Shell!Paths, s11'[p] # Nil PROVE Shell!Kept(p, s11[p])'
  <2>1. PICK page : page = s11'[p]
    OBVIOUS
  <2>2. Shell!Kept(p, page)
    BY <1>5, <2>1 DEF Shell!Inductive
  <2> QED BY <1>3, <2>1, <2>2 DEF Shell!Kept
<1>6. Shell!ResetWithoutCache'
  BY DEF Shell!Inductive, Shell!ResetWithoutCache
<1> QED BY <1>1, <1>2, <1>4, <1>5, <1>6 DEF Shell!Inductive

\* The visitor's moves.
LEMMA ShellPrefetches ==
    ASSUME Shell!Inductive, NEW p \in Shell!Paths, Shell!Prefetch(p)
    PROVE  Shell!Inductive'
<1> USE ShellTypes
<1> DEFINE page == Shell!Fetch(p)
<1>1. s11' = [s11 EXCEPT ![p] = page] /\ UNCHANGED <<s1, s2, s3, s4, s5, s7, s8, s9>> /\ p \in Shell!Prefetched
  BY DEF Shell!Prefetch
<1>2. /\ page \in Shell!Shells /\ page.who = s1 /\ page.at = s3 /\ page.path # Shell!Reset /\ page # Nil
  <2>1. page = Shell!Page(p, Shell!Server)
    BY DEF Shell!Fetch
  <2> HIDE DEF page
  <2>2. p \in Shell!Paths \cup {Shell!Reset, Shell!Menu} /\ Shell!Server \in Shell!Servers
    OBVIOUS
  <2>3. /\ page \in Shell!Shells /\ page.who = Shell!Server.session /\ page.at = Shell!Server.clock
        /\ p # Shell!Reset => page.path # Shell!Reset
    BY ONLY <2>1, <2>2, PageTypes
  <2>4. page.who = s1 /\ page.at = s3
    BY <2>3
  <2> QED BY <2>3, <2>4, PathsAreTagged
<1>3. Shell!Kept(p, page)
  <2> HIDE DEF page
  <2> QED BY <1>2, SeesThings DEF Shell!Inductive, Shell!Kept
<1> HIDE DEF page
<1>4. s4.path # Shell!Reset
  BY <1>1 DEF Shell!Prefetched, Shell!Reset, Shell!Public, Shell!Guest, Shell!AppShell, Shell!Tokens,
              Shell!OwnTokens, Shell!Admin
<1>5. Shell!TypeOK' /\ Shell!PublicPagesOfSession' /\ Shell!OwnWritesShown' /\ Shell!ResetWithoutCache'
  BY <1>1, <1>2, <1>4 DEF Shell!Inductive, Shell!TypeOK, Shell!PublicPagesOfSession, Shell!OwnWritesShown,
     Shell!ResetWithoutCache
<1>6. ASSUME NEW q \in Shell!Paths, s11'[q] # Nil PROVE Shell!Kept(q, s11[q])'
  <2>1. PICK other : other = s11'[q]
    OBVIOUS
  <2>2. Shell!Kept(q, other)
    <3>1. other = IF q = p THEN page ELSE s11[q]
      BY <1>1, <2>1
    <3> QED BY <1>3, <1>6, <2>1, <3>1 DEF Shell!Inductive
  <2> QED BY <1>1, <2>1, <2>2 DEF Shell!Kept
<1>7. \A q \in Shell!Paths : s5'[q] # Nil => Shell!Kept(q, s5[q])'
  BY <1>1 DEF Shell!Inductive, Shell!Kept
<1> QED BY <1>1, <1>5, <1>6, <1>7 DEF Shell!Inductive

LEMMA ShellWaits ==
    ASSUME Shell!Inductive,
           \/ \E p \in Shell!Paths : Shell!Arrive(p) \/ Shell!Lost(p) \/ Shell!Expire(p)
           \/ \E k \in DOMAIN Shell!Asks : Shell!Open(k)
           \/ Shell!Fails
    PROVE  Shell!Inductive'
<1> USE ShellTypes
<1>1. ASSUME NEW p \in Shell!Paths, Shell!Arrive(p) \/ Shell!Lost(p) \/ Shell!Expire(p) PROVE Shell!Inductive'
  <2>1. /\ UNCHANGED <<s1, s2, s3, s4, s7, s8, s9>>
        /\ s5' \in {s5, [s5 EXCEPT ![p] = s11[p]], [s5 EXCEPT ![p] = Nil]}
        /\ s11' \in {s11, [s11 EXCEPT ![p] = Nil]}
    BY <1>1 DEF Shell!Arrive, Shell!Lost, Shell!Expire, Shell!Keep
  <2>2. \A q \in Shell!Paths : s5'[q] \in {s5[q], s11[q], Nil} /\ s11'[q] \in {s11[q], Nil}
    BY <2>1
  <2>3. s5' \in [Shell!Paths -> Shell!Shells \cup {Nil}] /\ s11' \in [Shell!Paths -> Shell!Shells \cup {Nil}]
    BY <2>1
  <2> QED BY <2>1, <2>2, <2>3, ShellQuiet DEF Shell!Inductive, Shell!ResetWithoutCache
<1>2. ASSUME NEW k \in DOMAIN Shell!Asks, Shell!Open(k) PROVE Shell!Inductive'
  BY <1>2, ShellQuiet DEF Shell!Open, Shell!Inductive, Shell!ResetWithoutCache
<1>3. CASE Shell!Fails
  <2>1. Shell!GivesUp /\ s7' = Nil /\ UNCHANGED <<s4, s5, s8, s11>>
    BY <1>3 DEF Shell!Fails
  <2> QED BY <2>1, GivesUpTypes, ShellQuiet
<1> QED BY <1>1, <1>2, <1>3

LEMMA ShellVisits ==
    ASSUME Shell!Inductive, NEW p \in Shell!Paths, Shell!Visit(p)
    PROVE  Shell!Inductive'
<1> USE ShellTypes
<1>1. Shell!GivesUp /\ UNCHANGED <<s5, s8, s11>>
  BY DEF Shell!Visit
<1>2. /\ s1' \in Ids \cup {Nil} /\ s2' \in Shell!Accounts /\ s3' \in Nat /\ s3' >= s3
      /\ s9' => s9 /\ s1' = s1
  BY <1>1, GivesUpTypes
<1>3. CASE s5[p] = Nil
  <2>1. s7' = [kind |-> "get", to |-> p, as |-> Nil] /\ UNCHANGED s4
    BY <1>3 DEF Shell!Visit, Shell!Get
  <2>2. s7' \in Shell!Visits /\ s7'.kind = "get"
    BY <2>1 DEF Shell!Visits, Shell!Kinds
  <2> QED BY <1>1, <1>2, <2>1, <2>2, ShellQuiet
<1>4. CASE s5[p] # Nil
  <2> DEFINE astray == s5[p].astray \/ s5[p].path # p
  <2>1. s5[p] \in Shell!Shells /\ s7' = Nil /\ s4' = [s5[p] EXCEPT !.astray = astray]
    BY <1>4 DEF Shell!Visit
  <2>2. astray \in BOOLEAN
    BY <2>1 DEF Shell!Shells
  <2>3. /\ s4' \in Shell!Shells /\ s4'.path = s5[p].path /\ s4'.who = s5[p].who /\ s4'.at = s5[p].at
        /\ s4'.astray = astray
    <3> HIDE DEF astray
    <3> QED BY <2>1, <2>2 DEF Shell!Shells
  <2>4. ~s4'.astray => s4'.path = p /\ ~s5[p].astray
    BY <2>3
  <2> HIDE DEF astray
  <2>5. Shell!Kept(p, s5[p])
    BY <1>4 DEF Shell!Inductive
  <2>6. Shell!TypeOK' /\ \A t \in DOMAIN s8' : s8'[t] <= s3'
    BY <1>1, <1>2, <2>1, <2>3 DEF Shell!Inductive, Shell!TypeOK
  <2>7. Shell!PublicPagesOfSession' /\ Shell!OwnWritesShown'
    BY <1>1, <1>2, <2>3, <2>4, <2>5 DEF Shell!Kept, Shell!PublicPagesOfSession, Shell!OwnWritesShown
  <2>8. Shell!ResetWithoutCache'
    BY <1>1, <2>1, <2>3, <2>5 DEF Shell!Kept, Shell!ResetWithoutCache
  <2>9. \A q \in Shell!Paths : /\ s5'[q] # Nil => Shell!Kept(q, s5[q])'
                               /\ s11'[q] # Nil => Shell!Kept(q, s11[q])'
    BY <1>1, <1>2 DEF Shell!Inductive, Shell!Kept
  <2> QED BY <2>6, <2>7, <2>8, <2>9 DEF Shell!Inductive
<1> QED BY <1>3, <1>4

LEMMA ShellSends ==
    ASSUME Shell!Inductive, NEW kind \in Shell!Kinds, NEW to \in Shell!Paths, NEW as \in Ids \cup {Nil},
           Shell!Send(kind, to, as), kind = "reset" => s4.path = Shell!Reset
    PROVE  Shell!Inductive'
<1>1. s7' = [kind |-> kind, to |-> to, as |-> as] /\ Shell!GivesUp /\ UNCHANGED <<s4, s5, s8, s11>>
  BY DEF Shell!Send
<1>2. s7' \in Shell!Visits /\ s7'.kind = kind
  BY <1>1 DEF Shell!Visits
<1> QED BY <1>1, <1>2, ShellTypes, GivesUpTypes, ShellQuiet

LEMMA ShellForms ==
    ASSUME Shell!Inductive,
           \/ Shell!CreateToken \/ Shell!RevokeToken \/ Shell!SaveProfile \/ Shell!SubmitUrl
           \/ Shell!LeaveAccount \/ Shell!Reactivate \/ Shell!LogOut
           \/ \E i \in Ids : Shell!LogIn(i) \/ Shell!Register(i) \/ Shell!ResetPassword(i)
    PROVE  Shell!Inductive'
<1>1. {"/", "/crawl", "/login", "/app/dashboard", "/app/settings", Shell!TokensLink} \subseteq Shell!Paths
  BY DEF Shell!Paths, Shell!Public, Shell!Guest, Shell!AppShell, Shell!Tokens, Shell!OwnTokens, Shell!TokensLink
<1>2. Shell!Public \subseteq Shell!Paths
  BY PathsAreTagged
<1>3. Nil \in Ids \cup {Nil}
  OBVIOUS
<1>4. {"token_create", "token_revoke", "profile", "crawl", "leave", "reactivate", "logout", "login",
       "register", "reset"} \subseteq Shell!Kinds
  BY DEF Shell!Kinds, Shell!Writes, Shell!SignIns
<1>5. CASE Shell!CreateToken
  BY <1>1, <1>3, <1>4, <1>5, ShellSends DEF Shell!CreateToken
<1>6. CASE Shell!RevokeToken
  BY <1>1, <1>3, <1>4, <1>6, ShellSends DEF Shell!RevokeToken
<1>7. CASE Shell!SaveProfile
  BY <1>1, <1>3, <1>4, <1>7, ShellSends DEF Shell!SaveProfile
<1>8. CASE Shell!SubmitUrl
  BY <1>1, <1>3, <1>4, <1>8, ShellSends DEF Shell!SubmitUrl
<1>9. CASE Shell!LeaveAccount
  BY <1>1, <1>3, <1>4, <1>9, ShellSends DEF Shell!LeaveAccount
<1>10. CASE Shell!Reactivate
  BY <1>1, <1>3, <1>4, <1>10, ShellSends DEF Shell!Reactivate
<1>11. CASE Shell!LogOut
  <2> DEFINE to == IF s4.path \in Shell!Public THEN s4.path ELSE "/login"
  <2>1. to \in Shell!Paths /\ Shell!Send("logout", to, Nil)
    BY <1>1, <1>2, <1>11 DEF Shell!LogOut
  <2> HIDE DEF to
  <2> QED BY <1>3, <1>4, <2>1, ShellSends
<1>12. ASSUME NEW i \in Ids, Shell!LogIn(i) \/ Shell!Register(i) \/ Shell!ResetPassword(i)
       PROVE  Shell!Inductive'
  <2>1. i \in Ids \cup {Nil}
    OBVIOUS
  <2> QED BY <1>1, <1>4, <1>12, <2>1, ShellSends DEF Shell!LogIn, Shell!Register, Shell!ResetPassword
<1> QED BY <1>5, <1>6, <1>7, <1>8, <1>9, <1>10, <1>11, <1>12

\* The answers.
LEMMA DroppedTags ==
    ASSUME NEW v \in Shell!Visits
    PROVE  /\ Shell!Flushes(v.kind) => \A p \in Shell!Public : Shell!TagsOf(p) \cap Shell!Dropped(v) # {}
           /\ v.kind \in Shell!Writes => \A p \in Shell!AppShell :
                Shell!WriteOf(v.kind).thing \in Shell!Sees(p) => Shell!TagsOf(p) \cap Shell!Dropped(v) # {}
<1>1. v.kind \in Shell!Writes => ~Shell!Flushes(v.kind)
  BY DEF Shell!Flushes, Shell!Writes
<1> QED BY <1>1, WriteDrops, PathsAreTagged DEF Shell!Dropped

LEMMA ShellAnswers ==
    ASSUME Shell!Inductive, Shell!Answer
    PROVE  Shell!Inductive'
<1> USE ShellTypes
<1> DEFINE s == Shell!Served(s7)
           tags == Shell!Dropped(s7)
<1>1. /\ s7 \in Shell!Visits /\ s7 # Nil /\ s7' = Nil
      /\ s1' = s.session /\ s2' = s.account /\ s3' = s.clock
      /\ s5' = Shell!Without(tags) /\ s11' = Shell!Overtaken(tags) /\ s4' = Shell!Page(s7.to, s)
      /\ s8' = IF Shell!Writing(s7)
               THEN [s8 EXCEPT ![Shell!WriteOf(s7.kind).thing] = s.clock] ELSE s8
      /\ s9' = (Shell!Flushes(s7.kind) \/ (s9 /\ (s7.kind = "leave" => s.session = s1)))
  BY DEF Shell!Answer, Shell!Reaches
<1>2. s7.to \in Shell!Paths /\ s7.to # Shell!Reset /\ s7.kind \in Shell!Kinds
  BY <1>1, PathsAreTagged DEF Shell!Visits
<1>3. /\ s \in Shell!Servers /\ s.clock >= s3
      /\ s7.kind \notin Shell!SignIns \cup {"logout", "leave"} => s.session = s1
  BY <1>1, ServedTypes
<1> HIDE DEF s
<1>4. s1' \in Ids \cup {Nil} /\ s2' \in Shell!Accounts /\ s3' \in Nat /\ s3' >= s3
  BY <1>1, <1>3 DEF Shell!Servers
<1>5. s4' \in Shell!Shells /\ s4'.who = s1' /\ s4'.at = s3' /\ s4'.path # Shell!Reset
  <2>1. s7.to \in Shell!Paths \cup {Shell!Reset, Shell!Menu}
    BY <1>2
  <2> QED BY <1>1, <1>2, <1>3, <2>1, PageTypes
<1>6. /\ s5' \in [Shell!Paths -> Shell!Shells \cup {Nil}] /\ s11' \in [Shell!Paths -> Shell!Shells \cup {Nil}]
      /\ \A p \in Shell!Paths : s5'[p] # Nil => s5'[p] = s5[p] /\ Shell!TagsOf(p) \cap tags = {}
      /\ \A p \in Shell!Paths : s11'[p] # Nil => /\ s11[p] # Nil
                                                /\ \/ s11'[p] = s11[p] /\ Shell!TagsOf(p) \cap tags = {}
                                                   \/ s11'[p].astray /\ s11'[p].path = s11[p].path
  <2> HIDE DEF tags
  <2> QED BY <1>1, DropsTypes
<1>7. /\ Shell!Flushes(s7.kind) => \A p \in Shell!Public : Shell!TagsOf(p) \cap tags # {}
      /\ s7.kind \in Shell!Writes => \A p \in Shell!AppShell :
           Shell!WriteOf(s7.kind).thing \in Shell!Sees(p) => Shell!TagsOf(p) \cap tags # {}
  BY <1>1, DroppedTags
<1> HIDE DEF tags
<1>8. /\ s8' \in [{"name", "tokens", "crawls"} -> Nat]
      /\ \A t \in DOMAIN s8' : s8'[t] = s8[t] \/ (s7.kind \in Shell!Writes /\ t = Shell!WriteOf(s7.kind).thing /\ s8'[t] = s3')
  <2>1. CASE Shell!Writing(s7)
    BY <1>1, <1>4, <2>1, WriteDrops DEF Shell!Writing
  <2>2. CASE ~Shell!Writing(s7)
    BY <1>1, <2>2
  <2> QED BY <2>1, <2>2
<1>9. \A t \in DOMAIN s8' : s8'[t] <= s3'
  BY <1>4, <1>8 DEF Shell!Inductive
<1>10. Shell!TypeOK' /\ Shell!PublicPagesOfSession'
  BY <1>1, <1>4, <1>5, <1>6, <1>8 DEF Shell!TypeOK, Shell!PublicPagesOfSession
<1>11. Shell!OwnWritesShown'
  BY <1>5, <1>8, <1>9, SeesThings DEF Shell!OwnWritesShown
<1>12. Shell!ResetWithoutCache'
  BY <1>1, <1>5 DEF Shell!ResetWithoutCache
<1>13. ASSUME NEW p \in Shell!Paths, NEW page, Shell!Kept(p, page), Shell!TagsOf(p) \cap tags = {},
              s7.kind # "reset" PROVE Shell!Kept(p, page)'
  <2>1. s9' /\ p \in Shell!Public => s9 /\ s1' = s1
    BY <1>1, <1>3, <1>7, <1>13 DEF Shell!SignIns, Shell!Flushes
  <2>2. ASSUME p \in Shell!AppShell, NEW t \in Shell!Sees(p) PROVE s8'[t] = s8[t]
    BY <1>7, <1>8, <1>13, <2>2, SeesThings
  <2> QED BY <1>13, <2>1, <2>2 DEF Shell!Kept
<1>14. ASSUME NEW p \in Shell!Paths, s5'[p] # Nil \/ s11'[p] # Nil PROVE s7.kind # "reset"
  BY <1>1, <1>6, <1>14 DEF Shell!Inductive, Shell!ResetWithoutCache
<1>15. ASSUME NEW p \in Shell!Paths, s5'[p] # Nil PROVE Shell!Kept(p, s5[p])'
  <2>1. PICK page : page = s5'[p]
    OBVIOUS
  <2>2. Shell!Kept(p, page)
    BY <1>6, <1>15, <2>1 DEF Shell!Inductive
  <2>3. Shell!Kept(p, page)'
    BY <1>6, <1>13, <1>14, <1>15, <2>2
  <2> QED BY <2>1, <2>3 DEF Shell!Kept
<1>16. ASSUME NEW p \in Shell!Paths, s11'[p] # Nil PROVE Shell!Kept(p, s11[p])'
  <2>1. PICK page : page = s11'[p]
    OBVIOUS
  <2>2. Shell!Kept(p, s11[p])
    BY <1>6, <1>16 DEF Shell!Inductive
  <2>3. Shell!Kept(p, page)'
    <3>1. CASE s11'[p] = s11[p] /\ Shell!TagsOf(p) \cap tags = {}
      BY <1>13, <1>14, <1>16, <2>1, <2>2, <3>1
    <3>2. CASE s11'[p].astray /\ s11'[p].path = s11[p].path
      BY <2>1, <2>2, <3>2 DEF Shell!Kept
    <3> QED BY <1>6, <1>16, <3>1, <3>2
  <2> QED BY <2>1, <2>3 DEF Shell!Kept
<1> QED BY <1>9, <1>10, <1>11, <1>12, <1>15, <1>16 DEF Shell!Inductive

\* The page shown is built anew from the server: the form's errors, and a page the browser loads.
LEMMA ShellInvalid ==
    ASSUME Shell!Inductive, Shell!Invalid
    PROVE  Shell!Inductive'
<1> USE ShellTypes
<1> DEFINE p == CASE s7.kind = "crawl" -> "/app/crawl/new"
                  [] s7.kind \in Shell!Writes -> s7.to
                  [] OTHER -> s4.path
<1>1. s4' = Shell!Fetch(p) /\ s7' = Nil /\ s7 \in Shell!Visits /\ UNCHANGED <<s1, s2, s3, s5, s8, s9, s11>>
  BY DEF Shell!Invalid
<1>2. /\ p \in Shell!Paths \cup {Shell!Reset, Shell!Menu}
      /\ p = Shell!Reset => s4.path = Shell!Reset
  <2>1. "/app/crawl/new" \in Shell!Paths /\ s7.to \in Shell!Paths
    BY <1>1 DEF Shell!Paths, Shell!AppShell, Shell!Visits
  <2> QED BY <2>1, PathsAreTagged DEF Shell!Shells
<1> HIDE DEF p
<1>3. s4' = Shell!Page(p, Shell!Server)
  BY <1>1 DEF Shell!Fetch
<1>4. /\ s4' \in Shell!Shells /\ s4'.who = Shell!Server.session /\ s4'.at = Shell!Server.clock
      /\ s4'.path = Shell!Reset => s4.path = Shell!Reset
  BY <1>2, <1>3, PageTypes
<1>5. s4'.who = s1 /\ s4'.at = s3
  BY <1>4
<1>6. Shell!TypeOK' /\ \A t \in DOMAIN s8' : s8'[t] <= s3'
  BY <1>1, <1>4 DEF Shell!Inductive, Shell!TypeOK
<1>7. Shell!PublicPagesOfSession' /\ Shell!OwnWritesShown'
  BY <1>1, <1>5, SeesThings DEF Shell!Inductive, Shell!PublicPagesOfSession, Shell!OwnWritesShown
<1>8. Shell!ResetWithoutCache'
  BY <1>1, <1>4 DEF Shell!Inductive, Shell!ResetWithoutCache
<1>9. \A q \in Shell!Paths : /\ s5'[q] # Nil => Shell!Kept(q, s5[q])'
                             /\ s11'[q] # Nil => Shell!Kept(q, s11[q])'
  BY <1>1 DEF Shell!Inductive, Shell!Kept
<1> QED BY <1>6, <1>7, <1>8, <1>9 DEF Shell!Inductive

LEMMA ShellLoads ==
    ASSUME Shell!Inductive, NEW p \in Shell!Paths \cup {Shell!Reset, Shell!Menu}, NEW id \in Ids \cup {Nil},
           Shell!Load(p, id)
    PROVE  Shell!Inductive'
<1> USE ShellTypes
<1> DEFINE s == [Shell!Server EXCEPT !.session = id]
<1>1. /\ s4' = Shell!Page(p, s) /\ s1' = id /\ s7' = Nil /\ UNCHANGED <<s2, s3, s8>>
      /\ s5' = [q \in Shell!Paths |-> Nil] /\ s11' = s5'
  BY DEF Shell!Load
<1>2. s \in Shell!Servers /\ s.session = id /\ s.clock = s3
  BY DEF Shell!Servers, Shell!Server
<1> HIDE DEF s
<1>3. s4' \in Shell!Shells /\ s4'.who = id /\ s4'.at = s3
  BY <1>1, <1>2, PageTypes
<1>4. Shell!TypeOK' /\ \A t \in DOMAIN s8' : s8'[t] <= s3'
  BY <1>1, <1>3 DEF Shell!Inductive, Shell!TypeOK
<1>5. Shell!PublicPagesOfSession' /\ Shell!OwnWritesShown'
  BY <1>1, <1>3, SeesThings DEF Shell!Inductive, Shell!PublicPagesOfSession, Shell!OwnWritesShown
<1>6. Shell!ResetWithoutCache'
  BY <1>1 DEF Shell!ResetWithoutCache
<1> QED BY <1>1, <1>4, <1>5, <1>6 DEF Shell!Inductive

LEMMA ShellStep ==
    ASSUME Shell!Inductive, Shell!Next
    PROVE  Shell!Inductive'
BY ShellPrefetches, ShellWaits, ShellVisits, ShellForms, ShellAnswers, ShellInvalid, ShellLoads
DEF Shell!Next

LEMMA ShellStart ==
    ASSUME Shell!Init
    PROVE  Shell!Inductive
<1> DEFINE p == IF s1 = Nil THEN "/" ELSE "/app/dashboard"
<1>1. /\ s1 \in Ids \cup {Nil} /\ s2 \in Shell!Accounts /\ s3 = 0 /\ s4 = Shell!Fetch(p)
      /\ s5 = [q \in Shell!Paths |-> Nil] /\ s11 = s5 /\ s7 = Nil
      /\ s8 = [t \in {"name", "tokens", "crawls"} |-> 0] /\ s9 = TRUE
  BY DEF Shell!Init, Shell!Accounts
<1>2. p \in Shell!Paths \cup {Shell!Reset, Shell!Menu}
  BY DEF Shell!Paths, Shell!Public, Shell!AppShell
<1>3. Shell!Server \in Shell!Servers /\ Shell!Server.session = s1 /\ Shell!Server.clock = 0
  BY <1>1 DEF Shell!Server, Shell!Servers
<1> HIDE DEF p
<1>4. s4 = Shell!Page(p, Shell!Server)
  BY <1>1 DEF Shell!Fetch
<1>5. s4 \in Shell!Shells /\ s4.who = Shell!Server.session /\ s4.at = Shell!Server.clock
  BY <1>2, <1>3, <1>4, PageTypes
<1>6. s4.who = s1 /\ s4.at = 0
  BY <1>3, <1>5
<1>7. Shell!TypeOK /\ \A t \in DOMAIN s8 : s8[t] <= s3
  BY <1>1, <1>5 DEF Shell!TypeOK
<1>8. Shell!PublicPagesOfSession /\ Shell!OwnWritesShown
  BY <1>1, <1>6, SeesThings DEF Shell!PublicPagesOfSession, Shell!OwnWritesShown
<1>9. Shell!ResetWithoutCache
  BY <1>1 DEF Shell!ResetWithoutCache
<1> QED BY <1>1, <1>7, <1>8, <1>9 DEF Shell!Inductive

LEMMA ShellHolds ==
    ASSUME Shell!Inductive
    PROVE  Shell!PublicPagesOfSession /\ Shell!OwnWritesShown
BY DEF Shell!Inductive

-----------------------------------------------------------------------------
(* The library.                                                                *)

\* Among finitely many rows with a number each, one has the greatest.
LEMMA GreatestExists ==
    ASSUME NEW S, IsFiniteSet(S), S # {}, NEW number \in [S -> Int]
    PROVE  \E r \in S : \A q \in S : number[q] <= number[r]
<1> DEFINE Above(r) == {q \in S : number[q] > number[r]}
           T == {Above(r) : r \in S}
<1>1. IsWellFoundedOn(StrictSubsetOrdering(S), FiniteSubsetsOf(S))
  BY FS_StrictSubsetOrderingWellFounded
<1>2. T \subseteq FiniteSubsetsOf(S) /\ T # {}
  <2>1. \A r \in S : Above(r) \in SUBSET S
    OBVIOUS
  <2> HIDE DEF Above
  <2>2. \A r \in S : IsFiniteSet(Above(r))
    BY <2>1, FS_Subset
  <2> QED BY <2>1, <2>2 DEF FiniteSubsetsOf
<1>3. PICK U \in T : \A V \in T : <<V, U>> \notin StrictSubsetOrdering(S)
  <2> HIDE DEF T
  <2> QED BY <1>1, <1>2, WFMin
<1>4. PICK r \in S : U = Above(r)
  OBVIOUS
<1>5. ASSUME NEW q \in S, number[q] > number[r] PROVE FALSE
  <2>1. Above(q) \subseteq Above(r) /\ q \in Above(r) /\ q \notin Above(q)
    BY <1>5
  <2>2. Above(q) \in T /\ Above(q) \in SUBSET S /\ Above(r) \in SUBSET S
    OBVIOUS
  <2>3. <<Above(q), Above(r)>> \in StrictSubsetOrdering(S)
    <3> HIDE DEF Above
    <3> QED BY <2>1, <2>2 DEF StrictSubsetOrdering
  <2> HIDE DEF Above, T
  <2> QED BY <1>3, <1>4, <2>2, <2>3
<1> QED BY <1>5

LEMMA LibraryTypes ==
    ASSUME Catalogue!Inductive
    PROVE  /\ s1 \in [Catalogue!Rows -> Catalogue!Versions \cup {Nil}] /\ s2 \in Catalogue!Libraries
           /\ s3.rows \in [Catalogue!Rows -> Catalogue!Versions \cup {Nil}]
           /\ s3.library \in Catalogue!Libraries /\ s3.dialog \in Catalogue!Dialogs \cup {Nil}
           /\ s3.view \in {"show", "edit"}
           /\ s5.props \in Catalogue!Replies /\ s5.box \in Catalogue!Searches
           /\ s6 # Nil => s6 \in Catalogue!Questions
           /\ Nil \notin VersionNames /\ Nil \notin Catalogue!Versions
BY PagesAssumption DEF Catalogue!Inductive, Catalogue!TypeOK, Catalogue!CatalogueAssumption

LEMMA RichestTypes ==
    ASSUME s1 \in [Catalogue!Rows -> Catalogue!Versions \cup {Nil}], Catalogue!Live # {}
    PROVE  /\ Catalogue!Richest \in Catalogue!Live
           /\ \A q \in Catalogue!Live : s1[q].pages <= s1[Catalogue!Richest].pages
<1>1. MaxVersions \in Nat
  BY PagesAssumption DEF Catalogue!CatalogueAssumption
<1>2. IsFiniteSet(Catalogue!Live)
  <2>1. IsFiniteSet(Catalogue!Rows)
    BY <1>1, FS_Interval DEF Catalogue!Rows
  <2> QED BY <2>1, FS_Subset DEF Catalogue!Live
<1>3. \A r \in Catalogue!Live : s1[r].pages \in Nat
  BY DEF Catalogue!Live, Catalogue!Versions
<1>4. \E r \in Catalogue!Live : \A q \in Catalogue!Live : s1[q].pages <= s1[r].pages
  <2> DEFINE number == [r \in Catalogue!Live |-> s1[r].pages]
  <2>1. number \in [Catalogue!Live -> Int]
    BY <1>3
  <2>2. \E r \in Catalogue!Live : \A q \in Catalogue!Live : number[q] <= number[r]
    <3> HIDE DEF number
    <3> QED BY <1>2, <2>1, GreatestExists
  <2> QED BY <2>2
<1> QED BY <1>4 DEF Catalogue!Richest

\* The version served is one of the library's.
LEMMA BestVersionTypes ==
    ASSUME s1 \in [Catalogue!Rows -> Catalogue!Versions \cup {Nil}], Catalogue!Live # {}, NEW requested
    PROVE  /\ Catalogue!BestVersion(requested) \in Catalogue!Live
           /\ /\ Catalogue!Row(requested) = {}
              /\ \E r \in Catalogue!Live : s1[r].pages > 0
              => s1[Catalogue!BestVersion(requested)].pages > 0
<1> DEFINE good == {r \in Catalogue!Row(s2.default) :
                      s1[r].pages > 0 /\ s1[Catalogue!Richest].pages <= 3 * s1[r].pages}
<1>1. \A n : Catalogue!Row(n) \subseteq Catalogue!Live
  BY DEF Catalogue!Row, Catalogue!Named, Catalogue!Live
<1>2. CASE Catalogue!Row(requested) # {}
  BY <1>1, <1>2 DEF Catalogue!BestVersion
<1>3. CASE Catalogue!Row(requested) = {} /\ good # {}
  <2>1. Catalogue!BestVersion(requested) \in good
    BY <1>3 DEF Catalogue!BestVersion
  <2> QED BY <1>1, <2>1
<1>4. CASE Catalogue!Row(requested) = {} /\ good = {}
  <2>1. Catalogue!BestVersion(requested) = Catalogue!Richest
    BY <1>4 DEF Catalogue!BestVersion
  <2>2. \A r \in Catalogue!Live : s1[r].pages \in Nat
    BY DEF Catalogue!Live, Catalogue!Versions
  <2> QED BY <2>1, <2>2, RichestTypes
<1> QED BY <1>2, <1>3, <1>4

\* The forms that the numbers under the pages take.
EveryPage(current, total, numbers) ==
  /\ total <= 7 /\ Len(numbers) = total
  /\ \A i \in 1..total : numbers[i] = i
NearTheStart(current, total, numbers) ==
  /\ total > 7 /\ current <= 4 /\ Len(numbers) = 7
  /\ numbers[1] = 1 /\ numbers[2] = 2 /\ numbers[3] = 3 /\ numbers[4] = 4 /\ numbers[5] = 5
  /\ numbers[6] = -1 /\ numbers[7] = total
NearTheEnd(current, total, numbers) ==
  /\ total > 7 /\ current > 4 /\ current >= total - 3 /\ Len(numbers) = 7
  /\ numbers[1] = 1 /\ numbers[2] = -1 /\ numbers[3] = total - 4 /\ numbers[4] = total - 3
  /\ numbers[5] = total - 2 /\ numbers[6] = total - 1 /\ numbers[7] = total
InTheMiddle(current, total, numbers) ==
  /\ total > 7 /\ current > 4 /\ current < total - 3 /\ Len(numbers) = 7
  /\ numbers[1] = 1 /\ numbers[2] = -1 /\ numbers[3] = current - 1 /\ numbers[4] = current
  /\ numbers[5] = current + 1 /\ numbers[6] = -1 /\ numbers[7] = total

LEMMA PageRangeForms ==
    ASSUME NEW current \in Nat \ {0}, NEW total \in Nat,
           NEW numbers, numbers = Catalogue!GetPageRange(current, total)
    PROVE  /\ numbers \in Seq(Int)
           /\ \/ EveryPage(current, total, numbers) \/ NearTheStart(current, total, numbers)
              \/ NearTheEnd(current, total, numbers) \/ InTheMiddle(current, total, numbers)
<1>1. ASSUME NEW low \in Seq(Int), NEW high \in Seq(Int)
      PROVE  /\ low \o high \in Seq(Int)
             /\ Len(low \o high) = Len(low) + Len(high)
             /\ \A i \in 1..Len(low) : (low \o high)[i] = low[i]
             /\ \A i \in 1..Len(high) : (low \o high)[Len(low) + i] = high[i]
  OBVIOUS
<1>6. ASSUME NEW n \in Nat, NEW f \in [1..n -> Int] PROVE f \in Seq(Int) /\ Len(f) = n
  OBVIOUS
<1>2. CASE total <= 7
  <2>1. numbers = [i \in 1..(total - 1 + 1) |-> 1 + i - 1]
    BY <1>2 DEF Catalogue!GetPageRange, Catalogue!Seq1
  <2>2. numbers = [i \in 1..total |-> i]
    BY <2>1
  <2> QED BY <1>2, <1>6, <2>2 DEF EveryPage
<1>3. CASE total > 7 /\ current <= 4
  <2> DEFINE low == Catalogue!Seq1(1, 5)
             high == <<-1, total>>
  <2>1. numbers = low \o high
    BY <1>3 DEF Catalogue!GetPageRange, Catalogue!Dots
  <2>2. low \in Seq(Int) /\ Len(low) = 5 /\ \A i \in 1..5 : low[i] = i
    <3>1. low = [i \in 1..(5 - 1 + 1) |-> 1 + i - 1]
      BY DEF Catalogue!Seq1
    <3>2. low = [i \in 1..5 |-> i]
      BY <3>1
    <3> HIDE DEF low
    <3>3. low \in [1..5 -> Int] /\ \A i \in 1..5 : low[i] = i
      BY <3>2
    <3> QED BY <1>6, <3>3
  <2>3. high \in Seq(Int) /\ Len(high) = 2 /\ high[1] = -1 /\ high[2] = total
    OBVIOUS
  <2> HIDE DEF low, high
  <2>4. /\ numbers \in Seq(Int) /\ Len(numbers) = 7
        /\ \A i \in 1..5 : numbers[i] = low[i]
        /\ \A i \in 1..2 : numbers[5 + i] = high[i]
    <3>1. /\ low \o high \in Seq(Int)
          /\ Len(low \o high) = Len(low) + Len(high)
          /\ \A i \in 1..Len(low) : (low \o high)[i] = low[i]
          /\ \A i \in 1..Len(high) : (low \o high)[Len(low) + i] = high[i]
      BY <1>1, <2>2, <2>3
    <3>2. numbers \in Seq(Int) /\ Len(numbers) = Len(low) + Len(high)
      BY <2>1, <3>1
    <3>3. \A i \in 1..Len(low) : numbers[i] = low[i]
      BY <2>1, <3>1
    <3>4. \A i \in 1..Len(high) : numbers[Len(low) + i] = high[i]
      BY <2>1, <3>1
    <3> QED BY <2>2, <2>3, <3>2, <3>3, <3>4
  <2>5. numbers[6] = high[1] /\ numbers[7] = high[2]
    BY <2>4
  <2> QED BY <1>3, <2>2, <2>3, <2>4, <2>5 DEF NearTheStart
<1>4. CASE total > 7 /\ current > 4 /\ current >= total - 3
  <2> DEFINE low == <<1, -1>>
             high == Catalogue!Seq1(total - 4, total)
  <2>1. numbers = low \o high
    BY <1>4 DEF Catalogue!GetPageRange, Catalogue!Dots
  <2>2. high \in Seq(Int) /\ Len(high) = 5 /\ \A i \in 1..5 : high[i] = total - 4 + i - 1
    <3>1. high = [i \in 1..(total - (total - 4) + 1) |-> total - 4 + i - 1]
      BY DEF Catalogue!Seq1
    <3>2. high = [i \in 1..5 |-> total - 4 + i - 1]
      BY <3>1
    <3> HIDE DEF high
    <3>3. high \in [1..5 -> Int] /\ \A i \in 1..5 : high[i] = total - 4 + i - 1
      BY <3>2
    <3> QED BY <1>6, <3>3
  <2>3. low \in Seq(Int) /\ Len(low) = 2 /\ low[1] = 1 /\ low[2] = -1
    OBVIOUS
  <2> HIDE DEF low, high
  <2>4. /\ numbers \in Seq(Int) /\ Len(numbers) = 7
        /\ numbers[1] = low[1] /\ numbers[2] = low[2]
        /\ \A i \in 1..5 : numbers[2 + i] = high[i]
    <3>1. /\ low \o high \in Seq(Int)
          /\ Len(low \o high) = Len(low) + Len(high)
          /\ \A i \in 1..Len(low) : (low \o high)[i] = low[i]
          /\ \A i \in 1..Len(high) : (low \o high)[Len(low) + i] = high[i]
      BY <1>1, <2>2, <2>3
    <3>2. numbers \in Seq(Int) /\ Len(numbers) = Len(low) + Len(high)
      BY <2>1, <3>1
    <3>3. \A i \in 1..Len(low) : numbers[i] = low[i]
      BY <2>1, <3>1
    <3>4. \A i \in 1..Len(high) : numbers[Len(low) + i] = high[i]
      BY <2>1, <3>1
    <3> QED BY <2>2, <2>3, <3>2, <3>3, <3>4
  <2>5. /\ numbers[3] = high[1] /\ numbers[4] = high[2] /\ numbers[5] = high[3]
        /\ numbers[6] = high[4] /\ numbers[7] = high[5]
    BY <2>4
  <2> QED BY <1>4, <2>2, <2>3, <2>4, <2>5 DEF NearTheEnd
<1>5. CASE total > 7 /\ current > 4 /\ current < total - 3
  <2>1. numbers = <<1, -1, current - 1, current, current + 1, -1, total>>
    BY <1>5 DEF Catalogue!GetPageRange, Catalogue!Dots
  <2> QED BY <1>5, <2>1 DEF InTheMiddle
<1> QED BY <1>2, <1>3, <1>4, <1>5

LeadEverywhere(current, total, numbers) ==
  /\ \A p \in {1, total} \cup {p \in current - 1 .. current + 1 : p \in 1..total} :
       \E i \in 1..Len(numbers) : numbers[i] = p
  /\ \A i \in 2..(Len(numbers) - 1) : numbers[i] = -1 => numbers[i + 1] - numbers[i - 1] > 2

\* They lead everywhere, and nowhere that is not a page.
LEMMA PageRangeLeads ==
    ASSUME NEW current \in Nat \ {0}, NEW total \in Nat,
           NEW numbers, numbers = Catalogue!GetPageRange(current, total)
    PROVE  /\ numbers \in Seq(Int)
           /\ \A i \in 1..Len(numbers) : numbers[i] = -1 \/ numbers[i] \in Nat \ {0}
           /\ current <= total => LeadEverywhere(current, total, numbers)
<1>5. numbers \in Seq(Int)
  BY PageRangeForms
<1>1. CASE EveryPage(current, total, numbers)
  BY <1>1, <1>5, SMTT(60) DEF EveryPage, LeadEverywhere
<1>2. CASE NearTheStart(current, total, numbers)
  BY <1>2, <1>5, SMTT(60) DEF NearTheStart, LeadEverywhere
<1>3. CASE NearTheEnd(current, total, numbers)
  BY <1>3, <1>5, SMTT(60) DEF NearTheEnd, LeadEverywhere
<1>4. CASE InTheMiddle(current, total, numbers)
  BY <1>4, <1>5, SMTT(60) DEF InTheMiddle, LeadEverywhere
<1> QED BY <1>1, <1>2, <1>3, <1>4, PageRangeForms

\* The server's side of an import, and of what an administrator saves.
LEMMA SyncTypes ==
    ASSUME NEW l \in Catalogue!Libraries, NEW h \in {Nil, "crawled"}, NEW n \in VersionNames \cup {Nil}
    PROVE  /\ Catalogue!SyncLibraryMetadata(l, h) \in Catalogue!Libraries
           /\ Catalogue!SyncLibraryMetadata(l, h).default = l.default
           /\ [l EXCEPT !.default = n] \in Catalogue!Libraries
           /\ [l EXCEPT !.default = n].default = n
<1> DEFINE aliases == l.aliases \cup {"crawled"}
           name == IF l.locked THEN l.name ELSE "crawled"
           homepage == IF (l.locked /\ l.homepage # Nil) \/ h = Nil THEN l.homepage ELSE h
<1>1. l = [default |-> l.default, name |-> l.name, homepage |-> l.homepage, aliases |-> l.aliases, locked |-> l.locked]
  BY DEF Catalogue!Libraries
<1>2. /\ aliases \in SUBSET {"crawled"} /\ name \in {"crawled", "curated"}
      /\ homepage \in {Nil, "crawled", "curated"} /\ l.default \in VersionNames \cup {Nil} /\ l.locked \in BOOLEAN
  BY DEF Catalogue!Libraries
<1>3. Catalogue!SyncLibraryMetadata(l, h) =
        [default |-> l.default, name |-> name, homepage |-> homepage, aliases |-> aliases, locked |-> l.locked]
  <2>1. Catalogue!SyncLibraryMetadata(l, h) = [l EXCEPT !.aliases = aliases, !.name = name, !.homepage = homepage]
    BY DEF Catalogue!SyncLibraryMetadata
  <2> HIDE DEF aliases, name, homepage
  <2> QED BY <1>1, <2>1
<1> HIDE DEF aliases, name, homepage
<1>4. Catalogue!SyncLibraryMetadata(l, h) \in Catalogue!Libraries
  BY <1>2, <1>3 DEF Catalogue!Libraries
<1>5. Catalogue!SyncLibraryMetadata(l, h).default = l.default
  BY <1>3
<1>6. [l EXCEPT !.default = n] \in Catalogue!Libraries /\ [l EXCEPT !.default = n].default = n
  BY DEF Catalogue!Libraries
<1> QED BY <1>4, <1>5, <1>6

LEMMA ImportTypes ==
    ASSUME s1 \in [Catalogue!Rows -> Catalogue!Versions \cup {Nil}], s2 \in Catalogue!Libraries,
           NEW n \in VersionNames, NEW c \in Counts, NEW h \in {Nil, "crawled"}, Catalogue!Import(n, c, h)
    PROVE  /\ s1' \in [Catalogue!Rows -> Catalogue!Versions \cup {Nil}] /\ s2' \in Catalogue!Libraries
           /\ Catalogue!Row(s2.default)' # {}
<1> DEFINE new == [name |-> n, channel |-> ChannelFor[n], pages |-> c]
           synced == Catalogue!SyncLibraryMetadata(s2, h)
<1>1. /\ new \in Catalogue!Versions /\ new.name = n /\ new # Nil
  BY PagesAssumption DEF Catalogue!CatalogueAssumption, Catalogue!Versions
<1>2. PICK row \in Catalogue!Rows :
        /\ s1' = [s1 EXCEPT ![row] = new]
        /\ s2' = [synced EXCEPT !.default = IF Catalogue!ShouldPromoteDefaultVersion(s1', row) THEN n ELSE @]
  BY DEF Catalogue!Import, Catalogue!Row, Catalogue!Named, Catalogue!Live
<1>3. synced \in Catalogue!Libraries /\ synced.default = s2.default /\ s2.default \in VersionNames \cup {Nil}
  BY SyncTypes DEF Catalogue!Libraries
<1> HIDE DEF synced, new
<1>4. s1' \in [Catalogue!Rows -> Catalogue!Versions \cup {Nil}] /\ s1'[row] = new
  BY <1>1, <1>2
<1>5. CASE Catalogue!ShouldPromoteDefaultVersion(s1', row)
  <2>1. s2' = [synced EXCEPT !.default = n]
    BY <1>2, <1>5
  <2>2. s2' \in Catalogue!Libraries /\ s2'.default = n
    BY <1>3, <2>1, SyncTypes
  <2>3. row \in Catalogue!Row(s2.default)'
    BY <1>1, <1>4, <2>2 DEF Catalogue!Row, Catalogue!Named
  <2> QED BY <1>4, <2>2, <2>3
<1>6. CASE ~Catalogue!ShouldPromoteDefaultVersion(s1', row)
  <2>1. s2' = [synced EXCEPT !.default = s2.default]
    BY <1>2, <1>3, <1>6
  <2>2. s2' \in Catalogue!Libraries /\ s2'.default = s2.default
    BY <1>3, <2>1, SyncTypes
  <2>3. Catalogue!Named(s1', s2.default) # {}
    BY <1>6 DEF Catalogue!ShouldPromoteDefaultVersion
  <2> QED BY <1>4, <2>2, <2>3 DEF Catalogue!Row
<1> QED BY <1>5, <1>6

LEMMA ReachesTypes ==
    ASSUME Catalogue!Inductive, s4 # Nil, Catalogue!Reaches
    PROVE  /\ s1' \in [Catalogue!Rows -> Catalogue!Versions \cup {Nil}] /\ s2' \in Catalogue!Libraries
<1> USE LibraryTypes
<1>1. /\ s1' = Catalogue!AfterSave(s4).rows /\ s2' = Catalogue!AfterSave(s4).library
  BY DEF Catalogue!Reaches
<1>2. /\ s4.act \in {"default", "rename", "delete", "edit"}
      /\ s4.act \in {"default", "rename"} => s4.arg \in VersionNames
      /\ s4.act = "edit" => s4.arg \in Catalogue!Libraries
  BY DEF Catalogue!Inductive, Catalogue!SaveOK
<1>3. CASE s4.act = "default"
  <2>1. s1' = s1 /\ s2' \in {s2, [s2 EXCEPT !.default = s4.arg]}
    BY <1>1, <1>3 DEF Catalogue!AfterSave
  <2> QED BY <1>2, <1>3, <2>1, SyncTypes
<1>4. CASE s4.act = "rename"
  <2> DEFINE new == [s1[s4.row] EXCEPT !.name = s4.arg]
  <2> DEFINE rows == IF s4.row \in Catalogue!Live /\ Catalogue!Row(s4.arg) = {}
                     THEN [s1 EXCEPT ![s4.row] = new] ELSE s1
  <2>1. Catalogue!AfterSave(s4) = [rows |-> rows, library |-> s2]
    BY <1>4 DEF Catalogue!AfterSave
  <2>2. s1' = rows /\ s2' = s2
    <3> HIDE DEF rows
    <3> QED BY <1>1, <2>1
  <2>3. s2' = s2 /\ (s1' = s1 \/ (s4.row \in Catalogue!Live /\ s1' = [s1 EXCEPT ![s4.row] = new]))
    <3> HIDE DEF new
    <3> QED BY <2>2
  <2>4. s4.row \in Catalogue!Live => new \in Catalogue!Versions
    BY <1>2, <1>4 DEF Catalogue!Live, Catalogue!Versions
  <2> HIDE DEF new
  <2> QED BY <2>3, <2>4
<1>5. CASE s4.act = "delete"
  <2>1. s2' = s2 /\ s1' = [s1 EXCEPT ![s4.row] = Nil]
    BY <1>1, <1>5 DEF Catalogue!AfterSave
  <2> QED BY <2>1
<1>6. CASE s4.act = "edit"
  BY <1>1, <1>2, <1>6 DEF Catalogue!AfterSave
<1> QED BY <1>2, <1>3, <1>4, <1>5, <1>6

\* A step of the catalogue or of the administrator.
LEMMA LibraryQuiet ==
    ASSUME Catalogue!Inductive, UNCHANGED <<s5, s6>>,
           s1' \in [Catalogue!Rows -> Catalogue!Versions \cup {Nil}], s2' \in Catalogue!Libraries,
           s3' \in [view : {"show", "edit"}, rows : [Catalogue!Rows -> Catalogue!Versions \cup {Nil}],
                   library : Catalogue!Libraries, dialog : Catalogue!Dialogs \cup {Nil}],
           Catalogue!SaveOK'
    PROVE  Catalogue!Inductive'
<1>1. Catalogue!TypeOK'
  BY DEF Catalogue!Inductive, Catalogue!TypeOK
<1>2. Catalogue!PagesOfSearch'
  BY DEF Catalogue!Inductive, Catalogue!PagesOfSearch, Catalogue!Shows
<1>3. (s6 # Nil /\ s6.page > 1 => s6.turned = s6.search)'
  BY DEF Catalogue!Inductive
<1> QED BY <1>1, <1>2, <1>3 DEF Catalogue!Inductive

\* The administrator's page: its types, and those of a save that is sent.
LEMMA GivesUpLibrary ==
    ASSUME Catalogue!Inductive, Catalogue!GivesUp
    PROVE  /\ s1' \in [Catalogue!Rows -> Catalogue!Versions \cup {Nil}] /\ s2' \in Catalogue!Libraries
BY LibraryTypes, ReachesTypes DEF Catalogue!GivesUp

LEMMA AdminTypes ==
    ASSUME Catalogue!Inductive, NEW dialog \in Catalogue!Dialogs \cup {Nil}
    PROVE  /\ [s3 EXCEPT !.dialog = dialog] \in
                [view : {"show", "edit"}, rows : [Catalogue!Rows -> Catalogue!Versions \cup {Nil}],
                 library : Catalogue!Libraries, dialog : Catalogue!Dialogs \cup {Nil}]
           /\ s3 \in
                [view : {"show", "edit"}, rows : [Catalogue!Rows -> Catalogue!Versions \cup {Nil}],
                 library : Catalogue!Libraries, dialog : Catalogue!Dialogs \cup {Nil}]
           /\ Catalogue!DialogAfter \in Catalogue!Dialogs \cup {Nil}
BY DEF Catalogue!Inductive, Catalogue!TypeOK, Catalogue!DialogAfter

LEMMA LibrarySaves ==
    ASSUME Catalogue!Inductive, NEW act \in {"default", "rename", "delete", "edit"}, NEW row, NEW arg,
           act \in {"default", "rename"} => arg \in VersionNames,
           act = "edit" => arg \in Catalogue!Libraries,
           Catalogue!Saves(act, row, arg)
    PROVE  Catalogue!Inductive'
<1>1. /\ s4' = [act |-> act, row |-> row, arg |-> arg] /\ Catalogue!GivesUp
      /\ s3' = [s3 EXCEPT !.dialog = Catalogue!DialogAfter] /\ UNCHANGED <<s5, s6>>
  BY DEF Catalogue!Saves
<1>2. Catalogue!SaveOK'
  BY <1>1 DEF Catalogue!SaveOK
<1> QED BY <1>1, <1>2, GivesUpLibrary, AdminTypes, LibraryQuiet

LEMMA LibraryAdministered ==
    ASSUME Catalogue!Inductive,
           \/ \E n \in VersionNames, c \in Counts, h \in {Nil, "crawled"} : Catalogue!Import(n, c, h)
           \/ \E view \in {"show", "edit"} : Catalogue!Open(view)
           \/ \E r \in Catalogue!Rows : \/ Catalogue!HandleSetDefault(r) \/ Catalogue!DeletePage(r)
                                       \/ \E act \in {"rename", "delete"} : Catalogue!OpenRowDialog(r, act)
           \/ \E n \in VersionNames : Catalogue!HandleRename(n)
           \/ Catalogue!CloseRowDialog \/ Catalogue!HandleDelete \/ Catalogue!Saved \/ Catalogue!SaveFails
           \/ \E h \in {Nil, "curated"}, a \in {{}, {"crawled"}}, d \in VersionNames \cup {Nil} :
                Catalogue!HandleSubmit("curated", h, a, d)
    PROVE  Catalogue!Inductive'
<1> USE LibraryTypes
<1>1. /\ s4' = s4 => Catalogue!SaveOK'
      /\ s4' = Nil => Catalogue!SaveOK'
  BY DEF Catalogue!Inductive, Catalogue!SaveOK
<1>2. /\ Nil \in Catalogue!Dialogs \cup {Nil}
  OBVIOUS
<1>3. ASSUME NEW n \in VersionNames, NEW c \in Counts, NEW h \in {Nil, "crawled"}, Catalogue!Import(n, c, h)
      PROVE  Catalogue!Inductive'
  <2>1. UNCHANGED <<s3, s4, s5, s6>>
    BY <1>3 DEF Catalogue!Import
  <2>2. s1' \in [Catalogue!Rows -> Catalogue!Versions \cup {Nil}] /\ s2' \in Catalogue!Libraries
    BY <1>3, ImportTypes
  <2>3. s3' \in [view : {"show", "edit"}, rows : [Catalogue!Rows -> Catalogue!Versions \cup {Nil}],
                library : Catalogue!Libraries, dialog : Catalogue!Dialogs \cup {Nil}]
    BY <2>1 DEF Catalogue!Inductive, Catalogue!TypeOK
  <2>4. Catalogue!SaveOK'
    BY <1>1, <2>1
  <2> QED BY <2>1, <2>2, <2>3, <2>4, LibraryQuiet
<1>4. ASSUME NEW view \in {"show", "edit"}, Catalogue!Open(view) PROVE Catalogue!Inductive'
  <2>1. /\ Catalogue!GivesUp /\ s4' = Nil /\ UNCHANGED <<s5, s6>>
        /\ s3' = [view |-> view, rows |-> s1', library |-> s2', dialog |-> Nil]
    BY <1>4 DEF Catalogue!Open, Catalogue!Props
  <2>2. s1' \in [Catalogue!Rows -> Catalogue!Versions \cup {Nil}] /\ s2' \in Catalogue!Libraries
    BY <2>1, GivesUpLibrary
  <2> QED BY <1>1, <2>1, <2>2, LibraryQuiet
<1>5. ASSUME NEW r \in Catalogue!Rows, Catalogue!HandleSetDefault(r) PROVE Catalogue!Inductive'
  <2>1. s3.rows[r].name \in VersionNames
    BY <1>5 DEF Catalogue!HandleSetDefault, Catalogue!Listed, Catalogue!Versions
  <2> QED BY <1>5, <2>1, LibrarySaves DEF Catalogue!HandleSetDefault
<1>6. ASSUME NEW r \in Catalogue!Rows, Catalogue!DeletePage(r) PROVE Catalogue!Inductive'
  <2> DEFINE new == [s1[r] EXCEPT !.pages = s1[r].pages - 1]
  <2>1. /\ UNCHANGED <<s2, s3, s4, s5, s6>>
        /\ s1[r] \in Catalogue!Versions /\ s1[r].pages > 0
    <3>1. /\ UNCHANGED <<s2, s3, s4, s5, s6>> /\ s1[r] # Nil /\ s1[r].pages > 0
      BY <1>6 DEF Catalogue!DeletePage, Catalogue!Live
    <3> QED BY <3>1
  <2>4. s1' = [s1 EXCEPT ![r] = new]
    BY <1>6 DEF Catalogue!DeletePage
  <2>2. new \in Catalogue!Versions
    BY <2>1 DEF Catalogue!Versions
  <2> HIDE DEF new
  <2>3. s1' \in [Catalogue!Rows -> Catalogue!Versions \cup {Nil}]
    BY <2>4, <2>2
  <2>5. s3' \in [view : {"show", "edit"}, rows : [Catalogue!Rows -> Catalogue!Versions \cup {Nil}],
                library : Catalogue!Libraries, dialog : Catalogue!Dialogs \cup {Nil}]
    BY <2>1 DEF Catalogue!Inductive, Catalogue!TypeOK
  <2> QED BY <1>1, <2>1, <2>3, <2>5, LibraryQuiet
<1>7. ASSUME NEW r \in Catalogue!Rows, NEW act \in {"rename", "delete"}, Catalogue!OpenRowDialog(r, act)
      PROVE  Catalogue!Inductive'
  <2> DEFINE dialog == [act |-> act, row |-> r]
  <2>1. dialog \in Catalogue!Dialogs \cup {Nil}
    BY DEF Catalogue!Dialogs
  <2>2. s3' = [s3 EXCEPT !.dialog = dialog] /\ UNCHANGED <<s1, s2, s4, s5, s6>>
    BY <1>7 DEF Catalogue!OpenRowDialog
  <2> HIDE DEF dialog
  <2> QED BY <1>1, <2>1, <2>2, AdminTypes, LibraryQuiet
<1>8. ASSUME NEW n \in VersionNames, Catalogue!HandleRename(n) PROVE Catalogue!Inductive'
  BY <1>8, LibrarySaves DEF Catalogue!HandleRename
<1>9. CASE Catalogue!CloseRowDialog
  BY <1>1, <1>2, <1>9, AdminTypes, LibraryQuiet DEF Catalogue!CloseRowDialog
<1>10. CASE Catalogue!HandleDelete
  BY <1>10, LibrarySaves DEF Catalogue!HandleDelete
<1>11. CASE Catalogue!Saved
  <2> DEFINE dialog == IF Catalogue!DialogAfter # Nil /\ s1'[Catalogue!DialogAfter.row] = Nil
                       THEN Nil ELSE Catalogue!DialogAfter
  <2>1. /\ s4 # Nil /\ Catalogue!Reaches /\ s4' = Nil /\ UNCHANGED <<s5, s6>>
        /\ s3' = [view |-> "show", rows |-> s1', library |-> s2', dialog |-> dialog]
    BY <1>11 DEF Catalogue!Saved, Catalogue!Props
  <2>2. dialog \in Catalogue!Dialogs \cup {Nil}
    BY <1>2, AdminTypes
  <2>3. s1' \in [Catalogue!Rows -> Catalogue!Versions \cup {Nil}] /\ s2' \in Catalogue!Libraries
    BY <2>1, ReachesTypes
  <2> HIDE DEF dialog
  <2> QED BY <1>1, <2>1, <2>2, <2>3, LibraryQuiet
<1>12. CASE Catalogue!SaveFails
  BY <1>1, <1>2, <1>12, AdminTypes, LibraryQuiet DEF Catalogue!SaveFails
<1>13. ASSUME NEW h \in {Nil, "curated"}, NEW a \in {{}, {"crawled"}}, NEW d \in VersionNames \cup {Nil},
              Catalogue!HandleSubmit("curated", h, a, d)
       PROVE  Catalogue!Inductive'
  <2> DEFINE saved == [name |-> "curated", homepage |-> h, aliases |-> a, default |-> d, locked |-> TRUE]
  <2>1. saved \in Catalogue!Libraries
    BY DEF Catalogue!Libraries
  <2>2. Catalogue!Saves("edit", Nil, saved)
    BY <1>13 DEF Catalogue!HandleSubmit
  <2> HIDE DEF saved
  <2> QED BY <2>1, <2>2, LibrarySaves
<1> QED BY <1>3, <1>4, <1>5, <1>6, <1>7, <1>8, <1>9, <1>10, <1>11, <1>12, <1>13

\* What the server answers a reader, and what a reader asks.
LEMMA ReplyTypes ==
    ASSUME s1 \in [Catalogue!Rows -> Catalogue!Versions \cup {Nil}], NEW a, a.page \in Nat \ {0}, a.search \in Catalogue!Searches,
           NEW more \in BOOLEAN
    PROVE  /\ Catalogue!Reply(a, more) \in Catalogue!Replies
           /\ Catalogue!Reply(a, more).search = a.search
<1> DEFINE r == Catalogue!BestVersion(a.version)
           total == IF r = Nil THEN 0 ELSE s1[r].pages
           name == IF r = Nil THEN Nil ELSE s1[r].name
           counted == IF a.search = Nil THEN total ELSE Nil
           further == a.page < total /\ (a.search = Nil \/ more)
<1>1. Catalogue!Reply(a, more) = [version |-> name, page |-> a.page, search |-> a.search, total |-> counted, next |-> further]
  BY DEF Catalogue!Reply
<1>2. total \in Nat /\ name \in VersionNames \cup {Nil}
  <2>1. CASE Catalogue!Live = {}
    <3>1. r = Nil
      BY <2>1 DEF Catalogue!BestVersion
    <3> QED BY <3>1
  <2>2. CASE Catalogue!Live # {}
    <3>1. r \in Catalogue!Live
      BY <2>2, BestVersionTypes
    <3> HIDE DEF r
    <3>2. s1[r] \in Catalogue!Versions
      BY <3>1 DEF Catalogue!Live
    <3> QED BY <3>2 DEF Catalogue!Versions
  <2> QED BY <2>1, <2>2
<1>3. counted \in Nat \cup {Nil} /\ further \in BOOLEAN
  BY <1>2
<1> HIDE DEF name, counted, further
<1> QED BY <1>1, <1>2, <1>3 DEF Catalogue!Replies

\* A step of the reader.
LEMMA LibraryRead ==
    ASSUME Catalogue!Inductive, UNCHANGED <<s1, s2, s3, s4>>,
           s5' \in [props : Catalogue!Replies, box : Catalogue!Searches,
                   turned : {Nil} \cup {<<text>> : text \in Catalogue!Searches}],
           s5'.turned # Nil => <<s5'.props.search>> = s5'.turned,
           s6' # Nil => s6' \in Catalogue!Questions /\ (s6'.page > 1 => s6'.turned = s6'.search)
    PROVE  Catalogue!Inductive'
<1>1. Catalogue!TypeOK'
  BY DEF Catalogue!Inductive, Catalogue!TypeOK
<1>2. Catalogue!PagesOfSearch'
  BY DEF Catalogue!PagesOfSearch, Catalogue!Shows
<1>3. Catalogue!SaveOK'
  BY DEF Catalogue!Inductive, Catalogue!SaveOK
<1> QED BY <1>1, <1>2, <1>3 DEF Catalogue!Inductive

LEMMA LibraryAsks ==
    ASSUME Catalogue!Inductive, NEW version \in VersionNames \cup {Nil}, NEW page \in Nat \ {0},
           NEW search \in Catalogue!Searches, NEW turned \in Catalogue!Searches,
           page > 1 => turned = search,
           Catalogue!Asks(version, page, search, turned),
           s5' = s5 \/ s5' = [s5 EXCEPT !.box = Nil]
    PROVE  Catalogue!Inductive'
<1>1. s6' = [version |-> version, page |-> page, search |-> search, turned |-> turned] /\ UNCHANGED <<s1, s2, s3, s4>>
  BY DEF Catalogue!Asks
<1>2. s6' \in Catalogue!Questions /\ (s6'.page > 1 => s6'.turned = s6'.search)
  BY <1>1 DEF Catalogue!Questions
<1>3. s5' \in [props : Catalogue!Replies, box : Catalogue!Searches,
              turned : {Nil} \cup {<<text>> : text \in Catalogue!Searches}]
  BY DEF Catalogue!Inductive, Catalogue!TypeOK, Catalogue!Searches
<1>4. s5'.turned # Nil => <<s5'.props.search>> = s5'.turned
  BY DEF Catalogue!Inductive, Catalogue!TypeOK, Catalogue!PagesOfSearch, Catalogue!Shows
<1> QED BY <1>1, <1>2, <1>3, <1>4, LibraryRead

\* A page that the footer offers is a page.
LEMMA PagesOfferedTypes ==
    ASSUME Catalogue!Inductive, NEW p \in Catalogue!PagesOffered
    PROVE  p \in Nat \ {0}
<1>1. s5.props.page \in Nat \ {0} /\ s5.props.total \in Nat \cup {Nil}
  BY LibraryTypes DEF Catalogue!Replies
<1>2. CASE p \in Catalogue!PageNumbers
  <2> DEFINE numbers == Catalogue!GetPageRange(s5.props.page, s5.props.total)
  <2>1. s5.props.total # Nil /\ p # -1 /\ p \in Catalogue!Range(numbers)
    BY <1>2 DEF Catalogue!PageNumbers, Catalogue!Shows, Catalogue!Dots
  <2>2. /\ numbers \in Seq(Int)
        /\ \A i \in 1..Len(numbers) : numbers[i] = -1 \/ numbers[i] \in Nat \ {0}
    <3>1. s5.props.page \in Nat \ {0} /\ s5.props.total \in Nat
      BY <1>1, <2>1
    <3> QED BY <3>1, PageRangeLeads
  <2>3. \E i \in 1..Len(numbers) : numbers[i] = p
    <3> HIDE DEF numbers
    <3> QED BY <2>1, <2>2 DEF Catalogue!Range
  <2> HIDE DEF numbers
  <2> QED BY <2>1, <2>2, <2>3
<1>3. CASE p \notin Catalogue!PageNumbers
  BY <1>1, <1>3 DEF Catalogue!PagesOffered, Catalogue!Shows
<1> QED BY <1>2, <1>3

LEMMA LibraryReads ==
    ASSUME Catalogue!Inductive,
           \/ \E n \in VersionNames : Catalogue!SwitchVersion(n)
           \/ Catalogue!OpenLibrary \/ Catalogue!HandleSearch \/ Catalogue!ClearSearch \/ Catalogue!ReaderFails
           \/ \E p \in Catalogue!PagesOffered : Catalogue!GoToPage(p)
           \/ \E text \in {Nil, "q"} : Catalogue!TypeSearch(text)
           \/ \E more \in BOOLEAN : Catalogue!AnswerReader(more)
    PROVE  Catalogue!Inductive'
<1>1. /\ Nil \in Catalogue!Searches /\ s5.box \in Catalogue!Searches /\ s5.props.search \in Catalogue!Searches
      /\ s5.props.version \in VersionNames \cup {Nil}
  BY LibraryTypes DEF Catalogue!Searches, Catalogue!Replies
<1>2. /\ s5 \in [props : Catalogue!Replies, box : Catalogue!Searches,
                 turned : {Nil} \cup {<<text>> : text \in Catalogue!Searches}]
      /\ s5.turned # Nil => <<s5.props.search>> = s5.turned
      /\ s6 # Nil => s6 \in Catalogue!Questions /\ (s6.page > 1 => s6.turned = s6.search)
  BY DEF Catalogue!Inductive, Catalogue!TypeOK, Catalogue!PagesOfSearch, Catalogue!Shows
<1>3. ASSUME NEW n \in VersionNames, Catalogue!SwitchVersion(n) PROVE Catalogue!Inductive'
  BY <1>1, <1>3, LibraryAsks DEF Catalogue!SwitchVersion
<1>4. CASE Catalogue!OpenLibrary
  <2> DEFINE fresh == [version |-> Nil, page |-> 1, search |-> Nil]
             props == Catalogue!Reply(fresh, FALSE)
  <2>1. /\ s5' = [props |-> props, box |-> Nil, turned |-> Nil] /\ s6' = Nil /\ UNCHANGED <<s1, s2, s3, s4>>
    BY <1>4 DEF Catalogue!OpenLibrary, Catalogue!Shown, Catalogue!Fresh
  <2>2. props \in Catalogue!Replies
    <3>1. fresh.page \in Nat \ {0} /\ fresh.search \in Catalogue!Searches /\ FALSE \in BOOLEAN
      BY <1>1
    <3> HIDE DEF fresh
    <3> QED BY <3>1, LibraryTypes, ReplyTypes
  <2> HIDE DEF fresh, props
  <2> QED BY <1>1, <2>1, <2>2, LibraryRead
<1>5. CASE Catalogue!HandleSearch
  BY <1>1, <1>5, LibraryAsks DEF Catalogue!HandleSearch, Catalogue!Shows
<1>6. CASE Catalogue!ClearSearch
  BY <1>1, <1>6, LibraryAsks DEF Catalogue!ClearSearch, Catalogue!Shows
<1>7. CASE Catalogue!ReaderFails
  BY <1>2, <1>7, LibraryRead DEF Catalogue!ReaderFails
<1>8. ASSUME NEW p \in Catalogue!PagesOffered, Catalogue!GoToPage(p) PROVE Catalogue!Inductive'
  <2>1. Catalogue!Asks(s5.props.version, p, s5.props.search, s5.props.search) /\ s5' = s5
    BY <1>8 DEF Catalogue!GoToPage, Catalogue!PageParams, Catalogue!Shows
  <2>2. p \in Nat \ {0}
    BY PagesOfferedTypes
  <2> QED BY <1>1, <2>1, <2>2, LibraryAsks
<1>9. ASSUME NEW text \in {Nil, "q"}, Catalogue!TypeSearch(text) PROVE Catalogue!Inductive'
  <2>1. s5' = [s5 EXCEPT !.box = text] /\ UNCHANGED <<s1, s2, s3, s4, s6>> /\ text \in Catalogue!Searches
    BY <1>9 DEF Catalogue!TypeSearch, Catalogue!Searches
  <2>2. /\ s5' \in [props : Catalogue!Replies, box : Catalogue!Searches,
                   turned : {Nil} \cup {<<x>> : x \in Catalogue!Searches}]
        /\ s5'.turned = s5.turned /\ s5'.props = s5.props
    BY <1>2, <2>1
  <2> QED BY <1>2, <2>1, <2>2, LibraryRead
<1>10. ASSUME NEW more \in BOOLEAN, Catalogue!AnswerReader(more) PROVE Catalogue!Inductive'
  <2> DEFINE props == Catalogue!Reply(s6, more)
             turned == IF s6.page > 1 THEN <<s6.turned>> ELSE Nil
  <2>1. /\ s6 # Nil /\ s6' = Nil /\ UNCHANGED <<s1, s2, s3, s4>>
        /\ s5' = [props |-> props, box |-> s5.box, turned |-> turned]
    BY <1>10 DEF Catalogue!AnswerReader, Catalogue!Shown
  <2>2. /\ s6.page \in Nat \ {0} /\ s6.search \in Catalogue!Searches /\ s6.turned \in Catalogue!Searches
        /\ s6.page > 1 => s6.turned = s6.search
    BY <1>2, <2>1 DEF Catalogue!Questions
  <2>3. props \in Catalogue!Replies /\ props.search = s6.search
    BY <2>2, LibraryTypes, ReplyTypes
  <2>4. /\ turned \in {Nil} \cup {<<x>> : x \in Catalogue!Searches}
        /\ turned # Nil => turned = <<s6.search>>
    BY <2>2
  <2> HIDE DEF props, turned
  <2> QED BY <1>1, <2>1, <2>3, <2>4, LibraryRead
<1> QED BY <1>3, <1>4, <1>5, <1>6, <1>7, <1>8, <1>9, <1>10

LEMMA LibraryStep == Catalogue!Inductive /\ Catalogue!Next => Catalogue!Inductive'
BY LibraryAdministered, LibraryReads, Zenon DEF Catalogue!Next

LEMMA LibraryStutters ==
    ASSUME Catalogue!Inductive, UNCHANGED <<s1, s2, s3, s4, s5, s6>>
    PROVE  Catalogue!Inductive'
<1>1. /\ Catalogue!TypeOK' /\ Catalogue!SaveOK' /\ Catalogue!PagesOfSearch'
  BY DEF Catalogue!Inductive, Catalogue!TypeOK, Catalogue!SaveOK, Catalogue!PagesOfSearch, Catalogue!Shows
<1> QED BY <1>1 DEF Catalogue!Inductive

LEMMA LibraryStart == Catalogue!Init => Catalogue!Inductive
<1> SUFFICES ASSUME Catalogue!Init PROVE Catalogue!Inductive
  OBVIOUS
<1>1. s1 \in [Catalogue!Rows -> Catalogue!Versions \cup {Nil}]
  <2>1. CASE s1 = [r \in Catalogue!Rows |-> Nil]
    BY <2>1
  <2>2. CASE \E n \in VersionNames, c \in Counts :
               s1 = [r \in Catalogue!Rows |->
                       IF r = 1 THEN [name |-> n, channel |-> ChannelFor[n], pages |-> c] ELSE Nil]
    <3>1. PICK n \in VersionNames, c \in Counts :
            s1 = [r \in Catalogue!Rows |->
                    IF r = 1 THEN [name |-> n, channel |-> ChannelFor[n], pages |-> c] ELSE Nil]
      BY <2>2
    <3>2. [name |-> n, channel |-> ChannelFor[n], pages |-> c] \in Catalogue!Versions
      BY PagesAssumption DEF Catalogue!CatalogueAssumption, Catalogue!Versions
    <3> QED BY <3>1, <3>2
  <2> QED BY <2>1, <2>2 DEF Catalogue!Init
<1>2. s2 = [default |-> IF Catalogue!Live = {} THEN Nil ELSE s1[1].name, name |-> "crawled", homepage |-> Nil,
            aliases |-> {"crawled"}, locked |-> FALSE]
  BY DEF Catalogue!Init
<1>3. (IF Catalogue!Live = {} THEN Nil ELSE s1[1].name) \in VersionNames \cup {Nil}
  BY <1>1 DEF Catalogue!Init, Catalogue!Live
<1>4. s2 \in Catalogue!Libraries
  BY <1>2, <1>3 DEF Catalogue!Libraries
<1>5. s3 = [view |-> "show", rows |-> s1, library |-> s2, dialog |-> Nil] /\ s4 = Nil /\ s6 = Nil
  BY DEF Catalogue!Init, Catalogue!Props
<1>6. s3 \in [view : {"show", "edit"}, rows : [Catalogue!Rows -> Catalogue!Versions \cup {Nil}], library : Catalogue!Libraries,
              dialog : Catalogue!Dialogs \cup {Nil}]
  BY <1>1, <1>4, <1>5
<1>7. s5 = [props |-> Catalogue!Reply(Catalogue!Fresh, FALSE), box |-> Nil, turned |-> Nil]
  BY DEF Catalogue!Init, Catalogue!Shown
<1>8. Catalogue!Reply(Catalogue!Fresh, FALSE) \in Catalogue!Replies
  <2>1. Catalogue!Fresh.page \in Nat \ {0} /\ Catalogue!Fresh.search = Nil /\ Nil \in Catalogue!Searches
    BY DEF Catalogue!Fresh, Catalogue!Searches
  <2> QED BY <1>1, <2>1, ReplyTypes
<1>9. s5 \in [props : Catalogue!Replies, box : Catalogue!Searches,
             turned : {Nil} \cup {<<text>> : text \in Catalogue!Searches}]
  BY <1>7, <1>8 DEF Catalogue!Searches
<1>10. Catalogue!TypeOK
  BY <1>1, <1>4, <1>5, <1>6, <1>9 DEF Catalogue!TypeOK
<1>11. Catalogue!SaveOK /\ Catalogue!PagesOfSearch
  BY <1>5, <1>7 DEF Catalogue!SaveOK, Catalogue!PagesOfSearch
<1> QED BY <1>5, <1>10, <1>11 DEF Catalogue!Inductive

\* Served pages, and numbers that lead everywhere, follow from the types.
LEMMA LibraryHolds ==
    ASSUME Catalogue!Inductive
    PROVE  Catalogue!ServedHasPages /\ Catalogue!NumbersReachAll /\ Catalogue!PagesOfSearch
<1> USE LibraryTypes
<1>1. Catalogue!ServedHasPages
  <2> SUFFICES ASSUME \E r \in Catalogue!Live : s1[r].pages > 0
               PROVE  s1[Catalogue!BestVersion(Nil)].pages > 0
    BY DEF Catalogue!ServedHasPages
  <2>1. Catalogue!Row(Nil) = {}
    BY DEF Catalogue!Row, Catalogue!Named, Catalogue!Versions
  <2> QED BY <2>1, BestVersionTypes
<1>2. Catalogue!NumbersReachAll
  <2> DEFINE current == s5.props.page
             total == s5.props.total
             numbers == Catalogue!GetPageRange(current, total)
  <2> SUFFICES ASSUME total # Nil, current <= total
               PROVE  /\ {1, total} \cup {p \in current - 1 .. current + 1 : p \in 1..total} \subseteq Catalogue!Range(numbers)
                      /\ \A i \in 2..(Len(numbers) - 1) : numbers[i] = -1 => numbers[i + 1] - numbers[i - 1] > 2
    BY DEF Catalogue!NumbersReachAll, Catalogue!Shows, Catalogue!Dots
  <2>1. current \in Nat \ {0} /\ total \in Nat
    BY DEF Catalogue!Replies
  <2>2. numbers \in Seq(Int) /\ LeadEverywhere(current, total, numbers)
    <3>1. numbers = Catalogue!GetPageRange(current, total)
      OBVIOUS
    <3> HIDE DEF current, total, numbers
    <3>2. current <= total
      OBVIOUS
    <3> QED BY ONLY <2>1, <3>1, <3>2, PageRangeLeads, SMTT(60)
  <2> HIDE DEF current, total, numbers
  <2>3. \A p \in {1, total} \cup {p \in current - 1 .. current + 1 : p \in 1..total} : p \in Catalogue!Range(numbers)
    <3>1. DOMAIN numbers = 1..Len(numbers)
      BY <2>2
    <3> QED BY <2>2, <3>1 DEF Catalogue!Range, LeadEverywhere
  <2> QED BY <2>2, <2>3 DEF LeadEverywhere
<1> QED BY <1>1, <1>2 DEF Catalogue!Inductive

\* An import leaves the library with a default that is one of its versions.
LEMMA LibraryHeals == Catalogue!Inductive => Catalogue!DefaultHealed
BY LibraryTypes, ImportTypes DEF Catalogue!DefaultHealed

-----------------------------------------------------------------------------
(* The live view.                                                              *)

\* A step leaves the selection, the panel or the search alone.
LEMMA LiveStays ==
    ASSUME Live!Inductive
    PROVE  /\ UNCHANGED <<s5, s6, s7, s8, s9, s10>> => Live!Closed'
           /\ UNCHANGED <<s11, s12, s13, s15>> => Live!Away'
           /\ UNCHANGED <<s16, s17, s18, s20, s21>> => Live!Sought'
<1>1. UNCHANGED <<s5, s6, s7, s8, s9, s10>> => Live!Closed'
  BY DEF Live!Inductive, Live!Closed, Live!ClosedStaysClosed
<1>2. UNCHANGED <<s11, s12, s13, s15>> => Live!Away'
  BY DEF Live!Inductive, Live!Away
<1>3. UNCHANGED <<s16, s17, s18, s20, s21>> => Live!Sought'
  BY DEF Live!Inductive, Live!Sought, Live!ShouldSearch
<1> QED BY <1>1, <1>2, <1>3

\* The effect of the panel asks for a frame only when its list is not in view.
LEMMA EffectStaysAway ==
    ASSUME Live!Away, NEW n, NEW bottom, NEW shut, NEW hinted,
           hinted => ~bottom \/ shut,
           Live!PanelEffect(n, bottom, shut, hinted)
    PROVE  Live!Away'
<1>1. s11' = bottom /\ s12' = shut /\ s13' = hinted
  BY DEF Live!PanelEffect
<1>2. CASE n # s14 \/ bottom # s11 \/ shut # s12
  <2>1. s15' = (n > s14 /\ ~(bottom /\ ~shut))
    BY <1>2 DEF Live!PanelEffect, Live!FrameAfter
  <2> QED BY <1>1, <2>1 DEF Live!Away
<1>3. CASE ~(n # s14 \/ bottom # s11 \/ shut # s12)
  <2>1. s15' = s15
    BY <1>3 DEF Live!PanelEffect
  <2> QED BY <1>1, <1>3, <2>1 DEF Live!Away
<1> QED BY <1>2, <1>3

LEMMA EventsStayAway ==
    ASSUME Live!Inductive, NEW f, NEW s, Live!EventsShown(f, s)
    PROVE  Live!Away'
<1>1. Live!PanelEffect(Len(Live!VisibleEvents(f, s)), s11, s12, s13)
  BY DEF Live!EventsShown
<1>2. s13 => ~s11 \/ s12
  BY DEF Live!Inductive, Live!Away
<1> QED BY <1>1, <1>2, EffectStaysAway DEF Live!Inductive

\* The panel of events.
LEMMA LivePanel ==
    ASSUME Live!Inductive,
           \/ Live!FrameRuns \/ Live!ToggleCollapsed \/ Live!FollowHint
           \/ \E bottom \in BOOLEAN : Live!Scroll(bottom)
    PROVE  Live!Inductive'
<1>1. UNCHANGED <<s5, s6, s7, s8, s9, s10>> /\ UNCHANGED <<s16, s17, s18, s20, s21>>
  BY DEF Live!FrameRuns, Live!ToggleCollapsed, Live!FollowHint, Live!Scroll, Live!selectionVars, Live!searchVars
<1>2. ASSUME Live!FrameRuns PROVE Live!Away'
  BY <1>2 DEF Live!Inductive, Live!FrameRuns, Live!Away
<1>3. ASSUME Live!ToggleCollapsed PROVE Live!Away'
  <2>1. Live!PanelEffect(s14, s11, ~s12, FALSE)
    BY <1>3 DEF Live!ToggleCollapsed
  <2> QED BY <2>1, EffectStaysAway DEF Live!Inductive
<1>4. ASSUME Live!FollowHint PROVE Live!Away'
  <2>1. Live!PanelEffect(s14, IF s12 THEN s11 ELSE TRUE, FALSE, FALSE)
    BY <1>4 DEF Live!FollowHint
  <2> QED BY <2>1, EffectStaysAway DEF Live!Inductive
<1>5. ASSUME NEW bottom \in BOOLEAN, Live!Scroll(bottom) PROVE Live!Away'
  <2> DEFINE hinted == IF bottom THEN FALSE ELSE s13
  <2>1. Live!PanelEffect(s14, bottom, s12, hinted)
    BY <1>5 DEF Live!Scroll
  <2>2. hinted => ~bottom \/ s12
    OBVIOUS
  <2> HIDE DEF hinted
  <2> QED BY <2>1, <2>2, EffectStaysAway DEF Live!Inductive
<1>6. Live!Away'
  BY <1>2, <1>3, <1>4, <1>5
<1> QED BY <1>1, <1>6, LiveStays DEF Live!Inductive

\* The subscription.
LEMMA LiveReceives ==
    ASSUME Live!Inductive,
           Live!Received \/ \E status \in {"connected", "disconnected"} : Live!Connect(status)
    PROVE  Live!Inductive'
<1>1. UNCHANGED <<s5, s6, s7, s8, s9, s10>> /\ UNCHANGED <<s16, s17, s18, s20, s21>>
  BY DEF Live!Received, Live!Connect, Live!selectionVars, Live!searchVars
<1>2. CASE Live!Received
  <2>1. Live!EventsShown(s3', s6)
    BY <1>2 DEF Live!Received
  <2> DEFINE f == s3'
  <2>2. Live!EventsShown(f, s6)
    BY <2>1
  <2> HIDE DEF f
  <2>3. Live!Away'
    BY <2>2, EventsStayAway
  <2> QED BY <1>1, <2>3, LiveStays DEF Live!Inductive
<1>3. CASE \E status \in {"connected", "disconnected"} : Live!Connect(status)
  <2>1. UNCHANGED <<s11, s12, s13, s15>>
    BY <1>3 DEF Live!Connect, Live!panelVars
  <2> QED BY <1>1, <2>1, LiveStays DEF Live!Inductive
<1> QED BY <1>2, <1>3

\* A selection: a flight begun before it was closed is of an earlier request.
LEMMA LiveSelects ==
    ASSUME Live!Inductive,
           \/ \E s \in Live!Sessions, d \in Devices : Live!SelectActivity(s, d)
           \/ \E c \in Live!Cells \cup {Nil}, d \in Devices : Live!SelectCell(c, d)
           \/ \E s \in Live!Sessions : Live!SelectOther(s)
           \/ Live!Close
    PROVE  Live!Inductive'
<1>1. UNCHANGED <<s16, s17, s18, s20, s21>>
  BY DEF Live!SelectActivity, Live!SelectCell, Live!SelectOther, Live!Close, Live!searchVars
<1>2. ASSUME NEW s \in Live!Sessions, NEW d \in Devices, Live!SelectActivity(s, d) PROVE Live!Inductive'
  <2>1. Live!Away'
    BY <1>2, EventsStayAway DEF Live!SelectActivity
  <2>2. Live!Closed'
    <3> DEFINE flight == [request |-> s8 + 1, cell |-> CellOf[s], device |-> d]
    <3>1. /\ s8' = s8 + 1 /\ s10' = FALSE /\ s9' \subseteq s9 \cup {flight}
      BY <1>2 DEF Live!SelectActivity
    <3>2. flight.request = s8 + 1
      OBVIOUS
    <3> HIDE DEF flight
    <3> QED BY <3>1, <3>2 DEF Live!Inductive, Live!Closed, Live!ClosedStaysClosed
  <2> QED BY <1>1, <2>1, <2>2, LiveStays DEF Live!Inductive
<1>3. ASSUME NEW c \in Live!Cells \cup {Nil}, NEW d \in Devices, Live!SelectCell(c, d) PROVE Live!Inductive'
  <2>1. Live!Away'
    <3> DEFINE s == s6'
    <3>1. Live!EventsShown(s3, s)
      BY <1>3 DEF Live!SelectCell
    <3> HIDE DEF s
    <3> QED BY <3>1, EventsStayAway
  <2>2. Live!Closed'
    <3>1. s10' = FALSE /\ s9' = s9 /\ s8' = s8
      BY <1>3 DEF Live!SelectCell
    <3> QED BY <3>1 DEF Live!Inductive, Live!Closed, Live!ClosedStaysClosed
  <2> QED BY <1>1, <2>1, <2>2, LiveStays DEF Live!Inductive
<1>4. ASSUME NEW s \in Live!Sessions, Live!SelectOther(s) PROVE Live!Inductive'
  <2>1. Live!Away'
    BY <1>4, EventsStayAway DEF Live!SelectOther
  <2>2. ~s10
    <3>1. s \in Live!Range(Live!Cluster(s5))
      BY <1>4 DEF Live!SelectOther
    <3>2. s5 # Nil
      <4> SUFFICES ASSUME s5 = Nil PROVE FALSE
        OBVIOUS
      <4>1. Live!Cluster(s5) = << >>
        BY DEF Live!Cluster
      <4>2. DOMAIN << >> = {}
        OBVIOUS
      <4> QED BY <3>1, <4>1, <4>2 DEF Live!Range
    <3> QED BY <3>2 DEF Live!Inductive, Live!Closed, Live!ClosedStaysClosed
  <2>3. Live!Closed'
    <3>1. UNCHANGED <<s5, s7, s8, s9, s10>>
      BY <1>4 DEF Live!SelectOther
    <3> QED BY <2>2, <3>1 DEF Live!Inductive, Live!Closed, Live!ClosedStaysClosed
  <2> QED BY <1>1, <2>1, <2>3, LiveStays DEF Live!Inductive
<1>5. CASE Live!Close
  <2>1. Live!Away'
    BY <1>5, EventsStayAway DEF Live!Close
  <2>2. Live!Closed'
    <3>1. /\ s8' = s8 + 1 /\ s5' = Nil /\ s6' = Nil /\ s7' = Live!NoAnchors /\ s9' = s9
      BY <1>5 DEF Live!Close
    <3> QED BY <3>1 DEF Live!Inductive, Live!Closed, Live!ClosedStaysClosed, Live!NoAnchors
  <2> QED BY <1>1, <2>1, <2>2, LiveStays DEF Live!Inductive
<1> QED BY <1>2, <1>3, <1>4, <1>5

\* A flight ends, or the globe is turned.
LEMMA LiveFlies ==
    ASSUME Live!Inductive,
           Live!ChangeView \/ \E f \in s9, seen \in BOOLEAN : Live!FlightEnds(f, seen)
    PROVE  Live!Inductive'
<1>1. UNCHANGED <<s16, s17, s18, s20, s21>> /\ UNCHANGED <<s11, s12, s13, s15>>
  BY DEF Live!ChangeView, Live!FlightEnds, Live!searchVars, Live!panelVars
<1>2. CASE Live!ChangeView
  <2>1. s7' = Live!NoAnchors /\ UNCHANGED <<s5, s6, s8, s9, s10>>
    BY <1>2 DEF Live!ChangeView
  <2>2. Live!Closed'
    BY <2>1 DEF Live!Inductive, Live!Closed, Live!ClosedStaysClosed, Live!NoAnchors
  <2> QED BY <1>1, <2>2, LiveStays DEF Live!Inductive
<1>3. ASSUME NEW f \in s9, NEW seen \in BOOLEAN, Live!FlightEnds(f, seen) PROVE Live!Inductive'
  <2>1. s9' = s9 \ {f} /\ UNCHANGED <<s6, s8, s10>>
    BY <1>3 DEF Live!FlightEnds
  <2>2. s10 => s7' = Live!NoAnchors /\ s5' = s5
    <3>1. s10 => f.request # s8
      BY DEF Live!Inductive, Live!Closed
    <3> QED BY <1>3, <3>1 DEF Live!FlightEnds
  <2>3. Live!Closed'
    BY <2>1, <2>2 DEF Live!Inductive, Live!Closed, Live!ClosedStaysClosed, Live!NoAnchors
  <2> QED BY <1>1, <2>3, LiveStays DEF Live!Inductive
<1> QED BY <1>2, <1>3

\* The effect of the search: what is not aborted is for what is typed.
LEMMA EffectSeeks ==
    ASSUME Live!Inductive, NEW t \in Places, NEW v, NEW f, Live!SearchEffect(t, v, f),
           s20' \in {Nil, s20}
    PROVE  Live!Sought'
<1> DEFINE runs == t # s16 \/ Live!ShouldSearch(t, v, f) # Live!ShouldSearch(s16, s17, s18)
           stopped == {[x EXCEPT !.aborted = TRUE] : x \in {y \in s21 : y.stage = "asked"}}
           fresh == [text |-> t, stage |-> "waits", aborted |-> FALSE]
<1>1. s16' = t /\ s17' = v /\ s18' = f
  BY DEF Live!SearchEffect
<1>2. /\ s21 \subseteq [text : Places, stage : {"waits", "asked"}, aborted : BOOLEAN]
      /\ \A x \in s21 : ~x.aborted => x.text = s16
      /\ s20 \notin {Nil, s16} /\ Live!ShouldSearch(s16, s17, s18) => \E x \in s21 : ~x.aborted
  BY DEF Live!Inductive, Live!Sought
<1>3. CASE runs
  <2>1. s21' = stopped \cup (IF Live!ShouldSearch(t, v, f) THEN {fresh} ELSE {})
    BY <1>3 DEF Live!SearchEffect
  <2>2. /\ stopped \subseteq [text : Places, stage : {"waits", "asked"}, aborted : BOOLEAN]
        /\ \A x \in stopped : x.aborted
    BY <1>2
  <2>3. /\ fresh \in [text : Places, stage : {"waits", "asked"}, aborted : BOOLEAN]
        /\ fresh.text = t /\ ~fresh.aborted
    OBVIOUS
  <2> HIDE DEF stopped, fresh, runs
  <2> QED BY <1>1, <2>1, <2>2, <2>3 DEF Live!Sought, Live!ShouldSearch
<1>4. CASE ~runs
  <2>1. s21' = s21
    BY <1>4 DEF Live!SearchEffect
  <2>2. t = s16 /\ Live!ShouldSearch(t, v, f) = Live!ShouldSearch(s16, s17, s18)
    BY <1>4
  <2>3. Live!ShouldSearch(s16, s17, s18)' = Live!ShouldSearch(t, v, f)
    BY <1>1 DEF Live!ShouldSearch
  <2> HIDE DEF runs
  <2> QED BY <1>1, <1>2, <2>1, <2>2, <2>3 DEF Live!Sought
<1> QED BY <1>3, <1>4

LEMMA LiveSearches ==
    ASSUME Live!Inductive,
           \/ \E t \in Places : Live!TypeText(t)
           \/ Live!ClearText \/ Live!ToggleSearch \/ Live!Focus \/ Live!Blur \/ Live!BlurFires
    PROVE  Live!Inductive'
<1>1. UNCHANGED <<s5, s6, s7, s8, s9, s10>> /\ UNCHANGED <<s11, s12, s13, s15>>
  BY DEF Live!TypeText, Live!ClearText, Live!ToggleSearch, Live!Focus, Live!Blur, Live!BlurFires,
         Live!selectionVars, Live!panelVars
<1>2. s16 \in Places /\ Live!NoText \in Places
  BY PagesAssumption DEF Live!Inductive, Live!Sought, Live!LiveAssumption
<1>3. ASSUME NEW t \in Places, Live!TypeText(t) PROVE Live!Sought'
  BY <1>3, EffectSeeks DEF Live!TypeText
<1>4. ASSUME Live!ClearText PROVE Live!Sought'
  BY <1>2, <1>4, EffectSeeks DEF Live!ClearText
<1>5. ASSUME Live!ToggleSearch PROVE Live!Sought'
  BY <1>2, <1>5, EffectSeeks DEF Live!ToggleSearch
<1>6. ASSUME Live!Focus PROVE Live!Sought'
  BY <1>2, <1>6, EffectSeeks DEF Live!Focus
<1>7. ASSUME Live!Blur PROVE Live!Sought'
  BY <1>7, LiveStays DEF Live!Blur
<1>8. ASSUME Live!BlurFires PROVE Live!Sought'
  BY <1>2, <1>8, EffectSeeks DEF Live!BlurFires
<1> QED BY <1>1, <1>3, <1>4, <1>5, <1>6, <1>7, <1>8, LiveStays DEF Live!Inductive

\* A suggestion is taken; the geocoder is asked and answers.
LEMMA LiveFinds ==
    ASSUME Live!Inductive,
           \/ Live!PickSuggestion
           \/ \E x \in s21 : Live!SearchStarts(x) \/ \E found \in BOOLEAN : Live!SearchEnds(x, found)
    PROVE  Live!Inductive'
<1>1. /\ s16 \in Places
      /\ s21 \subseteq [text : Places, stage : {"waits", "asked"}, aborted : BOOLEAN]
      /\ \A x \in s21 : ~x.aborted => x.text = s16
      /\ s20 \notin {Nil, s16} /\ Live!ShouldSearch(s16, s17, s18) => \E x \in s21 : ~x.aborted
  BY DEF Live!Inductive, Live!Sought
<1>2. CASE Live!PickSuggestion
  <2>1. Live!Sought'
    BY <1>1, <1>2, EffectSeeks DEF Live!PickSuggestion
  <2>2. Live!Closed'
    <3>1. s7' = Live!NoAnchors /\ UNCHANGED <<s5, s6, s8, s9, s10>>
      BY <1>2 DEF Live!PickSuggestion
    <3> QED BY <3>1 DEF Live!Inductive, Live!Closed, Live!ClosedStaysClosed, Live!NoAnchors
  <2>3. UNCHANGED <<s11, s12, s13, s15>>
    BY <1>2 DEF Live!PickSuggestion, Live!panelVars
  <2> QED BY <2>1, <2>2, <2>3, LiveStays DEF Live!Inductive
<1>3. ASSUME NEW x \in s21, Live!SearchStarts(x) PROVE Live!Inductive'
  <2> DEFINE asked == [x EXCEPT !.stage = "asked"]
  <2>1. s21' = (s21 \ {x}) \cup {asked} /\ UNCHANGED <<s16, s17, s18, s20>>
    BY <1>3 DEF Live!SearchStarts
  <2>2. /\ asked \in [text : Places, stage : {"waits", "asked"}, aborted : BOOLEAN]
        /\ asked.text = x.text /\ asked.aborted = x.aborted
    BY <1>1
  <2> HIDE DEF asked
  <2>3. Live!ShouldSearch(s16, s17, s18)' = Live!ShouldSearch(s16, s17, s18)
    BY <2>1 DEF Live!ShouldSearch
  <2>4. Live!Sought'
    BY <1>1, <2>1, <2>2, <2>3 DEF Live!Sought
  <2>5. UNCHANGED <<s5, s6, s7, s8, s9, s10>> /\ UNCHANGED <<s11, s12, s13, s15>>
    BY <1>3 DEF Live!SearchStarts, Live!selectionVars, Live!panelVars
  <2> QED BY <2>4, <2>5, LiveStays DEF Live!Inductive
<1>4. ASSUME NEW x \in s21, NEW found \in BOOLEAN, Live!SearchEnds(x, found) PROVE Live!Inductive'
  <2>1. s21' = s21 \ {x} /\ UNCHANGED <<s16, s17, s18>>
    BY <1>4 DEF Live!SearchEnds
  <2>2. Live!ShouldSearch(s16, s17, s18)' = Live!ShouldSearch(s16, s17, s18)
    BY <2>1 DEF Live!ShouldSearch
  <2>3. IF x.aborted THEN s20' = s20 ELSE s20' \in {Nil, s16}
    BY <1>1, <1>4 DEF Live!SearchEnds, Live!Heard
  <2>4. Live!Sought'
    BY <1>1, <2>1, <2>2, <2>3 DEF Live!Sought
  <2>5. UNCHANGED <<s5, s6, s7, s8, s9, s10>> /\ UNCHANGED <<s11, s12, s13, s15>>
    BY <1>4 DEF Live!SearchEnds, Live!selectionVars, Live!panelVars
  <2> QED BY <2>4, <2>5, LiveStays DEF Live!Inductive
<1> QED BY <1>2, <1>3, <1>4

LEMMA LiveStep ==
    ASSUME Live!Inductive, Live!Next
    PROVE  Live!Inductive'
BY LivePanel, LiveReceives, LiveSelects, LiveFlies, LiveSearches, LiveFinds DEF Live!Next

LEMMA LiveStart ==
    ASSUME Live!Init
    PROVE  Live!Inductive
<1>1. Live!Closed
  BY DEF Live!Init, Live!Closed, Live!ClosedStaysClosed
<1>2. Live!Away
  BY DEF Live!Init, Live!Away
<1>3. Live!Sought
  BY PagesAssumption DEF Live!Init, Live!Sought, Live!LiveAssumption
<1> QED BY <1>1, <1>2, <1>3 DEF Live!Inductive

LEMMA LiveHolds ==
    ASSUME Live!Inductive
    PROVE  Live!ClosedStaysClosed /\ Live!HintOnlyWhenAway /\ Live!SuggestionsFollowText
BY DEF Live!Inductive, Live!Closed, Live!Away, Live!Sought, Live!HintOnlyWhenAway, Live!SuggestionsFollowText,
       Live!VisibleSuggestions

-----------------------------------------------------------------------------
(* The tracker.                                                                *)

\* What the fields are counted by.
LEMMA TrackerCountsFrom ==
           /\ BatchSize \in Nat \ {0}
           /\ \A l \in Locations : l.page \in Tracker!Pages
           /\ Tracker!NoKey \in Tracker!Keys
           /\ \A cfg \in Configs, l \in Locations : Tracker!Key(cfg, l) \in Tracker!Keys /\ Tracker!Key(cfg, l) # Tracker!NoKey
<1>1. BatchSize \in Nat \ {0}
  BY PagesAssumption DEF Tracker!TrackerAssumption
<1>2. \A l \in Locations : l.page \in Tracker!Pages
  BY DEF Tracker!Pages
<1>3. Tracker!NoKey \in Tracker!Keys /\ \A cfg \in Configs, l \in Locations : Tracker!Key(cfg, l) \in Tracker!Keys
  BY DEF Tracker!Keys
<1>4. \A cfg \in Configs, l \in Locations : Tracker!Key(cfg, l) # Tracker!NoKey
  BY DEF Tracker!Key, Tracker!NoKey
<1> QED BY <1>1, <1>2, <1>3, <1>4

\* What is told of a method that leaves the page alone.
KeepsPage(r, s) ==
  /\ r.lastKey = s.lastKey /\ r.viewed = s.viewed /\ r.url = s.url
  /\ r.listening = s.listening /\ r.start = s.start /\ r.time = s.time /\ r.engaged = s.engaged

LEMMA CountedTypes ==
    ASSUME NEW posts \in [BOOLEAN -> Nat], NEW drain \in BOOLEAN
    PROVE  /\ Tracker!Counted(posts, drain, 1) \in [BOOLEAN -> Nat]
           /\ Tracker!Counted(posts, drain, 1)[drain] > 0
           /\ posts[drain] > 0 => Tracker!Counted(posts, drain, -1) \in [BOOLEAN -> Nat]
BY DEF Tracker!Counted

\* Time and bounds depend on the page's fields only.
LEMMA WithinByPage ==
    ASSUME NEW r, NEW s, KeepsPage(r, s), Tracker!Within(s)
    PROVE  Tracker!Within(r)
BY DEF KeepsPage, Tracker!Within, Tracker!EngagementTime

\* The fields of the queue, and those of the clock.
LEMMA QueueTypes ==
    ASSUME NEW s \in Tracker!Trackers, NEW posts \in [BOOLEAN -> Nat],
           NEW r, r = [s EXCEPT !.timer = FALSE, !.pending = 0, !.posts = posts]
    PROVE  r \in Tracker!Trackers /\ r.pending = 0 /\ KeepsPage(r, s)
<1>1. 0 \in 0..BatchSize - 1
  BY TrackerCountsFrom
<1>2. \A timer \in BOOLEAN : [s EXCEPT !.timer = timer, !.pending = 0, !.posts = posts] \in Tracker!Trackers
  BY <1>1 DEF Tracker!Trackers
<1>3. r \in Tracker!Trackers
  BY <1>2, Zenon
<1>4. r.pending = 0 /\ KeepsPage(r, s)
  BY DEF Tracker!Trackers, KeepsPage
<1> QED BY <1>3, <1>4

\* A flush leaves nothing pending.
LEMMA FlushKeeps ==
    ASSUME NEW s \in Tracker!Trackers, NEW drain \in BOOLEAN
    PROVE  LET r == Tracker!FlushEventQueue(s, drain)
           IN  r \in Tracker!Trackers /\ r.pending = 0 /\ KeepsPage(r, s)
<1> DEFINE posts == Tracker!Counted(s.posts, drain, 1)
<1>1. posts \in [BOOLEAN -> Nat] /\ posts[drain] > 0
  <2>1. s.posts \in [BOOLEAN -> Nat]
    BY DEF Tracker!Trackers
  <2> QED BY <2>1, CountedTypes
<1>2. s.pending \in 0..BatchSize - 1 /\ BatchSize \in Nat \ {0}
  BY TrackerCountsFrom DEF Tracker!Trackers
<1>3. CASE s.pending = 0
  <2>1. Tracker!FlushEventQueue(s, drain) = s
    BY <1>3 DEF Tracker!FlushEventQueue
  <2> QED BY <1>3, <2>1 DEF KeepsPage
<1>4. CASE s.pending # 0
  <2>1. Tracker!AfterBatch(s.pending) = 0
    BY <1>2 DEF Tracker!AfterBatch
  <2>2. Tracker!FlushEventQueue(s, drain) = [s EXCEPT !.timer = FALSE, !.pending = 0, !.posts = posts]
    BY <1>4, <2>1 DEF Tracker!FlushEventQueue
  <2> HIDE DEF posts
  <2> DEFINE r == [s EXCEPT !.timer = FALSE, !.pending = 0, !.posts = posts]
  <2>4. r \in Tracker!Trackers /\ r.pending = 0 /\ KeepsPage(r, s)
    BY <1>1, QueueTypes
  <2> QED BY <2>2, <2>4
<1> QED BY <1>3, <1>4

\* An event is sent: it waits for the timer or is flushed.
LEMMA SendKeeps ==
    ASSUME NEW s \in Tracker!Trackers, Tracker!Served(s), NEW l
    PROVE  LET r == Tracker!SendEvent(s, l)
           IN  r \in Tracker!Trackers /\ Tracker!Served(r) /\ KeepsPage(r, s)
<1> DEFINE posts == Tracker!Counted(s.posts, FALSE, 1)
           q == [s EXCEPT !.pending = @ + 1]
<1>1. posts \in [BOOLEAN -> Nat] /\ posts[FALSE] > 0
  <2>1. s.posts \in [BOOLEAN -> Nat]
    BY DEF Tracker!Trackers
  <2> QED BY <2>1, CountedTypes
<1>2. s.pending \in 0..BatchSize - 1 /\ BatchSize \in Nat \ {0}
  BY TrackerCountsFrom DEF Tracker!Trackers
<1>3. CASE Tracker!Excluded(s1, l.page)
  BY <1>3 DEF Tracker!SendEvent, KeepsPage
<1>4. CASE ~Tracker!Excluded(s1, l.page) /\ q.pending >= BatchSize
  <2>1. q.pending = BatchSize /\ q.posts = s.posts
    BY <1>2, <1>4 DEF Tracker!Trackers
  <2>2. Tracker!AfterBatch(q.pending) = 0
    BY <1>2, <2>1 DEF Tracker!AfterBatch
  <2>3. Tracker!SendEvent(s, l) = [q EXCEPT !.timer = FALSE, !.pending = 0, !.posts = posts]
    BY <1>2, <1>4, <2>1, <2>2 DEF Tracker!SendEvent, Tracker!MustFlush, Tracker!FlushEventQueue
  <2>4. Tracker!SendEvent(s, l) = [s EXCEPT !.timer = FALSE, !.pending = 0, !.posts = posts]
    <3> HIDE DEF posts
    <3> QED BY <2>3 DEF Tracker!Trackers
  <2> HIDE DEF posts
  <2> DEFINE r == [s EXCEPT !.timer = FALSE, !.pending = 0, !.posts = posts]
  <2>6. r \in Tracker!Trackers /\ r.pending = 0 /\ KeepsPage(r, s)
    BY <1>1, QueueTypes
  <2>7. Tracker!Served(r)
    BY <2>6 DEF Tracker!Served
  <2> QED BY <2>4, <2>6, <2>7
<1>5. CASE ~Tracker!Excluded(s1, l.page) /\ ~(q.pending >= BatchSize)
  <2>1. Tracker!SendEvent(s, l) = [q EXCEPT !.timer = TRUE]
    BY <1>5 DEF Tracker!SendEvent, Tracker!MustFlush, Tracker!ScheduleEventFlush
  <2>2. q.pending \in 0..BatchSize - 1 /\ q.pending = s.pending + 1
    BY <1>2, <1>5 DEF Tracker!Trackers
  <2>3. Tracker!SendEvent(s, l) = [s EXCEPT !.pending = s.pending + 1, !.timer = TRUE]
    BY <2>1 DEF Tracker!Trackers
  <2> HIDE DEF q
  <2> QED BY <2>2, <2>3 DEF Tracker!Trackers, Tracker!Served, KeepsPage
<1> QED BY <1>3, <1>4, <1>5

\* The clock runs on without what it says going down.
LEMMA ClockTypes ==
    ASSUME NEW s, Tracker!Sound(s), s7 \in Nat
    PROVE  /\ Tracker!EngagementTime(s) \in Nat
           /\ s.start = 0 => Tracker!EngagementTime(s) = s.time
           /\ \A p \in Tracker!Pages : s.engaged[p] \in Nat
BY DEF Tracker!Sound, Tracker!Within, Tracker!EngagementTime, Tracker!Trackers

\* What is engaged so far is reported, and the clock starts from nothing.
LEMMA TriggerKeeps ==
    ASSUME NEW s, Tracker!Sound(s), s7 \in Nat, s10 \in [Tracker!Pages -> Nat], NEW l
    PROVE  LET r == Tracker!TriggerEngagement(s, l)
           IN  /\ Tracker!Sound(r)
               /\ r.lastKey = s.lastKey /\ r.viewed = s.viewed /\ r.url = s.url /\ r.listening = s.listening
               /\ r.start \in {0, s.start} /\ r.time \in {0, s.time}
<1>1. CASE ~Tracker!WorthSending(s)
  BY <1>1 DEF Tracker!TriggerEngagement
<1>2. CASE Tracker!WorthSending(s)
  <2> DEFINE deeper == [s EXCEPT !.sentDepth = s.depth]
             time == Tracker!EngagementTime(s)
             engaged == [s.engaged EXCEPT ![s.url] = @ + time]
             reported == Tracker!ReportTime(deeper, l)
             sent == Tracker!SendEvent(reported, l)
             r == [sent EXCEPT !.start = 0, !.time = 0]
  <2>1. Tracker!TriggerEngagement(s, l) = r
    BY <1>2 DEF Tracker!TriggerEngagement
  <2>2. s \in Tracker!Trackers /\ Tracker!Served(s) /\ Tracker!Within(s) /\ time \in Nat
    BY ClockTypes DEF Tracker!Sound
  <2>3. /\ deeper \in Tracker!Trackers /\ KeepsPage(deeper, s)
        /\ deeper.pending = s.pending /\ deeper.timer = s.timer /\ deeper.posts = s.posts
    BY <2>2 DEF Tracker!Trackers, KeepsPage
  <2>4. Tracker!EngagementTime(deeper) = time
    BY <2>3 DEF KeepsPage, Tracker!EngagementTime
  <2>5. engaged \in [Tracker!Pages \cup {<<>>} -> Nat]
    <3>1. s.engaged \in [Tracker!Pages \cup {<<>>} -> Nat] /\ s.url \in Tracker!Pages \cup {<<>>}
      BY <2>2 DEF Tracker!Trackers
    <3> HIDE DEF time
    <3> QED BY <2>2, <3>1
  <2>6. reported \in {deeper, [deeper EXCEPT !.engaged = engaged]}
    <3>1. deeper.url = s.url /\ deeper.engaged = s.engaged
      BY <2>3 DEF KeepsPage
    <3> HIDE DEF deeper, time
    <3> QED BY <2>4, <3>1 DEF Tracker!ReportTime
  <2>7. /\ reported \in Tracker!Trackers /\ Tracker!Served(reported)
        /\ reported.lastKey = s.lastKey /\ reported.viewed = s.viewed /\ reported.url = s.url
        /\ reported.listening = s.listening /\ reported.engaged \in {s.engaged, engaged}
    <3> HIDE DEF deeper, engaged, reported
    <3>1. CASE reported = deeper
      BY <2>2, <2>3, <3>1 DEF KeepsPage, Tracker!Served
    <3>2. CASE reported = [deeper EXCEPT !.engaged = engaged]
      <4>1. /\ reported \in Tracker!Trackers
            /\ reported.lastKey = deeper.lastKey /\ reported.viewed = deeper.viewed /\ reported.url = deeper.url
            /\ reported.listening = deeper.listening /\ reported.engaged = engaged
            /\ reported.pending = deeper.pending /\ reported.timer = deeper.timer /\ reported.posts = deeper.posts
        BY <2>3, <2>5, <3>2 DEF Tracker!Trackers
      <4> QED BY <2>2, <2>3, <4>1 DEF KeepsPage, Tracker!Served
    <3> QED BY <2>6, <3>1, <3>2
  <2> HIDE DEF reported
  <2>8. sent \in Tracker!Trackers /\ Tracker!Served(sent) /\ KeepsPage(sent, reported)
    BY <2>7, SendKeeps
  <2> HIDE DEF sent
  <2>9. /\ r \in Tracker!Trackers /\ r.start = 0 /\ r.time = 0
        /\ r.lastKey = s.lastKey /\ r.viewed = s.viewed /\ r.url = s.url /\ r.listening = s.listening
        /\ r.engaged \in {s.engaged, engaged} /\ r.pending = sent.pending /\ r.timer = sent.timer
        /\ r.posts = sent.posts
    <3>1. /\ r \in Tracker!Trackers /\ r.start = 0 /\ r.time = 0
          /\ r.lastKey = sent.lastKey /\ r.viewed = sent.viewed /\ r.url = sent.url
          /\ r.listening = sent.listening /\ r.engaged = sent.engaged /\ r.pending = sent.pending
          /\ r.timer = sent.timer /\ r.posts = sent.posts
      BY <2>8 DEF Tracker!Trackers
    <3> HIDE DEF r, engaged
    <3> QED BY <2>7, <2>8, <3>1 DEF KeepsPage
  <2>10. Tracker!Served(r)
    <3> HIDE DEF r
    <3> QED BY <2>8, <2>9 DEF Tracker!Served
  <2>11. Tracker!Within(r)
    <3> HIDE DEF r
    <3>1. Tracker!EngagementTime(r) = 0
      BY <2>9 DEF Tracker!EngagementTime
    <3>2. ASSUME NEW p \in Tracker!Pages
          PROVE  r.engaged[p] + (IF r.url = p THEN Tracker!EngagementTime(r) ELSE 0) <= s10[p]
      <4>1. s.engaged[p] + (IF s.url = p THEN time ELSE 0) <= s10[p]
        BY <2>2 DEF Tracker!Within
      <4>2. s.engaged \in [Tracker!Pages \cup {<<>>} -> Nat] /\ s10[p] \in Nat
        BY <2>2 DEF Tracker!Trackers
      <4>3. engaged[p] = s.engaged[p] + (IF s.url = p THEN time ELSE 0)
        <5> HIDE DEF time
        <5> QED BY <2>2, <4>2
      <4> HIDE DEF time, engaged
      <4> QED BY <2>2, <2>9, <3>1, <4>1, <4>2, <4>3
    <3> QED BY <2>9, <3>2 DEF Tracker!Within
  <2> HIDE DEF r
  <2> QED BY <2>1, <2>9, <2>10, <2>11 DEF Tracker!Sound
<1> QED BY <1>1, <1>2

\* The same of the fields at any moment of a callback.
LEMMA QueueKeeps ==
    ASSUME NEW s, Tracker!Sound(s), NEW l, NEW drain \in BOOLEAN
    PROVE  /\ Tracker!Sound(Tracker!SendEvent(s, l)) /\ KeepsPage(Tracker!SendEvent(s, l), s)
           /\ Tracker!Sound(Tracker!FlushEventQueue(s, drain)) /\ KeepsPage(Tracker!FlushEventQueue(s, drain), s)
           /\ Tracker!FlushEventQueue(s, drain).pending = 0
<1> DEFINE sent == Tracker!SendEvent(s, l)
           flushed == Tracker!FlushEventQueue(s, drain)
<1>1. s \in Tracker!Trackers /\ Tracker!Served(s) /\ Tracker!Within(s)
  BY DEF Tracker!Sound
<1>2. sent \in Tracker!Trackers /\ Tracker!Served(sent) /\ KeepsPage(sent, s)
  BY <1>1, SendKeeps
<1>3. flushed \in Tracker!Trackers /\ flushed.pending = 0 /\ KeepsPage(flushed, s)
  BY <1>1, FlushKeeps
<1> HIDE DEF sent, flushed
<1>4. Tracker!Served(flushed)
  BY <1>3 DEF Tracker!Served
<1>5. Tracker!Within(sent) /\ Tracker!Within(flushed)
  BY <1>1, <1>2, <1>3, WithinByPage
<1>6. Tracker!Sound(sent) /\ Tracker!Sound(flushed)
  BY <1>2, <1>3, <1>4, <1>5 DEF Tracker!Sound
<1> USE DEF sent, flushed
<1> QED BY <1>2, <1>3, <1>6

\* The page's identity, which the engagement does not change.
SamePage(r, s) ==
  /\ r.lastKey = s.lastKey /\ r.viewed = s.viewed /\ r.url = s.url /\ r.listening = s.listening

LEMMA PreKeeps ==
    ASSUME NEW s, Tracker!Sound(s), s7 \in Nat, s10 \in [Tracker!Pages -> Nat], s6 \in Tracker!Depths, NEW l
    PROVE  LET r == Tracker!PrePageview(s, l)
           IN  Tracker!Sound(r) /\ SamePage(r, s) /\ r.start \in {0, s.start} /\ r.time \in {0, s.time}
<1>1. CASE ~s.listening
  BY <1>1 DEF Tracker!PrePageview, SamePage
<1>2. CASE s.listening
  <2> DEFINE q == Tracker!TriggerEngagement(s, l)
             r == [q EXCEPT !.depth = s6]
  <2>1. /\ Tracker!Sound(q) /\ SamePage(q, s) /\ q.start \in {0, s.start} /\ q.time \in {0, s.time}
    BY TriggerKeeps DEF SamePage
  <2>2. Tracker!PrePageview(s, l) = r
    BY <1>2 DEF Tracker!PrePageview
  <2> HIDE DEF q
  <2>3. /\ r \in Tracker!Trackers /\ KeepsPage(r, q)
        /\ r.pending = q.pending /\ r.timer = q.timer /\ r.posts = q.posts
    BY <2>1 DEF Tracker!Sound, Tracker!Trackers, KeepsPage
  <2> HIDE DEF r
  <2>4. Tracker!Within(r)
    BY <2>1, <2>3, WithinByPage DEF Tracker!Sound
  <2>5. Tracker!Served(r)
    BY <2>1, <2>3 DEF Tracker!Sound, Tracker!Served
  <2>6. SamePage(r, s) /\ r.start \in {0, s.start} /\ r.time \in {0, s.time}
    BY <2>1, <2>3 DEF KeepsPage, SamePage
  <2> QED BY <2>2, <2>3, <2>4, <2>5, <2>6 DEF Tracker!Sound
<1> QED BY <1>1, <1>2

LEMMA StopKeeps ==
    ASSUME NEW s, Tracker!Sound(s), s7 \in Nat, s10 \in [Tracker!Pages -> Nat], NEW l
    PROVE  LET r == Tracker!StopAndReport(s, l)
           IN  /\ Tracker!Sound(r) /\ SamePage(r, s) /\ r.start = 0
               /\ s.start = 0 /\ s.time = 0 => r.time = 0
<1> DEFINE time == Tracker!EngagementTime(s)
           q == [s EXCEPT !.time = time, !.start = 0]
<1>1. s \in Tracker!Trackers /\ Tracker!Served(s) /\ Tracker!Within(s) /\ time \in Nat
  BY ClockTypes DEF Tracker!Sound
<1>2. s.start = 0 /\ s.time = 0 => time = 0
  BY ClockTypes
<1>3. Tracker!StopAndReport(s, l) = Tracker!TriggerEngagement(q, l)
  BY DEF Tracker!StopAndReport
<1> HIDE DEF time
<1>4. /\ q \in Tracker!Trackers /\ SamePage(q, s) /\ q.start = 0 /\ q.time = time /\ q.engaged = s.engaged
      /\ q.pending = s.pending /\ q.timer = s.timer /\ q.posts = s.posts
  BY <1>1 DEF Tracker!Trackers, SamePage
<1> HIDE DEF q
<1>5. Tracker!Served(q)
  BY <1>1, <1>4 DEF Tracker!Served
<1>6. Tracker!Within(q)
  <2>1. Tracker!EngagementTime(q) = time
    BY <1>4 DEF Tracker!EngagementTime
  <2> QED BY <1>1, <1>4, <2>1 DEF Tracker!Within, SamePage, time
<1>7. Tracker!Sound(q)
  BY <1>4, <1>5, <1>6 DEF Tracker!Sound
<1> DEFINE r == Tracker!TriggerEngagement(q, l)
<1>8. Tracker!Sound(r) /\ SamePage(r, q) /\ r.start \in {0, q.start} /\ r.time \in {0, q.time}
  BY <1>7, TriggerKeeps DEF SamePage
<1> HIDE DEF r
<1>9. SamePage(r, s) /\ r.start = 0 /\ (s.start = 0 /\ s.time = 0 => r.time = 0)
  BY <1>2, <1>4, <1>8 DEF SamePage
<1> QED BY <1>3, <1>8, <1>9 DEF r

\* A page that is tracked is counted under its key, one that is excluded claims it; what was counted
\* already is left alone.
LEMMA TrackKeeps ==
    ASSUME NEW s, Tracker!Sound(s), s7 \in Nat, s10 \in [Tracker!Pages -> Nat], NEW l \in Locations, s1 \in Configs
    PROVE  LET r == Tracker!TrackPageview(s, l)
           IN  /\ Tracker!Sound(r) /\ r.lastKey = Tracker!Key(s1, l)
               /\ \/ s.lastKey = Tracker!Key(s1, l) /\ r = s
                  \/ r.url = l.page /\ (~Tracker!Excluded(s1, l.page) => r.viewed = r.lastKey)
<1> DEFINE key == Tracker!Key(s1, l)
<1>1. s \in Tracker!Trackers /\ Tracker!Served(s) /\ Tracker!Within(s)
  BY DEF Tracker!Sound
<1>2. key \in Tracker!Keys /\ Tracker!NoKey \in Tracker!Keys /\ l.page \in Tracker!Pages
  BY TrackerCountsFrom
<1>3. CASE s.lastKey = key
  BY <1>3 DEF Tracker!TrackPageview
<1>4. CASE s.lastKey # key /\ Tracker!Excluded(s1, l.page)
  <2> DEFINE q == [s EXCEPT !.lastKey = key, !.viewed = Tracker!NoKey]
             r == [q EXCEPT !.ignored = TRUE, !.url = l.page, !.time = 0, !.start = 0]
  <2>1. Tracker!TrackPageview(s, l) = r
    BY <1>4 DEF Tracker!TrackPageview, Tracker!PauseEngagement
  <2> HIDE DEF key
  <2>2. q \in Tracker!Trackers /\ q.lastKey = key /\ q.engaged = s.engaged
        /\ q.pending = s.pending /\ q.timer = s.timer /\ q.posts = s.posts
    BY <1>1, <1>2 DEF Tracker!Trackers
  <2> HIDE DEF q
  <2>3. /\ r \in Tracker!Trackers /\ r.lastKey = q.lastKey /\ r.url = l.page /\ r.time = 0 /\ r.start = 0
        /\ r.engaged = q.engaged /\ r.pending = q.pending /\ r.timer = q.timer /\ r.posts = q.posts
    <3>1. \A ignored \in BOOLEAN : [q EXCEPT !.ignored = ignored, !.url = l.page, !.time = 0, !.start = 0] \in Tracker!Trackers
      BY <1>2, <2>2 DEF Tracker!Trackers
    <3>2. r \in Tracker!Trackers
      BY <3>1, Zenon
    <3> QED BY <2>2, <3>2 DEF Tracker!Trackers
  <2> HIDE DEF r
  <2>4. Tracker!Served(r)
    BY <1>1, <2>2, <2>3 DEF Tracker!Served
  <2>5. Tracker!Within(r)
    <3>1. Tracker!EngagementTime(r) = 0
      BY <2>3 DEF Tracker!EngagementTime
    <3>2. ASSUME NEW p \in Tracker!Pages PROVE s.engaged[p] <= s10[p]
      BY <1>1, ClockTypes DEF Tracker!Within
    <3>3. \A p \in Tracker!Pages : s.engaged[p] \in Nat
      BY <1>1 DEF Tracker!Trackers
    <3> QED BY <2>2, <2>3, <3>1, <3>2, <3>3 DEF Tracker!Within
  <2> QED BY <1>4, <2>1, <2>2, <2>3, <2>4, <2>5 DEF Tracker!Sound, key
<1>5. CASE s.lastKey # key /\ ~Tracker!Excluded(s1, l.page)
  <2> DEFINE sent == Tracker!SendEvent(s, l)
             q == [sent EXCEPT !.lastKey = key, !.viewed = key]
             r == [q EXCEPT !.ignored = FALSE, !.url = l.page, !.sentDepth = -1, !.time = 0, !.start = s7,
                            !.listening = TRUE]
  <2>1. Tracker!TrackPageview(s, l) = r
    BY <1>5 DEF Tracker!TrackPageview, Tracker!Count, Tracker!PostPageview
  <2>2. sent \in Tracker!Trackers /\ Tracker!Served(sent) /\ KeepsPage(sent, s)
    BY <1>1, SendKeeps
  <2> HIDE DEF key, sent
  <2>3. q \in Tracker!Trackers /\ q.lastKey = key /\ q.viewed = key /\ q.engaged = sent.engaged
        /\ q.pending = sent.pending /\ q.timer = sent.timer /\ q.posts = sent.posts
    BY <1>2, <2>2 DEF Tracker!Trackers
  <2> HIDE DEF q
  <2>4. /\ r \in Tracker!Trackers /\ r.lastKey = q.lastKey /\ r.viewed = q.viewed /\ r.url = l.page
        /\ r.time = 0 /\ r.start = s7
        /\ r.engaged = q.engaged /\ r.pending = q.pending /\ r.timer = q.timer /\ r.posts = q.posts
    <3>1. \A ignored \in BOOLEAN, listening \in BOOLEAN :
            [q EXCEPT !.ignored = ignored, !.url = l.page, !.sentDepth = -1, !.time = 0, !.start = s7,
                      !.listening = listening] \in Tracker!Trackers
      BY <1>2, <2>3 DEF Tracker!Trackers, Tracker!Depths
    <3>2. r \in Tracker!Trackers
      BY <3>1, Zenon
    <3> QED BY <2>3, <3>2 DEF Tracker!Trackers
  <2> HIDE DEF r
  <2>5. Tracker!Served(r)
    BY <2>2, <2>3, <2>4 DEF Tracker!Served
  <2>6. Tracker!Within(r)
    <3>1. Tracker!EngagementTime(r) = 0
      BY <2>4 DEF Tracker!EngagementTime
    <3>2. ASSUME NEW p \in Tracker!Pages PROVE s.engaged[p] <= s10[p]
      BY <1>1, ClockTypes DEF Tracker!Within
    <3>3. \A p \in Tracker!Pages : s.engaged[p] \in Nat
      BY <1>1 DEF Tracker!Trackers
    <3> QED BY <2>2, <2>3, <2>4, <3>1, <3>2, <3>3 DEF Tracker!Within, KeepsPage
  <2> QED BY <1>5, <2>1, <2>3, <2>4, <2>5, <2>6 DEF Tracker!Sound, key
<1> QED BY <1>3, <1>4, <1>5

LEMMA VisibilityKeeps ==
    ASSUME NEW s, Tracker!Sound(s), s7 \in Nat, s10 \in [Tracker!Pages -> Nat], NEW v \in BOOLEAN, NEW f \in BOOLEAN
    PROVE  LET r == Tracker!OnVisibilityChange(s, v, f)
           IN  Tracker!Sound(r) /\ SamePage(r, s) /\ (~v => r.pending = 0)
<1>1. CASE v /\ f /\ s.start = 0
  <2> DEFINE r == [s EXCEPT !.start = s7]
  <2>1. Tracker!OnVisibilityChange(s, v, f) = r
    BY <1>1 DEF Tracker!OnVisibilityChange
  <2>2. /\ r \in Tracker!Trackers /\ SamePage(r, s) /\ r.start = s7 /\ r.time = s.time /\ r.engaged = s.engaged
        /\ r.pending = s.pending /\ r.timer = s.timer /\ r.posts = s.posts
    BY DEF Tracker!Sound, Tracker!Trackers, SamePage
  <2> HIDE DEF r
  <2>3. Tracker!EngagementTime(r) = Tracker!EngagementTime(s)
    BY <1>1, <2>2 DEF Tracker!EngagementTime, Tracker!Trackers
  <2>4. Tracker!Served(r) /\ Tracker!Within(r)
    BY <2>2, <2>3 DEF Tracker!Sound, Tracker!Served, Tracker!Within, SamePage
  <2> QED BY <1>1, <2>1, <2>2, <2>4 DEF Tracker!Sound
<1>2. CASE v /\ f /\ s.start # 0
  BY <1>2 DEF Tracker!OnVisibilityChange, SamePage
<1>3. CASE ~(v /\ f)
  <2> DEFINE r == Tracker!StopAndReport(s, s2)
             flushed == Tracker!FlushEventQueue(r, TRUE)
  <2>1. Tracker!OnVisibilityChange(s, v, f) = IF v THEN r ELSE flushed
    BY <1>3 DEF Tracker!OnVisibilityChange
  <2>2. Tracker!Sound(r) /\ SamePage(r, s)
    BY StopKeeps
  <2> HIDE DEF r
  <2>3. Tracker!Sound(flushed) /\ KeepsPage(flushed, r) /\ flushed.pending = 0
    BY <2>2, QueueKeeps
  <2> HIDE DEF flushed
  <2>4. SamePage(flushed, s)
    BY <2>2, <2>3 DEF KeepsPage, SamePage
  <2> QED BY <2>1, <2>2, <2>3, <2>4
<1> QED BY <1>1, <1>2, <1>3

\* What the fields say of a location that was looked at.
AboutPage(r, l) ==
  /\ r.lastKey = Tracker!Key(s1, l) /\ r.url = l.page
  /\ ~Tracker!Excluded(s1, l.page) => r.viewed = r.lastKey

LEMMA TrackThere ==
    ASSUME NEW s, Tracker!Sound(s), Tracker!TypeOK, NEW l \in Locations, NEW m \in Locations,
           s.lastKey = Tracker!NoKey \/ AboutPage(s, m)
    PROVE  Tracker!Sound(Tracker!TrackPageview(s, l)) /\ AboutPage(Tracker!TrackPageview(s, l), l)
<1> DEFINE r == Tracker!TrackPageview(s, l)
<1>1. /\ Tracker!Sound(r) /\ r.lastKey = Tracker!Key(s1, l)
      /\ \/ s.lastKey = Tracker!Key(s1, l) /\ r = s
         \/ r.url = l.page /\ (~Tracker!Excluded(s1, l.page) => r.viewed = r.lastKey)
  BY TrackKeeps DEF Tracker!TypeOK
<1>2. Tracker!Key(s1, l) # Tracker!NoKey
  BY TrackerCountsFrom DEF Tracker!TypeOK
<1>3. Tracker!Key(s1, l) = Tracker!Key(s1, m) => l.page = m.page
  BY DEF Tracker!Key
<1> HIDE DEF r
<1>4. AboutPage(r, l)
  BY <1>1, <1>2, <1>3 DEF AboutPage
<1> QED BY <1>1, <1>4 DEF r

\* What a callback has to leave.
LEMMA TrackerThen ==
    ASSUME Tracker!TypeOK', UNCHANGED <<s1, s7, s10>>, NEW r, s9' = r, Tracker!Sound(r),
           \/ r.lastKey = Tracker!NoKey /\ ~r.listening /\ r.start = 0 /\ r.time = 0 /\ s8' # "done"
           \/ r.lastKey # Tracker!NoKey /\ r.lastKey = Tracker!Key(s1, s2') /\ r.url = s2'.page
              /\ (~Tracker!Excluded(s1, s2'.page) => r.viewed = r.lastKey),
           s5' \notin {"loading", "ready"} => r.start = 0
    PROVE  Tracker!Inductive'
<1>1. Tracker!Sound(s9)'
  BY DEF Tracker!Sound, Tracker!Served, Tracker!Within, Tracker!EngagementTime
<1>2. Tracker!OfLocation(s9)'
  BY DEF Tracker!OfLocation, Tracker!Tracked
<1> QED BY <1>1, <1>2 DEF Tracker!Inductive, Tracker!Running

\* The same, when the location is counted.
LEMMA TrackerCounted ==
    ASSUME Tracker!TypeOK', UNCHANGED <<s1, s7, s10>>, NEW r, s9' = r, Tracker!Sound(r),
           NEW l \in Locations, s2' = l, s1 \in Configs, AboutPage(r, l), s5' \in {"loading", "ready"}
    PROVE  Tracker!Inductive'
BY TrackerThen, TrackerCountsFrom DEF AboutPage

LEMMA TrackerStays ==
    ASSUME Tracker!Inductive
    PROVE  /\ Tracker!TypeOK /\ Tracker!Sound(s9) /\ s7 \in Nat /\ s10 \in [Tracker!Pages -> Nat]
           /\ s6 \in Tracker!Depths /\ s1 \in Configs /\ s2 \in Locations
           /\ s9.lastKey = Tracker!NoKey \/ AboutPage(s9, s2)
BY DEF Tracker!Inductive, Tracker!TypeOK, Tracker!OfLocation, Tracker!Tracked, AboutPage

\* The same, when neither the location nor what is known of it changes.
LEMMA TrackerSamePage ==
    ASSUME Tracker!Inductive, Tracker!TypeOK', UNCHANGED <<s1, s2, s7, s8, s10>>, NEW r, s9' = r, Tracker!Sound(r),
           SamePage(r, s9), s9.lastKey = Tracker!NoKey => r.start = 0 /\ r.time = 0,
           s5' \notin {"loading", "ready"} => r.start = 0
    PROVE  Tracker!Inductive'
BY TrackerThen DEF Tracker!Inductive, Tracker!OfLocation, Tracker!Tracked, SamePage

\* Navigation: DOMContentLoaded, the History API, the back-forward cache.
LEMMA TrackerNavigates ==
    ASSUME Tracker!Inductive,
           \/ Tracker!TriggerInitial \/ Tracker!PageShow
           \/ \E l \in Locations : Tracker!PushState(l) \/ Tracker!PopState(l)
    PROVE  Tracker!Inductive'
<1> USE TrackerStays
<1>2. CASE Tracker!TriggerInitial
  <2> DEFINE r == Tracker!TrackPageview(s9, s2)
  <2>1. /\ s5 = "loading" /\ s5' = "ready" /\ UNCHANGED <<s1, s2, s3, s4, s6, s7, s10>>
        /\ s8 = "dom" /\ s8' = (IF s3 THEN "done" ELSE "visible") /\ s9' = (IF s3 THEN r ELSE s9)
    BY <1>2 DEF Tracker!TriggerInitial
  <2>2. Tracker!TypeOK'
    BY <2>1 DEF Tracker!TypeOK
  <2>3. CASE s3
    <3>1. Tracker!Sound(r) /\ AboutPage(r, s2)
      BY TrackThere
    <3> HIDE DEF r
    <3> QED BY <2>1, <2>2, <2>3, <3>1, TrackerCounted
  <2>4. CASE ~s3
    BY <2>1, <2>2, <2>4, TrackerThen DEF Tracker!Inductive, Tracker!OfLocation, Tracker!Tracked
  <2> QED BY <2>3, <2>4
<1>3. ASSUME NEW l \in Locations, Tracker!PushState(l) PROVE Tracker!Inductive'
  <2> DEFINE q == Tracker!PrePageview(s9, s2)
             r == Tracker!TrackPageview(q, l)
  <2>1. /\ s5 \in {"loading", "ready"} /\ s2' = l /\ s9' = r
        /\ UNCHANGED <<s1, s3, s4, s5, s6, s7, s8, s10>>
    BY <1>3 DEF Tracker!PushState, Tracker!Running
  <2>2. Tracker!TypeOK'
    BY <2>1 DEF Tracker!TypeOK
  <2>3. Tracker!Sound(q) /\ SamePage(q, s9)
    BY PreKeeps
  <2> HIDE DEF q
  <2>4. q.lastKey = Tracker!NoKey \/ AboutPage(q, s2)
    BY <2>3 DEF SamePage, AboutPage
  <2>5. Tracker!Sound(r) /\ AboutPage(r, l)
    BY <2>3, <2>4, TrackThere
  <2> HIDE DEF r
  <2> QED BY <2>1, <2>2, <2>5, TrackerCounted
<1>4. ASSUME NEW l \in Locations, Tracker!PopState(l) PROVE Tracker!Inductive'
  <2> DEFINE p == Tracker!PrePageview(s9, l)
             q == Tracker!TrackPageview(p, l)
             pq == Tracker!PrePageview(q, l)
             qq == Tracker!TrackPageview(pq, l)
  <2>1. /\ s5 \in {"loading", "ready"} /\ s2' = l /\ (s9' = q \/ s9' = qq)
        /\ UNCHANGED <<s1, s3, s4, s5, s6, s7, s8, s10>>
    BY <1>4 DEF Tracker!PopState, Tracker!Running, Tracker!Heard
  <2>2. Tracker!TypeOK'
    BY <2>1 DEF Tracker!TypeOK
  <2>3. Tracker!Sound(p) /\ SamePage(p, s9)
    BY PreKeeps
  <2> HIDE DEF p
  <2>4. p.lastKey = Tracker!NoKey \/ AboutPage(p, s2)
    BY <2>3 DEF SamePage, AboutPage
  <2>5. Tracker!Sound(q) /\ AboutPage(q, l)
    BY <2>3, <2>4, TrackThere
  <2> HIDE DEF q
  <2>6. Tracker!Sound(pq) /\ SamePage(pq, q)
    BY <2>5, PreKeeps
  <2> HIDE DEF pq
  <2>7. AboutPage(pq, l)
    BY <2>5, <2>6 DEF SamePage, AboutPage
  <2>8. Tracker!Sound(qq) /\ AboutPage(qq, l)
    BY <2>6, <2>7, TrackThere
  <2> HIDE DEF qq
  <2> QED BY <2>1, <2>2, <2>5, <2>8, TrackerCounted
<1>5. CASE Tracker!PageShow
  <2> DEFINE p == Tracker!PrePageview(s9, s2)
             q == [p EXCEPT !.lastKey = Tracker!NoKey, !.viewed = Tracker!NoKey]
             r == Tracker!TrackPageview(q, s2)
  <2>1. /\ s5' = "ready" /\ s3' = TRUE /\ s4' = TRUE /\ s8' = "done" /\ s9' = r
        /\ UNCHANGED <<s1, s2, s6, s7, s10>>
    BY <1>5 DEF Tracker!PageShow
  <2>2. Tracker!TypeOK'
    <3>1. s3' \in BOOLEAN /\ s4' \in BOOLEAN
      BY <2>1, Zenon
    <3> QED BY <2>1, <3>1 DEF Tracker!TypeOK
  <2>3. Tracker!Sound(p)
    BY PreKeeps
  <2> HIDE DEF p
  <2>4. /\ q \in Tracker!Trackers /\ q.lastKey = Tracker!NoKey
        /\ q.url = p.url /\ q.start = p.start /\ q.time = p.time /\ q.engaged = p.engaged
        /\ q.pending = p.pending /\ q.timer = p.timer /\ q.posts = p.posts
    BY <2>3, TrackerCountsFrom DEF Tracker!Sound, Tracker!Trackers
  <2> HIDE DEF q
  <2>5. Tracker!Sound(q)
    <3>1. Tracker!EngagementTime(q) = Tracker!EngagementTime(p)
      BY <2>4 DEF Tracker!EngagementTime
    <3> QED BY <2>3, <2>4, <3>1 DEF Tracker!Sound, Tracker!Served, Tracker!Within
  <2>6. Tracker!Sound(r) /\ AboutPage(r, s2)
    BY <2>4, <2>5, TrackThere
  <2> HIDE DEF r
  <2> QED BY <2>1, <2>2, <2>6, TrackerCounted
<1> QED BY <1>2, <1>3, <1>4, <1>5

\* The page is hidden, shown, left.
LEMMA TrackerAttends ==
    ASSUME Tracker!Inductive, NEW v \in BOOLEAN, NEW f \in BOOLEAN, Tracker!Attention(v, f)
    PROVE  Tracker!Inductive' /\ (~v /\ s9.listening => s9'.pending = 0)
<1> USE TrackerStays
<1> DEFINE seen == Tracker!OnVisibilityChange(s9, v, f)
           heard == IF s9.listening THEN seen ELSE s9
           first == v /\ ~s3 /\ s8 = "visible"
           r == Tracker!TrackPageview(heard, s2)
<1>1. /\ s5 \in {"loading", "ready"} /\ s3' = v /\ s4' = f /\ UNCHANGED <<s1, s2, s5, s6, s7, s10>>
      /\ s9' = (IF first THEN r ELSE heard) /\ s8' = (IF first THEN "done" ELSE s8)
  BY DEF Tracker!Attention, Tracker!Running
<1>2. Tracker!TypeOK'
  <2>1. s3' \in BOOLEAN /\ s4' \in BOOLEAN
    BY <1>1, Zenon
  <2> HIDE DEF first
  <2> QED BY <1>1, <2>1 DEF Tracker!TypeOK
<1>3. Tracker!Sound(seen) /\ SamePage(seen, s9) /\ (~v => seen.pending = 0)
  BY VisibilityKeeps
<1> HIDE DEF seen
<1>4. /\ Tracker!Sound(heard) /\ SamePage(heard, s9) /\ (s9.lastKey = Tracker!NoKey => heard = s9)
      /\ ~v /\ s9.listening => heard.pending = 0
  BY <1>3 DEF Tracker!Inductive, Tracker!OfLocation, SamePage
<1> HIDE DEF heard
<1>5. heard.lastKey = Tracker!NoKey \/ AboutPage(heard, s2)
  BY <1>4 DEF SamePage, AboutPage
<1>6. Tracker!Sound(r) /\ AboutPage(r, s2)
  BY <1>4, <1>5, TrackThere
<1> HIDE DEF r
<1>7. CASE first
  <2>1. s9' = r
    BY <1>1, <1>7
  <2>2. Tracker!Inductive'
    <3> HIDE DEF first
    <3> QED BY <1>1, <1>2, <1>6, <2>1, TrackerCounted
  <2> QED BY <1>7, <2>2
<1>8. CASE ~first
  <2> HIDE DEF first
  <2>1. s9' = heard /\ s8' = s8
    BY <1>1, <1>8
  <2>2. s9.lastKey = Tracker!NoKey => heard.start = 0 /\ heard.time = 0
    BY <1>4 DEF Tracker!Inductive, Tracker!OfLocation
  <2>3. Tracker!Inductive'
    BY <1>1, <1>2, <1>4, <2>1, <2>2, TrackerSamePage
  <2> QED BY <1>4, <2>1, <2>3
<1> QED BY <1>7, <1>8

LEMMA TrackerLeaves ==
    ASSUME Tracker!Inductive, NEW kept \in BOOLEAN, Tracker!PageHide(kept)
    PROVE  Tracker!Inductive' /\ s9'.pending = 0
<1> USE TrackerStays
<1> DEFINE q == Tracker!StopAndReport(s9, s2)
           r == Tracker!FlushEventQueue(q, TRUE)
<1>1. /\ s5' \in {"cached", "gone"} /\ s9' = r /\ UNCHANGED <<s1, s2, s3, s4, s6, s7, s8, s10>>
  BY DEF Tracker!PageHide
<1>2. Tracker!TypeOK'
  BY <1>1 DEF Tracker!TypeOK
<1>3. /\ Tracker!Sound(q) /\ SamePage(q, s9) /\ q.start = 0
      /\ s9.start = 0 /\ s9.time = 0 => q.time = 0
  BY StopKeeps
<1> HIDE DEF q
<1>4. Tracker!Sound(r) /\ KeepsPage(r, q) /\ r.pending = 0
  BY <1>3, QueueKeeps
<1> HIDE DEF r
<1>5. SamePage(r, s9) /\ r.start = 0 /\ (s9.lastKey = Tracker!NoKey => r.time = 0)
  BY <1>3, <1>4 DEF KeepsPage, SamePage, Tracker!Inductive, Tracker!OfLocation
<1> QED BY <1>1, <1>2, <1>4, <1>5, TrackerSamePage

\* A callback that leaves the page and the clock alone.
LEMMA TrackerQuiet ==
    ASSUME Tracker!Inductive, Tracker!TypeOK', UNCHANGED <<s1, s2, s5, s7, s8, s10>>,
           NEW r, s9' = r, Tracker!Sound(r), KeepsPage(r, s9)
    PROVE  Tracker!Inductive'
<1>1. SamePage(r, s9)
  BY DEF KeepsPage, SamePage
<1>2. s9.lastKey = Tracker!NoKey => r.start = 0 /\ r.time = 0
  BY DEF Tracker!Inductive, Tracker!OfLocation, KeepsPage
<1>3. s5' \notin {"loading", "ready"} => r.start = 0
  BY DEF Tracker!Inductive, Tracker!Running, KeepsPage
<1> QED BY <1>1, <1>2, <1>3, TrackerSamePage

\* Events of the page, and the queue.
LEMMA TrackerQueues ==
    ASSUME Tracker!Inductive,
           \/ \E link \in {"outbound", "download", "plain"}, goal \in BOOLEAN : Tracker!Click(link, goal)
           \/ Tracker!Scroll \/ Tracker!FlushTimer \/ \E drain \in BOOLEAN : Tracker!Answered(drain)
    PROVE  Tracker!Inductive'
<1> USE TrackerStays
<1>1. s9 \in Tracker!Trackers /\ Tracker!Served(s9) /\ Tracker!Within(s9)
  BY DEF Tracker!Sound
<1>2. ASSUME NEW link \in {"outbound", "download", "plain"}, NEW goal \in BOOLEAN, Tracker!Click(link, goal)
      PROVE  Tracker!Inductive'
  <2> DEFINE sent == Tracker!SendEvent(s9, s2)
             captured == IF link # "plain" THEN sent ELSE s9
             more == Tracker!SendEvent(captured, s2)
             r == IF goal THEN more ELSE captured
  <2>1. s9' = r /\ UNCHANGED <<s1, s2, s3, s4, s5, s6, s7, s8, s10>>
    BY <1>2 DEF Tracker!Click
  <2>2. Tracker!TypeOK'
    BY <2>1 DEF Tracker!TypeOK
  <2>3. FALSE \in BOOLEAN
    OBVIOUS
  <2>4. Tracker!Sound(sent) /\ KeepsPage(sent, s9)
    BY <2>3, QueueKeeps
  <2> HIDE DEF sent
  <2>5. Tracker!Sound(captured) /\ KeepsPage(captured, s9)
    BY <2>4 DEF KeepsPage
  <2> HIDE DEF captured
  <2>6. Tracker!Sound(more) /\ KeepsPage(more, captured)
    BY <2>3, <2>5, QueueKeeps
  <2> HIDE DEF more
  <2>7. Tracker!Sound(r) /\ KeepsPage(r, s9)
    BY <2>5, <2>6 DEF KeepsPage
  <2> HIDE DEF r
  <2> QED BY <2>1, <2>2, <2>7, TrackerQuiet
<1>3. CASE Tracker!Scroll
  <2>1. PICK d \in Tracker!Depths :
          /\ s6' = d /\ s9' = [s9 EXCEPT !.depth = IF d > s9.depth THEN d ELSE s9.depth]
          /\ UNCHANGED <<s1, s2, s3, s4, s5, s7, s8, s10>>
    BY <1>3 DEF Tracker!Scroll
  <2>2. Tracker!TypeOK'
    BY <2>1 DEF Tracker!TypeOK
  <2> DEFINE depth == IF d > s9.depth THEN d ELSE s9.depth
             r == [s9 EXCEPT !.depth = depth]
  <2>3. depth \in Tracker!Depths
    BY <1>1 DEF Tracker!Trackers
  <2>4. s9' = r
    BY <2>1
  <2> HIDE DEF depth
  <2>5. r \in Tracker!Trackers /\ KeepsPage(r, s9) /\ r.pending = s9.pending /\ r.timer = s9.timer /\ r.posts = s9.posts
    BY <1>1, <2>3 DEF Tracker!Trackers, KeepsPage
  <2> HIDE DEF r
  <2>6. Tracker!Sound(r)
    BY <1>1, <2>5, WithinByPage DEF Tracker!Sound, Tracker!Served
  <2> QED BY <2>1, <2>2, <2>4, <2>5, <2>6, TrackerQuiet
<1>4. CASE Tracker!FlushTimer
  <2> DEFINE q == [s9 EXCEPT !.timer = FALSE]
             r == Tracker!FlushEventQueue(q, FALSE)
  <2>1. s9' = r /\ UNCHANGED <<s1, s2, s3, s4, s5, s6, s7, s8, s10>>
    BY <1>4 DEF Tracker!FlushTimer
  <2>2. Tracker!TypeOK'
    BY <2>1 DEF Tracker!TypeOK
  <2>3. q \in Tracker!Trackers /\ KeepsPage(q, s9) /\ FALSE \in BOOLEAN
    <3>1. \A timer \in BOOLEAN : [s9 EXCEPT !.timer = timer] \in Tracker!Trackers
      BY <1>1 DEF Tracker!Trackers
    <3>2. q \in Tracker!Trackers
      BY <3>1, Zenon
    <3> QED BY <1>1, <3>2 DEF Tracker!Trackers, KeepsPage
  <2> HIDE DEF q
  <2>4. r \in Tracker!Trackers /\ r.pending = 0 /\ KeepsPage(r, q)
    BY <2>3, FlushKeeps
  <2> HIDE DEF r
  <2>5. KeepsPage(r, s9)
    BY <2>3, <2>4 DEF KeepsPage
  <2>6. Tracker!Sound(r)
    BY <1>1, <2>4, <2>5, WithinByPage DEF Tracker!Sound, Tracker!Served
  <2> QED BY <2>1, <2>2, <2>5, <2>6, TrackerQuiet
<1>5. ASSUME NEW drain \in BOOLEAN, Tracker!Answered(drain) PROVE Tracker!Inductive'
  <2> DEFINE posts == Tracker!Counted(s9.posts, drain, -1)
             answered == [s9 EXCEPT !.posts = posts]
             drained == [s9 EXCEPT !.pending = Tracker!AfterBatch(s9.pending)]
             scheduled == [answered EXCEPT !.timer = TRUE]
             r == IF s9.pending = 0 THEN answered ELSE IF drain THEN drained ELSE scheduled
  <2>1. s9' = r /\ UNCHANGED <<s1, s2, s3, s4, s5, s6, s7, s8, s10>> /\ s9.posts[drain] > 0
    BY <1>5 DEF Tracker!Answered, Tracker!ScheduleEventFlush
  <2>2. Tracker!TypeOK'
    BY <2>1 DEF Tracker!TypeOK
  <2>3. posts \in [BOOLEAN -> Nat]
    <3>1. s9.posts \in [BOOLEAN -> Nat]
      BY <1>1 DEF Tracker!Trackers
    <3> QED BY <2>1, <3>1, CountedTypes
  <2> HIDE DEF posts
  <2>4. Tracker!AfterBatch(s9.pending) = 0 /\ 0 \in 0..BatchSize - 1
    BY <1>1, TrackerCountsFrom DEF Tracker!Trackers, Tracker!AfterBatch
  <2>5. answered \in Tracker!Trackers /\ KeepsPage(answered, s9) /\ answered.pending = s9.pending
    BY <1>1, <2>3 DEF Tracker!Trackers, KeepsPage
  <2>6. drained \in Tracker!Trackers /\ KeepsPage(drained, s9) /\ drained.pending = 0
    BY <1>1, <2>4 DEF Tracker!Trackers, KeepsPage
  <2> HIDE DEF answered, drained
  <2>7. scheduled \in Tracker!Trackers /\ KeepsPage(scheduled, s9) /\ scheduled.timer
    <3>1. \A timer \in BOOLEAN : [answered EXCEPT !.timer = timer] \in Tracker!Trackers
      BY <2>5 DEF Tracker!Trackers
    <3>2. scheduled \in Tracker!Trackers
      BY <3>1, Zenon
    <3> QED BY <2>5, <3>2 DEF Tracker!Trackers, KeepsPage
  <2> HIDE DEF scheduled
  <2>8. r \in Tracker!Trackers /\ KeepsPage(r, s9) /\ (r.pending = 0 \/ r.timer)
    BY <2>5, <2>6, <2>7
  <2> HIDE DEF r
  <2>9. Tracker!Sound(r)
    BY <1>1, <2>8, WithinByPage DEF Tracker!Sound, Tracker!Served
  <2> QED BY <2>1, <2>2, <2>8, <2>9, TrackerQuiet
<1> QED BY <1>2, <1>3, <1>4, <1>5

\* Time passes: on the clock only while the page is shown.
LEMMA TrackerTicks ==
    ASSUME Tracker!Inductive, Tracker!Tick
    PROVE  Tracker!Inductive'
<1> USE TrackerStays
<1> DEFINE stay == [s10 EXCEPT ![s2.page] = @ + 1]
<1>1. /\ s7' = s7 + 1 /\ s10' = (IF s5 \in {"loading", "ready"} THEN stay ELSE s10)
      /\ UNCHANGED <<s1, s2, s3, s4, s5, s6, s8, s9>>
  BY DEF Tracker!Tick, Tracker!Running
<1>2. s2.page \in Tracker!Pages
  BY TrackerCountsFrom
<1>3. /\ stay \in [Tracker!Pages -> Nat]
      /\ \A p \in Tracker!Pages : stay[p] = s10[p] + (IF p = s2.page THEN 1 ELSE 0)
  BY <1>2
<1> HIDE DEF stay
<1>4. Tracker!TypeOK'
  BY <1>1, <1>3 DEF Tracker!TypeOK
<1>5. s9 \in Tracker!Trackers /\ Tracker!Served(s9) /\ Tracker!Within(s9)
  BY DEF Tracker!Sound
<1>6. s9.start \in Nat /\ s9.time \in Nat /\ s9.start <= s7 /\ \A p \in Tracker!Pages : s9.engaged[p] \in Nat
  BY <1>5 DEF Tracker!Trackers, Tracker!Within
<1>7. s9.start # 0 => s5 \in {"loading", "ready"} /\ s9.url = s2.page
  BY DEF Tracker!Inductive, Tracker!Running, Tracker!OfLocation
<1>8. Tracker!Within(s9)'
  <2>1. s9'.start <= s7'
    BY <1>1, <1>6
  <2>2. ASSUME NEW p \in Tracker!Pages
        PROVE  s9.engaged[p] + (IF s9.url = p THEN Tracker!EngagementTime(s9)' ELSE 0) <= s10'[p]
    <3>1. s9.engaged[p] + (IF s9.url = p THEN Tracker!EngagementTime(s9) ELSE 0) <= s10[p]
      BY <1>5 DEF Tracker!Within
    <3>2. CASE s9.start = 0
      <4>1. Tracker!EngagementTime(s9)' = s9.time /\ Tracker!EngagementTime(s9) = s9.time
        BY <1>1, <3>2 DEF Tracker!EngagementTime
      <4>2. s10'[p] >= s10[p] /\ s10[p] \in Nat /\ s10'[p] \in Nat
        BY <1>1, <1>3
      <4> QED BY <1>6, <3>1, <4>1, <4>2
    <3>3. CASE s9.start # 0
      <4>1. Tracker!EngagementTime(s9) = s9.time + (s7 - s9.start)
        BY <3>3 DEF Tracker!EngagementTime
      <4>2. s9' = s9 /\ s7' = s7 + 1 /\ s7 \in Nat
        BY <1>1
      <4>3. Tracker!EngagementTime(s9)' = s9.time + (s7' - s9.start)
        BY <3>3, <4>2 DEF Tracker!EngagementTime
      <4>4. s10'[p] = s10[p] + (IF p = s9.url THEN 1 ELSE 0) /\ s10[p] \in Nat
        BY <1>1, <1>3, <1>7, <3>3
      <4>5. s9.engaged[p] \in Nat /\ s9.start \in Nat /\ s9.time \in Nat
        BY <1>6
      <4>6. Tracker!EngagementTime(s9)' \in Int /\ Tracker!EngagementTime(s9)' = Tracker!EngagementTime(s9) + 1
        BY <4>1, <4>5, <4>2, <4>3
      <4>7. Tracker!EngagementTime(s9) \in Int
        BY <4>1, <4>5, <4>2
      <4> QED BY <3>1, <4>4, <4>5, <4>6, <4>7
    <3> QED BY <3>2, <3>3
  <2> QED BY <1>1, <2>1, <2>2 DEF Tracker!Within
<1>9. Tracker!Sound(s9)'
  BY <1>1, <1>5, <1>8 DEF Tracker!Sound, Tracker!Served
<1>10. Tracker!OfLocation(s9)'
  BY <1>1 DEF Tracker!Inductive, Tracker!OfLocation, Tracker!Tracked
<1> QED BY <1>1, <1>4, <1>9, <1>10 DEF Tracker!Inductive, Tracker!Running

\* A step keeps the invariant; and a document that is hidden or left has nothing pending.
LEMMA TrackerStep ==
    ASSUME Tracker!Inductive, Tracker!Next
    PROVE  Tracker!Inductive' /\ Tracker!NothingLeftBehind
<1>1. CASE \E v \in BOOLEAN, f \in BOOLEAN : Tracker!Attention(v, f)
  <2>1. PICK v \in BOOLEAN, f \in BOOLEAN : Tracker!Attention(v, f)
    BY <1>1
  <2>2. s3' = v /\ s5' = s5
    BY <2>1 DEF Tracker!Attention
  <2>3. Tracker!Inductive' /\ (~v /\ s9.listening => s9'.pending = 0)
    BY <2>1, TrackerAttends
  <2> QED BY <2>2, <2>3 DEF Tracker!NothingLeftBehind
<1>2. CASE \E kept \in BOOLEAN : Tracker!PageHide(kept)
  BY <1>2, TrackerLeaves DEF Tracker!NothingLeftBehind
<1>3. CASE Tracker!TriggerInitial \/ Tracker!PageShow \/ \E l \in Locations : Tracker!PushState(l) \/ Tracker!PopState(l)
  <2>1. (s5 = "ready" => s5' = "ready") /\ (s3' = s3 \/ s3' = TRUE)
    BY <1>3 DEF Tracker!TriggerInitial, Tracker!PageShow, Tracker!PushState, Tracker!PopState
  <2> QED BY <1>3, <2>1, TrackerNavigates DEF Tracker!NothingLeftBehind
<1>4. CASE \/ \E link \in {"outbound", "download", "plain"}, goal \in BOOLEAN : Tracker!Click(link, goal)
           \/ Tracker!Scroll \/ Tracker!FlushTimer \/ \E drain \in BOOLEAN : Tracker!Answered(drain)
  <2>1. s5' = s5 /\ s3' = s3
    BY <1>4 DEF Tracker!Click, Tracker!Scroll, Tracker!FlushTimer, Tracker!Answered
  <2> QED BY <1>4, <2>1, TrackerQueues DEF Tracker!NothingLeftBehind
<1>5. CASE Tracker!Tick
  <2>1. s5' = s5 /\ s3' = s3
    BY <1>5 DEF Tracker!Tick
  <2> QED BY <1>5, <2>1, TrackerTicks DEF Tracker!NothingLeftBehind
<1> QED BY <1>1, <1>2, <1>3, <1>4, <1>5 DEF Tracker!Next

\* A page that is loaded: nothing is engaged, and what was called before waits for its timer.
LEMMA TrackerStart ==
    ASSUME Tracker!Init
    PROVE  Tracker!Inductive
<1> DEFINE none == Tracker!NoTracker
           key == Tracker!Key(s1, s2)
<1>1. /\ s1 \in Configs /\ s2 \in Locations /\ s3 \in BOOLEAN /\ s4 \in BOOLEAN
      /\ s5 = "loading" /\ s6 = 1 /\ s7 = 1 /\ s8 = "dom"
      /\ s10 = [p \in Tracker!Pages |-> 0]
      /\ s1.served => ~Tracker!Excluded(s1, s2.page)
  BY DEF Tracker!Init
<1>2. key \in Tracker!Keys /\ Tracker!NoKey \in Tracker!Keys /\ key # Tracker!NoKey /\ s2.page \in Tracker!Pages
      /\ BatchSize \in Nat \ {0}
  BY <1>1, TrackerCountsFrom
<1>3. Tracker!TypeOK
  BY <1>1 DEF Tracker!TypeOK, Tracker!Depths
<1>4. none.lastKey = Tracker!NoKey /\ ~none.listening /\ none.start = 0 /\ none.time = 0 /\ none.pending = 0
      /\ none.engaged = [p \in Tracker!Pages \cup {<<>>} |-> 0]
  BY DEF Tracker!NoTracker
<1>5. none \in Tracker!Trackers
  <2> DEFINE posts == [drain \in BOOLEAN |-> 0]
             engaged == [p \in Tracker!Pages \cup {<<>>} |-> 0]
  <2>1. posts \in [BOOLEAN -> Nat]
    OBVIOUS
  <2>2. engaged \in [Tracker!Pages \cup {<<>>} -> Nat]
    OBVIOUS
  <2> HIDE DEF posts, engaged
  <2>3. 0 \in 0..BatchSize - 1 /\ -1 \in Tracker!Depths \cup {-1} /\ 1 \in Tracker!Depths
    BY <1>2 DEF Tracker!Depths
  <2>4. \A listening \in BOOLEAN, ignored \in BOOLEAN, timer \in BOOLEAN :
          [lastKey |-> Tracker!NoKey, listening |-> listening, ignored |-> ignored,
           url |-> <<>>, sentDepth |-> -1, start |-> 0, time |-> 0, depth |-> 1,
           pending |-> 0, timer |-> timer, posts |-> posts, viewed |-> Tracker!NoKey, engaged |-> engaged]
            \in Tracker!Trackers
    BY <1>2, <2>1, <2>2, <2>3 DEF Tracker!Trackers
  <2>5. none = [lastKey |-> Tracker!NoKey, listening |-> FALSE, ignored |-> FALSE,
                url |-> <<>>, sentDepth |-> -1, start |-> 0, time |-> 0, depth |-> 1,
                pending |-> 0, timer |-> FALSE, posts |-> posts, viewed |-> Tracker!NoKey, engaged |-> engaged]
    BY Zenon DEF Tracker!NoTracker, posts, engaged
  <2> QED BY <2>4, <2>5, Zenon
<1>6. Tracker!Within(none)
  BY <1>1, <1>4 DEF Tracker!Within, Tracker!EngagementTime
<1>7. Tracker!Sound(none)
  BY <1>4, <1>5, <1>6 DEF Tracker!Sound, Tracker!Served
<1> HIDE DEF none
<1>8. PICK queued \in BOOLEAN :
        LET called == IF queued THEN Tracker!SendEvent(none, s2) ELSE none
            seeded == [called EXCEPT !.lastKey = key, !.viewed = key]
        IN  s9 = IF s1.served THEN Tracker!PostPageview(seeded, s2) ELSE called
  BY DEF Tracker!Init, none
<1> DEFINE called == IF queued THEN Tracker!SendEvent(none, s2) ELSE none
           seeded == [called EXCEPT !.lastKey = key, !.viewed = key]
           r == [seeded EXCEPT !.ignored = FALSE, !.url = s2.page, !.sentDepth = -1, !.time = 0,
                               !.start = s7, !.listening = TRUE]
<1>9. s9 = IF s1.served THEN r ELSE called
  BY <1>8 DEF Tracker!PostPageview
<1>10. Tracker!Sound(called) /\ KeepsPage(called, none)
  <2>1. CASE queued
    BY <1>7, <2>1, QueueKeeps
  <2>2. CASE ~queued
    BY <1>7, <2>2 DEF KeepsPage
  <2> QED BY <2>1, <2>2
<1> HIDE DEF called, key
<1>11. CASE ~s1.served
  <2>1. s9 = called
    BY <1>9, <1>11
  <2>2. s9.lastKey = Tracker!NoKey /\ ~s9.listening /\ s9.start = 0 /\ s9.time = 0
    BY <1>4, <1>10, <2>1 DEF KeepsPage
  <2> QED BY <1>1, <1>3, <1>10, <2>1, <2>2 DEF Tracker!Inductive, Tracker!OfLocation, Tracker!Running
<1>12. CASE s1.served
  <2>1. s9 = r
    BY <1>9, <1>12
  <2>2. /\ seeded \in Tracker!Trackers /\ seeded.lastKey = key /\ seeded.viewed = key
        /\ seeded.engaged = none.engaged
        /\ seeded.pending = called.pending /\ seeded.timer = called.timer /\ seeded.posts = called.posts
    BY <1>2, <1>10 DEF Tracker!Sound, Tracker!Trackers, KeepsPage
  <2> HIDE DEF seeded
  <2>3. /\ r \in Tracker!Trackers /\ r.lastKey = key /\ r.viewed = key /\ r.url = s2.page
        /\ r.time = 0 /\ r.start = s7 /\ r.engaged = none.engaged
        /\ r.pending = called.pending /\ r.timer = called.timer /\ r.posts = called.posts
    <3>1. \A ignored \in BOOLEAN, listening \in BOOLEAN :
            [seeded EXCEPT !.ignored = ignored, !.url = s2.page, !.sentDepth = -1, !.time = 0, !.start = s7,
                           !.listening = listening] \in Tracker!Trackers
      BY <1>1, <1>2, <2>2 DEF Tracker!Trackers, Tracker!Depths
    <3>2. r \in Tracker!Trackers
      BY <3>1, Zenon
    <3> QED BY <2>2, <3>2 DEF Tracker!Trackers
  <2> HIDE DEF r
  <2>4. Tracker!Served(r)
    BY <1>10, <2>3 DEF Tracker!Sound, Tracker!Served
  <2>5. Tracker!Within(r)
    <3>1. Tracker!EngagementTime(r) = 0
      BY <1>1, <2>3 DEF Tracker!EngagementTime
    <3> QED BY <1>1, <1>4, <2>3, <3>1 DEF Tracker!Within
  <2>6. Tracker!Sound(r)
    BY <2>3, <2>4, <2>5 DEF Tracker!Sound
  <2>7. Tracker!OfLocation(r)
    BY <1>2, <2>3 DEF Tracker!OfLocation, key
  <2> QED BY <1>1, <1>3, <2>1, <2>6, <2>7 DEF Tracker!Inductive, Tracker!Running
<1> QED BY <1>11, <1>12

LEMMA TrackerHolds ==
    ASSUME Tracker!Inductive
    PROVE  Tracker!EngagedWithinStay /\ Tracker!ShownIsCounted /\ Tracker!QueueIsServed
<1> USE TrackerStays
<1>1. Tracker!EngagedWithinStay
  <2> SUFFICES ASSUME NEW p \in Tracker!Pages
               PROVE  s9.engaged[p] + (IF s9.url = p /\ Tracker!Running THEN Tracker!EngagementTime(s9) ELSE 0) <= s10[p]
    BY DEF Tracker!EngagedWithinStay
  <2>1. s9.engaged[p] + (IF s9.url = p THEN Tracker!EngagementTime(s9) ELSE 0) <= s10[p]
    BY DEF Tracker!Sound, Tracker!Within
  <2>2. Tracker!EngagementTime(s9) \in Nat /\ s9.engaged[p] \in Nat /\ s10[p] \in Nat
    BY ClockTypes
  <2> QED BY <2>1, <2>2
<1>2. Tracker!ShownIsCounted
  BY DEF Tracker!Inductive, Tracker!OfLocation, Tracker!ShownIsCounted
<1>3. Tracker!QueueIsServed
  BY DEF Tracker!Sound, Tracker!Served, Tracker!QueueIsServed
<1> QED BY <1>1, <1>2, <1>3

LEMMA TrackerStutters ==
    ASSUME Tracker!Inductive, UNCHANGED <<s1, s2, s3, s4, s5, s6, s7, s8, s9, s10>>
    PROVE  Tracker!Inductive'
BY DEF Tracker!Inductive, Tracker!TypeOK, Tracker!Sound, Tracker!Served, Tracker!Within, Tracker!EngagementTime,
       Tracker!OfLocation, Tracker!Tracked, Tracker!Running

-----------------------------------------------------------------------------
(* The analytics settings.                                                     *)

\* A finite set is listed.
LEMMA SettingsLists ==
    ASSUME NEW S, Settings!IsFiniteSet(S)
    PROVE  Settings!SetToSeq(S) \in Seq(S)
<1>1. IsFiniteSet(S) /\ Settings!Cardinality(S) = Cardinality(S)
  BY DEF Settings!IsFiniteSet, IsFiniteSet, Settings!Cardinality, Cardinality
<1>2. Cardinality(S) \in Nat /\ ExistsBijection(1..Cardinality(S), S)
  BY <1>1, FS_CardinalityType
<1>3. \E f \in [1..Cardinality(S) -> S] : Settings!IsInjective(f)
  BY <1>2 DEF ExistsBijection, Bijection, Injection, Surjection, IsInjective, Settings!IsInjective
<1>4. Settings!SetToSeq(S) \in [1..Cardinality(S) -> S]
  BY <1>1, <1>3 DEF Settings!SetToSeq
<1> QED BY <1>2, <1>4

\* The form leaves a goal as it is.
LEMMA FormLeavesGoal ==
    ASSUME NEW goal \in Settings!Sources
    PROVE  /\ Settings!GoalFormToPayload(Settings!GoalForm(goal)) = goal
           /\ goal \in Settings!Goals => goal # Settings!NoGoal /\ Settings!NormalizeGoal(goal) = Settings!GoalForm(goal)
           /\ Settings!ValidGoal(Settings!GoalForm(goal)) => goal \in Settings!Goals
<1>1. CASE goal = Settings!NoGoal
  <2>1. Settings!GoalForm(goal) = Settings!DefaultGoalForm
    BY <1>1 DEF Settings!GoalForm
  <2>2. Settings!GoalFormToPayload(Settings!DefaultGoalForm) = Settings!NoGoal
    BY DEF Settings!GoalFormToPayload, Settings!DefaultGoalForm, Settings!GoalDisplayName, Settings!NoGoal
  <2>3. ~Settings!ValidGoal(Settings!DefaultGoalForm)
    BY DEF Settings!ValidGoal, Settings!DefaultGoalForm
  <2>4. goal \notin Settings!Goals
    <3>1. \A g \in GoalPool : g.name # Settings!None
      BY PagesAssumption DEF Settings!SettingsAssumption, Settings!GoalShape
    <3>2. \A name \in Suggested : Settings!SuggestedGoal(name).name # Settings!None
      BY PagesAssumption DEF Settings!SettingsAssumption, Settings!SuggestedGoal
    <3>3. Settings!NoGoal.name = Settings!None
      BY DEF Settings!NoGoal
    <3> QED BY <1>1, <3>1, <3>2, <3>3 DEF Settings!Goals
  <2> QED BY <1>1, <2>1, <2>2, <2>3, <2>4
<1>2. CASE goal \in GoalPool
  <2>1. Settings!GoalShape(goal)
    BY <1>2, PagesAssumption DEF Settings!SettingsAssumption
  <2>2. goal # Settings!NoGoal
    BY <2>1 DEF Settings!GoalShape, Settings!NoGoal
  <2>3. Settings!GoalForm(goal) = Settings!NormalizeGoal(goal)
    BY <2>2 DEF Settings!GoalForm
  <2>4. Settings!GoalFormToPayload(Settings!NormalizeGoal(goal)) = goal
    BY <2>1 DEF Settings!GoalShape, Settings!GoalFormToPayload, Settings!NormalizeGoal, Settings!GoalType, Settings!GoalDisplayName
  <2> QED BY <1>2, <2>2, <2>3, <2>4 DEF Settings!Goals
<1>3. CASE goal \in {Settings!SuggestedGoal(name) : name \in Suggested}
  <2>1. PICK name \in Suggested : goal = Settings!SuggestedGoal(name)
    BY <1>3
  <2>2. name # Settings!None
    BY PagesAssumption DEF Settings!SettingsAssumption
  <2>3. goal = [name |-> name, event |-> name, page |-> Settings!None, scroll |-> -1]
    BY <2>1 DEF Settings!SuggestedGoal
  <2>4. goal # Settings!NoGoal
    BY <2>2, <2>3 DEF Settings!NoGoal
  <2>5. Settings!GoalForm(goal) = Settings!NormalizeGoal(goal)
    BY <2>4 DEF Settings!GoalForm
  <2>6. Settings!GoalFormToPayload(Settings!NormalizeGoal(goal)) = goal
    BY <2>2, <2>3 DEF Settings!GoalFormToPayload, Settings!NormalizeGoal, Settings!GoalType, Settings!GoalDisplayName
  <2> QED BY <1>3, <2>4, <2>5, <2>6 DEF Settings!Goals
<1> QED BY <1>1, <1>2, <1>3 DEF Settings!Sources, Settings!Goals

\* What a goal of the list, or none of them, is.
LEMMA EditedGoal ==
    ASSUME NEW u, NEW p \in Settings!Stores
    PROVE  /\ Settings!EditingGoal(u, p) \in Settings!Sources
           /\ u.dialog \in BOOLEAN =>
                Settings!FormKey(u, p) \in BOOLEAN \X {goal.name : goal \in Settings!Sources}
           /\ Settings!FormKey(u, p)[1] = u.dialog
           /\ Settings!FormKey(u, p)[2] = Settings!EditingGoal(u, p).name
           /\ u.editing = 0 => Settings!EditingGoal(u, p) = Settings!NoGoal
<1>1. p.goals \in Seq(Settings!Goals)
  BY DEF Settings!Stores
<1>2. Settings!EditingGoal(u, p) \in Settings!Sources
  BY <1>1 DEF Settings!EditingGoal, Settings!Sources
<1>3. u.editing = 0 => Settings!EditingGoal(u, p) = Settings!NoGoal
  BY <1>1 DEF Settings!EditingGoal
<1> QED BY <1>2, <1>3 DEF Settings!FormKey

\* A tab that is mounted shows what the page has.
LEMMA FreshIsShown ==
    ASSUME NEW p \in Settings!Stores
    PROVE  LET u == Settings!FreshUi(p)
           IN  /\ u \in Settings!Uis /\ u.key = Settings!FormKey(u, p) /\ Settings!Filled(u)
               /\ u.rules = p.rules /\ ~u.busy /\ ~u.lost
<1> DEFINE u == Settings!FreshUi(p)
<1>1. /\ p.rules \in Settings!Rules /\ p.gsc.property \in {Settings!None, "site"}
  BY DEF Settings!Stores
<1>2. /\ u.dialog = FALSE /\ u.editing = 0 /\ u.key = <<FALSE, Settings!None>> /\ u.source = Settings!NoGoal
      /\ u.form = Settings!DefaultGoalForm /\ u.rules = p.rules /\ ~u.busy /\ ~u.lost
  BY DEF Settings!FreshUi
<1>3. /\ Settings!NoGoal \in Settings!Sources /\ Settings!NoGoal.name = Settings!None
      /\ Settings!GoalForm(Settings!NoGoal) = Settings!DefaultGoalForm
  BY DEF Settings!Sources, Settings!NoGoal, Settings!GoalForm
<1>4. Settings!DefaultGoalForm \in Settings!Forms
  BY <1>3 DEF Settings!Forms
<1>5. <<FALSE, Settings!None>> \in BOOLEAN \X {goal.name : goal \in Settings!Sources}
  <2>1. Settings!None \in {goal.name : goal \in Settings!Sources}
    BY <1>3
  <2> HIDE DEF Settings!None
  <2> QED BY <2>1
<1>6. u \in Settings!Uis
  <2> DEFINE key == <<FALSE, Settings!None>>
  <2> HIDE DEF key
  <2>1. \A dialog \in BOOLEAN, busy \in BOOLEAN, touched \in BOOLEAN, lost \in BOOLEAN :
          [dialog |-> dialog, editing |-> 0, deleting |-> 0, busy |-> busy,
           key |-> key, form |-> Settings!DefaultGoalForm, source |-> Settings!NoGoal, touched |-> touched,
           funnel |-> Settings!None, rules |-> p.rules, lost |-> lost, property |-> p.gsc.property]
            \in Settings!Uis
    BY <1>1, <1>3, <1>4, <1>5 DEF Settings!Uis, key
  <2>2. u = [dialog |-> FALSE, editing |-> 0, deleting |-> 0, busy |-> FALSE,
             key |-> key, form |-> Settings!DefaultGoalForm, source |-> Settings!NoGoal, touched |-> FALSE,
             funnel |-> Settings!None, rules |-> p.rules, lost |-> FALSE, property |-> p.gsc.property]
    BY Zenon DEF Settings!FreshUi, key
  <2> QED BY <2>1, <2>2, Zenon
<1>7. Settings!EditingGoal(u, p) = Settings!NoGoal
  BY <1>2, EditedGoal
<1>8. u.key = Settings!FormKey(u, p)
  BY <1>2, <1>3, <1>7 DEF Settings!FormKey
<1>9. Settings!Filled(u)
  BY <1>2, <1>3 DEF Settings!Filled
<1> QED BY <1>2, <1>6, <1>8, <1>9

\* What is rendered: the form, filled anew when its key has changed.
LEMMA RenderedIsFilled ==
    ASSUME NEW u \in Settings!Uis, NEW p \in Settings!Stores, Settings!Filled(u)
    PROVE  LET r == Settings!Rendered(u, p)
           IN  /\ r \in Settings!Uis /\ r.key = Settings!FormKey(r, p) /\ Settings!Filled(r)
               /\ r.rules = u.rules /\ r.busy = u.busy /\ r.lost = u.lost
<1> DEFINE key == Settings!FormKey(u, p)
           goal == Settings!EditingGoal(u, p)
<1>1. CASE key = u.key
  <2>1. Settings!Rendered(u, p) = u
    BY <1>1 DEF Settings!Rendered
  <2> QED BY <1>1, <2>1
<1>2. CASE key # u.key
  <2> DEFINE r == [u EXCEPT !.key = key, !.form = Settings!GoalForm(goal), !.source = goal, !.touched = FALSE]
  <2>1. Settings!Rendered(u, p) = r
    BY <1>2, Zenon DEF Settings!Rendered
  <2>2. u.dialog \in BOOLEAN
    BY DEF Settings!Uis
  <2>3. /\ goal \in Settings!Sources /\ key \in BOOLEAN \X {g.name : g \in Settings!Sources}
        /\ key[2] = goal.name
    BY <2>2, EditedGoal
  <2>4. Settings!GoalForm(goal) \in Settings!Forms
    BY <2>3 DEF Settings!Forms
  <2>5. \A f : f.dialog = u.dialog /\ f.editing = u.editing => Settings!FormKey(f, p) = key
    BY DEF Settings!FormKey, Settings!EditingGoal
  <2> HIDE DEF key, goal
  <2> DEFINE form == Settings!GoalForm(goal)
  <2>6. form \in Settings!Forms
    BY <2>4
  <2> HIDE DEF form
  <2>7. \A touched \in BOOLEAN :
          [u EXCEPT !.key = key, !.form = form, !.source = goal, !.touched = touched] \in Settings!Uis
    BY <2>3, <2>6 DEF Settings!Uis
  <2>8. r \in Settings!Uis
    BY <2>7, Zenon DEF form
  <2>9. /\ r.key = key /\ r.form = form /\ r.source = goal /\ r.dialog = u.dialog /\ r.editing = u.editing
        /\ r.rules = u.rules /\ r.busy = u.busy /\ r.lost = u.lost
    BY DEF Settings!Uis, form
  <2> HIDE DEF r
  <2>10. Settings!Filled(r)
    BY <2>3, <2>9 DEF Settings!Filled, form
  <2> QED BY <2>1, <2>5, <2>8, <2>9, <2>10
<1> QED BY <1>1, <1>2

\* What the rules on the screen rest on stays while more saves are under way.
LEMMA SettingsSettles ==
    ASSUME Settings!Settling, s1'.rules = s1.rules, s2'.rules = s2.rules, s4'.rules = s4.rules,
           s6 \subseteq s6', UNCHANGED <<s7, s8, s9>>
    PROVE  Settings!Settling'
BY DEF Settings!Settling, Settings!Ahead, Settings!InSave, Settings!Image

\* What the tab does: it shows another state of its own, and may send a save.
LEMMA SettingsShow ==
    ASSUME Settings!Inductive, UNCHANGED <<s1, s2, s3, s7, s8, s9>>, Settings!Building',
           NEW u \in Settings!Uis, Settings!Filled(u), Settings!Show(u),
           s6 \subseteq s6', s6' \subseteq Settings!Saves,
           \A s \in s6' \ s6 : s.mount = s9 /\ (s.kind = "funnel" => s3 = "funnels"),
           \/ u.lost = s4.lost /\ u.rules = s4.rules
           \/ \E s \in s6' : s.kind = "rules" /\ s.mount = s9 /\ s.payload = u.rules /\ s.answer = "none",
           u.busy => s4.busy \/ \E s \in s6' : s.mount = s9
    PROVE  Settings!Inductive'
<1> DEFINE r == Settings!Rendered(u, s2)
<1>1. s4' = r
  BY DEF Settings!Show
<1>2. /\ r \in Settings!Uis /\ r.key = Settings!FormKey(r, s2) /\ Settings!Filled(r)
      /\ r.rules = u.rules /\ r.busy = u.busy /\ r.lost = u.lost
  BY RenderedIsFilled DEF Settings!Inductive, Settings!TypeOK
<1> HIDE DEF r
<1>3. Settings!TypeOK'
  BY <1>1, <1>2 DEF Settings!Inductive, Settings!TypeOK
<1>4. s4'.key = Settings!FormKey(s4, s2)' /\ Settings!Filled(s4)'
  BY <1>1, <1>2 DEF Settings!FormKey, Settings!EditingGoal, Settings!Filled
<1>5. Settings!OfMount'
  BY DEF Settings!Inductive, Settings!TypeOK, Settings!OfMount
<1>6. (s3 = "exclusions" /\ ~s4.lost => Settings!Settling)'
  <2>1. CASE u.lost = s4.lost /\ u.rules = s4.rules
    BY <1>1, <1>2, <2>1, SettingsSettles DEF Settings!Inductive
  <2>2. CASE \E s \in s6' : s.kind = "rules" /\ s.mount = s9 /\ s.payload = u.rules /\ s.answer = "none"
    BY <1>1, <1>2, <2>2 DEF Settings!Settling, Settings!InSave
  <2> QED BY <2>1, <2>2
<1>7. Settings!BusyIsUnderWay'
  BY <1>1, <1>2 DEF Settings!Inductive, Settings!BusyIsUnderWay
<1>8. Settings!Normalized'
  BY DEF Settings!Inductive, Settings!Normalized, Settings!Image
<1> QED BY <1>3, <1>4, <1>5, <1>6, <1>7, <1>8 DEF Settings!Inductive

\* What is known of the state.
LEMMA SettingsTypes ==
    ASSUME Settings!Inductive
    PROVE  /\ s1 \in Settings!Stores /\ s2 \in Settings!Stores /\ s4 \in Settings!Uis /\ s6 \subseteq Settings!Saves
           /\ s9 \in Nat /\ s5 \in Settings!Builders /\ Settings!Filled(s4) /\ Settings!Building
           /\ Settings!EmptyBuilder \in Settings!Builders
           /\ s5' = Settings!EmptyBuilder => Settings!Building'
           /\ s5' = s5 => Settings!Building'
<1>1. Settings!Building /\ Settings!TypeOK /\ Settings!Filled(s4)
  BY DEF Settings!Inductive
<1>2. Settings!EmptyBuilder \in Settings!Builders
  <2>1. \A reordered \in BOOLEAN : [steps |-> <<>>, editing |-> 0, step |-> <<>>, reordered |-> reordered] \in Settings!Builders
    BY DEF Settings!Builders
  <2> QED BY <2>1, Zenon DEF Settings!EmptyBuilder
<1>3. s5' = Settings!EmptyBuilder => Settings!Building'
  <2>1. Settings!EmptyBuilder.steps = <<>> /\ Settings!EmptyBuilder.editing = 0
    BY DEF Settings!EmptyBuilder
  <2>2. MaxSteps \in Nat
    BY PagesAssumption DEF Settings!SettingsAssumption
  <2> QED BY <1>2, <2>1, <2>2 DEF Settings!Building, Settings!EditedStepStays
<1>4. s5' = s5 => Settings!Building'
  BY <1>1 DEF Settings!Building, Settings!EditedStepStays
<1> QED BY <1>1, <1>2, <1>3, <1>4 DEF Settings!TypeOK, Settings!Building

\* The dialogs and the form.
LEMMA SettingsDialogs ==
    ASSUME Settings!Inductive,
           \/ \E i \in 0..Len(s2.goals) : Settings!OpenGoal(i) \/ (i # 0 /\ Settings!AskDeleteGoal(i))
           \/ Settings!Cancel
           \/ \E g \in GoalPool : Settings!TypeGoal(g)
           \/ \E f \in s2.funnels \cup {Settings!None} : Settings!OpenFunnel(f)
           \/ \E f \in s2.funnels : Settings!AskDeleteFunnel(f)
    PROVE  Settings!Inductive'
<1> USE SettingsTypes
<1>1. s2.goals \in Seq(Settings!Goals) /\ s2.funnels \subseteq Settings!Funnels
  BY DEF Settings!Stores
<1>2. ASSUME NEW i \in 0..Len(s2.goals), Settings!OpenGoal(i) PROVE Settings!Inductive'
  <2> DEFINE u == [s4 EXCEPT !.dialog = TRUE, !.editing = i]
  <2>1. i \in Nat
    BY <1>1, <1>2
  <2>2. \A dialog \in BOOLEAN : [s4 EXCEPT !.dialog = dialog, !.editing = i] \in Settings!Uis
    BY <2>1 DEF Settings!Uis
  <2>3. u \in Settings!Uis
    BY <2>2, Zenon
  <2>4. u.lost = s4.lost /\ u.rules = s4.rules /\ u.busy = s4.busy /\ Settings!Filled(u)
    BY DEF Settings!Uis, Settings!Filled
  <2>5. Settings!Show(u) /\ UNCHANGED <<s1, s2, s3, s7, s8, s9>> /\ s6' = s6 /\ s5' = s5
    BY <1>2 DEF Settings!OpenGoal
  <2> HIDE DEF u
  <2> QED BY <2>3, <2>4, <2>5, SettingsShow
<1>3. ASSUME NEW i \in 0..Len(s2.goals), Settings!AskDeleteGoal(i) PROVE Settings!Inductive'
  <2> DEFINE u == [s4 EXCEPT !.deleting = i]
  <2>1. i \in Nat
    BY <1>1, <1>3
  <2>2. u \in Settings!Uis
    BY <2>1 DEF Settings!Uis
  <2>3. u.lost = s4.lost /\ u.rules = s4.rules /\ u.busy = s4.busy /\ Settings!Filled(u)
    BY DEF Settings!Uis, Settings!Filled
  <2>4. Settings!Show(u) /\ UNCHANGED <<s1, s2, s3, s7, s8, s9>> /\ s6' = s6 /\ s5' = s5
    BY <1>3 DEF Settings!AskDeleteGoal
  <2> HIDE DEF u
  <2> QED BY <2>2, <2>3, <2>4, SettingsShow
<1>4. ASSUME Settings!Cancel PROVE Settings!Inductive'
  <2> DEFINE u == [s4 EXCEPT !.dialog = FALSE, !.editing = 0, !.deleting = 0, !.funnel = Settings!None]
  <2>1. \A dialog \in BOOLEAN, funnel \in Settings!Funnels \cup {Settings!None} :
          [s4 EXCEPT !.dialog = dialog, !.editing = 0, !.deleting = 0, !.funnel = funnel] \in Settings!Uis
    BY DEF Settings!Uis
  <2>2. Settings!None \in Settings!Funnels \cup {Settings!None}
    OBVIOUS
  <2>3. u \in Settings!Uis
    BY <2>1, <2>2, Zenon
  <2>4. u.lost = s4.lost /\ u.rules = s4.rules /\ u.busy = s4.busy /\ Settings!Filled(u)
    BY DEF Settings!Uis, Settings!Filled
  <2>5. Settings!Show(u) /\ UNCHANGED <<s1, s2, s3, s7, s8, s9>> /\ s6' = s6 /\ s5' = Settings!EmptyBuilder
    BY <1>4 DEF Settings!Cancel
  <2> HIDE DEF u
  <2> QED BY <2>3, <2>4, <2>5, SettingsShow
<1>5. ASSUME NEW g \in GoalPool, Settings!TypeGoal(g) PROVE Settings!Inductive'
  <2> DEFINE form == Settings!NormalizeGoal(g)
             u == [s4 EXCEPT !.form = form, !.touched = TRUE]
  <2>1. form \in Settings!Forms
    <3>1. g \in Settings!Goals /\ g \in Settings!Sources
      BY DEF Settings!Goals, Settings!Sources
    <3> QED BY <3>1, FormLeavesGoal DEF Settings!Forms
  <2>2. Settings!Show(u) /\ UNCHANGED <<s1, s2, s3, s7, s8, s9>> /\ s6' = s6 /\ s5' = s5
    BY <1>5 DEF Settings!TypeGoal
  <2> HIDE DEF form
  <2>3. \A touched \in BOOLEAN : [s4 EXCEPT !.form = form, !.touched = touched] \in Settings!Uis
    BY <2>1 DEF Settings!Uis
  <2>4. u \in Settings!Uis
    BY <2>3, Zenon
  <2>5. u.lost = s4.lost /\ u.rules = s4.rules /\ u.busy = s4.busy /\ Settings!Filled(u)
    BY DEF Settings!Uis, Settings!Filled
  <2> HIDE DEF u
  <2> QED BY <2>2, <2>4, <2>5, SettingsShow
<1>6. ASSUME NEW f \in s2.funnels \cup {Settings!None}, Settings!OpenFunnel(f) PROVE Settings!Inductive'
  <2> DEFINE u == [s4 EXCEPT !.dialog = TRUE, !.funnel = f]
  <2>1. f \in Settings!Funnels \cup {Settings!None}
    BY <1>1
  <2>2. \A dialog \in BOOLEAN : [s4 EXCEPT !.dialog = dialog, !.funnel = f] \in Settings!Uis
    BY <2>1 DEF Settings!Uis
  <2>3. u \in Settings!Uis
    BY <2>2, Zenon
  <2>4. u.lost = s4.lost /\ u.rules = s4.rules /\ u.busy = s4.busy /\ Settings!Filled(u)
    BY DEF Settings!Uis, Settings!Filled
  <2>5. Settings!Show(u) /\ UNCHANGED <<s1, s2, s3, s7, s8, s9>> /\ s6' = s6 /\ s5' = Settings!EmptyBuilder
    BY <1>6 DEF Settings!OpenFunnel
  <2> HIDE DEF u
  <2> QED BY <2>3, <2>4, <2>5, SettingsShow
<1>7. ASSUME NEW f \in s2.funnels, Settings!AskDeleteFunnel(f) PROVE Settings!Inductive'
  <2> DEFINE u == [s4 EXCEPT !.deleting = 1, !.funnel = f]
  <2>1. f \in Settings!Funnels \cup {Settings!None}
    BY <1>1
  <2>2. u \in Settings!Uis
    BY <2>1 DEF Settings!Uis
  <2>3. u.lost = s4.lost /\ u.rules = s4.rules /\ u.busy = s4.busy /\ Settings!Filled(u)
    BY DEF Settings!Uis, Settings!Filled
  <2>4. Settings!Show(u) /\ UNCHANGED <<s1, s2, s3, s7, s8, s9>> /\ s6' = s6 /\ s5' = s5
    BY <1>7 DEF Settings!AskDeleteFunnel
  <2> HIDE DEF u
  <2> QED BY <2>2, <2>3, <2>4, SettingsShow
<1> QED BY <1>2, <1>3, <1>4, <1>5, <1>6, <1>7

\* A save is sent, and the buttons are disabled.
LEMMA SettingsSend ==
    ASSUME Settings!Inductive, NEW kind, NEW payload, Settings!Fetch(kind, payload),
           [kind |-> kind, payload |-> payload, mount |-> s9, answer |-> "none"] \in Settings!Saves,
           kind = "funnel" => s3 = "funnels",
           UNCHANGED <<s1, s2, s3, s5, s7, s8, s9>>,
           Settings!Show([s4 EXCEPT !.busy = TRUE])
    PROVE  Settings!Inductive'
<1> USE SettingsTypes
<1> DEFINE save == [kind |-> kind, payload |-> payload, mount |-> s9, answer |-> "none"]
           u == [s4 EXCEPT !.busy = TRUE]
<1>1. \A busy \in BOOLEAN : [s4 EXCEPT !.busy = busy] \in Settings!Uis
  BY DEF Settings!Uis
<1>2. u \in Settings!Uis
  BY <1>1, Zenon
<1>3. u.lost = s4.lost /\ u.rules = s4.rules /\ Settings!Filled(u)
  BY DEF Settings!Uis, Settings!Filled
<1>4. save.kind = kind /\ save.mount = s9
  OBVIOUS
<1>5. s6' = s6 \cup {save} /\ save \in Settings!Saves
  BY DEF Settings!Fetch
<1>6. Settings!Show(u)
  OBVIOUS
<1> HIDE DEF u, save
<1>7. s6 \subseteq s6' /\ s6' \subseteq Settings!Saves /\ \A s \in s6' \ s6 : s = save
  BY <1>5
<1>8. \E s \in s6' : s.mount = s9
  BY <1>4, <1>5
<1> QED BY <1>2, <1>3, <1>4, <1>6, <1>7, <1>8, SettingsShow

\* A change of the rules is shown and sent.
LEMMA RulesSent ==
    ASSUME Settings!Inductive, NEW rules \in Settings!Rules, Settings!Fetch("rules", rules),
           UNCHANGED <<s1, s2, s3, s5, s7, s8, s9>>,
           Settings!Show([s4 EXCEPT !.rules = rules, !.busy = TRUE, !.lost = FALSE])
    PROVE  Settings!Inductive'
<1> USE SettingsTypes
<1> DEFINE save == [kind |-> "rules", payload |-> rules, mount |-> s9, answer |-> "none"]
           u == [s4 EXCEPT !.rules = rules, !.busy = TRUE, !.lost = FALSE]
<1>1. \A busy \in BOOLEAN, lost \in BOOLEAN :
        [s4 EXCEPT !.rules = rules, !.busy = busy, !.lost = lost] \in Settings!Uis
  BY DEF Settings!Uis
<1>2. u \in Settings!Uis
  BY <1>1, Zenon
<1>3. u.rules = rules /\ Settings!Filled(u)
  BY DEF Settings!Uis, Settings!Filled
<1>4. /\ save.kind = "rules" /\ save.mount = s9 /\ save.payload = rules /\ save.answer = "none"
      /\ save \in Settings!Saves
  BY DEF Settings!Saves, Settings!Replies
<1>5. s6' = s6 \cup {save}
  BY DEF Settings!Fetch
<1>6. Settings!Show(u)
  OBVIOUS
<1> HIDE DEF u, save
<1>7. s6 \subseteq s6' /\ s6' \subseteq Settings!Saves /\ save \in s6' /\ \A s \in s6' \ s6 : s = save
  BY <1>4, <1>5
<1> QED BY <1>2, <1>3, <1>4, <1>6, <1>7, SettingsShow

\* The names suggested are listed as goals.
LEMMA SuggestionsListed ==
    ASSUME NEW new \in SUBSET Suggested
    PROVE  Settings!SetToSeq({Settings!SuggestedGoal(n) : n \in new}) \in Seq(Settings!Goals)
<1> DEFINE goals == {Settings!SuggestedGoal(n) : n \in new}
           f == [n \in new |-> Settings!SuggestedGoal(n)]
<1>1. IsFiniteSet(Suggested)
  BY PagesAssumption DEF Settings!SettingsAssumption, Settings!IsFiniteSet, IsFiniteSet
<1>2. IsFiniteSet(new)
  BY <1>1, FS_Subset
<1>3. f \in Surjection(new, goals)
  BY DEF Surjection
<1>4. goals \subseteq Settings!Goals
  BY DEF Settings!Goals
<1> HIDE DEF f, goals
<1>5. IsFiniteSet(goals)
  BY <1>2, <1>3, FS_Surjection
<1>6. Settings!IsFiniteSet(goals)
  BY <1>5 DEF Settings!IsFiniteSet, IsFiniteSet
<1>7. Settings!SetToSeq(goals) \in Seq(goals)
  BY <1>6, SettingsLists
<1>8. Settings!SetToSeq(goals) \in Seq(Settings!Goals)
  BY <1>4, <1>7
<1> QED BY <1>8 DEF goals

\* The whole list of goals is saved.
LEMMA GoalsSent ==
    ASSUME Settings!Inductive, NEW kind \in {"goals", "promotion"}, NEW goals \in Seq(Settings!Goals),
           Settings!PersistGoals(kind, goals)
    PROVE  Settings!Inductive'
<1> USE SettingsTypes
<1>1. /\ Settings!Fetch(kind, goals) /\ UNCHANGED <<s1, s2, s3, s5, s7, s8, s9>>
      /\ Settings!Show([s4 EXCEPT !.busy = TRUE])
  BY DEF Settings!PersistGoals
<1>2. [kind |-> kind, payload |-> goals, mount |-> s9, answer |-> "none"] \in Settings!Saves
  BY DEF Settings!Saves, Settings!Replies
<1> QED BY <1>1, <1>2, SettingsSend

\* A funnel is saved or deleted, by name.
LEMMA FunnelSent ==
    ASSUME Settings!Inductive, NEW payload \in [old : Settings!Funnels \cup {Settings!None}, new : Settings!Funnels \cup {Settings!None}],
           Settings!Fetch("funnel", payload), s3 = "funnels", UNCHANGED <<s1, s2, s3, s5, s7, s8, s9>>,
           Settings!Show([s4 EXCEPT !.busy = TRUE])
    PROVE  Settings!Inductive'
<1> USE SettingsTypes
<1>1. [kind |-> "funnel", payload |-> payload, mount |-> s9, answer |-> "none"] \in Settings!Saves
  BY DEF Settings!Saves, Settings!Replies
<1> QED BY <1>1, SettingsSend

\* Everything that sends a save.
LEMMA SettingsSaves ==
    ASSUME Settings!Inductive,
           \/ Settings!SaveGoal \/ Settings!DeleteGoal \/ Settings!PromoteAll
           \/ \E n \in Suggested : Settings!PromoteSuggestion(n)
           \/ \E list \in {"include", "exclude"}, p \in RulePaths, add \in BOOLEAN : Settings!ChangeRule(list, p, add)
           \/ \E n \in {"mine", "other"} : Settings!SaveFunnel(n)
           \/ Settings!DeleteFunnel
    PROVE  Settings!Inductive'
<1> USE SettingsTypes
<1>1. s2.goals \in Seq(Settings!Goals) /\ Len(s2.goals) \in Nat /\ DOMAIN s2.goals = 1..Len(s2.goals)
  BY DEF Settings!Stores
<1>2. ASSUME Settings!SaveGoal PROVE Settings!Inductive'
  <2> DEFINE goal == Settings!GoalFormToPayload(s4.form)
             longer == Append(s2.goals, goal)
             edited == [i \in DOMAIN s2.goals |-> IF i = s4.editing THEN goal ELSE s2.goals[i]]
  <2>1. "save" \in Settings!GoalsOffer /\ Settings!PersistGoals("goals", IF s4.editing = 0 THEN longer ELSE edited)
    BY <1>2 DEF Settings!SaveGoal
  <2>2. Settings!ValidGoal(s4.form)
    BY <2>1 DEF Settings!GoalsOffer
  <2>3. PICK source \in Settings!Sources : s4.form = Settings!GoalForm(source)
    BY DEF Settings!Uis, Settings!Forms
  <2>4. goal \in Settings!Goals
    BY <2>2, <2>3, FormLeavesGoal
  <2> HIDE DEF goal
  <2>5. longer \in Seq(Settings!Goals)
    BY <1>1, <2>4
  <2>6. edited \in Seq(Settings!Goals)
    <3>1. edited \in [1..Len(s2.goals) -> Settings!Goals]
      BY <1>1, <2>4
    <3> QED BY <1>1, <3>1
  <2> HIDE DEF longer, edited
  <2> QED BY <2>1, <2>5, <2>6, GoalsSent
<1>3. ASSUME Settings!DeleteGoal PROVE Settings!Inductive'
  <2> DEFINE goals == IF s4.deleting \in DOMAIN s2.goals THEN Settings!RemoveAt(s2.goals, s4.deleting) ELSE s2.goals
  <2>1. Settings!PersistGoals("goals", goals)
    BY <1>3 DEF Settings!DeleteGoal
  <2>2. goals \in Seq(Settings!Goals)
    <3>1. CASE s4.deleting \in DOMAIN s2.goals
      <4>1. SubSeq(s2.goals, 1, s4.deleting - 1) \in Seq(Settings!Goals)
            /\ SubSeq(s2.goals, s4.deleting + 1, Len(s2.goals)) \in Seq(Settings!Goals)
        BY <1>1, <3>1
      <4> QED BY <3>1, <4>1 DEF Settings!RemoveAt
    <3> QED BY <1>1, <3>1
  <2> HIDE DEF goals
  <2> QED BY <2>1, <2>2, GoalsSent
<1>4. ASSUME Settings!PromoteAll PROVE Settings!Inductive'
  <2> DEFINE new == Suggested \ Settings!Names(s2.goals)
             listed == Settings!SetToSeq({Settings!SuggestedGoal(n) : n \in new})
             goals == s2.goals \o listed
  <2>1. Settings!PersistGoals("promotion", goals)
    BY <1>4 DEF Settings!PromoteAll
  <2>2. new \in SUBSET Suggested
    OBVIOUS
  <2>3. listed \in Seq(Settings!Goals)
    <3> HIDE DEF new
    <3> QED BY <2>2, SuggestionsListed
  <2> HIDE DEF listed
  <2>4. goals \in Seq(Settings!Goals)
    BY <1>1, <2>3
  <2> HIDE DEF goals
  <2> QED BY <2>1, <2>4, GoalsSent
<1>5. ASSUME NEW n \in Suggested, Settings!PromoteSuggestion(n) PROVE Settings!Inductive'
  <2> DEFINE goal == Settings!SuggestedGoal(n)
             goals == Append(s2.goals, goal)
  <2>1. Settings!PersistGoals("promotion", goals)
    BY <1>5 DEF Settings!PromoteSuggestion
  <2>2. goal \in Settings!Goals
    BY DEF Settings!Goals
  <2> HIDE DEF goal
  <2>3. goals \in Seq(Settings!Goals)
    BY <1>1, <2>2
  <2> HIDE DEF goals
  <2> QED BY <2>1, <2>3, GoalsSent
<1>6. ASSUME NEW list \in {"include", "exclude"}, NEW p \in RulePaths, NEW add \in BOOLEAN, Settings!ChangeRule(list, p, add)
      PROVE  Settings!Inductive'
  <2> DEFINE rules == [s4.rules EXCEPT ![list] = IF add THEN @ \cup {p} ELSE @ \ {p}]
  <2>1. /\ Settings!Fetch("rules", rules) /\ UNCHANGED <<s1, s2, s3, s5, s7, s8, s9>>
        /\ Settings!Show([s4 EXCEPT !.rules = rules, !.busy = TRUE, !.lost = FALSE])
    BY <1>6 DEF Settings!ChangeRule
  <2>2. rules \in Settings!Rules
    <3>1. s4.rules \in Settings!Rules
      BY DEF Settings!Uis
    <3> QED BY <3>1 DEF Settings!Rules
  <2> HIDE DEF rules
  <2> QED BY <2>1, <2>2, RulesSent
<1>7. ASSUME NEW n \in {"mine", "other"}, Settings!SaveFunnel(n) PROVE Settings!Inductive'
  <2> DEFINE payload == [old |-> s4.funnel, new |-> n]
  <2>1. s4.funnel \in Settings!Funnels \cup {Settings!None}
    BY DEF Settings!Uis
  <2>2. payload \in [old : Settings!Funnels \cup {Settings!None}, new : Settings!Funnels \cup {Settings!None}]
    BY <2>1 DEF Settings!Funnels
  <2>3. /\ Settings!Fetch("funnel", payload) /\ UNCHANGED <<s1, s2, s3, s5, s7, s8, s9>>
        /\ Settings!Show([s4 EXCEPT !.busy = TRUE])
    BY <1>7 DEF Settings!SaveFunnel
  <2>4. s3 = "funnels"
    BY <1>7 DEF Settings!SaveFunnel, Settings!FunnelsOffer
  <2> HIDE DEF payload
  <2> QED BY <2>2, <2>3, <2>4, FunnelSent
<1>8. ASSUME Settings!DeleteFunnel PROVE Settings!Inductive'
  <2> DEFINE payload == [old |-> s4.funnel, new |-> Settings!None]
  <2>1. s4.funnel \in Settings!Funnels \cup {Settings!None}
    BY DEF Settings!Uis
  <2>2. payload \in [old : Settings!Funnels \cup {Settings!None}, new : Settings!Funnels \cup {Settings!None}]
    BY <2>1
  <2>3. /\ Settings!Fetch("funnel", payload) /\ UNCHANGED <<s1, s2, s3, s5, s7, s8, s9>>
        /\ Settings!Show([s4 EXCEPT !.busy = TRUE])
    BY <1>8 DEF Settings!DeleteFunnel
  <2>4. s3 = "funnels"
    BY <1>8 DEF Settings!DeleteFunnel, Settings!FunnelsOffer
  <2> HIDE DEF payload
  <2> QED BY <2>2, <2>3, <2>4, FunnelSent
<1> QED BY <1>2, <1>3, <1>4, <1>5, <1>6, <1>7, <1>8

\* The steps of a funnel: nothing else of the page changes.
LEMMA BuilderStays ==
    ASSUME Settings!Inductive, UNCHANGED <<s1, s2, s3, s4, s6, s7, s8, s9>>, Settings!Building'
    PROVE  Settings!Inductive'
BY SettingsSettles
   DEF Settings!Inductive, Settings!TypeOK, Settings!OfMount, Settings!BusyIsUnderWay,
       Settings!Filled, Settings!FormKey, Settings!EditingGoal, Settings!Normalized, Settings!Image

\* What is left of a sequence, and one element in another place.
LEMMA StepRemoved ==
    ASSUME NEW S, NEW steps \in Seq(S), NEW i \in DOMAIN steps
    PROVE  LET r == Settings!RemoveAt(steps, i)
           IN  /\ r \in Seq(S) /\ Len(r) = Len(steps) - 1
               /\ \A j \in 1..Len(steps) - 1 : r[j] = IF j < i THEN steps[j] ELSE steps[j + 1]
<1> DEFINE before == SubSeq(steps, 1, i - 1)
           after == SubSeq(steps, i + 1, Len(steps))
<1>1. i \in 1..Len(steps) /\ Len(steps) \in Nat
  OBVIOUS
<1>2. /\ before \in Seq(S) /\ Len(before) = i - 1 /\ \A j \in 1..i - 1 : before[j] = steps[j]
      /\ after \in Seq(S) /\ Len(after) = Len(steps) - i
      /\ \A j \in 1..Len(steps) - i : after[j] = steps[i + j]
  BY <1>1
<1>3. Settings!RemoveAt(steps, i) = before \o after
  BY DEF Settings!RemoveAt
<1> HIDE DEF before, after
<1>4. before \o after \in Seq(S) /\ Len(before \o after) = Len(steps) - 1
  BY <1>1, <1>2
<1>5. ASSUME NEW j \in 1..Len(steps) - 1
      PROVE  (before \o after)[j] = IF j < i THEN steps[j] ELSE steps[j + 1]
  <2>1. CASE j < i
    BY <1>1, <1>2, <2>1
  <2>2. CASE ~(j < i)
    <3>1. (before \o after)[j] = after[j - (i - 1)]
      BY <1>1, <1>2, <2>2
    <3>2. j - (i - 1) \in 1..Len(steps) - i /\ i + (j - (i - 1)) = j + 1
      BY <1>1, <2>2
    <3> QED BY <1>2, <2>2, <3>1, <3>2
  <2> QED BY <2>1, <2>2
<1> QED BY <1>3, <1>4, <1>5

LEMMA StepInserted ==
    ASSUME NEW S, NEW steps \in Seq(S), NEW i \in 1..Len(steps) + 1, NEW step \in S
    PROVE  /\ Settings!InsertAt(steps, i, step) \in Seq(S)
           /\ Len(Settings!InsertAt(steps, i, step)) = Len(steps) + 1
<1> DEFINE before == SubSeq(steps, 1, i - 1)
           after == SubSeq(steps, i, Len(steps))
<1>1. Len(steps) \in Nat
  OBVIOUS
<1>2. /\ before \in Seq(S) /\ Len(before) = i - 1
      /\ after \in Seq(S) /\ Len(after) = Len(steps) + 1 - i
  BY <1>1
<1>3. Settings!InsertAt(steps, i, step) = before \o <<step>> \o after
  BY DEF Settings!InsertAt
<1> HIDE DEF before, after
<1>4. before \o <<step>> \o after \in Seq(S)
  BY <1>2
<1>5. Len(before \o <<step>>) = i /\ before \o <<step>> \in Seq(S)
  BY <1>2
<1>6. Len(before \o <<step>> \o after) = Len(steps) + 1
  BY <1>1, <1>2, <1>5
<1> QED BY <1>3, <1>4, <1>6

LEMMA SettingsBuilds ==
    ASSUME Settings!Inductive,
           \/ \E step \in StepPool, suggested \in BOOLEAN : Settings!ApplyStep(step, suggested)
           \/ \E i \in DOMAIN s5.steps : Settings!EditStep(i) \/ Settings!RemoveStep(i)
           \/ \E i, j \in DOMAIN s5.steps : Settings!DropStep(i, j)
           \/ Settings!CancelEditStep
    PROVE  Settings!Inductive'
<1> USE SettingsTypes
<1>1. /\ s5 \in Settings!Builders /\ s5.steps \in Seq(StepPool) /\ s5.editing \in Nat /\ MaxSteps \in Nat
      /\ s5.editing <= Len(s5.steps) /\ Len(s5.steps) <= MaxSteps /\ Len(s5.steps) \in Nat
      /\ DOMAIN s5.steps = 1..Len(s5.steps)
      /\ s5.editing # 0 /\ ~s5.reordered => s5.steps[s5.editing] = s5.step
  BY PagesAssumption DEF Settings!Building, Settings!Builders, Settings!SettingsAssumption, Settings!EditedStepStays
<1>2. ASSUME NEW step \in StepPool, NEW suggested \in BOOLEAN, Settings!ApplyStep(step, suggested)
      PROVE  Settings!Inductive'
  <2> DEFINE longer == Append(s5.steps, step)
             edited == [s5.steps EXCEPT ![s5.editing] = step]
             steps == IF s5.editing = 0 THEN longer ELSE edited
             b == [s5 EXCEPT !.steps = steps]
             r == [b EXCEPT !.editing = 0, !.step = <<>>]
  <2>1. s5' = r /\ UNCHANGED <<s1, s2, s3, s4, s6, s7, s8, s9>>
        /\ (s5.editing = 0 => Len(s5.steps) < MaxSteps)
    BY <1>2 DEF Settings!ApplyStep, Settings!ResetBuilder, Settings!CanAddStep
  <2>2. longer \in Seq(StepPool) /\ Len(longer) = Len(s5.steps) + 1
    BY <1>1
  <2>3. s5.editing # 0 => edited \in Seq(StepPool) /\ Len(edited) = Len(s5.steps)
    <3> SUFFICES ASSUME s5.editing # 0 PROVE edited \in Seq(StepPool) /\ Len(edited) = Len(s5.steps)
      OBVIOUS
    <3>1. edited \in [1..Len(s5.steps) -> StepPool]
      BY <1>1
    <3> QED BY <1>1, <3>1
  <2> HIDE DEF longer, edited
  <2>4. steps \in Seq(StepPool) /\ Len(steps) <= MaxSteps /\ Len(steps) \in Nat
    BY <1>1, <2>1, <2>2, <2>3
  <2> HIDE DEF steps
  <2>5. b \in Settings!Builders /\ b.steps = steps
    BY <1>1, <2>4 DEF Settings!Builders
  <2> HIDE DEF b
  <2>6. r \in Settings!Builders /\ r.editing = 0 /\ r.steps = steps
    BY <2>5 DEF Settings!Builders
  <2> HIDE DEF r
  <2>7. Settings!Building'
    BY <2>1, <2>4, <2>6 DEF Settings!Building, Settings!EditedStepStays
  <2> QED BY <2>1, <2>7, BuilderStays
<1>3. ASSUME NEW i \in DOMAIN s5.steps, Settings!EditStep(i) PROVE Settings!Inductive'
  <2> DEFINE step == s5.steps[i]
             r == [s5 EXCEPT !.editing = i, !.step = step, !.reordered = FALSE]
  <2>1. s5' = r /\ UNCHANGED <<s1, s2, s3, s4, s6, s7, s8, s9>>
    BY <1>3 DEF Settings!EditStep
  <2>6. i \in Nat /\ i # 0 /\ i <= Len(s5.steps) /\ step \in StepPool /\ step = s5.steps[i]
    BY <1>1
  <2> HIDE DEF step
  <2>2. \A reordered \in BOOLEAN : [s5 EXCEPT !.editing = i, !.step = step, !.reordered = reordered] \in Settings!Builders
    BY <1>1, <2>6 DEF Settings!Builders
  <2>3. r \in Settings!Builders
    BY <2>2, Zenon
  <2>4. r.editing = i /\ r.steps = s5.steps /\ r.step = step
    BY DEF Settings!Builders
  <2> HIDE DEF r
  <2>5. Settings!Building'
    BY <1>1, <2>1, <2>3, <2>4, <2>6 DEF Settings!Building, Settings!EditedStepStays
  <2> QED BY <2>1, <2>5, BuilderStays
<1>4. ASSUME NEW i \in DOMAIN s5.steps, Settings!RemoveStep(i) PROVE Settings!Inductive'
  <2> DEFINE steps == Settings!RemoveAt(s5.steps, i)
             editing == Settings!ShiftEditing(i)
             r == [s5 EXCEPT !.steps = steps, !.editing = editing]
  <2>1. s5' = r /\ UNCHANGED <<s1, s2, s3, s4, s6, s7, s8, s9>>
    BY <1>4 DEF Settings!RemoveStep
  <2>2. /\ steps \in Seq(StepPool) /\ Len(steps) = Len(s5.steps) - 1
        /\ \A j \in 1..Len(s5.steps) - 1 : steps[j] = IF j < i THEN s5.steps[j] ELSE s5.steps[j + 1]
    BY <1>1, StepRemoved
  <2>3. editing = IF s5.editing = i THEN 0 ELSE IF s5.editing > i THEN s5.editing - 1 ELSE s5.editing
    BY DEF Settings!ShiftEditing
  <2> HIDE DEF steps, editing
  <2>4. editing \in Nat /\ editing <= Len(steps) /\ Len(steps) <= MaxSteps
    BY <1>1, <2>2, <2>3
  <2>5. editing # 0 /\ ~s5.reordered => steps[editing] = s5.step
    BY <1>1, <2>2, <2>3
  <2>6. r \in Settings!Builders /\ r.steps = steps /\ r.editing = editing /\ r.step = s5.step /\ r.reordered = s5.reordered
    BY <1>1, <2>2, <2>4 DEF Settings!Builders
  <2> HIDE DEF r
  <2>7. Settings!Building'
    BY <2>1, <2>4, <2>5, <2>6 DEF Settings!Building, Settings!EditedStepStays
  <2> QED BY <2>1, <2>7, BuilderStays
<1>5. ASSUME NEW i \in DOMAIN s5.steps, NEW j \in DOMAIN s5.steps, Settings!DropStep(i, j) PROVE Settings!Inductive'
  <2> DEFINE rest == Settings!RemoveAt(s5.steps, i)
             step == s5.steps[i]
             steps == Settings!InsertAt(rest, j, step)
             r == [s5 EXCEPT !.steps = steps, !.reordered = TRUE]
  <2>1. s5' = r /\ UNCHANGED <<s1, s2, s3, s4, s6, s7, s8, s9>>
    BY <1>5 DEF Settings!DropStep
  <2>2. rest \in Seq(StepPool) /\ Len(rest) = Len(s5.steps) - 1
    BY <1>1, StepRemoved
  <2> HIDE DEF rest
  <2>3. j \in 1..Len(rest) + 1 /\ step \in StepPool
    BY <1>1, <2>2
  <2> HIDE DEF step
  <2>9. steps \in Seq(StepPool) /\ Len(steps) = Len(rest) + 1
    BY <2>2, <2>3, StepInserted
  <2>4. steps \in Seq(StepPool) /\ Len(steps) = Len(s5.steps)
    BY <1>1, <2>2, <2>9
  <2> HIDE DEF steps
  <2>5. \A reordered \in BOOLEAN : [s5 EXCEPT !.steps = steps, !.reordered = reordered] \in Settings!Builders
    BY <1>1, <2>4 DEF Settings!Builders
  <2>6. r \in Settings!Builders
    BY <2>5, Zenon
  <2>7. r.reordered /\ r.steps = steps /\ r.editing = s5.editing
    BY <1>1 DEF Settings!Builders
  <2> HIDE DEF r
  <2>8. Settings!Building'
    BY <1>1, <2>1, <2>4, <2>6, <2>7 DEF Settings!Building, Settings!EditedStepStays
  <2> QED BY <2>1, <2>8, BuilderStays
<1>6. ASSUME Settings!CancelEditStep PROVE Settings!Inductive'
  <2> DEFINE r == [s5 EXCEPT !.editing = 0, !.step = <<>>]
  <2>1. s5' = r /\ UNCHANGED <<s1, s2, s3, s4, s6, s7, s8, s9>>
    BY <1>6 DEF Settings!CancelEditStep, Settings!ResetBuilder
  <2>2. r \in Settings!Builders /\ r.editing = 0 /\ r.steps = s5.steps
    BY <1>1 DEF Settings!Builders
  <2> HIDE DEF r
  <2>3. Settings!Building'
    BY <1>1, <2>1, <2>2 DEF Settings!Building, Settings!EditedStepStays
  <2> QED BY <2>1, <2>3, BuilderStays
<1> QED BY <1>2, <1>3, <1>4, <1>5, <1>6

\* Another tab, or the page loaded anew: what was shown and sent before is of an older mount.
LEMMA SettingsMount ==
    ASSUME Settings!Inductive, NEW p \in Settings!Stores, s1' \in Settings!Stores, s2' = p,
           s3' \in Settings!Tabs, s4' = Settings!FreshUi(p), s5' = Settings!EmptyBuilder,
           s6' \subseteq s6, s7' \in [Settings!Reloads -> Nat],
           s8' \in Seq([only : Settings!Reloads, page : Settings!Stores]), s9' = s9 + 1,
           Settings!Normalized'
    PROVE  Settings!Inductive'
<1> USE SettingsTypes
<1> DEFINE u == Settings!FreshUi(p)
<1>1. /\ u \in Settings!Uis /\ u.key = Settings!FormKey(u, p) /\ Settings!Filled(u)
      /\ u.rules = p.rules /\ ~u.busy /\ ~u.lost
  BY FreshIsShown
<1>2. s4' = u
  OBVIOUS
<1> HIDE DEF u
<1>3. Settings!TypeOK'
  BY <1>1, <1>2 DEF Settings!TypeOK
<1>4. s4'.key = Settings!FormKey(s4, s2)' /\ Settings!Filled(s4)'
  BY <1>1, <1>2 DEF Settings!FormKey, Settings!EditingGoal, Settings!Filled
<1>5. Settings!OfMount'
  <2> SUFFICES ASSUME NEW s \in s6' PROVE s.mount <= s9' /\ s.mount # s9'
    BY DEF Settings!OfMount
  <2>1. s \in Settings!Saves /\ s.mount <= s9
    BY DEF Settings!Inductive, Settings!OfMount
  <2>2. s.mount \in Nat
    BY <2>1 DEF Settings!Saves
  <2> QED BY <2>1, <2>2
<1>6. Settings!Settling' /\ Settings!BusyIsUnderWay' /\ Settings!Building'
  BY <1>1, <1>2 DEF Settings!Settling, Settings!Ahead, Settings!Image, Settings!Normalized, Settings!BusyIsUnderWay
<1> QED BY <1>3, <1>4, <1>5, <1>6 DEF Settings!Inductive

LEMMA SettingsLoads ==
    ASSUME Settings!Inductive,
           \/ \E next \in Settings!Tabs : Settings!ChangeTab(next)
           \/ \E form \in {"connect", "disconnect", "refresh", "choose", "sync"} : Settings!SubmitGsc(form)
    PROVE  Settings!Inductive'
<1> USE SettingsTypes
<1>1. /\ s3 \in Settings!Tabs /\ s7 \in [Settings!Reloads -> Nat]
      /\ s8 \in Seq([only : Settings!Reloads, page : Settings!Stores])
  BY DEF Settings!Inductive, Settings!TypeOK
<1>2. ASSUME NEW next \in Settings!Tabs, Settings!ChangeTab(next) PROVE Settings!Inductive'
  <2>1. Settings!Normalized'
    BY <1>2 DEF Settings!ChangeTab, Settings!Inductive, Settings!Normalized, Settings!Image
  <2> QED BY <1>1, <1>2, <2>1, SettingsMount DEF Settings!ChangeTab
<1>3. ASSUME NEW form \in {"connect", "disconnect", "refresh", "choose", "sync"}, Settings!SubmitGsc(form)
      PROVE  Settings!Inductive'
  <2> DEFINE States == {"off", "reauth", "connected", "configured", "syncing"}
             gsc(next) == [state |-> next, property |-> IF next = "configured" THEN "site" ELSE s1.gsc.property]
             store(next) == [s1 EXCEPT !.gsc = gsc(next)]
  <2>1. s1.gsc \in [state : States, property : {Settings!None, "site"}]
    BY DEF Settings!Stores
  <2>2. \E next \in CASE form = "connect" -> {"connected", "off"}
                      [] form = "disconnect" -> {"off"}
                      [] form = "refresh" -> {s1.gsc.state, "reauth"}
                      [] form = "choose" -> {"configured"}
                      [] form = "sync" -> {"syncing", "configured", "reauth"} : s1' = store(next)
    BY <1>3, Zenon DEF Settings!SubmitGsc
  <2>3. PICK next \in States : s1' = store(next)
    <3>1. s1.gsc.state \in States
      BY <2>1
    <3> HIDE DEF store
    <3> QED BY <2>2, <3>1
  <2>4. gsc(next) \in [state : States, property : {Settings!None, "site"}]
    BY <2>1
  <2> HIDE DEF gsc
  <2>5. store(next) \in Settings!Stores /\ store(next).rules = s1.rules
    BY <2>4 DEF Settings!Stores
  <2>6. /\ s2' = s1' /\ s3' = s3 /\ s4' = Settings!FreshUi(s1') /\ s5' = Settings!EmptyBuilder
        /\ s6' = {} /\ s7' = [only \in DOMAIN s7 |-> 0] /\ s8' = <<>> /\ s9' = s9 + 1
    BY <1>3 DEF Settings!SubmitGsc
  <2> DEFINE p == store(next)
  <2>7. p \in Settings!Stores /\ s1' = p /\ p.rules = s1.rules
    BY <2>3, <2>5
  <2> HIDE DEF p, store
  <2>8. s7' \in [Settings!Reloads -> Nat] /\ s8' \in Seq([only : Settings!Reloads, page : Settings!Stores])
    BY <1>1, <2>6
  <2>9. Settings!Normalized'
    BY <2>6, <2>7 DEF Settings!Inductive, Settings!Normalized, Settings!Image
  <2> QED BY <1>1, <2>6, <2>7, <2>8, <2>9, SettingsMount
<1> QED BY <1>2, <1>3

\* Goals are kept as goals; what the server makes of paths stays so.
LEMMA SyncedGoals ==
    ASSUME NEW goals \in Seq(Settings!Goals)
    PROVE  Settings!Synced(goals) \in Seq(Settings!Goals)
<1> DEFINE kept == {goals[i] : i \in {j \in DOMAIN goals :
                      \A k \in DOMAIN goals : k > j => goals[k].name # goals[j].name}}
<1>1. kept \in SUBSET Settings!Goals
  OBVIOUS
<1>2. Settings!Synced(goals) = GoalOrder[kept]
  BY DEF Settings!Synced
<1> HIDE DEF kept
<1>3. GoalOrder[kept] \in Seq(kept)
  BY <1>1, PagesAssumption DEF Settings!SettingsAssumption
<1>4. GoalOrder[kept] \in Seq(Settings!Goals)
  BY <1>1, <1>3
<1> QED BY <1>2, <1>4

LEMMA ImageIsNormal ==
    ASSUME NEW rules \in Settings!Rules
    PROVE  LET image == Settings!Image(rules)
           IN  image \in Settings!Rules /\ image = Settings!Image(image)
<1>1. NormalPath \in [RulePaths -> RulePaths] /\ \A p \in RulePaths : NormalPath[NormalPath[p]] = NormalPath[p]
  BY PagesAssumption DEF Settings!SettingsAssumption
<1>2. ASSUME NEW paths \in SUBSET RulePaths
      PROVE  /\ {NormalPath[p] : p \in paths} \in SUBSET RulePaths
             /\ {NormalPath[q] : q \in {NormalPath[p] : p \in paths}} = {NormalPath[p] : p \in paths}
  BY <1>1
<1>3. rules.include \in SUBSET RulePaths /\ rules.exclude \in SUBSET RulePaths
  BY DEF Settings!Rules
<1> QED BY <1>2, <1>3 DEF Settings!Image, Settings!Rules

\* What is stored of a save, and what others change.
LEMMA StoredIsStore ==
    ASSUME NEW s \in Settings!Saves, s1 \in Settings!Stores, s1.rules = Settings!Image(s1.rules)
    PROVE  LET store == Settings!Stored(s)
           IN  /\ store \in Settings!Stores /\ store.rules = Settings!Image(store.rules)
               /\ s.kind = "rules" => store.rules = Settings!Image(s.payload)
<1>1. CASE s.kind \in {"goals", "promotion"}
  <2>1. s.payload \in Seq(Settings!Goals)
    BY <1>1 DEF Settings!Saves
  <2> DEFINE goals == Settings!Synced(s.payload)
  <2>2. Settings!Stored(s) = [s1 EXCEPT !.goals = goals]
    BY <1>1 DEF Settings!Stored
  <2>3. goals \in Seq(Settings!Goals)
    BY <2>1, SyncedGoals
  <2> HIDE DEF goals
  <2> QED BY <1>1, <2>2, <2>3 DEF Settings!Stores
<1>2. CASE s.kind = "rules"
  <2>1. s.payload \in Settings!Rules
    BY <1>2 DEF Settings!Saves
  <2> DEFINE rules == Settings!Image(s.payload)
  <2>2. Settings!Stored(s) = [s1 EXCEPT !.rules = rules]
    BY <1>2 DEF Settings!Stored
  <2>3. rules \in Settings!Rules /\ rules = Settings!Image(rules)
    BY <2>1, ImageIsNormal
  <2> HIDE DEF rules
  <2>4. Settings!Stored(s) \in Settings!Stores /\ Settings!Stored(s).rules = rules
    BY <2>2, <2>3 DEF Settings!Stores
  <2> QED BY <2>3, <2>4 DEF rules
<1>3. CASE s.kind = "funnel"
  <2> DEFINE funnels == (s1.funnels \ {s.payload.old}) \cup ({s.payload.new} \ {Settings!None})
  <2>1. s.payload \in [old : Settings!Funnels \cup {Settings!None}, new : Settings!Funnels \cup {Settings!None}]
    BY <1>3 DEF Settings!Saves
  <2>2. Settings!Stored(s) = [s1 EXCEPT !.funnels = funnels]
    BY <1>3 DEF Settings!Stored
  <2>3. funnels \in SUBSET Settings!Funnels
    BY <2>1 DEF Settings!Stores
  <2> HIDE DEF funnels
  <2> QED BY <1>3, <2>2, <2>3 DEF Settings!Stores
<1> QED BY <1>1, <1>2, <1>3 DEF Settings!Saves

\* Whatever changes on the server: rules that it overwrites before the page was told of them are lost,
\* and a save keeps what it carries.
LEMMA SettingsOverwritten ==
    ASSUME Settings!Inductive, s1' \in Settings!Stores, s1'.rules = Settings!Image(s1'.rules),
           UNCHANGED <<s2, s3, s5, s7, s8, s9>>, Settings!Overwriting,
           \A q \in s6' : q \in Settings!Saves /\ \E p \in s6 : p.kind = q.kind /\ p.mount = q.mount,
           \A q \in s6 : \E p \in s6' :
             /\ p.kind = q.kind /\ p.mount = q.mount /\ p.payload = q.payload
             /\ p.answer = "ok" =>
                  q.answer = "ok" \/ (q.kind = "rules" => s1'.rules = Settings!Image(q.payload))
    PROVE  Settings!Inductive'
<1> USE SettingsTypes
<1> DEFINE gone == Settings!Ahead /\ s1.rules = Settings!Image(s4.rules) /\ s1'.rules # s1.rules
           lost == s4.lost \/ gone
<1>1. lost \in BOOLEAN
  BY Zenon
<1>2. s4' = [s4 EXCEPT !.lost = lost]
  BY Zenon DEF Settings!Overwriting
<1>3. s4'.lost = lost /\ s4' = [s4 EXCEPT !.lost = s4'.lost] /\ s4' \in Settings!Uis
  <2> HIDE DEF lost
  <2> QED BY <1>1, <1>2 DEF Settings!Uis
<1>4. /\ s4'.rules = s4.rules /\ s4'.busy = s4.busy /\ s4'.key = s4.key /\ s4'.dialog = s4.dialog
      /\ s4'.editing = s4.editing /\ s4'.source = s4.source /\ s4'.touched = s4.touched /\ s4'.form = s4.form
  BY <1>3 DEF Settings!Uis
<1>5. Settings!TypeOK'
  BY <1>3 DEF Settings!Inductive, Settings!TypeOK
<1>6. s4'.key = Settings!FormKey(s4, s2)' /\ Settings!Filled(s4)' /\ Settings!Building'
  BY <1>4 DEF Settings!Inductive, Settings!FormKey, Settings!EditingGoal, Settings!Filled
<1>7. Settings!OfMount' /\ Settings!BusyIsUnderWay'
  BY <1>4 DEF Settings!Inductive, Settings!OfMount, Settings!BusyIsUnderWay
<1>8. Settings!Normalized'
  BY DEF Settings!Inductive, Settings!Normalized, Settings!Image
<1>9. ASSUME s3 = "exclusions", ~s4'.lost PROVE Settings!Settling'
  <2>1. ~s4.lost /\ ~gone /\ Settings!Settling
    BY <1>3, <1>9 DEF Settings!Inductive
  <2> DEFINE image == Settings!Image(s4.rules)
  <2>2. Settings!Image(s4.rules)' = image /\ Settings!Ahead' = Settings!Ahead
    BY <1>4 DEF Settings!Ahead, Settings!Image
  <2>3. Settings!Ahead /\ s1.rules = image => s1'.rules = image
    BY <2>1
  <2> HIDE DEF image
  <2>4. CASE ~Settings!Ahead
    BY <2>2, <2>4 DEF Settings!Settling
  <2>5. CASE Settings!Ahead /\ Settings!InSave
    <3>1. PICK q \in s6 : /\ q.kind = "rules" /\ q.mount = s9 /\ q.payload = s4.rules
                          /\ q.answer = "ok" => s1.rules = image
      BY <2>5 DEF Settings!InSave, image
    <3>2. PICK p \in s6' :
             /\ p.kind = q.kind /\ p.mount = q.mount /\ p.payload = q.payload
             /\ p.answer = "ok" => q.answer = "ok" \/ s1'.rules = Settings!Image(q.payload)
      BY <3>1
    <3>3. p.answer = "ok" => s1'.rules = image
      BY <2>3, <2>5, <3>1, <3>2 DEF image
    <3> QED BY <1>4, <2>2, <3>1, <3>2, <3>3 DEF Settings!Settling, Settings!InSave
  <2>6. CASE Settings!Ahead /\ s7["settings"] > 0 /\ s1.rules = image
    BY <2>2, <2>3, <2>6 DEF Settings!Settling
  <2>7. CASE \E i \in DOMAIN s8 : s8[i].page.rules = image
    BY <2>2, <2>7 DEF Settings!Settling
  <2> QED BY <2>1, <2>4, <2>5, <2>6, <2>7 DEF Settings!Settling, image
<1> QED BY <1>5, <1>6, <1>7, <1>8, <1>9 DEF Settings!Inductive

LEMMA SettingsServer ==
    ASSUME Settings!Inductive,
           \/ \E s \in s6 : Settings!HandleSave(s)
           \/ Settings!OtherChange
    PROVE  Settings!Inductive'
<1> USE SettingsTypes
<1>1. s1.rules = Settings!Image(s1.rules)
  BY DEF Settings!Inductive, Settings!Normalized
<1>2. ASSUME NEW s \in s6, Settings!HandleSave(s) PROVE Settings!Inductive'
  <2>1. s \in Settings!Saves
    OBVIOUS
  <2>2. /\ s1' \in Settings!Stores /\ s1'.rules = Settings!Image(s1'.rules)
        /\ s1' = s1 \/ (s.kind = "rules" => s1'.rules = Settings!Image(s.payload))
    BY <1>1, <1>2, <2>1, StoredIsStore DEF Settings!HandleSave
  <2>3. PICK reply \in Settings!Replies :
          /\ s6' = (s6 \ {s}) \cup {[s EXCEPT !.answer = reply]}
          /\ reply = "ok" /\ s.kind = "rules" => s1'.rules = Settings!Image(s.payload)
    <3>1. CASE \E answer \in {"ok", "down"} :
                 s1' = Settings!Stored(s) /\ s6' = (s6 \ {s}) \cup {[s EXCEPT !.answer = answer]}
      BY <1>1, <2>1, <3>1, StoredIsStore DEF Settings!Replies
    <3>2. CASE \E answer \in {"rejected", "down"} : s6' = (s6 \ {s}) \cup {[s EXCEPT !.answer = answer]}
      BY <3>2 DEF Settings!Replies
    <3> QED BY <1>2, <3>1, <3>2 DEF Settings!HandleSave
  <2> DEFINE r == [s EXCEPT !.answer = reply]
  <2>4. /\ r \in Settings!Saves /\ r.kind = s.kind /\ r.mount = s.mount /\ r.payload = s.payload
        /\ r.answer = reply
    BY <2>1, <2>3 DEF Settings!Saves
  <2>5. s6' = (s6 \ {s}) \cup {r}
    BY <2>3
  <2> HIDE DEF r
  <2>6. UNCHANGED <<s2, s3, s5, s7, s8, s9>> /\ Settings!Overwriting
    BY <1>2 DEF Settings!HandleSave
  <2>7. \A q \in s6' : q \in Settings!Saves /\ \E p \in s6 : p.kind = q.kind /\ p.mount = q.mount
    BY <2>4, <2>5
  <2>8. \A q \in s6 : \E p \in s6' :
          /\ p.kind = q.kind /\ p.mount = q.mount /\ p.payload = q.payload
          /\ p.answer = "ok" =>
               q.answer = "ok" \/ (q.kind = "rules" => s1'.rules = Settings!Image(q.payload))
    BY <2>3, <2>4, <2>5
  <2> QED BY <2>2, <2>6, <2>7, <2>8, SettingsOverwritten
<1>3. ASSUME Settings!OtherChange PROVE Settings!Inductive'
  <2>1. UNCHANGED <<s2, s3, s5, s6, s7, s8, s9>> /\ Settings!Overwriting
    BY <1>3 DEF Settings!OtherChange
  <2>2. s1' \in Settings!Stores /\ s1'.rules = Settings!Image(s1'.rules)
    <3>1. s1.goals \in Seq(Settings!Goals)
      BY DEF Settings!Stores
    <3>2. ASSUME NEW goals \in Seq(Settings!Goals), s1' = [s1 EXCEPT !.goals = goals]
          PROVE  s1' \in Settings!Stores /\ s1'.rules = s1.rules
      BY <3>2 DEF Settings!Stores
    <3>3. ASSUME NEW i \in DOMAIN s1.goals, NEW g \in GoalPool,
                 s1' = [s1 EXCEPT !.goals = Settings!Synced([@ EXCEPT ![i] = g])]
          PROVE  s1' \in Settings!Stores /\ s1'.rules = s1.rules
      <4> DEFINE edited == [s1.goals EXCEPT ![i] = g]
                 goals == Settings!Synced(edited)
      <4>1. g \in Settings!Goals
        BY DEF Settings!Goals
      <4>2. edited \in Seq(Settings!Goals)
        BY <3>1, <4>1
      <4>3. s1' = [s1 EXCEPT !.goals = goals]
        BY <3>3
      <4> HIDE DEF edited
      <4>4. goals \in Seq(Settings!Goals)
        BY <4>2, SyncedGoals
      <4> HIDE DEF goals
      <4> QED BY <3>2, <4>3, <4>4
    <3>4. ASSUME s1.goals # <<>>, s1' = [s1 EXCEPT !.goals = Tail(@)]
          PROVE  s1' \in Settings!Stores /\ s1'.rules = s1.rules
      <4> DEFINE goals == Tail(s1.goals)
      <4>1. goals \in Seq(Settings!Goals)
        BY <3>1, <3>4
      <4>2. s1' = [s1 EXCEPT !.goals = goals]
        BY <3>4
      <4> HIDE DEF goals
      <4> QED BY <3>2, <4>1, <4>2
    <3>5. ASSUME NEW p \in RulePaths, s1' = [s1 EXCEPT !.rules = [@ EXCEPT !.exclude = {NormalPath[p]}]]
          PROVE  s1' \in Settings!Stores /\ s1'.rules = Settings!Image(s1'.rules)
      <4> DEFINE rules == [s1.rules EXCEPT !.exclude = {NormalPath[p]}]
      <4>1. s1.rules \in Settings!Rules
        BY DEF Settings!Stores
      <4>2. NormalPath[p] \in RulePaths /\ NormalPath[NormalPath[p]] = NormalPath[p]
        BY PagesAssumption DEF Settings!SettingsAssumption
      <4>3. rules \in Settings!Rules /\ rules.include = s1.rules.include /\ rules.exclude = {NormalPath[p]}
        BY <4>1, <4>2 DEF Settings!Rules
      <4>4. s1' = [s1 EXCEPT !.rules = rules]
        BY <3>5
      <4> HIDE DEF rules
      <4>5. s1' \in Settings!Stores /\ s1'.rules = rules
        BY <4>3, <4>4 DEF Settings!Stores
      <4>6. rules.include = {NormalPath[q] : q \in rules.include}
        <5>1. s1.rules.include = Settings!Image(s1.rules).include
          BY <1>1
        <5> QED BY <4>3, <5>1 DEF Settings!Image
      <4>7. rules.exclude = {NormalPath[q] : q \in rules.exclude}
        BY <4>2, <4>3
      <4>8. rules = Settings!Image(rules)
        BY <4>3, <4>6, <4>7 DEF Settings!Image, Settings!Rules
      <4> QED BY <4>5, <4>8
    <3>6. ASSUME s1' = [s1 EXCEPT !.funnels = {"other"}]
          PROVE  s1' \in Settings!Stores /\ s1'.rules = s1.rules
      <4>1. {"other"} \in SUBSET Settings!Funnels
        BY DEF Settings!Funnels
      <4> QED BY <3>6, <4>1 DEF Settings!Stores
    <3> QED BY <1>1, <1>3, <3>3, <3>4, <3>5, <3>6 DEF Settings!OtherChange
  <2>3. /\ \A q \in s6' : q \in Settings!Saves /\ \E p \in s6 : p.kind = q.kind /\ p.mount = q.mount
        /\ \A q \in s6 : \E p \in s6' :
             /\ p.kind = q.kind /\ p.mount = q.mount /\ p.payload = q.payload
             /\ p.answer = "ok" =>
                  q.answer = "ok" \/ (q.kind = "rules" => s1'.rules = Settings!Image(q.payload))
    BY <2>1
  <2> QED BY <2>1, <2>2, <2>3, SettingsOverwritten
<1> QED BY <1>2, <1>3

\* A save is answered: the buttons come back, and what was taken, or refused of the rules, is asked for
\* again.
LEMMA SettingsAnswered ==
    ASSUME Settings!Inductive, NEW s \in s6, Settings!Response(s)
    PROVE  Settings!Inductive'
<1> USE SettingsTypes
<1> DEFINE only == IF s.kind = "funnel" THEN "page" ELSE "settings"
           ended == IF Settings!EndsBusy(s) THEN [s4 EXCEPT !.busy = FALSE] ELSE s4
           lost == s4.lost \/ (s.kind = "rules" /\ s.answer # "ok")
           heard == [ended EXCEPT !.lost = @ \/ (s.kind = "rules" /\ s.answer # "ok")]
           u == IF s.answer = "ok" /\ s.kind # "rules" THEN Settings!Closed(heard) ELSE heard
           r == Settings!Rendered(u, s2)
<1>1. /\ s6' = s6 \ {s} /\ UNCHANGED <<s1, s2, s3, s5, s8, s9>> /\ s.answer # "none"
      /\ s7' = (IF Settings!ReloadsAfter(s) THEN [s7 EXCEPT ![only] = @ + 1] ELSE s7)
      /\ s4' = (IF s.mount # s9 THEN s4 ELSE r)
  BY DEF Settings!Response, Settings!Show
<1>2. s \in Settings!Saves /\ s.mount <= s9 /\ s.answer \in Settings!Replies
      /\ (s.kind = "funnel" /\ s.mount = s9 => s3 = "funnels")
      /\ s7 \in [Settings!Reloads -> Nat]
  BY DEF Settings!Inductive, Settings!TypeOK, Settings!OfMount, Settings!Saves
<1>3. /\ ended \in Settings!Uis /\ Settings!Filled(ended) /\ ended.rules = s4.rules
      /\ ended.lost = s4.lost /\ (Settings!EndsBusy(s) => ~ended.busy)
  <2>1. \A busy \in BOOLEAN : [s4 EXCEPT !.busy = busy] \in Settings!Uis
    BY DEF Settings!Uis
  <2>2. ended \in Settings!Uis
    BY <2>1, Zenon
  <2> QED BY <2>2 DEF Settings!Uis, Settings!Filled
<1> HIDE DEF ended
<1>4. heard = [ended EXCEPT !.lost = lost]
  BY <1>3 DEF Settings!Uis
<1>5. lost \in BOOLEAN
  BY Zenon
<1>6. /\ heard \in Settings!Uis /\ Settings!Filled(heard) /\ heard.rules = s4.rules
      /\ (heard.lost <=> lost) /\ heard.busy = ended.busy
  <2> HIDE DEF heard, lost
  <2>1. heard \in Settings!Uis
    BY <1>3, <1>4, <1>5 DEF Settings!Uis
  <2> QED BY <1>3, <1>4, <1>5, <2>1 DEF Settings!Uis, Settings!Filled
<1> HIDE DEF heard
<1>7. /\ u \in Settings!Uis /\ Settings!Filled(u) /\ u.rules = s4.rules
      /\ (u.lost <=> lost) /\ (Settings!EndsBusy(s) => ~u.busy)
  <2> DEFINE c == Settings!Closed(heard)
  <2>1. \A dialog \in BOOLEAN, funnel \in Settings!Funnels \cup {Settings!None} :
          [heard EXCEPT !.dialog = dialog, !.editing = 0, !.deleting = 0, !.funnel = funnel] \in Settings!Uis
    BY <1>6 DEF Settings!Uis
  <2>2. Settings!None \in Settings!Funnels \cup {Settings!None}
    OBVIOUS
  <2>3. c \in Settings!Uis
    BY <2>1, <2>2, Zenon DEF Settings!Closed
  <2>4. c.rules = heard.rules /\ c.lost = heard.lost /\ c.busy = heard.busy
        /\ c.source = heard.source /\ c.key = heard.key /\ c.touched = heard.touched /\ c.form = heard.form
    BY <1>6 DEF Settings!Closed, Settings!Uis
  <2> HIDE DEF c, lost
  <2>5. Settings!Filled(c)
    BY <1>6, <2>4 DEF Settings!Filled
  <2>6. u \in {c, heard}
    BY DEF c
  <2> HIDE DEF u
  <2> QED BY <1>3, <1>6, <2>3, <2>4, <2>5, <2>6
<1> HIDE DEF u
<1>8. /\ r \in Settings!Uis /\ r.key = Settings!FormKey(r, s2) /\ Settings!Filled(r)
      /\ r.rules = u.rules /\ r.busy = u.busy /\ r.lost = u.lost
  BY <1>7, RenderedIsFilled
<1> HIDE DEF r
<1>9. s4' \in Settings!Uis /\ s4'.key = Settings!FormKey(s4', s2) /\ Settings!Filled(s4') /\ s4'.rules = s4.rules
  BY <1>1, <1>7, <1>8 DEF Settings!Inductive
<1>10. s7' \in [Settings!Reloads -> Nat] /\ (Settings!ReloadsAfter(s) => s7'[only] > 0)
       /\ \A o \in Settings!Reloads : s7'[o] >= s7[o]
  <2>1. only \in Settings!Reloads
    BY DEF Settings!Reloads
  <2> HIDE DEF only
  <2> QED BY <1>1, <1>2, <2>1
<1>11. Settings!TypeOK'
  BY <1>1, <1>9, <1>10 DEF Settings!Inductive, Settings!TypeOK
<1>12. Settings!OfMount'
  BY <1>1 DEF Settings!Inductive, Settings!OfMount
<1>13. ASSUME s3 = "exclusions", ~s4'.lost PROVE Settings!Settling'
  <2>1. s.mount = s9 => ~lost
    BY <1>1, <1>7, <1>8, <1>13
  <2>2. ~s4.lost /\ Settings!Settling
    BY <1>1, <1>13, <2>1 DEF Settings!Inductive
  <2>3. s7["settings"] \in Nat /\ s7'["settings"] \in Nat /\ s7'["settings"] >= s7["settings"]
    BY <1>2, <1>10 DEF Settings!Reloads
  <2> DEFINE image == Settings!Image(s4.rules)
  <2>4. Settings!Image(s4.rules)' = image /\ Settings!Ahead' = Settings!Ahead
    BY <1>1, <1>9 DEF Settings!Ahead, Settings!Image
  <2>5. CASE Settings!InSave
    <3>1. PICK q \in s6 : /\ q.kind = "rules" /\ q.mount = s9 /\ q.payload = s4.rules
                          /\ q.answer = "ok" => s1.rules = image
      BY <2>5 DEF Settings!InSave
    <3> HIDE DEF image
    <3>2. CASE q # s
      <4>1. q \in s6'
        BY <1>1, <3>2
      <4>2. Settings!InSave'
        BY <1>1, <1>9, <2>4, <3>1, <4>1 DEF Settings!InSave
      <4> QED BY <4>2 DEF Settings!Settling
    <3>3. CASE q = s
      <4>1. s.answer = "ok"
        BY <2>1, <3>1, <3>3
      <4>2. Settings!ReloadsAfter(s) /\ only = "settings"
        BY <3>1, <3>3, <4>1 DEF Settings!ReloadsAfter
      <4>3. s7'["settings"] > 0 /\ s1'.rules = image
        BY <1>1, <1>10, <3>1, <3>3, <4>1, <4>2
      <4> QED BY <2>4, <4>3 DEF Settings!Settling
    <3> QED BY <3>2, <3>3
  <2>6. CASE ~Settings!Ahead \/ (s7["settings"] > 0 /\ s1.rules = image) \/ \E i \in DOMAIN s8 : s8[i].page.rules = image
    <3> HIDE DEF image
    <3> QED BY <1>1, <2>3, <2>4, <2>6 DEF Settings!Settling
  <2> QED BY <2>2, <2>5, <2>6 DEF Settings!Settling
<1>14. Settings!BusyIsUnderWay'
  <2> SUFFICES ASSUME s3 \in {"goals", "exclusions"}, s4'.busy PROVE \E q \in s6' : q.mount = s9
    BY <1>1 DEF Settings!BusyIsUnderWay
  <2>1. CASE s.mount = s9
    <3>1. Settings!EndsBusy(s)
      BY <1>2, <2>1 DEF Settings!EndsBusy
    <3> QED BY <1>1, <1>7, <1>8, <2>1, <3>1
  <2>2. CASE s.mount # s9
    <3>1. \E q \in s6 : q.mount = s9
      BY <1>1, <2>2 DEF Settings!Inductive, Settings!BusyIsUnderWay
    <3> QED BY <1>1, <2>2, <3>1
  <2> QED BY <2>1, <2>2
<1>15. s4'.key = Settings!FormKey(s4, s2)' /\ Settings!Filled(s4)' /\ Settings!Building'
  BY <1>1, <1>9 DEF Settings!FormKey, Settings!EditingGoal, Settings!Filled
<1>16. Settings!Normalized'
  BY <1>1 DEF Settings!Inductive, Settings!Normalized, Settings!Image
<1> QED BY <1>1, <1>11, <1>12, <1>13, <1>14, <1>15, <1>16 DEF Settings!Inductive

\* A reload, on its way and there.
LEMMA SettingsReloads ==
    ASSUME Settings!Inductive,
           \/ \E only \in DOMAIN s7 : Settings!AnswerReload(only)
           \/ \E i \in DOMAIN s8, other \in BOOLEAN : Settings!ReceiveReload(i, other)
    PROVE  Settings!Inductive'
<1> USE SettingsTypes
<1> DEFINE Answers == [only : Settings!Reloads, page : Settings!Stores]
<1>1. s7 \in [Settings!Reloads -> Nat] /\ s8 \in Seq(Answers)
  BY DEF Settings!Inductive, Settings!TypeOK
<1>2. ASSUME NEW only \in DOMAIN s7, Settings!AnswerReload(only) PROVE Settings!Inductive'
  <2> DEFINE answer == [only |-> only, page |-> s1]
  <2>1. s7' = [s7 EXCEPT ![only] = @ - 1] /\ s7[only] > 0 /\ s8' = Append(s8, answer)
        /\ UNCHANGED <<s1, s2, s3, s4, s5, s6, s9>>
    BY <1>2 DEF Settings!AnswerReload
  <2>2. only \in Settings!Reloads
    BY <1>1
  <2>3. s7' \in [Settings!Reloads -> Nat]
    BY <1>1, <2>1, <2>2
  <2>4. answer \in Answers
    BY <2>2
  <2> HIDE DEF answer, Answers
  <2>5. s8' \in Seq(Answers) /\ s8' # <<>>
    BY <1>1, <2>1, <2>4
  <2>6. Settings!TypeOK'
    BY <2>1, <2>3, <2>5 DEF Settings!Inductive, Settings!TypeOK, Answers
  <2>7. \A j \in DOMAIN s8 : j \in DOMAIN s8' /\ s8'[j] = s8[j]
    BY <1>1, <2>1, <2>4
  <2>8. DOMAIN s8' = 1..Len(s8) + 1 /\ s8'[Len(s8) + 1].page = s1
    <3>1. s8'[Len(s8) + 1] = answer /\ DOMAIN s8' = 1..Len(s8) + 1
      BY <1>1, <2>1, <2>4
    <3> QED BY <3>1 DEF answer
  <2>9. ASSUME s3 = "exclusions", ~s4.lost PROVE Settings!Settling'
    <3>1. Settings!Settling
      BY <2>9 DEF Settings!Inductive
    <3>2. CASE ~Settings!Ahead \/ Settings!InSave
      BY <2>1, <3>2 DEF Settings!Settling, Settings!Ahead, Settings!InSave, Settings!Image
    <3>3. CASE s1.rules = Settings!Image(s4.rules)
      <4>1. Len(s8) + 1 \in DOMAIN s8'
        BY <1>1, <2>8
      <4> QED BY <2>1, <2>8, <3>3, <4>1 DEF Settings!Settling, Settings!Image
    <3>4. CASE \E j \in DOMAIN s8 : s8[j].page.rules = Settings!Image(s4.rules)
      BY <2>1, <2>7, <3>4 DEF Settings!Settling, Settings!Image
    <3> QED BY <3>1, <3>2, <3>3, <3>4 DEF Settings!Settling
  <2>10. Settings!Normalized'
    <3>1. \A j \in DOMAIN s8' : j \in DOMAIN s8 \/ j = Len(s8) + 1
      BY <1>1, <2>8
    <3> QED BY <2>1, <2>7, <2>8, <3>1 DEF Settings!Inductive, Settings!Normalized, Settings!Image
  <2>11. /\ s4'.key = Settings!FormKey(s4, s2)' /\ Settings!Filled(s4)' /\ Settings!Building' /\ Settings!OfMount'
         /\ Settings!BusyIsUnderWay'
    BY <2>1 DEF Settings!Inductive, Settings!FormKey, Settings!EditingGoal, Settings!Filled, Settings!OfMount,
                Settings!BusyIsUnderWay
  <2> QED BY <2>1, <2>6, <2>9, <2>10, <2>11 DEF Settings!Inductive
<1>3. ASSUME NEW i \in DOMAIN s8, NEW other \in BOOLEAN, Settings!ReceiveReload(i, other) PROVE Settings!Inductive'
  <2> DEFINE store == s8[i].page
             p == IF s8[i].only = "page" THEN store ELSE [store EXCEPT !.funnels = s2.funnels]
             resets == other \/ Settings!Resets(store)
             u == IF resets THEN [s4 EXCEPT !.rules = store.rules, !.lost = FALSE] ELSE s4
             r == Settings!Rendered(u, p)
  <2>1. s8' = Settings!RemoveAt(s8, i) /\ s2' = p /\ s4' = Settings!Rendered(u, s2')
        /\ UNCHANGED <<s1, s3, s5, s6, s7, s9>>
    BY <1>3 DEF Settings!ReceiveReload
  <2>2. s8[i] \in Answers
    <3> HIDE DEF Answers
    <3> QED BY <1>1
  <2>3. store \in Settings!Stores /\ store.rules \in Settings!Rules /\ store.rules = Settings!Image(store.rules)
    BY <2>2 DEF Settings!Stores, Settings!Inductive, Settings!Normalized
  <2>4. /\ s8' \in Seq(Answers) /\ Len(s8) \in Nat /\ DOMAIN s8 = 1..Len(s8) /\ DOMAIN s8' = 1..Len(s8) - 1
        /\ \A j \in 1..Len(s8) - 1 : s8'[j] = IF j < i THEN s8[j] ELSE s8[j + 1]
    <3> HIDE DEF Answers
    <3>1. /\ s8' \in Seq(Answers) /\ Len(s8') = Len(s8) - 1
          /\ \A j \in 1..Len(s8) - 1 : s8'[j] = IF j < i THEN s8[j] ELSE s8[j + 1]
      BY <1>1, <2>1, StepRemoved
    <3> QED BY <1>1, <3>1
  <2>5. ~resets => store.rules = s2.rules
    <3> SUFFICES ASSUME [store EXCEPT !.funnels = s2.funnels] = s2 PROVE store.rules = s2.rules
      BY DEF Settings!Resets
    <3>1. [store EXCEPT !.funnels = s2.funnels].rules = store.rules
      BY <2>3 DEF Settings!Stores
    <3> QED BY <3>1
  <2> HIDE DEF resets
  <2>6. store.rules \in Settings!Rules /\ p \in Settings!Stores /\ p.rules = store.rules
    <3> HIDE DEF store
    <3> QED BY <2>3 DEF Settings!Stores
  <2>7. /\ u \in Settings!Uis /\ Settings!Filled(u) /\ u.busy = s4.busy
        /\ resets => u.rules = store.rules
        /\ ~resets => u.rules = s4.rules /\ u.lost = s4.lost
    <3> DEFINE rules == store.rules
               w == [s4 EXCEPT !.rules = rules, !.lost = FALSE]
    <3>1. \A lost \in BOOLEAN : rules \in Settings!Rules => [s4 EXCEPT !.rules = rules, !.lost = lost] \in Settings!Uis
      <4> HIDE DEF rules
      <4> QED BY DEF Settings!Uis
    <3>2. w \in Settings!Uis
      BY <2>6, <3>1, Zenon
    <3>3. w.rules = rules /\ w.busy = s4.busy /\ Settings!Filled(w)
      <4> HIDE DEF rules
      <4> QED BY DEF Settings!Uis, Settings!Filled
    <3>4. (resets /\ u = w) \/ (~resets /\ u = s4)
      OBVIOUS
    <3> HIDE DEF w, u, store
    <3> QED BY <3>2, <3>3, <3>4
  <2> HIDE DEF store, p, u
  <2>8. /\ r \in Settings!Uis /\ r.key = Settings!FormKey(r, p) /\ Settings!Filled(r)
        /\ r.rules = u.rules /\ r.busy = u.busy /\ r.lost = u.lost
    BY <2>6, <2>7, RenderedIsFilled
  <2>9. s4' = r
    BY <2>1
  <2> HIDE DEF r
  <2>10. Settings!TypeOK'
    BY <2>1, <2>4, <2>6, <2>8, <2>9 DEF Settings!Inductive, Settings!TypeOK
  <2>11. s4'.key = Settings!FormKey(s4, s2)' /\ Settings!Filled(s4)'
    BY <2>1, <2>8, <2>9 DEF Settings!FormKey, Settings!EditingGoal, Settings!Filled
  <2>12. ASSUME s3 = "exclusions", ~s4'.lost PROVE Settings!Settling'
    <3>1. CASE resets
      <4>1. ~Settings!Ahead'
        BY <2>1, <2>3, <2>6, <2>7, <2>8, <2>9, <3>1 DEF Settings!Ahead, Settings!Image
      <4> QED BY <4>1 DEF Settings!Settling
    <3>2. CASE ~resets
      <4>1. s4'.rules = s4.rules /\ ~s4.lost /\ s2'.rules = s2.rules /\ store.rules = s2.rules
        BY <2>1, <2>5, <2>6, <2>7, <2>8, <2>9, <2>12, <3>2
      <4>2. Settings!Settling
        BY <2>12, <4>1 DEF Settings!Inductive
      <4> DEFINE image == Settings!Image(s4.rules)
      <4>3. Settings!Image(s4.rules)' = image /\ Settings!Ahead' = Settings!Ahead
        BY <4>1 DEF Settings!Ahead, Settings!Image
      <4>4. CASE ~Settings!Ahead \/ Settings!InSave \/ (s7["settings"] > 0 /\ s1.rules = image)
        BY <2>1, <4>1, <4>3, <4>4 DEF Settings!Settling, Settings!InSave
      <4>5. CASE \E j \in DOMAIN s8 : s8[j].page.rules = image
        <5>1. PICK j \in DOMAIN s8 : s8[j].page.rules = image
          BY <4>5
        <5>2. CASE j = i
          <6>1. ~Settings!Ahead
            BY <4>1, <5>1, <5>2 DEF store, Settings!Ahead
          <6> QED BY <4>3, <6>1 DEF Settings!Settling
        <5>3. CASE j # i
          <6> DEFINE k == IF j < i THEN j ELSE j - 1
          <6>1. k \in DOMAIN s8' /\ s8'[k] = s8[j]
            BY <2>4, <5>3
          <6> HIDE DEF k, image
          <6> QED BY <4>3, <5>1, <6>1 DEF Settings!Settling
        <5> QED BY <5>2, <5>3
      <4> QED BY <4>2, <4>4, <4>5 DEF Settings!Settling
    <3> QED BY <3>1, <3>2
  <2>13. Settings!Normalized'
    <3>1. ASSUME NEW j \in DOMAIN s8' PROVE \E k \in DOMAIN s8 : s8'[j] = s8[k]
      <4>1. j \in DOMAIN s8 /\ j + 1 \in DOMAIN s8 /\ (s8'[j] = s8[j] \/ s8'[j] = s8[j + 1])
        BY <2>4
      <4> QED BY <4>1
    <3> QED BY <2>1, <2>3, <2>6, <3>1 DEF Settings!Inductive, Settings!Normalized, Settings!Image
  <2>14. Settings!BusyIsUnderWay' /\ Settings!OfMount' /\ Settings!Building'
    BY <2>1, <2>7, <2>8, <2>9 DEF Settings!Inductive, Settings!BusyIsUnderWay, Settings!OfMount
  <2> QED BY <2>1, <2>10, <2>11, <2>12, <2>13, <2>14 DEF Settings!Inductive
<1> QED BY <1>2, <1>3

LEMMA SettingsStep ==
    ASSUME Settings!Inductive, Settings!Next
    PROVE  Settings!Inductive'
BY SettingsDialogs, SettingsSaves, SettingsBuilds, SettingsLoads, SettingsServer, SettingsAnswered, SettingsReloads
   DEF Settings!Next

LEMMA SettingsStart ==
    ASSUME Settings!Init
    PROVE  Settings!Inductive
<1>1. PICK goals \in {<<>>, GoalOrder[GoalPool]}, gsc \in {"off", "connected"} :
        s1 = [goals |-> goals, rules |-> [include |-> {}, exclude |-> {}],
              funnels |-> {}, gsc |-> [state |-> gsc, property |-> Settings!None]]
  BY DEF Settings!Init
<1>2. /\ s2 = s1 /\ s3 \in Settings!Tabs /\ s4 = Settings!FreshUi(s1) /\ s5 = Settings!EmptyBuilder
      /\ s6 = {} /\ s7 = [only \in {"settings", "page"} |-> 0] /\ s8 = <<>> /\ s9 = 0
  BY DEF Settings!Init
<1>3. s1 \in Settings!Stores
  <2>1. goals \in Seq(Settings!Goals)
    <3>1. GoalOrder[GoalPool] \in Seq(GoalPool) /\ GoalPool \subseteq Settings!Goals
      BY PagesAssumption DEF Settings!SettingsAssumption, Settings!Goals
    <3> DEFINE listed == GoalOrder[GoalPool]
    <3>2. listed \in Seq(GoalPool) /\ (goals = <<>> \/ goals = listed)
      BY <3>1
    <3> HIDE DEF listed
    <3>3. listed \in Seq(Settings!Goals)
      BY <3>1, <3>2
    <3>4. <<>> \in Seq(Settings!Goals)
      OBVIOUS
    <3>5. CASE goals = <<>>
      BY <3>4, <3>5, Zenon
    <3>6. CASE goals = listed
      BY <3>3, <3>6, Zenon
    <3> QED BY <3>2, <3>5, <3>6
  <2>2. [include |-> {}, exclude |-> {}] \in Settings!Rules
    BY DEF Settings!Rules
  <2>3. [state |-> gsc, property |-> Settings!None]
          \in [state : {"off", "reauth", "connected", "configured", "syncing"}, property : {Settings!None, "site"}]
    OBVIOUS
  <2> QED BY <1>1, <2>1, <2>2, <2>3 DEF Settings!Stores
<1> DEFINE u == Settings!FreshUi(s1)
<1>4. /\ u \in Settings!Uis /\ u.key = Settings!FormKey(u, s1) /\ Settings!Filled(u)
      /\ u.rules = s1.rules /\ ~u.busy /\ ~u.lost
  BY <1>3, FreshIsShown
<1>5. s4 = u
  BY <1>2
<1> HIDE DEF u
<1>6. Settings!TypeOK
  BY <1>2, <1>3, <1>4, <1>5 DEF Settings!TypeOK, Settings!Reloads
<1>7. Settings!Building
  <2>1. Settings!EmptyBuilder.steps = <<>> /\ Settings!EmptyBuilder.editing = 0
    BY DEF Settings!EmptyBuilder
  <2>2. \A reordered \in BOOLEAN : [steps |-> <<>>, editing |-> 0, step |-> <<>>, reordered |-> reordered] \in Settings!Builders
    BY DEF Settings!Builders
  <2>3. Settings!EmptyBuilder \in Settings!Builders
    BY <2>2, Zenon DEF Settings!EmptyBuilder
  <2>4. MaxSteps \in Nat
    BY PagesAssumption DEF Settings!SettingsAssumption
  <2> QED BY <1>2, <2>1, <2>3, <2>4 DEF Settings!Building, Settings!EditedStepStays
<1>8. Settings!OfMount /\ Settings!BusyIsUnderWay
  BY <1>2, <1>4, <1>5 DEF Settings!OfMount, Settings!BusyIsUnderWay
<1>9. s1.rules = Settings!Image(s1.rules)
  BY <1>1 DEF Settings!Image
<1>10. Settings!Normalized /\ Settings!Settling
  BY <1>2, <1>4, <1>5, <1>9 DEF Settings!Normalized, Settings!Settling, Settings!Ahead
<1> QED BY <1>2, <1>4, <1>5, <1>6, <1>7, <1>8, <1>10 DEF Settings!Inductive

LEMMA SettingsHold ==
    ASSUME Settings!Inductive
    PROVE  /\ Settings!FormMatchesTarget /\ Settings!RulesSettle
           /\ Settings!EditedStepStays /\ Settings!BusyIsUnderWay
<1> USE SettingsTypes
<1>1. Settings!FormMatchesTarget
  <2> SUFFICES ASSUME ~s4.touched, s4.editing \in DOMAIN s2.goals
               PROVE  Settings!GoalFormToPayload(s4.form) = s4.source /\ s4.source.name = s2.goals[s4.editing].name
    BY DEF Settings!FormMatchesTarget
  <2>1. s4.source \in Settings!Sources /\ s4.form = Settings!GoalForm(s4.source) /\ s4.source.name = s4.key[2]
    BY DEF Settings!Uis, Settings!Filled
  <2>2. s4.key[2] = Settings!EditingGoal(s4, s2).name
    BY EditedGoal DEF Settings!Inductive
  <2>3. Settings!EditingGoal(s4, s2) = s2.goals[s4.editing]
    BY DEF Settings!EditingGoal
  <2> QED BY <2>1, <2>2, <2>3, FormLeavesGoal
<1>2. Settings!RulesSettle
  BY DEF Settings!Inductive, Settings!RulesSettle, Settings!Settling, Settings!InSave, Settings!Quiet,
         Settings!TypeOK, Settings!Reloads
<1> QED BY <1>1, <1>2 DEF Settings!Inductive, Settings!Building

LEMMA SettingsStutter ==
    ASSUME Settings!Inductive, UNCHANGED <<s1, s2, s3, s4, s5, s6, s7, s8, s9>>
    PROVE  Settings!Inductive'
BY SettingsTypes, BuilderStays

-----------------------------------------------------------------------------
(* One page at a time.                                                         *)

PagesInductive ==
  /\ open = "record" => Records!Inductive
  /\ open = "list" => Index!Inductive
  /\ open = "shell" => Shell!Inductive
  /\ open = "library" => Catalogue!Inductive
  /\ open = "live" => Live!Inductive
  /\ open = "tracker" => Tracker!Inductive
  /\ open = "settings" => Settings!Inductive

\* A step of the page that is open; the others are not there.
LEMMA PageSteps ==
    ASSUME Next
    PROVE  /\ open' = open
           /\ open = "record" => Records!Next
           /\ open = "list" => Index!Next
           /\ open = "shell" => Shell!Next
           /\ open = "library" => Catalogue!Next
           /\ open = "live" => Live!Next
           /\ open = "tracker" => Tracker!Next
           /\ open = "settings" => Settings!Next
BY DEF Next

\* Nothing of a page changes.
LEMMA PagesStutter ==
    ASSUME PagesInductive, UNCHANGED all
    PROVE  PagesInductive'
<1>1. UNCHANGED <<open, s1, s2, s3, s4, s5, s6, s7, s8, s9, s10, s11, s12, s13, s14, s15, s16, s17, s18,
                  s19, s20, s21, s22>>
  BY DEF all, afterCatalogue, afterRecords, afterSettings, afterTracker, afterIndex
<1>2. CASE open = "record"
  <2>1. Records!Inductive'
    BY <1>1, <1>2 DEF PagesInductive, Records!Inductive, Records!Chain
  <2> QED BY <1>1, <1>2, <2>1 DEF PagesInductive
<1>3. CASE open = "list"
  <2>1. Index!Inductive'
    BY <1>1, <1>3 DEF PagesInductive, Index!Inductive, Index!TypeOK, Index!SearchedOrSearching, Index!NoActionIsOpen,
                      Index!Ticked, Index!Shown
  <2> QED BY <1>1, <1>3, <2>1 DEF PagesInductive
<1>4. CASE open = "shell"
  <2>1. Shell!Inductive'
    BY <1>1, <1>4 DEF PagesInductive, Shell!Inductive, Shell!TypeOK, Shell!PublicPagesOfSession,
                      Shell!OwnWritesShown, Shell!Kept, Shell!ResetWithoutCache
  <2> QED BY <1>1, <1>4, <2>1 DEF PagesInductive
<1>5. CASE open = "library"
  BY <1>1, <1>5, LibraryStutters DEF PagesInductive
<1>6. CASE open = "live"
  <2>1. Live!Inductive'
    BY <1>1, <1>6, LiveStays DEF PagesInductive, Live!Inductive
  <2> QED BY <1>1, <1>6, <2>1 DEF PagesInductive
<1>7. CASE open = "tracker"
  <2>1. Tracker!Inductive'
    BY <1>1, <1>7, TrackerStutters DEF PagesInductive
  <2> QED BY <1>1, <1>7, <2>1 DEF PagesInductive
<1>8. CASE open = "settings"
  <2>1. Settings!Inductive'
    BY <1>1, <1>8, SettingsStutter DEF PagesInductive
  <2> QED BY <1>1, <1>8, <2>1 DEF PagesInductive
<1> QED BY <1>1, <1>2, <1>3, <1>4, <1>5, <1>6, <1>7, <1>8 DEF PagesInductive

\* Whichever page is open, its inductive invariant holds.
THEOREM PagesInvariant == Spec => []PagesInductive
<1>1. Init => PagesInductive
  BY RecordsStart, ListStart, ShellStart, LibraryStart, LiveStart, TrackerStart, SettingsStart
     DEF Init, PagesInductive
<1>2. PagesInductive /\ [Next]_all => PagesInductive'
  <2>1. ASSUME PagesInductive, Next PROVE PagesInductive'
    BY <2>1, PageSteps, RecordsStep, ListStep, ShellStep, LibraryStep, LiveStep,
              TrackerStep, SettingsStep DEF PagesInductive
  <2> QED BY <2>1, PagesStutter
<1> QED BY <1>1, <1>2, PTL DEF Spec

\* For every account, request, library and user, and however visits fail or interrupt each other: a
\* button of a record page is disabled by its own visit only, and a failed crawl request is retried
\* once, however often its button is pressed (pages/admin/*/show.tsx).
THEOREM RecordsTheorem == Spec => []RecordsSettle
<1>1. PagesInductive => RecordsSettle
  BY RecordsHold DEF PagesInductive, RecordsSettle
<1> QED BY <1>1, PagesInvariant, PTL

\* For every set of rows and what a search finds of them: a list shows, once nothing is under way, what
\* its search asks for, unless the search's visit failed or another visit took its place; and with no
\* action interrupted or failed nothing that is gone is ticked (libraries/index.tsx, index-table.tsx).
THEOREM ListsTheorem == Spec => []ListsSettle
<1>1. PagesInductive => ListsSettle
  BY ListHolds DEF PagesInductive, ListsSettle
<1> QED BY <1>1, PagesInvariant, PTL

\* For every set of identities and size of the cache, and whatever the library does with prefetches under
\* way: after a sign-in, sign-up or log-out was answered no public page that was kept before it is shown,
\* and after a form of the application was answered no page of the application shows what it wrote as it
\* was.  Pages of the application kept before a log-out, and the name on public pages, are not covered:
\* they outlive both (flushPublicShellCache and the cache tags that the forms name).
THEOREM ShellTheorem == Spec => []ShellIsFresh
<1>1. PagesInductive => ShellIsFresh
  BY ShellHolds DEF PagesInductive, ShellIsFresh
<1> QED BY <1>1, PagesInvariant, PTL

\* For every set of versions, their channels, ranks and numbers of pages: a reader who asks for no
\* version is served one with pages as long as there is one, the numbers under the pages lead
\* everywhere, and turning the pages stays in the search (Library#best_version, getPageRange).
THEOREM LibraryTheorem == Spec => []LibraryServes
<1>1. PagesInductive => LibraryServes
  BY LibraryHolds DEF PagesInductive, LibraryServes
<1> QED BY <1>1, PagesInvariant, PTL

\* For every version that is imported, and whatever an administrator did before: the library's default
\* is one of its versions afterwards (should_promote_default_version?).
THEOREM HealedTheorem == Spec => DefaultHealed
<1>1. PagesInductive /\ [Next]_all => [open = "library" => Catalogue!DefaultHealed]_all
  BY LibraryHeals DEF PagesInductive
<1> QED BY <1>1, PagesInvariant, PTL DEF Spec, DefaultHealed

\* For every list of sessions and where they are, and every set of texts: once closed a selection of
\* the live view stays closed, the hint of new events is given only to who does not see them, and the
\* places suggested are for what is typed once no search is on its way (live/show.tsx and its hooks).
THEOREM LiveTheorem == Spec => []LiveSettles
<1>1. PagesInductive => LiveSettles
  BY LiveHolds DEF PagesInductive, LiveSettles
<1> QED BY <1>1, PagesInvariant, PTL

\* For every set of locations, configurations and size of a batch: the engaged time reported for a page
\* is no more than the time it was shown, a tracked page that is shown is counted under its own key,
\* and no event waits without a timer or a flush that comes back to it (entrypoints/analytics.ts).
THEOREM TrackerTheorem == Spec => []TrackerCounts
<1>1. PagesInductive => TrackerCounts
  BY TrackerHolds DEF PagesInductive, TrackerCounts
<1> QED BY <1>1, PagesInvariant, PTL

\* For every set of goals and their order, suggestions, paths and what the server makes of them, and steps:
\* a form nobody touched would save exactly the goal it was filled from; the exclusions shown are, once
\* nothing is under way and but for their slashes, what the page was last told, unless the last change
\* was refused, got no answer or was overwritten before the page heard of it; "Update step" replaces the
\* step that was clicked; and a button of the goals and exclusions is disabled by a save under way only
\* (pages/admin/analytics/settings.tsx).
THEOREM SettingsTheorem == Spec => []SettingsAgree
<1>1. PagesInductive => SettingsAgree
  BY SettingsHold DEF PagesInductive, SettingsAgree
<1> QED BY <1>1, PagesInvariant, PTL

\* However the events of a document came about, one that is hidden or left has handed all of them to
\* fetch in that callback (onVisibilityChange, the pagehide listener).
THEOREM LeftTheorem == Spec => NothingLeftBehind
<1>1. PagesInductive /\ [Next]_all => [open = "tracker" => Tracker!NothingLeftBehind]_all
  BY TrackerStep, PageSteps DEF PagesInductive
<1> QED BY <1>1, PagesInvariant, PTL DEF Spec, NothingLeftBehind
=============================================================================
