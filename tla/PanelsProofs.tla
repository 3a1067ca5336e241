----------------------------- MODULE PanelsProofs ------------------------------
(* A list panel and the behaviors panel show the answers to what their URL, their  *)
(* tab and their search ask, for every value of the constants.  The inductive     *)
(* invariants are those of their modules.                                        *)
EXTENDS Dashboard, TLAPS

-----------------------------------------------------------------------------
(* A list panel.                                                               *)

\* The panel is rendered: every slot whose key changed gives up its fetch, and its rows unless it
\* starts another.
LEMMA PanelRenders ==
    ASSUME Panels!Inductive, s1' = s1, NEW a, NEW pref, s4' = a, s5' = pref, Panels!Render(a, pref),
           Panels!DialogFits', Panels!IsDialog(s13)'
    PROVE  Panels!Inductive'
<1> DEFINE wanted == s8'
           changed == {slot \in Panels!Slots : wanted[slot] # s8[slot]}
           started == {slot \in changed : wanted[slot] # <<>>}
           old(fe) == [fe EXCEPT !.aborted = @ \/ fe.slot \in changed]
           new(slot) == [slot |-> slot, id |-> s10[slot] + 1, key |-> wanted[slot], aborted |-> FALSE]
<1>1. /\ s10 \in [Panels!Slots -> Nat] /\ \A slot \in Panels!Slots : Panels!IsShown(s7[slot])
      /\ \A fe \in s9 : Panels!IsFetch(fe) /\ Panels!FetchFits(fe)
      /\ \A slot \in Panels!Slots : Panels!SlotFits(slot)
  BY DEF Panels!Inductive, Panels!TypeOK
<1>2. /\ s4' = a /\ s5' = pref /\ s8' = wanted
      /\ s10' = [slot \in Panels!Slots |-> IF slot \in started THEN s10[slot] + 1 ELSE s10[slot]]
      /\ s9' = {old(fe) : fe \in s9} \cup {new(slot) : slot \in started}
      /\ s7' = [slot \in Panels!Slots |->
           CASE slot \in started -> [s7[slot] EXCEPT !.loading = TRUE, !.failed = FALSE]
             [] slot \in changed \ started -> [of |-> <<>>, loading |-> FALSE, failed |-> FALSE]
             [] OTHER -> s7[slot]]
  BY DEF Panels!Render
<1>3. s8' = [slot \in Panels!Slots |-> Panels!Wanted(s1', slot, s4', s5')]
  BY DEF Panels!Render
<1> HIDE DEF wanted, new
<1>4. ASSUME NEW slot \in Panels!Slots
      PROVE  /\ slot \in started => /\ s7'[slot] = [s7[slot] EXCEPT !.loading = TRUE, !.failed = FALSE]
                                    /\ s10'[slot] = s10[slot] + 1
             /\ slot \notin started => s10'[slot] = s10[slot]
             /\ slot \in changed /\ slot \notin started =>
                  s7'[slot] = [of |-> <<>>, loading |-> FALSE, failed |-> FALSE] /\ s8'[slot] = <<>>
             /\ slot \notin changed => s7'[slot] = s7[slot] /\ s8'[slot] = s8[slot]
  <2>1. /\ s10'[slot] = IF slot \in started THEN s10[slot] + 1 ELSE s10[slot]
        /\ s7'[slot] = CASE slot \in started -> [s7[slot] EXCEPT !.loading = TRUE, !.failed = FALSE]
                         [] slot \in changed \ started -> [of |-> <<>>, loading |-> FALSE, failed |-> FALSE]
                         [] OTHER -> s7[slot]
        /\ s8'[slot] = wanted[slot]
    BY <1>2
  <2>2. slot \in changed /\ slot \notin started => wanted[slot] = <<>>
    OBVIOUS
  <2>3. slot \notin changed => wanted[slot] = s8[slot] /\ slot \notin started
    OBVIOUS
  <2> DEFINE busy == [s7[slot] EXCEPT !.loading = TRUE, !.failed = FALSE]
  <2>4. s7'[slot] = CASE slot \in started -> busy
                      [] slot \in changed \ started -> [of |-> <<>>, loading |-> FALSE, failed |-> FALSE]
                      [] OTHER -> s7[slot]
    BY <2>1
  <2> HIDE DEF changed, started, busy
  <2>5. CASE slot \in started
    <3>1. s7'[slot] = busy /\ s10'[slot] = s10[slot] + 1
      BY <2>1, <2>4, <2>5
    <3>2. slot \in changed
      BY <2>5 DEF started
    <3> QED BY <2>5, <3>1, <3>2 DEF busy
  <2>6. CASE slot \notin started /\ slot \in changed
    BY <2>1, <2>2, <2>4, <2>6
  <2>7. CASE slot \notin changed
    BY <2>1, <2>3, <2>4, <2>7
  <2> QED BY <2>5, <2>6, <2>7
<1>5. \A slot \in Panels!Slots : Panels!IsShown(s7[slot])' /\ Panels!SlotFits(slot)'
  <2> SUFFICES ASSUME NEW slot \in Panels!Slots
               PROVE  Panels!IsShown(s7[slot])' /\ Panels!SlotFits(slot)'
    OBVIOUS
  <2>1. Panels!IsShown(s7[slot]) /\ Panels!SlotFits(slot)
    BY <1>1
  <2>2. CASE slot \in started
    <3>1. s7'[slot] = [of |-> s7[slot].of, loading |-> TRUE, failed |-> FALSE]
      BY <1>4, <2>1, <2>2 DEF Panels!IsShown
    <3> QED BY <3>1 DEF Panels!IsShown, Panels!SlotFits
  <2>3. CASE slot \in changed /\ slot \notin started
    <3>1. s7'[slot] = [of |-> <<>>, loading |-> FALSE, failed |-> FALSE] /\ s8'[slot] = <<>>
      BY <1>4, <2>3
    <3> QED BY <3>1 DEF Panels!IsShown, Panels!SlotFits
  <2>4. CASE slot \notin changed
    BY <1>4, <2>1, <2>4 DEF Panels!IsShown, Panels!SlotFits
  <2> QED BY <2>2, <2>3, <2>4
<1>6. s10' \in [Panels!Slots -> Nat]
  <2>1. s10' = [slot \in Panels!Slots |-> IF slot \in started THEN s10[slot] + 1 ELSE s10[slot]]
    BY <1>2
  <2>2. \A slot \in Panels!Slots : s10[slot] \in Nat /\ s10[slot] + 1 \in Nat
    BY <1>1
  <2> HIDE DEF started
  <2> QED BY <2>1, <2>2
<1>7. ASSUME NEW slot \in started, NEW n, n = new(slot)
      PROVE  Panels!IsFetch(n) /\ Panels!FetchFits(n)'
  <2>1. slot \in Panels!Slots /\ slot \in changed
    OBVIOUS
  <2>2. Panels!IsFetch(n)
    <3>1. s10[slot] + 1 \in Nat
      BY <1>1, <2>1
    <3> QED BY <1>7, <2>1, <3>1 DEF new, Panels!IsFetch
  <2>4. n.slot = slot /\ n.id = s10[slot] + 1 /\ n.key = wanted[slot] /\ n.aborted = FALSE
    BY <1>7 DEF new
  <2>5. s10'[slot] = s10[slot] + 1 /\ s8'[slot] = wanted[slot] /\ s10[slot] \in Nat
    BY <1>1, <1>2, <1>4, <2>1 DEF wanted
  <2>6. Panels!FetchFits(n)'
    BY <2>4, <2>5 DEF Panels!FetchFits
  <2> QED BY <2>2, <2>6
<1>8. ASSUME NEW fe \in s9, NEW n, n = old(fe) PROVE Panels!IsFetch(n) /\ Panels!FetchFits(n)'
  <2>1. Panels!IsFetch(fe) /\ Panels!FetchFits(fe) /\ fe.slot \in Panels!Slots /\ fe.id \in Nat
    BY <1>1 DEF Panels!IsFetch
  <2> DEFINE ends == fe.slot \in changed
             gone == fe.aborted \/ ends
  <2>2. /\ fe.slot \in started => s10'[fe.slot] = s10[fe.slot] + 1
        /\ fe.slot \notin started => s10'[fe.slot] = s10[fe.slot]
        /\ ends /\ fe.slot \notin started =>
             s7'[fe.slot] = [of |-> <<>>, loading |-> FALSE, failed |-> FALSE] /\ s8'[fe.slot] = <<>>
        /\ ~ends => s7'[fe.slot] = s7[fe.slot] /\ s8'[fe.slot] = s8[fe.slot]
    <3> HIDE DEF changed, started
    <3> QED BY <1>4, <2>1, Zenon
  <2>3. n = [slot |-> fe.slot, id |-> fe.id, key |-> fe.key, aborted |-> gone]
    <3> HIDE DEF changed, Panels!FetchFits
    <3> QED BY <1>8, <2>1 DEF Panels!IsFetch
  <2>4. n.slot = fe.slot /\ n.id = fe.id /\ n.key = fe.key /\ n.aborted = gone
    <3> HIDE DEF gone
    <3> QED BY <2>3
  <2>5. gone \in BOOLEAN
    BY Zenon
  <2>6. Panels!IsFetch(n)
    <3> HIDE DEF gone
    <3> QED BY <2>1, <2>3, <2>4, <2>5 DEF Panels!IsFetch
  <2>7. s10[fe.slot] \in Nat /\ fe.id <= s10[fe.slot]
    BY <1>1, <2>1 DEF Panels!FetchFits
  <2>8. n.id <= s10'[n.slot]
    <3>1. s10'[fe.slot] = s10[fe.slot] \/ s10'[fe.slot] = s10[fe.slot] + 1
      BY <2>2, Zenon
    <3> QED BY <2>1, <2>4, <2>7, <3>1
  <2>9. ~n.aborted => n.key = s8'[n.slot]
    <3> HIDE DEF changed, started
    <3> QED BY <1>4, <2>1, <2>4 DEF Panels!FetchFits
  <2>10. n.aborted /\ n.id = s10'[n.slot] => s8'[n.slot] = <<>> /\ s7'[n.slot].of = <<>>
    <3> SUFFICES ASSUME n.aborted, n.id = s10'[n.slot]
                 PROVE  s8'[fe.slot] = <<>> /\ s7'[fe.slot].of = <<>>
      BY <2>4
    <3>1. fe.slot \notin started
      <4>1. fe.id = s10'[fe.slot]
        BY <2>4
      <4>2. fe.slot \in started => fe.id = s10[fe.slot] + 1
        BY <2>2, <4>1, Zenon
      <4> HIDE DEF started
      <4> QED BY <2>1, <2>7, <4>2
    <3>2. CASE fe.slot \in changed
      <4>1. s7'[fe.slot] = [of |-> <<>>, loading |-> FALSE, failed |-> FALSE] /\ s8'[fe.slot] = <<>>
        BY <2>2, <3>1, <3>2, Zenon
      <4> QED BY <4>1
    <3>3. CASE fe.slot \notin changed
      <4>1. fe.aborted /\ fe.id = s10[fe.slot]
        <5> HIDE DEF changed, started
        <5> QED BY <1>4, <2>1, <2>4, <3>1, <3>3
      <4>2. s8[fe.slot] = <<>> /\ s7[fe.slot].of = <<>>
        BY <2>1, <4>1 DEF Panels!FetchFits, Panels!Counts
      <4> HIDE DEF changed, started
      <4> QED BY <1>4, <2>1, <3>3, <4>2
    <3> QED BY <3>2, <3>3
  <2>11. Panels!FetchFits(n)'
    BY <2>8, <2>9, <2>10 DEF Panels!FetchFits, Panels!Counts
  <2> QED BY <2>6, <2>11
<1>9. ASSUME NEW fe \in s9' PROVE Panels!IsFetch(fe) /\ Panels!FetchFits(fe)'
  <2>1. PICK k : k = fe
    OBVIOUS
  <2>2. (\E f \in s9 : k = old(f)) \/ (\E slot \in started : k = new(slot))
    <3> HIDE DEF changed, started, new, old
    <3> QED BY <1>2, <2>1
  <2>3. Panels!IsFetch(k) /\ Panels!FetchFits(k)'
    <3> HIDE DEF old, started
    <3>1. CASE \E f \in s9 : k = old(f)
      BY <1>8, <3>1, Zenon
    <3>2. CASE \E slot \in started : k = new(slot)
      BY <1>7, <3>2, Zenon
    <3> QED BY <2>2, <3>1, <3>2
  <2> QED BY <2>1, <2>3, Zenon
<1>10. s7' = [slot \in Panels!Slots |-> s7'[slot]]
  <2> DEFINE then(slot) == CASE slot \in started -> [s7[slot] EXCEPT !.loading = TRUE, !.failed = FALSE]
                             [] slot \in changed \ started -> [of |-> <<>>, loading |-> FALSE, failed |-> FALSE]
                             [] OTHER -> s7[slot]
  <2>1. s7' = [slot \in Panels!Slots |-> then(slot)]
    BY <1>2
  <2> HIDE DEF then
  <2> QED BY <2>1
<1>11. Panels!TypeOK'
  <2>1. \A slot \in Panels!Slots : Panels!IsShown(s7[slot])'
    BY <1>5
  <2>2. \A fe \in s9' : Panels!IsFetch(fe)
    <3> HIDE DEF changed, started
    <3> QED BY <1>9, Zenon
  <2> HIDE DEF changed, started
  <2>3. s1' \in Panels!ListPanels
    BY DEF Panels!Inductive, Panels!TypeOK
  <2> QED BY <1>6, <1>10, <2>1, <2>2, <2>3, Zenon DEF Panels!TypeOK
<1>12. (\A fe \in s9 : Panels!FetchFits(fe))'
  <2> SUFFICES ASSUME NEW fe \in s9' PROVE Panels!FetchFits(fe)'
    OBVIOUS
  <2> QED BY <1>9
<1> QED BY <1>3, <1>5, <1>11, <1>12, Zenon DEF Panels!Inductive

LEMMA LoadingStops ==
    ASSUME NEW s, Panels!IsShown(s)
    PROVE  LET ended == [s EXCEPT !.loading = FALSE] IN Panels!IsShown(ended) /\ ended.of = s.of
<1> DEFINE ended == [s EXCEPT !.loading = FALSE]
<1>1. ended.of = s.of /\ ended.loading = FALSE /\ ended.failed = s.failed
  BY DEF Panels!IsShown
<1>2. ended = [of |-> ended.of, loading |-> ended.loading, failed |-> ended.failed]
  <2>1. s \in [of : {s.of}, loading : BOOLEAN, failed : BOOLEAN]
    BY DEF Panels!IsShown
  <2>2. ended \in [of : {s.of}, loading : BOOLEAN, failed : BOOLEAN]
    BY <2>1
  <2> HIDE DEF ended
  <2> QED BY <2>2
<1> QED BY <1>1, <1>2 DEF Panels!IsShown

LEMMA DialogStays ==
    ASSUME Panels!DialogFits, s1' = s1, s4' = s4, s5' = s5, s13' = s13
    PROVE  Panels!DialogFits'
<1>1. Panels!DialogKey(s4, s5)' = Panels!DialogKey(s4, s5)
  BY DEF Panels!DialogKey
<1> QED BY <1>1 DEF Panels!DialogFits

\* A dialog that asks, or is closed, is not fresh; one that does neither keeps its key.
LEMMA DialogAsks ==
    ASSUME Panels!Inductive, s1' = s1, NEW d, d = s13 \/ d = [s13 EXCEPT !.rows = {}],
           NEW a, NEW pref, s4' = a, s5' = pref, s13' = Panels!Asks(d, a, pref)
    PROVE  Panels!DialogFits' /\ Panels!IsDialog(s13)'
<1> DEFINE key == Panels!DialogKey(a, pref)
           before == Panels!DialogKey(s4, s5)
<1>1. /\ Panels!DialogFits
      /\ s13 = [rows |-> s13.rows, asked |-> s13.asked, more |-> s13.more,
                loading |-> s13.loading, fresh |-> s13.fresh]
  BY DEF Panels!Inductive, Panels!TypeOK, Panels!IsDialog
<1>2. Panels!DialogKey(s4, s5)' = key
  BY DEF Panels!DialogKey
<1>3. PICK rows : /\ d = [rows |-> rows, asked |-> s13.asked, more |-> s13.more,
                          loading |-> s13.loading, fresh |-> s13.fresh]
                  /\ rows \subseteq s13.rows
  <2>1. CASE d = s13
    BY <1>1, <2>1
  <2>2. CASE d = [s13 EXCEPT !.rows = {}]
    <3>1. d = [rows |-> {}, asked |-> s13.asked, more |-> s13.more,
               loading |-> s13.loading, fresh |-> s13.fresh]
      BY <1>1, <2>2
    <3> QED BY <3>1
  <2> QED BY <2>1, <2>2
<1> HIDE DEF key, before
<1>4. CASE key = before
  <2>1. s13' = d
    BY <1>4, Zenon DEF Panels!Asks, key, before
  <2>2. /\ Panels!IsDialog(s13)' /\ s13'.fresh = s13.fresh /\ s13'.rows \subseteq s13.rows
        /\ s13'.more = s13.more /\ s13'.asked = s13.asked
    BY <1>3, <2>1 DEF Panels!IsDialog
  <2>3. /\ s13.asked # Panels!None => before # <<>> /\ s13.asked = before[1]
        /\ s13.fresh => before # <<>> /\ \A m \in s13.rows \cup {fe.of : fe \in s13.more} : m = before[1]
    BY <1>1, Zenon DEF Panels!DialogFits, before
  <2> QED BY <1>2, <1>4, <2>2, <2>3 DEF Panels!DialogFits
<1>5. CASE key # before
  <2>1. s13' = IF key = <<>> THEN [d EXCEPT !.asked = Panels!None, !.fresh = FALSE]
               ELSE [d EXCEPT !.asked = key[1], !.loading = TRUE, !.fresh = FALSE]
    BY <1>5, Zenon DEF Panels!Asks, key, before
  <2>2. /\ Panels!IsDialog(s13)' /\ ~s13'.fresh
        /\ s13'.asked # Panels!None => key # <<>> /\ s13'.asked = key[1]
    <3>1. CASE key = <<>>
      <4>1. s13' = [rows |-> rows, asked |-> Panels!None, more |-> s13.more,
                    loading |-> s13.loading, fresh |-> FALSE]
        BY <1>3, <2>1, <3>1
      <4> QED BY <4>1 DEF Panels!IsDialog
    <3>2. CASE key # <<>>
      <4>1. s13' = [rows |-> rows, asked |-> key[1], more |-> s13.more, loading |-> TRUE, fresh |-> FALSE]
        BY <1>3, <2>1, <3>2
      <4> QED BY <3>2, <4>1 DEF Panels!IsDialog
    <3> QED BY <3>1, <3>2
  <2> QED BY <1>2, <2>2 DEF Panels!DialogFits
<1> QED BY <1>4, <1>5

\* A first page that comes while no further page is under way makes the dialog fresh; a further page of
\* a fresh dialog is of its mode.
LEMMA DialogIsTold ==
    ASSUME Panels!Inductive,
           Panels!LoadMore \/ \E fails \in BOOLEAN :
             Panels!DialogAnswers(fails) \/ \E fe \in s13.more : Panels!MoreAnswers(fe, fails)
    PROVE  Panels!Inductive'
<1> DEFINE key == Panels!DialogKey(s4, s5)
<1>1. /\ s13 = [rows |-> s13.rows, asked |-> s13.asked, more |-> s13.more,
                loading |-> s13.loading, fresh |-> s13.fresh]
      /\ s13.asked # Panels!None => key # <<>> /\ s13.asked = key[1]
      /\ s13.fresh => key # <<>> /\ \A m \in s13.rows \cup {fe.of : fe \in s13.more} : m = key[1]
  BY DEF Panels!Inductive, Panels!TypeOK, Panels!IsDialog, Panels!DialogFits
<1>2. /\ s1' = s1 /\ s4' = s4 /\ s5' = s5 /\ s7' = s7 /\ s8' = s8 /\ s9' = s9 /\ s10' = s10
  BY Zenon DEF Panels!LoadMore, Panels!DialogAnswers, Panels!MoreAnswers
<1>3. Panels!DialogKey(s4, s5)' = key
  BY <1>2 DEF Panels!DialogKey
<1> DEFINE Fits == /\ Panels!IsDialog(s13)'
                   /\ s13'.asked # Panels!None => key # <<>> /\ s13'.asked = key[1]
                   /\ s13'.fresh => /\ key # <<>>
                                    /\ \A m \in s13'.rows \cup {fe.of : fe \in s13'.more} : m = key[1]
<1>4. Fits
  <2> HIDE DEF key
  <2>1. CASE Panels!LoadMore
    <3> DEFINE page == [of |-> key[1], at |-> s12]
               pages == s13.more \cup {page}
    <3>1. key # <<>> /\ s13' = [s13 EXCEPT !.more = @ \cup {page}, !.loading = TRUE]
      BY <2>1, Zenon DEF Panels!LoadMore, key
    <3>2. s13' = [rows |-> s13.rows, asked |-> s13.asked, more |-> pages, loading |-> TRUE,
                  fresh |-> s13.fresh]
      BY <1>1, <3>1
    <3>3. page.of = key[1]
      OBVIOUS
    <3> HIDE DEF page
    <3>4. s13.fresh => \A m \in s13.rows \cup {fe.of : fe \in pages} : m = key[1]
      BY <1>1, <3>3
    <3> HIDE DEF pages
    <3>5. /\ s13'.rows = s13.rows /\ s13'.asked = s13.asked /\ s13'.more = pages /\ s13'.fresh = s13.fresh
          /\ Panels!IsDialog(s13)'
      BY <3>2 DEF Panels!IsDialog
    <3> QED BY <1>1, <3>1, <3>4, <3>5
  <2>2. ASSUME NEW fails \in BOOLEAN, Panels!DialogAnswers(fails)
        PROVE  Fits
    <3> DEFINE shown == IF fails THEN s13.rows ELSE {s13.asked}
               ready == ~fails /\ s13.more = {}
    <3>1. /\ s13.asked # Panels!None
          /\ s13' = [s13 EXCEPT !.rows = IF fails THEN @ ELSE {s13.asked}, !.asked = Panels!None,
                                !.loading = FALSE, !.fresh = ~fails /\ s13.more = {}]
      BY <2>2, Zenon DEF Panels!DialogAnswers
    <3>2. ready => key # <<>> /\ \A m \in shown \cup {fe.of : fe \in s13.more} : m = key[1]
      BY <1>1, <3>1
    <3>3. s13' = [rows |-> shown, asked |-> Panels!None, more |-> s13.more, loading |-> FALSE,
                  fresh |-> ready]
      BY <1>1, <3>1
    <3> HIDE DEF shown, ready
    <3>4. /\ s13'.rows = shown /\ s13'.asked = Panels!None /\ s13'.more = s13.more /\ s13'.fresh = ready
          /\ Panels!IsDialog(s13)'
      BY <3>3 DEF Panels!IsDialog
    <3> QED BY <3>2, <3>4
  <2>3. ASSUME NEW fails \in BOOLEAN, NEW fe \in s13.more, Panels!MoreAnswers(fe, fails)
        PROVE  Fits
    <3> DEFINE shown == IF fails THEN s13.rows ELSE s13.rows \cup {fe.of}
               left == s13.more \ {fe}
    <3>1. s13' = [s13 EXCEPT !.rows = IF fails THEN @ ELSE @ \cup {fe.of}, !.more = @ \ {fe},
                            !.loading = FALSE]
      BY <2>3, Zenon DEF Panels!MoreAnswers
    <3>2. s13.fresh => \A m \in shown \cup {f.of : f \in left} : m = key[1]
      BY <1>1
    <3>3. s13' = [rows |-> shown, asked |-> s13.asked, more |-> left, loading |-> FALSE,
                  fresh |-> s13.fresh]
      BY <1>1, <3>1
    <3> HIDE DEF shown, left
    <3>4. /\ s13'.rows = shown /\ s13'.asked = s13.asked /\ s13'.more = left /\ s13'.fresh = s13.fresh
          /\ Panels!IsDialog(s13)'
      BY <3>3 DEF Panels!IsDialog
    <3> QED BY <1>1, <3>2, <3>4
  <2> QED BY <2>1, <2>2, <2>3, Zenon
<1>5. Panels!IsDialog(s13)' /\ Panels!DialogFits'
  <2> HIDE DEF key
  <2> QED BY <1>3, <1>4 DEF Panels!DialogFits
<1>6. Panels!TypeOK' /\ \A fe \in s9' : Panels!FetchFits(fe)'
  BY <1>2, <1>5 DEF Panels!Inductive, Panels!TypeOK, Panels!FetchFits, Panels!Counts
<1> QED BY <1>2, <1>5, <1>6 DEF Panels!Inductive, Panels!SlotFits

\* An answer is shown only if no fetch has followed the one it answers; a fetch that was aborted shows
\* nothing.
LEMMA PanelAnswers ==
    ASSUME Panels!Inductive, \E fe \in s9 : Panels!Answer(fe) \/ Panels!Fail(fe) \/ Panels!Aborted(fe)
    PROVE  Panels!Inductive'
<1>1. /\ s10 \in [Panels!Slots -> Nat] /\ s7 = [slot \in Panels!Slots |-> s7[slot]]
      /\ \A slot \in Panels!Slots : Panels!IsShown(s7[slot])
      /\ \A fe \in s9 : Panels!IsFetch(fe) /\ Panels!FetchFits(fe)
      /\ \A slot \in Panels!Slots : Panels!SlotFits(slot)
  BY DEF Panels!Inductive, Panels!TypeOK
<1>2. PICK fe \in s9 : Panels!Answer(fe) \/ Panels!Fail(fe) \/ Panels!Aborted(fe)
  BY DEF Panels!Answer, Panels!Fail, Panels!Aborted
<1>3. /\ s9' = s9 \ {fe} /\ s1' = s1 /\ s4' = s4 /\ s5' = s5 /\ s8' = s8 /\ s10' = s10 /\ s13' = s13
  BY <1>2 DEF Panels!Answer, Panels!Fail, Panels!Aborted
<1>9. Panels!IsDialog(s13)' /\ Panels!DialogFits'
  BY <1>3, DialogStays DEF Panels!Inductive, Panels!TypeOK, Panels!IsDialog
<1>4. Panels!IsFetch(fe) /\ Panels!FetchFits(fe) /\ fe.slot \in Panels!Slots
  BY <1>1 DEF Panels!IsFetch
<1>5. CASE s7' = s7
  <2>1. \A g \in s9' : Panels!IsFetch(g) /\ Panels!FetchFits(g)'
    BY <1>1, <1>3, <1>5 DEF Panels!FetchFits, Panels!Counts
  <2>2. \A slot \in Panels!Slots : Panels!IsShown(s7[slot])' /\ Panels!SlotFits(slot)'
    BY <1>1, <1>3, <1>5 DEF Panels!SlotFits
  <2> QED BY <1>1, <1>3, <1>5, <1>9, <2>1, <2>2 DEF Panels!Inductive, Panels!TypeOK
<1>6. CASE Panels!Counts(fe) /\ s7' # s7
  <2>1. PICK new : /\ s7' = [s7 EXCEPT ![fe.slot] = new] /\ Panels!IsShown(new)
                   /\ ~new.loading /\ ~new.failed => new.of = s8[fe.slot]
                   /\ s8[fe.slot] = <<>> /\ s7[fe.slot].of = <<>> => new.of = <<>>
    <3>1. Panels!IsShown(s7[fe.slot])
      BY <1>1, <1>4
    <3>2. CASE Panels!Answer(fe)
      <4> DEFINE answer == [of |-> fe.key, loading |-> FALSE, failed |-> FALSE]
      <4>1. s7' = [s7 EXCEPT ![fe.slot] = answer] /\ ~fe.aborted
        BY <1>6, <3>2 DEF Panels!Answer
      <4>2. answer.of = s8[fe.slot] /\ Panels!IsShown(answer)
        BY <1>4, <4>1 DEF Panels!FetchFits, Panels!IsShown
      <4> HIDE DEF answer
      <4> QED BY <4>1, <4>2
    <3>3. CASE Panels!Fail(fe)
      <4> DEFINE of == IF fe.slot = "terms" THEN <<>> ELSE s7[fe.slot].of
                 failure == [of |-> of, loading |-> FALSE, failed |-> TRUE]
      <4>1. s7' = [s7 EXCEPT ![fe.slot] = failure]
        BY <1>1, <1>4, <1>6, <3>3 DEF Panels!Fail
      <4>2. s7[fe.slot].of = <<>> => failure.of = <<>>
        OBVIOUS
      <4>3. Panels!IsShown(failure) /\ failure.failed
        <5> HIDE DEF of
        <5> QED BY DEF Panels!IsShown
      <4> HIDE DEF failure
      <4> QED BY <4>1, <4>2, <4>3
    <3>4. CASE Panels!Aborted(fe)
      <4> DEFINE ended == [s7[fe.slot] EXCEPT !.loading = FALSE]
      <4>1. s7' = [s7 EXCEPT ![fe.slot] = ended] /\ fe.aborted
        BY <1>1, <1>4, <1>6, <3>4 DEF Panels!Aborted
      <4>2. s8[fe.slot] = <<>> /\ s7[fe.slot].of = <<>>
        BY <1>4, <1>6, <4>1 DEF Panels!FetchFits
      <4>3. Panels!IsShown(ended) /\ ended.of = s7[fe.slot].of
        BY <3>1, LoadingStops
      <4> HIDE DEF ended
      <4> QED BY <4>1, <4>2, <4>3
    <3> QED BY <1>2, <3>2, <3>3, <3>4
  <2>2. s7'[fe.slot] = new /\ \A slot \in Panels!Slots \ {fe.slot} : s7'[slot] = s7[slot]
    BY <1>1, <1>4, <2>1
  <2>3. s7' = [slot \in Panels!Slots |-> s7'[slot]]
    BY <1>1, <2>1
  <2>4. ASSUME NEW slot \in Panels!Slots PROVE Panels!IsShown(s7[slot])' /\ Panels!SlotFits(slot)'
    <3>1. CASE slot = fe.slot
      BY <1>3, <2>1, <2>2, <3>1 DEF Panels!SlotFits
    <3>2. CASE slot # fe.slot
      BY <1>1, <1>3, <2>2, <3>2 DEF Panels!SlotFits
    <3> QED BY <3>1, <3>2
  <2>5. ASSUME NEW g \in s9' PROVE Panels!IsFetch(g) /\ Panels!FetchFits(g)'
    <3>1. Panels!IsFetch(g) /\ Panels!FetchFits(g) /\ g.slot \in Panels!Slots
      BY <1>1, <1>3 DEF Panels!IsFetch
    <3>2. s7[g.slot].of = <<>> /\ s8[g.slot] = <<>> => s7'[g.slot].of = <<>>
      BY <2>1, <2>2, <3>1
    <3> QED BY <1>3, <3>1, <3>2 DEF Panels!FetchFits, Panels!Counts
  <2> QED BY <1>1, <1>3, <1>9, <2>3, <2>4, <2>5 DEF Panels!Inductive, Panels!TypeOK
<1> QED BY <1>2, <1>5, <1>6 DEF Panels!Answer, Panels!Fail, Panels!Aborted, Panels!Counts

LEMMA PanelStart ==
    ASSUME Panels!Init
    PROVE  Panels!Inductive
<1>1. /\ s1 \in Panels!ListPanels
      /\ s8 = [slot \in Panels!Slots |-> Panels!Wanted(s1, slot, s4, s5)]
      /\ s10 = [slot \in Panels!Slots |-> IF slot # "list" /\ s8[slot] # <<>> THEN 1 ELSE 0]
      /\ s9 = {[slot |-> slot, id |-> 1, key |-> s8[slot], aborted |-> FALSE] :
                 slot \in {s \in Panels!Slots : s10[s] = 1}}
      /\ s7 = [slot \in Panels!Slots |-> [of |-> IF slot = "list" THEN s8[slot] ELSE <<>>,
                                          loading |-> s10[slot] = 1, failed |-> FALSE]]
  BY DEF Panels!Init
<1>2. s10 \in [Panels!Slots -> Nat]
  BY <1>1
<1>3. ASSUME NEW slot \in Panels!Slots PROVE Panels!IsShown(s7[slot]) /\ Panels!SlotFits(slot)
  BY <1>1 DEF Panels!IsShown, Panels!SlotFits
<1>4. ASSUME NEW fe \in s9 PROVE Panels!IsFetch(fe) /\ Panels!FetchFits(fe)
  <2>1. PICK slot \in Panels!Slots :
          fe = [slot |-> slot, id |-> 1, key |-> s8[slot], aborted |-> FALSE] /\ s10[slot] = 1
    BY <1>1
  <2> QED BY <2>1 DEF Panels!IsFetch, Panels!FetchFits
<1>5. s7 = [slot \in Panels!Slots |-> s7[slot]]
  BY <1>1
<1>6. Panels!IsDialog(s13) /\ Panels!DialogFits
  <2> DEFINE key == Panels!DialogKey(s4, s5)
             asked == IF key = <<>> THEN Panels!None ELSE key[1]
             isOpen == key # <<>>
  <2>1. s13 = [rows |-> {}, asked |-> asked, more |-> {}, loading |-> isOpen, fresh |-> FALSE]
    BY DEF Panels!Init
  <2>2. asked # Panels!None => key # <<>> /\ asked = key[1]
    OBVIOUS
  <2> HIDE DEF asked, isOpen
  <2>3. Panels!IsDialog(s13) /\ s13.asked = asked /\ s13.fresh = FALSE
    BY <2>1 DEF Panels!IsDialog
  <2> QED BY <2>2, <2>3 DEF Panels!DialogFits
<1> QED BY <1>1, <1>2, <1>3, <1>4, <1>5, <1>6 DEF Panels!Inductive, Panels!TypeOK

\* Whatever the administrator does, the panel that is looked at stays, and is rendered.
LEMMA PanelIsShown ==
    ASSUME Panels!Next
    PROVE  \/ s1' = s1 /\ \E d \in {s13, [s13 EXCEPT !.rows = {}]} : \E u, pref : Panels!ShowBy(d, u, pref)
           \/ Panels!LoadMore \/ Panels!Settled
<1> DEFINE Rendered ==
      s1' = s1 /\ \E d \in {s13, [s13 EXCEPT !.rows = {}]} : \E u, pref : Panels!ShowBy(d, u, pref)
<1>0. ASSUME s1' = s1, \E u, pref : Panels!Show(u, pref) PROVE Rendered
  <2>1. s13 \in {s13, [s13 EXCEPT !.rows = {}]}
    OBVIOUS
  <2> QED BY <1>0, <2>1, Zenon DEF Panels!Show
<1>1. ASSUME NEW m, Panels!SelectTab(m) PROVE Rendered
  BY <1>0, <1>1, Zenon DEF Panels!SelectTab
<1>2. ASSUME NEW row, Panels!ClickRow(row) PROVE Rendered
  BY <1>0, <1>2, Zenon DEF Panels!ClickRow, Panels!Drill, Panels!UpdateQuery, Panels!Navigate
<1>3. ASSUME NEW row, NEW m, Panels!ClickDetailsRow(row, m) PROVE Rendered
  BY <1>0, <1>3, Zenon DEF Panels!ClickDetailsRow, Panels!Drill, Panels!UpdateQuery, Panels!Navigate
<1>4. ASSUME NEW row, NEW close, Panels!ClickReferrer(row, close) PROVE Rendered
  BY <1>0, <1>4, Zenon DEF Panels!ClickReferrer, Panels!UpdateQuery, Panels!Navigate
<1>5. ASSUME Panels!OpenDetails PROVE Rendered
  BY <1>0, <1>5, Zenon DEF Panels!OpenDetails, Panels!Navigate
<1>6. ASSUME NEW clears \in BOOLEAN, Panels!CloseDetails(clears) PROVE Rendered
  <2> DEFINE emptied == [s13 EXCEPT !.rows = {}]
             d == IF clears /\ Panels!DialogKey(s4, s5) # <<>> THEN emptied ELSE s13
  <2>1. s1' = s1 /\ \E u, pref : Panels!ShowBy(d, u, pref)
    BY <1>6, Zenon DEF Panels!CloseDetails
  <2>2. d \in {s13, emptied}
    <3> HIDE DEF emptied
    <3> QED OBVIOUS
  <2> HIDE DEF d
  <2> QED BY <2>1, <2>2, Zenon
<1>7. ASSUME Panels!SetLast28Days PROVE Rendered
  BY <1>0, <1>7, Zenon DEF Panels!SetLast28Days, Panels!UpdateQuery, Panels!Navigate
<1>8. ASSUME Panels!ChangePeriod PROVE Rendered
  BY <1>0, <1>8, Zenon DEF Panels!ChangePeriod, Panels!UpdateQuery, Panels!Navigate
<1>9. ASSUME NEW dim, Panels!RemoveFilter(dim) PROVE Rendered
  BY <1>0, <1>9, Zenon DEF Panels!RemoveFilter, Panels!UpdateQuery, Panels!Navigate
<1>10. ASSUME Panels!Back PROVE Rendered
  BY <1>0, <1>10, Zenon DEF Panels!Back
<1> HIDE DEF Rendered
<1>11. Rendered \/ Panels!LoadMore \/ Panels!Settled
  <2>1. CASE \/ \E m : Panels!SelectTab(m)
             \/ \E row : \/ Panels!ClickRow(row) \/ \E m : Panels!ClickDetailsRow(row, m)
                         \/ \E close : Panels!ClickReferrer(row, close)
    BY <1>1, <1>2, <1>3, <1>4, <2>1, Zenon
  <2>2. CASE \E dim : Panels!RemoveFilter(dim)
    BY <1>9, <2>2, Zenon
  <2>3. CASE \/ Panels!OpenDetails \/ \E clears \in BOOLEAN : Panels!CloseDetails(clears)
             \/ Panels!SetLast28Days \/ Panels!ChangePeriod
    BY <1>5, <1>6, <1>7, <1>8, <2>3, Zenon
  <2> QED BY <1>10, <2>1, <2>2, <2>3, Zenon DEF Panels!Next
<1> QED BY <1>11, Zenon DEF Rendered

LEMMA PanelStep ==
    ASSUME Panels!Inductive, Panels!Next
    PROVE  Panels!Inductive'
<1>1. ASSUME s1' = s1, NEW d \in {s13, [s13 EXCEPT !.rows = {}]}, NEW u, NEW pref,
             Panels!ShowBy(d, u, pref)
      PROVE  Panels!Inductive'
  <2>1. PICK a, then : s4' = a /\ s5' = then /\ Panels!Render(a, then) /\ s13' = Panels!Asks(d, a, then)
    BY <1>1, Zenon DEF Panels!ShowBy
  <2>3. d = s13 \/ d = [s13 EXCEPT !.rows = {}]
    OBVIOUS
  <2>4. Panels!DialogFits' /\ Panels!IsDialog(s13)'
    BY <1>1, <2>1, <2>3, DialogAsks
  <2> QED BY <1>1, <2>1, <2>4, PanelRenders, Zenon
<1>2. ASSUME Panels!Settled PROVE Panels!Inductive'
  BY <1>2, PanelAnswers, DialogIsTold, Zenon DEF Panels!Settled
<1> QED BY <1>1, <1>2, PanelIsShown, DialogIsTold, Zenon

LEMMA PanelStutters ==
    ASSUME Panels!Inductive, UNCHANGED all
    PROVE  Panels!Inductive'
<1>1. /\ s1' = s1 /\ s4' = s4 /\ s5' = s5 /\ s7' = s7 /\ s8' = s8 /\ s9' = s9 /\ s10' = s10
      /\ s13' = s13
  BY DEF all, afterTopBar
<1>2. Panels!TypeOK' /\ \A fe \in s9' : Panels!FetchFits(fe)'
  BY <1>1 DEF Panels!Inductive, Panels!TypeOK, Panels!IsDialog, Panels!FetchFits, Panels!Counts
<1>3. Panels!DialogFits'
  BY <1>1, DialogStays DEF Panels!Inductive
<1> QED BY <1>1, <1>2, <1>3 DEF Panels!Inductive, Panels!SlotFits

LEMMA NoDialogIsOpen ==
    ASSUME Panels!OpenDialogs(s4, s5) = {}, s1 \in Panels!ListPanels
    PROVE  Panels!DialogKey(s4, s5) = <<>>
BY DEF Panels!OpenDialogs, Panels!DialogKey

\* A row of the card is offered when no fetch of its list is under way and no dialog is open: its rows
\* are of the card's mode.  The rows of a fresh dialog are of the dialog's.
LEMMA RowsAreOfMode ==
    ASSUME Panels!Inductive, Panels!Next
    PROVE  Panels!ClickMatchesRow
<1> DEFINE key == Panels!DialogKey(s4, s5)
<1> SUFFICES ASSUME s11' # s11, key # <<>> => s13.fresh, key = <<>> => ~s7["list"].failed
             PROVE  s11'.dim = Panels!RowDim(s1, s11'.of)
  BY DEF Panels!ClickMatchesRow
<1>1. ASSUME NEW row, Panels!ClickRow(row) PROVE s11'.dim = Panels!RowDim(s1, s11'.of)
  <2> DEFINE mode == Panels!CardMode(s1, s4, s5)
  <2>1. /\ row \in Panels!RowsOffered /\ Panels!OpenDialogs(s4, s5) = {}
        /\ s11' = [dim |-> Panels!RowDim(s1, mode), of |-> s7["list"].of[1]]
    BY <1>1, Zenon DEF Panels!ClickRow, Panels!Drill
  <2>2. ~s7["list"].loading
    BY <2>1, Zenon DEF Panels!RowsOffered
  <2>3. "list" \in Panels!Slots
    BY DEF Panels!Slots
  <2>4. key = <<>>
    BY <2>1, NoDialogIsOpen DEF Panels!Inductive, Panels!TypeOK
  <2>5. s7["list"].of = Panels!Wanted(s1, "list", s4, s5)
    BY <2>2, <2>3, <2>4 DEF Panels!Inductive, Panels!SlotFits
  <2>6. PICK query : Panels!Wanted(s1, "list", s4, s5) = <<mode, query>>
    BY Zenon DEF Panels!Wanted
  <2> HIDE DEF mode
  <2> QED BY <2>1, <2>5, <2>6
<1>2. ASSUME NEW row, NEW m, Panels!ClickDetailsRow(row, m) PROVE s11'.dim = Panels!RowDim(s1, s11'.of)
  <2>1. /\ key # <<>> /\ m \in s13.rows
        /\ s11' = [dim |-> Panels!RowDim(s1, key[1]), of |-> m]
    BY <1>2, Zenon DEF Panels!ClickDetailsRow, Panels!Drill
  <2>2. m = key[1]
    BY <2>1 DEF Panels!Inductive, Panels!DialogFits
  <2> HIDE DEF key
  <2> QED BY <2>1, <2>2
<1>3. \/ \E row : Panels!ClickRow(row) \/ \E m : Panels!ClickDetailsRow(row, m)
      \/ s11' = s11
  BY Zenon DEF Panels!Next, Panels!SelectTab, Panels!ClickReferrer, Panels!OpenDetails,
     Panels!CloseDetails, Panels!LoadMore, Panels!SetLast28Days, Panels!ChangePeriod,
     Panels!RemoveFilter, Panels!Back, Panels!Settled, Panels!Answer, Panels!Fail, Panels!Aborted,
     Panels!DialogAnswers, Panels!MoreAnswers
<1> QED BY <1>1, <1>2, <1>3

-----------------------------------------------------------------------------
(* The behaviors panel.                                                        *)

LEMMA SeqOfItsRange ==
    ASSUME NEW S, NEW t \in Seq(S)
    PROVE  t \in Seq(Behaviors!Range(t))
BY DEF Behaviors!Range

\* The property the server takes is one the site has, if it has any.
LEMMA Resolved ==
    ASSUME NEW asked
    PROVE  /\ Behaviors!Resolve(Properties, asked) \in Behaviors!Range(Properties) \cup {Nil}
           /\ asked \in Behaviors!Range(Properties) => Behaviors!Resolve(Properties, asked) = asked
           /\ Behaviors!Resolve(Properties, asked) = Nil => Behaviors!Range(Properties) = {}
<1>1. Properties \in Seq(Behaviors!Range(Properties)) /\ Nil \notin Behaviors!Range(Properties)
  BY DashboardAssumption, Zenon DEF Behaviors!BehaviorsAssumption
<1>2. CASE Properties = <<>>
  BY <1>1, <1>2 DEF Behaviors!Resolve, Behaviors!First, Behaviors!Range
<1>3. CASE Properties # <<>>
  <2>1. Head(Properties) \in Behaviors!Range(Properties)
    BY <1>1, <1>3
  <2> QED BY <1>1, <1>3, <2>1 DEF Behaviors!Resolve, Behaviors!First
<1> QED BY <1>2, <1>3

\* A render keeps what both effects ask: an effect whose question changed gives up its last fetch.
LEMMA BehaviorsRenders ==
    ASSUME Behaviors!Inductive, NEW q, NEW d, NEW m, NEW f, NEW p, NEW s, NEW last, NEW busy, NEW under,
           Behaviors!Rerender(q, d, m, f, p, s, last, busy, under),
           p \in Behaviors!Range(Properties) \cup {Nil}, s10' = s10,
           under \subseteq s17, \A fe \in s17 : fe.kind = "profiles" => fe \in under
    PROVE  Behaviors!Inductive'
<1> DEFINE em == Behaviors!EffectiveMode(d, m)
           rf == Behaviors!RequestedFunnel(d, f)
           old == Behaviors!EffectiveMode(s5, s2)
           dataRuns == Behaviors!DataDeps(q, em, rf, p)
                         # Behaviors!DataDeps(s1, old, Behaviors!RequestedFunnel(s5, s3), s4)
           asks == dataRuns /\ em # "visitors" /\ Behaviors!Key(q, em, rf, p) # last
           profilesRun == Behaviors!ProfilesDeps(q, em, s) # Behaviors!ProfilesDeps(s1, old, s11)
           waits == profilesRun /\ em = "visitors"
           aborted == {fe \in under : \/ dataRuns /\ fe.kind = "data" /\ fe.id = s9
                                      \/ profilesRun /\ fe.kind = "profiles" /\ fe.id = s13}
           new == [kind |-> "data", id |-> s8 + 1, key |-> Behaviors!Key(q, em, rf, p)]
<1>1. /\ s1' = q /\ s5' = d /\ s2' = m /\ s3' = f /\ s4' = p /\ s11' = s
      /\ s8' = IF asks THEN s8 + 1 ELSE s8
      /\ s9' = IF asks THEN s8 + 1 ELSE IF dataRuns THEN 0 ELSE s9
      /\ s13' = IF waits THEN s13 + 1 ELSE s13
      /\ s14' = IF profilesRun THEN waits ELSE s14
      /\ s17' = (under \ aborted) \cup (IF asks THEN {new} ELSE {})
      /\ s18' = [kind \in {"data", "profiles"} |->
           CASE kind = "data" /\ asks -> FALSE
             [] kind = "profiles" /\ waits -> FALSE
             [] OTHER -> s18[kind]]
  BY Zenon DEF Behaviors!Rerender
<1>2. /\ s8 \in Nat /\ s18 \in [{"data", "profiles"} -> BOOLEAN]
      /\ s10 \in Seq(Behaviors!Range(s10)) \ {<<>>}
      /\ \A fe \in s17 : /\ fe.kind \in {"data", "profiles", "more"}
                         /\ Behaviors!DataFits(fe) /\ Behaviors!VisitorsFit(fe)
  BY DEF Behaviors!Inductive, Behaviors!TypeOK
<1>3. /\ dataRuns \in BOOLEAN /\ asks \in BOOLEAN /\ profilesRun \in BOOLEAN /\ waits \in BOOLEAN
      /\ asks => dataRuns
      /\ waits <=> profilesRun /\ em = "visitors"
      /\ \A fe \in under \ aborted : /\ fe \in s17
                                     /\ ~(dataRuns /\ fe.kind = "data" /\ fe.id = s9)
                                     /\ ~(profilesRun /\ fe.kind = "profiles" /\ fe.id = s13)
      /\ \A fe \in s17 : fe.kind = "profiles" /\ ~profilesRun => fe \in under \ aborted
  OBVIOUS
<1>4. ~dataRuns => q = s1 /\ em = old /\ rf = Behaviors!RequestedFunnel(s5, s3) /\ p = s4
  BY DEF Behaviors!DataDeps
<1>5. ~profilesRun => q = s1 /\ em = old /\ s = s11
  BY DEF Behaviors!ProfilesDeps
<1>6. new.kind = "data" /\ new.id = s8 + 1 /\ new.key = Behaviors!Key(q, em, rf, p)
  OBVIOUS
<1> DEFINE key == Behaviors!Key(q, em, rf, p)
<1>7. \A fe \in s17' : (fe = new /\ asks) \/ fe \in under \ aborted
  <2> HIDE DEF new, asks, aborted
  <2> QED BY <1>1
<1> HIDE DEF dataRuns, asks, profilesRun, waits, aborted, new
<1>8. /\ s18' \in [{"data", "profiles"} -> BOOLEAN]
      /\ ~waits => s18'["profiles"] = s18["profiles"]
  <2>1. s18' = [kind \in {"data", "profiles"} |->
                  IF (kind = "data" /\ asks) \/ (kind = "profiles" /\ waits) THEN FALSE ELSE s18[kind]]
    BY <1>1, <1>3
  <2> QED BY <1>2, <1>3, <2>1
<1>9. \A fe \in s17' : fe.kind \in {"data", "profiles", "more"}
  BY <1>2, <1>3, <1>6, <1>7
<1>10. ASSUME NEW fe \in s17' PROVE Behaviors!DataFits(fe)'
  <2>1. CASE fe = new /\ asks
    BY <1>1, <1>2, <1>6, <2>1 DEF Behaviors!DataFits
  <2>2. CASE fe \in under \ aborted
    <3> SUFFICES ASSUME fe.kind = "data"
                 PROVE  fe.id \in 0 .. s8' /\ (fe.id = s8' => s9' = s8' /\ fe.key = key)
      BY <1>1 DEF Behaviors!DataFits
    <3>1. /\ fe.id \in 0 .. s8
          /\ fe.id = s8 => s9 = s8 /\ fe.key = Behaviors!Key(s1, old, Behaviors!RequestedFunnel(s5, s3), s4)
      BY <1>2, <1>3, <2>2 DEF Behaviors!DataFits
    <3>2. CASE asks
      BY <1>1, <1>2, <3>1, <3>2
    <3>3. CASE ~asks
      <4>1. s8' = s8
        BY <1>1, <3>3
      <4>2. fe.id = s8 => ~dataRuns
        BY <1>3, <2>2, <3>1
      <4>3. fe.id = s8 => s9' = s8 /\ fe.key = key
        BY <1>1, <1>4, <3>1, <3>3, <4>2
      <4> QED BY <3>1, <4>1, <4>3
    <3> QED BY <3>2, <3>3
  <2> QED BY <1>7, <2>1, <2>2
<1>11. ASSUME NEW fe \in s17' PROVE Behaviors!VisitorsFit(fe)'
  <2> SUFFICES ASSUME fe.kind = "profiles" PROVE fe.id = s13' /\ fe.key = <<q, s, 1>>
    BY <1>1 DEF Behaviors!VisitorsFit
  <2>1. fe \in under \ aborted /\ fe \in s17
    BY <1>3, <1>6, <1>7
  <2>2. fe.id = s13 /\ fe.key = <<s1, s11, 1>>
    BY <1>2, <2>1 DEF Behaviors!VisitorsFit
  <2>3. ~profilesRun /\ ~waits
    BY <1>3, <2>1, <2>2
  <2> QED BY <1>1, <1>5, <2>2, <2>3
<1>12. Behaviors!FirstPageIsAsked'
  <2> SUFFICES ASSUME em = "visitors", ~s14', Behaviors!InFlight("profiles")' = {}, ~s18'["profiles"]
               PROVE  Head(s10') = <<q, s, 1>>
    BY <1>1 DEF Behaviors!FirstPageIsAsked
  <2>1. ~profilesRun
    BY <1>1, <1>3, Zenon
  <2>2. ~s14 /\ ~s18["profiles"]
    <3>1. ~waits
      BY <1>3, <2>1, Zenon
    <3>2. s14' = s14 /\ s18'["profiles"] = s18["profiles"]
      BY <1>1, <1>8, <2>1, <3>1, Zenon
    <3> QED BY <3>2, Zenon
  <2>3. Behaviors!InFlight("profiles") = {}
    <3> SUFFICES ASSUME NEW fe \in s17, fe.kind = "profiles" PROVE FALSE
      BY DEF Behaviors!InFlight
    <3>1. fe \in s17'
      BY <1>1, <1>3, <2>1
    <3> QED BY <3>1 DEF Behaviors!InFlight
  <2>4. Head(s10) = <<s1, s11, 1>>
    BY <1>5, <2>1, <2>2, <2>3, Zenon DEF Behaviors!Inductive, Behaviors!FirstPageIsAsked
  <2> QED BY <1>5, <2>1, <2>4
<1>13. Behaviors!TypeOK'
  <2>1. s8' \in Nat
    BY <1>1, <1>2
  <2>2. s4' \in Behaviors!Range(Properties) \cup {Nil}
    BY <1>1
  <2> QED BY <1>2, <1>8, <1>9, <2>1, <2>2 DEF Behaviors!TypeOK
<1> QED BY <1>10, <1>11, <1>12, <1>13 DEF Behaviors!Inductive

\* What the administrator does, but for asking for more visitors, is a render.
LEMMA BehaviorsActs ==
    ASSUME Behaviors!Inductive, Behaviors!Next
    PROVE  \/ /\ \E q, d, m, f, s : \E p \in Behaviors!Range(Properties) \cup {Nil} :
                   Behaviors!Rerender(q, d, m, f, p, s, s7, s16, s17)
              /\ s10' = s10 /\ s6' = s6
           \/ Behaviors!LoadMore \/ Behaviors!TimerFires \/ Behaviors!SettleData \/ Behaviors!Settle
<1> DEFINE Rerendered == /\ \E q, d, m, f, s : \E p \in Behaviors!Range(Properties) \cup {Nil} :
                              Behaviors!Rerender(q, d, m, f, p, s, s7, s16, s17)
                         /\ s10' = s10 /\ s6' = s6
<1>1. s4 \in Behaviors!Range(Properties) \cup {Nil}
  BY DEF Behaviors!Inductive, Behaviors!TypeOK
<1>2. ASSUME NEW m, Behaviors!SelectTab(m) PROVE Rerendered
  BY <1>1, <1>2, Zenon DEF Behaviors!SelectTab, Behaviors!Render
<1>3. ASSUME NEW p, Behaviors!SelectProperty(p) PROVE Rerendered
  <2>1. p \in Behaviors!Range(Behaviors!PropertyOptions)
    BY <1>3, Zenon DEF Behaviors!SelectProperty
  <2>2. p \in Behaviors!Range(Properties) \cup {Nil}
    BY <2>1 DEF Behaviors!PropertyOptions, Behaviors!Range
  <2> QED BY <1>3, <2>2, Zenon DEF Behaviors!SelectProperty, Behaviors!Render
<1>4. ASSUME NEW f, Behaviors!SelectFunnel(f) PROVE Rerendered
  BY <1>1, <1>4, Zenon DEF Behaviors!SelectFunnel, Behaviors!Render
<1>5. ASSUME NEW s, Behaviors!TypeSearch(s) PROVE Rerendered
  BY <1>1, <1>5, Zenon DEF Behaviors!TypeSearch
<1>6. ASSUME Behaviors!ClickRow PROVE Rerendered
  BY <1>1, <1>6, Zenon DEF Behaviors!ClickRow, Behaviors!Render
<1>7. ASSUME Behaviors!OpenDetails PROVE Rerendered
  BY <1>1, <1>7, Zenon DEF Behaviors!OpenDetails, Behaviors!Render
<1>8. ASSUME Behaviors!CloseDetails PROVE Rerendered
  BY <1>1, <1>8, Zenon DEF Behaviors!CloseDetails, Behaviors!Render
<1>9. ASSUME Behaviors!ChangeQuery PROVE Rerendered
  BY <1>1, <1>9, Zenon DEF Behaviors!ChangeQuery, Behaviors!Render
<1> HIDE DEF Rerendered
<1>10. Rerendered \/ Behaviors!LoadMore \/ Behaviors!TimerFires \/ Behaviors!SettleData \/ Behaviors!Settle
  BY <1>2, <1>3, <1>4, <1>5, <1>6, <1>7, <1>8, <1>9, Zenon DEF Behaviors!Next
<1> QED BY <1>10, Zenon DEF Rerendered

\* The answer of the last fetch of goals, properties or funnels is one to what the panel asks; taking
\* the funnel or the property it resolved asks nothing.
LEMMA DataIsTaken ==
    ASSUME Behaviors!Inductive, NEW fe, Behaviors!DataAnswer(fe)
    PROVE  Behaviors!Inductive' /\ s8' = s8
<1> DEFINE em == Behaviors!EffectiveMode(s5, s2)
           rf == Behaviors!RequestedFunnel(s5, s3)
           answer == Behaviors!ServerAnswer(fe.key)
           f == IF answer.kind = "funnels" /\ rf \notin Behaviors!Range(Funnels) THEN answer.active ELSE s3
           p == IF answer.kind = "props" /\ (answer.active # Nil \/ s4 # Nil) THEN answer.active ELSE s4
           last == Behaviors!KeyAfterAnswer(fe.key, answer)
<1>1. /\ fe \in s17 /\ fe.kind = "data" /\ fe.id = s8
      /\ Behaviors!Rerender(s1, s5, s2, f, p, s11, last, FALSE, s17 \ {fe})
      /\ s10' = s10
  BY DEF Behaviors!DataAnswer, Behaviors!InFlight
<1>2. s4 \in Behaviors!Range(Properties) \cup {Nil} /\ fe.key = Behaviors!Key(s1, em, rf, s4)
  BY <1>1 DEF Behaviors!Inductive, Behaviors!TypeOK, Behaviors!DataFits
<1>3. PICK third : /\ fe.key = <<s1, em, third>>
                   /\ em = "funnels" => third = rf
                   /\ em = "props" => third = s4
  BY <1>2 DEF Behaviors!Key
<1>4. PICK active : /\ answer = [kind |-> em, of |-> fe.key, active |-> active]
                    /\ em = "funnels" => active = Behaviors!Resolve(Funnels, third)
                    /\ em = "props" => active = Behaviors!Resolve(Properties, third)
  <2> DEFINE taken == CASE em = "funnels" -> Behaviors!Resolve(Funnels, third)
                        [] em = "props" -> Behaviors!Resolve(Properties, third)
                        [] OTHER -> Nil
  <2>1. fe.key[2] = em /\ fe.key[3] = third
    <3> HIDE DEF em
    <3> QED BY <1>3
  <2>2. answer = [kind |-> em, of |-> fe.key, active |-> taken]
    BY <2>1, Zenon DEF Behaviors!ServerAnswer
  <2>3. /\ em = "funnels" => taken = Behaviors!Resolve(Funnels, third)
        /\ em = "props" => taken = Behaviors!Resolve(Properties, third)
    <3> HIDE DEF em
    <3> QED OBVIOUS
  <2> HIDE DEF taken
  <2> QED BY <2>2, <2>3, Zenon
<1> HIDE DEF answer
<1>5. answer.kind = em /\ answer.active = active
  BY <1>4
<1>6. p \in Behaviors!Range(Properties) \cup {Nil}
  BY <1>2, <1>4, <1>5, Resolved
<1>7. Behaviors!Inductive'
  <2>1. \A g \in s17 : g.kind = "profiles" => g \in s17 \ {fe}
    BY <1>1
  <2> HIDE DEF f, p, last
  <2> QED BY <1>1, <1>6, <2>1, BehaviorsRenders
<1> DEFINE rf2 == Behaviors!RequestedFunnel(s5, f)
           asks == /\ Behaviors!DataDeps(s1, em, rf2, p) # Behaviors!DataDeps(s1, em, rf, s4)
                   /\ em # "visitors" /\ Behaviors!Key(s1, em, rf2, p) # last
<1>8. s8' = IF asks THEN s8 + 1 ELSE s8
  BY <1>1, Zenon DEF Behaviors!Rerender
<1>9. ~asks
  <2> SUFFICES ASSUME asks PROVE FALSE
    OBVIOUS
  <2>1. em \in {"funnels", "props"}
    <3>1. CASE em \notin {"funnels", "props"}
      <4>1. f = s3 /\ p = s4
        BY <1>5, <3>1
      <4> QED BY <4>1
    <3> QED BY <3>1
  <2>2. CASE em = "funnels"
    <3>1. p = s4 /\ last = <<s1, em, active>> /\ Behaviors!Key(s1, em, rf2, p) = <<s1, em, rf2>>
      BY <1>3, <1>5, <2>2 DEF Behaviors!KeyAfterAnswer, Behaviors!Key
    <3>2. active = Behaviors!Resolve(Funnels, rf)
      BY <1>3, <1>4, <2>2
    <3>3. CASE rf \in Behaviors!Range(Funnels)
      BY <3>1, <3>2, <3>3, <2>2 DEF Behaviors!Resolve
    <3>4. CASE rf \notin Behaviors!Range(Funnels)
      <4>1. f = active
        BY <1>5, <2>2, <3>4
      <4>2. rf2 = active \/ rf2 = rf
        BY <4>1 DEF Behaviors!RequestedFunnel, Behaviors!Or
      <4> QED BY <3>1, <4>2
    <3> QED BY <3>3, <3>4
  <2>3. CASE em = "props"
    <3>1. f = s3 /\ rf2 = rf
      BY <1>5, <2>3
    <3>2. Behaviors!Key(s1, em, rf2, p) = <<s1, em, p>>
      BY <2>3 DEF Behaviors!Key
    <3>3. active = Behaviors!Resolve(Properties, s4)
      BY <1>3, <1>4, <2>3
    <3>4. CASE active # Nil
      BY <1>3, <1>5, <2>3, <3>2, <3>4 DEF Behaviors!KeyAfterAnswer
    <3>5. CASE active = Nil
      <4>1. s4 = Nil
        BY <1>2, <3>3, <3>5, Resolved
      <4>2. p = s4
        BY <1>5, <3>5, <4>1
      <4> QED BY <3>1, <4>2
    <3> QED BY <3>4, <3>5
  <2> QED BY <2>1, <2>2, <2>3
<1> HIDE DEF asks
<1> QED BY <1>7, <1>8, <1>9

\* A timer that runs out, a request for more and an answer leave what the panel asks alone.
LEMMA BehaviorsSettles ==
    ASSUME Behaviors!Inductive, Behaviors!LoadMore \/ Behaviors!TimerFires \/ Behaviors!Settle
    PROVE  Behaviors!Inductive' /\ s6' = s6
<1> DEFINE em == Behaviors!EffectiveMode(s5, s2)
           first == <<s1, s11, 1>>
           fits(fe) == /\ fe.kind \in {"data", "profiles", "more"}
                       /\ Behaviors!DataFits(fe) /\ Behaviors!VisitorsFit(fe)
<1>1. /\ s8 \in Nat /\ s4 \in Behaviors!Range(Properties) \cup {Nil}
      /\ s18 \in [{"data", "profiles"} -> BOOLEAN]
      /\ s10 \in Seq(Behaviors!Range(s10)) \ {<<>>}
      /\ \A fe \in s17 : fits(fe)
      /\ Behaviors!FirstPageIsAsked
  BY DEF Behaviors!Inductive, Behaviors!TypeOK
<1>2. /\ s1' = s1 /\ s2' = s2 /\ s3' = s3 /\ s4' = s4 /\ s5' = s5 /\ s6' = s6 /\ s8' = s8 /\ s9' = s9
      /\ s11' = s11 /\ s13' = s13
  BY Zenon DEF Behaviors!LoadMore, Behaviors!TimerFires, Behaviors!Settle, Behaviors!ProfilesAnswer,
     Behaviors!MoreAnswer, Behaviors!Fails
<1>3. ASSUME NEW fe, fe.kind \in {"data", "profiles", "more"},
             Behaviors!DataFits(fe), Behaviors!VisitorsFit(fe)
      PROVE  Behaviors!DataFits(fe)' /\ Behaviors!VisitorsFit(fe)'
  BY <1>2, <1>3 DEF Behaviors!DataFits, Behaviors!VisitorsFit
<1>4. ASSUME s18' \in [{"data", "profiles"} -> BOOLEAN],
             s10' \in Seq(Behaviors!Range(s10')) \ {<<>>},
             \A fe \in s17' : fits(fe),
             em = "visitors" /\ ~s14' /\ (\A fe \in s17' : fe.kind # "profiles") /\ ~s18'["profiles"]
               => Head(s10') = first
      PROVE  Behaviors!Inductive'
  <2>1. \A fe \in s17' : /\ fe.kind \in {"data", "profiles", "more"}
                         /\ Behaviors!DataFits(fe)' /\ Behaviors!VisitorsFit(fe)'
    BY <1>3, <1>4
  <2>2. Behaviors!TypeOK'
    BY <1>1, <1>2, <1>4 DEF Behaviors!TypeOK
  <2>3. Behaviors!FirstPageIsAsked'
    BY <1>2, <1>4 DEF Behaviors!FirstPageIsAsked, Behaviors!InFlight
  <2> QED BY <2>1, <2>2, <2>3 DEF Behaviors!Inductive
<1>5. em = "visitors" /\ ~s14 /\ (\A fe \in s17 : fe.kind # "profiles") /\ ~s18["profiles"]
        => Head(s10) = first
  BY <1>1 DEF Behaviors!FirstPageIsAsked, Behaviors!InFlight
<1> HIDE DEF first, em
<1>6. CASE Behaviors!LoadMore
  <2> DEFINE more == [kind |-> "more", id |-> s12 + 1, key |-> <<s1, s11, s12 + 1>>]
  <2>1. s17' = s17 \cup {more} /\ s10' = s10 /\ s14' = s14 /\ s18' = s18
    BY <1>6 DEF Behaviors!LoadMore
  <2>2. more.kind = "more" /\ fits(more)
    BY DEF Behaviors!DataFits, Behaviors!VisitorsFit
  <2> HIDE DEF more
  <2>3. \A fe \in s17' : fits(fe)
    <3> HIDE DEF fits
    <3> QED BY <1>1, <2>1, <2>2
  <2> HIDE DEF fits
  <2> QED BY <1>1, <1>2, <1>4, <1>5, <2>1, <2>3
<1>7. CASE Behaviors!TimerFires
  <2> DEFINE ask == [kind |-> "profiles", id |-> s13, key |-> <<s1, s11, 1>>]
  <2>1. s17' = s17 \cup {ask} /\ s10' = s10 /\ s18' = s18
    BY <1>7 DEF Behaviors!TimerFires
  <2>2. ask.kind = "profiles" /\ fits(ask)
    BY DEF Behaviors!DataFits, Behaviors!VisitorsFit
  <2> HIDE DEF ask
  <2>3. \A fe \in s17' : fits(fe)
    <3> HIDE DEF fits
    <3> QED BY <1>1, <2>1, <2>2
  <2> HIDE DEF fits
  <2> QED BY <1>1, <1>2, <1>4, <2>1, <2>2, <2>3
<1>8. ASSUME NEW fe \in s17, Behaviors!ProfilesAnswer(fe) PROVE Behaviors!Inductive'
  <2>1. fe.kind = "profiles" /\ s17' = s17 \ {fe} /\ s10' = <<fe.key>> /\ s18' = s18
    BY <1>8 DEF Behaviors!ProfilesAnswer, Behaviors!InFlight, Behaviors!Ended
  <2>2. fe.key = first
    BY <1>1, <2>1 DEF Behaviors!VisitorsFit, first
  <2>3. s10' \in Seq(Behaviors!Range(s10')) \ {<<>>} /\ Head(s10') = first
    <3>1. s10' \in Seq({first}) /\ s10' # <<>> /\ Head(s10') = first
      BY <2>1, <2>2
    <3> QED BY <3>1, SeqOfItsRange
  <2>4. \A g \in s17' : fits(g)
    BY <1>1, <2>1
  <2> HIDE DEF fits
  <2> QED BY <1>1, <1>4, <2>1, <2>3, <2>4
<1>9. ASSUME NEW fe \in s17, Behaviors!MoreAnswer(fe) PROVE Behaviors!Inductive'
  <2>1. fe.kind = "more" /\ s17' = s17 \ {fe} /\ s10' = Append(s10, fe.key) /\ s14' = s14 /\ s18' = s18
    BY <1>9 DEF Behaviors!MoreAnswer, Behaviors!InFlight, Behaviors!Ended
  <2>2. s10' \in Seq(Behaviors!Range(s10) \cup {fe.key}) /\ s10' # <<>> /\ Head(s10') = Head(s10)
    BY <1>1, <2>1
  <2>3. s10' \in Seq(Behaviors!Range(s10')) \ {<<>>}
    BY <2>2, SeqOfItsRange
  <2>4. \A g \in s17' : fits(g)
    BY <1>1, <2>1
  <2>5. \A g \in s17 : g.kind = "profiles" => g \in s17'
    BY <2>1
  <2> HIDE DEF fits
  <2> QED BY <1>1, <1>4, <1>5, <2>1, <2>2, <2>3, <2>4, <2>5
<1>10. ASSUME NEW fe \in s17, Behaviors!Fails(fe) PROVE Behaviors!Inductive'
  <2>1. /\ s17' = s17 \ {fe} /\ s10' = s10 /\ s14' = s14
        /\ s18' = IF fe.kind = "more" THEN s18 ELSE [s18 EXCEPT ![fe.kind] = TRUE]
    BY <1>10 DEF Behaviors!Fails, Behaviors!Ended
  <2>2. s18' \in [{"data", "profiles"} -> BOOLEAN]
    BY <1>1, <2>1
  <2>3. ~s18'["profiles"] => fe.kind # "profiles" /\ ~s18["profiles"]
    BY <1>1, <2>1
  <2>4. \A g \in s17' : fits(g)
    BY <1>1, <2>1
  <2>5. \A g \in s17 : g # fe => g \in s17'
    BY <2>1
  <2> HIDE DEF fits
  <2> QED BY <1>1, <1>4, <1>5, <2>1, <2>2, <2>3, <2>4, <2>5
<1> QED BY <1>2, <1>6, <1>7, <1>8, <1>9, <1>10 DEF Behaviors!Settle

LEMMA BehaviorsStart ==
    ASSUME Behaviors!Init
    PROVE  Behaviors!Inductive
<1> DEFINE first == <<s1, s11, 1>>
<1>1. s8 = 0 /\ s4 = Nil /\ s17 = {} /\ s10 = <<first>>
      /\ s18 = [kind \in {"data", "profiles"} |-> FALSE]
  BY Zenon DEF Behaviors!Init
<1> HIDE DEF first
<1>2. s10 \in Seq({first}) /\ s10 # <<>> /\ Head(s10) = first
  BY <1>1
<1>3. s10 \in Seq(Behaviors!Range(s10))
  BY <1>2, SeqOfItsRange
<1>4. s18 \in [{"data", "profiles"} -> BOOLEAN]
  BY <1>1
<1>5. Behaviors!TypeOK
  BY <1>1, <1>2, <1>3, <1>4 DEF Behaviors!TypeOK
<1> QED BY <1>1, <1>2, <1>5 DEF Behaviors!Inductive, Behaviors!FirstPageIsAsked, first

LEMMA BehaviorsStep ==
    ASSUME Behaviors!Inductive, Behaviors!Next
    PROVE  Behaviors!Inductive' /\ Behaviors!AnswersSettle
<1>1. CASE Behaviors!LoadMore \/ Behaviors!TimerFires \/ Behaviors!Settle
  <2>1. Behaviors!Inductive' /\ s6' = s6
    BY <1>1, BehaviorsSettles
  <2> QED BY <2>1 DEF Behaviors!AnswersSettle
<1>2. CASE Behaviors!SettleData
  <2>1. PICK fe : Behaviors!DataAnswer(fe)
    BY <1>2, Zenon DEF Behaviors!SettleData
  <2>2. Behaviors!Inductive' /\ s8' = s8
    BY <2>1, DataIsTaken
  <2> QED BY <2>2 DEF Behaviors!AnswersSettle
<1>3. CASE /\ \E q, d, m, f, s : \E p \in Behaviors!Range(Properties) \cup {Nil} :
                Behaviors!Rerender(q, d, m, f, p, s, s7, s16, s17)
           /\ s10' = s10 /\ s6' = s6
  <2>1. PICK q, d, m, f, s : \E p \in Behaviors!Range(Properties) \cup {Nil} :
          Behaviors!Rerender(q, d, m, f, p, s, s7, s16, s17)
    BY <1>3
  <2>2. PICK p \in Behaviors!Range(Properties) \cup {Nil} :
          Behaviors!Rerender(q, d, m, f, p, s, s7, s16, s17)
    BY <2>1
  <2>3. Behaviors!Inductive'
    BY <1>3, <2>2, BehaviorsRenders
  <2> QED BY <1>3, <2>3 DEF Behaviors!AnswersSettle
<1> QED BY <1>1, <1>2, <1>3, BehaviorsActs

LEMMA BehaviorsStutters ==
    ASSUME Behaviors!Inductive, UNCHANGED all
    PROVE  Behaviors!Inductive'
<1>1. /\ s1' = s1 /\ s2' = s2 /\ s3' = s3 /\ s4' = s4 /\ s5' = s5 /\ s8' = s8 /\ s9' = s9 /\ s10' = s10
      /\ s11' = s11 /\ s13' = s13 /\ s14' = s14 /\ s17' = s17 /\ s18' = s18
  BY DEF all, afterTopBar, afterPanel, afterDetails, afterGraph
<1>2. \A fe \in s17' : Behaviors!DataFits(fe)' /\ Behaviors!VisitorsFit(fe)'
  BY <1>1 DEF Behaviors!Inductive, Behaviors!DataFits, Behaviors!VisitorsFit
<1>3. Behaviors!TypeOK' /\ Behaviors!FirstPageIsAsked'
  BY <1>1 DEF Behaviors!Inductive, Behaviors!TypeOK, Behaviors!FirstPageIsAsked, Behaviors!InFlight
<1> QED BY <1>2, <1>3 DEF Behaviors!Inductive

-----------------------------------------------------------------------------
(* The dashboard.                                                              *)

\* The inductive invariants of the two panels, for the one that is looked at.
PanelsInductive ==
  /\ part = "panel" => Panels!Inductive
  /\ part = "behaviors" => Behaviors!Inductive

LEMMA PanelsStep ==
    ASSUME PanelsInductive, Next
    PROVE  /\ PanelsInductive'
           /\ part = "panel" => Panels!ClickMatchesRow
           /\ part = "behaviors" => Behaviors!AnswersSettle
<1>1. part' = part
  BY DEF Next, InTopBar, InPanel, InBehaviors, InGraph, InDetails, InJourney
<1>2. /\ part = "panel" => Panels!Next
      /\ part = "behaviors" => Behaviors!Next
  BY DEF Next, InTopBar, InPanel, InBehaviors, InGraph, InDetails, InJourney
<1> QED BY <1>1, <1>2, PanelStep, RowsAreOfMode, BehaviorsStep DEF PanelsInductive

\* The invariant both panels keep, for every value of the constants: each fetch under way asks what its
\* slot or its effect asks, and what is shown with none under way answers it.
THEOREM PanelsInvariant == Spec => []PanelsInductive
<1>1. Init => PanelsInductive
  BY PanelStart, BehaviorsStart DEF Init, PanelsInductive
<1>2. PanelsInductive /\ [Next]_all => PanelsInductive'
  <2>1. ASSUME PanelsInductive, UNCHANGED all PROVE PanelsInductive'
    <3>1. part' = part
      BY <2>1 DEF all
    <3> QED BY <2>1, <3>1, PanelStutters, BehaviorsStutters DEF PanelsInductive
  <2> QED BY <2>1, PanelsStep
<1> QED BY <1>1, <1>2, PTL DEF Spec

\* For every URL, panel and tab, and however its fetches are answered: when nothing of a panel is
\* loading and its last fetch did not fail, what it shows is the answer to what its URL and its tab
\* ask now (use-panel-data.ts).
THEOREM PanelTheorem == Spec => []ShownIsAsked
<1>1. PanelsInductive => ShownIsAsked
  BY DEF PanelsInductive, ShownIsAsked, Panels!Inductive, Panels!SlotFits, Panels!ShownIsAsked
<1> QED BY <1>1, PanelsInvariant, PTL

\* For every row of every panel: a click on it filters by the dimension of the mode whose rows were
\* shown, although handleSelect reads the mode and not the rows, when the card's fetch did not fail or
\* the open dialog is fresh.  A dialog keeps its rows while it is closed and while its next first page is
\* under way, and a further page asked before is appended whenever it comes: for those rows it is false.
THEOREM ClickTheorem == Spec => ClickMatchesRow
<1>1. PanelsInductive /\ [Next]_all => [part = "panel" => Panels!ClickMatchesRow]_all
  BY PanelsStep
<1> QED BY <1>1, PanelsInvariant, PTL DEF Spec, ClickMatchesRow

\* For every query and search, however they change while the timer runs or a fetch is under way: with
\* neither, and unless the last fetch failed, the visitors listed begin with the first page the query
\* and the search ask for (the effect of the visitors, use-behaviors-panel-controller.ts).
THEOREM VisitorsTheorem == Spec => []FirstPageIsAsked
<1>1. PanelsInductive => FirstPageIsAsked
  BY DEF PanelsInductive, FirstPageIsAsked, Behaviors!Inductive
<1> QED BY <1>1, PanelsInvariant, PTL

\* For every list of funnels and of properties: taking the one an answer resolved asks nothing again
\* (the key lastRequestKeyRef is left with).
THEOREM AnswersTheorem == Spec => AnswersSettle
<1>1. PanelsInductive /\ [Next]_all => [part = "behaviors" => Behaviors!AnswersSettle]_all
  BY PanelsStep
<1> QED BY <1>1, PanelsInvariant, PTL DEF Spec, AnswersSettle
=============================================================================
