------------------------------- MODULE Details --------------------------------
(* The dialog of all the rows of a report (ui/remote-details-dialog.tsx): opened *)
(* and closed by the route, sorted and searched by the server, one page after    *)
(* another.  It stays mounted when it is closed, so what it held, and what it     *)
(* waits for (the 300 ms of useDebounce, its answers), outlives the closing.      *)
EXTENDS Integers, FiniteSets, Sequences

CONSTANTS
  Scopes,      \* the endpoint, its extras and the query of the page
  MetricsOf,   \* scope -> the metrics of its rows
  DefaultSort, \* defaultSortKey
  Texts,       \* what may be typed in the search, "" among it
  MaxPages,    \* bound: pages a report has
  MaxMoves     \* bound: what the administrator does

Keys == {"name"} \cup UNION {MetricsOf[s] : s \in Scopes}

DetailsAssumption ==
  MaxPages \in Nat /\ MaxMoves \in Nat /\ "" \in Texts /\ DefaultSort \in Keys

Silent == "no timer"

VARIABLES
  open, scope, search, debounced, timer, sort,
  pages,       \* the rows: the pages they came in, [of, search, sort, page]
  page, hasMore, loading,
  first,       \* first pages on their way: [of, search, sort, page, heard]
  more,        \* next pages on their way
  missed,      \* the last first page asked failed (history)
  moves

vars == <<open, scope, search, debounced, timer, sort, pages, page, hasMore, loading,
          first, more, missed, moves>>

Move == moves < MaxMoves /\ moves' = moves + 1

Direction(key) == IF key = "name" THEN "asc" ELSE "desc"
Asked(sc, text, by, n) == [of |-> sc, search |-> text, sort |-> by, page |-> n]
AskedFirst(sc, text, by) == [of |-> sc, search |-> text, sort |-> by, page |-> 1, heard |-> TRUE]

Init ==
  /\ open = FALSE /\ scope \in Scopes /\ search = "" /\ debounced = "" /\ timer = Silent
  /\ sort = [key |-> DefaultSort, direction |-> Direction(DefaultSort)]
  /\ pages = <<>> /\ page = 1 /\ hasMore = FALSE /\ loading = FALSE
  /\ first = {} /\ more = {} /\ missed = FALSE /\ moves = 0

\* Variant: the answers asked before are not ignored.
AllHeard(asked) == asked
Ignored(asked) == {[a EXCEPT !.heard = FALSE] : a \in asked}

\* The effect that asks the first page, when what it depends on has changed.
Fetch(isOpen, sc, text, by, n, busy, failed) ==
  LET runs == <<isOpen, sc, text, by>> # <<open, scope, debounced, sort>>
      asks == runs /\ isOpen
  IN /\ open' = isOpen /\ scope' = sc /\ debounced' = text /\ sort' = by
     /\ first' = (IF runs THEN Ignored(first) ELSE first)
                   \cup (IF asks THEN {AskedFirst(sc, text, by)} ELSE {})
     /\ page' = IF asks THEN 1 ELSE n
     /\ loading' = (asks \/ busy)
     /\ missed' = (failed /\ ~asks)

-----------------------------------------------------------------------------

Open ==
  /\ ~open /\ Move /\ Fetch(TRUE, scope, debounced, sort, page, loading, missed)
  /\ UNCHANGED <<search, timer, pages, hasMore, more>>

\* Escape, the browser's back button, or a row that filters the dashboard.
Leave ==
  /\ open /\ Move /\ Fetch(FALSE, scope, debounced, sort, page, loading, missed)
  /\ UNCHANGED <<search, timer, pages, hasMore, more>>

\* handleClose: the cross, or a click beside the dialog.
Close ==
  /\ open /\ Move /\ Fetch(FALSE, scope, "", sort, 1, loading, missed)
  /\ search' = "" /\ pages' = <<>> /\ hasMore' = FALSE
  /\ UNCHANGED <<timer, more>>

\* The report of the card is another: a tab, a filter, a period.
ChangeScope(sc) ==
  /\ sc # scope /\ Move /\ Fetch(open, sc, debounced, sort, page, loading, missed)
  /\ UNCHANGED <<search, timer, pages, hasMore, more>>

Type(text) ==
  /\ open /\ text # search /\ Move /\ search' = text /\ timer' = text
  /\ UNCHANGED <<open, scope, debounced, sort, pages, page, hasMore, loading, first, more, missed>>

\* useDebounce: also when the dialog has been closed.
TimerFires ==
  /\ timer # Silent /\ timer' = Silent /\ Fetch(open, scope, timer, sort, 1, loading, missed)
  /\ UNCHANGED <<search, pages, hasMore, more, moves>>

ToggleSort(key) ==
  /\ open /\ key \in {"name"} \cup MetricsOf[scope] /\ Move
  /\ LET by == IF key # sort.key THEN [key |-> key, direction |-> Direction(key)]
               ELSE [key |-> key, direction |-> IF sort.direction = "asc" THEN "desc" ELSE "asc"]
     IN Fetch(open, scope, debounced, by, page, loading, missed)
  /\ UNCHANGED <<search, timer, pages, hasMore, more>>

LoadMore ==
  /\ open /\ hasMore /\ ~loading /\ Move
  /\ loading' = TRUE /\ more' = more \cup {Asked(scope, debounced, sort, page + 1)}
  /\ UNCHANGED <<open, scope, search, debounced, timer, sort, pages, page, hasMore, first, missed>>

-----------------------------------------------------------------------------
(* The answers.                                                                *)

Content(a) == Asked(a.of, a.search, a.sort, a.page)

\* A column sorted by that the answer does not have gives way to visitors, or to the name.
SortAfter(sc) ==
  IF sort.key \in {"name"} \cup MetricsOf[sc] THEN sort
  ELSE IF "visitors" \in MetricsOf[sc] THEN [key |-> "visitors", direction |-> "desc"]
  ELSE [key |-> "name", direction |-> "asc"]

FirstAnswer(a, others) ==
  /\ a \in first
  /\ IF ~a.heard
     THEN first' = first \ {a} /\ UNCHANGED <<open, scope, debounced, sort, pages, page, hasMore, loading, missed>>
     ELSE /\ pages' = <<Content(a)>> /\ hasMore' = others
          /\ others => MaxPages > 1
          /\ LET by == SortAfter(a.of)
             IN /\ sort' = by /\ page' = IF by # sort THEN 1 ELSE page
                /\ loading' = (by # sort) /\ missed' = FALSE
                /\ first' = (first \ {a}) \cup
                     IF by # sort THEN {AskedFirst(scope, debounced, by)} ELSE {}
          /\ UNCHANGED <<open, scope, debounced>>
  /\ UNCHANGED <<search, timer, more, moves>>

\* Variant: a failure leaves the spinner.
FirstFailsBusy(a) ==
  /\ a \in first /\ first' = first \ {a}
  /\ missed' = (missed \/ a.heard)
  /\ UNCHANGED <<open, scope, search, debounced, timer, sort, pages, page, hasMore, loading, more, moves>>

FirstFails(a) ==
  /\ a \in first /\ first' = first \ {a}
  /\ loading' = (loading /\ ~a.heard) /\ missed' = (missed \/ a.heard)
  /\ UNCHANGED <<open, scope, search, debounced, timer, sort, pages, page, hasMore, more, moves>>

\* The function that would ignore this answer is never called.
MoreAnswer(a, others) ==
  /\ a \in more /\ more' = more \ {a}
  /\ pages' = Append(pages, a) /\ hasMore' = others /\ page' = a.page
  /\ others => a.page < MaxPages
  /\ loading' = FALSE
  /\ UNCHANGED <<open, scope, search, debounced, timer, sort, first, missed, moves>>

MoreFails(a) ==
  /\ a \in more /\ more' = more \ {a} /\ loading' = FALSE
  /\ UNCHANGED <<open, scope, search, debounced, timer, sort, pages, page, hasMore, first, missed, moves>>

Settle ==
  \/ \E a \in first : FirstFails(a) \/ \E others \in BOOLEAN : FirstAnswer(a, others)
  \/ \E a \in more : MoreFails(a) \/ \E others \in BOOLEAN : MoreAnswer(a, others)

Next ==
  \/ Open \/ Leave \/ Close \/ TimerFires \/ LoadMore \/ Settle
  \/ \E sc \in Scopes : ChangeScope(sc)
  \/ \E text \in Texts : Type(text)
  \/ \E key \in Keys : ToggleSort(key)

Spec == Init /\ [][Next]_vars

-----------------------------------------------------------------------------
(* Properties.                                                                 *)

Sorts == [key : Keys, direction : {"asc", "desc"}]

Answers == [of : Scopes, search : Texts, sort : Sorts, page : Nat]

\* The types of what the effect that asks the first page writes, and of the rest.
FetchedTypes ==
  /\ open \in BOOLEAN /\ scope \in Scopes /\ debounced \in Texts /\ sort \in Sorts
  /\ page \in Nat /\ loading \in BOOLEAN /\ missed \in BOOLEAN
  /\ first \subseteq [of : Scopes, search : Texts, sort : Sorts, page : {1}, heard : BOOLEAN]

OtherTypes ==
  /\ search \in Texts /\ timer \in Texts \cup {Silent} /\ hasMore \in BOOLEAN /\ moves \in Nat
  /\ more \subseteq Answers /\ pages \in Seq(Answers)

TypeOK == FetchedTypes /\ OtherTypes

Awaited == {a \in first : a.heard}
Wanted == Asked(scope, debounced, sort, 1)

\* What is listened to is what the open dialog asks for.
Listens == \A a \in Awaited : open /\ Content(a) = Wanted
Begins == pages # <<>> /\ pages[1] = Wanted

\* Once the first page is answered, the rows of the open dialog begin with the first page of its
\* report, by the search it last asked for and the column it is sorted by.
FirstPageShown == open /\ ~missed /\ Awaited = {} => Begins

Inductive == TypeOK /\ Listens /\ FirstPageShown

\* The open dialog loads.
Busy == open /\ loading
=============================================================================
