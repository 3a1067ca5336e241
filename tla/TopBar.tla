-------------------------------- MODULE TopBar --------------------------------
(* The dashboard's query and its top bar: every control reads the query from    *)
(* the URL, and changes it by writing the next query to the URL (query-context, *)
(* location-context, host-context).  The period menu and its keys, the two      *)
(* calendars, the filter menu with its dialog of forms, the badges and the      *)
(* segments all do so, in any order, with Back, other days and bookmarked URLs  *)
(* in between.                                                                  *)
EXTENDS DashboardUrl

CONSTANTS
  StartUrls,   \* URLs the dashboard may be opened at
  Days,        \* days of the calendar and of the clock
  Values,      \* dimension -> values an administrator types or picks for it
  Segments,    \* saved segments
  Countries,   \* <<code, name>> of the countries the map can be clicked on
  Hints,       \* bound: the periods that are chosen, by the keys that stand for them
  MaxMoves     \* bound: what the administrator does

Operators == {"is", "is_not", "contains"}
Dates == Int \X Int \X Int

\* Of two days of a range the first is not after the second.
Ordered(days) ==
  /\ {"from", "to"} \subseteq DOMAIN days => ~Before(days["to"], days["from"])
  /\ CompareDays \subseteq DOMAIN days => ~Before(days["compare_to"], days["compare_from"])

OfDays(days) == days \in [DOMAIN days -> Dates] /\ Ordered(days)

Pairs(s) == s \in Seq(ToSet(s)) /\ \A e \in ToSet(s) : e = <<e[1], e[2]>>
Triples(s) == s \in Seq(ToSet(s)) /\ \A t \in ToSet(s) : t = <<t[1], t[2], t[3]>>

\* A URL as the dashboard writes it, in this version or an older one.
OfUrl(u) ==
  LET p == u.params
  IN /\ u = [path |-> u.path, params |-> p]
     /\ p = [word |-> p.word, day |-> p.day, f |-> p.f, l |-> p.l]
     /\ OfDays(p.day) /\ Triples(p.f)

TopBarAssumption ==
  /\ MaxMoves \in Nat /\ Hints \subseteq DOMAIN Shortcuts
  /\ Days \subseteq Dates /\ \A u \in StartUrls : OfUrl(u)
  /\ "property" \in DOMAIN Values /\ \A key \in Values["property"] : "prop:" \o key # "event:goal"

VARIABLES
  url,       \* [path, params]
  past,      \* the entries Back returns to
  today,     \* the date of the browser's clock
  calendar,  \* per picker: [open, start, preloaded, range it was opened with]
  opening,   \* form the filter menu is loading the dialog for
  form,      \* the filter dialog: [type, key, fields]
  suggest,   \* the focused input's suggestions: [field, due, searching, options]
  fetches,   \* what the suggestions under way were asked for, but for those ignored
  wanted,    \* the query last asked for (history)
  asked,     \* the queries asked for at the entries of `past` (history)
  moves      \* bound

vars == <<url, past, today, calendar, opening, form, suggest, fetches, wanted, asked, moves>>
barVars == <<calendar, opening, form, suggest, fetches>>

-----------------------------------------------------------------------------
(* The forms of the filter dialog (ui/filter-dialog/forms.tsx).                *)

Nothing == <<>>
FormDims ==
  [page |-> {"page", "entry_page", "exit_page"}, location |-> {"country", "region", "city"},
   source |-> {"source"}, utm |-> ToSet(UtmOrder), browser |-> {"browser"},
   browser_version |-> {"browser_version"}, os |-> {"os"}, os_version |-> {"os_version"},
   size |-> {"size"}, goal |-> {"goal"}, property |-> {"prop"}]

FreshFields(type) == [dim \in FormDims[type] |-> <<"is", None>>]
NoForm == [type |-> None, key |-> None, fields |-> EmptyMap]
NoSuggest == [field |-> None, due |-> FALSE, searching |-> FALSE, options |-> Nothing]

\* Apply is enabled by any value of a form, and by key and value of a property.
CanApply(fm) ==
  /\ \E dim \in DOMAIN fm.fields : fm.fields[dim][2] # None
  /\ fm.type = "property" => fm.key # None

\* The dimension a field filters by: a property is one of its own.
FilterDim(fm, dim) == IF fm.type = "property" THEN "prop:" \o fm.key ELSE dim

\* applyOperatorFilters: the filters of the dimension make place for this one.
ApplyField(q, dim, op, value) ==
  LET without == [q EXCEPT !.filters = DropKey(@, dim),
                           !.advanced = Only(@, {t \in ToSet(@) : t[2] # dim})]
  IN IF value = None THEN without
     ELSE IF op = "is" THEN [without EXCEPT !.filters = PutKey(@, dim, value)]
     ELSE [without EXCEPT !.advanced = Append(@, <<op, dim, value>>)]

ApplyForm(q, fm) ==
  FoldLeft(LAMBDA acc, dim : ApplyField(acc, FilterDim(fm, dim), fm.fields[dim][1], fm.fields[dim][2]),
           q, SetToSeq(DOMAIN fm.fields))

-----------------------------------------------------------------------------
(* What the bar shows (query-periods-picker, filter-badges, segment-menu).      *)

FilterOrder ==
  <<"page", "entry_page", "exit_page", "source", "channel", "referrer", "utm_source", "utm_medium",
    "utm_campaign", "utm_content", "utm_term", "country", "region", "city", "browser",
    "browser_version", "os", "os_version", "goal", "prop", "segment">>

\* getOrderedFilters: sorted by FILTER_ORDER, what it does not list first.
OrderOf(dim) ==
  IF \E i \in DOMAIN FilterOrder : FilterOrder[i] = dim
  THEN CHOOSE i \in DOMAIN FilterOrder : FilterOrder[i] = dim ELSE 0
Badges(q) ==
  SortSeq(q.filters, LAMBDA a, b : OrderOf(a[1]) < OrderOf(b[1]))
    \o SortSeq(q.advanced, LAMBDA a, b : OrderOf(a[2]) < OrderOf(b[2]))

BadgeText(q, badge) ==
  IF Len(badge) = 3 THEN badge[3]
  ELSE IF badge[1] \in Keys(q.labels) THEN ValueOf(q.labels, badge[1]) ELSE badge[2]

CompareOffer(q) ==
  IF q.comparison = None THEN {"compare"}
  ELSE {"disable", "previous_period", "year_over_year", "custom", "match"}

SegmentOffer == IF Cardinality(Segments) > 1 THEN Segments \cup {None} ELSE {}

ActivePeriods(q, on) == {s \in PickerOptions(q.period) : IsPeriodSelectionActive(q, s, on)}

-----------------------------------------------------------------------------
(* Writing the query to the URL.                                               *)

Move == moves < MaxMoves /\ moves' = moves + 1

\* The calendar is set again when it opens, or is given another range while open.
Given(which, q) ==
  LET from == IF which = "custom" THEN "from" ELSE "compare_from"
      to == IF which = "custom" THEN "to" ELSE "compare_to"
      shown == IF which = "custom" THEN q.period = "custom" ELSE q.comparison = "custom"
  IN IF shown /\ {from, to} \subseteq DOMAIN q.day THEN <<q.day[from], q.day[to]>> ELSE Nothing

Opened(which, q) ==
  [open |-> TRUE, start |-> Nothing, preloaded |-> Given(which, q) # Nothing, given |-> Given(which, q)]
Shut == [open |-> FALSE, start |-> Nothing, preloaded |-> FALSE, given |-> Nothing]

Refreshed(cal, q) ==
  [which \in DOMAIN cal |->
     IF cal[which].open /\ cal[which].given # Given(which, q) THEN Opened(which, q) ELSE cal[which]]

\* A new query is a new fetcher: the effect of the focused input runs again.
Restart(s) == IF s.field = None THEN s ELSE [s EXCEPT !.due = TRUE]
\* Variant: the cleanup of the effect does not set the flag.
IgnoredNever(fs) == fs
\* The cleanup sets `ignore`: the answers under way do nothing any more.
Ignored(fs) == {}

\* updateQuery: nothing is navigated to when the URL says it already.
UpdateQuery(q, cal, closeDialog) ==
  LET next == NavigationUrl(url, q, closeDialog)
  IN /\ wanted' = q
     /\ IF next = url
        THEN UNCHANGED <<url, past, asked>> /\ calendar' = cal
        ELSE /\ url' = next /\ past' = Append(past, url) /\ asked' = Append(asked, wanted)
             /\ calendar' = Refreshed(cal, QueryOf(next))

Update(q) ==
  /\ UpdateQuery(q, calendar, FALSE)
  /\ suggest' = Restart(suggest) /\ fetches' = Ignored(fetches)
  /\ UNCHANGED <<today, opening, form>>

Current == QueryOf(url)

Init ==
  /\ url \in StartUrls /\ today \in Days
  /\ past = <<>> /\ asked = <<>> /\ wanted = QueryOf(url)
  /\ calendar = [which \in {"custom", "compare"} |-> Shut]
  /\ opening = None /\ form = NoForm /\ suggest = NoSuggest /\ fetches = {} /\ moves = 0

\* The provider's effect replaces a URL that is not canonical.
ReplaceByCanonical ==
  /\ url.params # Canonicalize(url.params)
  /\ url' = [url EXCEPT !.params = Canonicalize(@)]
  /\ calendar' = Refreshed(calendar, QueryOf(url'))
  /\ suggest' = Restart(suggest) /\ fetches' = Ignored(fetches)
  /\ UNCHANGED <<past, today, opening, form, wanted, asked, moves>>

Back ==
  /\ past # <<>> /\ Move
  /\ url' = Last(past) /\ past' = Front(past)
  /\ wanted' = Last(asked) /\ asked' = Front(asked)
  /\ calendar' = Refreshed(calendar, QueryOf(url'))
  /\ suggest' = Restart(suggest) /\ fetches' = Ignored(fetches)
  /\ UNCHANGED <<today, opening, form>>

Midnight ==
  /\ \E d \in Days : Before(today, d) /\ today' = d
  /\ Move
  /\ UNCHANGED <<url, past, calendar, opening, form, suggest, fetches, wanted, asked>>

-----------------------------------------------------------------------------
(* Periods and comparisons.                                                    *)

\* A key works whenever no input is typed into; the menu while it is not covered.
PressKey(hint) ==
  /\ suggest.field = None /\ Move
  /\ Update(ApplyPeriodSelection(Current, Shortcuts[hint], today))

PickPeriod(s) ==
  /\ form.type = None /\ s \in PickerOptions(Current.period) /\ Move
  /\ Update(ApplyPeriodSelection(Current, s, today))

PressX ==
  /\ suggest.field = None /\ Move
  /\ Update([Current EXCEPT !.comparison = IF @ = "previous_period" THEN None ELSE "previous_period"])

PickComparison(choice) ==
  /\ form.type = None /\ choice \in CompareOffer(Current) \ {"match", "custom"} /\ Move
  /\ LET days == IF choice = "compare" THEN Current.day
                 ELSE PutDay(PutDay(Current.day, "compare_from", {}), "compare_to", {})
     IN Update([Current EXCEPT !.day = days,
                               !.comparison = CASE choice = "disable" -> None
                                                [] choice = "compare" -> "previous_period"
                                                [] OTHER -> choice])

MatchDayOfWeek(b) ==
  /\ form.type = None /\ "match" \in CompareOffer(Current) /\ Move
  /\ Update([Current EXCEPT !.matchDayOfWeek = b])

OpenCalendar(which) ==
  /\ ~calendar[which].open /\ Move
  /\ which = "compare" => form.type = None /\ "custom" \in CompareOffer(Current)
  /\ which = "custom" => suggest.field = None
  /\ calendar' = [calendar EXCEPT ![which] = Opened(which, Current)]
  /\ UNCHANGED <<url, past, today, opening, form, suggest, fetches, wanted, asked>>

CloseCalendar(which) ==
  /\ calendar[which].open
  /\ calendar' = [calendar EXCEPT ![which] = Shut]
  /\ UNCHANGED <<url, past, today, opening, form, suggest, fetches, wanted, asked, moves>>

PutRange(days, from, to, first, last) == PutDay(PutDay(days, from, {first}), to, {last})

\* Variant: the days are taken in the order they were clicked.
RangeAsClicked(start, day) == <<start, day>>
RangeOf(start, day) == IF Before(day, start) THEN <<day, start>> ELSE <<start, day>>

\* The first click starts a range, the second one applies it; days to come are disabled.
ClickDay(which, day) ==
  LET cal == calendar[which]
      first == cal.preloaded \/ cal.start = Nothing
      range == RangeOf(cal.start, day)
      from == IF which = "custom" THEN "from" ELSE "compare_from"
      to == IF which = "custom" THEN "to" ELSE "compare_to"
      days == PutRange(Current.day, from, to, range[1], range[2])
  IN /\ cal.open /\ ~Before(today, day) /\ Move
     /\ IF first
        THEN /\ calendar' = [calendar EXCEPT ![which] = [@ EXCEPT !.start = day, !.preloaded = FALSE]]
             /\ UNCHANGED <<url, past, wanted, asked, suggest, fetches>>
        ELSE /\ UpdateQuery(IF which = "custom" THEN [Current EXCEPT !.period = "custom", !.day = days]
                            ELSE [Current EXCEPT !.comparison = "custom", !.day = days],
                            [calendar EXCEPT ![which] = Shut], FALSE)
             /\ suggest' = Restart(suggest) /\ fetches' = Ignored(fetches)
     /\ UNCHANGED <<today, opening, form>>

-----------------------------------------------------------------------------
(* Filters.                                                                    *)

RemoveBadge(badge) ==
  /\ form.type = None /\ badge \in ToSet(Badges(Current)) /\ Move
  /\ Update(IF Len(badge) = 2
            THEN [Current EXCEPT !.filters = DropKey(@, badge[1]), !.labels = DropKey(@, badge[1])]
            ELSE [Current EXCEPT !.advanced = Only(@, ToSet(@) \ {badge})])

ClearAll ==
  /\ form.type = None /\ Len(Badges(Current)) >= 2 /\ Move
  /\ Update([Current EXCEPT !.filters = <<>>, !.labels = <<>>, !.advanced = <<>>])

ApplySegment(segment) ==
  /\ form.type = None /\ segment \in SegmentOffer /\ Move
  /\ Update([Current EXCEPT !.filters = IF segment = None THEN DropKey(@, "segment")
                                        ELSE PutKey(@, "segment", segment)])

\* buildLocationDrilldownPath: a country of the map, whose name is its label.
Drilldown(country) ==
  /\ form.type = None /\ Move
  /\ UpdateQuery([Current EXCEPT !.filters = PutKey(@, "country", country[1]),
                                 !.labels = IF country[2] # country[1] THEN PutKey(@, "country", country[2])
                                            ELSE DropKey(@, "country")], calendar, TRUE)
  /\ suggest' = Restart(suggest) /\ fetches' = Ignored(fetches)
  /\ UNCHANGED <<today, opening, form>>

\* The menu closes; the dialog shows once two frames and its code's load have passed.
ChooseForm(type) ==
  /\ form.type = None /\ type \in DOMAIN FormDims /\ Move
  /\ opening' = type
  /\ UNCHANGED <<url, past, today, calendar, form, suggest, fetches, wanted, asked>>

ShowForm ==
  /\ opening # None
  /\ form' = [type |-> opening, key |-> None, fields |-> FreshFields(opening)] /\ opening' = None
  /\ UNCHANGED <<url, past, today, calendar, suggest, fetches, wanted, asked, moves>>

CloseForm ==
  /\ form.type # None
  /\ form' = NoForm /\ suggest' = NoSuggest /\ fetches' = Ignored(fetches)
  /\ UNCHANGED <<url, past, today, calendar, opening, wanted, asked, moves>>

\* Another property empties the value.
TypeKey(key) ==
  /\ form.type = "property" /\ key # form.key
  /\ form' = [form EXCEPT !.key = key, !.fields = [dim \in DOMAIN @ |-> <<@[dim][1], None>>]]
  /\ suggest' = NoSuggest /\ fetches' = Ignored(fetches)
  /\ UNCHANGED <<url, past, today, calendar, opening, wanted, asked, moves>>

WithField(dim, field) == [form EXCEPT !.fields = [@ EXCEPT ![dim] = field]]

TypeValue(dim, value) ==
  /\ form.type # None /\ suggest.field = dim /\ value # form.fields[dim][2] /\ Move
  /\ form' = WithField(dim, <<form.fields[dim][1], value>>)
  /\ suggest' = Restart(suggest) /\ fetches' = Ignored(fetches)
  /\ UNCHANGED <<url, past, today, calendar, opening, wanted, asked>>

ChooseOperator(dim, op) ==
  /\ form.type # None /\ op # form.fields[dim][1] /\ Move
  /\ form' = WithField(dim, <<op, form.fields[dim][2]>>)
  /\ suggest' = NoSuggest /\ fetches' = Ignored(fetches)
  /\ UNCHANGED <<url, past, today, calendar, opening, wanted, asked>>

SubmitForm ==
  /\ form.type # None /\ CanApply(form) /\ Move
  /\ UpdateQuery(ApplyForm(Current, form), calendar, FALSE)
  /\ form' = NoForm /\ suggest' = NoSuggest /\ fetches' = Ignored(fetches)
  /\ UNCHANGED <<today, opening>>

-----------------------------------------------------------------------------
(* Suggestions (SuggestInput): asked for 250 ms after the last change.          *)

\* What the input's fetcher and text are; what an answer is an answer to.
SuggestKey == <<suggest.field, form.key, IF suggest.field = None THEN None ELSE form.fields[suggest.field][2], url>>

FocusInput(dim) ==
  /\ form.type # None /\ dim \in DOMAIN form.fields /\ suggest.field # dim
  /\ suggest' = [NoSuggest EXCEPT !.field = dim, !.due = TRUE] /\ fetches' = Ignored(fetches)
  /\ UNCHANGED <<url, past, today, calendar, opening, form, wanted, asked, moves>>

\* The options an input keeps from before it was left are left out.
BlurInput ==
  /\ suggest.field # None
  /\ suggest' = NoSuggest
  /\ fetches' = Ignored(fetches)
  /\ UNCHANGED <<url, past, today, calendar, opening, form, wanted, asked, moves>>

AskSuggestions ==
  /\ suggest.due
  /\ suggest' = [suggest EXCEPT !.due = FALSE, !.searching = TRUE]
  /\ fetches' = fetches \cup {SuggestKey}
  /\ UNCHANGED <<url, past, today, calendar, opening, form, wanted, asked, moves>>

\* A fetch that fails answers with no options.
ReceiveSuggestions(fe) ==
  /\ fe \in fetches
  /\ fetches' = fetches \ {fe}
  /\ suggest' = [suggest EXCEPT !.options = fe, !.searching = FALSE]
  /\ UNCHANGED <<url, past, today, calendar, opening, form, wanted, asked, moves>>

-----------------------------------------------------------------------------

Next ==
  \/ ReplaceByCanonical \/ Back \/ Midnight
  \/ \E hint \in Hints : PressKey(hint) \/ PickPeriod(Shortcuts[hint])
  \/ PressX
  \/ \E choice \in {"compare", "disable", "previous_period", "year_over_year"} : PickComparison(choice)
  \/ \E b \in BOOLEAN : MatchDayOfWeek(b)
  \/ \E which \in {"custom", "compare"} :
       OpenCalendar(which) \/ CloseCalendar(which) \/ \E day \in Days : ClickDay(which, day)
  \/ \E badge \in ToSet(Badges(Current)) : RemoveBadge(badge)
  \/ ClearAll
  \/ \E segment \in Segments \cup {None} : ApplySegment(segment)
  \/ \E country \in Countries : Drilldown(country)
  \/ \E type \in DOMAIN Values : ChooseForm(type)
  \/ ShowForm \/ CloseForm \/ SubmitForm
  \/ \E key \in Values["property"] : TypeKey(key)
  \/ \E dim \in DOMAIN form.fields :
       \/ \E value \in Values[form.type] : TypeValue(dim, value)
       \/ \E op \in Operators : ChooseOperator(dim, op)
       \/ FocusInput(dim)
  \/ BlurInput \/ AskSuggestions
  \/ \E fe \in fetches : ReceiveSuggestions(fe)

Spec == Init /\ [][Next]_vars

-----------------------------------------------------------------------------
(* Properties.                                                                 *)

\* Two queries ask for the same report: labels, days that are not used and the order of the filters,
\* all of which must hold, do not count.
UsedDays(q) == {<<k, q.day[k]>> : k \in {d \in DOMAIN q.day : q.comparison # None \/ d \notin CompareDays}}
SameTimes(a, b) ==
  /\ a.period = b.period /\ a.comparison = b.comparison /\ a.withImported = b.withImported
  /\ a.comparison # None => a.matchDayOfWeek = b.matchDayOfWeek
  /\ UsedDays(a) = UsedDays(b)
SameFilters(a, b) == ToSet(a.filters) = ToSet(b.filters) /\ ToSet(a.advanced) = ToSet(b.advanced)

\* No filter is by a key with a comma.  A custom property may have such a name.
PlainKeys(q) ==
  /\ \A e \in ToSet(q.filters) : Commas(e[1]) = {}
  /\ \A t \in ToSet(q.advanced) : Commas(t[2]) = {}

\* The query a, of a URL, is what b asked for: its times always, its filters if their keys are plain.
SameReport(a, b) == SameTimes(a, b) /\ (PlainKeys(b) => SameFilters(a, b))

\* What the URL says is what was last asked for, through every way of writing and
\* reading it, and after Back what was asked for at that entry; so the page, a reload
\* and a bookmark show the same report (updateQuery, the codec and the canonical form).
\* The filters of a query with a key that has a comma are left out: the codec loses it.
IntentInUrl == SameReport(QueryOf(url), wanted)

\* A range that was picked on a calendar begins before it ends, whatever the order of
\* the clicks and whatever happened to the calendar in between (handleDayClick).
RangesOrdered == Ordered(QueryOf(url).day)

\* After a period was chosen, and while it is the day it was chosen on, the menu marks it:
\* the date written for it is the date the marks are computed from.
PeriodMarked ==
  wanted' # wanted /\ moves' # moves =>
    \A s \in Selections :
      wanted' = ApplyPeriodSelection(Current, s, today) /\ s \in PickerOptions(s.value)
        => s \in ActivePeriods(QueryOf(url'), today)

\* Suggestions are those for what the input holds, for its fetcher's query and property:
\* a late answer does not replace them (the ignore flag of SuggestInput).
SuggestedAsAsked ==
  suggest'.options # suggest.options /\ suggest'.options # Nothing => suggest'.options = SuggestKey

-----------------------------------------------------------------------------
(* The inductive invariant.                                                    *)

\* The filters are an object: a dimension has one value, and goals have one name.
OfFilters(entries) ==
  /\ Pairs(entries) /\ "event:goal" \notin Keys(entries)
  /\ \A e, g \in ToSet(entries) : e[1] = g[1] => e = g
OfTokens(tokens) == Triples(tokens) /\ \A t \in ToSet(tokens) : t[1] \in {"is_not", "contains"}

OfQuery(q) ==
  /\ q \in [period : Periods, comparison : {q.comparison}, day : {q.day}, withImported : BOOLEAN,
             matchDayOfWeek : BOOLEAN, filters : {q.filters}, labels : {q.labels}, advanced : {q.advanced}]
  /\ OfDays(q.day) /\ OfFilters(q.filters) /\ OfTokens(q.advanced)

Says(u, q) == OfUrl(u) /\ OfQuery(q) /\ SameReport(QueryOf(u), q)

\* Every entry of the history says what was asked for there.
History ==
  /\ Says(url, wanted)
  /\ past \in Seq(ToSet(past)) /\ asked \in Seq(ToSet(asked)) /\ Len(past) = Len(asked)
  /\ \A i \in 1..Len(past) : Says(past[i], asked[i])

Calendars ==
  [{"custom", "compare"} ->
     [open : BOOLEAN, start : Days \cup {Nothing}, preloaded : BOOLEAN, given : (Dates \X Dates) \cup {Nothing}]]
OfForm(fm) ==
  fm = NoForm \/ /\ fm \in [type : DOMAIN FormDims, key : Values["property"] \cup {None}, fields : {fm.fields}]
                 /\ fm.fields = [dim \in FormDims[fm.type] |-> fm.fields[dim]]
                 /\ \A dim \in FormDims[fm.type] :
                      /\ fm.fields[dim] = <<fm.fields[dim][1], fm.fields[dim][2]>>
                      /\ fm.fields[dim][1] \in Operators
OfSuggest(s) == s \in [field : {s.field}, due : BOOLEAN, searching : BOOLEAN, options : {s.options}]

TypeOK ==
  /\ today \in Days /\ calendar \in Calendars /\ opening \in DOMAIN FormDims \cup {None}
  /\ OfForm(form) /\ OfSuggest(suggest)

\* What is under way is for the focused input; it is in the dialog, which waits for its code alone.
Suggests ==
  /\ fetches \subseteq {SuggestKey}
  /\ suggest.due => suggest.field # None
  /\ form.type = None => suggest.field = None /\ fetches = {}
  /\ opening # None => form.type = None

Inductive == TypeOK /\ History /\ Suggests
=============================================================================
