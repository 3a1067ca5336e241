----------------------------- MODULE DashboardUrl -----------------------------
(* What the URL of the analytics dashboard says (pages/admin/analytics/lib):    *)
(* the query of the report, written to and read from the parameters of the URL, *)
(* the canonical form of those parameters, the path of a details dialog and the *)
(* modes of the panels.  Parameters are the record                              *)
(*   [word |-> key -> string, day |-> key -> date, f |-> filters, l |-> labels]  *)
(* where an absent key is outside the domain.  A filter of f is the text          *)
(* op,key,value and a label of l the text key,value: each is given by the parts   *)
(* it is read as, which end at its first commas.  The order of the parameters     *)
(* other than f and l, and their percent-encoding, are left out.  Dates are        *)
(* <<y, m, d>>.                                                                  *)
EXTENDS Integers, Sequences, FiniteSets, SequencesExt, TLC

None == ""
EmptyMap == [k \in {} |-> None]

\* The date d is before e.
Before(d, e) == d[1] < e[1] \/ (d[1] = e[1] /\ (d[2] < e[2] \/ (d[2] = e[2] /\ d[3] < e[3])))

-----------------------------------------------------------------------------
(* Entries of an object, in the order they were added: setting a key keeps its place. *)

Keys(entries) == {entries[i][1] : i \in DOMAIN entries}
ValueOf(entries, key) ==
  IF key \in Keys(entries) THEN (CHOOSE e \in ToSet(entries) : e[1] = key)[2] ELSE None

\* The elements that are in `kept`, and what is left when repeated ones are dropped.
Only(s, kept) == FoldLeft(LAMBDA acc, e : IF e \in kept THEN Append(acc, e) ELSE acc, <<>>, s)
Deduped(s) == FoldLeft(LAMBDA acc, e : IF e \in ToSet(acc) THEN acc ELSE Append(acc, e), <<>>, s)

DropKey(entries, key) == Only(entries, {e \in ToSet(entries) : e[1] # key})
PutKey(entries, key, value) ==
  IF key \in Keys(entries)
  THEN [i \in DOMAIN entries |-> IF entries[i][1] = key THEN <<key, value>> ELSE entries[i]]
  ELSE Append(entries, <<key, value>>)

-----------------------------------------------------------------------------
(* Periods (lib/period.ts).  A selection is a period and, for three of them,   *)
(* whether the current or the last one is meant.                               *)

Selection(value, setDate) == [value |-> value, setDate |-> setDate]

Shortcuts ==
  [D |-> Selection("day", "current"), E |-> Selection("day", "last"),
   R |-> Selection("realtime", None), H |-> Selection("24h", None),
   W |-> Selection("7d", None), F |-> Selection("28d", None), N |-> Selection("91d", None),
   M |-> Selection("month", "current"), P |-> Selection("month", "last"),
   Y |-> Selection("year", "current"), S |-> Selection("6mo", None),
   L |-> Selection("12mo", None), A |-> Selection("all", None)]

Selections == {Shortcuts[hint] : hint \in DOMAIN Shortcuts}
Periods == {s.value : s \in Selections} \cup {"custom"}

\* The six months are only offered by the menu while they are shown.
PickerOptions(period) == {s \in Selections : s.value # "6mo" \/ period = "6mo"}

Intervals(period) ==
  CASE period \in {"day", "24h"} -> <<"minute", "hour">>
    [] period = "realtime" -> <<"minute">>
    [] period = "7d" -> <<"hour", "day">>
    [] period \in {"28d", "month"} -> <<"day", "week">>
    [] OTHER -> <<"day", "week", "month">>

DaysIn(y, m) ==
  CASE m = 2 -> IF y % 4 = 0 /\ (y % 100 # 0 \/ y % 400 = 0) THEN 29 ELSE 28
    [] m \in {4, 6, 9, 11} -> 30
    [] OTHER -> 31

MonthBefore(d) == IF d[2] = 1 THEN <<d[1] - 1, 12>> ELSE <<d[1], d[2] - 1>>

Yesterday(d) ==
  IF d[3] > 1 THEN <<d[1], d[2], d[3] - 1>>
  ELSE MonthBefore(d) \o <<DaysIn(MonthBefore(d)[1], MonthBefore(d)[2])>>

\* date.setMonth(date.getMonth() - 1): a day the month before has not got runs over
\* into the month after it, which is the month of d again.
SetMonthBack(d) ==
  LET last == MonthBefore(d)
      over == d[3] - DaysIn(last[1], last[2])
  IN IF over > 0 THEN <<d[1], d[2], over>> ELSE last \o <<d[3]>>

\* The date a selection puts into the query, on the day `today`.
SelectionDay(s, today) ==
  CASE s = Selection("day", "last") -> {Yesterday(today)}
    [] s.value = "month" ->
         LET d == IF s.setDate = "last" THEN SetMonthBack(today) ELSE today
         IN {<<d[1], d[2], 1>>}
    [] s.value = "year" -> {<<IF s.setDate = "last" THEN today[1] - 1 ELSE today[1], 1, 1>>}
    [] OTHER -> {}

PutDay(days, key, found) ==
  [k \in (DOMAIN days \ {key}) \cup (IF found = {} THEN {} ELSE {key}) |->
     IF k = key THEN CHOOSE d \in found : TRUE ELSE days[k]]

\* Variant: the date of the period before is kept.
ApplyPeriodKeepDate(q, s, today) ==
  [q EXCEPT !.period = s.value,
            !.day = PutDay(PutDay(@, "from", {}), "to", {})]

ApplyPeriodSelection(q, s, today) ==
  [q EXCEPT !.period = s.value,
            !.day = PutDay(PutDay(PutDay(@, "from", {}), "to", {}), "date", SelectionDay(s, today))]

\* isActiveDay, isActiveMonth, isActiveYear and isPeriodSelectionActive.
IsPeriodSelectionActive(q, s, today) ==
  LET dated == "date" \in DOMAIN q.day
      date == q.day["date"]
      month == IF s.setDate = "last" THEN SetMonthBack(today) ELSE today
      year == IF s.setDate = "last" THEN today[1] - 1 ELSE today[1]
  IN /\ q.period = s.value
     /\ CASE s.value = "day" ->
               IF s.setDate = "current" THEN ~dated \/ date = today
               ELSE dated /\ date = Yesterday(today)
          [] s.value = "month" ->
               IF dated THEN date[1] = month[1] /\ date[2] = month[2] ELSE s.setDate = "current"
          [] s.value = "year" -> IF dated THEN date[1] = year ELSE s.setDate = "current"
          [] OTHER -> TRUE

-----------------------------------------------------------------------------
(* Parameters (lib/dashboard-url-state.ts).                                    *)

Word(p, key) == IF key \in DOMAIN p.word THEN p.word[key] ELSE None
Legacy == {"metric", "interval", "mode", "funnel", "dialog"}
HasFilterValue(p, dim) == \E i \in DOMAIN p.f : p.f[i][2] = dim

\* What canonicalizeDashboardSearchParams deletes.
Redundant(p) ==
  {key \in DOMAIN p.word :
     \/ key \in Legacy \cup {"graph_interval"}
     \/ key = "period" /\ (Word(p, key) = "day" \/ Word(p, key) \notin Periods)
     \/ key = "with_imported" /\ Word(p, key) = "false"
     \/ key = "behaviors_property" /\ Word(p, "behaviors_mode") # "props"
     \/ key = "behaviors_funnel" /\ Word(p, "behaviors_mode") # "funnels"
     \/ key = "pages_mode" /\ Word(p, key) = "pages"
     \/ key = "locations_mode" /\ Word(p, key) = "map"
     \/ key = "devices_mode" /\ Word(p, key) = "browsers"
     \/ key = "sources_mode" /\ Word(p, key) \in {"all", "channels"}
          /\ ~HasFilterValue(p, "channel")}

Canonicalize(p) == [p EXCEPT !.word = [k \in DOMAIN @ \ Redundant(p) |-> @[k]]]

-----------------------------------------------------------------------------
(* The query of a report (lib/query-codec.ts).                                 *)

WordKeys == {"period", "comparison", "with_imported", "match_day_of_week"}
DayKeys == {"date", "from", "to", "compare_from", "compare_to"}
CompareDays == {"compare_from", "compare_to"}

OfBoolean(b) == IF b THEN "true" ELSE "false"

\* The text key,value by the parts it is read as: a key that has a comma ends at its first one, and the
\* rest of it begins the value (parseTokenWithRemainder).
Commas(s) == {i \in 1..Len(s) : SubSeq(s, i, i) = ","}
Parted(key, value) ==
  IF Commas(key) = {} THEN <<key, value>>
  ELSE LET first == CHOOSE i \in Commas(key) : \A j \in Commas(key) : i <= j
       IN <<SubSeq(key, 1, first - 1), SubSeq(key, first + 1, Len(key)) \o "," \o value>>

\* The filter <<op, key, value>> as a token, by its parts; no operator has a comma.
Token(t) == LET parts == Parted(t[2], t[3]) IN <<t[1], parts[1], parts[2]>>

BuildQueryParams(q) ==
  [word |-> [k \in {"period", "with_imported"}
                     \cup (IF q.comparison = None THEN {} ELSE {"comparison", "match_day_of_week"}) |->
               CASE k = "period" -> q.period
                 [] k = "comparison" -> q.comparison
                 [] k = "with_imported" -> OfBoolean(q.withImported)
                 [] k = "match_day_of_week" -> OfBoolean(q.matchDayOfWeek)],
   day |-> [k \in {d \in DOMAIN q.day : q.comparison # None \/ d \notin CompareDays} |-> q.day[k]],
   f |-> LET is == [i \in DOMAIN q.filters |-> <<"is", q.filters[i][1], q.filters[i][2]>>]
             entries == Deduped(is \o q.advanced)
         IN [i \in DOMAIN entries |-> Token(entries[i])],
   l |-> LET named == SelectSeq(q.labels, LAMBDA e : e[1] \in Keys(q.filters) /\ ValueOf(q.filters, e[1]) # e[2])
         IN [i \in DOMAIN named |-> Parted(named[i][1], named[i][2])]]

\* Variant: the filters the URL has are kept beside those of the query.
MergeKeepingFilters(p, q) ==
  LET built == BuildQueryParams(q)
  IN Canonicalize([built EXCEPT !.word = @ @@ [k \in DOMAIN p.word \ WordKeys |-> p.word[k]],
                                !.f = p.f \o SelectSeq(@, LAMBDA e : e \notin ToSet(p.f))])

\* The parameters of the report are replaced, those of the panels stay.
MergeReportQueryParams(p, q) ==
  LET built == BuildQueryParams(q)
      rest == DOMAIN p.word \ WordKeys
  IN Canonicalize([built EXCEPT !.word = [k \in DOMAIN @ \cup rest |-> IF k \in rest THEN p.word[k] ELSE @[k]]])

BooleanParam(word, fallback) ==
  IF word \in {"true", "1"} THEN TRUE ELSE IF word \in {"false", "0"} THEN FALSE ELSE fallback

FilterKey(dim) == IF dim = "event:goal" THEN "goal" ELSE dim

\* The equality filters of the tokens: the last one of a dimension counts.
ParseFilters(f) ==
  FoldLeft(LAMBDA acc, t : IF t[1] = "is" THEN PutKey(acc, FilterKey(t[2]), t[3]) ELSE acc, <<>>, f)

ParseQueryParams(p, fallback) ==
  [period |-> IF Word(p, "period") \in Periods THEN Word(p, "period") ELSE fallback.period,
   comparison |-> IF Word(p, "comparison") # None THEN Word(p, "comparison") ELSE fallback.comparison,
   day |-> p.day,
   withImported |-> BooleanParam(Word(p, "with_imported"), fallback.withImported),
   matchDayOfWeek |-> BooleanParam(Word(p, "match_day_of_week"), fallback.matchDayOfWeek),
   filters |-> ParseFilters(p.f),
   labels |-> FoldLeft(LAMBDA acc, e : PutKey(acc, e[1], e[2]), <<>>, p.l),
   advanced |-> Only(p.f, {t \in ToSet(p.f) : t[1] \in {"is_not", "contains"}})]

\* defaultQuery, as the server sends it.
DefaultQuery ==
  [period |-> "day", comparison |-> None, day |-> EmptyMap, withImported |-> FALSE,
   matchDayOfWeek |-> TRUE, filters |-> <<>>, labels |-> <<>>, advanced |-> <<>>]

QueryOf(url) == ParseQueryParams(url.params, DefaultQuery)

\* buildQueryNavigationPath: the next URL keeps the path, or leaves the dialog.
NavigationUrl(url, q, closeDialog) ==
  [path |-> IF closeDialog THEN <<>> ELSE url.path,
   params |-> MergeReportQueryParams(url.params, q)]

\* setPanelModeSearchParam and the search parameters of the behaviors panel.
PutWord(p, key, value) ==
  [p EXCEPT !.word = IF value = None THEN [k \in DOMAIN @ \ {key} |-> @[k]]
                     ELSE [k \in DOMAIN @ \cup {key} |-> IF k = key THEN value ELSE @[k]]]

BuildBehaviorsRouteSearch(p, mode, funnel, property) ==
  Canonicalize(PutWord(PutWord(PutWord(PutWord(p, "dialog", None), "behaviors_mode", mode),
                               "behaviors_funnel", funnel), "behaviors_property", property))

-----------------------------------------------------------------------------
(* Dialogs (lib/dialog-path.ts).  A path is what follows /_/ , by parts.        *)

SegmentVariants ==
  [channels |-> {"channels"}, sources |-> {"sources"},
   utm_mediums |-> {"utm-medium", "utm_medium", "utm-mediums", "utm_mediums"},
   utm_sources |-> {"utm-source", "utm_source", "utm-sources", "utm_sources"},
   utm_campaigns |-> {"utm-campaign", "utm_campaign", "utm-campaigns", "utm_campaigns"},
   utm_contents |-> {"utm-content", "utm_content", "utm-contents", "utm_contents"},
   utm_terms |-> {"utm-term", "utm_term", "utm-terms", "utm_terms"}]
  @@ ("pages" :> {"pages"} @@ "seo-pages" :> {"seo-pages", "seo_pages", "seo"}
      @@ "entry-pages" :> {"entry-pages", "entry_pages", "entry"}
      @@ "exit-pages" :> {"exit-pages", "exit_pages", "exit"}
      @@ "browsers" :> {"browsers"}
      @@ "operating-systems" :> {"operating-systems", "operating_systems"}
      @@ "screen-sizes" :> {"screen-sizes", "screen_sizes"}
      @@ "countries" :> {"countries"} @@ "regions" :> {"regions"} @@ "cities" :> {"cities"}
      @@ "devices" :> {"devices"} @@ "locations" :> {"locations"} @@ "behaviors" :> {"behaviors"})

ParseDialog(path) ==
  IF path = <<>> THEN [type |-> "none", of |-> None]
  ELSE IF path[1] = "referrers" /\ Len(path) > 1 THEN [type |-> "referrers", of |-> path[2]]
  ELSE LET found == {s \in DOMAIN SegmentVariants : path[1] \in SegmentVariants[s]}
       IN IF found = {} THEN [type |-> "none", of |-> None]
          ELSE [type |-> "segment", of |-> CHOOSE s \in found : TRUE]

\* The mode of a panel that a segment stands for, and back.
ModeSegments ==
  [sources |-> <<<<"channels", "channels">>, <<"all", "sources">>, <<"utm-medium", "utm_mediums">>,
                 <<"utm-source", "utm_sources">>, <<"utm-campaign", "utm_campaigns">>,
                 <<"utm-content", "utm_contents">>, <<"utm-term", "utm_terms">>>>,
   pages |-> <<<<"pages", "pages">>, <<"seo", "seo-pages">>, <<"entry", "entry-pages">>,
               <<"exit", "exit-pages">>>>,
   devices |-> <<<<"browsers", "browsers">>, <<"operating-systems", "operating-systems">>,
                 <<"screen-sizes", "screen-sizes">>>>,
   locations |-> <<<<"countries", "countries">>, <<"regions", "regions">>, <<"cities", "cities">>>>]

ModeForSegment(panel, segment) ==
  LET found == {e \in ToSet(ModeSegments[panel]) : e[2] = segment}
  IN IF found = {} THEN None ELSE (CHOOSE e \in found : TRUE)[1]

\* The segment a mode has no entry for is the one its panel starts with.
SegmentForMode(panel, mode) ==
  LET segment == ValueOf(ModeSegments[panel], mode)
  IN IF segment # None THEN segment
     ELSE IF panel = "sources" THEN "sources" ELSE ModeSegments[panel][1][2]

-----------------------------------------------------------------------------
(* Modes (lib/panel-mode.ts).                                                  *)

Modes ==
  [sources |-> {"channels", "all", "utm-medium", "utm-source", "utm-campaign", "utm-content", "utm-term"},
   pages |-> {"pages", "entry", "exit"},
   locations |-> {"map", "countries", "regions", "cities"},
   devices |-> {"browsers", "browser-versions", "operating-systems",
                "operating-system-versions", "screen-sizes"},
   behaviors |-> {"conversions", "props", "funnels", "visitors"}]

ModeParam ==
  [sources |-> "sources_mode", pages |-> "pages_mode", locations |-> "locations_mode",
   devices |-> "devices_mode", behaviors |-> "behaviors_mode"]

\* getModeFromSearch: a mode that is not one of the panel's counts as none.
ModeFromSearch(panel, p, allowed) ==
  LET word == IF ModeParam[panel] \in DOMAIN p.word THEN Word(p, ModeParam[panel]) ELSE Word(p, "mode")
  IN IF word \in allowed THEN word ELSE None

UtmOrder == <<"utm_medium", "utm_source", "utm_campaign", "utm_content", "utm_term">>
UtmMode == [utm_medium |-> "utm-medium", utm_source |-> "utm-source",
            utm_campaign |-> "utm-campaign", utm_content |-> "utm-content", utm_term |-> "utm-term"]

InferSourcesMode(filters) ==
  LET set == SelectSeq(UtmOrder, LAMBDA dim : dim \in Keys(filters))
  IN IF set = <<>> THEN None ELSE UtmMode[Head(set)]

InferDevicesMode(base, filters) ==
  CASE base = "browsers" /\ Keys(filters) \cap {"browser", "browser_version"} # {} -> "browser-versions"
    [] base = "operating-systems" /\ Keys(filters) \cap {"os", "os_version"} # {} ->
         "operating-system-versions"
    [] OTHER -> base

LocationsModeAfterFilterChange(mode, before, after, restore) ==
  CASE mode = "cities" /\ "region" \in Keys(before) \ Keys(after) -> "regions"
    [] mode = "regions" /\ "country" \in Keys(before) \ Keys(after) ->
         IF restore = None THEN "countries" ELSE restore
    [] OTHER -> None

-----------------------------------------------------------------------------
(* The sources panel (lib/sources-panel.ts).                                   *)

\* isGoogleSource: of the names the models use, those with "google" in them.
Google == {"Google"}

Takeover(source) ==
  IF source = None THEN "none" ELSE IF source \in Google THEN "search-terms" ELSE "referrers"

ResolveSourcesView(dialog, filters, preferred, derived) ==
  LET source == IF dialog.type = "referrers" THEN dialog.of ELSE ValueOf(filters, "source")
      forced == CASE dialog.type = "referrers" -> "all"
                  [] dialog.type = "segment" -> ModeForSegment("sources", dialog.of)
                  [] OTHER -> None
      takeover == Takeover(source)
  IN [mode |-> IF forced # None THEN forced ELSE IF derived # None THEN derived ELSE preferred,
      activeSource |-> source, takeover |-> takeover,
      detailsOpen |-> dialog.type = "segment" \/ (dialog.type = "referrers" /\ takeover = "search-terms"),
      refDetailsOpen |-> dialog.type = "referrers" /\ takeover = "referrers"]

SourcesFilterKey(mode) ==
  CASE mode = "channels" -> "channel"
    [] mode = "all" -> "source"
    [] OTHER -> CHOOSE dim \in DOMAIN UtmMode : UtmMode[dim] = mode

\* hasUsableUtmData: a tenth of the visitors have a value, rows being <<visitors, named>>.
UsableUtmData(mode, rows) ==
  LET Total(S) == FoldLeft(LAMBDA acc, r : acc + r[1], 0, S)
      named == SelectSeq(rows, LAMBDA r : r[2])
  IN \/ mode \notin {UtmMode[dim] : dim \in DOMAIN UtmMode}
     \/ named # <<>> /\ 10 * Total(named) >= (IF Total(rows) > 1 THEN Total(rows) ELSE 1)
=============================================================================
