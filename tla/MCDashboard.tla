----------------------------- MODULE MCDashboard -----------------------------
(* The dashboard for TLC.                                                        *)
EXTENDS Dashboard

\* The dashboard is opened at its own URL, at a bookmark of an older version on a dialog with a
\* custom range, at a drill-down of a link in a report, or at the dialog of the countries.

Empty == [x \in {} |-> x]
NoParams == [word |-> Empty, day |-> Empty, f |-> <<>>, l |-> <<>>]
Plain == [path |-> <<>>, params |-> NoParams]
Bookmarked ==
  [path |-> <<"utm_medium">>,
   params |-> [word |-> [metric |-> "visitors", period |-> "custom", comparison |-> "custom",
                         with_imported |-> "false", pages_mode |-> "pages",
                         behaviors_mode |-> "props", behaviors_funnel |-> "Signup"],
               day |-> [from |-> <<2025, 3, 1>>, to |-> <<2025, 3, 31>>,
                        compare_from |-> <<2025, 3, 1>>, compare_to |-> <<2025, 3, 1>>],
               f |-> <<<<"is", "event:goal", "cta">>, <<"is_not", "page", "/a">>>>, l |-> <<>>]]
Linked ==
  [path |-> <<>>,
   params |-> [NoParams EXCEPT !.f = <<<<"is", "source", "site">>>>]]

MCBarUrls == {Plain, Bookmarked}
MCDays == {<<2025, 3, 1>>, <<2025, 3, 31>>}
MCValues == [page |-> {"/a", "/b"}, property |-> {"plan", "plan,b"}]
MCCountries == {<<"DE", "Germany">>}

MCPanelUrls == {Plain, Linked, [path |-> <<"countries">>, params |-> NoParams]}
MCRows ==
  [sources |-> {"Google", "Direct / None"}, pages |-> {"/a"}, locations |-> {"r"}, devices |-> {"r"}]
MCStartModes ==
  [sources |-> {"channels"}, pages |-> {"pages"}, locations |-> {"map"}, devices |-> {"browsers"}]

MCFunnels == <<"signup", "buy">>
MCProperties == <<"plan", "lang">>

\* A query of a day and one of 28 days with a goal, which draws other metrics; the URL or the storage
\* may hold what the query has no graph for.
MCGraphable == [q \in Queries |-> <<"visitors", IF q = "28d goal" THEN "events" ELSE "bounce_rate">>]
MCIntervals == [q \in Queries |-> IF q = "day" THEN <<"minute", "hour">> ELSE <<"day", "week">>]
MCDefaultOf == [q \in Queries |-> IF q = "day" THEN "hour" ELSE "day"]
MCUrls == {[metric |-> Nil, interval |-> Nil], [metric |-> "events", interval |-> "hour"]}
MCStored == {[metric |-> Nil, interval |-> Nil], [metric |-> "bounce_rate", interval |-> "week"]}

\* A report whose rows have a duration and one whose rows have none.
MCMetricsOf == [s \in Scopes |-> IF s = "pages" THEN {"visitors", "duration"} ELSE {"visitors"}]

\* Two pages of sessions: the last visit and an older one.
MCVisits ==
  [x \in [of : [profile : Profiles, day : HeatmapDays \cup {Nil}], page : 1..SessionPages] |->
     <<x.of.profile, IF x.page = 1 THEN "last" ELSE "older">>]
=============================================================================
