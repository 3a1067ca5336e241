------------------------------- MODULE MCPages -------------------------------
(* The pages for TLC.                                                            *)
EXTENDS Pages, SequencesExt

\* The tracker: a site with a home page that has a fragment, a page to read and an excluded one; the
\* server's bootstrap, an external site, and one with hash routing.
Home == <<"home">>
MCLocations ==
  {[page |-> Home, hash |-> ""], [page |-> Home, hash |-> "top"],
   [page |-> <<"docs", "read">>, hash |-> ""], [page |-> <<"admin", "users">>, hash |-> ""]}
MCConfigs ==
  {[hash |-> FALSE, served |-> s, include |-> {}, exclude |-> {<<"admin">>}] : s \in BOOLEAN}
    \cup {[hash |-> TRUE, served |-> FALSE, include |-> {Home, <<"docs", "**">>}, exclude |-> {<<"a">>}]}

\* The live view: three sessions, two of them in one cell and one without coordinates.
MCSessions == <<"in one cell", "the same", "nowhere">>
MCCellOf == [s \in {"in one cell", "the same", "nowhere"} |-> IF s = "nowhere" THEN Nil ELSE "c1"]

\* The settings: a goal by an event and one by how far a page was read, one path to exclude, written
\* with one slash and with two, steps for funnels.
MCGoals ==
  {[name |-> "Signup", event |-> "signup", page |-> "", scroll |-> -1],
   [name |-> "Read", event |-> "", page |-> "/docs", scroll |-> 0]}
MCRankOf == [Read |-> 1, Signup |-> 2, cta |-> 3, video |-> 4]
MCAllGoals ==
  MCGoals \cup {[name |-> n, event |-> n, page |-> "", scroll |-> -1] : n \in {"cta", "video"}}
MCGoalOrder ==
  [goals \in SUBSET MCAllGoals |->
     SetToSortSeq(goals, LAMBDA g, h : MCRankOf[g.name] < MCRankOf[h.name])]
MCNormalPath == [p \in RulePaths |-> "/a"]
MCSteps == {[value |-> "/x"], [value |-> "/y"]}

\* The lists: three rows on two pages, a search that finds two of them.
MCMatches == [text \in {"", "a"} |-> IF text = "" THEN {1, 2, 3} ELSE {1, 3}]

\* The library: two releases and a later pre-release, of few screens or of many.
MCNames == {"1.0", "2.0", "3.0-beta"}
MCChannelFor == [n \in MCNames |-> IF n = "3.0-beta" THEN "canary" ELSE "stable"]
MCRank == [n \in MCNames |-> CASE n = "1.0" -> 1 [] n = "2.0" -> 2 [] OTHER -> 3]
=============================================================================
