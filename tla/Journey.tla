------------------------------- MODULE Journey --------------------------------
(* The sheet of one visitor (ui/profile-journey-sheet.tsx): the visitor's         *)
(* journey and the visitor's sessions come by two effects, the sessions page by  *)
(* page and of one day when a day of the heatmap is chosen; the events of a       *)
(* session come when it is expanded.  The period and the filters of the page may *)
(* change behind the sheet: the journey is asked anew, the sessions are not.     *)
EXTENDS Integers, FiniteSets, Sequences, Functions

CONSTANTS
  None,
  Profiles,
  Queries,     \* what the page may ask: its period and its filters
  Days,        \* days of the heatmap
  Visits,      \* the session listed by a page: [profile, day, page] -> visit
  MaxPages,    \* bound: pages of sessions
  MaxMoves     \* bound: what the administrator does

JourneyAssumption == MaxPages \in Nat /\ MaxMoves \in Nat

VARIABLES
  open, profile, query, day,
  data, loading, journeyAsked,         \* the journey shown; the one asked, None without one
  sessions, page, hasMore, sessionsLoading,
  asked,                               \* the requests for sessions: [of, page, more, id, aborted]
  id, current,                         \* sessionsRequestIdRef; the request of sessionsAbortRef
  expanded, payloads, payloadAsked,    \* visits; payloads: [profile, visit]
  missed,                              \* the first page failed since it was asked last, or the list was
                                       \* emptied without asking it (history)
  moves

journeyVars == <<data, loading, journeyAsked>>
sessionVars == <<sessions, page, hasMore, sessionsLoading, asked, id, current, missed>>
visitVars == <<expanded, payloads, payloadAsked>>
vars == <<open, profile, query, day, journeyVars, sessionVars, visitVars, moves>>

Move == moves < MaxMoves /\ moves' = moves + 1
Scope(p, d) == [profile |-> p, day |-> d]

Init ==
  /\ open = FALSE /\ profile = None /\ query \in Queries /\ day = None
  /\ data = None /\ loading = FALSE /\ journeyAsked = None
  /\ sessions = <<>> /\ page = 1 /\ hasMore = FALSE /\ sessionsLoading = FALSE
  /\ asked = {} /\ id = 0 /\ current = 0 /\ missed = FALSE
  /\ expanded = {} /\ payloads = {} /\ payloadAsked = {} /\ moves = 0

-----------------------------------------------------------------------------
(* The two effects.                                                            *)

\* Variant: the day is not a dependency of the effect of the sessions.
DepsWithoutDay(isOpen, p, d) == <<isOpen, p>>
Deps(isOpen, p, d) == <<isOpen, p, d>>

Aborted(requests, ids) == {IF r.id \in ids THEN [r EXCEPT !.aborted = TRUE] ELSE r : r \in requests}

\* The effect of the journey forgets what was expanded, the day and the sessions; that of the
\* sessions, which its change of the day may run once more, asks the first page.  A change of the
\* query without a day runs the first alone: the list is emptied and not asked again.
Render(isOpen, p, q, d) ==
  LET journeyRuns == <<isOpen, p, q>> # <<open, profile, query>>
      resets == journeyRuns /\ isOpen
      chosen == IF resets THEN None ELSE d
      sessionsRun == Deps(isOpen, p, chosen) # Deps(open, profile, day)
      asks == sessionsRun /\ isOpen
  IN /\ open' = isOpen /\ profile' = p /\ query' = q /\ day' = chosen
     /\ journeyAsked' = IF resets THEN p ELSE IF journeyRuns THEN None ELSE journeyAsked
     /\ loading' = IF journeyRuns THEN resets ELSE loading
     /\ id' = IF asks THEN id + 1 ELSE id
     /\ current' = IF asks THEN id + 1 ELSE current
     /\ asked' = (IF sessionsRun
                  THEN Aborted(asked, {r.id : r \in {x \in asked : ~x.more}} \cup IF asks THEN {current} ELSE {})
                  ELSE asked)
                   \cup (IF asks THEN {[of |-> Scope(p, chosen), page |-> 1, more |-> FALSE,
                                       id |-> id + 1, aborted |-> FALSE]} ELSE {})
     /\ IF asks \/ resets
        THEN sessions' = <<>> /\ page' = 1 /\ hasMore' = FALSE /\ expanded' = {}
        ELSE UNCHANGED <<sessions, page, hasMore, expanded>>
     /\ sessionsLoading' = (asks \/ sessionsLoading)
     /\ payloads' = IF resets THEN {} ELSE payloads
     /\ missed' = (~asks /\ (missed \/ resets))

-----------------------------------------------------------------------------
(* What the administrator does.                                                *)

\* A row of the visitors (ProfilesList).
OpenProfile(p) ==
  /\ ~open /\ Move /\ Render(TRUE, p, query, day)
  /\ UNCHANGED <<data, payloadAsked>>

Close ==
  /\ open /\ Move /\ Render(FALSE, profile, query, day)
  /\ UNCHANGED <<data, payloadAsked>>

\* A day of the heatmap, the same day again, or the cross beside its label.
SelectDay(d) ==
  /\ open /\ d # day /\ Move /\ Render(open, profile, query, d)
  /\ UNCHANGED <<data, payloadAsked>>

\* The page asks something else: Back or Forward, or the key of a period, with the sheet open or not.
ChangeQuery(q) ==
  /\ q # query /\ Move /\ Render(open, profile, q, day)
  /\ UNCHANGED <<data, payloadAsked>>

LoadMoreSessions ==
  /\ open /\ hasMore /\ ~sessionsLoading /\ Move
  /\ id' = id + 1 /\ current' = id + 1 /\ sessionsLoading' = TRUE
  /\ asked' = Aborted(asked, {current}) \cup
       {[of |-> Scope(profile, day), page |-> page + 1, more |-> TRUE, id |-> id + 1, aborted |-> FALSE]}
  /\ UNCHANGED <<open, profile, query, day, journeyVars, sessions, page, hasMore, missed, visitVars>>

Listed == {Visits[[of |-> s.of, page |-> s.page]] : s \in Range(sessions)}

\* A session is folded, unfolded, or unfolded for the first time and asked for.
ToggleSession(v) ==
  /\ open /\ v \in Listed /\ Move
  /\ expanded' = IF v \in expanded THEN expanded \ {v} ELSE expanded \cup {v}
  /\ payloadAsked' = IF v \in expanded \/ [profile |-> profile, visit |-> v] \in payloads
                     THEN payloadAsked
                     ELSE payloadAsked \cup {[profile |-> profile, visit |-> v]}
  /\ UNCHANGED <<open, profile, query, day, journeyVars, sessionVars, payloads>>

-----------------------------------------------------------------------------
(* The answers.                                                                *)

\* The journey that was asked when the sheet was closed, or for another visitor, is aborted.
JourneyAnswer ==
  /\ journeyAsked # None /\ data' = journeyAsked /\ journeyAsked' = None /\ loading' = FALSE
  /\ UNCHANGED <<open, profile, query, day, sessionVars, visitVars, moves>>

JourneyFails ==
  /\ journeyAsked # None /\ journeyAsked' = None /\ loading' = FALSE
  /\ UNCHANGED <<open, profile, query, day, data, sessionVars, visitVars, moves>>

Answered(r) == asked' = asked \ {r}

\* Only the last request counts; one that was aborted is not answered.
Heard(r) == r.id = id

SessionsAnswer(r, others) ==
  /\ r \in asked /\ ~r.aborted /\ Answered(r)
  /\ others => r.page < MaxPages
  /\ IF Heard(r)
     THEN /\ sessions' = IF r.more THEN Append(sessions, [of |-> r.of, page |-> r.page])
                         ELSE <<[of |-> r.of, page |-> r.page]>>
          /\ page' = IF r.more THEN r.page ELSE page
          /\ hasMore' = others /\ sessionsLoading' = FALSE /\ missed' = (missed /\ r.more)
     ELSE UNCHANGED <<sessions, page, hasMore, sessionsLoading, missed>>
  /\ UNCHANGED <<open, profile, query, day, journeyVars, id, current, visitVars, moves>>

\* Variant: only an answer ends the loading.
SessionsFailBusy(r) ==
  /\ r \in asked /\ Answered(r)
  /\ missed' = (missed \/ (Heard(r) /\ ~r.more))
  /\ UNCHANGED <<open, profile, query, day, journeyVars, sessions, page, hasMore, sessionsLoading, id, current, visitVars, moves>>

\* Aborted, or failed.
SessionsFail(r) ==
  /\ r \in asked /\ Answered(r)
  /\ sessionsLoading' = (sessionsLoading /\ r.id # id) /\ missed' = (missed \/ (Heard(r) /\ ~r.more))
  /\ UNCHANGED <<open, profile, query, day, journeyVars, sessions, page, hasMore, id, current, visitVars, moves>>

PayloadEnds(a, found) ==
  /\ a \in payloadAsked /\ payloadAsked' = payloadAsked \ {a}
  /\ payloads' = IF found THEN payloads \cup {a} ELSE payloads
  /\ UNCHANGED <<open, profile, query, day, journeyVars, sessionVars, expanded, moves>>

-----------------------------------------------------------------------------

SessionsSettle == \E r \in asked : SessionsFail(r) \/ \E others \in BOOLEAN : SessionsAnswer(r, others)

Next ==
  \/ \E p \in Profiles : OpenProfile(p)
  \/ Close \/ LoadMoreSessions
  \/ \E d \in Days \cup {None} : SelectDay(d)
  \/ \E q \in Queries : ChangeQuery(q)
  \/ \E v \in Listed : ToggleSession(v)
  \/ JourneyAnswer \/ JourneyFails \/ SessionsSettle
  \/ \E a \in payloadAsked, found \in BOOLEAN : PayloadEnds(a, found)

Spec == Init /\ [][Next]_vars

-----------------------------------------------------------------------------
(* Properties.                                                                 *)

Requests == [of : [profile : Profiles \cup {None}, day : Days \cup {None}], page : Nat \ {0},
             more : BOOLEAN, id : Nat, aborted : BOOLEAN]

TypeOK ==
  /\ open \in BOOLEAN /\ profile \in Profiles \cup {None} /\ query \in Queries
  /\ day \in Days \cup {None}
  /\ page \in Nat \ {0} /\ hasMore \in BOOLEAN /\ sessionsLoading \in BOOLEAN
  /\ asked \subseteq Requests /\ id \in Nat /\ missed \in BOOLEAN

Pending == {r \in asked : Heard(r)}
FirstPages(n) == [m \in 1..n |-> [of |-> Scope(profile, day), page |-> m]]

\* The request that is listened to goes on where the sessions end.
GoesOn(r) ==
  /\ ~r.aborted /\ r.of = Scope(profile, day)
  /\ IF r.more THEN r.page = page + 1 /\ sessions = FirstPages(page) ELSE r.page = 1 /\ page = 1

\* Numbers are not given twice, and the last one is that of the request that may be aborted.
Numbered ==
  /\ current = id /\ \A r \in asked : r.id <= id
  /\ \A r, t \in asked : r.id = t.id => r = t

\* Once the last request is answered or failed, the sessions listed in the open sheet are the first
\* pages of the visitor's sessions of the chosen day, without a gap and without a page of another day
\* or visitor.  Left out, until a first page comes, is a list whose first page failed and one that
\* the change of the query emptied: nobody asks for that one again, it says that there are no
\* sessions, and a further page that was under way is listed alone.
SessionsAreOfDay == open /\ ~missed /\ Pending = {} => sessions = FirstPages(page)

Inductive ==
  /\ TypeOK /\ Numbered /\ (~sessionsLoading => Pending = {})
  /\ (open => \A r \in Pending : (missed /\ r.more) \/ GoesOn(r)) /\ SessionsAreOfDay

\* The list of sessions loads.
Busy == sessionsLoading
=============================================================================
