------------------------------- MODULE Tracker -------------------------------
(* The standalone analytics tracker of entrypoints/analytics.ts in one         *)
(* browser tab: navigation (the wrapped History API, popstate, the back-       *)
(* forward cache), engagement time, and the queue of events that is posted in  *)
(* batches.  JavaScript runs one callback at a time, so an action is one       *)
(* callback up to its end or its first await.  The callback's effect on the    *)
(* tracker's fields is a composition of operators on the record `t`, each      *)
(* named for the method it stands for; the location and the clock that the     *)
(* method reads are arguments.                                                 *)
EXTENDS Integers, Sequences, FiniteSets, SequencesExt

CONSTANTS
  Locations,    \* records [page, hash]; a page is the sequence of its path segments
  Configs,      \* records [hash, served, include, exclude]: what window.analyticsConfig says
  BatchSize,    \* EVENT_BATCH_SIZE
  LongEnough,   \* the ticks that make 3000 ms
  MaxTicks,     \* bound: how far the clock runs
  MaxMoves      \* bound: what the user, the scripts and the browser do to the page

TrackerAssumption ==
  /\ BatchSize \in Nat \ {0} /\ LongEnough \in Nat \ {0}
  /\ MaxTicks \in Nat /\ MaxMoves \in Nat

Pages == {l.page : l \in Locations}
Depths == 1..2                         \* how far the page is scrolled
NoKey == <<>>                          \* null
Key(cfg, l) == IF cfg.hash THEN <<l.page, l.hash>> ELSE <<l.page>>

VARIABLES
  config,    \* the merged configuration
  loc,       \* window.location
  visible,   \* document.visibilityState = "visible"
  focus,     \* document.hasFocus()
  life,      \* the document: loading, ready, cached (back-forward cache), gone
  scroll,    \* the scroll position
  now,       \* the clock; it starts at 1 because 0 means "stopped" below
  initial,   \* the first trackPageview: due at DOMContentLoaded, when visible, or done
  t,         \* the tracker's fields
  stay,      \* for each page, the ticks it has been the page shown (history)
  moves      \* bound

vars == <<config, loc, visible, focus, life, scroll, now, initial, t, stay, moves>>

-----------------------------------------------------------------------------
(* Which pages are tracked.                                                   *)

SegmentPrefixMatch(path, prefix) == IsPrefix(prefix, path)

\* '*' stands for one segment and '**' for any number of them.
PathMatches(pattern, path) ==
  \E n \in 0..Len(path) :
    LET p == FlattenSeq([i \in DOMAIN pattern |->
               IF pattern[i] = "**" THEN [k \in 1..n |-> "*"] ELSE <<pattern[i]>>])
    IN Len(p) = Len(path) /\ \A i \in DOMAIN p : p[i] \in {"*", path[i]}

IsAsset(path) == path # <<>> /\ Last(path) \in {"logo.png", "robots.txt"}

Excluded(cfg, path) ==
  \/ \E p \in cfg.exclude : SegmentPrefixMatch(path, p) \/ PathMatches(p, path)
  \/ IsAsset(path)
  \/ cfg.include # {} /\ \A p \in cfg.include : ~PathMatches(p, path)

Tracked(l) == ~Excluded(config, l.page)

-----------------------------------------------------------------------------
(* The queue.  Events are counted, not named; a flushEventQueue call that      *)
(* awaits its fetch is counted by whether it drains.  What page views and      *)
(* engagement events say is kept in fields of `t` that the code does not have: *)
(* `viewed`, the key under which the page being shown was counted, and        *)
(* `engaged`, the time reported for each page by the url of the event.         *)

ScheduleEventFlush(s) == [s EXCEPT !.timer = TRUE]

AfterBatch(pending) == IF pending > BatchSize THEN pending - BatchSize ELSE 0

Counted(posts, drain, more) == [posts EXCEPT ![drain] = @ + more]

\* flushEventQueue up to its first await.
FlushEventQueue(s, drain) ==
  IF s.pending = 0 THEN s
  ELSE [s EXCEPT !.timer = FALSE, !.pending = AfterBatch(@), !.posts = Counted(s.posts, drain, 1)]

MustFlush(s) == s.pending >= BatchSize

\* Variant: an event of a hidden page waits for the next flush.
SendEventShown(s, l) ==
  IF Excluded(config, l.page) THEN s
  ELSE LET q == [s EXCEPT !.pending = @ + 1]
       IN IF MustFlush(q) THEN FlushEventQueue(q, FALSE)
          ELSE IF visible THEN ScheduleEventFlush(q) ELSE q

SendEvent(s, l) ==
  IF Excluded(config, l.page) THEN s
  ELSE LET q == [s EXCEPT !.pending = @ + 1]
       IN IF MustFlush(q) THEN FlushEventQueue(q, FALSE) ELSE ScheduleEventFlush(q)

-----------------------------------------------------------------------------
(* Engagement.                                                                *)

EngagementTime(s) == IF s.start # 0 THEN s.time + (now - s.start) ELSE s.time

WorthSending(s) ==
  /\ ~s.ignored
  /\ s.sentDepth < s.depth \/ EngagementTime(s) >= LongEnough \/ s.sentDepth = -1

ReportTime(s, l) ==
  IF Excluded(config, l.page) THEN s
  ELSE [s EXCEPT !.engaged = [s.engaged EXCEPT ![s.url] = @ + EngagementTime(s)]]

TriggerEngagement(s, l) ==
  IF WorthSending(s)
  THEN [SendEvent(ReportTime([s EXCEPT !.sentDepth = s.depth], l), l)
          EXCEPT !.start = 0, !.time = 0]
  ELSE s

PrePageview(s, l) ==
  IF s.listening THEN [TriggerEngagement(s, l) EXCEPT !.depth = scroll] ELSE s

PostPageview(s, l) ==
  [s EXCEPT !.ignored = FALSE, !.url = l.page, !.sentDepth = -1, !.time = 0,
            !.start = now, !.listening = TRUE]

\* Variant: the clock is left as it is.
PauseEngagementRunning(s, l) == [s EXCEPT !.ignored = TRUE, !.url = l.page]
PauseEngagement(s, l) == [s EXCEPT !.ignored = TRUE, !.url = l.page, !.time = 0, !.start = 0]

\* Stop the clock and report what it says.
StopAndReport(s, l) == TriggerEngagement([s EXCEPT !.time = EngagementTime(s), !.start = 0], l)

\* Variant: flushed before the engagement is reported.
OnVisibilityChangeFlushFirst(s, v, f) ==
  IF v /\ f /\ s.start = 0 THEN [s EXCEPT !.start = now]
  ELSE IF v /\ f THEN s
  ELSE StopAndReport(IF v THEN s ELSE FlushEventQueue(s, TRUE), loc)

OnVisibilityChange(s, v, f) ==
  IF v /\ f /\ s.start = 0 THEN [s EXCEPT !.start = now]
  ELSE IF v /\ f THEN s
  ELSE LET r == StopAndReport(s, loc) IN IF v THEN r ELSE FlushEventQueue(r, TRUE)

Count(s, l) ==
  PostPageview([SendEvent(s, l) EXCEPT !.lastKey = Key(config, l), !.viewed = Key(config, l)], l)

\* Variant: an excluded page does not claim its key.
TrackPageviewUnclaimed(s, l) ==
  IF s.lastKey = Key(config, l) THEN s
  ELSE IF Excluded(config, l.page) THEN PauseEngagement([s EXCEPT !.viewed = NoKey], l)
  ELSE Count(s, l)

TrackPageview(s, l) ==
  IF s.lastKey = Key(config, l) THEN s
  ELSE IF Excluded(config, l.page)
  THEN PauseEngagement([s EXCEPT !.lastKey = Key(config, l), !.viewed = NoKey], l)
  ELSE Count(s, l)

-----------------------------------------------------------------------------
(* Callbacks.                                                                 *)

Move == moves < MaxMoves /\ moves' = moves + 1

NoTracker ==
  [lastKey |-> NoKey, listening |-> FALSE, ignored |-> FALSE,
   url |-> <<>>, sentDepth |-> -1, start |-> 0, time |-> 0, depth |-> 1,
   pending |-> 0, timer |-> FALSE, posts |-> [drain \in BOOLEAN |-> 0],
   viewed |-> NoKey,
   engaged |-> [p \in Pages \cup {<<>>} |-> 0]]

\* The page is loaded; the server may have counted this page view already, and
\* calls of window.analytics made before the script was loaded wait in
\* __analyticsQueue (init, installPublicApi, bootstrapServerTrackedPageview).
Init ==
  /\ config \in Configs
  /\ loc \in Locations
  /\ config.served => ~Excluded(config, loc.page)
  /\ visible \in BOOLEAN /\ focus = visible
  /\ life = "loading"
  /\ scroll = 1 /\ now = 1
  /\ initial = "dom"
  /\ \E queued \in BOOLEAN :
       LET called == IF queued THEN SendEvent(NoTracker, loc) ELSE NoTracker
           seeded == [called EXCEPT !.lastKey = Key(config, loc), !.viewed = Key(config, loc)]
           s == IF config.served THEN PostPageview(seeded, loc) ELSE called
       IN t = s
  /\ stay = [p \in Pages |-> 0]
  /\ moves = 0

\* DOMContentLoaded: count the page view now, or when the page becomes visible.
TriggerInitial ==
  /\ life = "loading" /\ initial = "dom"
  /\ life' = "ready"
  /\ initial' = IF visible THEN "done" ELSE "visible"
  /\ t' = IF visible THEN TrackPageview(t, loc) ELSE t
  /\ UNCHANGED <<config, loc, visible, focus, scroll, now, stay, moves>>

Running == life \in {"loading", "ready"}

\* history.pushState or replaceState: the engagement of the old page is
\* reported before the location changes, the new page is counted after.
PushState(l) ==
  /\ Running /\ Move
  /\ loc' = l
  /\ t' = TrackPageview(PrePageview(t, loc), l)
  /\ UNCHANGED <<config, visible, focus, life, scroll, now, initial, stay>>

\* popstate: the location has changed when the listener runs.  With hash routing
\* a change of the fragment is heard a second time, as hashchange.
Heard(s, l) == TrackPageview(PrePageview(s, l), l)

PopState(l) ==
  /\ Running /\ Move /\ l # loc
  /\ loc' = l
  /\ t' = IF config.hash /\ l.hash # loc.hash THEN Heard(Heard(t, l), l) ELSE Heard(t, l)
  /\ UNCHANGED <<config, visible, focus, life, scroll, now, initial, stay>>

\* visibilitychange, blur and focus all call onVisibilityChange, if a page view
\* was counted; the listener that waits for the first visible moment runs after.
Attention(v, f) ==
  /\ Running /\ Move
  /\ (v # visible \/ f # focus) /\ (f => v)
  /\ visible' = v /\ focus' = f
  /\ LET heard == IF t.listening THEN OnVisibilityChange(t, v, f) ELSE t
         first == v /\ ~visible /\ initial = "visible"
     IN /\ t' = IF first THEN TrackPageview(heard, loc) ELSE heard
        /\ initial' = IF first THEN "done" ELSE initial
  /\ UNCHANGED <<config, loc, life, scroll, now, stay>>

\* The page is left: kept in the back-forward cache or discarded.
PageHide(kept) ==
  /\ life = "ready" /\ Move
  /\ life' = IF kept THEN "cached" ELSE "gone"
  /\ t' = FlushEventQueue(StopAndReport(t, loc), TRUE)
  /\ UNCHANGED <<config, loc, visible, focus, scroll, now, initial, stay>>

\* pageshow with event.persisted: the same document comes back and is a new visit.
PageShow ==
  /\ life = "cached" /\ Move
  /\ life' = "ready" /\ visible' = TRUE /\ focus' = TRUE
  /\ initial' = "done"
  /\ t' = TrackPageview([PrePageview(t, loc) EXCEPT !.lastKey = NoKey, !.viewed = NoKey], loc)
  /\ UNCHANGED <<config, loc, scroll, now, stay>>

\* A click: an outbound link or a download, and an element with a declared
\* goal, each send an event; a plain link does not (initAutoCapture,
\* initDeclarativeGoalCapture).  A call of window.analytics sends one too.
Click(link, goal) ==
  /\ Running /\ Move
  /\ link # "plain" \/ goal
  /\ LET captured == IF link # "plain" THEN SendEvent(t, loc) ELSE t
     IN t' = IF goal THEN SendEvent(captured, loc) ELSE captured
  /\ UNCHANGED <<config, loc, visible, focus, life, scroll, now, initial, stay>>

Scroll ==
  /\ Running /\ Move
  /\ \E d \in Depths \ {scroll} :
       /\ scroll' = d
       /\ t' = [t EXCEPT !.depth = IF d > @ THEN d ELSE @]
  /\ UNCHANGED <<config, loc, visible, focus, life, now, initial, stay>>

\* The flush timer fires.
FlushTimer ==
  /\ Running /\ t.timer
  /\ t' = FlushEventQueue([t EXCEPT !.timer = FALSE], FALSE)
  /\ UNCHANGED <<config, loc, visible, focus, life, scroll, now, initial, stay, moves>>

\* The fetch of one flushEventQueue is answered or fails (the error is
\* swallowed); a drain goes on to the next batch, another call schedules one.
\* In a cached page the answer waits; a page that is gone hears of nothing.
Answered(drain) ==
  /\ Running /\ t.posts[drain] > 0
  /\ t' = IF t.pending = 0 THEN [t EXCEPT !.posts = Counted(t.posts, drain, -1)]
          ELSE IF drain THEN [t EXCEPT !.pending = AfterBatch(@)]
          ELSE ScheduleEventFlush([t EXCEPT !.posts = Counted(t.posts, drain, -1)])
  /\ UNCHANGED <<config, loc, visible, focus, life, scroll, now, initial, stay, moves>>

\* Time passes, in a cached page too, where no page is being looked at.
Tick ==
  /\ now <= MaxTicks /\ life # "gone"
  /\ now' = now + 1
  /\ stay' = IF Running THEN [stay EXCEPT ![loc.page] = @ + 1] ELSE stay
  /\ UNCHANGED <<config, loc, visible, focus, life, scroll, initial, t, moves>>

Next ==
  \/ TriggerInitial
  \/ \E l \in Locations : PushState(l) \/ PopState(l)
  \/ \E v \in BOOLEAN, f \in BOOLEAN : Attention(v, f)
  \/ \E kept \in BOOLEAN : PageHide(kept)
  \/ PageShow
  \/ \E link \in {"outbound", "download", "plain"}, goal \in BOOLEAN : Click(link, goal)
  \/ Scroll
  \/ FlushTimer
  \/ \E drain \in BOOLEAN : Answered(drain)
  \/ Tick

Spec == Init /\ [][Next]_vars

-----------------------------------------------------------------------------
(* Properties.                                                                *)

\* Engaged time is not invented: however navigation, visibility, focus, the
\* back-forward cache and the dedupe of page views interleave, the time that
\* engagement events report for a page (by their url), with what is still on the
\* clock, is no more than the time the page was the one shown.
EngagedWithinStay ==
  \A p \in Pages :
    t.engaged[p] + (IF t.url = p /\ Running THEN EngagementTime(t) ELSE 0) <= stay[p]

\* Once the first page view has been due, the page being shown, if it is tracked,
\* has been counted (by the server or by an event), and under its own key: no
\* visit goes uncounted, whatever order pushState, replaceState, popstate and
\* visibility come in, after an excluded page and after the back-forward cache too.
ShownIsCounted ==
  life = "ready" /\ initial = "done" /\ Tracked(loc) => t.viewed = Key(config, loc)

\* A document that is hidden or left has handed everything to fetch in that very
\* callback: a drain never has to wait for a second batch, which the browser
\* would not let it post.
NothingLeftBehind ==
  (life = "ready" /\ life' # "ready") \/ (visible /\ ~visible' /\ t.listening) => t'.pending = 0

\* No event waits without a timer that will flush the queue, or a flush under way that comes back to
\* it: every event is posted in the end, unless the document is left first.
QueueIsServed ==
  Running /\ t.pending > 0 => t.timer \/ \E drain \in BOOLEAN : t.posts[drain] > 0

\* The inductive invariant.  Of the fields of the tracker at any moment of a callback: their types, a
\* timer or a flush for what is pending, and for each page no more engaged time than it was shown.
\* Between callbacks: they are about the location, unless nothing was tracked yet, and the clock of a
\* document that was left is stopped.
Keys == {NoKey} \cup {Key(cfg, l) : cfg \in Configs, l \in Locations}
Trackers ==
  [lastKey : Keys, viewed : Keys, listening : BOOLEAN, ignored : BOOLEAN, url : Pages \cup {<<>>},
   sentDepth : Depths \cup {-1}, depth : Depths, start : Nat, time : Nat, pending : 0..BatchSize - 1,
   timer : BOOLEAN, posts : [BOOLEAN -> Nat], engaged : [Pages \cup {<<>>} -> Nat]]

Served(s) == s.pending > 0 => s.timer \/ \E drain \in BOOLEAN : s.posts[drain] > 0

Within(s) ==
  /\ s.start <= now
  /\ \A p \in Pages : s.engaged[p] + (IF s.url = p THEN EngagementTime(s) ELSE 0) <= stay[p]

Sound(s) == s \in Trackers /\ Served(s) /\ Within(s)

TypeOK ==
  /\ config \in Configs /\ loc \in Locations /\ visible \in BOOLEAN /\ focus \in BOOLEAN
  /\ life \in {"loading", "ready", "cached", "gone"} /\ initial \in {"dom", "visible", "done"}
  /\ scroll \in Depths /\ now \in Nat /\ stay \in [Pages -> Nat]

OfLocation(s) ==
  IF s.lastKey = NoKey THEN ~s.listening /\ s.start = 0 /\ s.time = 0
  ELSE s.lastKey = Key(config, loc) /\ s.url = loc.page /\ (Tracked(loc) => s.viewed = s.lastKey)

Inductive ==
  /\ TypeOK /\ Sound(t) /\ OfLocation(t)
  /\ initial = "done" => t.lastKey # NoKey
  /\ ~Running => t.start = 0
=============================================================================
