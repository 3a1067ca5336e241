-------------------------- MODULE AnalyticsSettings --------------------------
(* The analytics settings page (pages/admin/analytics/settings.tsx) in one     *)
(* browser window, and whoever else changes the same settings.  Goals and      *)
(* exclusion rules are saved as whole lists, computed from the props the page  *)
(* was last given; a save is followed by a partial reload of the props, and    *)
(* between the answer to the save and the answer to the reload the page shows, *)
(* and edits, the old list.  Funnels are saved one at a time, by name.         *)
(* Requests and answers travel on their own: `saves` are the fetches, `asked`   *)
(* and `answers` the visits of Inertia, which may overtake one another.         *)
EXTENDS Integers, Sequences, FiniteSets, SequencesExt

CONSTANTS
  GoalPool,      \* goals an administrator may write: [name, event, page, scroll]
  Ordered,       \* a set of goals -> its goals in the order of their names
  Suggested,     \* names of events seen recently
  Paths,         \* paths of exclusion rules
  Normal,        \* path -> the path that the server makes of it (one slash for several)
  StepPool,      \* steps of funnels
  MaxSteps,      \* MAX_FUNNEL_STEPS
  MaxMoves       \* bound: what the administrator and the others do

Tabs == {"tracking", "goals", "integrations", "exclusions", "funnels"}
None == ""
NoGoal == [name |-> None, event |-> None, page |-> None, scroll |-> -1]

\* A goal that is stored has a name, and either an event or a page (validate_goal_shape).
GoalShape(goal) ==
  /\ goal \in [name : STRING, event : STRING, page : STRING, scroll : -1..100]
  /\ goal.name # None
  /\ IF goal.event # None THEN goal.page = None /\ goal.scroll = -1 ELSE goal.page # None

SuggestedGoal(name) == [name |-> name, event |-> name, page |-> None, scroll |-> -1]
Goals == GoalPool \cup {SuggestedGoal(name) : name \in Suggested}

SettingsAssumption ==
  /\ MaxSteps \in Nat /\ MaxMoves \in Nat
  /\ IsFiniteSet(GoalPool) /\ \A goal \in GoalPool : GoalShape(goal)
  /\ IsFiniteSet(Suggested) /\ None \notin Suggested
  /\ \A goals \in SUBSET Goals : Ordered[goals] \in Seq(goals)
  /\ Normal \in [Paths -> Paths] /\ \A p \in Paths : Normal[Normal[p]] = Normal[p]

VARIABLES
  server,   \* what is stored: [goals, rules, funnels, gsc]
  props,    \* what the page was last given
  tab,      \* the tab of the URL; the others are not mounted
  ui,       \* the state of the mounted tab; `source` is the goal its form was filled
            \* from, `touched` whether it was changed since, `lost` whether the change of the
            \* rules on the screen was refused, got no answer or was overwritten before the
            \* page was told of it (history)
  builder,  \* the funnel dialog's steps and the step being edited
  saves,    \* fetches under way: [kind, payload, mount, answer]
  asked,    \* visits the server has still to answer, by what they ask for
  answers,  \* answers under way: [only, page]
  mount,    \* how often a tab was mounted: state set for an older mount is lost
  moves     \* bound

vars == <<server, props, tab, ui, builder, saves, asked, answers, mount, moves>>

-----------------------------------------------------------------------------
(* Goals: the form's state, and what is made of it.                           *)

GoalType(goal) ==
  IF goal.event # None THEN "custom_event"
  ELSE IF goal.scroll >= 0 THEN "scroll_depth" ELSE "page_visit"

NormalizeGoal(goal) ==
  [name |-> goal.name, type |-> GoalType(goal), event |-> goal.event, page |-> goal.page,
   scroll |-> IF GoalType(goal) = "scroll_depth" THEN goal.scroll ELSE 75]

DefaultGoalForm ==
  [name |-> None, type |-> "custom_event", event |-> None, page |-> None, scroll |-> 75]

GoalForm(goal) == IF goal = NoGoal THEN DefaultGoalForm ELSE NormalizeGoal(goal)

ValidGoal(form) == IF form.type = "custom_event" THEN form.event # None ELSE form.page # None

GoalDisplayName(form) ==
  IF form.name # None THEN form.name
  ELSE IF form.type = "custom_event" THEN form.event ELSE form.page

\* Variant: a threshold of zero is taken for none.
PayloadTruthy(form) ==
  [name |-> GoalDisplayName(form),
   event |-> IF form.type = "custom_event" THEN form.event ELSE None,
   page |-> IF form.type = "custom_event" THEN None ELSE form.page,
   scroll |-> IF form.type = "scroll_depth" /\ form.scroll > 0 THEN form.scroll ELSE -1]

GoalFormToPayload(form) ==
  [name |-> GoalDisplayName(form),
   event |-> IF form.type = "custom_event" THEN form.event ELSE None,
   page |-> IF form.type = "custom_event" THEN None ELSE form.page,
   scroll |-> IF form.type = "scroll_depth" THEN form.scroll ELSE -1]

Names(goals) == {goals[i].name : i \in DOMAIN goals} \cup {goals[i].event : i \in DOMAIN goals}

-----------------------------------------------------------------------------
(* Funnel steps; a builder step that is not valid cannot be added.             *)

ValidStep(step) == step.value # None
FunnelValid(steps) == Cardinality({i \in DOMAIN steps : ValidStep(steps[i])}) >= 2
CanAddStep(steps) == Len(steps) < MaxSteps

EmptyBuilder == [steps |-> <<>>, editing |-> 0, step |-> <<>>, reordered |-> FALSE]

-----------------------------------------------------------------------------
(* The page.                                                                  *)

FreshUi(p) ==
  [dialog |-> FALSE, editing |-> 0, deleting |-> 0, busy |-> FALSE,
   key |-> <<FALSE, None>>, form |-> DefaultGoalForm, source |-> NoGoal, touched |-> FALSE,
   funnel |-> None, rules |-> p.rules, lost |-> FALSE, property |-> p.gsc.property]

EditingGoal(u, p) ==
  IF u.editing \in DOMAIN p.goals THEN p.goals[u.editing] ELSE NoGoal

\* Variant: the form is only reset when the dialog opens or closes.
FormKeyOpen(u, p) == <<u.dialog, None>>
FormKey(u, p) == <<u.dialog, EditingGoal(u, p).name>>

\* GoalFormDialog resets its form while rendering, when its key has changed.
Rendered(u, p) ==
  IF FormKey(u, p) = u.key THEN u
  ELSE [u EXCEPT !.key = FormKey(u, p), !.form = GoalForm(EditingGoal(u, p)),
                 !.source = EditingGoal(u, p), !.touched = FALSE]

Init ==
  /\ \E goals \in {<<>>, Ordered[GoalPool]} : \E gsc \in {"off", "connected"} :
       server = [goals |-> goals, rules |-> [include |-> {}, exclude |-> {}],
                 funnels |-> {}, gsc |-> [state |-> gsc, property |-> None]]
  /\ props = server
  /\ tab \in Tabs
  /\ ui = FreshUi(server) /\ builder = EmptyBuilder
  /\ saves = {} /\ asked = [only \in {"settings", "page"} |-> 0] /\ answers = <<>> /\ mount = 0 /\ moves = 0

Move == moves < MaxMoves /\ moves' = moves + 1

\* What the mounted tab lets the administrator do now.
GoalsOffer ==
  IF tab # "goals" THEN {}
  ELSE IF ui.dialog THEN {"cancel", "type"} \cup
         (IF ValidGoal(ui.form) /\ ~ui.busy THEN {"save"} ELSE {})
  ELSE IF ui.deleting # 0 THEN {"cancel"} \cup (IF ui.busy THEN {} ELSE {"confirm"})
  ELSE {"add", "edit", "delete"} \cup (IF ui.busy THEN {} ELSE {"promote", "promote all"})

ExclusionsOffer == IF tab = "exclusions" /\ ~ui.busy THEN {"add", "remove"} ELSE {}

FunnelsOffer ==
  IF tab # "funnels" THEN {}
  ELSE IF ui.dialog THEN {"cancel"} \cup
         (IF FunnelValid(builder.steps) /\ ~ui.busy THEN {"save"} ELSE {})
  ELSE IF ui.deleting # 0 THEN {"cancel"} \cup (IF ui.busy THEN {} ELSE {"confirm"})
  ELSE {"add", "edit", "delete"}

\* The left half of the funnel dialog: a step, built or suggested, and what to do with it.
BuilderOffer ==
  IF tab # "funnels" \/ ~ui.dialog THEN {}
  ELSE (IF CanAddStep(builder.steps) \/ builder.editing # 0 THEN {"apply"} ELSE {})
         \cup (IF builder.editing # 0 THEN {"cancel edit"} ELSE {})

\* A Search Console form posts and loads the whole page again.
GscOffer ==
  IF tab # "integrations" THEN {}
  ELSE CASE props.gsc.state = "off" -> {"connect"}
         [] props.gsc.state = "reauth" -> {"connect", "disconnect"}
         [] props.gsc.state = "connected" -> {"disconnect", "refresh", "choose"}
         [] props.gsc.state = "configured" -> {"disconnect", "refresh", "choose", "sync"}
         [] props.gsc.state = "syncing" -> {"disconnect", "refresh", "choose"}

Show(u) == ui' = Rendered(u, props)

Fetch(kind, payload) ==
  saves' = saves \cup {[kind |-> kind, payload |-> payload, mount |-> mount, answer |-> "none"]}

\* handleTabChange: another tab is mounted with fresh state; fetches go on.
ChangeTab(next) ==
  /\ Move /\ next # tab
  /\ tab' = next /\ mount' = mount + 1
  /\ ui' = FreshUi(props) /\ builder' = EmptyBuilder
  /\ UNCHANGED <<server, props, saves, asked, answers>>

-----------------------------------------------------------------------------
(* The goals tab.                                                             *)

OpenGoal(i) ==
  /\ (IF i = 0 THEN "add" ELSE "edit") \in GoalsOffer /\ Move
  /\ Show([ui EXCEPT !.dialog = TRUE, !.editing = i])
  /\ UNCHANGED <<server, props, tab, builder, saves, asked, answers, mount>>

AskDeleteGoal(i) ==
  /\ "delete" \in GoalsOffer /\ Move
  /\ Show([ui EXCEPT !.deleting = i])
  /\ UNCHANGED <<server, props, tab, builder, saves, asked, answers, mount>>

Cancel ==
  /\ "cancel" \in GoalsOffer \cup FunnelsOffer /\ Move
  /\ Show([ui EXCEPT !.dialog = FALSE, !.editing = 0, !.deleting = 0, !.funnel = None])
  /\ builder' = EmptyBuilder
  /\ UNCHANGED <<server, props, tab, saves, asked, answers, mount>>

TypeGoal(goal) ==
  /\ "type" \in GoalsOffer /\ Move
  /\ Show([ui EXCEPT !.form = NormalizeGoal(goal), !.touched = TRUE])
  /\ UNCHANGED <<server, props, tab, builder, saves, asked, answers, mount>>

\* persistGoalDefinitions sends the whole list.
PersistGoals(kind, goals) ==
  /\ Move
  /\ Fetch(kind, goals)
  /\ Show([ui EXCEPT !.busy = TRUE])
  /\ UNCHANGED <<server, props, tab, builder, asked, answers, mount>>

SaveGoal ==
  /\ "save" \in GoalsOffer
  /\ LET goal == GoalFormToPayload(ui.form)
     IN PersistGoals("goals", IF ui.editing = 0 THEN Append(props.goals, goal)
                              ELSE [i \in DOMAIN props.goals |->
                             IF i = ui.editing THEN goal ELSE props.goals[i]])

DeleteGoal ==
  /\ "confirm" \in GoalsOffer
  /\ PersistGoals("goals", IF ui.deleting \in DOMAIN props.goals
                  THEN RemoveAt(props.goals, ui.deleting) ELSE props.goals)

PromoteSuggestion(name) ==
  /\ "promote" \in GoalsOffer /\ name \notin Names(props.goals)
  /\ PersistGoals("promotion", Append(props.goals, SuggestedGoal(name)))

PromoteAll ==
  /\ "promote all" \in GoalsOffer
  /\ LET new == Suggested \ Names(props.goals)
     IN /\ new # {}
        /\ PersistGoals("promotion", props.goals \o SetToSeq({SuggestedGoal(n) : n \in new}))

-----------------------------------------------------------------------------
(* The exclusions tab shows its change at once and saves it.                   *)

ChangeRule(list, path, add) ==
  LET rules == [ui.rules EXCEPT ![list] = IF add THEN @ \cup {path} ELSE @ \ {path}]
  IN /\ (IF add THEN "add" ELSE "remove") \in ExclusionsOffer /\ Move
     /\ rules # ui.rules
     /\ Fetch("rules", rules)
     /\ Show([ui EXCEPT !.rules = rules, !.busy = TRUE, !.lost = FALSE])
     /\ UNCHANGED <<server, props, tab, builder, asked, answers, mount>>

-----------------------------------------------------------------------------
(* The funnels tab and the step builder of its dialog.                         *)

OpenFunnel(f) ==
  /\ (IF f = None THEN "add" ELSE "edit") \in FunnelsOffer /\ Move
  /\ Show([ui EXCEPT !.dialog = TRUE, !.funnel = f])
  /\ builder' = EmptyBuilder
  /\ UNCHANGED <<server, props, tab, saves, asked, answers, mount>>

\* Steps are kept by value; what a saved funnel is made of does not matter here.
\* Click a step of the list: the builder takes it over.
EditStep(i) ==
  /\ tab = "funnels" /\ ui.dialog /\ i \in DOMAIN builder.steps
  /\ builder' = [builder EXCEPT !.editing = i, !.step = builder.steps[i], !.reordered = FALSE]
  /\ UNCHANGED <<server, props, tab, ui, saves, asked, answers, mount, moves>>

ResetBuilder(b) == [b EXCEPT !.editing = 0, !.step = <<>>]

CancelEditStep ==
  /\ "cancel edit" \in BuilderOffer
  /\ builder' = ResetBuilder(builder)
  /\ UNCHANGED <<server, props, tab, ui, saves, asked, answers, mount, moves>>

\* A step is added or replaces the edited one.  addStep, behind the button, does
\* nothing when the funnel is full, not even for an update; a suggestion does.
ApplyStep(step, suggested) ==
  /\ "apply" \in BuilderOffer /\ ValidStep(step)
  /\ ~suggested \/ builder.editing = 0 => CanAddStep(builder.steps)
  /\ builder' = ResetBuilder([builder EXCEPT
                  !.steps = IF builder.editing = 0 THEN Append(@, step)
                            ELSE [@ EXCEPT ![builder.editing] = step]])
  /\ UNCHANGED <<server, props, tab, ui, saves, asked, answers, mount, moves>>

\* Variant: the edited position is kept when an earlier step goes.
KeepEditing(i) ==
  IF builder.editing = i THEN 0
  ELSE IF builder.editing > Len(builder.steps) - 1 THEN 0 ELSE builder.editing
ShiftEditing(i) ==
  IF builder.editing = i THEN 0
  ELSE IF builder.editing > i THEN builder.editing - 1 ELSE builder.editing

RemoveStep(i) ==
  /\ tab = "funnels" /\ ui.dialog /\ i \in DOMAIN builder.steps
  /\ builder' = [builder EXCEPT !.steps = RemoveAt(@, i), !.editing = ShiftEditing(i)]
  /\ UNCHANGED <<server, props, tab, ui, saves, asked, answers, mount, moves>>

\* Dropping a step on another moves it there; the edited position stays.
DropStep(from, to) ==
  /\ tab = "funnels" /\ ui.dialog /\ from # to
  /\ from \in DOMAIN builder.steps /\ to \in DOMAIN builder.steps
  /\ builder' = [builder EXCEPT !.steps = InsertAt(RemoveAt(@, from), to, builder.steps[from]),
                                !.reordered = TRUE]
  /\ UNCHANGED <<server, props, tab, ui, saves, asked, answers, mount, moves>>

SaveFunnel(name) ==
  /\ "save" \in FunnelsOffer /\ Move
  /\ Fetch("funnel", [old |-> ui.funnel, new |-> name])
  /\ Show([ui EXCEPT !.busy = TRUE])
  /\ UNCHANGED <<server, props, tab, builder, asked, answers, mount>>

AskDeleteFunnel(f) ==
  /\ "delete" \in FunnelsOffer /\ Move
  /\ Show([ui EXCEPT !.deleting = 1, !.funnel = f])
  /\ UNCHANGED <<server, props, tab, builder, saves, asked, answers, mount>>

DeleteFunnel ==
  /\ "confirm" \in FunnelsOffer /\ Move
  /\ Fetch("funnel", [old |-> ui.funnel, new |-> None])
  /\ Show([ui EXCEPT !.busy = TRUE])
  /\ UNCHANGED <<server, props, tab, builder, asked, answers, mount>>

-----------------------------------------------------------------------------
(* Search Console: every form is a plain post, after which the page is loaded  *)
(* anew, with what the server made of it; what was under way is given up.      *)

SubmitGsc(form) ==
  /\ form \in GscOffer /\ Move
  /\ \E next \in CASE form = "connect" -> {"connected", "off"}
                   [] form = "disconnect" -> {"off"}
                   [] form = "refresh" -> {server.gsc.state, "reauth"}
                   [] form = "choose" -> {"configured"}
                   [] form = "sync" -> {"syncing", "configured", "reauth"} :
       server' = [server EXCEPT !.gsc =
                    [state |-> next, property |-> IF next = "configured" THEN "site" ELSE @.property]]
  /\ props' = server'
  /\ ui' = FreshUi(server') /\ builder' = EmptyBuilder
  /\ mount' = mount + 1 /\ saves' = {}
  /\ asked' = [only \in DOMAIN asked |-> 0] /\ answers' = <<>>
  /\ UNCHANGED tab

-----------------------------------------------------------------------------
(* The server, the network and the others.                                     *)

\* sync_from_definitions!: goals are kept by name, of two with one name the later.
Synced(goals) ==
  Ordered[{goals[i] : i \in {j \in DOMAIN goals :
             \A k \in DOMAIN goals : k > j => goals[k].name # goals[j].name}}]

\* What TrackingRules makes of the paths when it loads them.
Image(rules) ==
  [include |-> {Normal[p] : p \in rules.include}, exclude |-> {Normal[p] : p \in rules.exclude}]

Stored(s) ==
  CASE s.kind \in {"goals", "promotion"} -> [server EXCEPT !.goals = Synced(s.payload)]
    [] s.kind = "rules" -> [server EXCEPT !.rules = Image(s.payload)]
    [] s.kind = "funnel" ->
         [server EXCEPT !.funnels = (@ \ {s.payload.old}) \cup ({s.payload.new} \ {None})]

MayReject(s) ==
  s.kind = "funnel" =>
    \/ s.payload.old # None /\ s.payload.old \notin server.funnels
    \/ s.payload.new # s.payload.old /\ s.payload.new \in server.funnels

\* The rules on the screen are not those the page was told.
Ahead == Image(ui.rules) # props.rules

\* The server's rules change; the ones on the screen were stored, and the page was not told yet.
Overwriting ==
  ui' = [ui EXCEPT !.lost = @ \/ (Ahead /\ server.rules = Image(ui.rules) /\ server'.rules # server.rules)]

\* The server stores what it was sent or refuses it; the answer may be lost.
HandleSave(s) ==
  /\ s \in saves /\ s.answer = "none"
  /\ \/ \E answer \in {"ok", "down"} :
          /\ ~(s.kind = "funnel" /\ MayReject(s))
          /\ server' = Stored(s)
          /\ saves' = (saves \ {s}) \cup {[s EXCEPT !.answer = answer]}
     \/ \E answer \in {"rejected", "down"} :
          /\ answer = "rejected" => MayReject(s)
          /\ server' = server
          /\ saves' = (saves \ {s}) \cup {[s EXCEPT !.answer = answer]}
  /\ Overwriting
  /\ UNCHANGED <<props, tab, builder, asked, answers, mount, moves>>

\* Which answers are followed by a reload, and of what.
ReloadsAfter(s) == s.answer = "ok" \/ (s.kind = "rules" /\ s.answer = "rejected")

\* Variant: only an answer ends a save.
EndsIfAnswered(s) == s.answer # "down"
EndsBusy(s) == s.kind # "funnel" \/ s.answer # "down"

Closed(u) == [u EXCEPT !.dialog = FALSE, !.editing = 0, !.deleting = 0, !.funnel = None]

Response(s) ==
  /\ s \in saves /\ s.answer # "none"
  /\ saves' = saves \ {s}
  /\ asked' = IF ReloadsAfter(s)
              THEN [asked EXCEPT ![IF s.kind = "funnel" THEN "page" ELSE "settings"] = @ + 1]
              ELSE asked
  /\ LET ended == IF EndsBusy(s) THEN [ui EXCEPT !.busy = FALSE] ELSE ui
         heard == [ended EXCEPT !.lost = @ \/ (s.kind = "rules" /\ s.answer # "ok")]
     IN IF s.mount # mount THEN ui' = ui
        ELSE Show(IF s.answer = "ok" /\ s.kind # "rules" THEN Closed(heard) ELSE heard)
  /\ UNCHANGED <<server, props, tab, builder, answers, mount, moves>>

\* A visit of Inertia: the server renders the props it has now ...
AnswerReload(only) ==
  /\ asked[only] > 0
  /\ asked' = [asked EXCEPT ![only] = @ - 1]
  /\ answers' = Append(answers, [only |-> only, page |-> server])
  /\ UNCHANGED <<server, props, tab, ui, builder, saves, mount, moves>>

\* Variant: the tab shows the rules it was mounted with.
ResetsNever(page) == FALSE

\* The rules on the screen give way when the props' settings, which the funnels are not part of, are
\* another object: Inertia keeps those it finds equal.
Resets(page) == [page EXCEPT !.funnels = props.funnels] # props

\* ... and the page takes them; `other` says whether what else the settings hold (suggestions, the
\* times of the last sync) has changed.
ReceiveReload(i, other) ==
  LET page == answers[i].page
      rules == IF other \/ Resets(page) THEN [ui EXCEPT !.rules = page.rules, !.lost = FALSE] ELSE ui
  IN /\ i \in DOMAIN answers
     /\ answers' = RemoveAt(answers, i)
     /\ props' = IF answers[i].only = "page" THEN page ELSE [page EXCEPT !.funnels = props.funnels]
     /\ ui' = Rendered(rules, props')
     /\ UNCHANGED <<server, tab, builder, saves, asked, mount, moves>>

\* Somebody else changes the settings: a goal in place, a goal less, a rule, a funnel.
OtherChange ==
  /\ Move
  /\ \/ \E i \in DOMAIN server.goals, g \in GoalPool :
          g # server.goals[i] /\ server' = [server EXCEPT !.goals = Synced([@ EXCEPT ![i] = g])]
     \/ server.goals # <<>> /\ server' = [server EXCEPT !.goals = Tail(@)]
     \/ \E p \in Paths : server' = [server EXCEPT !.rules = [@ EXCEPT !.exclude = {Normal[p]}]]
     \/ server' = [server EXCEPT !.funnels = {"other"}]
  /\ Overwriting
  /\ UNCHANGED <<props, tab, builder, saves, asked, answers, mount>>

Next ==
  \/ \E t \in Tabs : ChangeTab(t)
  \/ \E i \in 0..Len(props.goals) : OpenGoal(i) \/ (i # 0 /\ AskDeleteGoal(i))
  \/ Cancel \/ SaveGoal \/ DeleteGoal \/ PromoteAll
  \/ \E g \in GoalPool : TypeGoal(g)
  \/ \E n \in Suggested : PromoteSuggestion(n)
  \/ \E list \in {"include", "exclude"}, p \in Paths, add \in BOOLEAN : ChangeRule(list, p, add)
  \/ \E f \in props.funnels \cup {None} : OpenFunnel(f)
  \/ \E f \in props.funnels : AskDeleteFunnel(f)
  \/ \E step \in StepPool, suggested \in BOOLEAN : ApplyStep(step, suggested)
  \/ \E i \in DOMAIN builder.steps : EditStep(i) \/ RemoveStep(i)
  \/ \E i, j \in DOMAIN builder.steps : DropStep(i, j)
  \/ \E n \in {"mine", "other"} : SaveFunnel(n)
  \/ DeleteFunnel \/ CancelEditStep
  \/ \E form \in {"connect", "disconnect", "refresh", "choose", "sync"} : SubmitGsc(form)
  \/ \E s \in saves : HandleSave(s) \/ Response(s)
  \/ \E only \in DOMAIN asked : AnswerReload(only)
  \/ \E i \in DOMAIN answers, other \in BOOLEAN : ReceiveReload(i, other)
  \/ OtherChange

Spec == Init /\ [][Next]_vars

-----------------------------------------------------------------------------
(* Properties.                                                                *)

\* Goals are edited by their position in a list that a reload may replace while
\* the dialog is open.  Whatever arrives, a form that nobody touched would save
\* exactly the goal it was filled from, and in the place of a goal of that name.
FormMatchesTarget ==
  tab = "goals" /\ ui.dialog /\ ~ui.touched /\ ui.editing \in DOMAIN props.goals =>
    /\ GoalFormToPayload(ui.form) = ui.source
    /\ ui.source.name = props.goals[ui.editing].name

\* The exclusions tab shows a change before it is stored.  When nothing is under way it shows what the
\* server said last, but for slashes, whatever was changed here, in another tab of the page or by
\* somebody else, and in whatever order the answers came.  Left out is a change that was refused, got
\* no answer or was overwritten before the page was told of it: when the reload then brings what the
\* props already hold, the change stays on the screen although it is not stored.
Quiet == saves = {} /\ (\A only \in DOMAIN asked : asked[only] = 0) /\ answers = <<>>

RulesSettle == tab = "exclusions" /\ Quiet /\ ~ui.lost => ~Ahead

\* The step that "Update step" replaces is the step that was clicked, however
\* many steps are removed meanwhile (dropping steps elsewhere is another matter:
\* the position being edited stays).
EditedStepStays ==
  builder.editing # 0 /\ ~builder.reordered => builder.steps[builder.editing] = builder.step

\* The buttons of the goals and exclusions tabs are disabled by a save under way only: they come
\* back after every save, however it ends.
BusyIsUnderWay ==
  tab \in {"goals", "exclusions"} /\ ui.busy => \E s \in saves : s.mount = mount

\* The inductive invariant.  What is stored, shown, sent or on its way to the page are goals that the
\* form leaves as they are; the form is filled from the goal its key names; each save is of the tab
\* that was mounted when it was sent; and rules that are shown before the page was told of them are in
\* a save, in the server and a reload that was asked for, or in an answer that is under way.
Sources == Goals \cup {NoGoal}
Forms == {GoalForm(goal) : goal \in Sources}
Rules == [include : SUBSET Paths, exclude : SUBSET Paths]
Funnels == {"mine", "other"}
Stores ==
  [goals : Seq(Goals), rules : Rules, funnels : SUBSET Funnels,
   gsc : [state : {"off", "reauth", "connected", "configured", "syncing"}, property : {None, "site"}]]
Uis ==
  [dialog : BOOLEAN, editing : Nat, deleting : Nat, busy : BOOLEAN,
   key : BOOLEAN \X {goal.name : goal \in Sources}, form : Forms, source : Sources, touched : BOOLEAN,
   funnel : Funnels \cup {None}, rules : Rules, lost : BOOLEAN, property : {None, "site"}]
Builders ==
  [steps : Seq(StepPool), editing : Nat, step : StepPool \cup {<<>>}, reordered : BOOLEAN]
Replies == {"none", "ok", "rejected", "down"}
Saves ==
  [kind : {"goals", "promotion"}, payload : Seq(Goals), mount : Nat, answer : Replies]
    \cup [kind : {"rules"}, payload : Rules, mount : Nat, answer : Replies]
    \cup [kind : {"funnel"}, payload : [old : Funnels \cup {None}, new : Funnels \cup {None}],
          mount : Nat, answer : Replies]
Reloads == {"settings", "page"}

TypeOK ==
  /\ server \in Stores /\ props \in Stores /\ tab \in Tabs /\ ui \in Uis
  /\ saves \subseteq Saves /\ asked \in [Reloads -> Nat]
  /\ answers \in Seq([only : Reloads, page : Stores]) /\ mount \in Nat

Filled(u) == u.source.name = u.key[2] /\ (~u.touched => u.form = GoalForm(u.source))

Building ==
  /\ builder \in Builders /\ builder.editing <= Len(builder.steps) /\ Len(builder.steps) <= MaxSteps
  /\ EditedStepStays

OfMount == \A s \in saves : s.mount <= mount /\ (s.kind = "funnel" /\ s.mount = mount => tab = "funnels")

InSave ==
  \E s \in saves : /\ s.kind = "rules" /\ s.mount = mount /\ s.payload = ui.rules
                   /\ s.answer = "ok" => server.rules = Image(ui.rules)

Settling ==
  \/ ~Ahead \/ InSave
  \/ asked["settings"] > 0 /\ server.rules = Image(ui.rules)
  \/ \E i \in DOMAIN answers : answers[i].page.rules = Image(ui.rules)

Normalized ==
  /\ props.rules = Image(props.rules) /\ server.rules = Image(server.rules)
  /\ \A i \in DOMAIN answers : answers[i].page.rules = Image(answers[i].page.rules)

Inductive ==
  /\ TypeOK /\ ui.key = FormKey(ui, props) /\ Filled(ui) /\ Building /\ OfMount
  /\ tab = "exclusions" /\ ~ui.lost => Settling
  /\ Normalized /\ BusyIsUnderWay
=============================================================================
