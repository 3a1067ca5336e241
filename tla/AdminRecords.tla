---------------------------- MODULE AdminRecords -----------------------------
(* The page of one record of the administration: a proxy, a crawl request, a user *)
(* or a library, with the buttons that act on it (pages/admin/*/show.tsx).  Every *)
(* button makes a visit of Inertia and is disabled until that visit has finished; *)
(* a visit interrupts the one under way, which may have reached the server.      *)
EXTENDS Integers, Sequences

CONSTANTS
  None,
  MaxMoves   \* bound: what the administrator and the others do

Plain(act, attr, at, to, flag) ==
  [act |-> act, attr |-> attr, at |-> at, to |-> to, flag |-> flag, asks |-> FALSE]
Asking(act, attr, at, to, flag) ==
  [act |-> act, attr |-> attr, at |-> at, to |-> to, flag |-> flag, asks |-> TRUE]

\* The buttons of each page: the attribute they show and set, the values at which they are there,
\* the flag that disables them, and whether a dialog asks for a confirmation.
ProxyButtons ==
  { Plain("toggle", "active", {"yes"}, "no", "toggling"), Plain("toggle", "active", {"no"}, "yes", "toggling"),
    Plain("reset", "failing", {"yes"}, "no", "resetting"), Asking("delete", "gone", {"no"}, "yes", "deleting") }

CrawlRequestButtons ==
  { Plain("cancel", "status", {"pending", "processing"}, "cancelled", "cancelling"),
    Plain("retry", "status", {"failed", "cancelled"}, "pending", "retrying"),
    Asking("delete", "gone", {"no"}, "yes", "deleting") }

IdentityButtons ==
  { Asking("suspend", "suspended", {"no"}, "yes", "actionProcessing"),
    Asking("unsuspend", "suspended", {"yes"}, "no", "actionProcessing"),
    Asking("grant_staff", "staff", {"no"}, "yes", "actionProcessing"),
    Asking("revoke_staff", "staff", {"yes"}, "no", "actionProcessing") }

\* An account of the user that is to be deleted; its button has no flag.
MembershipButtons == { Asking("reactivate", "cancelled", {"yes"}, "no", None) }

UserButtons == IdentityButtons \cup MembershipButtons

LibraryButtons ==
  { Plain("recrawl", "gone", {"no"}, "no", "recrawling"), Asking("delete", "gone", {"no"}, "yes", "deleting") }

\* What the props say of a record, whichever it is: a status, and what it is or is not.
Values == {"yes", "no", "pending", "processing", "completed", "failed", "cancelled"}
Attributes == {"active", "failing", "status", "suspended", "staff", "cancelled", "gone"}
AtFirst(yes) ==
  [a \in Attributes |-> IF a = "status" THEN "pending" ELSE IF a \in yes THEN "yes" ELSE "no"]

Pages ==
  { [buttons |-> ProxyButtons, is |-> AtFirst({"active", "failing"})],
    [buttons |-> CrawlRequestButtons, is |-> AtFirst({})],
    [buttons |-> UserButtons, is |-> AtFirst({"cancelled"})],
    [buttons |-> LibraryButtons, is |-> AtFirst({})] }

Buttons == UNION {p.buttons : p \in Pages}

Is == [Attributes -> Values]
Row == [is : Is, of : Nat \cup {None}]

AdminRecordsAssumption ==
  /\ MaxMoves \in Nat
  /\ None \notin [button : Buttons, id : Nat] /\ None \notin Buttons
  /\ None \notin {b.flag : b \in Buttons \ MembershipButtons}

VARIABLES
  page,     \* one of Pages
  records,  \* the rows of the server: [is, of], of the one it was made from
  shown,    \* the props: [id, is], or None when the page was left
  dialog,   \* the button whose confirmation is open
  busy,     \* the flags that are set
  visit,    \* [button, id]: the visit under way
  upset,    \* a visit failed, or another button interrupted it (history)
  moves

vars == <<page, records, shown, dialog, busy, visit, upset, moves>>

Move == moves < MaxMoves /\ moves' = moves + 1

Props(id, all) == [id |-> id, is |-> all[id].is]

Init ==
  /\ page \in Pages /\ records = <<[is |-> page.is, of |-> None]>> /\ shown = Props(1, records)
  /\ dialog = None /\ busy = {} /\ visit = None /\ upset = FALSE /\ moves = 0

-----------------------------------------------------------------------------
(* The server.                                                                 *)

Terminal == {"completed", "failed", "cancelled"}

\* 404 for a row that is gone; mark_cancelled raises from a terminal status; the reset asks for
\* attributes that config_params does not permit, which leaves nothing of the parameters.  A retry
\* makes another request; the request that a recrawl makes is not on this page.
Rejected(v) ==
  \/ records[v.id].is.gone = "yes"
  \/ v.button.act = "reset"
  \/ v.button.act = "cancel" /\ records[v.id].is.status \in Terminal

Changed(id, attr, to) ==
  [records EXCEPT ![id] = [is |-> [@.is EXCEPT ![attr] = to], of |-> @.of]]

Effect(v) ==
  IF Rejected(v) THEN records
  ELSE IF v.button.act = "retry" THEN Append(records, [is |-> page.is, of |-> v.id])
  ELSE Changed(v.id, v.button.attr, v.button.to)

\* What is interrupted has reached the server, or has not.
Interrupted == {records} \cup IF visit = None THEN {} ELSE {Effect(visit)}

\* The crawls, the pool's record of failures, and the other administrators.
Others(id) ==
  /\ records[id].is.gone = "no" /\ Move
  /\ \E b \in page.buttons, new \in {"yes", "no", "processing", "completed", "failed"} :
       LET old == records[id].is[b.attr]
       IN /\ new # old
          /\ IF b.attr = "status" THEN old \notin Terminal /\ new \notin {"yes", "no"} ELSE new \in {"yes", "no"}
          /\ records' = Changed(id, b.attr, new)
  /\ UNCHANGED <<page, shown, dialog, busy, visit, upset>>

-----------------------------------------------------------------------------
(* The page.                                                                   *)

\* Variant: without onFinish.
FinishedNever(flags) == flags

\* onFinish is called for what is answered, failed or interrupted.
Finished(flags) == IF visit = None THEN flags ELSE flags \ {visit.button.flag}

\* Variant: a button is not disabled while its visit is under way.
BusyWithEnabled(b) == Finished(busy)

BusyWith(b) == Finished(busy \cup ({b.flag} \ {None}))

Send(b) ==
  /\ records' \in Interrupted /\ busy' = BusyWith(b)
  /\ visit' = [button |-> b, id |-> shown.id]
  /\ upset' = (upset \/ (visit # None /\ visit.button # b))

Press(b) ==
  /\ shown # None /\ dialog = None /\ shown.is[b.attr] \in b.at /\ Move
  /\ IF b.asks
     THEN dialog' = b /\ UNCHANGED <<records, busy, visit, upset>>
     ELSE b.flag \notin busy /\ Send(b) /\ UNCHANGED dialog
  /\ UNCHANGED <<page, shown>>

Confirm ==
  /\ shown # None /\ dialog # None /\ dialog.flag \notin busy /\ Move /\ Send(dialog)
  /\ UNCHANGED <<page, shown, dialog>>

\* Cancel is disabled, but Escape closes the dialog of what is under way too.
CloseDialog ==
  /\ dialog # None /\ Move /\ dialog' = None
  /\ UNCHANGED <<page, records, shown, busy, visit, upset>>

\* onSuccess of the actions on a user closes their dialog, whichever of them it now asks about;
\* the others keep theirs, for the state of the page is preserved.
DialogAfter(b) ==
  IF dialog # None /\ b \in UserButtons /\ dialog.flag = b.flag THEN None ELSE dialog

Answer ==
  /\ visit # None /\ ~Rejected(visit) /\ records' = Effect(visit)
  /\ shown' = CASE visit.button.act = "delete" -> None
                [] visit.button.act = "retry" -> Props(Len(records'), records')
                [] OTHER -> Props(visit.id, records')
  /\ dialog' = (IF shown' = None THEN None ELSE DialogAfter(visit.button))
  /\ visit' = None /\ busy' = Finished(busy) /\ UNCHANGED <<page, upset, moves>>

Fails ==
  /\ visit # None /\ records' \in Interrupted
  /\ visit' = None /\ busy' = Finished(busy) /\ upset' = TRUE
  /\ UNCHANGED <<page, shown, dialog, moves>>

Next ==
  \/ \E id \in DOMAIN records : Others(id)
  \/ \E b \in page.buttons : Press(b)
  \/ Confirm \/ CloseDialog \/ Answer \/ Fails

Spec == Init /\ [][Next]_vars

-----------------------------------------------------------------------------
(* Properties.                                                                 *)

\* A button is disabled by its own visit only, and not after it: whatever was answered, refused or
\* interrupted, in whichever order, no button stays disabled.
BusyIsUnderWay == \A f \in busy : visit # None /\ visit.button.flag = f

\* A crawl request that failed is retried once, however often its button is pressed, unless a
\* visit failed or was interrupted by another button.
RetriedOnce ==
  ~upset /\ page.buttons = CrawlRequestButtons =>
    \A i, j \in DOMAIN records : records[i].of # None /\ records[i].of = records[j].of => i = j

\* The inductive invariant: what is disabled is what the visit under way disables; that visit is of
\* the record shown; and until something goes wrong each request but the first was made from the one
\* before it, and the last is the one shown.
Chain ==
  /\ \A i \in 1..Len(records) : records[i].of = IF i = 1 THEN None ELSE i - 1
  /\ shown # None => shown.id = Len(records)

Inductive ==
  /\ page \in Pages /\ records \in Seq(Row)
  /\ dialog \in page.buttons \cup {None} /\ upset \in BOOLEAN
  /\ shown # None => shown.id \in 1..Len(records)
  /\ visit # None => /\ visit \in [button : page.buttons, id : Nat]
                     /\ shown # None /\ visit.id = shown.id
  /\ busy = (IF visit = None THEN {} ELSE {visit.button.flag} \ {None})
  /\ ~upset /\ page.buttons = CrawlRequestButtons => Chain
=============================================================================
