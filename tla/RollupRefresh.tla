--------------------------- MODULE RollupRefresh ---------------------------
(***************************************************************************)
(* The coalesced refresh of one hourly rollup of one site: requests that   *)
(* stand for events to be counted (Analytics::AhoyStore, refresh_later),   *)
(* the row of analytics_rollup_refresh_states, the refresh jobs that       *)
(* RollupRefreshCoordinator#perform runs under an advisory lock, and the   *)
(* nightly clean-up of finished rows.                                      *)
(*                                                                         *)
(* A job does all its work in one transaction (RollupRefreshLock), at the  *)
(* isolation level "read committed": it sees what others have committed    *)
(* and its own writes (tx); its first write locks the row.  A request is   *)
(* three statements, each a transaction of its own.                        *)
(***************************************************************************)
EXTENDS Naturals

CONSTANTS
    Requests,   \* calls of refresh_later, one for each event stored
    MaxFaults   \* bound on deaths, errors and expired claims together

ASSUME ConstantsAssumption == MaxFaults \in Nat

VARIABLES
    step,       \* Request -> how far it came
    request,    \* request_version; 0: there is no row
    processed,  \* processed_version
    marker,     \* enqueued_at: "null", "fresh", or "stale" (older than claim_ttl)
    rollup,     \* the events that the rollup's rows count
    queued,     \* refresh jobs in the queue
    owed,       \* jobs that a committed claim is still to enqueue
    pc,         \* where the job that has the advisory lock is; "idle": none has it
    version,    \* the request_version that it read
    tx,         \* its uncommitted writes
    faults

row == <<request, processed, marker>>
job == <<pc, version, tx>>
vars == <<step, row, rollup, queued, owed, job, faults>>

Tx == [locked: BOOLEAN, processed: Nat, marker: {"null", "fresh", "stale"},
       rollup: SUBSET Requests, owes: BOOLEAN]

TypeOK ==
    /\ step \in [Requests -> {"new", "stored", "marked", "done", "lost"}]
    /\ request \in Nat
    /\ processed \in Nat
    /\ marker \in {"null", "fresh", "stale"}
    /\ rollup \subseteq Requests
    /\ queued \in Nat
    /\ owed \in Nat
    /\ pc \in {"idle", "look", "refresh", "mark", "clear", "again", "commit"}
    /\ version \in Nat
    /\ tx \in Tx
    /\ faults \in 0 .. MaxFaults

NoWrites == [locked |-> FALSE, processed |-> 0, marker |-> "null", rollup |-> {}, owes |-> FALSE]

Init ==
    /\ step = [r \in Requests |-> "new"]
    /\ request = 0 /\ processed = 0 /\ marker = "null"
    /\ rollup = {}
    /\ queued = 0 /\ owed = 0
    /\ pc = "idle" /\ version = 0 /\ tx = NoWrites
    /\ faults = 0

Fault == faults < MaxFaults /\ faults' = faults + 1

\* A statement that writes the row waits for the transaction that locks it.
RowFree == ~tx.locked

\* The events of the bucket that are stored: what refresh_bucket! counts.
Events == {r \in Requests : step[r] # "new"}

Pending == request > processed

-----------------------------------------------------------------------------
(* enqueue.                                                                *)

Advance(r, from, to) == step[r] = from /\ step' = [step EXCEPT ![r] = to]

\* append_event commits the event; then refresh_later is called.
Store(r) ==
    /\ Advance(r, "new", "stored")
    /\ UNCHANGED <<row, rollup, queued, owed, job, faults>>

\* mark_requested!: count the request, or create the row.
MarkRequested(r) ==
    /\ Advance(r, "stored", "marked")
    /\ RowFree
    /\ request' = request + 1
    /\ UNCHANGED <<processed, marker, rollup, queued, owed, job, faults>>

\* The WHERE clause of try_enqueue!.
Claimable(done, mark) == request > done /\ mark \in {"null", "stale"}

\* try_enqueue!, which the enqueue follows.
TryEnqueue(r) ==
    /\ Advance(r, "marked", "done")
    /\ RowFree
    /\ Claimable(processed, marker)
    /\ marker' = "fresh"
    /\ owed' = owed + 1
    /\ UNCHANGED <<request, processed, rollup, queued, job, faults>>

\* An UPDATE that matches no committed row returns at once, locked or not.

AlreadyEnqueued(r) ==
    /\ Advance(r, "marked", "done")
    /\ ~Claimable(processed, marker)
    /\ UNCHANGED <<row, rollup, queued, owed, job, faults>>

\* enqueue_job.call: a statement in the queue's database.
EnqueueJob ==
    /\ owed > 0
    /\ owed' = owed - 1
    /\ queued' = queued + 1
    /\ UNCHANGED <<step, row, rollup, job, faults>>

-----------------------------------------------------------------------------
(* perform.                                                                *)

\* The advisory lock is free: pg_try_advisory_xact_lock returns true.
JobStarts ==
    /\ queued > 0
    /\ pc = "idle"
    /\ queued' = queued - 1
    /\ pc' = "look"
    /\ tx' = [NoWrites EXCEPT !.rollup = rollup]
    /\ UNCHANGED <<step, row, rollup, owed, version, faults>>

\* Another job has it: this one ends without having done anything.
JobFindsLockTaken ==
    /\ queued > 0
    /\ pc # "idle"
    /\ queued' = queued - 1
    /\ UNCHANGED <<step, row, rollup, owed, job, faults>>

\* What the job's transaction sees of the row.
SeenProcessed == IF tx.locked THEN tx.processed ELSE processed
SeenMarker == IF tx.locked THEN tx.marker ELSE marker

Write(done, mark, owes) ==
    tx' = [tx EXCEPT !.locked = TRUE, !.processed = done, !.marker = mark, !.owes = owes]

\* pending_request_version
Look ==
    /\ pc = "look"
    /\ IF request > SeenProcessed
       THEN version' = request /\ pc' = "refresh"
       ELSE pc' = "clear" /\ UNCHANGED version
    /\ UNCHANGED <<step, row, rollup, queued, owed, tx, faults>>

\* refresher.call: count the bucket's events anew, replace the rollup's rows.
Refresh ==
    /\ pc = "refresh"
    /\ tx' = [tx EXCEPT !.rollup = Events]
    /\ pc' = "mark"
    /\ UNCHANGED <<step, row, rollup, queued, owed, version, faults>>

\* What mark_processed! is given.  The variant reads it again after the refresh.
LatestVersion == request
VersionRefreshed == version

MarkProcessed ==
    /\ pc = "mark"
    /\ IF request > 0 /\ SeenProcessed < VersionRefreshed
       THEN Write(VersionRefreshed, SeenMarker, FALSE)
       ELSE UNCHANGED tx
    /\ pc' = "look"
    /\ UNCHANGED <<step, row, rollup, queued, owed, version, faults>>

\* clear_enqueue!  The variant leaves the claim standing.
Kept(mark) == mark
Cleared(mark) == "null"

ClearEnqueue ==
    /\ pc = "clear"
    /\ IF SeenMarker # "null"
       THEN Write(SeenProcessed, Cleared(SeenMarker), FALSE)
       ELSE UNCHANGED tx
    /\ pc' = "again"
    /\ UNCHANGED <<step, row, rollup, queued, owed, version, faults>>

\* pending? && try_enqueue!: perform_later waits for the commit (jobs are set to
\* enqueue_after_transaction_commit).
EnqueueAgain ==
    /\ pc = "again"
    /\ IF Claimable(SeenProcessed, SeenMarker)
       THEN Write(SeenProcessed, "fresh", TRUE)
       ELSE UNCHANGED tx
    /\ pc' = "commit"
    /\ UNCHANGED <<step, row, rollup, queued, owed, version, faults>>

\* The end of the transaction, and of the advisory lock.
Commit ==
    /\ pc = "commit"
    /\ processed' = SeenProcessed
    /\ marker' = SeenMarker
    /\ rollup' = tx.rollup
    /\ owed' = IF tx.owes THEN owed + 1 ELSE owed
    /\ pc' = "idle"
    /\ tx' = NoWrites
    /\ UNCHANGED <<step, request, queued, version, faults>>

\* cleanup_processed_before!: delete a row with nothing pending, days after
\* it was processed.
Finished == request > 0 /\ request <= processed

Cleanup ==
    /\ RowFree
    /\ Finished
    /\ request' = 0 /\ processed' = 0 /\ marker' = "null"
    /\ UNCHANGED <<step, rollup, queued, owed, job, faults>>

-----------------------------------------------------------------------------
(* Faults.                                                                 *)

\* The process that handles a request dies between two of its statements.
RequestDies(r) ==
    /\ Fault
    /\ Advance(r, "stored", "lost") \/ Advance(r, "marked", "done")
    /\ UNCHANGED <<row, rollup, queued, owed, job>>

\* The refresher raises, or the worker is killed: the transaction rolls back,
\* and with it whatever the ensure clause wrote; what it enqueued was deferred
\* to a commit that does not come.
JobFails ==
    /\ Fault
    /\ pc # "idle"
    /\ pc' = "idle"
    /\ tx' = NoWrites
    /\ UNCHANGED <<step, row, rollup, queued, owed, version>>

\* The web process or the worker dies between the claim and the enqueue.
OwedJobIsLost ==
    /\ Fault
    /\ owed > 0
    /\ owed' = owed - 1
    /\ UNCHANGED <<step, row, rollup, queued, job>>

\* claim_ttl passes before the job that was enqueued is done.
ClaimExpires ==
    /\ Fault
    /\ marker = "fresh"
    /\ marker' = "stale"
    /\ UNCHANGED <<step, request, processed, rollup, queued, owed, job>>

-----------------------------------------------------------------------------
Enqueue(r) == MarkRequested(r) \/ TryEnqueue(r) \/ AlreadyEnqueued(r)

Perform ==
    \/ JobStarts \/ JobFindsLockTaken
    \/ Look \/ Refresh \/ MarkProcessed \/ ClearEnqueue \/ EnqueueAgain \/ Commit

Next ==
    \/ \E r \in Requests : Store(r) \/ Enqueue(r) \/ RequestDies(r)
    \/ EnqueueJob
    \/ Perform
    \/ Cleanup
    \/ JobFails \/ OwedJobIsLost \/ ClaimExpires

Spec == Init /\ [][Next]_vars

\* The queue's workers run every job, and a request goes through refresh_later.
Fairness ==
    /\ WF_vars(EnqueueJob) /\ WF_vars(Perform)
    /\ \A r \in Requests : WF_vars(Enqueue(r))

FairSpec == Spec /\ Fairness

-----------------------------------------------------------------------------
(* Properties.                                                             *)

Requested == {r \in Requests : step[r] \in {"marked", "done"}}

\* processed_version is reached only by counting: when nothing is pending, the
\* rollup counts every event whose refresh was requested, whatever failed or
\* expired, and whenever the clean-up ran.  (A request that arrives while the
\* bucket is counted must stay pending.)
ProcessedIsCounted == ~Pending => Requested \subseteq rollup

\* A recreated row never starts behind a processed_version that swallows its
\* first requests.
ProcessedWithinRequested == processed <= request

\* As long as no claim expired and nothing failed, requests are coalesced: one
\* job at a time is on its way or at work, however many requests there are.
Jobs == queued + owed + (IF pc = "idle" THEN 0 ELSE 1)

Coalesced == faults = 0 => Jobs <= 1

\* No lost wake-up: under the same condition, a pending request is about to try
\* to enqueue a job, or there is a job that is yet to look at the row, or that
\* will commit what takes the request off the list or enqueues another job.
NoLostWakeup ==
    faults = 0 /\ Pending =>
        \/ \E r \in Requests : step[r] = "marked"
        \/ queued + owed > 0
        \/ pc # "idle" /\ (pc = "commit" => tx.owes \/ request <= SeenProcessed)

\* So without faults the rollup catches up with the events stored, for good.
CatchesUp == [](faults = 0) => <>[](Events \subseteq rollup)
=============================================================================
