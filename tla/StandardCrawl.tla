--------------------------- MODULE StandardCrawl ---------------------------
(***************************************************************************)
(* One crawl request of a git, llms.txt or OpenAPI source: the row in      *)
(* crawl_requests, the ProcessCrawlRequestJob rows in Solid Queue, the     *)
(* worker threads that run StandardCrawl#process, and administrators who   *)
(* cancel the request meanwhile.                                           *)
(*                                                                         *)
(* Every web or worker process holds its own copy of the record (the       *)
(* variable mem); the guards of CrawlRequest test that copy, and only      *)
(* begin_processing! reads the row again under its lock.  The queue lives  *)
(* in a second database: creating a request and enqueueing its job are     *)
(* two commits.                                                            *)
(***************************************************************************)
EXTENDS Naturals, FiniteSets

CONSTANTS
    Workers,        \* threads that run jobs of the default queue
    Admins,         \* cancellation requests an administrator may submit
    Jobs,           \* rows of solid_queue_jobs that may be created
    FirstJob,       \* the row the request's after_create_commit enqueues
    None,           \* no worker, no job
    FetchOutcomes,  \* subset of {"ok", "transient", "permanent"}
    MaxAttempts,    \* retry_on ... attempts: 3
    MaxFaults       \* bound: worker deaths, releases, prunings, job retries

ASSUME ConstantsAssumption ==
    /\ None \notin Workers \cup Jobs
    /\ FirstJob \in Jobs
    /\ FetchOutcomes \subseteq {"ok", "transient", "permanent"}
    /\ MaxAttempts \in Nat \ {0, 1}
    /\ MaxFaults \in Nat

VARIABLES
    status,     \* crawl_requests.status
    error,      \* crawl_requests.error_message is set
    imports,    \* how many imports of this request have committed
    lock,       \* the worker whose import transaction locks the row, or None
    created,    \* the enqueue that follows the commit of the INSERT is due
    jobs,       \* Job -> its row: state, transient failures so far, owner
    pc,         \* Worker -> where it is in StandardCrawl#process
    job,        \* Worker -> the job it runs
    mem,        \* Worker or Admin -> the status of its copy of the record
    apc,        \* Admin -> progress of the cancellation request
    faults      \* faults so far

vars == <<status, error, imports, lock, created, jobs, pc, job, mem, apc, faults>>
request == <<status, error, imports>>

Statuses == {"pending", "processing", "completed", "failed", "cancelled"}

Row(state, failures, owner) ==
    [state |-> state, failures |-> failures, owner |-> owner]

JobRow == [state: {"none", "ready", "claimed", "failed", "done"},
           failures: 0 .. MaxAttempts,
           owner: Workers \cup {None}]

PCs == {"idle", "begin", "fetch", "check", "import", "locked", "rescue", "rescued", "retry"}

TypeOK ==
    /\ status \in Statuses
    /\ error \in BOOLEAN
    /\ imports \in Nat
    /\ lock \in Workers \cup {None}
    /\ created \in BOOLEAN
    /\ jobs \in [Jobs -> JobRow]
    /\ pc \in [Workers -> PCs]
    /\ job \in [Workers -> Jobs \cup {None}]
    /\ mem \in [Workers \cup Admins -> Statuses]
    /\ apc \in [Admins -> {"idle", "loaded", "done"}]
    /\ faults \in 0 .. MaxFaults

Init ==
    /\ status = "pending"
    /\ error = FALSE
    /\ imports = 0
    /\ lock = None
    /\ created = TRUE
    /\ jobs = [j \in Jobs |-> Row("none", 0, None)]
    /\ pc = [w \in Workers |-> "idle"]
    /\ job = [w \in Workers |-> None]
    /\ mem = [p \in Workers \cup Admins |-> "pending"]
    /\ apc = [a \in Admins |-> "idle"]
    /\ faults = 0

-----------------------------------------------------------------------------
(* The row of the request.                                                 *)

\* terminal?
Terminal(s) == s \in {"completed", "failed", "cancelled"}

\* A statement that writes the row waits for the transaction that locks it.
RowFree(p) == lock \in {None, p}

\* pending?, on the row that with_lock has just read again.  The variants
\* with which the checks test their properties: the test on the copy the
\* job was loaded with, and a re-run that takes over a processing request.
StalePending(w) == mem[w] = "pending"
Reprocess(w) == ~Terminal(status)
MayBegin(w) == status = "pending"

\* mark_completed(library, source), after import! in the same transaction
MarkCompleted == /\ status' = "completed"
                 /\ error' = FALSE
                 /\ imports' = imports + 1

\* mark_failed(message)
MarkFailed == /\ status' = "failed"
              /\ error' = TRUE
              /\ UNCHANGED imports

-----------------------------------------------------------------------------
(* Worker w leaves its job; the row of the job becomes `state` if Solid    *)
(* Queue still counts it as w's.                                           *)

Leave(w, state) ==
    /\ pc' = [pc EXCEPT ![w] = "idle"]
    /\ job' = [job EXCEPT ![w] = None]
    /\ jobs' = IF jobs[job[w]].owner = w
               THEN [jobs EXCEPT ![job[w]] = Row(state, @.failures, None)]
               ELSE jobs

Goto(w, from, to) == /\ pc[w] = from
                     /\ pc' = [pc EXCEPT ![w] = to]
                     /\ UNCHANGED <<job, jobs>>

-----------------------------------------------------------------------------
(* Creating the request and its job.                                       *)

\* after_create_commit: ProcessCrawlRequestJob.perform_later(self)
EnqueueProcessing ==
    /\ created
    /\ created' = FALSE
    /\ jobs' = [jobs EXCEPT ![FirstJob] = Row("ready", @.failures, None)]
    /\ UNCHANGED <<request, lock, pc, job, mem, apc, faults>>

\* A worker claims a ready row and loads the request (GlobalID).
ClaimJob(w, j) ==
    /\ pc[w] = "idle"
    /\ jobs[j].state = "ready"
    /\ jobs' = [jobs EXCEPT ![j] = Row("claimed", @.failures, w)]
    /\ job' = [job EXCEPT ![w] = j]
    /\ pc' = [pc EXCEPT ![w] = "begin"]
    /\ mem' = [mem EXCEPT ![w] = status]
    /\ UNCHANGED <<request, lock, created, apc, faults>>

-----------------------------------------------------------------------------
(* StandardCrawl#process.                                                  *)

\* return unless crawl_request.begin_processing!
BeginProcessing(w) ==
    /\ pc[w] = "begin"
    /\ RowFree(w)
    /\ IF MayBegin(w)
       THEN /\ status' = "processing"
            /\ mem' = [mem EXCEPT ![w] = "processing"]
            /\ pc' = [pc EXCEPT ![w] = "fetch"]
            /\ UNCHANGED <<job, jobs>>
       ELSE /\ mem' = [mem EXCEPT ![w] = status]
            /\ Leave(w, "done")
            /\ UNCHANGED status
    /\ UNCHANGED <<error, imports, lock, created, apc, faults>>

\* DocsFetcher.for(...).fetch: it returns, or raises one of its two errors.
Fetch(w) ==
    /\ \/ "ok" \in FetchOutcomes /\ Goto(w, "fetch", "check")
       \/ "transient" \in FetchOutcomes /\ Goto(w, "fetch", "retry")
       \/ "permanent" \in FetchOutcomes /\ Goto(w, "fetch", "rescue")
    /\ UNCHANGED <<request, lock, created, mem, apc, faults>>

\* crawl_request.reload; return if crawl_request.cancelled?  (The variant
\* forgets the reload.)
StaleCancelled(w) == mem[w] = "cancelled"
SeesCancelled(w) == status = "cancelled"

CheckCancelled(w) ==
    /\ pc[w] = "check"
    /\ mem' = [mem EXCEPT ![w] = status]
    /\ IF SeesCancelled(w)
       THEN Leave(w, "done")
       ELSE Goto(w, "check", "import")
    /\ UNCHANGED <<request, lock, created, apc, faults>>

\* The import's first update_progress inside the transaction locks the row.
\* (An import whose last page is skipped may write none.)
ImportLocksRow(w) ==
    /\ Goto(w, "import", "locked")
    /\ RowFree(w)
    /\ lock' = w
    /\ UNCHANGED <<request, created, mem, apc, faults>>

\* The transaction commits the import and mark_completed together.
ImportCommit(w) ==
    /\ pc[w] \in {"import", "locked"}
    /\ RowFree(w)
    /\ mem[w] = "processing"
    /\ MarkCompleted
    /\ mem' = [mem EXCEPT ![w] = "completed"]
    /\ lock' = None
    /\ Leave(w, "done")
    /\ UNCHANGED <<created, apc, faults>>

\* import! raises, or mark_completed does ("Cannot complete from"): rollback.
ImportError(w) ==
    /\ pc[w] \in {"import", "locked"}
    /\ pc' = [pc EXCEPT ![w] = "rescue"]
    /\ lock' = IF lock = w THEN None ELSE lock
    /\ UNCHANGED <<request, created, jobs, job, mem, apc, faults>>

\* rescue StandardError: reload, then mark_failed unless terminal?; raise
FailsPendingOnly(s) == s = "pending"
MustFail(s) == ~Terminal(s)

RescueReload(w) ==
    /\ pc[w] = "rescue"
    /\ mem' = [mem EXCEPT ![w] = status]
    /\ IF MustFail(status)
       THEN Goto(w, "rescue", "rescued")
       ELSE Leave(w, "failed")
    /\ UNCHANGED <<request, lock, created, apc, faults>>

RescueFail(w) ==
    /\ pc[w] = "rescued"
    /\ RowFree(w)
    /\ MarkFailed
    /\ mem' = [mem EXCEPT ![w] = "failed"]
    /\ Leave(w, "failed")
    /\ UNCHANGED <<lock, created, apc, faults>>

-----------------------------------------------------------------------------
(* retry_on TransientFetchError: the job is enqueued again, as a new row,  *)
(* until it has failed MaxAttempts times; then the block fails the request.*)

EnqueueRetry(w, j, failures) ==
    /\ jobs[j].state = "none"
    /\ pc' = [pc EXCEPT ![w] = "idle"]
    /\ job' = [job EXCEPT ![w] = None]
    /\ jobs' = [i \in Jobs |->
                  IF i = j
                  THEN Row("ready", failures, None)
                  ELSE IF i = job[w] /\ jobs[i].owner = w
                       THEN Row("done", jobs[i].failures, None)
                       ELSE jobs[i]]

RetryOrFail(w) ==
    LET failures == jobs[job[w]].failures + 1
    IN  /\ pc[w] = "retry"
        /\ IF failures < MaxAttempts
           THEN /\ \E j \in Jobs : EnqueueRetry(w, j, failures)
                /\ UNCHANGED <<request, mem>>
           ELSE /\ RowFree(w)
                /\ IF Terminal(mem[w])
                   THEN /\ Leave(w, "failed")
                        /\ UNCHANGED <<request, mem>>
                   ELSE /\ MarkFailed
                        /\ mem' = [mem EXCEPT ![w] = "failed"]
                        /\ Leave(w, "done")
        /\ UNCHANGED <<lock, created, apc, faults>>

-----------------------------------------------------------------------------
(* Admin::CrawlRequests::CancellationsController#create: the request is    *)
(* loaded, terminal? tests the copy, update! writes the row.               *)

LoadForCancel(a) ==
    /\ apc[a] = "idle"
    /\ apc' = [apc EXCEPT ![a] = IF Terminal(status) THEN "done" ELSE "loaded"]
    /\ mem' = [mem EXCEPT ![a] = status]
    /\ UNCHANGED <<request, lock, created, jobs, pc, job, faults>>

MarkCancelled(a) ==
    /\ apc[a] = "loaded"
    /\ RowFree(a)
    /\ status' = "cancelled"
    /\ apc' = [apc EXCEPT ![a] = "done"]
    /\ mem' = [mem EXCEPT ![a] = "cancelled"]
    /\ UNCHANGED <<error, imports, lock, created, jobs, pc, job, faults>>

-----------------------------------------------------------------------------
(* Faults.  The queue never runs a failed row again by itself; an          *)
(* administrator may, from the Mission Control page mounted at /admin/jobs.*)

\* The web process dies between the commit and the enqueue.
WebProcessDies ==
    /\ created
    /\ faults < MaxFaults
    /\ created' = FALSE
    /\ faults' = faults + 1
    /\ UNCHANGED <<request, lock, jobs, pc, job, mem, apc>>

\* The worker is killed (row "failed") or shut down before the job ended
\* (row released to "ready"); its transaction, if any, rolls back.
WorkerStops(w, state) ==
    /\ pc[w] # "idle"
    /\ faults < MaxFaults
    /\ faults' = faults + 1
    /\ lock' = IF lock = w THEN None ELSE lock
    /\ Leave(w, state)
    /\ UNCHANGED <<request, created, mem, apc>>

\* The heartbeat of a live worker is late: its claim is failed, it runs on.
PruneWorker(w) ==
    /\ pc[w] # "idle"
    /\ jobs[job[w]].owner = w
    /\ faults < MaxFaults
    /\ faults' = faults + 1
    /\ jobs' = [jobs EXCEPT ![job[w]] = Row("failed", @.failures, None)]
    /\ UNCHANGED <<request, lock, created, pc, job, mem, apc>>

RetryFailedJob(j) ==
    /\ jobs[j].state = "failed"
    /\ faults < MaxFaults
    /\ faults' = faults + 1
    /\ jobs' = [jobs EXCEPT ![j] = Row("ready", 0, None)]
    /\ UNCHANGED <<request, lock, created, pc, job, mem, apc>>

-----------------------------------------------------------------------------
Work(w) ==
    \/ \E j \in Jobs : ClaimJob(w, j)
    \/ BeginProcessing(w)
    \/ Fetch(w)
    \/ CheckCancelled(w)
    \/ ImportLocksRow(w)
    \/ ImportCommit(w)
    \/ ImportError(w)
    \/ RescueReload(w)
    \/ RescueFail(w)
    \/ RetryOrFail(w)

Next ==
    \/ EnqueueProcessing
    \/ \E w \in Workers : Work(w)
    \/ \E a \in Admins : LoadForCancel(a) \/ MarkCancelled(a)
    \/ WebProcessDies
    \/ \E w \in Workers : \E state \in {"failed", "ready"} : WorkerStops(w, state)
    \/ \E w \in Workers : PruneWorker(w)
    \/ \E j \in Jobs : RetryFailedJob(j)

Spec == Init /\ [][Next]_vars

\* Solid Queue's pollers and threads keep running; nothing obliges an
\* administrator or a fault.
Fairness == WF_vars(EnqueueProcessing) /\ \A w \in Workers : WF_vars(Work(w))

FairSpec == Spec /\ Fairness

-----------------------------------------------------------------------------
(* Properties.                                                             *)

\* The request is in w's hands: begin_processing! has returned true to it.
Processes(w) == pc[w] \notin {"idle", "begin"}

\* Whatever the queue delivers twice (a released job, a pruned worker that
\* runs on, a failed job retried by hand), at most one worker at a time is
\* past begin_processing!: documentation is fetched and imported by one.
OneProcessor == \A v, w \in Workers : Processes(v) /\ Processes(w) => v = w

\* What the pipeline decided, as the row tells it: an import sets library
\* and clears error_message, a failure sets error_message, and a later
\* cancellation leaves both alone.
Outcome == IF imports > 0 THEN "imported" ELSE IF error THEN "failed" ELSE "none"

Lifecycle == INSTANCE RequestLifecycle WITH outcome <- Outcome

\* The request's row lives the life RequestLifecycle promises: one start,
\* one decision, import and "completed" together.
LifecycleSpec == Lifecycle!Spec

\* Worker w may still write a decision without looking at the row again:
\* it is past the reload that would have shown it a cancellation.
Undecided(w) == pc[w] \in {"import", "locked", "rescued"}

CancelledForGood == status = "cancelled" /\ \A w \in Workers : ~Undecided(w)

\* A cancellation written before the worker's reload (StandardCrawl#process,
\* after the fetch or in its rescue) is final: no import, no failure and no
\* job that is run again ever overwrites it.
CancellationSticks == [][CancelledForGood => CancelledForGood' /\ imports' = imports]_vars

\* A request is left "processing" with nobody to finish it only by the retry
\* of a transient failure or by a fault: every other way out of
\* StandardCrawl#process leaves the row terminal.
StrandedOnlyByRetryOrFault ==
    status = "processing" =>
        \/ \E w \in Workers : Processes(w)
        \/ \E j \in Jobs : jobs[j].failures > 0
        \/ faults > 0

\* Unless a transient failure is retried or a fault occurs, every request is
\* settled for good.
Untroubled == faults = 0 /\ \A j \in Jobs : jobs[j].failures = 0
Settles == []Untroubled => <>[]Terminal(status)

-----------------------------------------------------------------------------
(* Two statements of the repository the code does not keep.                *)

\* process_crawl_request_job.rb:8: "Transient errors (DNS, timeout, 5xx, rate
\* limits) get retried."  A failed fetch is fetched again, or the request
\* settled.  (The retry finds the request "processing" and returns.)
TransientErrorIsRetried ==
    \A w \in Workers :
        pc[w] = "retry" ~> (\E v \in Workers : pc[v] = "fetch") \/ Terminal(status)

\* crawl_request.rb:28, 43 and 49: "Cannot cancel from", "Cannot complete
\* from", "Cannot fail from" a terminal status.  (The guards test a copy.)
TerminalIsFinal == [][Terminal(status) => status' = status]_vars
=============================================================================
