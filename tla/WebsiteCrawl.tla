---------------------------- MODULE WebsiteCrawl ----------------------------
(***************************************************************************)
(* One crawl request of a website: the rows in crawl_requests,             *)
(* website_crawls, website_crawl_urls and website_crawl_pages, the         *)
(* ProcessCrawlRequestJob that starts the crawl, the resumable             *)
(* ProcessWebsiteCrawlJob that runs it, and administrators who cancel.     *)
(*                                                                         *)
(* The queue crawl_website has one process with one thread                 *)
(* (config/queue.yml), so one execution of the job runs at a time.  It may *)
(* be interrupted at a checkpoint, fail and be enqueued again, be killed,  *)
(* or be released and run again from the steps saved at its last enqueue.  *)
(***************************************************************************)
EXTENDS Naturals, Sequences, FiniteSets

CONSTANTS
    Urls,           \* normalized URLs of the site
    Seed,           \* the URL of the request
    Links,          \* Url -> its distinct links, in page order
    Limit,          \* metadata["website_max_pages"]; 0 is no limit
    RequestedRunner,\* "auto", "ruby" or "node"
    NodeReady,      \* the browser runner is installed
    Snapshots,      \* what a fetch may yield: subset of SnapshotKinds
    Admins,         \* cancellation requests an administrator may submit
    MaxAttempts,    \* retry_on ... attempts: 3
    MaxFaults       \* bound: deaths, releases and retries by hand

SnapshotKinds == {"page", "links", "nothing", "shell", "transient", "permanent"}

ASSUME ConstantsAssumption ==
    /\ Seed \in Urls
    /\ Links \in [Urls -> Seq(Urls)]
    /\ \A u \in Urls : \A i, j \in DOMAIN Links[u] : Links[u][i] = Links[u][j] => i = j
    /\ Limit \in Nat
    /\ RequestedRunner \in {"auto", "ruby", "node"}
    /\ NodeReady \in BOOLEAN
    /\ Snapshots \subseteq SnapshotKinds
    /\ MaxAttempts \in Nat \ {0}
    /\ MaxFaults \in Nat

VARIABLES
    status, error, imports, \* crawl_requests: status, error_message, imports
    lock,       \* the import transaction of the job holds the request's row
    apc,        \* Admin -> progress of the cancellation request
    dispatch,   \* progress of ProcessCrawlRequestJob
    crawl,      \* website_crawls.status, "none" before the row exists
    runner,     \* website_crawls.runner
    state,      \* Url -> website_crawl_urls.status, "unknown" without a row
    id,         \* Url -> website_crawl_urls.id, 0 without a row
    pages,      \* the URLs with a row in website_crawl_pages
    discovered, \* website_crawls.discovered_urls_count
    processed,  \* website_crawls.processed_urls_count
    queue,      \* the job's row: state, steps completed when enqueued, failures
    pc,         \* where the running execution is
    done,       \* steps the execution knows completed: prepare, fetch, publish, cleanup
    advanced,   \* Continuation#advanced?: this execution made progress
    mem,        \* the request's status at the reload its next write relies on
    url,        \* the URL being visited, and what fetching it yielded
    fresh,      \* rows inserted that discovered_urls_count does not count yet
    faults      \* faults so far

request == <<status, error, imports>>
frontier == <<state, id, pages, discovered, processed>>
execution == <<done, advanced, mem, url, fresh>>
vars == <<request, lock, apc, dispatch, crawl, runner, frontier, queue, pc, execution, faults>>

Statuses == {"pending", "processing", "completed", "failed", "cancelled"}
Terminal(s) == s \in {"completed", "failed", "cancelled"}

PCs == {"idle", "start", "prepare", "begin", "sync", "fetch", "seed", "seeded", "loop",
        "visit", "insert", "count", "store", "mark", "tally", "set", "publish", "import",
        "locked", "cleanup", "delete", "transient", "retry", "error", "failing", "failed", "giveup", "givingup", "gaveup"}

JobRow == [state: {"none", "ready", "running", "failed", "done"},
           done: 0 .. 3, failures: 0 .. MaxAttempts]
Visits == [at: Urls, got: SnapshotKinds]

TypeOK ==
    /\ status \in Statuses
    /\ error \in BOOLEAN
    /\ imports \in 0 .. 1
    /\ lock \in BOOLEAN
    /\ apc \in [Admins -> {"idle", "loaded", "done"}]
    /\ dispatch \in {"queued", "loaded", "created", "over"}
    /\ crawl \in Statuses \cup {"none"}
    /\ runner \in {"auto", "ruby", "node"}
    /\ state \in [Urls -> {"unknown", "pending", "fetched", "skipped"}]
    /\ id \in [Urls -> Nat]
    /\ pages \subseteq Urls
    /\ discovered \in Nat
    /\ processed \in Nat
    /\ queue \in JobRow
    /\ pc \in PCs
    /\ done \in 0 .. 3
    /\ advanced \in BOOLEAN
    /\ mem \in Statuses
    /\ url \in Visits
    /\ fresh \in Nat
    /\ faults \in 0 .. MaxFaults

Init ==
    /\ status = "pending" /\ error = FALSE /\ imports = 0
    /\ lock = FALSE
    /\ apc = [a \in Admins |-> "idle"]
    /\ dispatch = "queued"
    /\ crawl = "none" /\ runner = RequestedRunner
    /\ state = [u \in Urls |-> "unknown"] /\ id = [u \in Urls |-> 0] /\ pages = {}
    /\ discovered = 0 /\ processed = 0
    /\ queue = [state |-> "none", done |-> 0, failures |-> 0]
    /\ pc = "idle" /\ done = 0 /\ advanced = FALSE /\ mem = "pending"
    /\ url = [at |-> Seed, got |-> "nothing"] /\ fresh = 0
    /\ faults = 0

-----------------------------------------------------------------------------
(* ProcessCrawlRequestJob: CrawlPipeline::Website#dispatch!, then          *)
(* WebsiteCrawl.start!, whose create! and enqueue are two commits.         *)

DispatchLoad ==
    /\ dispatch = "queued"
    /\ dispatch' = IF status = "pending" THEN "loaded" ELSE "over"
    /\ UNCHANGED <<request, lock, apc, crawl, runner, frontier, queue, pc, execution, faults>>

StartCrawl ==
    /\ dispatch = "loaded"
    /\ dispatch' = "created"
    /\ crawl' = "pending"
    /\ UNCHANGED <<request, lock, apc, runner, frontier, queue, pc, execution, faults>>

EnqueueProcessing ==
    /\ dispatch = "created"
    /\ dispatch' = "over"
    /\ queue' = [queue EXCEPT !.state = "ready"]
    /\ UNCHANGED <<request, lock, apc, crawl, runner, frontier, pc, execution, faults>>

-----------------------------------------------------------------------------
(* How an execution moves on, ends, or goes back to the queue, carrying    *)
(* the steps that it completed.                                            *)

Goto(from, to) == pc = from /\ pc' = to

EndJob(rowState) ==
    /\ pc' = "idle"
    /\ queue' = [queue EXCEPT !.state = rowState]

Requeue(failures) ==
    /\ pc' = "idle"
    /\ queue' = [state |-> "ready", done |-> done, failures |-> failures]

\* A step of the job ends: it is completed and the job has advanced.
CompleteStep(n, to) ==
    /\ pc' = to
    /\ done' = n
    /\ advanced' = TRUE

\* Continuable stops at a checkpoint (before a step when the job has
\* advanced, and at step.set!) if the worker is shutting down.
Interrupt ==
    /\ pc = "set" \/ (advanced /\ pc \in {"fetch", "publish", "cleanup"})
    /\ Requeue(queue.failures)
    /\ UNCHANGED <<request, lock, apc, dispatch, crawl, runner, frontier, execution, faults>>

\* sync_request_terminal_state!: what the crawl becomes after reading s.
\* The variant overlooks a cancellation.
SyncedUncancelled(s) ==
    CASE s = "failed" /\ crawl # "completed" -> "failed"
      [] s = "completed" -> "completed"
      [] OTHER -> crawl
Synced(s) ==
    CASE s = "cancelled" -> IF crawl = "completed" THEN crawl ELSE "cancelled"
      [] s = "failed"    -> IF crawl = "completed" THEN crawl ELSE "failed"
      [] s = "completed" -> "completed"
      [] OTHER           -> crawl

-----------------------------------------------------------------------------
(* ProcessWebsiteCrawlJob#perform.                                         *)

ClaimJob ==
    /\ queue.state = "ready" /\ pc = "idle"
    /\ queue' = [queue EXCEPT !.state = "running"]
    /\ pc' = "start" /\ done' = queue.done /\ advanced' = FALSE
    /\ UNCHANGED <<request, lock, apc, dispatch, crawl, runner, frontier, mem, url, fresh, faults>>

\* resume_processing! if continuation.started?; return if terminal?
Resumes == done > 0 /\ crawl = "pending" /\ status = "processing"

\* The first step not completed.  The variant passes over the one that was
\* interrupted.
NextStepPc == CASE done = 0 -> "prepare" [] done = 1 -> "publish" [] OTHER -> "cleanup"
StepPc == CASE done = 0 -> "prepare" [] done = 1 -> "fetch"
            [] done = 2 -> "publish" [] OTHER -> "cleanup"

Perform ==
    /\ pc = "start"
    /\ crawl' = IF Resumes THEN "processing" ELSE crawl
    /\ IF Terminal(crawl)
       THEN EndJob("done")
       ELSE pc' = StepPc /\ UNCHANGED queue
    /\ UNCHANGED <<request, lock, apc, dispatch, runner, frontier, execution, faults>>

\* prepare!: under the crawl's lock, refuse a crawl that is not waiting.
MayPrepare == ~Terminal(crawl) /\ crawl # "processing"

Prepare ==
    /\ pc = "prepare"
    /\ IF MayPrepare
       THEN crawl' = "processing" /\ pc' = "begin" /\ UNCHANGED queue
       ELSE EndJob("done") /\ UNCHANGED crawl
    /\ UNCHANGED <<request, lock, apc, dispatch, runner, frontier, execution, faults>>

\* crawl_request.begin_processing!, under the lock of its row.
BeginProcessing ==
    /\ pc = "begin"
    /\ IF status = "pending"
       THEN status' = "processing" /\ pc' = "seed"
       ELSE pc' = "sync" /\ UNCHANGED status
    /\ UNCHANGED <<error, imports, lock, apc, dispatch, crawl, runner, frontier, queue, execution, faults>>

\* ... or sync_request_terminal_state! and `return crawl_request.processing?`
PrepareSync ==
    /\ pc = "sync"
    /\ crawl' = Synced(status)
    /\ IF status = "processing"
       THEN CompleteStep(1, "fetch") /\ UNCHANGED queue
       ELSE EndJob("done") /\ UNCHANGED <<done, advanced>>
    /\ UNCHANGED <<request, lock, apc, dispatch, runner, frontier, mem, url, fresh, faults>>

-----------------------------------------------------------------------------
(* fetch_pending!                                                          *)

Limited == Limit > 0
Capacity == IF discovered < Limit THEN Limit - discovered ELSE 0

HasRow(u) == state[u] # "unknown"
Rows == {u \in Urls : HasRow(u)}

\* The rows upsert_urls! inserts for `links`: of the first Capacity links,
\* those that have no row.  The variant forgets to look at the capacity.
RowsUncapped(links) == {links[i] : i \in DOMAIN links} \ Rows
RowsFor(links) == {links[i] : i \in {n \in DOMAIN links : Limited => n <= Capacity}} \ Rows

\* INSERT ... ON CONFLICT DO NOTHING, in the order of the links: u is the
\* n-th of the new rows.
Rank(u, links, new) ==
    Cardinality({v \in new : \E i, j \in DOMAIN links : i <= j /\ links[i] = v /\ links[j] = u})

Insert(links) ==
    LET new == RowsFor(links)
    IN  /\ state' = [u \in Urls |-> IF u \in new THEN "pending" ELSE state[u]]
        /\ id' = [u \in Urls |->
                    IF u \in new THEN Cardinality(Rows) + Rank(u, links, new) ELSE id[u]]
        /\ fresh' = Cardinality(new)

\* ensure_seed_url!, at the end of prepare! and again before the loop
SeedUrl ==
    /\ Goto("seed", "seeded")
    /\ Insert(<<Seed>>)
    /\ UNCHANGED <<request, lock, apc, dispatch, crawl, runner, pages, discovered, processed,
                   queue, done, advanced, mem, url, faults>>

CountSeed ==
    /\ pc = "seeded"
    /\ discovered' = discovered + fresh
    /\ fresh' = 0
    /\ IF done = 0 THEN CompleteStep(1, "fetch") ELSE pc' = "loop" /\ UNCHANGED <<done, advanced>>
    /\ UNCHANGED <<request, lock, apc, dispatch, crawl, runner, state, id, pages, processed,
                   queue, mem, url, faults>>

\* return if terminal?
FetchStart ==
    /\ pc = "fetch"
    /\ IF Terminal(crawl)
       THEN CompleteStep(2, "publish")
       ELSE pc' = "seed" /\ UNCHANGED <<done, advanced>>
    /\ UNCHANGED <<request, lock, apc, dispatch, crawl, runner, frontier, queue, mem, url, fresh, faults>>

LimitReached == Limited /\ processed >= Limit

\* crawl_urls.pending.order(:id).first.  The variant forgets the scope.
AnyUrls == Rows
PendingUrls == {u \in Urls : state[u] = "pending"}
First(urls) == CHOOSE u \in urls : \A v \in urls : id[u] <= id[v]

\* One round of the loop: sync, then stop or take the next URL.
FetchNext ==
    /\ pc = "loop"
    /\ crawl' = Synced(status)
    /\ IF Terminal(crawl')
       THEN CompleteStep(2, "publish") /\ UNCHANGED url
       ELSE IF LimitReached \/ PendingUrls = {}
            THEN IF pages = {}
                 THEN pc' = "error" /\ UNCHANGED <<done, advanced, url>>
                 ELSE CompleteStep(2, "publish") /\ UNCHANGED url
            ELSE /\ pc' = "visit"
                 /\ url' = [url EXCEPT !.at = First(PendingUrls)]
                 /\ UNCHANGED <<done, advanced>>
    /\ UNCHANGED <<request, lock, apc, dispatch, runner, frontier, queue, mem, fresh, faults>>

\* should_promote_to_node?: the first page of an automatic crawl has no
\* content, or looks like a shell that scripts fill in.
PromotesToNode(kind) ==
    /\ runner = "auto" /\ pages = {} /\ NodeReady
    /\ kind \in {"links", "nothing", "shell"}

\* The runner fetches the URL: it raises, or process_snapshot! goes on.
Visit(kind) ==
    /\ pc = "visit"
    /\ url' = [url EXCEPT !.got = kind]
    /\ CASE kind = "transient" -> pc' = "transient" /\ UNCHANGED runner
         [] kind = "permanent" -> pc' = "error" /\ UNCHANGED runner
         [] PromotesToNode(kind) -> runner' = "node" /\ pc' = "set"
         [] OTHER -> pc' = "insert" /\ UNCHANGED runner
    /\ UNCHANGED <<request, lock, apc, dispatch, crawl, frontier, queue, done, advanced, mem, fresh, faults>>

\* process_snapshot!, one statement of the database after the other; an
\* execution that dies between two of them leaves the rows half written.
SnapshotLinks == IF url.got = "nothing" THEN <<>> ELSE Links[url.at]
HasPage == url.got \in {"page", "shell"}

InsertLinks ==
    /\ Goto("insert", "count")
    /\ Insert(SnapshotLinks)
    /\ UNCHANGED <<request, lock, apc, dispatch, crawl, runner, pages, discovered, processed,
                   queue, done, advanced, mem, url, faults>>

CountLinks ==
    /\ Goto("count", IF HasPage THEN "store" ELSE "mark")
    /\ discovered' = discovered + fresh
    /\ fresh' = 0
    /\ UNCHANGED <<request, lock, apc, dispatch, crawl, runner, state, id, pages, processed,
                   queue, done, advanced, mem, url, faults>>

StorePage ==
    /\ Goto("store", "mark")
    /\ pages' = pages \cup {url.at}
    /\ UNCHANGED <<request, lock, apc, dispatch, crawl, runner, state, id, discovered,
                   processed, queue, execution, faults>>

MarkUrl ==
    /\ Goto("mark", "tally")
    /\ state' = [state EXCEPT ![url.at] = IF HasPage THEN "fetched" ELSE "skipped"]
    /\ UNCHANGED <<request, lock, apc, dispatch, crawl, runner, id, pages, discovered,
                   processed, queue, execution, faults>>

CountUrl ==
    /\ Goto("tally", "set")
    /\ processed' = processed + 1
    /\ UNCHANGED <<request, lock, apc, dispatch, crawl, runner, state, id, pages, discovered,
                   queue, execution, faults>>

\* step.set!(crawl_url.id): the job has advanced, and may be interrupted.
SetCursor ==
    /\ Goto("set", "loop")
    /\ advanced' = TRUE
    /\ UNCHANGED <<request, lock, apc, dispatch, crawl, runner, frontier, queue, done, mem, url,
                   fresh, faults>>

-----------------------------------------------------------------------------
(* publish! and cleanup!                                                   *)

Publish ==
    /\ pc = "publish"
    /\ crawl' = Synced(status)
    /\ mem' = status
    /\ IF Terminal(crawl')
       THEN CompleteStep(3, "cleanup")
       ELSE /\ pc' = IF pages = {} THEN "error" ELSE "import"
            /\ UNCHANGED <<done, advanced>>
    /\ UNCHANGED <<request, lock, apc, dispatch, runner, frontier, queue, url, fresh, faults>>

\* The import's first update_progress locks the request's row.
ImportLocksRow ==
    /\ Goto("import", "locked")
    /\ lock' = TRUE
    /\ UNCHANGED <<request, apc, dispatch, crawl, runner, frontier, queue, execution, faults>>

\* One transaction: import!, mark_completed, and the crawl "completed".
ImportCommit ==
    /\ pc \in {"import", "locked"}
    /\ mem = "processing"
    /\ status' = "completed" /\ error' = FALSE /\ imports' = imports + 1
    /\ crawl' = "completed"
    /\ lock' = FALSE
    /\ CompleteStep(3, "cleanup")
    /\ UNCHANGED <<apc, dispatch, runner, frontier, queue, mem, url, fresh, faults>>

ImportError ==
    /\ pc \in {"import", "locked"}
    /\ pc' = "error"
    /\ lock' = FALSE
    /\ UNCHANGED <<request, apc, dispatch, crawl, runner, frontier, queue, execution, faults>>

\* cleanup_staged_state!: the pages, then the URLs.
CleanupPages ==
    /\ pc = "cleanup"
    /\ IF crawl = "completed"
       THEN pc' = "delete" /\ pages' = {} /\ UNCHANGED queue
       ELSE EndJob("done") /\ UNCHANGED pages
    /\ UNCHANGED <<request, lock, apc, dispatch, crawl, runner, state, id, discovered,
                   processed, execution, faults>>

CleanupUrls ==
    /\ pc = "delete"
    /\ state' = [u \in Urls |-> "unknown"] /\ id' = [u \in Urls |-> 0]
    /\ EndJob("done")
    /\ UNCHANGED <<request, lock, apc, dispatch, crawl, runner, pages, discovered, processed,
                   execution, faults>>

\* CleanupWebsiteCrawlStateJob, three days after the crawl ended.
CleanupExpired ==
    /\ crawl \in {"failed", "cancelled"}
    /\ pc = "idle"
    /\ Rows # {}
    /\ pages' = {} /\ state' = [u \in Urls |-> "unknown"] /\ id' = [u \in Urls |-> 0]
    /\ UNCHANGED <<request, lock, apc, dispatch, crawl, runner, discovered, processed, queue, pc,
                   execution, faults>>

-----------------------------------------------------------------------------
(* The rescue clauses of perform, and what Continuable and retry_on do     *)
(* with the error: an execution that advanced is enqueued again, free of   *)
(* charge; one that did not uses up an attempt, or, if the error is not    *)
(* transient, fails the job.                                               *)

\* rescue TransientFetchError: mark_pending_for_retry!; raise
PauseCrawl ==
    /\ Goto("transient", "retry")
    /\ crawl' = IF crawl = "processing" THEN "pending" ELSE crawl
    /\ UNCHANGED <<request, lock, apc, dispatch, runner, frontier, queue, execution, faults>>

RetryOrGiveUp ==
    /\ pc = "retry"
    /\ IF advanced
       THEN Requeue(queue.failures)
       ELSE IF queue.failures + 1 < MaxAttempts
            THEN Requeue(queue.failures + 1)
            ELSE pc' = "giveup" /\ UNCHANGED queue
    /\ UNCHANGED <<request, lock, apc, dispatch, crawl, runner, frontier, execution, faults>>

\* `unless crawl_request.terminal?`.  The variants: always, never once begun.
MustFailAlways(s) == TRUE
MustFailPending(s) == s = "pending"
MustFail(s) == ~Terminal(s)

\* fail!: reload the request, mark_failed unless terminal?, mark_failed!.
\* It runs in the rescue clause and in the block of retry_on ("giveup").
FailReload ==
    /\ \/ pc = "error" /\ pc' = IF MustFail(status) THEN "failing" ELSE "failed"
       \/ pc = "giveup" /\ pc' = IF MustFail(status) THEN "givingup" ELSE "gaveup"
    /\ UNCHANGED <<request, lock, apc, dispatch, crawl, runner, frontier, queue, execution, faults>>

FailRequest ==
    /\ Goto("failing", "failed") \/ Goto("givingup", "gaveup")
    /\ status' = "failed" /\ error' = TRUE
    /\ UNCHANGED <<imports, lock, apc, dispatch, crawl, runner, frontier, queue, execution, faults>>

\* mark_failed!(message): unless the crawl is completed or failed already.
\* The variant fails the request alone.
RequestAlone == crawl
FailedCrawl == IF crawl = "completed" THEN crawl ELSE "failed"

FailCrawl ==
    /\ pc \in {"failed", "gaveup"}
    /\ crawl' = FailedCrawl
    /\ IF pc = "gaveup" THEN EndJob("done")
       ELSE IF advanced THEN Requeue(queue.failures)
       ELSE EndJob("failed")
    /\ UNCHANGED <<request, lock, apc, dispatch, runner, frontier, execution, faults>>

-----------------------------------------------------------------------------
(* Admin::CrawlRequests::CancellationsController#create.                   *)

LoadForCancel(a) ==
    /\ apc[a] = "idle"
    /\ apc' = [apc EXCEPT ![a] = IF Terminal(status) THEN "done" ELSE "loaded"]
    /\ UNCHANGED <<request, lock, dispatch, crawl, runner, frontier, queue, pc, execution, faults>>

MarkCancelled(a) ==
    /\ apc[a] = "loaded"
    /\ ~lock
    /\ apc' = [apc EXCEPT ![a] = "done"]
    /\ status' = "cancelled"
    /\ UNCHANGED <<error, imports, lock, dispatch, crawl, runner, frontier, queue, pc, execution,
                   faults>>

-----------------------------------------------------------------------------
(* Faults.                                                                 *)

Fault == faults < MaxFaults /\ faults' = faults + 1

\* The process that runs ProcessCrawlRequestJob dies before the enqueue.
DispatchDies ==
    /\ Fault
    /\ dispatch \in {"loaded", "created"}
    /\ dispatch' = "over"
    /\ UNCHANGED <<request, lock, apc, crawl, runner, frontier, queue, pc, execution>>

\* The worker is killed ("failed") or exits before the job ended and
\* releases it ("ready"), as it was enqueued; a transaction rolls back.
WorkerStops(rowState) ==
    /\ Fault
    /\ pc # "idle"
    /\ lock' = FALSE
    /\ EndJob(rowState)
    /\ UNCHANGED <<request, apc, dispatch, crawl, runner, frontier, execution>>

\* A statement outside the import fails (a lost connection, a deadlock):
\* rescue StandardError.
StatementFails ==
    /\ Fault
    /\ pc \in {"start", "prepare", "begin", "sync", "fetch", "seed", "seeded", "loop", "insert",
              "count", "store", "mark", "tally", "publish", "cleanup", "delete"}
    /\ pc' = "error"
    /\ UNCHANGED <<request, lock, apc, dispatch, crawl, runner, frontier, queue, execution>>

\* An administrator retries the failed job from the Mission Control page.
RetryFailedJob ==
    /\ Fault
    /\ queue.state = "failed"
    /\ queue' = [state |-> "ready", done |-> queue.done, failures |-> 0]
    /\ UNCHANGED <<request, lock, apc, dispatch, crawl, runner, frontier, pc, execution>>

-----------------------------------------------------------------------------
Dispatch == DispatchLoad \/ StartCrawl \/ EnqueueProcessing

Execute ==
    \/ ClaimJob \/ Perform
    \/ Prepare \/ BeginProcessing \/ PrepareSync
    \/ SeedUrl \/ CountSeed \/ FetchStart \/ FetchNext
    \/ \E kind \in Snapshots : Visit(kind)
    \/ InsertLinks \/ CountLinks \/ StorePage \/ MarkUrl \/ CountUrl \/ SetCursor
    \/ Publish \/ ImportLocksRow \/ ImportCommit \/ ImportError
    \/ CleanupPages \/ CleanupUrls
    \/ PauseCrawl \/ RetryOrGiveUp \/ FailReload \/ FailRequest \/ FailCrawl

Next ==
    \/ Dispatch
    \/ Execute
    \/ Interrupt
    \/ CleanupExpired
    \/ \E a \in Admins : LoadForCancel(a) \/ MarkCancelled(a)
    \/ DispatchDies
    \/ \E rowState \in {"failed", "ready"} : WorkerStops(rowState)
    \/ StatementFails
    \/ RetryFailedJob

Spec == Init /\ [][Next]_vars

\* Workers keep polling and threads keep running.  Interrupts need no bound:
\* each follows a step or a URL that the job will not go through again.
Fairness == WF_vars(Dispatch) /\ WF_vars(Execute) /\ WF_vars(CleanupExpired)

FairSpec == Spec /\ Fairness

-----------------------------------------------------------------------------
(* Properties.                                                             *)

Processed(u) == state[u] \in {"fetched", "skipped"}

\* No fault and no URL half written: the counters that bound the crawl tell
\* the truth about its rows, across retries, resumptions and promotions, so
\* no URL is counted (or visited) twice.
CountersMatchRows ==
    crawl \in {"pending", "processing"} /\ faults = 0 =>
        /\ pc \notin {"count", "seeded"} => discovered = Cardinality(Rows)
        /\ pc # "tally" => processed = Cardinality({u \in Urls : Processed(u)})

\* Whatever dies when, a counter is never ahead of the rows, and no more
\* than website_max_pages URLs are counted.
CountersWithinLimit ==
    /\ Limited => discovered <= Limit /\ processed <= Limit
    /\ crawl \in {"pending", "processing"} =>
          /\ discovered <= Cardinality(Rows)
          /\ processed <= Cardinality({u \in Urls : Processed(u)})

\* Both: the counters can be trusted.
CountersHold == CountersMatchRows /\ CountersWithinLimit

\* The crawl is through: every URL it found was visited, unless the limit was
\* reached, and without a limit every link of a visited page was found.
Through ==
    \/ LimitReached
    \/ /\ \A u \in Urls : state[u] # "pending"
       /\ Limited \/ \A u \in pages : \A i \in 1 .. Len(Links[u]) : HasRow(Links[u][i])

\* A crawl is published only when it is through: resumption, retries and
\* deaths never skip the rest of a step.
PublishedWhenThrough == [][imports' > imports => Through]_vars

\* Crawl and request agree: the crawl is completed exactly when its pages
\* were imported, and, unless something died, when the job is over both rows
\* are terminal.
JobOver == dispatch = "over" /\ queue.state \in {"failed", "done"}

CrawlAndRequestAgree ==
    /\ crawl = "completed" <=> imports = 1
    /\ JobOver /\ faults = 0 => Terminal(crawl) /\ Terminal(status)

Outcome == IF imports > 0 THEN "imported" ELSE IF error THEN "failed" ELSE "none"

Lifecycle == INSTANCE RequestLifecycle WITH outcome <- Outcome

\* The request's row lives the life RequestLifecycle promises.
LifecycleSpec == Lifecycle!Spec

\* The job may still write a decision without looking at the row again.
Undecided == pc \in {"import", "locked", "failing", "givingup"}

CancelledForGood == status = "cancelled" /\ ~Undecided

\* A cancellation written before the job's last look at the row (the sync of
\* publish!, the reload of fail!) is final: nothing is imported any more.
CancellationSticks == [][CancelledForGood => CancelledForGood' /\ imports' = imports]_vars

\* Without faults every website request is settled, however often its job is
\* interrupted, resumed and retried.
Settles == [](faults = 0) => <>[]Terminal(status)

-----------------------------------------------------------------------------
(* A statement of the repository the code does not keep.                   *)

\* process_website_crawl_job_test.rb:74-76: the crawl is "completed" and its
\* staged URLs and pages are gone.  (An interrupt at the checkpoint before
\* the last step: the resumed job finds the crawl terminal and returns.)
CompletedCrawlIsCleaned == crawl = "completed" ~> pages = {} /\ Rows = {}

=============================================================================
