---------------------------- MODULE VersionCheck ----------------------------
(***************************************************************************)
(* The periodic version check of one active primary library source: the    *)
(* claim on its row, the CheckLibrarySourceJobs, the probe of the upstream *)
(* site, and the crawl requests that an upstream change creates            *)
(* (LibrarySource, CheckDueLibrarySourcesJob, CheckLibrarySourceJob).      *)
(*                                                                         *)
(* A change is an upstream version, or, for a website, a signature of its  *)
(* content.  Times are countdowns in an abstract unit; Tick is the passing *)
(* of one unit.                                                            *)
(***************************************************************************)
EXTENDS Naturals, FiniteSets

CONSTANTS
    Changes,        \* upstream versions, or content signatures
    Newer(_, _),    \* Version.compare(a, b).positive?
    Stable,         \* the versions of the stable channel
    Kinds,          \* the kinds of sources and of behaviours to look at
    Callers,        \* CheckDueLibrarySourcesJob, page views, API requests
    Jobs,           \* slots for outstanding CheckLibrarySourceJobs
    Requests,       \* slots for crawl requests of this source
    None,
    ClaimTimeout, HotInterval, NormalInterval, ColdInterval, HotWindow, JitterMax,
    ColdThreshold,  \* no-change checks that make a source cold
    MaxAttempts,    \* retry_on ... attempts: 3
    MaxFaults       \* bound on publications, failures and crashes together

ASSUME ConstantsAssumption ==
    /\ None \notin Changes \cup Jobs
    /\ Stable \subseteq Changes
    /\ \A a, b \in Changes : Newer(a, b) => ~Newer(b, a)
    /\ Kinds \subseteq [website : BOOLEAN, prompt : BOOLEAN]
    /\ {ClaimTimeout, HotInterval, NormalInterval, ColdInterval, HotWindow, JitterMax,
        ColdThreshold, MaxFaults} \subseteq Nat
    /\ ClaimTimeout > 0 /\ HotInterval > 0
    /\ MaxAttempts \in Nat \ {0}

VARIABLES
    kind,           \* website: source_type "website", probed for a signature;
                    \* prompt: checks end before their claim or schedule expires
    upstream,       \* what the site publishes now, None when nothing is readable
    stored,         \* versions of the library
    claim,          \* units until the claim expires; 0: no valid claim
    next,           \* units until next_version_check_at; 0: due
    sinceChange,    \* units since last_version_change_at, up to HotWindow + 1, or Never
    noChange,       \* consecutive_no_change_checks, up to ColdThreshold
    signature,      \* last_probe_signature, None when blank
    rowLock,        \* the job that holds the row's lock, or None
    caller,         \* Caller -> TRUE between its claim and its enqueue
    job,            \* Job -> its state, attempts, probe and decision
    request,        \* Request -> status and detected change
    faults          \* publications, failures and crashes so far

schedule == <<claim, next, sinceChange, noChange, signature>>
world == <<kind, upstream, stored, faults>>
vars == <<world, schedule, rowLock, caller, job, request>>

Never == HotWindow + 2      \* last_version_change_at is NULL

Active == {"pending", "processing"}

JobRecord == [state: {"none", "queued", "probed", "failed", "decided", "raised"},
              attempts: 0 .. MaxAttempts - 1,
              probe: Changes \cup {None},
              decision: {"none", "no_change", "known", "refresh"}]

RequestRecord == [status: {"none", "pending", "processing", "completed", "failed", "cancelled"},
                  change: Changes \cup {None}]

MaxInterval == HotInterval + NormalInterval + ColdInterval + JitterMax

TypeOK ==
    /\ kind \in Kinds
    /\ upstream \in Changes \cup {None}
    /\ stored \subseteq Changes
    /\ claim \in 0 .. ClaimTimeout
    /\ next \in 0 .. MaxInterval
    /\ sinceChange \in 0 .. Never
    /\ noChange \in 0 .. ColdThreshold
    /\ signature \in Changes \cup {None}
    /\ rowLock \in Jobs \cup {None}
    /\ caller \in [Callers -> BOOLEAN]
    /\ job \in [Jobs -> JobRecord]
    /\ request \in [Requests -> RequestRecord]
    /\ faults \in 0 .. MaxFaults

Slot(state, attempts, probe, decision) ==
    [state |-> state, attempts |-> attempts, probe |-> probe, decision |-> decision]

NoJob == Slot("none", 0, None, "none")

Set(j, record) == job' = [job EXCEPT ![j] = record]

\* A source as initialize_version_check_schedule creates it, on the interval
\* initial_version_check_interval gives; its library may hold versions already.
InitialInterval == IF kind.website THEN ColdInterval ELSE NormalInterval

Init ==
    /\ kind \in Kinds
    /\ upstream \in Changes
    /\ stored \in IF kind.website THEN {{}} ELSE SUBSET Changes
    /\ claim = 0
    /\ next \in InitialInterval .. InitialInterval + JitterMax
    /\ sinceChange = Never
    /\ noChange = 0
    /\ signature = None
    /\ rowLock = None
    /\ caller = [c \in Callers |-> FALSE]
    /\ job = [j \in Jobs |-> NoJob]
    /\ request = [r \in Requests |-> [status |-> "none", change |-> None]]
    /\ faults = 0

\* What may go wrong or change outside, a bounded number of times.
Fault == faults < MaxFaults /\ faults' = faults + 1

-----------------------------------------------------------------------------
(* The schedule.                                                           *)

\* callers and jobs on their way with a check of the source
Outstanding ==
    Cardinality({c \in Callers : caller[c]}) + Cardinality({j \in Jobs : job[j].state # "none"})

Decrement(n) == IF n = 0 THEN 0 ELSE n - 1

Tick ==
    /\ kind.prompt /\ Outstanding > 0 => claim > 1 \/ next > 1
    /\ claim' = Decrement(claim)
    /\ next' = Decrement(next)
    /\ sinceChange' = IF sinceChange > HotWindow THEN sinceChange ELSE sinceChange + 1
    /\ UNCHANGED <<world, noChange, signature, rowLock, caller, job, request>>

\* version_check_due?, on the row as with_lock reads it.  The variant takes
\* the claim for granted.
DueUnclaimed == next = 0
Due == next = 0 /\ claim = 0

\* version_check_interval, before the update that counts the check
Interval ==
    CASE kind.website /\ sinceChange = Never -> ColdInterval
      [] sinceChange <= HotWindow     -> HotInterval
      [] sinceChange > HotWindow /\ noChange >= ColdThreshold -> ColdInterval
      [] OTHER                        -> NormalInterval

Reschedule(interval) == \E jitter \in 0 .. JitterMax : next' = interval + jitter

\* record_version_check_no_change!
RecordNoChange ==
    /\ Reschedule(Interval)
    /\ noChange' = IF noChange < ColdThreshold THEN noChange + 1 ELSE noChange
    /\ claim' = 0
    /\ UNCHANGED sinceChange

\* record_version_change_detected!, queue_version_refresh!
RecordChange ==
    /\ Reschedule(HotInterval)
    /\ noChange' = 0
    /\ sinceChange' = 0
    /\ claim' = 0

-----------------------------------------------------------------------------
(* enqueue_version_check!: claim under the row's lock, then enqueue.       *)

ClaimCheck(c) ==
    /\ ~caller[c]
    /\ rowLock = None
    /\ Due
    /\ claim' = ClaimTimeout
    /\ caller' = [caller EXCEPT ![c] = TRUE]
    /\ UNCHANGED <<world, next, sinceChange, noChange, signature, rowLock, job, request>>

EnqueueCheck(c, j) ==
    /\ caller[c]
    /\ job[j].state = "none"
    /\ Set(j, Slot("queued", 0, None, "none"))
    /\ caller' = [caller EXCEPT ![c] = FALSE]
    /\ UNCHANGED <<world, schedule, rowLock, request>>

\* The enqueue raises: clear_version_check_claim!.
EnqueueRaises(c) ==
    /\ caller[c]
    /\ rowLock = None
    /\ Fault
    /\ claim' = 0
    /\ caller' = [caller EXCEPT ![c] = FALSE]
    /\ UNCHANGED <<kind, upstream, stored, next, sinceChange, noChange, signature, rowLock, job, request>>

\* The process dies in between: the claim has to expire.
CallerDies(c) ==
    /\ caller[c]
    /\ Fault
    /\ caller' = [caller EXCEPT ![c] = FALSE]
    /\ UNCHANGED <<kind, upstream, stored, schedule, rowLock, job, request>>

-----------------------------------------------------------------------------
(* check_for_new_version!                                                  *)

\* probe_version(url), outside the lock: it reads the site, or raises.
Probe(j) ==
    /\ job[j].state = "queued"
    /\ Set(j, Slot("probed", job[j].attempts, upstream, "none"))
    /\ UNCHANGED <<world, schedule, rowLock, caller, request>>

\* rescue TransientFetchError: record_version_check_failure!; raise.  This
\* update! is outside with_lock and writes what differs from the job's copy of
\* the row: a retry may have loaded it without a claim, and then leaves the
\* claim of another caller alone.
ProbeTransient(j) ==
    /\ job[j].state = "queued"
    /\ rowLock = None
    /\ Fault
    /\ Reschedule(HotInterval)
    /\ claim' \in IF job[j].attempts = 0 THEN {0} ELSE {0, claim}
    /\ Set(j, Slot("failed", job[j].attempts, None, "none"))
    /\ UNCHANGED <<kind, upstream, stored, sinceChange, noChange, signature, rowLock, caller, request>>

\* retry_on, without a block: the last failure leaves a failed job behind.
MayRetry(j) == job[j].attempts + 1 < MaxAttempts

RetryCheck(j) ==
    /\ job[j].state = "failed"
    /\ Set(j, IF MayRetry(j)
              THEN Slot("queued", job[j].attempts + 1, None, "none")
              ELSE NoJob)
    /\ UNCHANGED <<world, schedule, rowLock, caller, request>>

\* Anything else raises, in the probe or in the locked transaction, which then
\* rolls back.
Raises(j) ==
    /\ job[j].state \in {"queued", "decided"}
    /\ Fault
    /\ Set(j, Slot("raised", 0, None, "none"))
    /\ rowLock' = IF rowLock = j THEN None ELSE rowLock
    /\ UNCHANGED <<kind, upstream, stored, schedule, caller, request>>

\* rescue StandardError: clear_version_check_claim!; raise
ClearClaim(j) ==
    /\ job[j].state = "raised"
    /\ rowLock = None
    /\ claim' = 0
    /\ Set(j, NoJob)
    /\ UNCHANGED <<world, next, sinceChange, noChange, signature, rowLock, caller, request>>

\* active_version_refresh_exists?, active_signature_refresh_exists?.  The
\* variants overlook a refresh that runs, or count the finished ones.
PendingRefresh(c) == \E r \in Requests : request[r].status = "pending" /\ request[r].change = c
AnyRefresh(c) == \E r \in Requests : request[r].change = c
ActiveRefresh(c) == \E r \in Requests : request[r].status \in Active /\ request[r].change = c

\* unknown to the library, and above latest_stable_version
IsNewVersion(c) == c \notin stored /\ \A v \in stored \cap Stable : Newer(c, v)

\* What handle_version_probe! or handle_signature_probe! decides.
Decision(c) ==
    IF c = None \/ (IF kind.website THEN signature \in {None, c} ELSE ~IsNewVersion(c))
    THEN "no_change"
    ELSE IF ActiveRefresh(c) THEN "known" ELSE "refresh"

LockAndDecide(j) ==
    /\ job[j].state = "probed"
    /\ rowLock = None
    /\ rowLock' = j
    /\ Set(j, Slot("decided", job[j].attempts, job[j].probe, Decision(job[j].probe)))
    /\ UNCHANGED <<world, schedule, caller, request>>

\* The variant keeps the baseline for ever.
RecordBaseline(c) == signature' = IF kind.website /\ signature = None THEN c ELSE signature
RecordSignature(c) == signature' = IF kind.website /\ c # None THEN c ELSE signature

\* The writes of the transaction that holds the lock.
Record(j) ==
    /\ job[j].state = "decided"
    /\ IF job[j].decision = "no_change" THEN RecordNoChange ELSE RecordChange
    /\ IF job[j].decision = "refresh"
       THEN \E r \in Requests :
              /\ request[r].status \notin Active
              /\ request' = [request EXCEPT ![r] = [status |-> "pending", change |-> job[j].probe]]
       ELSE UNCHANGED request
    /\ RecordSignature(job[j].probe)
    /\ rowLock' = None
    /\ Set(j, NoJob)
    /\ UNCHANGED <<world, caller>>

\* The worker is killed: the transaction rolls back, the claim stays.
JobDies(j) ==
    /\ job[j].state \in {"queued", "probed", "decided", "raised"}
    /\ Fault
    /\ Set(j, NoJob)
    /\ rowLock' = IF rowLock = j THEN None ELSE rowLock
    /\ UNCHANGED <<kind, upstream, stored, schedule, caller, request>>

-----------------------------------------------------------------------------
(* The crawl requests (StandardCrawl, WebsiteCrawl) and the world.         *)

SetStatus(r, s) ==
    request' = [request EXCEPT ![r] = [status |-> s, change |-> request[r].change]]

RequestBegins(r) ==
    /\ request[r].status = "pending"
    /\ SetStatus(r, "processing")
    /\ UNCHANGED <<world, schedule, rowLock, caller, job>>

RequestCompletes(r) ==
    /\ request[r].status = "processing"
    /\ SetStatus(r, "completed")
    /\ stored' = IF kind.website THEN stored ELSE stored \cup {request[r].change}
    /\ UNCHANGED <<kind, upstream, faults, schedule, rowLock, caller, job>>

RequestFails(r) ==
    /\ request[r].status \in Active
    /\ Fault
    /\ \E s \in {"failed", "cancelled"} : SetStatus(r, s)
    /\ UNCHANGED <<kind, upstream, stored, schedule, rowLock, caller, job>>

\* The site publishes something else, or nothing readable.
Publish ==
    /\ Fault
    /\ upstream' \in (Changes \cup {None}) \ {upstream}
    /\ UNCHANGED <<kind, stored, schedule, rowLock, caller, job, request>>

-----------------------------------------------------------------------------
Check(j) ==
    \/ Probe(j) \/ ProbeTransient(j) \/ RetryCheck(j)
    \/ LockAndDecide(j) \/ Record(j) \/ Raises(j) \/ ClearClaim(j)

Next ==
    \/ Tick
    \/ \E c \in Callers : ClaimCheck(c) \/ EnqueueRaises(c) \/ CallerDies(c)
    \/ \E c \in Callers, j \in Jobs : EnqueueCheck(c, j)
    \/ \E j \in Jobs : Check(j) \/ JobDies(j)
    \/ \E r \in Requests : RequestBegins(r) \/ RequestCompletes(r) \/ RequestFails(r)
    \/ Publish

Spec == Init /\ [][Next]_vars

\* The hourly CheckDueLibrarySourcesJob calls on (recurring.yml), the queues'
\* workers run every job, and crawls end; nothing is fair about faults.
FairSpec ==
    /\ Spec
    /\ WF_vars(Tick)
    /\ \A c \in Callers : WF_vars(ClaimCheck(c)) /\ WF_vars(\E j \in Jobs : EnqueueCheck(c, j))
    /\ \A j \in Jobs :
         /\ WF_vars(Probe(j)) /\ WF_vars(RetryCheck(j))
         /\ WF_vars(LockAndDecide(j)) /\ WF_vars(Record(j)) /\ WF_vars(ClearClaim(j))
    /\ \A r \in Requests : WF_vars(RequestBegins(r)) /\ WF_vars(RequestCompletes(r))

-----------------------------------------------------------------------------
(* Properties.                                                             *)

\* version-refresh-strategy.md, "Creating The Follow-Up Crawl": a change has
\* at most one active crawl of this source, however many checks overlap: a
\* claim that expired under a slow probe, a retry, a duplicated caller.
OneActiveRefresh ==
    \A r, s \in Requests :
        /\ request[r].status \in Active /\ request[s].status \in Active
        /\ request[r].change = request[s].change
        => r = s

\* While checks end before their claim and schedule expire, they do not pile
\* up, whatever raises or dies on the way: one caller or one job at a time is
\* on its way with a check of the source (claim_version_check!).
OneOutstandingCheck == kind.prompt => Outstanding <= 1

\* Once publications, failures and crashes stop, the library catches up with the
\* site: the latest version is stored, or the signature is the site's.  A lost
\* claim, a failed refresh or a check that recorded an older answer only delays it.
CatchesUp ==
    <>[](upstream # None =>
           IF kind.website THEN signature = upstream ELSE ~IsNewVersion(upstream))
=============================================================================
