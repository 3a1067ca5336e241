------------------------ MODULE StandardCrawlProofs ------------------------
(***************************************************************************)
(* Proofs about StandardCrawl for any number of workers, administrators,   *)
(* job rows and faults, and any retry limit above one.                     *)
(***************************************************************************)
EXTENDS StandardCrawl, TLAPS

-----------------------------------------------------------------------------
(* The inductive invariant.                                                *)

\* A worker that is busy has a job, and the row of that job exists.
BusyHasJob ==
    \A w \in Workers :
        pc[w] # "idle" => job[w] \in Jobs /\ jobs[job[w]].state # "none"

\* A pending request is untouched: nothing decided, no failed attempt.
PendingUntouched ==
    status = "pending" =>
        /\ \A w \in Workers : ~Processes(w)
        /\ \A j \in Jobs : jobs[j].failures = 0
        /\ imports = 0
        /\ ~error

\* While a worker holds the request nothing is decided, and its job is in
\* its first attempt: a retried job never gets past begin_processing!.
ProcessorUndecided ==
    \A w \in Workers :
        Processes(w) => /\ status \in {"processing", "cancelled"}
                        /\ imports = 0
                        /\ ~error
                        /\ jobs[job[w]].failures = 0

Inv == /\ TypeOK
       /\ BusyHasJob
       /\ PendingUntouched
       /\ OneProcessor
       /\ ProcessorUndecided
       /\ StrandedOnlyByRetryOrFault

-----------------------------------------------------------------------------
(* What the helpers of the actions do to the rows of the queue.            *)

\* Leaving a job changes no attempt count, makes no row vanish, and frees w.
LEMMA LeaveJob ==
    ASSUME TypeOK, NEW w \in Workers, NEW state \in {"ready", "failed", "done"},
           job[w] \in Jobs, jobs[job[w]].state # "none", Leave(w, state)
    PROVE  /\ pc' = [pc EXCEPT ![w] = "idle"]
           /\ pc' \in [Workers -> PCs]
           /\ job' = [job EXCEPT ![w] = None]
           /\ job' \in [Workers -> Jobs \cup {None}]
           /\ jobs' \in [Jobs -> JobRow]
           /\ \A j \in Jobs : jobs'[j].failures = jobs[j].failures
           /\ \A j \in Jobs : jobs[j].state # "none" => jobs'[j].state # "none"
<1>1. pc' = [pc EXCEPT ![w] = "idle"] /\ job' = [job EXCEPT ![w] = None]
  BY DEF Leave
<1>2. pc' \in [Workers -> PCs] /\ job' \in [Workers -> Jobs \cup {None}]
  BY <1>1 DEF TypeOK, PCs
<1>3. CASE jobs[job[w]].owner = w
  <2>1. jobs' = [jobs EXCEPT ![job[w]] = Row(state, jobs[job[w]].failures, None)]
    BY <1>3 DEF Leave
  <2>2. Row(state, jobs[job[w]].failures, None) \in JobRow
    BY DEF TypeOK, JobRow, Row
  <2>3. jobs' \in [Jobs -> JobRow]
    BY <2>1, <2>2 DEF TypeOK
  <2>4. /\ Row(state, jobs[job[w]].failures, None).failures = jobs[job[w]].failures
        /\ Row(state, jobs[job[w]].failures, None).state # "none"
    BY DEF Row
  <2>5. \A j \in Jobs : /\ jobs'[j].failures = jobs[j].failures
                        /\ jobs[j].state # "none" => jobs'[j].state # "none"
    BY <2>1, <2>4 DEF TypeOK
  <2> QED BY <1>1, <1>2, <2>3, <2>5
<1>4. CASE jobs[job[w]].owner # w
  <2>1. jobs' = jobs
    BY <1>4 DEF Leave
  <2> QED BY <1>1, <1>2, <2>1 DEF TypeOK
<1> QED BY <1>3, <1>4

\* w leaves its job and the row of the request is not made "processing":
\* the invariant survives if the caller accounts for the row it leaves.
LEMMA LeaveKeepsInv ==
    ASSUME Inv, NEW w \in Workers, NEW state \in {"ready", "failed", "done"},
           pc[w] # "idle", Leave(w, state),
           status' \in Statuses, error' \in BOOLEAN, imports' \in Nat,
           lock' \in Workers \cup {None}, created' \in BOOLEAN,
           mem' \in [Workers \cup Admins -> Statuses], apc' = apc,
           faults' \in 0 .. MaxFaults,
           status' = "pending" => UNCHANGED request,
           ~Processes(w) => UNCHANGED request,
           status' = "processing" => status = "processing" /\ (faults' > 0 \/ (~Processes(w) /\ faults' = faults))
    PROVE  Inv'
<1> USE DEF Inv
<1>1. /\ job[w] \in Jobs
      /\ jobs[job[w]].state # "none"
  BY DEF BusyHasJob
<1>2. /\ pc' = [pc EXCEPT ![w] = "idle"]
      /\ pc' \in [Workers -> PCs]
      /\ job' = [job EXCEPT ![w] = None]
      /\ job' \in [Workers -> Jobs \cup {None}]
      /\ jobs' \in [Jobs -> JobRow]
      /\ \A j \in Jobs : jobs'[j].failures = jobs[j].failures
      /\ \A j \in Jobs : jobs[j].state # "none" => jobs'[j].state # "none"
  BY <1>1, LeaveJob
<1>3. \A v \in Workers \ {w} : pc'[v] = pc[v] /\ job'[v] = job[v]
  BY <1>2 DEF TypeOK
<1>4. pc'[w] = "idle"
  BY <1>2 DEF TypeOK
<1>5. TypeOK'
  BY <1>2 DEF TypeOK
<1>6. BusyHasJob'
  BY <1>2, <1>3, <1>4 DEF BusyHasJob
<1>7. \A v \in Workers : Processes(v)' => v # w /\ Processes(v)
  BY <1>3, <1>4 DEF Processes
<1>8. PendingUntouched'
  BY <1>2, <1>7 DEF PendingUntouched, request
<1>9. OneProcessor'
  BY <1>7 DEF OneProcessor
<1>10. ProcessorUndecided'
  <2> SUFFICES ASSUME NEW v \in Workers, Processes(v)'
               PROVE  /\ status' \in {"processing", "cancelled"}
                      /\ imports' = 0
                      /\ ~error'
                      /\ jobs'[job'[v]].failures = 0
    BY DEF ProcessorUndecided
  <2>1. v # w /\ Processes(v) /\ ~Processes(w)
    BY <1>7 DEF OneProcessor
  <2>2. UNCHANGED request
    BY <2>1
  <2>3. job'[v] = job[v] /\ job[v] \in Jobs
    BY <1>3, <2>1 DEF BusyHasJob, Processes
  <2> QED BY <1>2, <2>1, <2>2, <2>3 DEF ProcessorUndecided, request
<1>11. StrandedOnlyByRetryOrFault'
  <2> SUFFICES ASSUME status' = "processing", ~(faults' > 0)
               PROVE  (\E v \in Workers : Processes(v)') \/ (\E j \in Jobs : jobs'[j].failures > 0)
    BY DEF StrandedOnlyByRetryOrFault
  <2>1. status = "processing" /\ ~Processes(w) /\ ~(faults > 0)
    OBVIOUS
  <2>2. CASE \E v \in Workers : Processes(v)
    BY <2>1, <2>2, <1>3 DEF Processes
  <2>3. CASE \E j \in Jobs : jobs[j].failures > 0
    BY <2>3, <1>2
  <2> QED BY <2>1, <2>2, <2>3 DEF StrandedOnlyByRetryOrFault
<1> QED BY <1>5, <1>6, <1>8, <1>9, <1>10, <1>11

\* w goes on to another point of StandardCrawl#process; the row of the
\* request and the queue stay as they are.
LEMMA GotoKeepsInv ==
    ASSUME Inv, NEW w \in Workers,
           Processes(w), NEW to \in PCs \ {"idle", "begin"},
           pc' = [pc EXCEPT ![w] = to], UNCHANGED <<request, created, jobs, job, apc, faults>>,
           lock' \in Workers \cup {None},
           mem' \in [Workers \cup Admins -> Statuses]
    PROVE  Inv'
<1> USE DEF Inv, request
<1>1. TypeOK'
  BY DEF TypeOK
<1>2. \A v \in Workers : Processes(v)' <=> Processes(v)
  BY DEF Processes, TypeOK
<1>3. BusyHasJob'
  BY DEF BusyHasJob, TypeOK, Processes
<1>4. PendingUntouched' /\ OneProcessor' /\ ProcessorUndecided' /\ StrandedOnlyByRetryOrFault'
  BY <1>2 DEF PendingUntouched, OneProcessor, ProcessorUndecided, StrandedOnlyByRetryOrFault
<1> QED BY <1>1, <1>3, <1>4

\* Enqueueing the retry: the only step whose new row carries a failed attempt.
LEMMA RetryKeepsInv ==
    ASSUME ConstantsAssumption, Inv, NEW w \in Workers, pc[w] = "retry", NEW j \in Jobs,
           EnqueueRetry(w, j, jobs[job[w]].failures + 1),
           jobs[job[w]].failures + 1 < MaxAttempts,
           UNCHANGED <<request, lock, created, mem, apc, faults>>
    PROVE  Inv'
<1> USE DEF Inv, request
<1> DEFINE failures == jobs[job[w]].failures + 1
<1>1. /\ job[w] \in Jobs
      /\ jobs[job[w]].state # "none"
      /\ Processes(w)
  BY DEF BusyHasJob, Processes
<1>2. failures = 1 /\ status # "pending"
  BY <1>1 DEF ProcessorUndecided
<1>3. /\ Row("ready", failures, None) \in JobRow
      /\ \A i \in Jobs : Row("done", jobs[i].failures, None) \in JobRow
  BY <1>2 DEF Row, JobRow, TypeOK, ConstantsAssumption
<1>4. jobs' \in [Jobs -> JobRow]
  BY <1>3 DEF EnqueueRetry, TypeOK
<1>5. TypeOK'
  BY <1>4 DEF TypeOK, EnqueueRetry, PCs
<1>6. /\ Row("ready", failures, None).failures = 1
      /\ Row("ready", failures, None).state = "ready"
      /\ \A i \in Jobs : /\ Row("done", jobs[i].failures, None).failures = jobs[i].failures
                         /\ Row("done", jobs[i].failures, None).state = "done"
  BY <1>2 DEF Row
<1>7. /\ \A i \in Jobs \ {j} : jobs'[i].failures = jobs[i].failures
      /\ \A i \in Jobs : jobs[i].state # "none" => jobs'[i].state # "none"
      /\ jobs'[j].failures = 1
      /\ jobs[j].state = "none"
  BY <1>6 DEF EnqueueRetry, TypeOK
<1>8. \A v \in Workers : Processes(v)' => v # w /\ Processes(v)
  BY DEF EnqueueRetry, Processes, TypeOK
<1>9. BusyHasJob'
  BY <1>7 DEF BusyHasJob, EnqueueRetry, TypeOK
<1>10. OneProcessor' /\ ProcessorUndecided'
  BY <1>1, <1>8 DEF OneProcessor, ProcessorUndecided
<1>11. PendingUntouched'
  BY <1>2 DEF PendingUntouched
<1>12. StrandedOnlyByRetryOrFault'
  BY <1>7 DEF StrandedOnlyByRetryOrFault
<1> QED BY <1>5, <1>9, <1>10, <1>11, <1>12

-----------------------------------------------------------------------------
(* Every action preserves the invariant.                                   *)

\* The invariant holds of a request that was just created.
LEMMA InitInv == ConstantsAssumption /\ Init => Inv
<1> SUFFICES ASSUME ConstantsAssumption, Init PROVE Inv
  OBVIOUS
<1>1. Row("none", 0, None) \in JobRow /\ Row("none", 0, None).failures = 0
  BY DEF Row, JobRow, ConstantsAssumption
<1>2. error \in BOOLEAN /\ created \in BOOLEAN
  BY Zenon DEF Init
<1>3. /\ status \in Statuses /\ imports \in Nat /\ lock \in Workers \cup {None}
      /\ pc \in [Workers -> PCs] /\ job \in [Workers -> Jobs \cup {None}]
      /\ mem \in [Workers \cup Admins -> Statuses]
      /\ apc \in [Admins -> {"idle", "loaded", "done"}] /\ faults \in 0 .. MaxFaults
  BY DEF Init, Statuses, PCs, ConstantsAssumption
<1>4. jobs \in [Jobs -> JobRow]
  BY <1>1 DEF Init
<1>5. TypeOK
  BY <1>2, <1>3, <1>4 DEF TypeOK
<1>6. \A w \in Workers : ~Processes(w) /\ pc[w] = "idle"
  BY DEF Init, Processes
<1> QED
  BY <1>1, <1>5, <1>6 DEF Init, Inv, BusyHasJob, PendingUntouched, OneProcessor,
     ProcessorUndecided, StrandedOnlyByRetryOrFault

\* Every step of a worker keeps the invariant.
LEMMA WorkInv ==
    ASSUME ConstantsAssumption, Inv, NEW w \in Workers, Work(w)
    PROVE  Inv'
<1> USE DEF Inv, request
<1>1. ASSUME NEW j \in Jobs, ClaimJob(w, j) PROVE Inv'
  <2>1. /\ Row("claimed", jobs[j].failures, w) \in JobRow
        /\ Row("claimed", jobs[j].failures, w).failures = jobs[j].failures
        /\ Row("claimed", jobs[j].failures, w).state = "claimed"
    BY DEF Row, JobRow, TypeOK
  <2>2. jobs' \in [Jobs -> JobRow]
    BY <1>1, <2>1 DEF ClaimJob, TypeOK
  <2>3. TypeOK'
    BY <1>1, <2>2 DEF ClaimJob, TypeOK, PCs
  <2>4. \A i \in Jobs : /\ jobs'[i].failures = jobs[i].failures
                        /\ jobs[i].state # "none" => jobs'[i].state # "none"
    BY <1>1, <2>1 DEF ClaimJob, TypeOK
  <2>5. \A v \in Workers : /\ Processes(v)' <=> Processes(v)
                           /\ Processes(v) => job'[v] = job[v]
    BY <1>1 DEF ClaimJob, TypeOK, Processes
  <2>6. jobs'[j].state = "claimed"
    BY <1>1, <2>1 DEF ClaimJob, TypeOK
  <2>7. BusyHasJob'
    BY <1>1, <2>4, <2>6 DEF ClaimJob, TypeOK, BusyHasJob
  <2>8. PendingUntouched' /\ OneProcessor' /\ StrandedOnlyByRetryOrFault'
    BY <1>1, <2>4, <2>5 DEF ClaimJob, PendingUntouched, OneProcessor, StrandedOnlyByRetryOrFault
  <2>9. ProcessorUndecided'
    BY <1>1, <2>4, <2>5 DEF ClaimJob, ProcessorUndecided, BusyHasJob, Processes
  <2> QED BY <2>3, <2>7, <2>8, <2>9
<1>2. CASE BeginProcessing(w)
  <2>1. CASE MayBegin(w)
    <3>1. status = "pending" /\ status' = "processing" /\ pc[w] = "begin"
      BY <1>2, <2>1 DEF BeginProcessing, MayBegin
    <3>2. /\ pc' = [pc EXCEPT ![w] = "fetch"]
          /\ mem' = [mem EXCEPT ![w] = "processing"]
          /\ UNCHANGED <<error, imports, lock, created, jobs, job, apc, faults>>
      BY <1>2, <2>1 DEF BeginProcessing
    <3>3. TypeOK'
      BY <3>1, <3>2 DEF TypeOK, PCs, Statuses
    <3>4. \A v \in Workers : (Processes(v)' <=> v = w) /\ ~Processes(v)
      BY <3>1, <3>2 DEF Processes, TypeOK, PendingUntouched
    <3>5. job[w] \in Jobs
      BY <3>1 DEF BusyHasJob
    <3>6. BusyHasJob'
      BY <3>1, <3>2 DEF BusyHasJob, TypeOK
    <3>7. ProcessorUndecided'
      BY <3>1, <3>2, <3>4, <3>5 DEF ProcessorUndecided, PendingUntouched
    <3>8. PendingUntouched' /\ OneProcessor' /\ StrandedOnlyByRetryOrFault'
      BY <3>1, <3>4 DEF PendingUntouched, OneProcessor, StrandedOnlyByRetryOrFault
    <3> QED BY <3>3, <3>6, <3>7, <3>8
  <2>2. CASE ~MayBegin(w)
    <3>1. /\ Leave(w, "done") /\ pc[w] = "begin" /\ ~Processes(w)
          /\ mem' = [mem EXCEPT ![w] = status]
          /\ UNCHANGED <<request, lock, created, apc, faults>>
      BY <1>2, <2>2 DEF BeginProcessing, Processes
    <3>2. mem' \in [Workers \cup Admins -> Statuses]
      BY <3>1 DEF TypeOK
    <3>3. /\ status' \in Statuses /\ error' \in BOOLEAN /\ imports' \in Nat
          /\ lock' \in Workers \cup {None} /\ created' \in BOOLEAN /\ faults' \in 0 .. MaxFaults
      BY <3>1 DEF TypeOK
    <3> QED BY <3>1, <3>2, <3>3, LeaveKeepsInv
  <2> QED BY <2>1, <2>2
<1>3. CASE Fetch(w)
  <2>1. PICK to \in {"check", "retry", "rescue"} : Goto(w, "fetch", to)
    BY <1>3 DEF Fetch
  <2>2. /\ Processes(w) /\ to \in PCs \ {"idle", "begin"}
        /\ pc' = [pc EXCEPT ![w] = to]
    BY <2>1 DEF Goto, Processes, PCs
  <2> QED BY <1>3, <2>1, <2>2, GotoKeepsInv DEF Fetch, Goto, TypeOK
<1>4. CASE CheckCancelled(w)
  <2>1. mem' \in [Workers \cup Admins -> Statuses] /\ Processes(w)
    BY <1>4 DEF CheckCancelled, TypeOK, Processes
  <2>2. CASE SeesCancelled(w)
    <3>1. /\ Leave(w, "done") /\ pc[w] # "idle" /\ status' = "cancelled"
          /\ UNCHANGED <<request, lock, created, apc, faults>>
      BY <1>4, <2>2 DEF CheckCancelled, SeesCancelled
    <3>2. /\ status' \in Statuses /\ error' \in BOOLEAN /\ imports' \in Nat
          /\ lock' \in Workers \cup {None} /\ created' \in BOOLEAN /\ faults' \in 0 .. MaxFaults
      BY <3>1 DEF TypeOK
    <3> QED BY <2>1, <3>1, <3>2, LeaveKeepsInv
  <2>3. CASE ~SeesCancelled(w)
    <3>1. /\ pc' = [pc EXCEPT ![w] = "import"] /\ "import" \in PCs \ {"idle", "begin"}
          /\ UNCHANGED <<request, lock, created, jobs, job, apc, faults>>
      BY <1>4, <2>3 DEF CheckCancelled, Goto, PCs
    <3> QED BY <2>1, <3>1, GotoKeepsInv DEF TypeOK
  <2> QED BY <2>2, <2>3
<1>5. CASE ImportLocksRow(w)
  <2>1. /\ Processes(w) /\ "locked" \in PCs \ {"idle", "begin"}
        /\ pc' = [pc EXCEPT ![w] = "locked"]
        /\ UNCHANGED <<request, created, jobs, job, mem, apc, faults>>
        /\ lock' = w
    BY <1>5 DEF ImportLocksRow, Goto, Processes, PCs
  <2> QED BY <2>1, GotoKeepsInv DEF TypeOK
<1>6. CASE ImportCommit(w)
  <2>1. /\ Leave(w, "done") /\ pc[w] # "idle" /\ Processes(w)
        /\ status' = "completed" /\ error' = FALSE /\ imports' = imports + 1
        /\ lock' = None /\ mem' = [mem EXCEPT ![w] = "completed"]
        /\ UNCHANGED <<created, apc, faults>>
    BY <1>6 DEF ImportCommit, MarkCompleted, Processes
  <2>2. /\ status' \in Statuses /\ imports' \in Nat
        /\ lock' \in Workers \cup {None} /\ faults' \in 0 .. MaxFaults
        /\ mem' \in [Workers \cup Admins -> Statuses]
    BY <2>1 DEF TypeOK, Statuses
  <2>3. error' \in BOOLEAN /\ created' \in BOOLEAN
    BY <2>1, Zenon DEF TypeOK
  <2> QED BY <2>1, <2>2, <2>3, LeaveKeepsInv
<1>7. CASE ImportError(w)
  <2>1. /\ Processes(w) /\ "rescue" \in PCs \ {"idle", "begin"}
        /\ pc' = [pc EXCEPT ![w] = "rescue"]
        /\ UNCHANGED <<request, created, jobs, job, mem, apc, faults>>
        /\ lock' \in {lock, None}
    BY <1>7 DEF ImportError, Processes, PCs
  <2> QED BY <2>1, GotoKeepsInv DEF TypeOK
<1>8. CASE RescueReload(w)
  <2>1. mem' \in [Workers \cup Admins -> Statuses] /\ Processes(w) /\ pc[w] # "idle"
    BY <1>8 DEF RescueReload, TypeOK, Processes
  <2>2. CASE ~MustFail(status)
    <3>1. /\ Leave(w, "failed") /\ status' # "processing" /\ Processes(w)
          /\ UNCHANGED <<request, lock, created, apc, faults>>
      BY <1>8, <2>1, <2>2 DEF RescueReload, MustFail, Terminal
    <3>2. /\ status' \in Statuses /\ error' \in BOOLEAN /\ imports' \in Nat
          /\ lock' \in Workers \cup {None} /\ created' \in BOOLEAN /\ faults' \in 0 .. MaxFaults
      BY <3>1 DEF TypeOK
    <3> QED BY <2>1, <3>1, <3>2, LeaveKeepsInv
  <2>3. CASE MustFail(status)
    <3>1. /\ pc' = [pc EXCEPT ![w] = "rescued"] /\ "rescued" \in PCs \ {"idle", "begin"}
          /\ UNCHANGED <<request, lock, created, jobs, job, apc, faults>>
      BY <1>8, <2>3 DEF RescueReload, Goto, PCs
    <3> QED BY <2>1, <3>1, GotoKeepsInv DEF TypeOK
  <2> QED BY <2>2, <2>3
<1>9. CASE RescueFail(w)
  <2>1. /\ Leave(w, "failed") /\ pc[w] # "idle" /\ Processes(w)
        /\ status' = "failed" /\ error' = TRUE /\ imports' = imports
        /\ mem' = [mem EXCEPT ![w] = "failed"]
        /\ UNCHANGED <<lock, created, apc, faults>>
    BY <1>9 DEF RescueFail, MarkFailed, Processes
  <2>2. /\ status' \in Statuses /\ imports' \in Nat
        /\ lock' \in Workers \cup {None} /\ faults' \in 0 .. MaxFaults
        /\ mem' \in [Workers \cup Admins -> Statuses]
    BY <2>1 DEF TypeOK, Statuses
  <2>3. error' \in BOOLEAN /\ created' \in BOOLEAN
    BY <2>1, Zenon DEF TypeOK
  <2> QED BY <2>1, <2>2, <2>3, LeaveKeepsInv
<1>10. CASE RetryOrFail(w)
  <2>1. pc[w] = "retry" /\ Processes(w)
    BY <1>10 DEF RetryOrFail, Processes
  <2>2. jobs[job[w]].failures + 1 < MaxAttempts
    BY <2>1 DEF ProcessorUndecided, ConstantsAssumption
  <2> QED BY <1>10, <2>1, <2>2, RetryKeepsInv DEF RetryOrFail
<1> QED
  BY <1>1, <1>2, <1>3, <1>4, <1>5, <1>6, <1>7, <1>8, <1>9, <1>10 DEF Work

\* A cancellation keeps the invariant: it never makes a row "processing".
LEMMA AdminInv ==
    ASSUME Inv, NEW a \in Admins, LoadForCancel(a) \/ MarkCancelled(a)
    PROVE  Inv'
<1> USE DEF Inv, request
<1>1. UNCHANGED <<error, imports, lock, created, jobs, pc, job, faults>>
  BY DEF LoadForCancel, MarkCancelled
<1>2. status' \in {status, "cancelled"}
  BY DEF LoadForCancel, MarkCancelled
<1>3. mem' \in [Workers \cup Admins -> Statuses]
  BY DEF LoadForCancel, MarkCancelled, TypeOK, Statuses
<1>4. apc' \in [Admins -> {"idle", "loaded", "done"}]
  BY DEF LoadForCancel, MarkCancelled, TypeOK
<1>5. TypeOK'
  BY <1>1, <1>2, <1>3, <1>4 DEF TypeOK, Statuses
<1>6. \A w \in Workers : Processes(w)' <=> Processes(w)
  BY <1>1 DEF Processes
<1> QED
  BY <1>1, <1>2, <1>5, <1>6 DEF BusyHasJob, PendingUntouched, OneProcessor,
     ProcessorUndecided, StrandedOnlyByRetryOrFault

\* Steps that touch only the rows of the queue.
LEMMA QueueInv ==
    ASSUME ConstantsAssumption, Inv,
           \/ EnqueueProcessing
           \/ WebProcessDies
           \/ \E w \in Workers : PruneWorker(w)
           \/ \E j \in Jobs : RetryFailedJob(j)
    PROVE  Inv'
<1> USE DEF Inv, request
<1>1. /\ UNCHANGED <<request, lock, pc, job, mem, apc>>
      /\ created' \in BOOLEAN
  BY Zenon DEF EnqueueProcessing, WebProcessDies, PruneWorker, RetryFailedJob, TypeOK
<1>2. /\ jobs' \in [Jobs -> JobRow]
      /\ faults' \in 0 .. MaxFaults
      /\ \A j \in Jobs : /\ jobs'[j].failures \in {0, jobs[j].failures}
                         /\ jobs[j].failures > 0 => jobs'[j].failures > 0 \/ faults' > 0
                         /\ jobs[j].state # "none" => jobs'[j].state # "none"
      /\ faults > 0 => faults' > 0
  <2> DEFINE Good(r) == /\ r \in JobRow
                        /\ r.state # "none"
  <2>1. /\ Good(Row("ready", 0, None))
        /\ Row("ready", 0, None).failures = 0
        /\ \A j \in Jobs : \A state \in {"ready", "failed"} :
              /\ Good(Row(state, jobs[j].failures, None))
              /\ Row(state, jobs[j].failures, None).failures = jobs[j].failures
    BY DEF Row, JobRow, TypeOK, ConstantsAssumption
  <2>2. ASSUME EnqueueProcessing PROVE <1>2!1 /\ <1>2!2 /\ <1>2!3 /\ <1>2!4
    <3>1. /\ FirstJob \in Jobs /\ faults' = faults
          /\ jobs' = [jobs EXCEPT ![FirstJob] = Row("ready", jobs[FirstJob].failures, None)]
      BY <2>2 DEF EnqueueProcessing, ConstantsAssumption
    <3> QED BY <3>1, <2>1 DEF TypeOK
  <2>3. ASSUME WebProcessDies PROVE <1>2!1 /\ <1>2!2 /\ <1>2!3 /\ <1>2!4
    BY <2>3 DEF WebProcessDies, TypeOK, JobRow, ConstantsAssumption
  <2>4. ASSUME NEW w \in Workers, PruneWorker(w) PROVE <1>2!1 /\ <1>2!2 /\ <1>2!3 /\ <1>2!4
    <3>1. job[w] \in Jobs
      BY <2>4 DEF PruneWorker, BusyHasJob
    <3>2. jobs' = [jobs EXCEPT ![job[w]] = Row("failed", jobs[job[w]].failures, None)]
      BY <2>4 DEF PruneWorker
    <3>3. faults' \in 0 .. MaxFaults /\ faults' > 0
      BY <2>4 DEF PruneWorker, TypeOK, ConstantsAssumption
    <3> QED BY <3>1, <3>2, <3>3, <2>1 DEF TypeOK
  <2>5. ASSUME NEW j \in Jobs, RetryFailedJob(j) PROVE <1>2!1 /\ <1>2!2 /\ <1>2!3 /\ <1>2!4
    <3>1. jobs' = [jobs EXCEPT ![j] = Row("ready", 0, None)]
      BY <2>5 DEF RetryFailedJob
    <3>2. faults' \in 0 .. MaxFaults /\ faults' > 0
      BY <2>5 DEF RetryFailedJob, TypeOK, ConstantsAssumption
    <3> QED BY <3>1, <3>2, <2>1 DEF TypeOK
  <2> QED BY <2>2, <2>3, <2>4, <2>5
<1>3. TypeOK'
  BY <1>1, <1>2 DEF TypeOK
<1>4. \A w \in Workers : Processes(w)' <=> Processes(w)
  BY <1>1 DEF Processes
<1>5. BusyHasJob'
  BY <1>1, <1>2 DEF BusyHasJob
<1>6. PendingUntouched' /\ OneProcessor' /\ StrandedOnlyByRetryOrFault'
  BY <1>1, <1>2, <1>4 DEF PendingUntouched, OneProcessor, StrandedOnlyByRetryOrFault
<1>7. ProcessorUndecided'
  BY <1>1, <1>2, <1>4 DEF ProcessorUndecided, BusyHasJob, Processes
<1> QED BY <1>3, <1>5, <1>6, <1>7

\* So does a worker that is killed or shut down.
LEMMA StopInv ==
    ASSUME ConstantsAssumption, Inv, NEW w \in Workers, NEW state \in {"failed", "ready"},
           WorkerStops(w, state)
    PROVE  Inv'
<1>1. /\ Leave(w, state) /\ pc[w] # "idle"
      /\ UNCHANGED <<request, created, mem, apc>>
      /\ lock' \in {lock, None} /\ faults < MaxFaults /\ faults' = faults + 1
  BY DEF WorkerStops
<1>2. /\ status' \in Statuses /\ error' \in BOOLEAN /\ imports' \in Nat
      /\ created' \in BOOLEAN /\ mem' \in [Workers \cup Admins -> Statuses]
  BY <1>1 DEF TypeOK, Inv, request
<1>3. lock' \in Workers \cup {None} /\ faults' \in 0 .. MaxFaults /\ faults' > 0
  BY <1>1 DEF TypeOK, Inv, ConstantsAssumption
<1>4. /\ state \in {"ready", "failed", "done"} /\ apc' = apc
      /\ status' = "pending" => UNCHANGED request
      /\ ~Processes(w) => UNCHANGED request
      /\ status' = "processing" =>
           status = "processing" /\ (faults' > 0 \/ (~Processes(w) /\ faults' = faults))
  BY <1>1, <1>3 DEF request
<1> QED BY <1>1, <1>2, <1>3, <1>4, LeaveKeepsInv

\* Every step keeps the invariant.
LEMMA NextInv == ConstantsAssumption /\ Inv /\ [Next]_vars => Inv'
<1> SUFFICES ASSUME ConstantsAssumption, Inv, [Next]_vars PROVE Inv'
  OBVIOUS
<1>1. CASE UNCHANGED vars
  BY <1>1 DEF vars, Inv, TypeOK, BusyHasJob, PendingUntouched, OneProcessor,
     ProcessorUndecided, StrandedOnlyByRetryOrFault, Processes
<1>2. CASE Next
  BY <1>2, WorkInv, AdminInv, QueueInv, StopInv DEF Next
<1> QED BY <1>1, <1>2

\* The inductive invariant holds of every behaviour.
THEOREM Safety == Spec => []Inv
<1>1. Init => Inv
  BY InitInv, ConstantsAssumption
<1>2. Inv /\ [Next]_vars => Inv'
  BY NextInv, ConstantsAssumption
<1> QED BY <1>1, <1>2, PTL DEF Spec

\* The variables stay within their types, and at most one worker is between
\* taking the request and deciding it: it is imported once.
THEOREM OneProcessorTheorem == Spec => [](TypeOK /\ OneProcessor)
<1>1. Inv => TypeOK /\ OneProcessor
  BY DEF Inv
<1> QED BY <1>1, Safety, PTL

\* A request is left "processing" by nobody but a retry or a fault: a worker that
\* runs to its end decides it, whatever the fetch raises.
THEOREM StrandedTheorem == Spec => []StrandedOnlyByRetryOrFault
<1>1. Inv => StrandedOnlyByRetryOrFault
  BY DEF Inv
<1> QED BY <1>1, Safety, PTL

-----------------------------------------------------------------------------
(* A cancellation the worker could still see is final.                     *)

\* No step leaves CancelledForGood, and none imports from there.
LEMMA CancelledStep ==
    ASSUME ConstantsAssumption, Inv, [Next]_vars, CancelledForGood
    PROVE  CancelledForGood' /\ imports' = imports
<1> USE DEF CancelledForGood
<1>1. ASSUME NEW w \in Workers, pc'[w] = "idle",
             \A v \in Workers \ {w} : pc'[v] = pc[v]
      PROVE  \A v \in Workers : ~Undecided(v)'
  BY <1>1 DEF Undecided
<1>2. ASSUME NEW w \in Workers, NEW to \in PCs \ {"import", "locked", "rescued"},
             pc' = [pc EXCEPT ![w] = to]
      PROVE  \A v \in Workers : ~Undecided(v)'
  BY <1>2 DEF Undecided, Inv, TypeOK, PCs
<1>3. \A v \in Workers : pc[v] \notin {"import", "locked", "rescued"}
  BY DEF Undecided
<1>4. CASE UNCHANGED vars
  BY <1>4 DEF vars, Undecided
<1>5. ASSUME NEW w \in Workers, Work(w) PROVE CancelledForGood' /\ imports' = imports
  <2>1. ~ImportLocksRow(w) /\ ~ImportCommit(w) /\ ~ImportError(w) /\ ~RescueFail(w)
    BY <1>3 DEF ImportLocksRow, ImportCommit, ImportError, RescueFail, Goto
  <2>2. ASSUME NEW j \in Jobs, ClaimJob(w, j) PROVE CancelledForGood' /\ imports' = imports
    BY <1>2, <2>2 DEF ClaimJob, request, PCs
  <2>3. CASE BeginProcessing(w)
    <3>1. /\ UNCHANGED <<status, imports>> /\ Leave(w, "done")
      BY <2>3 DEF BeginProcessing, MayBegin
    <3> QED BY <1>2, <3>1 DEF Leave, PCs
  <2>4. CASE Fetch(w)
    <3>1. PICK to \in {"check", "retry", "rescue"} : Goto(w, "fetch", to)
      BY <2>4 DEF Fetch
    <3> QED BY <1>2, <2>4, <3>1 DEF Fetch, Goto, request, PCs
  <2>5. CASE CheckCancelled(w)
    BY <1>2, <2>5 DEF CheckCancelled, SeesCancelled, Leave, request, PCs
  <2>6. CASE RescueReload(w)
    BY <1>2, <2>6 DEF RescueReload, MustFail, Terminal, Leave, request, PCs
  <2>7. CASE RetryOrFail(w)
    <3>1. pc[w] = "retry"
      BY <2>7 DEF RetryOrFail
    <3>2. jobs[job[w]].failures + 1 < MaxAttempts
      BY <3>1 DEF Inv, ProcessorUndecided, Processes, ConstantsAssumption
    <3>3. UNCHANGED request /\ pc' = [pc EXCEPT ![w] = "idle"]
      BY <2>7, <3>2 DEF RetryOrFail, EnqueueRetry
    <3> QED BY <1>2, <3>3 DEF request, PCs
  <2> QED BY <1>5, <2>1, <2>2, <2>3, <2>4, <2>5, <2>6, <2>7 DEF Work
<1>6. ASSUME NEW w \in Workers, NEW state \in {"failed", "ready"}, WorkerStops(w, state)
      PROVE  CancelledForGood' /\ imports' = imports
  BY <1>2, <1>6 DEF WorkerStops, Leave, request, PCs
<1>7. CASE EnqueueProcessing \/ WebProcessDies
           \/ (\E w \in Workers : PruneWorker(w)) \/ (\E j \in Jobs : RetryFailedJob(j))
  BY <1>7 DEF EnqueueProcessing, WebProcessDies, PruneWorker, RetryFailedJob, request, Undecided
<1>8. ASSUME NEW a \in Admins, LoadForCancel(a) \/ MarkCancelled(a)
      PROVE  CancelledForGood' /\ imports' = imports
  BY <1>8 DEF LoadForCancel, MarkCancelled, request, Undecided
<1> QED BY <1>4, <1>5, <1>6, <1>7, <1>8 DEF Next

\* Once a cancellation is written and no worker is past its last look at the
\* row, nothing is imported and the request stays cancelled.
THEOREM CancellationTheorem == Spec => CancellationSticks
<1>1. Inv /\ [Next]_vars => [CancelledForGood => CancelledForGood' /\ imports' = imports]_vars
  BY CancelledStep, ConstantsAssumption
<1> QED BY <1>1, Safety, PTL DEF Spec, CancellationSticks

-----------------------------------------------------------------------------
(* StandardCrawl implements RequestLifecycle.                              *)

\* Every step is a step of RequestLifecycle or a stutter.
LEMMA LifecycleStep ==
    ASSUME ConstantsAssumption, Inv, [Next]_vars
    PROVE  [Lifecycle!Next]_(Lifecycle!vars)
<1> USE DEF request
<1> DEFINE Stutter == UNCHANGED <<status, error, imports>>
<1>1. Stutter => UNCHANGED Lifecycle!vars
  BY DEF Lifecycle!vars, Outcome
<1>2. ASSUME NEW w \in Workers, Work(w) PROVE Stutter \/ Lifecycle!Next
  <2>1. CASE BeginProcessing(w)
    BY <2>1 DEF BeginProcessing, MayBegin, Outcome, Lifecycle!Next, Lifecycle!Begin
  <2>2. CASE ImportCommit(w)
    <3>1. Processes(w)
      BY <2>2 DEF ImportCommit, Processes
    <3>2. Outcome = "none" /\ status \in {"processing", "cancelled"} /\ imports = 0
      BY <3>1 DEF Inv, ProcessorUndecided, Outcome
    <3>3. status' = "completed" /\ imports' = 1
      BY <2>2, <3>2 DEF ImportCommit, MarkCompleted
    <3> QED BY <3>2, <3>3 DEF Outcome, Lifecycle!Next, Lifecycle!Complete
  <2>3. ASSUME Processes(w), MarkFailed PROVE Lifecycle!Next
    <3>1. Outcome = "none" /\ status \in {"processing", "cancelled"} /\ imports = 0
      BY <2>3 DEF Inv, ProcessorUndecided, Outcome
    <3>2. status' = "failed" /\ error' /\ imports' = 0
      BY <2>3, <3>1 DEF MarkFailed
    <3> QED BY <3>1, <3>2 DEF Outcome, Lifecycle!Next, Lifecycle!Fail
  <2>4. CASE RescueFail(w)
    BY <2>3, <2>4 DEF RescueFail, Processes
  <2>5. CASE RetryOrFail(w)
    BY <2>3, <2>5 DEF RetryOrFail, Processes
  <2> QED
    BY <1>2, <2>1, <2>2, <2>4, <2>5
    DEF Work, ClaimJob, Fetch, CheckCancelled, ImportLocksRow, ImportError, RescueReload
<1>3. ASSUME NEW a \in Admins, LoadForCancel(a) \/ MarkCancelled(a)
      PROVE  Stutter \/ Lifecycle!Next
  BY <1>3 DEF LoadForCancel, MarkCancelled, Outcome, Lifecycle!Next, Lifecycle!Cancel
<1>4. ASSUME EnqueueProcessing \/ WebProcessDies
           \/ (\E w \in Workers : \E state \in {"failed", "ready"} : WorkerStops(w, state))
           \/ (\E w \in Workers : PruneWorker(w)) \/ (\E j \in Jobs : RetryFailedJob(j))
      PROVE  Stutter
  BY <1>4 DEF EnqueueProcessing, WebProcessDies, WorkerStops, PruneWorker, RetryFailedJob
<1>5. CASE UNCHANGED vars
  BY <1>1, <1>5 DEF vars
<1> QED BY <1>1, <1>2, <1>3, <1>4, <1>5 DEF Next

\* One start, one decision, import and "completed" together: every behaviour
\* of the pipeline is one the abstract request lifecycle allows.
THEOREM LifecycleTheorem == Spec => LifecycleSpec
<1>1. Init => Lifecycle!Init
  BY DEF Init, Lifecycle!Init, Outcome
<1>2. Inv /\ [Next]_vars => [Lifecycle!Next]_(Lifecycle!vars)
  BY LifecycleStep, ConstantsAssumption
<1> QED BY <1>1, <1>2, Safety, PTL DEF Spec, LifecycleSpec, Lifecycle!Spec
=============================================================================
