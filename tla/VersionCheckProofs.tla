------------------------- MODULE VersionCheckProofs -------------------------
(***************************************************************************)
(* Proofs about VersionCheck for any number of callers, overlapping jobs,  *)
(* requests and changes, any intervals and any number of faults.           *)
(***************************************************************************)
EXTENDS VersionCheck, FiniteSetTheorems, TLAPS

-----------------------------------------------------------------------------
(* The inductive invariant.                                                *)

\* with_lock: the job between its decision and its writes is the one that
\* holds the lock of the row.
LockHeld == \A j \in Jobs : job[j].state = "decided" <=> rowLock = j

\* What was decided under the lock still holds when it is written: nobody else
\* has created a request for the change in the meantime.
RefreshIsNew ==
    \A j \in Jobs :
        job[j].state = "decided" /\ job[j].decision = "refresh" =>
            job[j].probe \in Changes /\ ~ActiveRefresh(job[j].probe)

\* A refresh that is under way is about a change.
ActiveHasChange ==
    \A r \in Requests : request[r].status \in Active => request[r].change \in Changes

Inv == TypeOK /\ LockHeld /\ RefreshIsNew /\ ActiveHasChange /\ OneActiveRefresh

-----------------------------------------------------------------------------
(* What the helpers of the actions do.                                     *)

\* A job moves to a state other than "decided", and the row's lock is free of
\* it: the lock and the decisions of the other jobs stay sound.
LEMMA JobLeaves ==
    ASSUME Inv, NEW j \in Jobs, NEW record \in JobRecord, record.state # "decided",
           Set(j, record), rowLock' = (IF rowLock = j THEN None ELSE rowLock),
           UNCHANGED request
    PROVE  /\ job' \in [Jobs -> JobRecord]
           /\ rowLock' \in Jobs \cup {None}
           /\ LockHeld'
           /\ RefreshIsNew'
<1>1. job' = [job EXCEPT ![j] = record]
  BY DEF Set
<1>2. job' \in [Jobs -> JobRecord] /\ rowLock' \in Jobs \cup {None}
  BY <1>1 DEF Inv, TypeOK
<1>3. \A k \in Jobs \ {j} : job'[k] = job[k]
  BY <1>1 DEF Inv, TypeOK
<1>4. job'[j].state # "decided"
  BY <1>1 DEF Inv, TypeOK
<1>5. LockHeld'
  BY <1>3, <1>4, ConstantsAssumption DEF Inv, LockHeld
<1>6. \A c : ActiveRefresh(c)' = ActiveRefresh(c)
  BY DEF ActiveRefresh
<1>7. RefreshIsNew'
  BY <1>3, <1>4, <1>6 DEF Inv, RefreshIsNew
<1> QED BY <1>2, <1>5, <1>7

\* A record of a job that is not under way is a record.
LEMMA SlotType ==
    ASSUME NEW state \in {"none", "queued", "probed", "failed", "decided", "raised"},
           NEW attempts \in 0 .. MaxAttempts - 1,
           NEW probe \in Changes \cup {None},
           NEW decision \in {"none", "no_change", "known", "refresh"}
    PROVE  /\ Slot(state, attempts, probe, decision) \in JobRecord
           /\ Slot(state, attempts, probe, decision).state = state
           /\ Slot(state, attempts, probe, decision).probe = probe
           /\ Slot(state, attempts, probe, decision).decision = decision
BY DEF Slot, JobRecord

\* NoJob is a record, and not a decided one.
LEMMA NoJobType == NoJob \in JobRecord /\ NoJob.state = "none"
<1>1. 0 \in 0 .. MaxAttempts - 1
  BY ConstantsAssumption
<1> QED BY <1>1, SlotType DEF NoJob

\* Every interval is within the bound on next.
LEMMA ScheduleType ==
    ASSUME TypeOK, NEW interval \in {HotInterval, NormalInterval, ColdInterval},
           Reschedule(interval)
    PROVE  next' \in 0 .. MaxInterval
BY ConstantsAssumption DEF Reschedule, MaxInterval

\* A step of one request that makes none active: no change gains a refresh.
LEMMA RequestStep ==
    ASSUME Inv, NEW r \in Requests,
           NEW s \in {"pending", "processing", "completed", "failed", "cancelled"},
           request[r].status \in Active, SetStatus(r, s), UNCHANGED job
    PROVE  /\ request' \in [Requests -> RequestRecord]
           /\ RefreshIsNew'
           /\ ActiveHasChange'
           /\ OneActiveRefresh'
<1> DEFINE new == [status |-> s, change |-> request[r].change]
<1>1. request' = [request EXCEPT ![r] = new]
  BY DEF SetStatus
<1>2. new \in RequestRecord /\ new.change = request[r].change
  BY DEF Inv, TypeOK, RequestRecord
<1>3. request' \in [Requests -> RequestRecord]
  BY <1>1, <1>2 DEF Inv, TypeOK
<1>4. \A q \in Requests : /\ request'[q].change = request[q].change
                          /\ request'[q].status \in Active => request[q].status \in Active
  BY <1>1, <1>2 DEF Inv, TypeOK
<1>5. \A c : ActiveRefresh(c)' => ActiveRefresh(c)
  BY <1>4 DEF ActiveRefresh
<1>6. RefreshIsNew'
  BY <1>5 DEF Inv, RefreshIsNew
<1>7. ActiveHasChange' /\ OneActiveRefresh'
  BY <1>4 DEF Inv, ActiveHasChange, OneActiveRefresh
<1> QED BY <1>3, <1>6, <1>7

-----------------------------------------------------------------------------
(* The steps.                                                              *)

\* The invariant holds of a new source.
LEMMA InitInv == Init => Inv
<1> SUFFICES ASSUME Init PROVE Inv
  OBVIOUS
<1>1. job \in [Jobs -> JobRecord] /\ \A j \in Jobs : job[j].state = "none"
  BY NoJobType DEF Init
<1>2. /\ request \in [Requests -> RequestRecord]
      /\ \A r \in Requests : request[r].status = "none"
  BY DEF Init, RequestRecord
<1>3. next \in 0 .. MaxInterval
  BY ConstantsAssumption DEF Init, InitialInterval, MaxInterval
<1>4. stored \subseteq Changes
  BY Zenon DEF Init
<1>5. TypeOK
  BY <1>1, <1>2, <1>3, <1>4, ConstantsAssumption DEF Init, TypeOK, Never
<1>6. LockHeld /\ RefreshIsNew
  BY <1>1, ConstantsAssumption DEF Init, LockHeld, RefreshIsNew
<1>7. ActiveHasChange /\ OneActiveRefresh
  BY <1>2 DEF ActiveHasChange, OneActiveRefresh, Active
<1> QED BY <1>5, <1>6, <1>7 DEF Inv

\* Time, callers and the outside world touch neither jobs nor requests.
LEMMA CallerInv ==
    ASSUME Inv,
           \/ Tick
           \/ \E c \in Callers : ClaimCheck(c) \/ EnqueueRaises(c) \/ CallerDies(c)
           \/ Publish
    PROVE  Inv'
<1>1. UNCHANGED <<rowLock, job, request>>
  BY DEF Tick, ClaimCheck, EnqueueRaises, CallerDies, Publish
<1>2. LockHeld' /\ RefreshIsNew' /\ ActiveHasChange' /\ OneActiveRefresh'
  BY <1>1 DEF Inv, LockHeld, RefreshIsNew, ActiveRefresh, ActiveHasChange, OneActiveRefresh
<1>3. CASE Tick
  <2>1. claim' \in 0 .. ClaimTimeout /\ next' \in 0 .. MaxInterval /\ sinceChange' \in 0 .. Never
    BY <1>3, ConstantsAssumption DEF Tick, Decrement, Inv, TypeOK, Never, MaxInterval
  <2>2. TypeOK'
    BY <1>3, <2>1 DEF Tick, Inv, TypeOK, world
  <2> QED BY <1>2, <2>2 DEF Inv
<1>4. ASSUME NEW c \in Callers, ClaimCheck(c) \/ EnqueueRaises(c) \/ CallerDies(c)
      PROVE  Inv'
  <2>1. caller' \in [Callers -> BOOLEAN]
    BY <1>4, Zenon DEF Inv, TypeOK, ClaimCheck, EnqueueRaises, CallerDies
  <2>2. claim' \in 0 .. ClaimTimeout /\ faults' \in 0 .. MaxFaults
    BY <1>4, ConstantsAssumption
    DEF Inv, TypeOK, ClaimCheck, EnqueueRaises, CallerDies, Fault, schedule, world
  <2>3. UNCHANGED <<kind, upstream, stored, next, sinceChange, noChange, signature>>
    BY <1>4 DEF ClaimCheck, EnqueueRaises, CallerDies, schedule, world
  <2>4. TypeOK'
    BY <1>1, <2>1, <2>2, <2>3 DEF Inv, TypeOK
  <2> QED BY <1>2, <2>4 DEF Inv
<1>5. CASE Publish
  <2>1. TypeOK'
    BY <1>5, ConstantsAssumption DEF Publish, Fault, Inv, TypeOK, schedule
  <2> QED BY <1>2, <2>1 DEF Inv
<1> QED BY <1>3, <1>4, <1>5

\* A job appears, probes, fails, retries, raises or dies: it decides nothing.
LEMMA JobInv ==
    ASSUME Inv, NEW j \in Jobs,
           \/ \E c \in Callers : EnqueueCheck(c, j)
           \/ Probe(j) \/ ProbeTransient(j) \/ RetryCheck(j)
           \/ Raises(j) \/ ClearClaim(j) \/ JobDies(j)
    PROVE  Inv'
<1>1. /\ job[j] \in JobRecord
      /\ job[j].attempts \in 0 .. MaxAttempts - 1
      /\ upstream \in Changes \cup {None}
      /\ 0 \in 0 .. MaxAttempts - 1
  BY ConstantsAssumption DEF Inv, TypeOK, JobRecord
<1>2. PICK record \in JobRecord : Set(j, record) /\ record.state # "decided"
  <2>1. ASSUME NEW c \in Callers, EnqueueCheck(c, j)
        PROVE  \E record \in JobRecord : Set(j, record) /\ record.state # "decided"
    BY <1>1, <2>1, SlotType DEF EnqueueCheck
  <2>2. ASSUME Probe(j)
        PROVE  \E record \in JobRecord : Set(j, record) /\ record.state # "decided"
    BY <1>1, <2>2, SlotType DEF Probe
  <2>3. ASSUME ProbeTransient(j)
        PROVE  \E record \in JobRecord : Set(j, record) /\ record.state # "decided"
    BY <1>1, <2>3, SlotType DEF ProbeTransient
  <2>4. ASSUME RetryCheck(j)
        PROVE  \E record \in JobRecord : Set(j, record) /\ record.state # "decided"
    <3>1. CASE MayRetry(j)
      <4>1. job[j].attempts + 1 \in 0 .. MaxAttempts - 1
        BY <1>1, <3>1, ConstantsAssumption DEF MayRetry
      <4> QED BY <2>4, <3>1, <4>1, SlotType DEF RetryCheck
    <3>2. CASE ~MayRetry(j)
      BY <2>4, <3>2, NoJobType DEF RetryCheck
    <3> QED BY <3>1, <3>2
  <2>5. ASSUME Raises(j)
        PROVE  \E record \in JobRecord : Set(j, record) /\ record.state # "decided"
    BY <1>1, <2>5, SlotType DEF Raises
  <2>6. ASSUME ClearClaim(j) \/ JobDies(j)
        PROVE  \E record \in JobRecord : Set(j, record) /\ record.state # "decided"
    BY <2>6, NoJobType DEF ClearClaim, JobDies
  <2> QED BY <2>1, <2>2, <2>3, <2>4, <2>5, <2>6
<1>3. rowLock' = (IF rowLock = j THEN None ELSE rowLock) /\ UNCHANGED request
  <2>1. CASE Raises(j) \/ JobDies(j)
    BY <2>1 DEF Raises, JobDies
  <2>2. CASE ~(Raises(j) \/ JobDies(j))
    <3>1. UNCHANGED <<rowLock, request>> /\ job[j].state # "decided"
      BY <2>2 DEF EnqueueCheck, Probe, ProbeTransient, RetryCheck, ClearClaim
    <3> QED BY <3>1 DEF Inv, LockHeld
  <2> QED BY <2>1, <2>2
<1>4. /\ job' \in [Jobs -> JobRecord]
      /\ rowLock' \in Jobs \cup {None}
      /\ LockHeld'
      /\ RefreshIsNew'
  BY <1>2, <1>3, JobLeaves
<1>5. ActiveHasChange' /\ OneActiveRefresh'
  BY <1>3 DEF Inv, ActiveHasChange, OneActiveRefresh
<1>6. caller' \in [Callers -> BOOLEAN]
  BY Zenon DEF Inv, TypeOK, EnqueueCheck, Probe, ProbeTransient, RetryCheck, Raises, ClearClaim, JobDies
<1>7. UNCHANGED <<kind, upstream, stored, sinceChange, noChange, signature>>
  BY DEF EnqueueCheck, Probe, ProbeTransient, RetryCheck, Raises, ClearClaim, JobDies, schedule, world
<1>8. claim' \in 0 .. ClaimTimeout /\ next' \in 0 .. MaxInterval /\ faults' \in 0 .. MaxFaults
  <2>1. CASE ProbeTransient(j)
    <3>1. next' \in 0 .. MaxInterval
      BY <2>1, ScheduleType DEF ProbeTransient, Inv
    <3> QED BY <2>1, <3>1, ConstantsAssumption DEF ProbeTransient, Fault, Inv, TypeOK
  <2>2. CASE ~ProbeTransient(j)
    BY <2>2, ConstantsAssumption
    DEF EnqueueCheck, Probe, RetryCheck, Raises, ClearClaim, JobDies, Fault, Inv, TypeOK, schedule, world
  <2> QED BY <2>1, <2>2
<1>9. TypeOK'
  BY <1>3, <1>4, <1>6, <1>7, <1>8 DEF Inv, TypeOK
<1> QED BY <1>4, <1>5, <1>9 DEF Inv

\* The job that takes the lock decides on what it sees, and holds the lock.
LEMMA DecideInv ==
    ASSUME Inv, NEW j \in Jobs, LockAndDecide(j)
    PROVE  Inv'
<1> DEFINE record == Slot("decided", job[j].attempts, job[j].probe, Decision(job[j].probe))
<1>1. /\ job[j].attempts \in 0 .. MaxAttempts - 1
      /\ job[j].probe \in Changes \cup {None}
      /\ Decision(job[j].probe) \in {"no_change", "known", "refresh"}
  BY DEF Inv, TypeOK, JobRecord, Decision
<1>2. /\ record \in JobRecord
      /\ record.state = "decided"
      /\ record.probe = job[j].probe
      /\ record.decision = Decision(job[j].probe)
  BY <1>1, SlotType
<1>3. /\ job' = [job EXCEPT ![j] = record]
      /\ rowLock = None
      /\ rowLock' = j
      /\ UNCHANGED <<world, schedule, caller, request>>
  BY DEF LockAndDecide, Set
<1> HIDE DEF record
<1>4. /\ job' \in [Jobs -> JobRecord]
      /\ job'[j] = record
      /\ \A k \in Jobs \ {j} : job'[k] = job[k] /\ job[k].state # "decided"
  BY <1>2, <1>3, ConstantsAssumption DEF Inv, TypeOK, LockHeld
<1>5. LockHeld'
  BY <1>2, <1>3, <1>4 DEF LockHeld
<1>6. \A c : ActiveRefresh(c)' = ActiveRefresh(c)
  BY <1>3 DEF ActiveRefresh
<1>7. Decision(job[j].probe) = "refresh" =>
        job[j].probe \in Changes /\ ~ActiveRefresh(job[j].probe)
  BY <1>1 DEF Decision
<1>8. RefreshIsNew'
  BY <1>2, <1>4, <1>6, <1>7 DEF RefreshIsNew
<1>9. ActiveHasChange' /\ OneActiveRefresh'
  BY <1>3 DEF Inv, ActiveHasChange, OneActiveRefresh
<1>10. TypeOK'
  BY <1>3, <1>4 DEF Inv, TypeOK, world, schedule
<1> QED BY <1>5, <1>8, <1>9, <1>10 DEF Inv

\* The writes under the lock: a refresh they create is the only active one.
LEMMA RecordInv ==
    ASSUME Inv, NEW j \in Jobs, Record(j)
    PROVE  Inv'
<1>1. /\ job[j].state = "decided"
      /\ rowLock = j
      /\ job[j].probe \in Changes \cup {None}
  BY DEF Record, Inv, LockHeld, TypeOK, JobRecord
<1>2. /\ job' = [job EXCEPT ![j] = NoJob]
      /\ rowLock' = None
      /\ UNCHANGED <<world, caller>>
  BY DEF Record, Set
<1>3. /\ job' \in [Jobs -> JobRecord]
      /\ \A k \in Jobs : job'[k].state # "decided"
  BY <1>1, <1>2, NoJobType DEF Inv, TypeOK, LockHeld
<1>4. LockHeld' /\ RefreshIsNew'
  BY <1>2, <1>3, ConstantsAssumption DEF LockHeld, RefreshIsNew
<1>5. /\ request' \in [Requests -> RequestRecord]
      /\ ActiveHasChange'
      /\ OneActiveRefresh'
  <2>1. CASE job[j].decision = "refresh"
    <3> DEFINE new == [status |-> "pending", change |-> job[j].probe]
    <3>1. PICK r \in Requests : /\ request[r].status \notin Active
                                /\ request' = [request EXCEPT ![r] = new]
      BY <2>1 DEF Record
    <3>2. job[j].probe \in Changes /\ ~ActiveRefresh(job[j].probe)
      BY <1>1, <2>1 DEF Inv, RefreshIsNew
    <3>3. new \in RequestRecord /\ new.change = job[j].probe
      BY <3>2 DEF RequestRecord
    <3> HIDE DEF new
    <3>4. /\ request' \in [Requests -> RequestRecord]
          /\ request'[r].change = job[j].probe
          /\ \A q \in Requests \ {r} : request'[q] = request[q]
      BY <3>1, <3>3 DEF Inv, TypeOK
    <3>5. ActiveHasChange'
      BY <3>2, <3>4 DEF Inv, ActiveHasChange
    <3>6. \A q \in Requests \ {r} :
             request'[q].status \in Active => request'[q].change # request'[r].change
      BY <3>2, <3>4 DEF ActiveRefresh
    <3>7. OneActiveRefresh'
      BY <3>4, <3>6 DEF Inv, OneActiveRefresh
    <3> QED BY <3>4, <3>5, <3>7
  <2>2. CASE job[j].decision # "refresh"
    BY <2>2 DEF Record, Inv, TypeOK, ActiveHasChange, OneActiveRefresh
  <2> QED BY <2>1, <2>2
<1>6. /\ claim' \in 0 .. ClaimTimeout
      /\ next' \in 0 .. MaxInterval
      /\ noChange' \in 0 .. ColdThreshold
      /\ sinceChange' \in 0 .. Never
  <2>1. CASE job[j].decision = "no_change"
    <3>1. RecordNoChange
      BY <2>1 DEF Record
    <3>2. Interval \in {HotInterval, NormalInterval, ColdInterval}
      BY DEF Interval
    <3>3. next' \in 0 .. MaxInterval
      BY <3>1, <3>2, ScheduleType DEF RecordNoChange, Inv
    <3> QED BY <3>1, <3>3, ConstantsAssumption DEF RecordNoChange, Inv, TypeOK
  <2>2. CASE job[j].decision # "no_change"
    <3>1. RecordChange
      BY <2>2 DEF Record
    <3>2. next' \in 0 .. MaxInterval
      BY <3>1, ScheduleType DEF RecordChange, Inv
    <3> QED BY <3>1, <3>2, ConstantsAssumption DEF RecordChange, Never
  <2> QED BY <2>1, <2>2
<1>7. signature' \in Changes \cup {None}
  BY <1>1 DEF Record, RecordSignature, Inv, TypeOK
<1>8. TypeOK'
  BY <1>2, <1>3, <1>5, <1>6, <1>7 DEF Inv, TypeOK, world
<1> QED BY <1>4, <1>5, <1>8 DEF Inv

\* The crawls end what a check created, and create nothing.
LEMMA CrawlInv ==
    ASSUME Inv, NEW r \in Requests,
           RequestBegins(r) \/ RequestCompletes(r) \/ RequestFails(r)
    PROVE  Inv'
<1>1. UNCHANGED <<kind, upstream, schedule, rowLock, caller, job>>
  BY DEF RequestBegins, RequestCompletes, RequestFails, world
<1>2. request[r].status \in Active
  BY DEF RequestBegins, RequestCompletes, RequestFails, Active
<1>3. /\ request' \in [Requests -> RequestRecord]
      /\ RefreshIsNew'
      /\ ActiveHasChange'
      /\ OneActiveRefresh'
  BY <1>1, <1>2, RequestStep DEF RequestBegins, RequestCompletes, RequestFails
<1>4. stored' \subseteq Changes /\ faults' \in 0 .. MaxFaults
  <2>1. request[r].change \in Changes
    BY <1>2 DEF Inv, ActiveHasChange
  <2> QED BY <2>1, ConstantsAssumption
          DEF RequestBegins, RequestCompletes, RequestFails, Fault, world, Inv, TypeOK
<1>5. TypeOK'
  BY <1>1, <1>3, <1>4 DEF Inv, TypeOK, schedule
<1>6. LockHeld'
  BY <1>1 DEF Inv, LockHeld
<1> QED BY <1>3, <1>5, <1>6 DEF Inv

\* Every step keeps the invariant.
LEMMA NextInv == Inv /\ [Next]_vars => Inv'
<1> SUFFICES ASSUME Inv, [Next]_vars PROVE Inv'
  OBVIOUS
<1>1. CASE \/ Tick
           \/ \E c \in Callers : ClaimCheck(c) \/ EnqueueRaises(c) \/ CallerDies(c)
           \/ Publish
  BY <1>1, CallerInv
<1>2. ASSUME NEW c \in Callers, NEW j \in Jobs, EnqueueCheck(c, j)
      PROVE  Inv'
  BY <1>2, JobInv
<1>3. ASSUME NEW j \in Jobs, Check(j) \/ JobDies(j)
      PROVE  Inv'
  BY <1>3, JobInv, DecideInv, RecordInv DEF Check
<1>4. ASSUME NEW r \in Requests, RequestBegins(r) \/ RequestCompletes(r) \/ RequestFails(r)
      PROVE  Inv'
  BY <1>4, CrawlInv
<1>5. CASE UNCHANGED vars
  BY <1>5 DEF vars, world, schedule, Inv, TypeOK, LockHeld, RefreshIsNew, ActiveRefresh,
              ActiveHasChange, OneActiveRefresh
<1> QED BY <1>1, <1>2, <1>3, <1>4, <1>5 DEF Next

-----------------------------------------------------------------------------
(* The theorem.                                                            *)

\* However many checks of a source overlap, and whatever raises or dies, its
\* state is well typed and no change of it has two active crawls.
THEOREM OneActiveRefreshTheorem == Spec => [](TypeOK /\ OneActiveRefresh)
<1>1. Inv => TypeOK /\ OneActiveRefresh
  BY DEF Inv
<1> QED BY <1>1, InitInv, NextInv, PTL DEF Spec

-----------------------------------------------------------------------------
(* Checks that end in time.                                                *)

\* A caller or a job is on its way with a check.
Busy == (\E c \in Callers : caller[c]) \/ (\E j \in Jobs : job[j].state # "none")

AtMostOne ==
    /\ \A c, d \in Callers : caller[c] /\ caller[d] => c = d
    /\ \A j, k \in Jobs : job[j].state # "none" /\ job[k].state # "none" => j = k
    /\ \A c \in Callers, j \in Jobs : ~(caller[c] /\ job[j].state # "none")

\* While a check is on its way, the claim or the schedule keeps the source from
\* being due: nobody else claims it.
InTime == kind.prompt => AtMostOne /\ (Busy => claim > 0 \/ next > 0)

\* Outstanding counts what is on its way.
LEMMA OutstandingIs ==
    ASSUME AtMostOne
    PROVE  /\ Busy => Outstanding = 1
           /\ ~Busy => Outstanding = 0
<1> DEFINE C == {c \in Callers : caller[c]}
           J == {j \in Jobs : job[j].state # "none"}
<1>1. Outstanding = Cardinality(C) + Cardinality(J)
  BY DEF Outstanding
<1>2. (C = {} => Cardinality(C) = 0) /\ (J = {} => Cardinality(J) = 0)
  BY FS_EmptySet
<1>3. (\A c : C = {c} => Cardinality(C) = 1) /\ (\A j : J = {j} => Cardinality(J) = 1)
  BY FS_Singleton
<1>4. CASE \E c \in Callers : caller[c]
  <2>1. PICK c \in Callers : C = {c}
    BY <1>4 DEF AtMostOne
  <2>2. J = {} /\ Busy
    BY <1>4 DEF AtMostOne, Busy
  <2> QED BY <1>1, <1>2, <1>3, <2>1, <2>2
<1>5. CASE (\A c \in Callers : ~caller[c]) /\ \E j \in Jobs : job[j].state # "none"
  <2>1. PICK j \in Jobs : J = {j}
    BY <1>5 DEF AtMostOne
  <2>2. C = {} /\ Busy
    BY <1>5 DEF Busy
  <2> QED BY <1>1, <1>2, <1>3, <2>1, <2>2
<1>6. CASE (\A c \in Callers : ~caller[c]) /\ \A j \in Jobs : job[j].state = "none"
  <2>1. C = {} /\ J = {} /\ ~Busy
    BY <1>6 DEF Busy
  <2> QED BY <1>1, <1>2, <2>1
<1> QED BY <1>4, <1>5, <1>6

\* Only the caller that claims puts a check on its way, and finds none there.
LEMMA ClaimInTime ==
    ASSUME Inv, InTime, kind.prompt, NEW c \in Callers, ClaimCheck(c)
    PROVE  InTime'
<1>1. ~Busy
  BY DEF InTime, ClaimCheck, Due
<1>2. /\ \A d \in Callers : caller'[d] => d = c
      /\ job' = job /\ claim' = ClaimTimeout
  BY <1>1, Zenon DEF ClaimCheck, Busy, Inv, TypeOK
<1>3. AtMostOne'
  BY <1>1, <1>2 DEF AtMostOne, Busy
<1> QED BY <1>2, <1>3, ConstantsAssumption DEF InTime

\* A caller that goes away, without or with a job.
LEMMA CallerInTime ==
    ASSUME Inv, InTime, kind.prompt, NEW c \in Callers,
           EnqueueRaises(c) \/ CallerDies(c) \/ \E j \in Jobs : EnqueueCheck(c, j)
    PROVE  InTime'
<1>1. AtMostOne /\ (claim > 0 \/ next > 0) /\ caller[c]
  BY DEF InTime, Busy, EnqueueRaises, CallerDies, EnqueueCheck
<1>2. \A d \in Callers : ~caller'[d]
  BY <1>1, Zenon DEF AtMostOne, EnqueueRaises, CallerDies, EnqueueCheck, Inv, TypeOK
<1>3. CASE EnqueueRaises(c) \/ CallerDies(c)
  <2>1. job' = job /\ \A j \in Jobs : job[j].state = "none"
    BY <1>1, <1>3 DEF AtMostOne, EnqueueRaises, CallerDies
  <2> QED BY <1>2, <2>1 DEF InTime, AtMostOne, Busy
<1>4. ASSUME NEW j \in Jobs, EnqueueCheck(c, j) PROVE InTime'
  <2>1. \A k \in Jobs : k # j => job'[k].state = "none"
    BY <1>1, <1>4 DEF AtMostOne, EnqueueCheck, Set, Inv, TypeOK
  <2>2. UNCHANGED <<claim, next>>
    BY <1>4 DEF EnqueueCheck, schedule
  <2> QED BY <1>1, <1>2, <2>1, <2>2 DEF InTime, AtMostOne
<1> QED BY <1>3, <1>4

\* A job that goes on stays within its claim or schedule; at its end nothing is
\* on its way any more.
LEMMA JobInTime ==
    ASSUME Inv, InTime, kind.prompt, NEW j \in Jobs, Check(j) \/ JobDies(j)
    PROVE  InTime'
<1>1. AtMostOne /\ (claim > 0 \/ next > 0) /\ job[j].state # "none"
  BY DEF InTime, Busy, Check, JobDies, Probe, ProbeTransient, RetryCheck, LockAndDecide, Record, Raises,
     ClearClaim
<1>2. caller' = caller /\ \A k \in Jobs : k # j => job'[k].state = "none"
  <2>1. \E record : Set(j, record)
    BY DEF Check, JobDies, Probe, ProbeTransient, RetryCheck, LockAndDecide, Record, Raises, ClearClaim
  <2>2. \A k \in Jobs : k # j => job'[k] = job[k]
    BY <2>1 DEF Set, Inv, TypeOK
  <2>3. caller' = caller
    BY DEF Check, JobDies, Probe, ProbeTransient, RetryCheck, LockAndDecide, Record, Raises, ClearClaim
  <2> QED BY <1>1, <2>2, <2>3 DEF AtMostOne
<1>3. AtMostOne'
  BY <1>1, <1>2 DEF AtMostOne
<1>4. CASE Probe(j) \/ RetryCheck(j) \/ LockAndDecide(j) \/ Raises(j) \/ JobDies(j)
  <2>1. UNCHANGED <<claim, next>>
    BY <1>4 DEF Probe, RetryCheck, LockAndDecide, Raises, JobDies, schedule
  <2> QED BY <1>1, <1>3, <2>1 DEF InTime
<1>5. CASE ProbeTransient(j)
  <2>1. next' > 0
    BY <1>5, ConstantsAssumption DEF ProbeTransient, Reschedule
  <2> QED BY <1>3, <2>1 DEF InTime
<1>6. CASE Record(j) \/ ClearClaim(j)
  <2>1. job'[j].state = "none"
    BY <1>6, NoJobType DEF Record, ClearClaim, Set, Inv, TypeOK
  <2>2. ~Busy'
    BY <1>1, <1>2, <2>1 DEF Busy, AtMostOne
  <2> QED BY <1>3, <2>2 DEF InTime
<1> QED BY <1>4, <1>5, <1>6 DEF Check

\* Time does not pass over the end of a check's claim and schedule.
LEMMA TickInTime ==
    ASSUME Inv, InTime, kind.prompt, Tick
    PROVE  InTime'
<1>1. AtMostOne' /\ AtMostOne /\ (Busy' <=> Busy)
  BY DEF Tick, InTime, AtMostOne, Busy
<1>2. CASE Busy
  <2>1. Outstanding = 1
    BY <1>1, <1>2, OutstandingIs
  <2>2. claim > 1 \/ next > 1
    BY <2>1 DEF Tick
  <2>3. claim' > 0 \/ next' > 0
    BY <2>2 DEF Tick, Decrement, Inv, TypeOK
  <2> QED BY <1>1, <2>3 DEF InTime
<1>3. CASE ~Busy
  BY <1>1, <1>3 DEF InTime
<1> QED BY <1>2, <1>3

LEMMA InTimeStep == Inv /\ InTime /\ [Next]_vars => InTime'
<1>0. [Next]_vars => kind' = kind
  BY DEF Next, Tick, ClaimCheck, EnqueueRaises, CallerDies, EnqueueCheck, Check, Probe, ProbeTransient,
         RetryCheck, LockAndDecide, Record, Raises, ClearClaim, JobDies, RequestBegins,
         RequestCompletes, RequestFails, Publish, world, vars
<1> SUFFICES ASSUME Inv, InTime, [Next]_vars, kind.prompt PROVE InTime'
  BY <1>0 DEF InTime
<1>1. CASE UNCHANGED <<claim, next, caller, job>>
  BY <1>1 DEF InTime, AtMostOne, Busy
<1>2. ASSUME NEW r \in Requests, RequestBegins(r) \/ RequestCompletes(r) \/ RequestFails(r)
      PROVE  InTime'
  BY <1>1, <1>2 DEF RequestBegins, RequestCompletes, RequestFails, schedule
<1>3. CASE Publish \/ UNCHANGED vars
  BY <1>1, <1>3 DEF Publish, vars, schedule
<1> QED BY <1>2, <1>3, ClaimInTime, CallerInTime, JobInTime, TickInTime DEF Next

\* While checks end before their claim and schedule expire, one caller or one
\* job is on its way with a check of the source, however many callers there are
\* and whatever raises, is retried or dies.
THEOREM OneOutstandingCheckTheorem == Spec => []OneOutstandingCheck
<1>1. Init => InTime
  BY NoJobType DEF Init, InTime, AtMostOne, Busy
<1>2. InTime => OneOutstandingCheck
  <2> SUFFICES ASSUME InTime, kind.prompt PROVE Outstanding <= 1
    BY DEF OneOutstandingCheck
  <2> QED BY OutstandingIs DEF InTime
<1> QED BY <1>1, <1>2, InitInv, NextInv, InTimeStep, PTL DEF Spec
=============================================================================
