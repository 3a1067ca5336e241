------------------------ MODULE RollupRefreshProofs ------------------------
(***************************************************************************)
(* Proofs about RollupRefresh for any set of requests and any number of    *)
(* faults.                                                                 *)
(***************************************************************************)
EXTENDS RollupRefresh, TLAPS

-----------------------------------------------------------------------------
(* The inductive invariants.                                               *)

\* The transaction of the job that has the advisory lock: none writes when no
\* job runs, and what it sees as processed was requested.
TxWithinRequested == (pc = "idle" => tx = NoWrites) /\ SeenProcessed <= request

\* The version that is being refreshed is one that was requested, not yet
\* processed, and stays so until the job has recorded it.
VersionInWork == pc \in {"refresh", "mark"} => SeenProcessed < version /\ version <= request

\* Before a version is recorded, every event requested up to it is counted.
CountedBeforeMark == pc = "mark" /\ request = version => Requested \subseteq tx.rollup

\* ProcessedIsCounted, as the job's transaction sees it.
CountedInTx == pc # "idle" /\ request <= SeenProcessed => Requested \subseteq tx.rollup

Inv ==
    /\ TypeOK
    /\ TxWithinRequested /\ VersionInWork /\ CountedBeforeMark /\ CountedInTx
    /\ ProcessedIsCounted /\ ProcessedWithinRequested

\* The claim is set exactly as long as there is a job for it, and then there is
\* a version to process; with no claim, a pending request is about to make one.
ClaimHasJob ==
    /\ Jobs <= 1
    /\ marker = IF Jobs = 0 THEN "null" ELSE "fresh"
    /\ Jobs = 1 => Pending
    /\ Jobs = 0 /\ Pending => \E r \in Requests : step[r] = "marked"

\* The job's own writes keep to the same rule: the claim stands until it is
\* cleared, and is set again exactly when there is more to process.
ClaimInTx ==
    /\ pc \in {"look", "refresh", "mark", "clear"} /\ tx.locked => tx.marker = "fresh"
    /\ pc = "again" => tx.locked /\ tx.marker = "null" /\ ~tx.owes
    /\ pc = "commit" => /\ tx.locked
                        /\ tx.owes <=> request > tx.processed
                        /\ tx.marker = IF tx.owes THEN "fresh" ELSE "null"

ClaimInv == TypeOK /\ (faults = 0 => ClaimHasJob /\ ClaimInTx)

-----------------------------------------------------------------------------
(* Types.                                                                  *)

\* What Write puts into the transaction is a transaction.
LEMMA WriteType ==
    ASSUME TypeOK, NEW done \in Nat, NEW mark \in {"null", "fresh", "stale"},
           NEW owes \in BOOLEAN, Write(done, mark, owes)
    PROVE  /\ tx' \in Tx
           /\ tx'.locked /\ tx'.processed = done /\ tx'.marker = mark
           /\ tx'.owes = owes /\ tx'.rollup = tx.rollup
BY DEF Write, TypeOK, Tx

\* What a transaction sees has the types of the row.
LEMMA SeenType ==
    ASSUME TypeOK
    PROVE  SeenProcessed \in Nat /\ SeenMarker \in {"null", "fresh", "stale"}
BY DEF TypeOK, Tx, SeenProcessed, SeenMarker

\* Every step preserves the types.
LEMMA TypeStep == TypeOK /\ [Next]_vars => TypeOK'
<1> SUFFICES ASSUME TypeOK, [Next]_vars
             PROVE  TypeOK'
  OBVIOUS
<1>1. CASE UNCHANGED vars
  BY <1>1 DEF TypeOK, vars, row, job
<1>2. ASSUME NEW r \in Requests, Store(r) \/ Enqueue(r) \/ RequestDies(r)
      PROVE  TypeOK'
  BY <1>2, ConstantsAssumption
     DEF TypeOK, Store, Enqueue, MarkRequested, TryEnqueue, AlreadyEnqueued, RequestDies,
         Advance, Fault, row, job
<1>3. CASE EnqueueJob \/ JobFindsLockTaken \/ Look \/ Cleanup
  BY <1>3 DEF TypeOK, EnqueueJob, JobFindsLockTaken, Look, Cleanup, row, job
<1>10. CASE JobStarts
  <2>1. [NoWrites EXCEPT !.rollup = rollup] \in Tx
    BY DEF TypeOK, Tx, NoWrites
  <2> QED BY <1>10, <2>1 DEF TypeOK, JobStarts, row
<1>4. CASE Refresh
  BY <1>4 DEF TypeOK, Tx, Refresh, Events, row
<1>5. CASE MarkProcessed
  <2>1. tx' \in Tx
    BY <1>5, SeenType, WriteType DEF MarkProcessed, VersionRefreshed, TypeOK
  <2> QED BY <1>5, <2>1 DEF TypeOK, MarkProcessed, row
<1>6. CASE ClearEnqueue
  <2>1. tx' \in Tx
    BY <1>6, SeenType, WriteType DEF ClearEnqueue, Cleared, TypeOK
  <2> QED BY <1>6, <2>1 DEF TypeOK, ClearEnqueue, row
<1>7. CASE EnqueueAgain
  <2>1. tx' \in Tx
    BY <1>7, SeenType, WriteType DEF EnqueueAgain, TypeOK
  <2> QED BY <1>7, <2>1 DEF TypeOK, EnqueueAgain, row
<1>8. CASE Commit
  BY <1>8, SeenType DEF TypeOK, Tx, NoWrites, Commit
<1>9. CASE JobFails \/ OwedJobIsLost \/ ClaimExpires
  <2>1. NoWrites \in Tx
    BY DEF Tx, NoWrites
  <2>2. faults' \in 0 .. MaxFaults
    BY <1>9, ConstantsAssumption DEF TypeOK, JobFails, OwedJobIsLost, ClaimExpires, Fault
  <2> QED BY <1>9, <2>1, <2>2 DEF TypeOK, JobFails, OwedJobIsLost, ClaimExpires, row, job
<1> QED BY <1>1, <1>2, <1>3, <1>4, <1>5, <1>6, <1>7, <1>8, <1>9, <1>10 DEF Next, Perform

-----------------------------------------------------------------------------
(* What is processed was counted.                                          *)

\* Both invariants hold when nothing was requested yet.
LEMMA InitInv == Init => Inv /\ ClaimInv
<1> SUFFICES ASSUME Init PROVE Inv /\ ClaimInv
  OBVIOUS
<1>1. TypeOK
  BY ConstantsAssumption DEF Init, TypeOK, Tx, NoWrites
<1>2. Requested = {} /\ ~Pending /\ SeenProcessed = 0
  BY DEF Init, Requested, Pending, SeenProcessed, NoWrites
<1>3. Inv
  BY <1>1, <1>2 DEF Init, Inv, TxWithinRequested, VersionInWork, CountedBeforeMark, CountedInTx,
                    ProcessedIsCounted, ProcessedWithinRequested
<1>4. ClaimHasJob /\ ClaimInTx
  BY <1>2 DEF Init, ClaimHasJob, ClaimInTx, Jobs, Pending
<1> QED BY <1>1, <1>3, <1>4 DEF ClaimInv

\* A step that touches neither the versions nor the rollup, and makes no event
\* one whose refresh was requested, preserves Inv.
LEMMA ElsewhereStep ==
    ASSUME Inv, TypeOK', UNCHANGED <<request, processed, rollup, job>>,
           Requested' \subseteq Requested
    PROVE  Inv'
BY DEF Inv, TxWithinRequested, VersionInWork, CountedBeforeMark, CountedInTx,
       ProcessedIsCounted, ProcessedWithinRequested, SeenProcessed, Pending, job

\* A step of a job before its commit preserves Inv if what the transaction
\* sees does.
LEMMA JobStep ==
    ASSUME Inv, TypeOK', UNCHANGED <<step, request, processed, rollup>>,
           TxWithinRequested', VersionInWork', CountedBeforeMark', CountedInTx'
    PROVE  Inv'
BY DEF Inv, ProcessedIsCounted, ProcessedWithinRequested, Requested, Pending

\* A request makes the row pending, so it cannot be lost behind a version that
\* was processed or is being processed.
LEMMA MarkRequestedStep ==
    ASSUME Inv, TypeOK', NEW r \in Requests, MarkRequested(r)
    PROVE  Inv'
<1>1. request' = request + 1 /\ ~tx.locked
  BY DEF MarkRequested, RowFree
<1>2. processed < request' /\ SeenProcessed' = SeenProcessed /\ SeenProcessed < request'
  BY <1>1 DEF Inv, TypeOK, ProcessedWithinRequested, TxWithinRequested, SeenProcessed, MarkRequested, job
<1>3. pc' \in {"refresh", "mark"} => SeenProcessed' < version' /\ version' < request'
  BY <1>1, <1>2 DEF Inv, TypeOK, VersionInWork, MarkRequested, job
<1>4. Pending' /\ ProcessedWithinRequested'
  BY <1>2 DEF Inv, TypeOK, Pending, ProcessedWithinRequested, MarkRequested
<1>5. TxWithinRequested' /\ CountedInTx'
  BY <1>2, SeenType DEF Inv, TypeOK, TxWithinRequested, CountedInTx, MarkRequested, job
<1>6. VersionInWork' /\ CountedBeforeMark'
  BY <1>3 DEF TypeOK, VersionInWork, CountedBeforeMark
<1> QED BY <1>4, <1>5, <1>6 DEF Inv, ProcessedIsCounted

\* The clean-up meets no version in work, and takes both versions to 0.
LEMMA CleanupStep ==
    ASSUME Inv, TypeOK', Cleanup
    PROVE  Inv'
<1>1. /\ ~tx.locked /\ request <= processed
      /\ request' = 0 /\ processed' = 0
      /\ UNCHANGED <<step, rollup, pc, version, tx>>
  BY DEF Cleanup, RowFree, Finished, job
<1>2. SeenProcessed = processed /\ SeenProcessed' = 0 /\ Requested' = Requested
  BY <1>1 DEF SeenProcessed, Requested
<1>3. pc \notin {"refresh", "mark"}
  BY <1>1, <1>2 DEF Inv, TypeOK, VersionInWork
<1>4. ~Pending /\ Requested \subseteq rollup
  BY <1>1 DEF Inv, TypeOK, Pending, ProcessedIsCounted
<1>5. CountedInTx'
  BY <1>1, <1>2 DEF Inv, CountedInTx
<1> QED BY <1>1, <1>2, <1>3, <1>4, <1>5
        DEF Inv, TxWithinRequested, VersionInWork, CountedBeforeMark,
            ProcessedIsCounted, ProcessedWithinRequested

\* The commit makes the job's view everybody's.
LEMMA CommitStep ==
    ASSUME Inv, TypeOK', Commit
    PROVE  Inv'
<1>1. /\ processed' = SeenProcessed /\ rollup' = tx.rollup
      /\ pc # "idle" /\ pc' = "idle" /\ tx' = NoWrites
      /\ UNCHANGED <<step, request>>
  BY DEF Commit
<1>2. SeenProcessed' = processed' /\ Requested' = Requested
  BY <1>1 DEF SeenProcessed, NoWrites, Requested
<1>3. ProcessedIsCounted'
  BY <1>1, <1>2, SeenType DEF Inv, TypeOK, CountedInTx, ProcessedIsCounted, Pending
<1> QED BY <1>1, <1>2, <1>3
        DEF Inv, TxWithinRequested, VersionInWork, CountedBeforeMark, CountedInTx,
            ProcessedWithinRequested

\* Every step preserves Inv.
LEMMA NextInv == Inv /\ [Next]_vars => Inv'
<1> SUFFICES ASSUME Inv, [Next]_vars
             PROVE  Inv'
  OBVIOUS
<1>0. TypeOK /\ TypeOK'
  BY TypeStep DEF Inv
<1>1. CASE UNCHANGED vars
  BY <1>0, <1>1, ElsewhereStep DEF vars, row, job, Requested
<1>2. ASSUME NEW r \in Requests, Store(r) \/ RequestDies(r) \/ TryEnqueue(r) \/ AlreadyEnqueued(r)
      PROVE  Inv'
  <2>1. Requested' \subseteq Requested
    BY <1>0, <1>2 DEF TypeOK, Store, RequestDies, TryEnqueue, AlreadyEnqueued, Advance, Requested
  <2> QED BY <1>0, <1>2, <2>1, ElsewhereStep
          DEF Store, RequestDies, TryEnqueue, AlreadyEnqueued, row, job
<1>3. ASSUME NEW r \in Requests, MarkRequested(r)
      PROVE  Inv'
  BY <1>0, <1>3, MarkRequestedStep
<1>4. CASE EnqueueJob \/ JobFindsLockTaken \/ OwedJobIsLost \/ ClaimExpires
  BY <1>0, <1>4, ElsewhereStep
     DEF EnqueueJob, JobFindsLockTaken, OwedJobIsLost, ClaimExpires, Requested, row, job
<1>5. CASE JobStarts
  <2>1. tx' = [NoWrites EXCEPT !.rollup = rollup] /\ pc' = "look" /\ pc = "idle"
    BY <1>5 DEF JobStarts
  <2>2. ~tx'.locked /\ tx'.rollup = rollup
    BY <2>1 DEF NoWrites
  <2>3. SeenProcessed' = processed /\ UNCHANGED <<step, request, processed, rollup>>
    BY <1>5, <2>2 DEF JobStarts, SeenProcessed, row
  <2>4. TxWithinRequested' /\ VersionInWork' /\ CountedBeforeMark'
    BY <2>1, <2>3 DEF Inv, TxWithinRequested, VersionInWork, CountedBeforeMark, ProcessedWithinRequested
  <2>5. CountedInTx'
    BY <1>0, <2>2, <2>3 DEF Inv, TypeOK, CountedInTx, ProcessedIsCounted, Pending, Requested
  <2> QED BY <1>0, <2>3, <2>4, <2>5, JobStep
<1>6. CASE Look
  <2>1. /\ UNCHANGED <<step, request, processed, rollup, tx>>
        /\ SeenProcessed' = SeenProcessed /\ Requested' = Requested
    BY <1>6 DEF Look, row, SeenProcessed, Requested
  <2>2. VersionInWork' /\ CountedBeforeMark' /\ CountedInTx' /\ TxWithinRequested'
    BY <1>0, <1>6, <2>1, SeenType
       DEF Look, TypeOK, Inv, VersionInWork, CountedBeforeMark, CountedInTx, TxWithinRequested
  <2> QED BY <1>0, <2>1, <2>2, JobStep
<1>7. CASE Refresh
  <2>1. /\ UNCHANGED <<step, request, processed, rollup, version>>
        /\ pc = "refresh" /\ pc' = "mark" /\ tx' = [tx EXCEPT !.rollup = Events]
    BY <1>7 DEF Refresh, row
  <2>2. tx'.rollup = Events /\ tx'.locked = tx.locked /\ tx'.processed = tx.processed
    BY <1>0, <2>1 DEF TypeOK, Tx
  <2>3. SeenProcessed' = SeenProcessed /\ Requested' = Requested /\ Requested \subseteq Events
    BY <2>1, <2>2 DEF SeenProcessed, Requested, Events
  <2>4. VersionInWork' /\ CountedBeforeMark' /\ CountedInTx' /\ TxWithinRequested'
    BY <2>1, <2>2, <2>3 DEF Inv, VersionInWork, CountedBeforeMark, CountedInTx, TxWithinRequested
  <2> QED BY <1>0, <2>1, <2>4, JobStep
<1>8. CASE MarkProcessed
  <2>1. /\ UNCHANGED <<step, request, processed, rollup, version>>
        /\ pc = "mark" /\ pc' = "look"
    BY <1>8 DEF MarkProcessed, row
  <2>2. SeenProcessed < version /\ version <= request /\ version \in Nat /\ request > 0
    BY <1>0, <2>1, SeenType DEF Inv, TypeOK, VersionInWork
  <2>3. Write(version, SeenMarker, FALSE)
    BY <1>8, <2>2 DEF MarkProcessed, VersionRefreshed
  <2>4. tx'.locked /\ tx'.processed = version /\ tx'.rollup = tx.rollup
    BY <1>0, <2>2, <2>3, SeenType, WriteType
  <2>5. SeenProcessed' = version /\ Requested' = Requested
    BY <2>1, <2>4 DEF SeenProcessed, Requested
  <2>6. CountedInTx'
    BY <1>0, <2>1, <2>2, <2>4, <2>5 DEF Inv, TypeOK, CountedBeforeMark, CountedInTx
  <2>7. VersionInWork' /\ CountedBeforeMark' /\ TxWithinRequested'
    BY <2>1, <2>2, <2>5 DEF VersionInWork, CountedBeforeMark, TxWithinRequested
  <2> QED BY <1>0, <2>1, <2>6, <2>7, JobStep
<1>9. CASE ClearEnqueue \/ EnqueueAgain
  <2>1. /\ UNCHANGED <<step, request, processed, rollup, version>>
        /\ pc # "idle" /\ pc' \in {"again", "commit"}
    BY <1>9 DEF ClearEnqueue, EnqueueAgain, row
  <2>2. UNCHANGED tx \/ \E mark \in {"null", "fresh"}, owes \in BOOLEAN : Write(SeenProcessed, mark, owes)
    BY <1>9 DEF ClearEnqueue, EnqueueAgain, Cleared
  <2>3. SeenProcessed' = SeenProcessed /\ tx'.rollup = tx.rollup
    <3>1. CASE UNCHANGED tx
      BY <2>1, <3>1 DEF SeenProcessed
    <3>2. CASE \E mark \in {"null", "fresh"}, owes \in BOOLEAN : Write(SeenProcessed, mark, owes)
      <4>1. PICK mark \in {"null", "fresh"}, owes \in BOOLEAN : Write(SeenProcessed, mark, owes)
        BY <3>2
      <4>2. tx'.locked /\ tx'.processed = SeenProcessed /\ tx'.rollup = tx.rollup
        BY <1>0, <4>1, SeenType, WriteType
      <4> QED BY <4>2 DEF SeenProcessed
    <3> QED BY <2>2, <3>1, <3>2
  <2>4. VersionInWork' /\ CountedBeforeMark' /\ CountedInTx' /\ TxWithinRequested'
    BY <2>1, <2>3 DEF Inv, VersionInWork, CountedBeforeMark, CountedInTx, TxWithinRequested, Requested
  <2> QED BY <1>0, <2>1, <2>4, JobStep
<1>10. CASE Commit
  BY <1>0, <1>10, CommitStep
<1>11. CASE Cleanup
  BY <1>0, <1>11, CleanupStep
<1>12. CASE JobFails
  <2>1. /\ UNCHANGED <<step, request, processed, rollup>>
        /\ pc' = "idle" /\ tx' = NoWrites
    BY <1>12 DEF JobFails, row
  <2>2. SeenProcessed' = processed
    BY <2>1 DEF SeenProcessed, NoWrites
  <2>3. VersionInWork' /\ CountedBeforeMark' /\ CountedInTx' /\ TxWithinRequested'
    BY <2>1, <2>2 DEF Inv, VersionInWork, CountedBeforeMark, CountedInTx, TxWithinRequested,
                      ProcessedWithinRequested
  <2> QED BY <1>0, <2>1, <2>3, JobStep
<1> QED BY <1>1, <1>2, <1>3, <1>4, <1>5, <1>6, <1>7, <1>8, <1>9, <1>10, <1>11, <1>12
        DEF Next, Enqueue, Perform

\* Whatever fails or expires, and whenever the clean-up runs: a version that
\* was processed was requested, and when nothing is pending the rollup counts
\* every event whose refresh was requested.
THEOREM ProcessedIsCountedTheorem ==
    Spec => [](TypeOK /\ ProcessedIsCounted /\ ProcessedWithinRequested)
<1>1. Init => Inv
  BY InitInv
<1>2. Inv /\ [Next]_vars => Inv'
  BY NextInv
<1>3. Inv => TypeOK /\ ProcessedIsCounted /\ ProcessedWithinRequested
  BY DEF Inv
<1> QED BY <1>1, <1>2, <1>3, PTL DEF Spec

-----------------------------------------------------------------------------
(* One job at a time, and no lost wake-up.                                 *)

\* A step that preserves the number of jobs, the row, the job and who is about
\* to enqueue preserves the rule of the claim.
LEMMA SameJobs ==
    ASSUME ClaimHasJob, ClaimInTx, Jobs' = Jobs, UNCHANGED <<row, job>>,
           Pending /\ Jobs = 0 => \E r \in Requests : step'[r] = "marked"
    PROVE  ClaimHasJob' /\ ClaimInTx'
BY DEF ClaimHasJob, ClaimInTx, Pending, row, job

\* A job at work before its commit is the only one, and what is committed of
\* the row does not change: only its own writes have to keep to the rule.
LEMMA JobAtWork ==
    ASSUME TypeOK, ClaimHasJob, pc # "idle", pc' # "idle",
           UNCHANGED <<row, queued, owed>>, ClaimInTx'
    PROVE  ClaimHasJob' /\ ClaimInTx'
<1>1. Jobs = 1 /\ Jobs' = 1
  BY DEF TypeOK, ClaimHasJob, Jobs
<1> QED BY <1>1 DEF ClaimHasJob, Pending, row

\* Every step preserves the rule of the claim.
LEMMA NextClaimInv == ClaimInv /\ [Next]_vars => ClaimInv'
<1> SUFFICES ASSUME ClaimInv, [Next]_vars, faults' = 0
             PROVE  ClaimHasJob' /\ ClaimInTx'
  BY TypeStep DEF ClaimInv
<1>1. TypeOK /\ TypeOK'
  BY TypeStep DEF ClaimInv
<1>2. ~Fault
  BY <1>1 DEF TypeOK, Fault
<1>3. ~JobFails /\ ~OwedJobIsLost /\ ~ClaimExpires /\ \A r \in Requests : ~RequestDies(r)
  BY <1>2 DEF JobFails, OwedJobIsLost, ClaimExpires, RequestDies
<1>4. faults = 0
  BY <1>3 DEF Next, Enqueue, Perform, vars, Store, MarkRequested, TryEnqueue, AlreadyEnqueued,
              EnqueueJob, JobStarts, JobFindsLockTaken, Look, Refresh, MarkProcessed,
              ClearEnqueue, EnqueueAgain, Commit, Cleanup
<1>5. ClaimHasJob /\ ClaimInTx
  BY <1>4 DEF ClaimInv
<1>6. CASE UNCHANGED vars
  BY <1>5, <1>6, SameJobs DEF vars, row, job, Jobs, ClaimHasJob
<1>7. ASSUME NEW r \in Requests, Store(r)
      PROVE  ClaimHasJob' /\ ClaimInTx'
  <2>1. Jobs' = Jobs /\ UNCHANGED <<row, job>>
    BY <1>7 DEF Store, Jobs, job
  <2>2. \A q \in Requests : step[q] = "marked" => step'[q] = "marked"
    BY <1>1, <1>7 DEF Store, Advance, TypeOK
  <2> QED BY <1>5, <2>1, <2>2, SameJobs DEF ClaimHasJob
<1>8. ASSUME NEW r \in Requests, MarkRequested(r)
      PROVE  ClaimHasJob' /\ ClaimInTx'
  <2>1. /\ request' = request + 1 /\ ~tx.locked
        /\ UNCHANGED <<processed, marker, job>> /\ Jobs' = Jobs
    BY <1>8 DEF MarkRequested, RowFree, Jobs, job
  <2>2. step'[r] = "marked"
    BY <1>1, <1>8 DEF MarkRequested, Advance, TypeOK
  <2>3. Pending => Pending'
    BY <1>1, <2>1 DEF TypeOK, Pending
  <2> QED BY <1>5, <2>1, <2>2, <2>3 DEF ClaimHasJob, ClaimInTx, job
<1>9. ASSUME NEW r \in Requests, TryEnqueue(r)
      PROVE  ClaimHasJob' /\ ClaimInTx'
  <2>1. Pending /\ Jobs = 0
    BY <1>1, <1>5, <1>9 DEF TryEnqueue, Claimable, Pending, ClaimHasJob
  <2>2. /\ queued = 0 /\ owed = 0 /\ pc = "idle"
    BY <1>1, <2>1 DEF TypeOK, Jobs
  <2>3. Jobs' = 1 /\ marker' = "fresh" /\ Pending' /\ pc' = "idle"
    BY <1>9, <2>1, <2>2 DEF TryEnqueue, Jobs, Pending, job
  <2> QED BY <2>3 DEF ClaimHasJob, ClaimInTx
<1>10. ASSUME NEW r \in Requests, AlreadyEnqueued(r)
       PROVE  ClaimHasJob' /\ ClaimInTx'
  <2>1. Jobs' = Jobs /\ UNCHANGED <<row, job>>
    BY <1>10 DEF AlreadyEnqueued, Jobs, job
  <2>2. ~(Pending /\ Jobs = 0)
    BY <1>5, <1>10 DEF AlreadyEnqueued, Claimable, Pending, ClaimHasJob
  <2> QED BY <1>5, <2>1, <2>2, SameJobs
<1>11. CASE EnqueueJob
  <2>1. Jobs' = Jobs /\ UNCHANGED <<step, row, job>>
    BY <1>1, <1>11 DEF TypeOK, EnqueueJob, Jobs, job
  <2> QED BY <1>5, <2>1, SameJobs DEF ClaimHasJob
<1>12. CASE JobFindsLockTaken
  BY <1>1, <1>5, <1>12 DEF TypeOK, JobFindsLockTaken, ClaimHasJob, Jobs
<1>13. CASE JobStarts
  <2>1. Jobs' = Jobs /\ UNCHANGED <<step, row>> /\ pc' = "look"
    BY <1>1, <1>13 DEF TypeOK, JobStarts, Jobs
  <2>2. ~tx'.locked
    BY <1>13 DEF JobStarts, NoWrites
  <2>3. ClaimInTx'
    BY <2>1, <2>2 DEF ClaimInTx
  <2> QED BY <1>5, <2>1, <2>3 DEF ClaimHasJob, Pending, row
<1>14. CASE Look
  <2>1. ClaimInTx'
    BY <1>5, <1>14 DEF Look, ClaimInTx
  <2> QED BY <1>1, <1>5, <1>14, <2>1, JobAtWork DEF Look
<1>15. CASE Refresh
  <2>1. tx'.locked = tx.locked /\ tx'.marker = tx.marker
    BY <1>1, <1>15 DEF Refresh, TypeOK, Tx
  <2>2. ClaimInTx'
    BY <1>5, <1>15, <2>1 DEF Refresh, ClaimInTx
  <2> QED BY <1>1, <1>5, <1>15, <2>2, JobAtWork DEF Refresh
<1>16. CASE MarkProcessed
  <2>1. SeenMarker = "fresh"
    BY <1>1, <1>5, <1>16 DEF MarkProcessed, TypeOK, ClaimHasJob, ClaimInTx, SeenMarker, Jobs
  <2>2. UNCHANGED tx \/ Write(version, "fresh", FALSE)
    BY <1>16, <2>1 DEF MarkProcessed, VersionRefreshed
  <2>3. tx'.locked => tx'.marker = "fresh"
    BY <1>1, <1>5, <1>16, <2>2, WriteType DEF MarkProcessed, TypeOK, ClaimInTx
  <2>4. ClaimInTx'
    BY <1>16, <2>3 DEF MarkProcessed, ClaimInTx
  <2> QED BY <1>1, <1>5, <1>16, <2>4, JobAtWork DEF MarkProcessed
<1>17. CASE ClearEnqueue
  <2>1. SeenMarker = "fresh"
    BY <1>1, <1>5, <1>17 DEF ClearEnqueue, TypeOK, ClaimHasJob, ClaimInTx, SeenMarker, Jobs
  <2>2. Write(SeenProcessed, "null", FALSE)
    BY <1>17, <2>1 DEF ClearEnqueue, Cleared
  <2>3. tx'.locked /\ tx'.marker = "null" /\ ~tx'.owes
    BY <1>1, <2>2, SeenType, WriteType
  <2>4. ClaimInTx'
    BY <1>17, <2>3 DEF ClearEnqueue, ClaimInTx
  <2> QED BY <1>1, <1>5, <1>17, <2>4, JobAtWork DEF ClearEnqueue
<1>18. CASE EnqueueAgain
  <2>1. tx.locked /\ tx.marker = "null" /\ ~tx.owes /\ SeenMarker = "null" /\ SeenProcessed = tx.processed
    BY <1>5, <1>18 DEF EnqueueAgain, ClaimInTx, SeenMarker, SeenProcessed
  <2>2. pc = "again" /\ pc' = "commit" /\ UNCHANGED <<row, queued, owed>>
    BY <1>18 DEF EnqueueAgain
  <2>3. CASE request > SeenProcessed
    <3>1. Write(SeenProcessed, "fresh", TRUE)
      BY <1>18, <2>1, <2>3 DEF EnqueueAgain, Claimable
    <3>2. tx'.locked /\ tx'.marker = "fresh" /\ tx'.owes /\ tx'.processed = SeenProcessed
      BY <1>1, <3>1, SeenType, WriteType
    <3> QED BY <1>1, <1>5, <2>2, <2>3, <3>2, JobAtWork DEF ClaimInTx, row
  <2>4. CASE ~(request > SeenProcessed)
    <3>1. UNCHANGED tx
      BY <1>18, <2>4 DEF EnqueueAgain, Claimable
    <3> QED BY <1>1, <1>5, <2>1, <2>2, <2>4, <3>1, JobAtWork DEF ClaimInTx, row
  <2> QED BY <2>3, <2>4
<1>19. CASE Commit
  <2>1. /\ tx.locked
        /\ tx.owes <=> request > tx.processed
        /\ tx.marker = IF tx.owes THEN "fresh" ELSE "null"
    BY <1>5, <1>19 DEF Commit, ClaimInTx
  <2>2. /\ processed' = tx.processed /\ marker' = tx.marker /\ request' = request
        /\ pc' = "idle" /\ queued' = queued
        /\ owed' = IF tx.owes THEN owed + 1 ELSE owed
    BY <1>19, <2>1 DEF Commit, SeenProcessed, SeenMarker
  <2>3. queued = 0 /\ owed = 0
    BY <1>1, <1>5, <1>19 DEF Commit, TypeOK, ClaimHasJob, Jobs
  <2>4. Jobs' = (IF tx.owes THEN 1 ELSE 0) /\ (Pending' <=> tx.owes)
    BY <2>1, <2>2, <2>3 DEF Jobs, Pending
  <2> QED BY <2>1, <2>2, <2>4 DEF ClaimHasJob, ClaimInTx
<1>20. CASE Cleanup
  <2>1. ~Pending /\ marker' = "null" /\ ~Pending' /\ Jobs' = Jobs /\ pc' = pc
    BY <1>1, <1>20 DEF Cleanup, Finished, TypeOK, Pending, Jobs, job
  <2>2. Jobs = 0
    BY <1>1, <1>5, <2>1 DEF ClaimHasJob, TypeOK, Jobs
  <2>3. pc' = "idle"
    BY <1>1, <2>1, <2>2 DEF TypeOK, Jobs
  <2> QED BY <2>1, <2>2, <2>3 DEF ClaimHasJob, ClaimInTx
<1> QED BY <1>3, <1>6, <1>7, <1>8, <1>9, <1>10, <1>11, <1>12, <1>13, <1>14, <1>15, <1>16, <1>17,
           <1>18, <1>19, <1>20 DEF Next, Enqueue, Perform

\* The rule of the claim says that jobs are coalesced and none is missing.
LEMMA ClaimSuffices == ClaimInv => Coalesced /\ NoLostWakeup
<1> SUFFICES ASSUME TypeOK, faults = 0, ClaimHasJob, ClaimInTx
             PROVE  Jobs <= 1 /\ (Pending => \/ \E r \in Requests : step[r] = "marked"
                                             \/ queued + owed > 0
                                             \/ /\ pc # "idle"
                                                /\ pc = "commit" => tx.owes \/ request <= SeenProcessed)
  BY DEF ClaimInv, Coalesced, NoLostWakeup
<1>1. Jobs <= 1
  BY DEF ClaimHasJob
<1>2. pc = "commit" => tx.owes \/ request <= SeenProcessed
  BY DEF TypeOK, Tx, ClaimInTx, SeenProcessed
<1>3. Pending /\ Jobs # 0 => queued + owed > 0 \/ pc # "idle"
  BY DEF TypeOK, Jobs
<1> QED BY <1>1, <1>2, <1>3 DEF ClaimHasJob

\* As long as no claim expired and nothing failed: for any number of requests
\* there is one job at a time, and never is a pending request left without one
\* that will see it.
THEOREM CoalescedTheorem == Spec => [](Coalesced /\ NoLostWakeup)
<1>1. Init => ClaimInv
  BY InitInv
<1>2. ClaimInv /\ [Next]_vars => ClaimInv'
  BY NextClaimInv
<1> QED BY <1>1, <1>2, ClaimSuffices, PTL DEF Spec

=============================================================================
