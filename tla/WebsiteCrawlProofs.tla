------------------------- MODULE WebsiteCrawlProofs -------------------------
(***************************************************************************)
(* Proofs about WebsiteCrawl for every site, limit, runner, number of      *)
(* administrators, attempts and faults.                                    *)
(***************************************************************************)
EXTENDS WebsiteCrawl, FiniteSetTheorems, WellFoundedInduction, TLAPS

-----------------------------------------------------------------------------
(* The inductive invariant: the rows of the crawl, the request and the     *)
(* queue agree with the place of the execution.                            *)

\* How many steps are completed where the execution is.
StepsDone ==
    /\ pc \in {"prepare", "begin", "sync"} => done = 0
    /\ pc \in {"seed", "seeded"} => done \in {0, 1}
    /\ pc \in {"fetch", "loop", "visit", "insert", "count", "store", "mark", "tally", "set",
              "transient", "retry", "giveup", "givingup", "gaveup"} => done = 1
    /\ pc \in {"publish", "import", "locked"} => done = 2
    /\ pc \in {"cleanup", "delete"} => done = 3

\* The row of the queue says whether an execution runs, and never that more
\* steps are completed than the execution knows.
QueueAgrees ==
    /\ pc # "idle" <=> queue.state = "running"
    /\ pc # "idle" => queue.done <= done
    /\ dispatch # "over" => queue.state = "none"
    /\ dispatch \in {"queued", "loaded"} => crawl = "none"
    /\ dispatch = "created" => crawl = "pending"
    /\ crawl = "none" => queue.state = "none"

\* The crawl's row follows the request's, and nothing is decided before the
\* execution is where it decides.
RowsAgree ==
    /\ crawl = "completed" <=> imports = 1
    /\ status = "completed" => imports = 1
    /\ Terminal(crawl) => Terminal(status)
    /\ ~Terminal(status) => imports = 0 /\ ~error
    /\ pc \in {"import", "locked"} => mem \in {"pending", "processing"} /\ status \in {mem, "cancelled"}
    /\ pc \in {"import", "locked", "failing", "givingup"} =>
         status \in {"pending", "processing", "cancelled"} /\ imports = 0 /\ ~error
    /\ pc \in {"failed", "gaveup"} => Terminal(status)
    /\ pc = "sync" => status # "pending"
    /\ pc = "delete" => crawl = "completed"
    /\ (pc # "idle" /\ done = 3) \/ queue.done = 3 => Terminal(crawl)

\* Without faults a job starts with a crawl that waits for it, and it ends
\* only when the crawl has ended.
FaultFree ==
    faults = 0 =>
        /\ queue.state = "ready" /\ queue.done = 0 => crawl = "pending"
        /\ pc \in {"start", "prepare"} /\ done = 0 => crawl = "pending"
        /\ pc \in {"error", "failing", "failed"} => done > 0
        /\ queue.state \in {"failed", "done"} => Terminal(crawl)

\* What the counters do not say yet: the rows just inserted, the URL just
\* marked.
Fresh == IF pc \in {"seeded", "count"} THEN fresh ELSE 0
Tally == IF pc = "tally" THEN 1 ELSE 0

ProcessedUrls == {u \in Urls : Processed(u)}

\* The counters are never ahead of the rows; without faults they are not
\* behind either.
Counted ==
    /\ IsFiniteSet(Rows)
    /\ pc \in {"visit", "insert", "count", "store", "mark"} => state[url.at] = "pending"
    /\ ~Terminal(crawl) =>
          /\ discovered + Fresh <= Cardinality(Rows)
          /\ processed + Tally <= Cardinality(ProcessedUrls)
          /\ faults = 0 => /\ discovered + Fresh = Cardinality(Rows)
                           /\ processed + Tally = Cardinality(ProcessedUrls)

\* Both counters stay within the limit: rows are inserted only as far as the
\* limit allows, and a URL is visited only while there is room for it.
WithinLimit ==
    Limited => /\ discovered + Fresh <= Limit
               /\ processed <= Limit
               /\ pc \in {"visit", "insert", "count", "store", "mark", "tally"} =>
                    processed < Limit

\* Without a limit the links of a page are found before the page is stored.
FoundLinks(u) == \A i \in 1 .. Len(Links[u]) : HasRow(Links[u][i])
LinksFound ==
    ~Limited /\ ~Terminal(crawl) =>
        /\ \A u \in pages : FoundLinks(u)
        /\ pc \in {"count", "store"} /\ HasPage => FoundLinks(url.at)
        /\ pc = "store" => HasPage

\* The step "fetch" is completed only when the crawl is through.
FetchedWhenThrough ==
    /\ (pc # "idle" /\ done = 2) \/ queue.done = 2 => Terminal(crawl) \/ Through
    /\ pc \in {"import", "locked"} => ~Terminal(crawl)

Inv == /\ TypeOK /\ StepsDone /\ QueueAgrees /\ RowsAgree
       /\ FaultFree /\ Counted /\ WithinLimit /\ LinksFound /\ FetchedWhenThrough

-----------------------------------------------------------------------------
(* Lemmas about the operators.                                             *)

\* Synchronizing a crawl with its request never undoes a decision, and ends
\* the crawl exactly when the request has ended.
LEMMA SyncedIs ==
    ASSUME TypeOK, RowsAgree
    PROVE  /\ Synced(status) \in Statuses \cup {"none"}
           /\ Synced(status) = "completed" <=> imports = 1
           /\ Terminal(Synced(status)) <=> Terminal(status)
           /\ Terminal(crawl) => Terminal(Synced(status))
           /\ ~Terminal(status) => Synced(status) = crawl
BY DEF Synced, TypeOK, RowsAgree, Terminal, Statuses

\* The first URL by id is one of the URLs: ids are natural numbers, so there
\* is a least one.
LEMMA FirstIsOne ==
    ASSUME TypeOK, NEW S \in SUBSET Urls, S # {}
    PROVE  First(S) \in S
<1> DEFINE R == OpToRel(<, Nat)
           Ids == {id[u] : u \in S}
<1>1. Ids \subseteq Nat /\ Ids # {}
  BY DEF TypeOK
<1>2. IsWellFoundedOn(R, Nat)
  BY NatLessThanWellFounded, Zenon
<1>3. \A x, y \in Nat : <<y, x>> \in R <=> y < x
  BY DEF OpToRel
<1>4. \E x \in Ids : \A y \in Ids : x <= y
  <2> HIDE DEF R, Ids
  <2>1. PICK x \in Ids : \A y \in Ids : ~(<<y, x>> \in R)
    BY <1>1, <1>2, WFMin
  <2>2. ASSUME NEW y \in Ids PROVE x <= y
    <3>1. x \in Nat /\ y \in Nat /\ ~(<<y, x>> \in R)
      BY <1>1, <2>1
    <3>2. ~(y < x)
      BY <1>3, <3>1
    <3> QED BY <3>1, <3>2
  <2> QED BY <2>2
<1>5. \E u \in S : \A v \in S : id[u] <= id[v]
  BY <1>4
<1> QED BY <1>5 DEF First

\* The rows upsert_urls! inserts are new rows of URLs of the site, and with a
\* limit no more than there is room for.
LEMMA RowsForIs ==
    ASSUME TypeOK, NEW links \in Seq(Urls)
    PROVE  /\ RowsFor(links) \in SUBSET Urls
           /\ RowsFor(links) \cap Rows = {}
           /\ IsFiniteSet(RowsFor(links))
           /\ Limited => Cardinality(RowsFor(links)) <= Capacity
           /\ ~Limited => \A i \in 1 .. Len(links) : links[i] \in Rows \cup RowsFor(links)
<1> DEFINE D == {n \in DOMAIN links : Limited => n <= Capacity}
           Taken == {links[i] : i \in D}
           f == [n \in D |-> links[n]]
<1>1. DOMAIN links = 1 .. Len(links) /\ Len(links) \in Nat /\ \A n \in DOMAIN links : links[n] \in Urls
  OBVIOUS
<1>2. Capacity \in Nat
  BY ConstantsAssumption DEF Capacity, TypeOK
<1>3. IsFiniteSet(D)
  <2>1. D \in SUBSET (1 .. Len(links))
    BY <1>1
  <2>2. IsFiniteSet(1 .. Len(links))
    BY <1>1, FS_Interval
  <2> QED BY <2>1, <2>2, FS_Subset, Zenon
<1>4. Limited => Cardinality(D) <= Capacity
  <2>1. SUFFICES ASSUME Limited PROVE Cardinality(D) <= Capacity
    OBVIOUS
  <2>2. D \in SUBSET (1 .. Capacity)
    BY <1>1, <1>2, <2>1
  <2>3. IsFiniteSet(1 .. Capacity) /\ Cardinality(1 .. Capacity) = Capacity
    BY <1>2, FS_Interval
  <2>4. Cardinality(D) <= Cardinality(1 .. Capacity)
    BY <2>2, <2>3, FS_Subset, Zenon
  <2> QED BY <2>3, <2>4
<1>5. f \in Surjection(D, Taken)
  BY DEF Surjection
<1>6. IsFiniteSet(Taken) /\ Cardinality(Taken) <= Cardinality(D)
  BY <1>3, <1>5, FS_Surjection
<1>7. RowsFor(links) = Taken \ Rows
  BY DEF RowsFor
<1>8. RowsFor(links) \in SUBSET Taken
  BY <1>7
<1>9. IsFiniteSet(RowsFor(links)) /\ Cardinality(RowsFor(links)) <= Cardinality(Taken)
  BY <1>6, <1>8, FS_Subset
<1>10. Cardinality(RowsFor(links)) \in Nat /\ Cardinality(Taken) \in Nat /\ Cardinality(D) \in Nat
  BY <1>3, <1>6, <1>9, FS_CardinalityType
<1>11. Limited => Cardinality(RowsFor(links)) <= Capacity
  BY <1>2, <1>4, <1>6, <1>9, <1>10
<1>12. ~Limited => \A i \in 1 .. Len(links) : links[i] \in Rows \cup RowsFor(links)
  BY <1>1, <1>7
<1> QED BY <1>1, <1>7, <1>9, <1>11, <1>12

\* What an insertion does to the rows.
LEMMA InsertIs ==
    ASSUME TypeOK, IsFiniteSet(Rows), NEW links \in Seq(Urls), Insert(links)
    PROVE  /\ state' \in [Urls -> {"unknown", "pending", "fetched", "skipped"}]
           /\ id' \in [Urls -> Nat]
           /\ fresh' = Cardinality(RowsFor(links))
           /\ fresh' \in Nat
           /\ Rows' = Rows \cup RowsFor(links)
           /\ IsFiniteSet(Rows')
           /\ Cardinality(Rows') = Cardinality(Rows) + fresh'
           /\ \A u \in Rows : state'[u] = state[u]
           /\ ProcessedUrls' = ProcessedUrls
<1> DEFINE new == RowsFor(links)
<1>1. new \in SUBSET Urls /\ new \cap Rows = {} /\ IsFiniteSet(new)
  BY RowsForIs
<1>2. state' = [u \in Urls |-> IF u \in new THEN "pending" ELSE state[u]]
  BY DEF Insert
<1>3. id' = [u \in Urls |->
               IF u \in new THEN Cardinality(Rows) + Rank(u, links, new) ELSE id[u]]
  BY DEF Insert
<1>4. \A u \in new : Rank(u, links, new) \in Nat
  <2>1. ASSUME NEW u \in new PROVE Rank(u, links, new) \in Nat
    <3> DEFINE T == {v \in new : \E i, j \in DOMAIN links : i <= j /\ links[i] = v /\ links[j] = u}
    <3>1. T \in SUBSET new
      OBVIOUS
    <3>2. Cardinality(T) \in Nat
      BY <1>1, <3>1, FS_Subset, FS_CardinalityType
    <3> QED BY <3>2 DEF Rank
  <2> QED BY <2>1
<1>5. Cardinality(Rows) \in Nat /\ Cardinality(new) \in Nat
  BY <1>1, FS_CardinalityType
<1>6. id' \in [Urls -> Nat]
  BY <1>3, <1>4, <1>5 DEF TypeOK
<1>7. state' \in [Urls -> {"unknown", "pending", "fetched", "skipped"}]
  BY <1>2 DEF TypeOK
<1>8. Rows' = Rows \cup new
  BY <1>1, <1>2 DEF Rows, HasRow, TypeOK
<1>9. IsFiniteSet(Rows') /\ Cardinality(Rows') = Cardinality(Rows) + Cardinality(new)
  <2>1. Cardinality(Rows \cap new) = 0
    BY <1>1, FS_EmptySet
  <2>2. /\ IsFiniteSet(Rows \cup new)
        /\ Cardinality(Rows \cup new) = Cardinality(Rows) + Cardinality(new) - Cardinality(Rows \cap new)
    BY <1>1, FS_Union
  <2> QED BY <1>5, <1>8, <2>1, <2>2
<1>10. ProcessedUrls' = ProcessedUrls
  BY <1>1, <1>2 DEF ProcessedUrls, Processed, Rows, HasRow, TypeOK
<1>11. \A u \in Rows : state'[u] = state[u]
  BY <1>1, <1>2 DEF Rows
<1>12. fresh' = Cardinality(new)
  BY DEF Insert
<1> QED BY <1>5, <1>6, <1>7, <1>8, <1>9, <1>10, <1>11, <1>12

-----------------------------------------------------------------------------
(* Every action preserves the invariant.                                   *)

\* The steps completed are those of the place the execution goes to.
LEMMA StepsDoneStep ==
    ASSUME TypeOK, StepsDone, [Next]_vars
    PROVE  StepsDone'
<1> USE DEF StepsDone, TypeOK, JobRow, execution
<1>1. ASSUME ClaimJob \/ Prepare \/ BeginProcessing \/ PrepareSync PROVE StepsDone'
  BY <1>1 DEF ClaimJob, Prepare, BeginProcessing, PrepareSync, EndJob, CompleteStep
<1>2. CASE Perform
  BY <1>2 DEF Perform, EndJob, StepPc
<1>3. ASSUME SeedUrl \/ CountSeed \/ FetchStart \/ FetchNext PROVE StepsDone'
  BY <1>3 DEF SeedUrl, CountSeed, FetchStart, FetchNext, Goto, CompleteStep
<1>4. ASSUME \E kind \in Snapshots : Visit(kind) PROVE StepsDone'
  BY <1>4 DEF Visit
<1>5. ASSUME InsertLinks \/ CountLinks \/ StorePage \/ MarkUrl \/ CountUrl \/ SetCursor
      PROVE  StepsDone'
  BY <1>5 DEF InsertLinks, CountLinks, StorePage, MarkUrl, CountUrl, SetCursor, Goto
<1>6. ASSUME Publish \/ ImportLocksRow \/ ImportCommit \/ ImportError PROVE StepsDone'
  BY <1>6 DEF Publish, ImportLocksRow, ImportCommit, ImportError, Goto, CompleteStep
<1>7. ASSUME CleanupPages \/ CleanupUrls \/ CleanupExpired PROVE StepsDone'
  BY <1>7 DEF CleanupPages, CleanupUrls, CleanupExpired, EndJob
<1>8. ASSUME PauseCrawl \/ RetryOrGiveUp \/ FailReload \/ FailRequest \/ FailCrawl
      PROVE  StepsDone'
  BY <1>8 DEF PauseCrawl, RetryOrGiveUp, FailReload, FailRequest, FailCrawl, Goto, Requeue, EndJob
<1>9. ASSUME \/ Interrupt \/ DispatchDies \/ StatementFails \/ RetryFailedJob
             \/ \E rowState \in {"failed", "ready"} : WorkerStops(rowState)
      PROVE  StepsDone'
  BY <1>9 DEF Interrupt, DispatchDies, StatementFails, RetryFailedJob, WorkerStops, EndJob, Requeue
<1>10. ASSUME Dispatch \/ \E a \in Admins : LoadForCancel(a) \/ MarkCancelled(a)
       PROVE  StepsDone'
  BY <1>10 DEF Dispatch, DispatchLoad, StartCrawl, EnqueueProcessing, LoadForCancel, MarkCancelled
<1>11. CASE UNCHANGED vars
  BY <1>11 DEF vars
<1> QED
  BY <1>1, <1>2, <1>3, <1>4, <1>5, <1>6, <1>7, <1>8, <1>9, <1>10, <1>11 DEF Next, Execute

\* The row of the queue.
LEMMA QueueAgreesStep ==
    ASSUME TypeOK, StepsDone, QueueAgrees, [Next]_vars
    PROVE  QueueAgrees'
<1> USE DEF QueueAgrees, TypeOK, JobRow, execution
<1>1. ASSUME ClaimJob \/ Prepare \/ BeginProcessing \/ PrepareSync PROVE QueueAgrees'
  BY <1>1 DEF ClaimJob, Prepare, BeginProcessing, PrepareSync, EndJob, CompleteStep, StepsDone, Synced
<1>2. CASE Perform
  BY <1>2 DEF Perform, Resumes, EndJob, StepPc
<1>3. ASSUME SeedUrl \/ CountSeed \/ FetchStart PROVE QueueAgrees'
  BY <1>3 DEF SeedUrl, CountSeed, FetchStart, Goto, CompleteStep, StepsDone
<1>4. ASSUME FetchNext PROVE QueueAgrees'
  BY <1>4 DEF FetchNext, Goto, CompleteStep, StepsDone, Synced
<1>5. ASSUME \E kind \in Snapshots : Visit(kind) PROVE QueueAgrees'
  BY <1>5 DEF Visit
<1>6. ASSUME InsertLinks \/ CountLinks \/ StorePage \/ MarkUrl \/ CountUrl \/ SetCursor
      PROVE  QueueAgrees'
  BY <1>6 DEF InsertLinks, CountLinks, StorePage, MarkUrl, CountUrl, SetCursor, Goto
<1>7. ASSUME Publish \/ ImportLocksRow \/ ImportCommit \/ ImportError PROVE QueueAgrees'
  BY <1>7 DEF Publish, ImportLocksRow, ImportCommit, ImportError, Goto, CompleteStep, StepsDone, Synced
<1>8. ASSUME CleanupPages \/ CleanupUrls \/ CleanupExpired PROVE QueueAgrees'
  BY <1>8 DEF CleanupPages, CleanupUrls, CleanupExpired, EndJob
<1>9. ASSUME PauseCrawl \/ RetryOrGiveUp \/ FailReload \/ FailRequest \/ FailCrawl
      PROVE  QueueAgrees'
  BY <1>9 DEF PauseCrawl, RetryOrGiveUp, FailReload, FailRequest, FailCrawl, FailedCrawl,
     Goto, Requeue, EndJob
<1>10. ASSUME \/ Interrupt \/ DispatchDies \/ StatementFails \/ RetryFailedJob
              \/ \E rowState \in {"failed", "ready"} : WorkerStops(rowState)
       PROVE  QueueAgrees'
  <2>1. CASE Interrupt
    BY <2>1 DEF Interrupt, Requeue
  <2>2. CASE DispatchDies
    BY <2>2 DEF DispatchDies
  <2>3. CASE StatementFails
    BY <2>3 DEF StatementFails
  <2>4. CASE RetryFailedJob
    <3>1. queue.state = "failed" /\ queue'.state = "ready" /\ queue'.done = queue.done
      BY <2>4 DEF RetryFailedJob
    <3> QED BY <2>4, <3>1 DEF RetryFailedJob
  <2>5. ASSUME NEW rowState \in {"failed", "ready"}, WorkerStops(rowState) PROVE QueueAgrees'
    BY <2>5 DEF WorkerStops, EndJob
  <2> QED BY <1>10, <2>1, <2>2, <2>3, <2>4, <2>5
<1>11. ASSUME Dispatch \/ \E a \in Admins : LoadForCancel(a) \/ MarkCancelled(a)
       PROVE  QueueAgrees'
  BY <1>11 DEF Dispatch, DispatchLoad, StartCrawl, EnqueueProcessing, LoadForCancel, MarkCancelled
<1>12. CASE UNCHANGED vars
  BY <1>12 DEF vars
<1> QED
  BY <1>1, <1>2, <1>3, <1>4, <1>5, <1>6, <1>7, <1>8, <1>9, <1>10, <1>11, <1>12 DEF Next, Execute

\* The rows of crawl and request.
LEMMA RowsAgreeStep ==
    ASSUME TypeOK, StepsDone, QueueAgrees, RowsAgree, [Next]_vars
    PROVE  RowsAgree'
<1> USE DEF RowsAgree, TypeOK, JobRow, Terminal, request, execution
<1>1. ASSUME ClaimJob \/ Prepare \/ BeginProcessing PROVE RowsAgree'
  BY <1>1 DEF ClaimJob, Prepare, BeginProcessing, EndJob, MayPrepare, StepsDone, QueueAgrees
<1>2. CASE Perform
  BY <1>2 DEF Perform, Resumes, EndJob, StepPc
<1>3. CASE PrepareSync
  BY <1>3, SyncedIs DEF PrepareSync, EndJob, CompleteStep, StepsDone, QueueAgrees
<1>4. ASSUME SeedUrl \/ CountSeed \/ FetchStart PROVE RowsAgree'
  BY <1>4 DEF SeedUrl, CountSeed, FetchStart, Goto, CompleteStep, StepsDone, QueueAgrees
<1>5. CASE FetchNext
  BY <1>5, SyncedIs DEF FetchNext, CompleteStep, StepsDone, QueueAgrees
<1>6. ASSUME \E kind \in Snapshots : Visit(kind) PROVE RowsAgree'
  BY <1>6 DEF Visit
<1>7. ASSUME InsertLinks \/ CountLinks \/ StorePage \/ MarkUrl \/ CountUrl \/ SetCursor
      PROVE  RowsAgree'
  BY <1>7 DEF InsertLinks, CountLinks, StorePage, MarkUrl, CountUrl, SetCursor, Goto
<1>8. CASE Publish
  BY <1>8, SyncedIs DEF Publish, CompleteStep, StepsDone, QueueAgrees, Statuses
<1>9. ASSUME ImportLocksRow \/ ImportCommit \/ ImportError PROVE RowsAgree'
  BY <1>9 DEF ImportLocksRow, ImportCommit, ImportError, Goto, CompleteStep
<1>10. ASSUME CleanupPages \/ CleanupUrls \/ CleanupExpired PROVE RowsAgree'
  BY <1>10 DEF CleanupPages, CleanupUrls, CleanupExpired, EndJob
<1>11. ASSUME PauseCrawl \/ RetryOrGiveUp \/ FailReload PROVE RowsAgree'
  BY <1>11 DEF PauseCrawl, RetryOrGiveUp, FailReload, MustFail, Goto, Requeue, StepsDone, Statuses
<1>12. ASSUME FailRequest \/ FailCrawl PROVE RowsAgree'
  BY <1>12 DEF FailRequest, FailCrawl, FailedCrawl, Goto, Requeue, EndJob
<1>13. ASSUME \/ Interrupt \/ DispatchDies \/ StatementFails \/ RetryFailedJob
              \/ \E rowState \in {"failed", "ready"} : WorkerStops(rowState)
       PROVE  RowsAgree'
  <2>1. CASE Interrupt
    BY <2>1 DEF Interrupt, Requeue
  <2>2. CASE DispatchDies
    BY <2>2 DEF DispatchDies
  <2>3. CASE StatementFails
    BY <2>3 DEF StatementFails
  <2>4. CASE RetryFailedJob
    <3>1. queue.state = "failed" /\ queue'.state = "ready" /\ queue'.done = queue.done
      BY <2>4 DEF RetryFailedJob
    <3> QED BY <2>4, <3>1 DEF RetryFailedJob
  <2>5. ASSUME NEW rowState \in {"failed", "ready"}, WorkerStops(rowState) PROVE RowsAgree'
    BY <2>5 DEF WorkerStops, EndJob
  <2> QED BY <1>13, <2>1, <2>2, <2>3, <2>4, <2>5
<1>14. ASSUME Dispatch \/ \E a \in Admins : LoadForCancel(a) \/ MarkCancelled(a)
       PROVE  RowsAgree'
  BY <1>14 DEF Dispatch, DispatchLoad, StartCrawl, EnqueueProcessing, LoadForCancel, MarkCancelled, QueueAgrees
<1>15. CASE UNCHANGED vars
  BY <1>15 DEF vars
<1> QED
  BY <1>1, <1>2, <1>3, <1>4, <1>5, <1>6, <1>7, <1>8, <1>9, <1>10, <1>11, <1>12, <1>13, <1>14, <1>15
  DEF Next, Execute

\* What the snapshot of a visit lists are URLs of the site.
LEMMA SnapshotLinksAreUrls ==
    ASSUME TypeOK
    PROVE  SnapshotLinks \in Seq(Urls)
<1>1. Links[url.at] \in Seq(Urls)
  BY ConstantsAssumption DEF TypeOK, Visits
<1>2. << >> \in Seq(Urls)
  OBVIOUS
<1> QED BY <1>1, <1>2 DEF SnapshotLinks

\* The row of the queue has the right type.
LEMMA QueueTypeStep ==
    ASSUME TypeOK, [Next]_vars
    PROVE  queue' \in JobRow
<1>1. queue \in JobRow /\ queue.failures \in 0 .. MaxAttempts /\ queue.done \in 0 .. 3 /\ done \in 0 .. 3
  BY DEF TypeOK, JobRow
<1>2. ASSUME NEW rowState \in {"none", "ready", "running", "failed", "done"}
      PROVE  [queue EXCEPT !.state = rowState] \in JobRow
  BY <1>1 DEF JobRow
<1>3. ASSUME NEW failures \in 0 .. MaxAttempts, NEW n \in 0 .. 3
      PROVE  [state |-> "ready", done |-> n, failures |-> failures] \in JobRow
  BY DEF JobRow
<1>4. CASE Interrupt
  BY <1>1, <1>3, <1>4 DEF Interrupt, Requeue
<1>5. CASE RetryOrGiveUp
  <2>1. queue.failures + 1 < MaxAttempts => queue.failures + 1 \in 0 .. MaxAttempts
    BY <1>1, ConstantsAssumption
  <2> QED BY <1>1, <1>3, <1>5, <2>1 DEF RetryOrGiveUp, Requeue
<1>6. CASE FailCrawl
  BY <1>1, <1>2, <1>3, <1>6 DEF FailCrawl, Requeue, EndJob
<1>7. CASE RetryFailedJob
  <2>1. queue' = [state |-> "ready", done |-> queue.done, failures |-> 0]
    BY <1>7 DEF RetryFailedJob
  <2>2. 0 \in 0 .. MaxAttempts
    BY ConstantsAssumption
  <2> QED BY <1>1, <1>3, <2>1, <2>2
<1>8. ASSUME ClaimJob \/ Perform \/ Prepare \/ PrepareSync PROVE queue' \in JobRow
  <2>1. queue' = queue \/ \E rowState \in {"running", "done"} : queue' = [queue EXCEPT !.state = rowState]
    BY <1>8 DEF ClaimJob, Perform, Prepare, PrepareSync, EndJob
  <2> QED BY <1>1, <1>2, <2>1
<1>9. ASSUME EnqueueProcessing \/ CleanupPages \/ CleanupUrls PROVE queue' \in JobRow
  BY <1>1, <1>2, <1>9 DEF EnqueueProcessing, CleanupPages, CleanupUrls, EndJob
<1>10. ASSUME NEW rowState \in {"failed", "ready"}, WorkerStops(rowState) PROVE queue' \in JobRow
  BY <1>2, <1>10 DEF WorkerStops, EndJob
<1>11. ASSUME queue' = queue PROVE queue' \in JobRow
  BY <1>1, <1>11
<1> QED
  BY <1>4, <1>5, <1>6, <1>7, <1>8, <1>9, <1>10, <1>11
  DEF Next, Execute, Dispatch, vars, DispatchLoad, StartCrawl, LoadForCancel, MarkCancelled, DispatchDies,
      StatementFails, BeginProcessing, SeedUrl, CountSeed, FetchStart, FetchNext, Visit, InsertLinks,
      CountLinks, StorePage, MarkUrl, CountUrl, SetCursor, Publish, ImportLocksRow, ImportCommit,
      ImportError, CleanupExpired, PauseCrawl, FailReload, FailRequest

\* The rows of the crawl, its URLs and pages, and the URL being visited.
LEMMA FrontierTypeStep ==
    ASSUME TypeOK, IsFiniteSet(Rows), [Next]_vars
    PROVE  /\ state' \in [Urls -> {"unknown", "pending", "fetched", "skipped"}]
           /\ id' \in [Urls -> Nat]
           /\ pages' \subseteq Urls
           /\ discovered' \in Nat
           /\ processed' \in Nat
           /\ url' \in Visits
           /\ fresh' \in Nat
<1> USE DEF TypeOK, frontier, execution
<1>1. CASE SeedUrl
  <2>1. <<Seed>> \in Seq(Urls)
    BY ConstantsAssumption
  <2> QED BY <1>1, <2>1, InsertIs DEF SeedUrl
<1>2. CASE InsertLinks
  BY <1>2, SnapshotLinksAreUrls, InsertIs DEF InsertLinks
<1>3. CASE FetchNext
  <2>1. PendingUrls # {} => First(PendingUrls) \in Urls
    BY FirstIsOne DEF PendingUrls
  <2>2. url' \in Visits
    BY <1>3, <2>1 DEF FetchNext, Visits
  <2> QED BY <1>3, <2>2 DEF FetchNext
<1>4. ASSUME NEW kind \in Snapshots, Visit(kind) PROVE url' \in Visits /\ UNCHANGED <<frontier, fresh>>
  BY <1>4, ConstantsAssumption DEF Visit, Visits
<1>5. ASSUME CountSeed \/ CountLinks \/ StorePage \/ MarkUrl \/ CountUrl
      PROVE  /\ pages' \subseteq Urls /\ discovered' \in Nat /\ processed' \in Nat /\ fresh' \in Nat
             /\ state' \in [Urls -> {"unknown", "pending", "fetched", "skipped"}]
             /\ UNCHANGED <<id, url>>
  BY <1>5 DEF CountSeed, CountLinks, StorePage, MarkUrl, CountUrl, Visits
<1>6. ASSUME CleanupPages \/ CleanupUrls \/ CleanupExpired
      PROVE  /\ pages' \subseteq Urls /\ id' \in [Urls -> Nat]
             /\ state' \in [Urls -> {"unknown", "pending", "fetched", "skipped"}]
             /\ UNCHANGED <<discovered, processed, url, fresh>>
  BY <1>6 DEF CleanupPages, CleanupUrls, CleanupExpired
<1>7. ASSUME UNCHANGED <<frontier, url, fresh>>
      PROVE  /\ UNCHANGED <<url, fresh, state, id, pages, discovered, processed>>
  BY <1>7
<1> QED
  BY <1>1, <1>2, <1>3, <1>4, <1>5, <1>6, <1>7
  DEF Next, Execute, Dispatch, vars, DispatchLoad, StartCrawl, EnqueueProcessing, LoadForCancel,
      MarkCancelled, DispatchDies, StatementFails, WorkerStops, Interrupt, RetryFailedJob, ClaimJob,
      Perform, Prepare, PrepareSync, BeginProcessing, FetchStart, SetCursor, Publish, ImportLocksRow,
      ImportCommit, ImportError, PauseCrawl, RetryOrGiveUp, FailReload, FailRequest, FailCrawl

\* The request's row, its lock, and who is about to write it.
LEMMA RequestTypeStep ==
    ASSUME TypeOK, RowsAgree, [Next]_vars
    PROVE  /\ status' \in Statuses /\ error' \in BOOLEAN /\ imports' \in 0 .. 1
           /\ lock' \in BOOLEAN
           /\ apc' \in [Admins -> {"idle", "loaded", "done"}]
           /\ dispatch' \in {"queued", "loaded", "created", "over"}
           /\ mem' \in Statuses
<1> USE DEF Statuses, request, execution
<1>1. ASSUME BeginProcessing \/ FailRequest \/ ImportLocksRow \/ ImportError
      PROVE  /\ status' \in Statuses /\ error' \in BOOLEAN /\ lock' \in BOOLEAN
             /\ UNCHANGED <<imports, apc, dispatch, mem>>
  BY <1>1 DEF TypeOK, BeginProcessing, FailRequest, ImportLocksRow, ImportError
<1>2. ASSUME ImportCommit
      PROVE  /\ status' \in Statuses /\ error' \in BOOLEAN /\ imports' \in 0 .. 1 /\ lock' \in BOOLEAN
             /\ UNCHANGED <<apc, dispatch, mem>>
  <2>1. imports = 0
    BY <1>2 DEF TypeOK, ImportCommit, RowsAgree
  <2>2. imports' \in 0 .. 1 /\ status' \in Statuses /\ UNCHANGED <<apc, dispatch, mem>>
    BY <1>2, <2>1 DEF ImportCommit
  <2>3. error' \in BOOLEAN /\ lock' \in BOOLEAN
    BY <1>2, Zenon DEF ImportCommit
  <2> QED BY <2>2, <2>3
<1>3. ASSUME Publish PROVE mem' \in Statuses /\ UNCHANGED <<request, lock, apc, dispatch>>
  BY <1>3 DEF TypeOK, Publish
<1>4. ASSUME Dispatch \/ DispatchDies
      PROVE  /\ dispatch' \in {"queued", "loaded", "created", "over"}
             /\ UNCHANGED <<request, lock, apc, mem>>
  BY <1>4 DEF TypeOK, Dispatch, DispatchLoad, StartCrawl, EnqueueProcessing, DispatchDies
<1>5. ASSUME NEW a \in Admins, LoadForCancel(a) \/ MarkCancelled(a)
      PROVE  /\ status' \in Statuses
             /\ apc' \in [Admins -> {"idle", "loaded", "done"}]
             /\ UNCHANGED <<error, imports, lock, dispatch, mem>>
  BY <1>5 DEF TypeOK, LoadForCancel, MarkCancelled
<1>6. ASSUME NEW rowState \in {"failed", "ready"}, WorkerStops(rowState)
      PROVE  lock' \in BOOLEAN /\ UNCHANGED <<request, apc, dispatch, mem>>
  BY <1>6 DEF WorkerStops
<1>7. ASSUME UNCHANGED <<request, lock, apc, dispatch, mem>>
      PROVE  UNCHANGED <<status, error, imports, lock, apc, dispatch, mem>>
  BY <1>7
<1> QED
  BY <1>1, <1>2, <1>3, <1>4, <1>5, <1>6, <1>7
  DEF TypeOK, Next, Execute, vars, StatementFails, Interrupt, RetryFailedJob, ClaimJob, Perform, Prepare,
      PrepareSync, SeedUrl, CountSeed, FetchStart, FetchNext, Visit, InsertLinks, CountLinks, StorePage,
      MarkUrl, CountUrl, SetCursor, CleanupPages, CleanupUrls, CleanupExpired, PauseCrawl,
      RetryOrGiveUp, FailReload, FailCrawl

\* The crawl's row and the place of the execution.
LEMMA ExecutionTypeStep ==
    ASSUME TypeOK, RowsAgree, [Next]_vars
    PROVE  /\ crawl' \in Statuses \cup {"none"}
           /\ runner' \in {"auto", "ruby", "node"}
           /\ pc' \in PCs
           /\ done' \in 0 .. 3 /\ advanced' \in BOOLEAN
           /\ faults' \in 0 .. MaxFaults
<1> USE DEF PCs, Statuses, execution
<1>1. ASSUME NEW n \in 0 .. 3, NEW to \in PCs, CompleteStep(n, to)
      PROVE  done' \in 0 .. 3 /\ advanced' \in BOOLEAN /\ pc' \in PCs
  <2>1. advanced' \in BOOLEAN
    BY <1>1, Zenon DEF CompleteStep
  <2> QED BY <1>1, <2>1 DEF CompleteStep
<1>2. ASSUME ClaimJob \/ Perform \/ Prepare \/ BeginProcessing
      PROVE  /\ crawl' \in Statuses \cup {"none"} /\ pc' \in PCs
             /\ done' \in 0 .. 3 /\ advanced' \in BOOLEAN
             /\ UNCHANGED <<runner, faults>>
  BY <1>2 DEF TypeOK, ClaimJob, Perform, Prepare, BeginProcessing, EndJob, StepPc, Resumes, JobRow
<1>3. ASSUME PrepareSync \/ FetchNext \/ Publish
      PROVE  /\ crawl' \in Statuses \cup {"none"} /\ pc' \in PCs
             /\ done' \in 0 .. 3 /\ advanced' \in BOOLEAN
             /\ UNCHANGED <<runner, faults>>
  <2>1. Synced(status) \in Statuses \cup {"none"}
    BY SyncedIs
  <2>2. done \in 0 .. 3 /\ advanced \in BOOLEAN
    BY DEF TypeOK
  <2> QED BY <1>1, <1>3, <2>1, <2>2 DEF PrepareSync, FetchNext, Publish, EndJob
<1>4. ASSUME SeedUrl \/ CountSeed \/ FetchStart \/ SetCursor
      PROVE  /\ pc' \in PCs /\ done' \in 0 .. 3 /\ advanced' \in BOOLEAN
             /\ UNCHANGED <<crawl, runner, faults>>
  <2>1. SetCursor => advanced' \in BOOLEAN
    BY Zenon DEF SetCursor
  <2> QED BY <1>1, <1>4, <2>1 DEF TypeOK, SeedUrl, CountSeed, FetchStart, SetCursor, Goto
<1>5. ASSUME InsertLinks \/ CountLinks \/ StorePage \/ MarkUrl \/ CountUrl
      PROVE  pc' \in PCs /\ UNCHANGED <<crawl, runner, done, advanced, faults>>
  BY <1>5 DEF InsertLinks, CountLinks, StorePage, MarkUrl, CountUrl, Goto
<1>6. ASSUME NEW kind \in Snapshots, Visit(kind)
      PROVE  /\ runner' \in {"auto", "ruby", "node"} /\ pc' \in PCs
             /\ UNCHANGED <<crawl, done, advanced, faults>>
  BY <1>6 DEF TypeOK, Visit
<1>7. ASSUME ImportLocksRow \/ ImportCommit \/ ImportError
      PROVE  /\ crawl' \in Statuses \cup {"none"} /\ pc' \in PCs
             /\ done' \in 0 .. 3 /\ advanced' \in BOOLEAN
             /\ UNCHANGED <<runner, faults>>
  BY <1>1, <1>7 DEF TypeOK, ImportLocksRow, ImportCommit, ImportError, Goto
<1>8. ASSUME CleanupPages \/ CleanupUrls \/ CleanupExpired
      PROVE  pc' \in PCs /\ UNCHANGED <<crawl, runner, done, advanced, faults>>
  BY <1>8 DEF CleanupPages, CleanupUrls, CleanupExpired, EndJob
<1>9. ASSUME PauseCrawl \/ RetryOrGiveUp \/ FailReload \/ FailRequest \/ FailCrawl \/ Interrupt
      PROVE  /\ crawl' \in Statuses \cup {"none"} /\ pc' \in PCs
             /\ UNCHANGED <<runner, done, advanced, faults>>
  BY <1>9
  DEF TypeOK, PauseCrawl, RetryOrGiveUp, FailReload, FailRequest, FailCrawl, FailedCrawl, Interrupt, Goto,
      Requeue, EndJob
<1>10. ASSUME \/ DispatchDies \/ StatementFails \/ RetryFailedJob
             \/ \E rowState \in {"failed", "ready"} : WorkerStops(rowState)
      PROVE  faults' \in 0 .. MaxFaults /\ pc' \in PCs /\ UNCHANGED <<crawl, runner, done, advanced>>
  BY <1>10, ConstantsAssumption
  DEF TypeOK, DispatchDies, StatementFails, RetryFailedJob, WorkerStops, Fault, EndJob
<1>11. ASSUME Dispatch \/ \E a \in Admins : LoadForCancel(a) \/ MarkCancelled(a)
      PROVE  /\ crawl' \in Statuses \cup {"none"}
             /\ UNCHANGED <<runner, pc, done, advanced, faults>>
  BY <1>11 DEF TypeOK, Dispatch, DispatchLoad, StartCrawl, EnqueueProcessing, LoadForCancel, MarkCancelled
<1>12. ASSUME UNCHANGED vars PROVE UNCHANGED <<crawl, runner, pc, done, advanced, faults>>
  BY <1>12 DEF vars
<1> QED
  BY <1>2, <1>3, <1>4, <1>5, <1>6, <1>7, <1>8, <1>9, <1>10, <1>11, <1>12 DEF TypeOK, Next, Execute

\* Type correctness.
LEMMA TypeOKStep ==
    ASSUME TypeOK, RowsAgree, IsFiniteSet(Rows), [Next]_vars
    PROVE  TypeOK'
BY QueueTypeStep, FrontierTypeStep, RequestTypeStep, ExecutionTypeStep DEF TypeOK

\* A crawl that has ended stays so.
LEMMA EndedStays ==
    ASSUME TypeOK, QueueAgrees, RowsAgree, Terminal(crawl), [Next]_vars
    PROVE  Terminal(crawl')
<1>1. CASE PrepareSync \/ FetchNext \/ Publish
  BY <1>1, SyncedIs DEF PrepareSync, FetchNext, Publish
<1>2. CASE StartCrawl
  BY <1>2 DEF StartCrawl, QueueAgrees, Terminal
<1>3. CASE Perform \/ Prepare \/ PauseCrawl \/ FailCrawl \/ ImportCommit
  BY <1>3 DEF Perform, Resumes, Prepare, MayPrepare, PauseCrawl, FailCrawl, FailedCrawl, ImportCommit,
     Terminal
<1>4. CASE crawl' = crawl
  BY <1>4
<1> QED
  BY <1>1, <1>2, <1>3, <1>4
  DEF Next, Execute, Dispatch, vars, DispatchLoad, EnqueueProcessing, LoadForCancel, MarkCancelled,
      DispatchDies, StatementFails, WorkerStops, Interrupt, RetryFailedJob, ClaimJob, BeginProcessing,
      SeedUrl, CountSeed, FetchStart, Visit, InsertLinks, CountLinks, StorePage, MarkUrl, CountUrl,
      SetCursor, ImportLocksRow, ImportError, CleanupPages, CleanupUrls, CleanupExpired,
      RetryOrGiveUp, FailReload, FailRequest

\* Without faults.
LEMMA FaultFreeStep ==
    ASSUME TypeOK, StepsDone, QueueAgrees, RowsAgree, FaultFree, [Next]_vars
    PROVE  FaultFree'
<1> USE DEF FaultFree, Terminal, execution, request
<1>1. ASSUME ClaimJob \/ Perform PROVE FaultFree'
  BY <1>1 DEF TypeOK, JobRow, ClaimJob, Perform, Resumes, EndJob, StepPc, QueueAgrees
<1>2. ASSUME Prepare \/ BeginProcessing PROVE FaultFree'
  BY <1>2 DEF TypeOK, JobRow, Prepare, BeginProcessing, EndJob, MayPrepare, StepsDone, QueueAgrees
<1>3. CASE PrepareSync
  BY <1>3, SyncedIs DEF TypeOK, Statuses, JobRow, PrepareSync, EndJob, CompleteStep, QueueAgrees, RowsAgree
<1>4. ASSUME SeedUrl \/ CountSeed \/ FetchStart PROVE FaultFree'
  BY <1>4 DEF TypeOK, JobRow, SeedUrl, CountSeed, FetchStart, Goto, CompleteStep, QueueAgrees
<1>5. CASE FetchNext
  BY <1>5, SyncedIs DEF TypeOK, JobRow, FetchNext, CompleteStep, QueueAgrees, StepsDone
<1>6. ASSUME NEW kind \in Snapshots, Visit(kind) PROVE FaultFree'
  BY <1>6 DEF TypeOK, JobRow, Visit, QueueAgrees, StepsDone
<1>7. ASSUME InsertLinks \/ CountLinks \/ StorePage \/ MarkUrl \/ CountUrl \/ SetCursor
      PROVE  FaultFree'
  BY <1>7
  DEF TypeOK, JobRow, InsertLinks, CountLinks, StorePage, MarkUrl, CountUrl, SetCursor, Goto, QueueAgrees
<1>8. CASE Publish
  BY <1>8, SyncedIs DEF TypeOK, JobRow, Publish, CompleteStep, QueueAgrees, StepsDone
<1>9. ASSUME ImportLocksRow \/ ImportCommit \/ ImportError PROVE FaultFree'
  BY <1>9 DEF TypeOK, JobRow, ImportLocksRow, ImportCommit, ImportError, Goto, CompleteStep, QueueAgrees,
     StepsDone
<1>10. ASSUME CleanupPages \/ CleanupUrls \/ CleanupExpired PROVE FaultFree'
  BY <1>10 DEF TypeOK, JobRow, CleanupPages, CleanupUrls, CleanupExpired, EndJob, StepsDone, QueueAgrees,
     RowsAgree
<1>11. ASSUME PauseCrawl \/ RetryOrGiveUp PROVE FaultFree'
  BY <1>11 DEF TypeOK, JobRow, PauseCrawl, RetryOrGiveUp, Goto, Requeue, StepsDone, QueueAgrees
<1>12. ASSUME FailReload \/ FailRequest \/ FailCrawl PROVE FaultFree'
  BY <1>12 DEF TypeOK, JobRow, FailReload, FailRequest, FailCrawl, FailedCrawl, Goto, Requeue, EndJob,
     StepsDone, QueueAgrees
<1>13. CASE Interrupt
  BY <1>13 DEF TypeOK, JobRow, Interrupt, Requeue, StepsDone
<1>14. ASSUME \/ DispatchDies \/ StatementFails \/ RetryFailedJob
              \/ \E rowState \in {"failed", "ready"} : WorkerStops(rowState)
       PROVE  FaultFree'
  BY <1>14 DEF TypeOK, DispatchDies, StatementFails, RetryFailedJob, WorkerStops, Fault
<1>15. ASSUME Dispatch \/ \E a \in Admins : LoadForCancel(a) \/ MarkCancelled(a)
       PROVE  FaultFree'
  BY <1>15 DEF TypeOK, JobRow, Dispatch, DispatchLoad, StartCrawl, EnqueueProcessing, LoadForCancel,
     MarkCancelled, QueueAgrees
<1>16. CASE UNCHANGED vars
  BY <1>16 DEF vars
<1> QED
  BY <1>1, <1>2, <1>3, <1>4, <1>5, <1>6, <1>7, <1>8, <1>9, <1>10, <1>11, <1>12, <1>13, <1>14, <1>15, <1>16
  DEF Next, Execute

-----------------------------------------------------------------------------
(* The counters.                                                           *)

Visiting == {"visit", "insert", "count", "store", "mark"}

\* The counters are natural numbers, and so are the sizes they are compared to.
LEMMA CountsAreNumbers ==
    ASSUME TypeOK, IsFiniteSet(Rows)
    PROVE  /\ Cardinality(Rows) \in Nat
           /\ IsFiniteSet(ProcessedUrls)
           /\ Cardinality(ProcessedUrls) \in Nat
           /\ Fresh \in Nat /\ Tally \in 0 .. 1
           /\ discovered \in Nat /\ processed \in Nat /\ Limit \in Nat
<1>1. ProcessedUrls \in SUBSET Rows
  BY DEF ProcessedUrls, Processed, Rows, HasRow
<1>2. IsFiniteSet(ProcessedUrls)
  BY <1>1, FS_Subset
<1> QED BY <1>2, FS_CardinalityType, ConstantsAssumption DEF TypeOK, Fresh, Tally

\* A step that leaves the rows and the counters alone, and does not move the
\* execution to a place where more is claimed.
LEMMA CountedFrame ==
    ASSUME TypeOK, TypeOK', Counted,
           UNCHANGED <<state, discovered, processed>>,
           ~Terminal(crawl') => ~Terminal(crawl),
           pc' \in {"seeded", "count"} => pc = pc' /\ fresh' = fresh,
           pc' = "tally" => pc = "tally",
           faults' = 0 => faults = 0 /\ (pc \in {"seeded", "count", "tally"} => pc' = pc),
           pc' \in Visiting => state[url'.at] = "pending"
    PROVE  Counted'
<1>1. Rows' = Rows /\ ProcessedUrls' = ProcessedUrls
  BY DEF Rows, HasRow, ProcessedUrls, Processed
<1>2. IsFiniteSet(Rows) /\ IsFiniteSet(Rows')
  BY <1>1 DEF Counted
<1>3. /\ Cardinality(Rows) \in Nat /\ Cardinality(ProcessedUrls) \in Nat
      /\ Fresh \in Nat /\ Tally \in 0 .. 1 /\ discovered \in Nat /\ processed \in Nat
  BY <1>2, CountsAreNumbers
<1>4. /\ Fresh' \in Nat /\ Fresh' <= Fresh
      /\ Tally' \in 0 .. 1 /\ Tally' <= Tally
      /\ faults' = 0 => faults = 0 /\ Fresh' = Fresh /\ Tally' = Tally
  BY DEF Fresh, Tally, TypeOK
<1>5. ~Terminal(crawl') => /\ discovered' + Fresh' <= Cardinality(Rows')
                           /\ processed' + Tally' <= Cardinality(ProcessedUrls')
                           /\ faults' = 0 => /\ discovered' + Fresh' = Cardinality(Rows')
                                             /\ processed' + Tally' = Cardinality(ProcessedUrls')
  BY <1>1, <1>3, <1>4 DEF Counted
<1> QED BY <1>2, <1>5 DEF Counted, Visiting

\* Rows are inserted, and counted later.
LEMMA CountedInsert ==
    ASSUME TypeOK, TypeOK', Counted, NEW links \in Seq(Urls), Insert(links),
           pc \in {"seed", "insert"}, pc' \in {"seeded", "count"},
           pc' = "count" => pc = "insert",
           UNCHANGED <<discovered, processed, url, crawl, faults>>
    PROVE  Counted'
<1>1. IsFiniteSet(Rows)
  BY DEF Counted
<1>2. /\ fresh' \in Nat
      /\ IsFiniteSet(Rows')
      /\ Cardinality(Rows') = Cardinality(Rows) + fresh'
      /\ \A u \in Rows : state'[u] = state[u]
      /\ ProcessedUrls' = ProcessedUrls
  BY <1>1, InsertIs
<1>3. Fresh = 0 /\ Tally = 0 /\ Fresh' = fresh' /\ Tally' = 0
  BY DEF Fresh, Tally
<1>4. Cardinality(Rows) \in Nat /\ discovered \in Nat
  BY <1>1, CountsAreNumbers
<1>5. pc' = "count" => state'[url'.at] = "pending"
  BY <1>2 DEF Counted, Rows, HasRow, TypeOK, Visits
<1> QED BY <1>2, <1>3, <1>4, <1>5 DEF Counted

LEMMA CountedStep ==
    ASSUME TypeOK, TypeOK', QueueAgrees, RowsAgree, Counted, [Next]_vars
    PROVE  Counted'
<1> USE DEF Visiting, frontier, execution
<1>1. IsFiniteSet(Rows)
  BY DEF Counted
<1>2. ~Terminal(crawl') => ~Terminal(crawl)
  BY EndedStays
<1>3. CASE SeedUrl
  <2>1. <<Seed>> \in Seq(Urls)
    BY ConstantsAssumption
  <2> QED BY <1>3, <2>1, CountedInsert DEF SeedUrl, Goto
<1>4. CASE InsertLinks
  BY <1>4, SnapshotLinksAreUrls, CountedInsert DEF InsertLinks, Goto
<1>5. ASSUME CountSeed \/ CountLinks PROVE Counted'
  <2>1. /\ state' = state /\ processed' = processed /\ url' = url /\ crawl' = crawl /\ faults' = faults
        /\ discovered' = discovered + fresh /\ fresh \in Nat
        /\ pc \in {"seeded", "count"} /\ pc' \in {"fetch", "loop", "store", "mark"}
        /\ pc = "seeded" => pc' \in {"fetch", "loop"}
    BY <1>5 DEF CountSeed, CountLinks, Goto, CompleteStep, TypeOK
  <2>2. Rows' = Rows /\ ProcessedUrls' = ProcessedUrls
    BY <2>1 DEF Rows, HasRow, ProcessedUrls, Processed
  <2>3. Fresh = fresh /\ Tally = 0 /\ Fresh' = 0 /\ Tally' = 0
    BY <2>1 DEF Fresh, Tally
  <2>4. discovered \in Nat /\ processed \in Nat
    BY DEF TypeOK
  <2> QED BY <1>1, <2>1, <2>2, <2>3, <2>4 DEF Counted
<1>6. CASE MarkUrl
  <2>1. /\ state[url.at] = "pending" /\ url.at \in Urls
        /\ \E s \in {"fetched", "skipped"} : state' = [state EXCEPT ![url.at] = s]
        /\ UNCHANGED <<discovered, processed, url, crawl, faults>>
        /\ pc = "mark" /\ pc' = "tally"
    BY <1>6 DEF MarkUrl, Goto, Counted, TypeOK, Visits
  <2>2. Rows' = Rows /\ ProcessedUrls' = ProcessedUrls \cup {url.at} /\ url.at \notin ProcessedUrls
    BY <2>1 DEF Rows, HasRow, ProcessedUrls, Processed, TypeOK
  <2>3. /\ Cardinality(Rows) \in Nat /\ IsFiniteSet(ProcessedUrls) /\ Cardinality(ProcessedUrls) \in Nat
        /\ discovered \in Nat /\ processed \in Nat
    BY <1>1, CountsAreNumbers
  <2>4. Cardinality(ProcessedUrls') = Cardinality(ProcessedUrls) + 1
    BY <2>2, <2>3, FS_AddElement
  <2>5. Fresh = 0 /\ Tally = 0 /\ Fresh' = 0 /\ Tally' = 1
    BY <2>1 DEF Fresh, Tally
  <2> QED BY <1>1, <2>1, <2>2, <2>3, <2>4, <2>5 DEF Counted
<1>7. CASE CountUrl
  <2>1. /\ state' = state /\ discovered' = discovered /\ processed' = processed + 1
        /\ UNCHANGED <<url, crawl, faults>>
        /\ pc = "tally" /\ pc' = "set"
    BY <1>7 DEF CountUrl, Goto
  <2>2. Rows' = Rows /\ ProcessedUrls' = ProcessedUrls
    BY <2>1 DEF Rows, HasRow, ProcessedUrls, Processed
  <2>3. discovered \in Nat /\ processed \in Nat
    BY DEF TypeOK
  <2>4. Fresh = 0 /\ Tally = 1 /\ Fresh' = 0 /\ Tally' = 0
    BY <2>1 DEF Fresh, Tally
  <2> QED BY <1>1, <2>1, <2>2, <2>3, <2>4 DEF Counted
<1>8. ASSUME CleanupUrls \/ CleanupExpired PROVE Counted'
  <2>1. Terminal(crawl') /\ pc' = "idle" /\ state' = [u \in Urls |-> "unknown"]
    BY <1>8 DEF CleanupUrls, CleanupExpired, EndJob, RowsAgree, Terminal
  <2>2. Rows' = {}
    BY <2>1 DEF Rows, HasRow
  <2> QED BY <2>1, <2>2, FS_EmptySet DEF Counted
<1>9. CASE FetchNext
  <2>1. PendingUrls # {} => First(PendingUrls) \in PendingUrls
    BY FirstIsOne DEF PendingUrls
  <2>2. pc' = "visit" => state[url'.at] = "pending"
    BY <1>9, <2>1 DEF FetchNext, CompleteStep, PendingUrls, TypeOK, Visits
  <2> QED BY <1>2, <1>9, <2>2, CountedFrame DEF FetchNext, CompleteStep
<1>10. ASSUME NEW kind \in Snapshots, Visit(kind) PROVE Counted'
  <2>1. url'.at = url.at
    BY <1>10 DEF Visit, TypeOK, Visits
  <2>2. /\ UNCHANGED <<state, discovered, processed, crawl, faults>>
        /\ pc = "visit" /\ pc' \in {"transient", "error", "set", "insert"}
    BY <1>10 DEF Visit
  <2>3. state[url.at] = "pending"
    BY <2>2 DEF Counted
  <2> QED BY <2>1, <2>2, <2>3, CountedFrame
<1>11. ASSUME StorePage \/ CleanupPages PROVE Counted'
  BY <1>2, <1>11, CountedFrame DEF StorePage, CleanupPages, Goto, EndJob, Counted
<1>12. ASSUME \/ UNCHANGED <<pc, url, fresh, faults>> /\ UNCHANGED frontier
              \/ /\ pc' \notin {"seeded", "count", "tally"} \cup Visiting
                 /\ pc \notin {"seeded", "count", "tally"} \/ faults' # 0
                 /\ faults' = 0 => faults = 0
                 /\ UNCHANGED frontier
       PROVE  Counted'
  BY <1>2, <1>12, CountedFrame DEF Counted
<1>13. ASSUME ClaimJob \/ Perform \/ Prepare \/ BeginProcessing \/ PrepareSync \/ FetchStart \/ SetCursor
              \/ Publish \/ ImportLocksRow \/ ImportCommit \/ ImportError
       PROVE  Counted'
  BY <1>12, <1>13
  DEF ClaimJob, Perform, Prepare, BeginProcessing, PrepareSync, FetchStart, SetCursor, Publish,
      ImportLocksRow, ImportCommit, ImportError, Goto, CompleteStep, EndJob, StepPc
<1>14. ASSUME PauseCrawl \/ RetryOrGiveUp \/ FailReload \/ FailRequest \/ FailCrawl \/ Interrupt
       PROVE  Counted'
  BY <1>12, <1>14
  DEF PauseCrawl, RetryOrGiveUp, FailReload, FailRequest, FailCrawl, Interrupt, Goto, EndJob, Requeue
<1>15. ASSUME \/ DispatchDies \/ StatementFails \/ RetryFailedJob
              \/ \E rowState \in {"failed", "ready"} : WorkerStops(rowState)
       PROVE  Counted'
  <2>1. faults' # 0 /\ UNCHANGED frontier /\ (UNCHANGED pc \/ pc' \in {"error", "idle"})
    BY <1>15 DEF DispatchDies, StatementFails, RetryFailedJob, WorkerStops, Fault, EndJob, TypeOK
  <2>2. UNCHANGED <<url, fresh>>
    BY <1>15 DEF DispatchDies, StatementFails, RetryFailedJob, WorkerStops
  <2> QED BY <1>2, <2>1, <2>2, CountedFrame DEF Counted
<1>16. ASSUME \/ Dispatch \/ \E a \in Admins : LoadForCancel(a) \/ MarkCancelled(a)
              \/ UNCHANGED vars
       PROVE  Counted'
  BY <1>12, <1>16
  DEF Dispatch, DispatchLoad, StartCrawl, EnqueueProcessing, LoadForCancel, MarkCancelled, vars
<1> QED
  BY <1>3, <1>4, <1>5, <1>6, <1>7, <1>8, <1>9, <1>10, <1>11, <1>13, <1>14, <1>15, <1>16
  DEF Next, Execute

\* The limit.
LEMMA WithinLimitFrame ==
    ASSUME TypeOK, WithinLimit, UNCHANGED <<discovered, processed>>,
           pc' \in {"seeded", "count"} => pc = pc' /\ fresh' = fresh,
           pc' \in Visiting \cup {"tally"} => pc \in Visiting \cup {"tally"}
    PROVE  WithinLimit'
<1> SUFFICES ASSUME Limited
             PROVE  /\ discovered' + Fresh' <= Limit
                    /\ processed' <= Limit
                    /\ pc' \in Visiting \cup {"tally"} => processed' < Limit
  BY DEF WithinLimit, Visiting, Limited
<1>1. /\ discovered + Fresh <= Limit
      /\ processed <= Limit
      /\ pc \in Visiting \cup {"tally"} => processed < Limit
  BY DEF WithinLimit, Visiting
<1>2. Fresh' = Fresh \/ Fresh' = 0
  BY DEF Fresh
<1>3. Fresh \in Nat /\ discovered \in Nat /\ Limit \in Nat
  BY ConstantsAssumption DEF Fresh, TypeOK
<1> QED BY <1>1, <1>2, <1>3

LEMMA WithinLimitStep ==
    ASSUME TypeOK, TypeOK', Counted, WithinLimit, [Next]_vars
    PROVE  WithinLimit'
<1> USE DEF Visiting, frontier, execution
<1>1. discovered \in Nat /\ processed \in Nat /\ fresh \in Nat /\ Limit \in Nat
  BY ConstantsAssumption DEF TypeOK
<1>2. ASSUME NEW links \in Seq(Urls), Insert(links), pc \in {"seed", "insert"}, pc' \in {"seeded", "count"},
             pc' = "count" => pc = "insert", UNCHANGED <<discovered, processed>>
      PROVE  WithinLimit'
  <2> SUFFICES ASSUME Limited
               PROVE  /\ discovered' + Fresh' <= Limit
                      /\ processed' <= Limit
                      /\ pc' = "count" => processed' < Limit
    BY <1>2 DEF WithinLimit, Limited
  <2>1. /\ discovered + Fresh <= Limit /\ processed <= Limit /\ (pc = "insert" => processed < Limit)
        /\ Fresh = 0
    BY <1>2 DEF WithinLimit, Fresh
  <2>2. fresh' = Cardinality(RowsFor(links)) /\ fresh' \in Nat
    BY <1>2, InsertIs DEF Counted
  <2>3. fresh' <= Capacity
    BY <2>2, RowsForIs
  <2>4. Capacity <= Limit - discovered
    BY <1>1, <2>1 DEF Capacity
  <2>5. Fresh' = fresh'
    BY <1>2 DEF Fresh
  <2>6. Capacity \in Nat
    BY <1>1 DEF Capacity
  <2> QED BY <1>1, <1>2, <2>1, <2>2, <2>3, <2>4, <2>5, <2>6
<1>3. CASE SeedUrl
  <2>1. <<Seed>> \in Seq(Urls)
    BY ConstantsAssumption
  <2> QED BY <1>2, <1>3, <2>1 DEF SeedUrl, Goto
<1>4. CASE InsertLinks
  BY <1>2, <1>4, SnapshotLinksAreUrls DEF InsertLinks, Goto
<1>5. ASSUME CountSeed \/ CountLinks PROVE WithinLimit'
  <2>1. /\ processed' = processed /\ discovered' = discovered + fresh
        /\ pc \in {"seeded", "count"} /\ pc' \in {"fetch", "loop", "store", "mark"}
        /\ pc' \in Visiting => pc = "count"
    BY <1>5 DEF CountSeed, CountLinks, Goto, CompleteStep
  <2>2. Fresh = fresh /\ Fresh' = 0
    BY <2>1 DEF Fresh
  <2> QED BY <1>1, <2>1, <2>2 DEF WithinLimit, Limited
<1>6. CASE CountUrl
  <2>1. /\ discovered' = discovered /\ processed' = processed + 1 /\ pc = "tally" /\ pc' = "set"
    BY <1>6 DEF CountUrl, Goto
  <2>2. Fresh = 0 /\ Fresh' = 0
    BY <2>1 DEF Fresh
  <2> QED BY <1>1, <2>1, <2>2 DEF WithinLimit, Limited
<1>7. CASE FetchNext
  <2>1. /\ UNCHANGED <<discovered, processed>> /\ pc = "loop" /\ pc' \in {"publish", "error", "visit"}
        /\ pc' = "visit" => ~LimitReached
    BY <1>7 DEF FetchNext, CompleteStep
  <2>2. Fresh = 0 /\ Fresh' = 0
    BY <2>1 DEF Fresh
  <2> QED BY <1>1, <2>1, <2>2 DEF WithinLimit, Limited, LimitReached
<1>8. ASSUME \/ StorePage \/ MarkUrl \/ SetCursor \/ CleanupPages \/ CleanupUrls \/ CleanupExpired
             \/ \E kind \in Snapshots : Visit(kind)
      PROVE  WithinLimit'
  BY <1>8, WithinLimitFrame
  DEF StorePage, MarkUrl, SetCursor, CleanupPages, CleanupUrls, CleanupExpired, Visit, Goto, EndJob
<1>9. ASSUME ClaimJob \/ Perform \/ Prepare \/ BeginProcessing \/ PrepareSync \/ FetchStart \/ Publish
             \/ ImportLocksRow \/ ImportCommit \/ ImportError
      PROVE  WithinLimit'
  BY <1>9, WithinLimitFrame
  DEF ClaimJob, Perform, Prepare, BeginProcessing, PrepareSync, FetchStart, Publish,
      ImportLocksRow, ImportCommit, ImportError, Goto, CompleteStep, EndJob, StepPc
<1>10. ASSUME PauseCrawl \/ RetryOrGiveUp \/ FailReload \/ FailRequest \/ FailCrawl \/ Interrupt
       PROVE  WithinLimit'
  BY <1>10, WithinLimitFrame
  DEF PauseCrawl, RetryOrGiveUp, FailReload, FailRequest, FailCrawl, Interrupt, Goto, EndJob, Requeue
<1>11. ASSUME \/ DispatchDies \/ StatementFails \/ RetryFailedJob
              \/ \E rowState \in {"failed", "ready"} : WorkerStops(rowState)
       PROVE  WithinLimit'
  BY <1>11, WithinLimitFrame DEF DispatchDies, StatementFails, RetryFailedJob, WorkerStops, EndJob
<1>12. ASSUME \/ Dispatch \/ \E a \in Admins : LoadForCancel(a) \/ MarkCancelled(a)
              \/ UNCHANGED vars
       PROVE  WithinLimit'
  BY <1>12, WithinLimitFrame
  DEF Dispatch, DispatchLoad, StartCrawl, EnqueueProcessing, LoadForCancel, MarkCancelled, vars
<1> QED
  BY <1>3, <1>4, <1>5, <1>6, <1>7, <1>8, <1>9, <1>10, <1>11, <1>12 DEF Next, Execute

-----------------------------------------------------------------------------
(* Nothing is passed over.                                                 *)

\* As long as the crawl goes on no URL loses its row.
LEMMA RowsStay ==
    ASSUME TypeOK, RowsAgree, Counted, [Next]_vars, ~Terminal(crawl),
           NEW u \in Urls, HasRow(u)
    PROVE  HasRow(u)'
<1> USE DEF HasRow, frontier
<1>1. ASSUME NEW links \in Seq(Urls), Insert(links) PROVE HasRow(u)'
  BY <1>1, InsertIs DEF Counted, Rows
<1>2. CASE SeedUrl
  <2>1. <<Seed>> \in Seq(Urls)
    BY ConstantsAssumption
  <2> QED BY <1>1, <1>2, <2>1 DEF SeedUrl
<1>3. CASE InsertLinks
  BY <1>1, <1>3, SnapshotLinksAreUrls DEF InsertLinks
<1>4. CASE MarkUrl
  BY <1>4 DEF MarkUrl, TypeOK, Visits
<1>5. ASSUME CleanupUrls \/ CleanupExpired PROVE FALSE
  BY <1>5 DEF CleanupUrls, CleanupExpired, RowsAgree, Terminal
<1>6. CASE state' = state
  BY <1>6
<1> QED
  BY <1>2, <1>3, <1>4, <1>5, <1>6
  DEF Next, Execute, Dispatch, vars, DispatchLoad, StartCrawl, EnqueueProcessing, LoadForCancel,
      MarkCancelled, DispatchDies, StatementFails, WorkerStops, Interrupt, RetryFailedJob, ClaimJob,
      Perform, Prepare, PrepareSync, BeginProcessing, FetchStart, FetchNext, Visit, CountSeed,
      CountLinks, StorePage, CountUrl, SetCursor, Publish, ImportLocksRow, ImportCommit, ImportError,
      CleanupPages, PauseCrawl, RetryOrGiveUp, FailReload, FailRequest, FailCrawl

LEMMA LinksFoundStep ==
    ASSUME TypeOK, StepsDone, QueueAgrees, RowsAgree, Counted, LinksFound, [Next]_vars
    PROVE  LinksFound'
<1> SUFFICES ASSUME ~Limited, ~Terminal(crawl')
             PROVE  /\ \A u \in pages' : FoundLinks(u)'
                    /\ pc' \in {"count", "store"} /\ HasPage' => FoundLinks(url.at)'
                    /\ pc' = "store" => HasPage'
  BY DEF LinksFound, FoundLinks, HasRow, Limited, HasPage
<1>1. ~Terminal(crawl)
  BY EndedStays
<1>2. /\ \A u \in pages : FoundLinks(u)
      /\ pc \in {"count", "store"} /\ HasPage => FoundLinks(url.at)
      /\ pc = "store" => HasPage
  BY <1>1 DEF LinksFound
<1>3. ASSUME NEW u \in Urls, FoundLinks(u) PROVE FoundLinks(u)'
  <2>1. \A i \in 1 .. Len(Links[u]) : Links[u][i] \in Urls
    BY ConstantsAssumption
  <2> QED BY <1>1, <1>3, <2>1, RowsStay DEF FoundLinks
<1>4. pages \subseteq Urls /\ url.at \in Urls
  BY DEF TypeOK, Visits
<1>5. ASSUME UNCHANGED <<pages, url>> \/ pages' = {}, UNCHANGED url, pc' \in {"count", "store"} => pc' = pc
      PROVE  /\ \A u \in pages' : FoundLinks(u)'
             /\ pc' \in {"count", "store"} /\ HasPage' => FoundLinks(url.at)'
             /\ pc' = "store" => HasPage'
  BY <1>2, <1>3, <1>4, <1>5 DEF HasPage
<1>6. ASSUME pages' = pages, pc' \notin {"count", "store"}
      PROVE  /\ \A u \in pages' : FoundLinks(u)'
             /\ pc' \in {"count", "store"} /\ HasPage' => FoundLinks(url.at)'
             /\ pc' = "store" => HasPage'
  BY <1>2, <1>3, <1>4, <1>6
<1> USE DEF frontier, execution
<1>7. CASE InsertLinks
  <2>1. HasPage => SnapshotLinks = Links[url.at]
    BY DEF HasPage, SnapshotLinks
  <2>2. HasPage => FoundLinks(url.at)'
    <3>1. Rows' = Rows \cup RowsFor(SnapshotLinks)
      BY <1>7, SnapshotLinksAreUrls, InsertIs DEF InsertLinks, Counted
    <3>2. \A i \in 1 .. Len(SnapshotLinks) : SnapshotLinks[i] \in Rows'
      BY <3>1, SnapshotLinksAreUrls, RowsForIs
    <3> QED BY <1>7, <2>1, <3>2 DEF InsertLinks, FoundLinks, Rows
  <2>3. UNCHANGED <<pages, url>> /\ pc' = "count"
    BY <1>7 DEF InsertLinks, Goto
  <2> QED BY <1>2, <1>3, <1>4, <2>2, <2>3 DEF HasPage
<1>8. CASE CountLinks
  <2>1. UNCHANGED <<pages, url>> /\ pc = "count" /\ pc' = IF HasPage THEN "store" ELSE "mark"
    BY <1>8 DEF CountLinks, Goto
  <2> QED BY <1>2, <1>3, <1>4, <2>1 DEF HasPage
<1>9. CASE StorePage
  <2>1. pages' = pages \cup {url.at} /\ url' = url /\ pc = "store" /\ pc' = "mark"
    BY <1>9 DEF StorePage, Goto
  <2> QED BY <1>2, <1>3, <1>4, <2>1
<1>10. ASSUME CleanupPages \/ CleanupUrls \/ CleanupExpired PROVE FALSE
  BY <1>1, <1>10 DEF CleanupPages, CleanupUrls, CleanupExpired, StepsDone, RowsAgree, Terminal
<1>11. CASE UNCHANGED <<pc, pages, url>>
  BY <1>5, <1>11
<1>12. ASSUME \/ SeedUrl \/ CountSeed \/ FetchStart \/ FetchNext \/ MarkUrl \/ CountUrl \/ SetCursor
              \/ \E kind \in Snapshots : Visit(kind)
       PROVE  pages' = pages /\ pc' \notin {"count", "store"}
  BY <1>12
  DEF SeedUrl, CountSeed, FetchStart, FetchNext, MarkUrl, CountUrl, SetCursor, Visit, Goto, CompleteStep
<1>13. ASSUME ClaimJob \/ Perform \/ Prepare \/ BeginProcessing \/ PrepareSync \/ Publish
             \/ ImportLocksRow \/ ImportCommit \/ ImportError
       PROVE  pages' = pages /\ pc' \notin {"count", "store"}
  BY <1>13
  DEF ClaimJob, Perform, Prepare, BeginProcessing, PrepareSync, Publish, ImportLocksRow, ImportCommit,
      ImportError, Goto, CompleteStep, EndJob, StepPc
<1>14. ASSUME PauseCrawl \/ RetryOrGiveUp \/ FailReload \/ FailRequest \/ FailCrawl \/ Interrupt
       PROVE  pages' = pages /\ pc' \notin {"count", "store"}
  BY <1>14
  DEF PauseCrawl, RetryOrGiveUp, FailReload, FailRequest, FailCrawl, Interrupt, Goto, EndJob, Requeue
<1>15. ASSUME StatementFails \/ \E rowState \in {"failed", "ready"} : WorkerStops(rowState)
       PROVE  pages' = pages /\ pc' \notin {"count", "store"}
  BY <1>15 DEF StatementFails, WorkerStops, EndJob
<1>16. ASSUME \/ DispatchDies \/ RetryFailedJob \/ Dispatch \/ UNCHANGED vars
              \/ \E a \in Admins : LoadForCancel(a) \/ MarkCancelled(a)
       PROVE  UNCHANGED <<pc, pages, url>>
  BY <1>16
  DEF DispatchDies, RetryFailedJob, Dispatch, DispatchLoad, StartCrawl, EnqueueProcessing, LoadForCancel,
      MarkCancelled, vars
<1> QED
  BY <1>6, <1>7, <1>8, <1>9, <1>10, <1>11, <1>12, <1>13, <1>14, <1>15, <1>16 DEF Next, Execute

\* With two steps completed only the cleanup of an ended crawl touches what
\* the crawl found.
LEMMA FetchedStays ==
    ASSUME TypeOK, StepsDone, QueueAgrees, RowsAgree, [Next]_vars,
           (pc # "idle" /\ done = 2) \/ queue.done = 2
    PROVE  Terminal(crawl) \/ UNCHANGED <<state, pages, processed>>
<1>1. pc # "idle" => done \in {2, 3}
  BY DEF TypeOK, QueueAgrees
<1>2. ASSUME CleanupPages \/ CleanupUrls \/ CleanupExpired PROVE Terminal(crawl)
  BY <1>2 DEF CleanupPages, CleanupUrls, CleanupExpired, StepsDone, RowsAgree, Terminal
<1>3. ASSUME \/ SeedUrl \/ CountSeed \/ InsertLinks \/ CountLinks \/ StorePage \/ MarkUrl \/ CountUrl
             \/ FetchNext \/ \E kind \in Snapshots : Visit(kind)
      PROVE  FALSE
  BY <1>1, <1>3
  DEF SeedUrl, CountSeed, InsertLinks, CountLinks, StorePage, MarkUrl, CountUrl, FetchNext, Visit, Goto,
      StepsDone
<1> QED
  BY <1>2, <1>3
  DEF Next, Execute, Dispatch, vars, frontier, DispatchLoad, StartCrawl, EnqueueProcessing, LoadForCancel,
      MarkCancelled, DispatchDies, StatementFails, WorkerStops, Interrupt, RetryFailedJob, ClaimJob,
      Perform, Prepare, PrepareSync, BeginProcessing, FetchStart, SetCursor, Publish, ImportLocksRow,
      ImportCommit, ImportError, PauseCrawl, RetryOrGiveUp, FailReload, FailRequest, FailCrawl

\* The second step is completed by nobody but fetch_pending!.
LEMMA FetchedBy ==
    ASSUME TypeOK, StepsDone, QueueAgrees, [Next]_vars,
           (pc' # "idle" /\ done' = 2) \/ queue'.done = 2
    PROVE  \/ (pc # "idle" /\ done = 2) \/ queue.done = 2
           \/ FetchStart /\ Terminal(crawl)
           \/ FetchNext /\ pc' = "publish"
<1> USE DEF execution
<1>1. ASSUME ClaimJob \/ Perform \/ Prepare \/ BeginProcessing \/ PrepareSync
      PROVE  (pc # "idle" /\ done = 2) \/ queue.done = 2
  BY <1>1 DEF TypeOK, JobRow, ClaimJob, Perform, Prepare, BeginProcessing, PrepareSync, EndJob, CompleteStep
<1>2. ASSUME SeedUrl \/ CountSeed PROVE (pc # "idle" /\ done = 2) \/ queue.done = 2
  BY <1>2 DEF SeedUrl, CountSeed, Goto, CompleteStep
<1>3. ASSUME FetchStart, ~Terminal(crawl) PROVE (pc # "idle" /\ done = 2) \/ queue.done = 2
  BY <1>3 DEF FetchStart, CompleteStep, Terminal
<1>4. ASSUME FetchNext, pc' # "publish" PROVE (pc # "idle" /\ done = 2) \/ queue.done = 2
  BY <1>4 DEF FetchNext, CompleteStep
<1>5. ASSUME InsertLinks \/ CountLinks \/ StorePage \/ MarkUrl \/ CountUrl \/ SetCursor
             \/ \E kind \in Snapshots : Visit(kind)
      PROVE  (pc # "idle" /\ done = 2) \/ queue.done = 2
  BY <1>5 DEF InsertLinks, CountLinks, StorePage, MarkUrl, CountUrl, SetCursor, Visit, Goto
<1>6. ASSUME Publish \/ ImportLocksRow \/ ImportCommit \/ ImportError
      PROVE  (pc # "idle" /\ done = 2) \/ queue.done = 2
  BY <1>6 DEF Publish, ImportLocksRow, ImportCommit, ImportError, Goto, CompleteStep
<1>7. ASSUME CleanupPages \/ CleanupUrls \/ CleanupExpired
      PROVE  (pc # "idle" /\ done = 2) \/ queue.done = 2
  BY <1>7 DEF TypeOK, JobRow, CleanupPages, CleanupUrls, CleanupExpired, EndJob
<1>8. ASSUME PauseCrawl \/ RetryOrGiveUp \/ FailReload \/ FailRequest \/ FailCrawl \/ Interrupt
      PROVE  (pc # "idle" /\ done = 2) \/ queue.done = 2
  BY <1>8 DEF TypeOK, JobRow, PauseCrawl, RetryOrGiveUp, FailReload, FailRequest, FailCrawl, Interrupt,
     Goto, EndJob, Requeue
<1>9. ASSUME \/ DispatchDies \/ StatementFails \/ RetryFailedJob
             \/ \E rowState \in {"failed", "ready"} : WorkerStops(rowState)
      PROVE  (pc # "idle" /\ done = 2) \/ queue.done = 2
  BY <1>9 DEF TypeOK, JobRow, DispatchDies, StatementFails, RetryFailedJob, WorkerStops, EndJob
<1>10. ASSUME \/ Dispatch \/ \E a \in Admins : LoadForCancel(a) \/ MarkCancelled(a)
              \/ UNCHANGED vars
       PROVE  (pc # "idle" /\ done = 2) \/ queue.done = 2
  BY <1>10
  DEF TypeOK, JobRow, Dispatch, DispatchLoad, StartCrawl, EnqueueProcessing, LoadForCancel, MarkCancelled,
      vars
<1> QED
  BY <1>1, <1>2, <1>3, <1>4, <1>5, <1>6, <1>7, <1>8, <1>9, <1>10 DEF Next, Execute

LEMMA FetchedWhenThroughStep ==
    ASSUME TypeOK, StepsDone, QueueAgrees, RowsAgree, LinksFound, FetchedWhenThrough, [Next]_vars
    PROVE  FetchedWhenThrough'
<1>1. ASSUME (pc' # "idle" /\ done' = 2) \/ queue'.done = 2
      PROVE  Terminal(crawl') \/ Through'
  <2>1. CASE (pc # "idle" /\ done = 2) \/ queue.done = 2
    <3>1. Terminal(crawl) \/ Through
      BY <2>1 DEF FetchedWhenThrough
    <3>2. Terminal(crawl) \/ UNCHANGED <<state, pages, processed>>
      BY <2>1, FetchedStays
    <3> QED BY <3>1, <3>2, EndedStays DEF Through, LimitReached, HasRow, Limited
  <2>2. ASSUME FetchNext, pc' = "publish", ~Terminal(crawl') PROVE Through'
    <3>1. ~Terminal(crawl)
      BY <2>2, EndedStays
    <3>2. UNCHANGED frontier /\ (LimitReached \/ PendingUrls = {})
      BY <2>2 DEF FetchNext
    <3>3. Through
      BY <3>1, <3>2 DEF Through, PendingUrls, LinksFound, FoundLinks
    <3> QED BY <3>2, <3>3 DEF Through, LimitReached, HasRow, Limited, frontier
  <2> QED BY <1>1, <2>1, <2>2, FetchedBy, EndedStays
<1>2. ASSUME pc' \in {"import", "locked"} PROVE ~Terminal(crawl')
  <2>1. CASE Publish
    BY <1>2, <2>1 DEF Publish, CompleteStep
  <2>2. CASE ImportLocksRow
    BY <2>2 DEF ImportLocksRow, Goto, FetchedWhenThrough
  <2>3. CASE StartCrawl
    BY <2>3 DEF StartCrawl, Terminal
  <2>4. CASE pc' = pc /\ crawl' = crawl
    BY <1>2, <2>4 DEF FetchedWhenThrough
  <2>5. ASSUME ClaimJob \/ Perform \/ Prepare \/ BeginProcessing \/ PrepareSync
               \/ SeedUrl \/ CountSeed \/ FetchStart \/ FetchNext
        PROVE  pc' \notin {"import", "locked"}
    BY <2>5 DEF ClaimJob, Perform, Prepare, BeginProcessing, PrepareSync, SeedUrl, CountSeed, FetchStart,
       FetchNext, EndJob, CompleteStep, Goto, StepPc
  <2>6. ASSUME InsertLinks \/ CountLinks \/ StorePage \/ MarkUrl \/ CountUrl \/ SetCursor
               \/ \E kind \in Snapshots : Visit(kind)
        PROVE  pc' \notin {"import", "locked"}
    BY <2>6 DEF InsertLinks, CountLinks, StorePage, MarkUrl, CountUrl, SetCursor, Visit, Goto
  <2>7. ASSUME ImportCommit \/ ImportError \/ CleanupPages \/ CleanupUrls
        PROVE  pc' \notin {"import", "locked"}
    BY <2>7 DEF ImportCommit, ImportError, CleanupPages, CleanupUrls, Goto, CompleteStep, EndJob
  <2>8. ASSUME PauseCrawl \/ RetryOrGiveUp \/ FailReload \/ FailRequest \/ FailCrawl \/ Interrupt
        PROVE  pc' \notin {"import", "locked"}
    BY <2>8 DEF PauseCrawl, RetryOrGiveUp, FailReload, FailRequest, FailCrawl, Interrupt, Goto, EndJob,
       Requeue
  <2>9. ASSUME StatementFails \/ \E rowState \in {"failed", "ready"} : WorkerStops(rowState)
        PROVE  pc' \notin {"import", "locked"}
    BY <2>9 DEF StatementFails, WorkerStops, EndJob
  <2> QED
    BY <1>2, <2>1, <2>2, <2>3, <2>4, <2>5, <2>6, <2>7, <2>8, <2>9
    DEF Next, Execute, Dispatch, vars, DispatchLoad, EnqueueProcessing, LoadForCancel, MarkCancelled,
        DispatchDies, RetryFailedJob, CleanupExpired
<1> QED BY <1>1, <1>2 DEF FetchedWhenThrough

-----------------------------------------------------------------------------
(* The theorems.                                                           *)

LEMMA InitInv == Init => Inv
<1> SUFFICES ASSUME Init PROVE Inv
  OBVIOUS
<1>1. Rows = {} /\ ProcessedUrls = {}
  BY DEF Init, Rows, HasRow, ProcessedUrls, Processed
<1>2. IsFiniteSet(Rows) /\ Cardinality(Rows) = 0 /\ Cardinality(ProcessedUrls) = 0
  BY <1>1, FS_EmptySet
<1>3. TypeOK
  <2>1. queue \in JobRow /\ url \in Visits /\ state \in [Urls -> {"unknown", "pending", "fetched", "skipped"}]
    BY ConstantsAssumption DEF Init, JobRow, Visits, SnapshotKinds
  <2>2. error \in BOOLEAN /\ lock \in BOOLEAN /\ advanced \in BOOLEAN
    BY Zenon DEF Init
  <2> QED BY <2>1, <2>2, ConstantsAssumption DEF Init, TypeOK, Statuses, PCs
<1>4. StepsDone /\ QueueAgrees /\ RowsAgree /\ FaultFree
  BY DEF Init, StepsDone, QueueAgrees, RowsAgree, FaultFree, Terminal
<1>5. Counted /\ WithinLimit
  BY <1>2, ConstantsAssumption DEF Init, Counted, WithinLimit, Fresh, Tally, Limited
<1>6. LinksFound /\ FetchedWhenThrough
  BY DEF Init, LinksFound, FetchedWhenThrough
<1> QED BY <1>3, <1>4, <1>5, <1>6 DEF Inv

LEMMA InvStep == Inv /\ [Next]_vars => Inv'
<1> SUFFICES ASSUME Inv, [Next]_vars PROVE Inv'
  OBVIOUS
<1>1. TypeOK'
  BY TypeOKStep DEF Inv, Counted
<1>2. StepsDone' /\ QueueAgrees' /\ RowsAgree' /\ FaultFree'
  BY StepsDoneStep, QueueAgreesStep, RowsAgreeStep, FaultFreeStep DEF Inv
<1>3. Counted' /\ WithinLimit'
  BY <1>1, CountedStep, WithinLimitStep DEF Inv
<1>4. LinksFound' /\ FetchedWhenThrough'
  BY LinksFoundStep, FetchedWhenThroughStep DEF Inv
<1> QED BY <1>1, <1>2, <1>3, <1>4 DEF Inv

\* The invariant holds in every state of every website crawl.
THEOREM Safety == Spec => []Inv
BY InitInv, InvStep, PTL DEF Spec

\* Crawl and request agree: completed together and only with the pages
\* imported, and, without faults, both ended when the job is over.
THEOREM CrawlAndRequestAgreeTheorem == Spec => []CrawlAndRequestAgree
<1>1. Inv => CrawlAndRequestAgree
  BY DEF Inv, RowsAgree, FaultFree, CrawlAndRequestAgree, JobOver
<1> QED BY <1>1, Safety, PTL

\* The counters that bound the crawl can be trusted: never ahead of the rows
\* nor beyond the limit, and exact between two URLs if nothing failed.
THEOREM CountersHoldTheorem == Spec => []CountersHold
<1>1. Inv => CountersHold
  <2> SUFFICES ASSUME Inv PROVE CountersHold
    OBVIOUS
  <2>1. /\ Cardinality(Rows) \in Nat /\ Cardinality(ProcessedUrls) \in Nat
        /\ Fresh \in Nat /\ Tally \in 0 .. 1
        /\ discovered \in Nat /\ processed \in Nat /\ Limit \in Nat
    BY CountsAreNumbers DEF Inv, Counted
  <2>2. ProcessedUrls = {u \in Urls : Processed(u)}
    BY DEF ProcessedUrls
  <2>3. crawl \in {"pending", "processing"} => ~Terminal(crawl)
    BY DEF Terminal
  <2>4. /\ pc \notin {"count", "seeded"} => Fresh = 0
        /\ pc # "tally" => Tally = 0
    BY DEF Fresh, Tally
  <2>5. CountersMatchRows
    BY <2>1, <2>2, <2>3, <2>4 DEF Inv, Counted, CountersMatchRows
  <2>6. CountersWithinLimit
    BY <2>1, <2>2, <2>3 DEF Inv, Counted, WithinLimit, CountersWithinLimit
  <2> QED BY <2>5, <2>6 DEF CountersHold
<1> QED BY <1>1, Safety, PTL

\* A crawl is published only when every URL it found was visited (or the
\* limit was reached), and, without a limit, every link was found.
THEOREM PublishedWhenThroughTheorem == Spec => PublishedWhenThrough
<1>1. Inv /\ [Next]_vars => [imports' > imports => Through]_vars
  <2> SUFFICES ASSUME Inv, Next, imports' > imports PROVE Through
    BY DEF Inv
  <2>1. imports \in Nat
    BY DEF Inv, TypeOK
  <2>2. imports' # imports
    BY <2>1
  <2>3. ImportCommit
    BY <2>2
    DEF Next, Execute, Dispatch, request, DispatchLoad, StartCrawl, EnqueueProcessing, LoadForCancel,
        MarkCancelled, DispatchDies, StatementFails, WorkerStops, Interrupt, RetryFailedJob, ClaimJob,
        Perform, Prepare, PrepareSync, BeginProcessing, FetchStart, FetchNext, Visit, SeedUrl,
        InsertLinks, MarkUrl, CountSeed, CountLinks, StorePage, CountUrl, SetCursor, Publish,
        ImportLocksRow, ImportError, CleanupPages, CleanupUrls, CleanupExpired, PauseCrawl,
        RetryOrGiveUp, FailReload, FailRequest, FailCrawl
  <2> QED BY <2>3 DEF Inv, ImportCommit, StepsDone, FetchedWhenThrough
<1> QED BY <1>1, Safety, PTL DEF Spec, PublishedWhenThrough

\* A cancellation written before the job's last look at the request's row is
\* final.
THEOREM CancellationSticksTheorem == Spec => CancellationSticks
<1>1. Inv /\ [Next]_vars => [CancelledForGood => CancelledForGood' /\ imports' = imports]_vars
  <2> SUFFICES ASSUME Inv, Next, CancelledForGood PROVE CancelledForGood' /\ imports' = imports
    OBVIOUS
  <2> USE DEF CancelledForGood, Undecided, request
  <2>1. CASE Publish
    <3>1. Terminal(Synced(status))
      BY SyncedIs DEF Inv, Terminal
    <3> QED BY <2>1, <3>1 DEF Publish, CompleteStep
  <2>2. ASSUME FailReload \/ FailRequest \/ FailCrawl \/ PauseCrawl \/ RetryOrGiveUp \/ Interrupt
        PROVE  CancelledForGood' /\ imports' = imports
    BY <2>2 DEF FailReload, FailRequest, FailCrawl, PauseCrawl, RetryOrGiveUp, Interrupt, MustFail, Terminal,
       Goto, EndJob, Requeue
  <2>3. ASSUME ImportLocksRow \/ ImportCommit \/ ImportError \/ CleanupPages \/ CleanupUrls \/ CleanupExpired
        PROVE  CancelledForGood' /\ imports' = imports
    BY <2>3 DEF ImportLocksRow, ImportCommit, ImportError, CleanupPages, CleanupUrls, CleanupExpired, Goto,
       EndJob
  <2>4. ASSUME ClaimJob \/ Perform \/ Prepare \/ BeginProcessing \/ PrepareSync
        PROVE  CancelledForGood' /\ imports' = imports
    BY <2>4 DEF ClaimJob, Perform, Prepare, BeginProcessing, PrepareSync, StepPc, EndJob, CompleteStep
  <2>5. ASSUME SeedUrl \/ CountSeed \/ FetchStart \/ FetchNext
        PROVE  CancelledForGood' /\ imports' = imports
    BY <2>5 DEF SeedUrl, CountSeed, FetchStart, FetchNext, Goto, CompleteStep
  <2>6. ASSUME \/ InsertLinks \/ CountLinks \/ StorePage \/ MarkUrl \/ CountUrl \/ SetCursor
               \/ \E kind \in Snapshots : Visit(kind)
        PROVE  CancelledForGood' /\ imports' = imports
    BY <2>6 DEF InsertLinks, CountLinks, StorePage, MarkUrl, CountUrl, SetCursor, Visit, Goto
  <2>7. ASSUME \/ DispatchDies \/ StatementFails \/ RetryFailedJob
               \/ \E rowState \in {"failed", "ready"} : WorkerStops(rowState)
        PROVE  CancelledForGood' /\ imports' = imports
    BY <2>7 DEF DispatchDies, StatementFails, RetryFailedJob, WorkerStops, EndJob
  <2>8. ASSUME Dispatch \/ \E a \in Admins : LoadForCancel(a) \/ MarkCancelled(a)
        PROVE  CancelledForGood' /\ imports' = imports
    BY <2>8 DEF Dispatch, DispatchLoad, StartCrawl, EnqueueProcessing, LoadForCancel, MarkCancelled
  <2> QED BY <2>1, <2>2, <2>3, <2>4, <2>5, <2>6, <2>7, <2>8 DEF Next, Execute
<1> QED BY <1>1, Safety, PTL DEF Spec, CancellationSticks

-----------------------------------------------------------------------------
(* WebsiteCrawl implements RequestLifecycle.                               *)

\* Every step is a step of RequestLifecycle or a stutter.
LEMMA LifecycleStep ==
    ASSUME Inv, [Next]_vars
    PROVE  [Lifecycle!Next]_(Lifecycle!vars)
<1> DEFINE Stutter == UNCHANGED <<status, error, imports>>
<1>1. Stutter => UNCHANGED Lifecycle!vars
  BY DEF Lifecycle!vars, Outcome
<1>2. CASE BeginProcessing
  BY <1>1, <1>2 DEF BeginProcessing, Outcome, Lifecycle!Next, Lifecycle!Begin
<1>3. CASE ImportCommit
  <2>1. imports = 0 /\ ~error /\ status \in {"processing", "cancelled"}
    BY <1>3 DEF ImportCommit, Inv, RowsAgree
  <2>2. status' = "completed" /\ imports' = 1
    BY <1>3, <2>1 DEF ImportCommit
  <2> QED BY <2>1, <2>2 DEF Outcome, Lifecycle!Next, Lifecycle!Complete
<1>4. CASE FailRequest
  <2>1. imports = 0 /\ ~error /\ status \in {"pending", "processing", "cancelled"}
    BY <1>4 DEF FailRequest, Goto, Inv, RowsAgree
  <2>2. status' = "failed" /\ error' /\ imports' = 0
    BY <1>4, <2>1 DEF FailRequest
  <2> QED BY <2>1, <2>2 DEF Outcome, Lifecycle!Next, Lifecycle!Fail
<1>5. ASSUME NEW a \in Admins, MarkCancelled(a) PROVE Lifecycle!Next
  BY <1>5 DEF MarkCancelled, Outcome, Lifecycle!Next, Lifecycle!Cancel
<1>6. CASE Stutter
  BY <1>1, <1>6
<1> QED
  BY <1>2, <1>3, <1>4, <1>5, <1>6
  DEF Next, Execute, Dispatch, vars, request, DispatchLoad, StartCrawl, EnqueueProcessing, LoadForCancel,
      DispatchDies, StatementFails, WorkerStops, Interrupt, RetryFailedJob, ClaimJob, Perform, Prepare,
      PrepareSync, FetchStart, FetchNext, Visit, SeedUrl, InsertLinks, MarkUrl, CountSeed, CountLinks,
      StorePage, CountUrl, SetCursor, Publish, ImportLocksRow, ImportError, CleanupPages, CleanupUrls,
      CleanupExpired, PauseCrawl, RetryOrGiveUp, FailReload, FailCrawl

\* One start, one decision, import and "completed" together: every behaviour
\* of the website pipeline is one the abstract request lifecycle allows.
THEOREM LifecycleTheorem == Spec => LifecycleSpec
<1>1. Init => Lifecycle!Init
  BY DEF Init, Lifecycle!Init, Outcome
<1>2. Inv /\ [Next]_vars => [Lifecycle!Next]_(Lifecycle!vars)
  BY LifecycleStep
<1> QED BY <1>1, <1>2, Safety, PTL DEF Spec, LifecycleSpec, Lifecycle!Spec
=============================================================================
