---------------------------- MODULE BundlesProofs ----------------------------
(***************************************************************************)
(* Proofs about Bundles for every number of build threads, imports and     *)
(* faults.                                                                 *)
(***************************************************************************)
EXTENDS Bundles, TLAPS

-----------------------------------------------------------------------------
(* The inductive invariant.                                                *)

\* An import under way is within the bound.
ImportBounded == importer # None => content < MaxImports

\* What a build has in memory: its copies of the row say "processing", and the
\* checksum is known.
KnowsIts(b) ==
    /\ ~At(b, "idle") /\ ~At(b, "begin") => build[b].copy.status = "processing"
    /\ build[b].pc \in {"blob", "open", "put", "attach", "purge", "publish"} =>
         build[b].seen.status = "processing"
    /\ build[b].pc \in {"digest", "processing", "blob", "open"} => file # None
    /\ build[b].pc \in {"processing", "blob", "open", "put", "attach", "purge", "publish"} =>
         build[b].sum # None

Knows == \A b \in Builders : KnowsIts(b)

\* overlapped tells the truth.
OneBuild ==
    ~overlapped => \A b, c \in Builders : b # c => At(b, "idle") \/ At(c, "idle")

\* A build that is alone knows the checksum of the file at file_path, and
\* uploads what the checksum names.
SumIsTrue(b) ==
    /\ build[b].pc \in {"processing", "blob", "open", "put", "attach", "purge", "publish"} =>
         build[b].sum = file
    /\ At(b, "put") => build[b].body = build[b].sum

SumsAreTrue == ~overlapped => \A b \in Builders : SumIsTrue(b)

\* Where a build is, what the row, the attachment and the store say, as long as
\* nothing overlaps or fails.
InOrder(b) ==
    /\ ~At(b, "raised")
    /\ At(b, "begin") => build[b].copy.status # "processing"
    /\ ~At(b, "idle") /\ ~At(b, "begin") => row.status # "ready"
    /\ build[b].pc \in {"move", "digest", "processing", "blob", "open", "put", "attach", "purge", "publish"} =>
         row.sha = build[b].seen.sha \/ (row.sha = None /\ owed + queued > 0)
    /\ At(b, "open") => blobs[build[b].sum] = None
    /\ At(b, "attach") => blobs[build[b].sum] = build[b].sum
    /\ build[b].pc \in {"purge", "publish"} => attached = build[b].sum

BuildsInOrder == Untroubled => \A b \in Builders : InOrder(b)

\* Between builds no row is left "processing" and no blob without its object;
\* what is attached is in the store.
StoreInOrder ==
    Untroubled =>
        /\ (\A b \in Builders : At(b, "idle")) => row.status # "processing"
        /\ \A k \in Archives : blobs[k] = Reserved => \E b \in Builders : At(b, "put") /\ build[b].sum = k
        /\ attached # None => blobs[attached] = attached

Inv == /\ TypeOK /\ ImportBounded /\ Knows /\ OneBuild /\ SumsAreTrue
       /\ BlobsHoldTheirKeys /\ BuildsInOrder /\ StoreInOrder
       /\ ReadyIsPublished /\ NoAbandonedBundle

-----------------------------------------------------------------------------
(* Lemmas about the operators.                                             *)

\* Only builder b changes, and becomes what is said.
LEMMA BecomeIs ==
    ASSUME TypeOK, NEW b \in Builders, NEW new \in Builder, Become(b, new)
    PROVE  /\ build' \in [Builders -> Builder]
           /\ build'[b] = new
           /\ \A c \in Builders : c # b => build'[c] = build[c]
BY DEF TypeOK, Become

\* Going on to the next step keeps everything in memory.
LEMMA GoToIs ==
    ASSUME TypeOK, NEW b \in Builders, NEW pc \in Pcs, GoTo(b, pc)
    PROVE  /\ build' \in [Builders -> Builder]
           /\ build'[b].pc = pc
           /\ build'[b].copy = build[b].copy /\ build'[b].seen = build[b].seen
           /\ build'[b].archive = build[b].archive /\ build'[b].sum = build[b].sum
           /\ build'[b].body = build[b].body /\ build'[b].previous = build[b].previous
           /\ \A c \in Builders : c # b => build'[c] = build[c]
<1>1. build[b] \in Builder
  BY DEF TypeOK
<1>2. [build[b] EXCEPT !.pc = pc] \in Builder
  BY <1>1 DEF Builder
<1> QED BY <1>1, <1>2, BecomeIs DEF GoTo, Builder

\* A record in memory writes a row.
LEMMA WrittenIs ==
    ASSUME TypeOK, NEW copy \in Row, NEW new \in Row
    PROVE  /\ Written(copy, new) \in Row
           /\ Written(copy, new).status = IF new.status = copy.status THEN row.status ELSE new.status
           /\ Written(copy, new).sha = IF new.sha = copy.sha THEN row.sha ELSE new.sha
BY DEF TypeOK, Written, Row

-----------------------------------------------------------------------------
(* Types.                                                                  *)

LEMMA ImportTypes ==
    ASSUME TypeOK, ImportBounded,
           ImportLoadsBundle \/ ImportCommits \/ ImportRollsBack \/ EnqueueBuild
             \/ OwedBuildIsLost \/ RetryFailedJob
    PROVE  TypeOK' /\ ImportBounded'
<1> USE ConstantsAssumption DEF jobs, ImportBounded
<1>1. CASE ImportLoadsBundle
  BY <1>1 DEF ImportLoadsBundle, TypeOK
<1>2. CASE ImportCommits
  <2>1. importer \in Row
    BY <1>2 DEF ImportCommits, TypeOK
  <2>2. [status |-> "pending", sha |-> None] \in Row
    BY DEF Row
  <2>3. row' \in Row
    BY <1>2, <2>1, <2>2, WrittenIs DEF ImportCommits, TypeOK
  <2> QED BY <1>2, <2>3 DEF ImportCommits, TypeOK
<1>3. CASE ImportRollsBack
  BY <1>3 DEF ImportRollsBack, TypeOK
<1>4. CASE EnqueueBuild
  BY <1>4 DEF EnqueueBuild, TypeOK
<1>5. CASE OwedBuildIsLost
  BY <1>5, ConstantsAssumption DEF OwedBuildIsLost, Fault, TypeOK
<1>6. CASE RetryFailedJob
  BY <1>6, ConstantsAssumption DEF RetryFailedJob, Fault, TypeOK
<1> QED BY <1>1, <1>2, <1>3, <1>4, <1>5, <1>6

\* The steps of a build, and what stops it.
BuilderTypes(b) == build' \in [Builders -> Builder] /\ \A c \in Builders : c # b => build'[c] = build[c]

LEMMA BuildTypes ==
    ASSUME TypeOK, NEW b \in Builders, BuildStep(b) \/ UploadFails(b) \/ BuilderStops(b)
    PROVE  TypeOK' /\ BuilderTypes(b)
<1>1. build[b] \in Builder /\ row \in Row /\ content \in 0 .. MaxImports
  BY DEF TypeOK
<1>2. Idle \in Builder
  BY ConstantsAssumption DEF Idle, NoRow, Builder, Row, Pcs, Archives
<1>3. ASSUME NEW new \in Builder, Become(b, new) PROVE BuilderTypes(b)
  BY <1>3, BecomeIs DEF BuilderTypes
<1>4. ASSUME NEW pc \in Pcs, GoTo(b, pc) PROVE BuilderTypes(b)
  BY <1>4, GoToIs DEF BuilderTypes
<1> USE DEF jobs
<1>5. CASE JobStarts(b)
  <2>1. [Idle EXCEPT !.pc = "begin", !.copy = row] \in Builder
    BY <1>1, <1>2 DEF Idle, Builder, Pcs
  <2>2. BuilderTypes(b)
    BY <1>3, <1>5, <2>1 DEF JobStarts
  <2>3. overlapped' \in BOOLEAN
    BY <1>5 DEF JobStarts
  <2> QED BY <1>5, <2>2, <2>3 DEF JobStarts, TypeOK, BuilderTypes
<1>6. CASE BuildNow(b)
  <2>1. [build[b].copy EXCEPT !.status = "processing"] \in Row
    BY <1>1 DEF Builder, Row
  <2>2. [build[b] EXCEPT !.pc = "version", !.copy = [build[b].copy EXCEPT !.status = "processing"]] \in Builder
    BY <1>1, <2>1 DEF Builder, Pcs
  <2>3. build[b].copy \in Row
    BY <1>1 DEF Builder
  <2> QED BY <1>3, <1>6, <2>1, <2>2, <2>3, WrittenIs DEF BuildNow, TypeOK, BuilderTypes
<1>7. CASE ReadVersion(b) \/ ReadPages(b)
  <2>1. <<content, content>> \in Archives /\ <<build[b].archive[1], content>> \in Archives
    BY <1>1 DEF Archives, Builder
  <2>2. /\ [build[b] EXCEPT !.pc = "pages", !.archive = <<content, content>>] \in Builder
        /\ [build[b] EXCEPT !.pc = "find", !.archive = <<build[b].archive[1], content>>] \in Builder
    BY <1>1, <2>1 DEF Builder, Pcs
  <2>3. BuilderTypes(b)
    BY <1>3, <1>7, <2>2 DEF ReadVersion, ReadPages
  <2> QED BY <1>7, <2>3 DEF ReadVersion, ReadPages, TypeOK, BuilderTypes
<1>8. CASE FindBundle(b)
  <2>1. [build[b] EXCEPT !.pc = "move", !.seen = row] \in Builder
    BY <1>1 DEF Builder, Pcs
  <2>2. BuilderTypes(b)
    BY <1>3, <1>8, <2>1 DEF FindBundle
  <2> QED BY <1>8, <2>2 DEF FindBundle, TypeOK, BuilderTypes
<1>9. CASE MoveArchive(b)
  <2>1. file' \in Archives
    BY <1>1, <1>9 DEF MoveArchive, Builder
  <2>2. BuilderTypes(b)
    BY <1>4, <1>9 DEF MoveArchive, Pcs
  <2> QED BY <1>9, <2>1, <2>2 DEF MoveArchive, TypeOK, BuilderTypes
<1>10. CASE DigestArchive(b)
  <2>1. [build[b] EXCEPT !.pc = "processing", !.sum = file] \in Builder
    BY <1>1 DEF Builder, Pcs, TypeOK
  <2>2. BuilderTypes(b)
    BY <1>3, <1>10, <2>1 DEF DigestArchive, Checksum
  <2> QED BY <1>10, <2>2 DEF DigestArchive, TypeOK, BuilderTypes
<1>11. CASE SaveProcessing(b)
  <2>1. [build[b].seen EXCEPT !.status = "processing"] \in Row
    BY <1>1 DEF Builder, Row
  <2>2. [build[b] EXCEPT !.pc = "blob", !.seen = [build[b].seen EXCEPT !.status = "processing"]] \in Builder
    BY <1>1, <2>1 DEF Builder, Pcs
  <2>3. build[b].seen \in Row
    BY <1>1 DEF Builder
  <2> QED BY <1>3, <1>11, <2>1, <2>2, <2>3, WrittenIs DEF SaveProcessing, TypeOK, BuilderTypes
<1>12. CASE FindBlob(b)
  BY <1>4, <1>12 DEF FindBlob, Pcs, TypeOK, BuilderTypes
<1>13. CASE CreateBlob(b)
  <2>1. [build[b] EXCEPT !.pc = "put", !.body = file] \in Builder
    BY <1>1 DEF Builder, Pcs, TypeOK
  <2>2. BuilderTypes(b)
    BY <1>3, <1>4, <1>13, <2>1 DEF CreateBlob, Pcs
  <2>3. blobs' \in [Archives -> Archives \cup {None, Reserved}]
    BY <1>13 DEF CreateBlob, TypeOK
  <2> QED BY <1>13, <2>2, <2>3 DEF CreateBlob, TypeOK, BuilderTypes
<1>14. CASE UploadBlob(b)
  <2>1. BuilderTypes(b)
    BY <1>4, <1>14 DEF UploadBlob, Pcs
  <2>2. blobs' \in [Archives -> Archives \cup {None, Reserved}]
    BY <1>1, <1>14 DEF UploadBlob, TypeOK, Builder
  <2> QED BY <1>14, <2>1, <2>2 DEF UploadBlob, TypeOK, BuilderTypes
<1>15. CASE AttachBlob(b)
  <2>1. [build[b] EXCEPT !.pc = "purge", !.previous = attached] \in Builder
    BY <1>1 DEF Builder, Pcs, TypeOK
  <2>2. BuilderTypes(b)
    BY <1>3, <1>4, <1>15, <2>1 DEF AttachBlob, Pcs
  <2>3. attached' \in Archives \cup {None}
    BY <1>1, <1>15 DEF AttachBlob, TypeOK, Builder
  <2> QED BY <1>15, <2>2, <2>3 DEF AttachBlob, TypeOK, BuilderTypes
<1>16. CASE PurgePrevious(b)
  <2>1. BuilderTypes(b)
    BY <1>4, <1>16 DEF PurgePrevious, Pcs
  <2>2. blobs' \in [Archives -> Archives \cup {None, Reserved}]
    BY <1>16 DEF PurgePrevious, TypeOK
  <2> QED BY <1>16, <2>1, <2>2 DEF PurgePrevious, TypeOK, BuilderTypes
<1>17. CASE Publish(b)
  <2>1. build[b].seen \in Row /\ build[b].sum \in Archives \cup {None}
    BY <1>1 DEF Builder
  <2>2. [status |-> "ready", sha |-> build[b].sum] \in Row
    BY <2>1 DEF Row
  <2>3. row' \in Row
    BY <1>17, <2>1, <2>2, WrittenIs DEF Publish
  <2>4. BuilderTypes(b)
    BY <1>2, <1>3, <1>17 DEF Publish
  <2> QED BY <1>17, <2>3, <2>4 DEF Publish, TypeOK, BuilderTypes
<1>18. CASE Rescue(b)
  <2>1. build[b].copy \in Row /\ Failed(build[b].copy) \in Row
    BY <1>1 DEF Builder, Failed, Row
  <2>2. row' \in Row
    BY <1>18, <2>1, WrittenIs DEF Rescue
  <2>3. BuilderTypes(b)
    BY <1>2, <1>3, <1>18 DEF Rescue
  <2> QED BY <1>18, <2>2, <2>3 DEF Rescue, TypeOK, BuilderTypes
<1>19. CASE UploadFails(b)
  <2>1. BuilderTypes(b)
    BY <1>4, <1>19 DEF UploadFails, Pcs
  <2> QED BY <1>19, <2>1, ConstantsAssumption DEF UploadFails, Fault, TypeOK, BuilderTypes
<1>20. CASE BuilderStops(b)
  <2>1. BuilderTypes(b)
    BY <1>2, <1>3, <1>20 DEF BuilderStops
  <2>2. faults' \in 0 .. MaxFaults /\ failed' \in Nat /\ queued' \in Nat
    BY <1>20, ConstantsAssumption DEF BuilderStops, Fault, TypeOK
  <2>3. killed' \in BOOLEAN
    BY <1>20 DEF BuilderStops, TypeOK
  <2> QED BY <1>20, <2>1, <2>2, <2>3 DEF BuilderStops, TypeOK, BuilderTypes
<1> QED
  BY <1>5, <1>6, <1>7, <1>8, <1>9, <1>10, <1>11, <1>12, <1>13, <1>14, <1>15, <1>16, <1>17, <1>18,
     <1>19, <1>20
  DEF BuildStep

-----------------------------------------------------------------------------
(* What the steps of a build change in its memory.                         *)

Same(b) == /\ build'[b].copy = build[b].copy
           /\ build'[b].seen = build[b].seen
           /\ build'[b].sum = build[b].sum

LEMMA BuildEffects ==
    ASSUME TypeOK, NEW b \in Builders
    PROVE  /\ JobStarts(b) => build'[b].pc = "begin" /\ build'[b].copy = row
           /\ BuildNow(b) => build'[b].pc = "version" /\ build'[b].copy.status = "processing"
           /\ ReadVersion(b) => build'[b].pc = "pages" /\ Same(b)
           /\ ReadPages(b) => build'[b].pc = "find" /\ Same(b)
           /\ FindBundle(b) =>
                build'[b].pc = "move" /\ build'[b].copy = build[b].copy /\ build'[b].seen = row
           /\ MoveArchive(b) => build'[b].pc = "digest" /\ Same(b)
           /\ DigestArchive(b) =>
                /\ build'[b].pc = "processing" /\ build'[b].sum = file
                /\ build'[b].copy = build[b].copy /\ build'[b].seen = build[b].seen
           /\ SaveProcessing(b) =>
                /\ build'[b].pc = "blob"
                /\ build'[b].copy = build[b].copy /\ build'[b].sum = build[b].sum
                /\ build'[b].seen.status = "processing" /\ build'[b].seen.sha = build[b].seen.sha
<1> USE DEF Same
<1>1. build[b] \in Builder
  BY DEF TypeOK
<1>2. ASSUME NEW new, Become(b, new) PROVE build'[b] = new
  BY <1>2 DEF TypeOK, Become
<1>3. ASSUME NEW pc \in Pcs, GoTo(b, pc) PROVE build'[b].pc = pc /\ Same(b)
  BY <1>3, GoToIs
<1>4. JobStarts(b) => build'[b].pc = "begin" /\ build'[b].copy = row
  BY <1>2 DEF JobStarts, Idle
<1>5. BuildNow(b) => build'[b].pc = "version" /\ build'[b].copy.status = "processing"
  <2>1. build[b].copy \in Row
    BY <1>1 DEF Builder
  <2>2. [build[b].copy EXCEPT !.status = "processing"].status = "processing"
    BY <2>1 DEF Row
  <2> DEFINE new == [build[b].copy EXCEPT !.status = "processing"]
  <2> HIDE DEF new
  <2>3. /\ [build[b] EXCEPT !.pc = "version", !.copy = new].pc = "version"
        /\ [build[b] EXCEPT !.pc = "version", !.copy = new].copy = new
    BY <1>1 DEF Builder
  <2>4. BuildNow(b) => build'[b] = [build[b] EXCEPT !.pc = "version", !.copy = new]
    BY <1>2 DEF BuildNow, new
  <2>5. BuildNow(b) => build'[b].pc = "version" /\ build'[b].copy = new
    BY <2>3, <2>4
  <2> QED BY <2>2, <2>5 DEF new
<1>6. /\ ReadVersion(b) => build'[b].pc = "pages" /\ Same(b)
      /\ ReadPages(b) => build'[b].pc = "find" /\ Same(b)
  BY <1>1, <1>2 DEF ReadVersion, ReadPages, Builder
<1>7. FindBundle(b) =>
        build'[b].pc = "move" /\ build'[b].copy = build[b].copy /\ build'[b].seen = row
  BY <1>1, <1>2 DEF FindBundle, Builder
<1>8. MoveArchive(b) => build'[b].pc = "digest" /\ Same(b)
  BY <1>3 DEF MoveArchive, Pcs
<1>9. DigestArchive(b) =>
        /\ build'[b].pc = "processing" /\ build'[b].sum = file
        /\ build'[b].copy = build[b].copy /\ build'[b].seen = build[b].seen
  BY <1>1, <1>2 DEF DigestArchive, Checksum, Builder
<1>10. SaveProcessing(b) =>
         /\ build'[b].pc = "blob"
         /\ build'[b].copy = build[b].copy /\ build'[b].sum = build[b].sum
         /\ build'[b].seen.status = "processing" /\ build'[b].seen.sha = build[b].seen.sha
  <2>1. build[b].seen \in Row
    BY <1>1 DEF Builder
  <2> DEFINE new == [build[b].seen EXCEPT !.status = "processing"]
  <2>2. new.status = "processing" /\ new.sha = build[b].seen.sha
    BY <2>1 DEF Row
  <2> HIDE DEF new
  <2> DEFINE become == [build[b] EXCEPT !.pc = "blob", !.seen = new]
  <2>3. become.pc = "blob" /\ become.seen = new /\ become.copy = build[b].copy /\ become.sum = build[b].sum
    BY <1>1 DEF Builder
  <2>4. SaveProcessing(b) => build'[b] = become
    BY <1>2 DEF SaveProcessing, new
  <2> HIDE DEF become
  <2> QED BY <2>2, <2>3, <2>4
<1> QED BY <1>4, <1>5, <1>6, <1>7, <1>8, <1>9, <1>10

LEMMA StoreEffects ==
    ASSUME TypeOK, NEW b \in Builders
    PROVE  /\ FindBlob(b) =>
                Same(b) /\ build'[b].pc = IF blobs[build[b].sum] = None THEN "open" ELSE "attach"
           /\ CreateBlob(b) =>
                /\ Same(b)
                /\ IF blobs[build[b].sum] = None
                   THEN build'[b].pc = "put" /\ build'[b].body = file
                   ELSE build'[b].pc = "raised"
           /\ UploadBlob(b) => build'[b].pc = "attach" /\ Same(b)
           /\ AttachBlob(b) =>
                /\ Same(b)
                /\ build'[b].pc \in {"publish", "purge"} => attached' = build[b].sum
                /\ build'[b].pc = "raised" => blobs[build[b].sum] = None /\ attached # build[b].sum
                /\ build'[b].pc \in {"publish", "purge", "raised"}
           /\ PurgePrevious(b) => build'[b].pc = "publish" /\ Same(b)
           /\ Publish(b) => build'[b] = Idle
           /\ Rescue(b) => build'[b] = Idle
           /\ UploadFails(b) => build'[b].pc = "raised" /\ Same(b)
           /\ BuilderStops(b) => build'[b] = Idle
<1> USE DEF Same
<1>1. build[b] \in Builder
  BY DEF TypeOK
<1>2. ASSUME NEW new, Become(b, new) PROVE build'[b] = new
  BY <1>2 DEF TypeOK, Become
<1>3. ASSUME NEW pc \in Pcs, GoTo(b, pc) PROVE build'[b].pc = pc /\ Same(b)
  BY <1>3, GoToIs
<1>4. FindBlob(b) => Same(b) /\ build'[b].pc = IF blobs[build[b].sum] = None THEN "open" ELSE "attach"
  BY <1>3 DEF FindBlob, Pcs
<1>5. CreateBlob(b) => /\ Same(b)
                       /\ IF blobs[build[b].sum] = None
                          THEN build'[b].pc = "put" /\ build'[b].body = file
                          ELSE build'[b].pc = "raised"
  BY <1>1, <1>2, <1>3 DEF CreateBlob, Builder, Pcs
<1>6. UploadBlob(b) => build'[b].pc = "attach" /\ Same(b)
  BY <1>3 DEF UploadBlob, Pcs
<1>7. AttachBlob(b) =>
        /\ Same(b)
        /\ build'[b].pc \in {"publish", "purge"} => attached' = build[b].sum
        /\ build'[b].pc = "raised" => blobs[build[b].sum] = None /\ attached # build[b].sum
        /\ build'[b].pc \in {"publish", "purge", "raised"}
  <2> SUFFICES ASSUME AttachBlob(b)
               PROVE  /\ Same(b)
                      /\ build'[b].pc \in {"publish", "purge"} => attached' = build[b].sum
                      /\ build'[b].pc = "raised" => blobs[build[b].sum] = None /\ attached # build[b].sum
                      /\ build'[b].pc \in {"publish", "purge", "raised"}
    OBVIOUS
  <2>1. CASE attached = build[b].sum
    BY <1>3, <2>1 DEF AttachBlob, IsAttached, Pcs
  <2>2. CASE attached # build[b].sum /\ blobs[build[b].sum] # None
    BY <1>1, <1>2, <2>2 DEF AttachBlob, IsAttached, Builder
  <2>3. CASE attached # build[b].sum /\ blobs[build[b].sum] = None
    BY <1>3, <2>3 DEF AttachBlob, IsAttached, Pcs
  <2> QED BY <2>1, <2>2, <2>3
<1>8. PurgePrevious(b) => build'[b].pc = "publish" /\ Same(b)
  BY <1>3 DEF PurgePrevious, Pcs
<1>9. UploadFails(b) => build'[b].pc = "raised" /\ Same(b)
  BY <1>3 DEF UploadFails, Pcs
<1>10. (Publish(b) => build'[b] = Idle) /\ (Rescue(b) => build'[b] = Idle) /\ (BuilderStops(b) => build'[b] = Idle)
  BY <1>2 DEF Publish, Rescue, BuilderStops
<1> QED BY <1>4, <1>5, <1>6, <1>7, <1>8, <1>9, <1>10
-----------------------------------------------------------------------------
(* The steps outside builds.                                               *)

\* None and Reserved are no archives.
LEMMA NoArchives == None \notin Archives /\ Reserved \notin Archives /\ Reserved # None
BY ConstantsAssumption DEF Archives

LEMMA ImportStep ==
    ASSUME Inv,
           ImportLoadsBundle \/ ImportCommits \/ ImportRollsBack \/ EnqueueBuild
             \/ OwedBuildIsLost \/ RetryFailedJob
    PROVE  Inv'
<1> USE DEF jobs
<1>1. TypeOK /\ TypeOK' /\ ImportBounded'
  BY ImportTypes DEF Inv
<1>2. /\ UNCHANGED <<attached, blobs, file, build, overlapped>>
      /\ ~OwedBuildIsLost => UNCHANGED killed
  BY DEF ImportLoadsBundle, ImportCommits, ImportRollsBack, EnqueueBuild, OwedBuildIsLost, RetryFailedJob
<1>3. Knows' /\ OneBuild' /\ SumsAreTrue' /\ BlobsHoldTheirKeys'
  BY <1>2 DEF Inv, Knows, KnowsIts, OneBuild, SumsAreTrue, SumIsTrue, BlobsHoldTheirKeys, At
<1>4. CASE OwedBuildIsLost \/ RetryFailedJob
  <2>1. faults' # 0
    BY <1>1, <1>4 DEF OwedBuildIsLost, RetryFailedJob, Fault, TypeOK
  <2>2. NoAbandonedBundle'
    <3>1. CASE OwedBuildIsLost
      BY <3>1 DEF OwedBuildIsLost, NoAbandonedBundle
    <3>2. CASE RetryFailedJob
      <4>1. owed' + queued' > 0
        BY <1>1, <3>2 DEF RetryFailedJob, TypeOK
      <4> QED BY <4>1 DEF NoAbandonedBundle, BuildToCome
    <3> QED BY <1>4, <3>1, <3>2
  <2> QED BY <1>1, <1>3, <2>1, <2>2 DEF Inv, BuildsInOrder, StoreInOrder, ReadyIsPublished, Untroubled
<1>5. CASE ImportLoadsBundle \/ ImportRollsBack \/ ImportCommits \/ EnqueueBuild
  <2>1. /\ row'.status = "pending" \/ row'.status = row.status
        /\ (row'.sha = None /\ ImportCommits) \/ row'.sha = row.sha
    <3>1. CASE ImportLoadsBundle \/ ImportRollsBack \/ EnqueueBuild
      BY <3>1 DEF ImportLoadsBundle, ImportRollsBack, EnqueueBuild
    <3>2. CASE ImportCommits
      <4>1. importer \in Row
        BY <1>1, <3>2 DEF ImportCommits, TypeOK
      <4>2. [status |-> "pending", sha |-> None] \in Row
        BY DEF Row
      <4>3. row' = Written(importer, [status |-> "pending", sha |-> None])
        BY <3>2 DEF ImportCommits, Schedules
      <4> QED BY <1>1, <3>2, <4>1, <4>2, <4>3, WrittenIs
    <3> QED BY <1>5, <3>1, <3>2
  <2>2. (owed + queued > 0 => owed' + queued' > 0) /\ (ImportCommits => owed' + queued' > 0)
    <3>1. owed \in Nat /\ queued \in Nat
      BY <1>1 DEF TypeOK
    <3>2. \/ ~ImportCommits /\ owed' = owed /\ queued' = queued
          \/ owed' = owed + 1 /\ queued' = queued
          \/ ~ImportCommits /\ owed > 0 /\ owed' = owed - 1 /\ queued' = queued + 1
      <4>1. CASE ImportCommits
        BY <4>1 DEF ImportCommits, Schedules
      <4>2. CASE ~ImportCommits
        BY <1>5, <4>2 DEF ImportLoadsBundle, ImportRollsBack, EnqueueBuild
      <4> QED BY <4>1, <4>2
    <3> QED BY <3>1, <3>2
  <2>3. UNCHANGED <<faults, killed>>
    BY <1>5 DEF ImportLoadsBundle, ImportRollsBack, ImportCommits, EnqueueBuild
  <2>4. Untroubled' => Untroubled
    BY <1>2, <2>3 DEF Untroubled
  <2>5. BuildsInOrder'
    BY <1>2, <2>1, <2>2, <2>4 DEF Inv, BuildsInOrder, InOrder, At
  <2>6. StoreInOrder'
    BY <1>2, <2>1, <2>4 DEF Inv, StoreInOrder, At
  <2>7. BuildToCome => BuildToCome'
    BY <1>2, <2>2 DEF BuildToCome, At
  <2>8. ReadyIsPublished'
    BY <1>2, <2>1, <2>2, <2>4, <2>7 DEF Inv, ReadyIsPublished, BuildToCome
  <2>9. NoAbandonedBundle'
    <3>1. CASE ImportCommits
      BY <2>2, <3>1 DEF NoAbandonedBundle, BuildToCome
    <3>2. CASE ~ImportCommits
      <4>1. row' = row
        BY <1>5, <3>2 DEF ImportLoadsBundle, ImportRollsBack, EnqueueBuild
      <4> QED BY <2>3, <2>7, <4>1 DEF Inv, NoAbandonedBundle
    <3> QED BY <3>1, <3>2
  <2> QED BY <1>1, <1>3, <2>5, <2>6, <2>8, <2>9 DEF Inv
<1> QED BY <1>4, <1>5

-----------------------------------------------------------------------------
(* The steps of builds.                                                    *)

\* What a build leaves alone.
LEMMA BuildKeeps ==
    ASSUME NEW b \in Builders, BuildStep(b) \/ UploadFails(b) \/ BuilderStops(b)
    PROVE  /\ UNCHANGED <<content, importer, owed>>
           /\ ~BuilderStops(b) => UNCHANGED killed
           /\ BuildStep(b) => UNCHANGED faults
           /\ ~JobStarts(b) => ~At(b, "idle") /\ UNCHANGED overlapped
           /\ ~JobStarts(b) /\ ~BuilderStops(b) => UNCHANGED queued
           /\ ~MoveArchive(b) => UNCHANGED file
           /\ ~CreateBlob(b) /\ ~UploadBlob(b) /\ ~PurgePrevious(b) => UNCHANGED blobs
           /\ ~AttachBlob(b) => UNCHANGED attached
           /\ ~BuildNow(b) /\ ~SaveProcessing(b) /\ ~Publish(b) /\ ~Rescue(b) => UNCHANGED row
<1> USE DEF jobs, At
<1>1. CASE JobStarts(b) \/ BuildNow(b) \/ ReadVersion(b) \/ ReadPages(b) \/ FindBundle(b)
  BY <1>1 DEF BuildStep, JobStarts, BuildNow, ReadVersion, ReadPages, FindBundle, BuilderStops,
     MoveArchive, CreateBlob, UploadBlob, PurgePrevious, AttachBlob, SaveProcessing, Publish, Rescue
<1>2. CASE MoveArchive(b) \/ DigestArchive(b) \/ SaveProcessing(b) \/ FindBlob(b) \/ CreateBlob(b)
  BY <1>2 DEF BuildStep, MoveArchive, DigestArchive, SaveProcessing, FindBlob, CreateBlob, BuilderStops
<1>3. CASE UploadBlob(b) \/ AttachBlob(b) \/ PurgePrevious(b) \/ Publish(b) \/ Rescue(b)
  BY <1>3 DEF BuildStep, UploadBlob, AttachBlob, PurgePrevious, Publish, Rescue, BuilderStops
<1>4. CASE UploadFails(b) \/ BuilderStops(b)
  BY <1>4 DEF UploadFails, BuilderStops, BuildStep, JobStarts, BuildNow, ReadVersion, ReadPages,
     FindBundle, MoveArchive, DigestArchive, SaveProcessing, FindBlob, CreateBlob, UploadBlob,
     AttachBlob, PurgePrevious, Publish, Rescue
<1> QED BY <1>1, <1>2, <1>3, <1>4 DEF BuildStep

LEMMA KnowsStep ==
    ASSUME Inv, NEW b \in Builders, BuildStep(b) \/ UploadFails(b) \/ BuilderStops(b)
    PROVE  Knows'
<1>1. TypeOK /\ build[b] \in Builder /\ BuilderTypes(b) /\ KnowsIts(b)
  BY BuildTypes DEF Inv, TypeOK, Knows
<1>2. file # None => file' # None
  <2>1. CASE MoveArchive(b)
    BY <1>1, <2>1, NoArchives DEF MoveArchive, Builder
  <2>2. CASE ~MoveArchive(b)
    BY <2>2, BuildKeeps
  <2> QED BY <2>1, <2>2
<1>3. ASSUME NEW c \in Builders, c # b PROVE KnowsIts(c)'
  BY <1>1, <1>2, <1>3 DEF Inv, Knows, KnowsIts, At, BuilderTypes
<1>4. KnowsIts(b)'
  <2>1. CASE JobStarts(b) \/ BuildNow(b) \/ ReadVersion(b) \/ ReadPages(b) \/ FindBundle(b)
    BY <1>1, <2>1, BuildEffects
    DEF KnowsIts, At, Same, JobStarts, BuildNow, ReadVersion, ReadPages, FindBundle
  <2>2. CASE MoveArchive(b)
    <3>1. file' # None
      BY <1>1, <2>2, NoArchives DEF MoveArchive, Builder
    <3> QED BY <1>1, <2>2, <3>1, BuildEffects DEF KnowsIts, At, Same, MoveArchive
  <2>3. CASE DigestArchive(b) \/ SaveProcessing(b)
    BY <1>1, <1>2, <2>3, BuildEffects DEF KnowsIts, At, Same, DigestArchive, SaveProcessing
  <2>4. CASE FindBlob(b) \/ CreateBlob(b)
    BY <1>1, <1>2, <2>4, StoreEffects DEF KnowsIts, At, Same, FindBlob, CreateBlob
  <2>5. CASE UploadBlob(b) \/ AttachBlob(b) \/ PurgePrevious(b) \/ UploadFails(b)
    BY <1>1, <2>5, StoreEffects DEF KnowsIts, At, Same, UploadBlob, AttachBlob, PurgePrevious, UploadFails
  <2>6. CASE Publish(b) \/ Rescue(b) \/ BuilderStops(b)
    BY <1>1, <2>6, StoreEffects DEF KnowsIts, At, Idle
  <2> QED BY <2>1, <2>2, <2>3, <2>4, <2>5, <2>6 DEF BuildStep
<1> QED BY <1>3, <1>4 DEF Knows

\* While no two builds overlap, the others are idle, before the step and after.
LEMMA Alone ==
    ASSUME Inv, NEW b \in Builders, BuildStep(b) \/ UploadFails(b) \/ BuilderStops(b), ~overlapped'
    PROVE  /\ ~overlapped
           /\ \A c \in Builders : c # b => At(c, "idle") /\ At(c, "idle")'
           /\ JobStarts(b) => \A c \in Builders : At(c, "idle")
<1>1. BuilderTypes(b)
  BY BuildTypes DEF Inv
<1>2. CASE JobStarts(b)
  BY <1>1, <1>2 DEF JobStarts, BuilderTypes, At
<1>3. CASE ~JobStarts(b)
  BY <1>1, <1>3, BuildKeeps DEF Inv, OneBuild, BuilderTypes, At
<1> QED BY <1>2, <1>3

LEMMA SumsStep ==
    ASSUME Inv, NEW b \in Builders, BuildStep(b) \/ UploadFails(b) \/ BuilderStops(b)
    PROVE  OneBuild' /\ SumsAreTrue' /\ BlobsHoldTheirKeys'
<1>1. TypeOK /\ BuilderTypes(b)
  BY BuildTypes DEF Inv
<1>2. OneBuild'
  BY Alone DEF OneBuild
<1> SUFFICES ASSUME ~overlapped' PROVE SumsAreTrue' /\ BlobsHoldTheirKeys'
  BY <1>2 DEF SumsAreTrue, BlobsHoldTheirKeys
<1>3. SumIsTrue(b) /\ \A k \in Archives : blobs[k] \in {None, Reserved, k}
  BY Alone DEF Inv, SumsAreTrue, BlobsHoldTheirKeys
<1>4. ASSUME NEW c \in Builders, c # b PROVE SumIsTrue(c)'
  BY <1>4, Alone DEF SumIsTrue, At
<1>5. SumIsTrue(b)'
  <2>1. CASE JobStarts(b) \/ BuildNow(b) \/ ReadVersion(b) \/ ReadPages(b) \/ FindBundle(b) \/ MoveArchive(b)
    BY <1>1, <2>1, BuildEffects DEF SumIsTrue, At
  <2>2. CASE DigestArchive(b) \/ SaveProcessing(b)
    BY <1>1, <1>3, <2>2, BuildEffects DEF SumIsTrue, At, DigestArchive, SaveProcessing
  <2>3. CASE FindBlob(b) \/ CreateBlob(b)
    BY <1>1, <1>3, <2>3, StoreEffects DEF SumIsTrue, At, Same, FindBlob, CreateBlob
  <2>4. CASE UploadBlob(b) \/ AttachBlob(b) \/ PurgePrevious(b) \/ UploadFails(b)
    BY <1>1, <1>3, <2>4, StoreEffects DEF SumIsTrue, At, Same, UploadBlob, AttachBlob, PurgePrevious, UploadFails
  <2>5. CASE Publish(b) \/ Rescue(b) \/ BuilderStops(b)
    BY <1>1, <2>5, StoreEffects DEF SumIsTrue, At, Idle
  <2> QED BY <2>1, <2>2, <2>3, <2>4, <2>5 DEF BuildStep
<1>6. BlobsHoldTheirKeys'
  <2>1. blobs \in [Archives -> Archives \cup {None, Reserved}]
    BY <1>1 DEF TypeOK
  <2>2. CASE CreateBlob(b)
    BY <1>3, <2>1, <2>2 DEF CreateBlob, BlobsHoldTheirKeys
  <2>3. CASE UploadBlob(b)
    BY <1>3, <2>1, <2>3 DEF UploadBlob, SumIsTrue, At, BlobsHoldTheirKeys
  <2>4. CASE PurgePrevious(b)
    BY <1>3, <2>1, <2>4 DEF PurgePrevious, BlobsHoldTheirKeys
  <2>5. CASE ~CreateBlob(b) /\ ~UploadBlob(b) /\ ~PurgePrevious(b)
    BY <1>3, <2>5, BuildKeeps DEF BlobsHoldTheirKeys
  <2> QED BY <2>2, <2>3, <2>4, <2>5
<1> QED BY <1>4, <1>5, <1>6 DEF SumsAreTrue

\* As long as nothing overlaps or fails, nothing has, only this build is at work,
\* and it does not raise.
LEMMA Calm ==
    ASSUME Inv, NEW b \in Builders, BuildStep(b) \/ UploadFails(b) \/ BuilderStops(b), Untroubled'
    PROVE  /\ BuildStep(b) /\ ~Rescue(b) /\ Untroubled
           /\ InOrder(b) /\ SumIsTrue(b) /\ KnowsIts(b)
           /\ \A c \in Builders : c # b => At(c, "idle") /\ At(c, "idle")'
           /\ ~At(b, "put") => \A k \in Archives : blobs[k] # Reserved
<1>1. BuildStep(b)
  <2>1. faults \in Nat
    BY DEF Inv, TypeOK
  <2> QED BY <2>1 DEF UploadFails, BuilderStops, Fault, Untroubled
<1>2. Untroubled
  BY <1>1, BuildKeeps, Alone DEF Untroubled
<1>3. InOrder(b) /\ SumIsTrue(b) /\ KnowsIts(b)
  BY <1>2 DEF Inv, BuildsInOrder, SumsAreTrue, Knows, Untroubled
<1>4. ~Rescue(b)
  BY <1>3 DEF InOrder, Rescue
<1>5. \A c \in Builders : c # b => At(c, "idle") /\ At(c, "idle")'
  BY Alone DEF Untroubled
<1>6. ~At(b, "put") => \A k \in Archives : blobs[k] # Reserved
  BY <1>2, <1>5 DEF Inv, StoreInOrder, At
<1> QED BY <1>1, <1>2, <1>3, <1>4, <1>5, <1>6

LEMMA OrderStep ==
    ASSUME Inv, NEW b \in Builders, BuildStep(b) \/ UploadFails(b) \/ BuilderStops(b)
    PROVE  BuildsInOrder'
<1> SUFFICES ASSUME Untroubled' PROVE \A c \in Builders : InOrder(c)'
  BY DEF BuildsInOrder
<1>1. TypeOK /\ BuilderTypes(b) /\ build[b] \in Builder
  BY BuildTypes DEF Inv, TypeOK
<1>2. /\ BuildStep(b) /\ ~Rescue(b) /\ Untroubled
      /\ InOrder(b) /\ SumIsTrue(b) /\ KnowsIts(b)
      /\ \A c \in Builders : c # b => At(c, "idle") /\ At(c, "idle")'
      /\ ~At(b, "put") => \A k \in Archives : blobs[k] # Reserved
  BY Calm
<1>3. ASSUME NEW c \in Builders, c # b PROVE InOrder(c)'
  BY <1>2, <1>3 DEF InOrder, At
<1>4. InOrder(b)'
  <2>1. CASE JobStarts(b)
    <3>1. row.status # "processing"
      BY <1>2, <2>1 DEF Inv, StoreInOrder, JobStarts
    <3> QED BY <1>1, <2>1, <3>1, BuildEffects DEF InOrder, At
  <2>2. CASE BuildNow(b)
    <3>1. build[b].copy \in Row /\ [build[b].copy EXCEPT !.status = "processing"] \in Row
      BY <1>1 DEF Builder, Row
    <3>2. [build[b].copy EXCEPT !.status = "processing"].status = "processing"
      BY <3>1 DEF Row
    <3>3. row'.status = "processing"
      BY <1>1, <1>2, <2>2, <3>1, <3>2, WrittenIs DEF BuildNow, InOrder
    <3> QED BY <1>1, <2>2, <3>3, BuildEffects DEF InOrder, At
  <2>3. CASE ReadVersion(b) \/ ReadPages(b) \/ FindBundle(b)
    <3>1. row' = row /\ ~At(b, "idle") /\ ~At(b, "begin")
      BY <2>3 DEF ReadVersion, ReadPages, FindBundle, At
    <3> QED BY <1>1, <1>2, <2>3, <3>1, BuildEffects DEF InOrder, At
  <2>4. CASE MoveArchive(b) \/ DigestArchive(b)
    <3>1. UNCHANGED <<row, owed, queued>> /\ build[b].pc \in {"move", "digest"}
      BY <2>4 DEF MoveArchive, DigestArchive, At, jobs
    <3> QED BY <1>1, <1>2, <2>4, <3>1, BuildEffects DEF InOrder, At, Same
  <2>5. CASE SaveProcessing(b)
    <3> DEFINE new == [build[b].seen EXCEPT !.status = "processing"]
    <3>1. build[b].seen \in Row /\ new \in Row
      BY <1>1 DEF Builder, Row
    <3>2. new.status = "processing" /\ new.sha = build[b].seen.sha
      BY <3>1 DEF Row
    <3> HIDE DEF new
    <3>3. row' = Written(build[b].seen, new) /\ UNCHANGED <<owed, queued>> /\ At(b, "processing")
      BY <2>5 DEF SaveProcessing, new, jobs
    <3>4. row'.sha = row.sha /\ row'.status # "ready"
      BY <1>1, <1>2, <3>1, <3>2, <3>3, WrittenIs DEF InOrder, At
    <3> QED BY <1>1, <1>2, <2>5, <3>3, <3>4, BuildEffects DEF InOrder, At
  <2>6. CASE FindBlob(b)
    <3>1. UNCHANGED <<row, owed, queued, blobs, attached>> /\ At(b, "blob")
      BY <2>6 DEF FindBlob, jobs
    <3>2. blobs[build[b].sum] \in {None, build[b].sum}
      <4>1. build[b].sum \in Archives
        BY <1>1, <1>2, <3>1 DEF KnowsIts, At, Builder
      <4> QED BY <1>2, <3>1, <4>1 DEF Inv, BlobsHoldTheirKeys, At, Untroubled
    <3> QED BY <1>1, <1>2, <2>6, <3>1, <3>2, StoreEffects DEF InOrder, At, Same
  <2>7. CASE CreateBlob(b)
    <3>1. UNCHANGED <<row, owed, queued>> /\ At(b, "open")
      BY <2>7 DEF CreateBlob, jobs
    <3> QED BY <1>1, <1>2, <2>7, <3>1, StoreEffects DEF InOrder, At, Same
  <2>8. CASE UploadBlob(b)
    <3>1. UNCHANGED <<row, owed, queued>> /\ At(b, "put") /\ blobs' = [blobs EXCEPT ![build[b].sum] = build[b].body]
      BY <2>8 DEF UploadBlob, jobs
    <3>2. build[b].sum \in Archives
      BY <1>1, <1>2, <3>1 DEF KnowsIts, At, Builder
    <3>3. blobs'[build[b].sum] = build[b].sum
      BY <1>1, <1>2, <3>1, <3>2 DEF SumIsTrue, TypeOK
    <3> QED BY <1>1, <1>2, <2>8, <3>1, <3>3, StoreEffects DEF InOrder, At, Same
  <2>9. CASE AttachBlob(b)
    <3>1. UNCHANGED <<row, owed, queued>> /\ At(b, "attach")
      BY <2>9 DEF AttachBlob, jobs
    <3>2. blobs[build[b].sum] # None
      BY <1>1, <1>2, <3>1 DEF InOrder, KnowsIts, At
    <3> QED BY <1>1, <1>2, <2>9, <3>1, <3>2, StoreEffects DEF InOrder, At, Same
  <2>10. CASE PurgePrevious(b)
    <3>1. UNCHANGED <<row, owed, queued, attached>> /\ At(b, "purge")
      BY <2>10 DEF PurgePrevious, jobs
    <3> QED BY <1>1, <1>2, <2>10, <3>1, StoreEffects DEF InOrder, At, Same
  <2>11. CASE Publish(b)
    BY <1>1, <2>11, StoreEffects DEF InOrder, At, Idle
  <2> QED BY <1>2, <2>1, <2>2, <2>3, <2>4, <2>5, <2>6, <2>7, <2>8, <2>9, <2>10, <2>11 DEF BuildStep
<1> QED BY <1>3, <1>4

\* What a build publishes.
LEMMA PublishedRow ==
    ASSUME TypeOK, NEW b \in Builders, KnowsIts(b), Publish(b)
    PROVE  /\ row'.status = "ready"
           /\ row'.sha = IF build[b].sum = build[b].seen.sha THEN row.sha ELSE build[b].sum
<1>1. build[b].seen \in Row /\ build[b].sum \in Archives \cup {None}
  BY DEF TypeOK, Builder
<1>2. [status |-> "ready", sha |-> build[b].sum] \in Row
  BY <1>1 DEF Row
<1>3. build[b].seen.status = "processing" /\ row' = Written(build[b].seen, [status |-> "ready", sha |-> build[b].sum])
  BY DEF KnowsIts, Publish, At
<1> QED BY <1>1, <1>2, <1>3, WrittenIs

\* Only the end of a build leaves its thread idle.
LEMMA StillAtWork ==
    ASSUME TypeOK, NEW b \in Builders, BuildStep(b) \/ UploadFails(b) \/ BuilderStops(b),
           ~Publish(b), ~Rescue(b), ~BuilderStops(b)
    PROVE  ~At(b, "idle")' /\ (~JobStarts(b) => ~At(b, "begin")')
BY BuildEffects, StoreEffects DEF BuildStep, At

LEMMA StoreStep ==
    ASSUME Inv, NEW b \in Builders, BuildStep(b) \/ UploadFails(b) \/ BuilderStops(b)
    PROVE  StoreInOrder'
<1> SUFFICES ASSUME Untroubled' PROVE StoreInOrder'
  BY DEF StoreInOrder
<1>1. TypeOK /\ TypeOK' /\ BuilderTypes(b) /\ build[b] \in Builder
  BY BuildTypes DEF Inv, TypeOK
<1>2. /\ BuildStep(b) /\ ~Rescue(b) /\ Untroubled
      /\ InOrder(b) /\ SumIsTrue(b) /\ KnowsIts(b)
      /\ \A c \in Builders : c # b => At(c, "idle") /\ At(c, "idle")'
      /\ ~At(b, "put") => \A k \in Archives : blobs[k] # Reserved
  BY Calm
<1>3. attached # None => blobs[attached] = attached
  BY <1>2 DEF Inv, StoreInOrder
<1>4. (\A c \in Builders : At(c, "idle")') => row'.status # "processing"
  <2>1. CASE Publish(b)
    BY <1>1, <1>2, <2>1, PublishedRow
  <2>2. CASE ~Publish(b)
    <3>1. ~BuilderStops(b)
      BY <1>1, <1>2, BuildKeeps DEF BuilderStops, Fault, TypeOK, Untroubled
    <3> QED BY <1>1, <1>2, <2>2, <3>1, StillAtWork
  <2> QED BY <2>1, <2>2
<1>5. ASSUME NEW k \in Archives, blobs'[k] = Reserved
      PROVE  \E c \in Builders : At(c, "put")' /\ build'[c].sum = k
  <2>1. blobs \in [Archives -> Archives \cup {None, Reserved}] /\ blobs[k] \in {None, Reserved, k}
    BY <1>1, <1>2 DEF Inv, TypeOK, BlobsHoldTheirKeys, Untroubled
  <2>2. CASE CreateBlob(b)
    <3>1. blobs[k] # Reserved
      BY <1>2, <2>2 DEF CreateBlob, At
    <3>2. blobs[build[b].sum] = None /\ k = build[b].sum
      BY <1>5, <2>1, <2>2, <3>1 DEF CreateBlob
    <3> QED BY <1>1, <2>2, <3>2, StoreEffects DEF At, Same
  <2>3. CASE UploadBlob(b)
    <3>1. build[b].body = build[b].sum /\ build[b].sum # Reserved
      BY <1>1, <1>2, <2>3, NoArchives DEF UploadBlob, SumIsTrue, At, Builder
    <3>2. blobs[k] = Reserved /\ k # build[b].sum
      BY <1>5, <2>1, <2>3, <3>1 DEF UploadBlob
    <3>3. \E c \in Builders : At(c, "put") /\ build[c].sum = k
      BY <1>2, <3>2 DEF Inv, StoreInOrder
    <3> QED BY <1>2, <3>2, <3>3 DEF At
  <2>4. CASE PurgePrevious(b)
    <3>1. blobs[k] # Reserved
      BY <1>2, <2>4 DEF PurgePrevious, At
    <3> QED BY <1>5, <2>1, <2>4, <3>1, NoArchives DEF PurgePrevious
  <2>5. CASE ~CreateBlob(b) /\ ~UploadBlob(b) /\ ~PurgePrevious(b)
    <3>1. ~At(b, "put")
      BY <1>2, <2>5 DEF BuildStep, At, JobStarts, BuildNow, ReadVersion, ReadPages, FindBundle,
         MoveArchive, DigestArchive, SaveProcessing, FindBlob, AttachBlob, Publish, Rescue
    <3> QED BY <1>2, <1>5, <2>5, <3>1, BuildKeeps
  <2> QED BY <2>2, <2>3, <2>4, <2>5
<1>6. attached' # None => blobs'[attached'] = attached'
  <2>1. blobs \in [Archives -> Archives \cup {None, Reserved}] /\ attached \in Archives \cup {None}
    BY <1>1 DEF TypeOK
  <2>2. CASE CreateBlob(b)
    BY <1>2, <1>3, <2>1, <2>2 DEF CreateBlob, InOrder
  <2>3. CASE UploadBlob(b)
    BY <1>2, <1>3, <2>1, <2>3 DEF UploadBlob, SumIsTrue
  <2>4. CASE PurgePrevious(b)
    BY <1>3, <2>1, <2>4 DEF PurgePrevious
  <2>5. CASE AttachBlob(b)
    <3>1. attached' \in {attached, build[b].sum} /\ blobs' = blobs
      BY <2>5 DEF AttachBlob
    <3> QED BY <1>2, <1>3, <2>5, <3>1 DEF AttachBlob, InOrder
  <2>6. CASE ~CreateBlob(b) /\ ~UploadBlob(b) /\ ~PurgePrevious(b) /\ ~AttachBlob(b)
    BY <1>3, <2>6, BuildKeeps
  <2> QED BY <2>2, <2>3, <2>4, <2>5, <2>6
<1> QED BY <1>4, <1>5, <1>6 DEF StoreInOrder, At

LEMMA ReadyStep ==
    ASSUME Inv, NEW b \in Builders, BuildStep(b) \/ UploadFails(b) \/ BuilderStops(b)
    PROVE  ReadyIsPublished'
<1> SUFFICES ASSUME Untroubled', row'.status = "ready"
             PROVE  /\ attached' # None /\ attached' = file'
                    /\ blobs'[attached'] = attached'
                    /\ row'.sha = attached' \/ (row'.sha = None /\ BuildToCome')
  BY DEF ReadyIsPublished
<1>1. TypeOK /\ TypeOK' /\ BuilderTypes(b)
  BY BuildTypes DEF Inv
<1>2. /\ BuildStep(b) /\ ~Rescue(b) /\ Untroubled
      /\ InOrder(b) /\ SumIsTrue(b) /\ KnowsIts(b)
  BY Calm
<1>3. attached' # None => blobs'[attached'] = attached'
  BY StoreStep DEF StoreInOrder
<1>4. CASE JobStarts(b)
  <2>1. UNCHANGED <<row, attached, file>>
    BY <1>4 DEF JobStarts
  <2>2. BuildToCome'
    BY <1>1, <1>4, BuildEffects DEF BuildToCome, At
  <2> QED BY <1>2, <1>3, <2>1, <2>2 DEF Inv, ReadyIsPublished
<1>5. CASE Publish(b)
  <2>1. UNCHANGED <<attached, file, owed, queued>> /\ At(b, "publish")
    BY <1>5 DEF Publish, jobs
  <2>2. attached = build[b].sum /\ build[b].sum = file /\ build[b].sum # None
    BY <1>2, <2>1 DEF InOrder, SumIsTrue, KnowsIts, At
  <2>3. row'.sha = attached \/ (row'.sha = None /\ owed + queued > 0)
    BY <1>1, <1>2, <1>5, <2>1, <2>2, PublishedRow DEF InOrder, At
  <2> QED BY <1>3, <2>1, <2>2, <2>3 DEF BuildToCome
<1>6. CASE ~JobStarts(b) /\ ~Publish(b)
  <2>1. ~BuilderStops(b)
    BY <1>1, <1>2, BuildKeeps DEF BuilderStops, Fault, TypeOK, Untroubled
  <2>2. ~At(b, "idle")' /\ ~At(b, "begin")'
    BY <1>1, <1>2, <1>6, <2>1, StillAtWork
  <2> QED BY <2>2, OrderStep DEF BuildsInOrder, InOrder
<1> QED BY <1>4, <1>5, <1>6

LEMMA AbandonedStep ==
    ASSUME Inv, NEW b \in Builders, BuildStep(b) \/ UploadFails(b) \/ BuilderStops(b)
    PROVE  NoAbandonedBundle'
<1>1. TypeOK /\ TypeOK' /\ KnowsIts(b) /\ build[b] \in Builder
  BY BuildTypes DEF Inv, Knows, TypeOK
<1>2. CASE Publish(b)
  BY <1>1, <1>2, PublishedRow DEF NoAbandonedBundle
<1>3. CASE Rescue(b)
  <2> DEFINE new == Failed(build[b].copy)
  <2>1. build[b].copy \in Row /\ new \in Row /\ new.status = "failed"
    BY <1>1 DEF Failed, Builder, Row
  <2>2. build[b].copy.status = "processing" /\ row' = Written(build[b].copy, new)
    BY <1>1, <1>3 DEF Rescue, KnowsIts, At
  <2> HIDE DEF new
  <2>3. row'.status = "failed"
    BY <1>1, <2>1, <2>2, WrittenIs
  <2> QED BY <2>3 DEF NoAbandonedBundle
<1>4. CASE BuilderStops(b)
  <2>1. killed' \/ queued' = queued + 1
    BY <1>4 DEF BuilderStops
  <2>2. queued \in Nat /\ owed \in Nat /\ owed' = owed
    BY <1>1, <1>4 DEF TypeOK, BuilderStops
  <2>3. ASSUME queued' = queued + 1 PROVE owed' + queued' > 0
    BY <2>2, <2>3
  <2> QED BY <2>1, <2>3, Zenon DEF NoAbandonedBundle, BuildToCome
<1>5. CASE ~Publish(b) /\ ~Rescue(b) /\ ~BuilderStops(b)
  BY <1>1, <1>5, StillAtWork DEF NoAbandonedBundle, BuildToCome, At
<1> QED BY <1>2, <1>3, <1>4, <1>5

-----------------------------------------------------------------------------
(* The theorems.                                                           *)

LEMMA InitInv == ASSUME Init PROVE Inv
<1>1. NoRow \in Row /\ Idle \in Builder
  BY ConstantsAssumption DEF Idle, NoRow, Builder, Row, Pcs, Archives
<1>2. TypeOK
  <2>1. content \in 0 .. MaxImports /\ faults \in 0 .. MaxFaults
    BY ConstantsAssumption DEF Init
  <2>2. owed \in Nat /\ queued \in Nat /\ failed \in Nat
    BY DEF Init
  <2>3. blobs \in [Archives -> Archives \cup {None, Reserved}] /\ build \in [Builders -> Builder]
    BY <1>1 DEF Init
  <2>4. overlapped \in BOOLEAN /\ killed \in BOOLEAN
    BY DEF Init
  <2> QED BY <1>1, <2>1, <2>2, <2>3, <2>4 DEF Init, TypeOK
<1>3. \A b \in Builders : At(b, "idle") /\ ~At(b, "begin") /\ ~At(b, "put")
  BY DEF Init, At, Idle
<1>4. Knows /\ SumsAreTrue /\ BuildsInOrder
  BY DEF Init, Knows, KnowsIts, SumsAreTrue, SumIsTrue, BuildsInOrder, InOrder, At, Idle
<1>5. row.status = "none" /\ \A k \in Archives : blobs[k] = None
  BY DEF Init, NoRow
<1>6. ImportBounded /\ OneBuild /\ BlobsHoldTheirKeys
  BY <1>3, <1>5 DEF Init, ImportBounded, OneBuild, BlobsHoldTheirKeys
<1>7. StoreInOrder
  BY <1>5, NoArchives DEF Init, StoreInOrder
<1>8. ReadyIsPublished /\ NoAbandonedBundle
  BY <1>5 DEF ReadyIsPublished, NoAbandonedBundle
<1> QED BY <1>2, <1>4, <1>6, <1>7, <1>8 DEF Inv

LEMMA InvStep == ASSUME Inv, [Next]_vars PROVE Inv'
<1>1. CASE UNCHANGED vars
  BY <1>1 DEF vars, jobs, Inv, TypeOK, ImportBounded, Knows, KnowsIts, OneBuild, SumsAreTrue, SumIsTrue,
     BlobsHoldTheirKeys, BuildsInOrder, InOrder, StoreInOrder, ReadyIsPublished, NoAbandonedBundle,
     Untroubled, BuildToCome, At
<1>2. ASSUME NEW b \in Builders, BuildStep(b) \/ UploadFails(b) \/ BuilderStops(b)
      PROVE  Inv'
  <2>1. TypeOK'
    BY <1>2, BuildTypes DEF Inv
  <2>2. ImportBounded'
    BY <1>2, BuildKeeps DEF Inv, ImportBounded
  <2> QED BY <1>2, <2>1, <2>2, KnowsStep, SumsStep, OrderStep, StoreStep, ReadyStep, AbandonedStep DEF Inv
<1> QED BY <1>1, <1>2, ImportStep DEF Next

\* The inductive invariant, with the types: it holds in every reachable state,
\* whatever imports, builds and faults interleave.
THEOREM Safety == Spec => []Inv
BY InitInv, InvStep, PTL DEF Spec

\* However many imports, builds and faults: as long as no two builds overlap, a
\* blob's object has the checksum that its key names.
THEOREM BlobsHoldTheirKeysTheorem == Spec => []BlobsHoldTheirKeys
<1>1. Inv => BlobsHoldTheirKeys
  BY DEF Inv
<1> QED BY <1>1, Safety, PTL

\* Without overlaps and faults, a ready row is what is attached, stored and
\* at file_path, or has lost its checksum to an import whose build is to come.
THEOREM ReadyIsPublishedTheorem == Spec => []ReadyIsPublished
<1>1. Inv => ReadyIsPublished
  BY DEF Inv
<1> QED BY <1>1, Safety, PTL

\* Unless a worker is killed, a pending or processing bundle has a build to come
\* or at work, with any number of threads.
THEOREM NoAbandonedBundleTheorem == Spec => []NoAbandonedBundle
<1>1. Inv => NoAbandonedBundle
  BY DEF Inv
<1> QED BY <1>1, Safety, PTL

=============================================================================
