------------------------------ MODULE Bundles ------------------------------
(***************************************************************************)
(* The full bundle of one version: imports that replace the version's      *)
(* pages and schedule a build (Importable#schedule_full_bundle,            *)
(* Bundle#build_later), and the build jobs (Bundle#build_now,              *)
(* DocsBundle#refresh!) that write the archive, store it as a blob under a *)
(* key that names its checksum, attach the blob and publish the row.       *)
(*                                                                         *)
(* An archive is named by the imports that its manifest and its pages come *)
(* from.  It is deterministic, so that its name stands for its checksum.   *)
(* A record in memory writes only the attributes that differ from what it  *)
(* was loaded with (Written).                                              *)
(***************************************************************************)
EXTENDS Naturals

CONSTANTS
    Builders,    \* threads that run build jobs
    MaxImports,  \* bound on the imports of the version
    MaxFaults,   \* bound on deaths, failed uploads and retries by hand
    None,
    Reserved     \* the blob's row is there, its object is not yet

ASSUME ConstantsAssumption ==
    /\ MaxImports \in Nat /\ MaxFaults \in Nat
    /\ None \notin Nat \X Nat /\ Reserved \notin Nat \X Nat
    /\ Reserved # None

VARIABLES
    content,     \* the last import committed; 0: the version has no pages
    row,         \* the row of bundles: status ("none": no row) and sha256
    attached,    \* the key of the attached blob
    blobs,       \* key -> what is stored under it
    file,        \* the archive at the bundle's file_path
    importer,    \* the import under way: its copy of the row
    owed,        \* build jobs that a committed import is still to enqueue
    queued,      \* build jobs in the queue
    failed,      \* build jobs that raised
    build,       \* builder -> where it is, and what it has in memory
    overlapped,  \* did two builds ever overlap?
    killed,      \* was a worker ever killed that owed a build or was at it?
    faults

jobs == <<owed, queued, failed>>
vars == <<content, row, attached, blobs, file, importer, jobs, build, overlapped, killed, faults>>

Archives == (0 .. MaxImports) \X (0 .. MaxImports)

Row == [status : {"none", "pending", "processing", "ready", "failed"},
        sha : Archives \cup {None}]

Pcs == {"idle", "begin", "version", "pages", "find", "move", "digest", "processing", "blob",
        "open", "put", "attach", "purge", "publish", "raised"}

Builder == [pc : Pcs, copy : Row, seen : Row, archive : Archives, sum : Archives \cup {None},
            body : Archives \cup {None}, previous : Archives \cup {None}]

TypeOK ==
    /\ content \in 0 .. MaxImports
    /\ row \in Row
    /\ attached \in Archives \cup {None}
    /\ blobs \in [Archives -> Archives \cup {None, Reserved}]
    /\ file \in Archives \cup {None}
    /\ importer \in Row \cup {None}
    /\ owed \in Nat /\ queued \in Nat /\ failed \in Nat
    /\ build \in [Builders -> Builder]
    /\ overlapped \in BOOLEAN /\ killed \in BOOLEAN
    /\ faults \in 0 .. MaxFaults

NoRow == [status |-> "none", sha |-> None]

Idle == [pc |-> "idle", copy |-> NoRow, seen |-> NoRow, archive |-> <<0, 0>>, sum |-> None,
         body |-> None, previous |-> None]

Init ==
    /\ content = 0
    /\ row = NoRow
    /\ attached = None /\ blobs = [k \in Archives |-> None]
    /\ file = None
    /\ importer = None
    /\ owed = 0 /\ queued = 0 /\ failed = 0
    /\ build = [b \in Builders |-> Idle]
    /\ overlapped = FALSE /\ killed = FALSE
    /\ faults = 0

Fault == faults < MaxFaults /\ faults' = faults + 1

\* The row after a record loaded as copy has been saved as new.
Written(copy, new) ==
    [status |-> IF new.status = copy.status THEN row.status ELSE new.status,
     sha |-> IF new.sha = copy.sha THEN row.sha ELSE new.sha]

-----------------------------------------------------------------------------
(* Imports of the version: one at a time, for sync_pages follows a save!   *)
(* of the version's row.                                                   *)

\* schedule_full_bundle finds the row, or makes a new one.
ImportLoadsBundle ==
    /\ importer = None
    /\ content < MaxImports
    /\ importer' = row
    /\ UNCHANGED <<content, row, attached, blobs, file, jobs, build, overlapped, killed, faults>>

\* Which copies of the row build_later is called for.  The variant is for the
\* versions whose bundle is new.
NewBundle(copy) == copy.status = "none"
Schedules(copy) == TRUE

\* build_later, and the commit with the version's pages; perform_later follows.
ImportCommits ==
    /\ importer # None
    /\ content' = content + 1
    /\ IF Schedules(importer)
       THEN row' = Written(importer, [status |-> "pending", sha |-> None]) /\ owed' = owed + 1
       ELSE UNCHANGED <<row, owed>>
    /\ importer' = None
    /\ UNCHANGED <<attached, blobs, file, queued, failed, build, overlapped, killed, faults>>

ImportRollsBack ==
    /\ importer # None
    /\ importer' = None
    /\ UNCHANGED <<content, row, attached, blobs, file, jobs, build, overlapped, killed, faults>>

EnqueueBuild ==
    /\ owed > 0
    /\ owed' = owed - 1
    /\ queued' = queued + 1
    /\ UNCHANGED <<content, row, attached, blobs, file, importer, failed, build, overlapped, killed, faults>>

-----------------------------------------------------------------------------
(* A build.                                                                *)

\* Builder b is at pc; it goes on with the record new.
At(b, pc) == build[b].pc = pc
Become(b, new) == build' = [build EXCEPT ![b] = new]
GoTo(b, pc) == Become(b, [build[b] EXCEPT !.pc = pc])

\* The job loads its bundle.
JobStarts(b) ==
    /\ At(b, "idle")
    /\ queued > 0
    /\ queued' = queued - 1
    /\ Become(b, [Idle EXCEPT !.pc = "begin", !.copy = row])
    /\ overlapped' = (overlapped \/ \E c \in Builders : ~At(c, "idle"))
    /\ UNCHANGED <<content, row, attached, blobs, file, importer, owed, failed, killed, faults>>

\* update!(status: :processing)
BuildNow(b) ==
    LET copy == build[b].copy
        new == [copy EXCEPT !.status = "processing"]
    IN /\ At(b, "begin")
       /\ row' = Written(copy, new)
       /\ Become(b, [build[b] EXCEPT !.pc = "version", !.copy = new])
       /\ UNCHANGED <<content, attached, blobs, file, importer, jobs, overlapped, killed, faults>>

\* version: what manifest.json says of the version.
ReadVersion(b) ==
    /\ At(b, "version")
    /\ Become(b, [build[b] EXCEPT !.pc = "pages", !.archive = <<content, content>>])
    /\ UNCHANGED <<content, row, attached, blobs, file, importer, jobs, overlapped, killed, faults>>

\* ordered_pages; the archive is written to a file of its own.
ReadPages(b) ==
    /\ At(b, "pages")
    /\ Become(b, [build[b] EXCEPT !.pc = "find", !.archive = <<build[b].archive[1], content>>])
    /\ UNCHANGED <<content, row, attached, blobs, file, importer, jobs, overlapped, killed, faults>>

\* find_or_initialize_by(profile: profile)
FindBundle(b) ==
    /\ At(b, "find")
    /\ Become(b, [build[b] EXCEPT !.pc = "move", !.seen = row])
    /\ UNCHANGED <<content, row, attached, blobs, file, importer, jobs, overlapped, killed, faults>>

\* FileUtils.mv(temp_path, file_path)
MoveArchive(b) ==
    /\ At(b, "move")
    /\ file' = build[b].archive
    /\ GoTo(b, "digest")
    /\ UNCHANGED <<content, row, attached, blobs, importer, jobs, overlapped, killed, faults>>

\* The checksum of whatever is at file_path by now.  The variant takes the
\* version's manifest checksum.
ManifestSum(b) == <<build[b].archive[1], build[b].archive[1]>>
Checksum(b) == file

DigestArchive(b) ==
    /\ At(b, "digest")
    /\ Become(b, [build[b] EXCEPT !.pc = "processing", !.sum = Checksum(b)])
    /\ UNCHANGED <<content, row, attached, blobs, file, importer, jobs, overlapped, killed, faults>>

\* assign_attributes(status: "processing"), save! if changed
SaveProcessing(b) ==
    LET seen == build[b].seen
        new == [seen EXCEPT !.status = "processing"]
    IN /\ At(b, "processing")
       /\ row' = Written(seen, new)
       /\ Become(b, [build[b] EXCEPT !.pc = "blob", !.seen = new])
       /\ UNCHANGED <<content, attached, blobs, file, importer, jobs, overlapped, killed, faults>>

\* ActiveStorage::Blob.find_by(key: key)
FindBlob(b) ==
    /\ At(b, "blob")
    /\ GoTo(b, IF blobs[build[b].sum] = None THEN "open" ELSE "attach")
    /\ UNCHANGED <<content, row, attached, blobs, file, importer, jobs, overlapped, killed, faults>>

\* Open file_path and create the blob's row, whose key is unique.
CreateBlob(b) ==
    LET key == build[b].sum
    IN /\ At(b, "open")
       /\ IF blobs[key] = None
          THEN /\ blobs' = [blobs EXCEPT ![key] = Reserved]
               /\ Become(b, [build[b] EXCEPT !.pc = "put", !.body = file])
          ELSE GoTo(b, "raised") /\ UNCHANGED blobs
       /\ UNCHANGED <<content, row, attached, file, importer, jobs, overlapped, killed, faults>>

\* Upload what was opened.
UploadBlob(b) ==
    /\ At(b, "put")
    /\ blobs' = [blobs EXCEPT ![build[b].sum] = build[b].body]
    /\ GoTo(b, "attach")
    /\ UNCHANGED <<content, row, attached, file, importer, jobs, overlapped, killed, faults>>

\* Is the blob attached already?  The variant is content with any attachment.
AnyAttached(key) == attached # None
IsAttached(key) == attached = key

\* attach_package_blob: an attachment needs the row of its blob.
AttachBlob(b) ==
    LET key == build[b].sum
    IN /\ At(b, "attach")
       /\ \/ /\ IsAttached(key)
             /\ GoTo(b, "publish")
             /\ UNCHANGED attached
          \/ /\ ~IsAttached(key) /\ blobs[key] # None
             /\ attached' = key
             /\ Become(b, [build[b] EXCEPT !.pc = "purge", !.previous = attached])
          \/ /\ ~IsAttached(key) /\ blobs[key] = None
             /\ GoTo(b, "raised")
             /\ UNCHANGED attached
       /\ UNCHANGED <<content, row, blobs, file, importer, jobs, overlapped, killed, faults>>

\* purge_blob_if_unattached(previous_blob)
PurgePrevious(b) ==
    LET previous == build[b].previous
    IN /\ At(b, "purge")
       /\ IF previous # None /\ attached # previous
          THEN blobs' = [blobs EXCEPT ![previous] = None]
          ELSE UNCHANGED blobs
       /\ GoTo(b, "publish")
       /\ UNCHANGED <<content, row, attached, file, importer, jobs, overlapped, killed, faults>>

\* update!(sha256: checksum, status: "ready"), the end of the job
Publish(b) ==
    /\ At(b, "publish")
    /\ row' = Written(build[b].seen, [status |-> "ready", sha |-> build[b].sum])
    /\ Become(b, Idle)
    /\ UNCHANGED <<content, attached, blobs, file, importer, jobs, overlapped, killed, faults>>

\* What the rescue clause saves.  The variant keeps the status.
Kept(copy) == copy
Failed(copy) == [copy EXCEPT !.status = "failed"]

\* rescue StandardError: update!(status: :failed), raise
Rescue(b) ==
    /\ At(b, "raised")
    /\ row' = Written(build[b].copy, Failed(build[b].copy))
    /\ failed' = failed + 1
    /\ Become(b, Idle)
    /\ UNCHANGED <<content, attached, blobs, file, importer, owed, queued, overlapped, killed, faults>>

-----------------------------------------------------------------------------
(* Faults.                                                                 *)

\* The worker that imported dies between the commit and the enqueue.
OwedBuildIsLost ==
    /\ Fault
    /\ owed > 0
    /\ owed' = owed - 1
    /\ killed' = TRUE
    /\ UNCHANGED <<content, row, attached, blobs, file, importer, queued, failed, build, overlapped>>

\* The storage service does not answer.
UploadFails(b) ==
    /\ Fault
    /\ At(b, "put")
    /\ GoTo(b, "raised")
    /\ UNCHANGED <<content, row, attached, blobs, file, importer, jobs, overlapped, killed>>

\* A worker is killed, and its job fails; or it is shut down before the job
\* ended, and the job is released to the queue.
BuilderStops(b) ==
    /\ Fault
    /\ ~At(b, "idle")
    /\ Become(b, Idle)
    /\ \/ failed' = failed + 1 /\ killed' = TRUE /\ UNCHANGED queued
       \/ queued' = queued + 1 /\ UNCHANGED <<failed, killed>>
    /\ UNCHANGED <<content, row, attached, blobs, file, importer, owed, overlapped>>

\* An administrator retries a failed job.
RetryFailedJob ==
    /\ Fault
    /\ failed > 0
    /\ failed' = failed - 1
    /\ queued' = queued + 1
    /\ UNCHANGED <<content, row, attached, blobs, file, importer, owed, build, overlapped, killed>>

-----------------------------------------------------------------------------
BuildStep(b) ==
    \/ JobStarts(b) \/ BuildNow(b) \/ ReadVersion(b) \/ ReadPages(b)
    \/ FindBundle(b) \/ MoveArchive(b) \/ DigestArchive(b) \/ SaveProcessing(b)
    \/ FindBlob(b) \/ CreateBlob(b) \/ UploadBlob(b) \/ AttachBlob(b)
    \/ PurgePrevious(b) \/ Publish(b) \/ Rescue(b)

Next ==
    \/ ImportLoadsBundle \/ ImportCommits \/ ImportRollsBack
    \/ EnqueueBuild
    \/ \E b \in Builders : BuildStep(b) \/ UploadFails(b) \/ BuilderStops(b)
    \/ OwedBuildIsLost \/ RetryFailedJob

Spec == Init /\ [][Next]_vars

\* An import ends, and the queue's threads run every job.
Fairness ==
    /\ WF_vars(ImportCommits \/ ImportRollsBack)
    /\ WF_vars(EnqueueBuild)
    /\ \A b \in Builders : WF_vars(BuildStep(b))

FairSpec == Spec /\ Fairness

-----------------------------------------------------------------------------
(* Properties.                                                             *)

Untroubled == faults = 0 /\ ~overlapped

\* Blobs are addressed by their content: as long as no two builds overlap, what
\* is stored under a key has the checksum that the key names, whatever fails.
\* (Builds share file_path: one may upload what another has moved there.)
BlobsHoldTheirKeys == ~overlapped => \A k \in Archives : blobs[k] \in {None, Reserved, k}

\* A build of the bundle is to come or at work.
BuildToCome == owed + queued > 0 \/ \E b \in Builders : ~At(b, "idle")

\* What a client is told is what it gets: without overlaps and faults, a ready
\* row names the checksum of the attached blob, of its object, and of the local
\* file, and neither the purge nor a later build has taken them away.  An import
\* during the build may have taken the checksum away, but then another build is
\* to come.
ReadyIsPublished ==
    Untroubled /\ row.status = "ready" =>
        /\ attached # None /\ attached = file
        /\ blobs[attached] = attached
        /\ row.sha = attached \/ (row.sha = None /\ BuildToCome)

\* "Bundle is not ready" is a promise: unless a worker is killed, a bundle is
\* pending or processing only while a build of it is to come or at work, however
\* builds and imports overlap, whichever of them raise, are released or retried.
NoAbandonedBundle ==
    ~killed /\ row.status \in {"pending", "processing"} => BuildToCome

\* Without overlaps and faults the bundle becomes, for good, the archive of the
\* last import, although single builds may mix the manifest of one import with
\* the pages of the next.
CatchesUp ==
    []Untroubled => <>[](content > 0 => row = [status |-> "ready", sha |-> <<content, content>>])

-----------------------------------------------------------------------------
(* Statements of the repository the code does not keep.                    *)

\* bundle.rb:28: `validates :sha256, presence: true, if: :ready?`, and
\* bundle_test.rb "requires sha256".  (A build loads the checksum that the last
\* build saved, and makes the same archive again; an import clears the column
\* meanwhile; the last update! finds the checksum unchanged and writes "ready"
\* alone.)
ReadyHasChecksum == row.status = "ready" => row.sha # None

\* README.md: a bundle is a "downloadable tar.gz archive".  (An upload that
\* fails leaves the blob's row; the build that is retried finds it, attaches it
\* and publishes a bundle that has no object.)
ReadyIsDownloadable ==
    row.status = "ready" => attached # None /\ blobs[attached] \in Archives
=============================================================================
