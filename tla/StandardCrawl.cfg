\* Two workers, two cancellations, every fetch outcome, three faults.
SPECIFICATION FairSpec
CONSTANTS
    Workers = {w1, w2}
    Admins = {a1, a2}
    Jobs = {j1, j2}
    FirstJob = j1
    None = None
    FetchOutcomes = {"ok", "transient", "permanent"}
    MaxAttempts = 3
    MaxFaults = 3
INVARIANTS
    OneProcessor
    StrandedOnlyByRetryOrFault
PROPERTIES
    CancellationSticks
    LifecycleSpec
    Settles
\* Every job may have been run and every administrator gone.
CHECK_DEADLOCK FALSE
