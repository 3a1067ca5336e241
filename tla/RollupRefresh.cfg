\* Three events in one bucket, two faults.
SPECIFICATION FairSpec
CONSTANTS
    Requests = {r1, r2, r3}
    MaxFaults = 2
INVARIANTS
    ProcessedIsCounted
    NoLostWakeup
PROPERTIES
    CatchesUp
\* Every event may have been counted.
CHECK_DEADLOCK FALSE
