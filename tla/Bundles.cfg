\* Two threads, two imports, two faults.
SPECIFICATION FairSpec
CONSTANTS
    Builders = {b1, b2}
    MaxImports = 2
    MaxFaults = 2
    None = None
    Reserved = Reserved
INVARIANTS
    BlobsHoldTheirKeys
    NoAbandonedBundle
    ReadyIsPublished
PROPERTIES
    CatchesUp
\* Every import and every build may be over.
CHECK_DEADLOCK FALSE
