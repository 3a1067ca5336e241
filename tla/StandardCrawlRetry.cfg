\* One transient failure, no fault.
SPECIFICATION FairSpec
CONSTANTS
    Workers = {w1, w2}
    Admins = {a1}
    Jobs = {j1, j2}
    FirstJob = j1
    None = None
    FetchOutcomes = {"ok", "transient", "permanent"}
    MaxAttempts = 3
    MaxFaults = 0
PROPERTIES
    TransientErrorIsRetried
CHECK_DEADLOCK FALSE
