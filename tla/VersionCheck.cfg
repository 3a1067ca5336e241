\* One caller, two checks, two crawls; two publications, failures and crashes.
SPECIFICATION FairSpec
CONSTANTS
    Changes = {1, 2}
    Newer <- Later
    Stable = {1, 2}
    Kinds <- BothKinds
    Callers = {c1}
    Jobs = {j1, j2}
    Requests = {r1, r2}
    None = None
    ClaimTimeout = 2
    HotInterval = 1
    NormalInterval = 1
    ColdInterval = 2
    HotWindow = 1
    JitterMax = 1
    ColdThreshold = 2
    MaxAttempts = 2
    MaxFaults = 2
INVARIANTS
    OneActiveRefresh
    OneOutstandingCheck
PROPERTIES
    CatchesUp
