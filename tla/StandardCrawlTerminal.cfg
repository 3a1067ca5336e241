\* One administrator cancels while one worker imports; no fault.
SPECIFICATION FairSpec
CONSTANTS
    Workers = {w1}
    Admins = {a1}
    Jobs = {j1, j2}
    FirstJob = j1
    None = None
    FetchOutcomes = {"ok", "permanent"}
    MaxAttempts = 3
    MaxFaults = 0
PROPERTIES
    TerminalIsFinal
CHECK_DEADLOCK FALSE
