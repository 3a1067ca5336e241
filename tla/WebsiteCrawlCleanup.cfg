\* No fault, one interrupt at the wrong checkpoint.
SPECIFICATION FairSpec
CONSTANTS
    u1 = u1
    u2 = u2
    u3 = u3
    u4 = u4
    Urls = {u1, u2, u3, u4}
    Seed = u1
    Links <- SiteLinks
    Limit = 1
    RequestedRunner = "ruby"
    NodeReady = TRUE
    Snapshots = {"page"}
    Admins = {}
    MaxAttempts = 3
    MaxFaults = 0
PROPERTIES
    CompletedCrawlIsCleaned
CHECK_DEADLOCK FALSE
