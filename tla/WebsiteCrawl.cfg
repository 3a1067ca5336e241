\* A limit of three pages, an automatic runner, which may be promoted to the browser,
\* two faults, one cancellation.
SPECIFICATION FairSpec
CONSTANTS
    u1 = u1
    u2 = u2
    u3 = u3
    u4 = u4
    Urls = {u1, u2, u3, u4}
    Seed = u1
    Links <- SiteLinks
    Limit = 3
    RequestedRunner = "auto"
    NodeReady = TRUE
    Snapshots = {"page", "links", "nothing", "shell", "transient", "permanent"}
    Admins = {a1}
    MaxAttempts = 3
    MaxFaults = 2
INVARIANTS
    CountersHold
    CrawlAndRequestAgree
PROPERTIES
    PublishedWhenThrough
    CancellationSticks
    LifecycleSpec
    Settles
CHECK_DEADLOCK FALSE
