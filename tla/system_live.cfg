SPECIFICATION SystemFairSpec
CONSTANTS
    Reviews = {r1}
    Deliveries = {d1}
    JobRuns = {t1, t2}
    ManualRuns = {m1}
    Workers = {w1}
    Servers = {s1}
    NoDelivery = NoDelivery
    NoRun = NoRun
    NoReview = NoReview
    NoProcess = NoProcess
    SecretConfigured = TRUE
    PostsToGitHub = FALSE
    PoolThreads = 1
    MaxTries = 2
    MaxFindings = 0
    MaxCrashes = 2
    MaxTimeouts = 0
    MaxFaults = 1
    MaxMishaps = 2
CHECK_DEADLOCK FALSE
PROPERTIES
    AcceptedIsResolved
    PublishedJobEnds
