SPECIFICATION SystemSpec
CONSTANTS
    Reviews = {r1, r2}
    Deliveries = {d1}
    JobRuns = {t1, t2}
    ManualRuns = {m1}
    Workers = {w1}
    Servers = {s1, s2}
    NoDelivery = NoDelivery
    NoRun = NoRun
    NoReview = NoReview
    NoProcess = NoProcess
    SecretConfigured = TRUE
    PostsToGitHub = FALSE
    PoolThreads = 2
    MaxTries = 2
    MaxFindings = 0
    MaxCrashes = 1
    MaxTimeouts = 1
    MaxFaults = 0
    MaxMishaps = 2
CHECK_DEADLOCK FALSE
SYMMETRY Symmetry
INVARIANTS
    SystemIsConsistent
    DeliveryNotDoubleProcessed
PROPERTIES
    ImplementsOwnership
