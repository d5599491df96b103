SPECIFICATION Spec
CONSTANTS
    Reviews = {v1}
    JobRuns = {t1, t2}
    ManualRuns = {m1}
    Workers = {w1}
    Servers = {s1}
    NoRun = NoRun
    NoReview = NoReview
    NoProcess = NoProcess
    PoolThreads = 1
    MaxTries = 2
    MaxFindings = 1
    PostsToGitHub = TRUE
    MaxCrashes = 2
    MaxTimeouts = 1
    MaxFaults = 1
    MaxMishaps = 2
CHECK_DEADLOCK FALSE
SYMMETRY Symmetry
INVARIANTS
    RunIsConsistent
    VerdictIsBacked
    OneWorkerRunPerReview
    PostedIsOnGitHub
PROPERTY ImplementsLedger
