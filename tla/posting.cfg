SPECIFICATION PostingFairSpec
CONSTANTS
    Callers = {c1, c2, c3}
    Threshold = 2
    Recovery = 2
    MaxAttempts = 2
INVARIANTS
    OutcomeIsTrue
    DeadGitHubOpensBreaker
PROPERTIES
    EveryPostEnds
