SPECIFICATION FairSpec
CONSTANTS
    Agents = {security, quality}
    Retries = 3
CHECK_DEADLOCK FALSE
INVARIANTS
    AuditTrailIsTrue
    HostileDiffIsNotReviewed
PROPERTIES
    EveryAgentReturns
    ImplementsFanOut
