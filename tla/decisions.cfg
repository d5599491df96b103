SPECIFICATION DecisionsSpec
CONSTANTS
    Agents <- AgentSet
    AgentOrder <- AgentNames
    Places = {p1, p2}
    Severities <- AllSeverities
    Confidences <- AllConfidences
    MaxPerAgent = 2
    Known = {"security", "docs", "quality", "tests"}
    Datasets <- MCDatasets
    Files <- MCFiles
    Answers <- MCAnswers
    Spots = {p1, p2, p3, p4}
    TopK = 3
    RrfK = 60
    MaxId = 5
    Windows <- MCWindows
    Threshold = 20
    Floors = {0, 2}
    CostMetric = cost
    LatencyMetric = latency
    CallsMetric = calls
    ErrorsMetric = errors
    FindingsMetric = findings
    Callers = {c1, c2, c3}
    Cap = 4
    CallCost = 2
    CallsPerBlock = 2
    MaxBlocks = 5
CHECK_DEADLOCK FALSE
INVARIANTS
    MergeIsSound
    EmptyFailureGoesToHuman
    SupportNeverHurts
    VerdictIsEarned
    JudgeIsSound
    RetrievalIsSound
    DriftIsSound
    OverspendIsBounded
