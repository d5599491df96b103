SPECIFICATION Spec
CONSTANTS
    Agents <- AgentSet
    AgentOrder <- AgentNames
    Places = {p1, p2}
    Severities <- AllSeverities
    Confidences <- AllConfidences
    MaxPerAgent = 1
CHECK_DEADLOCK FALSE
INVARIANT
    CriticalEscalates
