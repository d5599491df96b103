SPECIFICATION FairSpec
CONSTANTS
    Callers = {c1, c2}
    AgentTypes = {"docs", "tests", "stranger"}
    ToolNames = {"read_file", "run_tests"}
INVARIANTS ToolCallsAreSound LeftoverMeansTimeout
PROPERTY EveryCallReturns
CHECK_DEADLOCK FALSE
