SPECIFICATION Spec
CONSTANTS
    stakeTolerance = 2
    Stakes = {2, 8, 20}
    Jitter = 3
    MaxAgents = 4  MaxCalls = 2
INVARIANTS
    OneMatchEach
    NobodyLeftOver
CHECK_DEADLOCK FALSE
