SPECIFICATION Spec
CONSTANTS
    Jobs = {j1}
    AgentJobs = {}
    Workers = {w1, w2}
    Requests = {}
    None = None
    MaxAttempts = 2
    LeaseTicks = 1
    MaxCrashes = 0

PROPERTIES
    TerminalWriteIsFenced
