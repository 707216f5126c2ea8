SPECIFICATION SettlingSpec
CONSTANTS
    Jobs = {j1}
    AgentJobs = {}
    Workers = {w1, w2}
    Requests = {r1}
    MaxAttempts = 2
    LeaseTicks = 2
    MaxCrashes = 1
    Attempted = {a1, a2}
    Phone = {a1}
    Callers = {q1, q2}
    Days = {"today", "tomorrow"}
    Limit = 1
    Reported = {"initiated", "answered", "failed"}
    MaxTime = 2
    MaxDeaths = 1
    None = None
INVARIANTS
    AttemptsAreTrue
PROPERTIES
    TicketsSpec
    EventuallyTerminal
    LeaseNeverStrands
    DecisionsStand
    CallsSettle
