SPECIFICATION ServicesSpec
CONSTANTS
    Jobs = {j1}
    AgentJobs = {j1}
    Workers = {w1, w2}
    Requests = {r1, r2}
    MaxAttempts = 2
    LeaseTicks = 1
    MaxCrashes = 1
    Services = {v1, v2}
    Savers = {r1}
    MaxEdits = 3
    Hosts = {h1}
    Runners = {n1}
    Turns = {1, 2, 3}
    MaxTries = 2
    MaxConfigs = 3
    MaxRestarts = 2
    Replays = {1, 2, 3, 4}
    Replayers = 2
    MaxCost = 2
    DailyLimit = 3
    MaxVersions = 2
    Processes = {o1, o2}
    Refs = {e1, e2, e3}
    MaxKeys = 3
    None = None
INVARIANTS
    TypeOK
    LeasesExclude
    ReadyAsTested
    
    ReplaysAreBounded
    NothingIsLost
PROPERTIES
    OnlyRetryReopens
CHECK_DEADLOCK FALSE
