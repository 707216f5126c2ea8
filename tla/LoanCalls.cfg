SPECIFICATION Spec
CONSTANTS
    Sessions = {s1, s2}
    s1 = s1
    s2 = s2
    w1 = w1
    w2 = w2
    Workers = {w1, w2}
    Entries = {"part", "pay", "refund"}
    Cents <- MCCents
    Claim = 3
    Promised = 2
    Limit = 1
    Quota = 1
    MaxAttempts = 2
    MaxChanges = 2
    None = None
INVARIANTS
    
    OneAtATime
PROPERTIES
    CallsFireOnce
CHECK_DEADLOCK FALSE
SYMMETRY Symmetric
