SPECIFICATION LabSpec
CONSTANTS
    MaxTurns = 3
    Frames = 2
    QueueSize = 1
    Words = {"offer", "confirm", "stop", "stop_confirm"}
    Phones = {p1, p2, p3}
    DailyLimit = 2
    Nobody = Nobody
INVARIANTS CallerIsHeard CallsAreAccounted
PROPERTY GateOpens
