SPECIFICATION Spec
CONSTANTS
    Users = {u1, u2, u3}
    FirstAdmins = {u1, u2}
    MemberProposals = {p1, p2}
    StageProposals = {}
    Clerks = {c1, c2}
    SeatLimit = 3
    Stages = {"active", "closed"}
    Requests <- MCRequests
    MaxProposals = 3
    None = None
INVARIANT AdminRemains
CHECK_DEADLOCK FALSE
