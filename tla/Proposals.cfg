SPECIFICATION ProposalsSpec
CONSTANTS
    u1 = u1  u2 = u2  u3 = u3
    Users = {u1, u2, u3}
    FirstAdmins = {u1, u2}
    Ids = {i1, i2}
    id3 = i3
    MemberProposals = {i1, i2}
    StageProposals = {i1, i2}
    Clerks = {q1, q2}
    SeatLimit = 3
    Stages = {"active", "closed"}
    Requests <- MCRequests
    MaxProposals = 3
    Importers <- MCImporters
    Keys <- MCKeys
    Files <- MCFiles
    MaxDay = 1
    None = None
SYMMETRY Symmetry
INVARIANTS
    ImportedAsReviewed
PROPERTIES
    TenantsAreReviewed
CHECK_DEADLOCK FALSE
