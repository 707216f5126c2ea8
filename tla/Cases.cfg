SPECIFICATION CasesSpec
CONSTANTS
    c1 = c1  c2 = c2  i1 = i1  i2 = i2  i3 = i3
    l1 = l1  l2 = l2  m1 = m1  m2 = m2  f1 = f1  f2 = f2
    Cases = {c1, c2}
    Signed = {c2}
    Incidents = {i1, i2, i3}
    CaseOf <- MCCaseOf
    Holds = {i3}
    Actors = {a1, a2}
    Desks = {d1, d2}
    Apis = {d1, d2}
    MaxActivities = 1
    Proposals = {p1}
    MaxVersion = 3
    Overlap = FALSE
    PlanDesks = {d1, d2}
    q1 = q1
    Policies = {q1, q2, q3}
    Clerks = {d1, d2}
    None = None
SYMMETRY Symmetry
INVARIANTS
    BlockedIffProtected
    StopContactIsForever
    NothingRunsOnProtected
    MoneyIsAllocated
    PlanSettlesCase
    OneApprovalPerVersion
PROPERTIES
    ReleaseIsReviewed
    NothingActivatesProtected
    DecisionsAreReviewed
CHECK_DEADLOCK FALSE
