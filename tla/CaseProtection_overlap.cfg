SPECIFICATION Spec
CONSTANTS
    c1 = c1  c2 = c2  i1 = i1  i2 = i2  i3 = i3
    Cases = {c1, c2}
    Signed = {c2}
    Incidents = {i1, i2, i3}
    CaseOf <- MCCaseOf
    Holds = {i3}
    Actors = {a1, a2}
    Desks = {d1}
    Apis = {r1}
    MaxActivities = 1
    Proposals = {p1}
    MaxVersion = 3
    Overlap = TRUE
    None = None
SYMMETRY Symmetry
INVARIANT NothingRunsOnProtected
CHECK_DEADLOCK FALSE
