SPECIFICATION Spec
CONSTANTS
    e1 = e1
    e2 = e2
    e3 = e3
    Pages <- MCPages
    Mappings = {m1, m2}
    Admins = {a1, a2}
    Jobs = {j1, j2}
    Workers = {w1, w2}
    Tests = {t1}
    MaxAttempts = 3
    MaxChanges = 2
    Null = Null
INVARIANTS TestedIntake
PROPERTIES ReadsInOrder CatchesUp
CHECK_DEADLOCK FALSE
