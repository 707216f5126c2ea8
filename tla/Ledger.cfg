SPECIFICATION LedgerSpec
CONSTANTS
    m1 = m1  f1 = f1  f2 = f2  c1 = c1  c2 = c2
    Hooks = {h1, h2}
    Actors = {a1, a2}
    Claims = {q1, q2}
    Keys = {k1, k2}
    None = None
SYMMETRY Symmetry
INVARIANTS
    LedgerMatchesReceipts
    RefundsFollowPayment
    BalancesCovered
PROPERTIES
    ApprovedAsShown
    EntriesAreImmutable
CHECK_DEADLOCK FALSE
