SPECIFICATION VerdictsSpec
CONSTANTS
    m1 = m1  m2 = m2  a1 = a1  a2 = a2  a3 = a3  f1 = f1  f2 = f2
    Materials = {m1, m2}
    Replacers = {r1}
    MaxVersions = 2
    Linked = {m1}
    Actors = {a1, a2}
    Creator <- MCCreator
    Facts = {f1, f2}
    Matched <- MCMatched
    Acceptances = {x1}
    Deciders = {q1, q2}
    MaxChanges = 3
    Contents = {n1, n2, n3, n4}
    Appenders = {r1, r2}
    MaxHistory = 4
    Combinations = {c1, c2}
    VoiceAdmins = {admin}
    Operators = {operator}
    MaxSaves = 2
    MaxReports = 2
    MaxChecks = 1
    MaxRevisions = 2
    Null = Null
SYMMETRY VoiceSymmetry
INVARIANTS
    
    VerdictsHold
CHECK_DEADLOCK FALSE
