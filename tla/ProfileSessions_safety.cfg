CONSTANTS
    Customer = {c1, c2}
    Session = {s1, s2}
    Turn = {t1, t2}
    MaxTurns = 1
    MaxVersion = 2
    MaxRuns = 1
SPECIFICATION Spec
SYMMETRY MC_Symmetry
INVARIANTS
    ProfilesAreOwn
    FreshUnlessOverlapped
PROPERTIES
    SessionsAreKept
CHECK_DEADLOCK FALSE
