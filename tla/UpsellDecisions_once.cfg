CONSTANTS
    k1 = k1
    k2 = k2
    r1 = r1
    r2 = r2
    Decision = {d1, d2}
    Key = {k1, k2}
    Response = {accepted, declined}
    Request = {r1, r2}
    None = none
    MaxFaults = 2
    MaxCalls = 2
SPECIFICATION Spec
INVARIANT OneResponsePerDecision
CHECK_DEADLOCK FALSE
