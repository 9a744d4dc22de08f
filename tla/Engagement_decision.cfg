CONSTANTS
    k1 = k1
    k2 = k2
    k3 = k3
    r1 = r1
    r2 = r2
    upsell = upsell
    Event = {k1}
    Subscriber = {upsell}
    Subs <- MC_Subs
    Rank <- MC_Rank
    Request = {r1}
    Poller = poller
    NoEvent = none
    Limit = 1
    LoadMayFail = FALSE
    MaxFaults = 1
    MaxCalls = 1
    Session = {s1}
    Sku = {p}
    Premium = {p}
    Threshold = 1
SPECIFICATION EngSpec
INVARIANT OneDecisionPerSignal
CHECK_DEADLOCK FALSE
