CONSTANTS
    p1 = p1
    p2 = p2
    p3 = p3
    r1 = r1
    r2 = r2
    o1 = o1
    o2 = o2
    profile = profile
    Event = {p1, p2}
    Subscriber = {profile}
    Subs <- MC_Subs
    Rank <- MC_Rank
    Request = {r1, r2}
    Poller = poller
    NoEvent = none
    Limit = 2
    LoadMayFail = TRUE
    MaxFaults = 1
    MaxCalls = 1
    Order = {o1, o2}
    OrderOf <- MC_OrderOf
    OccurredAt <- MC_At
    Past <- MC_Past
    Affluence = "Affluent"
    Window = 3
    LoyalThreshold = 2
SPECIFICATION PurchaseFairSpec
INVARIANTS
    EffectsAgree
    AnswerIsFinal
PROPERTIES
    EveryPurchaseProjected
    ImplementsLedger
    PurchasesImplementBus
CHECK_DEADLOCK FALSE
