CONSTANTS
    Agent = {a1, a2}
    Session = {s1}
    Window = 2
    Limit = 2
    LegacyWindow = 1
    LegacyLimit = 2
    Customers <- MC_Customers
    Histories <- MC_Histories
    Strengths = {50, 75}
    Inputs <- MC_Inputs
    MaxTime = 2
    MaxShown = 3
    MaxAnswers = 1
    MaxLost = 1
SPECIFICATION Spec
SYMMETRY MC_Symmetry
INVARIANTS
    LimitsHold
    CooldownIsKept
    OfferFits
CHECK_DEADLOCK FALSE
