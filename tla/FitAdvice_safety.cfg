CONSTANTS
    Histories <- OneLine
    Profiles <- TwoProfiles
    Offered <- TwoOffers
    Others <- SomeOthers
    Rates = {0, 600}
    Requested = {0, 2}
    Failures = {"scope", "product", "profile", "evidence", "similar", "explanation"}
    MaxAsks = 2
    MaxEvents = 1
SPECIFICATION FitSpec
INVARIANTS
    AdviceIsSound
    EvidenceDecides
    MissingIsWeaker
CHECK_DEADLOCK FALSE
