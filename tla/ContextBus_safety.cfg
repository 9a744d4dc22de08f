CONSTANTS
    e1 = e1
    e2 = e2
    e3 = e3
    s1 = s1
    s2 = s2
    Event = {e1, e2, e3}
    Subscriber = {s1, s2}
    Subs <- MC_Subs
    Rank <- MC_Rank
    Request = {r1}
    Poller = poller
    NoEvent = none
    Limit = 2
    LoadMayFail = TRUE
    MaxFaults = 2
    MaxCalls = 1
SPECIFICATION FairSpec
INVARIANTS
    TypeOK
    PublishedOnlyAfterAll
    ServedInOrder
    AttemptsAccounted
    AnswerMeansPublished
    OneHandlerAtATime
PROPERTIES
    Progress
    CompletedIsFinal
    ImplementsDelivery
CHECK_DEADLOCK FALSE
