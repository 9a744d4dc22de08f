CONSTANTS
    Sku = {1, 2, 3, 4}
    Context <- MC_Context
    Similarity <- MC_Similarity
    Limit = 3
    Catalogues <- MC_Catalogues
    Versions <- MC_Versions
    Queries <- MC_Queries
    Callers <- MC_Callers
    Chat <- MC_Chat
    Sizes = {1, 2}
    MaxEdits = 1
    MaxRequests = 2
    Affinities <- MC_Affinities
    Name <- MC_Name
    HomeLimits = {1, 3, 5}
    SectionCap = 2
SPECIFICATION HomeSpec
INVARIANTS
    ResultIsRight
    NothingIsLeftOut
    HomeIsWhole
CHECK_DEADLOCK FALSE
