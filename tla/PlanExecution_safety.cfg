CONSTANTS
    MaxTurns = 2
    Synthesis = {FALSE, TRUE}
SPECIFICATION Spec
INVARIANTS
    PlanIsSound
    ReplyIsHonest
PROPERTIES
    TurnEnds
CHECK_DEADLOCK FALSE
