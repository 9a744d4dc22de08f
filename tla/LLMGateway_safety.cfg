CONSTANTS
    c1 = c1
    c2 = c2
    m1 = m1
    m2 = m2
    Callers = {c1, c2}
    Route <- Routes
    NoModel = NoModel
    p = p
    q = q
    Texts = {p, q}
    MaxCalls = 2
    MaxAnswers = 5
    MaxEdits = 1
SPECIFICATION Spec
INVARIANTS
    RecordsAreComplete
    AttemptsAreDue
    PromptIsPinned
SYMMETRY Symmetry
CHECK_DEADLOCK FALSE
