----------------------------- MODULE MC_FitAdvice -----------------------------
(* Small instances of FitAdvice for TLC: sizes 1..3.                       *)
EXTENDS FitAdvice

Line(rel, size, reason, exchange) ==
    [relevance |-> rel, size |-> size, reason |-> reason, exchange |-> exchange]

\* A line of each level: of the size a question may name, kept, returned for its
\* fit with or without an exchange, or returned for another reason; of another
\* size, kept or exchanged (a return while the run goes on gives the rest).
Fates ==
    {<<2, "none", NoSize>>, <<2, "FIT", NoSize>>, <<2, "FIT", 3>>, <<2, "OTHER", 3>>,
     <<1, "none", NoSize>>, <<1, "FIT", 3>>}

Lines == {Line(rel, f[1], f[2], f[3]) : rel \in Relevance, f \in Fates}

OneLine == {<<>>} \cup {<<l>> : l \in Lines}

NoProfile == [known |-> FALSE, usual |-> NoSize, adjustment |-> 0, confidence |-> 0]
Known(usual, adjustment) ==
    [known |-> TRUE, usual |-> usual, adjustment |-> adjustment, confidence |-> 800]

TwoProfiles == {NoProfile, Known(2, 1)}

Case(size, reason, score) == [size |-> size, reason |-> reason, score |-> score]
SomeOthers == {<<>>, <<Case(3, "none", 900), Case(2, "FIT", 800), Case(1, "none", 500)>>}

TwoOffers == {<<1, 2, 3>>, <<1, 2>>}
=============================================================================
