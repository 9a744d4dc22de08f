---------------------------- MODULE LoyaltyLedger ----------------------------
(***************************************************************************)
(* What purchase processing promises: each purchase event takes effect     *)
(* once, in one step, in some order of arrival; the customer's profile     *)
(* version counts the purchases, and a New customer becomes Loyal at the   *)
(* first arrival that finds enough purchases in the window that ends at    *)
(* its own time.  No inbox, outbox, retry, crash or bus.                   *)
(***************************************************************************)
EXTENDS Integers, Sequences, FiniteSets

CONSTANTS Purchase, At, Past, Window, Threshold

VARIABLES
    applied,   \* the purchases, in the order they took effect
    loyalty

\* Times of completed orders once the purchases ps have taken effect.
InWindow(ps, at) ==
    {p \in ps : at - Window < At[p] /\ At[p] <= at}

Arrivals(ps, at) ==
    Cardinality(InWindow(ps, at))
        + Cardinality({t \in Past : at - Window < t /\ t <= at})

Effect == {applied[i] : i \in DOMAIN applied}

Init == applied = <<>> /\ loyalty \in {"New", "Loyal"}

Apply(p) ==
    /\ p \notin Effect
    /\ applied' = Append(applied, p)
    /\ loyalty' = IF Arrivals(Effect \cup {p}, At[p]) >= Threshold THEN "Loyal" ELSE loyalty

Next == \E p \in Purchase : Apply(p)
Spec == Init /\ [][Next]_<<applied, loyalty>>
=============================================================================
