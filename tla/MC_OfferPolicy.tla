---------------------------- MODULE MC_OfferPolicy ----------------------------
(* Small instances of OfferPolicy for TLC.                                 *)
EXTENDS OfferPolicy, TLC

MC_Customer(segment, consent, tier, premium, new) ==
    [segment |-> segment, complete |-> TRUE, consent |-> consent, tier |-> tier,
     premium |-> premium, returns |-> FALSE, affluent |-> segment \in Premium,
     isNew |-> new, occasions |-> TRUE]

\* A customer of tests/test_upsell_policy.py, and a new one who is promoted.
MC_Customers ==
    {MC_Customer("prestige champion", TRUE, "platinum", 90, FALSE),
     MC_Customer("price explorer", TRUE, "bronze", 25, TRUE)}

MC_Prestige == {MC_Customer("prestige champion", TRUE, "platinum", 90, FALSE)}

MC_Row(type, outcome, suppressed) ==
    [type |-> type, outcome |-> outcome, suppressed |-> suppressed, at |-> 0]

MC_Histories == {EmptyBag, SetToBag({MC_Row("CONCIERGE", "DECLINED", TRUE)})}

MC_NoHistory == {EmptyBag}

MC_Inputs ==
    {[engagement |-> 80, interactions |-> 4, fitRisk |-> f, occasion |-> TRUE] : f \in {0, 60}}

MC_NoInputs == {}

MC_Symmetry == Permutations(Agent)
=============================================================================
