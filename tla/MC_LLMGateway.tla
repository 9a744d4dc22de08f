---------------------------- MODULE MC_LLMGateway ----------------------------
(* Small instances of LLMGateway for TLC.                                  *)
EXTENDS LLMGateway, TLC

CONSTANTS c1, c2, m1, m2, p, q

\* A route as in models.yaml, and one with a fallback that is switched off.
Routes ==
    ("intent_detection" :> [primary |-> m1, fallback |-> m2, allowed |-> TRUE, retries |-> 1, group |-> "intent"])
    @@ ("upsell_message" :> [primary |-> m1, fallback |-> m2, allowed |-> FALSE, retries |-> 2, group |-> "intent"])

Symmetry == Permutations(Callers) \cup Permutations(Texts)
=============================================================================
