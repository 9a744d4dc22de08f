--------------------------- MODULE MC_Engagement ---------------------------
(* Small instances of Engagement for TLC.                                  *)
EXTENDS Engagement, TLC

CONSTANTS k1, k2, k3, r1, r2, upsell

MC_Subs == [k \in Event |-> <<upsell>>]
MC_Rank == [k \in Event |-> CASE k = k1 -> 0 [] k = k2 -> 1 [] k = k3 -> 2]

\* Request coroutines are interchangeable.
MC_Symmetry == Permutations(Request)
=============================================================================
