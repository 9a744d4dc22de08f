------------------------- MODULE MC_UpsellDecisions -------------------------
(* Small instances of UpsellDecisions for TLC.                             *)
EXTENDS UpsellDecisions, TLC

CONSTANTS k1, k2, r1, r2

\* Keys and coroutines are interchangeable.
MC_Symmetry == Permutations({k1, k2}) \cup Permutations({r1, r2})
=============================================================================
