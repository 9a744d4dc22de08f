------------------------- MODULE MC_ProfileSessions -------------------------
(* Small instances of ProfileSessions for TLC.                             *)
EXTENDS ProfileSessions, TLC

MC_Symmetry == Permutations(Turn) \cup Permutations(Session) \cup Permutations(Customer)
=============================================================================
