--------------------------- MODULE MC_ContextBus ---------------------------
(* Small instances of ContextBus for TLC.                                  *)
EXTENDS ContextBus, TLC

CONSTANTS e1, e2, e3, s1, s2

\* e1 has two subscribers, e2 one; e3 has none and is the oldest.
MC_Subs == (e1 :> <<s1, s2>>) @@ (e2 :> <<s2>>) @@ (e3 :> <<>>)
MC_Rank == (e1 :> 2) @@ (e2 :> 1) @@ (e3 :> 0)

\* Two events, no dead one.
MC_Subs2 == (e1 :> <<s1, s2>>) @@ (e2 :> <<s2>>)
MC_Rank2 == (e1 :> 0) @@ (e2 :> 1)
=============================================================================
