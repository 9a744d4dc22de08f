---------------------------- MODULE MC_Purchases ----------------------------
(* Small instances of Purchases for TLC.                                   *)
EXTENDS Purchases, TLC

CONSTANTS p1, p2, p3, r1, r2, o1, o2, profile

MC_Subs == [e \in Event |-> <<profile>>]
MC_Rank == [e \in Event |-> CASE e = p1 -> 0 [] e = p2 -> 1 [] e = p3 -> 2]

\* p2 occurs a whole window after the customer's earlier order; p3 is a
\* second event for p1's order.
MC_At == [e \in Event |-> CASE e = p1 -> 4 [] e = p2 -> 5 [] e = p3 -> 5]
MC_OrderOf == [e \in Event |-> IF e = p2 THEN o2 ELSE o1]
MC_Past == {2}

MC_Symmetry == Permutations(Request)
=============================================================================
