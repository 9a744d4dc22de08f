------------------------------ MODULE Selections ------------------------------
(***************************************************************************)
(* Sorting, filtering and summing of lists, as functions on 1..n.          *)
(***************************************************************************)
EXTENDS Integers, Sequences, FiniteSets

\* sorted(S): at its place, the element with as many elements before it.
\* before is a strict total order on S, as a set of pairs.
SortedBy(S, before) ==
    [i \in 1 .. Cardinality(S) |->
        CHOOSE x \in S : Cardinality({y \in S : <<y, x>> \in before}) = i - 1]

Less(I) == {p \in I \X I : p[1] < p[2]}

\* A comprehension over a list: the elements at the positions I, in order.
Picked(s, I) ==
    LET place == SortedBy(I, Less(I)) IN [k \in 1 .. Cardinality(I) |-> s[place[k]]]

\* sum() of a list of numbers.
SumOf(s) ==
    LET upTo[n \in 0 .. Len(s)] == IF n = 0 THEN 0 ELSE upTo[n - 1] + s[n]
    IN upTo[Len(s)]
=============================================================================
