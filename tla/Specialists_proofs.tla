-------------------------- MODULE Specialists_proofs --------------------------
(***************************************************************************)
(* Proofs about the two specialist agents: the fit advice (FitAdvice), and *)
(* product discovery with the homepage over it (DiscoverySearch,           *)
(* HomeRecommendations).                                                   *)
(*                                                                         *)
(* The module goes through lists and sorting; the rules of the fit         *)
(* calculator, its evidence and its numbers; the invariant of the fit      *)
(* agent; ranking and retrieval; the invariant of a discovery request;     *)
(* and the invariant of the homepage.                                      *)
(***************************************************************************)
EXTENDS HomeRecommendations, FitAdvice, FiniteSetTheorems, SequenceTheorems, TLAPS

-----------------------------------------------------------------------------
(* Lists and sums.                                                         *)

\* Induction over the natural numbers, for a set of them: a least number
\* outside T would be missing among the predecessors of the numbers outside.
LEMMA Induction ==
    ASSUME NEW T, 0 \in T, \A n \in Nat : n \in T => n + 1 \in T
    PROVE  \A n \in Nat : n \in T
<1> SUFFICES ASSUME NEW n \in Nat, n \notin T PROVE FALSE
    OBVIOUS
<1> DEFINE S == {k \in 0 .. n : k \notin T}
           f == [k \in S |-> k - 1]
<1>1. IsFiniteSet(S)
    <2>1. IsFiniteSet(0 .. n)
        BY FS_Interval
    <2>2. S \subseteq 0 .. n
        OBVIOUS
    <2> QED
        BY <2>1, <2>2, FS_Subset
<1>2. \A k \in S : k - 1 \in S
    OBVIOUS
<1>3. f \in Injection(S, S)
    <2>1. f \in [S -> S]
        BY <1>2
    <2>2. \A a, b \in S : f[a] = f[b] => a = b
        OBVIOUS
    <2> QED
        BY <2>1, <2>2 DEF Injection, IsInjective
<1>4. f \in Surjection(S, S)
    BY <1>1, <1>3, FS_Injection
<1>5. n \in S
    OBVIOUS
<1>6. \E k \in S : f[k] = n
    <2> HIDE DEF f, S
    <2> QED
        BY <1>4, <1>5 DEF Surjection
<1> QED
    BY <1>6

\* A strict total order on S.
Orders(before, S) ==
    /\ \A x \in S : <<x, x>> \notin before
    /\ \A x, y, z \in S : <<x, y>> \in before /\ <<y, z>> \in before => <<x, z>> \in before
    /\ \A x, y \in S : x = y \/ <<x, y>> \in before \/ <<y, x>> \in before

Below(S, before, x) == {y \in S : <<y, x>> \in before}

\* With a strict total order, a later element has more elements before it.
LEMMA PlacesGrow ==
    ASSUME NEW S, IsFiniteSet(S), NEW before, Orders(before, S),
           NEW x \in S, NEW y \in S, <<x, y>> \in before
    PROVE  /\ Cardinality(Below(S, before, x)) \in 0 .. Cardinality(S) - 1
           /\ Cardinality(Below(S, before, y)) \in 0 .. Cardinality(S) - 1
           /\ Cardinality(Below(S, before, x)) < Cardinality(Below(S, before, y))
<1>1. ASSUME NEW z \in S
      PROVE  /\ IsFiniteSet(Below(S, before, z))
             /\ Cardinality(Below(S, before, z)) \in 0 .. Cardinality(S) - 1
    <2>1. Below(S, before, z) \subseteq S \ {z}
        BY DEF Below, Orders
    <2>2. IsFiniteSet(S \ {z}) /\ Cardinality(S \ {z}) = Cardinality(S) - 1
        BY FS_RemoveElement
    <2>3. IsFiniteSet(Below(S, before, z))
          /\ Cardinality(Below(S, before, z)) <= Cardinality(S \ {z})
        BY <2>1, <2>2, FS_Subset
    <2>4. Cardinality(Below(S, before, z)) \in Nat /\ Cardinality(S) \in Nat
        BY <2>3, FS_CardinalityType
    <2> QED
        BY <2>2, <2>3, <2>4
<1>2. x \in Below(S, before, y) /\ x \notin Below(S, before, x)
    BY DEF Below, Orders
<1>3. Below(S, before, x) \subseteq Below(S, before, y)
    BY DEF Below, Orders
<1>4. Cardinality(Below(S, before, x) \cup {x}) = Cardinality(Below(S, before, x)) + 1
    BY <1>1, <1>2, FS_AddElement
<1>5. Cardinality(Below(S, before, x) \cup {x}) <= Cardinality(Below(S, before, y))
    BY <1>1, <1>2, <1>3, FS_Subset
<1> QED
    BY <1>1, <1>4, <1>5

\* SortedBy lists every element once, in the given order.
LEMMA SortedByIsSorted ==
    ASSUME NEW S, IsFiniteSet(S), NEW before, Orders(before, S)
    PROVE  LET q == SortedBy(S, before) IN
           /\ Cardinality(S) \in Nat
           /\ q \in [1 .. Cardinality(S) -> S]
           /\ \A i, j \in 1 .. Cardinality(S) : i < j => <<q[i], q[j]>> \in before
           /\ \A x \in S : \E i \in 1 .. Cardinality(S) : q[i] = x
<1> DEFINE n == Cardinality(S)
           place == [x \in S |-> Cardinality(Below(S, before, x)) + 1]
           q == SortedBy(S, before)
<1>1. n \in Nat
    BY FS_CardinalityType
<1>2. \A x, y \in S : <<x, y>> \in before => place[x] < place[y]
    BY PlacesGrow
<1>3. \A x \in S : place[x] \in 1 .. n
    <2> TAKE x \in S
    <2>1. Below(S, before, x) \subseteq S \ {x}
        BY DEF Below, Orders
    <2>2. IsFiniteSet(S \ {x}) /\ Cardinality(S \ {x}) = n - 1
        BY FS_RemoveElement
    <2>3. IsFiniteSet(Below(S, before, x)) /\ Cardinality(Below(S, before, x)) <= n - 1
        BY <2>1, <2>2, FS_Subset
    <2> QED
        BY <1>1, <2>3, FS_CardinalityType
<1> HIDE DEF n
<1>14. \A x, y \in S : place[x] = place[y] => x = y
    <2> HIDE DEF place
    <2> TAKE x, y \in S
    <2> HAVE place[x] = place[y]
    <2>1. place[x] \in Int /\ place[y] \in Int
        BY <1>1, <1>3
    <2>2. ~ <<x, y>> \in before /\ ~ <<y, x>> \in before
        BY <1>2, <2>1
    <2> QED
        BY <2>2 DEF Orders
<1>4. place \in Injection(S, 1 .. n)
    <2>1. place \in [S -> 1 .. n]
        BY <1>3
    <2>2. \A x, y \in S : place[x] = place[y] => x = y
        BY <1>14
    <2> HIDE DEF place
    <2> QED
        BY <2>1, <2>2 DEF Injection, IsInjective
<1>5. IsFiniteSet(1 .. n) /\ Cardinality(1 .. n) = n
    BY <1>1, FS_Interval
<1>6. place \in Surjection(S, 1 .. n)
    <2> HIDE DEF place
    <2> QED
        BY <1>4, <1>5, FS_Injection DEF n
<1>7. \A i \in 1 .. n : \E x \in S : place[x] = i
    <2> HIDE DEF place
    <2> QED
        BY <1>6 DEF Surjection
<1>8. q = [i \in 1 .. n |-> CHOOSE x \in S : Cardinality(Below(S, before, x)) = i - 1]
    BY DEF SortedBy, Below, n
<1>9. \A i \in 1 .. n : q[i] \in S /\ Cardinality(Below(S, before, q[i])) = i - 1
    <2> TAKE i \in 1 .. n
    <2>1. PICK x \in S : place[x] = i
        BY <1>7
    <2>2. Cardinality(Below(S, before, x)) = i - 1
        <3>1. Cardinality(Below(S, before, x)) \in Int
            <4>1. IsFiniteSet(Below(S, before, x))
                BY FS_Subset DEF Below
            <4> QED
                BY <4>1, FS_CardinalityType
        <3> QED
            BY <2>1, <3>1
    <2> HIDE DEF q, place
    <2> QED
        BY <1>8, <2>2
<1>10. \A i \in 1 .. n : place[q[i]] = i
    <2> HIDE DEF q
    <2> QED
        BY <1>9
<1> HIDE DEF place
<1>11. q \in [1 .. n -> S]
    <2>1. \A i \in 1 .. n : q[i] \in S
        BY <1>9
    <2>2. q = [i \in 1 .. n |-> q[i]]
        BY <1>8
    <2> HIDE DEF q
    <2> QED
        BY <2>1, <2>2
<1> HIDE DEF q
<1>12. \A i, j \in 1 .. n : i < j => <<q[i], q[j]>> \in before
    <2> TAKE i, j \in 1 .. n
    <2> HAVE i < j
    <2>1. q[i] \in S /\ q[j] \in S /\ place[q[i]] = i /\ place[q[j]] = j
        BY <1>9, <1>10
    <2>2. q[i] # q[j] /\ ~(<<q[j], q[i]>> \in before)
        BY <2>1, <1>2
    <2> QED
        BY <2>1, <2>2 DEF Orders
<1>13. \A x \in S : \E i \in 1 .. n : q[i] = x
    <2> TAKE x \in S
    <2>1. place[x] \in 1 .. n /\ q[place[x]] \in S /\ place[q[place[x]]] = place[x]
        BY <1>3, <1>9, <1>10
    <2>2. q[place[x]] = x
        BY <2>1, <1>14
    <2> QED
        BY <2>1, <2>2
<1> QED
    BY <1>1, <1>11, <1>12, <1>13 DEF q, n

\* A finite nonempty set of integers has a least and a greatest element.
LEMMA Extremes ==
    ASSUME NEW T, T \subseteq Int, IsFiniteSet(T), T # {}
    PROVE  /\ \E a \in T : \A b \in T : a <= b
           /\ \E a \in T : \A b \in T : a >= b
<1> DEFINE q == SortedBy(T, Less(T))
           n == Cardinality(T)
<1>1. Orders(Less(T), T)
    BY DEF Orders, Less
<1>2. /\ n \in Nat
      /\ q \in [1 .. n -> T]
      /\ \A i, j \in 1 .. n : i < j => <<q[i], q[j]>> \in Less(T)
      /\ \A x \in T : \E i \in 1 .. n : q[i] = x
    BY <1>1, SortedByIsSorted
<1> HIDE DEF q, n
<1>3. \A i, j \in 1 .. n : i < j => q[i] < q[j]
    BY <1>2 DEF Less
<1>4. n >= 1
    <2>1. PICK x \in T : TRUE
        OBVIOUS
    <2>2. PICK i \in 1 .. n : q[i] = x
        BY <1>2, <2>1
    <2> QED
        BY <1>2, <2>2
<1>5. \A b \in T : q[1] <= b /\ q[n] >= b
    <2> TAKE b \in T
    <2>1. PICK i \in 1 .. n : q[i] = b
        BY <1>2
    <2>4. 1 \in 1 .. n /\ n \in 1 .. n
        BY <1>2, <1>4
    <2>2. q[1] \in Int /\ q[n] \in Int /\ q[i] \in Int
        BY <1>2, <2>4
    <2>3. (i = 1 \/ 1 < i) /\ (i = n \/ i < n)
        BY <1>2, <1>4
    <2> QED
        BY <1>3, <2>1, <2>2, <2>3, <2>4
<1>6. q[1] \in T /\ q[n] \in T
    BY <1>2, <1>4
<1> QED
    BY <1>5, <1>6

\* The first of a nonempty set of positions.
LEMMA EarliestIsFirst ==
    ASSUME NEW n \in Nat, NEW I, I \subseteq 1 .. n, I # {}
    PROVE  Earliest(I) \in I /\ \A j \in I : Earliest(I) <= j
<1>1. IsFiniteSet(I)
    <2>1. IsFiniteSet(1 .. n)
        BY FS_Interval
    <2> QED
        BY <2>1, FS_Subset
<1>2. \E i \in I : \A j \in I : i <= j
    <2>1. I \subseteq Int
        OBVIOUS
    <2> QED
        BY <1>1, <2>1, Extremes
<1> QED
    BY <1>2 DEF Earliest

\* Picked(s, I) has the elements of s at the places I, each as often as there.
LEMMA PickedElements ==
    ASSUME NEW s, NEW n \in Nat, NEW I, I \subseteq 1 .. n
    PROVE  LET q == Picked(s, I) IN
           /\ Cardinality(I) \in Nat /\ q = [k \in 1 .. Cardinality(I) |-> q[k]]
           /\ \A k \in 1 .. Cardinality(I) : \E i \in I : q[k] = s[i]
           /\ \A i \in I : \E k \in 1 .. Cardinality(I) : q[k] = s[i]
           /\ (\A i, j \in I : s[i] = s[j] => i = j) =>
                 \A k, m \in 1 .. Cardinality(I) : q[k] = q[m] => k = m
<1> DEFINE c == Cardinality(I)
           place == SortedBy(I, Less(I))
           q == Picked(s, I)
<1>0. \A i \in I : i \in Int
    OBVIOUS
<1>1. IsFiniteSet(I)
    <2>1. IsFiniteSet(1 .. n)
        BY FS_Interval
    <2> QED
        BY <2>1, FS_Subset
<1>2. Orders(Less(I), I)
    BY DEF Orders, Less
<1>3. /\ c \in Nat
      /\ place \in [1 .. c -> I]
      /\ \A i, j \in 1 .. c : i < j => <<place[i], place[j]>> \in Less(I)
      /\ \A x \in I : \E i \in 1 .. c : place[i] = x
    BY <1>1, <1>2, SortedByIsSorted
<1>4. q = [k \in 1 .. c |-> s[place[k]]]
    BY DEF Picked
<1> HIDE DEF q, place, c
<1>5. \A i, j \in 1 .. c : i < j => place[i] < place[j]
    BY <1>3 DEF Less
<1>6. \A k, m \in 1 .. c : place[k] = place[m] => k = m
    <2> TAKE k, m \in 1 .. c
    <2> HAVE place[k] = place[m]
    <2>1. place[k] \in I /\ place[m] \in I
        BY <1>3
    <2>2. place[k] \in Int /\ place[m] \in Int
        BY <1>0, <2>1
    <2>3. k < m \/ m < k \/ k = m
        BY <1>3
    <2> QED
        BY <1>5, <2>2, <2>3
<1>7. \A k \in 1 .. c : q[k] = s[place[k]] /\ place[k] \in I
    BY <1>3, <1>4
<1>8. \A i \in I : \E k \in 1 .. c : q[k] = s[i]
    BY <1>3, <1>7
<1>9. ASSUME \A i, j \in I : s[i] = s[j] => i = j
      PROVE  \A k, m \in 1 .. c : q[k] = q[m] => k = m
    <2> TAKE k, m \in 1 .. c
    <2> HAVE q[k] = q[m]
    <2>1. s[place[k]] = s[place[m]] /\ place[k] \in I /\ place[m] \in I
        BY <1>7
    <2>2. place[k] = place[m]
        BY <1>9, <2>1
    <2> QED
        BY <1>6, <2>2
<1>10. q = [k \in 1 .. c |-> q[k]]
    BY <1>4
<1> QED
    BY <1>3, <1>7, <1>8, <1>9, <1>10 DEF q, c

\* The running sum of a list exists, and its values are integers.
LEMMA RunningSum ==
    ASSUME NEW s \in Seq(Int), NEW n \in Nat, n <= Len(s)
    PROVE  \E f \in [0 .. n -> Int] :
              f = [k \in 0 .. n |-> IF k = 0 THEN 0 ELSE f[k - 1] + s[k]]
<1> DEFINE Good(m, f) == /\ f \in [0 .. m -> Int]
                         /\ f = [k \in 0 .. m |-> IF k = 0 THEN 0 ELSE f[k - 1] + s[k]]
           T == {m \in Nat : m <= Len(s) => \E f : Good(m, f)}
<1>1. 0 \in T
    <2> DEFINE f == [k \in 0 .. 0 |-> 0]
    <2>1. f \in [0 .. 0 -> Int]
        OBVIOUS
    <2>3. \A k \in 0 .. 0 : k = 0
        OBVIOUS
    <2>4. [k \in 0 .. 0 |-> 0] = [k \in 0 .. 0 |-> IF k = 0 THEN 0 ELSE f[k - 1] + s[k]]
        BY <2>3, Zenon
    <2> QED
        BY <2>1, <2>4
<1>2. ASSUME NEW m \in Nat, m \in T PROVE m + 1 \in T
    <2> SUFFICES ASSUME m + 1 <= Len(s) PROVE \E g : Good(m + 1, g)
        <3> HIDE DEF Good
        <3> QED
            OBVIOUS
    <2>1. Len(s) \in Nat /\ m <= Len(s)
        <3>1. Len(s) \in Nat
            OBVIOUS
        <3> QED
            BY <3>1
    <2>2. PICK f : Good(m, f)
        BY <1>2, <2>1
    <2> DEFINE g == [k \in 0 .. m + 1 |-> IF k <= m THEN f[k] ELSE f[m] + s[m + 1]]
    <2>3. s[m + 1] \in Int
        OBVIOUS
    <2>4. g \in [0 .. m + 1 -> Int]
        BY <2>2, <2>3
    <2>5. ASSUME NEW k \in 0 .. m + 1
          PROVE  g[k] = IF k = 0 THEN 0 ELSE g[k - 1] + s[k]
        <3>1. CASE k <= m
            <4>1. f[k] = IF k = 0 THEN 0 ELSE f[k - 1] + s[k]
                BY <2>2, <3>1
            <4> QED
                BY <3>1, <4>1
        <3>2. CASE k = m + 1
            BY <3>2
        <3> QED
            BY <3>1, <3>2
    <2>6. g = [k \in 0 .. m + 1 |-> g[k]]
        OBVIOUS
    <2>7. g = [k \in 0 .. m + 1 |-> IF k = 0 THEN 0 ELSE g[k - 1] + s[k]]
        <3> HIDE DEF g
        <3> QED
            BY <2>5, <2>6
    <2> HIDE DEF g
    <2> QED
        BY <2>4, <2>7
<1>3. \A m \in Nat : m \in T
    <2> HIDE DEF T
    <2> QED
        BY <1>1, <1>2, Induction
<1>4. n \in T
    BY <1>3
<1> QED
    BY <1>4

\* A sum of integers is an integer, a sum of natural numbers a natural number.
LEMMA SumType ==
    ASSUME NEW s \in Seq(Int)
    PROVE  /\ SumOf(s) \in Int
           /\ (\A i \in DOMAIN s : s[i] \in Nat) => SumOf(s) \in Nat
<1> DEFINE N == Len(s)
           Run(g) == g = [k \in 0 .. N |-> IF k = 0 THEN 0 ELSE g[k - 1] + s[k]]
           f == CHOOSE g : g = [k \in 0 .. Len(s) |-> IF k = 0 THEN 0 ELSE g[k - 1] + s[k]]
<1>0. N \in Nat
    OBVIOUS
<1>1. \E g : Run(g)
    BY RunningSum
<1>2. Run(f)
    BY <1>1
<1>3. SumOf(s) = f[N]
    BY DEF SumOf
<1> HIDE DEF f
<1>4. \A k \in 0 .. N : f[k] = IF k = 0 THEN 0 ELSE f[k - 1] + s[k]
    BY <1>2
<1>5. f[N] \in Int
    <2> DEFINE T == {m \in Nat : m <= N => f[m] \in Int}
    <2>1. 0 \in T
        BY <1>4
    <2>2. ASSUME NEW m \in Nat, m \in T PROVE m + 1 \in T
        <3> SUFFICES ASSUME m + 1 <= N PROVE f[m + 1] \in Int
            OBVIOUS
        <3>1. f[m] \in Int /\ s[m + 1] \in Int /\ m + 1 \in 0 .. N /\ (m + 1) - 1 = m /\ m + 1 # 0
            BY <2>2
        <3>2. f[m + 1] = f[m] + s[m + 1]
            BY <1>4, <3>1
        <3> QED
            BY <3>1, <3>2
    <2>3. \A m \in Nat : m \in T
        <3> HIDE DEF T
        <3> QED
            BY <2>1, <2>2, Induction
    <2> QED
        BY <2>3
<1>6. ASSUME \A i \in DOMAIN s : s[i] \in Nat PROVE f[N] \in Nat
    <2> DEFINE T == {m \in Nat : m <= N => f[m] \in Nat}
    <2>1. 0 \in T
        BY <1>4
    <2>2. ASSUME NEW m \in Nat, m \in T PROVE m + 1 \in T
        <3> SUFFICES ASSUME m + 1 <= N PROVE f[m + 1] \in Nat
            OBVIOUS
        <3>1. f[m] \in Nat /\ s[m + 1] \in Nat /\ m + 1 \in 0 .. N /\ (m + 1) - 1 = m /\ m + 1 # 0
            BY <2>2, <1>6
        <3>2. f[m + 1] = f[m] + s[m + 1]
            BY <1>4, <3>1
        <3> QED
            BY <3>1, <3>2
    <2>3. \A m \in Nat : m \in T
        <3> HIDE DEF T
        <3> QED
            BY <2>1, <2>2, Induction
    <2> QED
        BY <2>3
<1> QED
    BY <1>3, <1>5, <1>6

-----------------------------------------------------------------------------
(* The rules of the Fit agent.                                             *)

\* Counter.most_common gives a size that was counted, or none.
LEMMA MostCommonIsCounted ==
    ASSUME NEW values \in Seq(Nat), NEW weights \in Seq(Nat), Len(weights) = Len(values)
    PROVE  \/ MostCommon(values, weights) = NoSize
           \/ \E i \in DOMAIN values : MostCommon(values, weights) = values[i] /\ values[i] # NoSize
<1> DEFINE n == Len(values)
           counted == {i \in DOMAIN values : values[i] # NoSize}
           part(i) == [j \in DOMAIN values |-> IF values[j] = values[i] THEN weights[j] ELSE 0]
           total == [i \in counted |-> SumOf(part(i))]
           best == {i \in counted : \A j \in counted : total[i] >= total[j]}
<1>1. n \in Nat /\ DOMAIN values = 1 .. n /\ DOMAIN weights = 1 .. n
    BY LenProperties
<1>2. SUFFICES ASSUME counted # {}
               PROVE  best \subseteq counted /\ best # {} /\ counted \subseteq 1 .. n
    <2>1. ASSUME counted = {} PROVE MostCommon(values, weights) = NoSize
        BY <2>1 DEF MostCommon
    <2>2. ASSUME counted # {}, best \subseteq counted, best # {}, counted \subseteq 1 .. n
          PROVE  \E i \in counted : MostCommon(values, weights) = values[i]
        <3>1. Earliest(best) \in best
            <4> HIDE DEF best, counted
            <4> QED
                BY <1>1, <2>2, EarliestIsFirst
        <3>2. MostCommon(values, weights) = values[Earliest(best)]
            BY <2>2 DEF MostCommon
        <3> QED
            BY <2>2, <3>1, <3>2
    <2> QED
        BY <1>2, <2>1, <2>2
<1>3. best \subseteq counted /\ counted \subseteq 1 .. n
    BY <1>1
<1>4. \A i \in counted : total[i] \in Int
    <2> TAKE i \in counted
    <2>1. \A j \in 1 .. n : part(i)[j] \in Int
        BY <1>1
    <2>2. part(i) = [j \in 1 .. n |-> part(i)[j]]
        BY <1>1
    <2>3. part(i) \in Seq(Int)
        <3> HIDE DEF part
        <3> QED
            BY <1>1, <2>1, <2>2
    <2>4. SumOf(part(i)) \in Int
        <3> HIDE DEF part
        <3> QED
            BY <2>3, SumType
    <2> QED
        BY <2>4
<1>5. best # {}
    <2> DEFINE T == {total[i] : i \in counted}
    <2>1. IsFiniteSet(counted)
        <3>1. IsFiniteSet(1 .. n)
            BY <1>1, FS_Interval
        <3> QED
            BY <1>3, <3>1, FS_Subset
    <2>2. IsFiniteSet(T)
        <3>1. total \in Surjection(counted, T)
            <4> HIDE DEF counted
            <4> QED
                BY DEF Surjection
        <3> HIDE DEF total, counted, T
        <3> QED
            BY <2>1, <3>1, FS_Surjection
    <2>3. T \subseteq Int /\ T # {}
        <3> HIDE DEF total
        <3> QED
            BY <1>2, <1>4
    <2>4. PICK a \in T : \A b \in T : a >= b
        <3> HIDE DEF T
        <3> QED
            BY <2>2, <2>3, Extremes
    <2>5. PICK i \in counted : a = total[i]
        BY <2>4
    <2>6. i \in best
        <3> HIDE DEF total
        <3> QED
            BY <2>4, <2>5
    <2> QED
        BY <2>6
<1> QED
    BY <1>3, <1>5

\* A list of sizes, filtered for those of the product, gives one of these.
LEMMA MostCommonIsSold ==
    ASSUME NEW offer \in Seq(Nat \ {NoSize}), NEW values \in Seq(Nat),
           NEW weights \in Seq(Nat), Len(weights) = Len(values),
           \A i \in DOMAIN values : values[i] \in ToSet(offer) \cup {NoSize}
    PROVE  MostCommon(values, weights) \in ToSet(offer) \cup {NoSize}
BY MostCommonIsCounted

\* Sold keeps a size of the product and drops any other.
LEMMA SoldIsSold ==
    ASSUME NEW offer \in Seq(Nat \ {NoSize}), NEW size \in Nat
    PROVE  Sold(size, offer) \in ToSet(offer) \cup {NoSize} /\ Sold(size, offer) \in Nat
BY DEF Sold, Contains, ToSet, NoSize

\* An exchange size is advised only if the product comes in it.
LEMMA PreferredExchangeIsSold ==
    ASSUME NEW items \in Seq(OrderLine), NEW returns, NEW offer \in Seq(Nat \ {NoSize})
    PROVE  PreferredExchange(items, returns, offer) \in ToSet(offer) \cup {NoSize}
<1> DEFINE n == Len(items)
           values == [i \in DOMAIN items |->
                        IF i \in returns THEN Sold(items[i].exchange, offer) ELSE NoSize]
           ones == [i \in DOMAIN items |-> 1]
<1>1. n \in Nat /\ DOMAIN items = 1 .. n
    BY LenProperties
<1>2. \A i \in 1 .. n : values[i] \in Nat /\ values[i] \in ToSet(offer) \cup {NoSize}
    <2> TAKE i \in 1 .. n
    <2>0. items[i] \in OrderLine
        BY <1>1
    <2>1. items[i].exchange \in Nat
        BY <2>0 DEF OrderLine
    <2> QED
        BY <1>1, <2>1, SoldIsSold DEF NoSize
<1>3. values = [i \in 1 .. n |-> values[i]]
    BY <1>1
<1>4. ones \in Seq(Nat) /\ Len(ones) = n
    BY <1>1
<1> HIDE DEF values
<1>5. values \in Seq(Nat) /\ Len(values) = n /\ DOMAIN values = 1 .. n
    BY <1>1, <1>2, <1>3
<1> HIDE DEF ones
<1>6. MostCommon(values, ones) \in ToSet(offer) \cup {NoSize}
    BY <1>2, <1>4, <1>5, MostCommonIsSold
<1> QED
    BY <1>6 DEF PreferredExchange, values, ones

\* The size of similar cases is one the product comes in; no cases, no size.
LEMMA VectorSizeIsSold ==
    ASSUME NEW similar \in Seq(SimilarCase), NEW offer \in Seq(Nat \ {NoSize})
    PROVE  /\ VectorSize(similar, offer) \in ToSet(offer) \cup {NoSize}
           /\ similar = <<>> => VectorSize(similar, offer) = NoSize
<1> DEFINE n == Len(similar)
           values == [i \in DOMAIN similar |->
                        IF Returned(similar[i]) THEN NoSize ELSE Sold(similar[i].size, offer)]
           scores == [i \in DOMAIN similar |-> similar[i].score]
<1>1. n \in Nat /\ DOMAIN similar = 1 .. n
    BY LenProperties
<1>2. \A i \in 1 .. n : values[i] \in Nat /\ values[i] \in ToSet(offer) \cup {NoSize}
    <2> TAKE i \in 1 .. n
    <2>0. similar[i] \in SimilarCase
        BY <1>1
    <2>1. similar[i].size \in Nat
        BY <2>0 DEF SimilarCase
    <2> QED
        BY <1>1, <2>1, SoldIsSold DEF NoSize
<1>3. values = [i \in 1 .. n |-> values[i]]
    BY <1>1
<1>4. scores \in Seq(Nat) /\ Len(scores) = n
    <2>0. \A i \in 1 .. n : similar[i] \in SimilarCase
        BY <1>1
    <2>1. \A i \in 1 .. n : similar[i].score \in Nat
        BY <2>0 DEF SimilarCase
    <2> QED
        BY <1>1, <2>1
<1> HIDE DEF values
<1>5. values \in Seq(Nat) /\ Len(values) = n /\ DOMAIN values = 1 .. n
    BY <1>1, <1>2, <1>3
<1> HIDE DEF scores
<1>6. MostCommon(values, scores) \in ToSet(offer) \cup {NoSize}
    BY <1>2, <1>4, <1>5, MostCommonIsSold
<1>7. ASSUME similar = <<>> PROVE MostCommon(values, scores) = NoSize
    <2>1. n = 0
        BY <1>7
    <2>2. DOMAIN values = {}
        BY <1>5, <2>1
    <2> QED
        BY <1>4, <1>5, <2>2, MostCommonIsCounted
<1> QED
    BY <1>6, <1>7 DEF VectorSize, values, scores

\* The adjusted size is a size of the product, or none.
LEMMA AdjustedSizeIsSold ==
    ASSUME NEW offer \in Seq(Nat \ {NoSize}), NEW base, NEW steps
    PROVE  AdjustedSize(base, steps, offer) \in ToSet(offer) \cup {NoSize}
BY DEF AdjustedSize, ToSet

\* The first size of a chain of six: what the nested tests of evaluate give.
LEMMA FirstOfSix ==
    ASSUME NEW a, NEW b, NEW c, NEW d, NEW e, NEW f
    PROVE  FirstSize(<<a, b, c, d, e, f>>) =
             IF a # NoSize THEN a ELSE IF b # NoSize THEN b ELSE IF c # NoSize THEN c
             ELSE IF d # NoSize THEN d ELSE IF e # NoSize THEN e ELSE f
<1> DEFINE s == <<a, b, c, d, e, f>>
           found == {i \in 1 .. 6 : s[i] # NoSize}
<1>1. DOMAIN s = 1 .. 6
    OBVIOUS
<1>2. s[1] = a /\ s[2] = b /\ s[3] = c /\ s[4] = d /\ s[5] = e /\ s[6] = f
    OBVIOUS
<1> HIDE DEF s
<1>3. found = {} => FirstSize(s) = NoSize
    BY <1>1 DEF FirstSize
<1>4. found # {} => FirstSize(s) = s[Earliest(found)]
    BY <1>1 DEF FirstSize
<1>5. \A k \in 1 .. 6 : s[k] # NoSize /\ (\A j \in 1 .. k - 1 : s[j] = NoSize) => FirstSize(s) = s[k]
    <2> SUFFICES ASSUME NEW k \in 1 .. 6, s[k] # NoSize, \A j \in 1 .. k - 1 : s[j] = NoSize
                 PROVE  FirstSize(s) = s[k]
        OBVIOUS
    <2>1. found \subseteq 1 .. 6 /\ k \in found
        OBVIOUS
    <2>2. Earliest(found) \in found /\ Earliest(found) <= k
        <3> HIDE DEF found
        <3> QED
            BY <2>1, EarliestIsFirst
    <2>3. Earliest(found) = k
        BY <2>2
    <2> HIDE DEF found
    <2> QED
        BY <1>4, <2>1, <2>3
<1>6. 1 .. 0 = {} /\ 1 .. 1 = {1} /\ 1 .. 2 = {1, 2} /\ 1 .. 3 = {1, 2, 3} /\ 1 .. 4 = {1, 2, 3, 4}
      /\ 1 .. 5 = {1, 2, 3, 4, 5}
    OBVIOUS
<1>7. /\ a # NoSize => FirstSize(s) = a
      /\ a = NoSize /\ b # NoSize => FirstSize(s) = b
      /\ a = NoSize /\ b = NoSize /\ c # NoSize => FirstSize(s) = c
    BY <1>2, <1>5, <1>6
<1>8. /\ a = NoSize /\ b = NoSize /\ c = NoSize /\ d # NoSize => FirstSize(s) = d
      /\ a = NoSize /\ b = NoSize /\ c = NoSize /\ d = NoSize /\ e # NoSize => FirstSize(s) = e
      /\ a = NoSize /\ b = NoSize /\ c = NoSize /\ d = NoSize /\ e = NoSize /\ f # NoSize
           => FirstSize(s) = f
    BY <1>2, <1>5, <1>6
<1>9. a = NoSize /\ b = NoSize /\ c = NoSize /\ d = NoSize /\ e = NoSize /\ f = NoSize
        => FirstSize(s) = f
    BY <1>2, <1>3
<1> QED
    BY <1>7, <1>8, <1>9 DEF s
-----------------------------------------------------------------------------
(* What an answer of the Fit agent is made of.                             *)

EvidenceType == [items : Seq(OrderLine), usual : Nat, adjustment : Int, rate : Nat,
                 strength : Int, similar : Seq(SimilarCase)]

\* Every size the chain of evaluate chooses from is one the product comes in.
LEMMA RecommendedIsSold ==
    ASSUME NEW p \in FitProfile, NEW ev \in EvidenceType, NEW requested \in Nat,
           NEW offer \in Seq(Nat \ {NoSize})
    PROVE  RecommendedSize(p, ev, requested, offer) \in ToSet(offer) \cup {NoSize}
<1>1. ev.items \in Seq(OrderLine) /\ ev.similar \in Seq(SimilarCase) /\ ev.usual \in Nat
    BY DEF EvidenceType
<1>2. Usual(p, ev) \in Nat
    BY <1>1 DEF Usual, FitProfile
<1>3. PreferredExchange(ev.items, MatchingReturns(ev.items, requested), offer)
        \in ToSet(offer) \cup {NoSize}
    BY <1>1, PreferredExchangeIsSold
<1>4. VectorSize(ev.similar, offer) \in ToSet(offer) \cup {NoSize}
    BY <1>1, VectorSizeIsSold
<1>5. Sold(requested, offer) \in ToSet(offer) \cup {NoSize}
      /\ Sold(Usual(p, ev), offer) \in ToSet(offer) \cup {NoSize}
    BY <1>2, SoldIsSold
<1> DEFINE base == IF Usual(p, ev) # NoSize THEN Usual(p, ev) ELSE requested
           kept == \E level \in {"SAME_SKU", "SAME_BRAND"} : KeptSize(ev.items, level, requested)
<1>6. AdjustedSize(base, ev.adjustment, offer) \in ToSet(offer) \cup {NoSize}
    BY AdjustedSizeIsSold
<1> HIDE DEF base, kept
<1>7. FirstSize(<<PreferredExchange(ev.items, MatchingReturns(ev.items, requested), offer),
                  IF ev.adjustment = 0 THEN NoSize ELSE AdjustedSize(base, ev.adjustment, offer),
                  IF kept THEN Sold(requested, offer) ELSE NoSize,
                  Sold(Usual(p, ev), offer), Sold(requested, offer),
                  VectorSize(ev.similar, offer)>>) \in ToSet(offer) \cup {NoSize}
    BY <1>3, <1>4, <1>5, <1>6, FirstOfSix
<1> QED
    BY <1>7 DEF RecommendedSize, base, kept

\* Similar cases are last in the chain: without them it gives the same size,
\* or none.
LEMMA OwnEvidenceFirst ==
    ASSUME NEW p \in FitProfile, NEW ev \in EvidenceType, NEW requested \in Nat,
           NEW offer \in Seq(Nat \ {NoSize}),
           RecommendedSize(p, [ev EXCEPT !.similar = <<>>], requested, offer) # NoSize
    PROVE  RecommendedSize(p, ev, requested, offer)
             = RecommendedSize(p, [ev EXCEPT !.similar = <<>>], requested, offer)
<1> DEFINE alone == [ev EXCEPT !.similar = <<>>]
           base == IF Usual(p, ev) # NoSize THEN Usual(p, ev) ELSE requested
           kept == \E level \in {"SAME_SKU", "SAME_BRAND"} : KeptSize(ev.items, level, requested)
           a == PreferredExchange(ev.items, MatchingReturns(ev.items, requested), offer)
           b == IF ev.adjustment = 0 THEN NoSize ELSE AdjustedSize(base, ev.adjustment, offer)
           c == IF kept THEN Sold(requested, offer) ELSE NoSize
           d == Sold(Usual(p, ev), offer)
           e == Sold(requested, offer)
           f(similar) == VectorSize(similar, offer)
<1>1. /\ alone.items = ev.items /\ alone.adjustment = ev.adjustment /\ alone.similar = <<>>
      /\ alone.usual = ev.usual
    BY DEF EvidenceType
<1>2. Usual(p, alone) = Usual(p, ev)
    BY <1>1 DEF Usual
<1>3. RecommendedSize(p, ev, requested, offer) = FirstSize(<<a, b, c, d, e, f(ev.similar)>>)
    BY DEF RecommendedSize
<1> HIDE DEF alone
<1>4. RecommendedSize(p, alone, requested, offer) = FirstSize(<<a, b, c, d, e, f(<<>>)>>)
    BY <1>1, <1>2 DEF RecommendedSize
<1>5. f(<<>>) = NoSize
    <2>1. <<>> \in Seq(SimilarCase)
        OBVIOUS
    <2> QED
        BY <2>1, VectorSizeIsSold
<1>6. RecommendedSize(p, alone, requested, offer) # NoSize
    BY DEF alone
<1> HIDE DEF a, b, c, d, e, f
<1> QED
    BY <1>3, <1>4, <1>5, <1>6, FirstOfSix DEF alone

-----------------------------------------------------------------------------
(* Leaving lines of a history out.                                         *)

\* The lines kept stay as they are.
LEMMA OnlyLines ==
    ASSUME NEW items, NEW I
    PROVE  /\ DOMAIN Only(items, I) = DOMAIN items
           /\ \A i \in DOMAIN items : i \in I => Only(items, I)[i] = items[i]
           /\ \A i \in DOMAIN items : i \notin I =>
                 Only(items, I)[i].relevance = "NONE" /\ Only(items, I)[i].reason = "none"
BY DEF Only, KeptItem

\* A blank line is of no level and was not returned.
LEMMA OnlyReturns ==
    ASSUME NEW items, NEW I, NEW level \in Relevance, NEW size
    PROVE  ReturnsOf(Only(items, I), level, size) = ReturnsOf(items, level, size) \cap I
<1> DEFINE only == Only(items, I)
<1>1. /\ DOMAIN only = DOMAIN items /\ \A i \in DOMAIN items : i \in I => only[i] = items[i]
      /\ \A i \in DOMAIN items : i \notin I => only[i].relevance = "NONE"
    BY OnlyLines
<1> HIDE DEF only
<1>2. level # "NONE"
    BY DEF Relevance
<1>3. ReturnsOf(only, level, size) = ReturnsOf(items, level, size) \cap I
    BY <1>1, <1>2 DEF ReturnsOf, Of, FitReturns
<1> QED
    BY <1>3 DEF only

\* A size was kept by the lines that remain, or not at all.
LEMMA OnlyKept ==
    ASSUME NEW items, NEW I, NEW level \in Relevance, NEW size,
           \A i \in Of(items, level) : ~Returned(items[i]) => i \in I
    PROVE  KeptSize(Only(items, I), level, size) = KeptSize(items, level, size)
<1> DEFINE only == Only(items, I)
<1>1. /\ DOMAIN only = DOMAIN items /\ \A i \in DOMAIN items : i \in I => only[i] = items[i]
      /\ \A i \in DOMAIN items : i \notin I => only[i].relevance = "NONE"
    BY OnlyLines
<1> HIDE DEF only
<1>2. level # "NONE"
    BY DEF Relevance
<1>3. KeptSize(only, level, size) => KeptSize(items, level, size)
    BY <1>1, <1>2 DEF KeptSize, Of, Returned
<1>4. KeptSize(items, level, size) => KeptSize(only, level, size)
    <2> SUFFICES ASSUME size # NoSize,
                        NEW i \in Of(items, level), items[i].size = size, ~Returned(items[i])
                 PROVE  KeptSize(only, level, size)
        BY DEF KeptSize
    <2>1. i \in I /\ i \in DOMAIN items /\ only[i] = items[i]
        BY <1>1 DEF Of
    <2>2. i \in Of(only, level)
        BY <1>1, <2>1 DEF Of
    <2> QED
        BY <2>1, <2>2 DEF KeptSize
<1>5. KeptSize(only, level, size) = KeptSize(items, level, size)
    BY <1>3, <1>4 DEF KeptSize
<1> QED
    BY <1>5 DEF only

\* Lines returned for other reasons play no part in the recommended size.
LEMMA OtherReturnsAreSilent ==
    ASSUME NEW p, NEW ev \in EvidenceType, NEW requested, NEW offer
    PROVE  LET items == ev.items
               fit == Only(items, {i \in DOMAIN items : items[i].reason # "OTHER"})
           IN RecommendedSize(p, ev, requested, offer)
                = RecommendedSize(p, [ev EXCEPT !.items = fit], requested, offer)
<1> DEFINE items == ev.items
           I == {i \in DOMAIN items : items[i].reason # "OTHER"}
           fit == Only(items, I)
           less == [ev EXCEPT !.items = fit]
<1>1. DOMAIN fit = DOMAIN items /\ \A i \in DOMAIN items : i \in I => fit[i] = items[i]
    BY OnlyLines
<1>2. ASSUME NEW level \in Relevance
      PROVE  /\ ReturnsOf(fit, level, requested) = ReturnsOf(items, level, requested)
             /\ KeptSize(fit, level, requested) = KeptSize(items, level, requested)
    <2>1. ReturnsOf(items, level, requested) \subseteq I
        BY DEF ReturnsOf, FitReturns
    <2>2. \A i \in Of(items, level) : ~Returned(items[i]) => i \in I
        BY DEF Returned, Of
    <2> HIDE DEF I, items
    <2>3. ReturnsOf(fit, level, requested) = ReturnsOf(items, level, requested) \cap I
        BY OnlyReturns
    <2>4. KeptSize(fit, level, requested) = KeptSize(items, level, requested)
        BY <2>2, OnlyKept
    <2> QED
        BY <2>1, <2>3, <2>4
<1>3. /\ less.items = fit /\ less.usual = ev.usual /\ less.adjustment = ev.adjustment
      /\ less.similar = ev.similar
    BY DEF EvidenceType
<1>4. \A level \in Relevance : ReturnsOf(items, level, requested) \subseteq I
    BY DEF ReturnsOf, FitReturns
<1> HIDE DEF fit, I, items
<1>5. MatchingReturns(fit, requested) = MatchingReturns(items, requested)
    BY <1>2 DEF MatchingReturns, Relevance
<1>6. MatchingReturns(items, requested) \subseteq I
    BY <1>4 DEF MatchingReturns, Relevance
<1>7. ASSUME NEW R, R \subseteq I
      PROVE  PreferredExchange(fit, R, offer) = PreferredExchange(items, R, offer)
    <2>1. [i \in DOMAIN fit |-> IF i \in R THEN Sold(fit[i].exchange, offer) ELSE NoSize]
            = [i \in DOMAIN items |-> IF i \in R THEN Sold(items[i].exchange, offer) ELSE NoSize]
        BY <1>1, <1>7
    <2>2. [i \in DOMAIN fit |-> 1] = [i \in DOMAIN items |-> 1]
        BY <1>1
    <2> QED
        BY <2>1, <2>2 DEF PreferredExchange
<1>8. Usual(p, less) = Usual(p, ev)
    BY <1>3 DEF Usual
<1> HIDE DEF less
<1>9. PreferredExchange(less.items, MatchingReturns(less.items, requested), offer)
        = PreferredExchange(items, MatchingReturns(items, requested), offer)
    BY <1>3, <1>5, <1>6, <1>7
<1>10. (\E level \in {"SAME_SKU", "SAME_BRAND"} : KeptSize(less.items, level, requested))
        = (\E level \in {"SAME_SKU", "SAME_BRAND"} : KeptSize(items, level, requested))
    BY <1>2, <1>3 DEF Relevance
<1>11. RecommendedSize(p, less, requested, offer) = RecommendedSize(p, ev, requested, offer)
    BY <1>3, <1>8, <1>9, <1>10 DEF RecommendedSize, items
<1> QED
    BY <1>11 DEF less, fit, I, items

\* What the returns of the levels kept weigh, if a nearer one decides.
LEMMA NearLinesDecide ==
    ASSUME NEW items \in Seq(OrderLine), NEW levels, levels \subseteq Relevance, NEW requested,
           "SAME_SKU" \in levels, NEW decisive \in levels, decisive \in {"SAME_SKU", "SAME_BRAND"},
           NEW i \in Of(items, decisive), items[i].size = requested, items[i].reason # "OTHER"
    PROVE  LET near == Only(items, {k \in DOMAIN items : items[k].relevance \in levels})
           IN /\ ReturnRisk(near, requested) = ReturnRisk(items, requested)
              /\ KeptSize(near, "SAME_SKU", requested) = KeptSize(items, "SAME_SKU", requested)
<1> DEFINE I == {k \in DOMAIN items : items[k].relevance \in levels}
           near == Only(items, I)
<1>1. DOMAIN near = DOMAIN items /\ \A k \in DOMAIN items : k \in I => near[k] = items[k]
    BY OnlyLines
<1>2. ASSUME NEW level \in levels
      PROVE  /\ ReturnsOf(near, level, requested) = ReturnsOf(items, level, requested)
             /\ KeptSize(near, level, requested) = KeptSize(items, level, requested)
    <2>1. ReturnsOf(items, level, requested) \subseteq I
        BY DEF ReturnsOf, FitReturns, Of
    <2>2. \A k \in Of(items, level) : ~Returned(items[k]) => k \in I
        BY DEF Of
    <2>3. level \in Relevance
        OBVIOUS
    <2> HIDE DEF I
    <2>4. ReturnsOf(near, level, requested) = ReturnsOf(items, level, requested) \cap I
        <3>1. \A size : ReturnsOf(Only(items, I), level, size) = ReturnsOf(items, level, size) \cap I
            BY <2>3, OnlyReturns
        <3> QED
            BY <3>1
    <2>5. KeptSize(near, level, requested) = KeptSize(items, level, requested)
        BY <2>2, <2>3, OnlyKept
    <2> QED
        BY <2>1, <2>4, <2>5
<1>3. MatchingReturns(items, requested) \subseteq I
      /\ MatchingReturns(near, requested) = MatchingReturns(items, requested)
    <2>1. i \in DOMAIN items /\ items[i] \in OrderLine
        BY DEF Of
    <2>2. items[i].reason \in {"none", "FIT", "OTHER"} /\ requested # NoSize
        BY <2>1 DEF OrderLine
    <2>3. ReturnsOf(items, decisive, requested) # {} \/ KeptSize(items, decisive, requested)
        BY <2>1, <2>2 DEF ReturnsOf, FitReturns, KeptSize, Returned
    <2>4. \A level \in levels : ReturnsOf(items, level, requested) \subseteq I
        BY DEF ReturnsOf, FitReturns, Of
    <2> HIDE DEF near, I
    <2> QED
        BY <1>2, <2>3, <2>4 DEF MatchingReturns
<1>4. ReturnRisk(near, requested) = ReturnRisk(items, requested)
    <2> DEFINE W(lines) == {ReturnWeight(lines[k].relevance) : k \in MatchingReturns(lines, requested)}
    <2>1. MatchingReturns(items, requested) \subseteq DOMAIN items
        BY DEF MatchingReturns, ReturnsOf, FitReturns
    <2>2. W(near) = W(items)
        <3> HIDE DEF near, I
        <3> QED
            BY <1>1, <1>3, <2>1
    <2>3. \A lines : ReturnRisk(lines, requested) =
            IF W(lines) = {} THEN 0 ELSE CHOOSE w \in W(lines) : \A v \in W(lines) : w >= v
        BY DEF ReturnRisk
    <2> HIDE DEF near, I, W
    <2> QED
        BY <2>2, <2>3
<1> QED
    BY <1>2, <1>4
-----------------------------------------------------------------------------
(* Scores and their ranges.                                                *)

\* The numbers of a scale, as inequalities.
LEMMA Scales ==
    /\ \A x : x \in Share <=> x \in Int /\ 0 <= x /\ x <= 1000
    /\ \A x : x \in RiskScale <=> x \in Int /\ 0 <= x /\ x <= 4000
BY DEF Share, RiskScale

\* A score cut to a scale lies in it.
LEMMA ClampRange ==
    ASSUME NEW score \in Int
    PROVE  Clamp(score, 1000) \in Share /\ Clamp(score, 4000) \in RiskScale
BY Scales DEF Clamp, UpTo

\* A higher score is not cut lower.
LEMMA ClampGrows ==
    ASSUME NEW low \in Int, NEW high \in Int, low <= high, NEW top \in Nat
    PROVE  Clamp(low, top) <= Clamp(high, top)
BY DEF Clamp, UpTo

\* The returns weigh one of four amounts, and a fit return of the product
\* itself weighs the most.
LEMMA ReturnRiskRange ==
    ASSUME NEW items \in Seq(OrderLine), NEW requested
    PROVE  /\ ReturnRisk(items, requested) \in {0, 500, 750, 1000}
           /\ ReturnsOf(items, "SAME_SKU", requested) # {} => ReturnRisk(items, requested) = 1000
<1> DEFINE weights == {ReturnWeight(items[i].relevance) : i \in MatchingReturns(items, requested)}
<1>1. weights \subseteq {500, 750, 1000}
    BY DEF ReturnWeight
<1>2. weights = {} \/ \E w \in weights : \A v \in weights : w >= v
    <2> HIDE DEF weights
    <2>1. CASE 1000 \in weights
        BY <1>1, <2>1
    <2>2. CASE 1000 \notin weights /\ 750 \in weights
        BY <1>1, <2>2
    <2>3. CASE 1000 \notin weights /\ 750 \notin weights
        BY <1>1, <2>3
    <2> QED
        BY <2>1, <2>2, <2>3
<1>3. ReturnRisk(items, requested)
        = IF weights = {} THEN 0 ELSE CHOOSE w \in weights : \A v \in weights : w >= v
    BY DEF ReturnRisk
<1>4. ReturnsOf(items, "SAME_SKU", requested) # {} => weights = {1000}
    <2> HAVE ReturnsOf(items, "SAME_SKU", requested) # {}
    <2>1. MatchingReturns(items, requested) = ReturnsOf(items, "SAME_SKU", requested)
        BY DEF MatchingReturns
    <2>2. \A i \in MatchingReturns(items, requested) : items[i].relevance = "SAME_SKU"
        BY <2>1 DEF ReturnsOf, Of
    <2>3. \A i \in MatchingReturns(items, requested) : ReturnWeight(items[i].relevance) = 1000
        BY <2>2 DEF ReturnWeight
    <2> QED
        BY <2>1, <2>3
<1> HIDE DEF weights
<1>5. ASSUME weights # {} PROVE ReturnRisk(items, requested) \in weights
    BY <1>2, <1>3, <1>5
<1>6. weights = {} => ReturnRisk(items, requested) = 0
    BY <1>3
<1>7. weights = {1000} => ReturnRisk(items, requested) = 1000
    BY <1>5
<1>8. ReturnRisk(items, requested) \in {0, 500, 750, 1000}
    <2>1. CASE weights = {}
        BY <1>6, <2>1
    <2>2. CASE weights # {}
        <3>1. ReturnRisk(items, requested) \in {500, 750, 1000}
            <4>1. \A x \in weights : x \in {500, 750, 1000}
                BY <1>1
            <4>2. ReturnRisk(items, requested) \in weights
                BY <1>5, <2>2
            <4> QED
                BY <4>1, <4>2
        <3> QED
            BY <3>1
    <2> QED
        BY <2>1, <2>2
<1> QED
    BY <1>4, <1>7, <1>8

\* Scores add up to a natural number.
LEMMA ScoreSumType ==
    ASSUME NEW cases \in Seq(SimilarCase), NEW I
    PROVE  ScoreSum(cases, I) \in Nat
<1> DEFINE n == Len(cases)
           part == [i \in DOMAIN cases |-> IF i \in I THEN cases[i].score ELSE 0]
<1>1. n \in Nat /\ DOMAIN cases = 1 .. n
    BY LenProperties
<1>2. \A i \in 1 .. n : cases[i] \in SimilarCase
    BY <1>1
<1>3. \A i \in 1 .. n : part[i] \in Nat
    BY <1>1, <1>2 DEF SimilarCase
<1>4. part = [i \in 1 .. n |-> part[i]]
    BY <1>1
<1> HIDE DEF part
<1>5. part \in Seq(Int) /\ DOMAIN part = 1 .. n
    BY <1>1, <1>3, <1>4
<1>6. SumOf(part) \in Nat
    BY <1>3, <1>5, SumType
<1> QED
    BY <1>6 DEF ScoreSum, part

\* Similar cases never lower the risk.
LEMMA SimilarRiskType ==
    ASSUME NEW similar \in Seq(SimilarCase), NEW requested
    PROVE  SimilarRisk(similar, requested) \in Nat
<1> DEFINE alike == {i \in DOMAIN similar : requested = NoSize \/ similar[i].size = requested}
           bad == {i \in alike : similar[i].reason = "FIT"}
           all == ScoreSum(similar, alike)
           some == ScoreSum(similar, bad)
           d == IF all > 1000 THEN all ELSE 1000
<1>1. all \in Nat /\ some \in Nat
    <2> HIDE DEF alike, bad
    <2> QED
        BY ScoreSumType
<1>2. SimilarRisk(similar, requested) = (400 * some) \div d
    BY DEF SimilarRisk
<1> HIDE DEF all, some
<1>3. d \in Nat /\ d >= 1000 /\ 400 * some \in Nat
    BY <1>1
<1> HIDE DEF d
<1>4. \A x, y \in Nat : y >= 1000 => x \div y \in Nat
    BY Z3
<1> QED
    BY <1>2, <1>3, <1>4

\* The risk lies on its scale; a weight of 1000 is not rounded away.
LEMMA RiskRange ==
    ASSUME NEW p \in FitProfile, NEW ev \in EvidenceType, NEW requested
    PROVE  /\ RiskScore(p, ev, requested) \in RiskScale
           /\ ReturnRisk(ev.items, requested) = 1000 => RiskScore(p, ev, requested) >= 1000
<1> DEFINE mismatch == IF requested # NoSize /\ Usual(p, ev) # NoSize /\ requested # Usual(p, ev)
                       THEN 800 ELSE 0
           adjusted == IF ev.adjustment # 0 THEN 800 ELSE 0
           return == ReturnRisk(ev.items, requested)
           alike == SimilarRisk(ev.similar, requested)
           spared == IF KeptSize(ev.items, "SAME_SKU", requested) /\ return < 1000 THEN 600 ELSE 0
           total == ev.rate + mismatch + adjusted + return + alike - spared
<1>1. ev.items \in Seq(OrderLine) /\ ev.similar \in Seq(SimilarCase) /\ ev.rate \in Nat
    BY DEF EvidenceType
<1>2. return \in {0, 500, 750, 1000}
    BY <1>1, ReturnRiskRange
<1>3. alike \in Nat
    BY <1>1, SimilarRiskType
<1>4. RiskScore(p, ev, requested) = ((Clamp(total, 4000) + 2) \div 4) * 4
    BY DEF RiskScore
<1>5. mismatch \in {0, 800} /\ adjusted \in {0, 800} /\ spared \in {0, 600}
      /\ (return = 1000 => spared = 0)
    <2> HIDE DEF return
    <2> QED
        OBVIOUS
<1> HIDE DEF mismatch, adjusted, return, alike, spared
<1>6. total \in Int
    BY <1>1, <1>2, <1>3, <1>5
<1>7. Clamp(total, 4000) \in RiskScale
    <2>1. \A x \in Int : Clamp(x, 4000) \in RiskScale
        BY ClampRange
    <2> HIDE DEF total
    <2> QED
        BY <1>6, <2>1
<1>8. return = 1000 => Clamp(total, 4000) >= 1000
    BY <1>1, <1>3, <1>5, SMTT(30) DEF Clamp, UpTo
<1> HIDE DEF total
<1>9. \A x \in RiskScale : /\ ((x + 2) \div 4) * 4 \in RiskScale
                           /\ x >= 1000 => ((x + 2) \div 4) * 4 >= 1000
    BY Scales
<1>10. RiskScore(p, ev, requested) \in RiskScale
    BY <1>4, <1>7, <1>9
<1>11. return = 1000 => RiskScore(p, ev, requested) >= 1000
    BY <1>4, <1>7, <1>8, <1>9
<1> QED
    BY <1>10, <1>11 DEF return

\* The confidence lies on its scale.
LEMMA ConfidenceRange ==
    ASSUME NEW p \in FitProfile, NEW ev \in EvidenceType, NEW requested, NEW offer
    PROVE  Confidence(p, ev, requested, offer) \in Share
<1> DEFINE kept == IF KeptSize(ev.items, "SAME_SKU", requested) THEN 150 ELSE 0
           exchanged ==
             IF PreferredExchange(ev.items, MatchingReturns(ev.items, requested), offer) # NoSize
             THEN 150 ELSE 0
           n == Len(ev.similar)
<1>1. ev.strength \in Int /\ p.confidence \in Int
    <2>1. p.confidence \in Share
        BY DEF FitProfile
    <2>2. ev.strength \in Int
        BY DEF EvidenceType
    <2> QED
        BY <2>1, <2>2, Scales
<1>2. n \in Nat
    <2>1. ev.similar \in Seq(SimilarCase)
        BY DEF EvidenceType
    <2> QED
        BY <2>1
<1>3. kept \in Int /\ exchanged \in Int
    OBVIOUS
<1>4. Confidence(p, ev, requested, offer)
        = Clamp((2 * p.confidence + 2 * ev.strength + 2) \div 5 + kept + exchanged + UpTo(n, 5) * 10, 1000)
    BY DEF Confidence
<1> HIDE DEF kept, exchanged, n
<1>5. (2 * p.confidence + 2 * ev.strength + 2) \div 5 + kept + exchanged + UpTo(n, 5) * 10 \in Int
    BY <1>1, <1>2, <1>3 DEF UpTo
<1>6. \A x \in Int : Clamp(x, 1000) \in Share
    BY ClampRange
<1> QED
    BY <1>4, <1>5, <1>6

\* More of the profile's confidence, or of the cases, is never less of the answer's.
LEMMA ConfidenceGrows ==
    ASSUME NEW p \in FitProfile, NEW q \in FitProfile, p.confidence <= q.confidence,
           NEW ev \in EvidenceType, NEW cases \in Seq(SimilarCase), Len(ev.similar) <= Len(cases),
           NEW requested, NEW offer
    PROVE  Confidence(p, ev, requested, offer)
             <= Confidence(q, [ev EXCEPT !.similar = cases], requested, offer)
<1> DEFINE more == [ev EXCEPT !.similar = cases]
           kept == IF KeptSize(ev.items, "SAME_SKU", requested) THEN 150 ELSE 0
           exchanged ==
             IF PreferredExchange(ev.items, MatchingReturns(ev.items, requested), offer) # NoSize
             THEN 150 ELSE 0
           n == Len(ev.similar)
           m == Len(cases)
           low == (2 * p.confidence + 2 * ev.strength + 2) \div 5 + kept + exchanged + UpTo(n, 5) * 10
           high == (2 * q.confidence + 2 * ev.strength + 2) \div 5 + kept + exchanged + UpTo(m, 5) * 10
<1>1. /\ ev.strength \in Int /\ p.confidence \in Int /\ q.confidence \in Int
      /\ ev.similar \in Seq(SimilarCase)
    <2>1. p.confidence \in Share /\ q.confidence \in Share
        BY DEF FitProfile
    <2>2. ev.strength \in Int /\ ev.similar \in Seq(SimilarCase)
        BY DEF EvidenceType
    <2> QED
        BY <2>1, <2>2, Scales
<1>2. n \in Nat /\ m \in Nat
    BY <1>1
<1>3. kept \in Int /\ exchanged \in Int
    OBVIOUS
<1>4. more.items = ev.items /\ more.strength = ev.strength /\ more.similar = cases
    BY DEF EvidenceType
<1>5. Confidence(p, ev, requested, offer) = Clamp(low, 1000)
    BY DEF Confidence
<1>6. Confidence(q, more, requested, offer) = Clamp(high, 1000)
    <2> HIDE DEF more
    <2> QED
        BY <1>4 DEF Confidence
<1> HIDE DEF kept, exchanged, n, m, more
<1>7. (2 * p.confidence + 2 * ev.strength + 2) \div 5 <= (2 * q.confidence + 2 * ev.strength + 2) \div 5
    BY <1>1, SMTT(30)
<1>8. low \in Int /\ high \in Int /\ low <= high
    <2>1. UpTo(n, 5) * 10 <= UpTo(m, 5) * 10 /\ UpTo(n, 5) \in Int /\ UpTo(m, 5) \in Int
        BY <1>2 DEF UpTo, n, m
    <2>2. (2 * p.confidence + 2 * ev.strength + 2) \div 5 \in Int
          /\ (2 * q.confidence + 2 * ev.strength + 2) \div 5 \in Int
        BY <1>1, SMTT(30)
    <2>3. \A a, b, x, y, k, l \in Int : a <= b /\ x * 10 <= y * 10 =>
             /\ a + k + l + x * 10 \in Int /\ b + k + l + y * 10 \in Int
             /\ a + k + l + x * 10 <= b + k + l + y * 10
        OBVIOUS
    <2> QED
        BY <1>3, <1>7, <2>1, <2>2, <2>3
<1>9. Clamp(low, 1000) <= Clamp(high, 1000)
    <2> HIDE DEF low, high
    <2> QED
        BY <1>8, ClampGrows
<1> QED
    BY <1>5, <1>6, <1>9 DEF more

\* Evidence read from typed rows has its type.
LEMMA EvidenceIsTyped ==
    ASSUME NEW items \in Seq(OrderLine), NEW p,
           p.known \in BOOLEAN, p.usual \in Nat, p.adjustment \in Int
    PROVE  \A rate \in Share : /\ Evidence(items, p, rate) \in EvidenceType
                               /\ Evidence(items, p, rate).similar = <<>>
<1> DEFINE n == Len(items)
<1>1. n \in Nat /\ DOMAIN items = 1 .. n
    BY LenProperties
<1>2. ASSUME NEW S, S \subseteq 1 .. n PROVE Cardinality(S) \in Nat
    <2>1. IsFiniteSet(1 .. n)
        BY <1>1, FS_Interval
    <2>2. IsFiniteSet(S)
        BY <1>2, <2>1, FS_Subset
    <2> QED
        BY <2>2, FS_CardinalityType
<1>3. ASSUME NEW profiled \in BOOLEAN PROVE Strength(items, profiled) \in Int
    <2>1. \A level : Cardinality(Of(items, level)) \in Nat
        <3> TAKE level
        <3>1. Of(items, level) \subseteq 1 .. n
            BY <1>1 DEF Of
        <3> QED
            BY <1>2, <3>1
    <2>2. Cardinality(FitReturns(items)) \in Nat
        <3>1. FitReturns(items) \subseteq 1 .. n
            BY <1>1 DEF FitReturns
        <3> QED
            BY <1>2, <3>1
    <2>3. \A x \in Int : UpTo(x, 2) \in Int /\ UpTo(x, 3) \in Int /\ UpTo(x, 1000) \in Int
        BY DEF UpTo
    <2>4. \A level : UpTo(Cardinality(Of(items, level)), 2) \in Int
                    /\ UpTo(Cardinality(Of(items, level)), 3) \in Int
        <3> TAKE level
        <3>1. Cardinality(Of(items, level)) \in Int
            BY <2>1
        <3> HIDE DEF n
        <3> QED
            BY <3>1 DEF UpTo
    <2>5. UpTo(Cardinality(FitReturns(items)), 2) \in Int
        BY <2>2, <2>3
    <2>6. (IF profiled THEN 150 ELSE 0) \in Int
        OBVIOUS
    <2> DEFINE a == IF profiled THEN 150 ELSE 0
               b == UpTo(Cardinality(Of(items, "SAME_SKU")), 2)
               c == UpTo(Cardinality(Of(items, "SAME_BRAND")), 3)
               d == UpTo(Cardinality(Of(items, "SAME_CATEGORY")), 3)
               e == UpTo(Cardinality(FitReturns(items)), 2)
               sum == a + b * 250 + c * 70 + d * 30 + e * 25
    <2>7. Strength(items, profiled) = UpTo(sum, 1000)
        BY DEF Strength
    <2>8. a \in Int /\ b \in Int /\ c \in Int /\ d \in Int /\ e \in Int
        BY <2>4, <2>5, <2>6
    <2> HIDE DEF a, b, c, d, e
    <2>9. sum \in Int
        BY <2>8
    <2> QED
        BY <2>3, <2>7, <2>9
<1>4. <<>> \in Seq(SimilarCase)
    OBVIOUS
<1>5. Share \subseteq Nat
    BY DEF Share
<1> QED
    BY <1>3, <1>4, <1>5 DEF Evidence, EvidenceType
-----------------------------------------------------------------------------
(* The inductive invariant of the Fit agent.                               *)

AnswerType == [status : {"none", "RAISED", "PRODUCT_NOT_FOUND", "FAILED", "SUCCESS",
                         "INSUFFICIENT_EVIDENCE"},
               recommended : Nat, risk : RiskScale, band : Band, confidence : Share,
               action : Action, signals : SUBSET {"CHRONIC_FIT_RISK", "HIGH_FIT_RISK"}]

AskType == [phase : {"product", "profile", "evidence", "similar", "explain", "done"},
            requested : Nat, preferred : Nat, sizes : Seq(Nat \ {NoSize}),
            profile : FitProfile, evidence : EvidenceType, answer : AnswerType,
            stored : FitProfile, cases : Seq(SimilarCase)]

\* The answer is the one the rules give for what was read.
FollowsTheRules(a) ==
    LET d == Decide(a.profile, a.sizes, a.requested, a.evidence)
    IN /\ a.answer.recommended = d.recommended /\ a.answer.risk = d.risk
       /\ a.answer.band = d.band /\ a.answer.confidence = d.confidence
       /\ a.answer.action = d.action

\* What was read is not surer than what was stored.
ReadIsWeaker(a) ==
    /\ a.profile.confidence <= a.stored.confidence
    /\ a.evidence.similar \in {<<>>, a.cases}
    /\ a.phase = "similar" => a.evidence.similar = <<>>

FitInv ==
    /\ FitTypeOK /\ ask \in AskType
    /\ ReadIsWeaker(ask)
    /\ ask.phase = "explain" \/ Done => FollowsTheRules(ask)

\* The decision has its types, and its size is one of the product.
LEMMA DecisionIsTyped ==
    ASSUME NEW p \in FitProfile, NEW ev \in EvidenceType, NEW requested \in Nat,
           NEW offer \in Seq(Nat \ {NoSize})
    PROVE  LET d == Decide(p, offer, requested, ev) IN
           /\ d.recommended \in Nat /\ d.recommended \in ToSet(offer) \cup {NoSize}
           /\ d.risk \in RiskScale /\ d.confidence \in Share
           /\ d.band \in Band /\ d.action \in Action
           /\ Signals(d, ev) \subseteq {"CHRONIC_FIT_RISK", "HIGH_FIT_RISK"}
<1> DEFINE size == RecommendedSize(p, ev, requested, offer)
           risk == RiskScore(p, ev, requested)
           d == Decide(p, offer, requested, ev)
<1>1. size \in ToSet(offer) \cup {NoSize}
    BY RecommendedIsSold
<1>2. size \in Nat
    <2>1. ToSet(offer) \subseteq Nat
        BY DEF ToSet
    <2> QED
        BY <1>1, <2>1 DEF NoSize
<1>3. risk \in RiskScale /\ Confidence(p, ev, requested, offer) \in Share
    BY RiskRange, ConfidenceRange
<1>4. /\ d.recommended = size /\ d.risk = risk /\ d.confidence = Confidence(p, ev, requested, offer)
      /\ d.band = RiskBand(risk)
      /\ \E insufficient \in BOOLEAN :
            d.action = ActionFor(size, requested, RiskBand(risk), offer, insufficient)
    BY DEF Decide
<1>5. d.band \in Band /\ d.action \in Action
    BY <1>4 DEF RiskBand, Band, ActionFor, Action
<1>6. Signals(d, ev) \subseteq {"CHRONIC_FIT_RISK", "HIGH_FIT_RISK"}
    BY DEF Signals
<1> HIDE DEF d, size, risk
<1> QED
    BY <1>1, <1>2, <1>3, <1>4, <1>5, <1>6 DEF d

\* The decision is part of the question it answers.
LEMMA DecidedIsTyped ==
    ASSUME NEW a \in AskType
    PROVE  /\ Decided(a) \in AskType /\ FollowsTheRules(Decided(a))
           /\ Decided(a).phase = "explain" /\ Decided(a).answer.status = "none"
           /\ Decided(a).profile = a.profile /\ Decided(a).stored = a.stored
           /\ Decided(a).evidence = a.evidence /\ Decided(a).cases = a.cases
<1> DEFINE d == Decide(a.profile, a.sizes, a.requested, a.evidence)
           answer == [status |-> "none", recommended |-> d.recommended, risk |-> d.risk,
                      band |-> d.band, confidence |-> d.confidence, action |-> d.action,
                      signals |-> Signals(d, a.evidence)]
           b == [a EXCEPT !.phase = "explain", !.answer = answer]
<1>1. /\ a.profile \in FitProfile /\ a.evidence \in EvidenceType
      /\ a.requested \in Nat /\ a.sizes \in Seq(Nat \ {NoSize})
    BY DEF AskType
<1>2. /\ d.recommended \in Nat /\ d.risk \in RiskScale /\ d.confidence \in Share
      /\ d.band \in Band /\ d.action \in Action
      /\ Signals(d, a.evidence) \subseteq {"CHRONIC_FIT_RISK", "HIGH_FIT_RISK"}
    BY <1>1, DecisionIsTyped
<1>3. Decided(a) = b
    BY DEF Decided
<1> HIDE DEF d
<1>4. answer \in AnswerType
    BY <1>2 DEF AnswerType
<1>5. answer.status = "none" /\ answer.recommended = d.recommended /\ answer.risk = d.risk
      /\ answer.band = d.band /\ answer.confidence = d.confidence /\ answer.action = d.action
    OBVIOUS
<1> HIDE DEF answer
<1>6. b \in AskType /\ b.answer = answer /\ b.phase = "explain"
      /\ b.profile = a.profile /\ b.stored = a.stored /\ b.evidence = a.evidence
      /\ b.cases = a.cases /\ b.sizes = a.sizes /\ b.requested = a.requested
    BY <1>4 DEF AskType
<1> HIDE DEF b
<1>7. FollowsTheRules(b)
    BY <1>5, <1>6 DEF FollowsTheRules, d
<1> QED
    BY <1>3, <1>5, <1>6, <1>7

\* No question has been asked.
LEMMA NoAskIsTyped ==
    /\ NoAsk \in AskType /\ NoAsk.phase = "done" /\ NoAsk.answer.status = "none"
    /\ NoAsk.profile.confidence = 0 /\ NoAsk.stored.confidence = 0
    /\ NoAsk.evidence.similar = <<>>
<1> DEFINE none == [known |-> FALSE, usual |-> NoSize, adjustment |-> 0, confidence |-> 0]
           blank == [known |-> FALSE, usual |-> NoSize, adjustment |-> 0]
           ev == Evidence(<<>>, blank, 0)
<1>1. none \in FitProfile
    BY Scales DEF FitProfile, NoSize
<1>2. ev \in EvidenceType /\ ev.similar = <<>>
    <2>1. <<>> \in Seq(OrderLine)
        OBVIOUS
    <2>2. blank.known \in BOOLEAN /\ blank.usual \in Nat /\ blank.adjustment \in Int
        BY DEF NoSize
    <2> HIDE DEF blank
    <2>3. \A items \in Seq(OrderLine), rate \in Share :
             /\ Evidence(items, blank, rate) \in EvidenceType
             /\ Evidence(items, blank, rate).similar = <<>>
        BY <2>2, EvidenceIsTyped
    <2>4. 0 \in Share
        BY Scales
    <2> HIDE DEF blank
    <2> QED
        BY <2>1, <2>3, <2>4
<1>3. NoAnswer \in AnswerType /\ NoAnswer.status = "none"
    BY Scales DEF NoAnswer, AnswerType, Band, Action, NoSize
<1>4. NoAsk = [phase |-> "done", requested |-> NoSize, preferred |-> NoSize, sizes |-> <<>>,
               profile |-> none, evidence |-> ev, answer |-> NoAnswer, stored |-> none, cases |-> <<>>]
    BY DEF NoAsk
<1>5. <<>> \in Seq(Nat \ {NoSize}) /\ <<>> \in Seq(SimilarCase) /\ NoSize \in Nat
    BY DEF NoSize
<1>6. none.confidence = 0
    OBVIOUS
<1> HIDE DEF none, ev
<1> QED
    BY <1>1, <1>2, <1>3, <1>4, <1>5, <1>6 DEF AskType

\* Ending a question changes its status alone.
LEMMA AnswerIsTyped ==
    ASSUME NEW a \in AskType,
           NEW status \in {"RAISED", "PRODUCT_NOT_FOUND", "FAILED", "SUCCESS", "INSUFFICIENT_EVIDENCE"}
    PROVE  LET b == Answer(a, status) IN
           /\ b \in AskType /\ b.phase = "done" /\ b.answer.status = status
           /\ ReadIsWeaker(a) => ReadIsWeaker(b)
           /\ FollowsTheRules(a) => FollowsTheRules(b)
<1> DEFINE b == Answer(a, status)
<1>1. a.answer \in AnswerType
    BY DEF AskType
<1>2. [a.answer EXCEPT !.status = status] \in AnswerType
      /\ [a.answer EXCEPT !.status = status].status = status
    BY <1>1 DEF AnswerType
<1>3. b = [a EXCEPT !.phase = "done", !.answer = [a.answer EXCEPT !.status = status]]
    BY DEF Answer, AskType
<1>4. /\ b \in AskType /\ b.phase = "done" /\ b.answer = [a.answer EXCEPT !.status = status]
      /\ b.profile = a.profile /\ b.stored = a.stored /\ b.evidence = a.evidence
      /\ b.cases = a.cases /\ b.sizes = a.sizes /\ b.requested = a.requested
    BY <1>2, <1>3 DEF AskType
<1>5. /\ b.answer.recommended = a.answer.recommended /\ b.answer.risk = a.answer.risk
      /\ b.answer.band = a.answer.band /\ b.answer.confidence = a.answer.confidence
      /\ b.answer.action = a.answer.action
    BY <1>1, <1>4 DEF AnswerType
<1> HIDE DEF b
<1>6. ReadIsWeaker(a) => ReadIsWeaker(b)
    BY <1>4 DEF ReadIsWeaker
<1>7. FollowsTheRules(a) => FollowsTheRules(b)
    BY <1>4, <1>5 DEF FollowsTheRules
<1> QED
    BY <1>2, <1>4, <1>6, <1>7 DEF b

\* The parameters of the instance, as types.
LEMMA FitInputs ==
    /\ Profiles \subseteq FitProfile /\ Histories \subseteq Seq(OrderLine)
    /\ Others \subseteq Seq(SimilarCase) /\ \A x \in Indexes : x.cases \in Seq(SimilarCase)
    /\ Offered \subseteq Seq(Nat \ {NoSize})
    /\ Requested \subseteq Nat
    /\ AllSizes \subseteq Nat \ {NoSize}
    /\ \A p \in Profiles : ~p.known => p.confidence = 0
<1>1. AllSizes \subseteq Nat \ {NoSize}
    <2> SUFFICES ASSUME NEW s \in Offered PROVE ToSet(s) \subseteq Nat \ {NoSize}
        BY DEF AllSizes
    <2>1. s \in Seq(Nat \ {NoSize})
        BY InputsAssumption
    <2> QED
        BY <2>1 DEF ToSet
<1>2. \A x \in Indexes : x.cases \in Seq(SimilarCase)
    <2>1. <<>> \in Seq(SimilarCase)
        OBVIOUS
    <2> QED
        <3>1. \A x \in [built : {TRUE}, cases : Others] : x.cases \in Others
            OBVIOUS
        <3>2. NoIndex.cases = <<>>
            BY DEF NoIndex
        <3> QED
            BY <2>1, <3>1, <3>2, InputsAssumption DEF Indexes
<1> QED
    BY <1>1, <1>2, InputsAssumption, ProfilesAssumption

\* An index is built from the lines of somebody, or not built.
LEMMA CaseIndexIsTyped ==
    ASSUME caseIndex \in Indexes, others \in Others
    PROVE  \A i \in CaseIndex : i \in Indexes
<1>1. [built |-> TRUE, cases |-> others] \in [built : {TRUE}, cases : Others]
    OBVIOUS
<1> QED
    BY <1>1 DEF CaseIndex, Indexes

\* What FitTypeOK says of the question follows from the type of the question.
LEMMA AskFields ==
    ASSUME NEW a \in AskType
    PROVE  /\ a.phase \in {"product", "profile", "evidence", "similar", "explain", "done"}
           /\ a.answer.risk \in RiskScale /\ a.answer.confidence \in Share
           /\ a.answer.band \in Band /\ a.answer.action \in Action
           /\ a.answer.signals \subseteq {"CHRONIC_FIT_RISK", "HIGH_FIT_RISK"}
<1>1. a.answer \in AnswerType /\ a.phase \in {"product", "profile", "evidence", "similar", "explain", "done"}
    BY DEF AskType
<1> QED
    BY <1>1 DEF AnswerType

\* The invariant holds at the start.
LEMMA FitInitInv == FitInit => FitInv
<1> SUFFICES ASSUME FitInit PROVE FitInv
    OBVIOUS
<1>1. ask \in AskType /\ ask.phase = "done" /\ ask.answer.status = "none" /\ ReadIsWeaker(ask)
    BY NoAskIsTyped DEF FitInit, ReadIsWeaker
<1>2. history \in Seq(OrderLine) /\ profile \in Profiles /\ sizes \in Offered \cup {<<>>}
      /\ others \in Others /\ caseIndex \in Indexes
    BY FitInputs DEF FitInit, Indexes
<1>3. asks \in 0 .. MaxAsks /\ events \in 0 .. MaxEvents
    BY BoundsAssumption DEF FitInit
<1>4. FitTypeOK
    BY <1>1, <1>2, <1>3, AskFields DEF FitTypeOK
<1> QED
    BY <1>1, <1>4 DEF FitInv, Done

\* A step of the agent: it is enough that the question stays well made.
LEMMA AgentStep ==
    ASSUME FitInv, UNCHANGED <<facts, events>>, caseIndex' \in Indexes,
           asks' \in 0 .. MaxAsks,
           ask' \in AskType, ReadIsWeaker(ask'),
           ask'.phase = "explain" \/ Done' => FollowsTheRules(ask')
    PROVE  FitInv'
<1>1. FitTypeOK'
    <2>1. /\ history' \in Seq(OrderLine) /\ profile' \in Profiles /\ sizes' \in Offered \cup {<<>>}
          /\ others' \in Others /\ events' \in 0 .. MaxEvents
        BY DEF FitInv, FitTypeOK, facts
    <2>2. /\ ask'.phase \in {"product", "profile", "evidence", "similar", "explain", "done"}
          /\ ask'.answer.risk \in RiskScale /\ ask'.answer.confidence \in Share
          /\ ask'.answer.band \in Band /\ ask'.answer.action \in Action
          /\ ask'.answer.signals \subseteq {"CHRONIC_FIT_RISK", "HIGH_FIT_RISK"}
        BY AskFields
    <2> QED
        BY <2>1, <2>2 DEF FitTypeOK
<1> QED
    BY <1>1 DEF FitInv

\* A question begins, or is refused.
LEMMA AskFitInv ==
    ASSUME FitInv, NEW requested \in Requested, NEW preferred \in Requested,
           AskFit(requested, preferred)
    PROVE  FitInv'
<1>1. requested \in Nat /\ preferred \in Nat
    BY FitInputs
<1>2. asks' \in 0 .. MaxAsks /\ UNCHANGED <<facts, events>> /\ caseIndex' \in Indexes
    BY BoundsAssumption DEF AskFit, FitInv, FitTypeOK
<1>3. ask' \in AskType /\ ReadIsWeaker(ask') /\ ask'.phase # "explain" /\ ~Done'
    <2>1. CASE ask' = [NoAsk EXCEPT !.phase = "product", !.requested = requested, !.preferred = preferred]
        <3>1. ask' \in AskType /\ ask'.phase = "product" /\ ask'.profile = NoAsk.profile
              /\ ask'.stored = NoAsk.stored /\ ask'.evidence = NoAsk.evidence /\ ask'.cases = NoAsk.cases
            BY <1>1, <2>1, NoAskIsTyped DEF AskType
        <3> QED
            BY <3>1, NoAskIsTyped DEF ReadIsWeaker, Done
    <2>2. CASE ask' = [NoAsk EXCEPT !.requested = requested, !.answer.status = "RAISED"]
        <3>1. NoAsk.answer \in AnswerType
            BY NoAskIsTyped DEF AskType
        <3>2. [NoAsk.answer EXCEPT !.status = "RAISED"] \in AnswerType
              /\ [NoAsk.answer EXCEPT !.status = "RAISED"].status = "RAISED"
            BY <3>1 DEF AnswerType
        <3>3. ask' = [NoAsk EXCEPT !.requested = requested,
                                   !.answer = [NoAsk.answer EXCEPT !.status = "RAISED"]]
            BY <2>2, NoAskIsTyped DEF AskType
        <3>4. ask' \in AskType /\ ask'.phase = "done" /\ ask'.profile = NoAsk.profile
              /\ ask'.stored = NoAsk.stored /\ ask'.evidence = NoAsk.evidence /\ ask'.cases = NoAsk.cases
              /\ ask'.answer.status = "RAISED"
            BY <1>1, <3>2, <3>3, NoAskIsTyped DEF AskType
        <3> QED
            BY <3>4, NoAskIsTyped DEF ReadIsWeaker, Done
    <2> QED
        BY <2>1, <2>2 DEF AskFit
<1> QED
    BY <1>2, <1>3, AgentStep

\* A question that ends without a decision.
LEMMA FitFailedInv ==
    ASSUME FitInv, NEW status \in {"PRODUCT_NOT_FOUND", "FAILED"}, Set(Answer(ask, status)),
           UNCHANGED caseIndex
    PROVE  FitInv'
<1>1. ask \in AskType /\ ReadIsWeaker(ask) /\ ask' = Answer(ask, status) /\ UNCHANGED <<facts, asks, events>>
    BY DEF FitInv, Set
<1>2. ask' \in AskType /\ ReadIsWeaker(ask') /\ ask'.phase = "done" /\ ask'.answer.status = status
    BY <1>1, AnswerIsTyped
<1>3. caseIndex' \in Indexes /\ asks' \in 0 .. MaxAsks
    BY <1>1 DEF FitInv, FitTypeOK
<1> QED
    BY <1>1, <1>2, <1>3, AgentStep DEF Done

\* The product, the profile and the evidence are read one after the other.
LEMMA FitReadInv ==
    ASSUME FitInv, ReadProduct \/ ReadProfile \/ ReadEvidence
    PROVE  FitInv'
<1>1. /\ ask \in AskType /\ ReadIsWeaker(ask) /\ profile \in Profiles /\ profile \in FitProfile
      /\ sizes \in Seq(Nat \ {NoSize}) /\ history \in Seq(OrderLine) /\ UNCHANGED caseIndex
    <2>1. <<>> \in Seq(Nat \ {NoSize})
        OBVIOUS
    <2> QED
        BY <2>1, FitInputs DEF FitInv, FitTypeOK, ReadProduct, ReadProfile, ReadEvidence
<1>2. ASSUME NEW a, Set(a), a \in AskType, ReadIsWeaker(a), a.phase \notin {"explain", "done"}
      PROVE  FitInv'
    <2>1. ask' = a /\ UNCHANGED <<facts, asks, events>> /\ ~Done'
        BY <1>2 DEF Set, Done
    <2>2. caseIndex' \in Indexes /\ asks' \in 0 .. MaxAsks
        BY <1>1, <2>1 DEF FitInv, FitTypeOK
    <2> QED
        BY <1>2, <2>1, <2>2, AgentStep
<1>3. CASE ReadProduct
    <2>1. ASSUME sizes # <<>>, Set([ask EXCEPT !.phase = "profile", !.sizes = sizes])
          PROVE  FitInv'
        <3> DEFINE a == [ask EXCEPT !.phase = "profile", !.sizes = sizes]
        <3>1. a \in AskType /\ a.phase = "profile" /\ a.profile = ask.profile /\ a.stored = ask.stored
              /\ a.evidence = ask.evidence /\ a.cases = ask.cases
            BY <1>1 DEF AskType
        <3> HIDE DEF a
        <3>2. ReadIsWeaker(a)
            BY <1>1, <3>1 DEF ReadIsWeaker
        <3> QED
            BY <1>2, <2>1, <3>1, <3>2 DEF a
    <2> QED
        BY <1>1, <1>3, <2>1, FitFailedInv DEF ReadProduct
<1>4. CASE ReadProfile
    <2> DEFINE got(p) == [ask EXCEPT !.phase = "evidence", !.profile = p, !.stored = profile]
    <2>1. ASSUME NEW p \in FitProfile, p.confidence <= profile.confidence, Set(got(p))
          PROVE  FitInv'
        <3>1. got(p) \in AskType /\ got(p).phase = "evidence" /\ got(p).profile = p
              /\ got(p).stored = profile /\ got(p).evidence = ask.evidence /\ got(p).cases = ask.cases
            BY <1>1, <2>1 DEF AskType
        <3> HIDE DEF got
        <3>2. ReadIsWeaker(got(p))
            BY <1>1, <2>1, <3>1 DEF ReadIsWeaker
        <3> QED
            BY <1>2, <2>1, <3>1, <3>2
    <2>2. profile.confidence \in Share
        BY <1>1 DEF FitProfile
    <2>3. profile.confidence <= profile.confidence /\ 0 <= profile.confidence
        BY <2>2, Scales
    <2>4. Fallback(ask.preferred) \in FitProfile /\ Fallback(ask.preferred).confidence = 0
        <3>1. ask.preferred \in Nat
            BY <1>1 DEF AskType
        <3> QED
            BY <3>1, Scales DEF Fallback, FitProfile
    <2>5. Set(got(profile)) \/ Set(got(Fallback(ask.preferred)))
        BY <1>4 DEF ReadProfile
    <2> HIDE DEF got
    <2> QED
        BY <1>1, <2>1, <2>3, <2>4, <2>5
<1>5. CASE ReadEvidence
    <2> DEFINE read(rate) == [ask EXCEPT !.phase = "similar",
                                         !.evidence = Evidence(history, profile, rate)]
    <2>1. ASSUME NEW rate \in Rates, Set(read(rate)) PROVE FitInv'
        <3> DEFINE ev == Evidence(history, profile, rate)
                   a == [ask EXCEPT !.phase = "similar", !.evidence = ev]
        <3>1. ev \in EvidenceType /\ ev.similar = <<>>
            <4>1. profile.known \in BOOLEAN /\ profile.usual \in Nat /\ profile.adjustment \in Int
                BY <1>1 DEF FitProfile
            <4>2. rate \in Share
                BY InputsAssumption
            <4> QED
                BY <1>1, <4>1, <4>2, EvidenceIsTyped
        <3> HIDE DEF ev
        <3>2. a \in AskType /\ a.phase = "similar" /\ a.profile = ask.profile /\ a.stored = ask.stored
              /\ a.evidence = ev /\ a.cases = ask.cases
            BY <1>1, <3>1 DEF AskType
        <3> HIDE DEF a
        <3>3. ReadIsWeaker(a)
            BY <1>1, <3>1, <3>2 DEF ReadIsWeaker
        <3> QED
            BY <1>2, <2>1, <3>2, <3>3 DEF a, ev
    <2> QED
        BY <1>1, <1>5, <2>1, FitFailedInv DEF ReadEvidence
<1> QED
    BY <1>3, <1>4, <1>5

\* The decision: with the similar cases, or without them.
LEMMA ReadSimilarInv ==
    ASSUME FitInv, ReadSimilar
    PROVE  FitInv'
<1>1. ask \in AskType /\ ReadIsWeaker(ask) /\ ask.phase = "similar" /\ ask.evidence.similar = <<>>
    BY DEF FitInv, ReadSimilar, ReadIsWeaker
<1>2. PICK i \in CaseIndex :
        \/ /\ caseIndex' = i
           /\ Set(Decided([ask EXCEPT !.evidence.similar = i.cases, !.cases = i.cases]))
        \/ /\ UNCHANGED caseIndex
           /\ Set(Decided([ask EXCEPT !.cases = i.cases]))
    BY DEF ReadSimilar
<1>3. caseIndex \in Indexes /\ i \in Indexes /\ i.cases \in Seq(SimilarCase)
    BY CaseIndexIsTyped, FitInputs DEF FitInv, FitTypeOK
<1> DEFINE found == i.cases
           a == [ask EXCEPT !.evidence.similar = found, !.cases = found]
           b == [ask EXCEPT !.cases = found]
<1>4. ask.evidence \in EvidenceType
    BY <1>1 DEF AskType
<1>5. a \in AskType /\ ReadIsWeaker(Decided(a))
    <2> DEFINE ev == [ask.evidence EXCEPT !.similar = found]
    <2>1. ev \in EvidenceType /\ ev.similar = found
        BY <1>3, <1>4 DEF EvidenceType
    <2>2. a = [ask EXCEPT !.evidence = ev, !.cases = found]
        BY <1>1 DEF AskType
    <2> HIDE DEF ev, a, found
    <2>3. a \in AskType /\ a.profile = ask.profile /\ a.stored = ask.stored
          /\ a.evidence = ev /\ a.cases = found
        BY <1>1, <1>3, <2>1, <2>2 DEF AskType, found
    <2>4. /\ Decided(a).phase = "explain" /\ Decided(a).profile = ask.profile
          /\ Decided(a).stored = ask.stored /\ Decided(a).evidence = ev /\ Decided(a).cases = found
        BY <2>3, DecidedIsTyped
    <2> QED
        BY <1>1, <2>1, <2>3, <2>4 DEF ReadIsWeaker
<1>6. b \in AskType /\ ReadIsWeaker(Decided(b))
    <2> HIDE DEF b
    <2>1. b \in AskType /\ b.profile = ask.profile /\ b.stored = ask.stored
          /\ b.evidence = ask.evidence /\ b.cases = found
        BY <1>1, <1>3 DEF AskType, b
    <2>2. /\ Decided(b).phase = "explain" /\ Decided(b).profile = ask.profile
          /\ Decided(b).stored = ask.stored /\ Decided(b).evidence = ask.evidence
        BY <2>1, DecidedIsTyped
    <2> QED
        BY <1>1, <2>1, <2>2 DEF ReadIsWeaker
<1>7. /\ caseIndex' \in Indexes
      /\ Set(Decided(a)) \/ Set(Decided(b))
    BY <1>2, <1>3
<1> HIDE DEF a, b
<1>8. ASSUME NEW c \in AskType, ReadIsWeaker(Decided(c)), Set(Decided(c)) PROVE FitInv'
    <2>1. Decided(c) \in AskType /\ FollowsTheRules(Decided(c))
        BY DecidedIsTyped
    <2>2. ask' = Decided(c) /\ UNCHANGED <<facts, asks, events>>
        BY <1>8 DEF Set
    <2>3. asks' \in 0 .. MaxAsks
        BY <2>2 DEF FitInv, FitTypeOK
    <2> QED
        BY <1>7, <1>8, <2>1, <2>2, <2>3, AgentStep
<1> QED
    BY <1>5, <1>6, <1>7, <1>8

\* The explanation changes nothing of the decision, or loses it.
LEMMA ExplainInv ==
    ASSUME FitInv, Explain
    PROVE  FitInv'
<1>1. ask \in AskType /\ ReadIsWeaker(ask) /\ FollowsTheRules(ask) /\ UNCHANGED caseIndex
    BY DEF FitInv, Explain
<1> DEFINE lost == [ask EXCEPT !.answer = NoAnswer]
<1>2. PICK a, status : /\ Set(Answer(a, status))
                       /\ \/ a = ask /\ status \in {"SUCCESS", "INSUFFICIENT_EVIDENCE"}
                          \/ a = lost /\ status = "RAISED"
    BY DEF Explain
<1>3. ask' = Answer(a, status) /\ UNCHANGED <<facts, asks, events>>
    BY <1>2 DEF Set
<1>4. lost \in AskType /\ ReadIsWeaker(lost)
    <2>1. NoAnswer \in AnswerType
        BY NoAskIsTyped DEF AskType, NoAsk
    <2>2. lost \in AskType /\ lost.profile = ask.profile /\ lost.stored = ask.stored
          /\ lost.evidence = ask.evidence /\ lost.cases = ask.cases /\ lost.phase = ask.phase
        BY <1>1, <2>1 DEF AskType
    <2> QED
        BY <1>1, <2>2 DEF ReadIsWeaker
<1>5. /\ ask' \in AskType /\ ReadIsWeaker(ask') /\ ask'.phase = "done"
      /\ Done' => FollowsTheRules(ask')
    <2>1. CASE a = ask /\ status \in {"SUCCESS", "INSUFFICIENT_EVIDENCE"}
        BY <1>1, <1>3, <2>1, AnswerIsTyped
    <2>2. CASE a = lost /\ status = "RAISED"
        BY <1>3, <1>4, <2>2, AnswerIsTyped DEF Done
    <2> QED
        BY <1>2, <2>1, <2>2
<1>6. caseIndex' \in Indexes /\ asks' \in 0 .. MaxAsks
    BY <1>1, <1>3 DEF FitInv, FitTypeOK
<1> QED
    BY <1>3, <1>5, <1>6, AgentStep

\* Somebody else's question may build the index.
LEMMA OthersAskInv ==
    ASSUME FitInv, OthersAsk
    PROVE  FitInv'
<1>1. caseIndex' \in Indexes /\ UNCHANGED <<facts, ask, asks, events>>
    BY CaseIndexIsTyped DEF OthersAsk, FitInv, FitTypeOK
<1>2. Done' = Done
    BY <1>1 DEF Done
<1>3. asks' \in 0 .. MaxAsks
    BY <1>1 DEF FitInv, FitTypeOK
<1> QED
    BY <1>1, <1>2, <1>3, AgentStep DEF FitInv

\* Orders, returns and edits keep the types and leave the question alone.
LEMMA EventInv ==
    ASSUME FitInv, Event,
           history' \in Seq(OrderLine), profile' \in Profiles, sizes' \in Offered \cup {<<>>},
           others' \in Others
    PROVE  FitInv'
<1>1. UNCHANGED <<caseIndex, ask, asks>>
    BY DEF Event
<1>2. events' \in 0 .. MaxEvents
    BY BoundsAssumption DEF Event, FitInv, FitTypeOK
<1>3. FitTypeOK'
    BY <1>1, <1>2 DEF FitInv, FitTypeOK
<1>4. Done' = Done
    BY <1>1 DEF Done
<1> QED
    BY <1>1, <1>3, <1>4 DEF FitInv

\* Every step keeps the invariant.
LEMMA FitStepInv == FitInv /\ [FitNext]_fitVars => FitInv'
<1> SUFFICES ASSUME FitInv, [FitNext]_fitVars PROVE FitInv'
    OBVIOUS
<1>1. /\ history \in Seq(OrderLine) /\ profile \in Profiles /\ sizes \in Offered \cup {<<>>}
      /\ others \in Others
    BY DEF FitInv, FitTypeOK
<1>2. ASSUME NEW r \in Requested, NEW p \in Requested, AskFit(r, p) PROVE FitInv'
    BY <1>2, AskFitInv
<1>3. CASE FitWork
    BY <1>3, FitReadInv, ReadSimilarInv, ExplainInv DEF FitWork
<1>4. ASSUME NEW rel \in Relevance, NEW s \in AllSizes, Order(rel, s) PROVE FitInv'
    <2>1. KeptItem(rel, s) \in OrderLine
        BY FitInputs DEF KeptItem, OrderLine, NoSize
    <2>2. <<KeptItem(rel, s)>> \o history \in Seq(OrderLine)
        <3> DEFINE l == KeptItem(rel, s)
        <3> HIDE DEF l
        <3>1. l \in OrderLine
            BY <2>1 DEF l
        <3>2. <<l>> \o history \in Seq(OrderLine)
            BY <1>1, <3>1
        <3> QED
            BY <3>2 DEF l
    <2> QED
        BY <1>1, <1>4, <2>2, EventInv DEF Order
<1>5. ASSUME NEW i \in DOMAIN history, NEW reason \in {"FIT", "OTHER"}, NEW e \in AllSizes \cup {NoSize},
             Return(i, reason, e)
      PROVE  FitInv'
    <2>1. history[i] \in OrderLine /\ e \in Nat
        BY <1>1, FitInputs DEF NoSize
    <2>2. [history[i] EXCEPT !.reason = reason, !.exchange = e] \in OrderLine
        BY <2>1 DEF OrderLine
    <2>3. history' = [history EXCEPT ![i] = [history[i] EXCEPT !.reason = reason, !.exchange = e]]
        BY <1>1, <1>5, <2>1 DEF Return, OrderLine
    <2>4. history' \in Seq(OrderLine)
        BY <1>1, <2>2, <2>3
    <2> QED
        BY <1>1, <1>5, <2>4, EventInv DEF Return
<1>6. ASSUME NEW p \in Profiles, EditProfile(p) PROVE FitInv'
    BY <1>1, <1>6, EventInv DEF EditProfile
<1>7. ASSUME NEW s \in Offered \cup {<<>>}, EditProduct(s) PROVE FitInv'
    BY <1>1, <1>7, EventInv DEF EditProduct
<1>8. ASSUME NEW o \in Others, OthersOrder(o) PROVE FitInv'
    BY <1>1, <1>8, EventInv DEF OthersOrder
<1>9. CASE OthersAsk
    BY <1>9, OthersAskInv
<1>10. CASE UNCHANGED fitVars
    <2>1. /\ UNCHANGED <<history, profile, sizes, others>> /\ UNCHANGED <<caseIndex, ask, asks, events>>
        BY <1>10 DEF fitVars
    <2>2. Done' = Done
        BY <2>1 DEF Done
    <2>3. FitTypeOK'
        BY <2>1 DEF FitInv, FitTypeOK
    <2> QED
        BY <2>1, <2>2, <2>3 DEF FitInv
<1> QED
    BY <1>2, <1>3, <1>4, <1>5, <1>6, <1>7, <1>8, <1>9, <1>10 DEF FitNext

\* The invariant of the Fit agent.
LEMMA FitInvariant == FitSpec => []FitInv
BY FitInitInv, FitStepInv, PTL DEF FitSpec

-----------------------------------------------------------------------------
(* What the answers of the Fit agent promise.                              *)

\* Done means decided: the recommended size, the band and the action come
\* from the rules, over what was read.
LEMMA DoneIsDecided ==
    ASSUME FitInv, Done
    PROVE  /\ ask.profile \in FitProfile /\ ask.stored \in FitProfile /\ ask.evidence \in EvidenceType
           /\ ask.requested \in Nat /\ ask.sizes \in Seq(Nat \ {NoSize})
           /\ ask.cases \in Seq(SimilarCase)
           /\ ask.answer.recommended
                = RecommendedSize(ask.profile, ask.evidence, ask.requested, ask.sizes)
           /\ ask.answer.risk = RiskScore(ask.profile, ask.evidence, ask.requested)
           /\ ask.answer.band = RiskBand(ask.answer.risk)
           /\ ask.answer.confidence
                = Confidence(ask.profile, ask.evidence, ask.requested, ask.sizes)
           /\ \E insufficient \in BOOLEAN :
                 /\ ask.answer.recommended = NoSize => insufficient
                 /\ ask.answer.action = ActionFor(ask.answer.recommended, ask.requested,
                                                  ask.answer.band, ask.sizes, insufficient)
<1>1. ask \in AskType /\ FollowsTheRules(ask)
    BY DEF FitInv
<1>2. /\ ask.profile \in FitProfile /\ ask.stored \in FitProfile /\ ask.evidence \in EvidenceType
      /\ ask.requested \in Nat /\ ask.sizes \in Seq(Nat \ {NoSize})
      /\ ask.cases \in Seq(SimilarCase)
    BY <1>1 DEF AskType
<1> DEFINE d == Decide(ask.profile, ask.sizes, ask.requested, ask.evidence)
           insufficient == \/ d.recommended = NoSize
                           \/ /\ ask.evidence.strength < 200
                              /\ ask.evidence.similar = <<>> /\ ask.profile.usual = NoSize
<1>3. /\ d.recommended = RecommendedSize(ask.profile, ask.evidence, ask.requested, ask.sizes)
      /\ d.risk = RiskScore(ask.profile, ask.evidence, ask.requested)
      /\ d.band = RiskBand(d.risk)
      /\ d.confidence = Confidence(ask.profile, ask.evidence, ask.requested, ask.sizes)
      /\ d.action = ActionFor(d.recommended, ask.requested, d.band, ask.sizes, insufficient)
    BY DEF Decide
<1>4. /\ ask.answer.recommended = d.recommended /\ ask.answer.risk = d.risk
      /\ ask.answer.band = d.band /\ ask.answer.confidence = d.confidence
      /\ ask.answer.action = d.action
    BY <1>1 DEF FollowsTheRules
<1>5. insufficient \in BOOLEAN /\ (d.recommended = NoSize => insufficient)
    OBVIOUS
<1> HIDE DEF d, insufficient
<1> QED
    BY <1>2, <1>3, <1>4, <1>5

\* Scores and types, and an advice that can be followed: a size of the
\* product, confirmed only if it is the one asked for and not risky.
THEOREM AdviceSound == FitSpec => []AdviceIsSound
<1>1. FitInv => AdviceIsSound
    <2> SUFFICES ASSUME FitInv, Done PROVE AdviceIsUsable
        BY DEF AdviceIsSound, FitInv, AdviceIsUsable
    <2>1. ask.answer.recommended \in ToSet(ask.sizes) \cup {NoSize}
        BY DoneIsDecided, RecommendedIsSold
    <2>2. PICK insufficient \in BOOLEAN :
            /\ ask.answer.recommended = NoSize => insufficient
            /\ ask.answer.action = ActionFor(ask.answer.recommended, ask.requested,
                                             ask.answer.band, ask.sizes, insufficient)
        BY DoneIsDecided
    <2>3. ASSUME ask.answer.action = "CONFIRM_SIZE"
          PROVE  /\ ask.answer.recommended # NoSize /\ ask.answer.band # "HIGH"
                 /\ ask.requested \in {NoSize, ask.answer.recommended}
        BY <2>2, <2>3 DEF ActionFor
    <2> QED
        BY <2>1, <2>3 DEF AdviceIsUsable
<1> QED
    BY <1>1, FitInvariant, PTL

\* Other customers, returns for other reasons and distant products have no
\* more say than the design gives them.
THEOREM EvidenceHasItsSay == FitSpec => []EvidenceDecides
<1>1. ASSUME FitInv, Done PROVE VectorsSupplement
    BY <1>1, DoneIsDecided, OwnEvidenceFirst DEF VectorsSupplement
<1>2. ASSUME FitInv, Done PROVE NonFitReturnsDoNotSize
    <2> DEFINE items == ask.evidence.items
               fit == Only(items, {i \in DOMAIN items : items[i].reason # "OTHER"})
    <2>1. ask.evidence \in EvidenceType
          /\ ask.answer.recommended
               = RecommendedSize(ask.profile, ask.evidence, ask.requested, ask.sizes)
        BY <1>2, DoneIsDecided
    <2>2. RecommendedSize(ask.profile, ask.evidence, ask.requested, ask.sizes)
            = RecommendedSize(ask.profile, [ask.evidence EXCEPT !.items = fit], ask.requested, ask.sizes)
        BY <2>1, OtherReturnsAreSilent
    <2> HIDE DEF fit
    <2>3. ask.answer.recommended
            = RecommendedSize(ask.profile, [ask.evidence EXCEPT !.items = fit], ask.requested, ask.sizes)
        BY <2>1, <2>2
    <2> QED
        BY <2>3 DEF NonFitReturnsDoNotSize, fit
<1>3. ASSUME FitInv, Done PROVE NearestLevelDecidesRisk
    <2> DEFINE items == ask.evidence.items
               near(levels) == Only(items, {i \in DOMAIN items : items[i].relevance \in levels})
               knows(level) == \E i \in Of(items, level) :
                                  items[i].size = ask.requested /\ items[i].reason # "OTHER"
               riskOf(levels) ==
                  RiskScore(ask.profile, [ask.evidence EXCEPT !.items = near(levels)], ask.requested)
    <2>1. /\ ask.profile \in FitProfile /\ ask.evidence \in EvidenceType /\ items \in Seq(OrderLine)
          /\ ask.requested \in Nat
          /\ ask.answer.risk = RiskScore(ask.profile, ask.evidence, ask.requested)
        BY <1>3, DoneIsDecided DEF EvidenceType
    <2>2. ASSUME NEW lines, ReturnRisk(lines, ask.requested) = ReturnRisk(items, ask.requested),
                 KeptSize(lines, "SAME_SKU", ask.requested) = KeptSize(items, "SAME_SKU", ask.requested)
          PROVE  RiskScore(ask.profile, [ask.evidence EXCEPT !.items = lines], ask.requested)
                   = ask.answer.risk
        <3> DEFINE ev == [ask.evidence EXCEPT !.items = lines]
        <3>1. /\ ev.items = lines /\ ev.usual = ask.evidence.usual /\ ev.rate = ask.evidence.rate
              /\ ev.adjustment = ask.evidence.adjustment /\ ev.similar = ask.evidence.similar
            BY <2>1 DEF EvidenceType
        <3> HIDE DEF ev
        <3>2. Usual(ask.profile, ev) = Usual(ask.profile, ask.evidence)
            BY <3>1 DEF Usual
        <3>3. RiskScore(ask.profile, ev, ask.requested)
                = RiskScore(ask.profile, ask.evidence, ask.requested)
            BY <2>2, <3>1, <3>2 DEF RiskScore
        <3> QED
            BY <2>1, <3>3 DEF ev
    <2>3. ASSUME NEW levels, levels \subseteq Relevance, "SAME_SKU" \in levels,
                 NEW level \in levels, level \in {"SAME_SKU", "SAME_BRAND"}, knows(level)
          PROVE  ask.answer.risk = riskOf(levels)
        <3>1. PICK i \in Of(items, level) : items[i].size = ask.requested /\ items[i].reason # "OTHER"
            BY <2>3
        <3>2. /\ ReturnRisk(near(levels), ask.requested) = ReturnRisk(items, ask.requested)
              /\ KeptSize(near(levels), "SAME_SKU", ask.requested)
                   = KeptSize(items, "SAME_SKU", ask.requested)
            <4> HIDE DEF items
            <4> QED
                BY <2>1, <2>3, <3>1, NearLinesDecide
        <3> HIDE DEF near, items
        <3> QED
            BY <2>2, <3>2
    <2>4. knows("SAME_SKU") => ask.answer.risk = riskOf({"SAME_SKU"})
        <3> HIDE DEF knows, riskOf
        <3> QED
            BY <2>3 DEF Relevance
    <2>5. knows("SAME_BRAND") => ask.answer.risk = riskOf({"SAME_SKU", "SAME_BRAND"})
        <3> HIDE DEF knows, riskOf
        <3> QED
            BY <2>3 DEF Relevance
    <2>6. (\E i \in FitReturns(items) \cap Of(items, "SAME_SKU") : items[i].size = ask.requested)
            => ask.answer.risk >= 1000
        <3> SUFFICES ASSUME NEW i \in FitReturns(items) \cap Of(items, "SAME_SKU"),
                            items[i].size = ask.requested
                     PROVE  ask.answer.risk >= 1000
            OBVIOUS
        <3>1. items[i] \in OrderLine
            BY <2>1 DEF Of
        <3>2. ask.requested # NoSize
            BY <3>1 DEF OrderLine
        <3>3. ReturnsOf(items, "SAME_SKU", ask.requested) # {}
            BY <3>2 DEF ReturnsOf
        <3>4. ReturnRisk(items, ask.requested) = 1000
            BY <2>1, <3>3, ReturnRiskRange
        <3> QED
            BY <2>1, <3>4, RiskRange
    <2> QED
        BY <2>4, <2>5, <2>6 DEF NearestLevelDecidesRisk
<1>4. FitInv => EvidenceDecides
    BY <1>1, <1>2, <1>3
       DEF EvidenceDecides, VectorsSupplement, NonFitReturnsDoNotSize, NearestLevelDecidesRisk
<1> QED
    BY <1>4, FitInvariant, PTL

\* An answer that fell back is never surer than the one all tools give.
THEOREM FallbackIsWeaker == FitSpec => []MissingIsWeaker
<1>1. FitInv => MissingIsWeaker
    <2> SUFFICES ASSUME FitInv, Done PROVE MissingIsWeaker
        BY DEF MissingIsWeaker
    <2> DEFINE full == [ask.evidence EXCEPT !.similar = ask.cases]
    <2>1. ReadIsWeaker(ask)
        BY DEF FitInv
    <2>2. Len(ask.evidence.similar) <= Len(ask.cases)
        <3>1. ask.cases \in Seq(SimilarCase)
            BY DoneIsDecided
        <3>2. Len(ask.cases) \in Nat /\ Len(<<>>) = 0
            BY <3>1
        <3> QED
            BY <2>1, <3>2 DEF ReadIsWeaker
    <2>3. ask.answer.confidence <= Confidence(ask.stored, full, ask.requested, ask.sizes)
        BY <2>1, <2>2, DoneIsDecided, ConfidenceGrows DEF ReadIsWeaker
    <2>4. Decide(ask.stored, ask.sizes, ask.requested, full).confidence
            = Confidence(ask.stored, full, ask.requested, ask.sizes)
        BY DEF Decide
    <2> HIDE DEF full
    <2> QED
        BY <2>3, <2>4 DEF MissingIsWeaker, full
<1> QED
    BY <1>1, FitInvariant, PTL
-----------------------------------------------------------------------------
(* Ranking and retrieval of products.                                      *)

\* Products are finitely many numbers.
LEMMA ProductFacts ==
    /\ Sku \subseteq Nat /\ IsFiniteSet(Sku) /\ Limit \in Nat \ {0}
    /\ \A s \in Sku : Similarity[s] \in Int /\ s \in Int
    /\ Context.sensitivity \in Nat /\ Context.affinity \in Nat
BY DiscoveryAssumption

\* A score is a number, whatever the facts of a row say.
LEMMA TotalIsNumber ==
    ASSUME NEW s \in Sku, NEW p \in Rows, NEW c, NEW semantic
    PROVE  Total(s, p, c, semantic) \in Int
<1>1. p.price \in Int
    BY CatalogueAssumption DEF NoPrice
<1>2. \A value, exact, preferred : Preference(value, exact, preferred) \in Int
    BY DEF Preference
<1>3. SegmentScore(p) \in Int
    BY DEF SegmentScore, Points
<1>4. PriceScore(p, c) \in Int
    <2> DEFINE affordable == IF p.price >= 500 THEN 0 ELSE 100 - p.price \div 5
               a == Context.sensitivity
               b == Context.affinity
               weight == a + b
               value == TierValue(p)
    <2>1. a \in Nat /\ b \in Nat
        BY ProductFacts
    <2>2. affordable \in Int
        BY <1>1
    <2>3. value \in Int
        BY DEF TierValue
    <2>4. PriceScore(p, c) = IF p.price = NoPrice THEN 0
                             ELSE IF {c.min, c.max} # {NoPrice} THEN 100
                             ELSE IF weight = 0 THEN 50
                             ELSE (a * affordable + b * value) \div weight
        BY DEF PriceScore
    <2> HIDE DEF affordable, a, b, value
    <2>5. weight \in Nat /\ a * affordable + b * value \in Int
        BY <2>1, <2>2, <2>3
    <2> HIDE DEF weight
    <2>6. \A x \in Int, y \in Nat : y # 0 => x \div y \in Int
        OBVIOUS
    <2> QED
        BY <2>4, <2>5, <2>6
<1>5. Similarity[s] \in Int
    BY ProductFacts
<1> DEFINE o == Preference(p.occasion, {c.occasion} \ {None}, Context.occasions)
           y == Preference(p.style, c.styles, Context.styles)
           k == Preference(p.color, c.colors, Context.colors)
           near == IF semantic THEN Similarity[s] ELSE 0
           g == SegmentScore(p)
           m == PriceScore(p, c)
<1>6. o \in Int /\ y \in Int /\ k \in Int /\ near \in Int /\ g \in Int /\ m \in Int
    BY <1>2, <1>3, <1>4, <1>5
<1>7. Total(s, p, c, semantic) = 25 * o + 15 * y + 10 * k + 20 * g + 10 * m + 15 * near + 5 * 100
    BY DEF Total
<1> HIDE DEF o, y, k, near, g, m
<1> QED
    BY <1>6, <1>7

\* Score, then price, then SKU: a strict total order, also of rows without a price.
LEMMA OutranksOrders ==
    ASSUME NEW S, S \subseteq Sku, NEW d, \A s \in S : d[s] \in Rows, NEW c,
           NEW semantic
    PROVE  Orders({p \in S \X S : Outranks(p[1], p[2], d, c, semantic)}, S)
<1> DEFINE before == {p \in S \X S : Outranks(p[1], p[2], d, c, semantic)}
           total(s) == Total(s, d[s], c, semantic)
<1>1. ASSUME NEW s \in S PROVE total(s) \in Int /\ d[s].price \in Int /\ s \in Int
                               /\ (d[s].price = NoPrice \/ d[s].price \in Nat)
    <2>1. s \in Sku /\ d[s] \in Rows
        OBVIOUS
    <2>2. total(s) \in Int
        BY <2>1, TotalIsNumber
    <2>3. d[s].price \in Nat \cup {NoPrice} /\ s \in Int
        BY <2>1, CatalogueAssumption, ProductFacts
    <2> QED
        BY <2>2, <2>3 DEF NoPrice
<1>2. \A s, t \in S : <<s, t>> \in before <=> Outranks(s, t, d, c, semantic)
    OBVIOUS
<1>3. \A s, t \in S : Outranks(s, t, d, c, semantic) <=>
        \/ total(s) > total(t)
        \/ /\ total(s) = total(t)
           /\ \/ d[s].price # NoPrice /\ (d[t].price = NoPrice \/ d[s].price < d[t].price)
              \/ d[s].price = d[t].price /\ s < t
    BY DEF Outranks, Cheaper
<1> HIDE DEF before, total
<1>4. \A s \in S : <<s, s>> \notin before
    BY <1>1, <1>2, <1>3
<1>5. ASSUME NEW x \in S, NEW y \in S, NEW z \in S, <<x, y>> \in before, <<y, z>> \in before
      PROVE  <<x, z>> \in before
    <2>1. Outranks(x, y, d, c, semantic) /\ Outranks(y, z, d, c, semantic)
        BY <1>2, <1>5
    <2>2. Outranks(x, z, d, c, semantic)
        BY <1>1, <1>3, <2>1
    <2> QED
        BY <1>2, <2>2
<1>6. ASSUME NEW x \in S, NEW y \in S, x # y
      PROVE  <<x, y>> \in before \/ <<y, x>> \in before
    BY <1>1, <1>2, <1>3, <1>6
<1> QED
    BY <1>4, <1>5, <1>6 DEF Orders, before

\* The first n of a list, and the rest.
LEMMA FirstOfList ==
    ASSUME NEW S, NEW m \in Nat, NEW q \in [1 .. m -> S], NEW n \in Nat
    PROVE  LET l == First(n, q) IN
           /\ l \in Seq(S) /\ Len(l) <= n /\ Len(l) <= m
           /\ \A i \in 1 .. Len(l) : l[i] = q[i]
           /\ Len(l) < m => Len(l) = n
<1>1. q \in Seq(S) /\ Len(q) = m
    OBVIOUS
<1>2. CASE m <= n
    <2>1. First(n, q) = q
        BY <1>1, <1>2 DEF First
    <2> QED
        BY <1>1, <1>2, <2>1
<1>3. CASE n < m
    <2>1. First(n, q) = SubSeq(q, 1, n)
        BY <1>1, <1>3 DEF First
    <2>2. SubSeq(q, 1, n) \in Seq(S) /\ Len(SubSeq(q, 1, n)) = n
          /\ \A i \in 1 .. n : SubSeq(q, 1, n)[i] = q[i]
        BY <1>1, <1>3
    <2> QED
        BY <1>3, <2>1, <2>2
<1> QED
    BY <1>2, <1>3

\* The list an answer shows of the eligible products S: the best ones, and
\* the rest only if it is full.
LEMMA BestAreShown ==
    ASSUME NEW S, S \subseteq Sku, NEW d, \A s \in S : d[s] \in Rows, NEW c,
           NEW semantic, NEW n \in Nat
    PROVE  LET l == First(n, Ranked(S, d, c, semantic)) IN
           /\ l \in Seq(S) /\ Len(l) <= n
           /\ \A i, j \in DOMAIN l : i < j => Outranks(l[i], l[j], d, c, semantic)
           /\ \A s \in S \ ToSet(l) :
                 Len(l) = n /\ \A t \in ToSet(l) : Outranks(t, s, d, c, semantic)
           /\ Ranked(S, d, c, semantic) = <<>> => S = {} /\ l = <<>>
<1> DEFINE before == {p \in S \X S : Outranks(p[1], p[2], d, c, semantic)}
           q == Ranked(S, d, c, semantic)
           l == First(n, q)
           m == Cardinality(S)
<1>1. IsFiniteSet(S)
    BY ProductFacts, FS_Subset
<1>2. Orders(before, S)
    BY OutranksOrders
<1>3. /\ m \in Nat /\ q \in [1 .. m -> S]
      /\ \A i, j \in 1 .. m : i < j => <<q[i], q[j]>> \in before
      /\ \A x \in S : \E i \in 1 .. m : q[i] = x
    <2> HIDE DEF before
    <2>1. q = SortedBy(S, before)
        BY DEF Ranked, before
    <2> HIDE DEF q
    <2> QED
        BY <1>1, <1>2, <2>1, SortedByIsSorted
<1>4. \A i, j \in 1 .. m : i < j => Outranks(q[i], q[j], d, c, semantic)
    BY <1>3
<1> HIDE DEF before, q, m
<1>5. /\ l \in Seq(S) /\ Len(l) <= n /\ Len(l) <= m
      /\ \A i \in 1 .. Len(l) : l[i] = q[i]
      /\ Len(l) < m => Len(l) = n
    BY <1>3, FirstOfList
<1> DEFINE k == Len(l)
<1>6. DOMAIN l = 1 .. k /\ k \in Nat /\ k <= m /\ (k < m => k = n) /\ \A i \in 1 .. k : l[i] = q[i]
    BY <1>5
<1> HIDE DEF l, k
<1>7. \A i, j \in DOMAIN l : i < j => Outranks(l[i], l[j], d, c, semantic)
    <2> TAKE i, j \in DOMAIN l
    <2> HAVE i < j
    <2>1. i \in 1 .. m /\ j \in 1 .. m /\ l[i] = q[i] /\ l[j] = q[j]
        BY <1>3, <1>6
    <2> QED
        BY <1>4, <2>1
<1>8. ASSUME NEW s \in S \ ToSet(l)
      PROVE  k = n /\ \A t \in ToSet(l) : Outranks(t, s, d, c, semantic)
    <2>1. PICK j \in 1 .. m : q[j] = s
        BY <1>3
    <2>2. j > k
        <3> SUFFICES ASSUME j <= k PROVE FALSE
            BY <1>3, <1>6
        <3>1. j \in DOMAIN l /\ l[j] = s
            BY <1>3, <1>6, <2>1
        <3> QED
            BY <3>1 DEF ToSet
    <2>3. k = n
        BY <1>3, <1>6, <2>2
    <2>4. ASSUME NEW t \in ToSet(l) PROVE Outranks(t, s, d, c, semantic)
        <3>1. PICK i \in DOMAIN l : t = l[i]
            BY DEF ToSet
        <3>2. i \in 1 .. m /\ i < j /\ t = q[i]
            BY <1>3, <1>6, <2>2, <3>1
        <3> QED
            BY <1>4, <2>1, <3>2
    <2> QED
        BY <2>3, <2>4
<1>9. ASSUME q = <<>> PROVE S = {} /\ l = <<>>
    <2>1. m = 0
        <3>1. Len(q) = m
            BY <1>3
        <3> QED
            BY <1>9, <3>1
    <2>2. S = {}
        BY <1>3, <2>1
    <2>3. Len(l) = 0
        <3>1. k = 0
            BY <1>6, <2>1
        <3> QED
            BY <3>1 DEF k
    <2> QED
        BY <1>5, <2>2, <2>3
<1>10. k <= n
    BY <1>5 DEF k
<1> QED
    BY <1>5, <1>7, <1>8, <1>9, <1>10 DEF l, q, k

\* A cut that is not reached cuts nothing: every element of a small set has
\* fewer than Limit others before it.
LEMMA NothingIsCut ==
    ASSUME NEW S, S \subseteq Sku, NEW s \in S, NEW T, T \subseteq S \ {s},
           Cardinality(S) <= Limit
    PROVE  Cardinality(T) < Limit
<1>1. IsFiniteSet(S)
    BY ProductFacts, FS_Subset
<1>2. IsFiniteSet(S \ {s}) /\ Cardinality(S \ {s}) = Cardinality(S) - 1
    BY <1>1, FS_RemoveElement
<1>3. Cardinality(T) <= Cardinality(S \ {s}) /\ IsFiniteSet(T)
    BY <1>2, FS_Subset
<1>4. Cardinality(S) \in Nat /\ Cardinality(T) \in Nat
    BY <1>1, <1>3, FS_CardinalityType
<1> QED
    BY <1>2, <1>3, <1>4, ProductFacts

\* A query with room for all its matches loses none.
LEMMA SearchIsWhole ==
    ASSUME NEW rows, NEW c, Cardinality({s \in Sku : Fits(rows[s], c)}) <= Limit
    PROVE  Search(rows, c) = {s \in Sku : Fits(rows[s], c)}
<1> DEFINE fit == {s \in Sku : Fits(rows[s], c)}
<1>1. \A s \in fit : Cardinality({t \in fit : t < s}) < Limit
    <2> TAKE s \in fit
    <2>1. fit \subseteq Sku /\ {t \in fit : t < s} \subseteq fit \ {s}
        <3>1. s \in Int
            BY ProductFacts
        <3>2. ~(s < s)
            BY <3>1
        <3> QED
            BY <3>2
    <2> HIDE DEF fit
    <2>2. Cardinality(fit) <= Limit
        BY DEF fit
    <2> QED
        BY <2>1, <2>2, NothingIsCut
<1> QED
    BY <1>1 DEF Search

\* A vector search whose documents are few loses none of the similar ones.
LEMMA NearestIsWhole ==
    ASSUME NEW documents, DOMAIN documents \subseteq Sku, NEW filter,
           Cardinality({s \in Sku : Similarity[s] > 0}) <= Limit,
           NEW s \in DOMAIN documents, Similarity[s] > 0,
           \A f \in Indexed : filter[f] \in {None, documents[s][f]}
    PROVE  s \in Nearest(documents, filter)
<1> DEFINE similar == {t \in Sku : Similarity[t] > 0}
           near == {t \in DOMAIN documents : Similarity[t] > 0
                       /\ \A f \in Indexed : filter[f] \in {None, documents[t][f]}}
           T == {t \in near : Closer(t, s)}
<1>1. s \in near /\ s \in similar /\ near \subseteq similar /\ similar \subseteq Sku
    OBVIOUS
<1>2. ~Closer(s, s)
    <2>1. Similarity[s] \in Int /\ s \in Int
        BY ProductFacts
    <2> QED
        BY <2>1 DEF Closer
<1>3. T \subseteq similar \ {s}
    BY <1>1, <1>2
<1>4. Cardinality(similar) <= Limit
    OBVIOUS
<1>5. Cardinality(T) < Limit
    <2> HIDE DEF similar, T
    <2> QED
        BY <1>1, <1>3, <1>4, NothingIsCut
<1> QED
    BY <1>1, <1>5 DEF Nearest
-----------------------------------------------------------------------------
(* The inductive invariant of a discovery request.                         *)

\* A request is a record of these fields.
Fields == {"step", "c", "strategy", "selected", "size", "filter", "matches", "details",
           "available", "status", "result", "edited"}
Shape(r) == r = [f \in Fields |-> r[f]]

Step == {"idle", "retrieve", "nearest", "details", "inventory", "rank"}
Status == {None, "SUCCESS", "NO_RESULTS", "FAILED", "raised"}

\* How far a request has come.
Matched(r) == r.step \in {"details", "inventory", "rank"} \/ r.status \in {"SUCCESS", "NO_RESULTS"}
Described(r) == r.step \in {"inventory", "rank"} \/ r.status \in {"SUCCESS", "NO_RESULTS"}
Stocked(r) == r.step = "rank" \/ r.status \in {"SUCCESS", "NO_RESULTS"}

\* Rows, stock and their histories.
StoreInv ==
    /\ product \in [Sku -> Rows] /\ stock \subseteq Sku /\ stock \subseteq stocked
    /\ held \in [Sku -> SUBSET Rows] /\ \A s \in Sku : product[s] \in held[s]
    /\ DOMAIN index \subseteq Sku
    /\ edits \in 0 .. MaxEdits /\ requests \in 0 .. MaxRequests

\* What a request has read was so at some moment since it began.
ReadInv(r) ==
    /\ Shape(r) /\ r.step \in Step /\ r.status \in Status /\ r.size \in Nat \ {0}
    /\ r.step # "idle" => r.status = None
    /\ r.matches \subseteq Sku /\ r.available \subseteq r.matches \cap stocked
    /\ DOMAIN r.details \subseteq r.matches /\ \A s \in DOMAIN r.details : r.details[s] \in held[s]
    /\ r.step \in {"retrieve", "nearest"} => r.matches = {}
    /\ r.step = "details" => DOMAIN r.details = {} /\ r.strategy # "STRUCTURED"
    /\ r.step = "nearest" => r.strategy \notin {"STRUCTURED", "SEMANTIC", "HYBRID"}
    /\ r.step \in {"details", "inventory"} => r.available = {}
    /\ Described(r) => DOMAIN r.details = r.matches
    /\ r.strategy \in {"SEMANTIC", "HYBRID"} => \A f \in Indexed : r.filter[f] = r.c[f]

\* The result is the best of what is eligible.
ShownInv(r) ==
    /\ r.status = "SUCCESS" =>
         r.result = First(r.size, Ranked(Eligible(r), r.details, r.c, IsSemantic(r)))
    /\ r.status = "NO_RESULTS" => Eligible(r) = {}
    /\ r.status # "SUCCESS" => r.result = <<>>

\* While nothing is edited, what was read is what is stored.
StillInv(r) ==
    ~r.edited =>
      /\ \A s \in DOMAIN r.details : r.details[s] = product[s]
      /\ Stocked(r) => r.available = stock \cap r.matches
      /\ Matched(r) /\ r.strategy = "STRUCTURED" => r.matches = Search(product, r.c)
      /\ Matched(r) /\ r.strategy \in {"SEMANTIC", "HYBRID"} =>
           r.matches = Nearest(index, r.filter) \ {r.selected}

SearchInv == StoreInv /\ ReadInv(req) /\ ShownInv(req) /\ StillInv(req)

-----------------------------------------------------------------------------
(* The beginning of a request.                                             *)

\* The fields of no request.
LEMMA IdleFields ==
    /\ Shape(Idle) /\ Idle.step = "idle" /\ Idle.status = None /\ Idle.result = <<>>
    /\ Idle.matches = {} /\ DOMAIN Idle.details = {} /\ Idle.available = {} /\ Idle.size = 1
    /\ Idle.strategy = None /\ Idle.edited = FALSE /\ Idle.c = NoCriteria /\ Idle.selected = NoSku
<1>1. Shape(Idle)
    BY DEF Shape, Fields, Idle
<1>2. /\ Idle.step = "idle" /\ Idle.status = None /\ Idle.result = <<>>
      /\ Idle.matches = {} /\ Idle.details = Empty /\ Idle.available = {} /\ Idle.size = 1
      /\ Idle.strategy = None /\ Idle.edited = FALSE /\ Idle.c = NoCriteria /\ Idle.selected = NoSku
    BY DEF Idle
<1>3. DOMAIN Empty = {}
    BY DEF Empty
<1> QED
    BY <1>1, <1>2, <1>3

\* A request for n products begins, or an empty price range ends it at once.
Begins(r, c, n) ==
    /\ Shape(r) /\ r.size = n /\ r.c = c /\ r.result = <<>>
    /\ r.matches = {} /\ DOMAIN r.details = {} /\ r.available = {} /\ ~r.edited
    /\ \/ r.step = "idle" /\ r.status = "raised" /\ r.strategy = None
       \/ r.step = "retrieve" /\ r.status = None /\ r.filter = [f \in Indexed |-> c[f]]
-----------------------------------------------------------------------------
(* Every step keeps the invariant.                                         *)

store == <<product, stock, index, held, stocked, edits, requests>>

\* A step that only changes the request keeps what the new request satisfies.
LEMMA Unmoved ==
    ASSUME StoreInv, UNCHANGED store, NEW b, req' = b, ReadInv(b), ShownInv(b), StillInv(b)
    PROVE  SearchInv'
<1>1. StoreInv'
    BY DEF StoreInv, store
<1>2. ReadInv(req)'
    BY DEF ReadInv, store, Described
<1>3. ShownInv(req)'
    BY DEF ShownInv, store
<1>4. StillInv(req)'
    BY DEF StillInv, store, Stocked, Matched
<1> QED
    BY <1>1, <1>2, <1>3, <1>4 DEF SearchInv

\* What is eligible depends on what was read and not on how far the request is.
LEMMA SameEligible ==
    ASSUME NEW r, NEW b, b.matches = r.matches, b.available = r.available,
           b.details = r.details, b.c = r.c
    PROVE  Eligible(b) = Eligible(r)
BY DEF Eligible

\* A failed request has no result.
LEMMA FailedInv ==
    ASSUME SearchInv, Running, Finish("FAILED", <<>>), UNCHANGED store
    PROVE  SearchInv'
<1> DEFINE r == req
           b == [r EXCEPT !.step = "idle", !.status = "FAILED", !.result = <<>>]
<1>1. Shape(r) /\ ReadInv(r) /\ StillInv(r) /\ req' = b
    BY DEF SearchInv, ReadInv, Finish, Go
<1>2. /\ Shape(b)
      /\ b.step = "idle" /\ b.status = "FAILED" /\ b.result = <<>>
      /\ b.c = r.c /\ b.strategy = r.strategy /\ b.selected = r.selected /\ b.size = r.size
      /\ b.filter = r.filter /\ b.matches = r.matches /\ b.details = r.details
      /\ b.available = r.available /\ b.edited = r.edited
    BY <1>1 DEF Shape, Fields
<1> HIDE DEF b, r
<1>3. ReadInv(b)
    BY <1>1, <1>2 DEF ReadInv, Step, Status, Described
<1>4. ShownInv(b)
    BY <1>2 DEF ShownInv
<1>5. StillInv(b)
    BY <1>1, <1>2 DEF StillInv, Stocked, Matched
<1> QED
    BY <1>1, <1>3, <1>4, <1>5, Unmoved DEF SearchInv

\* A request ends with an answer once it knows the matches, their rows and
\* which of them are in stock.
LEMMA AnsweredInv ==
    ASSUME SearchInv, NEW status \in {"SUCCESS", "NO_RESULTS"}, NEW list,
           Finish(status, list), UNCHANGED store,
           DOMAIN req.details = req.matches,
           ~req.edited => req.available = stock \cap req.matches,
           ~req.edited /\ req.strategy = "STRUCTURED" => req.matches = Search(product, req.c),
           ~req.edited /\ req.strategy \in {"SEMANTIC", "HYBRID"} =>
               req.matches = Nearest(index, req.filter) \ {req.selected},
           status = "SUCCESS" =>
               list = First(req.size, Ranked(Eligible(req), req.details, req.c, IsSemantic(req))),
           status = "NO_RESULTS" => Eligible(req) = {} /\ list = <<>>
    PROVE  SearchInv'
<1> DEFINE r == req
           b == [r EXCEPT !.step = "idle", !.status = status, !.result = list]
<1>1. Shape(r) /\ ReadInv(r) /\ StillInv(r) /\ req' = b
    BY DEF SearchInv, ReadInv, Finish, Go
<1>2. /\ Shape(b)
      /\ b.step = "idle" /\ b.status = status /\ b.result = list
      /\ b.c = r.c /\ b.strategy = r.strategy /\ b.selected = r.selected /\ b.size = r.size
      /\ b.filter = r.filter /\ b.matches = r.matches /\ b.details = r.details
      /\ b.available = r.available /\ b.edited = r.edited
    BY <1>1 DEF Shape, Fields
<1>3. Eligible(b) = Eligible(r) /\ IsSemantic(b) = IsSemantic(r)
    <2> HIDE DEF b
    <2> QED
        BY <1>2, SameEligible DEF IsSemantic
<1> HIDE DEF b
<1>4. ReadInv(b)
    BY <1>1, <1>2 DEF ReadInv, Step, Status, Described
<1>5. ShownInv(b)
    BY <1>2, <1>3 DEF ShownInv
<1>6. StillInv(b)
    BY <1>1, <1>2 DEF StillInv, Stocked, Matched
<1> QED
    BY <1>1, <1>4, <1>5, <1>6, Unmoved DEF SearchInv

\* The catalogue query.
LEMMA StructuredInv ==
    ASSUME SearchInv, Structured
    PROVE  SearchInv'
<1> DEFINE matches == Search(product, req.c)
           details == [s \in matches |-> product[s]]
<1>1. UNCHANGED store /\ req.step = "retrieve" /\ req.strategy = "STRUCTURED" /\ Running
    BY DEF Structured, store, catalogue, counters, Running
<1>2. ReadInv(req) /\ ShownInv(req) /\ StillInv(req) /\ StoreInv
    BY DEF SearchInv
<1>3. CASE Finish("FAILED", <<>>)
    BY <1>1, <1>3, FailedInv
<1>4. CASE matches = {} /\ Finish("NO_RESULTS", <<>>)
    <2>1. req.matches = {} /\ DOMAIN req.details = {} /\ req.available = {}
        BY <1>1, <1>2 DEF ReadInv
    <2>2. Eligible(req) = {}
        BY <2>1 DEF Eligible
    <2> QED
        BY <1>1, <1>4, <2>1, <2>2, AnsweredInv
<1>5. CASE Go([req EXCEPT !.step = "inventory", !.matches = matches, !.details = details])
    <2> DEFINE r == req
               b == [r EXCEPT !.step = "inventory", !.matches = matches, !.details = details]
    <2>1. Shape(r) /\ req' = b
        BY <1>2, <1>5 DEF ReadInv, Go
    <2>2. matches \subseteq Sku /\ DOMAIN details = matches /\ \A s \in matches : details[s] = product[s]
        BY DEF Search
    <2>3. /\ Shape(b)
          /\ b.step = "inventory" /\ b.matches = matches /\ b.details = details
          /\ b.c = r.c /\ b.strategy = r.strategy /\ b.selected = r.selected /\ b.size = r.size
          /\ b.filter = r.filter /\ b.available = r.available /\ b.status = r.status
          /\ b.result = r.result /\ b.edited = r.edited
        <3> HIDE DEF matches, details
        <3> QED
            BY <2>1 DEF Shape, Fields
    <2>4. b.matches = Search(product, b.c)
        BY <2>3
    <2> HIDE DEF b, matches, details
    <2>5. b.available = {} /\ r.status = None
        BY <1>1, <1>2, <2>3 DEF ReadInv
    <2>6. ReadInv(b)
        BY <1>1, <1>2, <2>2, <2>3, <2>5 DEF ReadInv, Step, Status, Described, StoreInv
    <2>7. ShownInv(b)
        BY <1>2, <2>3, <2>5 DEF ShownInv, None
    <2>8. StillInv(b)
        BY <1>1, <2>2, <2>3, <2>4, <2>5 DEF StillInv, Stocked, Matched, None
    <2> QED
        BY <1>1, <1>2, <2>1, <2>6, <2>7, <2>8, Unmoved
<1> QED
    BY <1>3, <1>4, <1>5 DEF Structured

\* The source of a similar-item search.
LEMMA SourceInv ==
    ASSUME SearchInv, Source
    PROVE  SearchInv'
<1> DEFINE r == req
           filter == [r.filter EXCEPT !["category"] = product[r.selected].category,
                                      !["occasion"] = None]
           b == [r EXCEPT !.step = "nearest", !.filter = filter]
<1>1. UNCHANGED store /\ r.step = "retrieve" /\ r.strategy = "SIMILAR_ITEM" /\ req' = b
    BY DEF Source, store, catalogue, counters, Go
<1>2. ReadInv(r) /\ ShownInv(r) /\ StillInv(r) /\ StoreInv /\ Shape(r)
    BY DEF SearchInv, ReadInv
<1> HIDE DEF filter
<1>3. /\ Shape(b)
      /\ b.step = "nearest" /\ b.filter = filter
      /\ b.c = r.c /\ b.strategy = r.strategy /\ b.selected = r.selected /\ b.size = r.size
      /\ b.matches = r.matches /\ b.details = r.details /\ b.available = r.available
      /\ b.status = r.status /\ b.result = r.result /\ b.edited = r.edited
    BY <1>2 DEF Shape, Fields
<1> HIDE DEF b, r
<1>4. r.status = None
    BY <1>1, <1>2 DEF ReadInv
<1>5. ReadInv(b)
    BY <1>1, <1>2, <1>3, <1>4 DEF ReadInv, Step, Status, Described
<1>6. ShownInv(b)
    BY <1>2, <1>3, <1>4 DEF ShownInv, None
<1>7. StillInv(b)
    BY <1>1, <1>2, <1>3, <1>4 DEF StillInv, Stocked, Matched, None
<1> QED
    BY <1>1, <1>2, <1>5, <1>6, <1>7, Unmoved

\* The vector search, and the index that the first one builds.
LEMMA SemanticInv ==
    ASSUME SearchInv, Semantic
    PROVE  SearchInv'
<1> DEFINE r == req
           matches == Nearest(index', r.filter) \ {r.selected}
           b == [r EXCEPT !.step = "details", !.matches = matches]
<1>1. /\ UNCHANGED <<product, stock, held, stocked, edits, requests>> /\ req' = b
      /\ \/ r.step = "nearest"
         \/ r.step = "retrieve" /\ r.strategy \in {"SEMANTIC", "HYBRID"}
      /\ index' = IF index = Empty THEN Index(product) ELSE index
    BY DEF Semantic, catalogue, counters, Go
<1>2. ReadInv(r) /\ ShownInv(r) /\ StillInv(r) /\ StoreInv /\ Shape(r)
    BY DEF SearchInv, ReadInv
<1>3. DOMAIN index' \subseteq Sku
    <2>1. DOMAIN Index(product) \subseteq Sku
        BY DEF Index
    <2> QED
        BY <1>1, <1>2, <2>1 DEF StoreInv
<1>4. matches \subseteq Sku
    BY <1>3 DEF Nearest
<1>5. /\ Shape(b)
      /\ b.step = "details" /\ b.matches = matches
      /\ b.c = r.c /\ b.strategy = r.strategy /\ b.selected = r.selected /\ b.size = r.size
      /\ b.filter = r.filter /\ b.details = r.details /\ b.available = r.available
      /\ b.status = r.status /\ b.result = r.result /\ b.edited = r.edited
    <2> HIDE DEF matches
    <2> QED
        BY <1>2 DEF Shape, Fields
<1>6. b.matches = Nearest(index', b.filter) \ {b.selected}
    BY <1>5
<1> HIDE DEF b, r, matches
<1>7. r.status = None /\ r.matches = {} /\ DOMAIN r.details = {} /\ r.available = {}
      /\ r.strategy # "STRUCTURED"
    BY <1>1, <1>2 DEF ReadInv
<1>8. StoreInv'
    BY <1>1, <1>2, <1>3 DEF StoreInv
<1>9. ReadInv(req)'
    <2>1. /\ b.step = "details" /\ b.status = None /\ b.size \in Nat \ {0}
          /\ b.matches \subseteq Sku /\ b.available = {} /\ DOMAIN b.details = {}
          /\ b.strategy # "STRUCTURED"
        BY <1>2, <1>4, <1>5, <1>7 DEF ReadInv
    <2>2. b.strategy \in {"SEMANTIC", "HYBRID"} => \A f \in Indexed : b.filter[f] = b.c[f]
        BY <1>2, <1>5 DEF ReadInv
    <2>3. ReadInv(b)
        BY <1>5, <2>1, <2>2 DEF ReadInv, Step, Status, Described, None
    <2> QED
        BY <1>1, <2>3 DEF ReadInv, Described
<1>10. ShownInv(req)'
    BY <1>1, <1>2, <1>5, <1>7 DEF ShownInv, None
<1>11. StillInv(req)'
    BY <1>1, <1>5, <1>6, <1>7 DEF StillInv, Stocked, Matched, None
<1> QED
    BY <1>8, <1>9, <1>10, <1>11 DEF SearchInv

\* The details of the matches.
LEMMA DetailsInv ==
    ASSUME SearchInv, Details
    PROVE  SearchInv'
<1> DEFINE r == req
           details == [s \in r.matches |-> product[s]]
           b == [r EXCEPT !.step = "inventory", !.details = details]
<1>1. UNCHANGED store /\ r.step = "details"
    BY DEF Details, store, catalogue, counters
<1>2. ReadInv(r) /\ ShownInv(r) /\ StillInv(r) /\ StoreInv /\ Shape(r)
    BY DEF SearchInv, ReadInv
<1>3. DOMAIN r.details = {} /\ r.available = {} /\ r.status = None /\ r.strategy # "STRUCTURED"
      /\ r.matches \subseteq Sku
    BY <1>1, <1>2 DEF ReadInv
<1>4. ~r.edited /\ r.strategy \in {"SEMANTIC", "HYBRID"} =>
          r.matches = Nearest(index, r.filter) \ {r.selected}
    BY <1>1, <1>2 DEF StillInv, Matched
<1>5. CASE r.matches = {} /\ Finish("NO_RESULTS", <<>>)
    <2>1. Eligible(r) = {}
        BY <1>5 DEF Eligible
    <2> QED
        BY <1>1, <1>3, <1>4, <1>5, <2>1, AnsweredInv
<1>6. CASE req' = b
    <2>1. DOMAIN details = r.matches /\ \A s \in r.matches : details[s] = product[s]
        OBVIOUS
    <2>2. /\ Shape(b)
          /\ b.step = "inventory" /\ b.details = details
          /\ b.c = r.c /\ b.strategy = r.strategy /\ b.selected = r.selected /\ b.size = r.size
          /\ b.filter = r.filter /\ b.matches = r.matches /\ b.available = r.available
          /\ b.status = r.status /\ b.result = r.result /\ b.edited = r.edited
        <3> HIDE DEF details
        <3> QED
            BY <1>2 DEF Shape, Fields
    <2> HIDE DEF b, r, details
    <2>3. ReadInv(b)
        BY <1>1, <1>2, <1>3, <2>1, <2>2 DEF ReadInv, Step, Status, Described, StoreInv
    <2>4. ShownInv(b)
        BY <1>2, <1>3, <2>2 DEF ShownInv, None
    <2>5. StillInv(b)
        BY <1>3, <1>4, <2>1, <2>2 DEF StillInv, Stocked, Matched, None
    <2> QED
        BY <1>1, <1>2, <1>6, <2>3, <2>4, <2>5, Unmoved
<1> QED
    BY <1>5, <1>6 DEF Details, Go

\* The inventory check.
LEMMA InventoryInv ==
    ASSUME SearchInv, Inventory
    PROVE  SearchInv'
<1> DEFINE r == req
           available == stock \cap r.matches
           b == [r EXCEPT !.step = "rank", !.available = available]
<1>1. UNCHANGED store /\ r.step = "inventory" /\ req' = b
    BY DEF Inventory, store, catalogue, counters, Go
<1>2. ReadInv(r) /\ ShownInv(r) /\ StillInv(r) /\ StoreInv /\ Shape(r)
    BY DEF SearchInv, ReadInv
<1>3. available \subseteq r.matches \cap stocked
    BY <1>2 DEF StoreInv
<1>4. /\ Shape(b)
      /\ b.step = "rank" /\ b.available = available
      /\ b.c = r.c /\ b.strategy = r.strategy /\ b.selected = r.selected /\ b.size = r.size
      /\ b.filter = r.filter /\ b.matches = r.matches /\ b.details = r.details
      /\ b.status = r.status /\ b.result = r.result /\ b.edited = r.edited
    <2> HIDE DEF available
    <2> QED
        BY <1>2 DEF Shape, Fields
<1>5. b.available = stock \cap b.matches
    BY <1>4
<1> HIDE DEF b, r, available
<1>6. r.status = None /\ DOMAIN r.details = r.matches
    BY <1>1, <1>2 DEF ReadInv, Described
<1>7. ReadInv(b)
    BY <1>1, <1>2, <1>3, <1>4, <1>6 DEF ReadInv, Step, Status, Described
<1>8. ShownInv(b)
    BY <1>2, <1>4, <1>6 DEF ShownInv, None
<1>9. StillInv(b)
    BY <1>1, <1>2, <1>4, <1>5 DEF StillInv, Stocked, Matched
<1> QED
    BY <1>1, <1>2, <1>7, <1>8, <1>9, Unmoved

\* What is eligible has been described by a row.
LEMMA EligibleFacts ==
    ASSUME StoreInv, ReadInv(req), Described(req)
    PROVE  /\ Eligible(req) \subseteq Sku /\ Eligible(req) \subseteq DOMAIN req.details
           /\ Eligible(req) \subseteq stocked
           /\ \A s \in Eligible(req) : req.details[s] \in Rows /\ req.details[s] \in held[s]
<1>1. Eligible(req) \subseteq req.matches \cap req.available
    BY DEF Eligible
<1>2. DOMAIN req.details = req.matches /\ req.matches \subseteq Sku /\ req.available \subseteq stocked
      /\ \A s \in DOMAIN req.details : req.details[s] \in held[s]
    BY DEF ReadInv
<1>3. \A s \in Sku : held[s] \subseteq Rows
    BY DEF StoreInv
<1> QED
    BY <1>1, <1>2, <1>3

\* The ranking.
LEMMA RankInv ==
    ASSUME SearchInv, Rank
    PROVE  SearchInv'
<1> DEFINE ranked == Ranked(Eligible(req), req.details, req.c, IsSemantic(req))
           status == IF ranked = <<>> THEN "NO_RESULTS" ELSE "SUCCESS"
           list == First(req.size, ranked)
<1>1. UNCHANGED store /\ req.step = "rank" /\ Finish(status, list)
    BY DEF Rank, store, catalogue, counters
<1>2. ReadInv(req) /\ StillInv(req) /\ StoreInv /\ Described(req) /\ Stocked(req) /\ Matched(req)
    BY <1>1 DEF SearchInv, Described, Stocked, Matched
<1>3. Eligible(req) \subseteq Sku /\ \A s \in Eligible(req) : req.details[s] \in Rows
    BY <1>2, EligibleFacts
<1>4. ranked = <<>> => Eligible(req) = {} /\ list = <<>>
    <2> DEFINE S == Eligible(req)
               d == req.details
               c == req.c
               semantic == IsSemantic(req)
               n == req.size
    <2>1. n \in Nat /\ S \subseteq Sku /\ \A s \in S : d[s] \in Rows
        BY <1>2, <1>3 DEF ReadInv
    <2> HIDE DEF S, d, c, semantic, n
    <2>2. LET l == First(n, Ranked(S, d, c, semantic)) IN
          Ranked(S, d, c, semantic) = <<>> => S = {} /\ l = <<>>
        BY <2>1, BestAreShown
    <2> QED
        BY <2>2 DEF S, d, c, semantic, n
<1>5. /\ DOMAIN req.details = req.matches
      /\ ~req.edited => req.available = stock \cap req.matches
      /\ ~req.edited /\ req.strategy = "STRUCTURED" => req.matches = Search(product, req.c)
      /\ ~req.edited /\ req.strategy \in {"SEMANTIC", "HYBRID"} =>
             req.matches = Nearest(index, req.filter) \ {req.selected}
    BY <1>2 DEF ReadInv, StillInv
<1>6. /\ status \in {"SUCCESS", "NO_RESULTS"}
      /\ status = "NO_RESULTS" => ranked = <<>>
    OBVIOUS
<1> HIDE DEF ranked, status
<1>7. status = "NO_RESULTS" => Eligible(req) = {} /\ list = <<>>
    BY <1>4, <1>6
<1>8. list = First(req.size, Ranked(Eligible(req), req.details, req.c, IsSemantic(req)))
    BY DEF ranked
<1> HIDE DEF list
<1> QED
    BY <1>1, <1>5, <1>6, <1>7, <1>8, AnsweredInv

\* Every step of the agent.
LEMMA WorkInv ==
    ASSUME SearchInv, Work
    PROVE  SearchInv'
<1>1. CASE ToolFails
    <2>1. Running /\ Finish("FAILED", <<>>) /\ UNCHANGED store
        BY <1>1 DEF ToolFails, store, catalogue, counters
    <2> QED
        BY <2>1, FailedInv
<1> QED
    BY <1>1, StructuredInv, SourceInv, SemanticInv, DetailsInv, InventoryInv, RankInv DEF Work

\* A request that begins, with the histories of what it may read.
LEMMA BegunInv ==
    ASSUME StoreInv, NEW c, NEW n \in Nat \ {0}, Begins(req', c, n),
           UNCHANGED <<product, stock, index, edits>>, requests' \in 0 .. MaxRequests,
           held' = [s \in Sku |-> {product[s]}], stocked' = stock
    PROVE  SearchInv'
<1> DEFINE b == req'
<1>1. /\ Shape(b) /\ b.size = n /\ b.c = c /\ b.result = <<>>
      /\ b.matches = {} /\ DOMAIN b.details = {} /\ b.available = {} /\ ~b.edited
      /\ \/ b.step = "idle" /\ b.status = "raised" /\ b.strategy = None
         \/ b.step = "retrieve" /\ b.status = None /\ b.filter = [f \in Indexed |-> c[f]]
    BY DEF Begins
<1>2. StoreInv'
    <2>1. \A s \in Sku : product[s] \in Rows /\ held'[s] = {product[s]}
        BY DEF StoreInv
    <2>2. held' \in [Sku -> SUBSET Rows]
        BY <2>1
    <2> QED
        BY <2>1, <2>2 DEF StoreInv
<1>3. ReadInv(req)'
    <2>1. b.strategy \in {"SEMANTIC", "HYBRID"} => \A f \in Indexed : b.filter[f] = b.c[f]
        BY <1>1 DEF None
    <2> HIDE DEF b
    <2>2. b.step \in Step /\ b.status \in Status /\ (b.step # "idle" => b.status = None)
          /\ b.step \notin {"nearest", "details", "inventory", "rank"}
          /\ b.status \notin {"SUCCESS", "NO_RESULTS"}
        BY <1>1 DEF Step, Status, None
    <2>3. ~Described(b)
        BY <2>2 DEF Described
    <2> QED
        BY <1>1, <2>1, <2>2, <2>3 DEF ReadInv, Described, b
<1>4. ShownInv(req)'
    BY <1>1 DEF ShownInv, None
<1>5. StillInv(req)'
    <2>1. b.step \notin {"details", "inventory", "rank"} /\ b.status \notin {"SUCCESS", "NO_RESULTS"}
        BY <1>1 DEF None
    <2> QED
        BY <1>1, <2>1 DEF StillInv, Stocked, Matched
<1> QED
    BY <1>2, <1>3, <1>4, <1>5 DEF SearchInv

\* A request of a user.
LEMMA AskInv ==
    ASSUME SearchInv, NEW supplied \in Callers, NEW said \in Queries, NEW session \in Chat,
           NEW n \in Sizes, Ask(supplied, said, session, n)
    PROVE  SearchInv'
<1> DEFINE c == Criteria(supplied, said, session)
           selected == session.selected
           strategy == Strategy(c, said.similar, session.selected)
           filter == [f \in Indexed |-> c[f]]
           r == [Idle EXCEPT !.c = c, !.selected = selected, !.size = n]
           raised == [r EXCEPT !.status = "raised"]
           begun == [r EXCEPT !.step = "retrieve", !.filter = filter, !.strategy = strategy]
<1>1. req' = raised \/ req' = begun
    BY DEF Ask, Go
<1>2. /\ UNCHANGED <<product, stock, index, edits>>
      /\ requests < MaxRequests /\ requests' = requests + 1
      /\ held' = [s \in Sku |-> {product[s]}] /\ stocked' = stock
    BY DEF Ask, catalogue
<1>3. requests' \in 0 .. MaxRequests /\ StoreInv /\ n \in Nat \ {0}
    BY <1>2, SearchBounds DEF SearchInv, StoreInv
<1>4. Begins(raised, c, n) /\ Begins(begun, c, n)
    <2> HIDE DEF c, strategy, selected, filter
    <2>1. /\ Shape(r) /\ r.step = "idle" /\ r.status = None /\ r.result = <<>> /\ r.matches = {}
          /\ DOMAIN r.details = {} /\ r.available = {} /\ r.strategy = None /\ r.edited = FALSE
          /\ r.c = c /\ r.size = n
        BY IdleFields DEF Shape, Fields
    <2> HIDE DEF r
    <2>2. /\ Shape(raised) /\ raised.step = "idle" /\ raised.status = "raised"
          /\ raised.result = <<>> /\ raised.matches = {}
          /\ DOMAIN raised.details = {} /\ raised.available = {} /\ raised.strategy = None
          /\ raised.edited = FALSE /\ raised.c = c /\ raised.size = n
        BY <2>1 DEF Shape, Fields
    <2>3. /\ Shape(begun) /\ begun.step = "retrieve" /\ begun.status = None
          /\ begun.result = <<>> /\ begun.matches = {}
          /\ DOMAIN begun.details = {} /\ begun.available = {} /\ begun.filter = filter
          /\ begun.edited = FALSE /\ begun.c = c /\ begun.size = n
        BY <2>1 DEF Shape, Fields
    <2> HIDE DEF raised, begun
    <2> QED
        BY <2>2, <2>3 DEF Begins, filter
<1> HIDE DEF raised, begun, c
<1>5. Begins(req', c, n)
    BY <1>1, <1>4
<1> QED
    BY <1>2, <1>3, <1>5, BegunInv

\* An edit keeps what the request has read within the histories.
LEMMA EditInv ==
    ASSUME SearchInv, NEW s \in Sku, Edit(s)
    PROVE  SearchInv'
<1> DEFINE r == req
           b == [r EXCEPT !.edited = TRUE]
<1>1. /\ UNCHANGED <<index, requests>> /\ edits < MaxEdits /\ edits' = edits + 1 /\ req' = b
      /\ held' = [held EXCEPT ![s] = @ \cup {product'[s]}] /\ stocked' = stocked \cup stock'
      /\ \/ \E p \in Versions[s] : product' = [product EXCEPT ![s] = p] /\ stock' = stock
         \/ stock' \in {stock \ {s}, stock \cup {s}} /\ product' = product
    BY DEF Edit, Go
<1>2. ReadInv(r) /\ ShownInv(r) /\ StoreInv /\ Shape(r)
    BY DEF SearchInv, ReadInv
<1>3. /\ Shape(b) /\ b.edited = TRUE
      /\ b.step = r.step /\ b.c = r.c /\ b.strategy = r.strategy /\ b.selected = r.selected
      /\ b.size = r.size /\ b.filter = r.filter /\ b.matches = r.matches /\ b.details = r.details
      /\ b.available = r.available /\ b.status = r.status /\ b.result = r.result
    BY <1>2 DEF Shape, Fields
<1>4. Eligible(b) = Eligible(r) /\ IsSemantic(b) = IsSemantic(r)
    <2> HIDE DEF b
    <2> QED
        BY <1>3, SameEligible DEF IsSemantic
<1> HIDE DEF b, r
<1>5. product' \in [Sku -> Rows] /\ \A t \in Sku \ {s} : product'[t] = product[t]
    <2>1. Versions[s] \subseteq Rows
        BY DEF Rows
    <2> QED
        BY <1>1, <1>2, <2>1 DEF StoreInv
<1>6. /\ held' \in [Sku -> SUBSET Rows] /\ product'[s] \in held'[s]
      /\ \A t \in Sku : held[t] \subseteq held'[t]
    BY <1>1, <1>2, <1>5 DEF StoreInv
<1>7. StoreInv'
    <2>1. edits' \in 0 .. MaxEdits /\ requests' \in 0 .. MaxRequests /\ DOMAIN index' \subseteq Sku
        BY <1>1, <1>2, SearchBounds DEF StoreInv
    <2>2. stock' \subseteq Sku /\ stock' \subseteq stocked'
        BY <1>1, <1>2 DEF StoreInv
    <2>3. \A t \in Sku : product'[t] \in held'[t]
        BY <1>2, <1>5, <1>6 DEF StoreInv
    <2> QED
        BY <1>5, <1>6, <2>1, <2>2, <2>3 DEF StoreInv
<1>8. ReadInv(req)'
    <2>1. \A t \in DOMAIN r.details : r.details[t] \in held'[t]
        BY <1>2, <1>6 DEF ReadInv
    <2>2. r.available \subseteq r.matches \cap stocked'
        BY <1>1, <1>2 DEF ReadInv
    <2>3. Described(b) = Described(r)
        BY <1>3 DEF Described
    <2> QED
        BY <1>1, <1>2, <1>3, <2>1, <2>2, <2>3 DEF ReadInv, Described
<1>9. ShownInv(req)'
    <2>1. ShownInv(b)
        BY <1>2, <1>3, <1>4 DEF ShownInv
    <2> QED
        BY <1>1, <2>1 DEF ShownInv
<1>10. StillInv(req)'
    BY <1>1, <1>3 DEF StillInv
<1> QED
    BY <1>7, <1>8, <1>9, <1>10 DEF SearchInv

\* No request at all.
LEMMA IdleInv ==
    ASSUME StoreInv, NEW b, b = Idle
    PROVE  ReadInv(b) /\ ShownInv(b) /\ StillInv(b)
<1>1. /\ Shape(b) /\ b.step = "idle" /\ b.status = None /\ b.result = <<>>
      /\ b.matches = {} /\ DOMAIN b.details = {} /\ b.available = {} /\ b.size = 1
      /\ b.strategy = None
    BY IdleFields
<1>2. ReadInv(b)
    BY <1>1 DEF ReadInv, Step, Status, Described, None
<1>3. ShownInv(b)
    BY <1>1 DEF ShownInv, None
<1>4. StillInv(b)
    BY <1>1 DEF StillInv, Stocked, Matched, None
<1> QED
    BY <1>2, <1>3, <1>4

\* A restart keeps the catalogue and the stock.
LEMMA RestartInv ==
    ASSUME SearchInv, Restart
    PROVE  SearchInv'
<1>1. /\ UNCHANGED <<product, stock, held, stocked, edits, requests>>
      /\ index' = Empty /\ req' = Idle
    BY DEF Restart, catalogue, counters
<1>2. StoreInv /\ DOMAIN Empty = {}
    BY DEF SearchInv, Empty
<1>3. StoreInv'
    BY <1>1, <1>2 DEF StoreInv
<1>4. /\ Shape(Idle) /\ Idle.step = "idle" /\ Idle.status = None /\ Idle.result = <<>>
      /\ Idle.matches = {} /\ DOMAIN Idle.details = {} /\ Idle.available = {} /\ Idle.size = 1
      /\ Idle.strategy = None
    BY IdleFields
<1>5. ReadInv(req)'
    BY <1>1, <1>4 DEF ReadInv, Step, Status, Described, None
<1>6. ShownInv(req)'
    BY <1>1, <1>4 DEF ShownInv, None
<1>7. StillInv(req)'
    BY <1>1, <1>4 DEF StillInv, Stocked, Matched, None
<1> QED
    BY <1>3, <1>5, <1>6, <1>7 DEF SearchInv

\* The first state.
LEMMA SearchInitInv == Init => SearchInv
<1> SUFFICES ASSUME Init PROVE SearchInv
    OBVIOUS
<1>1. StoreInv
    <2>1. product \in [Sku -> Rows]
        BY CatalogueAssumption DEF Init
    <2>2. held \in [Sku -> SUBSET Rows] /\ \A s \in Sku : product[s] \in held[s]
        BY <2>1 DEF Init
    <2>3. DOMAIN index = {} /\ edits \in 0 .. MaxEdits /\ requests \in 0 .. MaxRequests
        BY SearchBounds DEF Init, Empty
    <2> QED
        BY <2>1, <2>2, <2>3 DEF StoreInv, Init
<1>2. req = Idle
    BY DEF Init
<1> QED
    BY <1>1, <1>2, IdleInv DEF SearchInv

\* A step that touches nothing.
LEMMA SearchStutter ==
    ASSUME SearchInv, UNCHANGED vars
    PROVE  SearchInv'
<1>1. UNCHANGED store /\ req' = req
    BY DEF vars, store
<1> QED
    BY <1>1, Unmoved DEF SearchInv
-----------------------------------------------------------------------------
(* What the invariant says of an answer.                                   *)

\* A list of best products, or none.
LEMMA ResultFacts ==
    ASSUME SearchInv
    PROVE  LET S == Eligible(req) IN
           /\ req.size \in Nat /\ Len(req.result) <= req.size
           /\ req.status = "SUCCESS" => /\ req.result \in Seq(S) /\ ToSet(req.result) \subseteq S
                                        /\ Described(req)
                                        /\ \A s \in S \ ToSet(req.result) :
                                             /\ Len(req.result) = req.size
                                             /\ \A t \in ToSet(req.result) :
                                                  Outranks(t, s, req.details, req.c, IsSemantic(req))
           /\ req.status # "SUCCESS" => ToSet(req.result) = {}
           /\ \A i, j \in DOMAIN req.result : i < j =>
                 Outranks(req.result[i], req.result[j], req.details, req.c, IsSemantic(req))
<1> DEFINE S == Eligible(req)
           d == req.details
           c == req.c
           semantic == IsSemantic(req)
           n == req.size
           l == First(n, Ranked(S, d, c, semantic))
<1>1. n \in Nat /\ StoreInv /\ ReadInv(req) /\ ShownInv(req)
    BY DEF SearchInv, ReadInv
<1>2. CASE req.status = "SUCCESS"
    <2>1. Described(req) /\ req.result = l
        BY <1>1, <1>2 DEF Described, ShownInv
    <2>2. S \subseteq Sku /\ \A s \in S : d[s] \in Rows
        BY <1>1, <2>1, EligibleFacts
    <2> HIDE DEF S, d, c, semantic, n
    <2>3. /\ l \in Seq(S) /\ Len(l) <= n
          /\ \A i, j \in DOMAIN l : i < j => Outranks(l[i], l[j], d, c, semantic)
          /\ \A s \in S \ ToSet(l) :
                Len(l) = n /\ \A t \in ToSet(l) : Outranks(t, s, d, c, semantic)
        BY <1>1, <2>2, BestAreShown
    <2> HIDE DEF l
    <2>4. ToSet(l) \subseteq S
        BY <2>3 DEF ToSet
    <2> QED
        BY <1>1, <1>2, <2>1, <2>3, <2>4 DEF S, d, c, semantic, n
<1>3. CASE req.status # "SUCCESS"
    <2>1. req.result = <<>>
        BY <1>1, <1>3 DEF ShownInv
    <2>2. Len(req.result) = 0 /\ DOMAIN req.result = {} /\ ToSet(req.result) = {}
        BY <2>1 DEF ToSet
    <2> QED
        BY <1>1, <1>3, <2>2
<1> QED
    BY <1>2, <1>3

\* Every recommendation is real and in its place.
LEMMA RightResult == SearchInv => ResultIsRight
<1> SUFFICES ASSUME SearchInv PROVE ResultIsRight
    OBVIOUS
<1>1. StoreInv /\ ReadInv(req)
    BY DEF SearchInv
<1>2. /\ Len(req.result) <= req.size
      /\ req.status = "SUCCESS" => ToSet(req.result) \subseteq Eligible(req) /\ Described(req)
      /\ req.status # "SUCCESS" => ToSet(req.result) = {}
      /\ \A i, j \in DOMAIN req.result : i < j =>
            Outranks(req.result[i], req.result[j], req.details, req.c, IsSemantic(req))
    BY ResultFacts
<1>3. \A s \in ToSet(req.result) :
          s \in Eligible(req) /\ s \in DOMAIN req.details /\ s \in stocked /\ req.details[s] \in held[s]
    BY <1>1, <1>2, EligibleFacts
<1>4. TypeOK
    <2>1. ToSet(req.result) \subseteq DOMAIN req.details
        BY <1>3
    <2>2. req.available \subseteq Sku /\ req.step \in Step /\ req.status \in Status
        BY <1>1 DEF ReadInv
    <2> QED
        BY <1>1, <2>1, <2>2 DEF TypeOK, StoreInv, Step, Status
<1>5. RecommendedIsReal
    <2> SUFFICES ASSUME NEW s \in ToSet(req.result)
                 PROVE  s \in stocked /\ \E p \in held[s] : Fits(p, req.c) /\ Presentable(p)
        BY DEF RecommendedIsReal
    <2>1. Fits(req.details[s], req.c) /\ Presentable(req.details[s])
        BY <1>3 DEF Eligible
    <2> QED
        BY <1>3, <2>1
<1>6. BestComeFirst
    BY <1>2 DEF BestComeFirst
<1> QED
    BY <1>4, <1>5, <1>6 DEF ResultIsRight

\* What was read of a match of an unedited catalogue.
LEMMA StillEligible ==
    ASSUME SearchInv, ~req.edited, req.status \in {"SUCCESS", "NO_RESULTS"},
           NEW s \in Worthy, s \in req.matches
    PROVE  s \in Eligible(req)
<1>1. Described(req) /\ Stocked(req) /\ StillInv(req) /\ ReadInv(req)
    BY DEF SearchInv, Described, Stocked
<1>2. s \in stock /\ s \in req.available /\ req.details[s] = product[s]
    BY <1>1 DEF StillInv, ReadInv, Worthy
<1> QED
    BY <1>2 DEF Worthy, Eligible

\* A structured search loses nothing better than what it lists.
LEMMA NothingBetter == SearchInv => NothingBetterIsLeftOut
<1> SUFFICES ASSUME SearchInv, req.status \in {"SUCCESS", "NO_RESULTS"},
                    req.strategy = "STRUCTURED", ~req.edited,
                    Cardinality({s \in Sku : Fits(product[s], req.c)}) <= Limit,
                    NEW s \in Worthy \ ToSet(req.result)
             PROVE  /\ Len(req.result) = req.size
                    /\ \A t \in ToSet(req.result) : Outranks(t, s, product, req.c, FALSE)
    BY DEF NothingBetterIsLeftOut
<1>1. StoreInv /\ ReadInv(req) /\ StillInv(req) /\ ShownInv(req) /\ Matched(req)
    BY DEF SearchInv, Matched
<1>2. req.matches = {t \in Sku : Fits(product[t], req.c)}
    BY <1>1, SearchIsWhole DEF StillInv
<1>3. s \in Eligible(req)
    <2>1. s \in Sku /\ Fits(product[s], req.c)
        BY <1>1 DEF Worthy, StoreInv
    <2> QED
        BY <1>2, <2>1, StillEligible
<1>4. req.status = "SUCCESS"
    BY <1>1, <1>3 DEF ShownInv
<1>5. /\ Len(req.result) = req.size
      /\ \A t \in ToSet(req.result) :
            t \in Eligible(req) /\ Outranks(t, s, req.details, req.c, IsSemantic(req))
    BY <1>3, <1>4, ResultFacts
<1>6. \A t \in Eligible(req) : req.details[t] = product[t]
    BY <1>1, <1>4, EligibleFacts DEF StillInv, Described
<1>7. \A t \in ToSet(req.result) : Outranks(t, s, product, req.c, FALSE)
    <2> TAKE t \in ToSet(req.result)
    <2>1. Outranks(t, s, req.details, req.c, IsSemantic(req))
        BY <1>5
    <2>2. req.details[t] = product[t] /\ req.details[s] = product[s]
        BY <1>3, <1>5, <1>6
    <2>3. Total(t, req.details[t], req.c, IsSemantic(req)) = Total(t, product[t], req.c, FALSE)
          /\ Total(s, req.details[s], req.c, IsSemantic(req)) = Total(s, product[s], req.c, FALSE)
        BY <2>2 DEF IsSemantic, Total
    <2> QED
        BY <2>1, <2>2, <2>3 DEF Outranks
<1> QED
    BY <1>5, <1>7

\* A semantic search over an index of the catalogue loses nothing similar.
LEMMA NothingNear == SearchInv => NothingNearIsLeftOut
<1> SUFFICES ASSUME SearchInv, req.status \in {"SUCCESS", "NO_RESULTS"},
                    req.strategy \in {"SEMANTIC", "HYBRID"}, ~req.edited, index = Index(product),
                    Cardinality({s \in Sku : Similarity[s] > 0}) <= Limit,
                    NEW s \in Worthy \ (ToSet(req.result) \cup {req.selected}), Similarity[s] # 0
             PROVE  Len(req.result) = req.size
    BY DEF NothingNearIsLeftOut
<1>1. StoreInv /\ ReadInv(req) /\ StillInv(req) /\ ShownInv(req) /\ Matched(req)
    BY DEF SearchInv, Matched
<1>2. s \in Sku /\ Fits(product[s], req.c) /\ s # req.selected
    BY <1>1 DEF Worthy, StoreInv
<1>3. Similarity[s] > 0
    <2>1. Similarity[s] \in 0 .. 100
        BY <1>2, DiscoveryAssumption
    <2> QED
        BY <2>1
<1>4. s \in DOMAIN index /\ DOMAIN index \subseteq Sku /\ \A f \in Indexed : index[s][f] = product[s][f]
    BY <1>1, <1>2 DEF Index, Fits, StoreInv
<1>5. \A f \in Indexed : req.filter[f] \in {None, index[s][f]}
    <2> TAKE f \in Indexed
    <2>1. f \in Scalar
        BY DEF Indexed, Scalar
    <2>2. req.c[f] \in {None, product[s][f]}
        BY <1>2, <2>1 DEF Fits
    <2>3. req.filter[f] = req.c[f]
        BY <1>1 DEF ReadInv
    <2> QED
        BY <1>4, <2>2, <2>3
<1>6. s \in Nearest(index, req.filter)
    BY <1>3, <1>4, <1>5, NearestIsWhole
<1>7. s \in req.matches
    BY <1>1, <1>2, <1>6 DEF StillInv
<1>8. s \in Eligible(req)
    BY <1>7, StillEligible
<1>9. req.status = "SUCCESS"
    BY <1>1, <1>8 DEF ShownInv
<1> QED
    BY <1>8, <1>9, ResultFacts

-----------------------------------------------------------------------------
(* A request to Discovery.                                                 *)

\* Whatever the users ask, the editors change and the process forgets, a
\* request answers from what it has read.
THEOREM SearchInvariant == Spec => []SearchInv
<1>1. Init => SearchInv
    BY SearchInitInv
<1>2. SearchInv /\ [Next]_vars => SearchInv'
    <2> SUFFICES ASSUME SearchInv, [Next]_vars PROVE SearchInv'
        OBVIOUS
    <2>1. ASSUME NEW supplied \in Callers, NEW said \in Queries, NEW session \in Chat,
                 NEW n \in Sizes, Ask(supplied, said, session, n)
          PROVE  SearchInv'
        BY <2>1, AskInv
    <2>2. CASE Work
        BY <2>2, WorkInv
    <2>3. CASE Restart
        BY <2>3, RestartInv
    <2>4. ASSUME NEW s \in Sku, Edit(s) PROVE SearchInv'
        BY <2>4, EditInv
    <2>5. CASE UNCHANGED vars
        BY <2>5, SearchStutter
    <2> QED
        BY <2>1, <2>2, <2>3, <2>4, <2>5 DEF Next
<1> QED
    BY <1>1, <1>2, PTL DEF Spec

\* Discovery alone answers soundly and leaves nothing out, without a homepage
\* over it.
THEOREM DiscoverySound == Spec => [](ResultIsRight /\ NothingIsLeftOut)
<1>1. SearchInv => ResultIsRight /\ NothingIsLeftOut
    BY RightResult, NothingBetter, NothingNear DEF NothingIsLeftOut
<1> QED
    BY <1>1, SearchInvariant, PTL

-----------------------------------------------------------------------------
(* The inductive invariant of the homepage.                                *)

\* What a value of the profile may name, and the categories a plan may have.
Named == {Name[v] : v \in DOMAIN Name} \cup {None}

HomeFields == {"step", "limit", "plan", "next", "asked", "seen", "sections", "edited"}
HomeShape(h) == h = [f \in HomeFields |-> h[f]]
Section == [category : Named, skus : Seq(Sku)]

Building(h) == h.step = "build" /\ h.asked

\* The plan, its limit and the place the page has come to.
PlanInv(h) ==
    /\ HomeShape(h) /\ h.step \in {"idle", "build", "failed", "done"}
    /\ h.limit \in Nat \ {0} /\ h.plan \in Seq(Named) /\ h.next \in Nat \ {0}
    /\ h.step # "idle" => Len(h.plan) # 0 /\ h.next <= Len(h.plan) + 1
    /\ \A i, j \in DOMAIN h.plan : h.plan[i] = h.plan[j] => i = j
    /\ \A i \in DOMAIN h.plan : h.plan[i] = None => Len(h.plan) = 1

\* The products of the page are those of its sections, each once.
PageInv(h) ==
    /\ h.seen \subseteq Sku /\ h.sections \in Seq(Section)
    /\ h.seen = UNION {ToSet(h.sections[i].skus) : i \in DOMAIN h.sections}
    /\ Cardinality(h.seen) <= h.limit
    /\ \A i, j \in DOMAIN h.sections :
          \A a \in DOMAIN h.sections[i].skus, b \in DOMAIN h.sections[j].skus :
             h.sections[i].skus[a] = h.sections[j].skus[b] => i = j /\ a = b
    /\ \A i \in DOMAIN h.sections : Len(h.sections[i].skus) \in 1 .. PerSection(h)
    /\ h.step = "idle" => h.sections = <<>>

\* What a section asks of Discovery.
SectionCriteria(category) ==
    Criteria([NoCriteria EXCEPT !.category = category], Silent,
             [category |-> category, occasion |-> None, size |-> None])

\* While a section is asked for, the request in flight is its own.
AskedInv(h, r) ==
    Building(h) =>
      /\ h.next <= Len(h.plan) /\ Remaining(h) > 0
      /\ r.size = Least(PerSection(h), Remaining(h))
      /\ r.step = "idle" => r.status \in {"SUCCESS", "NO_RESULTS", "FAILED"}
      /\ r.c = SectionCriteria(h.plan[h.next])
      /\ h.plan[h.next] # None => r.strategy = "STRUCTURED"
      /\ ~h.edited => ~r.edited

\* A planned category from which the page lacks a product for a reason.
Covered(h, i) ==
    \/ h.plan[i] = None \/ Cardinality(Matching(h.plan[i])) > Limit
    \/ InCategory(h.plan[i]) \subseteq h.seen
    \/ Remaining(h) = 0
    \/ \E j \in DOMAIN h.sections :
          h.sections[j].category = h.plan[i] /\ Len(h.sections[j].skus) = PerSection(h)

\* A section of the page has products of its planned category.
Belongs(h, j) ==
    \E k \in 1 .. h.next - 1 :
        /\ h.sections[j].category = h.plan[k]
        /\ h.plan[k] # None => \A s \in ToSet(h.sections[j].skus) : product[s].category = h.plan[k]

\* While nothing is edited, what the page has come to is what the catalogue gives.
CoverInv(h) ==
    h.step \in {"build", "done"} /\ ~h.edited =>
      /\ \A j \in DOMAIN h.sections : Belongs(h, j)
      /\ \A i \in 1 .. h.next - 1 : Covered(h, i)
      /\ h.step = "done" => h.next > Len(h.plan) \/ Remaining(h) = 0

HomeInv == SearchInv /\ PlanInv(home) /\ PageInv(home) /\ AskedInv(home, req) /\ CoverInv(home)

-----------------------------------------------------------------------------
(* Lists of distinct products, plans and shares.                           *)

\* A list of distinct elements has as many as it is long.
LEMMA DistinctList ==
    ASSUME NEW S, NEW l \in Seq(S), \A i, j \in DOMAIN l : l[i] = l[j] => i = j
    PROVE  IsFiniteSet(ToSet(l)) /\ Cardinality(ToSet(l)) = Len(l)
<1> DEFINE n == Len(l)
           T == ToSet(l)
           f == [i \in 1 .. n |-> l[i]]
<1>1. n \in Nat /\ DOMAIN l = 1 .. n
    OBVIOUS
<1>2. IsFiniteSet(1 .. n) /\ Cardinality(1 .. n) = n
    BY <1>1, FS_Interval
<1>3. T = {l[i] : i \in 1 .. n}
    BY <1>1 DEF ToSet
<1> HIDE DEF n, T
<1>4. f \in Bijection(1 .. n, T)
    <2>1. f \in [1 .. n -> T]
        BY <1>3
    <2>2. \A i, j \in 1 .. n : f[i] = f[j] => i = j
        BY <1>1
    <2>3. \A t \in T : \E i \in 1 .. n : f[i] = t
        BY <1>3
    <2> HIDE DEF f
    <2> QED
        BY <2>1, <2>2, <2>3 DEF Bijection, Injection, Surjection, IsInjective
<1>5. ExistsBijection(1 .. n, T)
    BY <1>4 DEF ExistsBijection
<1>6. IsFiniteSet(T) /\ Cardinality(T) = n
    BY <1>2, <1>5, FS_Bijection
<1> QED
    BY <1>6 DEF n, T

\* The products a section adds to a page that has room for the whole answer:
\* those of the answer that the page lacks, each once.
LEMMA AddedProducts ==
    ASSUME NEW S, NEW h, NEW list \in Seq(S), \A i, j \in DOMAIN list : list[i] = list[j] => i = j,
           Remaining(h) \in Nat, Len(list) <= Remaining(h)
    PROVE  LET added == NewProducts(h, list) IN
           /\ added \in Seq(S) /\ Len(added) <= Len(list)
           /\ ToSet(added) = ToSet(list) \ h.seen
           /\ \A i, j \in DOMAIN added : added[i] = added[j] => i = j
           /\ ToSet(list) \cap h.seen = {} => Len(added) = Len(list)
<1> DEFINE n == Len(list)
           I == {i \in DOMAIN list : list[i] \notin h.seen}
           m == Cardinality(I)
           q == Picked(list, I)
<1>1. n \in Nat /\ DOMAIN list = 1 .. n /\ I \subseteq 1 .. n /\ \A i \in 1 .. n : list[i] \in S
    OBVIOUS
<1>2. IsFiniteSet(1 .. n) /\ Cardinality(1 .. n) = n
    <2> HIDE DEF n
    <2> QED
        BY <1>1, FS_Interval
<1>3. m \in Nat /\ m <= n
    <2>1. IsFiniteSet(I) /\ Cardinality(I) <= n
        BY <1>1, <1>2, FS_Subset
    <2> QED
        BY <2>1, FS_CardinalityType
<1>4. \A i, j \in I : list[i] = list[j] => i = j
    OBVIOUS
<1>5. /\ q = [k \in 1 .. m |-> q[k]]
      /\ \A k \in 1 .. m : \E i \in I : q[k] = list[i]
      /\ \A i \in I : \E k \in 1 .. m : q[k] = list[i]
      /\ \A i, j \in 1 .. m : q[i] = q[j] => i = j
    <2> HIDE DEF I, n
    <2> QED
        BY <1>1, <1>4, PickedElements
<1>6. NewProducts(h, list) = First(Remaining(h), q)
    BY DEF NewProducts
<1>7. \A s : s \in ToSet(list) \ h.seen <=> \E i \in I : s = list[i]
    BY DEF ToSet
<1>8. ToSet(list) \cap h.seen = {} => m = n
    <2> SUFFICES ASSUME ToSet(list) \cap h.seen = {} PROVE I = 1 .. n
        BY <1>2
    <2> QED
        BY <1>1 DEF ToSet
<1> HIDE DEF n, I, m, q
<1>9. q \in Seq(S) /\ Len(q) = m /\ DOMAIN q = 1 .. m
    <2>1. \A k \in 1 .. m : q[k] \in S
        BY <1>1, <1>5
    <2> QED
        BY <1>3, <1>5, <2>1, SMTT(30)
<1>10. NewProducts(h, list) = q
    <2>1. Len(q) <= Remaining(h)
        BY <1>1, <1>3, <1>9 DEF n
    <2> QED
        BY <1>6, <2>1 DEF First
<1>11. ToSet(q) = ToSet(list) \ h.seen
    BY <1>5, <1>7, <1>9 DEF ToSet
<1> QED
    BY <1>3, <1>5, <1>8, <1>9, <1>10, <1>11 DEF n

\* The categories that raw values name: each once, and none blank.
LEMMA UniqueNames ==
    ASSUME NEW s \in Seq(DOMAIN Name)
    PROVE  LET u == Unique(s) IN
           /\ u \in Seq(Named) /\ Len(u) \in Nat
           /\ \A i \in 1 .. Len(u) : u[i] # None
           /\ \A i, j \in 1 .. Len(u) : u[i] = u[j] => i = j
<1> DEFINE N == Len(s)
           n == [i \in DOMAIN s |-> Name[s[i]]]
           I == {i \in DOMAIN n : n[i] # None /\ \A j \in 1 .. i - 1 : n[j] # n[i]}
           m == Cardinality(I)
           q == Picked(n, I)
<1>1. N \in Nat /\ DOMAIN n = 1 .. N /\ I \subseteq 1 .. N
      /\ \A i \in 1 .. N : n[i] \in Named
    BY DEF Named
<1>2. \A i, j \in I : n[i] = n[j] => i = j
    <2> SUFFICES ASSUME NEW i \in I, NEW j \in I, n[i] = n[j], i # j PROVE FALSE
        OBVIOUS
    <2>1. i \in 1 .. N /\ j \in 1 .. N /\ i \in Int /\ j \in Int
        BY <1>1
    <2>2. \A k \in 1 .. i - 1 : n[k] # n[i]
        OBVIOUS
    <2>3. \A k \in 1 .. j - 1 : n[k] # n[j]
        OBVIOUS
    <2>4. CASE i < j
        <3>1. i \in 1 .. j - 1
            BY <2>1, <2>4
        <3> QED
            BY <2>3, <3>1
    <2>5. CASE j < i
        <3>1. j \in 1 .. i - 1
            BY <2>1, <2>5
        <3> QED
            BY <2>2, <3>1
    <2> QED
        BY <2>1, <2>4, <2>5
<1>3. \A i \in I : n[i] # None
    OBVIOUS
<1>4. Unique(s) = q
    BY DEF Unique
<1> HIDE DEF N, n, I
<1>5. /\ m \in Nat /\ q = [k \in 1 .. m |-> q[k]]
      /\ \A k \in 1 .. m : \E i \in I : q[k] = n[i]
      /\ \A i, j \in 1 .. m : q[i] = q[j] => i = j
    BY <1>1, <1>2, PickedElements
<1> HIDE DEF m, q
<1>6. \A k \in 1 .. m : q[k] \in Named /\ q[k] # None
    BY <1>1, <1>3, <1>5
<1>7. q \in Seq(Named) /\ Len(q) = m
    BY <1>5, <1>6
<1> QED
    BY <1>4, <1>5, <1>6, <1>7

\* A plan names distinct categories, or it is one section without a category.
LEMMA PlanFacts ==
    ASSUME NEW affinity \in Affinities
    PROVE  LET plan == Planned(affinity) IN
           /\ plan \in Seq(Named) /\ Len(plan) \in Nat \ {0}
           /\ \A i, j \in DOMAIN plan : plan[i] = plan[j] => i = j
           /\ \A i \in DOMAIN plan : plan[i] = None => Len(plan) = 1
<1>1. ASSUME NEW u \in Seq(Named), u # <<>>, \A i \in 1 .. Len(u) : u[i] # None,
             \A i, j \in 1 .. Len(u) : u[i] = u[j] => i = j
      PROVE  LET plan == First(2, u) IN
             /\ plan \in Seq(Named) /\ Len(plan) \in Nat \ {0}
             /\ \A i, j \in DOMAIN plan : plan[i] = plan[j] => i = j
             /\ \A i \in DOMAIN plan : plan[i] # None
    <2> DEFINE m == Len(u)
               two == 2
               plan == First(two, u)
               k == Len(plan)
    <2>0. two \in Nat /\ two # 0
        OBVIOUS
    <2>1. m \in Nat /\ m # 0 /\ u \in [1 .. m -> Named]
        BY <1>1
    <2> HIDE DEF m, two
    <2>2. LET l == First(two, u) IN
          /\ l \in Seq(Named) /\ Len(l) <= two /\ Len(l) <= m
          /\ \A i \in 1 .. Len(l) : l[i] = u[i]
          /\ Len(l) < m => Len(l) = two
        BY <2>0, <2>1, FirstOfList
    <2>3. /\ plan \in Seq(Named) /\ DOMAIN plan = 1 .. k /\ k \in Nat /\ k <= m
          /\ \A i \in 1 .. k : plan[i] = u[i]
          /\ k < m => k = two
        BY <2>2
    <2> HIDE DEF plan, k
    <2>4. k # 0
        BY <2>0, <2>1, <2>3
    <2>5. \A i \in 1 .. k : i \in 1 .. m
        BY <2>1, <2>3
    <2>6. \A i, j \in DOMAIN plan : plan[i] = plan[j] => i = j
        BY <1>1, <2>3, <2>5 DEF m
    <2>7. \A i \in DOMAIN plan : plan[i] # None
        BY <1>1, <2>3, <2>5 DEF m
    <2> QED
        BY <2>3, <2>4, <2>6, <2>7 DEF plan, k, two
<1>2. affinity[1] \in Seq(DOMAIN Name) /\ affinity[2] \in Seq(DOMAIN Name)
    BY HomeAssumption
<1> DEFINE a == Unique(affinity[1])
           b == Unique(affinity[2])
<1>3. /\ a \in Seq(Named) /\ \A i \in 1 .. Len(a) : a[i] # None
      /\ \A i, j \in 1 .. Len(a) : a[i] = a[j] => i = j
    BY <1>2, UniqueNames
<1>4. /\ b \in Seq(Named) /\ \A i \in 1 .. Len(b) : b[i] # None
      /\ \A i, j \in 1 .. Len(b) : b[i] = b[j] => i = j
    BY <1>2, UniqueNames
<1>5. Planned(affinity) = IF a # <<>> THEN First(2, a) ELSE IF b # <<>> THEN First(2, b) ELSE <<None>>
    BY DEF Planned
<1> HIDE DEF a, b
<1>6. CASE a # <<>>
    BY <1>1, <1>3, <1>5, <1>6
<1>7. CASE a = <<>> /\ b # <<>>
    BY <1>1, <1>4, <1>5, <1>7
<1>8. CASE a = <<>> /\ b = <<>>
    <2>1. Planned(affinity) = <<None>>
        BY <1>5, <1>8
    <2>2. None \in Named
        BY DEF Named
    <2> QED
        BY <2>1, <2>2
<1> QED
    BY <1>6, <1>7, <1>8

\* A section's share of the page is a product at least.
LEMMA ShareIsPositive ==
    ASSUME NEW h, h.limit \in Nat \ {0}, Len(h.plan) \in Nat \ {0}
    PROVE  PerSection(h) \in Nat \ {0}
<1> DEFINE n == Len(h.plan)
           x == h.limit + n - 1
           share == x \div n
<1>1. n \in Nat \ {0} /\ x \in Int /\ x >= n
    OBVIOUS
<1>2. PerSection(h) = IF share < SectionCap THEN share ELSE SectionCap
    BY DEF PerSection
<1> HIDE DEF n, x
<1>3. share \in Int /\ share >= 1
    BY <1>1
<1> HIDE DEF share
<1>4. SectionCap \in Nat \ {0}
    BY HomeAssumption
<1> QED
    BY <1>2, <1>3, <1>4
-----------------------------------------------------------------------------
(* Requests under a page.                                                  *)

\* A step of the agent keeps what the request asks for, and ends in an answer.
LEMMA WorkKeeps ==
    ASSUME Shape(req), Work
    PROVE  /\ req'.c = req.c /\ req'.strategy = req.strategy /\ req'.size = req.size
           /\ req'.edited = req.edited
           /\ req'.step = "idle" => req'.status \in {"SUCCESS", "NO_RESULTS", "FAILED"}
           /\ UNCHANGED <<product, stock, edits, requests>>
<1> DEFINE Kept(b) == b.c = req.c /\ b.strategy = req.strategy /\ b.size = req.size
                      /\ b.edited = req.edited
           Closed(b) == b.step = "idle" => b.status \in {"SUCCESS", "NO_RESULTS", "FAILED"}
<1>1. UNCHANGED <<product, stock, edits, requests>>
    BY DEF Work, ToolFails, Structured, Source, Semantic, Details, Inventory, Rank, catalogue, counters
<1>2. ASSUME NEW status \in {"SUCCESS", "NO_RESULTS", "FAILED"}, NEW list, Finish(status, list)
      PROVE  Kept(req') /\ Closed(req')
    <2>1. req' = [req EXCEPT !.step = "idle", !.status = status, !.result = list]
        BY <1>2 DEF Finish, Go
    <2> QED
        BY <1>2, <2>1 DEF Shape, Fields
<1>3. CASE ToolFails
    <2>1. Finish("FAILED", <<>>)
        BY <1>3 DEF ToolFails
    <2> QED
        BY <1>1, <1>2, <2>1
<1>4. CASE Structured
    <2> DEFINE matches == Search(product, req.c)
               details == [s \in matches |-> product[s]]
    <2>1. \/ Finish("NO_RESULTS", <<>>) \/ Finish("FAILED", <<>>)
          \/ req' = [req EXCEPT !.step = "inventory", !.matches = matches, !.details = details]
        BY <1>4 DEF Structured, Go
    <2> HIDE DEF matches, details
    <2>2. CASE req' = [req EXCEPT !.step = "inventory", !.matches = matches, !.details = details]
        <3>1. Kept(req') /\ req'.step = "inventory"
            BY <2>2 DEF Shape, Fields
        <3> QED
            BY <1>1, <3>1
    <2> QED
        BY <1>1, <1>2, <2>1, <2>2
<1>5. CASE Source
    <2> DEFINE filter == [req.filter EXCEPT !["category"] = product[req.selected].category,
                                            !["occasion"] = None]
    <2>1. req' = [req EXCEPT !.step = "nearest", !.filter = filter]
        BY <1>5 DEF Source, Go
    <2> HIDE DEF filter
    <2>2. Kept(req') /\ req'.step = "nearest"
        BY <2>1 DEF Shape, Fields
    <2> QED
        BY <1>1, <2>2
<1>6. CASE Semantic
    <2> DEFINE matches == Nearest(index', req.filter) \ {req.selected}
    <2>1. req' = [req EXCEPT !.step = "details", !.matches = matches]
        BY <1>6 DEF Semantic, Go
    <2> HIDE DEF matches
    <2>2. Kept(req') /\ req'.step = "details"
        BY <2>1 DEF Shape, Fields
    <2> QED
        BY <1>1, <2>2
<1>7. CASE Details
    <2> DEFINE details == [s \in req.matches |-> product[s]]
    <2>1. Finish("NO_RESULTS", <<>>) \/ req' = [req EXCEPT !.step = "inventory", !.details = details]
        BY <1>7 DEF Details, Go
    <2> HIDE DEF details
    <2>2. CASE req' = [req EXCEPT !.step = "inventory", !.details = details]
        <3>1. Kept(req') /\ req'.step = "inventory"
            BY <2>2 DEF Shape, Fields
        <3> QED
            BY <1>1, <3>1
    <2> QED
        BY <1>1, <1>2, <2>1, <2>2
<1>8. CASE Inventory
    <2> DEFINE available == stock \cap req.matches
    <2>1. req' = [req EXCEPT !.step = "rank", !.available = available]
        BY <1>8 DEF Inventory, Go
    <2> HIDE DEF available
    <2>2. Kept(req') /\ req'.step = "rank"
        BY <2>1 DEF Shape, Fields
    <2> QED
        BY <1>1, <2>2
<1>9. CASE Rank
    <2> DEFINE ranked == Ranked(Eligible(req), req.details, req.c, IsSemantic(req))
               status == IF ranked = <<>> THEN "NO_RESULTS" ELSE "SUCCESS"
               list == First(req.size, ranked)
    <2>1. Finish(status, list)
        BY <1>9 DEF Rank
    <2>2. status \in {"SUCCESS", "NO_RESULTS", "FAILED"}
        OBVIOUS
    <2> HIDE DEF status, list
    <2> QED
        BY <1>1, <1>2, <2>1, <2>2
<1> QED
    BY <1>3, <1>4, <1>5, <1>6, <1>7, <1>8, <1>9 DEF Work

\* An answer lists products once.
LEMMA AnswerIsDistinct ==
    ASSUME SearchInv
    PROVE  /\ req.result \in Seq(Sku)
           /\ \A i, j \in DOMAIN req.result : req.result[i] = req.result[j] => i = j
<1> DEFINE S == Eligible(req)
           d == req.details
           l == req.result
<1>1. StoreInv /\ ReadInv(req) /\ ShownInv(req)
    BY DEF SearchInv
<1>2. CASE req.status # "SUCCESS"
    <2>1. l = <<>>
        BY <1>1, <1>2 DEF ShownInv
    <2> QED
        BY <2>1
<1>3. CASE req.status = "SUCCESS"
    <2>1. Described(req)
        BY <1>3 DEF Described
    <2>2. S \subseteq Sku /\ \A s \in S : d[s] \in Rows
        BY <1>1, <2>1, EligibleFacts
    <2>3. ToSet(l) \subseteq S /\ \A i, j \in DOMAIN l : i < j =>
              Outranks(l[i], l[j], d, req.c, IsSemantic(req))
        BY <1>3, ResultFacts
    <2>4. l \in Seq(S)
        BY <1>3, ResultFacts
    <2>5. \A s \in S : ~Outranks(s, s, d, req.c, IsSemantic(req))
        <3> TAKE s \in S
        <3>1. Total(s, d[s], req.c, IsSemantic(req)) \in Int /\ s \in Int
              /\ d[s].price \in Nat \cup {NoPrice}
            BY <2>2, TotalIsNumber, ProductFacts, CatalogueAssumption
        <3> QED
            BY <3>1 DEF Outranks, Cheaper, NoPrice
    <2>6. \A i \in DOMAIN l : l[i] \in S /\ i \in Int
        BY <2>4
    <2> HIDE DEF l, S, d
    <2>7. ASSUME NEW i \in DOMAIN l, NEW j \in DOMAIN l, l[i] = l[j], i # j PROVE FALSE
        <3>1. i < j \/ j < i
            BY <2>6, <2>7
        <3> QED
            BY <2>3, <2>5, <2>6, <2>7, <3>1
    <2>8. l \in Seq(Sku)
        BY <2>2, <2>4
    <2> QED
        BY <2>7, <2>8 DEF l
<1> QED
    BY <1>2, <1>3

-----------------------------------------------------------------------------
(* Steps that leave the page as it is.                                     *)

\* The products of a page do not depend on the place it has come to.
LEMMA SameProducts ==
    ASSUME NEW h, NEW g, PageInv(h), g.limit = h.limit, g.seen = h.seen,
           g.sections = h.sections, PerSection(g) = PerSection(h),
           g.step = h.step \/ g.step # "idle"
    PROVE  PageInv(g)
BY DEF PageInv

\* What a page has does not depend on how it ends or whether something was edited.
LEMMA SamePage ==
    ASSUME NEW h, NEW g, PlanInv(h), PageInv(h), HomeShape(g),
           g.limit = h.limit, g.plan = h.plan, g.next = h.next, g.seen = h.seen,
           g.sections = h.sections,
           \/ g.step = h.step
           \/ h.step # "idle" /\ g.step \in {"failed", "done"}
    PROVE  PlanInv(g) /\ PageInv(g) /\ PerSection(g) = PerSection(h) /\ Remaining(g) = Remaining(h)
<1>1. PerSection(g) = PerSection(h) /\ Remaining(g) = Remaining(h)
    BY DEF PerSection, Remaining
<1>2. PlanInv(g)
    BY DEF PlanInv
<1>3. PageInv(g)
    BY <1>1, SameProducts
<1> QED
    BY <1>1, <1>2, <1>3

\* While the catalogue keeps still, so does what its sections cover.
LEMMA CoverKept ==
    ASSUME CoverInv(home), UNCHANGED <<product, stock>>, home' = home
    PROVE  CoverInv(home)'
<1>1. \A category : Matching(category)' = Matching(category) /\ InCategory(category)' = InCategory(category)
    BY DEF Matching, InCategory
<1>2. \A i : Covered(home, i)' <=> Covered(home, i)
    BY <1>1 DEF Covered
<1>3. \A j : Belongs(home, j)' <=> Belongs(home, j)
    BY DEF Belongs
<1> QED
    BY <1>2, <1>3 DEF CoverInv
-----------------------------------------------------------------------------
(* What a section asks for.                                                *)

\* The criteria of a section: its category and the customer's gender.
LEMMA SectionFields ==
    ASSUME NEW category
    PROVE  LET c == SectionCriteria(category) IN
           /\ c.gender = Context.gender /\ c.category = category
           /\ c.subcategory = None /\ c.occasion = None /\ c.size = None
           /\ c.colors = {} /\ c.styles = {} /\ c.min = NoPrice /\ c.max = NoPrice
           /\ category # None => Strategy(c, FALSE, NoSku) = "STRUCTURED"
<1> DEFINE supplied == [NoCriteria EXCEPT !.category = category]
           session == [category |-> category, occasion |-> None, size |-> None]
           c == Criteria(supplied, Silent, session)
<1>1. /\ supplied.gender = None /\ supplied.category = category /\ supplied.subcategory = None
      /\ supplied.occasion = None /\ supplied.size = None /\ supplied.colors = {}
      /\ supplied.styles = {} /\ supplied.min = NoPrice /\ supplied.max = NoPrice
      /\ supplied.semantic = FALSE
    BY DEF NoCriteria
<1>2. /\ Silent.gender = None /\ Silent.category = None /\ Silent.subcategory = None
      /\ Silent.occasion = None /\ Silent.size = None /\ Silent.colors = {}
      /\ Silent.styles = {} /\ Silent.min = NoPrice /\ Silent.max = NoPrice
      /\ Silent.semantic = FALSE
    BY DEF Silent
<1>3. session.category = category /\ session.occasion = None /\ session.size = None
    OBVIOUS
<1> HIDE DEF supplied, session
<1>4. /\ c.gender = Context.gender /\ c.category = category
      /\ c.subcategory = None /\ c.occasion = None /\ c.size = None
      /\ c.colors = {} /\ c.styles = {} /\ c.min = NoPrice /\ c.max = NoPrice
    BY <1>1, <1>2, <1>3 DEF Criteria, Either, EitherSet, EitherPrice
<1>5. category # None => ~c.semantic
    BY <1>1, <1>2, <1>3 DEF Criteria, Either, EitherSet, EitherPrice
<1>6. SectionCriteria(category) = c
    BY DEF SectionCriteria, supplied, session
<1> HIDE DEF c
<1>7. category # None => Strategy(c, FALSE, NoSku) = "STRUCTURED"
    BY <1>5 DEF Strategy
<1> QED
    BY <1>4, <1>6, <1>7

\* The products that fit a section.
LEMMA SectionFits ==
    ASSUME NEW category, category # None, NEW p
    PROVE  Fits(p, SectionCriteria(category)) <=>
             p.active /\ p.category = category /\ Context.gender \in {None, p.gender}
<1> DEFINE c == SectionCriteria(category)
<1>1. /\ c.gender = Context.gender /\ c.category = category
      /\ c.subcategory = None /\ c.occasion = None /\ c.size = None
      /\ c.colors = {} /\ c.styles = {} /\ c.min = NoPrice /\ c.max = NoPrice
    BY SectionFields
<1> HIDE DEF c
<1> QED
    BY <1>1 DEF Fits, Scalar, c

\* What an answer says of the category of a section.
LEMMA SectionAnswer ==
    ASSUME SearchInv, NEW category, category # None, req.c = SectionCriteria(category),
           req.strategy = "STRUCTURED", ~req.edited, req.status \in {"SUCCESS", "NO_RESULTS"}
    PROVE  /\ \A s \in ToSet(req.result) : product[s].category = category
           /\ Cardinality(Matching(category)) <= Limit =>
                 \A s \in InCategory(category) \ ToSet(req.result) : Len(req.result) = req.size
<1>1. StoreInv /\ ReadInv(req) /\ StillInv(req) /\ NothingBetterIsLeftOut
    BY NothingBetter DEF SearchInv
<1>2. \A p : Fits(p, req.c) <=>
                p.active /\ p.category = category /\ Context.gender \in {None, p.gender}
    BY SectionFits
<1>3. \A s \in ToSet(req.result) : product[s].category = category
    <2> TAKE s \in ToSet(req.result)
    <2>1. s \in Eligible(req) /\ Described(req)
        BY ResultFacts
    <2>2. req.details[s] = product[s] /\ Fits(req.details[s], req.c)
        BY <1>1, <2>1, EligibleFacts DEF StillInv, Eligible
    <2> QED
        BY <1>2, <2>2
<1>4. ASSUME Cardinality(Matching(category)) <= Limit, NEW s \in InCategory(category) \ ToSet(req.result)
      PROVE  Len(req.result) = req.size
    <2>1. Matching(category) = {t \in Sku : Fits(product[t], req.c)}
        BY <1>2 DEF Matching
    <2>2. s \in Worthy \ ToSet(req.result)
        BY <1>2, <1>4 DEF Worthy, InCategory, Matching
    <2> QED
        BY <1>1, <1>4, <2>1, <2>2 DEF NothingBetterIsLeftOut
<1> QED
    BY <1>3, <1>4

\* The rest of a page's limit is a number.
LEMMA RemainingIsNumber ==
    ASSUME NEW h, PlanInv(h), PageInv(h)
    PROVE  Remaining(h) \in Nat /\ IsFiniteSet(h.seen) /\ Cardinality(h.seen) \in Nat
           /\ Remaining(h) = h.limit - Cardinality(h.seen)
<1>1. h.seen \subseteq Sku /\ h.limit \in Nat /\ Cardinality(h.seen) <= h.limit
    BY DEF PlanInv, PageInv
<1>2. IsFiniteSet(h.seen) /\ Cardinality(h.seen) \in Nat
    BY <1>1, ProductFacts, FS_Subset, FS_CardinalityType
<1> QED
    BY <1>1, <1>2 DEF Remaining

-----------------------------------------------------------------------------
(* The steps of a page.                                                    *)

\* The invariant of a new page state, while the catalogue keeps still.
LEMMA CoverMoved ==
    ASSUME NEW g, home' = g, UNCHANGED <<product, stock>>, CoverInv(g)
    PROVE  CoverInv(home)'
<1>1. \A category : Matching(category)' = Matching(category) /\ InCategory(category)' = InCategory(category)
    BY DEF Matching, InCategory
<1>2. \A i : Covered(home, i)' <=> Covered(g, i)
    BY <1>1 DEF Covered
<1>3. \A j : Belongs(home, j)' <=> Belongs(g, j)
    BY DEF Belongs
<1> QED
    BY <1>2, <1>3 DEF CoverInv

\* What is covered is a matter of the plan, the products and the sections.
LEMMA SameCover ==
    ASSUME NEW h, NEW g, g.limit = h.limit, g.plan = h.plan, g.next = h.next, g.seen = h.seen,
           g.sections = h.sections, PerSection(g) = PerSection(h), Remaining(g) = Remaining(h)
    PROVE  /\ \A i : Covered(g, i) <=> Covered(h, i)
           /\ \A j : Belongs(g, j) <=> Belongs(h, j)
BY DEF Covered, Belongs

\* Discovery works for the page, or for another asker.
LEMMA WorkPage ==
    ASSUME HomeInv, Work, UNCHANGED home
    PROVE  HomeInv'
<1>1. SearchInv /\ PlanInv(home) /\ PageInv(home) /\ AskedInv(home, req) /\ CoverInv(home)
    BY DEF HomeInv
<1>2. SearchInv'
    BY <1>1, WorkInv
<1>3. /\ req'.c = req.c /\ req'.strategy = req.strategy /\ req'.size = req.size
      /\ req'.edited = req.edited
      /\ req'.step = "idle" => req'.status \in {"SUCCESS", "NO_RESULTS", "FAILED"}
      /\ UNCHANGED <<product, stock>>
    BY <1>1, WorkKeeps DEF SearchInv, ReadInv
<1>4. AskedInv(home, req)'
    BY <1>1, <1>3 DEF AskedInv
<1>5. CoverInv(home)'
    BY <1>1, <1>3, CoverKept
<1>6. PlanInv(home)' /\ PageInv(home)'
    BY <1>1 DEF PlanInv, PageInv
<1> QED
    BY <1>2, <1>4, <1>5, <1>6 DEF HomeInv

\* A user asks while no page is built.
LEMMA AskPage ==
    ASSUME HomeInv, home.step # "build", UNCHANGED home, SearchInv', UNCHANGED <<product, stock>>
    PROVE  HomeInv'
<1>1. PlanInv(home) /\ PageInv(home) /\ CoverInv(home)
    BY DEF HomeInv
<1>2. AskedInv(home, req)'
    BY DEF AskedInv, Building
<1>3. CoverInv(home)'
    BY <1>1, CoverKept
<1>4. PlanInv(home)' /\ PageInv(home)'
    BY <1>1 DEF PlanInv, PageInv
<1> QED
    BY <1>2, <1>3, <1>4 DEF HomeInv

\* An edit marks the page.
LEMMA EditPage ==
    ASSUME HomeInv, NEW s \in Sku, Edit(s), home' = [home EXCEPT !.edited = TRUE]
    PROVE  HomeInv'
<1> DEFINE g == [home EXCEPT !.edited = TRUE]
<1>1. SearchInv /\ PlanInv(home) /\ PageInv(home) /\ AskedInv(home, req) /\ HomeShape(home)
      /\ Shape(req) /\ req' = [req EXCEPT !.edited = TRUE]
    BY DEF HomeInv, SearchInv, ReadInv, PlanInv, Edit, Go
<1>2. /\ HomeShape(g) /\ g.step = home.step /\ g.limit = home.limit /\ g.plan = home.plan
      /\ g.next = home.next /\ g.asked = home.asked /\ g.seen = home.seen
      /\ g.sections = home.sections /\ g.edited = TRUE
    BY <1>1 DEF HomeShape, HomeFields
<1>3. /\ req'.c = req.c /\ req'.strategy = req.strategy /\ req'.size = req.size
      /\ req'.step = req.step /\ req'.status = req.status
    BY <1>1 DEF Shape, Fields
<1>4. home' = g
    OBVIOUS
<1> HIDE DEF g
<1>5. PlanInv(g) /\ PageInv(g) /\ PerSection(g) = PerSection(home) /\ Remaining(g) = Remaining(home)
    BY <1>1, <1>2, SamePage
<1>6. AskedInv(g, req')
    BY <1>1, <1>2, <1>3, <1>5 DEF AskedInv, Building
<1>7. CoverInv(home)'
    BY <1>2, <1>4 DEF CoverInv
<1>8. SearchInv'
    BY <1>1, EditInv
<1> QED
    BY <1>4, <1>5, <1>6, <1>7, <1>8 DEF HomeInv

\* The fields of no page.
LEMMA NoHomeFields ==
    /\ HomeShape(NoHome) /\ NoHome.step = "idle" /\ NoHome.limit = 1 /\ NoHome.plan = <<>>
    /\ NoHome.next = 1 /\ NoHome.asked = FALSE /\ NoHome.seen = {} /\ NoHome.sections = <<>>
    /\ NoHome.edited = FALSE
<1>1. HomeShape(NoHome)
    BY DEF HomeShape, HomeFields, NoHome
<1> QED
    BY <1>1 DEF NoHome

\* A page that has shown nothing yet.
LEMMA EmptyPage ==
    ASSUME NEW h, h.seen = {}, h.sections = <<>>, h.limit \in Nat
    PROVE  PageInv(h)
<1>1. Cardinality(h.seen) = 0
    BY FS_EmptySet
<1>2. DOMAIN h.sections = {} /\ h.sections \in Seq(Section)
    OBVIOUS
<1> QED
    BY <1>1, <1>2 DEF PageInv

\* No page has a plan.
LEMMA NoHomeInv == PlanInv(NoHome) /\ PageInv(NoHome) /\ ~Building(NoHome)
<1>1. PlanInv(NoHome)
    <2>1. DOMAIN NoHome.plan = {} /\ NoHome.plan \in Seq(Named)
        BY NoHomeFields
    <2> QED
        BY <2>1, NoHomeFields DEF PlanInv
<1>2. PageInv(NoHome)
    BY NoHomeFields, EmptyPage
<1> QED
    BY <1>1, <1>2, NoHomeFields DEF Building

\* A restart forgets the page.
LEMMA RestartPage ==
    ASSUME HomeInv, Restart, home' = NoHome
    PROVE  HomeInv'
<1>1. SearchInv'
    BY RestartInv DEF HomeInv
<1>2. CoverInv(home)'
    BY NoHomeFields DEF CoverInv
<1>3. AskedInv(home, req)'
    BY NoHomeInv DEF AskedInv
<1> QED
    BY <1>1, <1>2, <1>3, NoHomeInv DEF HomeInv

\* A page begins with a plan.
LEMMA StartPage ==
    ASSUME HomeInv, NEW affinity \in Affinities, NEW limit \in HomeLimits,
           HomeStart(affinity, limit)
    PROVE  HomeInv'
<1> DEFINE plan == Planned(affinity)
           g == [NoHome EXCEPT !.step = "build", !.limit = limit, !.plan = plan]
<1>1. /\ home' = g /\ UNCHANGED <<product, stock, index, req, held, stocked, edits>>
      /\ requests < MaxRequests /\ requests' = requests + 1
    BY DEF HomeStart, catalogue
<1>2. /\ plan \in Seq(Named) /\ Len(plan) \in Nat \ {0}
      /\ \A i, j \in DOMAIN plan : plan[i] = plan[j] => i = j
      /\ \A i \in DOMAIN plan : plan[i] = None => Len(plan) = 1
    BY PlanFacts
<1> HIDE DEF plan
<1>3. /\ HomeShape(g) /\ g.step = "build" /\ g.limit = limit /\ g.plan = plan
      /\ g.next = 1 /\ g.asked = FALSE /\ g.seen = {} /\ g.sections = <<>> /\ g.edited = FALSE
    BY NoHomeFields DEF HomeShape, HomeFields
<1> HIDE DEF g
<1>4. limit \in Nat \ {0}
    BY HomeAssumption
<1>5. PlanInv(g)
    BY <1>2, <1>3, <1>4 DEF PlanInv
<1>6. PageInv(g)
    BY <1>3, <1>4, EmptyPage
<1>7. AskedInv(g, req)
    BY <1>3 DEF AskedInv, Building
<1>8. CoverInv(g)
    <2>1. DOMAIN g.sections = {} /\ 1 .. g.next - 1 = {}
        BY <1>3
    <2> QED
        BY <1>3, <2>1 DEF CoverInv
<1>9. CoverInv(home)'
    BY <1>1, <1>8, CoverMoved
<1>10. SearchInv'
    <2>1. StoreInv /\ ReadInv(req) /\ ShownInv(req) /\ StillInv(req)
        BY DEF HomeInv, SearchInv
    <2>2. StoreInv'
        BY <1>1, <2>1, SearchBounds DEF StoreInv
    <2>3. ReadInv(req)'
        BY <1>1, <2>1 DEF ReadInv, Described
    <2>4. ShownInv(req)'
        BY <1>1, <2>1 DEF ShownInv
    <2>5. StillInv(req)'
        BY <1>1, <2>1 DEF StillInv, Stocked, Matched
    <2> QED
        BY <2>2, <2>3, <2>4, <2>5 DEF SearchInv
<1> QED
    BY <1>1, <1>5, <1>6, <1>7, <1>9, <1>10 DEF HomeInv

\* A section begins with a request of its own.
LEMMA AskSectionPage ==
    ASSUME HomeInv, AskSection
    PROVE  HomeInv'
<1> DEFINE category == home.plan[home.next]
           c == SectionCriteria(category)
           n == Least(PerSection(home), Remaining(home))
           filter == [f \in Indexed |-> c[f]]
           strategy == Strategy(c, FALSE, NoSku)
           r == [Idle EXCEPT !.step = "retrieve", !.c = c, !.size = n, !.filter = filter,
                             !.strategy = strategy]
           g == [home EXCEPT !.asked = TRUE]
<1>1. /\ home.step = "build" /\ ~home.asked /\ home.next <= Len(home.plan) /\ Remaining(home) > 0
      /\ req' = r /\ home' = g
      /\ held' = [s \in Sku |-> {product[s]}] /\ stocked' = stock
      /\ UNCHANGED <<product, stock, index, edits, requests>>
    BY DEF AskSection, SectionCriteria, catalogue, counters
<1>2. SearchInv /\ StoreInv /\ PlanInv(home) /\ PageInv(home) /\ CoverInv(home) /\ HomeShape(home)
    BY DEF HomeInv, SearchInv, PlanInv
<1>3. n \in Nat \ {0}
    <2>1. Len(home.plan) \in Nat \ {0} /\ home.limit \in Nat \ {0}
        BY <1>1, <1>2 DEF PlanInv
    <2>2. PerSection(home) \in Nat \ {0}
        BY <2>1, ShareIsPositive
    <2>3. Remaining(home) \in Nat
        BY <1>2, RemainingIsNumber
    <2> QED
        BY <1>1, <2>2, <2>3 DEF Least
<1>4. category # None => strategy = "STRUCTURED"
    BY SectionFields
<1> HIDE DEF category, c, n, filter, strategy
<1>5. /\ Shape(r) /\ r.step = "retrieve" /\ r.c = c /\ r.size = n /\ r.filter = filter
      /\ r.strategy = strategy /\ r.status = None /\ r.result = <<>> /\ r.matches = {}
      /\ DOMAIN r.details = {} /\ r.available = {} /\ r.edited = FALSE
    BY IdleFields DEF Shape, Fields
<1>6. /\ HomeShape(g) /\ g.step = home.step /\ g.limit = home.limit /\ g.plan = home.plan
      /\ g.next = home.next /\ g.asked = TRUE /\ g.seen = home.seen
      /\ g.sections = home.sections /\ g.edited = home.edited
    BY <1>2 DEF HomeShape, HomeFields
<1> HIDE DEF r, g
<1>7. Begins(r, c, n)
    BY <1>5 DEF Begins, filter
<1>8. SearchInv'
    <2>1. requests' \in 0 .. MaxRequests
        BY <1>1, <1>2 DEF StoreInv
    <2> QED
        BY <1>1, <1>2, <1>3, <1>7, <2>1, BegunInv
<1>9. PlanInv(g) /\ PageInv(g) /\ PerSection(g) = PerSection(home) /\ Remaining(g) = Remaining(home)
    BY <1>2, <1>6, SamePage
<1>10. AskedInv(g, r)
    BY <1>1, <1>4, <1>5, <1>6, <1>9 DEF AskedInv, category, c, n
<1>11. CoverInv(g)
    <2>1. /\ \A i : Covered(g, i) <=> Covered(home, i)
          /\ \A j : Belongs(g, j) <=> Belongs(home, j)
        BY <1>6, <1>9, SameCover
    <2> QED
        BY <1>1, <1>2, <1>6, <1>9, <2>1 DEF CoverInv
<1>12. CoverInv(home)'
    BY <1>1, <1>11, CoverMoved
<1> QED
    BY <1>1, <1>8, <1>9, <1>10, <1>12 DEF HomeInv

\* A page that ends keeps what it has.
LEMMA EndPage ==
    ASSUME HomeInv, home.step = "build", NEW end \in {"failed", "done"},
           home' = [home EXCEPT !.step = end], UNCHANGED vars,
           end = "done" => home.next > Len(home.plan) \/ Remaining(home) <= 0
    PROVE  HomeInv'
<1> DEFINE g == [home EXCEPT !.step = end]
<1>1. SearchInv /\ PlanInv(home) /\ PageInv(home) /\ CoverInv(home) /\ HomeShape(home)
    BY DEF HomeInv, PlanInv
<1>2. /\ HomeShape(g) /\ g.step = end /\ g.limit = home.limit /\ g.plan = home.plan
      /\ g.next = home.next /\ g.asked = home.asked /\ g.seen = home.seen
      /\ g.sections = home.sections /\ g.edited = home.edited
    BY <1>1 DEF HomeShape, HomeFields
<1>3. home' = g
    OBVIOUS
<1> HIDE DEF g
<1>4. PlanInv(g) /\ PageInv(g) /\ PerSection(g) = PerSection(home) /\ Remaining(g) = Remaining(home)
    BY <1>1, <1>2, SamePage
<1>5. AskedInv(home, req)'
    BY <1>2, <1>3 DEF AskedInv, Building
<1>6. CoverInv(g)
    <2>1. /\ \A i : Covered(g, i) <=> Covered(home, i)
          /\ \A j : Belongs(g, j) <=> Belongs(home, j)
        BY <1>2, <1>4, SameCover
    <2>2. end = "done" => g.next > Len(g.plan) \/ Remaining(g) = 0
        BY <1>1, <1>2, <1>4, RemainingIsNumber
    <2> QED
        BY <1>1, <1>2, <2>1, <2>2 DEF CoverInv
<1>7. CoverInv(home)'
    BY <1>3, <1>6, CoverMoved DEF vars
<1>8. SearchInv'
    BY <1>1, SearchStutter
<1> QED
    BY <1>3, <1>4, <1>5, <1>7, <1>8 DEF HomeInv

\* Products are added to a page that has room for them.
LEMMA RoomForProducts ==
    ASSUME NEW h, PlanInv(h), PageInv(h), NEW added \in Seq(Sku),
           \A i, j \in DOMAIN added : added[i] = added[j] => i = j,
           ToSet(added) \cap h.seen = {}, Len(added) <= Remaining(h)
    PROVE  Cardinality(h.seen \cup ToSet(added)) = Cardinality(h.seen) + Len(added)
<1>1. IsFiniteSet(h.seen) /\ Cardinality(h.seen) \in Nat
    BY RemainingIsNumber
<1>2. IsFiniteSet(ToSet(added)) /\ Cardinality(ToSet(added)) = Len(added)
    BY DistinctList
<1>3. Cardinality(h.seen \cup ToSet(added)) =
          Cardinality(h.seen) + Cardinality(ToSet(added)) - Cardinality(h.seen \cap ToSet(added))
    BY <1>1, <1>2, FS_Union
<1>4. h.seen \cap ToSet(added) = {} /\ Cardinality({}) = 0
    BY FS_EmptySet
<1>5. Cardinality(h.seen \cap ToSet(added)) = 0
    BY <1>4
<1> DEFINE a == Cardinality(h.seen)
           b == Cardinality(ToSet(added))
<1>6. a \in Nat /\ b = Len(added) /\ Len(added) \in Nat
      /\ Cardinality(h.seen \cup ToSet(added)) = a + b - 0
    BY <1>1, <1>2, <1>3, <1>5
<1> HIDE DEF a, b
<1>7. Cardinality(h.seen \cup ToSet(added)) = a + Len(added)
    BY <1>6
<1> QED
    BY <1>7 DEF a

\* A page with one more section.
LEMMA LongerPage ==
    ASSUME NEW h, NEW g, PageInv(h), PlanInv(h), h.step # "idle", NEW added \in Seq(Sku), Len(added) # 0,
           \A i, j \in DOMAIN added : added[i] = added[j] => i = j,
           ToSet(added) \cap h.seen = {}, Len(added) <= Remaining(h), Len(added) <= PerSection(h),
           NEW category \in Named, PerSection(g) = PerSection(h), PerSection(h) \in Nat,
           g.step = h.step, g.limit = h.limit, g.seen = h.seen \cup ToSet(added),
           g.sections = Append(h.sections, [category |-> category, skus |-> added])
    PROVE  PageInv(g)
<1> DEFINE s == h.sections
           N == Len(s)
           last == [category |-> category, skus |-> added]
           t == g.sections
<1>1. /\ h.seen \subseteq Sku /\ s \in Seq(Section) /\ h.limit \in Nat
      /\ h.seen = UNION {ToSet(s[i].skus) : i \in DOMAIN s}
      /\ \A i, j \in DOMAIN s :
            \A a \in DOMAIN s[i].skus, b \in DOMAIN s[j].skus :
               s[i].skus[a] = s[j].skus[b] => i = j /\ a = b
      /\ \A i \in DOMAIN s : Len(s[i].skus) \in 1 .. PerSection(h)
    BY DEF PageInv, PlanInv
<1>2. last \in Section /\ last.skus = added
    BY DEF Section
<1>3. N \in Nat /\ DOMAIN s = 1 .. N
    BY <1>1
<1> HIDE DEF last
<1>4. t = Append(s, last)
    BY DEF last
<1>5. /\ t \in Seq(Section) /\ DOMAIN t = 1 .. N + 1
      /\ \A i \in 1 .. N : t[i] = s[i]
      /\ t[N + 1] = last
    <2>1. /\ t \in Seq(Section) /\ Len(t) = N + 1
          /\ \A i \in 1 .. N : t[i] = s[i]
          /\ t[N + 1] = last
        BY <1>1, <1>2, <1>4, AppendProperties
    <2> QED
        BY <1>3, <2>1
<1> HIDE DEF s, N, t
<1>6. \A i \in 1 .. N + 1 : i = N + 1 \/ i \in 1 .. N
    BY <1>3
<1>7. ToSet(added) \subseteq Sku
    BY DEF ToSet
<1>8. g.seen = UNION {ToSet(t[i].skus) : i \in DOMAIN t}
    <2>1. \A x : x \in UNION {ToSet(t[i].skus) : i \in DOMAIN t}
                 <=> \E i \in 1 .. N + 1 : x \in ToSet(t[i].skus)
        BY <1>5
    <2>2. \A x : x \in h.seen <=> \E i \in 1 .. N : x \in ToSet(s[i].skus)
        BY <1>1, <1>3
    <2>3. N + 1 \in 1 .. N + 1 /\ \A i \in 1 .. N : i \in 1 .. N + 1
        BY <1>3
    <2>4. \A x : x \in g.seen <=> \E i \in 1 .. N + 1 : x \in ToSet(t[i].skus)
        BY <1>2, <1>5, <1>6, <2>2, <2>3
    <2> QED
        BY <2>1, <2>4
<1>9. Cardinality(g.seen) <= g.limit
    <2>1. Cardinality(h.seen \cup ToSet(added)) = Cardinality(h.seen) + Len(added)
        BY RoomForProducts
    <2>2. Remaining(h) = h.limit - Cardinality(h.seen) /\ Cardinality(h.seen) \in Nat
        BY RemainingIsNumber
    <2>3. Len(added) \in Nat
        OBVIOUS
    <2> QED
        BY <1>1, <2>1, <2>2, <2>3
<1>10. ASSUME NEW i \in DOMAIN t, NEW j \in DOMAIN t,
              NEW a \in DOMAIN t[i].skus, NEW b \in DOMAIN t[j].skus,
              t[i].skus[a] = t[j].skus[b]
       PROVE  i = j /\ a = b
    <2>1. \A k \in 1 .. N : \A x \in DOMAIN s[k].skus : s[k].skus[x] \in h.seen
        BY <1>1, <1>3 DEF ToSet
    <2>2. \A x \in DOMAIN added : added[x] \in ToSet(added)
        BY DEF ToSet
    <2>3. \A x : ~(x \in h.seen /\ x \in ToSet(added))
        OBVIOUS
    <2>4. CASE i \in 1 .. N /\ j \in 1 .. N
        BY <1>1, <1>3, <1>5, <1>10, <2>4
    <2>5. CASE i \in 1 .. N /\ j = N + 1
        <3>1. t[i].skus[a] \in h.seen
            BY <1>5, <1>10, <2>1, <2>5
        <3>2. t[j].skus[b] \in ToSet(added)
            BY <1>2, <1>5, <1>10, <2>2, <2>5
        <3> QED
            BY <1>10, <2>3, <3>1, <3>2
    <2>6. CASE i = N + 1 /\ j \in 1 .. N
        <3>1. t[j].skus[b] \in h.seen
            BY <1>5, <1>10, <2>1, <2>6
        <3>2. t[i].skus[a] \in ToSet(added)
            BY <1>2, <1>5, <1>10, <2>2, <2>6
        <3> QED
            BY <1>10, <2>3, <3>1, <3>2
    <2>7. CASE i = N + 1 /\ j = N + 1
        BY <1>2, <1>5, <1>10, <2>7
    <2> QED
        BY <1>5, <1>6, <2>4, <2>5, <2>6, <2>7
<1>11. \A i \in DOMAIN t : Len(t[i].skus) \in 1 .. PerSection(g)
    <2>1. Len(added) \in 1 .. PerSection(h)
        OBVIOUS
    <2> QED
        BY <1>1, <1>2, <1>3, <1>5, <1>6, <2>1
<1> QED
    BY <1>1, <1>5, <1>7, <1>8, <1>9, <1>10, <1>11 DEF PageInv, t

\* The answer of Discovery: the page has its new products, and the section's
\* category is covered.
LEMMA CollectPage ==
    ASSUME HomeInv, Collect
    PROVE  HomeInv'
<1> DEFINE h == home
           l == req.result
           added == NewProducts(h, l)
           seen == h.seen \cup ToSet(added)
           sections == Shown(h, added)
           category == h.plan[h.next]
           g == [h EXCEPT !.next = h.next + 1, !.asked = FALSE, !.seen = seen, !.sections = sections]
<1>1. h.step = "build" /\ h.asked /\ req.step = "idle" /\ UNCHANGED vars
      /\ home' = IF req.status = "FAILED" THEN [h EXCEPT !.step = "failed"] ELSE g
    BY DEF Collect, Running
<1>2. CASE req.status = "FAILED"
    BY <1>1, <1>2, EndPage
<1>3. CASE req.status # "FAILED"
    <2> USE <1>3
    <2>1. SearchInv /\ PlanInv(h) /\ PageInv(h) /\ CoverInv(h) /\ HomeShape(h) /\ AskedInv(h, req)
        BY DEF HomeInv, PlanInv
    <2>2. /\ h.next <= Len(h.plan) /\ Remaining(h) > 0
          /\ req.size = Least(PerSection(h), Remaining(h))
          /\ req.status \in {"SUCCESS", "NO_RESULTS"}
          /\ req.c = SectionCriteria(category)
          /\ category # None => req.strategy = "STRUCTURED"
          /\ ~h.edited => ~req.edited
        BY <1>1, <2>1 DEF AskedInv, Building
    <2>3. /\ h.limit \in Nat \ {0} /\ Len(h.plan) \in Nat \ {0} /\ h.next \in Nat \ {0}
          /\ category \in Named
          /\ h.next \in DOMAIN h.plan
        BY <1>1, <2>1, <2>2 DEF PlanInv
    <2>4. PerSection(h) \in Nat \ {0} /\ Remaining(h) \in Nat
        BY <2>1, <2>3, ShareIsPositive, RemainingIsNumber
    <2>5. Len(l) <= req.size /\ l \in Seq(Sku) /\ \A i, j \in DOMAIN l : l[i] = l[j] => i = j
        BY <2>1, ResultFacts, AnswerIsDistinct
    <2>6. Len(l) \in Nat /\ Len(l) <= PerSection(h) /\ Len(l) <= Remaining(h)
        BY <2>2, <2>4, <2>5 DEF Least
    <2>7. /\ added \in Seq(Sku) /\ Len(added) <= Len(l)
          /\ ToSet(added) = ToSet(l) \ h.seen
          /\ \A i, j \in DOMAIN added : added[i] = added[j] => i = j
          /\ ToSet(l) \cap h.seen = {} => Len(added) = Len(l)
        <3> HIDE DEF h, l
        <3> QED
            BY <2>4, <2>5, <2>6, AddedProducts
    <2>8. Len(added) \in Nat /\ Len(added) <= PerSection(h) /\ Len(added) <= Remaining(h)
        BY <2>4, <2>6, <2>7
    <2>9. home' = g /\ UNCHANGED <<product, stock>>
        BY <1>1 DEF vars
    <2>10. sections = IF added = <<>> THEN h.sections
                      ELSE Append(h.sections, [category |-> category, skus |-> added])
        BY DEF Shown
    <2> HIDE DEF added, sections, seen, category
    <2>11. /\ HomeShape(g) /\ g.step = h.step /\ g.limit = h.limit /\ g.plan = h.plan
           /\ g.next = h.next + 1 /\ g.asked = FALSE /\ g.seen = seen
           /\ g.sections = sections /\ g.edited = h.edited
        BY <2>1 DEF HomeShape, HomeFields
    <2> HIDE DEF g, h, l
    <2>12. PerSection(g) = PerSection(h) /\ seen = h.seen \cup ToSet(added)
        BY <2>11 DEF PerSection, seen
    <2>13. PlanInv(g)
        BY <1>1, <2>1, <2>2, <2>3, <2>11 DEF PlanInv
    <2>14. Len(added) = 0 <=> added = <<>>
        BY <2>7
    <2>15. PageInv(g)
        <3>1. CASE added = <<>>
            <4>1. ToSet(added) = {}
                BY <3>1 DEF ToSet
            <4>2. g.seen = h.seen /\ g.sections = h.sections
                BY <2>10, <2>11, <2>12, <3>1, <4>1
            <4> QED
                BY <2>1, <2>11, <2>12, <4>2, SameProducts
        <3>2. CASE added # <<>>
            <4>1. ToSet(added) \cap h.seen = {} /\ h.step # "idle"
                BY <1>1, <2>7
            <4>2. g.sections = Append(h.sections, [category |-> category, skus |-> added])
                BY <2>10, <2>11, <3>2
            <4>3. PerSection(h) \in Nat /\ g.seen = h.seen \cup ToSet(added) /\ Len(added) # 0
                BY <2>4, <2>11, <2>12, <2>14, <3>2
            <4> QED
                BY <2>1, <2>3, <2>7, <2>8, <2>11, <2>12, <4>1, <4>2, <4>3, LongerPage
        <3> QED
            BY <3>1, <3>2
    <2>16. AskedInv(g, req)
        BY <2>11 DEF AskedInv, Building
    <2>17. /\ \A j \in DOMAIN h.sections : j \in DOMAIN g.sections /\ g.sections[j] = h.sections[j]
           /\ added = <<>> => g.sections = h.sections
           /\ added # <<>> => /\ DOMAIN g.sections = DOMAIN h.sections \cup {Len(h.sections) + 1}
                              /\ g.sections[Len(h.sections) + 1].category = category
                              /\ g.sections[Len(h.sections) + 1].skus = added
        <3> DEFINE last == [category |-> category, skus |-> added]
                   s == h.sections
                   N == Len(s)
                   t == g.sections
        <3>1. last \in Section /\ s \in Seq(Section) /\ last.category = category /\ last.skus = added
            BY <2>1, <2>3, <2>7 DEF Section, PageInv
        <3>2. t = IF added = <<>> THEN s ELSE Append(s, last)
            BY <2>10, <2>11
        <3> HIDE DEF last, s, t
        <3>3. /\ Append(s, last) \in Seq(Section) /\ Len(Append(s, last)) = N + 1
              /\ \A i \in 1 .. N : Append(s, last)[i] = s[i]
              /\ Append(s, last)[N + 1] = last
            BY <3>1, AppendProperties
        <3>4. N \in Nat /\ DOMAIN s = 1 .. N /\ DOMAIN Append(s, last) = 1 .. N + 1
            BY <3>1, <3>3
        <3>5. 1 .. N + 1 = (1 .. N) \cup {N + 1}
            BY <3>4
        <3> HIDE DEF N
        <3> QED
            BY <3>1, <3>2, <3>3, <3>4, <3>5 DEF N, s, t
    <2>18. CoverInv(g)
        <3> SUFFICES ASSUME g.step \in {"build", "done"}, ~g.edited
                     PROVE  /\ \A j \in DOMAIN g.sections : Belongs(g, j)
                            /\ \A i \in 1 .. g.next - 1 : Covered(g, i)
            BY <1>1, <2>11 DEF CoverInv
        <3>1. ~req.edited /\ (\A j \in DOMAIN h.sections : Belongs(h, j))
              /\ \A i \in 1 .. h.next - 1 : Covered(h, i)
            BY <1>1, <2>1, <2>2, <2>11 DEF CoverInv
        <3>2. category # None =>
                /\ \A s \in ToSet(l) : product[s].category = category
                /\ Cardinality(Matching(category)) <= Limit =>
                      \A s \in InCategory(category) \ ToSet(l) : Len(l) = req.size
            BY <2>1, <2>2, <3>1, SectionAnswer DEF l
        <3>3. g.next - 1 = h.next /\ h.next \in 1 .. g.next - 1
              /\ \A k \in 1 .. h.next - 1 : k \in 1 .. g.next - 1
            BY <2>3, <2>11
        <3>4. ASSUME NEW j \in DOMAIN g.sections PROVE Belongs(g, j)
            <4>1. CASE j \in DOMAIN h.sections
                BY <2>11, <2>17, <3>1, <3>3, <4>1 DEF Belongs
            <4>2. CASE j \notin DOMAIN h.sections
                <5>1. added # <<>> /\ j = Len(h.sections) + 1
                    BY <2>17, <4>2
                <5>2. g.sections[j].category = category /\ g.sections[j].skus = added
                    BY <2>17, <5>1
                <5>3. category # None => \A s \in ToSet(added) : product[s].category = category
                    BY <2>7, <3>2
                <5>4. category = g.plan[h.next]
                    BY <2>11 DEF category
                <5> QED
                    BY <3>3, <5>2, <5>3, <5>4 DEF Belongs
            <4> QED
                BY <4>1, <4>2
        <3>5. ASSUME NEW i \in 1 .. h.next - 1 PROVE Covered(g, i)
            <4>1. Covered(h, i) /\ Remaining(h) # 0
                BY <2>2, <3>1
            <4>2. CASE h.plan[i] = None \/ Cardinality(Matching(h.plan[i])) > Limit
                       \/ InCategory(h.plan[i]) \subseteq h.seen
                BY <2>11, <2>12, <4>2 DEF Covered
            <4>3. CASE \E j \in DOMAIN h.sections :
                          h.sections[j].category = h.plan[i] /\ Len(h.sections[j].skus) = PerSection(h)
                BY <2>11, <2>12, <2>17, <4>3 DEF Covered
            <4> QED
                BY <4>1, <4>2, <4>3 DEF Covered
        <3>6. Covered(g, h.next)
            <4>1. g.plan[h.next] = category
                BY <2>11 DEF category
            <4> SUFFICES ASSUME category # None, Cardinality(Matching(category)) <= Limit,
                                NEW s \in InCategory(category), s \notin g.seen
                         PROVE  \/ Remaining(g) = 0
                                \/ \E j \in DOMAIN g.sections : g.sections[j].category = category
                                      /\ Len(g.sections[j].skus) = PerSection(g)
                <5>1. Cardinality(Matching(category)) > Limit \/ Cardinality(Matching(category)) <= Limit
                    <6>1. Matching(category) \subseteq Sku
                        BY DEF Matching
                    <6>2. Cardinality(Matching(category)) \in Nat
                        BY <6>1, ProductFacts, FS_Subset, FS_CardinalityType
                    <6> QED
                        BY <6>2, ProductFacts
                <5> QED
                    BY <4>1, <5>1 DEF Covered
            <4>2. ToSet(l) \subseteq g.seen
                BY <2>7, <2>11, <2>12
            <4>3. Len(l) = req.size
                BY <3>2, <4>2
            <4>4. ToSet(l) \cap h.seen = {}
                <5> SUFFICES ASSUME NEW x \in ToSet(l), x \in h.seen PROVE FALSE
                    OBVIOUS
                <5>1. PICK j \in DOMAIN h.sections : x \in ToSet(h.sections[j].skus)
                    BY <2>1 DEF PageInv
                <5>2. PICK k \in 1 .. h.next - 1 :
                          h.plan[k] # None =>
                              \A y \in ToSet(h.sections[j].skus) : product[y].category = h.plan[k]
                    BY <3>1, <5>1 DEF Belongs
                <5>3. k \in DOMAIN h.plan /\ k # h.next /\ Len(h.plan) # 1
                    BY <2>2, <2>3, <5>2
                <5>4. h.plan[k] # None /\ h.plan[k] # category
                    BY <2>1, <2>3, <5>3 DEF PlanInv, category
                <5> QED
                    BY <3>2, <5>1, <5>2, <5>4
            <4>5. Len(added) = Least(PerSection(h), Remaining(h))
                BY <2>2, <2>7, <4>3, <4>4
            <4>6. CASE Len(added) = Remaining(h)
                <5>1. Cardinality(g.seen) = Cardinality(h.seen) + Len(added)
                    <6>1. ToSet(added) \cap h.seen = {}
                        BY <2>7
                    <6> QED
                        BY <2>1, <2>7, <2>8, <2>11, <2>12, <6>1, RoomForProducts
                <5>2. Remaining(h) = h.limit - Cardinality(h.seen) /\ Cardinality(h.seen) \in Nat
                    BY <2>1, RemainingIsNumber
                <5>3. Remaining(g) = h.limit - Cardinality(g.seen)
                    BY <2>11 DEF Remaining
                <5> QED
                    BY <2>3, <2>8, <4>6, <5>1, <5>2, <5>3
            <4>7. CASE Len(added) = PerSection(h)
                <5>1. added # <<>>
                    BY <2>4, <2>14, <4>7
                <5> QED
                    BY <2>12, <2>17, <4>7, <5>1
            <4> QED
                BY <4>5, <4>6, <4>7 DEF Least
        <3>7. \A i \in 1 .. g.next - 1 : i \in 1 .. h.next - 1 \/ i = h.next
            BY <2>3, <3>3
        <3> QED
            BY <3>4, <3>5, <3>6, <3>7
    <2>19. CoverInv(home)'
        BY <2>9, <2>18, CoverMoved
    <2>20. SearchInv' /\ req' = req
        BY <1>1, <2>1, SearchStutter DEF vars
    <2> QED
        BY <2>9, <2>13, <2>15, <2>16, <2>19, <2>20 DEF HomeInv
<1> QED
    BY <1>2, <1>3

\* The first state of the homepage.
LEMMA HomeInitInv == HomeInit => HomeInv
<1> SUFFICES ASSUME HomeInit PROVE HomeInv
    OBVIOUS
<1>1. SearchInv /\ home = NoHome
    BY SearchInitInv DEF HomeInit
<1>2. CoverInv(NoHome)
    BY NoHomeFields DEF CoverInv
<1>3. AskedInv(NoHome, req)
    BY NoHomeInv DEF AskedInv
<1> QED
    BY <1>1, <1>2, <1>3, NoHomeInv DEF HomeInv

\* A step that touches nothing.
LEMMA HomeStutter ==
    ASSUME HomeInv, UNCHANGED homeVars
    PROVE  HomeInv'
<1>1. /\ SearchInv /\ PlanInv(home) /\ PageInv(home) /\ AskedInv(home, req) /\ CoverInv(home)
      /\ UNCHANGED vars /\ home' = home
    BY DEF HomeInv, homeVars
<1>2. SearchInv'
    BY <1>1, SearchStutter
<1>3. CoverInv(home)'
    BY <1>1, CoverKept DEF vars
<1>4. req' = req
    BY <1>1 DEF vars
<1> QED
    BY <1>1, <1>2, <1>3, <1>4 DEF HomeInv

-----------------------------------------------------------------------------
(* The homepage and Discovery under it.                                    *)

\* The invariant of the page and of the requests that users and the page make.
THEOREM HomeInvariant == HomeSpec => []HomeInv
<1>1. HomeInit => HomeInv
    BY HomeInitInv
<1>2. HomeInv /\ [HomeNext]_homeVars => HomeInv'
    <2> SUFFICES ASSUME HomeInv, [HomeNext]_homeVars PROVE HomeInv'
        OBVIOUS
    <2>1. ASSUME NEW affinity \in Affinities, NEW limit \in HomeLimits, HomeStart(affinity, limit)
          PROVE  HomeInv'
        BY <2>1, StartPage
    <2>2. ASSUME home.step # "build", UNCHANGED home, NEW supplied \in Callers, NEW said \in Queries,
                 NEW session \in Chat, NEW n \in Sizes, Ask(supplied, said, session, n)
          PROVE  HomeInv'
        <3>1. SearchInv'
            BY <2>2, AskInv DEF HomeInv
        <3>2. UNCHANGED <<product, stock>>
            BY <2>2 DEF Ask, catalogue
        <3> QED
            BY <2>2, <3>1, <3>2, AskPage
    <2>3. CASE AskSection
        BY <2>3, AskSectionPage
    <2>4. CASE ProfilingFails
        <3>1. home.step = "build" /\ home' = [home EXCEPT !.step = "failed"] /\ UNCHANGED vars
            BY <2>4 DEF ProfilingFails
        <3> QED
            BY <3>1, EndPage
    <2>5. CASE Collect
        BY <2>5, CollectPage
    <2>6. CASE Respond
        <3>1. /\ home.step = "build" /\ home' = [home EXCEPT !.step = "done"] /\ UNCHANGED vars
              /\ home.next > Len(home.plan) \/ Remaining(home) <= 0
            BY <2>6 DEF Respond
        <3> QED
            BY <3>1, EndPage
    <2>7. CASE Work /\ UNCHANGED home
        BY <2>7, WorkPage
    <2>8. ASSUME NEW s \in Sku, Edit(s), home' = [home EXCEPT !.edited = TRUE] PROVE HomeInv'
        BY <2>8, EditPage
    <2>9. CASE Restart /\ home' = NoHome
        BY <2>9, RestartPage
    <2>10. CASE UNCHANGED homeVars
        BY <2>10, HomeStutter
    <2> QED
        BY <2>1, <2>2, <2>3, <2>4, <2>5, <2>6, <2>7, <2>8, <2>9, <2>10 DEF HomeNext, HomeWork
<1> QED
    BY <1>1, <1>2, PTL DEF HomeSpec

\* Every recommended product had the row that satisfies the exact constraints,
\* and was in stock, at some moment of the request, and stands where its rank
\* puts it: whichever rows, balances and index DiscoveryAgent.execute has read.
THEOREM ResultSound == HomeSpec => []ResultIsRight
<1>1. HomeInv => ResultIsRight
    BY RightResult DEF HomeInv
<1> QED
    BY <1>1, HomeInvariant, PTL

\* With a catalogue that keeps still, neither the cut of the query nor that of
\* the vector search or of the ranking loses a product that should be listed.
THEOREM ResultComplete == HomeSpec => []NothingIsLeftOut
<1>1. HomeInv => NothingIsLeftOut
    BY NothingBetter, NothingNear DEF HomeInv, NothingIsLeftOut
<1> QED
    BY <1>1, HomeInvariant, PTL

\* The page of handle_home_recommendations keeps its limit and its shares, shows
\* no product twice, and lacks none of a planned category that it has room for.
THEOREM PageWhole == HomeSpec => []HomeIsWhole
<1>1. HomeInv => HomeIsBounded
    <2> SUFFICES ASSUME HomeInv PROVE HomeIsBounded
        OBVIOUS
    <2>1. PageInv(home)
        BY DEF HomeInv
    <2>2. Cardinality(UNION {ToSet(home.sections[i].skus) : i \in DOMAIN home.sections}) <= home.limit
        BY <2>1 DEF PageInv
    <2> QED
        BY <2>1, <2>2 DEF HomeIsBounded, PageInv
<1>2. HomeInv => HomeIsFull
    <2> SUFFICES ASSUME HomeInv, home.step = "done", ~home.edited, NEW i \in DOMAIN home.plan
                 PROVE  Covered(home, i)
        BY DEF HomeIsFull, Covered
    <2>1. /\ \A k \in 1 .. home.next - 1 : Covered(home, k)
          /\ home.next > Len(home.plan) \/ Remaining(home) = 0
          /\ home.plan \in Seq(Named) /\ home.next \in Nat
        BY DEF HomeInv, CoverInv, PlanInv
    <2>2. CASE home.next > Len(home.plan)
        <3>1. i \in 1 .. home.next - 1
            BY <2>1, <2>2
        <3> QED
            BY <2>1, <3>1
    <2>3. CASE Remaining(home) = 0
        BY <2>3 DEF Covered
    <2> QED
        BY <2>1, <2>2, <2>3
<1> QED
    BY <1>1, <1>2, HomeInvariant, PTL DEF HomeIsWhole
=============================================================================
