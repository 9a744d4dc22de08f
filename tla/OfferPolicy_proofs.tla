-------------------------- MODULE OfferPolicy_proofs --------------------------
(***************************************************************************)
(* Proofs about OfferPolicy, for every set of coroutines and sessions,     *)
(* every limit and window, and every history a customer may start from.    *)
(***************************************************************************)
EXTENDS OfferPolicy, FiniteSetTheorems, WellFoundedInduction, TLAPS

(***************************************************************************)
(* The inductive invariant.                                                *)
(*                                                                         *)
(* LedgerInv: both bags are finite, and nothing in them is younger than    *)
(* the clock.                                                              *)
(***************************************************************************)
Pairs(b, S) == UNION {{r} \X (1 .. b[r]) : r \in S}

Ledger(b) ==
    /\ IsABag(b) /\ IsFiniteSet(Pairs(b, BagToSet(b)))
    /\ \A r \in BagToSet(b) : r.at \in Int /\ r.at <= now

LedgerInv ==
    /\ now \in 0 .. MaxTime /\ lost \in 0 .. MaxLost
    /\ Ledger(rows) /\ Ledger(displayed)
    /\ \A d \in BagToSet(displayed) : d.offer \in Offer

\* An evaluation is one of these records.
AgentRecord(x) ==
    x = [step |-> x.step, segment |-> x.segment, offer |-> x.offer, since |-> x.since,
         session |-> x.session, service |-> x.service]

AgentInv ==
    /\ DOMAIN agent = Agent /\ agent = [a \in Agent |-> agent[a]]
    /\ \A a \in Agent :
          /\ AgentRecord(agent[a])
          /\ agent[a].step \in {"idle", "tools", "wording", "granting"}
          /\ agent[a].offer \in Offer \cup {"none"}
          /\ agent[a].since \in Int /\ agent[a].since <= now
          /\ agent[a].step = "wording" => agent[a].offer \in Offer
          /\ agent[a].step = "granting" => agent[a].session \in Session

\* A session is granted an offer only when it enters offered.
GrantInv ==
    /\ offered \subseteq Session
    /\ granted \in [Session -> 0 .. 1]
    /\ \A s \in Session \ offered : granted[s] = 0

(***************************************************************************)
(* LimitInv: an evaluation that passed the check stays below the limit     *)
(* with what was shown by then; each lost row allows one more.             *)
(***************************************************************************)
Wording == {a \in Agent : agent[a].step = "wording"}
Visible(b, t) == {d \in BagToSet(b) : InWindow(d, Window, t)}
ShownAt(t) == Copies(displayed, Visible(displayed, t))

LimitInv ==
    /\ ShownAt(now) + Cardinality(Wording) <= Limit - 1 + Cardinality(Agent) + lost
    /\ \A t \in Int : t >= now => ShownAt(t) <= Copies(rows, Shown(rows, t)) + lost

\* Until an announced cooldown ends, the rows that caused it are in the window.
Cooling(b, t) == Declines(b, t) # {} \/ Limited(b, t)
CoolInv ==
    /\ until \in Int
    /\ \A t \in Int : now <= t /\ t < until => Cooling(rows, t)

PolicyInv == LedgerInv /\ AgentInv /\ GrantInv /\ LimitInv /\ CoolInv /\ OfferFits

-----------------------------------------------------------------------------
(***************************************************************************)
(* Bags and their copies.                                                  *)
(***************************************************************************)

\* One element more.
LEMMA WithBag ==
    ASSUME NEW b, IsABag(b), NEW x
    PROVE  /\ IsABag(With(b, x)) /\ BagToSet(With(b, x)) = BagToSet(b) \cup {x}
           /\ With(b, x)[x] = (IF x \in BagToSet(b) THEN b[x] ELSE 0) + 1
           /\ \A y \in BagToSet(b) \ {x} : With(b, x)[y] = b[y]
           /\ \A y \in BagToSet(b) : b[y] <= With(b, x)[y]
  <1>1. b \in [DOMAIN b -> {n \in Nat : n > 0}]
    BY DEF IsABag
  <1>2. With(b, x) = [y \in DOMAIN b \cup {x} |->
            (IF y \in DOMAIN b THEN b[y] ELSE 0) + (IF y \in {x} THEN 1 ELSE 0)]
    BY DEF With, (+), SetToBag
  <1>3. With(b, x) \in [DOMAIN b \cup {x} -> {n \in Nat : n > 0}]
    BY <1>1, <1>2
  <1>4. DOMAIN With(b, x) = DOMAIN b \cup {x}
    BY <1>2
  <1> QED BY <1>1, <1>2, <1>3, <1>4 DEF IsABag, BagToSet

\* Which pairs there are.
LEMMA PairsMember ==
    ASSUME NEW b, NEW S, NEW p
    PROVE  p \in Pairs(b, S) <=> \E r \in S : \E n \in 1 .. b[r] : p = <<r, n>>
  BY DEF Pairs

\* Copies of elements of a finite bag.
LEMMA CopiesType ==
    ASSUME NEW b, IsFiniteSet(Pairs(b, BagToSet(b))), NEW S, S \subseteq BagToSet(b)
    PROVE  /\ IsFiniteSet(Pairs(b, S)) /\ Copies(b, S) = Cardinality(Pairs(b, S))
           /\ Copies(b, S) \in Nat
  <1>1. Pairs(b, S) \in SUBSET Pairs(b, BagToSet(b))
    BY DEF Pairs
  <1>2. IsFiniteSet(Pairs(b, S)) /\ Cardinality(Pairs(b, S)) \in Nat
    BY <1>1, FS_Subset, FS_CardinalityType
  <1> QED BY <1>2 DEF Copies, Pairs

\* The added copy is one pair more.
LEMMA PairsWith ==
    ASSUME NEW b, IsABag(b), NEW x, NEW S, S \subseteq BagToSet(b),
           x \in BagToSet(b) => x \in S
    PROVE  /\ Pairs(With(b, x), S \cup {x}) = Pairs(b, S) \cup {<<x, With(b, x)[x]>>}
           /\ <<x, With(b, x)[x]>> \notin Pairs(b, S)
  <1> DEFINE c == With(b, x)
             n == c[x]
  <1>1. /\ n = (IF x \in BagToSet(b) THEN b[x] ELSE 0) + 1
        /\ \A y \in BagToSet(b) \ {x} : c[y] = b[y]
    BY WithBag
  <1>2. \A y \in BagToSet(b) : b[y] \in Nat
    BY DEF IsABag, BagToSet
  <1> HIDE DEF c, n
  <1>3. n \in Nat \ {0}
    BY <1>1, <1>2
  <1>4. ASSUME NEW p, p \in Pairs(c, S \cup {x})
        PROVE  p \in Pairs(b, S) \cup {<<x, n>>}
    <2>0. PICK r \in S \cup {x} : \E i \in 1 .. c[r] : p = <<r, i>>
      BY <1>4, PairsMember
    <2>1. PICK i \in 1 .. c[r] : p = <<r, i>>
      BY <2>0
    <2>2. CASE r # x
      <3>1. r \in S /\ i \in 1 .. b[r]
        BY <1>1, <2>1, <2>2
      <3> QED BY <2>1, <3>1, PairsMember
    <2>3. CASE r = x /\ i = n
      BY <2>1, <2>3
    <2>4. CASE r = x /\ i # n
      <3>1. x \in BagToSet(b) /\ i \in 1 .. b[x]
        BY <1>1, <1>2, <1>3, <2>1, <2>4 DEF n
      <3> QED BY <2>1, <2>4, <3>1, PairsMember
    <2> QED BY <2>2, <2>3, <2>4
  <1>5. ASSUME NEW p, p \in Pairs(b, S) \cup {<<x, n>>}
        PROVE  p \in Pairs(c, S \cup {x})
    <2>1. CASE p = <<x, n>>
      BY <1>3, <2>1, PairsMember DEF n
    <2>2. CASE p \in Pairs(b, S)
      <3>0. PICK r \in S : \E i \in 1 .. b[r] : p = <<r, i>>
        BY <2>2, PairsMember
      <3>1. PICK i \in 1 .. b[r] : p = <<r, i>>
        BY <3>0
      <3>2. i \in 1 .. c[r]
        BY <1>1, <1>2, <3>1 DEF n
      <3> QED BY <3>1, <3>2, PairsMember
    <2> QED BY <1>5, <2>1, <2>2
  <1>6. <<x, n>> \notin Pairs(b, S)
    <2> SUFFICES ASSUME <<x, n>> \in Pairs(b, S)
                 PROVE  FALSE
      OBVIOUS
    <2>0. PICK r \in S : \E i \in 1 .. b[r] : <<x, n>> = <<r, i>>
      BY PairsMember
    <2>1. PICK i \in 1 .. b[r] : <<x, n>> = <<r, i>>
      BY <2>0
    <2>2. x \in BagToSet(b) /\ n \in 1 .. b[x]
      BY <2>1
    <2> QED BY <1>1, <1>2, <2>2
  <1> QED BY <1>4, <1>5, <1>6 DEF c, n

\* A bag stays finite, and counts its new copy where it counts it.
LEMMA CopiesWith ==
    ASSUME NEW b, IsABag(b), IsFiniteSet(Pairs(b, BagToSet(b))), NEW x,
           NEW S, S \subseteq BagToSet(b)
    PROVE  /\ IsFiniteSet(Pairs(With(b, x), BagToSet(With(b, x))))
           /\ (x \in BagToSet(b) => x \in S) =>
                 Copies(With(b, x), S \cup {x}) = Copies(b, S) + 1
           /\ x \notin S => Copies(With(b, x), S) = Copies(b, S)
  <1> DEFINE c == With(b, x)
  <1>1. /\ BagToSet(c) = BagToSet(b) \cup {x}
        /\ \A y \in BagToSet(b) \ {x} : c[y] = b[y]
    BY WithBag
  <1>2. Pairs(c, BagToSet(c)) = Pairs(b, BagToSet(b)) \cup {<<x, c[x]>>}
    BY <1>1, PairsWith
  <1>3. IsFiniteSet(Pairs(c, BagToSet(c)))
    BY <1>2, FS_AddElement
  <1>4. ASSUME x \in BagToSet(b) => x \in S
        PROVE  Copies(c, S \cup {x}) = Copies(b, S) + 1
    <2>1. /\ Pairs(c, S \cup {x}) = Pairs(b, S) \cup {<<x, c[x]>>}
          /\ <<x, c[x]>> \notin Pairs(b, S)
      BY <1>4, PairsWith
    <2>2. IsFiniteSet(Pairs(b, S)) /\ Copies(b, S) = Cardinality(Pairs(b, S))
      BY CopiesType
    <2>3. Copies(c, S \cup {x}) = Cardinality(Pairs(c, S \cup {x}))
      BY <1>1, <1>3, CopiesType
    <2> QED BY <2>1, <2>2, <2>3, FS_AddElement
  <1>5. ASSUME x \notin S
        PROVE  Copies(c, S) = Copies(b, S)
    <2>1. Pairs(c, S) = Pairs(b, S)
      BY <1>1, <1>5 DEF Pairs
    <2> QED BY <2>1 DEF Copies, Pairs
  <1> QED BY <1>3, <1>4, <1>5

\* More rows and a wider choice of them are more copies.
LEMMA CopiesMonotone ==
    ASSUME NEW b, NEW c, IsABag(b), IsABag(c), IsFiniteSet(Pairs(c, BagToSet(c))),
           NEW S, NEW T, S \subseteq BagToSet(b), T \subseteq BagToSet(c), S \subseteq T,
           \A r \in BagToSet(b) : b[r] <= c[r]
    PROVE  Copies(b, S) <= Copies(c, T)
  <1>1. IsFiniteSet(Pairs(c, T)) /\ Copies(c, T) = Cardinality(Pairs(c, T))
    BY CopiesType
  <1>2. Pairs(b, S) \in SUBSET Pairs(c, T)
    <2> SUFFICES ASSUME NEW p \in Pairs(b, S)
                 PROVE  p \in Pairs(c, T)
      OBVIOUS
    <2>0. PICK r \in S : \E i \in 1 .. b[r] : p = <<r, i>>
      BY PairsMember
    <2>1. PICK i \in 1 .. b[r] : p = <<r, i>>
      BY <2>0
    <2>2. b[r] \in Nat /\ c[r] \in Nat /\ b[r] <= c[r]
      BY DEF IsABag, BagToSet
    <2>3. i \in 1 .. c[r]
      BY <2>1, <2>2
    <2> QED BY <2>1, <2>3, PairsMember
  <1>3. Copies(b, S) = Cardinality(Pairs(b, S))
    BY DEF Copies, Pairs
  <1> QED BY <1>1, <1>2, <1>3, FS_Subset

\* A finite set of rows is a finite bag.
LEMMA FiniteBag ==
    ASSUME NEW b, IsABag(b), IsFiniteSet(BagToSet(b))
    PROVE  IsFiniteSet(Pairs(b, BagToSet(b)))
  <1> DEFINE D == BagToSet(b)
             f == [r \in D |-> {r} \X (1 .. b[r])]
             T == {f[r] : r \in D}
  <1>1. f \in Surjection(D, T)
    BY DEF Surjection
  <1>2. IsFiniteSet(T)
    BY <1>1, FS_Surjection
  <1>3. ASSUME NEW X \in T
        PROVE  IsFiniteSet(X)
    <2>1. PICK r \in D : X = {r} \X (1 .. b[r])
      OBVIOUS
    <2>2. b[r] \in Nat
      BY DEF IsABag, BagToSet
    <2>3. IsFiniteSet({r})
      BY FS_Singleton
    <2>4. 1 \in Int /\ b[r] \in Int
      BY <2>2
    <2>5. IsFiniteSet(1 .. b[r])
      BY <2>4, FS_Interval, Zenon
    <2> QED BY <2>1, <2>3, <2>5, FS_Product
  <1>4. IsFiniteSet(UNION T)
    BY <1>2, <1>3, FS_UNION
  <1>5. Pairs(b, D) = UNION T
    BY DEF Pairs
  <1> QED BY <1>4, <1>5

\* The first of some times is among them and before the others.
LEMMA MinOfTimes ==
    ASSUME NEW S, S \subseteq Int, S # {}, NEW m \in Int, \A s \in S : m <= s
    PROVE  Min(S) \in S /\ \A s \in S : Min(S) <= s
  <1> DEFINE D == {n \in Nat : m + n \in S}
  <1>1. D # {}
    <2>1. PICK s \in S : TRUE
      OBVIOUS
    <2>2. s - m \in Nat /\ m + (s - m) = s
      BY <2>1
    <2> QED BY <2>1, <2>2
  <1>2. \E n \in D : \A k \in D : <<k, n>> \notin OpToRel(<, Nat)
    BY <1>1, NatLessThanWellFounded, WFMin
  <1>3. PICK n \in D : \A k \in D : ~(k < n)
    BY <1>2 DEF OpToRel
  <1>4. \A s \in S : m + n <= s
    <2> SUFFICES ASSUME NEW s \in S
                 PROVE  m + n <= s
      OBVIOUS
    <2>1. s - m \in Nat /\ m + (s - m) = s
      OBVIOUS
    <2>2. s - m \in D
      BY <2>1
    <2> QED BY <1>3, <2>1, <2>2
  <1>5. m + n \in S
    BY <1>3
  <1> QED BY <1>4, <1>5 DEF Min

\* The last one is among them.
LEMMA MaxOfTimes ==
    ASSUME NEW S, S \subseteq Int, S # {}, NEW m \in Int, \A s \in S : s <= m
    PROVE  Max(S) \in S
  <1> DEFINE D == {n \in Nat : m - n \in S}
  <1>1. D # {}
    <2>1. PICK s \in S : TRUE
      OBVIOUS
    <2>2. m - s \in Nat /\ m - (m - s) = s
      BY <2>1
    <2> QED BY <2>1, <2>2
  <1>2. \E n \in D : \A k \in D : <<k, n>> \notin OpToRel(<, Nat)
    BY <1>1, NatLessThanWellFounded, WFMin
  <1>3. PICK n \in D : \A k \in D : ~(k < n)
    BY <1>2 DEF OpToRel
  <1>4. \A s \in S : m - n >= s
    <2> SUFFICES ASSUME NEW s \in S
                 PROVE  m - n >= s
      OBVIOUS
    <2>1. m - s \in Nat /\ m - (m - s) = s
      OBVIOUS
    <2>2. m - s \in D
      BY <2>1
    <2>3. ~(m - s < n) /\ n \in Nat
      BY <1>3, <2>2
    <2> QED BY <2>1, <2>3
  <1>5. m - n \in S
    BY <1>3
  <1> QED BY <1>4, <1>5 DEF Max

-----------------------------------------------------------------------------
(***************************************************************************)
(* The rules.                                                              *)
(***************************************************************************)

\* The selector takes an offer that is eligible; a value segment and a member
\* of Style+ get the advisory.
LEMMA SelectFits ==
    ASSUME NEW segment, NEW trigger, NEW band, NEW b
    PROVE  LET o == Select(EligibleOffers(segment, trigger, b), segment, trigger, band) IN
           /\ o \in Offer
           /\ segment \in Value => o = Advisory
           /\ Member(b) => o = Advisory
  <1> DEFINE E == EligibleOffers(segment, trigger, b)
  <1>1. Advisory \in Eligible(segment, trigger) /\ Eligible(segment, trigger) \subseteq Offer
    BY DEF Eligible, Offer
  <1>2. Advisory # Membership /\ Advisory # Trial
    BY DEF Advisory, Membership, Trial
  <1>3. /\ Advisory \in E /\ E \subseteq Offer
        /\ Member(b) => Membership \notin E /\ Trial \notin E
    BY <1>1, <1>2 DEF EligibleOffers
  <1> HIDE DEF E
  <1>4. Select(E, segment, trigger, band) \in E
    BY <1>3 DEF Select
  <1>5. segment \in Value => Select(E, segment, trigger, band) = Advisory
    BY <1>3 DEF Select
  <1>6. Member(b) => Select(E, segment, trigger, band) = Advisory
    BY <1>3, <1>4 DEF Offer
  <1> QED BY <1>3, <1>4, <1>5, <1>6 DEF E

\* What is not refused is neither declined nor over the limit.
LEMMA Unrefused ==
    ASSUME NEW c, NEW segment, NEW trigger, NEW x, NEW b, NEW t,
           Refusal(c, segment, trigger, x, b, t) = "NONE"
    PROVE  ~Cooling(b, t)
  BY DEF Refusal, Cooling

\* Nothing is counted where nothing is.
LEMMA CopiesOfNone ==
    ASSUME NEW b
    PROVE  Copies(b, {}) = 0
  <1>1. UNION {{r} \X (1 .. b[r]) : r \in {}} = {}
    OBVIOUS
  <1> QED BY <1>1, FS_EmptySet DEF Copies

\* A bag of rows that grew.
Grew(b, c) ==
    /\ IsABag(c) /\ IsFiniteSet(Pairs(c, BagToSet(c)))
    /\ BagToSet(b) \subseteq BagToSet(c) /\ \A r \in BagToSet(b) : b[r] <= c[r]

\* More rows do not end a cooldown.
LEMMA CoolingGrows ==
    ASSUME NEW b, NEW c, IsABag(b), IsFiniteSet(Pairs(b, BagToSet(b))), Grew(b, c), NEW t \in Int,
           Cooling(b, t)
    PROVE  Cooling(c, t)
  <1>1. CASE Declines(b, t) # {}
    <2>1. Declines(b, t) \subseteq Declines(c, t)
      BY DEF Grew, Declines, Recent
    <2> QED BY <1>1, <2>1 DEF Cooling
  <1>2. CASE Limited(b, t)
    <2>1. /\ Shown(b, t) \subseteq Shown(c, t) /\ Shown(b, t) \subseteq BagToSet(b)
          /\ Shown(c, t) \subseteq BagToSet(c)
      BY DEF Grew, Shown, Recent
    <2>2. Copies(b, Shown(b, t)) <= Copies(c, Shown(c, t))
      BY <2>1, CopiesMonotone DEF Grew
    <2>3. Copies(b, Shown(b, t)) \in Nat /\ Copies(c, Shown(c, t)) \in Nat
      BY <2>1, CopiesType DEF Grew
    <2>4. Limit \in Nat
      BY WindowAssumption
    <2> QED BY <1>2, <2>2, <2>3, <2>4 DEF Limited, Cooling
  <1> QED BY <1>1, <1>2 DEF Cooling

\* A cooldown that is announced holds from now until its end.
LEMMA AnnouncedHolds ==
    ASSUME NEW b, IsABag(b), IsFiniteSet(Pairs(b, BagToSet(b))), NEW n \in Nat,
           \A r \in BagToSet(b) : r.at \in Int,
           NEW c, NEW segment, NEW trigger, NEW x,
           NEW reason, reason = Refusal(c, segment, trigger, x, b, n)
    PROVE  /\ Cooldown(reason, b, n) \in Int
           /\ \A t \in Int : n <= t /\ t < Cooldown(reason, b, n) => Cooling(b, t)
  <1>w. Window \in Nat \ {0} /\ Limit \in Nat \ {0}
    BY WindowAssumption
  <1>1. CASE reason = "RECENT_STYLE_PLUS_DECLINE"
    <2> DEFINE S == Times(Declines(b, n))
    <2>1. Declines(b, n) # {}
      BY <1>1 DEF Refusal
    <2>2. \A r \in Declines(b, n) : r \in BagToSet(b) /\ r.at \in Int /\ r.at <= n
      BY DEF Declines, Recent, InWindow
    <2>3. S \subseteq Int /\ S # {} /\ \A s \in S : s <= n
      BY <2>1, <2>2 DEF Times
    <2>4. Max(S) \in S
      BY <2>3, MaxOfTimes
    <2>5. PICK r \in Declines(b, n) : r.at = Max(S)
      BY <2>4 DEF Times
    <2>6. Cooldown(reason, b, n) = r.at + Window
      BY <1>1, <2>5 DEF Cooldown
    <2>7. ASSUME NEW t \in Int, n <= t, t < r.at + Window
          PROVE  Cooling(b, t)
      <3>1. InWindow(r, Window, t)
        BY <1>w, <2>2, <2>7 DEF InWindow
      <3>2. r \in Declines(b, t)
        BY <3>1 DEF Declines, Recent
      <3> QED BY <3>2 DEF Cooling
    <2> QED BY <1>w, <2>2, <2>6, <2>7
  <1>2. CASE reason = "SERVICE_FREQUENCY_LIMIT"
    <2> DEFINE S == Times(Shown(b, n))
    <2>1. Limited(b, n)
      BY <1>2 DEF Refusal
    <2>2. Shown(b, n) # {}
      BY <1>w, <2>1, CopiesOfNone DEF Limited
    <2>3. \A r \in Shown(b, n) : /\ r \in BagToSet(b) /\ r.at \in Int
                                 /\ n - Window < r.at /\ r.at <= n
      BY DEF Shown, Recent, InWindow
    <2>4. n - Window \in Int
      BY <1>w
    <2>5. S \subseteq Int /\ S # {} /\ \A s \in S : n - Window <= s
      BY <2>2, <2>3, <1>w DEF Times
    <2>6. Min(S) \in S /\ \A s \in S : Min(S) <= s
      BY <2>4, <2>5, MinOfTimes
    <2>7. Cooldown(reason, b, n) = Min(S) + Window
      BY <1>2 DEF Cooldown
    <2>8. Min(S) \in Int
      BY <2>5, <2>6
    <2> DEFINE m == Min(S)
    <2>9. \A r \in Shown(b, n) : m <= r.at
      BY <2>6 DEF Times
    <2> HIDE DEF m
    <2>10. ASSUME NEW t \in Int, n <= t, t < m + Window
           PROVE  Cooling(b, t)
      <3>1. \A r \in Shown(b, n) : InWindow(r, Window, t)
        BY <1>w, <2>3, <2>8, <2>9, <2>10 DEF InWindow, m
      <3>2. /\ Shown(b, n) \subseteq Shown(b, t) /\ Shown(b, t) \subseteq BagToSet(b)
            /\ Shown(b, n) \subseteq BagToSet(b)
        BY <3>1 DEF Shown, Recent
      <3>3. \A r \in BagToSet(b) : b[r] <= b[r]
        BY DEF IsABag, BagToSet
      <3>4. Copies(b, Shown(b, n)) <= Copies(b, Shown(b, t))
        BY <3>2, <3>3, CopiesMonotone
      <3>5. Copies(b, Shown(b, n)) \in Nat /\ Copies(b, Shown(b, t)) \in Nat
        BY <3>2, CopiesType
      <3> QED BY <1>w, <2>1, <3>4, <3>5 DEF Limited, Cooling
    <2> QED BY <1>w, <2>7, <2>8, <2>10 DEF m
  <1>3. CASE /\ reason # "RECENT_STYLE_PLUS_DECLINE"
             /\ reason # "SERVICE_FREQUENCY_LIMIT"
    <2>1. Cooldown(reason, b, n) = 0
      BY <1>3 DEF Cooldown
    <2> QED BY <2>1
  <1> QED BY <1>1, <1>2, <1>3

-----------------------------------------------------------------------------
(***************************************************************************)
(* What a step can do.                                                     *)
(***************************************************************************)
Shift == UNCHANGED <<now, rows, displayed, lost>>
Show(a) ==
    /\ a \in Agent /\ agent[a].step = "wording"
    /\ displayed' = With(displayed, [offer |-> agent[a].offer, at |-> now])
    /\ agent' = [agent EXCEPT ![a] = Idle]
    /\ \/ /\ rows' = With(rows, Row(agent[a].offer, "OFFER_SHOWN"))
          /\ UNCHANGED <<now, lost>>
       \/ /\ lost' = lost + 1 /\ lost' <= MaxLost
          /\ UNCHANGED <<now, rows>>
Reply == \E o \in Offer, response \in Response :
    rows' = With(rows, Row(o, response)) /\ UNCHANGED <<now, displayed, lost, agent>>
Pass == /\ now < MaxTime /\ now' = now + 1
        /\ UNCHANGED <<rows, displayed, lost, agent>>

Approved(a, next) ==
    \E trigger \in Trigger, x \in Strengths, y \in Strengths :
        LET band == Band(Score(customer, agent[a].segment, x, y)) IN
        /\ Refusal(customer, agent[a].segment, trigger, x, rows, now) = "NONE"
        /\ next = [agent[a] EXCEPT !.step = "wording", !.since = now,
              !.offer = Select(EligibleOffers(agent[a].segment, trigger, rows),
                               agent[a].segment, trigger, band)]

\* The evaluation a is given another state.
Turned(a, next) ==
    \/ next = Idle
    \/ \E segment : next = [Idle EXCEPT !.step = "tools", !.segment = segment]
    \/ \E s \in Session : \E service :
          next = [Idle EXCEPT !.step = "granting", !.session = s, !.service = service]
    \/ Approved(a, next)
Turn(a) ==
    /\ a \in Agent
    /\ \E next : agent' = [agent EXCEPT ![a] = next] /\ Turned(a, next)

\* Every step is one of these.
LEMMA StepKinds ==
    ASSUME LedgerInv, Next \/ UNCHANGED vars
    PROVE  \/ Shift /\ (\/ \E a \in Agent : Turn(a)
                        \/ UNCHANGED agent
                        \/ agent' = [a \in Agent |-> Idle])
           \/ \E a \in Agent : Show(a)
           \/ Reply \/ Pass
  <1>1. ASSUME NEW a \in Agent,
               \/ Begin(a) \/ ToolsFail(a) \/ LegacyGrant(a)
               \/ \E trigger \in Trigger, x \in Strengths :
                     Refuse(a, trigger, x) \/ Approve(a, trigger, x)
               \/ \E s \in Session, input \in Inputs : LegacyCheck(a, s, input)
        PROVE  Shift /\ Turn(a)
    <2>1. CASE Begin(a)
      <3>1. Shift
        BY <2>1 DEF Begin, Shift, history
      <3>2. agent' = [agent EXCEPT ![a] = [Idle EXCEPT !.step = "tools", !.segment = customer.segment]]
        BY <2>1 DEF Begin, Move
      <3> QED BY <3>1, <3>2 DEF Turn, Turned
    <2>2. CASE ToolsFail(a)
      <3>1. Shift
        BY <2>2 DEF ToolsFail, Shift, history
      <3>2. agent' = [agent EXCEPT ![a] = Idle]
        BY <2>2 DEF ToolsFail, Move
      <3> QED BY <3>1, <3>2 DEF Turn, Turned
    <2>3. CASE LegacyGrant(a)
      <3>1. Shift
        BY <2>3 DEF LegacyGrant, Shift
      <3>2. agent' = [agent EXCEPT ![a] = Idle]
        BY <2>3 DEF LegacyGrant, Move
      <3> QED BY <3>1, <3>2 DEF Turn, Turned
    <2>4. ASSUME NEW trigger \in Trigger, NEW x \in Strengths, Refuse(a, trigger, x)
          PROVE  Shift /\ Turn(a)
      <3>1. Shift
        BY <2>4 DEF Refuse, Shift
      <3>2. agent' = [agent EXCEPT ![a] = Idle]
        BY <2>4 DEF Refuse, Move
      <3> QED BY <3>1, <3>2 DEF Turn, Turned
    <2>5. ASSUME NEW trigger \in Trigger, NEW x \in Strengths, Approve(a, trigger, x)
          PROVE  Shift /\ Turn(a)
      <3>1. Shift
        BY <2>5 DEF Approve, Shift, history
      <3> DEFINE next(y) == [agent[a] EXCEPT !.step = "wording", !.since = now,
              !.offer = Select(EligibleOffers(agent[a].segment, trigger, rows),
                  agent[a].segment, trigger,
                  Band(Score(customer, agent[a].segment, x, y)))]
      <3>2. PICK y \in Strengths : agent' = [agent EXCEPT ![a] = next(y)]
        BY <2>5 DEF Approve, Move
      <3>3. Approved(a, next(y))
        BY <2>5 DEF Approve, Approved
      <3> QED BY <3>1, <3>2, <3>3 DEF Turn, Turned
    <2>6. ASSUME NEW s \in Session, NEW input \in Inputs, LegacyCheck(a, s, input)
          PROVE  Shift /\ Turn(a)
      <3>1. Shift
        BY <2>6 DEF LegacyCheck, Shift, history
      <3> DEFINE service == Candidate(Candidates(customer, rows), input)
      <3>2. agent' = [agent EXCEPT ![a] =
                 [Idle EXCEPT !.step = "granting", !.session = s, !.service = service]]
        BY <2>6 DEF LegacyCheck, Move
      <3> HIDE DEF service
      <3> QED BY <3>1, <3>2 DEF Turn, Turned
    <2> QED BY <1>1, <2>1, <2>2, <2>3, <2>4, <2>5, <2>6
  <1>2. ASSUME NEW a \in Agent, Record(a) \/ RecordFails(a)
        PROVE  Show(a)
    <2>1. lost \in 0 .. MaxLost /\ MaxLost \in Nat
      BY BoundsAssumption DEF LedgerInv
    <2> QED BY <1>2, <2>1 DEF Record, RecordFails, Display, Move, Show
  <1>3. ASSUME NEW o \in Offer, NEW response \in Response, Answer(o, response)
        PROVE  Reply
    BY <1>3 DEF Answer, Reply, history
  <1>4. ASSUME Promote
        PROVE  Shift /\ UNCHANGED agent
    <2>1. UNCHANGED <<now, rows, offered, agent, history, lost>>
      BY <1>4, Zenon DEF Promote
    <2> QED BY <2>1 DEF Shift, history
  <1>5. ASSUME Restart
        PROVE  Shift /\ agent' = [a \in Agent |-> Idle]
    BY <1>5 DEF Restart, Shift
  <1>6. ASSUME Tick
        PROVE  Pass
    BY <1>6 DEF Tick, Pass, history
  <1>7. ASSUME UNCHANGED vars
        PROVE  Shift /\ UNCHANGED agent
    BY <1>7 DEF vars, Shift
  <1> QED BY <1>1, <1>2, <1>3, <1>4, <1>5, <1>6, <1>7 DEF Next

\* One row more keeps a ledger.
LEMMA LedgerWith ==
    ASSUME NEW b, Ledger(b), NEW x, x.at = now, now \in Nat
    PROVE  Ledger(With(b, x)) /\ Grew(b, With(b, x))
  <1>1. /\ IsABag(With(b, x)) /\ BagToSet(With(b, x)) = BagToSet(b) \cup {x}
        /\ \A y \in BagToSet(b) : b[y] <= With(b, x)[y]
    BY WithBag DEF Ledger
  <1>2. IsFiniteSet(Pairs(With(b, x), BagToSet(With(b, x))))
    <2>1. {} \subseteq BagToSet(b)
      OBVIOUS
    <2> QED BY <2>1, CopiesWith DEF Ledger
  <1> QED BY <1>1, <1>2 DEF Ledger, Grew

\* Rows only grow.
LEMMA RowsGrow ==
    ASSUME LedgerInv, Next \/ UNCHANGED vars
    PROVE  Grew(rows, rows') /\ now' \in Nat /\ now <= now'
  <1>0. now \in Nat /\ MaxTime \in Nat /\ Ledger(rows)
    BY BoundsAssumption DEF LedgerInv
  <1>1. Grew(rows, rows)
    <2>1. \A r \in BagToSet(rows) : rows[r] <= rows[r]
      BY <1>0 DEF Ledger, IsABag, BagToSet
    <2> QED BY <1>0, <2>1 DEF Grew, Ledger
  <1>2. ASSUME NEW type, NEW outcome
        PROVE  Grew(rows, With(rows, Row(type, outcome)))
    BY <1>0, LedgerWith DEF Row
  <1>3. \/ rows' = rows /\ now' = now
        \/ (\E type, outcome : rows' = With(rows, Row(type, outcome))) /\ now' = now
        \/ rows' = rows /\ now' = now + 1
    BY StepKinds DEF Shift, Show, Reply, Pass
  <1> QED BY <1>0, <1>1, <1>2, <1>3

\* The ledgers stay ledgers.
LEMMA LedgerStep ==
    ASSUME LedgerInv, AgentInv, Next \/ UNCHANGED vars
    PROVE  LedgerInv'
  <1>0. /\ now \in Nat /\ MaxTime \in Nat /\ lost \in Nat /\ MaxLost \in Nat
        /\ now <= MaxTime /\ lost <= MaxLost
        /\ Ledger(rows) /\ Ledger(displayed)
        /\ \A d \in BagToSet(displayed) : d.offer \in Offer
    BY BoundsAssumption DEF LedgerInv
  <1>2. CASE Shift
    <2>1. Ledger(rows)' /\ Ledger(displayed)'
      BY <1>0, <1>2 DEF Shift, Ledger
    <2> QED BY <1>0, <1>2, <2>1 DEF Shift, LedgerInv
  <1>3. ASSUME NEW a \in Agent, Show(a)
        PROVE  LedgerInv'
    <2> DEFINE d == [offer |-> agent[a].offer, at |-> now]
               r == Row(agent[a].offer, "OFFER_SHOWN")
    <2>1. d.at = now /\ r.at = now /\ d.offer \in Offer
      BY <1>3 DEF AgentInv, Show, Row
    <2>2. Ledger(With(displayed, d)) /\ Ledger(With(rows, r))
      BY <1>0, <2>1, LedgerWith
    <2>3. displayed' = With(displayed, d) /\ rows' \in {rows, With(rows, r)} /\ now' = now
      BY <1>3 DEF Show
    <2>4. BagToSet(With(displayed, d)) = BagToSet(displayed) \cup {d}
      BY <1>0, WithBag DEF Ledger
    <2> HIDE DEF d, r
    <2>5. Ledger(displayed)' /\ Ledger(rows)'
      BY <1>0, <2>2, <2>3 DEF Ledger
    <2>6. \A e \in BagToSet(displayed') : e.offer \in Offer
      BY <1>0, <2>1, <2>3, <2>4
    <2>7. lost' \in 0 .. MaxLost
      BY <1>0, <1>3 DEF Show
    <2> QED BY <1>0, <2>3, <2>5, <2>6, <2>7 DEF LedgerInv
  <1>4. CASE Reply
    <2>1. PICK o \in Offer, response \in Response :
             rows' = With(rows, Row(o, response)) /\ UNCHANGED <<now, displayed, lost, agent>>
      BY <1>4 DEF Reply
    <2> DEFINE r == Row(o, response)
    <2>2. Ledger(With(rows, r))
      BY <1>0, LedgerWith DEF Row
    <2> HIDE DEF r
    <2>3. Ledger(rows)' /\ Ledger(displayed)'
      BY <1>0, <2>1, <2>2 DEF Ledger, r
    <2> QED BY <1>0, <2>1, <2>3 DEF LedgerInv
  <1>5. CASE Pass
    <2>1. Ledger(rows)' /\ Ledger(displayed)'
      BY <1>0, <1>5 DEF Pass, Ledger
    <2> QED BY <1>0, <1>5, <2>1 DEF LedgerInv, Pass
  <1> QED BY <1>2, <1>3, <1>4, <1>5, StepKinds

-----------------------------------------------------------------------------
(***************************************************************************)
(* The evaluations.                                                        *)
(***************************************************************************)
GoodAgent(x, n) ==
    /\ AgentRecord(x)
    /\ x.step \in {"idle", "tools", "wording", "granting"}
    /\ x.offer \in Offer \cup {"none"}
    /\ x.since \in Int /\ x.since <= n
    /\ x.step = "wording" => x.offer \in Offer
    /\ x.step = "granting" => x.session \in Session

\* An idle evaluation is a good one.
LEMMA IdleIsGood ==
    ASSUME NEW n \in Nat
    PROVE  GoodAgent(Idle, n) /\ Idle.step = "idle"
  BY DEF GoodAgent, AgentRecord, Idle

\* Six fields make a record of an evaluation.
LEMMA FieldsAreRecord ==
    ASSUME NEW st, NEW sg, NEW o, NEW si, NEW se, NEW sv, NEW n,
           st \in {"idle", "tools", "wording", "granting"}, o \in Offer \cup {"none"},
           si \in Int, si <= n, st = "wording" => o \in Offer,
           st = "granting" => se \in Session
    PROVE  GoodAgent([step |-> st, segment |-> sg, offer |-> o, since |-> si, session |-> se,
                      service |-> sv], n)
  BY DEF GoodAgent, AgentRecord

\* A turn leaves a good evaluation.
LEMMA TurnIsGood ==
    ASSUME LedgerInv, AgentInv, NEW a \in Agent, NEW next, Turned(a, next)
    PROVE  GoodAgent(next, now)
  <1>0. now \in Nat
    BY BoundsAssumption DEF LedgerInv
  <1>1. CASE next = Idle
    BY <1>0, <1>1, IdleIsGood
  <1>2. ASSUME NEW segment, next = [Idle EXCEPT !.step = "tools", !.segment = segment]
        PROVE  GoodAgent(next, now)
    <2>1. next = [step |-> "tools", segment |-> segment, offer |-> "none", since |-> 0,
                  session |-> "none", service |-> "none"]
      BY <1>2 DEF Idle
    <2> QED BY <1>0, <2>1, FieldsAreRecord
  <1>3. ASSUME NEW s \in Session, NEW service,
               next = [Idle EXCEPT !.step = "granting", !.session = s, !.service = service]
        PROVE  GoodAgent(next, now)
    <2>1. next = [step |-> "granting", segment |-> "none", offer |-> "none", since |-> 0,
                  session |-> s, service |-> service]
      BY <1>3 DEF Idle
    <2> QED BY <1>0, <2>1, FieldsAreRecord
  <1>4. CASE Approved(a, next)
    <2>1. PICK trigger \in Trigger, x \in Strengths, y \in Strengths :
             next = [agent[a] EXCEPT !.step = "wording", !.since = now,
                 !.offer = Select(EligibleOffers(agent[a].segment, trigger, rows),
                     agent[a].segment, trigger,
                     Band(Score(customer, agent[a].segment, x, y)))]
      BY <1>4 DEF Approved
    <2> DEFINE o == Select(EligibleOffers(agent[a].segment, trigger, rows),
                     agent[a].segment, trigger,
                     Band(Score(customer, agent[a].segment, x, y)))
    <2>2. o \in Offer
      BY SelectFits
    <2>3. AgentRecord(agent[a])
      BY DEF AgentInv
    <2> HIDE DEF o
    <2>4. next = [agent[a] EXCEPT !.step = "wording", !.since = now, !.offer = o]
      BY <2>1 DEF o
    <2>5. next = [step |-> "wording", segment |-> agent[a].segment, offer |-> o, since |-> now,
                  session |-> agent[a].session, service |-> agent[a].service]
      BY <2>3, <2>4 DEF AgentRecord
    <2> QED BY <1>0, <2>2, <2>5, FieldsAreRecord
  <1> QED BY <1>1, <1>2, <1>3, <1>4 DEF Turned

\* Every evaluation stays a good one.
LEMMA AgentStep ==
    ASSUME LedgerInv, AgentInv, Next \/ UNCHANGED vars
    PROVE  AgentInv'
  <1>0. now \in Nat /\ now' \in Nat /\ now <= now'
    BY BoundsAssumption, RowsGrow DEF LedgerInv
  <1>1. /\ DOMAIN agent = Agent /\ agent = [a \in Agent |-> agent[a]]
        /\ \A a \in Agent : GoodAgent(agent[a], now)
    BY DEF AgentInv, GoodAgent
  <1>2. ASSUME NEW x, GoodAgent(x, now)
        PROVE  GoodAgent(x, now')
    BY <1>0, <1>2 DEF GoodAgent
  <1>3. GoodAgent(Idle, now)
    BY <1>0, IdleIsGood
  <1>4. /\ DOMAIN agent' = Agent /\ agent' = [a \in Agent |-> agent'[a]]
        /\ \A a \in Agent : GoodAgent(agent'[a], now)
    <2>1. CASE UNCHANGED agent
      BY <1>1, <2>1
    <2>2. CASE agent' = [a \in Agent |-> Idle]
      BY <1>3, <2>2
    <2>3. ASSUME NEW a \in Agent, NEW next, agent' = [agent EXCEPT ![a] = next],
                 GoodAgent(next, now)
          PROVE  /\ DOMAIN agent' = Agent /\ agent' = [b \in Agent |-> agent'[b]]
                 /\ \A b \in Agent : GoodAgent(agent'[b], now)
      BY <1>1, <2>3
    <2>4. ASSUME NEW a \in Agent, Show(a)
          PROVE  agent' = [agent EXCEPT ![a] = Idle]
      BY <2>4 DEF Show
    <2>5. ASSUME NEW a \in Agent, Turn(a)
          PROVE  \E next : agent' = [agent EXCEPT ![a] = next] /\ GoodAgent(next, now)
      <3>1. PICK next : agent' = [agent EXCEPT ![a] = next] /\ Turned(a, next)
        BY <2>5 DEF Turn
      <3>2. GoodAgent(next, now)
        BY <3>1, TurnIsGood
      <3> QED BY <3>1, <3>2
    <2>6. Reply \/ Pass => UNCHANGED agent
      BY DEF Reply, Pass
    <2> QED BY <1>3, <2>1, <2>2, <2>3, <2>4, <2>5, <2>6, StepKinds
  <1>5. \A a \in Agent : GoodAgent(agent'[a], now')
    BY <1>2, <1>4
  <1> QED BY <1>4, <1>5 DEF AgentInv, GoodAgent

\* One offer a session.
LEMMA GrantStep ==
    ASSUME AgentInv, GrantInv, Next \/ UNCHANGED vars
    PROVE  GrantInv'
  <1>1. ASSUME NEW a \in Agent, LegacyGrant(a)
        PROVE  GrantInv'
    <2>1. PICK s \in Session : s = agent[a].session
      BY <1>1 DEF LegacyGrant, AgentInv
    <2>2. /\ offered' = offered \cup {s}
          /\ granted' = IF s \in offered THEN granted ELSE [granted EXCEPT ![s] = @ + 1]
      BY <1>1, <2>1 DEF LegacyGrant
    <2>3. CASE s \in offered
      BY <2>2, <2>3 DEF GrantInv
    <2>4. CASE s \notin offered
      BY <2>2, <2>4 DEF GrantInv
    <2> QED BY <2>3, <2>4
  <1>2. CASE Restart
    BY <1>2 DEF Restart, GrantInv
  <1>3. ASSUME UNCHANGED <<offered, granted>>
        PROVE  GrantInv'
    BY <1>3 DEF GrantInv
  <1>4. ASSUME NEW a \in Agent,
               \/ Begin(a) \/ ToolsFail(a) \/ Record(a) \/ RecordFails(a)
               \/ \E trigger \in Trigger, x \in Strengths :
                     Refuse(a, trigger, x) \/ Approve(a, trigger, x)
               \/ \E s \in Session, input \in Inputs : LegacyCheck(a, s, input)
        PROVE  UNCHANGED <<offered, granted>>
    BY <1>4 DEF Begin, ToolsFail, Record, RecordFails, Refuse, Approve, LegacyCheck, history
  <1>5. ASSUME \/ \E o \in Offer, response \in Response : Answer(o, response)
               \/ Tick \/ UNCHANGED vars
        PROVE  UNCHANGED <<offered, granted>>
    BY <1>5 DEF Answer, Tick, vars, history
  <1>6. ASSUME Promote
        PROVE  UNCHANGED <<offered, granted>>
    <2>1. UNCHANGED <<now, rows, offered, agent, history, lost>>
      BY <1>6, Zenon DEF Promote
    <2> QED BY <2>1 DEF history
  <1> QED BY <1>1, <1>2, <1>3, <1>4, <1>5, <1>6 DEF Next

\* Announced cooldowns are kept.
LEMMA CoolStep ==
    ASSUME LedgerInv, CoolInv, Next \/ UNCHANGED vars
    PROVE  CoolInv'
  <1>0. now \in Nat /\ Ledger(rows)
    BY BoundsAssumption DEF LedgerInv
  <1>1. Grew(rows, rows') /\ now' \in Nat /\ now <= now'
    BY RowsGrow
  <1>2. ASSUME NEW t \in Int, Cooling(rows, t)
        PROVE  Cooling(rows', t)
    BY <1>0, <1>1, <1>2, CoolingGrows DEF Ledger
  <1>3. ASSUME NEW u \in Int, until' = Later(until, u),
               \A t \in Int : now <= t /\ t < u => Cooling(rows, t)
        PROVE  CoolInv'
    <2>1. until' \in {until, u}
      BY <1>3 DEF Later
    <2>2. ASSUME NEW t \in Int, now' <= t, t < until'
          PROVE  Cooling(rows, t)
      BY <1>0, <1>1, <1>3, <2>1, <2>2 DEF CoolInv
    <2> QED BY <1>2, <1>3, <2>1, <2>2 DEF CoolInv
  <1>4. ASSUME UNCHANGED until
        PROVE  CoolInv'
    BY <1>0, <1>1, <1>2, <1>4 DEF CoolInv
  <1>5. ASSUME NEW a \in Agent, NEW trigger \in Trigger, NEW x \in Strengths,
               Refuse(a, trigger, x)
        PROVE  CoolInv'
    <2>1. PICK reason : reason = Refusal(customer, agent[a].segment, trigger, x, rows, now)
      OBVIOUS
    <2>2. until' = Later(until, Cooldown(reason, rows, now))
      BY <1>5, <2>1 DEF Refuse
    <2>3. \A r \in BagToSet(rows) : r.at \in Int
      BY <1>0 DEF Ledger
    <2>4. /\ Cooldown(reason, rows, now) \in Int
          /\ \A t \in Int : now <= t /\ t < Cooldown(reason, rows, now) => Cooling(rows, t)
      BY <1>0, <2>1, <2>3, AnnouncedHolds DEF Ledger
    <2> QED BY <1>3, <2>2, <2>4
  <1>6. ASSUME NEW a \in Agent,
               \/ Begin(a) \/ ToolsFail(a) \/ Record(a) \/ RecordFails(a) \/ LegacyGrant(a)
               \/ \E trigger \in Trigger, x \in Strengths : Approve(a, trigger, x)
               \/ \E s \in Session, input \in Inputs : LegacyCheck(a, s, input)
        PROVE  UNCHANGED until
    BY <1>6 DEF Begin, ToolsFail, Record, RecordFails, LegacyGrant, Approve, LegacyCheck, history
  <1>7. ASSUME \/ \E o \in Offer, response \in Response : Answer(o, response)
               \/ Restart \/ Tick \/ UNCHANGED vars
        PROVE  UNCHANGED until
    BY <1>7 DEF Answer, Restart, Tick, vars, history
  <1>8. ASSUME Promote
        PROVE  UNCHANGED until
    <2>1. UNCHANGED <<now, rows, offered, agent, history, lost>>
      BY <1>8, Zenon DEF Promote
    <2> QED BY <2>1 DEF history
  <1> QED BY <1>4, <1>5, <1>6, <1>7, <1>8 DEF Next

-----------------------------------------------------------------------------
(***************************************************************************)
(* The limit.                                                              *)
(***************************************************************************)
Unit(x, t) == IF InWindow(x, Window, t) THEN 1 ELSE 0

\* A row more is a row more in the windows that reach it.
LEMMA VisibleWith ==
    ASSUME NEW b, Ledger(b), NEW x, NEW t
    PROVE  /\ Copies(With(b, x), Visible(With(b, x), t)) = Copies(b, Visible(b, t)) + Unit(x, t)
           /\ x.outcome \in Counted =>
                 Copies(With(b, x), Shown(With(b, x), t)) = Copies(b, Shown(b, t)) + Unit(x, t)
  <1> DEFINE c == With(b, x)
  <1>1. BagToSet(c) = BagToSet(b) \cup {x}
    BY WithBag DEF Ledger
  <1> HIDE DEF c
  <1>2. ASSUME NEW S, S \subseteq BagToSet(b), NEW T,
               \/ InWindow(x, Window, t) /\ T = S \cup {x} /\ (x \in BagToSet(b) => x \in S)
               \/ ~InWindow(x, Window, t) /\ T = S /\ x \notin S
        PROVE  Copies(c, T) = Copies(b, S) + Unit(x, t)
    <2>1. /\ (x \in BagToSet(b) => x \in S) => Copies(c, S \cup {x}) = Copies(b, S) + 1
          /\ x \notin S => Copies(c, S) = Copies(b, S)
      BY <1>2, CopiesWith DEF Ledger, c
    <2>2. Copies(b, S) \in Nat
      BY <1>2, CopiesType DEF Ledger
    <2> QED BY <1>2, <2>1, <2>2 DEF Unit
  <1>3. Copies(c, Visible(c, t)) = Copies(b, Visible(b, t)) + Unit(x, t)
    <2>1. /\ Visible(b, t) \subseteq BagToSet(b)
          /\ \/ /\ InWindow(x, Window, t) /\ Visible(c, t) = Visible(b, t) \cup {x}
                /\ x \in BagToSet(b) => x \in Visible(b, t)
             \/ /\ ~InWindow(x, Window, t) /\ Visible(c, t) = Visible(b, t)
                /\ x \notin Visible(b, t)
      BY <1>1 DEF Visible
    <2> QED BY <1>2, <2>1
  <1>4. ASSUME x.outcome \in Counted
        PROVE  Copies(c, Shown(c, t)) = Copies(b, Shown(b, t)) + Unit(x, t)
    <2>1. /\ Shown(b, t) \subseteq BagToSet(b)
          /\ \/ /\ InWindow(x, Window, t) /\ Shown(c, t) = Shown(b, t) \cup {x}
                /\ x \in BagToSet(b) => x \in Shown(b, t)
             \/ /\ ~InWindow(x, Window, t) /\ Shown(c, t) = Shown(b, t)
                /\ x \notin Shown(b, t)
      BY <1>1, <1>4 DEF Shown, Recent
    <2> QED BY <1>2, <2>1
  <1> QED BY <1>3, <1>4 DEF c

\* The copies in a window are a number.
LEMMA WindowCopies ==
    ASSUME NEW b, Ledger(b), NEW t
    PROVE  Copies(b, Visible(b, t)) \in Nat /\ Copies(b, Shown(b, t)) \in Nat
  <1>1. Visible(b, t) \subseteq BagToSet(b) /\ Shown(b, t) \subseteq BagToSet(b)
    BY DEF Visible, Shown, Recent
  <1> QED BY <1>1, CopiesType DEF Ledger

\* A later window shows no more of what there is now.
LEMMA WindowSlides ==
    ASSUME NEW b, Ledger(b), now \in Nat, NEW t \in Int, t >= now
    PROVE  Copies(b, Visible(b, t)) <= Copies(b, Visible(b, now))
  <1>1. Window \in Nat
    BY WindowAssumption
  <1>2. ASSUME NEW r \in BagToSet(b), InWindow(r, Window, t)
        PROVE  InWindow(r, Window, now)
    BY <1>1, <1>2 DEF InWindow, Ledger
  <1>3. /\ Visible(b, t) \subseteq Visible(b, now) /\ Visible(b, t) \subseteq BagToSet(b)
        /\ Visible(b, now) \subseteq BagToSet(b)
    BY <1>2 DEF Visible
  <1>4. \A r \in BagToSet(b) : b[r] <= b[r]
    BY DEF Ledger, IsABag, BagToSet
  <1> QED BY <1>3, <1>4, CopiesMonotone DEF Ledger

\* Evaluations that are being worded are evaluations.
LEMMA WordingSize ==
    ASSUME NEW W, NEW V, W \subseteq Agent, V \subseteq Agent
    PROVE  /\ Cardinality(W) \in Nat /\ Cardinality(Agent) \in Nat
           /\ Cardinality(W) <= Cardinality(Agent)
           /\ V \subseteq W => Cardinality(V) <= Cardinality(W)
           /\ \A a \in W : V = W \ {a} => Cardinality(V) = Cardinality(W) - 1
  <1>1. IsFiniteSet(Agent) /\ Cardinality(Agent) \in Nat
    BY AgentAssumption, FS_CardinalityType
  <1>2. IsFiniteSet(W) /\ Cardinality(W) \in Nat /\ Cardinality(W) <= Cardinality(Agent)
    BY <1>1, FS_Subset, FS_CardinalityType
  <1>3. V \subseteq W => Cardinality(V) <= Cardinality(W)
    BY <1>2, FS_Subset
  <1>4. \A a \in W : V = W \ {a} => Cardinality(V) = Cardinality(W) - 1
    BY <1>2, FS_RemoveElement
  <1> QED BY <1>1, <1>2, <1>3, <1>4

\* An approval finds the rows below the limit.
LEMMA ApprovalIsBelow ==
    ASSUME LedgerInv, LimitInv, NEW a \in Agent, NEW next, Approved(a, next)
    PROVE  ShownAt(now) <= Limit - 1 + lost
  <1>0. now \in Nat /\ lost \in Nat /\ Ledger(rows) /\ Ledger(displayed) /\ Limit \in Nat
    BY BoundsAssumption, WindowAssumption DEF LedgerInv
  <1>1. ~Cooling(rows, now)
    BY Unrefused DEF Approved
  <1>2. /\ ShownAt(now) \in Nat /\ Copies(rows, Shown(rows, now)) \in Nat
        /\ ShownAt(now) <= Copies(rows, Shown(rows, now)) + lost
    BY <1>0, WindowCopies DEF ShownAt, LimitInv
  <1>3. ~(Copies(rows, Shown(rows, now)) >= Limit)
    BY <1>1 DEF Cooling, Limited
  <1> QED BY <1>0, <1>2, <1>3

\* The limit, and what it rests on, is kept.
LEMMA LimitStep ==
    ASSUME LedgerInv, AgentInv, LimitInv, Next \/ UNCHANGED vars
    PROVE  LimitInv'
  <1>0. /\ now \in Nat /\ lost \in Nat /\ MaxLost \in Nat
        /\ Ledger(rows) /\ Ledger(displayed) /\ Limit \in Nat /\ Window \in Nat \ {0}
    BY BoundsAssumption, WindowAssumption DEF LedgerInv
  <1> DEFINE shown(t) == Copies(rows, Shown(rows, t))
             W == Cardinality(Wording)
             N == Cardinality(Agent)
  <1>1. /\ \A t \in Int : ShownAt(t) \in Nat /\ shown(t) \in Nat
        /\ \A t \in Int : t >= now => ShownAt(t) <= ShownAt(now)
    BY <1>0, WindowCopies, WindowSlides DEF ShownAt
  <1>2. /\ ShownAt(now) + W <= Limit - 1 + N + lost
        /\ \A t \in Int : t >= now => ShownAt(t) <= shown(t) + lost
    BY DEF LimitInv
  <1>3. Wording \subseteq Agent /\ Wording' \subseteq Agent
    BY DEF Wording
  <1>4. PICK V : V = Wording'
    OBVIOUS
  <1>5. /\ W \in Nat /\ N \in Nat /\ Cardinality(V) \in Nat /\ Cardinality(V) <= N
        /\ V \subseteq Wording => Cardinality(V) <= W
        /\ \A a \in Wording : V = Wording \ {a} => Cardinality(V) = W - 1
    BY <1>3, <1>4, WordingSize
  <1>6. Wording' = {a \in Agent : agent'[a].step = "wording"}
    BY DEF Wording
  <1>7. DOMAIN agent = Agent
    BY DEF AgentInv
  <1>i. Idle.step # "wording"
    BY DEF Idle
  <1>8. CASE Shift
    <2>1. /\ ShownAt(now)' = ShownAt(now) /\ lost' = lost
          /\ \A t \in Int : ShownAt(t)' = ShownAt(t) /\ shown(t)' = shown(t)
          /\ now' = now
      BY <1>8 DEF Shift, ShownAt
    <2>2. ASSUME ShownAt(now) + Cardinality(V) <= Limit - 1 + N + lost
          PROVE  LimitInv'
      <3>1. ShownAt(now)' + Cardinality(Wording)' <= Limit - 1 + N + lost'
        BY <1>0, <1>1, <1>4, <1>5, <2>1, <2>2
      <3>2. \A t \in Int : t >= now' => ShownAt(t)' <= shown(t)' + lost'
        BY <1>0, <1>1, <1>2, <2>1
      <3> QED BY <3>1, <3>2 DEF LimitInv
    <2>3. CASE V \subseteq Wording
      BY <1>0, <1>1, <1>2, <1>5, <2>2, <2>3
    <2>4. ASSUME NEW a \in Agent, NEW next, Approved(a, next)
          PROVE  LimitInv'
      <3>1. ShownAt(now) <= Limit - 1 + lost
        BY <2>4, ApprovalIsBelow
      <3> QED BY <1>0, <1>1, <1>5, <2>2, <3>1
    <2>5. ASSUME NEW a \in Agent, Turn(a)
          PROVE  LimitInv'
      <3>1. PICK next : agent' = [agent EXCEPT ![a] = next] /\ Turned(a, next)
        BY <2>5 DEF Turn
      <3>2. next.step # "wording" => V \subseteq Wording
        BY <1>4, <1>6, <1>7, <3>1 DEF Wording
      <3>3. next.step # "wording" \/ Approved(a, next)
        <4>1. ASSUME NEW segment, next = [Idle EXCEPT !.step = "tools", !.segment = segment]
              PROVE  next.step # "wording"
          BY <4>1 DEF Idle
        <4>2. ASSUME NEW s \in Session, NEW service,
                     next = [Idle EXCEPT !.step = "granting", !.session = s, !.service = service]
              PROVE  next.step # "wording"
          BY <4>2 DEF Idle
        <4> QED BY <1>i, <3>1, <4>1, <4>2 DEF Turned
      <3> QED BY <2>3, <2>4, <3>2, <3>3
    <2>6. UNCHANGED agent \/ agent' = [a \in Agent |-> Idle] => V \subseteq Wording
      BY <1>4, <1>6, <1>i DEF Wording
    <2>7. \/ \E a \in Agent : Turn(a)
          \/ UNCHANGED agent
          \/ agent' = [a \in Agent |-> Idle]
          \/ \E a \in Agent : Show(a)
          \/ Reply \/ Pass
      BY StepKinds
    <2>8. Reply \/ Pass => UNCHANGED agent
      BY DEF Reply, Pass
    <2>9. ASSUME NEW a \in Agent, Show(a)
          PROVE  V \subseteq Wording
      BY <1>4, <1>6, <1>7, <1>i, <2>9 DEF Show, Wording
    <2> QED BY <2>3, <2>5, <2>6, <2>7, <2>8, <2>9
  <1>9. ASSUME NEW a \in Agent, Show(a)
        PROVE  LimitInv'
    <2> DEFINE d == [offer |-> agent[a].offer, at |-> now]
               r == Row(agent[a].offer, "OFFER_SHOWN")
    <2>1. V = Wording \ {a} /\ a \in Wording
      BY <1>4, <1>6, <1>7, <1>i, <1>9 DEF Show, Wording
    <2>2. d.at = now /\ r.at = now /\ r.outcome \in Counted
      BY DEF Row, Counted
    <2> HIDE DEF d, r
    <2>3. \A t \in Int : Unit(d, t) = Unit(r, t) /\ Unit(d, t) \in {0, 1}
      BY <2>2 DEF Unit, InWindow
    <2>4. Unit(d, now) = 1
      BY <1>0, <2>2 DEF Unit, InWindow
    <2>5. displayed' = With(displayed, d) /\ now' = now
      BY <1>9 DEF Show, d
    <2>6. \A t \in Int : ShownAt(t)' = ShownAt(t) + Unit(d, t)
      BY <1>0, <2>5, VisibleWith DEF ShownAt
    <2>7. \/ /\ lost' = lost /\ \A t \in Int : shown(t)' = shown(t) + Unit(d, t)
          \/ lost' = lost + 1 /\ \A t \in Int : shown(t)' = shown(t)
      <3>1. CASE rows' = With(rows, r) /\ lost' = lost
        BY <1>0, <2>2, <2>3, <3>1, VisibleWith
      <3>2. CASE rows' = rows /\ lost' = lost + 1
        BY <3>2
      <3> QED BY <1>9, <3>1, <3>2 DEF Show, r
    <2>8. ShownAt(now)' + Cardinality(Wording)' <= Limit - 1 + N + lost'
      <3>1. ShownAt(now)' = ShownAt(now) + 1
        BY <1>0, <2>4, <2>5, <2>6
      <3>2. Cardinality(Wording)' = W - 1
        BY <1>4, <1>5, <2>1
      <3> QED BY <1>0, <1>1, <1>2, <1>5, <2>7, <3>1, <3>2
    <2>9. \A t \in Int : t >= now' => ShownAt(t)' <= shown(t)' + lost'
      BY <1>0, <1>1, <1>2, <2>3, <2>5, <2>6, <2>7
    <2> QED BY <2>8, <2>9 DEF LimitInv
  <1>10. CASE Reply
    <2>1. PICK o \in Offer, response \in Response :
             rows' = With(rows, Row(o, response)) /\ UNCHANGED <<now, displayed, lost, agent>>
      BY <1>10 DEF Reply
    <2> DEFINE r == Row(o, response)
    <2>2. r.outcome \in Counted
      BY DEF Row, Counted
    <2> HIDE DEF r
    <2>3. \A t \in Int : shown(t)' = shown(t) + Unit(r, t) /\ Unit(r, t) \in {0, 1}
      BY <1>0, <2>1, <2>2, VisibleWith DEF Unit, r
    <2>4. \A t \in Int : ShownAt(t)' = ShownAt(t)
      BY <2>1 DEF ShownAt
    <2>5. V = Wording
      BY <1>4, <1>6, <2>1 DEF Wording
    <2>6. ShownAt(now)' + Cardinality(Wording)' <= Limit - 1 + N + lost'
      BY <1>0, <1>2, <1>4, <2>1, <2>4, <2>5
    <2>7. \A t \in Int : t >= now' => ShownAt(t)' <= shown(t)' + lost'
      BY <1>0, <1>1, <1>2, <2>1, <2>3, <2>4
    <2> QED BY <2>6, <2>7 DEF LimitInv
  <1>11. CASE Pass
    <2>1. now' = now + 1 /\ UNCHANGED <<rows, displayed, lost, agent>>
      BY <1>11 DEF Pass
    <2>2. \A t \in Int : ShownAt(t)' = ShownAt(t) /\ shown(t)' = shown(t)
      BY <2>1 DEF ShownAt
    <2>3. V = Wording
      BY <1>4, <1>6, <2>1 DEF Wording
    <2>4. ShownAt(now)' = ShownAt(now + 1)
      BY <2>1 DEF ShownAt
    <2>5. ShownAt(now + 1) <= ShownAt(now) /\ ShownAt(now + 1) \in Nat
      BY <1>0, <1>1
    <2>6. ShownAt(now)' + Cardinality(Wording)' <= Limit - 1 + N + lost'
      BY <1>0, <1>1, <1>2, <1>4, <1>5, <2>1, <2>3, <2>4, <2>5
    <2>7. \A t \in Int : t >= now' => ShownAt(t)' <= shown(t)' + lost'
      BY <1>0, <1>1, <1>2, <2>1, <2>2
    <2> QED BY <2>6, <2>7 DEF LimitInv
  <1> QED BY <1>8, <1>9, <1>10, <1>11, StepKinds

-----------------------------------------------------------------------------
(***************************************************************************)
(* The offer in hand.                                                      *)
(***************************************************************************)

\* The offer of one evaluation suits its segment and the rows before it.
Suits(x, b) ==
    x.step = "wording" /\ x.offer \in {Trial, Membership} =>
        /\ x.segment \notin Value
        /\ \A r \in BagToSet(b) : r.at < x.since =>
              /\ ~(r.type = Membership /\ r.outcome \in Accepted)
              /\ ~(/\ r.type \in {Trial, Membership} /\ r.outcome \in Declined
                   /\ InWindow(r, Window, x.since))

\* An offer suits exactly when each evaluation's does.
LEMMA FitIsSuit ==
    OfferFits <=> \A a \in Agent : Suits(agent[a], rows)
  BY DEF OfferFits, OfferFitsSegment, NoSubscriptionAfterAnswer, InHand, Suits

\* An approved offer suits.
LEMMA ApprovedSuits ==
    ASSUME LedgerInv, AgentInv, NEW a \in Agent, NEW next, Approved(a, next)
    PROVE  Suits(next, rows)
  <1>0. now \in Nat /\ Ledger(rows) /\ AgentRecord(agent[a])
    BY BoundsAssumption DEF LedgerInv, AgentInv
  <1>1. PICK trigger \in Trigger, x \in Strengths, y \in Strengths :
           /\ Refusal(customer, agent[a].segment, trigger, x, rows, now) = "NONE"
           /\ next = [agent[a] EXCEPT !.step = "wording", !.since = now,
                 !.offer = Select(EligibleOffers(agent[a].segment, trigger, rows),
                     agent[a].segment, trigger,
                     Band(Score(customer, agent[a].segment, x, y)))]
    BY DEF Approved
  <1> DEFINE o == Select(EligibleOffers(agent[a].segment, trigger, rows),
                     agent[a].segment, trigger,
                     Band(Score(customer, agent[a].segment, x, y)))
  <1>2. /\ agent[a].segment \in Value => o = Advisory
        /\ Member(rows) => o = Advisory
    BY SelectFits
  <1> HIDE DEF o
  <1>3. next = [step |-> "wording", segment |-> agent[a].segment, offer |-> o, since |-> now,
                session |-> agent[a].session, service |-> agent[a].service]
    BY <1>0, <1>1 DEF AgentRecord, o
  <1>4. Declines(rows, now) = {}
    BY <1>1, Unrefused DEF Cooling
  <1>5. next.segment = agent[a].segment /\ next.offer = o /\ next.since = now
    BY <1>3
  <1>6. Advisory \notin {Trial, Membership}
    BY DEF Advisory, Trial, Membership
  <1>7. ASSUME o \in {Trial, Membership}
        PROVE  agent[a].segment \notin Value /\ ~Member(rows)
    BY <1>2, <1>6, <1>7
  <1>8. \A r \in BagToSet(rows) :
           ~(/\ r.type \in {Trial, Membership} /\ r.outcome \in Declined
             /\ InWindow(r, Window, now))
    BY <1>4 DEF Declines, Recent
  <1> QED BY <1>5, <1>7, <1>8 DEF Suits, Member

\* Every offer in hand still suits after a step: new rows are not older than
\* an evaluation.
LEMMA FitStep ==
    ASSUME LedgerInv, AgentInv, OfferFits, Next \/ UNCHANGED vars
    PROVE  OfferFits'
  <1>0. now \in Nat /\ Ledger(rows)
    BY BoundsAssumption DEF LedgerInv
  <1>1. /\ DOMAIN agent = Agent
        /\ \A a \in Agent : Suits(agent[a], rows) /\ agent[a].since \in Int /\ agent[a].since <= now
    BY FitIsSuit DEF AgentInv
  <1>2. ASSUME NEW x, x.step # "wording", NEW b
        PROVE  Suits(x, b)
    BY <1>2 DEF Suits
  <1>3. /\ Idle.step # "wording"
        /\ \A segment : [Idle EXCEPT !.step = "tools", !.segment = segment].step # "wording"
        /\ \A s, service : [Idle EXCEPT !.step = "granting", !.session = s,
                                        !.service = service].step # "wording"
    BY DEF Idle
  <1>4. ASSUME NEW x, NEW r, r.at = now, x.since \in Int, x.since <= now, Suits(x, rows)
        PROVE  Suits(x, With(rows, r))
    <2>1. BagToSet(With(rows, r)) = BagToSet(rows) \cup {r}
      BY <1>0, WithBag DEF Ledger
    <2>2. ~(r.at < x.since)
      BY <1>0, <1>4
    <2> QED BY <1>4, <2>1, <2>2 DEF Suits
  <1>5. \A a \in Agent : Suits(agent'[a], rows')
    <2>1. CASE Shift
      <3>0. rows' = rows
        BY <2>1 DEF Shift
      <3>1. ASSUME NEW a \in Agent, Turn(a)
            PROVE  \A c \in Agent : Suits(agent'[c], rows')
        <4>1. PICK next : agent' = [agent EXCEPT ![a] = next] /\ Turned(a, next)
          BY <3>1 DEF Turn
        <4>2. Suits(next, rows)
          BY <1>2, <1>3, <4>1, ApprovedSuits DEF Turned
        <4> QED BY <1>1, <3>0, <4>1, <4>2
      <3>2. CASE UNCHANGED agent
        BY <1>1, <3>0, <3>2
      <3>3. CASE agent' = [a \in Agent |-> Idle]
        BY <1>2, <1>3, <3>0, <3>3
      <3>4. ASSUME NEW a \in Agent, Show(a)
            PROVE  \A c \in Agent : Suits(agent'[c], rows')
        BY <1>1, <1>2, <1>3, <3>0, <3>4 DEF Show
      <3>5. Reply \/ Pass => UNCHANGED agent
        BY DEF Reply, Pass
      <3> QED BY <3>1, <3>2, <3>3, <3>4, <3>5, StepKinds
    <2>2. ASSUME NEW a \in Agent, Show(a)
          PROVE  \A c \in Agent : Suits(agent'[c], rows')
      <3>1. agent' = [agent EXCEPT ![a] = Idle]
        BY <2>2 DEF Show
      <3>2. rows' = rows \/ rows' = With(rows, Row(agent[a].offer, "OFFER_SHOWN"))
        BY <2>2 DEF Show
      <3>3. Row(agent[a].offer, "OFFER_SHOWN").at = now
        BY DEF Row
      <3>4. ASSUME NEW c \in Agent, c # a
            PROVE  agent'[c] = agent[c] /\ Suits(agent[c], rows')
        BY <1>1, <1>4, <3>1, <3>2, <3>3, <3>4
      <3>5. Suits(agent'[a], rows')
        BY <1>1, <1>2, <1>3, <3>1
      <3> QED BY <3>4, <3>5
    <2>3. CASE Reply
      <3>1. PICK o \in Offer, response \in Response :
               rows' = With(rows, Row(o, response)) /\ UNCHANGED agent
        BY <2>3 DEF Reply
      <3>2. Row(o, response).at = now
        BY DEF Row
      <3> QED BY <1>1, <1>4, <3>1, <3>2
    <2>4. CASE Pass
      BY <1>1, <2>4 DEF Pass
    <2> QED BY <2>1, <2>2, <2>3, <2>4, StepKinds
  <1> QED BY <1>5 DEF OfferFits, OfferFitsSegment, NoSubscriptionAfterAnswer, InHand, Suits

-----------------------------------------------------------------------------
(***************************************************************************)
(* The invariant and its theorems.                                         *)
(***************************************************************************)

\* A run starts inside the invariant.
LEMMA InitPolicy == Init => PolicyInv
  <1> SUFFICES ASSUME Init
               PROVE  PolicyInv
    OBVIOUS
  <1>w. Limit \in Nat \ {0} /\ Window \in Nat \ {0}
    BY WindowAssumption
  <1>1. IsABag(EmptyBag) /\ BagToSet(EmptyBag) = {}
    BY DEF EmptyBag, SetToBag, IsABag, BagToSet
  <1>2. IsFiniteSet(Pairs(EmptyBag, BagToSet(EmptyBag)))
    BY <1>1, FiniteBag, FS_EmptySet
  <1>3. LedgerInv
    <2>1. Ledger(displayed)
      BY <1>1, <1>2 DEF Init, Ledger
    <2>2. Ledger(rows)
      BY HistoryAssumption, FiniteBag DEF Init, Ledger
    <2> QED BY <1>1, <2>1, <2>2, BoundsAssumption DEF Init, LedgerInv
  <1>4. AgentInv
    <2>1. GoodAgent(Idle, 0)
      BY IdleIsGood
    <2> QED BY <2>1 DEF Init, AgentInv, GoodAgent
  <1>5. GrantInv
    BY DEF Init, GrantInv
  <1>6. LimitInv
    <2>1. \A t \in Int : ShownAt(t) = 0
      <3>1. \A t \in Int : Visible(displayed, t) = {}
        BY <1>1 DEF Init, Visible
      <3> QED BY <3>1, CopiesOfNone DEF ShownAt
    <2>2. Wording = {}
      BY DEF Init, Wording, Idle
    <2>3. Cardinality(Wording) = 0 /\ Cardinality(Agent) \in Nat
      BY <2>2, AgentAssumption, FS_EmptySet, FS_CardinalityType
    <2>4. now = 0 /\ lost = 0
      BY DEF Init
    <2>5. ShownAt(now) + Cardinality(Wording) <= Limit - 1 + Cardinality(Agent) + lost
      BY <1>w, <2>1, <2>3, <2>4
    <2>6. ASSUME NEW t \in Int
          PROVE  ShownAt(t) <= Copies(rows, Shown(rows, t)) + lost
      <3>1. Copies(rows, Shown(rows, t)) \in Nat
        BY <1>3, WindowCopies DEF LedgerInv
      <3> QED BY <2>1, <2>4, <3>1
    <2> QED BY <2>5, <2>6 DEF LimitInv
  <1>7. CoolInv
    BY DEF Init, CoolInv
  <1>8. OfferFits
    <2>1. \A a \in Agent : Suits(agent[a], rows)
      BY DEF Init, Suits, Idle
    <2> QED BY <2>1, FitIsSuit
  <1> QED BY <1>3, <1>4, <1>5, <1>6, <1>7, <1>8 DEF PolicyInv

\* Every step stays inside it.
LEMMA NextPolicy == PolicyInv /\ [Next]_vars => PolicyInv'
  BY LedgerStep, AgentStep, GrantStep, LimitStep, CoolStep, FitStep DEF PolicyInv

\* PolicyInv holds of every evaluation, however the turns interleave.
THEOREM Invariant == Spec => []PolicyInv
  <1> QED BY InitPolicy, NextPolicy, PTL DEF Spec

\* The frequency limit and the session limit hold as far as a check before an
\* await can hold them: the offers shown in one window exceed the limit by at
\* most the evaluations in flight and the rows that were lost, and a session
\* is granted one offer.
THEOREM Limits == Spec => []LimitsHold
  <1>1. PolicyInv => LimitsHold
    <2> SUFFICES ASSUME PolicyInv
                 PROVE  LimitsHold
      OBVIOUS
    <2>1. TypeOK
      BY DEF PolicyInv, LedgerInv, AgentInv, GrantInv, Ledger, TypeOK
    <2>2. OvershootIsBounded
      <3>1. Wording \subseteq Agent
        BY DEF Wording
      <3>2. Cardinality(Wording) \in Nat /\ Cardinality(Agent) \in Nat
        BY <3>1, WordingSize
      <3>3. now \in Int /\ lost \in Nat /\ Limit \in Nat /\ ShownAt(now) \in Nat
        BY BoundsAssumption, WindowAssumption, WindowCopies DEF PolicyInv, LedgerInv, ShownAt
      <3>4. ShownAt(now) + Cardinality(Wording) <= Limit - 1 + Cardinality(Agent) + lost
        BY DEF PolicyInv, LimitInv
      <3>5. ShownNow = ShownAt(now)
        BY DEF ShownNow, ShownAt, Visible
      <3> QED BY <3>2, <3>3, <3>4, <3>5 DEF OvershootIsBounded
    <2>3. OneOfferPerSession
      BY DEF PolicyInv, GrantInv, OneOfferPerSession
    <2> QED BY <2>1, <2>2, <2>3 DEF LimitsHold
  <1> QED BY <1>1, Invariant, PTL

\* A cooldown that was announced to the customer is kept until its end,
\* whatever rows are added and whatever segment the customer moves to.
THEOREM Cooldowns == Spec => []CooldownIsKept
  <1>1. PolicyInv => CooldownIsKept
    <2> SUFFICES ASSUME PolicyInv, now < until, NEW trigger \in Trigger, NEW x \in Strengths
                 PROVE  Refusal(customer, customer.segment, trigger, x, rows, now) # "NONE"
      BY DEF CooldownIsKept
    <2>1. now \in Int /\ now <= now
      BY DEF PolicyInv, LedgerInv
    <2>2. Cooling(rows, now)
      BY <2>1 DEF PolicyInv, CoolInv
    <2> QED BY <2>2, Unrefused
  <1> QED BY <1>1, Invariant, PTL

\* The offer being worded suits the segment it was chosen for and what the
\* customer had answered before the evaluation read the rows.
THEOREM OffersSuit == Spec => []OfferFits
  <1>1. PolicyInv => OfferFits
    BY DEF PolicyInv
  <1> QED BY <1>1, Invariant, PTL
=============================================================================
