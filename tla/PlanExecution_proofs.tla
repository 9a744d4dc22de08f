------------------------ MODULE PlanExecution_proofs ------------------------
(***************************************************************************)
(* Proofs about PlanExecution: the plan that grows while it runs is sound, *)
(* and the reply to the customer is honest.                                *)
(***************************************************************************)
EXTENDS PlanExecution, FiniteSetTheorems, SequenceTheorems, TLAPS

(***************************************************************************)
(* How often an agent occurs in a sequence.                                *)
(***************************************************************************)

Places(s, a) == {i \in DOMAIN s : s[i] = a}

\* The places of an element are finitely many, and none where it is absent.
LEMMA PlacesFinite ==
    ASSUME NEW S, NEW s \in Seq(S), NEW a
    PROVE  /\ IsFiniteSet(Places(s, a)) /\ Count(s, a) = Cardinality(Places(s, a))
           /\ Count(s, a) \in Nat /\ Places(s, a) \subseteq 1..Len(s)
  <1>1. Places(s, a) \subseteq 1..Len(s) /\ 1 \in Int /\ Len(s) \in Int
    BY DEF Places
  <1>2. IsFiniteSet(1..Len(s))
    BY <1>1, FS_Interval
  <1>3. IsFiniteSet(Places(s, a))
    BY <1>1, <1>2, FS_Subset
  <1>4. Count(s, a) = Cardinality(Places(s, a))
    BY DEF Count, Places
  <1>5. Cardinality(Places(s, a)) \in Nat
    BY <1>3, FS_CardinalityType
  <1> QED BY <1>1, <1>3, <1>4, <1>5

\* Nothing occurs in the empty sequence.
LEMMA CountEmpty ==
    ASSUME NEW a
    PROVE  Count(<<>>, a) = 0 /\ ToSet(<<>>) = {}
  <1>1. {i \in DOMAIN <<>> : <<>>[i] = a} = {}
    OBVIOUS
  <1>2. Count(<<>>, a) = Cardinality({})
    BY <1>1 DEF Count
  <1> QED BY <1>2, FS_EmptySet DEF ToSet

\* An element occurs exactly if its count is not zero.
LEMMA CountIn ==
    ASSUME NEW S, NEW s \in Seq(S), NEW a
    PROVE  a \in ToSet(s) <=> Count(s, a) >= 1
  <1>1. IsFiniteSet(Places(s, a)) /\ Count(s, a) = Cardinality(Places(s, a)) /\ Count(s, a) \in Nat
    BY PlacesFinite
  <1>2. a \in ToSet(s) <=> Places(s, a) # {}
    BY DEF ToSet, Places
  <1>3. Cardinality(Places(s, a)) = 0 <=> Places(s, a) = {}
    BY <1>1, FS_EmptySet
  <1>4. ASSUME NEW n \in Nat PROVE n >= 1 <=> n # 0
    OBVIOUS
  <1> QED BY <1>1, <1>2, <1>3, <1>4

\* A sequence without repetition holds an element at most once.
LEMMA CountInjective ==
    ASSUME NEW S, NEW s \in Seq(S), NEW a, IsInjective(s)
    PROVE  Count(s, a) <= 1
  <1>1. Count(s, a) = Cardinality(Places(s, a))
    BY PlacesFinite
  <1>2. CASE Places(s, a) = {}
    <2>1. Count(s, a) = 0
      BY <1>1, <1>2, FS_EmptySet
    <2> QED BY <2>1
  <1>3. CASE Places(s, a) # {}
    <2>1. PICK i : i \in Places(s, a)
      BY <1>3
    <2>2. \A j \in Places(s, a) : j = i
      BY <2>1 DEF Places, IsInjective
    <2>3. Places(s, a) = {i}
      BY <2>1, <2>2
    <2>4. Count(s, a) = 1
      BY <1>1, <2>3, FS_Singleton
    <2> QED BY <2>4
  <1> QED BY <1>2, <1>3

\* One element more.
LEMMA AppendIs ==
    ASSUME NEW S, NEW s \in Seq(S), NEW x \in S
    PROVE  /\ Append(s, x) \in Seq(S) /\ Len(s) \in Nat /\ Len(Append(s, x)) = Len(s) + 1
           /\ DOMAIN s = 1..Len(s) /\ DOMAIN Append(s, x) = 1..(Len(s) + 1)
           /\ \A i \in 1..Len(s) : Append(s, x)[i] = s[i]
           /\ Append(s, x)[Len(s) + 1] = x
  OBVIOUS

\* It counts once more, and no other element does.
LEMMA CountAppend ==
    ASSUME NEW S, NEW s \in Seq(S), NEW x \in S, NEW a
    PROVE  Count(Append(s, x), a) = Count(s, a) + (IF x = a THEN 1 ELSE 0)
  <1>0. PICK n : n = Len(s)
    OBVIOUS
  <1>1. /\ Append(s, x) \in Seq(S) /\ n \in Nat /\ Len(Append(s, x)) = n + 1
        /\ DOMAIN s = 1..n /\ DOMAIN Append(s, x) = 1..(n + 1)
        /\ \A i \in 1..n : Append(s, x)[i] = s[i]
        /\ Append(s, x)[n + 1] = x
    BY <1>0, AppendIs
  <1>2. 1..(n + 1) = (1..n) \cup {n + 1} /\ n + 1 \notin 1..n
    BY <1>1
  <1>3. Places(Append(s, x), a) = IF x = a THEN Places(s, a) \cup {n + 1} ELSE Places(s, a)
    BY <1>1, <1>2 DEF Places
  <1>4. n + 1 \notin Places(s, a)
    BY <1>1, <1>2 DEF Places
  <1>5. /\ IsFiniteSet(Places(s, a)) /\ Count(s, a) = Cardinality(Places(s, a))
        /\ Count(s, a) \in Nat
    BY PlacesFinite
  <1>6. Count(Append(s, x), a) = Cardinality(Places(Append(s, x), a))
    BY <1>1, PlacesFinite
  <1>7. Cardinality(Places(s, a) \cup {n + 1}) = Cardinality(Places(s, a)) + 1
    BY <1>4, <1>5, FS_AddElement
  <1> QED BY <1>3, <1>5, <1>6, <1>7

\* One element more in the set of them.
LEMMA InAppend ==
    ASSUME NEW S, NEW s \in Seq(S), NEW x \in S
    PROVE  ToSet(Append(s, x)) = ToSet(s) \cup {x}
  <1>1. PICK n : n = Len(s)
    OBVIOUS
  <1>2. /\ n \in Nat /\ DOMAIN s = 1..n /\ DOMAIN Append(s, x) = 1..(n + 1)
        /\ \A i \in 1..n : Append(s, x)[i] = s[i]
        /\ Append(s, x)[n + 1] = x
    BY <1>1, AppendIs
  <1>3. 1..(n + 1) = (1..n) \cup {n + 1} /\ n + 1 \notin 1..n
    BY <1>2
  <1> QED BY <1>2, <1>3 DEF ToSet

\* The first n elements, as the first n - 1 and one more.
LEMMA TakenGrows ==
    ASSUME NEW S, NEW q \in Seq(S), NEW n \in 1..Len(q)
    PROVE  /\ SubSeq(q, 1, n - 1) \in Seq(S) /\ q[n] \in S
           /\ SubSeq(q, 1, n) = Append(SubSeq(q, 1, n - 1), q[n])
  <1>1. SubSeq(q, 1, n) = SubSeq(q, 1, n - 1) \o <<q[n]>>
    <2>1. 1 \in 1..Len(q) /\ n \in 1..Len(q)
      OBVIOUS
    <2> QED BY <2>1, SubSeqRecursiveSecond
  <1>2. q[n] \in S
    OBVIOUS
  <1>3. SubSeq(q, 1, n - 1) \in Seq(S)
    <2>1. \A i \in 1..(n - 1) : q[i] \in S
      OBVIOUS
    <2>2. 1 \in Int /\ n - 1 \in Int
      OBVIOUS
    <2> QED BY <2>1, <2>2, SubSeqProperties
  <1> QED BY <1>1, <1>2, <1>3, AppendIsConcat

\* The steps taken are the same steps when the queue has grown at its end.
LEMMA TakenStays ==
    ASSUME NEW S, NEW q \in Seq(S), NEW x \in S, NEW n \in 0..Len(q)
    PROVE  SubSeq(Append(q, x), 1, n) = SubSeq(q, 1, n)
  <1>1. CASE n = 0
    BY <1>1, SubSeqEmpty
  <1>2. CASE n # 0
    <2>1. 1 \in 1..Len(q) /\ n \in 1..Len(q) /\ <<x>> \in Seq(S)
      BY <1>2
    <2>2. SubSeq(q \o <<x>>, 1, n) = SubSeq(q, 1, n)
      BY <2>1, SubSeqOfConcat1
    <2> QED BY <2>2, AppendIsConcat
  <1> QED BY <1>1, <1>2

\* A step taken is a step of the queue; where nothing pending is a's, all of
\* a's steps are taken.
LEMMA TakenCounts ==
    ASSUME NEW S, NEW q \in Seq(S), NEW n \in 0..Len(q), NEW a
    PROVE  /\ Count(SubSeq(q, 1, n), a) <= Count(q, a)
           /\ SubSeq(q, 1, n) \in Seq(S)
           /\ a \notin ToSet(SubSeq(q, n + 1, Len(q))) => Count(SubSeq(q, 1, n), a) = Count(q, a)
  <1> DEFINE s == SubSeq(q, 1, n)
  <1>0. PICK m : m = Len(q)
    OBVIOUS
  <1>1. m \in Nat /\ n \in Nat /\ n <= m /\ DOMAIN q = 1..m /\ \A i \in 1..n : q[i] \in S
    BY <1>0
  <1>2. s \in Seq(S) /\ Len(s) = n /\ \A i \in 1..n : s[i] = q[i]
    <2>1. 1 \in Int /\ n \in Int /\ n - 1 + 1 = n /\ (1 <= n \/ n = 0)
      BY <1>1
    <2>2. /\ s \in Seq(S) /\ Len(s) = (IF 1 <= n THEN n - 1 + 1 ELSE 0)
          /\ \A i \in 1..(n - 1 + 1) : s[i] = q[1 + i - 1]
      BY <1>1, <2>1, SubSeqProperties
    <2>3. \A i \in 1..n : 1 + i - 1 = i
      OBVIOUS
    <2> QED BY <2>1, <2>2, <2>3
  <1>3. DOMAIN s = 1..n
    BY <1>2
  <1>4. Places(s, a) \subseteq Places(q, a)
    BY <1>1, <1>2, <1>3 DEF Places
  <1> HIDE DEF s
  <1>5. IsFiniteSet(Places(q, a)) /\ Count(q, a) = Cardinality(Places(q, a))
    BY PlacesFinite
  <1>6. Count(s, a) = Cardinality(Places(s, a))
    BY <1>2, PlacesFinite
  <1>7. Count(s, a) <= Count(q, a)
    BY <1>4, <1>5, <1>6, FS_Subset
  <1>8. ASSUME a \notin ToSet(SubSeq(q, n + 1, Len(q)))
        PROVE  Count(s, a) = Count(q, a)
    <2>1. ASSUME NEW i \in Places(q, a)
          PROVE  i \in Places(s, a)
      <3>1. i \in 1..m /\ q[i] = a
        BY <1>1, <2>1 DEF Places
      <3>2. CASE i <= n
        BY <1>1, <1>2, <1>3, <3>1, <3>2 DEF Places
      <3>3. CASE i > n
        <4> DEFINE p == SubSeq(q, n + 1, m)
        <4>1. /\ n + 1 \in Int /\ m \in Int /\ \A j \in (n + 1)..m : q[j] \in S
              /\ n + 1 <= m /\ m - (n + 1) + 1 = m - n
          BY <1>0, <1>1, <3>1, <3>3
        <4>2. /\ p \in Seq(S) /\ Len(p) = (IF n + 1 <= m THEN m - (n + 1) + 1 ELSE 0)
              /\ \A j \in 1..(m - (n + 1) + 1) : p[j] = q[(n + 1) + j - 1]
          BY <4>1, SubSeqProperties
        <4>3. DOMAIN p = 1..(m - n) /\ \A j \in 1..(m - n) : p[j] = q[(n + 1) + j - 1]
          BY <4>1, <4>2
        <4>4. i - n \in 1..(m - n) /\ (n + 1) + (i - n) - 1 = i
          BY <1>1, <3>1, <3>3
        <4>5. p[i - n] = a
          BY <3>1, <4>3, <4>4
        <4>6. a \in ToSet(p)
          BY <4>3, <4>4, <4>5 DEF ToSet
        <4> QED BY <1>0, <1>8, <4>6
      <3> QED BY <1>1, <3>1, <3>2, <3>3
    <2>2. Places(s, a) = Places(q, a)
      BY <1>4, <2>1
    <2> QED BY <1>5, <1>6, <2>2
  <1> QED BY <1>2, <1>7, <1>8 DEF s

(***************************************************************************)
(* Updates of a turn.                                                      *)
(***************************************************************************)

\* A field at a time.
LEMMA Updates ==
    ASSUME NEW t \in Turn
    PROVE  /\ \A x \in Phase : [t EXCEPT !.phase = x] \in Turn
           /\ \A x \in Seq(Intent) : [t EXCEPT !.intents = x] \in Turn
           /\ \A x \in BOOLEAN : [t EXCEPT !.sure = x] \in Turn
           /\ \A x \in BOOLEAN : [t EXCEPT !.sku = x] \in Turn
           /\ \A x \in BOOLEAN : [t EXCEPT !.profile = x] \in Turn
           /\ \A x \in Seq(Agent) : [t EXCEPT !.queue = x] \in Turn
           /\ \A x \in Nat \ {0} : [t EXCEPT !.next = x] \in Turn
           /\ \A x \in Supported \cup {"none", "CART_ABANDONMENT"} : [t EXCEPT !.trigger = x] \in Turn
           /\ \A x \in Seq(Agent) : [t EXCEPT !.done = x] \in Turn
           /\ \A x \in Seq(Error) : [t EXCEPT !.errors = x] \in Turn
           /\ \A x \in {"matches", "no_results", "failed"} : [t EXCEPT !.discovery = x] \in Turn
           /\ \A x \in {"advised", "failed"} : [t EXCEPT !.fit = x] \in Turn
           /\ \A x \in {"offer", "no_offer", "failed"} : [t EXCEPT !.upsell = x] \in Turn
           /\ \A x \in Said : [t EXCEPT !.reply = x] \in Turn
           /\ \A x \in SUBSET Supported : [t EXCEPT !.emitted = x] \in Turn
           /\ \A x \in SUBSET (Supported \cup {"CART_ABANDONMENT", "STYLING_ENGAGEMENT"}) :
                 [t EXCEPT !.evaluated = x] \in Turn
           /\ \A x \in Nat : [t EXCEPT !.shown = x] \in Turn
           /\ \A x \in Nat : [t EXCEPT !.recorded = x] \in Turn
  <1>1. \A x \in Phase : [t EXCEPT !.phase = x] \in Turn
    BY DEF Turn
  <1>2. \A x \in Seq(Intent) : [t EXCEPT !.intents = x] \in Turn
    BY DEF Turn
  <1>3. \A x \in BOOLEAN : [t EXCEPT !.sure = x] \in Turn
    BY DEF Turn
  <1>4. \A x \in BOOLEAN : [t EXCEPT !.sku = x] \in Turn
    BY DEF Turn
  <1>5. \A x \in BOOLEAN : [t EXCEPT !.profile = x] \in Turn
    BY DEF Turn
  <1>6. \A x \in Seq(Agent) : [t EXCEPT !.queue = x] \in Turn
    BY DEF Turn
  <1>7. \A x \in Nat \ {0} : [t EXCEPT !.next = x] \in Turn
    BY DEF Turn
  <1>8. \A x \in Supported \cup {"none", "CART_ABANDONMENT"} : [t EXCEPT !.trigger = x] \in Turn
    BY DEF Turn
  <1>9. \A x \in Seq(Agent) : [t EXCEPT !.done = x] \in Turn
    BY DEF Turn
  <1>10. \A x \in Seq(Error) : [t EXCEPT !.errors = x] \in Turn
    BY DEF Turn
  <1>11. \A x \in {"matches", "no_results", "failed"} : [t EXCEPT !.discovery = x] \in Turn
    BY DEF Turn
  <1>12. \A x \in {"advised", "failed"} : [t EXCEPT !.fit = x] \in Turn
    BY DEF Turn
  <1>13. \A x \in {"offer", "no_offer", "failed"} : [t EXCEPT !.upsell = x] \in Turn
    BY DEF Turn
  <1>14. \A x \in Said : [t EXCEPT !.reply = x] \in Turn
    BY DEF Turn
  <1>15. \A x \in SUBSET Supported : [t EXCEPT !.emitted = x] \in Turn
    BY DEF Turn
  <1>16. \A x \in SUBSET (Supported \cup {"CART_ABANDONMENT", "STYLING_ENGAGEMENT"}) : [t EXCEPT !.evaluated = x] \in Turn
    BY DEF Turn
  <1>17. \A x \in Nat : [t EXCEPT !.shown = x] \in Turn
    BY DEF Turn
  <1>18. \A x \in Nat : [t EXCEPT !.recorded = x] \in Turn
    BY DEF Turn
  <1> QED BY <1>1, <1>2, <1>3, <1>4, <1>5, <1>6, <1>7, <1>8, <1>9, <1>10, <1>11, <1>12, <1>13, <1>14, <1>15, <1>16, <1>17, <1>18

(***************************************************************************)
(* The inductive invariant, of the working state t of a turn.              *)
(***************************************************************************)

\* The steps the loop has taken.
Taken(t) == SubSeq(t.queue, 1, t.next - 1)

\* Before its plan a turn has done nothing.
Blank(t) ==
    /\ t.queue = <<>> /\ t.next = 1 /\ t.done = <<>> /\ t.errors = <<>>
    /\ t.shown = 0 /\ t.recorded = 0 /\ t.upsell = "none" /\ t.discovery = "none"
Early(t) == t.phase \in {"start", "plan"} => Blank(t)

\* What the planner reads: requests without repetition, and secondary ones
\* always have a specialist.
Asked(s) ==
    /\ s \in Seq(Intent) /\ s # <<>> /\ IsInjective(s)
    /\ \A i \in 2..Len(s) : s[i] \in Specialist
Understandable(t) == t.phase = "plan" => Asked(t.intents)

Accounted(t) ==
    \A a \in Agent : Count(Taken(t), a) = Count(t.done, a) + Count(Blamed(t), a)

\* A second Upsell is the last step, and there because the first one failed.
Bounded(t) ==
    /\ \A a \in Agent \ {Upsell} : Count(t.queue, a) <= 1
    /\ \/ Count(t.queue, Upsell) <= 1
       \/ /\ Count(t.queue, Upsell) = 2 /\ t.queue[Len(t.queue)] = Upsell
          /\ Upsell \in ToSet(Blamed(t))

\* Without an error, what was taken was done.
Smooth(t) == t.errors = <<>> => t.done = Taken(t)

\* An offer was shown by an Upsell that completed, and is recorded.
Offered(t) ==
    /\ t.shown <= 1
    /\ t.phase # "failed" =>
          t.shown = t.recorded /\ (t.shown = 1 => Upsell \in ToSet(t.done))
    /\ t.upsell = "offer" => t.recorded = 1

Found(t) == t.discovery = "matches" => Discovery \in ToSet(t.done)

\* What a reply says, and that it is the end of the turn.
Honest(t) ==
    /\ t.reply # "none" => t.phase \in {"reply", "done"}
    /\ t.phase \in {"reply", "done"} => t.next > Len(t.queue)
    /\ t.reply = "completed" => t.done = t.queue
    /\ t.reply \in {"offer", "matches_and_offer"} => t.recorded = 1
    /\ t.reply \in {"matches", "matches_and_offer"} => Discovery \in ToSet(t.done)

PlanInv(t) ==
    /\ t \in Turn /\ t.next <= Len(t.queue) + 1
    /\ Early(t) /\ Understandable(t)
    /\ Accounted(t) /\ Bounded(t) /\ Smooth(t) /\ Offered(t) /\ Found(t) /\ Honest(t)

\* The agents blamed, with one more error.
LEMMA BlamedGrows ==
    ASSUME NEW t \in Turn, NEW u \in Turn, NEW e \in Error, u.errors = Append(t.errors, e)
    PROVE  Blamed(t) \in Seq(Agent) /\ Blamed(u) = Append(Blamed(t), e.agent)
  <1>0. t.errors \in Seq(Error) /\ u.errors \in Seq(Error) /\ e.agent \in Agent
    BY DEF Turn, Error
  <1>1. \A s \in Seq(Error) : /\ [i \in DOMAIN s |-> s[i].agent] \in Seq(Agent)
                              /\ Len([i \in DOMAIN s |-> s[i].agent]) = Len(s)
    <2> SUFFICES ASSUME NEW s \in Seq(Error)
                 PROVE  /\ [i \in DOMAIN s |-> s[i].agent] \in Seq(Agent)
                        /\ Len([i \in DOMAIN s |-> s[i].agent]) = Len(s)
      OBVIOUS
    <2>0. PICK n : n = Len(s)
      OBVIOUS
    <2>1. n \in Nat /\ DOMAIN s = 1..n /\ \A i \in 1..n : s[i] \in Error
      BY <2>0
    <2>2. \A i \in 1..n : s[i].agent \in Agent
      BY <2>1 DEF Error
    <2> QED BY <2>0, <2>1, <2>2
  <1>2. Blamed(t) \in Seq(Agent) /\ Len(Blamed(t)) = Len(t.errors)
    BY <1>0, <1>1 DEF Blamed
  <1>3. Blamed(u) \in Seq(Agent) /\ Len(Blamed(u)) = Len(u.errors)
    BY <1>0, <1>1 DEF Blamed
  <1>4. PICK n : n = Len(t.errors)
    OBVIOUS
  <1>5. /\ n \in Nat /\ Len(u.errors) = n + 1 /\ DOMAIN u.errors = 1..(n + 1)
        /\ DOMAIN t.errors = 1..n /\ \A i \in 1..n : u.errors[i] = t.errors[i]
        /\ u.errors[n + 1] = e
    BY <1>0, <1>4, AppendIs
  <1>6. \A i \in 1..n : Blamed(u)[i] = Blamed(t)[i]
    BY <1>5 DEF Blamed
  <1>7. Blamed(u)[n + 1] = e.agent
    BY <1>5 DEF Blamed
  <1> DEFINE s == Append(Blamed(t), e.agent)
  <1>8. /\ s \in Seq(Agent) /\ Len(s) = n + 1 /\ \A i \in 1..n : s[i] = Blamed(t)[i]
        /\ s[n + 1] = e.agent
    BY <1>0, <1>2, <1>4, AppendIs
  <1> HIDE DEF s
  <1>9. \A i \in 1..(n + 1) : Blamed(u)[i] = s[i]
    <2> SUFFICES ASSUME NEW i \in 1..(n + 1)
                 PROVE  Blamed(u)[i] = s[i]
      OBVIOUS
    <2>1. i \in 1..n \/ i = n + 1
      BY <1>5
    <2> QED BY <1>6, <1>7, <1>8, <2>1
  <1>10. Len(Blamed(u)) = Len(s)
    BY <1>3, <1>5, <1>8
  <1>11. Blamed(u) = s
    BY <1>3, <1>5, <1>8, <1>9, <1>10, SeqEqual
  <1> QED BY <1>2, <1>11 DEF s

\* Blamed only looks at the errors.
LEMMA BlamedSame ==
    ASSUME NEW t \in Turn, NEW u \in Turn, u.errors = t.errors
    PROVE  Blamed(t) \in Seq(Agent) /\ Blamed(u) = Blamed(t)
  <1>0. t.errors \in Seq(Error)
    BY DEF Turn
  <1>1. PICK n : n = Len(t.errors)
    OBVIOUS
  <1>2. n \in Nat /\ DOMAIN t.errors = 1..n /\ \A i \in 1..n : t.errors[i] \in Error
    BY <1>0, <1>1
  <1>3. \A i \in 1..n : t.errors[i].agent \in Agent
    BY <1>2 DEF Error
  <1>4. [i \in 1..n |-> t.errors[i].agent] \in Seq(Agent)
    BY <1>2, <1>3
  <1>5. Blamed(t) = [i \in 1..n |-> t.errors[i].agent]
    BY <1>2 DEF Blamed
  <1> QED BY <1>4, <1>5 DEF Blamed

\* The agent of the next step is not accounted for yet, so the Upsell that is
\* called next has not completed before.
LEMMA NextIsNew ==
    ASSUME NEW t \in Turn, PlanInv(t), t.next <= Len(t.queue), t.queue[t.next] = Upsell
    PROVE  Upsell \notin ToSet(t.done)
  <1> DEFINE a == Upsell
             n == t.next
             q == t.queue
  <1>0. /\ q \in Seq(Agent) /\ n \in 1..Len(q) /\ n - 1 \in 0..Len(q) /\ n \in 0..Len(q)
        /\ a \in Agent /\ t.done \in Seq(Agent)
    BY DEF Turn, Agent
  <1>1. /\ SubSeq(q, 1, n - 1) \in Seq(Agent)
        /\ Count(SubSeq(q, 1, n), a) = Count(SubSeq(q, 1, n - 1), a) + 1
    <2>1. SubSeq(q, 1, n - 1) \in Seq(Agent) /\ SubSeq(q, 1, n) = Append(SubSeq(q, 1, n - 1), a)
      BY <1>0, TakenGrows
    <2> DEFINE p == SubSeq(q, 1, n - 1)
    <2> HIDE DEF p
    <2>2. p \in Seq(Agent) /\ SubSeq(q, 1, n) = Append(p, a)
      BY <2>1 DEF p
    <2>3. Count(Append(p, a), a) = Count(p, a) + (IF a = a THEN 1 ELSE 0)
      BY <1>0, <2>2, CountAppend
    <2>4. Count(SubSeq(q, 1, n), a) = Count(p, a) + 1
      BY <2>2, <2>3
    <2> QED BY <2>1, <2>4 DEF p
  <1>2. Count(SubSeq(q, 1, n), a) <= Count(q, a)
    BY <1>0, TakenCounts
  <1>3. Count(SubSeq(q, 1, n - 1), a) = Count(t.done, a) + Count(Blamed(t), a)
    BY <1>0 DEF PlanInv, Accounted, Taken
  <1>4. Blamed(t) \in Seq(Agent)
    BY BlamedSame
  <1>5. /\ Count(t.done, a) \in Nat /\ Count(Blamed(t), a) \in Nat /\ Count(q, a) \in Nat
        /\ Count(SubSeq(q, 1, n), a) \in Nat /\ Count(SubSeq(q, 1, n - 1), a) \in Nat
    <2>1. SubSeq(q, 1, n) \in Seq(Agent)
      BY <1>0, TakenCounts
    <2> QED BY <1>0, <1>1, <1>4, <2>1, PlacesFinite
  <1>6. Count(q, a) <= 1 \/ (Count(q, a) = 2 /\ Count(Blamed(t), a) >= 1)
    <2>1. a \in ToSet(Blamed(t)) <=> Count(Blamed(t), a) >= 1
      BY <1>4, CountIn
    <2> QED BY <2>1 DEF PlanInv, Bounded
  <1>7. ~(Count(t.done, a) >= 1)
    BY <1>1, <1>2, <1>3, <1>5, <1>6
  <1>8. a \in ToSet(t.done) <=> Count(t.done, a) >= 1
    BY <1>0, CountIn
  <1> QED BY <1>7, <1>8

\* One round of the loop, up to what the Upsell agent or a signal adds to it:
\* the step is done or blamed, and the queue may have grown by an Upsell that
\* is neither pending nor done.
Took(t, u, a) ==
    /\ t.next <= Len(t.queue) /\ t.queue[t.next] = a /\ u.next = t.next + 1
    /\ \/ u.done = Append(t.done, a) /\ u.errors = t.errors
       \/ /\ u.done = t.done
          /\ \E e \in Error : e.agent = a /\ u.errors = Append(t.errors, e)
    /\ \/ u.queue = t.queue
       \/ /\ a # Upsell /\ u.queue = Append(t.queue, Upsell)
          /\ Upsell \notin ToSet(SubSeq(t.queue, t.next + 1, Len(t.queue)))
          /\ Upsell \notin ToSet(u.done)

\* A round keeps the accounts and the bounds of the plan.
LEMMA RoundIsSound ==
    ASSUME NEW t \in Turn, NEW u \in Turn, NEW a \in Agent, PlanInv(t), Took(t, u, a)
    PROVE  /\ u.next <= Len(u.queue) + 1 /\ ToSet(t.done) \subseteq ToSet(u.done)
           /\ Accounted(u) /\ Bounded(u) /\ Smooth(u)
  <1> DEFINE n == t.next
             q == t.queue
             p == SubSeq(q, 1, n - 1)
  <1>0. /\ q \in Seq(Agent) /\ n \in 1..Len(q) /\ n - 1 \in 0..Len(q) /\ n \in 0..Len(q)
        /\ Upsell \in Agent /\ t.done \in Seq(Agent) /\ u.done \in Seq(Agent)
        /\ q[n] = a /\ u.next = n + 1 /\ u.next - 1 = n /\ t.errors \in Seq(Error)
    <2>1. n <= Len(q) /\ q[n] = a /\ u.next = n + 1
      BY DEF Took
    <2>2. /\ q \in Seq(Agent) /\ n \in Nat \ {0} /\ Upsell \in Agent /\ t.done \in Seq(Agent)
          /\ u.done \in Seq(Agent) /\ t.errors \in Seq(Error)
      BY DEF Turn, Agent
    <2>3. PICK m : m = Len(q)
      OBVIOUS
    <2>4. m \in Nat
      BY <2>2, <2>3
    <2>5. n \in 1..m /\ n - 1 \in 0..m /\ n \in 0..m /\ (n + 1) - 1 = n
      BY <2>1, <2>2, <2>3, <2>4
    <2> QED BY <2>1, <2>2, <2>3, <2>5
  <1>1. p \in Seq(Agent) /\ SubSeq(q, 1, n) = Append(p, a) /\ p = Taken(t)
    BY <1>0, TakenGrows DEF Taken
  <1>2. Taken(u) = Append(p, a)
    <2>1. CASE u.queue = q
      BY <1>0, <1>1, <2>1 DEF Taken
    <2>2. CASE u.queue = Append(q, Upsell)
      <3>1. SubSeq(Append(q, Upsell), 1, n) = SubSeq(q, 1, n)
        BY <1>0, TakenStays
      <3> QED BY <1>0, <1>1, <2>2, <3>1 DEF Taken
    <2> QED BY <2>1, <2>2 DEF Took
  <1>3. u.next <= Len(u.queue) + 1
    BY <1>0, AppendIs DEF Took
  <1> HIDE DEF p
  <1>4. Blamed(t) \in Seq(Agent)
    BY BlamedSame
  <1>5. \/ u.done = Append(t.done, a) /\ Blamed(u) = Blamed(t) /\ u.errors = t.errors
        \/ /\ u.done = t.done /\ Blamed(u) = Append(Blamed(t), a)
           /\ u.errors # <<>>
    <2>1. CASE u.done = Append(t.done, a) /\ u.errors = t.errors
      BY <2>1, BlamedSame
    <2>2. ASSUME u.done = t.done, NEW e \in Error, e.agent = a, u.errors = Append(t.errors, e)
          PROVE  Blamed(u) = Append(Blamed(t), a) /\ u.errors # <<>>
      <3>1. Blamed(u) = Append(Blamed(t), e.agent)
        BY <2>2, BlamedGrows
      <3>2. u.errors # <<>>
        BY <1>0, <2>2, AppendProperties
      <3> QED BY <2>2, <3>1, <3>2
    <2> QED BY <2>1, <2>2 DEF Took
  <1>6. ToSet(t.done) \subseteq ToSet(u.done) /\ ToSet(Blamed(t)) \subseteq ToSet(Blamed(u))
    <2>1. ToSet(Append(t.done, a)) = ToSet(t.done) \cup {a}
      BY <1>0, InAppend
    <2>2. ToSet(Append(Blamed(t), a)) = ToSet(Blamed(t)) \cup {a}
      BY <1>4, InAppend
    <2> QED BY <1>5, <2>1, <2>2
  <1>7. Accounted(u)
    <2> SUFFICES ASSUME NEW b \in Agent
                 PROVE  Count(Taken(u), b) = Count(u.done, b) + Count(Blamed(u), b)
      BY DEF Accounted
    <2> DEFINE d == IF a = b THEN 1 ELSE 0
    <2>1. Count(Append(p, a), b) = Count(p, b) + d
      BY <1>1, CountAppend
    <2>2. Count(p, b) = Count(t.done, b) + Count(Blamed(t), b)
      BY <1>1 DEF PlanInv, Accounted
    <2>3. /\ Count(t.done, b) \in Nat /\ Count(Blamed(t), b) \in Nat
      BY <1>0, <1>4, PlacesFinite
    <2>4. Count(Append(t.done, a), b) = Count(t.done, b) + d
      BY <1>0, CountAppend
    <2>5. Count(Append(Blamed(t), a), b) = Count(Blamed(t), b) + d
      BY <1>4, CountAppend
    <2>6. d \in Nat
      OBVIOUS
    <2> HIDE DEF d
    <2>7. \/ Count(u.done, b) = Count(t.done, b) + d /\ Count(Blamed(u), b) = Count(Blamed(t), b)
          \/ Count(u.done, b) = Count(t.done, b) /\ Count(Blamed(u), b) = Count(Blamed(t), b) + d
      BY <1>5, <2>4, <2>5
    <2> QED BY <1>2, <2>1, <2>2, <2>3, <2>6, <2>7
  <1>8. Bounded(u)
    <2>1. CASE u.queue = q
      BY <1>6, <2>1 DEF PlanInv, Bounded
    <2>2. CASE /\ a # Upsell /\ u.queue = Append(q, Upsell)
               /\ Upsell \notin ToSet(SubSeq(q, n + 1, Len(q)))
               /\ Upsell \notin ToSet(u.done)
      <3>0. PICK m : m = Len(q)
        OBVIOUS
      <3>1. Count(SubSeq(q, 1, n), Upsell) = Count(q, Upsell)
        BY <1>0, <2>2, TakenCounts
      <3>2. Count(q, Upsell) \in Nat /\ Count(u.queue, Upsell) = Count(q, Upsell) + 1
        <4>1. Count(u.queue, Upsell) = Count(q, Upsell) + (IF Upsell = Upsell THEN 1 ELSE 0)
          BY <1>0, <2>2, CountAppend
        <4>2. Count(q, Upsell) \in Nat
          BY <1>0, PlacesFinite
        <4> QED BY <4>1, <4>2
      <3>3. ASSUME NEW b \in Agent \ {Upsell} PROVE Count(u.queue, b) <= 1
        <4>1. Count(u.queue, b) = Count(q, b) + (IF Upsell = b THEN 1 ELSE 0)
          BY <1>0, <2>2, CountAppend
        <4>2. Count(q, b) <= 1
          BY DEF PlanInv, Bounded
        <4>3. Count(q, b) \in Nat
          BY <1>0, PlacesFinite
        <4> QED BY <4>1, <4>2, <4>3
      <3>4. Count(q, Upsell) <= 1
        <4> SUFFICES ASSUME q[m] = Upsell PROVE FALSE
          BY <3>0 DEF PlanInv, Bounded
        <4>1. m \in Nat /\ n + 1 \in Int /\ n + 1 <= m /\ \A i \in (n + 1)..m : q[i] \in Agent
          <5>1. n # m
            BY <1>0, <2>2
          <5> QED BY <1>0, <3>0, <5>1
        <4> DEFINE w == SubSeq(q, n + 1, m)
        <4>2. /\ w \in Seq(Agent) /\ Len(w) = (IF n + 1 <= m THEN m - (n + 1) + 1 ELSE 0)
              /\ \A i \in 1..(m - (n + 1) + 1) : w[i] = q[(n + 1) + i - 1]
          BY <4>1, SubSeqProperties
        <4> HIDE DEF w
        <4>3. m - (n + 1) + 1 = m - n /\ m - n \in 1..(m - n) /\ (n + 1) + (m - n) - 1 = m
          <5>1. n \in Nat /\ m \in Nat /\ n + 1 <= m
            BY <1>0, <4>1
          <5> QED BY <5>1
        <4>4. DOMAIN w = 1..(m - n) /\ w[m - n] = q[m]
          BY <4>1, <4>2, <4>3
        <4>5. Upsell \in ToSet(w)
          BY <4>3, <4>4 DEF ToSet
        <4> QED BY <2>2, <3>0, <4>5 DEF w
      <3>5. u.queue[Len(u.queue)] = Upsell
        BY <1>0, <2>2, AppendIs
      <3>6. ASSUME Count(q, Upsell) = 1
            PROVE  Upsell \in ToSet(Blamed(u))
        <4>1. Count(Taken(u), Upsell) = 1
          BY <1>1, <1>2, <3>1, <3>6
        <4>2. Count(Taken(u), Upsell) = Count(u.done, Upsell) + Count(Blamed(u), Upsell)
          BY <1>0, <1>7 DEF Accounted
        <4>3. Blamed(u) \in Seq(Agent)
          BY BlamedSame
        <4>4. /\ Count(u.done, Upsell) \in Nat /\ Count(Blamed(u), Upsell) \in Nat
          BY <1>0, <4>3, PlacesFinite
        <4>5. ~(Count(u.done, Upsell) >= 1)
          BY <1>0, <2>2, CountIn
        <4>6. Count(Blamed(u), Upsell) >= 1
          BY <4>1, <4>2, <4>4, <4>5
        <4> QED BY <4>3, <4>6, CountIn
      <3>7. \/ Count(u.queue, Upsell) <= 1
            \/ Count(u.queue, Upsell) = 2 /\ Count(q, Upsell) = 1
        BY <3>2, <3>4
      <3> QED BY <3>3, <3>5, <3>6, <3>7 DEF Bounded
    <2> QED BY <2>1, <2>2 DEF Took
  <1>9. Smooth(u)
    BY <1>1, <1>2, <1>5 DEF PlanInv, Smooth
  <1> QED BY <1>3, <1>6, <1>7, <1>8, <1>9

(***************************************************************************)
(* The requests of a message and the plan made of them.                    *)
(***************************************************************************)

\* Sequences without repetition and without a common element, one after the
\* other.
LEMMA ConcatInjective ==
    ASSUME NEW S, NEW s \in Seq(S), NEW u \in Seq(S), IsInjective(s), IsInjective(u),
           ToSet(s) \cap ToSet(u) = {}
    PROVE  s \o u \in Seq(S) /\ IsInjective(s \o u) /\ ToSet(s \o u) = ToSet(s) \cup ToSet(u)
  <1> DEFINE w == s \o u
  <1>0. PICK m : m = Len(s)
    OBVIOUS
  <1>1. PICK n : n = Len(u)
    OBVIOUS
  <1>2. /\ m \in Nat /\ n \in Nat /\ DOMAIN s = 1..m /\ DOMAIN u = 1..n /\ w \in Seq(S)
        /\ Len(w) = m + n /\ DOMAIN w = 1..(m + n)
        /\ \A i \in 1..(m + n) : w[i] = IF i <= m THEN s[i] ELSE u[i - m]
    BY <1>0, <1>1, ConcatProperties
  <1> HIDE DEF w
  <1>3. ASSUME NEW i \in 1..(m + n)
        PROVE  \/ i \in 1..m /\ w[i] = s[i] /\ w[i] \in ToSet(s)
               \/ i - m \in 1..n /\ ~(i <= m) /\ w[i] = u[i - m] /\ w[i] \in ToSet(u)
    <2>1. CASE i <= m
      <3>1. i \in 1..m /\ w[i] = s[i]
        BY <1>2, <2>1
      <3> QED BY <1>2, <3>1 DEF ToSet
    <2>2. CASE ~(i <= m)
      <3>1. i - m \in 1..n /\ w[i] = u[i - m]
        BY <1>2, <2>2
      <3> QED BY <1>2, <2>2, <3>1 DEF ToSet
    <2> QED BY <2>1, <2>2
  <1>4. IsInjective(w)
    <2> SUFFICES ASSUME NEW i \in 1..(m + n), NEW j \in 1..(m + n), w[i] = w[j]
                 PROVE  i = j
      BY <1>2 DEF IsInjective
    <2>1. CASE w[i] \in ToSet(s)
      <3>1. i \in 1..m /\ w[i] = s[i] /\ j \in 1..m /\ w[j] = s[j]
        BY <1>3, <2>1
      <3> QED BY <1>2, <3>1 DEF IsInjective
    <2>2. CASE w[i] \in ToSet(u)
      <3>1. /\ i - m \in 1..n /\ w[i] = u[i - m]
            /\ j - m \in 1..n /\ w[j] = u[j - m]
        BY <1>3, <2>2
      <3>2. i - m = j - m
        BY <1>2, <3>1 DEF IsInjective
      <3> QED BY <1>2, <3>2
    <2> QED BY <1>3, <2>1, <2>2
  <1>5. ToSet(w) \subseteq ToSet(s) \cup ToSet(u)
    BY <1>2, <1>3 DEF ToSet
  <1>6. ASSUME NEW x \in ToSet(s) PROVE x \in ToSet(w)
    <2>1. PICK i \in 1..m : s[i] = x
      BY <1>2, <1>6 DEF ToSet
    <2>2. i \in 1..(m + n) /\ w[i] = x
      BY <1>2, <2>1
    <2> QED BY <1>2, <2>2 DEF ToSet
  <1>7. ASSUME NEW x \in ToSet(u) PROVE x \in ToSet(w)
    <2>1. PICK i \in 1..n : u[i] = x
      BY <1>2, <1>7 DEF ToSet
    <2>2. i + m \in 1..(m + n) /\ ~(i + m <= m) /\ (i + m) - m = i
      BY <1>2, <2>1
    <2>3. w[i + m] = x
      BY <1>2, <2>1, <2>2
    <2> QED BY <1>2, <2>2, <2>3 DEF ToSet
  <1>8. ToSet(w) = ToSet(s) \cup ToSet(u)
    BY <1>5, <1>6, <1>7
  <1> QED BY <1>2, <1>4, <1>8 DEF w

\* One element does not repeat.
LEMMA SingleInjective ==
    ASSUME NEW S, NEW x \in S
    PROVE  /\ <<x>> \in Seq(S) /\ IsInjective(<<x>>) /\ ToSet(<<x>>) = {x}
           /\ <<>> \in Seq(S) /\ IsInjective(<<>>) /\ ToSet(<<>>) = {}
  BY DEF IsInjective, ToSet

\* Several specialist requests are what the planner expects.
LEMMA SpecialistsAreAsked ==
    ASSUME NEW s \in Seq(Specialist), IsInjective(s), s # <<>>
    PROVE  Asked(s)
  <1>1. Specialist \subseteq Intent
    BY DEF Intent
  <1>2. s \in Seq(Intent)
    BY <1>1, SeqMonotonic
  <1>3. \A i \in 2..Len(s) : s[i] \in Specialist
    OBVIOUS
  <1> QED BY <1>2, <1>3 DEF Asked

\* One request alone is such a sequence.
LEMMA OneIsAsked ==
    ASSUME NEW i \in Intent
    PROVE  Asked(<<i>>)
  <1>1. <<i>> \in Seq(Intent) /\ <<i>> # <<>> /\ IsInjective(<<i>>)
    BY SingleInjective
  <1>2. \A j \in 2..Len(<<i>>) : FALSE
    OBVIOUS
  <1> QED BY <1>1, <1>2 DEF Asked

\* The requests found by the rules.
LEMMA RulesAsk ==
    ASSUME NEW R \in SUBSET (Specialist \cup {"CUSTOMER_CONTEXT"}), R # {}
    PROVE  Asked(Requests(R))
  <1>1. CASE R = {"CUSTOMER_CONTEXT"}
    <2>1. "CUSTOMER_CONTEXT" \in Intent
      BY DEF Intent
    <2> QED BY <1>1, <2>1, OneIsAsked DEF Requests
  <1>2. CASE R # {"CUSTOMER_CONTEXT"}
    <2> DEFINE p == Part("PRODUCT_DISCOVERY", R)
               f == Part("FIT_QUERY", R)
               v == Part("SERVICE_QUERY", R)
    <2>1. ASSUME NEW i \in Specialist
          PROVE  /\ Part(i, R) \in Seq(Specialist) /\ IsInjective(Part(i, R))
                 /\ ToSet(Part(i, R)) = R \cap {i}
      BY SingleInjective DEF Part
    <2>2. /\ "PRODUCT_DISCOVERY" \in Specialist /\ "FIT_QUERY" \in Specialist
          /\ "SERVICE_QUERY" \in Specialist
      BY DEF Specialist
    <2>3. p \in Seq(Specialist) /\ IsInjective(p) /\ ToSet(p) = R \cap {"PRODUCT_DISCOVERY"}
      BY <2>1, <2>2
    <2>4. f \in Seq(Specialist) /\ IsInjective(f) /\ ToSet(f) = R \cap {"FIT_QUERY"}
      BY <2>1, <2>2
    <2>5. v \in Seq(Specialist) /\ IsInjective(v) /\ ToSet(v) = R \cap {"SERVICE_QUERY"}
      BY <2>1, <2>2
    <2> HIDE DEF p, f, v
    <2>6. ToSet(p) \cap ToSet(f) = {}
      BY <2>3, <2>4
    <2>7. /\ p \o f \in Seq(Specialist) /\ IsInjective(p \o f)
          /\ ToSet(p \o f) = ToSet(p) \cup ToSet(f)
      BY <2>3, <2>4, <2>6, ConcatInjective
    <2> DEFINE w == p \o f
    <2> HIDE DEF w
    <2>8. w \in Seq(Specialist) /\ IsInjective(w) /\ ToSet(w) = ToSet(p) \cup ToSet(f)
      BY <2>7 DEF w
    <2>9. ToSet(w) \cap ToSet(v) = {}
      BY <2>3, <2>4, <2>5, <2>8
    <2>10. /\ w \o v \in Seq(Specialist) /\ IsInjective(w \o v)
           /\ ToSet(w \o v) = ToSet(w) \cup ToSet(v)
      BY <2>5, <2>8, <2>9, ConcatInjective
    <2>11. R \cap Specialist # {}
      BY <1>2
    <2>12. ToSet(w \o v) # {}
      BY <2>3, <2>4, <2>5, <2>8, <2>10, <2>11 DEF Specialist
    <2>13. w \o v # <<>>
      BY <2>12, CountEmpty
    <2>14. Requests(R) = w \o v
      BY <1>2 DEF Requests, Matched, w, p, f, v
    <2> QED BY <2>10, <2>13, <2>14, SpecialistsAreAsked
  <1> QED BY <1>1, <1>2

\* The requests the model may answer.
LEMMA ModelAsks ==
    ASSUME NEW i \in Intent, NEW u \in Detected(i)
    PROVE  Asked(<<i>> \o u)
  <1>1. IsInjective(u) /\ u \in BoundedSeq(Specialist \ {i}, 3)
    BY DEF Detected
  <1>2. u \in Seq(Specialist \ {i})
    <2>1. u \in UNION {[1..m -> Specialist \ {i}] : m \in 0..3}
      BY <1>1 DEF BoundedSeq, SeqOf
    <2>2. PICK m \in 0..3 : u \in [1..m -> Specialist \ {i}]
      BY <2>1
    <2>3. m \in Nat
      OBVIOUS
    <2> QED BY <2>2, <2>3
  <1>3. PICK n : n = Len(u)
    OBVIOUS
  <1>4. n \in Nat /\ DOMAIN u = 1..n /\ \A j \in 1..n : u[j] \in Specialist \ {i}
    BY <1>2, <1>3
  <1>5. /\ <<i>> \in Seq(Intent) /\ IsInjective(<<i>>) /\ ToSet(<<i>>) = {i}
        /\ Len(<<i>>) = 1
    BY SingleInjective
  <1>6. u \in Seq(Intent)
    <2>1. Specialist \ {i} \subseteq Intent
      BY DEF Intent
    <2> QED BY <1>2, <2>1, SeqMonotonic
  <1>7. ToSet(<<i>>) \cap ToSet(u) = {}
    BY <1>4, <1>5 DEF ToSet
  <1> DEFINE s == <<i>> \o u
  <1>8. /\ s \in Seq(Intent) /\ Len(s) = 1 + n
        /\ \A j \in 1..(1 + n) : s[j] = IF j <= 1 THEN <<i>>[j] ELSE u[j - 1]
    BY <1>3, <1>5, <1>6, ConcatProperties
  <1>9. IsInjective(s)
    BY <1>1, <1>5, <1>6, <1>7, ConcatInjective
  <1> HIDE DEF s
  <1>10. s # <<>>
    BY <1>4, <1>8
  <1>11. ASSUME NEW j \in 2..(1 + n) PROVE s[j] \in Specialist
    <2>1. j \in 1..(1 + n) /\ ~(j <= 1) /\ j - 1 \in 1..n
      BY <1>4
    <2> QED BY <1>4, <1>8, <2>1
  <1>12. Asked(s)
    BY <1>8, <1>9, <1>10, <1>11 DEF Asked
  <1> QED BY <1>12 DEF s

\* A plan names an agent once.
LEMMA StepsOnce ==
    ASSUME NEW t \in Turn, Asked(t.intents)
    PROVE  Steps(t) \in Seq(Agent) /\ \A a \in Agent : Count(Steps(t), a) <= 1
  <1> DEFINE q == t.intents
             r == Routable(t)
             w == [i \in DOMAIN r |-> Route[r[i]]]
             S == {Discovery, Fit, Upsell}
  <1>0. PICK n : n = Len(q)
    OBVIOUS
  <1>1. /\ q \in Seq(Intent) /\ q # <<>> /\ n \in Nat /\ n >= 1 /\ DOMAIN q = 1..n
        /\ Head(q) = q[1] /\ \A i \in 2..n : q[i] \in Specialist
        /\ \A i, j \in 1..n : q[i] = q[j] => i = j
    BY <1>0 DEF Asked, IsInjective
  <1>2. /\ DOMAIN Route = Specialist /\ \A i \in Specialist : Route[i] \in S
        /\ \A i, j \in Specialist : Route[i] = Route[j] => i = j
    BY DEF Route, Specialist, Discovery, Fit, Upsell
  <1>3. PICK m \in Nat : /\ DOMAIN r = 1..m /\ \A i \in 1..m : r[i] \in Specialist
                         /\ \A i, j \in 1..m : r[i] = r[j] => i = j
    <2>1. CASE Head(q) \in Specialist
      <3>1. r = q
        BY <1>2, <2>1 DEF Routable
      <3>2. \A i \in 1..n : i = 1 \/ i \in 2..n
        BY <1>1
      <3>3. \A i \in 1..n : q[i] \in Specialist
        BY <1>1, <2>1, <3>2
      <3> QED BY <1>1, <3>1, <3>3
    <2>2. CASE Head(q) \notin Specialist
      <3>1. r = Tail(q)
        BY <1>2, <2>2 DEF Routable
      <3>2. /\ Tail(q) \in Seq(Intent) /\ Len(Tail(q)) = n - 1
            /\ \A i \in 1..(n - 1) : Tail(q)[i] = q[i + 1]
        BY <1>0, <1>1, HeadTailProperties
      <3>3. n - 1 \in Nat /\ \A i \in 1..(n - 1) : i + 1 \in 2..n /\ i + 1 \in 1..n
        BY <1>1
      <3>4. DOMAIN r = 1..(n - 1)
        BY <3>1, <3>2
      <3>5. \A i \in 1..(n - 1) : r[i] \in Specialist
        BY <1>1, <3>1, <3>2, <3>3
      <3>6. ASSUME NEW i \in 1..(n - 1), NEW j \in 1..(n - 1), r[i] = r[j] PROVE i = j
        <4>1. i + 1 = j + 1
          BY <1>1, <3>1, <3>2, <3>3, <3>6
        <4> QED BY <4>1
      <3> QED BY <3>3, <3>4, <3>5, <3>6
    <2> QED BY <2>1, <2>2
  <1> HIDE DEF r
  <1>4. w \in Seq(S) /\ IsInjective(w) /\ ToSet(w) \subseteq S
    <2>1. DOMAIN w = 1..m /\ \A i \in 1..m : w[i] = Route[r[i]] /\ w[i] \in S
      BY <1>2, <1>3
    <2>2. IsInjective(w)
      BY <1>2, <1>3, <2>1 DEF IsInjective
    <2>3. w \in Seq(S)
      BY <1>2, <1>3
    <2> QED BY <2>1, <2>2, <2>3 DEF ToSet
  <1> HIDE DEF w
  <1>5. S \subseteq Agent /\ Profiling \in Agent /\ Profiling \notin S
    BY DEF Agent, Profiling, Discovery, Fit, Upsell
  <1> HIDE DEF S
  <1>6. w \in Seq(Agent)
    BY <1>4, <1>5, SeqMonotonic
  <1>7. /\ <<Profiling>> \in Seq(Agent) /\ IsInjective(<<Profiling>>)
        /\ ToSet(<<Profiling>>) = {Profiling} /\ <<>> \in Seq(Agent) /\ IsInjective(<<>>)
        /\ ToSet(<<>>) = {}
    BY <1>5, SingleInjective
  <1>8. <<Profiling>> \o w \in Seq(Agent) /\ IsInjective(<<Profiling>> \o w)
    <2>1. ToSet(<<Profiling>>) \cap ToSet(w) = {}
      BY <1>4, <1>5, <1>7
    <2> QED BY <1>4, <1>6, <1>7, <2>1, ConcatInjective
  <1>9. <<>> \o w \in Seq(Agent) /\ IsInjective(<<>> \o w)
    <2>1. ToSet(<<>>) \cap ToSet(w) = {}
      BY <1>7
    <2> QED BY <1>4, <1>6, <1>7, <2>1, ConcatInjective
  <1>10. Steps(t) \in {<<>>, <<>> \o w, <<Profiling>> \o w}
    BY DEF Steps, w, r
  <1>11. Steps(t) \in Seq(Agent) /\ IsInjective(Steps(t))
    BY <1>7, <1>8, <1>9, <1>10
  <1> QED BY <1>11, CountInjective

(***************************************************************************)
(* What the agents' answers do to a turn.                                  *)
(***************************************************************************)

\* The fields that a step of the loop leaves alone, unless it is theirs.
Others(t, u) ==
    /\ u.phase = t.phase /\ u.reply = t.reply
    /\ u.discovery = t.discovery /\ u.upsell = t.upsell
    /\ u.shown = t.shown /\ u.recorded = t.recorded

\* A completed step.
LEMMA CompletedIs ==
    ASSUME NEW t \in Turn, NEW a \in Agent
    PROVE  /\ Completed(t, a) \in Turn /\ Others(t, Completed(t, a))
           /\ Completed(t, a).next = t.next + 1 /\ Completed(t, a).errors = t.errors
           /\ Completed(t, a).done = Append(t.done, a) /\ Completed(t, a).queue = t.queue
  <1> DEFINE v == [t EXCEPT !.next = t.next + 1]
             u == [v EXCEPT !.done = Append(t.done, a)]
  <1>1. t.next + 1 \in Nat \ {0} /\ Append(t.done, a) \in Seq(Agent)
    BY DEF Turn
  <1>2. v \in Turn
    BY <1>1, Updates
  <1>3. u \in Turn
    BY <1>1, <1>2, Updates
  <1>4. Completed(t, a) = u
    BY DEF Completed, Advance
  <1>5. /\ Others(t, v) /\ v.errors = t.errors /\ v.done = t.done /\ v.next = t.next + 1
        /\ v.queue = t.queue
    BY DEF Others, Turn
  <1> HIDE DEF v
  <1>6. /\ Others(v, u) /\ u.errors = v.errors /\ u.done = Append(t.done, a) /\ u.next = v.next
        /\ u.queue = v.queue
    BY <1>2 DEF Others, Turn
  <1> HIDE DEF u
  <1> QED BY <1>3, <1>4, <1>5, <1>6 DEF Others

\* A step that failed.
LEMMA FailIs ==
    ASSUME NEW t \in Turn, NEW a \in Agent, NEW k \in {"missing", "raised", "failed"}
    PROVE  /\ Fail(t, a, k) \in Turn /\ Others(t, Fail(t, a, k))
           /\ Fail(t, a, k).next = t.next + 1 /\ Fail(t, a, k).done = t.done
           /\ Fail(t, a, k).queue = t.queue
           /\ \E e \in Error : e.agent = a /\ Fail(t, a, k).errors = Append(t.errors, e)
  <1> DEFINE e == [agent |-> a, kind |-> k]
             v == [t EXCEPT !.next = t.next + 1]
             u == [v EXCEPT !.errors = Append(t.errors, e)]
  <1>0. e \in Error /\ e.agent = a
    BY DEF Error
  <1>1. Fail(t, a, k) = u
    BY DEF Fail, Advance
  <1> HIDE DEF e
  <1>2. t.next + 1 \in Nat \ {0} /\ Append(t.errors, e) \in Seq(Error)
    BY <1>0 DEF Turn
  <1>3. v \in Turn
    BY <1>2, Updates
  <1>4. u \in Turn
    BY <1>2, <1>3, Updates
  <1>5. Others(t, v) /\ v.done = t.done /\ v.next = t.next + 1 /\ v.queue = t.queue
    BY DEF Others, Turn
  <1> HIDE DEF v
  <1>6. /\ Others(v, u) /\ u.errors = Append(t.errors, e) /\ u.done = v.done
        /\ u.next = v.next /\ u.queue = v.queue
    BY <1>3 DEF Others, Turn
  <1> HIDE DEF u
  <1> QED BY <1>0, <1>1, <1>4, <1>5, <1>6 DEF Others

\* A routed signal only adds to the queue.
LEMMA RoutedIs ==
    ASSUME NEW t \in Turn, NEW signals
    PROVE  /\ Routed(t, signals) \in Turn
           /\ Others(t, Routed(t, signals))
           /\ Routed(t, signals).next = t.next /\ Routed(t, signals).done = t.done
           /\ Routed(t, signals).errors = t.errors
           /\ \/ Routed(t, signals).queue = t.queue
              \/ /\ Routed(t, signals).queue = Append(t.queue, Upsell)
                 /\ Upsell \notin ToSet(Pending(t)) /\ Upsell \notin ToSet(t.done)
  <1> DEFINE given == signals \cap Supported
             first == CHOOSE s \in given : TRUE
             v == [t EXCEPT !.trigger = first]
             x == [v EXCEPT !.queue = Extended(t)]
             u == [x EXCEPT !.emitted = t.emitted \cup given]
  <1>1. CASE given = {}
    <2>1. Routed(t, signals) = t
      BY <1>1 DEF Routed
    <2> QED BY <2>1 DEF Others
  <1>2. CASE given # {}
    <2>1. first \in Supported
      BY <1>2
    <2>2. Extended(t) \in Seq(Agent)
      BY DEF Extended, Turn, Agent
    <2>3. t.emitted \cup given \in SUBSET Supported
      BY DEF Turn
    <2>4. Routed(t, signals) = u
      BY <1>2 DEF Routed
    <2> HIDE DEF first, given
    <2>5. v \in Turn
      BY <2>1, Updates
    <2>6. Others(t, v) /\ v.next = t.next /\ v.done = t.done /\ v.errors = t.errors
      BY DEF Others, Turn
    <2> HIDE DEF v
    <2>7. x \in Turn
      BY <2>2, <2>5, Updates
    <2>8. /\ Others(v, x) /\ x.queue = Extended(t)
          /\ x.next = v.next /\ x.done = v.done /\ x.errors = v.errors
      BY <2>5 DEF Others, Turn
    <2> HIDE DEF x
    <2>9. u \in Turn
      BY <2>3, <2>7, Updates
    <2>10. /\ Others(x, u) /\ u.queue = x.queue
           /\ u.next = x.next /\ u.done = x.done /\ u.errors = x.errors
      BY <2>7 DEF Others, Turn
    <2> HIDE DEF u
    <2>11. /\ Others(t, u) /\ u.queue = Extended(t)
           /\ u.next = t.next /\ u.done = t.done /\ u.errors = t.errors
      BY <2>6, <2>8, <2>10 DEF Others
    <2> QED BY <2>4, <2>9, <2>11 DEF Extended
  <1> QED BY <1>1, <1>2

(***************************************************************************)
(* The invariant, kept by a round and by the phases around the loop.       *)
(***************************************************************************)

\* A round of the loop: what it adds to offers and findings is of the agent
\* that completed.
LEMMA RoundKeeps ==
    ASSUME NEW t \in Turn, NEW u \in Turn, NEW a \in Agent, PlanInv(t), Took(t, u, a),
           t.phase = "run", u.phase = "run", u.reply = t.reply,
           \/ u.upsell = t.upsell /\ u.shown = t.shown /\ u.recorded = t.recorded
           \/ /\ a = Upsell /\ u.upsell # "offer"
              /\ u.shown = t.shown /\ u.recorded = t.recorded
           \/ /\ a = Upsell /\ u.done = Append(t.done, a)
              /\ u.shown = t.shown + 1 /\ u.recorded = t.recorded + 1,
           \/ u.discovery = t.discovery
           \/ u.discovery = "matches" => a = Discovery /\ u.done = Append(t.done, a)
    PROVE  PlanInv(u)
  <1>1. /\ u.next <= Len(u.queue) + 1 /\ ToSet(t.done) \subseteq ToSet(u.done)
        /\ Accounted(u) /\ Bounded(u) /\ Smooth(u)
    BY RoundIsSound
  <1>2. t.done \in Seq(Agent) /\ t.shown \in Nat /\ t.recorded \in Nat
    BY DEF Turn
  <1>3. ToSet(Append(t.done, a)) = ToSet(t.done) \cup {a}
    BY <1>2, InAppend
  <1>4. /\ t.shown <= 1 /\ t.shown = t.recorded /\ (t.shown = 1 => Upsell \in ToSet(t.done))
        /\ (t.upsell = "offer" => t.recorded = 1)
    BY DEF PlanInv, Offered
  <1>5. Offered(u)
    <2>1. CASE u.upsell = t.upsell /\ u.shown = t.shown /\ u.recorded = t.recorded
      BY <1>1, <1>4, <2>1 DEF Offered
    <2>2. CASE u.upsell # "offer" /\ u.shown = t.shown /\ u.recorded = t.recorded
      BY <1>1, <1>4, <2>2 DEF Offered
    <2>3. CASE /\ a = Upsell /\ u.done = Append(t.done, a)
               /\ u.shown = t.shown + 1 /\ u.recorded = t.recorded + 1
      <3>1. t.next <= Len(t.queue) /\ t.queue[t.next] = Upsell
        BY <2>3 DEF Took
      <3>2. Upsell \notin ToSet(t.done)
        BY <3>1, NextIsNew
      <3>3. t.shown = 0 /\ t.recorded = 0
        BY <1>2, <1>4, <3>2
      <3>4. Upsell \in ToSet(u.done)
        BY <1>3, <2>3
      <3> QED BY <2>3, <3>3, <3>4 DEF Offered
    <2> QED BY <2>1, <2>2, <2>3
  <1>6. Found(u)
    <2>1. CASE u.discovery = t.discovery
      BY <1>1, <2>1 DEF PlanInv, Found
    <2>2. CASE u.discovery = "matches" => a = Discovery /\ u.done = Append(t.done, a)
      BY <1>3, <2>2 DEF Found
    <2> QED BY <2>1, <2>2
  <1>7. Early(u) /\ Understandable(u)
    BY DEF Early, Understandable
  <1>8. Honest(u)
    <2>1. u.reply = "none"
      BY DEF PlanInv, Honest
    <2> QED BY <2>1 DEF Honest
  <1> QED BY <1>1, <1>5, <1>6, <1>7, <1>8 DEF PlanInv

\* Around the loop only the phase, the requests and the selected product change.
LEMMA QuietKeeps ==
    ASSUME NEW t \in Turn, NEW u \in Turn, PlanInv(t), t.phase # "failed",
           u.queue = t.queue, u.next = t.next, u.done = t.done, u.errors = t.errors,
           u.shown = t.shown, u.recorded = t.recorded, u.upsell = t.upsell,
           u.discovery = t.discovery, u.reply = t.reply, u.phase # "start",
           u.phase = "plan" => t.phase = "start" /\ Asked(u.intents),
           u.phase \in {"reply", "done"} => t.next > Len(t.queue),
           t.reply # "none" => u.phase \in {"reply", "done"}
    PROVE  PlanInv(u)
  <1>1. Blamed(u) = Blamed(t)
    BY BlamedSame
  <1>2. u.next <= Len(u.queue) + 1
    BY DEF PlanInv
  <1>3. Early(u) /\ Understandable(u)
    BY DEF PlanInv, Early, Understandable, Blank
  <1>4. Accounted(u) /\ Bounded(u) /\ Smooth(u)
    BY <1>1 DEF PlanInv, Accounted, Bounded, Smooth, Taken
  <1>5. Offered(u) /\ Found(u)
    BY DEF PlanInv, Offered, Found
  <1>6. Honest(u)
    BY DEF PlanInv, Honest
  <1> QED BY <1>2, <1>3, <1>4, <1>5, <1>6 DEF PlanInv

\* A plan that names an agent once, made of a blank turn.
LEMMA PlannedKeeps ==
    ASSUME NEW t \in Turn, NEW u \in Turn, Blank(t),
           u.next = t.next, u.done = t.done, u.errors = t.errors,
           u.shown = t.shown, u.recorded = t.recorded, u.upsell = t.upsell,
           u.discovery = t.discovery, u.reply = "none",
           u.phase \in {"start", "run"}, u.phase = "start" => u.queue = <<>>,
           \A a \in Agent : Count(u.queue, a) <= 1
    PROVE  PlanInv(u)
  <1>1. /\ u.next = 1 /\ u.done = <<>> /\ u.errors = <<>> /\ u.shown = 0 /\ u.recorded = 0
        /\ u.upsell = "none" /\ u.discovery = "none"
    BY DEF Blank
  <1>2. u.next <= Len(u.queue) + 1
    <2>1. Len(u.queue) \in Nat
      BY DEF Turn
    <2> QED BY <1>1, <2>1
  <1>3. Taken(u) = <<>>
    <2>1. u.next - 1 = 0 /\ 1 \in Int /\ 0 \in Int /\ 0 < 1
      BY <1>1
    <2> QED BY <2>1, SubSeqEmpty DEF Taken
  <1>4. Blamed(u) = <<>>
    BY <1>1 DEF Blamed
  <1>5. Accounted(u) /\ Smooth(u)
    <2>1. \A a : Count(<<>>, a) = 0
      BY CountEmpty
    <2> QED BY <1>1, <1>3, <1>4, <2>1 DEF Accounted, Smooth
  <1>6. Bounded(u)
    BY DEF Bounded, Agent
  <1>7. Early(u) /\ Understandable(u)
    BY <1>1 DEF Early, Understandable, Blank
  <1>8. Offered(u) /\ Found(u) /\ Honest(u)
    BY <1>1 DEF Offered, Found, Honest
  <1> QED BY <1>2, <1>5, <1>6, <1>7, <1>8 DEF PlanInv

(***************************************************************************)
(* The invariant of the specification.                                     *)
(***************************************************************************)

Sessions == [profile : BOOLEAN, sku : BOOLEAN, turns : Nat, last : Agent \cup {"none"}]

PlansInv == session \in Sessions /\ started \in 0..MaxTurns /\ PlanInv(turn)

\* A turn begins with nothing done, and with what the session remembers.
LEMMA NewTurnIs ==
    ASSUME session \in Sessions, NEW kind \in {"chat", "trigger"}
    PROVE  /\ NewTurn(kind) \in Turn /\ Blank(NewTurn(kind))
           /\ NewTurn(kind).phase = "start" /\ NewTurn(kind).reply = "none"
  <1>1. session.profile \in BOOLEAN /\ session.sku \in BOOLEAN
    BY DEF Sessions
  <1>2. <<>> \in Seq(Intent) /\ <<>> \in Seq(Agent) /\ <<>> \in Seq(Error)
    BY SingleInjective
  <1>3. "start" \in Phase /\ {} \in SUBSET Supported
    BY DEF Phase
  <1>4. NewTurn(kind) \in Turn
    <2>1. PICK p \in BOOLEAN : p = session.profile
      BY <1>1
    <2>2. PICK s \in BOOLEAN : s = session.sku
      BY <1>1
    <2> DEFINE E == {}
               e == <<>>
    <2>6. "none" \in Said
      BY DEF Said
    <2>7. "none" \in Supported \cup {"none", "CART_ABANDONMENT"}
      OBVIOUS
    <2>3. /\ E \in SUBSET Supported
          /\ E \in SUBSET (Supported \cup {"CART_ABANDONMENT", "STYLING_ENGAGEMENT"})
          /\ 0 \in Nat /\ 1 \in Nat \ {0} /\ TRUE \in BOOLEAN
      OBVIOUS
    <2>4. e \in Seq(Intent) /\ e \in Seq(Agent) /\ e \in Seq(Error)
      BY <1>2
    <2>5. NewTurn(kind) =
            [kind |-> kind, phase |-> "start", intents |-> e, sure |-> TRUE, sku |-> s,
             profile |-> p, queue |-> e, next |-> 1, trigger |-> "none", done |-> e,
             errors |-> e, discovery |-> "none", fit |-> "none", upsell |-> "none",
             reply |-> "none", emitted |-> E, evaluated |-> E, shown |-> 0, recorded |-> 0]
      BY <2>1, <2>2 DEF NewTurn
    <2> HIDE DEF E, e
    <2> QED BY <1>3, <2>3, <2>4, <2>5, <2>6, <2>7 DEF Turn
  <1>5. Blank(NewTurn(kind)) /\ NewTurn(kind).phase = "start" /\ NewTurn(kind).reply = "none"
    BY DEF NewTurn, Blank
  <1> QED BY <1>4, <1>5

\* The last agent is one.
LEMMA LastAgentIs ==
    ASSUME session \in Sessions, turn \in Turn
    PROVE  LastAgent \in Agent \cup {"none"}
  <1>1. turn.done \in Seq(Agent)
    BY DEF Turn
  <1>2. turn.done # <<>> => Len(turn.done) \in 1..Len(turn.done)
    BY <1>1
  <1>3. turn.done # <<>> => Last(turn.done) \in Agent
    BY <1>1, <1>2 DEF Last
  <1> QED BY <1>3 DEF LastAgent, Sessions

\* The session and its turn before anything happened.
LEMMA InitPlansInv == Init => PlansInv
  <1> SUFFICES ASSUME Init
               PROVE  PlansInv
    OBVIOUS
  <1>1. session \in Sessions /\ started \in 0..MaxTurns
    BY TurnsAssumption DEF Init, Sessions
  <1> DEFINE t == NewTurn("chat")
  <1>2. t \in Turn /\ Blank(t) /\ t.phase = "start" /\ t.reply = "none"
    BY <1>1, NewTurnIs
  <1>3. turn = [t EXCEPT !.phase = "done"]
    BY DEF Init
  <1> HIDE DEF t
  <1>4. Len(t.queue) = 0 /\ t.next = 1 /\ \A a \in Agent : Count(t.queue, a) <= 1
    <2>1. \A a \in Agent : Count(<<>>, a) = 0
      BY CountEmpty
    <2> QED BY <1>2, <2>1 DEF Blank
  <1>5. PlanInv(t)
    BY <1>2, <1>4, PlannedKeeps DEF Blank
  <1>6. turn \in Turn
    BY <1>2, <1>3, Updates DEF Phase
  <1>7. /\ turn.queue = t.queue /\ turn.next = t.next /\ turn.done = t.done
        /\ turn.errors = t.errors /\ turn.shown = t.shown /\ turn.recorded = t.recorded
        /\ turn.upsell = t.upsell /\ turn.discovery = t.discovery /\ turn.reply = t.reply
        /\ turn.phase = "done"
    BY <1>2, <1>3 DEF Turn
  <1>8. t.phase # "failed" /\ t.next > Len(t.queue)
    BY <1>2, <1>4
  <1>9. PlanInv(turn)
    BY <1>2, <1>5, <1>6, <1>7, <1>8, QuietKeeps
  <1> QED BY <1>1, <1>9 DEF PlansInv

\* A chat turn begins.
LEMMA ChatKeeps == PlansInv /\ Chat => PlansInv'
  <1> SUFFICES ASSUME PlansInv, Chat
               PROVE  PlansInv'
    OBVIOUS
  <1>1. session \in Sessions /\ started \in 0..MaxTurns
    BY DEF PlansInv
  <1>2. session' = session /\ started' \in 0..MaxTurns
    BY <1>1, TurnsAssumption DEF Chat
  <1> DEFINE t == NewTurn("chat")
  <1>3. t \in Turn /\ Blank(t) /\ t.phase = "start" /\ t.reply = "none"
    BY <1>1, NewTurnIs
  <1>4. turn' = t
    BY DEF Chat, Set
  <1> HIDE DEF t
  <1>5. t.queue = <<>> /\ \A a \in Agent : Count(t.queue, a) <= 1
    <2>1. \A a \in Agent : Count(<<>>, a) = 0
      BY CountEmpty
    <2> QED BY <1>3, <2>1 DEF Blank
  <1>6. PlanInv(t)
    BY <1>3, <1>5, PlannedKeeps
  <1> QED BY <1>1, <1>2, <1>4, <1>6 DEF PlansInv

\* A trusted trigger begins with its plan.
LEMMA TriggeredKeeps ==
    ASSUME PlansInv, NEW trigger \in {"HIGH_PRODUCT_ENGAGEMENT", "CART_ABANDONMENT"},
           Triggered(trigger)
    PROVE  PlansInv'
  <1>1. session \in Sessions /\ started \in 0..MaxTurns
    BY DEF PlansInv
  <1>2. session' = session /\ started' \in 0..MaxTurns
    BY <1>1, TurnsAssumption DEF Triggered
  <1> DEFINE t == NewTurn("trigger")
             q == IF t.profile THEN <<Upsell>> ELSE <<Profiling, Upsell>>
             v == [t EXCEPT !.phase = "run"]
             w == [v EXCEPT !.trigger = trigger]
             u == [w EXCEPT !.queue = q]
  <1>3. t \in Turn /\ Blank(t) /\ t.phase = "start" /\ t.reply = "none"
    BY <1>1, NewTurnIs
  <1>4. turn' = u
    BY DEF Triggered, Set
  <1> HIDE DEF t
  <1>5. q \in Seq(Agent) /\ IsInjective(q)
    <2>1. Upsell \in Agent /\ Profiling \in Agent /\ Profiling # Upsell
      BY DEF Agent, Upsell, Profiling
    <2>2. <<Upsell>> \in Seq(Agent) /\ IsInjective(<<Upsell>>)
      BY <2>1, SingleInjective
    <2>3. <<Profiling, Upsell>> \in Seq(Agent)
      BY <2>1
    <2>4. IsInjective(<<Profiling, Upsell>>)
      BY <2>1 DEF IsInjective
    <2> QED BY <2>2, <2>3, <2>4
  <1>6. \A a \in Agent : Count(q, a) <= 1
    BY <1>5, CountInjective
  <1> HIDE DEF q
  <1>7. v \in Turn
    BY <1>3, Updates DEF Phase
  <1>8. /\ v.next = t.next /\ v.done = t.done /\ v.errors = t.errors
        /\ v.shown = t.shown /\ v.recorded = t.recorded /\ v.upsell = t.upsell
        /\ v.discovery = t.discovery /\ v.reply = "none" /\ v.phase = "run"
    BY <1>3 DEF Turn
  <1> HIDE DEF v
  <1>9. trigger \in Supported \cup {"none", "CART_ABANDONMENT"}
    BY DEF Supported
  <1>10. w \in Turn
    BY <1>7, <1>9, Updates
  <1>11. /\ w.next = v.next /\ w.done = v.done /\ w.errors = v.errors
         /\ w.shown = v.shown /\ w.recorded = v.recorded /\ w.upsell = v.upsell
         /\ w.discovery = v.discovery /\ w.reply = v.reply /\ w.phase = v.phase
    BY <1>7 DEF Turn
  <1> HIDE DEF w
  <1>12. u \in Turn
    BY <1>5, <1>10, Updates
  <1>13. /\ u.next = w.next /\ u.done = w.done /\ u.errors = w.errors /\ u.queue = q
         /\ u.shown = w.shown /\ u.recorded = w.recorded /\ u.upsell = w.upsell
         /\ u.discovery = w.discovery /\ u.reply = w.reply /\ u.phase = w.phase
    BY <1>10 DEF Turn
  <1> HIDE DEF u
  <1>14. PlanInv(u)
    <2>1. /\ u.next = t.next /\ u.done = t.done /\ u.errors = t.errors
          /\ u.shown = t.shown /\ u.recorded = t.recorded /\ u.upsell = t.upsell
          /\ u.discovery = t.discovery /\ u.reply = "none" /\ u.phase = "run"
      BY <1>8, <1>11, <1>13
    <2>2. \A a \in Agent : Count(u.queue, a) <= 1
      BY <1>6, <1>13
    <2> QED BY <1>3, <1>12, <2>1, <2>2, PlannedKeeps
  <1> QED BY <1>1, <1>2, <1>4, <1>14 DEF PlansInv

\* Before the loop.
LEMMA UnderstoodKeeps ==
    ASSUME PlansInv, NEW s, Asked(s), NEW sure \in BOOLEAN, NEW sku \in BOOLEAN,
           turn.phase = "start", Understood(s, sure, sku)
    PROVE  PlanInv(turn')
  <1> DEFINE t == turn
             v == [t EXCEPT !.phase = "plan"]
             w == [v EXCEPT !.intents = s]
             x == [w EXCEPT !.sure = sure]
             u == [x EXCEPT !.sku = session.sku \/ sku]
  <1>1. t \in Turn /\ PlanInv(t) /\ t.phase = "start" /\ t.reply = "none"
    BY DEF PlansInv, PlanInv, Honest
  <1>2. turn' = u
    BY DEF Understood, Set
  <1> HIDE DEF t
  <1>3. s \in Seq(Intent)
    BY DEF Asked
  <1>4. v \in Turn
    BY <1>1, Updates DEF Phase
  <1>5. /\ v.queue = t.queue /\ v.next = t.next /\ v.done = t.done /\ v.errors = t.errors
        /\ v.shown = t.shown /\ v.recorded = t.recorded /\ v.upsell = t.upsell
        /\ v.discovery = t.discovery /\ v.reply = t.reply /\ v.phase = "plan"
    BY <1>1 DEF Turn
  <1> HIDE DEF v
  <1>6. w \in Turn
    BY <1>3, <1>4, Updates
  <1>7. /\ w.queue = v.queue /\ w.next = v.next /\ w.done = v.done /\ w.errors = v.errors
        /\ w.shown = v.shown /\ w.recorded = v.recorded /\ w.upsell = v.upsell
        /\ w.discovery = v.discovery /\ w.reply = v.reply /\ w.phase = v.phase
        /\ w.intents = s
    BY <1>4 DEF Turn
  <1> HIDE DEF w
  <1>8. x \in Turn
    BY <1>6, Updates
  <1>9. /\ x.queue = w.queue /\ x.next = w.next /\ x.done = w.done /\ x.errors = w.errors
        /\ x.shown = w.shown /\ x.recorded = w.recorded /\ x.upsell = w.upsell
        /\ x.discovery = w.discovery /\ x.reply = w.reply /\ x.phase = w.phase
        /\ x.intents = w.intents
    BY <1>6 DEF Turn
  <1> HIDE DEF x
  <1>10. u \in Turn
    <2>1. (session.sku \/ sku) \in BOOLEAN
      OBVIOUS
    <2> QED BY <1>8, <2>1, Updates
  <1>11. /\ u.queue = x.queue /\ u.next = x.next /\ u.done = x.done /\ u.errors = x.errors
         /\ u.shown = x.shown /\ u.recorded = x.recorded /\ u.upsell = x.upsell
         /\ u.discovery = x.discovery /\ u.reply = x.reply /\ u.phase = x.phase
         /\ u.intents = x.intents
    BY <1>8 DEF Turn
  <1> HIDE DEF u
  <1>12. /\ u.queue = t.queue /\ u.next = t.next /\ u.done = t.done /\ u.errors = t.errors
         /\ u.shown = t.shown /\ u.recorded = t.recorded /\ u.upsell = t.upsell
         /\ u.discovery = t.discovery /\ u.reply = t.reply /\ u.phase = "plan"
         /\ u.intents = s
    BY <1>5, <1>7, <1>9, <1>11
  <1>13. PlanInv(u)
    BY <1>1, <1>10, <1>12, QuietKeeps
  <1> QED BY <1>2, <1>13

\* A phase that ends: nothing of the turn changes but its phase.
LEMMA PhaseKeeps ==
    ASSUME NEW t \in Turn, PlanInv(t), t.phase # "failed", NEW x \in {"reply", "done", "failed"},
           x # "failed" => t.next > Len(t.queue), t.reply # "none" => x # "failed"
    PROVE  PlanInv([t EXCEPT !.phase = x])
  <1> DEFINE u == [t EXCEPT !.phase = x]
  <1>1. u \in Turn
    BY Updates DEF Phase
  <1>2. /\ u.queue = t.queue /\ u.next = t.next /\ u.done = t.done /\ u.errors = t.errors
        /\ u.shown = t.shown /\ u.recorded = t.recorded /\ u.upsell = t.upsell
        /\ u.discovery = t.discovery /\ u.reply = t.reply /\ u.phase = x
    BY DEF Turn
  <1> HIDE DEF u
  <1>3. PlanInv(u)
    BY <1>1, <1>2, QuietKeeps
  <1> QED BY <1>3 DEF u

\* The plan is made.
LEMMA BuildPlanKeeps ==
    ASSUME PlansInv, BuildPlan
    PROVE  PlanInv(turn')
  <1> DEFINE t == turn
             v == [t EXCEPT !.phase = "run"]
             u == [v EXCEPT !.queue = Steps(t)]
  <1>1. t \in Turn /\ PlanInv(t) /\ t.phase = "plan" /\ t.reply = "none" /\ Blank(t)
        /\ Asked(t.intents)
    BY DEF PlansInv, PlanInv, Honest, Early, Understandable, BuildPlan
  <1>2. turn' = u
    BY DEF BuildPlan, Set
  <1> HIDE DEF t
  <1>3. Steps(t) \in Seq(Agent) /\ \A a \in Agent : Count(Steps(t), a) <= 1
    BY <1>1, StepsOnce
  <1>4. v \in Turn
    BY <1>1, Updates DEF Phase
  <1>5. /\ v.next = t.next /\ v.done = t.done /\ v.errors = t.errors
        /\ v.shown = t.shown /\ v.recorded = t.recorded /\ v.upsell = t.upsell
        /\ v.discovery = t.discovery /\ v.reply = t.reply /\ v.phase = "run"
    BY <1>1 DEF Turn
  <1> HIDE DEF v
  <1>6. u \in Turn
    BY <1>3, <1>4, Updates
  <1>7. /\ u.next = v.next /\ u.done = v.done /\ u.errors = v.errors /\ u.queue = Steps(t)
        /\ u.shown = v.shown /\ u.recorded = v.recorded /\ u.upsell = v.upsell
        /\ u.discovery = v.discovery /\ u.reply = v.reply /\ u.phase = v.phase
    BY <1>4 DEF Turn
  <1> HIDE DEF u
  <1>8. /\ u.next = t.next /\ u.done = t.done /\ u.errors = t.errors
        /\ u.shown = t.shown /\ u.recorded = t.recorded /\ u.upsell = t.upsell
        /\ u.discovery = t.discovery /\ u.reply = "none" /\ u.phase = "run"
        /\ \A a \in Agent : Count(u.queue, a) <= 1
    BY <1>1, <1>3, <1>5, <1>7
  <1>9. PlanInv(u)
    BY <1>1, <1>6, <1>8, PlannedKeeps
  <1> QED BY <1>2, <1>9

\* The reply says what was done.
LEMMA SynthesizeKeeps ==
    ASSUME PlansInv, NEW llm, Synthesize(llm)
    PROVE  PlanInv(turn')
  <1> DEFINE t == turn
  <1>1. PICK reply \in {Reply(t), "worded"} : turn' = [t EXCEPT !.reply = reply]
    BY DEF Synthesize, Set
  <1> DEFINE u == [t EXCEPT !.reply = reply]
  <1>2. /\ t \in Turn /\ PlanInv(t) /\ t.phase = "reply" /\ t.next > Len(t.queue)
        /\ t.next <= Len(t.queue) + 1
    BY DEF PlansInv, PlanInv, Honest, Synthesize
  <1> HIDE DEF t
  <1>3. reply \in Said
    BY DEF Reply, Said
  <1>4. u \in Turn
    BY <1>2, <1>3, Updates
  <1>5. /\ u.next = t.next /\ u.done = t.done /\ u.errors = t.errors /\ u.queue = t.queue
        /\ u.shown = t.shown /\ u.recorded = t.recorded /\ u.upsell = t.upsell
        /\ u.discovery = t.discovery /\ u.reply = reply /\ u.phase = t.phase
    BY <1>2 DEF Turn
  <1> HIDE DEF u
  <1>6. Blamed(u) = Blamed(t)
    BY <1>2, <1>4, <1>5, BlamedSame
  <1>7. Accounted(u) /\ Bounded(u) /\ Smooth(u) /\ Offered(u) /\ Found(u)
    BY <1>2, <1>5, <1>6 DEF PlanInv, Accounted, Bounded, Smooth, Offered, Found, Taken
  <1>8. Early(u) /\ Understandable(u) /\ u.next <= Len(u.queue) + 1
    BY <1>2, <1>5 DEF Early, Understandable
  <1>9. Honest(u)
    <2>1. ASSUME reply = "completed" PROVE t.done = t.queue
      <3>1. t.errors = <<>>
        BY <1>1, <2>1 DEF Reply
      <3>2. t.done = Taken(t)
        BY <1>2, <3>1 DEF PlanInv, Smooth
      <3>3. t.queue \in Seq(Agent) /\ t.next \in Nat
        BY <1>2 DEF Turn
      <3>4. PICK n : n = Len(t.queue)
        OBVIOUS
      <3>5. t.next - 1 = n
        <4>1. n \in Nat /\ t.next \in Nat /\ t.next > n /\ t.next <= n + 1
          BY <1>2, <3>3, <3>4
        <4> QED BY <4>1
      <3>6. Taken(t) = SubSeq(t.queue, 1, Len(t.queue))
        BY <3>4, <3>5 DEF Taken
      <3> QED BY <3>2, <3>3, <3>6, SubSeqFull
    <2>2. reply \in {"offer", "matches_and_offer"} => t.recorded = 1
      <3>1. reply \in {"offer", "matches_and_offer"} => t.upsell = "offer"
        BY <1>1 DEF Reply
      <3> QED BY <1>2, <3>1 DEF PlanInv, Offered
    <2>3. reply \in {"matches", "matches_and_offer"} => Discovery \in ToSet(t.done)
      <3>1. reply \in {"matches", "matches_and_offer"} => t.discovery = "matches"
        BY <1>1 DEF Reply
      <3> QED BY <1>2, <3>1 DEF PlanInv, Found
    <2> QED BY <1>2, <1>5, <2>1, <2>2, <2>3 DEF Honest
  <1>10. PlanInv(u)
    BY <1>4, <1>7, <1>8, <1>9 DEF PlanInv
  <1> QED BY <1>1, <1>10 DEF u

(***************************************************************************)
(* The rounds of the loop.                                                 *)
(***************************************************************************)

\* A turn whose next step is a's.
Facing(t, a) ==
    /\ t \in Turn /\ PlanInv(t) /\ t.phase = "run" /\ a \in Agent
    /\ t.next <= Len(t.queue) /\ t.queue[t.next] = a

\* A step failed and nothing came of it.
LEMMA FailKeeps ==
    ASSUME NEW t, NEW a, Facing(t, a), NEW k \in {"missing", "raised", "failed"}
    PROVE  PlanInv(Fail(t, a, k))
  <1> DEFINE u == Fail(t, a, k)
  <1>1. /\ t \in Turn /\ PlanInv(t) /\ t.phase = "run" /\ a \in Agent
        /\ t.next <= Len(t.queue) /\ t.queue[t.next] = a
    BY DEF Facing
  <1>2. /\ u \in Turn /\ Others(t, u) /\ u.next = t.next + 1 /\ u.done = t.done
        /\ u.queue = t.queue
        /\ \E e \in Error : e.agent = a /\ u.errors = Append(t.errors, e)
    BY <1>1, FailIs
  <1> HIDE DEF u
  <1>3. Took(t, u, a)
    BY <1>1, <1>2 DEF Took
  <1>4. /\ u.phase = "run" /\ u.reply = t.reply /\ u.upsell = t.upsell /\ u.shown = t.shown
        /\ u.recorded = t.recorded /\ u.discovery = t.discovery
    BY <1>1, <1>2 DEF Others
  <1>5. PlanInv(u)
    BY <1>1, <1>2, <1>3, <1>4, RoundKeeps
  <1> QED BY <1>5 DEF u

\* The Profiling agent completes.
LEMMA ProfileKeeps ==
    ASSUME NEW t, Facing(t, Profiling)
    PROVE  PlanInv([Completed(t, Profiling) EXCEPT !.profile = TRUE])
  <1> DEFINE a == Profiling
             v == Completed(t, a)
             u == [v EXCEPT !.profile = TRUE]
  <1>1. /\ t \in Turn /\ PlanInv(t) /\ t.phase = "run" /\ a \in Agent
        /\ t.next <= Len(t.queue) /\ t.queue[t.next] = a
    BY DEF Facing
  <1>2. /\ v \in Turn /\ Others(t, v) /\ v.next = t.next + 1 /\ v.done = Append(t.done, a)
        /\ v.queue = t.queue /\ v.errors = t.errors
    BY <1>1, CompletedIs
  <1> HIDE DEF v
  <1>3. u \in Turn
    BY <1>2, Updates
  <1>4. /\ Others(v, u) /\ u.next = v.next /\ u.done = v.done /\ u.queue = v.queue
        /\ u.errors = v.errors
    BY <1>2 DEF Others, Turn
  <1> HIDE DEF u
  <1>5. Took(t, u, a)
    BY <1>1, <1>2, <1>4 DEF Took
  <1>6. /\ u.phase = "run" /\ u.reply = t.reply /\ u.upsell = t.upsell /\ u.shown = t.shown
        /\ u.recorded = t.recorded /\ u.discovery = t.discovery
    BY <1>1, <1>2, <1>4 DEF Others
  <1>7. PlanInv(u)
    BY <1>1, <1>3, <1>5, <1>6, RoundKeeps
  <1> QED BY <1>7 DEF u, v

\* A specialist that looks for signals has answered: w is the turn with its
\* status, before a signal is routed.
LEMMA SignalKeeps ==
    ASSUME NEW t, NEW a \in {Discovery, Fit}, Facing(t, a), NEW w \in Turn, NEW signals,
           w.phase = t.phase, w.reply = t.reply, w.upsell = t.upsell, w.shown = t.shown,
           w.recorded = t.recorded, w.queue = t.queue, w.next = t.next + 1,
           \/ w.done = Append(t.done, a) /\ w.errors = t.errors
           \/ /\ w.done = t.done
              /\ \E e \in Error : e.agent = a /\ w.errors = Append(t.errors, e),
           \/ w.discovery = t.discovery
           \/ w.discovery = "matches" => a = Discovery /\ w.done = Append(t.done, a)
    PROVE  PlanInv(Routed(w, signals))
  <1> DEFINE u == Routed(w, signals)
  <1>1. /\ t \in Turn /\ PlanInv(t) /\ t.phase = "run" /\ a \in Agent
        /\ t.next <= Len(t.queue) /\ t.queue[t.next] = a
    BY DEF Facing
  <1>2. /\ u \in Turn /\ Others(w, u) /\ u.next = w.next /\ u.done = w.done
        /\ u.errors = w.errors
        /\ \/ u.queue = w.queue
           \/ /\ u.queue = Append(w.queue, Upsell)
              /\ Upsell \notin ToSet(Pending(w)) /\ Upsell \notin ToSet(w.done)
    BY RoutedIs
  <1> HIDE DEF u
  <1>3. a # Upsell
    BY DEF Discovery, Fit, Upsell
  <1>4. Pending(w) = SubSeq(t.queue, t.next + 1, Len(t.queue))
    BY DEF Pending
  <1>5. Took(t, u, a)
    <2>1. u.next = t.next + 1
      BY <1>2
    <2>2. \/ u.done = Append(t.done, a) /\ u.errors = t.errors
          \/ /\ u.done = t.done
             /\ \E e \in Error : e.agent = a /\ u.errors = Append(t.errors, e)
      BY <1>2
    <2>3. \/ u.queue = t.queue
          \/ /\ a # Upsell /\ u.queue = Append(t.queue, Upsell)
             /\ Upsell \notin ToSet(SubSeq(t.queue, t.next + 1, Len(t.queue)))
             /\ Upsell \notin ToSet(u.done)
      BY <1>2, <1>3, <1>4
    <2> QED BY <1>1, <2>1, <2>2, <2>3 DEF Took
  <1>6. /\ u.phase = "run" /\ u.reply = t.reply /\ u.upsell = t.upsell /\ u.shown = t.shown
        /\ u.recorded = t.recorded /\ u.discovery = w.discovery
    BY <1>1, <1>2 DEF Others
  <1>7. \/ u.discovery = t.discovery
        \/ u.discovery = "matches" => a = Discovery /\ u.done = Append(t.done, a)
    BY <1>2, <1>6
  <1>8. PlanInv(u)
    BY <1>1, <1>2, <1>5, <1>6, <1>7, RoundKeeps
  <1> QED BY <1>8 DEF u

\* The turn after the answer of agent a, failed or completed.
Answered(t, a, status) ==
    IF status = "failed" THEN Fail(t, a, "failed") ELSE Completed(t, a)

\* It is one step further, completed or blamed.
LEMMA AnsweredIs ==
    ASSUME NEW t \in Turn, NEW a \in Agent, NEW status
    PROVE  /\ Answered(t, a, status) \in Turn /\ Others(t, Answered(t, a, status))
           /\ Answered(t, a, status).next = t.next + 1 /\ Answered(t, a, status).queue = t.queue
           /\ \/ /\ status # "failed" /\ Answered(t, a, status).done = Append(t.done, a)
                 /\ Answered(t, a, status).errors = t.errors
              \/ /\ status = "failed" /\ Answered(t, a, status).done = t.done
                 /\ \E e \in Error : /\ e.agent = a
                                     /\ Answered(t, a, status).errors = Append(t.errors, e)
  <1>1. CASE status = "failed"
    BY <1>1, FailIs DEF Answered
  <1>2. CASE status # "failed"
    BY <1>2, CompletedIs DEF Answered
  <1> QED BY <1>1, <1>2

\* The Discovery agent answers.
LEMMA DiscoverKeeps ==
    ASSUME PlansInv, NEW status \in {"matches", "no_results", "failed"}, NEW signals,
           Discover(status, signals)
    PROVE  PlanInv(turn')
  <1> DEFINE t == turn
             a == Discovery
             v == Answered(t, a, status)
             w == [v EXCEPT !.discovery = status]
  <1>1. Facing(t, a)
    BY DEF PlansInv, PlanInv, Facing, Discover, Called, Agent
  <1>2. turn' = Routed(w, signals)
    BY DEF Discover, Set, Answered
  <1>3. t \in Turn /\ a \in Agent /\ a \in {Discovery, Fit}
    BY <1>1 DEF Facing
  <1> HIDE DEF t, a
  <1>4. /\ v \in Turn /\ Others(t, v) /\ v.next = t.next + 1 /\ v.queue = t.queue
        /\ \/ /\ status # "failed" /\ v.done = Append(t.done, a) /\ v.errors = t.errors
           \/ /\ status = "failed" /\ v.done = t.done
              /\ \E e \in Error : e.agent = a /\ v.errors = Append(t.errors, e)
    BY <1>3, AnsweredIs
  <1> HIDE DEF v
  <1>5. w \in Turn
    BY <1>4, Updates
  <1>6. /\ w.phase = v.phase /\ w.reply = v.reply /\ w.upsell = v.upsell /\ w.shown = v.shown
        /\ w.recorded = v.recorded /\ w.queue = v.queue /\ w.next = v.next
        /\ w.done = v.done /\ w.errors = v.errors /\ w.discovery = status
    BY <1>4 DEF Turn
  <1> HIDE DEF w
  <1>7. /\ w.phase = t.phase /\ w.reply = t.reply /\ w.upsell = t.upsell /\ w.shown = t.shown
        /\ w.recorded = t.recorded /\ w.queue = t.queue /\ w.next = t.next + 1
    BY <1>4, <1>6 DEF Others
  <1>8. \/ w.done = Append(t.done, a) /\ w.errors = t.errors
        \/ /\ w.done = t.done
           /\ \E e \in Error : e.agent = a /\ w.errors = Append(t.errors, e)
    BY <1>4, <1>6
  <1>9. w.discovery = "matches" => a = Discovery /\ w.done = Append(t.done, a)
    BY <1>4, <1>6 DEF a
  <1>10. PlanInv(Routed(w, signals))
    BY <1>1, <1>3, <1>5, <1>7, <1>8, <1>9, SignalKeeps
  <1> QED BY <1>2, <1>10

\* The Fit agent answers.
LEMMA AdviseFitKeeps ==
    ASSUME PlansInv, NEW status \in {"advised", "failed"}, NEW signals,
           AdviseFit(status, signals)
    PROVE  PlanInv(turn')
  <1> DEFINE t == turn
             a == Fit
             v == Answered(t, a, status)
             w == [v EXCEPT !.fit = status]
  <1>1. Facing(t, a)
    BY DEF PlansInv, PlanInv, Facing, AdviseFit, Called, Agent
  <1>2. turn' = Routed(w, signals)
    BY DEF AdviseFit, Set, Answered
  <1>3. t \in Turn /\ a \in Agent /\ a \in {Discovery, Fit}
    BY <1>1 DEF Facing
  <1> HIDE DEF t, a
  <1>4. /\ v \in Turn /\ Others(t, v) /\ v.next = t.next + 1 /\ v.queue = t.queue
        /\ \/ /\ status # "failed" /\ v.done = Append(t.done, a) /\ v.errors = t.errors
           \/ /\ status = "failed" /\ v.done = t.done
              /\ \E e \in Error : e.agent = a /\ v.errors = Append(t.errors, e)
    BY <1>3, AnsweredIs
  <1> HIDE DEF v
  <1>5. w \in Turn
    BY <1>4, Updates
  <1>6. /\ Others(v, w) /\ w.queue = v.queue /\ w.next = v.next
        /\ w.done = v.done /\ w.errors = v.errors
    BY <1>4 DEF Others, Turn
  <1> HIDE DEF w
  <1>7. /\ w.phase = t.phase /\ w.reply = t.reply /\ w.upsell = t.upsell /\ w.shown = t.shown
        /\ w.recorded = t.recorded /\ w.queue = t.queue /\ w.next = t.next + 1
        /\ w.discovery = t.discovery
    BY <1>4, <1>6 DEF Others
  <1>8. \/ w.done = Append(t.done, a) /\ w.errors = t.errors
        \/ /\ w.done = t.done
           /\ \E e \in Error : e.agent = a /\ w.errors = Append(t.errors, e)
    BY <1>4, <1>6
  <1>9. PlanInv(Routed(w, signals))
    BY <1>1, <1>3, <1>5, <1>7, <1>8, SignalKeeps
  <1> QED BY <1>2, <1>9

\* The Upsell agent answers, and its offer is recorded.
LEMMA EvaluateKeeps ==
    ASSUME PlansInv, NEW status \in {"offer", "no_offer", "failed"}, Evaluate(status)
    PROVE  PlanInv(turn')
  <1> DEFINE t == turn
             a == Upsell
             v == Answered(t, a, status)
             w == [v EXCEPT !.upsell = status]
             x == [w EXCEPT !.evaluated = v.evaluated \cup {Trigger(t)}]
             y == [x EXCEPT !.shown = x.shown + 1]
             z == [y EXCEPT !.recorded = y.recorded + 1]
  <1>1. Facing(t, a)
    BY DEF PlansInv, PlanInv, Facing, Evaluate, Called, Agent
  <1>2. turn' = IF status = "offer" THEN z ELSE x
    BY DEF Evaluate, Set, Answered, RecordDecision
  <1>3. t \in Turn /\ a \in Agent /\ PlanInv(t) /\ t.phase = "run"
        /\ t.next <= Len(t.queue) /\ t.queue[t.next] = a
    BY <1>1 DEF Facing
  <1>4. Trigger(t) \in Supported \cup {"CART_ABANDONMENT", "STYLING_ENGAGEMENT"}
    BY <1>3 DEF Trigger, Turn
  <1> HIDE DEF t
  <1>5. /\ v \in Turn /\ Others(t, v) /\ v.next = t.next + 1 /\ v.queue = t.queue
        /\ \/ /\ status # "failed" /\ v.done = Append(t.done, a) /\ v.errors = t.errors
           \/ /\ status = "failed" /\ v.done = t.done
              /\ \E e \in Error : e.agent = a /\ v.errors = Append(t.errors, e)
    BY <1>3, AnsweredIs
  <1> HIDE DEF v
  <1>6. w \in Turn
    BY <1>5, Updates
  <1>7. /\ w.phase = v.phase /\ w.reply = v.reply /\ w.discovery = v.discovery
        /\ w.shown = v.shown /\ w.recorded = v.recorded /\ w.queue = v.queue
        /\ w.next = v.next /\ w.done = v.done /\ w.errors = v.errors /\ w.upsell = status
    BY <1>5 DEF Turn
  <1>8. v.evaluated \cup {Trigger(t)} \in
           SUBSET (Supported \cup {"CART_ABANDONMENT", "STYLING_ENGAGEMENT"})
    BY <1>4, <1>5 DEF Turn
  <1> HIDE DEF w
  <1>9. x \in Turn
    BY <1>6, <1>8, Updates
  <1>10. /\ x.phase = w.phase /\ x.reply = w.reply /\ x.discovery = w.discovery
         /\ x.shown = w.shown /\ x.recorded = w.recorded /\ x.queue = w.queue
         /\ x.next = w.next /\ x.done = w.done /\ x.errors = w.errors /\ x.upsell = w.upsell
    BY <1>6 DEF Turn
  <1> HIDE DEF x
  <1>11. /\ x.phase = "run" /\ x.reply = t.reply /\ x.discovery = t.discovery
         /\ x.shown = t.shown /\ x.recorded = t.recorded /\ x.queue = t.queue
         /\ x.next = t.next + 1 /\ x.upsell = status
         /\ \/ /\ status # "failed" /\ x.done = Append(t.done, a) /\ x.errors = t.errors
            \/ /\ status = "failed" /\ x.done = t.done
               /\ \E e \in Error : e.agent = a /\ x.errors = Append(t.errors, e)
    BY <1>3, <1>5, <1>7, <1>10 DEF Others
  <1>12. ASSUME status # "offer"
         PROVE  PlanInv(x)
    <2>1. Took(t, x, a)
      BY <1>3, <1>11 DEF Took
    <2>2. x.upsell # "offer"
      BY <1>11, <1>12
    <2> QED BY <1>3, <1>9, <1>11, <2>1, <2>2, RoundKeeps
  <1>13. ASSUME status = "offer"
         PROVE  PlanInv(z)
    <2>1. x.shown + 1 \in Nat
      BY <1>9 DEF Turn
    <2>2. y \in Turn
      BY <1>9, <2>1, Updates
    <2>3. /\ y.phase = x.phase /\ y.reply = x.reply /\ y.discovery = x.discovery
          /\ y.shown = x.shown + 1 /\ y.recorded = x.recorded /\ y.queue = x.queue
          /\ y.next = x.next /\ y.done = x.done /\ y.errors = x.errors
      BY <1>9 DEF Turn
    <2> HIDE DEF y
    <2>4. y.recorded + 1 \in Nat
      BY <2>2 DEF Turn
    <2>5. z \in Turn
      BY <2>2, <2>4, Updates
    <2>6. /\ z.phase = y.phase /\ z.reply = y.reply /\ z.discovery = y.discovery
          /\ z.shown = y.shown /\ z.recorded = y.recorded + 1 /\ z.queue = y.queue
          /\ z.next = y.next /\ z.done = y.done /\ z.errors = y.errors
      BY <2>2 DEF Turn
    <2> HIDE DEF z
    <2>7. /\ z.phase = "run" /\ z.reply = t.reply /\ z.discovery = t.discovery
          /\ z.shown = t.shown + 1 /\ z.recorded = t.recorded + 1 /\ z.queue = t.queue
          /\ z.next = t.next + 1 /\ z.done = Append(t.done, a) /\ z.errors = t.errors
      BY <1>11, <1>13, <2>3, <2>6
    <2>8. Took(t, z, a)
      BY <1>3, <2>7 DEF Took
    <2> QED BY <1>3, <2>5, <2>7, <2>8, RoundKeeps
  <1> QED BY <1>2, <1>12, <1>13

\* The offer was shown and its decision is lost: the turn fails.
LEMMA DecisionIsLostKeeps ==
    ASSUME PlansInv, DecisionIsLost
    PROVE  PlanInv(turn')
  <1> DEFINE t == turn
             v == [t EXCEPT !.phase = "failed"]
             u == [v EXCEPT !.shown = t.shown + 1]
  <1>1. Facing(t, Upsell)
    BY DEF PlansInv, PlanInv, Facing, DecisionIsLost, Called, Agent
  <1>2. turn' = u
    BY DEF DecisionIsLost, Set
  <1>3. t \in Turn /\ PlanInv(t) /\ t.phase = "run" /\ t.reply = "none"
        /\ t.next <= Len(t.queue) /\ t.queue[t.next] = Upsell
    BY <1>1 DEF Facing, PlanInv, Honest
  <1> HIDE DEF t
  <1>4. Upsell \notin ToSet(t.done)
    BY <1>3, NextIsNew
  <1>5. t.shown = 0 /\ (t.upsell = "offer" => t.recorded = 1)
    <2>1. t.shown \in Nat
      BY <1>3 DEF Turn
    <2> QED BY <1>3, <1>4, <2>1 DEF PlanInv, Offered
  <1>6. v \in Turn
    BY <1>3, Updates DEF Phase
  <1>7. /\ v.queue = t.queue /\ v.next = t.next /\ v.done = t.done /\ v.errors = t.errors
        /\ v.recorded = t.recorded /\ v.upsell = t.upsell
        /\ v.discovery = t.discovery /\ v.reply = t.reply /\ v.phase = "failed"
    BY <1>3 DEF Turn
  <1> HIDE DEF v
  <1>8. u \in Turn
    <2>1. t.shown + 1 \in Nat
      BY <1>5
    <2> QED BY <1>6, <2>1, Updates
  <1>9. /\ u.queue = v.queue /\ u.next = v.next /\ u.done = v.done /\ u.errors = v.errors
        /\ u.recorded = v.recorded /\ u.upsell = v.upsell /\ u.shown = t.shown + 1
        /\ u.discovery = v.discovery /\ u.reply = v.reply /\ u.phase = v.phase
    BY <1>6 DEF Turn
  <1> HIDE DEF u
  <1>10. /\ u.queue = t.queue /\ u.next = t.next /\ u.done = t.done /\ u.errors = t.errors
         /\ u.recorded = t.recorded /\ u.upsell = t.upsell /\ u.shown = 1
         /\ u.discovery = t.discovery /\ u.reply = "none" /\ u.phase = "failed"
    BY <1>3, <1>5, <1>7, <1>9
  <1>11. Blamed(u) = Blamed(t)
    BY <1>3, <1>8, <1>10, BlamedSame
  <1>12. Accounted(u) /\ Bounded(u) /\ Smooth(u) /\ Found(u) /\ u.next <= Len(u.queue) + 1
    BY <1>3, <1>10, <1>11 DEF PlanInv, Accounted, Bounded, Smooth, Found, Taken
  <1>13. Offered(u) /\ Early(u) /\ Understandable(u) /\ Honest(u)
    BY <1>5, <1>10 DEF Offered, Early, Understandable, Honest
  <1> QED BY <1>2, <1>8, <1>12, <1>13 DEF PlanInv

\* Every step of a turn under way.
LEMMA StepKeeps ==
    ASSUME PlansInv, Step
    PROVE  PlansInv'
  <1>0. session \in Sessions /\ started \in 0..MaxTurns /\ PlanInv(turn) /\ turn \in Turn
    BY DEF PlansInv, PlanInv
  <1>1. CASE Reject
    <2>1. /\ turn' = [turn EXCEPT !.phase = "failed"] /\ turn.phase = "start"
          /\ UNCHANGED <<session, started>>
      BY <1>1 DEF Reject, Set
    <2>2. turn.reply = "none"
      BY <1>0, <2>1 DEF PlanInv, Honest
    <2>3. PlanInv([turn EXCEPT !.phase = "failed"])
      BY <1>0, <2>1, <2>2, PhaseKeeps
    <2> QED BY <1>0, <2>1, <2>3 DEF PlansInv
  <1>2. ASSUME NEW R \in SUBSET (Specialist \cup {"CUSTOMER_CONTEXT"}), NEW sku \in BOOLEAN,
               DetectByRule(R, sku)
        PROVE  PlansInv'
    <2>1. Asked(Requests(R))
      BY <1>2, RulesAsk DEF DetectByRule
    <2>2. PlanInv(turn')
      BY <1>2, <2>1, UnderstoodKeeps DEF DetectByRule
    <2> QED BY <1>0, <1>2, <2>2 DEF PlansInv, DetectByRule
  <1>3. ASSUME NEW sure \in BOOLEAN, NEW sku \in BOOLEAN, DetectByModel(sure, sku)
        PROVE  PlansInv'
    <2>1. PICK i \in Intent : \E u \in Detected(i) : Understood(<<i>> \o u, sure, sku)
      BY <1>3 DEF DetectByModel
    <2>2. PICK u \in Detected(i) : Understood(<<i>> \o u, sure, sku)
      BY <2>1
    <2>3. Asked(<<i>> \o u)
      BY ModelAsks
    <2>4. PlanInv(turn')
      BY <1>3, <2>2, <2>3, UnderstoodKeeps DEF DetectByModel
    <2> QED BY <1>0, <1>3, <2>4 DEF PlansInv, DetectByModel
  <1>4. ASSUME NEW sku \in BOOLEAN, NotDetected(sku)
        PROVE  PlansInv'
    <2>1. Asked(<<"GENERAL_QUERY">>)
      <3>1. "GENERAL_QUERY" \in Intent
        BY DEF Intent
      <3> QED BY <3>1, OneIsAsked
    <2>2. PlanInv(turn')
      BY <1>4, <2>1, UnderstoodKeeps DEF NotDetected
    <2> QED BY <1>0, <1>4, <2>2 DEF PlansInv, NotDetected
  <1>5. CASE BuildPlan
    BY <1>0, <1>5, BuildPlanKeeps DEF PlansInv, BuildPlan
  <1>6. CASE Skip
    <2> DEFINE a == turn.queue[turn.next]
    <2>1. /\ turn.phase = "run" /\ turn.next <= Len(turn.queue)
          /\ turn' = Fail(turn, a, "missing") /\ UNCHANGED <<session, started>>
      BY <1>6 DEF Skip, Set
    <2>2. a \in Agent
      <3>1. turn.queue \in Seq(Agent) /\ turn.next \in Nat \ {0}
        BY <1>0 DEF Turn
      <3>2. turn.next \in 1..Len(turn.queue)
        BY <2>1, <3>1
      <3> QED BY <3>1, <3>2
    <2>3. Facing(turn, a)
      BY <1>0, <2>1, <2>2 DEF Facing
    <2>4. PlanInv(Fail(turn, a, "missing"))
      BY <2>3, FailKeeps
    <2> QED BY <1>0, <2>1, <2>4 DEF PlansInv
  <1>7. ASSUME NEW a \in Agent, Raise(a)
        PROVE  PlansInv'
    <2>1. Facing(turn, a)
      BY <1>0, <1>7 DEF Raise, Called, Facing
    <2>2. PlanInv(Fail(turn, a, "raised"))
      BY <2>1, FailKeeps
    <2> QED BY <1>0, <1>7, <2>2 DEF PlansInv, Raise, Called, Set
  <1>8. CASE Profile
    <2>1. Facing(turn, Profiling)
      BY <1>0, <1>8 DEF Profile, Called, Facing, Agent
    <2>2. PlanInv([Completed(turn, Profiling) EXCEPT !.profile = TRUE])
      BY <2>1, ProfileKeeps
    <2> QED BY <1>0, <1>8, <2>2 DEF PlansInv, Profile, Called, Set
  <1>9. ASSUME NEW status \in {"matches", "no_results", "failed"}, NEW signals,
               Discover(status, signals)
        PROVE  PlansInv'
    BY <1>0, <1>9, DiscoverKeeps DEF PlansInv, Discover, Called
  <1>10. ASSUME NEW status \in {"advised", "failed"}, NEW signals, AdviseFit(status, signals)
         PROVE  PlansInv'
    BY <1>0, <1>10, AdviseFitKeeps DEF PlansInv, AdviseFit, Called
  <1>11. ASSUME NEW status \in {"offer", "no_offer", "failed"}, Evaluate(status)
         PROVE  PlansInv'
    BY <1>0, <1>11, EvaluateKeeps DEF PlansInv, Evaluate, Called
  <1>12. CASE DecisionIsLost
    BY <1>0, <1>12, DecisionIsLostKeeps DEF PlansInv, DecisionIsLost, Called
  <1>13. CASE Answer
    <2>1. /\ turn' = [turn EXCEPT !.phase = "reply"] /\ turn.phase = "run"
          /\ turn.next > Len(turn.queue) /\ UNCHANGED <<session, started>>
      BY <1>13 DEF Answer, PlanIsDone, Set
    <2>2. turn.reply = "none"
      BY <1>0, <2>1 DEF PlanInv, Honest
    <2>3. PlanInv([turn EXCEPT !.phase = "reply"])
      BY <1>0, <2>1, <2>2, PhaseKeeps
    <2> QED BY <1>0, <2>1, <2>3 DEF PlansInv
  <1>14. CASE Return
    <2>1. /\ turn.phase = "run" /\ turn.next > Len(turn.queue) /\ started' = started
          /\ \/ turn' = [turn EXCEPT !.phase = "failed"] /\ session' = session
             \/ /\ turn' = [turn EXCEPT !.phase = "done"]
                /\ session' = [session EXCEPT !.profile = turn.profile, !.last = LastAgent]
      BY <1>14 DEF Return, PlanIsDone, Set
    <2>2. turn.reply = "none"
      BY <1>0, <2>1 DEF PlanInv, Honest
    <2>3. \A x \in {"done", "failed"} : PlanInv([turn EXCEPT !.phase = x])
      BY <1>0, <2>1, <2>2, PhaseKeeps
    <2>4. [session EXCEPT !.profile = turn.profile, !.last = LastAgent] \in Sessions
      <3>1. LastAgent \in Agent \cup {"none"} /\ turn.profile \in BOOLEAN
        BY <1>0, LastAgentIs DEF Turn
      <3> QED BY <1>0, <3>1 DEF Sessions
    <2> QED BY <1>0, <2>1, <2>3, <2>4 DEF PlansInv
  <1>15. ASSUME NEW llm \in Synthesis, Synthesize(llm)
         PROVE  PlansInv'
    BY <1>0, <1>15, SynthesizeKeeps DEF PlansInv, Synthesize
  <1>16. CASE Persist
    <2>1. /\ turn' = [turn EXCEPT !.phase = "done"] /\ turn.phase = "reply" /\ started' = started
          /\ session' = [profile |-> turn.profile, sku |-> turn.sku,
                         turns |-> session.turns + 1, last |-> LastAgent]
      BY <1>16 DEF Persist, Set
    <2>2. turn.next > Len(turn.queue)
      BY <1>0, <2>1 DEF PlanInv, Honest
    <2>3. PlanInv([turn EXCEPT !.phase = "done"])
      BY <1>0, <2>1, <2>2, PhaseKeeps
    <2>4. session' \in Sessions
      <3>1. /\ LastAgent \in Agent \cup {"none"} /\ turn.profile \in BOOLEAN
            /\ turn.sku \in BOOLEAN /\ session.turns + 1 \in Nat
        BY <1>0, LastAgentIs DEF Turn, Sessions
      <3> QED BY <2>1, <3>1 DEF Sessions
    <2> QED BY <1>0, <2>1, <2>3, <2>4 DEF PlansInv
  <1> QED BY <1>1, <1>2, <1>3, <1>4, <1>5, <1>6, <1>7, <1>8, <1>9, <1>10, <1>11, <1>12, <1>13,
             <1>14, <1>15, <1>16 DEF Step

\* The invariant is inductive.
THEOREM Invariant == Spec => []PlansInv
  <1>1. Init => PlansInv
    BY InitPlansInv
  <1>2. PlansInv /\ [Next]_vars => PlansInv'
    <2> SUFFICES ASSUME PlansInv, [Next]_vars
                 PROVE  PlansInv'
      OBVIOUS
    <2>1. CASE Chat
      BY <2>1, ChatKeeps
    <2>2. ASSUME NEW trigger \in {"HIGH_PRODUCT_ENGAGEMENT", "CART_ABANDONMENT"},
                 Triggered(trigger)
          PROVE  PlansInv'
      BY <2>2, TriggeredKeeps
    <2>3. CASE Step
      BY <2>3, StepKeeps
    <2>4. CASE UNCHANGED vars
      BY <2>4 DEF vars, PlansInv
    <2> QED BY <2>1, <2>2, <2>3, <2>4 DEF Next
  <1> QED BY <1>1, <1>2, PTL DEF Spec

\* Whatever the agents answer and the signals append (_execute_plan), every
\* step the loop has taken is accounted for once, no agent but a failed Upsell
\* comes twice, and a turn shows one offer at most.
THEOREM PlansSound == Spec => []PlanIsSound
  <1>1. PlansInv => PlanIsSound
    <2> SUFFICES ASSUME PlansInv
                 PROVE  PlanIsSound
      OBVIOUS
    <2>1. TypeOK
      BY DEF PlansInv, PlanInv, TypeOK, Sessions
    <2>2. StepsAccounted
      BY DEF PlansInv, PlanInv, Accounted, Taken, StepsAccounted
    <2>3. PlanIsBounded
      BY DEF PlansInv, PlanInv, Bounded, PlanIsBounded
    <2>4. OneOfferPerTurn
      BY DEF PlansInv, PlanInv, Offered, OneOfferPerTurn
    <2> QED BY <2>1, <2>2, <2>3, <2>4 DEF PlanIsSound
  <1> QED BY <1>1, Invariant, PTL

\* An offer that a finished turn showed has its decision, and the
\* deterministic reply (_deterministic_response) claims nothing that was not
\* done: a completed plan, an offer, matches.
THEOREM RepliesHonest == Spec => []ReplyIsHonest
  <1>1. PlansInv => ReplyIsHonest
    <2> SUFFICES ASSUME PlansInv
                 PROVE  ReplyIsHonest
      OBVIOUS
    <2>1. ShownIsDecided
      BY DEF PlansInv, PlanInv, Offered, ShownIsDecided
    <2>2. ReplyMeansDone
      BY DEF PlansInv, PlanInv, Honest, ReplyMeansDone
    <2> QED BY <2>1, <2>2 DEF ReplyIsHonest
  <1> QED BY <1>1, Invariant, PTL
=============================================================================
