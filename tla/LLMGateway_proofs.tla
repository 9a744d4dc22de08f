-------------------------- MODULE LLMGateway_proofs ---------------------------
(***************************************************************************)
(* Proofs about LLMGateway, for every set of callers, every table of routes *)
(* and every number of calls.                                              *)
(***************************************************************************)
EXTENDS LLMGateway, FiniteSetTheorems, TLAPS

(***************************************************************************)
(* The inductive invariant.                                                *)
(*                                                                         *)
(* Underway: the records of a waiting call are those of the primary, all   *)
(* used up, when it is with the fallback, and then tries - 1 answers of    *)
(* its model that were not what was asked for.                             *)
(***************************************************************************)
Before(k) == Len(k.records) - (k.tries - 1)

UsedUp(k, p) ==
    /\ p \in 1..PerModel(k)
    /\ \A i \in 1..p : k.records[i].model = Route[k.use].primary
    /\ \A i \in 1..(p - 1) : k.records[i].status = "INVALID_OUTPUT"
    /\ \/ k.records[p].status = "FAILED"
       \/ p = PerModel(k) /\ k.records[p].status = "INVALID_OUTPUT"

Underway(k) ==
    /\ k.outcome = "none" /\ k.text \in Texts
    /\ k.candidate \in 1..Len(Candidates(k.use))
    /\ k.tries \in 1..PerModel(k)
    /\ k.attempt = Len(k.records) + 1
    /\ k.candidate = 1 => Before(k) = 0
    /\ k.candidate = 2 => UsedUp(k, Before(k))
    /\ \A i \in (Before(k) + 1)..Len(k.records) :
          /\ k.records[i].model = Candidates(k.use)[k.candidate]
          /\ k.records[i].status = "INVALID_OUTPUT"

Counted(k) == k.reported = Cardinality({i \in DOMAIN k.records : k.records[i].tokens = 1})

\* One call, with its own records.
CallOK(k) ==
    /\ k.phase = "waiting" => Underway(k)
    /\ \A i \in DOMAIN k.records :
          k.records[i].attempt = i /\ k.records[i].trace = k.trace
    /\ Counted(k) /\ ForCause(k) /\ LastResort(k)
    /\ Governed(k) => Len(k.records) = k.attempt

\* The telemetry has the records of every call, in order and no others of its
\* trace; no two calls have one trace.
Shares(k, t) ==
    LET mine == {j \in DOMAIN t : t[j].trace = k.trace}
    IN  /\ {t[j] : j \in mine} = {k.records[i] : i \in DOMAIN k.records}
        /\ \A j1, j2 \in mine : j1 < j2 => t[j1].attempt < t[j2].attempt

CallsInv ==
    /\ TypeOK
    /\ \A c \in Callers : CallOK(call[c])

TelemetryInv ==
    /\ \A c \in Callers : Shares(call[c], telemetry) /\ call[c].trace <= calls
    /\ \A c \in Callers : call[c].phase = "waiting" => call[c].trace # 0
    /\ \A c, d \in Callers : call[c].trace = call[d].trace => c = d \/ call[c].trace = 0
    /\ \A j \in DOMAIN telemetry : telemetry[j].trace <= calls

\* What was sent is what the cache holds for good.
PromptInv ==
    /\ \A c \in Callers : call[c].phase = "waiting" =>
          cache[Route[call[c].use].group] = call[c].text
    /\ \A j \in DOMAIN telemetry : cache[telemetry[j].group] = telemetry[j].text

GatewayInv == CallsInv /\ TelemetryInv /\ PromptInv

-----------------------------------------------------------------------------
(***************************************************************************)
(* One attempt of one call.                                                *)
(***************************************************************************)

\* The models of a use case.
LEMMA CandidatesAre ==
    ASSUME NEW u \in UseCase
    PROVE  /\ Len(Candidates(u)) \in 1..2 /\ Candidates(u)[1] = Route[u].primary
           /\ \A i \in 1..Len(Candidates(u)) :
                 Candidates(u)[i] \in {Route[u].primary, Route[u].fallback} \ {NoModel}
           /\ Len(Candidates(u)) = 2 =>
                 /\ Candidates(u)[2] = Route[u].fallback
                 /\ Route[u].allowed /\ Route[u].fallback # NoModel
           /\ Len(Candidates(u)) = 1 => ~Route[u].allowed \/ Route[u].fallback = NoModel
  <1>1. Route[u].primary # NoModel
    BY RouteAssumption
  <1>2. CASE Route[u].allowed /\ Route[u].fallback # NoModel
    <2>1. Candidates(u) = <<Route[u].primary, Route[u].fallback>>
      BY <1>2 DEF Candidates
    <2>2. /\ Len(Candidates(u)) = 2 /\ Candidates(u)[1] = Route[u].primary
          /\ Candidates(u)[2] = Route[u].fallback
      BY <2>1
    <2> QED BY <1>1, <1>2, <2>2
  <1>3. CASE ~(Route[u].allowed /\ Route[u].fallback # NoModel)
    <2>1. Candidates(u) = <<Route[u].primary>>
      BY <1>3 DEF Candidates
    <2>2. Len(Candidates(u)) = 1 /\ Candidates(u)[1] = Route[u].primary
      BY <2>1
    <2> QED BY <1>1, <1>3, <2>2
  <1> QED BY <1>2, <1>3

\* How many attempts a model gets.
LEMMA PerModelIs ==
    ASSUME NEW k \in Call
    PROVE  /\ PerModel(k) \in 1..3 /\ Route[k.use].retries \in 0..2
           /\ k.structured => PerModel(k) = Route[k.use].retries + 1
           /\ ~k.structured => PerModel(k) = 1
  <1>1. k.use \in UseCase /\ k.structured \in BOOLEAN
    BY DEF Call
  <1> QED BY <1>1, RouteAssumption DEF PerModel

\* An answer the caller of acompletion can get.
Answer(k) == Answers(k.structured) \cup {"timeout"}

\* The record of an attempt.
LEMMA RecordIs ==
    ASSUME NEW k \in Call, Underway(k), k.trace # 0, k.attempt # 0, NEW answer \in Answer(k)
    PROVE  /\ Record(k, answer) \in CallRecord
           /\ Record(k, answer).trace = k.trace /\ Record(k, answer).attempt = k.attempt
           /\ Record(k, answer).model = Candidates(k.use)[k.candidate]
           /\ Record(k, answer).status = Status(answer, k.candidate > 1)
           /\ Record(k, answer).tokens = Tokens(answer) /\ Record(k, answer).text = k.text
           /\ Record(k, answer).group = Route[k.use].group
           /\ Tokens(answer) \in {0, 1}
  <1>1. /\ k.trace \in 1..MaxCalls /\ k.attempt \in 1..6 /\ k.use \in UseCase
        /\ k.text \in Texts /\ k.structured \in BOOLEAN
        /\ k.candidate \in 1..Len(Candidates(k.use))
    BY BoundsAssumption DEF Call, Underway
  <1>2. Candidates(k.use)[k.candidate] \in
           (UNION {{Route[u].primary, Route[u].fallback} : u \in UseCase}) \ {NoModel}
    <2>1. Candidates(k.use)[k.candidate] \in {Route[k.use].primary, Route[k.use].fallback} \ {NoModel}
      BY <1>1, CandidatesAre
    <2> QED BY <1>1, <2>1
  <1>3. Status(answer, k.candidate > 1) \in Success \cup {"INVALID_OUTPUT", "FAILED"}
    BY DEF Status, Success
  <1>4. Tokens(answer) \in {0, 1} /\ Tokens(answer) \in 0..1
    BY DEF Tokens
  <1>5. Route[k.use].group \in Group
    BY <1>1 DEF Group
  <1> QED BY <1>1, <1>2, <1>3, <1>4, <1>5 DEF Record, CallRecord

\* One element more.
LEMMA AppendIs ==
    ASSUME NEW S, NEW s \in Seq(S), NEW x \in S
    PROVE  /\ Append(s, x) \in Seq(S) /\ Len(s) \in Nat /\ Len(Append(s, x)) = Len(s) + 1
           /\ DOMAIN s = 1..Len(s) /\ DOMAIN Append(s, x) = 1..(Len(s) + 1)
           /\ DOMAIN Append(s, x) = DOMAIN s \cup {Len(s) + 1} /\ Len(s) + 1 \notin DOMAIN s
           /\ \A i \in DOMAIN s : Append(s, x)[i] = s[i]
           /\ Append(s, x)[Len(s) + 1] = x
  OBVIOUS

\* A call after an answer: its records have one more.
Told(k, answer) ==
    [k EXCEPT !.records = Append(@, Record(k, answer)),
              !.reported = @ + (IF answer \in NoAnswer THEN 0 ELSE 1)]

\* A waiting call has at most five records.
LEMMA FewRecords ==
    ASSUME NEW k \in Call, Underway(k)
    PROVE  /\ Len(k.records) \in 0..5 /\ Before(k) \in 0..Len(k.records)
           /\ k.attempt \in 1..6 /\ k.tries \in 1..PerModel(k)
           /\ Before(k) <= PerModel(k) /\ Before(k) + k.tries = Len(k.records) + 1
           /\ k.candidate \in 1..2
  <1>1. PerModel(k) \in 1..3
    BY PerModelIs
  <1>2. Len(k.records) \in Nat /\ k.candidate \in 1..2 /\ k.tries \in 1..3
    BY DEF Call
  <1>3. Before(k) \in 0..PerModel(k)
    BY <1>1, <1>2 DEF Underway, UsedUp
  <1>4. Before(k) = Len(k.records) - (k.tries - 1)
    BY DEF Before
  <1>5. k.tries \in 1..PerModel(k) /\ k.attempt = Len(k.records) + 1
    BY DEF Underway
  <1>6. PICK l \in Nat, b \in Nat, p \in 1..3, r \in 1..3 :
           l = Len(k.records) /\ b = Before(k) /\ p = PerModel(k) /\ r = k.tries
    BY <1>1, <1>2, <1>3
  <1>7. b <= p /\ b = l - (r - 1) /\ r <= p
    BY <1>1, <1>3, <1>4, <1>5, <1>6
  <1>8. l <= 5 /\ b <= l /\ b + r = l + 1 /\ l + 1 \in 1..6 /\ l \in 0..5 /\ b \in 0..l
    <2>1. l \in Nat /\ b \in Nat /\ p \in 1..3 /\ r \in 1..3
      OBVIOUS
    <2> QED BY <1>7, <2>1
  <1>9. k.attempt = l + 1
    BY <1>5, <1>6
  <1> QED BY <1>2, <1>5, <1>6, <1>7, <1>8, <1>9

\* An answer adds its tokens to what is counted.
LEMMA CountGrows ==
    ASSUME NEW k \in Call, Counted(k), Len(k.records) \in 0..5, NEW x \in CallRecord,
           NEW s, s = Append(k.records, x)
    PROVE  /\ Cardinality({i \in DOMAIN s : s[i].tokens = 1}) = k.reported + x.tokens
           /\ k.reported + x.tokens \in 0..6 /\ x.tokens \in {0, 1}
  <1> DEFINE C == {i \in DOMAIN k.records : k.records[i].tokens = 1}
             D == {i \in DOMAIN s : s[i].tokens = 1}
             n == Len(k.records)
  <1>1. k.records \in Seq(CallRecord) /\ x.tokens \in {0, 1}
    BY DEF Call, CallRecord
  <1>2. /\ DOMAIN k.records = 1..n /\ DOMAIN s = DOMAIN k.records \cup {n + 1}
        /\ n + 1 \notin DOMAIN k.records /\ s[n + 1] = x
        /\ \A i \in DOMAIN k.records : s[i] = k.records[i]
    BY <1>1, AppendIs
  <1>3. D = IF x.tokens = 1 THEN C \cup {n + 1} ELSE C
    BY <1>2
  <1>4. n + 1 \notin C /\ C \subseteq 1..n
    BY <1>2
  <1> HIDE DEF n
  <1>5. n \in Nat /\ 1 \in Int /\ n \in Int /\ n <= 5
    <2>1. n \in 0..5
      BY DEF n
    <2> QED BY <2>1
  <1> HIDE DEF C, D
  <1>6. IsFiniteSet(1..n) /\ Cardinality(1..n) = n
    <2>1. /\ IsFiniteSet(1..n)
          /\ Cardinality(1..n) = IF 1 > n THEN 0 ELSE n - 1 + 1
      BY <1>5, FS_Interval, Zenon
    <2> QED BY <1>5, <2>1
  <1>7. IsFiniteSet(C) /\ Cardinality(C) \in Nat /\ Cardinality(C) <= n
    BY <1>4, <1>5, <1>6, FS_Subset, FS_CardinalityType
  <1>8. Cardinality(C \cup {n + 1}) = Cardinality(C) + 1
    BY <1>4, <1>7, FS_AddElement
  <1>9. k.reported = Cardinality(C)
    BY DEF Counted, C
  <1>10. Cardinality(D) = k.reported + x.tokens
    BY <1>1, <1>3, <1>7, <1>8, <1>9
  <1>11. k.reported + x.tokens \in 0..6
    BY <1>1, <1>5, <1>7, <1>9
  <1> QED BY <1>1, <1>10, <1>11 DEF D

\* What an answer leaves as it is.
LEMMA ToldIs ==
    ASSUME NEW k \in Call, CallOK(k), k.phase = "waiting", k.trace # 0, NEW answer \in Answer(k)
    PROVE  LET x == Record(k, answer)
               t == Told(k, answer)
           IN  /\ t \in Call /\ t.records = Append(k.records, x) /\ t.phase = "waiting"
               /\ t.reported = k.reported + x.tokens
               /\ t.use = k.use /\ t.structured = k.structured /\ t.candidate = k.candidate
               /\ t.tries = k.tries /\ t.attempt = k.attempt /\ t.trace = k.trace
               /\ t.text = k.text /\ t.outcome = k.outcome
               /\ Counted(t)
  <1> DEFINE x == Record(k, answer)
             t == Told(k, answer)
  <1>0. Underway(k) /\ Counted(k)
    BY DEF CallOK
  <1>1. Len(k.records) \in 0..5 /\ k.attempt # 0
    BY <1>0, FewRecords
  <1>2. x \in CallRecord /\ x.tokens = Tokens(answer)
    BY <1>0, <1>1, RecordIs
  <1> HIDE DEF x
  <1>3. PICK s : s = Append(k.records, x)
    OBVIOUS
  <1>4. /\ Cardinality({i \in DOMAIN s : s[i].tokens = 1}) = k.reported + x.tokens
        /\ k.reported + x.tokens \in 0..6
    BY <1>0, <1>1, <1>2, <1>3, CountGrows
  <1>5. s \in Seq(CallRecord)
    BY <1>2, <1>3, AppendIs DEF Call
  <1>6. t = [k EXCEPT !.records = s, !.reported = k.reported + x.tokens]
    BY <1>2, <1>3 DEF Told, Tokens, x
  <1> HIDE DEF t
  <1>7. /\ t \in Call /\ t.records = s /\ t.phase = "waiting"
        /\ t.reported = k.reported + x.tokens
        /\ t.use = k.use /\ t.structured = k.structured /\ t.candidate = k.candidate
        /\ t.tries = k.tries /\ t.attempt = k.attempt /\ t.trace = k.trace
        /\ t.text = k.text /\ t.outcome = k.outcome
    BY <1>4, <1>5, <1>6 DEF Call
  <1>8. Counted(t)
    BY <1>4, <1>7 DEF Counted
  <1> QED BY <1>3, <1>7, <1>8 DEF x, t

\* How a call goes on after an answer.
Goes(k, x, n) ==
    \/ /\ x.status \in Success
       /\ n.phase = "over" /\ n.outcome = "answer" /\ n.attempt = k.attempt
    \/ /\ x.status = "INVALID_OUTPUT" /\ k.tries < PerModel(k)
       /\ n.phase = "waiting" /\ n.outcome = "none" /\ n.attempt = k.attempt + 1
       /\ n.tries = k.tries + 1 /\ n.candidate = k.candidate
    \/ /\ x.status \notin Success /\ (x.status = "INVALID_OUTPUT" => k.tries >= PerModel(k))
       /\ k.candidate < Len(Candidates(k.use))
       /\ n.phase = "waiting" /\ n.outcome = "none" /\ n.attempt = k.attempt + 1
       /\ n.tries = 1 /\ n.candidate = k.candidate + 1
    \/ /\ x.status \notin Success /\ (x.status = "INVALID_OUTPUT" => k.tries >= PerModel(k))
       /\ k.candidate >= Len(Candidates(k.use))
       /\ n.phase = "over" /\ n.outcome = "LLMInvocationError" /\ n.attempt = k.attempt

\* The loops of invoke do exactly that.
LEMMA GoesOn ==
    ASSUME NEW k \in Call, CallOK(k), k.phase = "waiting", k.trace # 0, NEW answer \in Answer(k)
    PROVE  LET x == Record(k, answer)
               n == Continue(Told(k, answer), x.status)
           IN  /\ n \in Call /\ n.records = Append(k.records, x) /\ Counted(n)
               /\ n.use = k.use /\ n.structured = k.structured /\ n.trace = k.trace
               /\ n.text = k.text
               /\ Goes(k, x, n)
  <1> DEFINE x == Record(k, answer)
             t == Told(k, answer)
             n == Continue(t, x.status)
  <1>0. Underway(k)
    BY DEF CallOK
  <1>1. /\ t \in Call /\ t.records = Append(k.records, x) /\ t.phase = "waiting"
        /\ t.use = k.use /\ t.structured = k.structured /\ t.candidate = k.candidate
        /\ t.tries = k.tries /\ t.attempt = k.attempt /\ t.trace = k.trace
        /\ t.text = k.text /\ t.outcome = k.outcome /\ Counted(t)
    BY ToldIs
  <1>2. /\ k.attempt \in 1..6 /\ k.tries \in 1..PerModel(k) /\ Len(k.records) \in 0..5
        /\ Before(k) + k.tries = Len(k.records) + 1 /\ k.candidate \in 1..2
        /\ k.attempt = Len(k.records) + 1 /\ k.outcome = "none"
        /\ PerModel(k) \in 1..3 /\ (k.candidate = 1 => Before(k) = 0)
    BY <1>0, FewRecords, PerModelIs DEF Underway
  <1>3. Before(k) <= PerModel(k)
    BY <1>0, FewRecords
  <1>s. k.attempt \in 1..6 /\ k.tries \in 1..3 /\ k.candidate \in 1..2 /\ PerModel(k) \in 1..3
        /\ Before(k) \in 0..5
    <2>1. Before(k) \in 0..Len(k.records) /\ Len(k.records) \in 0..5
      BY <1>0, FewRecords
    <2> QED BY <1>2, <2>1 DEF Call
  <1>4. PerModel(t) = PerModel(k) /\ Candidates(t.use) = Candidates(k.use)
        /\ Len(Candidates(k.use)) \in 1..2
    BY <1>1, CandidatesAre DEF PerModel, Call
  <1> HIDE DEF x, t
  <1>5. x.status \in Success => n = Return(t, "answer")
    BY DEF Continue, Success
  <1>6. x.status = "INVALID_OUTPUT" /\ k.tries < PerModel(k) => n = Retry(t)
    BY <1>1, <1>4 DEF Continue, Success
  <1>7. x.status \notin Success /\ (x.status = "INVALID_OUTPUT" => ~(k.tries < PerModel(k)))
           => n = NextModel(t)
    BY <1>1, <1>4 DEF Continue
  <1> HIDE DEF n
  <1>8. ASSUME NEW o \in {"answer", "LLMInvocationError"}, n = Return(t, o)
        PROVE  /\ n \in Call /\ n.records = t.records /\ Counted(n)
               /\ n.use = k.use /\ n.structured = k.structured /\ n.trace = k.trace
               /\ n.text = k.text
               /\ n.phase = "over" /\ n.outcome = o /\ n.attempt = k.attempt
    BY <1>1, <1>8 DEF Return, Call, Counted
  <1>9. CASE x.status \in Success
    BY <1>1, <1>5, <1>8, <1>9 DEF Goes, x, t, n
  <1>10. CASE x.status = "INVALID_OUTPUT" /\ k.tries < PerModel(k)
    <2>1. n = [t EXCEPT !.tries = k.tries + 1, !.attempt = k.attempt + 1]
      BY <1>1, <1>6, <1>10 DEF Retry
    <2>2. k.tries + 1 \in 1..3 /\ k.attempt + 1 \in 0..6
      <3>1. PICK a \in 1..6, r \in 1..3, p \in 1..3, b \in 0..5 :
               a = k.attempt /\ r = k.tries /\ p = PerModel(k) /\ b = Before(k)
        BY <1>s
      <3>2. r < p /\ b <= p /\ b + r = a
        BY <1>2, <1>3, <1>10, <3>1
      <3>3. r + 1 \in 1..3 /\ a + 1 \in 0..6
        BY <3>1, <3>2
      <3> QED BY <3>1, <3>3
    <2>3. /\ n \in Call /\ n.records = t.records /\ Counted(n)
          /\ n.use = k.use /\ n.structured = k.structured /\ n.trace = k.trace
          /\ n.text = k.text
          /\ n.phase = "waiting" /\ n.outcome = "none" /\ n.attempt = k.attempt + 1
          /\ n.tries = k.tries + 1 /\ n.candidate = k.candidate
      BY <1>1, <1>2, <2>1, <2>2 DEF Call, Counted
    <2> QED BY <1>1, <1>10, <2>3 DEF Goes, x, t, n
  <1>11. CASE /\ x.status \notin Success /\ (x.status = "INVALID_OUTPUT" => ~(k.tries < PerModel(k)))
              /\ k.candidate < Len(Candidates(k.use))
    <2>1. n = [t EXCEPT !.candidate = k.candidate + 1, !.tries = 1, !.attempt = k.attempt + 1]
      BY <1>1, <1>4, <1>7, <1>11 DEF NextModel, FallBack
    <2>2. k.candidate = 1 /\ k.candidate + 1 \in 1..2 /\ k.attempt + 1 \in 0..6 /\ 1 \in 1..3
      <3>1. PICK a \in 1..6, r \in 1..3, c \in 1..2, l \in 1..2 :
               a = k.attempt /\ r = k.tries /\ c = k.candidate /\ l = Len(Candidates(k.use))
        BY <1>s, <1>4
      <3>2. c < l
        BY <1>11, <3>1
      <3>3. c = 1
        <4>1. c \in 1..2 /\ l \in 1..2
          OBVIOUS
        <4> QED BY <3>2, <4>1
      <3>4. Before(k) = 0 /\ Before(k) + r = a
        BY <1>2, <3>1, <3>3
      <3>5. a + 1 \in 0..6
        BY <3>1, <3>4
      <3> QED BY <3>1, <3>3, <3>5
    <2>3. /\ n \in Call /\ n.records = t.records /\ Counted(n)
          /\ n.use = k.use /\ n.structured = k.structured /\ n.trace = k.trace
          /\ n.text = k.text
          /\ n.phase = "waiting" /\ n.outcome = "none" /\ n.attempt = k.attempt + 1
          /\ n.tries = 1 /\ n.candidate = k.candidate + 1
      BY <1>1, <1>2, <2>1, <2>2 DEF Call, Counted
    <2>4. x.status = "INVALID_OUTPUT" => k.tries >= PerModel(k)
      BY <1>2, <1>11
    <2> QED BY <1>1, <1>11, <2>3, <2>4 DEF Goes, x, t, n
  <1>12. CASE /\ x.status \notin Success /\ (x.status = "INVALID_OUTPUT" => ~(k.tries < PerModel(k)))
              /\ ~(k.candidate < Len(Candidates(k.use)))
    <2>1. n = Return(t, "LLMInvocationError")
      BY <1>1, <1>4, <1>7, <1>12 DEF NextModel
    <2>2. x.status = "INVALID_OUTPUT" => k.tries >= PerModel(k)
      BY <1>2, <1>12
    <2>3. k.candidate >= Len(Candidates(k.use))
      BY <1>2, <1>4, <1>12
    <2> QED BY <1>1, <1>8, <1>12, <2>1, <2>2, <2>3 DEF Goes, x, t, n
  <1> QED BY <1>9, <1>10, <1>11, <1>12

\* A range of attempts.
LEMMA RangeSize ==
    ASSUME NEW a \in Nat, NEW b \in Nat, a <= b
    PROVE  Cardinality((a + 1)..b) = b - a
  <1>1. a + 1 \in Int /\ b \in Int
    OBVIOUS
  <1>2. Cardinality((a + 1)..b) = IF a + 1 > b THEN 0 ELSE b - (a + 1) + 1
    BY <1>1, FS_Interval, Zenon
  <1> QED BY <1>2

\* The records of a waiting call in numbers: the primary's, used up, then
\* those of the model it is with.
LEMMA UnderwayIs ==
    ASSUME NEW k \in Call, Underway(k)
    PROVE  \E L, B, T, P \in Nat :
              /\ L = Len(k.records) /\ B = Before(k) /\ T = k.tries /\ P = PerModel(k)
              /\ B + T = L + 1 /\ T <= P /\ B <= P /\ B <= L /\ T >= 1 /\ P >= 1
              /\ k.attempt = L + 1 /\ DOMAIN k.records = 1..L
              /\ \A i \in (B + 1)..L : /\ k.records[i].model = Candidates(k.use)[k.candidate]
                                       /\ k.records[i].status = "INVALID_OUTPUT"
              /\ k.candidate \in {1, 2}
              /\ k.candidate = 1 => B = 0 /\ Candidates(k.use)[k.candidate] = Route[k.use].primary
              /\ k.candidate = 2 =>
                    /\ B >= 1 /\ UsedUp(k, B)
                    /\ Candidates(k.use)[k.candidate] = Route[k.use].fallback
                    /\ Route[k.use].fallback # Route[k.use].primary
                    /\ Len(Candidates(k.use)) = 2
  <1>1. /\ Len(k.records) \in 0..5 /\ Before(k) \in 0..Len(k.records)
        /\ k.tries \in 1..PerModel(k) /\ PerModel(k) \in 1..3
        /\ Before(k) <= PerModel(k) /\ Before(k) + k.tries = Len(k.records) + 1
        /\ k.candidate \in 1..2
    BY FewRecords, PerModelIs
  <1>2. PICK L \in 0..5, P \in 1..3 : L = Len(k.records) /\ P = PerModel(k)
    BY <1>1
  <1>3. PICK B \in 0..L, T \in 1..P : B = Before(k) /\ T = k.tries
    BY <1>1, <1>2
  <1>4. L \in Nat /\ B \in Nat /\ T \in Nat /\ P \in Nat /\ B <= L /\ T <= P /\ T >= 1 /\ P >= 1
    OBVIOUS
  <1>5. B + T = L + 1 /\ B <= P
    BY <1>1, <1>2, <1>3
  <1>6. k.attempt = L + 1 /\ DOMAIN k.records = 1..L
    BY <1>2 DEF Underway, Call
  <1>7. \A i \in (B + 1)..L : /\ k.records[i].model = Candidates(k.use)[k.candidate]
                              /\ k.records[i].status = "INVALID_OUTPUT"
    BY <1>2, <1>3 DEF Underway
  <1>8. k.use \in UseCase /\ k.candidate \in 1..Len(Candidates(k.use))
    BY DEF Call, Underway
  <1>9. k.candidate = 1 => B = 0 /\ Candidates(k.use)[k.candidate] = Route[k.use].primary
    BY <1>3, <1>8, CandidatesAre DEF Underway
  <1>10. ASSUME k.candidate = 2
         PROVE  /\ B >= 1 /\ UsedUp(k, B)
                /\ Candidates(k.use)[k.candidate] = Route[k.use].fallback
                /\ Route[k.use].fallback # Route[k.use].primary
                /\ Len(Candidates(k.use)) = 2
    <2>1. UsedUp(k, B)
      BY <1>3, <1>10 DEF Underway
    <2>2. B >= 1
      BY <2>1, <1>2 DEF UsedUp
    <2>3. Len(Candidates(k.use)) \in 1..2
      BY <1>8, CandidatesAre
    <2>4. Len(Candidates(k.use)) = 2
      BY <1>8, <1>10, <2>3
    <2> QED BY <1>8, <1>10, <2>1, <2>2, <2>4, CandidatesAre, RouteAssumption
  <1>11. k.candidate \in {1, 2}
    BY <1>1
  <1> QED BY <1>2, <1>3, <1>4, <1>5, <1>6, <1>7, <1>9, <1>10, <1>11

\* An attempt and what follows it keep the rules of a call.
LEMMA GoesOK ==
    ASSUME NEW k \in Call, CallOK(k), k.phase = "waiting", k.trace # 0,
           NEW answer \in Answer(k), NEW x, x = Record(k, answer),
           NEW n \in Call, n.records = Append(k.records, x), Counted(n),
           n.use = k.use, n.structured = k.structured, n.trace = k.trace, n.text = k.text,
           Goes(k, x, n)
    PROVE  CallOK(n)
  <1>0. Underway(k) /\ k.records \in Seq(CallRecord) /\ k.use \in UseCase /\ k.text \in Texts
    BY DEF CallOK, Call, Underway
  <1>1. PICK L, B, T, P \in Nat :
              /\ L = Len(k.records) /\ B = Before(k) /\ T = k.tries /\ P = PerModel(k)
              /\ B + T = L + 1 /\ T <= P /\ B <= P /\ B <= L /\ T >= 1 /\ P >= 1
              /\ k.attempt = L + 1 /\ DOMAIN k.records = 1..L
              /\ \A i \in (B + 1)..L : /\ k.records[i].model = Candidates(k.use)[k.candidate]
                                       /\ k.records[i].status = "INVALID_OUTPUT"
              /\ k.candidate \in {1, 2}
              /\ k.candidate = 1 => B = 0 /\ Candidates(k.use)[k.candidate] = Route[k.use].primary
              /\ k.candidate = 2 =>
                    /\ B >= 1 /\ UsedUp(k, B)
                    /\ Candidates(k.use)[k.candidate] = Route[k.use].fallback
                    /\ Route[k.use].fallback # Route[k.use].primary
                    /\ Len(Candidates(k.use)) = 2
    BY <1>0, UnderwayIs
  <1>2. /\ x \in CallRecord /\ x.trace = k.trace /\ x.attempt = k.attempt
        /\ x.model = Candidates(k.use)[k.candidate]
    <2>1. k.attempt # 0
      BY <1>1
    <2> QED BY <1>0, <2>1, RecordIs
  <1>3. x.status \in Success \cup {"INVALID_OUTPUT", "FAILED"}
    BY <1>2 DEF CallRecord
  <1> DEFINE R == k.records
             S == n.records
  <1>4. /\ S \in Seq(CallRecord) /\ Len(S) = L + 1 /\ DOMAIN S = 1..(L + 1)
        /\ \A i \in 1..L : S[i] = R[i]
        /\ S[L + 1] = x
    <2>1. /\ DOMAIN R = 1..Len(R) /\ Len(S) = Len(R) + 1 /\ DOMAIN S = 1..(Len(R) + 1)
          /\ \A i \in DOMAIN R : S[i] = R[i]
          /\ S[Len(R) + 1] = x
      BY <1>0, <1>2, AppendIs
    <2>2. S \in Seq(CallRecord)
      BY DEF Call
    <2> QED BY <1>1, <2>1, <2>2
  <1> HIDE DEF R, S
  <1>5. Route[k.use].fallback # Route[k.use].primary /\ PerModel(n) = P
    BY <1>0, <1>1, RouteAssumption DEF PerModel
  <1>6. \A i \in 1..B : k.candidate = 2 /\ R[i].model = Route[k.use].primary
    BY <1>1 DEF UsedUp, R
  <1>7. \A i \in 1..L : R[i].status \in {"INVALID_OUTPUT", "FAILED"}
    <2> SUFFICES ASSUME NEW i \in 1..L
                 PROVE  R[i].status \in {"INVALID_OUTPUT", "FAILED"}
      OBVIOUS
    <2>1. CASE i > B
      BY <1>1, <2>1 DEF R
    <2>2. CASE i <= B
      <3>1. UsedUp(k, B) /\ i \in 1..B
        BY <1>1, <2>2
      <3>2. i \in 1..(B - 1) \/ i = B
        BY <3>1
      <3> QED BY <3>1, <3>2 DEF UsedUp, R
    <2> QED BY <1>1, <2>1, <2>2
  <1>8. ForCause(n)
    <2> SUFFICES ASSUME NEW i \in 1..(L + 1), NEW j \in (i + 1)..(L + 1)
                 PROVE  /\ S[i].status \notin Success
                        /\ S[i].model = S[j].model => S[i].status = "INVALID_OUTPUT"
                        /\ S[i].model = Route[k.use].fallback => S[j].model = S[i].model
      BY <1>4 DEF ForCause, S
    <2>1. i \in 1..L /\ S[i] = R[i]
      BY <1>1, <1>4
    <2>2. S[i].status \notin Success
      BY <1>7, <2>1 DEF Success
    <2>3. CASE j <= L
      <3>1. j \in (i + 1)..Len(k.records) /\ i \in DOMAIN k.records /\ S[j] = R[j]
        BY <1>1, <1>4, <2>1, <2>3
      <3> QED BY <2>1, <3>1 DEF ForCause, CallOK, R
    <2>4. CASE j > L
      <3>1. S[j] = x
        BY <1>1, <1>4, <2>4
      <3>2. CASE i > B
        <4>1. R[i].model = x.model /\ R[i].status = "INVALID_OUTPUT"
          BY <1>1, <1>2, <2>1, <3>2 DEF R
        <4> QED BY <2>1, <2>2, <3>1, <4>1
      <3>3. CASE i <= B
        <4>1. R[i].model = Route[k.use].primary /\ x.model = Route[k.use].fallback
          BY <1>1, <1>2, <1>6, <2>1, <3>3
        <4> QED BY <1>5, <2>1, <2>2, <3>1, <4>1
      <3> QED BY <1>1, <3>2, <3>3
    <2> QED BY <1>1, <2>3, <2>4
  <1>9. \A i \in DOMAIN S : S[i].attempt = i /\ S[i].trace = n.trace
    <2>1. \A i \in 1..L : R[i].attempt = i /\ R[i].trace = k.trace
      BY <1>1 DEF CallOK, R
    <2>2. \A i \in 1..(L + 1) : i \in 1..L \/ i = L + 1
      BY <1>1
    <2> QED BY <1>1, <1>2, <1>4, <2>1, <2>2
  <1>10. Governed(n) => Len(S) = n.attempt
    BY <1>1, <1>4 DEF Governed, Goes
  <1>11. ASSUME n.outcome = "LLMInvocationError"
         PROVE  LastResort(n)
    <2>1. /\ x.status \in {"INVALID_OUTPUT", "FAILED"}
          /\ x.status = "INVALID_OUTPUT" => T = P
          /\ k.candidate >= Len(Candidates(k.use))
      BY <1>1, <1>3, <1>11 DEF Goes
    <2>2. P = 1 + (IF n.structured THEN Route[n.use].retries ELSE 0)
      BY <1>5 DEF PerModel
    <2>3. Attempts(n, x.model) = (B + 1)..(L + 1)
      <3>1. \A i \in (B + 1)..(L + 1) : i \in 1..(L + 1) /\ S[i].model = x.model
        <4> SUFFICES ASSUME NEW i \in (B + 1)..(L + 1)
                     PROVE  i \in 1..(L + 1) /\ S[i].model = x.model
          OBVIOUS
        <4>1. (i \in (B + 1)..L /\ i \in 1..L) \/ i = L + 1
          BY <1>1
        <4> QED BY <1>1, <1>2, <1>4, <4>1 DEF R
      <3>2. \A i \in 1..(L + 1) : S[i].model = x.model => i \in (B + 1)..(L + 1)
        <4> SUFFICES ASSUME NEW i \in 1..(L + 1), i \notin (B + 1)..(L + 1)
                     PROVE  S[i].model # x.model
          OBVIOUS
        <4>1. i \in 1..B /\ i \in 1..L
          BY <1>1
        <4> QED BY <1>1, <1>2, <1>4, <1>5, <1>6, <4>1
      <3> QED BY <1>4, <3>1, <3>2 DEF Attempts, S
    <2>4. Cardinality(Attempts(n, x.model)) = T
      <3>1. L + 1 \in Nat /\ B <= L + 1 /\ L + 1 - B = T
        <4>1. B + T = L + 1 /\ B <= L
          BY <1>1
        <4> QED BY <4>1
      <3> QED BY <2>3, <3>1, RangeSize
    <2> DEFINE Spent(m) == \E last \in Attempts(n, m) :
                /\ \A i \in Attempts(n, m) : i <= last
                /\ \/ S[last].status = "FAILED"
                   \/ /\ S[last].status = "INVALID_OUTPUT"
                      /\ Cardinality(Attempts(n, m)) = P
    <2>5. Spent(x.model)
      <3>1. L + 1 \in Attempts(n, x.model) /\ \A i \in Attempts(n, x.model) : i <= L + 1
        BY <1>1, <2>3
      <3> QED BY <1>4, <2>1, <2>4, <3>1
    <2>6. ASSUME k.candidate = 2
          PROVE  Spent(Route[k.use].primary)
      <3>1. /\ \A i \in 1..B : R[i].model = Route[k.use].primary
            /\ \/ R[B].status = "FAILED"
               \/ B = P /\ R[B].status = "INVALID_OUTPUT"
        BY <1>1, <2>6 DEF UsedUp, R
      <3>2. Attempts(n, Route[k.use].primary) = 1..B
        <4>1. \A i \in 1..B : i \in 1..(L + 1) /\ S[i].model = Route[k.use].primary
          <5> SUFFICES ASSUME NEW i \in 1..B
                       PROVE  i \in 1..(L + 1) /\ S[i].model = Route[k.use].primary
            OBVIOUS
          <5>1. i \in 1..L /\ i \in 1..(L + 1)
            BY <1>1
          <5> QED BY <1>4, <3>1, <5>1
        <4>2. \A i \in 1..(L + 1) : S[i].model = Route[k.use].primary => i \in 1..B
          <5> SUFFICES ASSUME NEW i \in 1..(L + 1), i \notin 1..B
                       PROVE  S[i].model # Route[k.use].primary
            OBVIOUS
          <5>1. i \in (B + 1)..(L + 1)
            BY <1>1
          <5>2. i \in Attempts(n, x.model)
            BY <2>3, <5>1
          <5>3. S[i].model = x.model
            BY <5>2 DEF Attempts, S
          <5> QED BY <1>1, <1>2, <2>6, <5>3
        <4> QED BY <1>4, <4>1, <4>2 DEF Attempts, S
      <3>3. Cardinality(Attempts(n, Route[k.use].primary)) = B
        <4>1. 0 \in Nat /\ 0 <= B /\ 0 + 1 = 1 /\ B - 0 = B
          BY <1>1
        <4>2. Cardinality((0 + 1)..B) = B - 0
          BY <4>1, RangeSize
        <4> QED BY <3>2, <4>1, <4>2
      <3>4. B \in 1..B /\ B \in 1..L /\ \A i \in 1..B : i <= B
        BY <1>1, <2>6
      <3>5. S[B] = R[B]
        BY <1>4, <3>4
      <3> QED BY <3>1, <3>2, <3>3, <3>4, <3>5
    <2>7. ASSUME NEW m \in {Route[k.use].primary}
                        \cup (IF Route[k.use].allowed THEN {Route[k.use].fallback} \ {NoModel}
                              ELSE {})
          PROVE  Spent(m)
      <3>1. CASE k.candidate = 1
        <4>1. Len(Candidates(k.use)) = 1
          <5>1. PICK l \in 1..2 : l = Len(Candidates(k.use))
            BY <1>0, CandidatesAre
          <5>2. 1 >= l
            BY <2>1, <3>1, <5>1
          <5>3. l = 1
            BY <5>2
          <5> QED BY <5>1, <5>3
        <4>2. ~Route[k.use].allowed \/ Route[k.use].fallback = NoModel
          BY <1>0, <4>1, CandidatesAre
        <4>3. m = Route[k.use].primary /\ x.model = m
          BY <1>1, <1>2, <2>7, <3>1, <4>2
        <4> QED BY <2>5, <4>3
      <3>2. CASE k.candidate = 2
        <4>1. m = Route[k.use].primary \/ m = Route[k.use].fallback
          BY <2>7
        <4>2. x.model = Route[k.use].fallback
          BY <1>1, <1>2, <3>2
        <4> QED BY <2>5, <2>6, <3>2, <4>1, <4>2
      <3> QED BY <1>1, <3>1, <3>2
    <2> QED BY <2>2, <2>7 DEF LastResort, S
  <1>12. LastResort(n)
    BY <1>11 DEF LastResort
  <1>13. ASSUME n.phase = "waiting"
         PROVE  Underway(n)
    <2>1. n.outcome = "none" /\ n.text \in Texts /\ n.attempt = L + 2 /\ x.status \notin Success
      BY <1>0, <1>1, <1>13 DEF Goes, Success
    <2>2. CASE x.status = "INVALID_OUTPUT" /\ n.tries = T + 1 /\ T < P /\ n.candidate = k.candidate
      <3>1. Before(n) = B
        BY <1>1, <1>4, <2>2 DEF Before, S
      <3>2. ASSUME n.candidate = 2
            PROVE  UsedUp(n, B)
        <4>1. UsedUp(k, B)
          BY <1>1, <2>2, <3>2
        <4>2. \A i \in 1..B : S[i] = R[i]
          BY <1>1, <1>4
        <4>3. B \in 1..B /\ \A i \in 1..(B - 1) : i \in 1..B
          BY <1>1, <2>2, <3>2
        <4> QED BY <1>1, <1>5, <4>1, <4>2, <4>3 DEF UsedUp, R, S
      <3>3. \A i \in (B + 1)..(L + 1) : /\ S[i].model = Candidates(k.use)[k.candidate]
                                        /\ S[i].status = "INVALID_OUTPUT"
        <4> SUFFICES ASSUME NEW i \in (B + 1)..(L + 1)
                     PROVE  /\ S[i].model = Candidates(k.use)[k.candidate]
                            /\ S[i].status = "INVALID_OUTPUT"
          OBVIOUS
        <4>1. (i \in (B + 1)..L /\ i \in 1..L) \/ i = L + 1
          BY <1>1
        <4> QED BY <1>1, <1>2, <1>4, <2>2, <4>1 DEF R
      <3>4. n.tries \in 1..PerModel(n) /\ n.attempt = Len(S) + 1
        BY <1>1, <1>4, <1>5, <2>1, <2>2
      <3>5. n.candidate = 1 => Before(n) = 0
        BY <1>1, <2>2, <3>1
      <3>6. n.candidate \in 1..Len(Candidates(n.use))
        BY <1>0, <2>2 DEF Underway
      <3> QED BY <1>4, <2>1, <2>2, <3>1, <3>2, <3>3, <3>4, <3>5, <3>6 DEF Underway, S
    <2>3. CASE /\ x.status = "INVALID_OUTPUT" => T >= P
               /\ k.candidate < Len(Candidates(k.use))
               /\ n.tries = 1 /\ n.candidate = k.candidate + 1
      <3>0. k.candidate = 1 /\ Len(Candidates(k.use)) = 2
        <4>1. PICK l \in 1..2, c \in {1, 2} : l = Len(Candidates(k.use)) /\ c = k.candidate
          BY <1>0, <1>1, CandidatesAre
        <4>2. c < l
          BY <2>3, <4>1
        <4>3. c = 1 /\ l = 2
          BY <4>2
        <4> QED BY <4>1, <4>3
      <3>1. k.candidate = 1 /\ n.candidate = 2 /\ B = 0 /\ T = L + 1 /\ Len(Candidates(k.use)) = 2
        BY <1>1, <2>3, <3>0
      <3>2. Before(n) = L + 1
        BY <1>1, <1>4, <2>3 DEF Before, S
      <3>3. x.status \in {"INVALID_OUTPUT", "FAILED"}
        BY <1>3, <2>1
      <3>4. x.model = Route[k.use].primary
        BY <1>1, <1>2, <3>1
      <3>5. \A i \in 1..L : S[i].model = Route[k.use].primary /\ S[i].status = "INVALID_OUTPUT"
        <4>1. \A i \in 1..L : i \in (B + 1)..L
          BY <3>1
        <4> QED BY <1>1, <1>2, <1>4, <3>4, <4>1 DEF R
      <3>6. \A i \in 1..(L + 1) : S[i].model = Route[k.use].primary
        <4>1. \A i \in 1..(L + 1) : i \in 1..L \/ i = L + 1
          BY <1>1
        <4> QED BY <1>4, <3>4, <3>5, <4>1
      <3>7. x.status = "INVALID_OUTPUT" => L + 1 = P
        BY <1>1, <2>3, <3>1
      <3>8. L + 1 \in 1..P /\ L + 1 - 1 = L
        BY <1>1, <3>1
      <3>9. UsedUp(n, L + 1)
        BY <1>4, <1>5, <3>3, <3>5, <3>6, <3>7, <3>8 DEF UsedUp, S
      <3>10. /\ n.tries \in 1..PerModel(n) /\ n.attempt = Len(S) + 1
             /\ n.candidate \in 1..Len(Candidates(n.use)) /\ n.candidate # 1
             /\ \A i \in (L + 1 + 1)..(L + 1) : FALSE
        BY <1>1, <1>4, <1>5, <2>1, <2>3, <3>1
      <3> QED BY <1>4, <2>1, <3>2, <3>9, <3>10 DEF Underway, S
    <2> QED BY <1>1, <1>13, <2>2, <2>3 DEF Goes
  <1> QED BY <1>8, <1>9, <1>10, <1>12, <1>13 DEF CallOK, S

-----------------------------------------------------------------------------
(***************************************************************************)
(* The steps of all callers.                                               *)
(***************************************************************************)

\* A call that has no record yet.
Fresh(n) ==
    /\ n \in Call /\ n.records = <<>> /\ n.reported = 0 /\ ~Governed(n)
    /\ n.phase = "waiting" =>
          /\ n.outcome = "none" /\ n.text \in Texts
          /\ n.candidate = 1 /\ n.tries = 1 /\ n.attempt = 1

\* It keeps the rules of a call.
LEMMA FreshOK ==
    ASSUME NEW n, Fresh(n)
    PROVE  CallOK(n)
  <1>1. n \in Call /\ n.records = <<>> /\ DOMAIN n.records = {} /\ Len(n.records) = 0
    BY DEF Fresh
  <1>2. Counted(n)
    <2>1. {i \in DOMAIN n.records : n.records[i].tokens = 1} = {}
      BY <1>1
    <2> QED BY <2>1, FS_EmptySet DEF Counted, Fresh
  <1>3. ForCause(n) /\ LastResort(n)
    BY <1>1 DEF ForCause, LastResort, Fresh, Governed
  <1>4. ASSUME n.phase = "waiting"
        PROVE  Underway(n)
    <2>1. PerModel(n) \in 1..3 /\ n.use \in UseCase
      BY <1>1, PerModelIs DEF Call
    <2>2. Len(Candidates(n.use)) \in 1..2
      BY <2>1, CandidatesAre
    <2>3. 1 \in 1..Len(Candidates(n.use)) /\ 1 \in 1..PerModel(n)
      <3>1. PICK l \in 1..2, p \in 1..3 : l = Len(Candidates(n.use)) /\ p = PerModel(n)
        BY <2>1, <2>2
      <3>2. 1 \in 1..l /\ 1 \in 1..p
        OBVIOUS
      <3> QED BY <3>1, <3>2
    <2>4. Before(n) = 0 /\ n.candidate # 2
      BY <1>1, <1>4 DEF Before, Fresh
    <2> QED BY <1>1, <1>4, <2>3, <2>4 DEF Underway, Fresh
  <1> QED BY <1>1, <1>2, <1>3, <1>4 DEF CallOK, Fresh

Starts(c) ==
    /\ calls < MaxCalls /\ calls' = calls + 1 /\ telemetry' = telemetry
    /\ \E n : Fresh(n) /\ n.trace = calls + 1 /\ call' = [call EXCEPT ![c] = n]
Answered(c) ==
    /\ call[c].phase = "waiting" /\ calls' = calls
    /\ \E answer \in Answer(call[c]) :
          LET x == Record(call[c], answer) IN
          /\ telemetry' = Append(telemetry, x)
          /\ call' = [call EXCEPT ![c] = Continue(Told(call[c], answer), x.status)]
Stops(c) ==
    /\ call[c].phase = "waiting" /\ calls' = calls /\ telemetry' = telemetry
    /\ \E o \in {"ValueError", "CancelledError"} :
          call' = [call EXCEPT ![c] = Return(call[c], o)]

\* A prompt that was loaded.
LEMMA LoadIs ==
    ASSUME TypeOK, NEW g \in Group
    PROVE  /\ Load(g) \in Texts \cup {"missing", "broken"}
           /\ cache[g] # Unread => Load(g) = cache[g]
           /\ Unread \notin Texts
  BY TextAssumption DEF TypeOK, Load, Unread

\* A caller that has no call.
LEMMA IdleIs ==
    /\ Idle \in Call /\ Idle.phase = "over" /\ Idle.trace = 0 /\ Idle.outcome = "none"
    /\ Idle.candidate = 1 /\ Idle.tries = 1 /\ Idle.records = <<>> /\ Idle.reported = 0
  <1>1. AnyUse \in UseCase
    BY RouteAssumption DEF AnyUse
  <1>2. <<>> \in Seq(CallRecord) /\ 0 \in 0..MaxCalls
    BY BoundsAssumption
  <1> QED BY <1>1, <1>2 DEF Idle, Call

\* A rejected call is a fresh one.
LEMMA RejectIsFresh ==
    ASSUME TypeOK, calls < MaxCalls, NEW error \in {"LookupError", "ValueError"}
    PROVE  LET n == [Idle EXCEPT !.trace = calls + 1, !.outcome = error] IN
           Fresh(n) /\ n.trace = calls + 1
  <1> DEFINE n == [Idle EXCEPT !.trace = calls + 1, !.outcome = error]
  <1>1. calls + 1 \in 0..MaxCalls
    BY BoundsAssumption DEF TypeOK
  <1>2. /\ n \in Call /\ n.trace = calls + 1 /\ n.records = <<>> /\ n.reported = 0
        /\ n.phase = "over" /\ n.outcome = error
    BY <1>1, IdleIs DEF Call
  <1> HIDE DEF n
  <1>3. Fresh(n)
    BY <1>2 DEF Fresh, Governed
  <1> QED BY <1>2, <1>3 DEF n

\* Every step starts, answers or stops one call, or leaves them all alone.
LEMMA StepKinds ==
    ASSUME TypeOK, Next \/ UNCHANGED vars
    PROVE  \/ \E c \in Callers : Starts(c) \/ Answered(c) \/ Stops(c)
           \/ UNCHANGED <<call, telemetry, calls>>
  <1>1. ASSUME NEW c \in Callers, NEW u \in UseCase, NEW structured \in BOOLEAN,
               NEW complete \in BOOLEAN, Invoke(c, u, structured, complete)
        PROVE  Starts(c)
    <2> DEFINE g == Route[u].group
    <2>1. /\ calls < MaxCalls /\ calls' = calls + 1 /\ UNCHANGED telemetry
          /\ \/ \E error \in {"LookupError", "ValueError"} : Reject(c, error)
             \/ /\ Load(g) \notin {"missing", "broken"}
                /\ call' = [call EXCEPT ![c] =
                        [Idle EXCEPT !.phase = "waiting", !.trace = calls + 1, !.use = u,
                                     !.structured = structured, !.attempt = 1, !.text = Load(g)]]
      BY <1>1 DEF Invoke
    <2>2. ASSUME NEW error \in {"LookupError", "ValueError"}, Reject(c, error)
          PROVE  Starts(c)
      BY <2>1, <2>2, RejectIsFresh DEF Reject, Starts
    <2>3. ASSUME Load(g) \notin {"missing", "broken"},
                 call' = [call EXCEPT ![c] =
                        [Idle EXCEPT !.phase = "waiting", !.trace = calls + 1, !.use = u,
                                     !.structured = structured, !.attempt = 1, !.text = Load(g)]]
          PROVE  Starts(c)
      <3> DEFINE n == [Idle EXCEPT !.phase = "waiting", !.trace = calls + 1, !.use = u,
                                   !.structured = structured, !.attempt = 1, !.text = Load(g)]
      <3>1. g \in Group
        BY DEF Group
      <3>2. Load(g) \in Texts
        BY <2>3, <3>1, LoadIs
      <3>3. calls + 1 \in 0..MaxCalls
        BY <2>1, BoundsAssumption DEF TypeOK
      <3>4. /\ n \in Call /\ n.trace = calls + 1 /\ n.records = <<>> /\ n.reported = 0
            /\ n.outcome = "none" /\ n.text = Load(g)
            /\ n.candidate = 1 /\ n.tries = 1 /\ n.attempt = 1
        <4> DEFINE m == [Idle EXCEPT !.phase = "waiting", !.trace = calls + 1, !.use = u,
                                     !.structured = structured]
        <4>1. /\ m \in Call /\ m.trace = calls + 1 /\ m.records = <<>> /\ m.reported = 0
              /\ m.outcome = "none" /\ m.candidate = 1 /\ m.tries = 1
          BY <3>3, IdleIs DEF Call
        <4>2. n = [m EXCEPT !.attempt = 1, !.text = Load(g)]
          OBVIOUS
        <4> HIDE DEF m, n
        <4>3. PICK t \in Texts : t = Load(g)
          BY <3>2
        <4>4. n = [m EXCEPT !.attempt = 1, !.text = t]
          BY <4>2, <4>3
        <4>5. n \in Call
          <5> DEFINE m2 == [m EXCEPT !.attempt = 1]
          <5>1. m2 \in Call
            BY <4>1 DEF Call
          <5>2. n = [m2 EXCEPT !.text = t]
            BY <4>4
          <5> HIDE DEF m2
          <5>3. t \in Texts \cup {Unread}
            BY <4>3
          <5> QED BY <5>1, <5>2, <5>3 DEF Call
        <4>6. /\ n.trace = m.trace /\ n.records = m.records /\ n.reported = m.reported
              /\ n.outcome = m.outcome /\ n.candidate = m.candidate /\ n.tries = m.tries
              /\ n.text = t /\ n.attempt = 1
          BY <4>1, <4>4 DEF Call
        <4> QED BY <4>1, <4>3, <4>5, <4>6
      <3> HIDE DEF n
      <3>6. Fresh(n) /\ n.trace = calls + 1
        BY <3>2, <3>4 DEF Fresh, Governed
      <3>7. call' = [call EXCEPT ![c] = n]
        BY <2>3 DEF n
      <3> QED BY <2>1, <3>6, <3>7 DEF Starts
    <2> QED BY <2>1, <2>2, <2>3
  <1>2. ASSUME NEW c \in Callers, InvokeUnknown(c)
        PROVE  Starts(c)
    BY <1>2, RejectIsFresh DEF InvokeUnknown, Reject, Starts
  <1>3. ASSUME NEW c \in Callers, NEW answer \in Answer(call[c]), Finish(c, answer)
        PROVE  Answered(c)
    BY <1>3 DEF Finish, Answered, Told
  <1>4. ASSUME NEW c \in Callers, Unusable(c) \/ Cancel(c)
        PROVE  Stops(c)
    <2>1. call[c].phase = "waiting" /\ UNCHANGED <<telemetry, calls>>
      BY <1>4 DEF Unusable, Cancel
    <2>2. CASE Unusable(c)
      <3>1. call' = [call EXCEPT ![c] = Return(call[c], "ValueError")]
        BY <2>2 DEF Unusable, TypeOK
      <3> QED BY <2>1, <3>1 DEF Stops
    <2>3. CASE Cancel(c)
      <3>1. call' = [call EXCEPT ![c] = Return(call[c], "CancelledError")]
        BY <2>3 DEF Cancel, TypeOK
      <3> QED BY <2>1, <3>1 DEF Stops
    <2> QED BY <1>4, <2>2, <2>3
  <1>5. ASSUME \/ UNCHANGED vars
               \/ \E g \in Group, text \in Texts \cup {"missing", "broken"} : EditPrompt(g, text)
        PROVE  UNCHANGED <<call, telemetry, calls>>
    BY <1>5 DEF EditPrompt, vars
  <1> QED BY <1>1, <1>2, <1>3, <1>4, <1>5 DEF Next, Timeout, Answer

\* What an answer leaves: a call that keeps the rules.
LEMMA AnsweredOK ==
    ASSUME NEW k \in Call, CallOK(k), k.phase = "waiting", k.trace # 0, NEW answer \in Answer(k)
    PROVE  LET x == Record(k, answer)
               n == Continue(Told(k, answer), x.status)
           IN  /\ n \in Call /\ CallOK(n) /\ x \in CallRecord
               /\ n.records = Append(k.records, x) /\ n.trace = k.trace
               /\ n.use = k.use /\ n.text = k.text
               /\ x.trace = k.trace /\ x.attempt = Len(k.records) + 1
               /\ x.text = k.text /\ x.group = Route[k.use].group
  <1>1. PICK x : x = Record(k, answer)
    OBVIOUS
  <1>2. PICK n : n = Continue(Told(k, answer), x.status)
    OBVIOUS
  <1>3. /\ n \in Call /\ n.records = Append(k.records, x) /\ Counted(n)
        /\ n.use = k.use /\ n.structured = k.structured /\ n.trace = k.trace
        /\ n.text = k.text
        /\ Goes(k, x, n)
    BY <1>1, <1>2, GoesOn
  <1>4. CallOK(n)
    BY <1>1, <1>3, GoesOK
  <1>5. Underway(k) /\ k.attempt # 0 /\ k.attempt = Len(k.records) + 1
    <2>1. Underway(k)
      BY DEF CallOK
    <2> QED BY <2>1, FewRecords DEF Underway
  <1>6. /\ x \in CallRecord /\ x.trace = k.trace /\ x.attempt = k.attempt
        /\ x.text = k.text /\ x.group = Route[k.use].group
    BY <1>1, <1>5, RecordIs
  <1> QED BY <1>1, <1>2, <1>3, <1>4, <1>5, <1>6

\* Stopping a call keeps its records.
LEMMA StopOK ==
    ASSUME NEW k \in Call, CallOK(k), NEW o \in {"ValueError", "CancelledError"}
    PROVE  LET n == Return(k, o) IN
           /\ n \in Call /\ CallOK(n) /\ n.phase = "over"
           /\ n.records = k.records /\ n.trace = k.trace
  <1> DEFINE n == Return(k, o)
  <1>1. /\ n \in Call /\ n.phase = "over" /\ n.outcome = o
        /\ n.records = k.records /\ n.trace = k.trace /\ n.use = k.use /\ n.reported = k.reported
    BY DEF Return, Call
  <1> HIDE DEF n
  <1>2. ~Governed(n) /\ LastResort(n)
    BY <1>1 DEF Governed, LastResort
  <1>3. ForCause(n) /\ Counted(n)
    BY <1>1 DEF CallOK, ForCause, Counted
  <1>4. CallOK(n)
    BY <1>1, <1>2, <1>3 DEF CallOK
  <1> QED BY <1>1, <1>4 DEF n

\* Files, caches and counters keep their types.
LEMMA RestTyped ==
    ASSUME TypeOK, Next \/ UNCHANGED vars
    PROVE  /\ file' \in [Group -> Texts \cup {"missing", "broken"}]
           /\ cache' \in [Group -> Texts \cup {Unread}]
           /\ calls' \in 0..MaxCalls /\ edits' \in 0..MaxEdits
           /\ \A g \in Group : cache[g] # Unread => cache'[g] = cache[g]
           /\ calls <= calls'
  <1>0. /\ file \in [Group -> Texts \cup {"missing", "broken"}]
        /\ cache \in [Group -> Texts \cup {Unread}]
        /\ calls \in 0..MaxCalls /\ edits \in 0..MaxEdits
        /\ MaxCalls \in Nat /\ MaxEdits \in Nat
    BY BoundsAssumption DEF TypeOK
  <1>1. ASSUME NEW c \in Callers, NEW u \in UseCase, NEW structured \in BOOLEAN,
               NEW complete \in BOOLEAN, Invoke(c, u, structured, complete)
        PROVE  /\ UNCHANGED <<file, edits>> /\ calls' = calls + 1 /\ calls < MaxCalls
               /\ cache' \in [Group -> Texts \cup {Unread}]
               /\ \A g \in Group : cache[g] # Unread => cache'[g] = cache[g]
    <2> DEFINE g == Route[u].group
    <2>1. g \in Group
      BY DEF Group
    <2>2. /\ Load(g) \in Texts \cup {"missing", "broken"}
          /\ cache[g] # Unread => Load(g) = cache[g]
      BY <2>1, LoadIs
    <2>3. /\ UNCHANGED <<file, edits>> /\ calls' = calls + 1 /\ calls < MaxCalls
          /\ \/ UNCHANGED cache
             \/ Load(g) \notin {"missing", "broken"} /\ cache' = [cache EXCEPT ![g] = Load(g)]
      BY <1>1 DEF Invoke
    <2> HIDE DEF g
    <2> QED BY <1>0, <2>1, <2>2, <2>3
  <1>2. ASSUME NEW c \in Callers, InvokeUnknown(c)
        PROVE  UNCHANGED <<file, cache, edits>> /\ calls' = calls + 1 /\ calls < MaxCalls
    BY <1>2 DEF InvokeUnknown
  <1>3. ASSUME NEW c \in Callers,
               \/ \E answer \in Answers(call[c].structured) : Finish(c, answer)
               \/ Timeout(c) \/ Unusable(c) \/ Cancel(c)
        PROVE  UNCHANGED <<file, cache, calls, edits>>
    BY <1>3 DEF Finish, Timeout, Unusable, Cancel
  <1>4. ASSUME NEW g \in Group, NEW text \in Texts \cup {"missing", "broken"}, EditPrompt(g, text)
        PROVE  /\ UNCHANGED <<cache, calls>> /\ edits' \in 0..MaxEdits
               /\ file' \in [Group -> Texts \cup {"missing", "broken"}]
    BY <1>0, <1>4 DEF EditPrompt
  <1>5. CASE UNCHANGED vars
    BY <1>0, <1>5 DEF vars
  <1> QED BY <1>0, <1>1, <1>2, <1>3, <1>4, <1>5 DEF Next

-----------------------------------------------------------------------------
(***************************************************************************)
(* The invariant of all callers.                                           *)
(***************************************************************************)

\* Every call keeps its rules.
LEMMA CallsStep ==
    ASSUME CallsInv, TelemetryInv, Next \/ UNCHANGED vars
    PROVE  CallsInv'
  <1>0. /\ TypeOK /\ call \in [Callers -> Call] /\ telemetry \in Seq(CallRecord)
        /\ \A c \in Callers : call[c] \in Call /\ CallOK(call[c])
        /\ \A c \in Callers : call[c].phase = "waiting" => call[c].trace # 0
    BY DEF CallsInv, TelemetryInv, TypeOK
  <1>1. /\ call' \in [Callers -> Call] /\ telemetry' \in Seq(CallRecord)
        /\ \A c \in Callers : CallOK(call'[c])
    <2>1. ASSUME NEW c \in Callers, NEW n, n \in Call, CallOK(n), call' = [call EXCEPT ![c] = n]
          PROVE  call' \in [Callers -> Call] /\ \A d \in Callers : CallOK(call'[d])
      BY <1>0, <2>1
    <2>2. ASSUME NEW c \in Callers, Starts(c)
          PROVE  /\ call' \in [Callers -> Call] /\ telemetry' \in Seq(CallRecord)
                 /\ \A d \in Callers : CallOK(call'[d])
      <3>1. PICK n : Fresh(n) /\ call' = [call EXCEPT ![c] = n]
        BY <2>2 DEF Starts
      <3>2. n \in Call /\ CallOK(n)
        BY <3>1, FreshOK DEF Fresh
      <3> QED BY <1>0, <2>1, <2>2, <3>1, <3>2 DEF Starts
    <2>3. ASSUME NEW c \in Callers, Answered(c)
          PROVE  /\ call' \in [Callers -> Call] /\ telemetry' \in Seq(CallRecord)
                 /\ \A d \in Callers : CallOK(call'[d])
      <3>1. PICK answer \in Answer(call[c]) :
               /\ telemetry' = Append(telemetry, Record(call[c], answer))
               /\ call' = [call EXCEPT ![c] =
                     Continue(Told(call[c], answer), Record(call[c], answer).status)]
        BY <2>3 DEF Answered
      <3>2. PICK k \in Call : k = call[c] /\ CallOK(k) /\ k.phase = "waiting" /\ k.trace # 0
        BY <1>0, <2>3 DEF Answered
      <3>3. answer \in Answer(k)
        BY <3>2
      <3>4. PICK x, n : /\ x = Record(k, answer) /\ n = Continue(Told(k, answer), x.status)
                        /\ n \in Call /\ CallOK(n) /\ x \in CallRecord
        BY <3>2, <3>3, AnsweredOK
      <3>5. telemetry' = Append(telemetry, x) /\ call' = [call EXCEPT ![c] = n]
        BY <3>1, <3>2, <3>4
      <3> QED BY <1>0, <2>1, <3>4, <3>5, AppendIs
    <2>4. ASSUME NEW c \in Callers, Stops(c)
          PROVE  /\ call' \in [Callers -> Call] /\ telemetry' \in Seq(CallRecord)
                 /\ \A d \in Callers : CallOK(call'[d])
      <3>1. PICK o \in {"ValueError", "CancelledError"} :
               call' = [call EXCEPT ![c] = Return(call[c], o)]
        BY <2>4 DEF Stops
      <3>2. Return(call[c], o) \in Call /\ CallOK(Return(call[c], o))
        BY <1>0, StopOK
      <3> QED BY <1>0, <2>1, <2>4, <3>1, <3>2 DEF Stops
    <2> QED BY <1>0, <2>2, <2>3, <2>4, StepKinds
  <1> QED BY <1>0, <1>1, RestTyped DEF CallsInv, TypeOK

\* A record more belongs to the call it is written for.
LEMMA SharesGrows ==
    ASSUME NEW t \in Seq(CallRecord), NEW x \in CallRecord, NEW k \in Call, NEW n \in Call,
           CallOK(k), Shares(k, t), x.trace = k.trace, x.attempt = Len(k.records) + 1,
           n.records = Append(k.records, x), n.trace = k.trace
    PROVE  Shares(n, Append(t, x))
  <1> DEFINE l == Len(t)
             u == Append(t, x)
             R == k.records
             S == n.records
  <1>1. /\ l \in Nat /\ DOMAIN t = 1..l /\ DOMAIN u = 1..(l + 1) /\ u[l + 1] = x
        /\ \A j \in 1..l : u[j] = t[j]
    BY AppendIs
  <1>2. /\ R \in Seq(CallRecord) /\ Len(R) \in Nat /\ DOMAIN R = 1..Len(R)
        /\ DOMAIN S = 1..(Len(R) + 1) /\ S[Len(R) + 1] = x
        /\ \A i \in 1..Len(R) : S[i] = R[i] /\ R[i].attempt = i
    <2>1. R \in Seq(CallRecord)
      BY DEF Call
    <2> QED BY <2>1, AppendIs DEF CallOK
  <1> HIDE DEF l, u, R, S
  <1>3. /\ {t[j] : j \in {j \in 1..l : t[j].trace = k.trace}} = {R[i] : i \in 1..Len(R)}
        /\ \A j1, j2 \in {j \in 1..l : t[j].trace = k.trace} :
              j1 < j2 => t[j1].attempt < t[j2].attempt
    BY <1>1, <1>2 DEF Shares, R
  <1>4. \A j \in 1..(l + 1) : j \in 1..l \/ j = l + 1
    BY <1>1
  <1>5. {u[j] : j \in {j \in 1..(l + 1) : u[j].trace = k.trace}} = {S[i] : i \in 1..(Len(R) + 1)}
    <2>1. ASSUME NEW j \in 1..(l + 1), u[j].trace = k.trace
          PROVE  \E i \in 1..(Len(R) + 1) : u[j] = S[i]
      <3>1. CASE j \in 1..l
        <4>1. PICK i \in 1..Len(R) : t[j] = R[i]
          BY <1>1, <1>3, <2>1, <3>1
        <4> QED BY <1>1, <1>2, <3>1, <4>1
      <3>2. CASE j = l + 1
        BY <1>1, <1>2, <3>2
      <3> QED BY <1>4, <3>1, <3>2
    <2>2. ASSUME NEW i \in 1..(Len(R) + 1)
          PROVE  \E j \in 1..(l + 1) : u[j].trace = k.trace /\ u[j] = S[i]
      <3>1. CASE i \in 1..Len(R)
        <4>1. PICK j \in 1..l : t[j].trace = k.trace /\ t[j] = R[i]
          BY <1>3, <3>1
        <4>2. j \in 1..(l + 1)
          BY <1>1
        <4> QED BY <1>1, <1>2, <3>1, <4>1, <4>2
      <3>2. CASE i = Len(R) + 1
        <4>1. l + 1 \in 1..(l + 1)
          BY <1>1
        <4> QED BY <1>1, <1>2, <3>2, <4>1
      <3> QED BY <1>2, <3>1, <3>2
    <2>3. ASSUME NEW y
          PROVE  (\E j \in 1..(l + 1) : u[j].trace = k.trace /\ y = u[j])
                   <=> \E i \in 1..(Len(R) + 1) : y = S[i]
      BY <2>1, <2>2
    <2>4. ASSUME NEW y
          PROVE  /\ y \in {u[j] : j \in {j \in 1..(l + 1) : u[j].trace = k.trace}}
                       <=> \E j \in 1..(l + 1) : u[j].trace = k.trace /\ y = u[j]
                 /\ y \in {S[i] : i \in 1..(Len(R) + 1)} <=> \E i \in 1..(Len(R) + 1) : y = S[i]
      OBVIOUS
    <2> QED BY <2>3, <2>4
  <1>6. ASSUME NEW j1 \in 1..(l + 1), NEW j2 \in 1..(l + 1), j1 < j2,
               u[j1].trace = k.trace, u[j2].trace = k.trace
        PROVE  u[j1].attempt < u[j2].attempt
    <2>1. j1 \in 1..l
      BY <1>1, <1>6
    <2>2. CASE j2 \in 1..l
      BY <1>1, <1>3, <1>6, <2>1, <2>2
    <2>3. CASE j2 = l + 1
      <3>1. PICK i \in 1..Len(R) : t[j1] = R[i]
        BY <1>1, <1>3, <1>6, <2>1
      <3>2. u[j1].attempt = i /\ u[j2].attempt = Len(R) + 1
        BY <1>1, <1>2, <2>1, <2>3, <3>1 DEF R
      <3> QED BY <1>2, <3>2
    <2> QED BY <1>4, <2>2, <2>3
  <1>7. {j \in DOMAIN u : u[j].trace = n.trace} = {j \in 1..(l + 1) : u[j].trace = k.trace}
    BY <1>1
  <1>8. {u[j] : j \in {j \in DOMAIN u : u[j].trace = n.trace}} = {S[i] : i \in DOMAIN S}
    BY <1>2, <1>5, <1>7
  <1>9. \A j1, j2 \in {j \in DOMAIN u : u[j].trace = n.trace} :
           j1 < j2 => u[j1].attempt < u[j2].attempt
    BY <1>6, <1>7
  <1> QED BY <1>8, <1>9 DEF Shares, u, S

\* The other calls do not see it.
LEMMA SharesKept ==
    ASSUME NEW t \in Seq(CallRecord), NEW x \in CallRecord, NEW k \in Call,
           Shares(k, t), x.trace # k.trace
    PROVE  Shares(k, Append(t, x))
  <1> DEFINE u == Append(t, x)
  <1>1. /\ Len(t) \in Nat /\ DOMAIN t = 1..Len(t) /\ DOMAIN u = 1..(Len(t) + 1)
        /\ u[Len(t) + 1] = x /\ \A j \in DOMAIN t : u[j] = t[j]
        /\ DOMAIN u = DOMAIN t \cup {Len(t) + 1}
    BY AppendIs
  <1> HIDE DEF u
  <1>2. {j \in DOMAIN u : u[j].trace = k.trace} = {j \in DOMAIN t : t[j].trace = k.trace}
    BY <1>1
  <1>3. \A j \in {j \in DOMAIN t : t[j].trace = k.trace} : u[j] = t[j]
    BY <1>1
  <1>4. {u[j] : j \in {j \in DOMAIN u : u[j].trace = k.trace}}
           = {t[j] : j \in {j \in DOMAIN t : t[j].trace = k.trace}}
    BY <1>2, <1>3
  <1> QED BY <1>2, <1>3, <1>4 DEF Shares, u

\* Only the trace and the records of a call matter.
LEMMA SharesSame ==
    ASSUME NEW t, NEW k, NEW n, Shares(k, t), n.trace = k.trace, n.records = k.records
    PROVE  Shares(n, t)
  BY DEF Shares

\* What the types say.
LEMMA Typed ==
    ASSUME CallsInv
    PROVE  /\ TypeOK /\ call \in [Callers -> Call] /\ telemetry \in Seq(CallRecord)
           /\ \A c \in Callers : /\ call[c] \in Call /\ CallOK(call[c])
                                 /\ call[c].trace \in Nat /\ call[c].use \in UseCase
           /\ calls \in Nat
           /\ \A j \in DOMAIN telemetry :
                 /\ telemetry[j] \in CallRecord /\ telemetry[j].trace \in Nat
                 /\ telemetry[j].text \in Texts /\ telemetry[j].group \in Group
  <1>1. /\ TypeOK /\ call \in [Callers -> Call] /\ telemetry \in Seq(CallRecord)
        /\ \A c \in Callers : CallOK(call[c])
        /\ calls \in 0..MaxCalls /\ MaxCalls \in Nat
    BY BoundsAssumption DEF CallsInv, TypeOK
  <1>2. \A k \in Call : k.trace \in Nat /\ k.use \in UseCase
    BY <1>1 DEF Call
  <1>3. \A r \in CallRecord : r.trace \in Nat /\ r.text \in Texts /\ r.group \in Group
    BY <1>1 DEF CallRecord
  <1>4. \A j \in DOMAIN telemetry : telemetry[j] \in CallRecord
    BY <1>1
  <1> QED BY <1>1, <1>2, <1>3, <1>4

\* The telemetry is shared without loss or mixture.
LEMMA TelemetryStep ==
    ASSUME CallsInv, TelemetryInv, Next \/ UNCHANGED vars
    PROVE  TelemetryInv'
  <1>0. /\ TypeOK /\ call \in [Callers -> Call] /\ telemetry \in Seq(CallRecord)
        /\ \A c \in Callers : call[c] \in Call /\ CallOK(call[c]) /\ call[c].trace \in Nat
        /\ calls \in Nat
        /\ \A j \in DOMAIN telemetry : telemetry[j] \in CallRecord /\ telemetry[j].trace \in Nat
    BY Typed
  <1>1. /\ \A c \in Callers : Shares(call[c], telemetry) /\ call[c].trace <= calls
        /\ \A c \in Callers : call[c].phase = "waiting" => call[c].trace # 0
        /\ \A c, d \in Callers : call[c].trace = call[d].trace => c = d \/ call[c].trace = 0
        /\ \A j \in DOMAIN telemetry : telemetry[j].trace <= calls
    BY DEF TelemetryInv
  <1>2. ASSUME NEW c \in Callers, Starts(c)
        PROVE  TelemetryInv'
    <2>1. PICK n : Fresh(n) /\ n.trace = calls + 1 /\ call' = [call EXCEPT ![c] = n]
      BY <1>2 DEF Starts
    <2>2. telemetry' = telemetry /\ calls' = calls + 1
      BY <1>2 DEF Starts
    <2>3. Shares(n, telemetry)
      <3>1. {j \in DOMAIN telemetry : telemetry[j].trace = n.trace} = {}
        BY <1>0, <1>1, <2>1
      <3>2. DOMAIN n.records = {}
        BY <2>1 DEF Fresh
      <3> QED BY <3>1, <3>2 DEF Shares
    <2>4. /\ call'[c] = n /\ \A d \in Callers : d # c => call'[d] = call[d]
      BY <1>0, <2>1
    <2>5. \A d \in Callers : Shares(call'[d], telemetry)
      BY <1>1, <2>3, <2>4
    <2>6. \A d \in Callers : call'[d].trace <= calls + 1
                             /\ (call'[d].phase = "waiting" => call'[d].trace # 0)
      BY <1>0, <1>1, <2>1, <2>4
    <2>7. \A d, e \in Callers : call'[d].trace = call'[e].trace => d = e \/ call'[d].trace = 0
      BY <1>0, <1>1, <2>1, <2>4
    <2>8. \A j \in DOMAIN telemetry : telemetry[j].trace <= calls + 1
      BY <1>0, <1>1
    <2> QED BY <2>2, <2>5, <2>6, <2>7, <2>8 DEF TelemetryInv
  <1>3. ASSUME NEW c \in Callers, Answered(c)
        PROVE  TelemetryInv'
    <2>1. PICK answer \in Answer(call[c]) :
             /\ telemetry' = Append(telemetry, Record(call[c], answer))
             /\ call' = [call EXCEPT ![c] =
                   Continue(Told(call[c], answer), Record(call[c], answer).status)]
      BY <1>3 DEF Answered
    <2>2. PICK k \in Call : k = call[c] /\ CallOK(k) /\ k.phase = "waiting" /\ k.trace # 0
      BY <1>0, <1>1, <1>3 DEF Answered
    <2>3. answer \in Answer(k)
      BY <2>2
    <2>4. PICK x, n : /\ x = Record(k, answer) /\ n = Continue(Told(k, answer), x.status)
                      /\ n \in Call /\ CallOK(n) /\ x \in CallRecord
                      /\ n.records = Append(k.records, x) /\ n.trace = k.trace
                      /\ x.trace = k.trace /\ x.attempt = Len(k.records) + 1
      BY <2>2, <2>3, AnsweredOK
    <2>5. telemetry' = Append(telemetry, x) /\ call' = [call EXCEPT ![c] = n] /\ calls' = calls
      BY <1>3, <2>1, <2>2, <2>4 DEF Answered
    <2>6. /\ call'[c] = n /\ \A d \in Callers : d # c => call'[d] = call[d]
      BY <1>0, <2>5
    <2>7. Shares(n, Append(telemetry, x))
      <3>1. Shares(k, telemetry)
        BY <1>1, <2>2
      <3> QED BY <1>0, <2>2, <2>4, <3>1, SharesGrows
    <2>8. \A d \in Callers : Shares(call'[d], telemetry')
      <3> SUFFICES ASSUME NEW d \in Callers, d # c
                   PROVE  Shares(call[d], Append(telemetry, x))
        BY <2>5, <2>6, <2>7
      <3>1. PICK e \in Call : e = call[d]
        BY <1>0
      <3>2. Shares(e, telemetry) /\ x.trace # e.trace
        BY <1>1, <2>2, <2>4, <3>1
      <3> QED BY <1>0, <2>4, <3>1, <3>2, SharesKept
    <2>9. \A d \in Callers : call'[d].trace = call[d].trace
      BY <2>2, <2>4, <2>6
    <2>10. \A d \in Callers : call'[d].phase = "waiting" => call'[d].trace # 0
      BY <1>1, <2>2, <2>4, <2>6
    <2>11. \A j \in DOMAIN telemetry' : telemetry'[j].trace <= calls
      <3>1. x.trace <= calls
        BY <1>1, <2>2, <2>4
      <3>2. \A j \in DOMAIN telemetry' :
               \/ j \in DOMAIN telemetry /\ telemetry'[j] = telemetry[j]
               \/ telemetry'[j] = x
        BY <1>0, <2>4, <2>5, AppendIs
      <3> QED BY <1>1, <3>1, <3>2
    <2> QED BY <1>1, <2>5, <2>8, <2>9, <2>10, <2>11 DEF TelemetryInv
  <1>4. ASSUME NEW c \in Callers, Stops(c)
        PROVE  TelemetryInv'
    <2>1. PICK o \in {"ValueError", "CancelledError"} :
             call' = [call EXCEPT ![c] = Return(call[c], o)]
      BY <1>4 DEF Stops
    <2>2. PICK n : /\ n = Return(call[c], o) /\ n.phase = "over"
                   /\ n.records = call[c].records /\ n.trace = call[c].trace
      BY <1>0, StopOK
    <2>3. /\ call'[c] = n /\ \A d \in Callers : d # c => call'[d] = call[d]
      BY <1>0, <2>1, <2>2
    <2>4. \A d \in Callers : call'[d].trace = call[d].trace /\ call'[d].records = call[d].records
      BY <2>2, <2>3
    <2>5. telemetry' = telemetry /\ calls' = calls
      BY <1>4 DEF Stops
    <2>6. \A d \in Callers : Shares(call'[d], telemetry)
      BY <1>1, <2>4, SharesSame
    <2>7. \A d \in Callers : call'[d].phase = "waiting" => call'[d].trace # 0
      BY <1>1, <2>2, <2>3
    <2> QED BY <1>1, <2>4, <2>5, <2>6, <2>7 DEF TelemetryInv
  <1>5. ASSUME UNCHANGED <<call, telemetry, calls>>
        PROVE  TelemetryInv'
    BY <1>1, <1>5 DEF TelemetryInv
  <1> QED BY <1>0, <1>2, <1>3, <1>4, <1>5, StepKinds

\* The cache holds what was sent.
LEMMA PromptStep ==
    ASSUME CallsInv, TelemetryInv, PromptInv, Next \/ UNCHANGED vars
    PROVE  PromptInv'
  <1>0. /\ TypeOK /\ call \in [Callers -> Call] /\ telemetry \in Seq(CallRecord)
        /\ \A c \in Callers : call[c] \in Call /\ CallOK(call[c]) /\ call[c].use \in UseCase
        /\ \A j \in DOMAIN telemetry : telemetry[j].text \in Texts /\ telemetry[j].group \in Group
        /\ \A c \in Callers : call[c].phase = "waiting" => call[c].trace # 0
    BY Typed DEF TelemetryInv
  <1>u. Unread \notin Texts
    BY TextAssumption DEF Unread
  <1>1. /\ \A c \in Callers : call[c].phase = "waiting" =>
              cache[Route[call[c].use].group] = call[c].text
        /\ \A j \in DOMAIN telemetry : cache[telemetry[j].group] = telemetry[j].text
    BY DEF PromptInv
  <1>2. \A g \in Group : cache[g] # Unread => cache'[g] = cache[g]
    BY <1>0, RestTyped
  <1>3. \A c \in Callers : call[c].phase = "waiting" => call[c].text \in Texts
    BY <1>0 DEF CallOK, Underway
  <1>4. \A u \in UseCase : Route[u].group \in Group
    BY DEF Group
  <1>5. /\ \A c \in Callers : call[c].phase = "waiting" =>
              cache'[Route[call[c].use].group] = call[c].text
        /\ \A j \in DOMAIN telemetry : cache'[telemetry[j].group] = telemetry[j].text
    BY <1>0, <1>u, <1>1, <1>2, <1>3, <1>4
  <1>6. ASSUME NEW c \in Callers, NEW n, call' = [call EXCEPT ![c] = n], telemetry' = telemetry,
               n.phase = "waiting" => cache'[Route[n.use].group] = n.text
        PROVE  PromptInv'
    <2>1. call'[c] = n /\ \A d \in Callers : d # c => call'[d] = call[d]
      BY <1>0, <1>6
    <2> QED BY <1>5, <1>6, <2>1 DEF PromptInv
  <1>7. ASSUME NEW c \in Callers, NEW error, Reject(c, error), telemetry' = telemetry
        PROVE  PromptInv'
    <2>1. PICK n : n = [Idle EXCEPT !.trace = calls + 1, !.outcome = error]
      OBVIOUS
    <2>2. n.phase = "over"
      BY <2>1, IdleIs DEF Call
    <2>3. call' = [call EXCEPT ![c] = n]
      BY <1>7, <2>1 DEF Reject
    <2> QED BY <1>6, <1>7, <2>2, <2>3
  <1>8. ASSUME NEW c \in Callers, NEW u \in UseCase, NEW structured \in BOOLEAN,
               NEW complete \in BOOLEAN, Invoke(c, u, structured, complete)
        PROVE  PromptInv'
    <2> DEFINE g == Route[u].group
    <2>1. /\ telemetry' = telemetry
          /\ \/ \E error : Reject(c, error)
             \/ /\ cache' = [cache EXCEPT ![g] = Load(g)]
                /\ call' = [call EXCEPT ![c] =
                        [Idle EXCEPT !.phase = "waiting", !.trace = calls + 1, !.use = u,
                                     !.structured = structured, !.attempt = 1, !.text = Load(g)]]
      BY <1>8 DEF Invoke
    <2>2. ASSUME cache' = [cache EXCEPT ![g] = Load(g)],
                 call' = [call EXCEPT ![c] =
                        [Idle EXCEPT !.phase = "waiting", !.trace = calls + 1, !.use = u,
                                     !.structured = structured, !.attempt = 1, !.text = Load(g)]]
          PROVE  PromptInv'
      <3>1. PICK n : n = [Idle EXCEPT !.phase = "waiting", !.trace = calls + 1, !.use = u,
                                      !.structured = structured, !.attempt = 1, !.text = Load(g)]
        OBVIOUS
      <3>2. n.use = u /\ n.text = Load(g)
        BY <3>1, IdleIs DEF Call
      <3>3. call' = [call EXCEPT ![c] = n]
        BY <2>2, <3>1
      <3>4. cache'[g] = Load(g)
        BY <1>0, <1>4, <2>2 DEF TypeOK
      <3> QED BY <1>6, <2>1, <3>2, <3>3, <3>4
    <2> QED BY <1>7, <2>1, <2>2
  <1>9. ASSUME NEW c \in Callers, InvokeUnknown(c)
        PROVE  PromptInv'
    BY <1>7, <1>9 DEF InvokeUnknown
  <1>10. ASSUME NEW c \in Callers, Answered(c)
         PROVE  PromptInv'
    <2>1. PICK answer \in Answer(call[c]) :
             /\ telemetry' = Append(telemetry, Record(call[c], answer))
             /\ call' = [call EXCEPT ![c] =
                   Continue(Told(call[c], answer), Record(call[c], answer).status)]
      BY <1>10 DEF Answered
    <2>2. PICK k \in Call : k = call[c] /\ CallOK(k) /\ k.phase = "waiting" /\ k.trace # 0
      BY <1>0, <1>10 DEF Answered
    <2>3. answer \in Answer(k)
      BY <2>2
    <2>4. PICK x, n : /\ x = Record(k, answer) /\ n = Continue(Told(k, answer), x.status)
                      /\ n \in Call /\ x \in CallRecord
                      /\ n.use = k.use /\ n.text = k.text
                      /\ x.text = k.text /\ x.group = Route[k.use].group
      BY <2>2, <2>3, AnsweredOK
    <2>5. telemetry' = Append(telemetry, x) /\ call' = [call EXCEPT ![c] = n]
      BY <2>1, <2>2, <2>4
    <2>6. call'[c] = n /\ \A d \in Callers : d # c => call'[d] = call[d]
      BY <1>0, <2>5
    <2>7. cache'[Route[k.use].group] = k.text
      BY <1>5, <2>2
    <2>8. \A j \in DOMAIN telemetry' :
           \/ j \in DOMAIN telemetry /\ telemetry'[j] = telemetry[j]
           \/ telemetry'[j] = x
      BY <1>0, <2>4, <2>5, AppendIs
    <2>9. \A j \in DOMAIN telemetry' : cache'[telemetry'[j].group] = telemetry'[j].text
      BY <1>5, <2>4, <2>7, <2>8
    <2>10. \A d \in Callers : call'[d].phase = "waiting" =>
              cache'[Route[call'[d].use].group] = call'[d].text
      BY <1>5, <2>4, <2>6, <2>7
    <2> QED BY <2>9, <2>10 DEF PromptInv
  <1>12. ASSUME UNCHANGED <<call, telemetry>>
         PROVE  PromptInv'
    BY <1>5, <1>12 DEF PromptInv
  <1>13. ASSUME NEW c \in Callers, NEW answer \in Answer(call[c]), Finish(c, answer)
         PROVE  PromptInv'
    <2>1. Answered(c)
      BY <1>13 DEF Finish, Answered, Told
    <2> QED BY <1>10, <2>1
  <1>14. ASSUME NEW c \in Callers, Unusable(c) \/ Cancel(c)
         PROVE  PromptInv'
    <2>1. /\ telemetry' = telemetry
          /\ \E o \in {"ValueError", "CancelledError"} :
                call' = [call EXCEPT ![c] = Return(call[c], o)]
      <3>1. CASE Unusable(c)
        BY <1>0, <3>1 DEF Unusable
      <3>2. CASE Cancel(c)
        BY <1>0, <3>2 DEF Cancel
      <3> QED BY <1>14, <3>1, <3>2
    <2>2. PICK o \in {"ValueError", "CancelledError"} :
             call' = [call EXCEPT ![c] = Return(call[c], o)]
      BY <2>1
    <2>3. Return(call[c], o).phase = "over"
      BY <1>0, StopOK
    <2> QED BY <1>6, <2>1, <2>2, <2>3
  <1>15. ASSUME \/ UNCHANGED vars
                \/ \E g \in Group, text \in Texts \cup {"missing", "broken"} : EditPrompt(g, text)
         PROVE  PromptInv'
    BY <1>12, <1>15 DEF EditPrompt, vars
  <1> QED BY <1>8, <1>9, <1>13, <1>14, <1>15 DEF Next, Timeout, Answer

\* A run starts inside the invariant.
LEMMA InitGateway == Init => GatewayInv
  <1> SUFFICES ASSUME Init
               PROVE  GatewayInv
    OBVIOUS
  <1>1. /\ \A c \in Callers : call[c] = Idle
        /\ telemetry = <<>> /\ calls = 0 /\ call \in [Callers -> Call]
    BY IdleIs DEF Init
  <1>2. Fresh(Idle)
    BY IdleIs DEF Fresh, Governed
  <1>3. CallOK(Idle)
    BY <1>2, FreshOK
  <1>4. TypeOK
    <2>1. /\ file \in [Group -> Texts \cup {"missing", "broken"}]
          /\ cache \in [Group -> Texts \cup {Unread}] /\ edits = 0
      BY DEF Init
    <2>2. telemetry \in Seq(CallRecord)
      BY <1>1
    <2> QED BY <1>1, <2>1, <2>2, BoundsAssumption DEF TypeOK
  <1>5. Shares(Idle, <<>>)
    <2>1. DOMAIN <<>> = {} /\ DOMAIN Idle.records = {}
      BY IdleIs
    <2> QED BY <2>1 DEF Shares
  <1>6. TelemetryInv
    BY <1>1, <1>5, IdleIs DEF TelemetryInv
  <1>7. PromptInv
    BY <1>1, IdleIs DEF PromptInv
  <1> QED BY <1>1, <1>3, <1>4, <1>6, <1>7 DEF GatewayInv, CallsInv

\* Every step stays inside it.
LEMMA NextGateway == GatewayInv /\ [Next]_vars => GatewayInv'
  BY CallsStep, TelemetryStep, PromptStep DEF GatewayInv

\* GatewayInv holds of every gateway, however its callers interleave.
THEOREM Invariant == Spec => []GatewayInv
  <1> QED BY InitGateway, NextGateway, PTL DEF Spec

\* The telemetry all callers share has the attempts of each call once, in
\* order and numbered from 1, and a call the gateway ended itself has one for
\* every attempt, with all the tokens they cost.
THEOREM Complete == Spec => []RecordsAreComplete
  <1>1. GatewayInv => RecordsAreComplete
    <2> SUFFICES ASSUME GatewayInv
                 PROVE  RecordsAreComplete
      OBVIOUS
    <2>1. TypeOK /\ \A c \in Callers : CallOK(call[c]) /\ Shares(call[c], telemetry)
      BY DEF GatewayInv, CallsInv, TelemetryInv
    <2>2. ASSUME NEW k, CallOK(k), Shares(k, telemetry)
          PROVE  Recorded(k, telemetry) /\ Accounted(k)
      BY <2>2 DEF CallOK, Shares, Recorded, Accounted, Counted
    <2> QED BY <2>1, <2>2 DEF RecordsAreComplete
  <1> QED BY <1>1, Invariant, PTL

\* A call tries again only for cause and as long as its route allows, and
\* LLMInvocationError is its last resort.
THEOREM Due == Spec => []AttemptsAreDue
  <1>1. GatewayInv => AttemptsAreDue
    BY DEF GatewayInv, CallsInv, CallOK, AttemptsAreDue
  <1> QED BY <1>1, Invariant, PTL

\* Whatever happens to the prompt files while the process runs, all attempts
\* of a group are made with the text that was read first.
THEOREM Pinned == Spec => []PromptIsPinned
  <1>1. GatewayInv => PromptIsPinned
    BY DEF GatewayInv, PromptInv, PromptIsPinned
  <1> QED BY <1>1, Invariant, PTL
=============================================================================
