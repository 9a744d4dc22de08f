------------------------ MODULE ProfileSessions_proofs ------------------------
(***************************************************************************)
(* Proofs about ProfileSessions: coroutines, sessions and cache entries    *)
(* hold the profile of their own customer only, a session keeps its owner  *)
(* and its conversation, and projections are fresh unless a turn           *)
(* overlapped an invalidation.                                             *)
(***************************************************************************)
EXTENDS ProfileSessions, SequenceTheorems, TLAPS

-----------------------------------------------------------------------------
(***************************************************************************)
(* The inductive invariant.  It says of each coroutine, each session and   *)
(* each cache entry what it may hold.  The customers whose projections are *)
(* settled have no event waiting and no turn that overlapped one: for them *)
(* also what a coroutine has read and not yet stored is up to date, which  *)
(* is what the next step needs when it stores it.                          *)
(***************************************************************************)
Coroutine == [step : Step, kind : Kind, session : Session \cup {"none"},
              customer : Customer \cup {"none"}, refresh : BOOLEAN,
              profile : Profile, turns : Seq(TurnId)]

Built == [customer : Customer, version : 1 .. MaxVersion, histories : 0 .. MaxVersion]

Settled(c) == due[c] = 0 /\ c \notin overlapped

GoodProfile(p, c) ==
    /\ p \in Profile /\ p.customer \in {"none", c}
    /\ c \in Customer /\ Settled(c) => UpToDate(p, c)

GoodTurn(k, t) ==
    /\ k \in Coroutine /\ GoodProfile(k.profile, k.customer)
    /\ k # Idle => /\ k.session \in Session \ fresh /\ k.customer \in Customer
                   /\ runs[t] \in 1 .. MaxRuns
                   /\ k.step \in {"histories", "publish"} => k.profile \in Built

GoodContext(x, s) ==
    /\ x \in Context /\ Len(x.turns) <= MaxTurns /\ GoodProfile(x.profile, x.owner)
    /\ s \in fresh => x = NoContext

VersionsOK ==
    /\ version \in [Customer -> 1 .. MaxVersion] /\ due \in [Customer -> Nat]
    /\ fresh \subseteq Session /\ closed \subseteq Session /\ overlapped \subseteq Customer
    /\ runs \in [Turn -> 0 .. MaxRuns]
TurnsOK == DOMAIN turn = Turn /\ \A t \in Turn : GoodTurn(turn[t], t)
ContextsOK == DOMAIN contexts = Session /\ \A s \in Session : GoodContext(contexts[s], s)
CacheOK == /\ cache = [k \in Session \X Customer |-> cache[k]]
           /\ \A s \in Session, c \in Customer : GoodProfile(cache[<<s, c>>], c)

IInv == VersionsOK /\ TurnsOK /\ ContextsOK /\ CacheOK

-----------------------------------------------------------------------------
(* Lemmas about the data.                                                  *)

\* An empty profile is every customer's.
LEMMA NoProfileGood ==
    ASSUME NEW c
    PROVE  GoodProfile(NoProfile, c)
  BY DEF GoodProfile, NoProfile, Profile, UpToDate

\* And so it is after any step.
LEMMA NoProfileGoodAfter ==
    ASSUME NEW c
    PROVE  GoodProfile(NoProfile, c)'
  BY DEF GoodProfile, NoProfile, Profile, UpToDate

\* A coroutine that rests.
LEMMA IdleGood ==
    ASSUME NEW t
    PROVE  GoodTurn(Idle, t)
  <1>1. <<>> \in Seq(TurnId)
    OBVIOUS
  <1>2. Idle \in Coroutine
    BY <1>1 DEF Idle, Coroutine, Step, Kind, Profile, NoProfile
  <1>3. Idle.profile = NoProfile
    BY DEF Idle
  <1> QED BY <1>2, <1>3, NoProfileGood DEF GoodTurn

\* A coroutine that rests after the step.
LEMMA IdleGoodAfter ==
    ASSUME NEW t
    PROVE  GoodTurn(Idle, t)'
  <1>1. <<>> \in Seq(TurnId)
    OBVIOUS
  <1>2. Idle \in Coroutine
    BY <1>1 DEF Idle, Coroutine, Step, Kind, Profile, NoProfile
  <1>3. Idle.profile = NoProfile
    BY DEF Idle
  <1> QED BY <1>2, <1>3, NoProfileGoodAfter DEF GoodTurn

\* A session that does not exist holds nothing.
LEMMA NoContextGood ==
    ASSUME NEW s
    PROVE  /\ NoContext \in Context /\ NoContext.profile = NoProfile
           /\ NoContext.turns = <<>> /\ Len(NoContext.turns) = 0
           /\ GoodContext(NoContext, s) /\ GoodContext(NoContext, s)'
  <1>1. /\ NoContext \in Context /\ NoContext.profile = NoProfile
        /\ NoContext.turns = <<>> /\ Len(NoContext.turns) = 0
    BY DEF NoContext, Context
  <1>2. 0 <= MaxTurns
    BY BoundAssumption
  <1> QED BY <1>1, <1>2, NoProfileGood, NoProfileGoodAfter DEF GoodContext

\* What any session holds is a profile and a conversation.
LEMMA ContextParts ==
    ASSUME NEW x \in Context
    PROVE  x.profile \in Profile /\ x.turns \in Seq(TurnId)
  <1>1. CASE x = NoContext
    <2>1. NoProfile \in Profile
      BY DEF Profile
    <2>2. <<>> \in Seq(TurnId)
      OBVIOUS
    <2> QED BY <1>1, <2>1, <2>2, NoContextGood
  <1>2. CASE x # NoContext
    BY <1>2 DEF Context
  <1> QED BY <1>1, <1>2

\* A conversation is cut to its last MaxTurns turns.
LEMMA LastTurnsBounded ==
    ASSUME NEW q \in Seq(TurnId)
    PROVE  LastTurns(q) \in Seq(TurnId) /\ Len(LastTurns(q)) <= MaxTurns
  <1> DEFINE n == Len(q)
             m == IF n > MaxTurns THEN n - MaxTurns + 1 ELSE 1
  <1>1. n \in Nat /\ MaxTurns \in Nat \ {0}
    BY BoundAssumption
  <1>2. LastTurns(q) = SubSeq(q, m, n)
    BY DEF LastTurns
  <1>3. m \in 1 .. n + 1 /\ n - m + 1 <= MaxTurns
    BY <1>1
  <1>4. \A i \in m .. n : q[i] \in TurnId
    BY <1>1, <1>3, ElementOfSeq
  <1>5. /\ SubSeq(q, m, n) \in Seq(TurnId)
        /\ Len(SubSeq(q, m, n)) = IF m <= n THEN n - m + 1 ELSE 0
    BY <1>1, <1>3, <1>4, SubSeqProperties
  <1> HIDE DEF n, m
  <1> QED BY <1>1, <1>2, <1>3, <1>5

\* Init
LEMMA InitIInv == Init => IInv
  <1> SUFFICES ASSUME Init PROVE IInv
    OBVIOUS
  <1>1. VersionsOK
    BY BoundAssumption DEF Init, VersionsOK
  <1>2. TurnsOK
    BY IdleGood DEF Init, TurnsOK
  <1>3. ContextsOK
    BY NoContextGood DEF Init, ContextsOK
  <1>4. CacheOK
    BY NoProfileGood DEF Init, CacheOK
  <1> QED BY <1>1, <1>2, <1>3, <1>4 DEF IInv

-----------------------------------------------------------------------------
(***************************************************************************)
(* Steps that change nothing but one coroutine, one session, or the cache. *)
(***************************************************************************)
\* What is good stays good while versions, events and the coroutine's run
\* number stand, and no session id becomes fresh.
Stands ==
    /\ UNCHANGED <<version, due, overlapped>>
    /\ fresh' \subseteq fresh

\* A profile stays good.
LEMMA ProfileStands ==
    ASSUME Stands, NEW p, NEW c, GoodProfile(p, c)
    PROVE  GoodProfile(p, c)'
  BY DEF Stands, GoodProfile, Settled, UpToDate

\* A session stays good.
LEMMA ContextStands ==
    ASSUME Stands, NEW x, NEW s, GoodContext(x, s)
    PROVE  GoodContext(x, s)'
  BY ProfileStands DEF Stands, GoodContext

\* All sessions stay good if one becomes another good one.
LEMMA ContextStored ==
    ASSUME IInv, Stands, NEW s \in Session, NEW x, contexts' = [contexts EXCEPT ![s] = x],
           GoodContext(x, s)'
    PROVE  ContextsOK'
  <1>1. DOMAIN contexts' = Session
    BY DEF IInv, ContextsOK
  <1>2. ASSUME NEW r \in Session
        PROVE  GoodContext(contexts[r], r)'
    <2>1. CASE r = s
      BY <2>1 DEF IInv, ContextsOK
    <2>2. CASE r # s
      BY <2>2, ContextStands DEF IInv, ContextsOK
    <2> QED BY <2>1, <2>2
  <1> QED BY <1>1, <1>2 DEF ContextsOK

\* Sessions that are left alone stay good.
LEMMA ContextsStand ==
    ASSUME IInv, Stands, UNCHANGED contexts
    PROVE  ContextsOK'
  BY ContextStands DEF IInv, ContextsOK

\* A cache that loses entries, or none, stays good.
LEMMA CacheStands ==
    ASSUME IInv, Stands, cache' = [k \in DOMAIN cache |-> cache'[k]],
           \A k \in DOMAIN cache : cache'[k] \in {NoProfile, cache[k]}
    PROVE  CacheOK'
  <1>1. ASSUME NEW s \in Session, NEW c \in Customer
        PROVE  GoodProfile(cache[<<s, c>>], c)'
    <2>1. cache'[<<s, c>>] \in {NoProfile, cache[<<s, c>>]}
      BY DEF IInv, CacheOK
    <2>2. PICK p : p = cache[<<s, c>>]
      OBVIOUS
    <2>3. GoodProfile(p, c)
      BY <2>2 DEF IInv, CacheOK
    <2>4. GoodProfile(p, c)'
      BY <2>3, ProfileStands
    <2> QED BY <2>1, <2>2, <2>4, NoProfileGoodAfter
  <1> QED BY <1>1 DEF IInv, CacheOK

\* A cache that is left alone stays good.
LEMMA CacheAlone ==
    ASSUME IInv, Stands, UNCHANGED cache
    PROVE  CacheOK'
  <1>1. cache' = [k \in DOMAIN cache |-> cache'[k]]
    BY DEF IInv, CacheOK
  <1> QED BY <1>1, CacheStands

\* A coroutine stays good while its run number stands and its session does
\* not become fresh.
LEMMA TurnStands ==
    ASSUME Stands, NEW k, NEW t, GoodTurn(k, t), runs'[t] = runs[t]
    PROVE  GoodTurn(k, t)'
  BY ProfileStands DEF Stands, GoodTurn

\* All coroutines stay good if one becomes another good one.
LEMMA TurnMoved ==
    ASSUME IInv, Stands, NEW t \in Turn, NEW k, turn' = [turn EXCEPT ![t] = k],
           GoodTurn(k, t)', \A u \in Turn \ {t} : runs'[u] = runs[u]
    PROVE  TurnsOK'
  <1>1. DOMAIN turn' = Turn
    BY DEF IInv, TurnsOK
  <1>2. ASSUME NEW u \in Turn
        PROVE  GoodTurn(turn[u], u)'
    <2>1. CASE u = t
      BY <2>1 DEF IInv, TurnsOK
    <2>2. CASE u # t
      BY <2>2, TurnStands DEF IInv, TurnsOK
    <2> QED BY <2>1, <2>2
  <1> QED BY <1>1, <1>2 DEF TurnsOK

\* Coroutines that are left alone stay good.
LEMMA TurnsStand ==
    ASSUME IInv, Stands, UNCHANGED <<turn, runs>>
    PROVE  TurnsOK'
  BY TurnStands DEF IInv, TurnsOK

\* What an active coroutine is known to hold.
LEMMA ActiveTurn ==
    ASSUME IInv, NEW t \in Turn, Active(t)
    PROVE  /\ turn[t].session \in Session \ fresh /\ turn[t].customer \in Customer
           /\ runs[t] \in 1 .. MaxRuns
           /\ turn[t] \in Coroutine /\ GoodProfile(turn[t].profile, turn[t].customer)
           /\ At(t, "histories") \/ At(t, "publish") => turn[t].profile \in Built
           /\ Key(t) \in Session \X Customer /\ Key(t) \in DOMAIN cache
           /\ GoodProfile(cache[Key(t)], turn[t].customer)
  <1>1. GoodTurn(turn[t], t) /\ turn[t] # Idle
    BY DEF IInv, TurnsOK, Active
  <1>2. /\ turn[t].session \in Session \ fresh /\ turn[t].customer \in Customer
        /\ runs[t] \in 1 .. MaxRuns
        /\ turn[t] \in Coroutine /\ GoodProfile(turn[t].profile, turn[t].customer)
        /\ At(t, "histories") \/ At(t, "publish") => turn[t].profile \in Built
    BY <1>1 DEF GoodTurn, At
  <1>3. Key(t) = <<turn[t].session, turn[t].customer>>
    BY DEF Key
  <1> QED BY <1>2, <1>3 DEF IInv, CacheOK

-----------------------------------------------------------------------------
(***************************************************************************)
(* Each action preserves the invariant.                                    *)
(***************************************************************************)
\* A step of one coroutine that changes no session and no cache entry.
LEMMA OnlyTurnMoves ==
    ASSUME IInv, NEW t \in Turn, NEW k, turn' = [turn EXCEPT ![t] = k], GoodTurn(k, t)',
           UNCHANGED <<version, due, contexts, cache, fresh, runs, ghosts>>
    PROVE  IInv'
  <1>1. Stands
    BY DEF Stands, ghosts
  <1>2. VersionsOK'
    BY DEF IInv, VersionsOK, ghosts
  <1>3. TurnsOK'
    BY <1>1, TurnMoved
  <1>4. ContextsOK' /\ CacheOK'
    BY <1>1, ContextsStand, CacheAlone
  <1> QED BY <1>2, <1>3, <1>4 DEF IInv

\* CreateSession
LEMMA CreateIInv ==
    ASSUME IInv, NEW s \in Session, NEW c \in Customer, CreateSession(s, c)
    PROVE  IInv'
  <1> DEFINE x == [NoContext EXCEPT !.owner = c]
  <1>1. Stands /\ s \notin fresh' /\ UNCHANGED <<cache, turn, runs>>
    BY DEF CreateSession, Stands, ghosts
  <1>2. VersionsOK'
    BY DEF IInv, VersionsOK, CreateSession, ghosts
  <1>3. /\ x = [owner |-> c, profile |-> NoProfile, turns |-> <<>>]
        /\ x \in Context /\ Len(x.turns) = 0
    <2>1. x = [owner |-> c, profile |-> NoProfile, turns |-> <<>>]
      BY DEF NoContext
    <2>2. NoProfile \in Profile /\ <<>> \in Seq(TurnId)
      BY DEF Profile
    <2>3. x \in [owner : Customer, profile : Profile, turns : Seq(TurnId)]
      BY <2>1, <2>2
    <2>4. x.turns = <<>>
      BY <2>1
    <2> QED BY <2>1, <2>3, <2>4 DEF Context
  <1>4. GoodContext(x, s)'
    BY <1>1, <1>3, NoProfileGoodAfter, BoundAssumption DEF GoodContext
  <1>5. contexts' = [contexts EXCEPT ![s] = x]
    BY DEF CreateSession
  <1> HIDE DEF x
  <1>6. ContextsOK'
    BY <1>1, <1>4, <1>5, ContextStored
  <1>7. TurnsOK' /\ CacheOK'
    BY <1>1, TurnsStand, CacheAlone
  <1> QED BY <1>2, <1>6, <1>7 DEF IInv

\* CloseSession
LEMMA CloseIInv ==
    ASSUME IInv, NEW s \in Session, NEW c \in Customer, CloseSession(s, c)
    PROVE  IInv'
  <1>1. /\ Stands /\ UNCHANGED <<turn, runs>>
        /\ contexts' = [contexts EXCEPT ![s] = NoContext]
    BY DEF CloseSession, Stands
  <1>2. VersionsOK'
    BY DEF IInv, VersionsOK, CloseSession
  <1>3. ContextsOK'
    BY <1>1, NoContextGood, ContextStored
  <1>4. TurnsOK'
    BY <1>1, TurnsStand
  <1>5. /\ cache' = [k \in DOMAIN cache |-> cache'[k]]
        /\ \A k \in DOMAIN cache : cache'[k] \in {NoProfile, cache[k]}
    BY DEF CloseSession
  <1>6. CacheOK'
    BY <1>1, <1>5, CacheStands
  <1> QED BY <1>2, <1>3, <1>4, <1>6 DEF IInv

\* Whatever kind of turn starts, its copy of a session is good for it.
LEMMA StartTurns ==
    ASSUME IInv, NEW t \in Turn, NEW s \in Session, NEW c \in Customer,
           NEW kind \in Kind, NEW step \in {"profile", "save"}, NEW refresh \in BOOLEAN,
           NEW from \in Context, GoodProfile(from.profile, c),
           Starts(t, kind, s, c, step, refresh, from),
           UNCHANGED <<version, due, overlapped>>
    PROVE  Stands /\ VersionsOK' /\ TurnsOK' /\ s \notin fresh'
  <1> DEFINE k == [step |-> step, kind |-> kind, session |-> s, customer |-> c,
                   refresh |-> refresh, profile |-> from.profile, turns |-> from.turns]
  <1>1. Stands /\ s \notin fresh'
    BY DEF Stands, Starts
  <1>2. /\ runs' = [runs EXCEPT ![t] = @ + 1] /\ runs[t] \in Nat /\ runs[t] < MaxRuns
        /\ runs'[t] = runs[t] + 1
    BY BoundAssumption DEF Starts, IInv, VersionsOK
  <1>3. VersionsOK'
    BY <1>2, BoundAssumption DEF IInv, VersionsOK, Starts
  <1>4. k \in Coroutine
    BY ContextParts DEF Coroutine, Step
  <1>5. k.profile = from.profile /\ k.customer = c /\ k.session = s /\ k.step = step
    OBVIOUS
  <1>6. turn' = [turn EXCEPT ![t] = k]
    BY DEF Starts
  <1> HIDE DEF k
  <1>7. GoodProfile(k.profile, c)'
    BY <1>1, <1>5, ProfileStands
  <1>8. GoodTurn(k, t)'
    BY <1>1, <1>2, <1>4, <1>5, <1>7, BoundAssumption DEF GoodTurn
  <1>9. \A u \in Turn \ {t} : runs'[u] = runs[u]
    BY <1>2 DEF IInv, VersionsOK
  <1>10. TurnsOK'
    BY <1>1, <1>6, <1>8, <1>9, TurnMoved
  <1> QED BY <1>1, <1>3, <1>10

\* The session a customer may use holds what is good for this customer.
LEMMA OwnSession ==
    ASSUME IInv, NEW s \in Session, NEW c \in Customer, Exists(s) => Owned(s, c)
    PROVE  contexts[s] \in Context /\ GoodProfile(contexts[s].profile, c)
  <1>1. GoodContext(contexts[s], s)
    BY DEF IInv, ContextsOK
  <1>2. CASE Exists(s)
    BY <1>1, <1>2 DEF GoodContext, Owned
  <1>3. CASE ~Exists(s)
    BY <1>3, NoContextGood, NoProfileGood DEF Exists
  <1> QED BY <1>1, <1>2, <1>3 DEF GoodContext

\* StartChat
LEMMA StartChatIInv ==
    ASSUME IInv, NEW t \in Turn, NEW s \in Session, NEW c \in Customer, StartChat(t, s, c)
    PROVE  IInv'
  <1>1. PICK needed \in BOOLEAN :
          Starts(t, "chat", s, c, FirstStep(s, needed), FALSE, contexts[s])
    BY DEF StartChat
  <1>2. UNCHANGED <<version, due, contexts, cache, overlapped>>
    BY DEF StartChat, memory
  <1>3. FirstStep(s, needed) \in {"profile", "save"} /\ "chat" \in Kind
    BY DEF FirstStep, Kind
  <1>4. contexts[s] \in Context /\ GoodProfile(contexts[s].profile, c)
    BY OwnSession DEF StartChat
  <1>5. Stands /\ VersionsOK' /\ TurnsOK'
    BY <1>1, <1>2, <1>3, <1>4, StartTurns
  <1>6. ContextsOK' /\ CacheOK'
    BY <1>2, <1>5, ContextsStand, CacheAlone
  <1> QED BY <1>5, <1>6 DEF IInv

\* StartSignal
LEMMA StartSignalIInv ==
    ASSUME IInv, NEW t \in Turn, NEW s \in Session, NEW c \in Customer, StartSignal(t, s, c)
    PROVE  IInv'
  <1> DEFINE x == [contexts[s] EXCEPT !.owner = c]
  <1>1. /\ Starts(t, "signal", s, c, FirstStep(s, TRUE), FALSE, contexts[s])
        /\ UNCHANGED <<version, due, cache, overlapped>>
        /\ contexts' = [contexts EXCEPT ![s] = x]
    BY DEF StartSignal
  <1>2. FirstStep(s, TRUE) \in {"profile", "save"} /\ "signal" \in Kind
    BY DEF FirstStep, Kind
  <1>3. contexts[s] \in Context /\ GoodProfile(contexts[s].profile, c)
    BY OwnSession DEF StartSignal
  <1>4. Stands /\ VersionsOK' /\ TurnsOK' /\ s \notin fresh'
    BY <1>1, <1>2, <1>3, StartTurns
  <1>5. /\ x = [owner |-> c, profile |-> contexts[s].profile, turns |-> contexts[s].turns]
        /\ x.owner = c /\ x.profile = contexts[s].profile /\ x.turns = contexts[s].turns
    BY <1>3 DEF Context, NoContext
  <1>6. x \in Context
    <2>1. contexts[s].profile \in Profile /\ contexts[s].turns \in Seq(TurnId)
      BY <1>3, ContextParts
    <2> QED BY <1>5, <2>1 DEF Context
  <1>7. Len(x.turns) <= MaxTurns
    BY <1>5 DEF IInv, ContextsOK, GoodContext
  <1> HIDE DEF x
  <1>8. PICK p : p = contexts[s].profile
    OBVIOUS
  <1>9. GoodProfile(p, c)'
    BY <1>3, <1>4, <1>8, ProfileStands
  <1>10. PICK y : y = x
    OBVIOUS
  <1>11. GoodContext(y, s)'
    BY <1>4, <1>5, <1>6, <1>7, <1>8, <1>9, <1>10 DEF GoodContext
  <1>12. ContextsOK'
    BY <1>1, <1>4, <1>10, <1>11, ContextStored
  <1>13. CacheOK'
    BY <1>1, <1>4, CacheAlone
  <1> QED BY <1>4, <1>12, <1>13 DEF IInv

\* StartProfile
LEMMA StartProfileIInv ==
    ASSUME IInv, NEW t \in Turn, NEW s \in Session, NEW c \in Customer, StartProfile(t, s, c)
    PROVE  IInv'
  <1>1. PICK refresh \in BOOLEAN :
          /\ Starts(t, "profile", s, c, "profile", refresh, NoContext)
          /\ UNCHANGED <<version, due, memory, overlapped>>
    BY DEF StartProfile
  <1>2. UNCHANGED <<version, due, contexts, cache, overlapped>>
    BY <1>1 DEF memory
  <1>3. "profile" \in Kind /\ NoContext \in Context /\ GoodProfile(NoContext.profile, c)
    BY NoContextGood, NoProfileGood DEF Kind
  <1>4. Stands /\ VersionsOK' /\ TurnsOK'
    BY <1>1, <1>2, <1>3, StartTurns
  <1>5. ContextsOK' /\ CacheOK'
    BY <1>2, <1>4, ContextsStand, CacheAlone
  <1> QED BY <1>4, <1>5 DEF IInv

\* A coroutine that goes on with a good profile stays good.
LEMMA ContinueGood ==
    ASSUME IInv, NEW t \in Turn, Active(t), NEW p, GoodProfile(p, turn[t].customer),
           Continue(t, p)
    PROVE  \E k : turn' = [turn EXCEPT ![t] = k] /\ GoodTurn(k, t)
  <1> DEFINE k == [turn[t] EXCEPT !.step = "save", !.profile = p]
  <1>1. turn[t] \in Coroutine /\ p \in Profile
    BY ActiveTurn DEF GoodProfile
  <1>2. /\ k \in Coroutine /\ k.profile = p /\ k.customer = turn[t].customer
        /\ k.session = turn[t].session /\ k.step = "save"
    BY <1>1 DEF Coroutine, Step
  <1>3. GoodTurn(k, t)
    BY <1>2, ActiveTurn DEF GoodTurn
  <1>4. turn' = [turn EXCEPT ![t] = IF turn[t].kind = "profile" THEN Idle ELSE k]
    BY DEF Continue, IInv, TurnsOK
  <1> QED BY <1>3, <1>4, IdleGood

\* CacheHit
LEMMA CacheHitIInv ==
    ASSUME IInv, NEW t \in Turn, CacheHit(t)
    PROVE  IInv'
  <1>1. /\ Active(t) /\ Continue(t, cache[Key(t)])
        /\ UNCHANGED <<version, due, contexts, cache, fresh, runs, ghosts>>
    BY DEF CacheHit, At, memory
  <1>2. GoodProfile(cache[Key(t)], turn[t].customer)
    BY <1>1, ActiveTurn
  <1>3. PICK k : turn' = [turn EXCEPT ![t] = k] /\ GoodTurn(k, t)
    BY <1>1, <1>2, ContinueGood
  <1>4. GoodTurn(k, t)'
    BY <1>1, <1>3, TurnStands DEF Stands, ghosts
  <1> QED BY <1>1, <1>3, <1>4, OnlyTurnMoves

\* CacheMiss
LEMMA CacheMissIInv ==
    ASSUME IInv, NEW t \in Turn, CacheMiss(t)
    PROVE  IInv'
  <1> DEFINE k == [turn[t] EXCEPT !.step = "snapshot"]
  <1>1. /\ Active(t) /\ turn' = [turn EXCEPT ![t] = k]
        /\ UNCHANGED <<version, due, contexts, cache, fresh, runs, ghosts>>
    BY DEF CacheMiss, At, memory
  <1>2. turn[t] \in Coroutine
    BY <1>1, ActiveTurn
  <1>3. /\ k \in Coroutine /\ k.profile = turn[t].profile /\ k.customer = turn[t].customer
        /\ k.session = turn[t].session /\ k.step = "snapshot"
    BY <1>2 DEF Coroutine, Step
  <1>4. GoodTurn(k, t)
    BY <1>1, <1>3, ActiveTurn DEF GoodTurn
  <1> HIDE DEF k
  <1>5. PICK j : j = k
    OBVIOUS
  <1>6. GoodTurn(j, t)'
    BY <1>1, <1>4, <1>5, TurnStands DEF Stands, ghosts
  <1> QED BY <1>1, <1>5, <1>6, OnlyTurnMoves

\* What a snapshot of the customers row gives is up to date.
LEMMA SnapshotGood ==
    ASSUME IInv, NEW c \in Customer, NEW h \in {0, version[c]}
    PROVE  /\ [customer |-> c, version |-> version[c], histories |-> h] \in Built
           /\ GoodProfile([customer |-> c, version |-> version[c], histories |-> h], c)
  <1>1. version[c] \in 1 .. MaxVersion /\ h \in 0 .. MaxVersion
    BY BoundAssumption DEF IInv, VersionsOK
  <1>2. [customer |-> c, version |-> version[c], histories |-> h] \in Built
    BY <1>1 DEF Built
  <1> QED BY <1>2 DEF GoodProfile, UpToDate, Profile, Built

\* ReadSnapshot
LEMMA ReadSnapshotIInv ==
    ASSUME IInv, NEW t \in Turn, ReadSnapshot(t)
    PROVE  IInv'
  <1> DEFINE c == turn[t].customer
             p == [customer |-> c, version |-> version[c], histories |-> 0]
             k == [turn[t] EXCEPT !.step = "histories", !.profile = p]
  <1>1. /\ Active(t) /\ turn' = [turn EXCEPT ![t] = k]
        /\ UNCHANGED <<version, due, contexts, cache, fresh, runs, ghosts>>
    <2>1. /\ Active(t)
          /\ turn' = [turn EXCEPT ![t].step = "histories", ![t].profile = p]
          /\ UNCHANGED <<version, due, contexts, cache, fresh, runs, ghosts>>
      BY DEF ReadSnapshot, At, memory
    <2> HIDE DEF p
    <2> QED BY <2>1 DEF IInv, TurnsOK
  <1>2. turn[t] \in Coroutine /\ c \in Customer
    BY <1>1, ActiveTurn
  <1>3. p \in Built /\ GoodProfile(p, c)
    BY <1>2, SnapshotGood
  <1> HIDE DEF p
  <1>4. /\ k \in Coroutine /\ k.profile = p /\ k.customer = c
        /\ k.session = turn[t].session /\ k.step = "histories"
    BY <1>2, <1>3 DEF Coroutine, Step, GoodProfile
  <1>5. GoodTurn(k, t)
    BY <1>1, <1>3, <1>4, ActiveTurn DEF GoodTurn
  <1> HIDE DEF k
  <1>6. PICK j : j = k
    OBVIOUS
  <1>7. GoodTurn(j, t)'
    BY <1>1, <1>5, <1>6, TurnStands DEF Stands, ghosts
  <1> QED BY <1>1, <1>6, <1>7, OnlyTurnMoves

\* ReadHistories
LEMMA ReadHistoriesIInv ==
    ASSUME IInv, NEW t \in Turn, ReadHistories(t)
    PROVE  IInv'
  <1> DEFINE c == turn[t].customer
  <1>1. PICK answered \in BOOLEAN :
          turn' = [turn EXCEPT ![t].step = "publish",
                     ![t].profile.histories = IF answered THEN version[c] ELSE 0]
    BY DEF ReadHistories
  <1> DEFINE h == IF answered THEN version[c] ELSE 0
             p == [turn[t].profile EXCEPT !.histories = h]
             k == [turn[t] EXCEPT !.step = "publish", !.profile = p]
  <1>2. /\ Active(t) /\ At(t, "histories")
        /\ UNCHANGED <<version, due, contexts, cache, fresh, runs, ghosts>>
    BY DEF ReadHistories, At, memory
  <1>3. /\ turn[t] \in Coroutine /\ c \in Customer /\ turn[t].profile \in Built
        /\ GoodProfile(turn[t].profile, c)
    BY <1>2, ActiveTurn
  <1>4. turn' = [turn EXCEPT ![t] = k]
    BY <1>1, <1>3 DEF IInv, TurnsOK, Coroutine
  <1>5. h \in 0 .. MaxVersion /\ h \in {0, version[c]}
    BY <1>3, BoundAssumption DEF IInv, VersionsOK
  <1> HIDE DEF h
  <1>6. /\ p \in Built /\ p \in Profile /\ p.customer = turn[t].profile.customer
        /\ p.version = turn[t].profile.version /\ p.histories = h
    BY <1>3, <1>5 DEF Built, Profile
  <1>7. GoodProfile(p, c)
    <2>1. turn[t].profile # NoProfile
      BY <1>3 DEF Built, NoProfile
    <2> QED BY <1>3, <1>5, <1>6, <2>1 DEF GoodProfile, UpToDate
  <1> HIDE DEF p
  <1>8. /\ k \in Coroutine /\ k.profile = p /\ k.customer = c
        /\ k.session = turn[t].session /\ k.step = "publish"
    BY <1>3, <1>6 DEF Coroutine, Step
  <1>9. GoodTurn(k, t)
    BY <1>2, <1>6, <1>7, <1>8, ActiveTurn DEF GoodTurn
  <1> HIDE DEF k
  <1>10. PICK j : j = k
    OBVIOUS
  <1>11. GoodTurn(j, t)'
    BY <1>2, <1>9, <1>10, TurnStands DEF Stands, ghosts
  <1> QED BY <1>2, <1>4, <1>10, <1>11, OnlyTurnMoves

\* PublishProfile
LEMMA PublishIInv ==
    ASSUME IInv, NEW t \in Turn, PublishProfile(t)
    PROVE  IInv'
  <1>1. /\ Active(t) /\ cache' = [cache EXCEPT ![Key(t)] = turn[t].profile]
        /\ Continue(t, turn[t].profile)
        /\ UNCHANGED <<version, due, contexts, fresh, runs, overlapped, closed>>
    BY DEF PublishProfile, At, ghosts
  <1>2. GoodProfile(turn[t].profile, turn[t].customer)
    BY <1>1, ActiveTurn
  <1>3. PICK k : turn' = [turn EXCEPT ![t] = k] /\ GoodTurn(k, t)
    BY <1>1, <1>2, ContinueGood
  <1>4. Stands /\ GoodTurn(k, t)'
    BY <1>1, <1>3, TurnStands DEF Stands
  <1>5. TurnsOK' /\ ContextsOK'
    BY <1>1, <1>3, <1>4, TurnMoved, ContextsStand
  <1>6. VersionsOK'
    BY <1>1 DEF IInv, VersionsOK
  <1>7. CacheOK'
    <2>1. ASSUME NEW s \in Session, NEW c \in Customer
          PROVE  GoodProfile(cache[<<s, c>>], c)'
      <3>1. PICK p : p = cache'[<<s, c>>]
        OBVIOUS
      <3>2. CASE <<s, c>> = Key(t)
        BY <1>1, <1>2, <1>4, <3>1, <3>2, ProfileStands DEF Key, IInv, CacheOK
      <3>3. CASE <<s, c>> # Key(t)
        <4>1. p = cache[<<s, c>>]
          BY <1>1, <3>1, <3>3 DEF IInv, CacheOK
        <4>2. GoodProfile(p, c)
          BY <4>1 DEF IInv, CacheOK
        <4> QED BY <1>4, <3>1, <4>2, ProfileStands
      <3> QED BY <3>2, <3>3
    <2> QED BY <1>1, <2>1 DEF IInv, CacheOK
  <1> QED BY <1>5, <1>6, <1>7 DEF IInv

\* ProfileFails
LEMMA FailIInv ==
    ASSUME IInv, NEW t \in Turn, ProfileFails(t)
    PROVE  IInv'
  <1> DEFINE k == [turn[t] EXCEPT !.step = "save", !.profile = NoProfile]
  <1>1. /\ Active(t)
        /\ turn' = [turn EXCEPT ![t] = IF turn[t].kind = "chat" THEN k ELSE Idle]
        /\ UNCHANGED <<version, due, contexts, cache, fresh, runs, ghosts>>
    BY DEF ProfileFails, At, memory, IInv, TurnsOK
  <1>2. turn[t] \in Coroutine
    BY <1>1, ActiveTurn
  <1>3. /\ k \in Coroutine /\ k.profile = NoProfile /\ k.customer = turn[t].customer
        /\ k.session = turn[t].session /\ k.step = "save"
    BY <1>2 DEF Coroutine, Step, Profile
  <1>4. GoodTurn(k, t)
    BY <1>1, <1>3, ActiveTurn, NoProfileGood DEF GoodTurn
  <1> HIDE DEF k
  <1>5. PICK j : j = IF turn[t].kind = "chat" THEN k ELSE Idle
    OBVIOUS
  <1>6. GoodTurn(j, t)
    BY <1>4, <1>5, IdleGood
  <1>7. GoodTurn(j, t)'
    BY <1>1, <1>6, TurnStands DEF Stands, ghosts
  <1> QED BY <1>1, <1>5, <1>7, OnlyTurnMoves

\* TurnRaises
LEMMA RaiseIInv ==
    ASSUME IInv, NEW t \in Turn, TurnRaises(t)
    PROVE  IInv'
  <1>1. /\ turn' = [turn EXCEPT ![t] = Idle]
        /\ UNCHANGED <<version, due, contexts, cache, fresh, runs, ghosts>>
    BY DEF TurnRaises, memory
  <1>2. GoodTurn(Idle, t)
    BY IdleGood
  <1>3. PICK j : j = Idle
    OBVIOUS
  <1>4. GoodTurn(j, t)'
    BY <1>1, <1>2, <1>3, TurnStands DEF Stands, ghosts
  <1> QED BY <1>1, <1>3, <1>4, OnlyTurnMoves

\* What a turn saves: its customer's, cut to the last turns.
LEMMA SavedGood ==
    ASSUME IInv, NEW t \in Turn, Active(t)
    PROVE  /\ Saved(t) \in Context /\ Len(Saved(t).turns) <= MaxTurns
           /\ Saved(t).owner = turn[t].customer /\ Saved(t).profile = turn[t].profile
  <1> DEFINE q == IF turn[t].kind = "chat" THEN Append(turn[t].turns, <<t, runs[t]>>)
                  ELSE turn[t].turns
  <1>1. /\ turn[t].turns \in Seq(TurnId) /\ <<t, runs[t]>> \in TurnId
        /\ turn[t].profile \in Profile /\ turn[t].customer \in Customer
    BY ActiveTurn DEF Coroutine, TurnId
  <1>2. q \in Seq(TurnId)
    BY <1>1
  <1>3. Saved(t) = [owner |-> turn[t].customer, profile |-> turn[t].profile,
                    turns |-> LastTurns(q)]
    BY DEF Saved
  <1> HIDE DEF q
  <1>4. LastTurns(q) \in Seq(TurnId) /\ Len(LastTurns(q)) <= MaxTurns
    BY <1>2, LastTurnsBounded
  <1> QED BY <1>1, <1>3, <1>4 DEF Context

\* Save
LEMMA SaveIInv ==
    ASSUME IInv, NEW t \in Turn, Save(t)
    PROVE  IInv'
  <1> DEFINE s == turn[t].session
  <1>1. /\ Active(t) /\ turn' = [turn EXCEPT ![t] = Idle]
        /\ contexts' = IF Exists(s) /\ ~Owned(s, turn[t].customer) THEN contexts
                       ELSE [contexts EXCEPT ![s] = Saved(t)]
        /\ UNCHANGED <<version, due, cache, fresh, runs, overlapped, closed>>
    BY DEF Save, At, ghosts
  <1>2. Stands /\ s \in Session /\ s \notin fresh'
    BY <1>1, ActiveTurn DEF Stands
  <1>3. TurnsOK' /\ CacheOK'
    BY <1>1, <1>2, IdleGoodAfter, TurnMoved, CacheAlone
  <1>4. VersionsOK'
    BY <1>1 DEF IInv, VersionsOK
  <1>5. PICK x : x = Saved(t)
    OBVIOUS
  <1>6. GoodContext(x, s)
    BY <1>1, <1>5, SavedGood, ActiveTurn DEF GoodContext
  <1>7. PICK r : r = s
    OBVIOUS
  <1>8. GoodContext(x, r)'
    BY <1>2, <1>6, <1>7, ContextStands
  <1>9. ContextsOK'
    <2>1. CASE contexts' = contexts
      BY <1>2, <2>1, ContextsStand
    <2>2. CASE contexts' = [contexts EXCEPT ![r] = x]
      BY <1>2, <1>7, <1>8, <2>2, ContextStored
    <2> QED BY <1>1, <1>5, <1>7, <2>1, <2>2
  <1> QED BY <1>3, <1>4, <1>9 DEF IInv

\* A profile stays good for a customer who is not settled by the step.
LEMMA ProfileKept ==
    ASSUME NEW p, NEW d, GoodProfile(p, d),
           d \in Customer /\ Settled(d)' => Settled(d) /\ version'[d] = version[d]
    PROVE  GoodProfile(p, d)'
  BY DEF GoodProfile, UpToDate

\* Purchase
LEMMA PurchaseIInv ==
    ASSUME IInv, NEW c \in Customer, Purchase(c)
    PROVE  IInv'
  <1>1. /\ version' = [version EXCEPT ![c] = version[c] + 1] /\ version[c] < MaxVersion
        /\ due' = [due EXCEPT ![c] = due[c] + 1]
        /\ UNCHANGED <<contexts, cache, fresh, turn, runs, overlapped, closed>>
    BY DEF Purchase, memory, ghosts
  <1>2. VersionsOK'
    BY <1>1, BoundAssumption DEF IInv, VersionsOK
  <1>3. ASSUME NEW d \in Customer, Settled(d)'
        PROVE  Settled(d) /\ version'[d] = version[d]
    <2>1. d # c
      BY <1>1, <1>3 DEF IInv, VersionsOK, Settled
    <2> QED BY <1>1, <1>3, <2>1 DEF IInv, VersionsOK, Settled
  <1>4. ASSUME NEW p, NEW d, GoodProfile(p, d)
        PROVE  GoodProfile(p, d)'
    BY <1>3, <1>4, ProfileKept
  <1>5. TurnsOK'
    <2>1. ASSUME NEW k, NEW t, GoodTurn(k, t)
          PROVE  GoodTurn(k, t)'
      BY <1>1, <1>4, <2>1 DEF GoodTurn
    <2> QED BY <1>1, <2>1 DEF IInv, TurnsOK
  <1>6. ContextsOK'
    <2>1. ASSUME NEW x, NEW s, GoodContext(x, s)
          PROVE  GoodContext(x, s)'
      BY <1>1, <1>4, <2>1 DEF GoodContext
    <2> QED BY <1>1, <2>1 DEF IInv, ContextsOK
  <1>7. CacheOK'
    BY <1>1, <1>4 DEF IInv, CacheOK
  <1> QED BY <1>2, <1>5, <1>6, <1>7 DEF IInv

\* The customer whose event is handled is settled by it only if no coroutine
\* of this customer is at work.
LEMMA HandledSettles ==
    ASSUME IInv, NEW c \in Customer, Invalidate(c)
    PROVE  /\ VersionsOK'
           /\ Settled(c)' => ~InFlight(c)
           /\ \A d \in Customer \ {c} : Settled(d)' => Settled(d)
           /\ UNCHANGED <<version, fresh, turn, runs>>
  <1>1. /\ due[c] > 0 /\ due' = [due EXCEPT ![c] = due[c] - 1]
        /\ overlapped' = IF InFlight(c) THEN overlapped \cup {c} ELSE overlapped
        /\ UNCHANGED <<version, fresh, turn, runs, closed>>
    BY DEF Invalidate, Handled
  <1>2. VersionsOK'
    <2>1. due' \in [Customer -> Nat]
      BY <1>1 DEF IInv, VersionsOK
    <2> QED BY <1>1, <2>1 DEF IInv, VersionsOK
  <1>3. Settled(c)' => ~InFlight(c)
    BY <1>1 DEF Settled
  <1>4. ASSUME NEW d \in Customer \ {c}, Settled(d)'
        PROVE  Settled(d)
    BY <1>1, <1>4 DEF Settled, IInv, VersionsOK
  <1> QED BY <1>1, <1>2, <1>3, <1>4

\* Invalidate
LEMMA InvalidateIInv ==
    ASSUME IInv, NEW c \in Customer, Invalidate(c)
    PROVE  IInv'
  <1>1. /\ VersionsOK' /\ (Settled(c)' => ~InFlight(c))
        /\ \A d \in Customer \ {c} : Settled(d)' => Settled(d)
        /\ UNCHANGED <<version, fresh, turn, runs>>
    BY HandledSettles
  <1>2. /\ cache' = [k \in DOMAIN cache |-> IF k[2] = c THEN NoProfile ELSE cache[k]]
        /\ contexts' = [s \in Session |->
                          IF Owned(s, c) THEN [contexts[s] EXCEPT !.profile = NoProfile]
                          ELSE contexts[s]]
    BY DEF Invalidate
  <1>3. ASSUME NEW p, NEW d, GoodProfile(p, d), d # c
        PROVE  GoodProfile(p, d)'
    BY <1>1, <1>3, ProfileKept
  <1>4. TurnsOK'
    <2>1. ASSUME NEW t \in Turn
          PROVE  GoodTurn(turn[t], t)'
      <3>1. PICK k : k = turn[t]
        OBVIOUS
      <3>2. GoodTurn(k, t)
        BY <3>1 DEF IInv, TurnsOK
      <3>3. CASE k = Idle
        BY <1>1, <3>1, <3>3, IdleGoodAfter
      <3>4. CASE k # Idle /\ k.customer = c
        <4>1. ~Settled(c)'
          BY <1>1, <3>1, <3>4 DEF InFlight, Active
        <4>2. GoodProfile(k.profile, k.customer)'
          BY <3>2, <3>4, <4>1, ProfileKept DEF GoodTurn
        <4> QED BY <1>1, <3>1, <3>2, <4>2 DEF GoodTurn
      <3>5. CASE k.customer # c
        <4>1. GoodProfile(k.profile, k.customer)'
          BY <1>3, <3>2, <3>5 DEF GoodTurn
        <4> QED BY <1>1, <3>1, <3>2, <4>1 DEF GoodTurn
      <3> QED BY <3>3, <3>4, <3>5
    <2> QED BY <1>1, <2>1 DEF IInv, TurnsOK
  <1>5. ContextsOK'
    <2>1. ASSUME NEW s \in Session
          PROVE  GoodContext(contexts[s], s)'
      <3>1. PICK x : x = contexts[s]
        OBVIOUS
      <3>2. GoodContext(x, s)
        BY <3>1 DEF IInv, ContextsOK
      <3>3. CASE x.owner # c
        <4>1. contexts'[s] = x
          BY <1>2, <3>1, <3>3 DEF Owned
        <4>2. GoodProfile(x.profile, x.owner)'
          BY <1>3, <3>2, <3>3 DEF GoodContext
        <4> QED BY <1>1, <3>2, <4>1, <4>2 DEF GoodContext
      <3>4. CASE x.owner = c
        <4> DEFINE y == [x EXCEPT !.profile = NoProfile]
        <4>1. contexts'[s] = y
          BY <1>2, <3>1, <3>4 DEF Owned
        <4>2. x.turns \in Seq(TurnId) /\ x \in Context /\ Len(x.turns) <= MaxTurns
          BY <3>2, ContextParts DEF GoodContext
        <4>3. x \in [owner : Customer, profile : Profile, turns : Seq(TurnId)] \/ x = NoContext
          BY <4>2 DEF Context
        <4>4. /\ y \in Context /\ y.profile = NoProfile /\ y.owner = x.owner
              /\ y.turns = x.turns
          <5>1. CASE x = NoContext
            <6>1. y = NoContext
              BY <5>1 DEF NoContext
            <6> QED BY <5>1, <6>1, NoContextGood
          <5>2. CASE x # NoContext
            BY <4>3, <5>2 DEF Context, Profile
          <5> QED BY <5>1, <5>2
        <4>5. s \in fresh => y = NoContext
          BY <3>2 DEF GoodContext, NoContext
        <4> HIDE DEF y
        <4>6. PICK z : z = y
          OBVIOUS
        <4>7. GoodContext(z, s)'
          BY <1>1, <4>2, <4>4, <4>5, <4>6, NoProfileGoodAfter DEF GoodContext
        <4> QED BY <4>1, <4>6, <4>7
      <3> QED BY <3>3, <3>4
    <2> QED BY <1>2, <2>1 DEF ContextsOK
  <1>6. CacheOK'
    <2>1. ASSUME NEW s \in Session, NEW d \in Customer
          PROVE  GoodProfile(cache[<<s, d>>], d)'
      <3>1. PICK p : p = cache[<<s, d>>]
        OBVIOUS
      <3>2. cache'[<<s, d>>] = IF d = c THEN NoProfile ELSE p
        BY <1>2, <3>1 DEF IInv, CacheOK
      <3>3. d # c => GoodProfile(p, d)'
        BY <1>3, <3>1 DEF IInv, CacheOK
      <3> QED BY <3>2, <3>3, NoProfileGoodAfter
    <2> QED BY <1>2, <2>1 DEF IInv, CacheOK
  <1> QED BY <1>1, <1>4, <1>5, <1>6 DEF IInv

\* Restart
LEMMA RestartIInv ==
    ASSUME IInv, Restart
    PROVE  IInv'
  <1>1. /\ contexts' = [s \in Session |-> NoContext]
        /\ cache' = [k \in DOMAIN cache |-> NoProfile]
        /\ turn' = [t \in Turn |-> Idle]
        /\ UNCHANGED <<version, due, fresh, runs, overlapped, closed>>
    BY DEF Restart, ghosts
  <1>2. VersionsOK'
    BY <1>1 DEF IInv, VersionsOK
  <1>3. TurnsOK'
    BY <1>1, IdleGoodAfter DEF TurnsOK
  <1>4. ContextsOK'
    BY <1>1, NoContextGood DEF ContextsOK
  <1>5. CacheOK'
    BY <1>1, NoProfileGoodAfter DEF IInv, CacheOK
  <1> QED BY <1>2, <1>3, <1>4, <1>5 DEF IInv

\* Every step preserves the invariant.
LEMMA NextIInv ==
    ASSUME IInv, Next \/ UNCHANGED vars
    PROVE  IInv'
  <1>1. ASSUME NEW s \in Session, NEW c \in Customer,
               CreateSession(s, c) \/ CloseSession(s, c)
        PROVE  IInv'
    BY <1>1, CreateIInv, CloseIInv
  <1>2. ASSUME NEW s \in Session, NEW c \in Customer, NEW t \in Turn,
               StartChat(t, s, c) \/ StartSignal(t, s, c) \/ StartProfile(t, s, c)
        PROVE  IInv'
    BY <1>2, StartChatIInv, StartSignalIInv, StartProfileIInv
  <1>3. ASSUME NEW t \in Turn, TurnStep(t) \/ ProfileFails(t) \/ TurnRaises(t)
        PROVE  IInv'
    BY <1>3, CacheHitIInv, CacheMissIInv, ReadSnapshotIInv, ReadHistoriesIInv, PublishIInv,
       SaveIInv, FailIInv, RaiseIInv DEF TurnStep
  <1>4. ASSUME NEW c \in Customer, Purchase(c) \/ Invalidate(c)
        PROVE  IInv'
    BY <1>4, PurchaseIInv, InvalidateIInv
  <1>5. CASE UNCHANGED vars
    <2>1. UNCHANGED <<version, due, contexts, cache, fresh, turn, runs, overlapped, closed>>
      BY <1>5 DEF vars
    <2>2. Stands
      BY <2>1 DEF Stands
    <2>3. VersionsOK'
      BY <2>1 DEF IInv, VersionsOK
    <2> QED BY <2>1, <2>2, <2>3, TurnsStand, ContextsStand, CacheAlone DEF IInv
  <1> QED BY <1>1, <1>2, <1>3, <1>4, <1>5, RestartIInv DEF Next

\* The invariant of ProfileSessions.
THEOREM Invariant == Spec => []IInv
  <1>1. IInv /\ [Next]_vars => IInv'
    BY NextIInv
  <1> QED BY <1>1, InitIInv, PTL DEF Spec

-----------------------------------------------------------------------------
(***************************************************************************)
(* The properties.                                                         *)
(***************************************************************************)
\* What the type invariant asks for.
LEMMA IInvTypes ==
    ASSUME IInv
    PROVE  TypeOK
  <1>1. VersionsOK
    BY DEF IInv
  <1>2. ASSUME NEW s \in Session
        PROVE  contexts[s] \in Context /\ Len(contexts[s].turns) <= MaxTurns
    BY DEF IInv, ContextsOK, GoodContext
  <1>3. cache \in [Session \X Customer -> Profile]
    <2>1. \A k \in Session \X Customer : cache[k] \in Profile
      BY DEF IInv, CacheOK, GoodProfile
    <2> QED BY <2>1 DEF IInv, CacheOK
  <1>4. ASSUME NEW t \in Turn
        PROVE  /\ turn[t].step \in Step /\ turn[t].kind \in Kind
               /\ turn[t].profile \in Profile /\ turn[t].turns \in Seq(TurnId)
               /\ turn[t] # Idle => turn[t].session \in Session /\ turn[t].customer \in Customer
    <2>1. GoodTurn(turn[t], t)
      BY DEF IInv, TurnsOK
    <2> QED BY <2>1 DEF GoodTurn, Coroutine
  <1> QED BY <1>1, <1>2, <1>3, <1>4 DEF TypeOK, VersionsOK

\* Coroutines, sessions and cache entries hold their own customer's profile,
\* for any number of customers, sessions and coroutines.
THEOREM OwnProfiles == Spec => []ProfilesAreOwn
  <1>1. IInv => ProfilesAreOwn
    <2> SUFFICES ASSUME IInv PROVE ProfilesAreOwn
      OBVIOUS
    <2>1. \A t \in Turn : turn[t].profile.customer \in {"none", turn[t].customer}
      BY DEF IInv, TurnsOK, GoodTurn, GoodProfile
    <2>2. \A s \in Session : contexts[s].profile.customer \in {"none", contexts[s].owner}
      BY DEF IInv, ContextsOK, GoodContext, GoodProfile
    <2>3. \A k \in DOMAIN cache : cache[k].customer \in {"none", k[2]}
      <3>1. ASSUME NEW s \in Session, NEW c \in Customer
            PROVE  cache[<<s, c>>].customer \in {"none", c}
        BY DEF IInv, CacheOK, GoodProfile
      <3> SUFFICES ASSUME NEW s \in Session, NEW c \in Customer, NEW k, k = <<s, c>>
                   PROVE  cache[k].customer \in {"none", k[2]}
        BY DEF IInv, CacheOK
      <3> QED BY <3>1
    <2> QED BY <2>1, <2>2, <2>3, IInvTypes DEF ProfilesAreOwn, OwnProfilesOnly
  <1> QED BY <1>1, Invariant, PTL

\* Handled events leave no stale projection of a customer none of whose turns
\* was in flight meanwhile: whatever the coroutines of other customers do,
\* and however many purchases and events there were.
THEOREM Freshness == Spec => []FreshUnlessOverlapped
  <1>1. IInv => FreshUnlessOverlapped
    <2> SUFFICES ASSUME IInv, NEW c \in Customer, due[c] = 0, c \notin overlapped
                 PROVE  Projected(c)
      BY DEF FreshUnlessOverlapped
    <2>1. Settled(c)
      BY DEF Settled
    <2>2. \A s \in Session : UpToDate(cache[<<s, c>>], c)
      BY <2>1 DEF IInv, CacheOK, GoodProfile
    <2>3. \A s \in Session : Owned(s, c) => UpToDate(contexts[s].profile, c)
      BY <2>1 DEF IInv, ContextsOK, GoodContext, GoodProfile, Owned
    <2> QED BY <2>2, <2>3 DEF Projected
  <1> QED BY <1>1, Invariant, PTL

\* The steps that leave every session as it is.
LEMMA SessionsAlone ==
    ASSUME Next \/ UNCHANGED vars
    PROVE  \/ contexts' = contexts
           \/ \E s \in Session, c \in Customer :
                 \/ CreateSession(s, c) \/ CloseSession(s, c)
                 \/ \E t \in Turn : StartSignal(t, s, c)
           \/ \E t \in Turn : Save(t)
           \/ \E c \in Customer : Invalidate(c)
           \/ Restart
  <1>1. ASSUME NEW t \in Turn, NEW s \in Session, NEW c \in Customer,
               StartChat(t, s, c) \/ StartProfile(t, s, c)
        PROVE  contexts' = contexts
    BY <1>1 DEF StartChat, StartProfile, memory
  <1>2. ASSUME NEW t \in Turn, TurnStep(t) \/ ProfileFails(t) \/ TurnRaises(t), ~Save(t)
        PROVE  contexts' = contexts
    BY <1>2 DEF TurnStep, CacheHit, CacheMiss, ReadSnapshot, ReadHistories, PublishProfile,
                ProfileFails, TurnRaises, memory
  <1>3. ASSUME NEW c \in Customer, Purchase(c)
        PROVE  contexts' = contexts
    BY <1>3 DEF Purchase, memory
  <1>4. CASE UNCHANGED vars
    BY <1>4 DEF vars
  <1> QED BY <1>1, <1>2, <1>3, <1>4 DEF Next

\* What a step does to a session that is there before and after it: it keeps
\* its owner, and its conversation unless a turn of the session runs.
LEMMA SessionStep ==
    ASSUME IInv, Next \/ UNCHANGED vars, NEW s \in Session, Exists(s),
           contexts'[s] # NoContext
    PROVE  /\ contexts'[s].owner = contexts[s].owner
           /\ InUse(s) \/ contexts'[s].turns = contexts[s].turns
  <1>1. GoodContext(contexts[s], s) /\ DOMAIN contexts = Session
    BY DEF IInv, ContextsOK
  <1>2. /\ s \notin fresh
        /\ contexts[s] \in [owner : Customer, profile : Profile, turns : Seq(TurnId)]
    BY <1>1 DEF GoodContext, Exists, Context
  <1>3. CASE contexts' = contexts
    BY <1>3
  <1>4. ASSUME NEW r \in Session, NEW c \in Customer, CreateSession(r, c)
        PROVE  contexts'[s] = contexts[s]
    BY <1>1, <1>2, <1>4 DEF CreateSession
  <1>5. ASSUME NEW r \in Session, NEW c \in Customer, CloseSession(r, c)
        PROVE  contexts'[s] = contexts[s]
    BY <1>1, <1>5 DEF CloseSession
  <1>6. ASSUME NEW t \in Turn, NEW r \in Session, NEW c \in Customer, StartSignal(t, r, c)
        PROVE  /\ contexts'[s].owner = contexts[s].owner
               /\ contexts'[s].turns = contexts[s].turns
    <2>1. contexts' = [contexts EXCEPT ![r].owner = c] /\ (Exists(r) => Owned(r, c))
      BY <1>6 DEF StartSignal
    <2>2. CASE r # s
      BY <1>1, <2>1, <2>2
    <2>3. CASE r = s
      <3>1. contexts'[s] = [contexts[s] EXCEPT !.owner = c]
        BY <1>1, <2>1, <2>3
      <3>2. contexts[s].owner = c
        BY <2>1, <2>3 DEF Owned
      <3> QED BY <1>2, <3>1, <3>2
    <2> QED BY <2>2, <2>3
  <1>7. ASSUME NEW t \in Turn, Save(t)
        PROVE  /\ contexts'[s].owner = contexts[s].owner
               /\ InUse(s) \/ contexts'[s].turns = contexts[s].turns
    <2> DEFINE r == turn[t].session
    <2>1. /\ Active(t)
          /\ contexts' = IF Exists(r) /\ ~Owned(r, turn[t].customer) THEN contexts
                         ELSE [contexts EXCEPT ![r] = Saved(t)]
      BY <1>7 DEF Save, At
    <2>2. CASE contexts' = contexts
      BY <2>2
    <2>3. CASE r # s
      BY <1>1, <2>1, <2>3
    <2>4. CASE r = s /\ contexts' # contexts
      <3>1. InUse(s)
        BY <2>1, <2>4 DEF InUse
      <3>2. contexts'[s] = Saved(t) /\ contexts[s].owner = turn[t].customer
        BY <1>1, <2>1, <2>4 DEF Owned
      <3>3. Saved(t).owner = turn[t].customer
        BY <2>1, SavedGood
      <3> QED BY <3>1, <3>2, <3>3
    <2> QED BY <2>2, <2>3, <2>4
  <1>8. ASSUME NEW c \in Customer, Invalidate(c)
        PROVE  /\ contexts'[s].owner = contexts[s].owner
               /\ contexts'[s].turns = contexts[s].turns
    <2>1. contexts'[s] = IF Owned(s, c) THEN [contexts[s] EXCEPT !.profile = NoProfile]
                         ELSE contexts[s]
      BY <1>8 DEF Invalidate
    <2> QED BY <1>2, <2>1
  <1>9. CASE Restart
    BY <1>9 DEF Restart
  <1> QED BY <1>3, <1>4, <1>5, <1>6, <1>7, <1>8, <1>9, SessionsAlone

\* A step that closes a session leaves nothing under its id.
LEMMA CloseStep ==
    ASSUME IInv, Next \/ UNCHANGED vars, NEW s \in closed' \ closed
    PROVE  contexts'[s] = NoContext /\ \A c \in Customer : cache'[<<s, c>>] = NoProfile
  <1>1. ASSUME NEW r \in Session, NEW c \in Customer, CreateSession(r, c)
        PROVE  closed' = closed
    BY <1>1 DEF CreateSession, ghosts
  <1>2. ASSUME NEW t \in Turn, NEW r \in Session, NEW c \in Customer,
               StartChat(t, r, c) \/ StartSignal(t, r, c) \/ StartProfile(t, r, c)
        PROVE  closed' \subseteq closed
    BY <1>2 DEF StartChat, StartSignal, StartProfile, Starts
  <1>3. ASSUME NEW t \in Turn, TurnStep(t) \/ ProfileFails(t) \/ TurnRaises(t)
        PROVE  closed' = closed
    BY <1>3 DEF TurnStep, CacheHit, CacheMiss, ReadSnapshot, ReadHistories, PublishProfile,
                ProfileFails, TurnRaises, Save, ghosts
  <1>4. ASSUME NEW c \in Customer, Purchase(c) \/ Invalidate(c)
        PROVE  closed' = closed
    BY <1>4 DEF Purchase, Invalidate, ghosts
  <1>5. ASSUME UNCHANGED vars \/ Restart
        PROVE  closed' = closed
    BY <1>5 DEF vars, Restart, ghosts
  <1>6. PICK r \in Session, c \in Customer : CloseSession(r, c)
    BY <1>1, <1>2, <1>3, <1>4, <1>5 DEF Next
  <1>7. s = r /\ s \in Session
    BY <1>6 DEF CloseSession
  <1>8. contexts'[s] = NoContext
    BY <1>6, <1>7 DEF CloseSession, IInv, ContextsOK
  <1>9. ASSUME NEW d \in Customer
        PROVE  cache'[<<s, d>>] = NoProfile
    <2>1. <<s, d>> \in DOMAIN cache
      BY <1>7 DEF IInv, CacheOK
    <2> QED BY <1>6, <1>7, <2>1 DEF CloseSession
  <1> QED BY <1>8, <1>9

\* Whoever races for a session id, a session changes hands only by being
\* closed or lost, its conversation changes by its own turns only, and
\* closing it leaves nothing behind.
THEOREM SessionsKept == Spec => SessionsAreKept
  <1>1. IInv /\ [Next]_vars
          => [\A s \in Session :
                Exists(s) /\ contexts'[s] # NoContext
                  => contexts'[s].owner = contexts[s].owner]_vars
    BY SessionStep
  <1>2. IInv /\ [Next]_vars
          => [\A s \in Session :
                Exists(s) /\ ~InUse(s) /\ contexts'[s] # NoContext
                  => contexts'[s].turns = contexts[s].turns]_vars
    BY SessionStep
  <1>3. IInv /\ [Next]_vars
          => [\A s \in closed' \ closed :
                contexts'[s] = NoContext /\ \A c \in Customer : cache'[<<s, c>>] = NoProfile]_vars
    BY CloseStep
  <1> QED BY <1>1, <1>2, <1>3, Invariant, PTL
          DEF Spec, SessionsAreKept, OwnerIsKept, RestingSessionKeepsTurns, ClosedLeavesNothing
=============================================================================
