-------------------------- MODULE ContextBus_proofs --------------------------
(***************************************************************************)
(* Proofs about ContextBus, for every set of events, subscribers and       *)
(* requests, every registration and every bound.                           *)
(***************************************************************************)
EXTENDS ContextBus, TLAPS

(***************************************************************************)
(* The inductive invariant.  Lock: only the head of the lock's queue is    *)
(* inside a dispatch.  Cursor: what it serves is in range, was committed,  *)
(* and everything before the cursor has completed; a delivery whose        *)
(* handler runs, or has just ended, is PROCESSING.                         *)
(***************************************************************************)
Serving(c) == phase[c] \in {"subscriber", "handling", "returned", "raised"}
Handling(c) == phase[c] \in {"handling", "returned", "raised"}

LockInv == \A c \in Caller : Busy(c) => Holds(c)

CursorInv ==
    \A c \in Caller :
        /\ Serving(c) => cur[c] \in Event /\ pos[c] \in Nat \ {0}
        /\ Handling(c) => pos[c] <= Len(Subs[cur[c]])

TypeInv == TypeOK /\ LockInv /\ CursorInv

-----------------------------------------------------------------------------
\* What a registration gives: an injective, typed sequence of names.
LEMMA SubsType ==
    ASSUME NEW e \in Event
    PROVE  /\ Subs[e] \in Seq(Subscriber)
           /\ Len(Subs[e]) \in Nat
           /\ DOMAIN Subs[e] = 1..Len(Subs[e])
           /\ \A i \in 1..Len(Subs[e]) : Subs[e][i] \in Subscriber
           /\ \A i, j \in 1..Len(Subs[e]) : Subs[e][i] = Subs[e][j] => i = j
  BY SubsAssumption

\* Handing the lock on: the queue loses its head and stays a queue.
LEMMA TailType ==
    ASSUME NEW S, NEW q \in Seq(S), q # <<>>
    PROVE  Tail(q) \in Seq(S) /\ Head(q) \in S
  OBVIOUS

\* The first state is typed and no dispatch is running in it.
LEMMA InitTypeInv == Init => TypeInv
  <1> SUFFICES ASSUME Init PROVE TypeInv
    OBVIOUS
  <1>1. outbox \in [Event -> [status : OutboxStatus, attempts : Nat]]
    BY DEF Init, OutboxStatus
  <1>2. delivery \in [Event -> [Subscriber -> [status : DeliveryStatus, attempts : Nat]]]
    <2>1. [status |-> "NONE", attempts |-> 0] \in [status : DeliveryStatus, attempts : Nat]
      BY DEF DeliveryStatus
    <2> QED BY <2>1 DEF Init
  <1>3. queue \in Seq(Caller)
    BY DEF Init
  <1>4. phase \in [Caller -> Resting \cup Dispatching]
    BY DEF Init, Resting
  <1>5. /\ asked \in [Request -> SUBSET Event] /\ batch \in [Caller -> SUBSET Event]
        /\ cur \in [Caller -> Event \cup {NoEvent}] /\ pos \in [Caller -> Nat]
        /\ calls \in [Request -> Nat] /\ faults \in Nat
        /\ up \in BOOLEAN /\ stopping \in BOOLEAN
    BY DEF Init
  <1>6. TypeOK
    BY <1>1, <1>2, <1>3, <1>4, <1>5 DEF TypeOK
  <1>7. LockInv /\ CursorInv
    BY DEF Init, LockInv, CursorInv, Busy, Dispatching, Serving, Handling
  <1> QED BY <1>6, <1>7 DEF TypeInv

\* One coroutine moves, the others stay where they are.
LEMMA GotoType ==
    ASSUME phase \in [Caller -> Resting \cup Dispatching],
           NEW c \in Caller, NEW ph \in Resting \cup Dispatching, Goto(c, ph)
    PROVE  /\ phase' \in [Caller -> Resting \cup Dispatching]
           /\ phase'[c] = ph
           /\ \A d \in Caller \ {c} : phase'[d] = phase[d]
  BY DEF Goto

\* One delivery row changes status, every other row stays.
LEMMA StatusUpdate ==
    ASSUME delivery \in [Event -> [Subscriber -> [status : DeliveryStatus, attempts : Nat]]],
           NEW e \in Event, NEW s \in Subscriber, NEW st \in DeliveryStatus,
           delivery' = [delivery EXCEPT ![e][s].status = st]
    PROVE  /\ delivery' \in [Event -> [Subscriber -> [status : DeliveryStatus, attempts : Nat]]]
           /\ delivery'[e][s] = [status |-> st, attempts |-> delivery[e][s].attempts]
           /\ \A f \in Event, t \in Subscriber :
                 (f # e \/ t # s) => delivery'[f][t] = delivery[f][t]
  <1> DEFINE row == [status |-> st, attempts |-> delivery[e][s].attempts]
  <1>1. delivery[e] \in [Subscriber -> [status : DeliveryStatus, attempts : Nat]]
    OBVIOUS
  <1>2. delivery[e][s] \in [status : DeliveryStatus, attempts : Nat]
    BY <1>1
  <1>3. row \in [status : DeliveryStatus, attempts : Nat]
    BY <1>2
  <1>4. [delivery[e][s] EXCEPT !.status = st] = row
    BY <1>2
  <1>5. delivery' = [delivery EXCEPT ![e] = [delivery[e] EXCEPT ![s] = row]]
    BY <1>4
  <1> HIDE DEF row
  <1>6. [delivery[e] EXCEPT ![s] = row] \in [Subscriber -> [status : DeliveryStatus, attempts : Nat]]
    BY <1>1, <1>3
  <1>7. delivery' \in [Event -> [Subscriber -> [status : DeliveryStatus, attempts : Nat]]]
    BY <1>5, <1>6
  <1>8. delivery'[e][s] = row
    BY <1>5, <1>1
  <1>9. \A f \in Event, t \in Subscriber : (f # e \/ t # s) => delivery'[f][t] = delivery[f][t]
    BY <1>5, <1>1
  <1> QED BY <1>7, <1>8, <1>9 DEF row

\* How an exception moves the dispatching coroutine and nobody else.
LEMMA EventFailsType ==
    ASSUME TypeInv, NEW c \in Caller, NEW e, EventFails(c, e), Holds(c)
    PROVE  /\ batch' \in [Caller -> SUBSET Event]
           /\ phase' \in [Caller -> Resting \cup Dispatching]
           /\ queue' \in Seq(Caller)
           /\ phase'[c] \in {"next", "error"}
           /\ phase'[c] = "next" => queue' = queue
           /\ \A d \in Caller \ {c} : phase'[d] = phase[d]
  <1>1. /\ phase \in [Caller -> Resting \cup Dispatching]
        /\ batch \in [Caller -> SUBSET Event]
        /\ queue \in Seq(Caller) /\ queue # <<>>
    BY DEF TypeInv, TypeOK, Holds
  <1>2. "next" \in Dispatching /\ "error" \in Resting
    BY DEF Dispatching, Resting
  <1>3. CASE c = Poller
    <2>1. Goto(c, "next") /\ queue' = queue /\ batch' = [batch EXCEPT ![c] = @ \ {e}]
      BY <1>3 DEF EventFails
    <2> QED BY <2>1, <1>1, <1>2, GotoType
  <1>4. CASE c # Poller
    <2>1. Goto(c, "error") /\ queue' = Tail(queue) /\ batch' = [batch EXCEPT ![c] = {}]
      BY <1>4 DEF EventFails, Release
    <2> QED BY <2>1, <1>1, <1>2, GotoType, TailType
  <1> QED BY <1>3, <1>4

\* The lock's holder moves, keeping or releasing the lock; the coroutines
\* that wait or rest do not.
LEMMA HolderMoves ==
    ASSUME TypeInv, NEW c \in Caller, Holds(c),
           \A d \in Caller \ {c} :
               phase'[d] = phase[d] /\ cur'[d] = cur[d] /\ pos'[d] = pos[d],
           queue' = queue \/ ~Busy(c)',
           Serving(c)' => cur'[c] \in Event /\ pos'[c] \in Nat \ {0},
           Handling(c)' => pos'[c] <= Len(Subs[cur'[c]])
    PROVE  LockInv' /\ CursorInv'
  <1>1. \A d \in Caller \ {c} : ~Busy(d)
    BY DEF TypeInv, LockInv, Holds
  <1>2. \A d \in Caller \ {c} : ~Busy(d)' /\ ~Serving(d)' /\ ~Handling(d)'
    BY <1>1 DEF Busy, Dispatching, Serving, Handling
  <1>3. Busy(c)' => Holds(c)'
    BY DEF Holds
  <1> QED BY <1>2, <1>3 DEF LockInv, CursorInv

\* A coroutine joins the lock's queue.
LEMMA CallerJoins ==
    ASSUME TypeInv, NEW c \in Caller, ~Busy(c), Goto(c, "waiting"),
           queue' = Append(queue, c), cur' = cur, pos' = pos
    PROVE  /\ LockInv' /\ CursorInv'
           /\ queue' \in Seq(Caller)
           /\ phase' \in [Caller -> Resting \cup Dispatching]
  <1>1. /\ phase \in [Caller -> Resting \cup Dispatching] /\ queue \in Seq(Caller)
        /\ "waiting" \in Resting
    BY DEF TypeInv, TypeOK, Resting
  <1>2. /\ phase' \in [Caller -> Resting \cup Dispatching]
        /\ phase'[c] = "waiting"
        /\ \A d \in Caller \ {c} : phase'[d] = phase[d]
    BY <1>1, GotoType
  <1>3. queue # <<>> => queue' # <<>> /\ Head(queue') = Head(queue)
    BY <1>1
  <1>4. \A d \in Caller : Holds(d) => Holds(d)'
    BY <1>3 DEF Holds
  <1>5. \A d \in Caller : Busy(d)' => Busy(d)
    BY <1>2 DEF Busy, Dispatching
  <1>6. LockInv'
    BY <1>4, <1>5 DEF TypeInv, LockInv
  <1>7. \A d \in Caller : (Serving(d)' => Serving(d)) /\ (Handling(d)' => Handling(d))
    BY <1>2 DEF Serving, Handling
  <1>8. CursorInv'
    BY <1>7 DEF TypeInv, CursorInv
  <1> QED BY <1>1, <1>2, <1>6, <1>8

\* The dispatch steps, each by the holder of the lock.
LEMMA DispatchTypeInv ==
    ASSUME TypeInv, NEW c \in Caller, Dispatch(c)
    PROVE  TypeInv'
  <1> USE DEF TypeInv
  <1>0. /\ phase \in [Caller -> Resting \cup Dispatching]
        /\ batch \in [Caller -> SUBSET Event]
        /\ cur \in [Caller -> Event \cup {NoEvent}]
        /\ pos \in [Caller -> Nat]
        /\ outbox \in [Event -> [status : OutboxStatus, attempts : Nat]]
        /\ delivery \in [Event -> [Subscriber -> [status : DeliveryStatus, attempts : Nat]]]
        /\ queue \in Seq(Caller)
    BY DEF TypeOK
  <1>L. \A d \in Dispatching : phase[c] = d => Holds(c)
    BY DEF LockInv, Busy
  <1>1. CASE Load(c)
    <2>1. LoadedEvents(c) \in SUBSET Event
      <3>1. c # Poller => asked[c] \in SUBSET Event
        BY DEF TypeOK, Caller
      <3> QED BY <3>1 DEF LoadedEvents, Pending
    <2>2. /\ phase' \in [Caller -> Resting \cup Dispatching] /\ phase'[c] = "next"
          /\ \A d \in Caller \ {c} : phase'[d] = phase[d]
      BY <1>1, <1>0, GotoType DEF Load, Dispatching
    <2>3. TypeOK'
      BY <1>1, <2>1, <2>2 DEF Load, TypeOK, durable
    <2>4. LockInv' /\ CursorInv'
      <3>1. ~Serving(c)' /\ ~Handling(c)'
        BY <2>2 DEF Serving, Handling
      <3>2. Holds(c) /\ queue' = queue /\ cur' = cur /\ pos' = pos
        BY <1>1 DEF Load
      <3> QED BY <2>2, <3>1, <3>2, HolderMoves
    <2> QED BY <2>3, <2>4
  <1>2. ASSUME NEW e \in Event, NoSubscriber(c, e) PROVE TypeInv'
    <2>1. Holds(c)
      BY <1>2, <1>L DEF NoSubscriber, Dispatching
    <2>2. /\ batch' \in [Caller -> SUBSET Event]
          /\ phase' \in [Caller -> Resting \cup Dispatching]
          /\ queue' \in Seq(Caller)
          /\ phase'[c] \in {"next", "error"}
          /\ phase'[c] = "next" => queue' = queue
          /\ \A d \in Caller \ {c} : phase'[d] = phase[d]
      BY <1>2, <2>1, EventFailsType DEF NoSubscriber
    <2>3. TypeOK'
      BY <1>2, <2>2 DEF NoSubscriber, TypeOK, durable
    <2>4. /\ ~Serving(c)' /\ ~Handling(c)' /\ cur' = cur /\ pos' = pos
          /\ queue' = queue \/ ~Busy(c)'
      BY <1>2, <2>2 DEF NoSubscriber, Serving, Handling, Busy, Dispatching
    <2>5. LockInv' /\ CursorInv'
      BY <2>1, <2>2, <2>4, HolderMoves
    <2> QED BY <2>3, <2>5
  <1>3. ASSUME NEW e \in Event, StartEvent(c, e) PROVE TypeInv'
    <2>1. Holds(c)
      BY <1>3, <1>L DEF StartEvent, Dispatching
    <2>2. /\ phase' \in [Caller -> Resting \cup Dispatching] /\ phase'[c] = "subscriber"
          /\ \A d \in Caller \ {c} : phase'[d] = phase[d]
      BY <1>3, <1>0, GotoType DEF StartEvent, Dispatching
    <2>3. outbox' \in [Event -> [status : OutboxStatus, attempts : Nat]]
      <3>1. outbox[e] \in [status : OutboxStatus, attempts : Nat]
        BY <1>0
      <3>2. \A n \in Nat : [outbox[e] EXCEPT !.attempts = n] \in [status : OutboxStatus, attempts : Nat]
        BY <3>1
      <3>3. PICK n \in Nat : outbox' = [outbox EXCEPT ![e] = [outbox[e] EXCEPT !.attempts = n]]
        <4>1. outbox[e].attempts \in Nat /\ outbox[e].attempts + 1 \in Nat
          BY <3>1
        <4>2. CASE outbox[e].status = "PUBLISHED"
          BY <1>3, <4>1, <4>2 DEF StartEvent
        <4>3. CASE outbox[e].status # "PUBLISHED"
          BY <1>3, <4>1, <4>3 DEF StartEvent
        <4> QED BY <4>2, <4>3
      <3> QED BY <1>0, <3>2, <3>3
    <2>4. /\ cur' \in [Caller -> Event \cup {NoEvent}] /\ pos' \in [Caller -> Nat]
          /\ cur'[c] = e /\ pos'[c] = 1
          /\ \A d \in Caller \ {c} : cur'[d] = cur[d] /\ pos'[d] = pos[d]
      BY <1>3, <1>0 DEF StartEvent
    <2>5. TypeOK'
      BY <1>3, <2>2, <2>3, <2>4 DEF StartEvent, TypeOK
    <2>6. queue' = queue /\ ~Handling(c)'
      BY <1>3, <2>2 DEF StartEvent, Handling
    <2>7. LockInv' /\ CursorInv'
      BY <2>1, <2>2, <2>4, <2>6, HolderMoves
    <2> QED BY <2>5, <2>7
  <1>4. CASE SkipCompleted(c)
    <2>1. Holds(c)
      BY <1>4, <1>L DEF SkipCompleted, AtSubscriber, Dispatching
    <2>2. /\ pos' \in [Caller -> Nat] /\ pos'[c] \in Nat \ {0}
          /\ \A d \in Caller \ {c} : pos'[d] = pos[d]
      BY <1>4, <1>0 DEF SkipCompleted
    <2>3. cur[c] \in Event
      BY <1>4 DEF SkipCompleted, AtSubscriber, CursorInv, Serving
    <2>4. TypeOK'
      BY <1>4, <2>2 DEF SkipCompleted, TypeOK, durable
    <2>5. queue' = queue /\ phase' = phase /\ cur' = cur /\ ~Handling(c)'
      BY <1>4 DEF SkipCompleted, AtSubscriber, Handling
    <2>6. LockInv' /\ CursorInv'
      BY <2>1, <2>2, <2>3, <2>5, HolderMoves
    <2> QED BY <2>4, <2>6
  <1>5. CASE ClaimDelivery(c)
    <2>1. Holds(c)
      BY <1>5, <1>L DEF ClaimDelivery, AtSubscriber, Dispatching
    <2>2. cur[c] \in Event /\ pos[c] \in Nat \ {0} /\ pos[c] <= Len(Subs[cur[c]])
      BY <1>5, <1>0 DEF ClaimDelivery, AtSubscriber, CursorInv, Serving
    <2>3. Current(c) \in Subscriber
      BY <2>2, SubsType DEF Current
    <2>4. delivery' \in [Event -> [Subscriber -> [status : DeliveryStatus, attempts : Nat]]]
      BY <1>5, <1>0, <2>2, <2>3 DEF ClaimDelivery, DeliveryStatus
    <2>5. /\ phase' \in [Caller -> Resting \cup Dispatching] /\ phase'[c] = "handling"
          /\ \A d \in Caller \ {c} : phase'[d] = phase[d]
      BY <1>5, <1>0, GotoType DEF ClaimDelivery, Dispatching
    <2>6. TypeOK'
      BY <1>5, <2>4, <2>5 DEF ClaimDelivery, TypeOK, locals
    <2>7. queue' = queue /\ cur' = cur /\ pos' = pos
      BY <1>5 DEF ClaimDelivery, locals
    <2>8. LockInv' /\ CursorInv'
      BY <2>1, <2>2, <2>5, <2>7, HolderMoves
    <2> QED BY <2>6, <2>8
  <1>6. CASE CompleteDelivery(c)
    <2>1. Holds(c)
      BY <1>6, <1>L DEF CompleteDelivery, Dispatching
    <2>2. cur[c] \in Event /\ pos[c] \in Nat \ {0} /\ pos[c] <= Len(Subs[cur[c]])
      BY <1>6, <1>0 DEF CompleteDelivery, CursorInv, Serving, Handling
    <2>3. Current(c) \in Subscriber
      BY <2>2, SubsType DEF Current
    <2>4. delivery' \in [Event -> [Subscriber -> [status : DeliveryStatus, attempts : Nat]]]
      <3>1. "COMPLETED" \in DeliveryStatus
        BY DEF DeliveryStatus
      <3> QED BY <1>6, <1>0, <2>2, <2>3, <3>1, StatusUpdate DEF CompleteDelivery
    <2>5. /\ phase' \in [Caller -> Resting \cup Dispatching] /\ phase'[c] = "subscriber"
          /\ \A d \in Caller \ {c} : phase'[d] = phase[d]
      BY <1>6, <1>0, GotoType DEF CompleteDelivery, Dispatching
    <2>6. /\ pos' \in [Caller -> Nat] /\ pos'[c] \in Nat \ {0}
          /\ \A d \in Caller \ {c} : pos'[d] = pos[d]
      BY <1>6, <1>0, <2>2 DEF CompleteDelivery
    <2>7. TypeOK'
      BY <1>6, <2>4, <2>5, <2>6 DEF CompleteDelivery, TypeOK
    <2>8. queue' = queue /\ cur' = cur /\ ~Handling(c)'
      BY <1>6, <2>5 DEF CompleteDelivery, Handling
    <2>9. LockInv' /\ CursorInv'
      BY <2>1, <2>2, <2>5, <2>6, <2>8, HolderMoves
    <2> QED BY <2>7, <2>9
  <1>7. CASE FailDelivery(c)
    <2>1. Holds(c)
      BY <1>7, <1>L DEF FailDelivery, Dispatching
    <2>2. cur[c] \in Event /\ pos[c] \in Nat \ {0} /\ pos[c] <= Len(Subs[cur[c]])
      BY <1>7, <1>0 DEF FailDelivery, CursorInv, Serving, Handling
    <2>3. Current(c) \in Subscriber
      BY <2>2, SubsType DEF Current
    <2>4. delivery' \in [Event -> [Subscriber -> [status : DeliveryStatus, attempts : Nat]]]
      <3>1. "FAILED" \in DeliveryStatus
        BY DEF DeliveryStatus
      <3> QED BY <1>7, <1>0, <2>2, <2>3, <3>1, StatusUpdate DEF FailDelivery
    <2>5. /\ batch' \in [Caller -> SUBSET Event]
          /\ phase' \in [Caller -> Resting \cup Dispatching]
          /\ queue' \in Seq(Caller)
          /\ phase'[c] \in {"next", "error"}
          /\ phase'[c] = "next" => queue' = queue
          /\ \A d \in Caller \ {c} : phase'[d] = phase[d]
      BY <1>7, <2>1, EventFailsType DEF FailDelivery
    <2>6. TypeOK'
      BY <1>7, <2>4, <2>5 DEF FailDelivery, TypeOK
    <2>7. /\ ~Serving(c)' /\ ~Handling(c)' /\ cur' = cur /\ pos' = pos
          /\ queue' = queue \/ ~Busy(c)'
      BY <1>7, <2>5 DEF FailDelivery, Serving, Handling, Busy, Dispatching
    <2>8. LockInv' /\ CursorInv'
      BY <2>1, <2>5, <2>7, HolderMoves
    <2> QED BY <2>6, <2>8
  <1>8. CASE MarkPublished(c)
    <2>1. Holds(c)
      BY <1>8, <1>L DEF MarkPublished, Dispatching
    <2>2. /\ phase' \in [Caller -> Resting \cup Dispatching] /\ phase'[c] = "next"
          /\ \A d \in Caller \ {c} : phase'[d] = phase[d]
      BY <1>8, <1>0, GotoType DEF MarkPublished, Dispatching
    <2>3. outbox' \in [Event -> [status : OutboxStatus, attempts : Nat]]
      BY <1>8, <1>0 DEF MarkPublished, OutboxStatus
    <2>4. batch' \in [Caller -> SUBSET Event]
      BY <1>8, <1>0 DEF MarkPublished
    <2>5. TypeOK'
      BY <1>8, <2>2, <2>3, <2>4 DEF MarkPublished, TypeOK
    <2>6. ~Serving(c)' /\ ~Handling(c)' /\ cur' = cur /\ pos' = pos /\ queue' = queue
      BY <1>8, <2>2 DEF MarkPublished, Serving, Handling
    <2>7. LockInv' /\ CursorInv'
      BY <2>1, <2>2, <2>6, HolderMoves
    <2> QED BY <2>5, <2>7
  <1>9. CASE Return(c)
    <2>1. Holds(c)
      BY <1>9, <1>L DEF Return, Dispatching
    <2>2. /\ phase' \in [Caller -> Resting \cup Dispatching] /\ phase'[c] \in {"idle", "ok"}
          /\ \A d \in Caller \ {c} : phase'[d] = phase[d]
      BY <1>9, <1>0, GotoType DEF Return, Resting
    <2>3. queue' \in Seq(Caller)
      BY <1>9, <1>0, <2>1, TailType DEF Return, Release, Holds
    <2>4. TypeOK'
      BY <1>9, <2>2, <2>3 DEF Return, TypeOK, durable, locals
    <2>5. ~Serving(c)' /\ ~Handling(c)' /\ cur' = cur /\ pos' = pos /\ ~Busy(c)'
      BY <1>9, <2>2 DEF Return, Serving, Handling, Busy, Dispatching, locals
    <2>6. LockInv' /\ CursorInv'
      BY <2>1, <2>2, <2>5, HolderMoves
    <2> QED BY <2>4, <2>6
  <1> QED BY <1>1, <1>2, <1>3, <1>4, <1>5, <1>6, <1>7, <1>8, <1>9 DEF Dispatch

\* The steps outside Dispatch.
LEMMA NextTypeInv == TypeInv /\ [Next]_vars => TypeInv'
  <1> SUFFICES ASSUME TypeInv, [Next]_vars PROVE TypeInv'
    OBVIOUS
  <1> USE DEF TypeInv
  <1>0. /\ phase \in [Caller -> Resting \cup Dispatching]
        /\ outbox \in [Event -> [status : OutboxStatus, attempts : Nat]]
        /\ queue \in Seq(Caller)
        /\ faults \in Nat
    BY DEF TypeOK
  <1>1. ASSUME NEW e \in Event, Emit(e) PROVE TypeInv'
    <2>1. outbox' \in [Event -> [status : OutboxStatus, attempts : Nat]]
      BY <1>1, <1>0 DEF Emit, OutboxStatus
    <2>2. TypeOK'
      BY <1>1, <2>1 DEF Emit, TypeOK, locals
    <2>3. LockInv' /\ CursorInv'
      BY <1>1 DEF Emit, locals, LockInv, CursorInv, Busy, Holds, Serving, Handling
    <2> QED BY <2>2, <2>3
  <1>2. ASSUME NEW c \in Request, NEW ids \in SUBSET Event, Call(c, ids) PROVE TypeInv'
    <2>1. c \in Caller /\ ~Busy(c)
      BY <1>2 DEF Call, Caller, Busy, Dispatching
    <2>2. /\ LockInv' /\ CursorInv' /\ queue' \in Seq(Caller)
          /\ phase' \in [Caller -> Resting \cup Dispatching]
      BY <1>2, <2>1, CallerJoins DEF Call, locals
    <2>3. TypeOK'
      BY <1>2, <2>2 DEF Call, TypeOK, locals, durable
    <2> QED BY <2>2, <2>3
  <1>3. CASE PollerTick
    <2>1. Poller \in Caller /\ ~Busy(Poller)
      BY <1>3 DEF PollerTick, Caller, Busy, Dispatching
    <2>2. /\ LockInv' /\ CursorInv' /\ queue' \in Seq(Caller)
          /\ phase' \in [Caller -> Resting \cup Dispatching]
      BY <1>3, <2>1, CallerJoins DEF PollerTick, locals
    <2>3. TypeOK'
      BY <1>3, <2>2 DEF PollerTick, TypeOK, locals, durable
    <2> QED BY <2>2, <2>3
  <1>4. ASSUME NEW c \in Caller, Dispatch(c) PROVE TypeInv'
    BY <1>4, DispatchTypeInv
  <1>5. ASSUME NEW c \in Caller, Handler(c) PROVE TypeInv'
    <2>1. Holds(c) /\ Handling(c) /\ Serving(c)
      BY <1>5 DEF Handler, HandlerReturns, HandlerRaises, LockInv, Busy, Dispatching,
                  Handling, Serving
    <2>2. /\ phase' \in [Caller -> Resting \cup Dispatching]
          /\ phase'[c] \in {"returned", "raised"}
          /\ \A d \in Caller \ {c} : phase'[d] = phase[d]
      BY <1>5, <1>0, GotoType DEF Handler, HandlerReturns, HandlerRaises, Dispatching
    <2>3. queue' = queue /\ cur' = cur /\ pos' = pos /\ faults' \in Nat
      BY <1>5, <1>0 DEF Handler, HandlerReturns, HandlerRaises, locals, Fault
    <2>4. TypeOK'
      BY <1>5, <2>2, <2>3 DEF Handler, HandlerReturns, HandlerRaises, TypeOK, locals, durable
    <2>5. cur[c] \in Event /\ pos[c] \in Nat \ {0} /\ pos[c] <= Len(Subs[cur[c]])
      BY <2>1 DEF CursorInv
    <2>6. LockInv' /\ CursorInv'
      BY <2>1, <2>2, <2>3, <2>5, HolderMoves
    <2> QED BY <2>4, <2>6
  <1>6. ASSUME NEW c \in Caller, LoadFails(c) PROVE TypeInv'
    <2>1. Holds(c)
      BY <1>6 DEF LoadFails
    <2>2. /\ phase' \in [Caller -> Resting \cup Dispatching]
          /\ phase'[c] \in {"dead", "error"}
          /\ \A d \in Caller \ {c} : phase'[d] = phase[d]
      BY <1>6, <1>0, GotoType DEF LoadFails, Resting
    <2>3. queue' \in Seq(Caller) /\ faults' \in Nat
      BY <1>6, <1>0, <2>1, TailType DEF LoadFails, Release, Holds, Fault
    <2>4. TypeOK'
      BY <1>6, <2>2, <2>3 DEF LoadFails, TypeOK, durable, locals
    <2>5. ~Serving(c)' /\ ~Handling(c)' /\ cur' = cur /\ pos' = pos /\ ~Busy(c)'
      BY <1>6, <2>2 DEF LoadFails, Serving, Handling, Busy, Dispatching, locals
    <2>6. LockInv' /\ CursorInv'
      BY <2>1, <2>2, <2>5, HolderMoves
    <2> QED BY <2>4, <2>6
  <1>7. ASSUME NEW c \in Caller, TransactionFails(c) PROVE TypeInv'
    <2>1. Holds(c)
      BY <1>7 DEF TransactionFails, LockInv, Busy, Dispatching
    <2>2. /\ batch' \in [Caller -> SUBSET Event]
          /\ phase' \in [Caller -> Resting \cup Dispatching]
          /\ queue' \in Seq(Caller)
          /\ phase'[c] \in {"next", "error"}
          /\ phase'[c] = "next" => queue' = queue
          /\ \A d \in Caller \ {c} : phase'[d] = phase[d]
      BY <1>7, <2>1, EventFailsType DEF TransactionFails
    <2>3. TypeOK'
      BY <1>7, <1>0, <2>2 DEF TransactionFails, TypeOK, durable, Fault
    <2>4. /\ ~Serving(c)' /\ ~Handling(c)' /\ cur' = cur /\ pos' = pos
          /\ queue' = queue \/ ~Busy(c)'
      BY <1>7, <2>2 DEF TransactionFails, Serving, Handling, Busy, Dispatching
    <2>5. LockInv' /\ CursorInv'
      BY <2>1, <2>2, <2>4, HolderMoves
    <2> QED BY <2>3, <2>5
  <1>8. ASSUME ProcessEnds, faults' \in Nat PROVE TypeInv'
    <2>1. TypeOK'
      <3>1. /\ up' \in BOOLEAN /\ stopping' \in BOOLEAN
            /\ outbox' = outbox /\ delivery' = delivery /\ calls' = calls
        BY <1>8 DEF ProcessEnds, durable
      <3>5. queue' \in Seq(Caller)
        BY <1>8 DEF ProcessEnds
      <3>2. phase' \in [Caller -> Resting \cup Dispatching]
        BY <1>8 DEF ProcessEnds, Resting
      <3>3. asked' \in [Request -> SUBSET Event] /\ batch' \in [Caller -> SUBSET Event]
        BY <1>8 DEF ProcessEnds
      <3>4. cur' \in [Caller -> Event \cup {NoEvent}] /\ pos' \in [Caller -> Nat]
        BY <1>8 DEF ProcessEnds
      <3> QED BY <1>8, <3>1, <3>2, <3>3, <3>4, <3>5 DEF TypeOK
    <2>2. \A c \in Caller : ~Busy(c)' /\ ~Serving(c)' /\ ~Handling(c)'
      BY <1>8 DEF ProcessEnds, Busy, Dispatching, Serving, Handling
    <2> QED BY <2>1, <2>2 DEF LockInv, CursorInv
  <1>9. CASE Crash
    BY <1>8, <1>9, <1>0 DEF Crash, Fault
  <1>10. CASE PollerExits
    BY <1>8, <1>10, <1>0 DEF PollerExits
  <1>11. CASE Shutdown \/ Restart
    <2>1. TypeOK'
      <3>1. CASE Shutdown
        BY <3>1, <1>0 DEF Shutdown, TypeOK, durable, locals, Fault
      <3>2. CASE Restart
        BY <3>2 DEF Restart, TypeOK, durable, locals
      <3> QED BY <1>11, <3>1, <3>2
    <2>2. queue' = queue /\ phase' = phase /\ cur' = cur /\ pos' = pos
      BY <1>11 DEF Shutdown, Restart, locals
    <2> QED BY <2>1, <2>2 DEF LockInv, CursorInv, Busy, Holds, Serving, Handling
  <1>12. CASE UNCHANGED vars
    BY <1>12 DEF vars, TypeOK, LockInv, CursorInv, Busy, Holds, Serving, Handling
  <1> QED BY <1>1, <1>2, <1>3, <1>4, <1>5, <1>6, <1>7, <1>9, <1>10, <1>11, <1>12 DEF Next

\* Every reachable state is typed: rows, coroutines, the lock's queue and the
\* cursor of each dispatch, whatever fails in between.
THEOREM TypeCorrect == Spec => []TypeOK
  <1>1. Spec => []TypeInv
    BY InitTypeInv, NextTypeInv, PTL DEF Spec
  <1> QED BY <1>1, PTL DEF TypeInv

-----------------------------------------------------------------------------
(***************************************************************************)
(* Delivery.  PrefixInv: what the cursor has passed is COMPLETED.          *)
(* ClaimInv: the row whose handler runs is still PROCESSING.  BatchInv: a  *)
(* dispatch holds committed events only, the one it serves among them.     *)
(* With them the two properties of the rows are inductive.                 *)
(***************************************************************************)
PrefixInv ==
    \A c \in Caller : Serving(c) =>
        \A i \in 1..Len(Subs[cur[c]]) :
            i < pos[c] => delivery[cur[c]][Subs[cur[c]][i]].status = "COMPLETED"

ClaimInv == \A c \in Caller : Handling(c) => Served(c).status = "PROCESSING"

BatchInv ==
    \A c \in Caller :
        /\ \A e \in batch[c] : outbox[e].status # "ABSENT"
        /\ Serving(c) => cur[c] \in batch[c]
        /\ c \in Request => \A e \in asked[c] : outbox[e].status # "ABSENT"

RowsInv == ServedInOrder /\ PublishedOnlyAfterAll

DeliveryInv == TypeInv /\ PrefixInv /\ ClaimInv /\ BatchInv /\ RowsInv

\* The row a dispatch serves: which one it is, and that no other position of
\* the event's registration names the same subscriber.
LEMMA ServedRow ==
    ASSUME TypeInv, NEW c \in Caller, Serving(c), pos[c] <= Len(Subs[cur[c]])
    PROVE  /\ cur[c] \in Event /\ pos[c] \in 1..Len(Subs[cur[c]])
           /\ Current(c) \in Subscriber
           /\ Served(c) \in [status : DeliveryStatus, attempts : Nat]
           /\ \A i \in 1..Len(Subs[cur[c]]) :
                 i # pos[c] => Subs[cur[c]][i] # Current(c)
  <1>1. cur[c] \in Event /\ pos[c] \in Nat \ {0}
    BY DEF TypeInv, CursorInv
  <1>2. Len(Subs[cur[c]]) \in Nat
    BY <1>1, SubsType
  <1>3. pos[c] \in 1..Len(Subs[cur[c]])
    BY <1>1, <1>2
  <1>4. Current(c) \in Subscriber
    BY <1>1, <1>3, SubsType DEF Current
  <1>5. Served(c) \in [status : DeliveryStatus, attempts : Nat]
    BY <1>1, <1>4 DEF Served, TypeInv, TypeOK
  <1>6. \A i \in 1..Len(Subs[cur[c]]) : i # pos[c] => Subs[cur[c]][i] # Current(c)
    BY <1>1, <1>3, SubsType DEF Current
  <1> QED BY <1>1, <1>3, <1>4, <1>5, <1>6

\* The one row that a dispatch may change, and the status it gives it.
RowMoves(c, st) ==
    /\ delivery'[cur[c]][Current(c)].status = st
    /\ \A f \in Event, t \in Subscriber :
          (f # cur[c] \/ t # Current(c)) => delivery'[f][t] = delivery[f][t]

\* A claim rewrites the served row.
LEMMA ClaimMoves ==
    ASSUME TypeInv, NEW c \in Caller, ClaimDelivery(c)
    PROVE  /\ RowMoves(c, "PROCESSING")
           /\ delivery'[cur[c]][Current(c)].attempts = Served(c).attempts + 1
  <1>1. Serving(c) /\ pos[c] <= Len(Subs[cur[c]])
    BY DEF ClaimDelivery, AtSubscriber, Serving
  <1>2. cur[c] \in Event /\ Current(c) \in Subscriber
    BY <1>1, ServedRow
  <1>3. delivery \in [Event -> [Subscriber -> [status : DeliveryStatus, attempts : Nat]]]
    BY DEF TypeInv, TypeOK
  <1> DEFINE row == [status |-> "PROCESSING", attempts |-> Served(c).attempts + 1]
  <1>4. delivery' = [delivery EXCEPT ![cur[c]] = [delivery[cur[c]] EXCEPT ![Current(c)] = row]]
    BY DEF ClaimDelivery, Served
  <1>5. row.status = "PROCESSING" /\ row.attempts = Served(c).attempts + 1
    OBVIOUS
  <1> HIDE DEF row
  <1>6. /\ delivery'[cur[c]][Current(c)] = row
        /\ \A f \in Event, t \in Subscriber :
              (f # cur[c] \/ t # Current(c)) => delivery'[f][t] = delivery[f][t]
    BY <1>2, <1>3, <1>4
  <1> QED BY <1>5, <1>6 DEF RowMoves

\* Finishing or failing a delivery rewrites the served row's status.
LEMMA FinishMoves ==
    ASSUME TypeInv, NEW c \in Caller, Handling(c), NEW st \in DeliveryStatus,
           delivery' = [delivery EXCEPT ![cur[c]][Current(c)].status = st]
    PROVE  /\ RowMoves(c, st)
           /\ delivery'[cur[c]][Current(c)].attempts = Served(c).attempts
  <1>1. Serving(c) /\ pos[c] <= Len(Subs[cur[c]])
    BY DEF Handling, Serving, TypeInv, CursorInv
  <1>2. cur[c] \in Event /\ Current(c) \in Subscriber
    BY <1>1, ServedRow
  <1> QED BY <1>2, StatusUpdate DEF TypeInv, TypeOK, RowMoves, Served

\* Moving a row that is not COMPLETED, with all earlier ones COMPLETED, keeps
\* the order of service and what PUBLISHED means.
LEMMA RowMovesSafely ==
    ASSUME DeliveryInv, NEW c \in Caller, Serving(c), pos[c] <= Len(Subs[cur[c]]),
           NEW st, RowMoves(c, st), Served(c).status # "COMPLETED",
           outbox' = outbox
    PROVE  RowsInv'
  <1>1. /\ cur[c] \in Event /\ pos[c] \in 1..Len(Subs[cur[c]])
        /\ Current(c) \in Subscriber
        /\ \A i \in 1..Len(Subs[cur[c]]) : i # pos[c] => Subs[cur[c]][i] # Current(c)
    BY ServedRow DEF DeliveryInv
  <1>2. \A e \in Event : \A i \in DOMAIN Subs[e] :
           (e # cur[c] \/ i # pos[c]) => delivery'[e][Subs[e][i]] = delivery[e][Subs[e][i]]
    BY <1>1, SubsType DEF RowMoves
  <1>3. \A i \in DOMAIN Subs[cur[c]] :
           i < pos[c] => delivery[cur[c]][Subs[cur[c]][i]].status = "COMPLETED"
    BY <1>1, SubsType DEF DeliveryInv, PrefixInv
  <1>4. delivery[cur[c]][Subs[cur[c]][pos[c]]].status # "COMPLETED"
    BY DEF Served, Current
  <1>5. ServedInOrder'
    <2> SUFFICES ASSUME NEW e \in Event, NEW i \in DOMAIN Subs[e], NEW j \in DOMAIN Subs[e],
                        i < j, delivery'[e][Subs[e][j]].status # "NONE"
                 PROVE  delivery'[e][Subs[e][i]].status = "COMPLETED"
      BY DEF ServedInOrder
    <2>1. CASE e # cur[c]
      BY <2>1, <1>2 DEF DeliveryInv, RowsInv, ServedInOrder
    <2>2. CASE e = cur[c] /\ j = pos[c]
      BY <2>2, <1>2, <1>3
    <2>3. CASE e = cur[c] /\ j # pos[c]
      <3>1. delivery[e][Subs[e][j]].status # "NONE"
        BY <2>3, <1>2
      <3>2. delivery[e][Subs[e][i]].status = "COMPLETED"
        BY <3>1 DEF DeliveryInv, RowsInv, ServedInOrder
      <3>3. i # pos[c]
        BY <3>2, <2>3, <1>4
      <3> QED BY <3>2, <3>3, <1>2
    <2> QED BY <2>1, <2>2, <2>3
  <1>6. PublishedOnlyAfterAll'
    <2> SUFFICES ASSUME NEW e \in Event, outbox[e].status = "PUBLISHED",
                        NEW i \in DOMAIN Subs[e]
                 PROVE  delivery'[e][Subs[e][i]].status = "COMPLETED"
      BY DEF PublishedOnlyAfterAll, AllCompleted
    <2>1. \A k \in DOMAIN Subs[e] : delivery[e][Subs[e][k]].status = "COMPLETED"
      BY DEF DeliveryInv, RowsInv, PublishedOnlyAfterAll, AllCompleted
    <2>2. e # cur[c]
      BY <2>1, <1>1, <1>4, SubsType
    <2> QED BY <2>1, <2>2, <1>2
  <1> QED BY <1>5, <1>6 DEF RowsInv

\* A step of the lock's holder: only what it says of the holder is left to
\* show.
LEMMA HolderDelivers ==
    ASSUME DeliveryInv, NEW c \in Caller, Holds(c), asked' = asked,
           \A d \in Caller \ {c} : phase'[d] = phase[d] /\ batch'[d] = batch[d],
           \A e \in Event : outbox[e].status # "ABSENT" => outbox'[e].status # "ABSENT",
           \A e \in batch'[c] : e \in Event /\ outbox'[e].status # "ABSENT",
           Serving(c)' =>
               /\ cur'[c] \in batch'[c]
               /\ \A i \in 1..Len(Subs[cur'[c]]) :
                     i < pos'[c] => delivery'[cur'[c]][Subs[cur'[c]][i]].status = "COMPLETED",
           Handling(c)' => Served(c)'.status = "PROCESSING"
    PROVE  PrefixInv' /\ ClaimInv' /\ BatchInv'
  <1>1. \A d \in Caller \ {c} : ~Busy(d)
    BY DEF DeliveryInv, TypeInv, LockInv, Holds
  <1>2. \A d \in Caller \ {c} : ~Serving(d)' /\ ~Handling(d)'
    BY <1>1 DEF Busy, Dispatching, Serving, Handling
  <1>3. PrefixInv' /\ ClaimInv'
    BY <1>2 DEF PrefixInv, ClaimInv
  <1>4. /\ batch \in [Caller -> SUBSET Event] /\ asked \in [Request -> SUBSET Event]
    BY DEF DeliveryInv, TypeInv, TypeOK
  <1>5. BatchInv'
    <2> SUFFICES ASSUME NEW d \in Caller
                 PROVE  /\ \A e \in batch'[d] : outbox'[e].status # "ABSENT"
                        /\ Serving(d)' => cur'[d] \in batch'[d]
                        /\ d \in Request => \A e \in asked'[d] : outbox'[e].status # "ABSENT"
      BY DEF BatchInv
    <2>1. \A e \in batch'[d] : outbox'[e].status # "ABSENT"
      <3>1. CASE d = c
        BY <3>1
      <3>2. CASE d # c
        BY <3>2, <1>4 DEF DeliveryInv, BatchInv
      <3> QED BY <3>1, <3>2
    <2>2. Serving(d)' => cur'[d] \in batch'[d]
      BY <1>2
    <2>3. d \in Request => \A e \in asked'[d] : outbox'[e].status # "ABSENT"
      BY <1>4 DEF DeliveryInv, BatchInv
    <2> QED BY <2>1, <2>2, <2>3
  <1> QED BY <1>3, <1>5

\* An exception leaves the holder outside every delivery, with less to do.
LEMMA FailureDelivers ==
    ASSUME DeliveryInv, NEW c \in Caller, NEW e \in Event, Holds(c), EventFails(c, e),
           asked' = asked, outbox' = outbox
    PROVE  PrefixInv' /\ ClaimInv' /\ BatchInv'
  <1>1. /\ phase'[c] \in {"next", "error"}
        /\ \A d \in Caller \ {c} : phase'[d] = phase[d]
    BY EventFailsType DEF DeliveryInv
  <1>2. batch \in [Caller -> SUBSET Event]
    BY DEF DeliveryInv, TypeInv, TypeOK
  <1>3. batch'[c] \subseteq batch[c] /\ \A d \in Caller \ {c} : batch'[d] = batch[d]
    BY <1>2 DEF EventFails
  <1>4. \A f \in batch'[c] : f \in Event /\ outbox'[f].status # "ABSENT"
    BY <1>2, <1>3 DEF DeliveryInv, BatchInv
  <1>5. ~Serving(c)' /\ ~Handling(c)'
    BY <1>1 DEF Serving, Handling
  <1> QED BY <1>1, <1>3, <1>4, <1>5, HolderDelivers

\* Each dispatch step keeps the delivery invariant.
LEMMA DispatchDeliveryInv ==
    ASSUME DeliveryInv, NEW c \in Caller, Dispatch(c)
    PROVE  DeliveryInv'
  <1>0. /\ phase \in [Caller -> Resting \cup Dispatching]
        /\ batch \in [Caller -> SUBSET Event]
        /\ cur \in [Caller -> Event \cup {NoEvent}]
        /\ pos \in [Caller -> Nat]
        /\ outbox \in [Event -> [status : OutboxStatus, attempts : Nat]]
        /\ delivery \in [Event -> [Subscriber -> [status : DeliveryStatus, attempts : Nat]]]
    BY DEF DeliveryInv, TypeInv, TypeOK
  <1>T. TypeInv'
    BY DispatchTypeInv DEF DeliveryInv
  <1>L. \A d \in Dispatching : phase[c] = d => Holds(c)
    BY DEF DeliveryInv, TypeInv, LockInv, Busy
  <1>B. \A e \in batch[c] : e \in Event /\ outbox[e].status # "ABSENT"
    BY <1>0 DEF DeliveryInv, BatchInv
  <1>1. CASE Load(c)
    <2>1. \A e \in LoadedEvents(c) : e \in Event /\ outbox[e].status # "ABSENT"
      <3>1. c # Poller => asked[c] \in SUBSET Event
        BY DEF DeliveryInv, TypeInv, TypeOK, Caller
      <3> QED BY <3>1 DEF LoadedEvents, Pending
    <2>2. /\ batch'[c] = LoadedEvents(c) /\ phase'[c] = "next"
          /\ \A d \in Caller \ {c} : phase'[d] = phase[d] /\ batch'[d] = batch[d]
      BY <1>1, <1>0 DEF Load, Goto
    <2>3. /\ Holds(c) /\ asked' = asked /\ outbox' = outbox /\ delivery' = delivery
          /\ ~Serving(c)' /\ ~Handling(c)'
      BY <1>1, <2>2 DEF Load, durable, Serving, Handling
    <2>4. PrefixInv' /\ ClaimInv' /\ BatchInv'
      BY <2>1, <2>2, <2>3, HolderDelivers
    <2> QED BY <1>T, <2>3, <2>4 DEF DeliveryInv, RowsInv, ServedInOrder, PublishedOnlyAfterAll,
                                    AllCompleted
  <1>2. ASSUME NEW e \in Event, NoSubscriber(c, e) PROVE DeliveryInv'
    <2>1. Holds(c) /\ EventFails(c, e) /\ asked' = asked /\ outbox' = outbox /\ delivery' = delivery
      BY <1>2, <1>L DEF NoSubscriber, Dispatching, durable
    <2>2. PrefixInv' /\ ClaimInv' /\ BatchInv'
      BY <2>1, FailureDelivers
    <2> QED BY <1>T, <2>1, <2>2 DEF DeliveryInv, RowsInv, ServedInOrder, PublishedOnlyAfterAll,
                                    AllCompleted
  <1>3. ASSUME NEW e \in Event, StartEvent(c, e) PROVE DeliveryInv'
    <2>1. /\ Holds(c) /\ e \in batch[c] /\ asked' = asked /\ batch' = batch
          /\ delivery' = delivery
      BY <1>3, <1>L DEF StartEvent, Dispatching, MayStart
    <2>2. \A f \in Event : outbox'[f].status = outbox[f].status
      BY <1>3, <1>0 DEF StartEvent
    <2>3. /\ cur'[c] = e /\ pos'[c] = 1 /\ phase'[c] = "subscriber"
          /\ \A d \in Caller \ {c} : phase'[d] = phase[d]
      BY <1>3, <1>0 DEF StartEvent, Goto
    <2>4. ~Handling(c)' /\ \A i \in 1..Len(Subs[e]) : ~(i < pos'[c])
      BY <2>3, SubsType DEF Handling
    <2>5. PrefixInv' /\ ClaimInv' /\ BatchInv'
      BY <1>B, <2>1, <2>2, <2>3, <2>4, HolderDelivers
    <2>6. RowsInv'
      BY <2>1, <2>2 DEF DeliveryInv, RowsInv, ServedInOrder, PublishedOnlyAfterAll, AllCompleted
    <2> QED BY <1>T, <2>5, <2>6 DEF DeliveryInv
  <1>4. CASE SkipCompleted(c)
    <2>1. /\ Holds(c) /\ Serving(c) /\ pos[c] <= Len(Subs[cur[c]])
          /\ Served(c).status = "COMPLETED"
      BY <1>4, <1>L DEF SkipCompleted, AtSubscriber, Dispatching, Serving
    <2>2. /\ asked' = asked /\ batch' = batch /\ outbox' = outbox /\ delivery' = delivery
          /\ phase' = phase /\ cur' = cur /\ phase[c] = "subscriber"
      BY <1>4 DEF SkipCompleted, AtSubscriber, durable
    <2>3. cur[c] \in Event /\ pos[c] \in 1..Len(Subs[cur[c]]) /\ Len(Subs[cur[c]]) \in Nat
      BY <2>1, ServedRow, SubsType DEF DeliveryInv
    <2>4. pos'[c] = pos[c] + 1
      BY <1>4, <1>0 DEF SkipCompleted
    <2>5. \A i \in 1..Len(Subs[cur[c]]) :
             i < pos'[c] => delivery[cur[c]][Subs[cur[c]][i]].status = "COMPLETED"
      BY <2>1, <2>3, <2>4 DEF DeliveryInv, PrefixInv, Served, Current
    <2>6. cur[c] \in batch[c] /\ ~Handling(c)'
      BY <2>1, <2>2 DEF DeliveryInv, BatchInv, Handling
    <2>7. PrefixInv' /\ ClaimInv' /\ BatchInv'
      BY <1>B, <2>1, <2>2, <2>5, <2>6, HolderDelivers
    <2> QED BY <1>T, <2>2, <2>7 DEF DeliveryInv, RowsInv, ServedInOrder, PublishedOnlyAfterAll,
                                    AllCompleted
  <1>5. CASE ClaimDelivery(c)
    <2>1. /\ Holds(c) /\ Serving(c) /\ pos[c] <= Len(Subs[cur[c]])
          /\ Served(c).status # "COMPLETED"
      BY <1>5, <1>L DEF ClaimDelivery, AtSubscriber, Dispatching, Serving
    <2>2. /\ asked' = asked /\ batch' = batch /\ outbox' = outbox
          /\ cur' = cur /\ pos' = pos
          /\ \A d \in Caller \ {c} : phase'[d] = phase[d]
      BY <1>5, <1>0 DEF ClaimDelivery, locals, Goto
    <2>3. RowMoves(c, "PROCESSING")
      BY <1>5, ClaimMoves DEF DeliveryInv
    <2>4. RowsInv'
      BY <2>1, <2>2, <2>3, RowMovesSafely
    <2>5. /\ cur[c] \in Event /\ cur[c] \in batch[c]
          /\ \A i \in 1..Len(Subs[cur[c]]) :
                 i # pos[c] => Subs[cur[c]][i] # Current(c) /\ Subs[cur[c]][i] \in Subscriber
      BY <2>1, ServedRow, SubsType DEF DeliveryInv, BatchInv
    <2>6. \A i \in 1..Len(Subs[cur[c]]) :
             i < pos[c] => delivery'[cur[c]][Subs[cur[c]][i]].status = "COMPLETED"
      <3> SUFFICES ASSUME NEW i \in 1..Len(Subs[cur[c]]), i < pos[c]
                   PROVE  delivery'[cur[c]][Subs[cur[c]][i]].status = "COMPLETED"
        OBVIOUS
      <3>1. i # pos[c]
        BY <1>0
      <3>2. delivery[cur[c]][Subs[cur[c]][i]].status = "COMPLETED"
        BY <2>1 DEF DeliveryInv, PrefixInv
      <3> QED BY <3>1, <3>2, <2>3, <2>5 DEF RowMoves
    <2>7. Served(c)'.status = "PROCESSING"
      BY <2>2, <2>3 DEF RowMoves, Served, Current
    <2>8. PrefixInv' /\ ClaimInv' /\ BatchInv'
      BY <1>B, <2>1, <2>2, <2>5, <2>6, <2>7, HolderDelivers
    <2> QED BY <1>T, <2>4, <2>8 DEF DeliveryInv
  <1>6. CASE CompleteDelivery(c)
    <2>1. /\ Holds(c) /\ Serving(c) /\ Handling(c) /\ pos[c] <= Len(Subs[cur[c]])
          /\ Served(c).status = "PROCESSING"
      BY <1>6, <1>L DEF CompleteDelivery, Dispatching, Serving, Handling,
                        DeliveryInv, TypeInv, CursorInv, ClaimInv
    <2>2. /\ asked' = asked /\ batch' = batch /\ outbox' = outbox /\ cur' = cur
          /\ phase'[c] = "subscriber" /\ pos'[c] = pos[c] + 1
          /\ \A d \in Caller \ {c} : phase'[d] = phase[d]
      BY <1>6, <1>0 DEF CompleteDelivery, Goto
    <2>3. RowMoves(c, "COMPLETED")
      BY <1>6, <2>1, FinishMoves DEF DeliveryInv, CompleteDelivery, DeliveryStatus
    <2>4. RowsInv'
      BY <2>1, <2>2, <2>3, RowMovesSafely
    <2>5. /\ cur[c] \in Event /\ cur[c] \in batch[c] /\ pos[c] \in Nat
          /\ Len(Subs[cur[c]]) \in Nat
          /\ \A i \in 1..Len(Subs[cur[c]]) :
                 i # pos[c] => Subs[cur[c]][i] # Current(c) /\ Subs[cur[c]][i] \in Subscriber
      BY <2>1, <1>0, ServedRow, SubsType DEF DeliveryInv, BatchInv
    <2>6. \A i \in 1..Len(Subs[cur[c]]) :
             i < pos'[c] => delivery'[cur[c]][Subs[cur[c]][i]].status = "COMPLETED"
      <3> SUFFICES ASSUME NEW i \in 1..Len(Subs[cur[c]]), i < pos[c] + 1
                   PROVE  delivery'[cur[c]][Subs[cur[c]][i]].status = "COMPLETED"
        BY <2>2
      <3>1. CASE i = pos[c]
        BY <3>1, <2>3 DEF RowMoves, Current
      <3>2. CASE i # pos[c]
        <4>1. i < pos[c]
          BY <3>2, <2>5
        <4> QED BY <3>2, <4>1, <2>1, <2>3, <2>5 DEF RowMoves, DeliveryInv, PrefixInv
      <3> QED BY <3>1, <3>2
    <2>7. ~Handling(c)'
      BY <2>2 DEF Handling
    <2>8. PrefixInv' /\ ClaimInv' /\ BatchInv'
      BY <1>B, <2>1, <2>2, <2>5, <2>6, <2>7, HolderDelivers
    <2> QED BY <1>T, <2>4, <2>8 DEF DeliveryInv
  <1>7. CASE FailDelivery(c)
    <2>1. /\ Holds(c) /\ Serving(c) /\ Handling(c) /\ pos[c] <= Len(Subs[cur[c]])
          /\ Served(c).status = "PROCESSING" /\ cur[c] \in Event
      BY <1>7, <1>L DEF FailDelivery, Dispatching, Serving, Handling,
                        DeliveryInv, TypeInv, CursorInv, ClaimInv
    <2>2. asked' = asked /\ outbox' = outbox /\ EventFails(c, cur[c])
      BY <1>7 DEF FailDelivery
    <2>3. RowMoves(c, "FAILED")
      BY <1>7, <2>1, FinishMoves DEF DeliveryInv, FailDelivery, DeliveryStatus
    <2>4. RowsInv'
      BY <2>1, <2>2, <2>3, RowMovesSafely
    <2>5. PrefixInv' /\ ClaimInv' /\ BatchInv'
      BY <2>1, <2>2, FailureDelivers
    <2> QED BY <1>T, <2>4, <2>5 DEF DeliveryInv
  <1>8. CASE MarkPublished(c)
    <2>1. /\ Holds(c) /\ cur[c] \in Event
      BY <1>8, <1>L DEF MarkPublished, Dispatching, Serving, DeliveryInv, TypeInv, CursorInv
    <2>2. /\ asked' = asked /\ delivery' = delivery /\ phase'[c] = "next"
          /\ batch'[c] \subseteq batch[c]
          /\ \A d \in Caller \ {c} : phase'[d] = phase[d] /\ batch'[d] = batch[d]
      BY <1>8, <1>0 DEF MarkPublished, Goto
    <2>3. \A e \in Event : outbox'[e].status # outbox[e].status =>
             outbox'[e].status = "PUBLISHED" /\ AllCompleted(e)
      <3>1. CASE AllCompleted(cur[c])
        <4>1. outbox' = [outbox EXCEPT ![cur[c]].status = "PUBLISHED"]
          BY <1>8, <3>1 DEF MarkPublished
        <4> QED BY <4>1, <1>0, <3>1
      <3>2. CASE ~AllCompleted(cur[c])
        BY <1>8, <3>2 DEF MarkPublished
      <3> QED BY <3>1, <3>2
    <2>4. RowsInv'
      <3>1. ServedInOrder'
        BY <2>2 DEF DeliveryInv, RowsInv, ServedInOrder
      <3>2. PublishedOnlyAfterAll'
        BY <2>2, <2>3 DEF DeliveryInv, RowsInv, PublishedOnlyAfterAll, AllCompleted
      <3> QED BY <3>1, <3>2 DEF RowsInv
    <2>5. \A e \in Event : outbox[e].status # "ABSENT" => outbox'[e].status # "ABSENT"
      BY <2>3
    <2>6. \A e \in batch'[c] : e \in Event /\ outbox'[e].status # "ABSENT"
      BY <1>B, <2>2, <2>5
    <2>7. ~Serving(c)' /\ ~Handling(c)'
      BY <2>2 DEF Serving, Handling
    <2>8. PrefixInv' /\ ClaimInv' /\ BatchInv'
      BY <2>1, <2>2, <2>5, <2>6, <2>7, HolderDelivers
    <2> QED BY <1>T, <2>4, <2>8 DEF DeliveryInv
  <1>9. CASE Return(c)
    <2>1. /\ Holds(c) /\ asked' = asked /\ outbox' = outbox /\ delivery' = delivery
          /\ batch' = batch /\ phase'[c] \in {"idle", "ok"}
          /\ \A d \in Caller \ {c} : phase'[d] = phase[d]
      BY <1>9, <1>0, <1>L DEF Return, durable, locals, Dispatching, Goto
    <2>2. ~Serving(c)' /\ ~Handling(c)'
      BY <2>1 DEF Serving, Handling
    <2>3. PrefixInv' /\ ClaimInv' /\ BatchInv'
      BY <1>B, <2>1, <2>2, HolderDelivers
    <2> QED BY <1>T, <2>1, <2>3 DEF DeliveryInv, RowsInv, ServedInOrder, PublishedOnlyAfterAll,
                                    AllCompleted
  <1> QED BY <1>1, <1>2, <1>3, <1>4, <1>5, <1>6, <1>7, <1>8, <1>9 DEF Dispatch

\* No dispatch is running in the first state and no row says anything.
LEMMA InitDeliveryInv == Init => DeliveryInv
  <1> SUFFICES ASSUME Init PROVE DeliveryInv
    OBVIOUS
  <1>1. \A e \in Event, s \in Subscriber :
           outbox[e].status = "ABSENT" /\ delivery[e][s].status = "NONE"
    BY DEF Init
  <1>2. RowsInv
    BY <1>1, SubsType DEF RowsInv, ServedInOrder, PublishedOnlyAfterAll, AllCompleted
  <1>3. PrefixInv /\ ClaimInv /\ BatchInv
    BY DEF Init, PrefixInv, ClaimInv, BatchInv, Serving, Handling
  <1> QED BY <1>2, <1>3, InitTypeInv DEF DeliveryInv

\* Steps that touch no delivery row keep what the rows say.
LEMMA RowsUntouched ==
    ASSUME DeliveryInv, delivery' = delivery,
           \A e \in Event : outbox'[e].status = "PUBLISHED" => outbox[e].status = "PUBLISHED"
    PROVE  RowsInv'
  BY DEF DeliveryInv, RowsInv, ServedInOrder, PublishedOnlyAfterAll, AllCompleted

\* Every step of the system keeps the delivery invariant.
LEMMA NextDeliveryInv == DeliveryInv /\ [Next]_vars => DeliveryInv'
  <1> SUFFICES ASSUME DeliveryInv, [Next]_vars PROVE DeliveryInv'
    OBVIOUS
  <1>0. /\ phase \in [Caller -> Resting \cup Dispatching]
        /\ batch \in [Caller -> SUBSET Event]
        /\ asked \in [Request -> SUBSET Event]
        /\ outbox \in [Event -> [status : OutboxStatus, attempts : Nat]]
    BY DEF DeliveryInv, TypeInv, TypeOK
  <1>T. TypeInv'
    BY NextTypeInv DEF DeliveryInv
  <1>1. ASSUME NEW e \in Event, Emit(e) PROVE DeliveryInv'
    <2>1. /\ delivery' = delivery /\ batch' = batch /\ cur' = cur /\ pos' = pos
          /\ phase' = phase /\ asked' = asked
      BY <1>1 DEF Emit, locals
    <2>2. \A f \in Event : outbox'[f].status = outbox[f].status \/ outbox'[f].status = "PENDING"
      BY <1>1, <1>0 DEF Emit
    <2>3. RowsInv'
      BY <2>1, <2>2, RowsUntouched
    <2>4. PrefixInv' /\ ClaimInv'
      BY <2>1 DEF DeliveryInv, PrefixInv, ClaimInv, Serving, Handling, Served, Current
    <2>5. BatchInv'
      BY <2>1, <2>2, <1>0 DEF DeliveryInv, BatchInv, Serving
    <2> QED BY <1>T, <2>3, <2>4, <2>5 DEF DeliveryInv
  <1>2. ASSUME NEW c \in Request, NEW ids \in SUBSET Event, Call(c, ids) PROVE DeliveryInv'
    <2>1. /\ delivery' = delivery /\ outbox' = outbox /\ batch' = batch /\ cur' = cur
          /\ pos' = pos /\ asked' = [asked EXCEPT ![c] = ids]
          /\ \A e \in ids : outbox[e].status # "ABSENT"
      BY <1>2 DEF Call, locals, durable
    <2>2. c \in Caller /\ phase'[c] = "waiting" /\ \A d \in Caller \ {c} : phase'[d] = phase[d]
      BY <1>2, <1>0 DEF Call, Goto, Caller
    <2>3. RowsInv'
      BY <2>1, RowsUntouched
    <2>4. \A d \in Caller : (Serving(d)' => Serving(d)) /\ (Handling(d)' => Handling(d))
      BY <2>2 DEF Serving, Handling
    <2>5. PrefixInv' /\ ClaimInv'
      BY <2>1, <2>4 DEF DeliveryInv, PrefixInv, ClaimInv, Served, Current
    <2>6. BatchInv'
      BY <2>1, <2>4, <1>0 DEF DeliveryInv, BatchInv
    <2> QED BY <1>T, <2>3, <2>5, <2>6 DEF DeliveryInv
  <1>3. CASE PollerTick
    <2>1. /\ delivery' = delivery /\ outbox' = outbox /\ batch' = batch /\ cur' = cur
          /\ pos' = pos /\ asked' = asked
      BY <1>3 DEF PollerTick, locals, durable
    <2>2. \A d \in Caller : (Serving(d)' => Serving(d)) /\ (Handling(d)' => Handling(d))
      BY <1>3, <1>0 DEF PollerTick, Goto, Serving, Handling
    <2>3. RowsInv'
      BY <2>1, RowsUntouched
    <2>4. PrefixInv' /\ ClaimInv' /\ BatchInv'
      BY <2>1, <2>2 DEF DeliveryInv, PrefixInv, ClaimInv, BatchInv, Served, Current
    <2> QED BY <1>T, <2>3, <2>4 DEF DeliveryInv
  <1>4. ASSUME NEW c \in Caller, Dispatch(c) PROVE DeliveryInv'
    BY <1>4, DispatchDeliveryInv
  <1>5. ASSUME NEW c \in Caller, Handler(c) PROVE DeliveryInv'
    <2>1. /\ delivery' = delivery /\ outbox' = outbox /\ batch' = batch /\ cur' = cur
          /\ pos' = pos /\ asked' = asked
      BY <1>5 DEF Handler, HandlerReturns, HandlerRaises, locals, durable
    <2>2. \A d \in Caller : Serving(d)' = Serving(d) /\ Handling(d)' = Handling(d)
      BY <1>5, <1>0 DEF Handler, HandlerReturns, HandlerRaises, Goto, Serving, Handling
    <2>3. RowsInv'
      BY <2>1, RowsUntouched
    <2>4. PrefixInv' /\ ClaimInv' /\ BatchInv'
      BY <2>1, <2>2 DEF DeliveryInv, PrefixInv, ClaimInv, BatchInv, Served, Current
    <2> QED BY <1>T, <2>3, <2>4 DEF DeliveryInv
  <1>6. ASSUME NEW c \in Caller, LoadFails(c) PROVE DeliveryInv'
    <2>1. /\ delivery' = delivery /\ outbox' = outbox /\ batch' = batch /\ cur' = cur
          /\ pos' = pos /\ asked' = asked
      BY <1>6 DEF LoadFails, locals, durable
    <2>2. \A d \in Caller : (Serving(d)' => Serving(d)) /\ (Handling(d)' => Handling(d))
      BY <1>6, <1>0 DEF LoadFails, Goto, Serving, Handling
    <2>3. RowsInv'
      BY <2>1, RowsUntouched
    <2>4. PrefixInv' /\ ClaimInv' /\ BatchInv'
      BY <2>1, <2>2 DEF DeliveryInv, PrefixInv, ClaimInv, BatchInv, Served, Current
    <2> QED BY <1>T, <2>3, <2>4 DEF DeliveryInv
  <1>7. ASSUME NEW c \in Caller, TransactionFails(c) PROVE DeliveryInv'
    <2>1. /\ Holds(c)
          /\ phase[c] # "next" => cur[c] \in Event
      BY <1>7 DEF TransactionFails, DeliveryInv, TypeInv, LockInv, Busy, Dispatching,
                  CursorInv, Serving
    <2>2. /\ delivery' = delivery /\ outbox' = outbox /\ asked' = asked
          /\ \E e \in Event : EventFails(c, e)
      BY <1>7, <2>1 DEF TransactionFails, durable
    <2>3. PrefixInv' /\ ClaimInv' /\ BatchInv'
      BY <2>1, <2>2, FailureDelivers
    <2>4. RowsInv'
      BY <2>2, RowsUntouched
    <2> QED BY <1>T, <2>3, <2>4 DEF DeliveryInv
  <1>8. ASSUME ProcessEnds PROVE DeliveryInv'
    <2>1. /\ delivery' = delivery /\ outbox' = outbox
          /\ \A c \in Caller : batch'[c] = {} /\ ~Serving(c)' /\ ~Handling(c)'
          /\ \A c \in Request : asked'[c] = {}
      BY <1>8 DEF ProcessEnds, durable, Serving, Handling
    <2>2. PrefixInv' /\ ClaimInv' /\ BatchInv'
      BY <2>1 DEF PrefixInv, ClaimInv, BatchInv
    <2>3. RowsInv'
      BY <2>1, RowsUntouched
    <2> QED BY <1>T, <2>2, <2>3 DEF DeliveryInv
  <1>9. CASE Crash \/ PollerExits
    BY <1>8, <1>9 DEF Crash, PollerExits
  <1>10. CASE Shutdown \/ Restart \/ UNCHANGED vars
    <2>1. /\ delivery' = delivery /\ outbox' = outbox /\ batch' = batch /\ cur' = cur
          /\ pos' = pos /\ asked' = asked /\ phase' = phase
      BY <1>10 DEF Shutdown, Restart, vars, locals, durable
    <2>2. PrefixInv' /\ ClaimInv' /\ BatchInv'
      BY <2>1 DEF DeliveryInv, PrefixInv, ClaimInv, BatchInv, Served, Current, Serving, Handling
    <2>3. RowsInv'
      BY <2>1, RowsUntouched
    <2> QED BY <1>T, <2>2, <2>3 DEF DeliveryInv
  <1> QED BY <1>1, <1>2, <1>3, <1>4, <1>5, <1>6, <1>7, <1>9, <1>10 DEF Next

\* The delivery invariant holds in every reachable state.
LEMMA DeliveryInvariance == Spec => []DeliveryInv
  BY InitDeliveryInv, NextDeliveryInv, PTL DEF Spec

\* The poller never stops offering an event that a subscriber still needs:
\* PUBLISHED means every registered subscriber completed.
THEOREM PublishedSafe == Spec => []PublishedOnlyAfterAll
  <1>1. DeliveryInv => PublishedOnlyAfterAll
    BY DEF DeliveryInv, RowsInv
  <1> QED BY <1>1, DeliveryInvariance, PTL

\* Subscribers of an event are served in registration order, across retries
\* and crashes.
THEOREM InOrder == Spec => []ServedInOrder
  <1>1. DeliveryInv => ServedInOrder
    BY DEF DeliveryInv, RowsInv
  <1> QED BY <1>1, DeliveryInvariance, PTL

\* The dispatch lock lets one subscriber handler run at a time.
THEOREM HandlersExclude == Spec => []OneHandlerAtATime
  <1>1. DeliveryInv => OneHandlerAtATime
    BY DEF DeliveryInv, TypeInv, LockInv, Holds, Busy, Dispatching, OneHandlerAtATime
  <1> QED BY <1>1, DeliveryInvariance, PTL

-----------------------------------------------------------------------------
\* What a step does to the rows: nothing, or it moves the row a dispatch
\* serves, which is not COMPLETED, to PROCESSING, FAILED or COMPLETED.
LEMMA RowsStep ==
    ASSUME DeliveryInv, [Next]_vars
    PROVE  \/ delivery' = delivery
           \/ \E c \in Caller :
                 /\ Serving(c) /\ pos[c] <= Len(Subs[cur[c]])
                 /\ Served(c).status # "COMPLETED"
                 /\ outbox' = outbox
                 /\ \/ RowMoves(c, "PROCESSING") \/ RowMoves(c, "FAILED")
                    \/ RowMoves(c, "COMPLETED")
  <1>1. ASSUME NEW c \in Caller, ClaimDelivery(c)
        PROVE  /\ Serving(c) /\ pos[c] <= Len(Subs[cur[c]])
               /\ Served(c).status # "COMPLETED" /\ outbox' = outbox
               /\ RowMoves(c, "PROCESSING")
    BY <1>1, ClaimMoves DEF ClaimDelivery, AtSubscriber, Serving, DeliveryInv
  <1>2. ASSUME NEW c \in Caller, Handling(c)
        PROVE  /\ Serving(c) /\ pos[c] <= Len(Subs[cur[c]])
               /\ Served(c).status # "COMPLETED"
    BY <1>2 DEF Handling, Serving, DeliveryInv, TypeInv, CursorInv, ClaimInv
  <1>3. ASSUME NEW c \in Caller, FailDelivery(c)
        PROVE  Handling(c) /\ outbox' = outbox /\ RowMoves(c, "FAILED")
    BY <1>3, FinishMoves DEF FailDelivery, Handling, DeliveryInv, DeliveryStatus
  <1>4. ASSUME NEW c \in Caller, CompleteDelivery(c)
        PROVE  Handling(c) /\ outbox' = outbox /\ RowMoves(c, "COMPLETED")
    BY <1>4, FinishMoves DEF CompleteDelivery, Handling, DeliveryInv, DeliveryStatus
  <1>5. ASSUME NEW c \in Caller, Dispatch(c),
               ~ClaimDelivery(c), ~FailDelivery(c), ~CompleteDelivery(c)
        PROVE  delivery' = delivery
    BY <1>5 DEF Dispatch, Load, NoSubscriber, StartEvent, SkipCompleted, MarkPublished,
                Return, durable
  <1>6. ASSUME NEW c \in Caller, Handler(c) \/ LoadFails(c) \/ TransactionFails(c)
        PROVE  delivery' = delivery
    BY <1>6 DEF Handler, HandlerReturns, HandlerRaises, LoadFails, TransactionFails, durable
  <1>7. CASE \/ \E e \in Event : Emit(e)
             \/ \E c \in Request, ids \in SUBSET Event : Call(c, ids)
             \/ PollerTick \/ Crash \/ Shutdown \/ PollerExits \/ Restart
             \/ UNCHANGED vars
    BY <1>7 DEF Emit, Call, PollerTick, Crash, Shutdown, PollerExits, Restart, ProcessEnds,
                durable, vars
  <1> QED BY <1>1, <1>2, <1>3, <1>4, <1>5, <1>6, <1>7 DEF Next

\* A completed delivery is never touched again, in status or attempts: its
\* handler is not called a second time.
THEOREM CompletedForever == Spec => CompletedIsFinal
  <1>1. DeliveryInv /\ [Next]_vars =>
           [\A e \in Event, s \in Subscriber :
               delivery[e][s].status = "COMPLETED" => delivery'[e][s] = delivery[e][s]]_vars
    BY RowsStep DEF RowMoves, Served
  <1> QED BY <1>1, DeliveryInvariance, PTL DEF Spec, CompletedIsFinal

-----------------------------------------------------------------------------
\* A published event stays published, a committed one stays committed.
LEMMA OutboxGrows ==
    ASSUME TypeInv, [Next]_vars, NEW e \in Event
    PROVE  /\ outbox[e].status = "PUBLISHED" => outbox'[e].status = "PUBLISHED"
           /\ outbox'[e].attempts >= outbox[e].attempts
  <1>0. outbox \in [Event -> [status : OutboxStatus, attempts : Nat]]
    BY DEF TypeInv, TypeOK
  <1>1. ASSUME NEW f \in Event, Emit(f)
        PROVE  /\ outbox[e].status = "PUBLISHED" => outbox'[e].status = "PUBLISHED"
               /\ outbox'[e].attempts = outbox[e].attempts
    BY <1>1, <1>0 DEF Emit
  <1>2. ASSUME NEW c \in Caller, NEW f \in Event, StartEvent(c, f)
        PROVE  /\ outbox'[e].status = outbox[e].status
               /\ \/ outbox'[e].attempts = outbox[e].attempts
                  \/ outbox'[e].attempts = outbox[e].attempts + 1
    BY <1>2, <1>0 DEF StartEvent
  <1>3. ASSUME NEW c \in Caller, MarkPublished(c)
        PROVE  /\ outbox[e].status = "PUBLISHED" => outbox'[e].status = "PUBLISHED"
               /\ outbox'[e].attempts = outbox[e].attempts
    <2>1. cur[c] \in Event
      BY <1>3 DEF MarkPublished, TypeInv, CursorInv, Serving
    <2> QED BY <1>3, <2>1, <1>0 DEF MarkPublished
  <1>4. \/ outbox' = outbox
        \/ \E f \in Event : Emit(f)
        \/ \E c \in Caller, f \in Event : StartEvent(c, f)
        \/ \E c \in Caller : MarkPublished(c)
    BY DEF Next, Dispatch, Load, NoSubscriber, SkipCompleted, ClaimDelivery, CompleteDelivery,
           FailDelivery, Return, Handler, HandlerReturns, HandlerRaises, LoadFails,
           TransactionFails, Call, PollerTick, Crash, Shutdown, PollerExits, Restart,
           ProcessEnds, durable, vars
  <1>5. outbox[e].attempts \in Nat
    BY <1>0
  <1> QED BY <1>1, <1>2, <1>3, <1>4, <1>5

\* A step of a dispatch commits no event and removes none.
LEMMA DispatchKeepsCommitted ==
    ASSUME DeliveryInv,
           \/ outbox' = outbox
           \/ \E c \in Caller : (\E f \in Event : StartEvent(c, f)) \/ MarkPublished(c)
    PROVE  \A e \in Event : outbox'[e].status # "ABSENT" <=> outbox[e].status # "ABSENT"
  <1>0. outbox \in [Event -> [status : OutboxStatus, attempts : Nat]]
    BY DEF DeliveryInv, TypeInv, TypeOK
  <1>1. ASSUME NEW c \in Caller, NEW f \in Event, StartEvent(c, f), NEW e \in Event
        PROVE  outbox'[e].status = outbox[e].status
    BY <1>0, <1>1 DEF StartEvent
  <1>2. ASSUME NEW c \in Caller, MarkPublished(c), NEW e \in Event
        PROVE  outbox'[e].status # "ABSENT" <=> outbox[e].status # "ABSENT"
    <2>1. cur[c] \in Event /\ outbox[cur[c]].status # "ABSENT"
      BY <1>0, <1>2 DEF MarkPublished, Serving, DeliveryInv, BatchInv, TypeInv, TypeOK, CursorInv
    <2> QED BY <1>0, <1>2, <2>1 DEF MarkPublished
  <1> QED BY <1>1, <1>2

-----------------------------------------------------------------------------
(***************************************************************************)
(* Answers.  What a request asked for and no longer holds in its batch is  *)
(* published.                                                              *)
(***************************************************************************)
AnswerInv ==
    \A c \in Request :
        /\ Busy(c) => \A e \in asked[c] \ batch[c] : outbox[e].status = "PUBLISHED"
        /\ phase[c] = "ok" => \A e \in asked[c] : outbox[e].status = "PUBLISHED"

\* A request's own dispatch steps.
LEMMA DispatchAnswerInv ==
    ASSUME DeliveryInv, AnswerInv, NEW c \in Request, Dispatch(c),
           \A e \in Event : outbox[e].status = "PUBLISHED" => outbox'[e].status = "PUBLISHED"
    PROVE  /\ Busy(c)' => \A e \in asked'[c] \ batch'[c] : outbox'[e].status = "PUBLISHED"
           /\ phase'[c] = "ok" => \A e \in asked'[c] : outbox'[e].status = "PUBLISHED"
  <1>0. /\ c \in Caller /\ c # Poller /\ asked[c] \in SUBSET Event
        /\ phase \in [Caller -> Resting \cup Dispatching]
        /\ batch \in [Caller -> SUBSET Event]
        /\ outbox \in [Event -> [status : OutboxStatus, attempts : Nat]]
        /\ pos \in [Caller -> Nat]
    BY CallerAssumption DEF DeliveryInv, TypeInv, TypeOK, Caller
  <1>1. CASE Load(c)
    <2>1. asked' = asked /\ batch'[c] = asked[c] /\ phase'[c] = "next"
      BY <1>1, <1>0 DEF Load, LoadedEvents, Goto, DeliveryInv, BatchInv
    <2> QED BY <2>1
  <1>2. CASE \E e \in Event : NoSubscriber(c, e)
    <2>1. phase'[c] = "error"
      BY <1>2, <1>0 DEF NoSubscriber, EventFails, Goto
    <2> QED BY <2>1 DEF Busy, Dispatching
  <1>3. CASE FailDelivery(c)
    <2>1. phase'[c] = "error"
      BY <1>3, <1>0 DEF FailDelivery, EventFails, Goto
    <2> QED BY <2>1 DEF Busy, Dispatching
  <1>4. CASE \/ \E e \in Event : StartEvent(c, e)
             \/ SkipCompleted(c) \/ ClaimDelivery(c) \/ CompleteDelivery(c)
    <2>1. Busy(c) /\ asked' = asked /\ batch' = batch /\ phase'[c] # "ok"
      BY <1>4, <1>0 DEF StartEvent, SkipCompleted, ClaimDelivery, CompleteDelivery, AtSubscriber,
                        locals, Goto, Busy, Dispatching
    <2> QED BY <2>1, <1>0 DEF AnswerInv
  <1>5. CASE MarkPublished(c)
    <2>1. Busy(c) /\ asked' = asked /\ batch'[c] = batch[c] \ {cur[c]} /\ phase'[c] = "next"
      BY <1>5, <1>0 DEF MarkPublished, Goto, Busy, Dispatching
    <2>2. cur[c] \in Event /\ pos[c] \in Nat
      BY <1>5, <1>0 DEF MarkPublished, Serving, DeliveryInv, TypeInv, CursorInv
    <2>3. AllCompleted(cur[c])
      <3>1. Serving(c) /\ \A i \in 1..Len(Subs[cur[c]]) : i < pos[c]
        BY <1>5, <1>0, <2>2, SubsType DEF MarkPublished, Serving
      <3> QED BY <3>1, <2>2, <1>0, SubsType DEF DeliveryInv, PrefixInv, AllCompleted
    <2>4. outbox'[cur[c]].status = "PUBLISHED"
      <3>1. outbox' = [outbox EXCEPT ![cur[c]].status = "PUBLISHED"]
        BY <1>5, <2>3 DEF MarkPublished
      <3> QED BY <3>1, <2>2, <1>0
    <2> QED BY <2>1, <2>4, <1>0 DEF AnswerInv
  <1>6. CASE Return(c)
    <2>1. Busy(c) /\ batch[c] = {} /\ asked' = asked /\ outbox' = outbox /\ phase'[c] = "ok"
      BY <1>6, <1>0 DEF Return, Goto, Busy, Dispatching, durable
    <2> QED BY <2>1 DEF AnswerInv, Busy, Dispatching
  <1> QED BY <1>1, <1>2, <1>3, <1>4, <1>5, <1>6 DEF Dispatch

\* Steps that move no request into or inside a dispatch.
LEMMA AnswerKept ==
    ASSUME AnswerInv, DeliveryInv, NEW c \in Request,
           \A e \in Event : outbox[e].status = "PUBLISHED" => outbox'[e].status = "PUBLISHED",
           asked'[c] = asked[c],
           Busy(c)' => Busy(c) /\ batch'[c] = batch[c],
           phase'[c] = "ok" => phase[c] = "ok"
    PROVE  /\ Busy(c)' => \A e \in asked'[c] \ batch'[c] : outbox'[e].status = "PUBLISHED"
           /\ phase'[c] = "ok" => \A e \in asked'[c] : outbox'[e].status = "PUBLISHED"
  <1>1. asked[c] \in SUBSET Event
    BY DEF DeliveryInv, TypeInv, TypeOK
  <1> QED BY <1>1 DEF AnswerInv

\* Every step keeps the answers right.
LEMMA NextAnswerInv == DeliveryInv /\ AnswerInv /\ [Next]_vars => AnswerInv'
  <1> SUFFICES ASSUME DeliveryInv, AnswerInv, [Next]_vars, NEW r \in Request
               PROVE  /\ Busy(r)' => \A e \in asked'[r] \ batch'[r] : outbox'[e].status = "PUBLISHED"
                      /\ phase'[r] = "ok" => \A e \in asked'[r] : outbox'[e].status = "PUBLISHED"
    BY DEF AnswerInv
  <1>0. /\ r \in Caller /\ r # Poller
        /\ phase \in [Caller -> Resting \cup Dispatching]
        /\ batch \in [Caller -> SUBSET Event]
        /\ asked \in [Request -> SUBSET Event]
    BY CallerAssumption DEF DeliveryInv, TypeInv, TypeOK, Caller
  <1>P. \A e \in Event : outbox[e].status = "PUBLISHED" => outbox'[e].status = "PUBLISHED"
    BY OutboxGrows DEF DeliveryInv
  <1>1. CASE Dispatch(r)
    BY <1>1, <1>P, DispatchAnswerInv
  <1>2. ASSUME NEW c \in Caller, c # r, Dispatch(c) \/ Handler(c) \/ LoadFails(c) \/ TransactionFails(c)
        PROVE  asked'[r] = asked[r] /\ batch'[r] = batch[r] /\ phase'[r] = phase[r]
    BY <1>2, <1>0 DEF Dispatch, Load, NoSubscriber, StartEvent, SkipCompleted, ClaimDelivery,
          CompleteDelivery, FailDelivery, MarkPublished, Return, Handler, HandlerReturns,
          HandlerRaises, LoadFails, TransactionFails, EventFails, Goto, locals
  <1>3. ASSUME Handler(r) \/ LoadFails(r) \/ TransactionFails(r)
        PROVE  /\ asked'[r] = asked[r] /\ (Busy(r)' => Busy(r) /\ batch'[r] = batch[r])
               /\ phase'[r] # "ok"
    BY <1>3, <1>0 DEF Handler, HandlerReturns, HandlerRaises, LoadFails, TransactionFails,
          EventFails, Goto, locals, Busy, Dispatching
  <1>4. ASSUME NEW c \in Request, NEW ids \in SUBSET Event, Call(c, ids)
        PROVE  \/ ~Busy(r)' /\ phase'[r] # "ok"
               \/ asked'[r] = asked[r] /\ batch'[r] = batch[r] /\ phase'[r] = phase[r]
    BY <1>4, <1>0 DEF Call, Goto, locals, Busy, Dispatching, Caller
  <1>5. ASSUME \/ \E e \in Event : Emit(e)
               \/ PollerTick \/ Shutdown \/ Restart \/ UNCHANGED vars
        PROVE  asked'[r] = asked[r] /\ batch'[r] = batch[r] /\ phase'[r] = phase[r]
    BY <1>5, <1>0 DEF Emit, PollerTick, Shutdown, Restart, Goto, locals, vars
  <1>6. ASSUME Crash \/ PollerExits
        PROVE  ~Busy(r)' /\ phase'[r] # "ok"
    BY <1>6, <1>0 DEF Crash, PollerExits, ProcessEnds, Busy, Dispatching
  <1>7. ASSUME asked'[r] = asked[r], batch'[r] = batch[r], phase'[r] = phase[r]
        PROVE  /\ Busy(r)' => \A e \in asked'[r] \ batch'[r] : outbox'[e].status = "PUBLISHED"
               /\ phase'[r] = "ok" => \A e \in asked'[r] : outbox'[e].status = "PUBLISHED"
    BY <1>7, <1>P, AnswerKept DEF Busy
  <1>8. ASSUME Handler(r) \/ LoadFails(r) \/ TransactionFails(r)
        PROVE  /\ Busy(r)' => \A e \in asked'[r] \ batch'[r] : outbox'[e].status = "PUBLISHED"
               /\ phase'[r] = "ok" => \A e \in asked'[r] : outbox'[e].status = "PUBLISHED"
    BY <1>3, <1>8, <1>P, AnswerKept
  <1> QED BY <1>0, <1>1, <1>2, <1>4, <1>5, <1>6, <1>7, <1>8 DEF Next

\* The answers are right in every reachable state.
LEMMA AnswerInvariance == Spec => []AnswerInv
  <1>1. Init => AnswerInv
    BY DEF Init, AnswerInv, Busy, Dispatching, Caller
  <1> QED BY <1>1, NextAnswerInv, DeliveryInvariance, PTL DEF Spec

\* A dispatch that answers without an error published everything it was
\* asked for: the silent skip in _mark_published is never taken.
THEOREM AnswersTrue == Spec => []AnswerMeansPublished
  <1>1. AnswerInv => AnswerMeansPublished
    BY DEF AnswerInv, AnswerMeansPublished
  <1> QED BY AnswerInvariance, <1>1, PTL

-----------------------------------------------------------------------------
(***************************************************************************)
(* Attempts.  A dispatch counts its attempt at the event before it claims  *)
(* a delivery, so a delivery it still has to claim is behind the event.    *)
(***************************************************************************)
Awaits(c, i) == i > pos[c] \/ (i = pos[c] /\ ~Handling(c))

BehindInv ==
    \A c \in Caller : Serving(c) =>
        \A i \in 1..Len(Subs[cur[c]]) :
            LET row == delivery[cur[c]][Subs[cur[c]][i]] IN
            Awaits(c, i) /\ row.status # "COMPLETED" => row.attempts < outbox[cur[c]].attempts

AttemptsInv == AttemptsAccounted /\ BehindInv

\* Steps that touch no delivery row and turn to no other event.
LEMMA AttemptsKept ==
    ASSUME AttemptsInv, DeliveryInv, delivery' = delivery,
           \A e \in Event : outbox'[e].attempts >= outbox[e].attempts,
           \A e \in Event : outbox'[e].attempts \in Nat,
           \A d \in Caller : Serving(d)' =>
               /\ Serving(d) /\ cur'[d] = cur[d]
               /\ \A i \in Nat : Awaits(d, i)' => Awaits(d, i)
    PROVE  AttemptsInv'
  <1>0. /\ outbox \in [Event -> [status : OutboxStatus, attempts : Nat]]
        /\ delivery \in [Event -> [Subscriber -> [status : DeliveryStatus, attempts : Nat]]]
    BY DEF DeliveryInv, TypeInv, TypeOK
  <1>1. AttemptsAccounted'
    <2> SUFFICES ASSUME NEW e \in Event, NEW s \in Subscriber
                 PROVE  delivery[e][s].attempts <= outbox'[e].attempts
      BY DEF AttemptsAccounted
    <2>1. /\ delivery[e][s].attempts \in Nat /\ outbox[e].attempts \in Nat
          /\ delivery[e][s].attempts <= outbox[e].attempts
      BY <1>0 DEF AttemptsInv, AttemptsAccounted
    <2> QED BY <2>1
  <1>2. BehindInv'
    <2> SUFFICES ASSUME NEW c \in Caller, Serving(c)', NEW i \in 1..Len(Subs[cur[c]]), Awaits(c, i)',
                        delivery[cur[c]][Subs[cur[c]][i]].status # "COMPLETED"
                 PROVE  delivery[cur[c]][Subs[cur[c]][i]].attempts < outbox'[cur[c]].attempts
      BY DEF BehindInv
    <2>1. Serving(c) /\ cur[c] \in Event /\ Awaits(c, i)
      BY DEF DeliveryInv, TypeInv, CursorInv
    <2>2. delivery[cur[c]][Subs[cur[c]][i]].attempts < outbox[cur[c]].attempts
      BY <2>1 DEF AttemptsInv, BehindInv
    <2>3. /\ Subs[cur[c]][i] \in Subscriber
          /\ delivery[cur[c]][Subs[cur[c]][i]].attempts \in Nat
          /\ outbox[cur[c]].attempts \in Nat
      BY <1>0, <2>1, SubsType
    <2> QED BY <2>1, <2>2, <2>3
  <1> QED BY <1>1, <1>2 DEF AttemptsInv

\* Only the lock's holder serves, before and after its own step.
LEMMA OnlyHolderServes ==
    ASSUME DeliveryInv, NEW c \in Caller, Busy(c),
           \A d \in Caller \ {c} : phase'[d] = phase[d]
    PROVE  \A d \in Caller \ {c} : ~Serving(d) /\ ~Serving(d)'
  BY DEF DeliveryInv, TypeInv, LockInv, Holds, Busy, Dispatching, Serving

\* The attempt at the event is counted unless nothing is left to claim.
LEMMA StartAttemptsInv ==
    ASSUME AttemptsInv, DeliveryInv, NEW c \in Caller, NEW e \in Event, StartEvent(c, e)
    PROVE  AttemptsInv'
  <1>0. /\ outbox \in [Event -> [status : OutboxStatus, attempts : Nat]]
        /\ delivery \in [Event -> [Subscriber -> [status : DeliveryStatus, attempts : Nat]]]
        /\ phase \in [Caller -> Resting \cup Dispatching]
        /\ cur \in [Caller -> Event \cup {NoEvent}]
    BY DEF DeliveryInv, TypeInv, TypeOK
  <1>1. /\ delivery' = delivery /\ cur'[c] = e
        /\ \A d \in Caller \ {c} : phase'[d] = phase[d]
        /\ Busy(c)
    BY <1>0 DEF StartEvent, Goto, Busy, Dispatching
  <1>2. /\ \A f \in Event \ {e} : outbox'[f].attempts = outbox[f].attempts
        /\ outbox'[e].attempts = IF outbox[e].status = "PUBLISHED" THEN outbox[e].attempts
                                 ELSE outbox[e].attempts + 1
    BY <1>0 DEF StartEvent
  <1>3. \A f \in Event, s \in Subscriber :
           /\ delivery[f][s].attempts \in Nat /\ outbox[f].attempts \in Nat
           /\ delivery[f][s].attempts <= outbox[f].attempts
    BY <1>0 DEF AttemptsInv, AttemptsAccounted
  <1>4. AttemptsAccounted'
    BY <1>1, <1>2, <1>3 DEF AttemptsAccounted
  <1>5. ASSUME NEW i \in 1..Len(Subs[e]), delivery[e][Subs[e][i]].status # "COMPLETED"
        PROVE  delivery[e][Subs[e][i]].attempts < outbox'[e].attempts
    <2>1. outbox[e].status # "PUBLISHED"
      BY <1>5, SubsType DEF DeliveryInv, RowsInv, PublishedOnlyAfterAll, AllCompleted
    <2>2. Subs[e][i] \in Subscriber
      BY SubsType
    <2> QED BY <1>2, <1>3, <2>1, <2>2
  <1>6. BehindInv'
    <2>1. \A d \in Caller \ {c} : ~Serving(d)'
      BY <1>1, OnlyHolderServes
    <2> QED BY <1>1, <1>5, <2>1 DEF BehindInv
  <1> QED BY <1>4, <1>6 DEF AttemptsInv

\* A dispatch rewrites the row it serves: a claim raises its attempts by one.
LEMMA RowAttemptsInv ==
    ASSUME AttemptsInv, DeliveryInv, NEW c \in Caller,
           Serving(c), pos[c] <= Len(Subs[cur[c]]), NEW st, RowMoves(c, st),
           \/ delivery'[cur[c]][Current(c)].attempts = Served(c).attempts
           \/ /\ ~Handling(c) /\ Served(c).status # "COMPLETED"
              /\ delivery'[cur[c]][Current(c)].attempts = Served(c).attempts + 1,
           outbox' = outbox, \A d \in Caller \ {c} : phase'[d] = phase[d],
           Serving(c)' => /\ cur'[c] = cur[c]
                          /\ \A i \in 1..Len(Subs[cur[c]]) : Awaits(c, i)' => i > pos[c]
    PROVE  AttemptsInv'
  <1> DEFINE e == cur[c]
  <1>0. /\ outbox \in [Event -> [status : OutboxStatus, attempts : Nat]]
        /\ delivery \in [Event -> [Subscriber -> [status : DeliveryStatus, attempts : Nat]]]
    BY DEF DeliveryInv, TypeInv, TypeOK
  <1>1. /\ e \in Event /\ pos[c] \in 1..Len(Subs[e]) /\ Current(c) \in Subscriber
        /\ \A i \in 1..Len(Subs[e]) : i # pos[c] => Subs[e][i] # Current(c)
    BY ServedRow DEF DeliveryInv
  <1>2. \A f \in Event, s \in Subscriber :
           /\ delivery[f][s].attempts \in Nat /\ outbox[f].attempts \in Nat
           /\ delivery[f][s].attempts <= outbox[f].attempts
    BY <1>0 DEF AttemptsInv, AttemptsAccounted
  <1>3. delivery'[e][Current(c)].attempts <= outbox[e].attempts
    <2>1. CASE delivery'[e][Current(c)].attempts = Served(c).attempts
      BY <2>1, <1>1, <1>2 DEF Served
    <2>2. CASE /\ ~Handling(c) /\ Served(c).status # "COMPLETED"
               /\ delivery'[e][Current(c)].attempts = Served(c).attempts + 1
      <3>1. Awaits(c, pos[c]) /\ Current(c) = Subs[e][pos[c]]
        BY <2>2 DEF Awaits, Current
      <3>2. Served(c).attempts < outbox[e].attempts
        BY <1>1, <2>2, <3>1 DEF AttemptsInv, BehindInv, Served
      <3>3. Served(c).attempts \in Nat /\ outbox[e].attempts \in Nat
        BY <1>1, <1>2 DEF Served
      <3> QED BY <2>2, <3>2, <3>3
    <2> QED BY <2>1, <2>2
  <1>4. AttemptsAccounted'
    BY <1>1, <1>2, <1>3 DEF AttemptsAccounted, RowMoves
  <1>5. ASSUME NEW i \in 1..Len(Subs[e]), i > pos[c],
               delivery'[e][Subs[e][i]].status # "COMPLETED"
        PROVE  delivery'[e][Subs[e][i]].attempts < outbox[e].attempts
    <2>1. Subs[e][i] \in Subscriber /\ Subs[e][i] # Current(c)
      BY <1>1, <1>5, SubsType
    <2>2. delivery'[e][Subs[e][i]] = delivery[e][Subs[e][i]]
      BY <1>1, <2>1 DEF RowMoves
    <2>3. Awaits(c, i)
      BY <1>5 DEF Awaits
    <2> QED BY <1>1, <1>5, <2>2, <2>3 DEF AttemptsInv, BehindInv
  <1>6. BehindInv'
    <2>1. \A d \in Caller \ {c} : ~Serving(d)'
      BY OnlyHolderServes DEF Serving, Busy, Dispatching
    <2> QED BY <1>5, <2>1 DEF BehindInv
  <1> QED BY <1>4, <1>6 DEF AttemptsInv

\* Every step keeps the count of the event ahead of its deliveries'.
LEMMA NextAttemptsInv == DeliveryInv /\ AttemptsInv /\ [Next]_vars => AttemptsInv'
  <1> SUFFICES ASSUME DeliveryInv, AttemptsInv, [Next]_vars PROVE AttemptsInv'
    OBVIOUS
  <1>0. /\ phase \in [Caller -> Resting \cup Dispatching]
        /\ pos \in [Caller -> Nat]
        /\ cur \in [Caller -> Event \cup {NoEvent}]
    BY DEF DeliveryInv, TypeInv, TypeOK
  <1>G. \A e \in Event : outbox'[e].attempts >= outbox[e].attempts /\ outbox'[e].attempts \in Nat
    <2>1. TypeInv'
      BY NextTypeInv DEF DeliveryInv
    <2>2. outbox' \in [Event -> [status : OutboxStatus, attempts : Nat]]
      BY <2>1 DEF TypeInv, TypeOK
    <2> QED BY <2>2, OutboxGrows DEF DeliveryInv
  <1>1. ASSUME NEW c \in Caller, NEW e \in Event, StartEvent(c, e) PROVE AttemptsInv'
    BY <1>1, StartAttemptsInv
  <1>2. ASSUME NEW c \in Caller, ClaimDelivery(c) PROVE AttemptsInv'
    <2>1. /\ Serving(c) /\ ~Handling(c) /\ pos[c] <= Len(Subs[cur[c]]) /\ outbox' = outbox
          /\ Served(c).status # "COMPLETED" /\ cur' = cur /\ pos' = pos
          /\ \A d \in Caller \ {c} : phase'[d] = phase[d]
          /\ Handling(c)'
      BY <1>2, <1>0 DEF ClaimDelivery, AtSubscriber, Serving, Handling, locals, Goto
    <2>2. /\ RowMoves(c, "PROCESSING")
          /\ delivery'[cur[c]][Current(c)].attempts = Served(c).attempts + 1
      BY <1>2, ClaimMoves DEF DeliveryInv
    <2>3. \A i \in 1..Len(Subs[cur[c]]) : Awaits(c, i)' => i > pos[c]
      BY <2>1 DEF Awaits
    <2> QED BY <2>1, <2>2, <2>3, RowAttemptsInv
  <1>3. ASSUME NEW c \in Caller, CompleteDelivery(c) PROVE AttemptsInv'
    <2>1. /\ Handling(c) /\ Serving(c) /\ pos[c] <= Len(Subs[cur[c]]) /\ outbox' = outbox
          /\ cur' = cur /\ pos'[c] = pos[c] + 1 /\ pos[c] \in Nat
          /\ \A d \in Caller \ {c} : phase'[d] = phase[d]
      BY <1>3, <1>0 DEF CompleteDelivery, Serving, Handling, Goto, DeliveryInv, TypeInv, CursorInv
    <2>2. /\ RowMoves(c, "COMPLETED")
          /\ delivery'[cur[c]][Current(c)].attempts = Served(c).attempts
      BY <1>3, <2>1, FinishMoves DEF CompleteDelivery, DeliveryInv, DeliveryStatus
    <2>3. \A i \in 1..Len(Subs[cur[c]]) : Awaits(c, i)' => i > pos[c]
      BY <2>1 DEF Awaits
    <2> QED BY <2>1, <2>2, <2>3, RowAttemptsInv
  <1>4. ASSUME NEW c \in Caller, FailDelivery(c) PROVE AttemptsInv'
    <2>1. /\ Handling(c) /\ Serving(c) /\ pos[c] <= Len(Subs[cur[c]]) /\ outbox' = outbox
          /\ cur[c] \in Event /\ EventFails(c, cur[c]) /\ Holds(c)
      BY <1>4 DEF FailDelivery, Serving, Handling, DeliveryInv, TypeInv, CursorInv, LockInv,
                  Busy, Dispatching
    <2>2. /\ RowMoves(c, "FAILED")
          /\ delivery'[cur[c]][Current(c)].attempts = Served(c).attempts
      BY <1>4, <2>1, FinishMoves DEF FailDelivery, DeliveryInv, DeliveryStatus
    <2>3. /\ phase'[c] \in {"next", "error"}
          /\ \A d \in Caller \ {c} : phase'[d] = phase[d]
      BY <2>1, EventFailsType DEF DeliveryInv
    <2>4. ~Serving(c)'
      BY <2>3 DEF Serving
    <2> QED BY <2>1, <2>2, <2>3, <2>4, RowAttemptsInv
  <1>5. ASSUME NEW c \in Caller, SkipCompleted(c) PROVE AttemptsInv'
    <2>1. /\ delivery' = delivery /\ cur' = cur /\ phase' = phase
          /\ pos' = [pos EXCEPT ![c] = pos[c] + 1]
      BY <1>5 DEF SkipCompleted, durable
    <2>2. \A d \in Caller : pos[d] \in Nat /\ (pos'[d] = pos[d] \/ (d = c /\ pos'[d] = pos[d] + 1))
      BY <2>1, <1>0
    <2>3. \A d \in Caller : Serving(d)' =>
               /\ Serving(d) /\ cur'[d] = cur[d]
               /\ \A i \in Nat : Awaits(d, i)' => Awaits(d, i)
      BY <2>1, <2>2 DEF Serving, Handling, Awaits
    <2> QED BY <1>G, <2>1, <2>3, AttemptsKept
  <1>6. ASSUME delivery' = delivery, cur' = cur, pos' = pos,
               \A d \in Caller : Serving(d)' => Serving(d) /\ (Handling(d) => Handling(d)')
        PROVE  AttemptsInv'
    <2>1. \A d \in Caller : Serving(d)' =>
               /\ Serving(d) /\ cur'[d] = cur[d]
               /\ \A i \in Nat : Awaits(d, i)' => Awaits(d, i)
      BY <1>6 DEF Awaits
    <2> QED BY <1>G, <1>6, <2>1, AttemptsKept
  <1>7. ASSUME NEW c \in Caller, \/ Load(c) \/ (\E e \in Event : NoSubscriber(c, e))
                                 \/ MarkPublished(c) \/ Return(c) \/ Handler(c)
                                 \/ LoadFails(c) \/ TransactionFails(c)
        PROVE  AttemptsInv'
    <2>1. delivery' = delivery /\ cur' = cur /\ pos' = pos
      BY <1>7 DEF Load, NoSubscriber, MarkPublished, Return, Handler, HandlerReturns,
                  HandlerRaises, LoadFails, TransactionFails, durable, locals
    <2>2. \A d \in Caller : Serving(d)' => Serving(d) /\ (Handling(d) => Handling(d)')
      BY <1>7, <1>0 DEF Load, NoSubscriber, MarkPublished, Return, Handler, HandlerReturns,
           HandlerRaises, LoadFails, TransactionFails, EventFails, Goto, Serving, Handling
    <2> QED BY <2>1, <2>2, <1>6
  <1>8. CASE \/ \E e \in Event : Emit(e)
             \/ \E c \in Request, ids \in SUBSET Event : Call(c, ids)
             \/ PollerTick \/ Shutdown \/ Restart \/ UNCHANGED vars
    <2>1. delivery' = delivery /\ cur' = cur /\ pos' = pos
      BY <1>8 DEF Emit, Call, PollerTick, Shutdown, Restart, vars, durable, locals
    <2>2. \A d \in Caller : phase'[d] = phase[d] \/ phase'[d] = "waiting"
      BY <1>8, <1>0 DEF Emit, Call, PollerTick, Shutdown, Restart, vars, Goto
    <2>3. \A d \in Caller : Serving(d)' => Serving(d) /\ (Handling(d) => Handling(d)')
      BY <2>2 DEF Serving, Handling
    <2> QED BY <2>1, <2>3, <1>6
  <1>9. CASE Crash \/ PollerExits
    <2>1. delivery' = delivery /\ \A d \in Caller : ~Serving(d)'
      BY <1>9 DEF Crash, PollerExits, ProcessEnds, durable, Serving
    <2> QED BY <2>1, <1>G, AttemptsKept
  <1> QED BY <1>1, <1>2, <1>3, <1>4, <1>5, <1>7, <1>8, <1>9 DEF Next, Dispatch

\* The attempt count of an event bounds those of its deliveries, through
\* failures, crashes and repeated dispatches.
THEOREM AttemptsCounted == Spec => []AttemptsAccounted
  <1>1. Init => AttemptsInv
    <2> SUFFICES ASSUME Init PROVE AttemptsInv
      OBVIOUS
    <2>1. AttemptsAccounted
      BY DEF Init, AttemptsAccounted
    <2>2. BehindInv
      BY DEF Init, BehindInv, Serving
    <2> QED BY <2>1, <2>2 DEF AttemptsInv
  <1>2. Spec => []AttemptsInv
    BY <1>1, NextAttemptsInv, DeliveryInvariance, PTL DEF Spec
  <1>3. AttemptsInv => AttemptsAccounted
    BY DEF AttemptsInv
  <1> QED BY <1>2, <1>3, PTL

-----------------------------------------------------------------------------
\* The rows of ContextBus, read as the deliveries of EventDelivery.
Completed == {x \in Event \X Subscriber : delivery[x[1]][x[2]].status = "COMPLETED"}

\* Completing the served row is one delivery of the abstract specification.
LEMMA CompletionDelivers ==
    ASSUME DeliveryInv, NEW c \in Caller, CompleteDelivery(c),
           NEW e, NEW i, e = cur[c], i = pos[c]
    PROVE  Delivery!Deliver(e, i)
  <1>1. /\ Serving(c) /\ Handling(c) /\ pos[c] <= Len(Subs[cur[c]])
        /\ Served(c).status = "PROCESSING" /\ outbox' = outbox
    BY DEF CompleteDelivery, Serving, Handling, DeliveryInv, TypeInv, CursorInv, ClaimInv
  <1>2. /\ cur[c] \in Event /\ pos[c] \in 1..Len(Subs[cur[c]]) /\ Current(c) \in Subscriber
        /\ outbox[cur[c]].status # "ABSENT" /\ Len(Subs[cur[c]]) \in Nat
    BY <1>1, ServedRow, SubsType DEF DeliveryInv, BatchInv
  <1>3. RowMoves(c, "COMPLETED")
    BY <1>1, FinishMoves DEF DeliveryInv, CompleteDelivery, DeliveryStatus
  <1>4. outbox[cur[c]].status = "PENDING"
    <2>1. outbox[cur[c]].status \in OutboxStatus
      BY <1>2 DEF DeliveryInv, TypeInv, TypeOK
    <2>2. outbox[cur[c]].status # "PUBLISHED"
      BY <1>1, <1>2, SubsType DEF DeliveryInv, RowsInv, PublishedOnlyAfterAll, AllCompleted,
                                  Served, Current
    <2> QED BY <2>1, <2>2, <1>2 DEF OutboxStatus
  <1>5. \A j \in 1..(pos[c] - 1) : <<cur[c], Subs[cur[c]][j]>> \in Completed
    <2> SUFFICES ASSUME NEW j \in 1..(pos[c] - 1)
                 PROVE  <<cur[c], Subs[cur[c]][j]>> \in Completed
      OBVIOUS
    <2>1. j \in 1..Len(Subs[cur[c]]) /\ j < pos[c]
      BY <1>2
    <2> QED BY <2>1, <1>1, <1>2, SubsType DEF Completed, DeliveryInv, PrefixInv
  <1>6. Current(c) = Subs[cur[c]][pos[c]]
    BY DEF Current
  <1>7. <<cur[c], Current(c)>> \notin Completed
    BY <1>1 DEF Completed, Served
  <1>8. Completed' = Completed \cup {<<cur[c], Current(c)>>}
    <2>1. ASSUME NEW f \in Event, NEW t \in Subscriber
          PROVE  <<f, t>> \in Completed' <=> <<f, t>> \in Completed \/ <<f, t>> = <<cur[c], Current(c)>>
      BY <1>2, <1>3 DEF Completed, RowMoves
    <2> QED BY <2>1, <1>2 DEF Completed
  <1>9. [f \in Event |-> outbox[f].status][cur[c]] = "PENDING"
    BY <1>2, <1>4
  <1> QED BY <1>1, <1>5, <1>6, <1>7, <1>8, <1>9 DEF Delivery!Deliver, Completed

\* Moving the served row to anything but COMPLETED changes no delivery.
LEMMA OtherMovesStutter ==
    ASSUME DeliveryInv, NEW c \in Caller, ClaimDelivery(c) \/ FailDelivery(c)
    PROVE  UNCHANGED Delivery!vars
  <1>1. /\ Serving(c) /\ pos[c] <= Len(Subs[cur[c]]) /\ Served(c).status # "COMPLETED"
        /\ outbox' = outbox
    BY DEF ClaimDelivery, FailDelivery, AtSubscriber, Serving, Handling, DeliveryInv, TypeInv,
           CursorInv, ClaimInv
  <1>2. RowMoves(c, "PROCESSING") \/ RowMoves(c, "FAILED")
    <2>1. FailDelivery(c) => RowMoves(c, "FAILED")
      BY FinishMoves DEF FailDelivery, Handling, DeliveryInv, DeliveryStatus
    <2> QED BY <2>1, ClaimMoves DEF DeliveryInv
  <1>3. ASSUME NEW f \in Event, NEW t \in Subscriber
        PROVE  delivery'[f][t].status = "COMPLETED" <=> delivery[f][t].status = "COMPLETED"
    BY <1>1, <1>2 DEF RowMoves, Served
  <1>4. Completed' = Completed
    BY <1>3 DEF Completed
  <1> QED BY <1>1, <1>4 DEF Delivery!vars, Completed

\* Publishing, or skipping an event that is published already.
LEMMA PublicationPublishes ==
    ASSUME DeliveryInv, NEW c \in Caller, MarkPublished(c), NEW e, e = cur[c]
    PROVE  Delivery!Publish(e) \/ UNCHANGED Delivery!vars
  <1>1. /\ cur[c] \in Event /\ outbox[cur[c]].status # "ABSENT" /\ delivery' = delivery
        /\ outbox \in [Event -> [status : OutboxStatus, attempts : Nat]]
    BY DEF MarkPublished, Serving, DeliveryInv, BatchInv, TypeInv, TypeOK, CursorInv
  <1>2. CASE ~AllCompleted(cur[c])
    BY <1>1, <1>2 DEF MarkPublished, Delivery!vars
  <1>3. CASE AllCompleted(cur[c])
    <2>1. outbox' = [outbox EXCEPT ![cur[c]].status = "PUBLISHED"]
      BY <1>3 DEF MarkPublished
    <2>2. [f \in Event |-> outbox'[f].status]
             = [[f \in Event |-> outbox[f].status] EXCEPT ![cur[c]] = "PUBLISHED"]
      BY <2>1, <1>1
    <2>3. CASE outbox[cur[c]].status = "PUBLISHED"
      <3>1. [f \in Event |-> outbox'[f].status] = [f \in Event |-> outbox[f].status]
        BY <2>2, <2>3, <1>1
      <3> QED BY <3>1, <1>1 DEF Delivery!vars
    <2>4. CASE outbox[cur[c]].status # "PUBLISHED"
      <3>1. [f \in Event |-> outbox[f].status][cur[c]] = "PENDING"
        BY <2>4, <1>1 DEF OutboxStatus
      <3>2. \A i \in DOMAIN Subs[cur[c]] : <<cur[c], Subs[cur[c]][i]>> \in Completed
        BY <1>1, <1>3, SubsType DEF AllCompleted, Completed
      <3> QED BY <3>1, <3>2, <2>2, <1>1 DEF Delivery!Publish, Completed
    <2> QED BY <2>3, <2>4
  <1> QED BY <1>2, <1>3

\* Every step of the bus is a step of the abstract delivery, or none.
LEMMA StepDelivers ==
    ASSUME DeliveryInv, [Next]_vars
    PROVE  Delivery!Next \/ UNCHANGED Delivery!vars
  <1>0. outbox \in [Event -> [status : OutboxStatus, attempts : Nat]]
    BY DEF DeliveryInv, TypeInv, TypeOK
  <1>1. ASSUME NEW e \in Event, Emit(e) PROVE Delivery!Emit(e)
    <2>1. [f \in Event |-> outbox'[f].status]
             = [[f \in Event |-> outbox[f].status] EXCEPT ![e] = "PENDING"]
      BY <1>1, <1>0 DEF Emit
    <2>2. [f \in Event |-> outbox[f].status][e] = "ABSENT" /\ delivery' = delivery
      BY <1>1 DEF Emit
    <2> QED BY <2>1, <2>2 DEF Delivery!Emit
  <1>2. ASSUME NEW c \in Caller, NEW e \in Event, StartEvent(c, e)
        PROVE  UNCHANGED Delivery!vars
    <2>1. [f \in Event |-> outbox'[f].status] = [f \in Event |-> outbox[f].status]
      BY <1>2, <1>0 DEF StartEvent
    <2> QED BY <1>2, <2>1 DEF StartEvent, Delivery!vars
  <1>3. ASSUME NEW c \in Caller, CompleteDelivery(c) PROVE Delivery!Next
    <2>1. cur[c] \in Event /\ pos[c] \in DOMAIN Subs[cur[c]]
      BY <1>3, ServedRow, SubsType DEF CompleteDelivery, Serving, Handling, DeliveryInv, TypeInv,
                                       CursorInv
    <2>2. PICK e \in Event : e = cur[c]
      BY <2>1
    <2>3. PICK i \in DOMAIN Subs[e] : i = pos[c]
      BY <2>1, <2>2
    <2>4. Delivery!Deliver(e, i)
      BY <1>3, <2>2, <2>3, CompletionDelivers
    <2> QED BY <2>2, <2>3, <2>4 DEF Delivery!Next
  <1>4. ASSUME NEW c \in Caller, MarkPublished(c)
        PROVE  Delivery!Next \/ UNCHANGED Delivery!vars
    <2>1. cur[c] \in Event
      BY <1>4 DEF MarkPublished, Serving, DeliveryInv, TypeInv, CursorInv
    <2>2. PICK e \in Event : e = cur[c]
      BY <2>1
    <2>3. Delivery!Publish(e) \/ UNCHANGED Delivery!vars
      BY <1>4, <2>2, PublicationPublishes
    <2> QED BY <2>2, <2>3 DEF Delivery!Next
  <1>5. ASSUME NEW c \in Caller, ClaimDelivery(c) \/ FailDelivery(c)
        PROVE  UNCHANGED Delivery!vars
    BY <1>5, OtherMovesStutter
  <1>6. ASSUME outbox' = outbox, delivery' = delivery PROVE UNCHANGED Delivery!vars
    BY <1>6 DEF Delivery!vars
  <1>7. \/ outbox' = outbox /\ delivery' = delivery
        \/ \E e \in Event : Emit(e)
        \/ \E c \in Caller :
              \/ \E e \in Event : StartEvent(c, e)
              \/ CompleteDelivery(c) \/ MarkPublished(c) \/ ClaimDelivery(c) \/ FailDelivery(c)
    BY DEF Next, Dispatch, Load, NoSubscriber, SkipCompleted, Return, Handler, HandlerReturns,
           HandlerRaises, LoadFails, TransactionFails, Call, PollerTick, Crash, Shutdown,
           PollerExits, Restart, ProcessEnds, durable, vars
  <1> QED BY <1>1, <1>2, <1>3, <1>4, <1>5, <1>6, <1>7 DEF Delivery!Next

\* The context bus, with its lock, poller, retries and crashes, implements
\* exactly-once, in-order completion followed by publication.
THEOREM Refinement == Spec => ImplementsDelivery
  <1>1. Init => Delivery!Init
    <2> SUFFICES ASSUME Init PROVE Delivery!Init
      OBVIOUS
    <2>1. [e \in Event |-> outbox[e].status] = [e \in Event |-> "ABSENT"]
      BY DEF Init
    <2>2. \A e \in Event, s \in Subscriber : delivery[e][s].status # "COMPLETED"
      BY DEF Init
    <2> QED BY <2>1, <2>2 DEF Delivery!Init
  <1>2. DeliveryInv /\ [Next]_vars => [Delivery!Next]_(Delivery!vars)
    BY StepDelivers
  <1> QED BY <1>1, <1>2, DeliveryInvariance, PTL DEF Spec, ImplementsDelivery, Delivery!Spec
=============================================================================
