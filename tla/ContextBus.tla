----------------------------- MODULE ContextBus -----------------------------
(***************************************************************************)
(* The transactional-outbox context bus of Neu.Tail                        *)
(* (src/services/context_bus.py).                                          *)
(*                                                                         *)
(* A domain transaction commits an outbox row.  The request that committed *)
(* it dispatches that row at once; a background poller dispatches whatever *)
(* is still PENDING.  Every dispatch runs under one asyncio.Lock, delivers *)
(* an event to its subscribers one after the other, and keeps one durable  *)
(* delivery row per (event, subscriber).  Rows survive a crash; the lock,  *)
(* its wait queue and the coroutines do not.                               *)
(*                                                                         *)
(* Every write transaction is one step: a crash can fall between any two.  *)
(***************************************************************************)
EXTENDS Integers, Sequences, FiniteSets

CONSTANTS
    Event,        \* outbox ids
    Subscriber,   \* subscriber names
    Subs,         \* Subs[e]: the subscribers of e's type, in registration order
    Rank,         \* Rank[e]: position in the (created_at, outbox_id) order
    Request,      \* request coroutines that dispatch explicit ids
    Poller,       \* the background task of ContextBusDispatcher.run
    NoEvent,
    Limit,        \* rows a polling round loads (100 in the code)
    LoadMayFail,  \* whether _load_events may raise (a database error)
    MaxFaults,    \* bound: faults of all kinds in a behaviour
    MaxCalls      \* bound: dispatch calls of each request coroutine

ASSUME SubsAssumption ==
    /\ Subs \in [Event -> Seq(Subscriber)]
    /\ \A e \in Event : \A i, j \in DOMAIN Subs[e] :
          Subs[e][i] = Subs[e][j] => i = j
ASSUME RankAssumption ==
    /\ Rank \in [Event -> Nat]
    /\ \A e, f \in Event : Rank[e] = Rank[f] => e = f
ASSUME CallerAssumption == Poller \notin Request
ASSUME NoEventAssumption == NoEvent \notin Event
ASSUME BoundAssumption ==
    /\ Limit \in Nat \ {0} /\ MaxFaults \in Nat /\ MaxCalls \in Nat
    /\ LoadMayFail \in BOOLEAN

VARIABLES
    outbox,     \* durable: outbox_events rows
    delivery,   \* durable: outbox_deliveries rows
    up,         \* the process is running
    stopping,   \* stop_event of the lifespan
    queue,      \* the asyncio.Lock: its holder, then its waiters, in order
    phase,      \* where each coroutine is
    asked,      \* outbox_ids argument of each request's dispatch
    batch,      \* events a dispatch has loaded and not finished
    cur,        \* the event being delivered
    pos,        \* index in Subs[cur] of the subscriber being served
    calls,      \* bound counter
    faults      \* bound counter

durable == <<outbox, delivery>>
locals  == <<batch, cur, pos>>
vars == <<outbox, delivery, up, stopping, queue, phase, asked, batch, cur, pos,
          calls, faults>>

Caller == Request \cup {Poller}

OutboxStatus   == {"ABSENT", "PENDING", "PUBLISHED"}
DeliveryStatus == {"NONE", "PROCESSING", "COMPLETED", "FAILED"}
Resting        == {"idle", "waiting", "ok", "error", "dead"}
Dispatching    == {"next", "subscriber", "handling", "returned", "raised"}

TypeOK ==
    /\ outbox \in [Event -> [status : OutboxStatus, attempts : Nat]]
    /\ delivery \in [Event -> [Subscriber ->
                        [status : DeliveryStatus, attempts : Nat]]]
    /\ up \in BOOLEAN /\ stopping \in BOOLEAN
    /\ queue \in Seq(Caller)
    /\ phase \in [Caller -> Resting \cup Dispatching]
    /\ asked \in [Request -> SUBSET Event]
    /\ batch \in [Caller -> SUBSET Event]
    /\ cur \in [Caller -> Event \cup {NoEvent}]
    /\ pos \in [Caller -> Nat]
    /\ calls \in [Request -> Nat] /\ faults \in Nat

Init ==
    /\ outbox = [e \in Event |-> [status |-> "ABSENT", attempts |-> 0]]
    /\ delivery = [e \in Event |-> [s \in Subscriber |->
                      [status |-> "NONE", attempts |-> 0]]]
    /\ up = TRUE /\ stopping = FALSE
    /\ queue = <<>>
    /\ phase = [c \in Caller |-> "idle"]
    /\ asked = [c \in Request |-> {}]
    /\ batch = [c \in Caller |-> {}]
    /\ cur = [c \in Caller |-> NoEvent]
    /\ pos = [c \in Caller |-> 1]
    /\ calls = [c \in Request |-> 0]
    /\ faults = 0

-----------------------------------------------------------------------------
Holds(c) == queue # <<>> /\ Head(queue) = c
Release  == queue' = Tail(queue)

Goto(c, ph) == phase' = [phase EXCEPT ![c] = ph]

Fault ==
    /\ faults < MaxFaults
    /\ faults' = faults + 1

\* The subscriber c is serving, while pos[c] is inside Subs[cur[c]].
Current(c) == Subs[cur[c]][pos[c]]
Served(c)  == delivery[cur[c]][Current(c)]

(***************************************************************************)
(* A domain transaction (a purchase, a third product view) commits an      *)
(* outbox row as PENDING.                                                  *)
(***************************************************************************)
Emit(e) ==
    /\ up
    /\ outbox[e].status = "ABSENT"
    /\ outbox' = [outbox EXCEPT ![e].status = "PENDING"]
    /\ UNCHANGED <<delivery, up, stopping, queue, phase, asked, locals, calls, faults>>

(***************************************************************************)
(* A request dispatches the ids its transaction committed, or, replaying a *)
(* finished purchase, the ids recorded with it; then it queues for the     *)
(* lock.                                                                   *)
(***************************************************************************)
Call(c, ids) ==
    /\ up /\ ~stopping
    /\ phase[c] \in {"idle", "ok", "error"}
    /\ calls[c] < MaxCalls
    /\ \A e \in ids : outbox[e].status # "ABSENT"
    /\ Goto(c, "waiting")
    /\ asked' = [asked EXCEPT ![c] = ids]
    /\ queue' = Append(queue, c)
    /\ calls' = [calls EXCEPT ![c] = @ + 1]
    /\ UNCHANGED <<durable, up, stopping, locals, faults>>

\* One round of run(): dispatch(raise_errors=False) after the interval.
PollerTick ==
    /\ up /\ ~stopping
    /\ phase[Poller] = "idle"
    /\ Goto(Poller, "waiting")
    /\ queue' = Append(queue, Poller)
    /\ UNCHANGED <<durable, up, stopping, asked, locals, calls, faults>>

Pending == {e \in Event : outbox[e].status = "PENDING"}
Older(e) == {f \in Pending : Rank[f] < Rank[e]}
\* Mutant: a round loads only rows that were never attempted.
LoadedEventsUntried(c) ==
    IF c = Poller
    THEN {e \in Pending : outbox[e].attempts = 0 /\ Cardinality(Older(e)) < Limit}
    ELSE {e \in asked[c] : outbox[e].status # "ABSENT"}

\* _load_events: the ids asked for, whatever their status, or the Limit
\* oldest PENDING rows.
LoadedEvents(c) ==
    IF c = Poller
    THEN {e \in Pending : Cardinality(Older(e)) < Limit}
    ELSE {e \in asked[c] : outbox[e].status # "ABSENT"}

\* Mutant: dispatch without the lock.
LoadUnlocked(c) ==
    /\ phase[c] = "waiting"
    /\ batch' = [batch EXCEPT ![c] = LoadedEvents(c)]
    /\ Goto(c, "next")
    /\ UNCHANGED <<durable, up, stopping, queue, asked, cur, pos, calls, faults>>

Load(c) ==
    /\ phase[c] = "waiting" /\ Holds(c)
    /\ batch' = [batch EXCEPT ![c] = LoadedEvents(c)]
    /\ Goto(c, "next")
    /\ UNCHANGED <<durable, up, stopping, queue, asked, cur, pos, calls, faults>>

\* _load_events raises: a request answers with an error, and the exception
\* leaves run(), so the poller task ends.
LoadFails(c) ==
    /\ LoadMayFail
    /\ phase[c] = "waiting" /\ Holds(c)
    /\ Fault
    /\ Release
    /\ Goto(c, IF c = Poller THEN "dead" ELSE "error")
    /\ UNCHANGED <<durable, up, stopping, asked, locals, calls>>

-----------------------------------------------------------------------------
\* Mutant: a failing event ends the poller's round too.
EventFailsEndsRound(c, e) ==
    /\ batch' = [batch EXCEPT ![c] = {}]
    /\ IF c = Poller
       THEN Goto(c, "next") /\ UNCHANGED queue
       ELSE Goto(c, "error") /\ Release

\* Mutant: a failing event is skipped for requests as well.
EventFailsSilently(c, e) ==
    /\ batch' = [batch EXCEPT ![c] = @ \ {e}]
    /\ Goto(c, "next")
    /\ UNCHANGED queue

(***************************************************************************)
(* An exception inside _dispatch_event: with raise_errors the dispatch     *)
(* ends, without it the next event is tried.                               *)
(***************************************************************************)
EventFails(c, e) ==
    IF c = Poller
    THEN /\ batch' = [batch EXCEPT ![c] = @ \ {e}]
         /\ Goto(c, "next")
         /\ UNCHANGED queue
    ELSE /\ batch' = [batch EXCEPT ![c] = {}]
         /\ Goto(c, "error")
         /\ Release

\* The poller delivers in (created_at, outbox_id) order, a request in the
\* order its ids were given.
MayStart(c, e) ==
    /\ e \in batch[c]
    /\ c = Poller => \A f \in batch[c] : Rank[e] <= Rank[f]

NoSubscriber(c, e) ==
    /\ phase[c] = "next" /\ MayStart(c, e)
    /\ Subs[e] = <<>>
    /\ EventFails(c, e)
    /\ UNCHANGED <<durable, up, stopping, asked, cur, pos, calls, faults>>

\* Mutant: only the first attempt of an event is recorded.
StartEventOnce(c, e) ==
    /\ phase[c] = "next" /\ MayStart(c, e)
    /\ Subs[e] # <<>>
    /\ outbox' = [outbox EXCEPT ![e].attempts = IF @ = 0 THEN 1 ELSE @]
    /\ cur' = [cur EXCEPT ![c] = e]
    /\ pos' = [pos EXCEPT ![c] = 1]
    /\ Goto(c, "subscriber")
    /\ UNCHANGED <<delivery, up, stopping, queue, asked, batch, calls, faults>>

\* _record_event_attempt
StartEvent(c, e) ==
    /\ phase[c] = "next" /\ MayStart(c, e)
    /\ Subs[e] # <<>>
    /\ outbox' = [outbox EXCEPT ![e].attempts =
                     IF outbox[e].status = "PUBLISHED" THEN @ ELSE @ + 1]
    /\ cur' = [cur EXCEPT ![c] = e]
    /\ pos' = [pos EXCEPT ![c] = 1]
    /\ Goto(c, "subscriber")
    /\ UNCHANGED <<delivery, up, stopping, queue, asked, batch, calls, faults>>

AtSubscriber(c) == phase[c] = "subscriber" /\ pos[c] <= Len(Subs[cur[c]])

\* _completed_delivery found a response: the handler is not called again.
SkipCompleted(c) ==
    /\ AtSubscriber(c)
    /\ Served(c).status = "COMPLETED"
    /\ pos' = [pos EXCEPT ![c] = @ + 1]
    /\ UNCHANGED <<durable, up, stopping, queue, phase, asked, batch, cur, calls, faults>>

\* Mutant: _completed_delivery is not consulted.
ClaimDeliveryAgain(c) ==
    /\ AtSubscriber(c)
    /\ delivery' = [delivery EXCEPT ![cur[c]][Current(c)] =
                       [status |-> "PROCESSING", attempts |-> @.attempts + 1]]
    /\ Goto(c, "handling")
    /\ UNCHANGED <<outbox, up, stopping, queue, asked, locals, calls, faults>>

ClaimDelivery(c) ==
    /\ AtSubscriber(c)
    /\ Served(c).status # "COMPLETED"
    /\ delivery' = [delivery EXCEPT ![cur[c]][Current(c)] =
                       [status |-> "PROCESSING", attempts |-> @.attempts + 1]]
    /\ Goto(c, "handling")
    /\ UNCHANGED <<outbox, up, stopping, queue, asked, locals, calls, faults>>

\* await handler(event)
HandlerReturns(c) ==
    /\ phase[c] = "handling"
    /\ Goto(c, "returned")
    /\ UNCHANGED <<durable, up, stopping, queue, asked, locals, calls, faults>>

HandlerRaises(c) ==
    /\ phase[c] = "handling"
    /\ Fault
    /\ Goto(c, "raised")
    /\ UNCHANGED <<durable, up, stopping, queue, asked, locals, calls>>

\* Mutant: the delivery takes the event's status.
CompleteDeliveryAsEvent(c) ==
    /\ phase[c] = "returned"
    /\ delivery' = [delivery EXCEPT ![cur[c]][Current(c)].status = "PUBLISHED"]
    /\ pos' = [pos EXCEPT ![c] = @ + 1]
    /\ Goto(c, "subscriber")
    /\ UNCHANGED <<outbox, up, stopping, queue, asked, batch, cur, calls, faults>>

CompleteDelivery(c) ==
    /\ phase[c] = "returned"
    /\ delivery' = [delivery EXCEPT ![cur[c]][Current(c)].status = "COMPLETED"]
    /\ pos' = [pos EXCEPT ![c] = @ + 1]
    /\ Goto(c, "subscriber")
    /\ UNCHANGED <<outbox, up, stopping, queue, asked, batch, cur, calls, faults>>

\* Mutant: after a failure the next subscriber is served.
FailDeliveryContinues(c) ==
    /\ phase[c] = "raised"
    /\ delivery' = [delivery EXCEPT ![cur[c]][Current(c)].status = "FAILED"]
    /\ pos' = [pos EXCEPT ![c] = @ + 1]
    /\ Goto(c, "subscriber")
    /\ UNCHANGED <<outbox, up, stopping, queue, asked, batch, cur, calls, faults>>

\* The remaining subscribers of the event are not served in this dispatch.
FailDelivery(c) ==
    /\ phase[c] = "raised"
    /\ delivery' = [delivery EXCEPT ![cur[c]][Current(c)].status = "FAILED"]
    /\ EventFails(c, cur[c])
    /\ UNCHANGED <<outbox, up, stopping, asked, cur, pos, calls, faults>>

\* A transaction of _dispatch_event raises and rolls back: the one that counts
\* the attempt, or a later one, and the rows keep what they had.
TransactionFails(c) ==
    /\ Fault
    /\ \/ \E e \in Event : phase[c] = "next" /\ MayStart(c, e) /\ Subs[e] # <<>> /\ EventFails(c, e)
       \/ phase[c] \in {"subscriber", "returned", "raised"} /\ EventFails(c, cur[c])
    /\ UNCHANGED <<durable, up, stopping, asked, cur, pos, calls>>

AllCompleted(e) ==
    \A i \in DOMAIN Subs[e] : delivery[e][Subs[e][i]].status = "COMPLETED"

\* Mutant: inside the loop, and only looking for failed deliveries.
MarkPublishedEarly(c) ==
    /\ phase[c] = "subscriber"
    /\ pos[c] > 1
    /\ outbox' = [outbox EXCEPT ![cur[c]].status = "PUBLISHED"]
    /\ batch' = [batch EXCEPT ![c] = @ \ {cur[c]}]
    /\ Goto(c, "next")
    /\ UNCHANGED <<delivery, up, stopping, queue, asked, cur, pos, calls, faults>>

\* _mark_published re-reads the rows, and leaves the event PENDING without
\* an error when one is not COMPLETED.
MarkPublished(c) ==
    /\ phase[c] = "subscriber"
    /\ pos[c] > Len(Subs[cur[c]])
    /\ outbox' = IF AllCompleted(cur[c])
                 THEN [outbox EXCEPT ![cur[c]].status = "PUBLISHED"]
                 ELSE outbox
    /\ batch' = [batch EXCEPT ![c] = @ \ {cur[c]}]
    /\ Goto(c, "next")
    /\ UNCHANGED <<delivery, up, stopping, queue, asked, cur, pos, calls, faults>>

Return(c) ==
    /\ phase[c] = "next" /\ batch[c] = {}
    /\ Release
    /\ Goto(c, IF c = Poller THEN "idle" ELSE "ok")
    /\ UNCHANGED <<durable, up, stopping, asked, locals, calls, faults>>

-----------------------------------------------------------------------------
\* Every coroutine, the lock and its waiters are gone.
ProcessEnds ==
    /\ up' = FALSE /\ stopping' = FALSE
    /\ queue' = <<>>
    /\ phase' = [c \in Caller |-> "idle"]
    /\ asked' = [c \in Request |-> {}]
    /\ batch' = [c \in Caller |-> {}]
    /\ cur' = [c \in Caller |-> NoEvent]
    /\ pos' = [c \in Caller |-> 1]
    /\ UNCHANGED <<durable, calls>>

Crash == up /\ Fault /\ ProcessEnds

\* The lifespan's exit: no request is in flight, the stop event is set, and
\* the poller's task is awaited.
Shutdown ==
    /\ up /\ ~stopping
    /\ \A c \in Request : phase[c] \in {"idle", "ok", "error"}
    /\ Fault
    /\ stopping' = TRUE
    /\ UNCHANGED <<durable, up, queue, phase, asked, locals, calls>>

PollerExits ==
    /\ stopping
    /\ phase[Poller] \in {"idle", "dead"}
    /\ ProcessEnds
    /\ UNCHANGED faults

\* lifespan starts a new dispatcher and a new poller task.
Restart ==
    /\ ~up
    /\ up' = TRUE
    /\ UNCHANGED <<durable, stopping, queue, phase, asked, locals, calls, faults>>

-----------------------------------------------------------------------------
Dispatch(c) ==
    \/ Load(c)
    \/ \E e \in Event : NoSubscriber(c, e) \/ StartEvent(c, e)
    \/ SkipCompleted(c) \/ ClaimDelivery(c) \/ CompleteDelivery(c)
    \/ FailDelivery(c) \/ MarkPublished(c) \/ Return(c)

Handler(c) == HandlerReturns(c) \/ HandlerRaises(c)

Next ==
    \/ \E e \in Event : Emit(e)
    \/ \E c \in Request, ids \in SUBSET Event : Call(c, ids)
    \/ PollerTick
    \/ \E c \in Caller :
          Dispatch(c) \/ Handler(c) \/ LoadFails(c) \/ TransactionFails(c)
    \/ Crash \/ Shutdown \/ PollerExits \/ Restart

(***************************************************************************)
(* The event loop runs every ready coroutine, a handler returns or raises  *)
(* (its model calls have timeouts), and a stopped process is started       *)
(* again.  Nothing obliges a request to come or a fault to happen.         *)
(***************************************************************************)
Fairness ==
    /\ WF_vars(PollerTick)
    /\ \A c \in Caller : WF_vars(Dispatch(c)) /\ WF_vars(Handler(c))
    /\ WF_vars(PollerExits) /\ WF_vars(Restart)

Spec == Init /\ [][Next]_vars
FairSpec == Spec /\ Fairness

-----------------------------------------------------------------------------
Busy(c) == phase[c] \in Dispatching

\* An event is PUBLISHED only when each of its subscribers has a COMPLETED
\* delivery: the poller never forgets an event that somebody still needs.
PublishedOnlyAfterAll ==
    \A e \in Event : outbox[e].status = "PUBLISHED" => AllCompleted(e)

\* A later subscriber is never reached before an earlier one has completed,
\* whatever dispatches failed, crashed or were retried in between.
ServedInOrder ==
    \A e \in Event : \A i, j \in DOMAIN Subs[e] :
        i < j /\ delivery[e][Subs[e][j]].status # "NONE"
            => delivery[e][Subs[e][i]].status = "COMPLETED"

\* attempt_count of an event bounds the attempts of each of its deliveries.
AttemptsAccounted ==
    \A e \in Event, s \in Subscriber :
        delivery[e][s].attempts <= outbox[e].attempts

\* A dispatch that answered without an error published everything it was
\* asked for, although _mark_published may skip an event silently.
AnswerMeansPublished ==
    \A c \in Request : phase[c] = "ok" =>
        \A e \in asked[c] : outbox[e].status = "PUBLISHED"

\* A COMPLETED delivery is never claimed, failed or handled again: two
\* dispatches of one event never both call the subscriber's handler.
CompletedIsFinal ==
    [][\A e \in Event, s \in Subscriber :
          delivery[e][s].status = "COMPLETED" => delivery'[e][s] = delivery[e][s]]_vars

\* No two dispatches are at an awaited handler at the same time, of one event
\* or of two: the lock is kept while a handler runs, raises or is shut down.
OneHandlerAtATime ==
    \A c, d \in Caller :
        phase[c] = "handling" /\ phase[d] = "handling" => c = d

Deliverable(e) == Subs[e] # <<>>

PollerDied == phase[Poller] = "dead"

\* Every committed event that has subscribers is published in the end, across
\* crashes, failing handlers and events nobody subscribes to, unless loading
\* the pending rows fails and ends the poller (see RecoversUntilShutdown).
EventuallyPublished ==
    \A e \in Event :
        (Deliverable(e) /\ outbox[e].status = "PENDING")
            ~> (outbox[e].status = "PUBLISHED" \/ PollerDied)

\* A dispatch call ends: the lock is always handed on.
DispatchEnds ==
    \A c \in Request : phase[c] = "waiting" ~> phase[c] \in {"ok", "error", "idle"}

\* Events are published and calls end, whatever fails: nobody waits for ever
\* for the lock, and no event for another one.
Progress == EventuallyPublished /\ DispatchEnds

\* The poller recovers pending events until the application shuts down
\* (ContextBusDispatcher.run's docstring).
\* Does not hold: README, section 4.
RecoversUntilShutdown ==
    \A e \in Event :
        (Deliverable(e) /\ outbox[e].status = "PENDING")
            ~> (stopping \/ outbox[e].status = "PUBLISHED")

-----------------------------------------------------------------------------
Delivery == INSTANCE EventDelivery WITH
    status <- [e \in Event |-> outbox[e].status],
    done   <- {x \in Event \X Subscriber : delivery[x[1]][x[2]].status = "COMPLETED"}

\* Concurrent dispatches, retries and crashes stay within exactly-once,
\* in-order completion followed by publication.
ImplementsDelivery == Delivery!Spec
=============================================================================
