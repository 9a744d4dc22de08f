------------------------------ MODULE Engagement ------------------------------
(***************************************************************************)
(* Product views and the offers they lead to: the engagement endpoint      *)
(* (src/api/upsell.py), its transaction                                    *)
(* (src/services/engagement_event_service.py), the subscriber of           *)
(* HIGH_PRODUCT_ENGAGEMENT (src/services/context_bus.py) and the path it   *)
(* takes through the orchestrator to the Upsell agent, composed with the   *)
(* context bus: every action of the bus is one of ContextBus.              *)
(*                                                                         *)
(* One customer.  An outbox event is named after the idempotency key of    *)
(* the view that committed it.  Whether an offer is made is the policy's   *)
(* choice, so it is left open here.                                        *)
(***************************************************************************)
EXTENDS ContextBus

CONSTANTS
    Session,    \* server-made session ids
    Sku,
    Premium,    \* products of the premium brand tier
    Threshold   \* the view that raises the signal (3 in the code)

ASSUME PremiumAssumption == Premium \subseteq Sku
ASSUME ThresholdAssumption == Threshold \in Nat \ {0}
ASSUME SignalAssumption == \A e \in Event : Len(Subs[e]) = 1

VARIABLES
    receipts,   \* durable: engagement_event_receipts, by idempotency key
    decisions,  \* durable: upsell_decisions rows, in the order written
    shown,      \* durable: OFFER_SHOWN rows written for each signal
    response,   \* durable: response_json of each signal's delivery
    sessions,   \* in memory: the session contexts
    work,       \* in memory: how far each dispatch's handler is
    turn,       \* <<r, k>> while r runs from its commit to its first await
    answered    \* history: the 200 responses given for each key

engVars == <<receipts, decisions, shown, response, sessions, work, turn, answered>>
allVars == <<vars, engVars>>

View == [session : Session, sku : Sku]
NoResult == [status |-> "NONE", id |-> 0]
Result ==
    {NoResult} \cup [status : {"NO_OFFER", "FAILED"}, id : {0}]
               \cup [status : {"OFFER_AVAILABLE"}, id : Nat \ {0}]

Response == [trace : Request, upsell : Result]
Step == {"find", "agent", "selected", "shown", "settle", "done"}

NoReceipt == [status |-> "NONE", count |-> 0]
Receipt ==
    {NoReceipt} \cup [status : {"PROCESSING"}, view : View, count : Nat]
        \cup [status : {"COMPLETED"}, view : View, count : Nat, reply : Response]

EngTypeOK ==
    /\ TypeOK
    /\ receipts \in [Event -> Receipt]
    /\ decisions \in Seq([signal : Event, source : Event \cup {NoEvent}])
    /\ shown \in [Event -> Nat]
    /\ response \in [Event -> Result]
    /\ sessions \in [Session -> {"new", "open", "gone"}]
    /\ work \in [Caller -> [step : Step, result : Result]]
    /\ turn \in {<<>>} \cup (Request \X Event)
    /\ answered \in [Event -> SUBSET Response]

Idle == [step |-> "find", result |-> NoResult]

EngInit ==
    /\ Init
    /\ receipts = [k \in Event |-> NoReceipt]
    /\ decisions = <<>>
    /\ shown = [e \in Event |-> 0]
    /\ response = [e \in Event |-> NoResult]
    /\ sessions = [s \in Session |-> "new"]
    /\ work = [c \in Caller |-> Idle]
    /\ turn = <<>>
    /\ answered = [k \in Event |-> {}]

-----------------------------------------------------------------------------
\* POST and DELETE /sessions.  An id is made once; a closed one is forgotten.
CreateSession(s) ==
    /\ up /\ sessions[s] = "new"
    /\ sessions' = [sessions EXCEPT ![s] = "open"]
    /\ UNCHANGED <<vars, receipts, decisions, shown, response, work, turn, answered>>

CloseSession(s) ==
    /\ up /\ sessions[s] = "open"
    /\ sessions' = [sessions EXCEPT ![s] = "gone"]
    /\ UNCHANGED <<vars, receipts, decisions, shown, response, work, turn, answered>>

-----------------------------------------------------------------------------
Free(r) == up /\ ~stopping /\ phase[r] \in {"idle", "ok", "error"}

Recorded(k) == receipts[k].status # "NONE"
Signalled(k) == outbox[k].status # "ABSENT"

\* count_product_views, this view's own row included
ViewCount(v) == 1 + Cardinality({k \in Event : Recorded(k) /\ receipts[k].view = v})
\* Mutant: every view from the threshold on raises a signal.
RaisesFrom(v) == v.sku \in Premium /\ ViewCount(v) >= Threshold

Raises(v) == v.sku \in Premium /\ ViewCount(v) = Threshold

\* A key without a receipt, in a live session, for a product that may be
\* shown.  A reused key, an unknown session and an unavailable product are
\* refused before anything is written.
NewView(r, k, v) ==
    /\ Free(r)
    /\ ~Recorded(k)
    /\ sessions[v.session] = "open"

Reply(r, k, u) == [trace |-> r, upsell |-> u]

CompleteReceipt(k, v, n, reply) ==
    [receipts EXCEPT ![k] =
        [status |-> "COMPLETED", view |-> v, count |-> n, reply |-> reply]]

Answer(k, reply) == answered' = [answered EXCEPT ![k] = @ \cup {reply}]

\* A view that raises no signal is recorded and completed without an await.
ViewRecorded(r, k, v) ==
    /\ NewView(r, k, v) /\ ~Raises(v)
    /\ receipts' = CompleteReceipt(k, v, ViewCount(v), Reply(r, k, NoResult))
    /\ Answer(k, Reply(r, k, NoResult))
    /\ UNCHANGED <<vars, decisions, shown, response, sessions, work, turn>>

\* ... or its second transaction fails (or the process stops before it).
ViewUnfinished(r, k, v) ==
    /\ NewView(r, k, v) /\ ~Raises(v)
    /\ receipts' = [receipts EXCEPT ![k] =
                      [status |-> "PROCESSING", view |-> v, count |-> ViewCount(v)]]
    /\ UNCHANGED <<vars, decisions, shown, response, sessions, work, turn, answered>>

\* The view that reaches the threshold commits its receipt and the signal.
ViewSignals(r, k, v) ==
    /\ NewView(r, k, v) /\ Raises(v)
    /\ receipts' = [receipts EXCEPT ![k] =
                      [status |-> "PROCESSING", view |-> v, count |-> ViewCount(v)]]
    /\ turn' = <<r, k>>
    /\ Emit(k)
    /\ UNCHANGED <<decisions, shown, response, sessions, work, answered>>

\* context_bus.dispatch([outbox_id]), up to the lock
DispatchSignal(r, k) ==
    /\ turn = <<r, k>>
    /\ turn' = <<>>
    /\ Call(r, {k})
    /\ UNCHANGED <<receipts, decisions, shown, response, sessions, work, answered>>

\* A repeated key with the same payload (the fingerprint; a different one is
\* refused): the stored response, or the rest of the work.
SameView(k, v) == Recorded(k) /\ receipts[k].view = v

ReplayCompleted(r, k, v) ==
    /\ Free(r) /\ SameView(k, v) /\ receipts[k].status = "COMPLETED"
    /\ Answer(k, receipts[k].reply)
    /\ UNCHANGED <<vars, receipts, decisions, shown, response, sessions, work, turn>>

\* Mutant: a repeated key is completed without dispatching its signal.
ReplayUndispatched(r, k, v) ==
    /\ Free(r) /\ SameView(k, v) /\ receipts[k].status = "PROCESSING"
    /\ receipts' = CompleteReceipt(k, v, receipts[k].count, Reply(r, k, NoResult))
    /\ Answer(k, Reply(r, k, NoResult))
    /\ UNCHANGED <<vars, decisions, shown, response, sessions, work, turn>>

ReplayUnfinished(r, k, v) ==
    /\ Free(r) /\ SameView(k, v) /\ receipts[k].status = "PROCESSING" /\ ~Signalled(k)
    /\ receipts' = CompleteReceipt(k, v, receipts[k].count, Reply(r, k, NoResult))
    /\ Answer(k, Reply(r, k, NoResult))
    /\ UNCHANGED <<vars, decisions, shown, response, sessions, work, turn>>

ReplaySignal(r, k, v) ==
    /\ SameView(k, v) /\ receipts[k].status = "PROCESSING" /\ Signalled(k)
    /\ Call(r, {k})
    /\ UNCHANGED engVars

\* dispatch returned: the receipt is completed with this request's trace id,
\* whatever it holds by now, in the same turn of the event loop.
FinishView(r) == \E k \in asked[r] :
    LET reply == Reply(r, k, response[k]) IN
    /\ Return(r)
    /\ receipts' = CompleteReceipt(k, receipts[k].view, receipts[k].count, reply)
    /\ Answer(k, reply)
    /\ UNCHANGED <<decisions, shown, response, sessions, work, turn>>

FinishFails(r) == Return(r) /\ UNCHANGED engVars

-----------------------------------------------------------------------------
(***************************************************************************)
(* HighProductEngagementSubscriber, awaited by the bus in "handling".      *)
(***************************************************************************)
At(c, step) == phase[c] = "handling" /\ work[c].step = step

Advance(c, step, result) ==
    work' = [work EXCEPT ![c] = [step |-> step, result |-> result]]

Offer(n) == [status |-> "OFFER_AVAILABLE", id |-> n]
SourcedBy(e) == {n \in DOMAIN decisions : decisions[n].source = e}

\* find_by_source_event: a decision settled before a crash is returned.
FindDecision(c) == \E n \in SourcedBy(cur[c]) :
    /\ At(c, "find")
    /\ Advance(c, "done", Offer(n))
    /\ UNCHANGED <<vars, receipts, decisions, shown, response, sessions, turn, answered>>

\* Mutant: find_by_source_event is not asked.
StartAgentAnew(c) ==
    /\ At(c, "find")
    /\ sessions' = [sessions EXCEPT ![receipts[cur[c]].view.session] = "open"]
    /\ Advance(c, "agent", NoResult)
    /\ UNCHANGED <<vars, receipts, decisions, shown, response, turn, answered>>

\* ensure_context, then the agents are awaited.
StartAgent(c) ==
    /\ At(c, "find")
    /\ SourcedBy(cur[c]) = {}
    /\ sessions' = [sessions EXCEPT ![receipts[cur[c]].view.session] = "open"]
    /\ Advance(c, "agent", NoResult)
    /\ UNCHANGED <<vars, receipts, decisions, shown, response, turn, answered>>

\* The policy selects an offer (and the message is generated) ...
SelectOffer(c) ==
    /\ At(c, "agent")
    /\ Advance(c, "selected", NoResult)
    /\ UNCHANGED <<vars, receipts, decisions, shown, response, sessions, turn, answered>>

\* ... or there is none, or a tool of the agent failed: both are answers.
NoOffer(c) == \E status \in {"NO_OFFER", "FAILED"} :
    /\ At(c, "agent")
    /\ Advance(c, "settle", [status |-> status, id |-> 0])
    /\ UNCHANGED <<vars, receipts, decisions, shown, response, sessions, turn, answered>>

\* record_upsell_event(OFFER_SHOWN) commits; if it fails the offer stands.
ShowOffer(c) ==
    /\ At(c, "selected")
    /\ shown' = [shown EXCEPT ![cur[c]] = @ + 1]
    /\ Advance(c, "shown", NoResult)
    /\ UNCHANGED <<vars, receipts, decisions, response, sessions, turn, answered>>

ShowFails(c) ==
    /\ At(c, "selected")
    /\ Advance(c, "shown", NoResult)
    /\ UNCHANGED <<vars, receipts, decisions, shown, response, sessions, turn, answered>>

\* _execute_plan records the decision, without the event that caused it.
RecordOffer(c) ==
    /\ At(c, "shown")
    /\ decisions' = Append(decisions, [signal |-> cur[c], source |-> NoEvent])
    /\ Advance(c, "settle", Offer(Len(decisions) + 1))
    /\ UNCHANGED <<vars, receipts, shown, response, sessions, turn, answered>>

\* save_context, and record_decision again, now with its source.
Settle(c) ==
    /\ At(c, "settle")
    /\ sessions' = [sessions EXCEPT ![receipts[cur[c]].view.session] = "open"]
    /\ decisions' = IF work[c].result.status = "OFFER_AVAILABLE"
                    THEN [decisions EXCEPT ![work[c].result.id].source = cur[c]]
                    ELSE decisions
    /\ Advance(c, "done", work[c].result)
    /\ UNCHANGED <<vars, receipts, shown, response, turn, answered>>

HandlerStep(c) ==
    \/ FindDecision(c) \/ StartAgent(c) \/ SelectOffer(c) \/ NoOffer(c)
    \/ ShowOffer(c) \/ ShowFails(c) \/ RecordOffer(c) \/ Settle(c)

-----------------------------------------------------------------------------
\* Mutant: the handler is called without claiming the delivery.
CallHandlerUnclaimed(c) ==
    /\ AtSubscriber(c)
    /\ Served(c).status # "COMPLETED"
    /\ Goto(c, "handling")
    /\ work' = [work EXCEPT ![c] = Idle]
    /\ UNCHANGED <<durable, up, stopping, queue, asked, locals, calls, faults>>
    /\ UNCHANGED <<receipts, decisions, shown, response, sessions, turn, answered>>

\* The bus calls the handler, and stores what it returned.
CallHandler(c) ==
    /\ ClaimDelivery(c)
    /\ work' = [work EXCEPT ![c] = Idle]
    /\ UNCHANGED <<receipts, decisions, shown, response, sessions, turn, answered>>

HandlerDone(c) ==
    /\ work[c].step = "done"
    /\ HandlerReturns(c)
    /\ UNCHANGED engVars

HandlerBreaks(c) ==
    /\ work[c].step # "done"
    /\ HandlerRaises(c)
    /\ UNCHANGED engVars

StoreResponse(c) ==
    /\ CompleteDelivery(c)
    /\ response' = [response EXCEPT ![cur[c]] = work[c].result]
    /\ work' = [work EXCEPT ![c] = Idle]
    /\ UNCHANGED <<receipts, decisions, shown, sessions, turn, answered>>

\* Steps of the bus that this module's state takes no part in.
BusStep(c) ==
    /\ \/ Load(c) \/ (\E e \in Event : StartEvent(c, e)) \/ SkipCompleted(c)
       \/ FailDelivery(c) \/ MarkPublished(c)
    /\ UNCHANGED engVars

BusFault(c) == (LoadFails(c) \/ TransactionFails(c)) /\ UNCHANGED engVars

PollerStep == (PollerTick \/ Return(Poller)) /\ UNCHANGED engVars

\* The process ends: contexts and handlers are gone, the rows stay.
Forget ==
    /\ sessions' = [s \in Session |-> IF sessions[s] = "open" THEN "gone" ELSE sessions[s]]
    /\ work' = [c \in Caller |-> Idle]
    /\ turn' = <<>>
    /\ UNCHANGED <<receipts, decisions, shown, response, answered>>

-----------------------------------------------------------------------------
ViewStep(r) ==
    \/ \E k \in Event, v \in View :
          \/ ViewRecorded(r, k, v) \/ ViewUnfinished(r, k, v) \/ ViewSignals(r, k, v)
          \/ ReplayCompleted(r, k, v) \/ ReplayUnfinished(r, k, v) \/ ReplaySignal(r, k, v)
    \/ FinishView(r) \/ FinishFails(r)

DispatchStep(c) ==
    BusStep(c) \/ CallHandler(c) \/ HandlerStep(c) \/ HandlerDone(c) \/ StoreResponse(c)

EngNext ==
    \/ \E r \in Request, k \in Event : DispatchSignal(r, k)
    \/ /\ turn = <<>>
       /\ \/ \E s \in Session : CreateSession(s) \/ CloseSession(s)
          \/ \E r \in Request : ViewStep(r)
          \/ \E c \in Caller : DispatchStep(c) \/ HandlerBreaks(c) \/ BusFault(c)
          \/ PollerStep
          \/ Shutdown /\ UNCHANGED engVars
    \/ (Crash \/ PollerExits) /\ Forget
    \/ Restart /\ UNCHANGED engVars

EngSpec == EngInit /\ [][EngNext]_allVars

(***************************************************************************)
(* The event loop runs every coroutine that is ready, the tools and models *)
(* a handler awaits answer (they have timeouts), and a stopped process is  *)
(* started again.                                                          *)
(***************************************************************************)
EngFairness ==
    /\ WF_allVars(\E r \in Request, k \in Event : DispatchSignal(r, k))
    /\ WF_allVars(PollerStep)
    /\ \A c \in Caller : WF_allVars(DispatchStep(c))
    /\ \A r \in Request : WF_allVars(FinishView(r) \/ FinishFails(r))
    /\ WF_allVars(PollerExits /\ Forget) /\ WF_allVars(Restart /\ UNCHANGED engVars)

EngFairSpec == EngSpec /\ EngFairness

-----------------------------------------------------------------------------
Finished(k) == receipts[k].status = "COMPLETED"

\* A product earns one signal per session, on its threshold view, whatever
\* keys, retries and crashes the views went through.
OneSignalPerProduct ==
    /\ \A k \in Event : Signalled(k) =>
          Recorded(k) /\ receipts[k].count = Threshold /\ receipts[k].view.sku \in Premium
    /\ \A k, l \in Event :
          Signalled(k) /\ Signalled(l) /\ receipts[k].view = receipts[l].view => k = l

\* find_by_source_event reads one_or_none: a signal sources one decision, and
\* it is a decision that was made for this signal.
SourcedOnce ==
    \A e \in Event :
        /\ Cardinality(SourcedBy(e)) <= 1
        /\ \A n \in SourcedBy(e) : decisions[n].signal = e

\* A published signal stored the result of its evaluation; if that is an
\* offer, its id names the decision the customer can respond to.
PublishedNamesDecision ==
    \A e \in Event : outbox[e].status = "PUBLISHED" =>
        /\ response[e] # NoResult
        /\ response[e].status = "OFFER_AVAILABLE" => response[e].id \in SourcedBy(e)

\* Signals, decisions and stored results agree after every step of a handler
\* that can be cut off between any two of its transactions.
DecisionsSourced == EngTypeOK /\ SourcedOnce /\ PublishedNamesDecision

\* A receipt is completed only when its signal has been published, with the
\* result the signal's delivery stored.
CompletedIsEvaluated ==
    \A k \in Event : Finished(k) /\ Signalled(k) =>
        outbox[k].status = "PUBLISHED" /\ receipts[k].reply.upsell = response[k]

\* However often a key is sent and whoever dispatched its signal, the client
\* always sees the same offer.
SameOfferEveryTime ==
    \A k \in Event : \A a, b \in answered[k] : a.upsell = b.upsell

\* Concurrent requests and the poller alone never show an offer twice.
OneOfferWithoutFaults ==
    faults = 0 => \A e \in Event :
        /\ shown[e] <= 1
        /\ Cardinality({n \in DOMAIN decisions : decisions[n].signal = e}) <= 1

\* A signal that its request, a retry and the poller all dispatch leads to one
\* offer, and every answer to its key carries that offer.
OneOffer == SameOfferEveryTime /\ CompletedIsEvaluated /\ OneOfferWithoutFaults

\* The bus inside this composition is the bus of ContextBus.
ImplementsBus == Spec

\* A committed signal is evaluated and published in the end, unless the
\* poller dies.
SignalEvaluated ==
    \A e \in Event :
        outbox[e].status = "PENDING" ~> (outbox[e].status = "PUBLISHED" \/ PollerDied)

\* The decision a signal leads to is durable and idempotent: one per signal
\* (README, "Product engagement").
OneDecisionPerSignal ==
    \A e \in Event : Cardinality({n \in DOMAIN decisions : decisions[n].signal = e}) <= 1

\* Replaying a key returns the original response.
\* Does not hold: README, section 4.
ReplayIsOriginal == \A k \in Event : Cardinality(answered[k]) <= 1
=============================================================================
