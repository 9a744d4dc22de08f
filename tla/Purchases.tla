------------------------------ MODULE Purchases ------------------------------
(***************************************************************************)
(* Purchase-completed events: their transaction                            *)
(* (src/services/commerce_event_service.py with                            *)
(* customer_segmentation_service.py), the workflow around it               *)
(* (src/orchestrator/purchase_event_graph.py) and its two endpoints        *)
(* (src/api/events.py), composed with the context bus: every action of the *)
(* bus is one of ContextBus.                                               *)
(*                                                                         *)
(* One customer: nothing of another customer is read or written.  An       *)
(* outbox event is named after the purchase event that committed it; its   *)
(* created_at, hence its Rank, is the purchase's occurred_at.  Times are   *)
(* whole seconds, which is exact: SQLite's datetime() drops fractions.     *)
(***************************************************************************)
EXTENDS ContextBus

CONSTANTS
    Order,       \* order ids
    OrderOf,     \* the order a purchase event is for
    OccurredAt,  \* its occurred_at
    Past,        \* times of the customer's completed orders before
    Affluence,   \* the customer's affluence band
    Window,      \* purchase_window_days
    LoyalThreshold    \* loyal_purchase_threshold

ASSUME PurchaseAssumption ==
    /\ OrderOf \in [Event -> Order] /\ OccurredAt \in [Event -> Nat]
    /\ \A e, f \in Event : OccurredAt[e] < OccurredAt[f] => Rank[e] < Rank[f]
    /\ Past \in SUBSET Nat /\ IsFiniteSet(Past)
    /\ Window \in Nat \ {0} /\ LoyalThreshold \in Nat \ {0}
    /\ Affluence \in {"Affluent", "Less Affluent"}

VARIABLES
    inbox,      \* durable: event_inbox rows with their stored result
    orders,     \* durable: orders rows of purchase events
    customer,   \* durable: the customers row, and the loyalty row's version
    history,    \* durable: customer_segment_history rows, in order
    stage,      \* in memory: the node of the graph each request is at
    reported    \* history: the results each event was answered with

purchaseVars == <<inbox, orders, customer, history, stage, reported>>
allPurchaseVars == <<vars, purchaseVars>>

\* SegmentClassifier._RULES
Segment(loyalty) ==
    IF loyalty = "Loyal"
    THEN IF Affluence = "Affluent" THEN "Prestige Champion" ELSE "Value Defender"
    ELSE IF Affluence = "Affluent" THEN "Aspiring Loyalist" ELSE "Price Explorer"

Loyalty == {"New", "Loyal"}
Segments == {Segment(l) : l \in Loyalty}
NoEffect == [count |-> 0, version |-> 0, from |-> "New", to |-> "New"]
Effect == [count : Nat, version : Nat, from : Loyalty, to : Loyalty]
NoOrder == [at |-> 0, event |-> NoEvent]
NoStage == [node |-> "none", event |-> NoEvent]

PurchaseTypeOK ==
    /\ TypeOK
    /\ inbox \in [Event -> Effect]
    /\ orders \in [Order -> [at : Nat, event : Event \cup {NoEvent}]]
    /\ customer \in [loyalty : Loyalty, segment : Segments, version : Nat, ledger : Nat]
    /\ history \in Seq([from : Segments, to : Segments, count : Nat, event : Event])
    /\ stage \in [Request -> [node : {"none", "dispatch", "bus", "refresh"},
                              event : Event \cup {NoEvent}]]
    /\ reported \in [Event -> SUBSET [result : Effect, context : Nat]]

PurchaseInit ==
    /\ Init
    /\ inbox = [e \in Event |-> NoEffect]
    /\ orders = [o \in Order |-> NoOrder]
    /\ \E l \in Loyalty :
          customer = [loyalty |-> l, segment |-> Segment(l), version |-> 1, ledger |-> 1]
    /\ history = <<>>
    /\ stage = [r \in Request |-> NoStage]
    /\ reported = [e \in Event |-> {}]

-----------------------------------------------------------------------------
Seen(e) == inbox[e] # NoEffect
Applied == {e \in Event : Seen(e)}

FreeToRecord(r) ==
    /\ up /\ ~stopping
    /\ stage[r] = NoStage /\ phase[r] \in {"idle", "ok", "error"}

AtNode(r, node) == stage[r].node = node
Enter(r, node, e) == stage' = [stage EXCEPT ![r] = [node |-> node, event |-> e]]

\* Mutant: the cutoff second is inside the window.
InWindowClosed(t, at) == at - Window <= t /\ t <= at

\* datetime(t) >= cutoff in SQLite's text order: a row without a fraction is
\* a prefix of the cutoff's text, hence smaller, and the last second is in.
InWindow(t, at) == at - Window < t /\ t <= at

\* count_completed_purchases, with the order that is being added
PurchaseCount(e) ==
    1 + Cardinality({t \in Past : InWindow(t, OccurredAt[e])})
      + Cardinality({o \in Order : /\ orders[o] # NoOrder
                                   /\ InWindow(orders[o].at, OccurredAt[e])})

\* apply_purchase_policy: a Loyal customer stays Loyal.
NewLoyalty(e) ==
    IF customer.loyalty = "New" /\ PurchaseCount(e) >= LoyalThreshold
    THEN "Loyal" ELSE customer.loyalty

Changed(e) ==
    customer.loyalty # NewLoyalty(e) \/ customer.segment # Segment(NewLoyalty(e))

OutcomeOf(e) ==
    [count |-> PurchaseCount(e), version |-> customer.version + 1,
     from |-> customer.loyalty, to |-> NewLoyalty(e)]

Promote(e) ==
    customer' = [loyalty |-> NewLoyalty(e), segment |-> Segment(NewLoyalty(e)),
                 version |-> customer.version + 1, ledger |-> customer.ledger + 1]

RecordHistory(e) ==
    history' = IF Changed(e)
               THEN Append(history, [from |-> customer.segment,
                                     to |-> Segment(NewLoyalty(e)),
                                     count |-> PurchaseCount(e), event |-> e])
               ELSE history

\* Mutant: an event is announced only when the segment changed.
PurchaseAnnouncesChanges(r, e) ==
    /\ FreeToRecord(r) /\ ~Seen(e)
    /\ orders[OrderOf[e]] = NoOrder
    /\ inbox' = [inbox EXCEPT ![e] = OutcomeOf(e)]
    /\ orders' = [orders EXCEPT ![OrderOf[e]] = [at |-> OccurredAt[e], event |-> e]]
    /\ Promote(e) /\ RecordHistory(e)
    /\ IF Changed(e) THEN Emit(e) /\ Enter(r, "dispatch", e)
       ELSE UNCHANGED <<vars, stage>>
    /\ UNCHANGED reported

(***************************************************************************)
(* process_purchase, a first delivery: one transaction without an await.   *)
(* An unknown customer or product, an order id that exists, and a commit   *)
(* that fails roll everything back, the inbox row included, and are no     *)
(* steps; so is an id that is reused for another payload.                  *)
(***************************************************************************)
ProcessPurchase(r, e) ==
    /\ FreeToRecord(r) /\ ~Seen(e)
    /\ orders[OrderOf[e]] = NoOrder
    /\ inbox' = [inbox EXCEPT ![e] = OutcomeOf(e)]
    /\ orders' = [orders EXCEPT ![OrderOf[e]] = [at |-> OccurredAt[e], event |-> e]]
    /\ Promote(e) /\ RecordHistory(e)
    /\ Emit(e)
    /\ Enter(r, "dispatch", e)
    /\ UNCHANGED reported

\* Mutant: a repeated event goes through the policy again.
ReplayReapplies(r, e) ==
    /\ FreeToRecord(r) /\ Seen(e)
    /\ inbox' = [inbox EXCEPT ![e] = OutcomeOf(e)]
    /\ Promote(e)
    /\ Enter(r, "dispatch", e)
    /\ UNCHANGED <<vars, orders, history, reported>>

\* Mutant: a replay puts the outbox row back to PENDING.
ReplayRequeues(r, e) ==
    /\ FreeToRecord(r) /\ Seen(e)
    /\ outbox' = [outbox EXCEPT ![e].status = "PENDING"]
    /\ Enter(r, "dispatch", e)
    /\ UNCHANGED <<delivery, up, stopping, queue, phase, asked, locals, calls, faults>>
    /\ UNCHANGED <<inbox, orders, customer, history, reported>>

\* The stored result, with the outbox id recorded in it; the workflow goes on
\* as for a first delivery.
ReplayPurchase(r, e) ==
    /\ FreeToRecord(r) /\ Seen(e)
    /\ Enter(r, "dispatch", e)
    /\ UNCHANGED <<vars, inbox, orders, customer, history, reported>>

\* Mutant: the workflow does not dispatch.
SkipDispatch(r) ==
    /\ AtNode(r, "dispatch")
    /\ Enter(r, "refresh", stage[r].event)
    /\ UNCHANGED <<vars, inbox, orders, customer, history, reported>>

\* dispatch_context_bus
DispatchPurchase(r) ==
    /\ AtNode(r, "dispatch")
    /\ Call(r, {stage[r].event})
    /\ Enter(r, "bus", stage[r].event)
    /\ UNCHANGED <<inbox, orders, customer, history, reported>>

Dispatched(r) ==
    /\ AtNode(r, "bus") /\ Return(r)
    /\ Enter(r, "refresh", stage[r].event)
    /\ UNCHANGED <<inbox, orders, customer, history, reported>>

\* A failing dispatch is the API's 503; the purchase stays committed.
DispatchFailed(r) ==
    /\ AtNode(r, "bus") /\ phase[r] = "error"
    /\ stage' = [stage EXCEPT ![r] = NoStage]
    /\ UNCHANGED <<vars, inbox, orders, customer, history, reported>>

\* refresh_profile reads the customer anew and the endpoint answers 200.
RefreshProfile(r) ==
    /\ AtNode(r, "refresh")
    /\ LET e == stage[r].event IN
         reported' = [reported EXCEPT ![e] = @ \cup
                        {[result |-> inbox[e], context |-> customer.version]}]
    /\ stage' = [stage EXCEPT ![r] = NoStage]
    /\ UNCHANGED <<vars, inbox, orders, customer, history>>

\* A required tool of the Profiling agent fails: 503.
RefreshFails(r) ==
    /\ AtNode(r, "refresh")
    /\ stage' = [stage EXCEPT ![r] = NoStage]
    /\ UNCHANGED <<vars, inbox, orders, customer, history, reported>>

-----------------------------------------------------------------------------
\* Steps of the bus that this module's state takes no part in.
PurchaseBusStep(c) ==
    /\ \/ Load(c) \/ (\E e \in Event : StartEvent(c, e)) \/ SkipCompleted(c)
       \/ ClaimDelivery(c) \/ HandlerReturns(c) \/ CompleteDelivery(c)
       \/ FailDelivery(c) \/ MarkPublished(c)
    /\ UNCHANGED purchaseVars

PurchaseBusFault(c) ==
    (HandlerRaises(c) \/ LoadFails(c) \/ TransactionFails(c)) /\ UNCHANGED purchaseVars

PurchasePollerStep == (PollerTick \/ Return(Poller)) /\ UNCHANGED purchaseVars

ForgetPurchases ==
    /\ stage' = [r \in Request |-> NoStage]
    /\ UNCHANGED <<inbox, orders, customer, history, reported>>

ShutdownWhenIdle ==
    /\ \A r \in Request : stage[r] = NoStage
    /\ Shutdown /\ UNCHANGED purchaseVars

\* What the graph of one request does once its purchase is committed.
Workflow(r) ==
    \/ DispatchPurchase(r) \/ Dispatched(r) \/ DispatchFailed(r) \/ RefreshProfile(r)

PurchaseNext ==
    \/ \E r \in Request, e \in Event : ProcessPurchase(r, e) \/ ReplayPurchase(r, e)
    \/ \E r \in Request : Workflow(r) \/ RefreshFails(r)
    \/ \E c \in Caller : PurchaseBusStep(c) \/ PurchaseBusFault(c)
    \/ PurchasePollerStep
    \/ ShutdownWhenIdle
    \/ (Crash \/ PollerExits) /\ ForgetPurchases
    \/ Restart /\ UNCHANGED purchaseVars

PurchaseSpec == PurchaseInit /\ [][PurchaseNext]_allPurchaseVars

(***************************************************************************)
(* The event loop runs every coroutine that is ready, and a stopped        *)
(* process is started again.                                               *)
(***************************************************************************)
PurchaseFairness ==
    /\ WF_allPurchaseVars(PurchasePollerStep)
    /\ \A c \in Caller : WF_allPurchaseVars(PurchaseBusStep(c))
    /\ \A r \in Request : WF_allPurchaseVars(Workflow(r))
    /\ WF_allPurchaseVars(PollerExits /\ ForgetPurchases)
    /\ WF_allPurchaseVars(Restart /\ UNCHANGED purchaseVars)

PurchaseFairSpec == PurchaseSpec /\ PurchaseFairness

-----------------------------------------------------------------------------
\* However often, and by however many requests, an event is delivered, and
\* whatever crashes or fails in between: an inbox row, an order, an outbox row
\* and a profile version of its own come together, once.
AppliedOnce ==
    /\ customer.version = 1 + Cardinality(Applied)
    /\ customer.ledger = customer.version
    /\ \A e \in Event : Seen(e) <=> outbox[e].status # "ABSENT"
    /\ \A e \in Applied : orders[OrderOf[e]] = [at |-> OccurredAt[e], event |-> e]
    /\ \A e, f \in Applied : inbox[e].version = inbox[f].version => e = f

\* The audit trail is a chain that starts at the seeded segment and ends at
\* the customer's, each link carrying the count its event stored.
HistoryIsAudit ==
    LET first == IF history = <<>> THEN customer.segment ELSE history[1].from IN
    /\ \A e \in Applied : inbox[e].version = 2 => Segment(inbox[e].from) = first
    /\ \A i \in DOMAIN history :
          /\ history[i].to = IF i = Len(history) THEN customer.segment ELSE history[i + 1].from
          /\ history[i].count = inbox[history[i].event].count
          /\ history[i].to = Segment(inbox[history[i].event].to)
    /\ \A e \in Applied :
          (inbox[e].from # inbox[e].to) <=> \E i \in DOMAIN history : history[i].event = e

\* The rows one purchase writes come together, once, and their counts chain.
EffectsAgree == PurchaseTypeOK /\ AppliedOnce /\ HistoryIsAudit

\* A 200 for a purchase means its projections were invalidated, it carries the
\* one stored result, and a profile at least as new as that result.
AnswerIsFinal ==
    \A e \in Event : \A a \in reported[e] :
        /\ outbox[e].status = "PUBLISHED"
        /\ a.result = inbox[e]
        /\ a.context >= inbox[e].version

\* The bus inside this composition is the bus of ContextBus.
PurchasesImplementBus == Spec

\* Purchases in the order of the versions they were given.
InVersionOrder ==
    [i \in 1 .. Cardinality(Applied) |-> CHOOSE e \in Applied : inbox[e].version = i + 1]

Ledger == INSTANCE LoyaltyLedger WITH
    Purchase <- Event, At <- OccurredAt, Threshold <- LoyalThreshold,
    applied <- InVersionOrder, loyalty <- customer.loyalty

\* Inbox, outbox, retries and crashes add up to one effect for each purchase.
ImplementsLedger == Ledger!Spec

\* Every committed purchase invalidates the profile projections in the end,
\* even if its own request failed and nobody retries it; like
\* EventuallyPublished, unless the poller dies.
EveryPurchaseProjected ==
    \A e \in Event : Seen(e) ~> (outbox[e].status = "PUBLISHED" \/ PollerDied)

\* Enough completed purchases in one window make the customer Loyal.
\* Does not hold: README, section 4.
WindowMeansLoyal ==
    \A e \in Applied :
        Ledger!Arrivals(Applied, OccurredAt[e]) >= LoyalThreshold => customer.loyalty = "Loyal"
=============================================================================
