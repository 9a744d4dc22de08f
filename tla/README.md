# Neu.Tail in TLA+

Neu.Tail is a single FastAPI process: request coroutines and one background
task share an asyncio event loop, SQLite holds what must survive a restart, and
a few dictionaries hold what need not. Nearly everything that can go wrong goes
wrong at an `await`, or between two transactions of one operation. The modules
here model those steps: every write transaction and every await is a step of
its own, and what the code does without yielding is one step.

## 1. The system

| Component | State | Operations | Interacts with |
|---|---|---|---|
| Context bus (`services/context_bus.py`, `repositories/event_repository.py`, wired in `api/main.py`) | durable `outbox_events`, `outbox_deliveries`; in memory the dispatch lock | `dispatch`, `run` (poller), `subscribe` | called by the purchase graph, the engagement endpoint and the poller; calls the subscribers |
| Upsell decisions (`services/upsell_decision_service.py`, `api/upsell.py`) | durable `upsell_decisions`, `upsell_decision_events` | record, claim, complete, abort, list pending | tool `record_upsell_event`; orchestrator and subscriber record decisions |
| Product engagement (`services/engagement_event_service.py`, `api/upsell.py`) | durable receipts, clickstream rows | record a view, replay, complete | commits outbox rows, dispatches them, answers with the delivery's result |
| Upsell agent and policy (`agents/upsell`, `services/upsell_policy_service.py`) | durable service-engagement rows; in memory legacy session state | `execute`, `evaluate_eligibility`, offer selection | called by the orchestrator; LLM gateway words the message |
| Purchases and segments (`services/commerce_event_service.py`, `services/customer_segmentation_service.py`, `orchestrator/purchase_event_graph.py`, `api/events.py`) | durable inbox, orders, segment history | process a purchase, apply the policy, dispatch, refresh | outbox; profile agent |
| Profiles and sessions (`agents/profiling`, `services/session_context_service.py`) | in memory profile cache and session contexts | build, cache, invalidate; create, save, close | the bus's `ProfileContextSubscriber`, the orchestrator |
| Orchestrator (`orchestrator/`) | none of its own (a turn's state) | intent, plan, execute, persist | every agent, sessions, decisions |
| LLM gateway (`llm_gateway/`) | in memory telemetry, prompt cache | route, attempt, retry, fall back | agents, orchestrator |
| Discovery, Fit (`agents/discovery`, `agents/fit`, retrieval services) | in memory vector indexes | constraints, ranking, size decision | orchestrator |
| Auth, session API, tools, seed data | revoked tokens; registry; demo rows | login, logout; permissions; seed | everything |

What makes each correct, and which behaviours are hard:

* **Bus** - each event reaches each subscriber once and in order, and is
  PUBLISHED only then, whatever requests, the poller, failures and restarts do.
  Hard: two dispatchers of one row, a crash between a handler's effects and its
  delivery row, one bad event in front of good ones.
* **Decisions** - one key, one answer; a resolved decision stays resolved.
  Hard: three transactions with an await in between.
* **Engagement** - a product signals once per session, a key always sees the
  same offer, an offer is made once. Hard: the request, its retry and the
  poller all deliver the same signal; the handler is five effects long.
* **Purchases** - one purchase, one order, one segment decision. Hard: replay,
  out-of-order occurrence times, a dispatch that fails after the commit.
* **Profiles and sessions** - nobody reads a profile older than the purchase
  that invalidated it; turns do not undo each other. Hard: state read before
  an await and written after it.
* **Policy** - limits and cooldowns hold under concurrency, and an offer fits
  the customer it was chosen for. Hard: rows read before an awaited model call
  and written after it.
* **Plan, homepage** - every step accounted for, one offer per turn, a reply
  that claims no more than was done. Hard: the plan grows while it runs.
* **Gateway, Fit, Discovery** - bounded attempts that are all accounted for;
  decisions that follow from the evidence, whatever tool fails and whatever
  changes between two tool calls.

## 2. Modules

| Module | Models |
|---|---|
| `ContextBus` | the dispatcher, its lock, the poller, crash, shutdown, restart |
| `EventDelivery` | what the bus promises (abstract specification) |
| `UpsellDecisions` | responses to offers, and the recording of decisions |
| `Engagement` | views and the signal's handler, composed with `ContextBus` |
| `Purchases` | the purchase transaction and its workflow, composed with `ContextBus` |
| `LoyaltyLedger` | what purchases promise (abstract specification) |
| `ProfileSessions` | profile cache and session contexts against turns and purchases |
| `OfferRules`, `OfferPolicy` | the rules of service offers; evaluations that race |
| `PlanExecution` | the turns of a session: intent, plan, loop, reply |
| `DiscoveryRules`, `DiscoverySearch` | the rules of a search; a search as its tool calls |
| `HomeRecommendations` | the homepage over several searches |
| `LLMGateway` | attempts over retries and models, telemetry, prompt cache |
| `FitRules`, `FitAdvice` | the Fit calculator; a question as its tool calls |
| `Selections` | sorting, filtering and summing a list, for the rules of Discovery and Fit |
| `ContextBus_proofs`, `BusClients_proofs` (Engagement and Purchases), `UpsellDecisions_proofs`, `ProfileSessions_proofs`, `OfferPolicy_proofs`, `PlanExecution_proofs`, `LLMGateway_proofs`, `Specialists_proofs` (Fit, Discovery and the homepage) | theorems and proofs |
| `MC_*` | constants, and symmetry, for TLC |

### ContextBus

`outbox` and `delivery` are the two tables; `queue` is the `asyncio.Lock`, its
holder first and then its waiters in FIFO order; `phase`, `asked`, `batch`,
`cur` and `pos` are the local state of each dispatching coroutine. `Load` is
`_load_events` under the lock, `StartEvent` `_record_event_attempt`,
`SkipCompleted`, `ClaimDelivery`, `CompleteDelivery`, `FailDelivery` and
`MarkPublished` the transactions of `_dispatch_event`; the handler is awaited
between `ClaimDelivery` and `HandlerReturns` or `HandlerRaises`.
`TransactionFails` is an exception of any of these transactions, the attempt's
included, and `LoadFails` of `_load_events`. `EventFails` is the `except` of
`dispatch`: a request's dispatch ends with an error, the poller goes on to its
next event. A crash forgets everything but the tables; `Shutdown` is the end of
the lifespan, which waits for the poller's task. Python 3.11 or later is
assumed: before, the exception of `asyncio.wait_for` in `run` is not the builtin
`TimeoutError` it catches, and the poller would end at its first interval.

A request dispatches its ids in any order here; the code keeps the order it was
given. Payloads and stored responses are left out (Engagement adds them).

### UpsellDecisions

A response claims its key in one transaction (seven outcomes, one action
each, in the order of the code's tests), awaits the tool (`ToolRecords`), and
completes key and decision in another transaction (`Complete`). Any of the
three can fail, and a failure aborts the claim. The fingerprint is the pair of
decision and response; customer and session are a flag of the request, since
they determine each other for a given decision. `RecordDecision` is the upsert
of an offer, which a redelivered signal repeats.

### Engagement

Extends `ContextBus`: each of its actions is an action of the bus, a step of a
handler that the bus is awaiting, or a step of the endpoint that leaves the bus
alone. A view's two transactions and its dispatch call run without an await up
to the bus's lock, so a view without a signal is one action, and a view with one
holds `turn` until it has queued for the lock. `work` is the position of the
handler: find the decision of a previous delivery, recover the session, run the
agent, write OFFER_SHOWN, record the decision, link it to its signal. Each is a
transaction, and a crash or an exception can fall between any two. Which offer
the policy makes, if any, is left open. Requests that are refused before
anything is written (a key reused for another view, an unknown session, an
unavailable product) change nothing and are not actions. `signal` of a decision
row is the event that caused it, which the table keeps only as `source`.

### Purchases and LoyaltyLedger

Extends `ContextBus` with the purchase endpoint. `ProcessPurchase` is
`process_purchase` of a new event: inbox row, order, loyalty, segment, history
and outbox row commit together, and nothing yields in between. A repeated event
(`ReplayPurchase`) takes the stored result and goes through the same workflow:
`DispatchPurchase` enters the bus, `Dispatched` or `DispatchFailed` leaves it,
`RefreshProfile` or `RefreshFails` ends with 200 or 503. Transactions that roll
back, and refused payloads, change nothing and are not actions. Times are
whole seconds, so a window is open at its cutoff and closed at its end, which
is what the comparison of SQLite's text does (`InWindow`).

`LoyaltyLedger` is the promise without inbox, outbox, bus and retries: a
sequence of purchases, each applied once, and the loyalty that follows from
counting what arrived before. The mapping reads the sequence off the versions
stored in the inbox.

### ProfileSessions

A turn copies its session (`StartChat`, `StartSignal`), may run the Profiling
agent (`CacheHit`, or `CacheMiss`, `ReadSnapshot`, `ReadHistories`,
`PublishProfile`) and saves the copy (`Save`), or raises after its profile step
and saves nothing (`TurnRaises`); `StartProfile` is the agent alone. Purchases
raise the version of a customer, and `Invalidate` is the subscriber of the bus.
`SessionContextService` and the cache hold their locks over no await, so
`CloseSession`, `Invalidate` and `Save` are one step each. A profile is its
customer, its version, and the version its histories were read at: a torn
profile is one where the two differ. Entities of a turn (category, size) are
left out.

### OfferRules and OfferPolicy

`OfferRules` holds eligibility (the order of refusals, windows, cooldowns), the
score, the band, the selection, and the rules of the older `evaluate`.
`OfferPolicy` runs them: `Begin` fixes the segment of the turn, `Refuse` and
`Approve` are the policy's read of the rows, then the model words the message,
and `Record` writes OFFER_SHOWN. `RecordFails` is a lost row: the agent answers
with the offer all the same. `LegacyCheck` and `LegacyGrant` are the two
critical sections of `evaluate`. Service-engagement rows are a bag. The score is
rounded to three digits of the share before its band is taken; a tie goes up.

Time is in whole units, and `CooldownIsKept` holds at that grain only. SQLite's
`datetime()` cuts a row's time to the second, while the cutoff and
`cooldown_until` keep their microseconds (`upsell_policy_service.py:310-321`,
`_date_utils.py:28`): the row may leave the window, and the cooldown lapse, less
than a second before the announced end.

### PlanExecution

One session, one turn at a time. `DetectByRule` and `DetectByModel` give the
intents, `NotDetected` a gateway that fails, `BuildPlan` the queue; `Profile`,
`Discover`, `AdviseFit` and `Evaluate` are the agents with each outcome the loop
tells apart, `Skip` a missing dependency, `Raise` an adapter that raises.
`Routed` is the signal handler, which sets the trigger and extends the queue.
`DecisionIsLost` is the one exception the loop does not catch. `Reply` is the
deterministic response by what it claims; `Synthesize` may replace it by the
model's wording, of which nothing is said. `Return` and `Persist` save the
session.

### DiscoveryRules, DiscoverySearch and HomeRecommendations

`DiscoveryRules` has the criteria and the strategy of a query, the catalogue
query with its limit, the vector search, the constraints and the ranking. Scores
are in hundredths of a percent; the quotient in the price score is rounded down
where the code keeps a float. Similarity is a constant: embeddings are outside
the model. `Fits` is one test for the catalogue's `active IS TRUE`
(`product_repository.py:75`) and the agent's `active is False`
(`discovery/agent.py:469`): they differ on a row without a value, which the
index alone could bring, and no product here is one (the source writes no
products). Blank names and missing ones are the same. What a retrieval matches
is a set (nothing hangs on its order), the ranking sorts what is left of it
(`SortedBy`). `DiscoverySearch` is a request as its tool calls, each a
transaction, with the catalogue and the stock edited in between (external: the
source writes neither) and the index built by the first semantic search.
`HomeRecommendations` runs one request for each planned section and drops what
an earlier section has; `HomeNext` also has the chat searches, so both share the
index. One request runs at a time: what two would share is the index and the
catalogue, and the edits stand for what the other may see.

### LLMGateway

The only await of `invoke` is the provider's answer, so `Finish` is an answer
(usable, parsed, unusable, empty, error; `Timeout` for none) with everything up
to the next attempt: record, retry, fallback, return. An error that is itself a
validation or JSON error of the completion (`malformed`) is INVALID_OUTPUT, has
no usage, and is asked again like unusable output. `Unusable` is an answer
whose usage block is rejected, `Cancel` a cancelled caller. `Invoke` reads the
prompt through the cache; `EditPrompt` changes, breaks or removes the file.

### FitRules and FitAdvice

`FitRules` is the calculator: evidence by level, risk, size, confidence, band,
action and signals. `FitAdvice` is a question: `ReadProduct`, `ReadProfile`,
`ReadEvidence` and `ReadSimilar` are the awaited tools, each with its failure;
in between an order, a return or an edit may arrive. The decision is made with
the last read; `Explain` may still raise and lose it (`_explain` does not catch
the gateway's `ValueError`). `caseIndex` is the vector index of the process,
which the first search builds from every customer's lines and nothing rebuilds;
it may be another customer's search (`OthersAsk`). The model keeps what it says
of other customers, at most the five cases a query returns, and leaves out how
the query ranks them.

Sizes are naturals in their order, scores are integers: thousandths, and parts
of 4000 for the risk. Both are rounded as the code rounds, but a tie of the risk
goes up where a float may go either way, and the share of the similar cases is
cut to a part of 4000 before it is added. The return rate is an input (`Rates`):
the code takes it over all purchases of twelve months
(`return_history_service.py:65-99`), not only over the lines that bear on the
product, so nothing ties it to those. Reason codes and the wording of
explanations are abstracted.

## 3. What TLC checks

Where several promises belong together, a run checks their conjunction under one
name; the parts are named and explained in the module just before it.

| Run | Instance | Properties, and what they show |
|---|---|---|
| `bus_safety` | 1 request and the poller, 3 events (2 subscribers, 1, and none for the oldest), Limit 2, 2 faults | PUBLISHED only after all, in order, COMPLETED final, one handler at a time, attempts accounted, answers true (one property each); `ImplementsDelivery`: refinement of `EventDelivery`; `Progress`: every call ends, every deliverable event is published unless the poller died |
| `decisions_safety` | 2 decisions, 2 keys, 2 responses, 2 coroutines with 2 calls each, 2 faults | `RowsAgree`: an OK was recorded, a status has its event; `OneWorker`: one worker per key, one service row without faults; `FinalStates`: completed keys are final, no decision is reopened |
| `decisions_double_resolution` | same | **violated**: two responses to one decision |
| `engagement_safety` | 2 requests, poller, 2 keys, 1 premium product, threshold 1, 1 fault | `OneSignalPerProduct` and session; `DecisionsSourced`: one decision per source, which a published signal names; `OneOffer`: the same offer every time, completed receipts are evaluated, no offer twice without faults; `SignalEvaluated` in the end; `ImplementsBus`: refinement of `ContextBus` |
| `engagement_duplicate_offer` | 1 key, 1 fault | **violated**: a redelivery makes a second decision |
| `purchases_safety` | 2 requests, poller, 2 purchases, an earlier order a whole window before the second, 1 fault | `EffectsAgree`: a purchase takes effect once, the history is a chain; `AnswerIsFinal`; `EveryPurchaseProjected`; refinements of `LoyaltyLedger` and of `ContextBus` |
| `sessions_safety` | 2 customers, 2 sessions, 2 coroutines, 2 profile versions, conversations of one turn | `FreshUnlessOverlapped`: no old or torn profile unless a turn overlapped the invalidation; `ProfilesAreOwn`: nobody sees another's; `SessionsAreKept`: owners kept, resting conversations left alone, closed means gone |
| `offers_safety` | 2 evaluations, window 2, limit 2, 3 offers shown, 2 customers, a suppressed decline or nothing in the past, 1 lost row | `LimitsHold`: the limit is exceeded by no more than what is in flight, one older offer per session; `CooldownIsKept`; `OfferFits`: the segment, and no subscription after an answer that rules it out |
| `plans_safety` | 2 turns, wording by the model or not | `PlanIsSound`: steps accounted, plan bounded, one offer per turn; `ReplyIsHonest`: an offer has its decision, a reply claims what was done; `TurnEnds`: a turn under way, of a chat or of a trusted trigger, ends |
| `discovery_safety` | 4 products, 6 queries, catalogue limit 3, 2 requests (chat or homepage), 1 edit | `ResultIsRight`: recommendations are real and in order; `NothingIsLeftOut` of a catalogue or an index search; `HomeIsWhole`: the homepage keeps its limits and is full |
| `gateway_safety` | 2 callers, 2 calls, 2 routes (one with a fallback), 5 answers, 1 edit of a prompt | `RecordsAreComplete`: attempts recorded once, in order, with their tokens; `AttemptsAreDue`: for a cause, and the error is the last resort; `PromptIsPinned` |
| `fit_safety` | 2 questions, up to 1 past line and an event that may add one, 3 sizes, a return rate of 0 or 0.6, every failure | `AdviceIsSound`: sizes exist, scores in range; `EvidenceDecides`: vectors supplement, non-fit returns do not size, the nearest level decides the risk; `MissingIsWeaker`: fallbacks are never surer |

Each module has a type invariant, which is a conjunct of one of its run's
properties (of its own in `bus_safety`, whose theorem is `TypeCorrect`).

Bounds. `MaxFaults` counts crashes, shutdowns, failing handlers, transactions
and tools together; in `bus_safety` two of them allow a failure during the
recovery from a failure. `MaxAnswers` of `LLMGateway` counts the answers of all
calls: 5 are enough for one call to use up every attempt of the longer route
while the other gets its first. `MaxLost` counts only the OFFER_SHOWN rows that
are not written: failing tools and restarts are free in `OfferPolicy`.
`MaxCalls` bounds the dispatch calls (or responses, or model calls) of a run;
the poller is not bounded. Two concurrent actors are enough for every pair of
steps to interleave, and two subscribers for a partial delivery. `Limit` is 1 or
2 where the code has 100, so that more rows are pending than a round loads; with
`Limit` dead rows in front of a live one the poller would starve it, and
`bus_safety` has fewer: a real limit of the code. `Threshold` is 1 where the
code has 3: the second view of the same product is then the one past the
threshold. Windows are 2 or 3 units long, so that the clock passes them and a
row stands exactly on the cutoff. The catalogue limit of 3 (30 in the code) is
below the number of matches a query can have. One edit can fall before, between
and after any two tool calls, and between the search that builds the index and
the next one. `fit_safety` starts from a history of at most one line (three
levels; of the size asked for with every fate, of another size kept or
exchanged) and an order makes it two; conflicts of levels need two. Symmetry is used for coroutines, keys, turns, sessions,
customers and prompt texts, only in runs without liveness. Deadlock is not
checked: with the bounded counters used up, the models may stop.

Fairness: the event loop runs every ready coroutine (WF of each dispatch step,
of the poller's round, of a handler's steps and of a workflow's: the tools and
model calls they await have timeouts), a shutdown completes, and a stopped
process is started again. `TurnEnds` needs WF of the turn's own steps for the
same reason, whether the turn began with a message or with a trusted trigger.
Nothing makes a request arrive, and no fault is fair. The lock is FIFO in
asyncio and in the model, so weak fairness of its holder is enough. The liveness
of the bus has one exception, stated in the properties: a poller that has died
stays dead until a restart. The modules without fairness (`ProfileSessions`,
`OfferPolicy`, `HomeRecommendations`, `LLMGateway`, `FitAdvice`) have only
sequences of awaited calls, whose length the safety properties bound.

## 4. Promises the code does not keep

Two statements of the repository are refuted by runs (`expect: violation`);
PROJECT.json quotes them:

* `OneResponsePerDecision` (`decisions_double_resolution`): the decision is
  tested when a key is claimed and written when it completes.
* `OneDecisionPerSignal` (`engagement_duplicate_offer`): the decision is linked
  to its signal in a second transaction.

The modules state more of them, each marked "Does not hold". To see the
counterexample, put the property in place of the properties of the named cfg
(SYMMETRY removed):

| Property, cfg | The code's words, and what it does |
|---|---|
| `RecoversUntilShutdown`, `ContextBus_safety` | `context_bus.py:90` "Recover pending events until application shutdown": an exception of `_load_events` leaves `run` and ends the task |
| `InFlightIsTrue`, `UpsellDecisions_safety` | `upsell_decision_service.py:179` "already being processed": after a crash nobody is |
| `ReplayIsOriginal`, `Engagement_safety` | `test_upsell_ui_api.py:268` replay equals original: `complete` overwrites a completed receipt (`api/upsell.py:269`) |
| `WindowMeansLoyal`, `Purchases_safety` with `Past = {}` | `MISSION4_SEQUENCE_IMPLEMENTATION_DESIGN.md:58`, enough purchases in the window make a customer Loyal: not if they arrive newest first |
| `ProjectionsFresh`, `ProfileSessions_safety` | `context_bus.py:284` "Invalidate stale ... projections": a turn in flight puts the old profile back. `FreshUnlessOverlapped` is what holds |
| `TurnsArePersisted`, `ProfileSessions_safety` | `session_context_service.py:22` "persist multi-turn context": of two overlapping turns the later save drops the other |
| `ClosedStaysClosed`, `ProfileSessions_safety` | `api/sessions.py:182` "Session closed": a turn in flight saves it again. `ClosedLeavesNothing` is what holds of the close itself |
| `FrequencyLimit`, `OfferPolicy_safety` | `SYSTEM_DESIGN.md:417` "30-day frequency limit": evaluations in flight together do not see each other. `OvershootIsBounded` is what holds |
| `SignalIsEvaluated`, `PlanExecution_safety` | `README.md:220`, a qualifying signal is routed to Upsell: one that follows a completed Upsell, or precedes another signal, is not evaluated |
| `EveryAttemptAccounted`, `LLMGateway_safety` | `SYSTEM_DESIGN.md:702` "Attempt is accounted and fallback is tried": not if its usage block is rejected (`gateway.py:282`) |
| `ExactOutranksBrand`, `FitAdvice_safety` | `SYSTEM_DESIGN.md:384` "Exact customer/product history outranks brand": a brand adjustment comes before the size that was kept |

Some hazards of the code are in the models and caught by no property, because
what the properties promise excuses them; PROJECT.json says so at each: the
PROCESSING key and the second service row after a failed completion, the failed
tool that completes a delivery, the overlapping turns that
`FreshUnlessOverlapped` and `SessionsAreKept` leave out, the overwritten
trigger, the size a brand adjustment takes from a kept one, and a query with
more matches than its limit.

## 5. What is proved

Eight modules `*_proofs` state, for every value of the constants, what the runs
check on an instance. Every safety property of every passing run is a theorem.
None of them is inductive, so each component has a stronger invariant: what has
to hold at every await for the property to survive the next step.

| Module | Theorem: property | The invariant, and why it is needed |
|---|---|---|
| `ContextBus_proofs` | `TypeCorrect`: `TypeOK`; `PublishedSafe`: `PublishedOnlyAfterAll`; `InOrder`: `ServedInOrder`; `HandlersExclude`: `OneHandlerAtATime`; `CompletedForever`: `CompletedIsFinal`; `AnswersTrue`: `AnswerMeansPublished`; `AttemptsCounted`: `AttemptsAccounted`; `Refinement`: `ImplementsDelivery` | `LockInv`: who is in the middle of a dispatch holds the lock, so the rows of the event at its cursor are its alone. `PrefixInv`, `ClaimInv`, `RowsInv`: subscribers before the cursor have completed, the delivery in a handler's hands is PROCESSING. `AnswerInv`: an event asked for is published or still in the batch. `BehindInv`: a delivery yet to be claimed has fewer attempts than its event |
| `UpsellDecisions_proofs` | `Agreement`: `RowsAgree`; `Exclusion`: `OneWorker`; `Finality`: `FinalStates` | `WorkInv`: a request between its transactions owns the claim of its key, for the payload it sent. `CleanInv`: without failures a key has one worker in its life, so one service row |
| `BusClients_proofs`, Engagement | `Composition`: `ImplementsBus`; `SignalsPublishedSafely`, `EvaluationsExclude`, `EngagementDelivery`: the bus's theorems for signals; `OneSignal`: `OneSignalPerProduct`; `DecisionsNamed`: `DecisionsSourced`; `OneOfferPerSignal`: `OneOffer` | `ReceiptsInv`: the counts of one product's receipts are different and at most their number, so one of them is the threshold. `OffersInv`: while a handler is past its search, its signal has no sourced decision. `RepliesInv`: a completed receipt has the result of its published signal. `FaultlessInv`: what a handler has not done yet, as long as nothing failed |
| `BusClients_proofs`, Purchases | `PurchaseComposition`: `PurchasesImplementBus`; `PurchaseDelivery`: the bus's theorems for purchases; `EffectsOnce`: `EffectsAgree`; `AnswersFinal`: `AnswerIsFinal`; `LedgerRefinement`: `ImplementsLedger` | `PurchaseRowsInv`: inbox, orders and outbox have the same events. `VersionsInv`: the stored versions number the applied events from 2 without a gap, which is the sequence the refinement maps to. `AuditInv`: the chain. `GraphInv`: what a workflow knows at each of its nodes |
| `ProfileSessions_proofs` | `OwnProfiles`: `ProfilesAreOwn`; `Freshness`: `FreshUnlessOverlapped`; `SessionsKept`: `SessionsAreKept` | every coroutine, session and cache entry holds its own customer's profile; that of a customer with nothing pending and no overlapped turn is current also in the hands of a coroutine that has read it and not stored it (`GoodProfile`, `GoodTurn`) |
| `OfferPolicy_proofs` | `Limits`: `LimitsHold`; `Cooldowns`: `CooldownIsKept`; `OffersSuit`: `OfferFits` | `LimitInv` counts the offers in hand with those shown, and ties what the customer saw to the rows plus the lost ones, for every later time. `CoolInv`: the rows that caused an announced cooldown are in the window until it ends |
| `PlanExecution_proofs` | `PlansSound`: `PlanIsSound`; `RepliesHonest`: `ReplyIsHonest` | `Asked`: requests are not repeated, so a plan names an agent once. `Bounded`: a second Upsell is the last step, and there because the first failed. `Smooth`: without an error what was taken was done. `Offered`, `Found`: a shown offer and a match have their completed agent |
| `LLMGateway_proofs` | `Complete`: `RecordsAreComplete`; `Due`: `AttemptsAreDue`; `Pinned`: `PromptIsPinned` | `CallsInv`: a call's own records follow its route. `TelemetryInv`: in the list all callers share, those with its trace are exactly these, in order. `PromptInv`: the cache has the text of every call in flight and of every record |
| `Specialists_proofs`, Fit | `AdviceSound`: `AdviceIsSound`; `EvidenceHasItsSay`: `EvidenceDecides`; `FallbackIsWeaker`: `MissingIsWeaker` | `FitInv`: what each of the four reads brought has its type and its range; the profile in hand is no surer than the stored one and the similar cases in hand are all or none (`ReadIsWeaker`); an answer is the calculator's of exactly these (`FollowsTheRules`). The rest is lemmas about the rules: what wins the chain of sizes is sold (`RecommendedIsSold`), what the silenced lines change (`OtherReturnsAreSilent`, `NearLinesDecide`), confidence grows with its inputs (`ConfidenceGrows`) |
| `Specialists_proofs`, Discovery | `DiscoverySound` for a search alone; `ResultSound`: `ResultIsRight` and `ResultComplete`: `NothingIsLeftOut` with the homepage | `SearchInv`: what was read was so at some moment since the request began (`ReadInv`), and is so still if nothing was edited (`StillInv`); the result is the head of the ranking of what is eligible (`ShownInv`). `OutranksOrders`: score, price and SKU order the products totally, which is what makes the ranking one and its head the best |
| `Specialists_proofs`, homepage | `PageWhole`: `HomeIsWhole` | `HomeInv` adds: the plan names a category once (`PlanInv`); the seen products are those of the sections, each once (`PageInv`); the request in flight is the section's own (`AskedInv`), so its result is complete by `SearchInv`; a section that has been passed is covered (`CoverInv`) |

`Refinement` maps `StartEvent`, claims and failures to stutters,
`CompleteDelivery` to `Deliver` and `MarkPublished` to `Publish`;
`LedgerRefinement` maps `ProcessPurchase` of a new event to a purchase and all
else to stutters. Through the two compositions every theorem of the bus holds of
signals and of purchases; `EngagementDelivery` and `PurchaseDelivery` collect
them.

The sums, counts and rankings of Fit and Discovery are recursive or chosen, so
their lemmas need induction over the length of a list. `Induction` proves it for
sets of naturals from the library's facts about finite sets (the predecessor is
an injection of the counterexamples below n into themselves, hence onto, and n
is not reached). On it rest `RunningSum` (what `SumOf` adds up), `PlacesGrow`
and `SortedByIsSorted` (a finite set with a total order has its sorted list),
and on those `PickedElements`, `BestAreShown` and `NothingIsCut`.

One statement did not survive its proof. `HomeIsFull` excused a category from
which the page lacks products if more than `Limit` of its products could be
shown. But the catalogue query cuts before the stock is looked at: with `Limit`
products or fewer in stock and one more that is sold out, the cut can take one
that could have been shown. The instance, whose catalogue has three dresses and
`Limit` 3, was too small to show it. The excuse is now what the code gives: the
query *matches* more than `Limit` products.

Assumptions, all named in the modules and evaluated by TLC on every run:

* `ContextBus`: `Subs` has no duplicates (registration by name), `Rank` is
  injective (the order of the outbox is total), the poller is not a request.
* `Engagement`: one subscriber for a signal, as `api/main.py` registers it;
  a threshold above 0.
* `Purchases`: earlier occurrence means earlier rank; past orders are finite
  in number.
* `UpsellDecisions`: "PENDING" is no response.
* `OfferPolicy`: finitely many coroutines; a past that is finite and not in
  the future.
* `LLMGateway`: some use case; a route's fallback is not its primary model and
  it retries at most twice, as `llm_gateway/models.py` and `policies.py` validate.
* `DiscoveryRules`: finitely many SKUs, similarities in percent, a limit above 0;
  `DiscoverySearch`: prices are naturals or missing, a request asks for a result
  at least; `HomeRecommendations`: limits above 0, as `api/recommendations.py`
  validates, and affinities are lists of raw names.
* `FitAdvice`: histories and profiles have the types of `models/fit.py`; without a
  stored profile there is no usual size, adjustment or confidence.
* Bounds are naturals. None of them is used to limit a theorem to small runs.

Where the model uses a helper of the community modules that is defined with a
recursive operator (`FlattenSeq`, `SelectSeq`, the folds), the modules with
theorems use functions, concatenation and cardinalities instead; no such
operator can be reasoned about by the provers used.

Only model-checked is the liveness: `Progress`, `SignalEvaluated`,
`EveryPurchaseProjected` and `TurnEnds`. Fairness and ENABLED are out of reach
of the provers used. What section 4 lists does not hold, and has counterexamples
instead.

## 6. Plan

`OneOfferPerTurn` across turns is the next theorem worth having: `PlanExecution`
records a decision, `UpsellDecisions` keeps it; an abstract ledger of offers
both implement.

Models worth extending: a product page that names another customer's session in
`Engagement`, two searches at once in `DiscoverySearch`, return windows in
`FitRules`.

## 7. Not modelled, and why

* Authentication, tool scopes: guards without interleaving (a set of revoked
  token ids and a static table). A refused tool call is one of the failures
  the agents' modules have.
* Prompts, message wording, explanations, embeddings: data. Rankings and scores
  are modelled, with the rounding said above.
* The repositories' SQL beyond what it selects, DTO validation beyond the ranges
  the type invariants state, tracing, the UI, the MCP server's transport.
* Seed data: `seed_profile_demo.py` is a maintenance script run on a stopped
  system.
* Several processes sharing one database: the code starts one, and its lock is
  an `asyncio.Lock`.
