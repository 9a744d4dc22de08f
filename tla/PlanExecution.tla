---------------------------- MODULE PlanExecution ----------------------------
(***************************************************************************)
(* The turns of one session through NeuTailOrchestrator: chat turns (the   *)
(* nodes of the graph in src/orchestrator/orchestrator.py) and trusted     *)
(* triggers (handle_upsell_trigger), one at a time.  The plan is a queue   *)
(* of agents that grows while it runs.                                     *)
(*                                                                         *)
(* What an agent answers is a choice; ProfileSessions models the sessions  *)
(* that several coroutines share, OfferPolicy the Upsell agent.            *)
(***************************************************************************)
EXTENDS Integers, FiniteSets, Sequences, SequencesExt

CONSTANTS
    MaxTurns,    \* bound: turns of a run
    Synthesis    \* values of NEUTAIL_RESPONSE_SYNTHESIS_LLM a run allows

ASSUME TurnsAssumption == MaxTurns \in Nat /\ Synthesis \subseteq BOOLEAN

Profiling == "profiling"
Discovery == "discovery"
Fit == "fit"
Upsell == "upsell"
Agent == {Profiling, Discovery, Fit, Upsell}

Specialist == {"PRODUCT_DISCOVERY", "FIT_QUERY", "SERVICE_QUERY"}
Intent == Specialist \cup {"CUSTOMER_CONTEXT", "GENERAL_QUERY"}

Supported == {"HIGH_PRODUCT_ENGAGEMENT", "CHRONIC_FIT_RISK"}

VARIABLES
    session,    \* SessionContext: profile, selected SKU, turns, last agent
    turn,       \* the working state of the turn
    started     \* bound counter

vars == <<session, turn, started>>

NewTurn(kind) ==
    [kind |-> kind, phase |-> "start", intents |-> <<>>, sure |-> TRUE, sku |-> session.sku,
     profile |-> session.profile, queue |-> <<>>, next |-> 1, trigger |-> "none",
     done |-> <<>>, errors |-> <<>>, discovery |-> "none", fit |-> "none", upsell |-> "none",
     reply |-> "none",
     \* history: supported signals, triggers Upsell evaluated, offers shown and recorded
     emitted |-> {}, evaluated |-> {}, shown |-> 0, recorded |-> 0]

Init ==
    /\ session = [profile |-> FALSE, sku |-> FALSE, turns |-> 0, last |-> "none"]
    /\ turn = [NewTurn("chat") EXCEPT !.phase = "done"]
    /\ started = 0

-----------------------------------------------------------------------------
(* A chat turn up to its plan.                                             *)

Over == turn.phase \in {"done", "failed"}
Set(t) == turn' = t

\* handle: validate_identity and load_context.
Chat ==
    /\ Over /\ started < MaxTurns /\ started' = started + 1
    /\ Set(NewTurn("chat"))
    /\ UNCHANGED session

\* The identity tool fails or knows no such customer.
Reject ==
    /\ turn.kind = "chat" /\ turn.phase = "start"
    /\ Set([turn EXCEPT !.phase = "failed"])
    /\ UNCHANGED <<session, started>>

\* _detect_deterministically: the specialist requests a message matches, in
\* this order.  CUSTOMER_CONTEXT comes last and is no secondary request, so it
\* is the primary request of a message that matches nothing else.
Part(i, R) == IF i \in R THEN <<i>> ELSE <<>>
Matched(R) == Part("PRODUCT_DISCOVERY", R) \o Part("FIT_QUERY", R) \o Part("SERVICE_QUERY", R)

Requests(R) == IF R = {"CUSTOMER_CONTEXT"} THEN <<"CUSTOMER_CONTEXT">> ELSE Matched(R)

Understood(intents, sure, sku) ==
    Set([turn EXCEPT !.phase = "plan", !.intents = intents, !.sure = sure,
                     !.sku = session.sku \/ sku])

DetectByRule(R, sku) ==
    /\ turn.kind = "chat" /\ turn.phase = "start" /\ R # {}
    /\ Understood(Requests(R), TRUE, sku)
    /\ UNCHANGED <<session, started>>

\* The secondary requests intent_detection may find beside a primary one: each
\* once, and not the primary one again.
Detected(i) == {u \in BoundedSeq(Specialist \ {i}, 3) : IsInjective(u)}

\* No rule matches: the gateway answers with requests and a confidence, or
\* fails and the turn keeps GENERAL_QUERY at 0.4.
DetectByModel(sure, sku) ==
    /\ turn.kind = "chat" /\ turn.phase = "start"
    /\ \E i \in Intent : \E u \in Detected(i) : Understood(<<i>> \o u, sure, sku)
    /\ UNCHANGED <<session, started>>

NotDetected(sku) ==
    /\ turn.kind = "chat" /\ turn.phase = "start"
    /\ Understood(<<"GENERAL_QUERY">>, FALSE, sku)
    /\ UNCHANGED <<session, started>>

Route == [PRODUCT_DISCOVERY |-> Discovery, FIT_QUERY |-> Fit, SERVICE_QUERY |-> Upsell]

\* The requests route_map has an agent for: all but, possibly, the primary one.
Routable(t) == IF Head(t.intents) \in DOMAIN Route THEN t.intents ELSE Tail(t.intents)

Steps(t) ==
    IF ~t.sure THEN <<>>
    ELSE (IF ~t.profile /\ ToSet(t.intents) # {"GENERAL_QUERY"} THEN <<Profiling>> ELSE <<>>)
         \o [i \in DOMAIN Routable(t) |-> Route[Routable(t)[i]]]

BuildPlan ==
    /\ turn.phase = "plan"
    /\ Set([turn EXCEPT !.phase = "run", !.queue = Steps(turn)])
    /\ UNCHANGED <<session, started>>

\* handle_upsell_trigger, for a session that exists.
Triggered(trigger) ==
    /\ Over /\ session.turns > 0 /\ started < MaxTurns /\ started' = started + 1
    /\ LET t == NewTurn("trigger") IN
         Set([t EXCEPT !.phase = "run", !.trigger = trigger,
                       !.queue = IF t.profile THEN <<Upsell>> ELSE <<Profiling, Upsell>>])
    /\ UNCHANGED session

-----------------------------------------------------------------------------
(* _execute_plan.                                                          *)

Pending(t) == SubSeq(t.queue, t.next, Len(t.queue))

Called(agent) ==
    /\ turn.phase = "run" /\ turn.next <= Len(turn.queue)
    /\ turn.queue[turn.next] = agent
    /\ agent = Profiling \/ turn.profile
    /\ UNCHANGED <<session, started>>

Advance(t) == [t EXCEPT !.next = t.next + 1]
Completed(t, agent) == [Advance(t) EXCEPT !.done = Append(t.done, agent)]

\* Mutant: continue comes before the index moves.
Stay(t, agent, kind) == t

Fail(t, agent, kind) ==
    [Advance(t) EXCEPT !.errors = Append(t.errors, [agent |-> agent, kind |-> kind])]

\* DEPENDENCY_MISSING: a specialist without a customer context.
Skip ==
    /\ turn.phase = "run" /\ turn.next <= Len(turn.queue)
    /\ LET agent == turn.queue[turn.next] IN
         /\ agent # Profiling /\ ~turn.profile
         /\ Set(Fail(turn, agent, "missing"))
    /\ UNCHANGED <<session, started>>

\* The adapter raises: another tool scope than its contract, or any error.
Raise(agent) == Called(agent) /\ Set(Fail(turn, agent, "raised"))

Profile == Called(Profiling) /\ Set([Completed(turn, Profiling) EXCEPT !.profile = TRUE])

\* Mutant: a completed Upsell is appended again.
AppendUnqueued(t) ==
    IF Upsell \in ToSet(Pending(t)) THEN t.queue ELSE Append(t.queue, Upsell)

Extended(t) ==
    IF Upsell \in ToSet(Pending(t)) \/ Upsell \in ToSet(t.done) THEN t.queue
    ELSE Append(t.queue, Upsell)

\* UpsellSignalHandler.from_agent_result: the supported signal is the trigger.
Routed(t, signals) ==
    LET supported == signals \cap Supported IN
    IF supported = {} THEN t
    ELSE [t EXCEPT !.trigger = CHOOSE s \in supported : TRUE, !.queue = Extended(t),
                   !.emitted = t.emitted \cup supported]

Discover(status, signals) ==
    /\ Called(Discovery) /\ (signals # {} => status = "matches")
    /\ LET t == IF status = "failed" THEN Fail(turn, Discovery, "failed")
                                     ELSE Completed(turn, Discovery)
       IN Set(Routed([t EXCEPT !.discovery = status], signals))

\* SELECTED_SKU_REQUIRED without a selected SKU.
AdviseFit(status, signals) ==
    /\ Called(Fit)
    /\ (~turn.sku => status = "failed") /\ (signals # {} => status = "advised")
    /\ LET t == IF status = "failed" THEN Fail(turn, Fit, "failed") ELSE Completed(turn, Fit)
       IN Set(Routed([t EXCEPT !.fit = status], signals))

Trigger(t) == IF t.trigger = "none" THEN "STYLING_ENGAGEMENT" ELSE t.trigger

RecordDecision(t) == [t EXCEPT !.recorded = @ + 1]

Evaluate(status) ==
    /\ Called(Upsell)
    /\ LET t == [IF status = "failed" THEN Fail(turn, Upsell, "failed")
                                      ELSE Completed(turn, Upsell)
                    EXCEPT !.upsell = status, !.evaluated = @ \cup {Trigger(turn)}]
       IN Set(IF status = "offer" THEN RecordDecision([t EXCEPT !.shown = @ + 1]) ELSE t)

\* The agent has shown its offer and record_decision raises out of the turn.
DecisionIsLost ==
    /\ Called(Upsell)
    /\ Set([turn EXCEPT !.phase = "failed", !.shown = @ + 1])

PlanIsDone ==
    /\ turn.phase = "run" /\ turn.next > Len(turn.queue)
    /\ UNCHANGED started

Answer == PlanIsDone /\ turn.kind = "chat" /\ Set([turn EXCEPT !.phase = "reply"])
                     /\ UNCHANGED session

LastAgent == IF turn.done = <<>> THEN session.last ELSE Last(turn.done)

\* The end of handle_upsell_trigger: no structured result is an error.
Return ==
    /\ PlanIsDone /\ turn.kind = "trigger"
    /\ IF turn.upsell = "none"
       THEN Set([turn EXCEPT !.phase = "failed"]) /\ UNCHANGED session
       ELSE /\ Set([turn EXCEPT !.phase = "done"])
            /\ session' = [session EXCEPT !.profile = turn.profile, !.last = LastAgent]

-----------------------------------------------------------------------------
(* The reply and the saved session.                                        *)

\* Mutant: the errors of secondary requests are not looked at.
HopefulReply(t) ==
    IF ~t.sure THEN "clarify" ELSE IF t.profile THEN "completed" ELSE "help"

\* _deterministic_response.
Reply(t) ==
    LET intent == t.intents[1] IN
    IF ~t.sure THEN "clarify"
    ELSE IF intent = "CUSTOMER_CONTEXT" /\ t.profile THEN "profile"
    ELSE IF intent = "PRODUCT_DISCOVERY" /\ t.discovery = "no_results" THEN "no_results"
    ELSE IF intent = "PRODUCT_DISCOVERY" /\ t.discovery = "matches"
         THEN IF t.upsell = "offer" THEN "matches_and_offer" ELSE "matches"
    ELSE IF intent = "FIT_QUERY" /\ t.fit # "none" THEN "fit"
    ELSE IF intent = "SERVICE_QUERY" /\ t.upsell # "none"
         THEN IF t.upsell = "offer" THEN "offer" ELSE "no_offer"
    ELSE IF t.errors # <<>> THEN "incomplete"
    ELSE IF t.profile THEN "completed"
    ELSE "help"

\* The model's wording, or the fallback when it is off or fails.
Synthesize(llm) ==
    /\ turn.phase = "reply" /\ turn.reply = "none"
    /\ \E reply \in {Reply(turn)} \cup (IF llm THEN {"worded"} ELSE {}) :
          Set([turn EXCEPT !.reply = reply])
    /\ UNCHANGED <<session, started>>

Persist ==
    /\ turn.phase = "reply" /\ turn.reply # "none"
    /\ session' = [profile |-> turn.profile, sku |-> turn.sku, turns |-> session.turns + 1,
                   last |-> LastAgent]
    /\ Set([turn EXCEPT !.phase = "done"])
    /\ UNCHANGED started

Step ==
    \/ Reject
    \/ \E R \in SUBSET (Specialist \cup {"CUSTOMER_CONTEXT"}), sku \in BOOLEAN : DetectByRule(R, sku)
    \/ \E sure, sku \in BOOLEAN : DetectByModel(sure, sku)
    \/ \E sku \in BOOLEAN : NotDetected(sku)
    \/ BuildPlan \/ Skip \/ (\E a \in Agent : Raise(a)) \/ Profile
    \/ \E status \in {"matches", "no_results", "failed"},
          signals \in SUBSET {"HIGH_PRODUCT_ENGAGEMENT"} : Discover(status, signals)
    \/ \E status \in {"advised", "failed"},
          signals \in SUBSET {"CHRONIC_FIT_RISK", "HIGH_FIT_RISK"} : AdviseFit(status, signals)
    \/ \E status \in {"offer", "no_offer", "failed"} : Evaluate(status)
    \/ DecisionIsLost \/ Answer \/ Return
    \/ (\E llm \in Synthesis : Synthesize(llm)) \/ Persist

Next ==
    \/ Chat
    \/ \E trigger \in {"HIGH_PRODUCT_ENGAGEMENT", "CART_ABANDONMENT"} : Triggered(trigger)
    \/ Step

Spec == Init /\ [][Next]_vars /\ WF_vars(Step)

-----------------------------------------------------------------------------
Count(s, a) == Cardinality({i \in DOMAIN s : s[i] = a})
Blamed(t) == [i \in DOMAIN t.errors |-> t.errors[i].agent]

Phase == {"start", "plan", "run", "reply", "done", "failed"}
Said == {"none", "clarify", "profile", "no_results", "matches", "matches_and_offer", "fit", "offer",
         "no_offer", "incomplete", "completed", "help", "worded"}
Error == [agent : Agent, kind : {"missing", "raised", "failed"}]

Turn == [kind : {"chat", "trigger"}, phase : Phase, intents : Seq(Intent), sure : BOOLEAN,
         sku : BOOLEAN, profile : BOOLEAN, queue : Seq(Agent), next : Nat \ {0},
         trigger : Supported \cup {"none", "CART_ABANDONMENT"},
         done : Seq(Agent), errors : Seq(Error),
         discovery : {"none", "matches", "no_results", "failed"},
         fit : {"none", "advised", "failed"}, upsell : {"none", "offer", "no_offer", "failed"},
         reply : Said, emitted : SUBSET Supported,
         evaluated : SUBSET (Supported \cup {"CART_ABANDONMENT", "STYLING_ENGAGEMENT"}),
         shown : Nat, recorded : Nat]

\* Type invariant.
TypeOK ==
    /\ session \in [profile : BOOLEAN, sku : BOOLEAN, turns : Nat, last : Agent \cup {"none"}]
    /\ turn \in Turn /\ turn.next <= Len(turn.queue) + 1
    /\ started \in 0..MaxTurns

\* Every step the loop has taken is accounted for exactly once, as a completed
\* agent or as an error of that agent, although the queue grows under it.
StepsAccounted ==
    turn.phase # "failed" =>
        LET taken == SubSeq(turn.queue, 1, turn.next - 1) IN
        \A a \in Agent : Count(taken, a) = Count(turn.done, a) + Count(Blamed(turn), a)

\* A turn shows the customer one offer at most, whatever the planner, the
\* signals and the retries of a failed evaluation append.
OneOfferPerTurn == turn.shown <= 1

\* An agent is planned once; Upsell a second time only after the first
\* evaluation failed.  The queue is bounded: the loop cannot feed itself.
PlanIsBounded ==
    \A a \in Agent :
        \/ Count(turn.queue, a) <= 1
        \/ a = Upsell /\ Count(turn.queue, a) = 2
           /\ (turn.phase \in {"reply", "done"} => Upsell \in ToSet(Blamed(turn)))

\* The plan that grows while it runs loses no step, ends, and evaluates its
\* offer once.
PlanIsSound == TypeOK /\ StepsAccounted /\ PlanIsBounded /\ OneOfferPerTurn

\* An offer a finished turn showed has its pending decision, for the
\* customer to answer; else the turn has failed as a whole.
ShownIsDecided == turn.phase \in {"reply", "done"} => turn.shown = turn.recorded

\* The deterministic reply does not promise what the turn has not done:
\* "completed" means every planned step succeeded, an offer that a decision
\* waits for it, matches that Discovery found them.
ReplyMeansDone ==
    /\ turn.reply = "completed" => turn.done = turn.queue
    /\ turn.reply \in {"offer", "matches_and_offer"} => turn.recorded = 1
    /\ turn.reply \in {"matches", "matches_and_offer"} => Discovery \in ToSet(turn.done)

\* What the customer is told and shown was done, whichever steps failed.
ReplyIsHonest == ShownIsDecided /\ ReplyMeansDone

\* Whenever a turn is under way, a chat's from its message on or a trusted
\* trigger's from its plan on, it ends, with a saved session or with an error:
\* the loop over a queue that grows while it runs, errors and all, terminates.
TurnEnds == ~Over ~> Over

\* README.md:220: a supported signal of a specialist is routed to Upsell.  In
\* a finished turn whose Upsell steps did not fail, each one was evaluated.
\* Does not hold: README, section 4.
SignalIsEvaluated ==
    turn.phase = "done" /\ Upsell \notin ToSet(Blamed(turn)) =>
        turn.emitted \subseteq turn.evaluated
=============================================================================
