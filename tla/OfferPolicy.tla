----------------------------- MODULE OfferPolicy -----------------------------
(***************************************************************************)
(* Evaluations of service offers to one customer: UpsellAgent.execute      *)
(* (src/agents/upsell/agent.py) with the tools of src/tools/upsell_tools.py *)
(* and the process-local session limit of UpsellPolicyService.evaluate.    *)
(*                                                                         *)
(* The policy reads the service-engagement rows in one transaction; the    *)
(* agent then awaits the model's wording and writes its OFFER_SHOWN row in *)
(* another.  Chat turns, signals and the customer's answers interleave.    *)
(***************************************************************************)
EXTENDS OfferRules

CONSTANTS
    Agent,        \* coroutines: evaluations in flight
    Session,      \* sessions of the customer, for the session limit
    Customers,    \* the customers rows a run starts from
    Histories,    \* the service-engagement rows a run starts from
    Strengths,    \* trigger strengths and engagement scores, in percent
    Inputs,       \* inputs of the older evaluation
    MaxTime, MaxShown, MaxAnswers, MaxLost   \* bounds

ASSUME AgentAssumption == IsFiniteSet(Agent)
ASSUME HistoryAssumption ==
    \A h \in Histories :
        /\ IsABag(h) /\ IsFiniteSet(BagToSet(h))
        /\ \A r \in BagToSet(h) : r.at \in Int /\ r.at <= 0
ASSUME BoundsAssumption ==
    MaxTime \in Nat /\ MaxShown \in Nat /\ MaxAnswers \in Nat /\ MaxLost \in Nat

VARIABLES
    now,        \* the clock
    customer,   \* durable: the customers row
    rows,       \* durable: service_engagement rows
    offered,    \* UpsellPolicyState.offered_sessions
    agent,      \* the evaluations in flight
    displayed,  \* history: offers the customer was shown
    until,      \* history: the latest cooldown_until that was answered
    granted,    \* history: offers evaluate allowed per session since the start
    lost        \* history: OFFER_SHOWN rows that were not written

vars == <<now, customer, rows, offered, agent, displayed, until, granted, lost>>
history == <<displayed, until, granted>>

Idle == [step |-> "idle", segment |-> "none", offer |-> "none", since |-> 0, session |-> "none",
         service |-> "none"]

Row(type, outcome) == [type |-> type, outcome |-> outcome, suppressed |-> FALSE, at |-> now]

TypeOK ==
    /\ now \in 0 .. MaxTime /\ lost \in 0 .. MaxLost
    /\ IsABag(rows) /\ \A r \in BagToSet(rows) : r.at <= now
    /\ offered \subseteq Session
    /\ \A a \in Agent :
          /\ agent[a].step \in {"idle", "tools", "wording", "granting"}
          /\ agent[a].offer \in Offer \cup {"none"} /\ agent[a].since <= now
    /\ IsABag(displayed) /\ \A d \in BagToSet(displayed) : d.offer \in Offer

Init ==
    /\ now = 0 /\ lost = 0
    /\ customer \in Customers /\ rows \in Histories
    /\ offered = {}
    /\ agent = [a \in Agent |-> Idle]
    /\ displayed = EmptyBag /\ until = 0 /\ granted = [s \in Session |-> 0]

-----------------------------------------------------------------------------
With(bag, x) == bag (+) SetToBag({x})
Move(a, next) == agent' = [agent EXCEPT ![a] = next]

\* A turn with a profile reaches the Upsell agent.
Begin(a) ==
    /\ agent[a] = Idle
    /\ BagCardinality(displayed) < MaxShown
    /\ Move(a, [Idle EXCEPT !.step = "tools", !.segment = customer.segment])
    /\ UNCHANGED <<now, customer, rows, offered, history, lost>>

\* A context tool or the policy fails: FAILED, and nothing is offered.
ToolsFail(a) ==
    /\ agent[a].step = "tools"
    /\ Move(a, Idle)
    /\ UNCHANGED <<now, customer, rows, offered, history, lost>>

Later(x, y) == IF x < y THEN y ELSE x

Refuse(a, trigger, strength) ==
    /\ agent[a].step = "tools"
    /\ LET reason == Refusal(customer, agent[a].segment, trigger, strength, rows, now) IN
         /\ reason # "NONE"
         /\ until' = Later(until, Cooldown(reason, rows, now))
    /\ Move(a, Idle)
    /\ UNCHANGED <<now, customer, rows, offered, displayed, granted, lost>>

Approve(a, trigger, strength) ==
    /\ agent[a].step = "tools"
    /\ Refusal(customer, agent[a].segment, trigger, strength, rows, now) = "NONE"
    /\ LET segment == agent[a].segment
           offers == EligibleOffers(segment, trigger, rows)
       IN  \E engagement \in Strengths :
             LET band == Band(Score(customer, segment, strength, engagement)) IN
             Move(a, [agent[a] EXCEPT !.step = "wording", !.since = now,
                                      !.offer = Select(offers, segment, trigger, band)])
    /\ UNCHANGED <<now, customer, rows, offered, history, lost>>

Display(a) ==
    /\ displayed' = With(displayed, [offer |-> agent[a].offer, at |-> now])
    /\ Move(a, Idle)

\* The model has answered or failed; record_upsell_event commits its row.
Record(a) ==
    /\ agent[a].step = "wording"
    /\ rows' = With(rows, Row(agent[a].offer, "OFFER_SHOWN"))
    /\ Display(a)
    /\ UNCHANGED <<now, customer, offered, until, granted, lost>>

\* The row is lost and the offer is shown all the same.
RecordFails(a) ==
    /\ agent[a].step = "wording"
    /\ lost < MaxLost /\ lost' = lost + 1
    /\ Display(a)
    /\ UNCHANGED <<now, customer, rows, offered, until, granted>>

ShownOf(o) == {d \in BagToSet(displayed) : d.offer = o}
AnsweredOf(o) == {r \in BagToSet(rows) : r.type = o /\ r.outcome \in Response}

\* The customer answers an offer; the decision endpoint records it.
Answer(o, response) ==
    /\ Copies(rows, UNION {AnsweredOf(p) : p \in Offer}) < MaxAnswers
    /\ Copies(rows, AnsweredOf(o)) < Copies(displayed, ShownOf(o))
    /\ rows' = With(rows, Row(o, response))
    /\ UNCHANGED <<now, customer, offered, agent, history, lost>>

\* A purchase makes a new customer loyal.
Promote ==
    /\ customer.segment \in {"price explorer", "aspiring loyalist"}
    /\ customer' = [customer EXCEPT !.isNew = FALSE,
                      !.segment = IF @ = "price explorer" THEN "value defender"
                                  ELSE "prestige champion"]
    /\ UNCHANGED <<now, rows, offered, agent, history, lost>>

-----------------------------------------------------------------------------
\* upsell_evaluate up to its last lock.
LegacyCheck(a, s, input) ==
    /\ agent[a] = Idle
    /\ s \notin offered
    /\ LegacyPasses(customer, input, rows, now)
    /\ Move(a, [Idle EXCEPT !.step = "granting", !.session = s,
                        !.service = Candidate(Candidates(customer, rows), input)])
    /\ UNCHANGED <<now, customer, rows, offered, history, lost>>

\* Mutant: the session is not looked up again.
LegacyGrantUnchecked(a) ==
    /\ agent[a].step = "granting"
    /\ offered' = offered \cup {agent[a].session}
    /\ granted' = [granted EXCEPT ![agent[a].session] = @ + 1]
    /\ Move(a, Idle)
    /\ UNCHANGED <<now, customer, rows, displayed, until, lost>>

\* A session in offered_sessions by now gets no offer.
LegacyGrant(a) ==
    LET s == agent[a].session IN
    /\ agent[a].step = "granting"
    /\ offered' = offered \cup {s}
    /\ granted' = IF s \in offered THEN granted ELSE [granted EXCEPT ![s] = @ + 1]
    /\ Move(a, Idle)
    /\ UNCHANGED <<now, customer, rows, displayed, until, lost>>

Restart ==
    /\ offered' = {} /\ granted' = [s \in Session |-> 0]
    /\ agent' = [a \in Agent |-> Idle]
    /\ UNCHANGED <<now, customer, rows, displayed, until, lost>>

Tick ==
    /\ now < MaxTime
    /\ now' = now + 1
    /\ UNCHANGED <<customer, rows, offered, agent, history, lost>>

Next ==
    \/ \E a \in Agent :
          \/ Begin(a) \/ ToolsFail(a) \/ Record(a) \/ RecordFails(a) \/ LegacyGrant(a)
          \/ \E trigger \in Trigger, x \in Strengths :
                Refuse(a, trigger, x) \/ Approve(a, trigger, x)
          \/ \E s \in Session, input \in Inputs : LegacyCheck(a, s, input)
    \/ \E o \in Offer, response \in Response : Answer(o, response)
    \/ Promote \/ Restart \/ Tick

Spec == Init /\ [][Next]_vars

-----------------------------------------------------------------------------
ShownNow == Copies(displayed, {d \in BagToSet(displayed) : InWindow(d, Window, now)})

\* Whatever is in flight at once, the offers shown in one window exceed the
\* limit by at most the evaluations that passed the check together and the
\* rows that were lost.
OvershootIsBounded ==
    ShownNow <= Limit - 1 + Cardinality(Agent) + lost

\* A cooldown that was announced is kept: until it ends every trigger of
\* this customer is refused, whatever rows are added and segments change.
CooldownIsKept ==
    now < until => \A trigger \in Trigger, x \in Strengths :
        Refusal(customer, customer.segment, trigger, x, rows, now) # "NONE"

InHand(a, o) == agent[a].step = "wording" /\ agent[a].offer = o

\* The offer being worded fits the segment it was evaluated for, however the
\* score came out: a value segment never gets Style+ or its trial.
OfferFitsSegment ==
    \A a \in Agent : agent[a].segment \in Value => ~InHand(a, Trial) /\ ~InHand(a, Membership)

\* Style+ and its trial are not offered by an evaluation that began after
\* the customer took Style+ or turned either down.
NoSubscriptionAfterAnswer ==
    \A a \in Agent, r \in BagToSet(rows) :
        /\ InHand(a, Trial) \/ InHand(a, Membership)
        /\ r.at < agent[a].since
        => /\ ~(r.type = Membership /\ r.outcome \in Accepted)
           /\ ~(/\ r.type \in {Trial, Membership} /\ r.outcome \in Declined
                /\ InWindow(r, Window, agent[a].since))

\* The offer in hand suits the segment and the answers of the customer it was
\* chosen for.
OfferFits == OfferFitsSegment /\ NoSubscriptionAfterAnswer

\* evaluate allows one offer a session for as long as the process lives,
\* although it checks the session and takes it in two critical sections.
OneOfferPerSession == \A s \in Session : granted[s] <= 1

\* Both limits, which are checked before an await or outside the lock they are
\* taken under, hold as far as the code can hold them.
LimitsHold == TypeOK /\ OvershootIsBounded /\ OneOfferPerSession

\* The 30-day frequency limit: a customer at the limit is shown no offer.
\* Does not hold: README, section 4.
FrequencyLimit == ShownNow <= Limit
=============================================================================
