------------------------------ MODULE OfferRules ------------------------------
(***************************************************************************)
(* The deterministic rules behind a service offer: the governed            *)
(* eligibility of src/services/upsell_policy_service.py, the score and the *)
(* selection of src/agents/upsell, and the older rules of                  *)
(* UpsellPolicyService.evaluate.                                           *)
(*                                                                         *)
(* Scores are percentages; a weighted sum is in hundredths of a percent,   *)
(* rounded to three digits of the share before its band is taken (a tie    *)
(* goes up here, as a float it may go either way).                         *)
(* Time is in whole units; src/services/_date_utils.py makes a window      *)
(* closed at now and open at its cutoff.  Within a unit the code is not    *)
(* that exact: SQLite's datetime() cuts a row's time to the second, while  *)
(* the cutoff and cooldown_until keep their microseconds, so the row may   *)
(* leave the window less than a second before the cooldown it caused ends. *)
(* Service-engagement rows are a bag: equal rows are told apart by nothing *)
(* but their ids.                                                          *)
(***************************************************************************)
EXTENDS Integers, FiniteSets, FiniteSetsExt, Bags

CONSTANTS
    Window,        \* service_offer_window_days and both cooldowns (30 in the code)
    Limit,         \* max_service_offers_30d (3)
    LegacyWindow,  \* FREQUENCY_WINDOW_DAYS (7)
    LegacyLimit    \* MAX_OFFERS_PER_WINDOW (2)

ASSUME WindowAssumption ==
    /\ Window \in Nat \ {0} /\ Limit \in Nat \ {0}
    /\ LegacyWindow \in Nat \ {0} /\ LegacyLimit \in Nat \ {0}

Premium == {"prestige champion", "aspiring loyalist"}
Value == {"value defender", "price explorer"}
Segment == Premium \cup Value

Advisory == "STYLING_ADVISORY"
Trial == "STYLE_PLUS_TRIAL"
Membership == "STYLE_PLUS"
Offer == {Advisory, Trial, Membership}

Trigger == {"HIGH_PRODUCT_ENGAGEMENT", "PREMIUM_PRODUCT_INTEREST", "CART_ABANDONMENT",
            "CHRONIC_FIT_RISK", "STYLING_ENGAGEMENT", "LOYALTY_THRESHOLD_REACHED"}

Response == {"OFFER_ACCEPTED", "OFFER_DECLINED", "OFFER_DISMISSED"}
Declined == {"DECLINED", "OFFER_DECLINED"}
Accepted == {"ACCEPTED", "COMPLETED", "OFFER_ACCEPTED"}
Counted == Response \cup Declined \cup Accepted \cup {"VIEWED", "DISMISSED", "OFFER_SHOWN"}

-----------------------------------------------------------------------------
InWindow(row, w, t) == t - w < row.at /\ row.at <= t
Recent(rows, w, t) == {r \in BagToSet(rows) : InWindow(r, w, t)}
Times(S) == {r.at : r \in S}
Copies(rows, S) == Cardinality(UNION {{r} \X (1 .. rows[r]) : r \in S})

Member(rows) == \E r \in BagToSet(rows) : r.type = Membership /\ r.outcome \in Accepted

Suppressed(rows, t) == \E r \in Recent(rows, Window, t) : r.suppressed

Declines(rows, t) ==
    {r \in Recent(rows, Window, t) : r.type \in {Membership, Trial} /\ r.outcome \in Declined}

Shown(rows, t) == {r \in Recent(rows, Window, t) : r.outcome \in Counted}

Limited(rows, t) == Copies(rows, Shown(rows, t)) >= Limit

Threshold(trigger) ==
    CASE trigger = "CHRONIC_FIT_RISK" -> 50
      [] trigger = "LOYALTY_THRESHOLD_REACHED" -> 0
      [] OTHER -> 70

Incomplete(c, segment) == segment \notin Segment \/ segment # c.segment \/ ~c.complete

\* The first rule of evaluate_eligibility that refuses, in its order.
Refusal(c, segment, trigger, strength, rows, t) ==
    IF Incomplete(c, segment) THEN "CUSTOMER_CONTEXT_INCOMPLETE"
    ELSE IF ~c.consent THEN "CUSTOMER_CONSENT_REQUIRED"
    ELSE IF Suppressed(rows, t) THEN "SERVICE_NOT_AVAILABLE"
    ELSE IF Declines(rows, t) # {} THEN "RECENT_STYLE_PLUS_DECLINE"
    ELSE IF Limited(rows, t) THEN "SERVICE_FREQUENCY_LIMIT"
    ELSE IF strength < Threshold(trigger) THEN "INSUFFICIENT_ENGAGEMENT"
    ELSE IF trigger = "LOYALTY_THRESHOLD_REACHED" /\ c.tier \notin {"gold", "platinum"}
         THEN "SERVICE_NOT_AVAILABLE"
    ELSE "NONE"

\* Mutant: the reset is counted from the last row of the window.
CooldownFromLast(reason, rows, t) ==
    CASE reason = "RECENT_STYLE_PLUS_DECLINE" -> Max(Times(Declines(rows, t))) + Window
      [] reason = "SERVICE_FREQUENCY_LIMIT" -> Max(Times(Shown(rows, t))) + Window
      [] OTHER -> 0

\* cooldown_until; 0 is none.
Cooldown(reason, rows, t) ==
    CASE reason = "RECENT_STYLE_PLUS_DECLINE" -> Max(Times(Declines(rows, t))) + Window
      [] reason = "SERVICE_FREQUENCY_LIMIT" -> Min(Times(Shown(rows, t))) + Window
      [] OTHER -> 0

Eligible(segment, trigger) ==
    CASE trigger \in {"CHRONIC_FIT_RISK", "CART_ABANDONMENT"} \/ segment \in Value -> {Advisory}
      [] trigger = "STYLING_ENGAGEMENT" /\ segment \in Premium -> {Advisory, Membership}
      [] OTHER -> {Advisory, Trial}

\* Mutant: a member is still offered the trial.
MemberMayTry(segment, trigger, rows) ==
    Eligible(segment, trigger) \ (IF Member(rows) THEN {Membership} ELSE {})

EligibleOffers(segment, trigger, rows) ==
    Eligible(segment, trigger) \ (IF Member(rows) THEN {Membership, Trial} ELSE {})

-----------------------------------------------------------------------------
TierScore == [bronze |-> 25, silver |-> 50, gold |-> 75, platinum |-> 100, none |-> 0]

SegmentScore(segment) ==
    CASE segment = "prestige champion" -> 100 [] segment = "aspiring loyalist" -> 80
      [] segment = "value defender" -> 35 [] segment = "price explorer" -> 20

\* OpportunityScorer.calculate.
Score(c, segment, strength, engagement) ==
    LET sum == 30 * strength + 20 * c.premium + 20 * engagement + 15 * TierScore[c.tier]
                   + 15 * SegmentScore(segment)
    IN  10 * ((sum + 5) \div 10)

Band(score) == IF score >= 7500 THEN "HIGH" ELSE IF score >= 4500 THEN "MEDIUM" ELSE "LOW"

\* OfferSelector.select, for a non-empty set of offers.
Select(offers, segment, trigger, band) ==
    LET by(o) == o \in offers IN
    IF trigger = "CHRONIC_FIT_RISK" /\ by(Advisory) THEN Advisory
    ELSE IF segment \in Value THEN IF by(Advisory) THEN Advisory ELSE "NONE"
    ELSE IF trigger = "STYLING_ENGAGEMENT" /\ band = "HIGH" /\ by(Membership) THEN Membership
    ELSE IF /\ trigger \in {"HIGH_PRODUCT_ENGAGEMENT", "PREMIUM_PRODUCT_INTEREST"}
            /\ band # "LOW" /\ by(Trial) THEN Trial
    ELSE IF by(Advisory) THEN Advisory
    ELSE IF by(Trial) THEN Trial
    ELSE IF by(Membership) THEN Membership ELSE "NONE"

-----------------------------------------------------------------------------
(* UpsellPolicyService.evaluate and its helpers.                           *)

LegacySuppressed(rows, t) ==
    \/ \E r \in Recent(rows, Window, t) : r.suppressed \/ r.outcome = "DECLINED"
    \/ Copies(rows, Recent(rows, LegacyWindow, t)) >= LegacyLimit

\* get_candidate_services; the trial is out once it was accepted.
Candidates(c, rows) ==
    LET tried == \E r \in BagToSet(rows) :
                    r.type = Trial /\ r.outcome \in {"ACCEPTED", "COMPLETED"}
        offered == [FIT_ASSIST |-> c.returns,
                    CONCIERGE |-> c.affluent /\ c.tier \in {"gold", "platinum"},
                    PERSONAL_STYLING |-> c.premium >= 65 \/ c.segment \in Premium,
                    STYLE_PLUS_TRIAL |-> (c.isNew \/ c.tier \in {"bronze", "silver"}) /\ ~tried,
                    OUTFIT_BUILDER |-> c.occasions,
                    AI_STYLING_ADVISORY |-> TRUE]
    IN  {s \in DOMAIN offered : offered[s]}

Priority == <<"CONCIERGE", "PERSONAL_STYLING", "STYLE_PLUS_TRIAL", "OUTFIT_BUILDER",
              "FIT_ASSIST", "AI_STYLING_ADVISORY">>

\* _select_candidate: a fit risk, then an occasion, then the priority.
Candidate(S, input) ==
    IF input.fitRisk >= 60 /\ "FIT_ASSIST" \in S THEN "FIT_ASSIST"
    ELSE IF input.occasion /\ "OUTFIT_BUILDER" \in S THEN "OUTFIT_BUILDER"
    ELSE Priority[Min({i \in DOMAIN Priority : Priority[i] \in S})]

Least(a, b) == IF a < b THEN a ELSE b

Propensity(c, input) ==
    Least(10000, 55 * input.engagement + 20 * Least(10 * input.interactions, 100)
                    + 15 * c.premium + 10 * input.fitRisk)

\* Everything evaluate checks before it takes the lock again.
LegacyPasses(c, input, rows, t) ==
    /\ c.consent
    /\ ~LegacySuppressed(rows, t)
    /\ input.engagement >= 35 /\ input.interactions >= 3
    /\ Propensity(c, input) >= 4500
=============================================================================
