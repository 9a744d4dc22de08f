------------------------------ MODULE FitAdvice ------------------------------
(***************************************************************************)
(* One customer's questions to the Fit agent (src/agents/fit/agent.py).    *)
(* An answer is four tool calls, each awaited and each in a database       *)
(* session of its own, then the decision of FitRules and an optional       *)
(* explanation.  Orders, returns and edits of the profile and of the       *)
(* product arrive between the calls, and any call may fail.                *)
(***************************************************************************)
EXTENDS FitRules

CONSTANTS
    Histories,    \* order lines of the customer a run starts with
    Profiles,     \* stored fit profiles of a run
    Offered,      \* size lists of the product
    Others,       \* what a search of an index finds: similar lines of other customers
    Rates,        \* return rates of the customer over all purchases of a year
    Requested,    \* sizes asked for, NoSize for none
    Failures,     \* tools that may fail
    MaxAsks,      \* bound: questions
    MaxEvents     \* bound: orders, returns and edits after the start

ASSUME BoundsAssumption == MaxAsks \in Nat /\ MaxEvents \in Nat
ASSUME InputsAssumption ==
    /\ Histories \subseteq Seq(OrderLine) /\ Rates \subseteq Share
    /\ Others \subseteq Seq(SimilarCase) /\ \A o \in Others : Len(o) <= 5
    /\ Offered \subseteq Seq(Nat \ {NoSize}) /\ Requested \subseteq Nat
ASSUME ProfilesAssumption ==
    /\ Profiles \subseteq FitProfile
    /\ \A p \in Profiles : ~p.known => p.usual = NoSize /\ p.adjustment = 0 /\ p.confidence = 0

VARIABLES
    history,       \* the customer's lines of SKUs like this one, newest first
    profile,       \* the row of fit_profiles, ~known when there is none
    sizes,         \* the sizes of the product, <<>> after it was removed
    others,        \* what the search would find among the lines of other customers
    caseIndex,     \* the process-local vector index: not built, or a snapshot of others
    ask,           \* the question being answered
    asks, events   \* bound counters

fitVars == <<history, profile, sizes, others, caseIndex, ask, asks, events>>

NoAnswer == [status |-> "none", recommended |-> NoSize, risk |-> 0, band |-> "LOW", confidence |-> 0,
             action |-> "INSUFFICIENT_EVIDENCE", signals |-> {}]

NoAsk == [phase |-> "done", requested |-> NoSize, preferred |-> NoSize, sizes |-> <<>>,
          profile |-> [known |-> FALSE, usual |-> NoSize, adjustment |-> 0, confidence |-> 0],
          evidence |-> Evidence(<<>>, [known |-> FALSE, usual |-> NoSize, adjustment |-> 0], 0),
          answer |-> NoAnswer,
          \* history: what was stored when the profile and the similar cases were read
          stored |-> [known |-> FALSE, usual |-> NoSize, adjustment |-> 0, confidence |-> 0],
          cases |-> <<>>]

NoIndex == [built |-> FALSE, cases |-> <<>>]

FitInit ==
    /\ history \in Histories /\ profile \in Profiles /\ sizes \in Offered /\ others \in Others
    /\ caseIndex = NoIndex
    /\ ask = NoAsk
    /\ asks = 0 /\ events = 0

facts == <<history, profile, sizes, others>>
Fails(tool) == tool \in Failures
Set(a) == ask' = a /\ UNCHANGED <<facts, asks, events>>

-----------------------------------------------------------------------------
(* execute.                                                                *)

\* _verify_tool_scope may find a scope that is not the agent's: execute raises.
AskFit(requested, preferred) ==
    /\ ask.phase = "done" /\ asks < MaxAsks /\ asks' = asks + 1
    /\ \/ ask' = [NoAsk EXCEPT !.phase = "product", !.requested = requested, !.preferred = preferred]
       \/ Fails("scope") /\ ask' = [NoAsk EXCEPT !.requested = requested, !.answer.status = "RAISED"]
    /\ UNCHANGED <<facts, caseIndex, events>>

Answer(a, status) == [a EXCEPT !.phase = "done", !.answer.status = status]

\* get_product_details.
ReadProduct ==
    /\ ask.phase = "product" /\ UNCHANGED caseIndex
    /\ \/ sizes # <<>> /\ Set([ask EXCEPT !.phase = "profile", !.sizes = sizes])
       \/ sizes = <<>> /\ Set(Answer(ask, "PRODUCT_NOT_FOUND"))
       \/ Fails("product") /\ Set(Answer(ask, "FAILED"))

\* Mutant: a fallback counts as certain.
FallbackSure(preferred) == [known |-> FALSE, usual |-> preferred, adjustment |-> 0, confidence |-> 1000]

\* _get_profile: a missing profile and a failing tool both fall back on the
\* preferences of the customer context, with no confidence.
Fallback(preferred) == [known |-> FALSE, usual |-> preferred, adjustment |-> 0, confidence |-> 0]
ReadProfile ==
    LET got(p) == [ask EXCEPT !.phase = "evidence", !.profile = p, !.stored = profile] IN
    /\ ask.phase = "profile" /\ UNCHANGED caseIndex
    /\ \/ profile.known /\ Set(got(profile))
       \/ ~profile.known /\ Set(got(Fallback(ask.preferred)))
       \/ Fails("profile") /\ Set(got(Fallback(ask.preferred)))

\* fit_build_evidence.
ReadEvidence ==
    /\ ask.phase = "evidence" /\ UNCHANGED caseIndex
    /\ \/ /\ sizes # <<>>
          /\ \E rate \in Rates :
                Set([ask EXCEPT !.phase = "similar", !.evidence = Evidence(history, profile, rate)])
       \/ (sizes = <<>> \/ Fails("evidence")) /\ Set(Answer(ask, "FAILED"))

\* fit_retrieve_similar_cases, then the decision, which awaits nothing.
Decided(a) ==
    LET d == Decide(a.profile, a.sizes, a.requested, a.evidence)
    IN [a EXCEPT !.phase = "explain",
                 !.answer = [status |-> "none", recommended |-> d.recommended, risk |-> d.risk,
                             band |-> d.band, confidence |-> d.confidence, action |-> d.action,
                             signals |-> Signals(d, a.evidence)]]

\* The index a search runs on.  The first search of any customer builds it from
\* the lines of all of them, for good: the customer's own lines count, whatever
\* they are of, and only while the shop has no line it stays empty.
CaseIndex ==
    IF caseIndex.built THEN {caseIndex}
    ELSE {[built |-> TRUE, cases |-> others]}
         \cup (IF others = <<>> /\ history = <<>> THEN {NoIndex} ELSE {})

ReadSimilar ==
    /\ ask.phase = "similar"
    /\ \E found \in CaseIndex :
         \/ /\ sizes # <<>>
            /\ caseIndex' = found
            /\ Set(Decided([ask EXCEPT !.evidence.similar = found.cases, !.cases = found.cases]))
         \/ /\ sizes = <<>> \/ Fails("similar")
            /\ UNCHANGED caseIndex
            /\ Set(Decided([ask EXCEPT !.cases = found.cases]))

\* _explain: with a text, without one, or not asked for; a model that is
\* unavailable changes nothing of the decision.  It does not catch the
\* gateway's ValueError: the question raises, and its decision is lost.
Explain ==
    /\ ask.phase = "explain" /\ UNCHANGED caseIndex
    /\ \/ Set(Answer(ask, IF ask.answer.action = "INSUFFICIENT_EVIDENCE"
                          THEN "INSUFFICIENT_EVIDENCE" ELSE "SUCCESS"))
       \/ Fails("explanation") /\ Set(Answer([ask EXCEPT !.answer = NoAnswer], "RAISED"))

FitWork == ReadProduct \/ ReadProfile \/ ReadEvidence \/ ReadSimilar \/ Explain

-----------------------------------------------------------------------------
(* The rest of the system.                                                 *)

Event == events < MaxEvents /\ events' = events + 1 /\ UNCHANGED <<caseIndex, ask, asks>>

Order(relevance, size) ==
    /\ Event /\ history' = <<KeptItem(relevance, size)>> \o history
    /\ UNCHANGED <<profile, sizes, others>>

Return(i, reason, exchange) ==
    /\ Event /\ ~Returned(history[i])
    /\ history' = [history EXCEPT ![i].reason = reason, ![i].exchange = exchange]
    /\ UNCHANGED <<profile, sizes, others>>

EditProfile(p) == Event /\ p # profile /\ profile' = p /\ UNCHANGED <<history, sizes, others>>
EditProduct(s) == Event /\ s # sizes /\ sizes' = s /\ UNCHANGED <<history, profile, others>>

\* A question of another customer, or of this one about another product, is the
\* first that searches.
OthersAsk ==
    /\ ~caseIndex.built /\ caseIndex' \in CaseIndex \ {NoIndex}
    /\ UNCHANGED <<facts, ask, asks, events>>

OthersOrder(o) == Event /\ o # others /\ others' = o /\ UNCHANGED <<history, profile, sizes>>

AllSizes == UNION {ToSet(s) : s \in Offered}

FitNext ==
    \/ \E r, p \in Requested : AskFit(r, p)
    \/ FitWork
    \/ \E rel \in Relevance, s \in AllSizes : Order(rel, s)
    \/ \E i \in DOMAIN history, reason \in {"FIT", "OTHER"}, e \in AllSizes \cup {NoSize} :
         Return(i, reason, e)
    \/ \E p \in Profiles : EditProfile(p)
    \/ \E s \in Offered \cup {<<>>} : EditProduct(s)
    \/ \E o \in Others : OthersOrder(o)
    \/ OthersAsk

FitSpec == FitInit /\ [][FitNext]_fitVars

-----------------------------------------------------------------------------
(* Properties.                                                             *)

Done == ask.phase = "done" /\ ask.answer.status \in {"SUCCESS", "INSUFFICIENT_EVIDENCE"}
Band == {"LOW", "MEDIUM", "HIGH"}
Action == {"CONFIRM_SIZE", "RECOMMEND_SIZE_CHANGE", "SHOW_CAUTION", "INSUFFICIENT_EVIDENCE"}

Indexes == {NoIndex} \cup [built : {TRUE}, cases : Others]

\* Types of the variables; scores stay in the ranges their DTOs validate.
FitTypeOK ==
    /\ history \in Seq(OrderLine)
    /\ profile \in Profiles /\ sizes \in Offered \cup {<<>>} /\ others \in Others
    /\ caseIndex \in Indexes
    /\ ask.phase \in {"product", "profile", "evidence", "similar", "explain", "done"}
    /\ ask.answer.risk \in RiskScale /\ ask.answer.confidence \in Share
    /\ ask.answer.band \in Band /\ ask.answer.action \in Action
    /\ ask.answer.signals \subseteq {"CHRONIC_FIT_RISK", "HIGH_FIT_RISK"}
    /\ asks \in 0..MaxAsks /\ events \in 0..MaxEvents

\* A size is advised only if the product comes in it, whether it stems from an
\* exchange, a brand adjustment, the profile or other customers; a size is
\* confirmed only if it is the one asked for and its risk is not HIGH.
AdviceIsUsable ==
    Done =>
      /\ ask.answer.recommended \in ToSet(ask.sizes) \cup {NoSize}
      /\ ask.answer.action = "CONFIRM_SIZE" =>
           /\ ask.answer.recommended # NoSize /\ ask.answer.band # "HIGH"
           /\ ask.requested \in {NoSize, ask.answer.recommended}

\* Scores stay in range and the advice can be followed, whatever tool failed
\* or row changed between two reads.
AdviceIsSound == FitTypeOK /\ AdviceIsUsable

\* "vector-retrieved anonymized outcomes supplement rather than replace
\* authoritative evidence" (SYSTEM_DESIGN.md:385): other customers decide the
\* size only where the customer's own evidence gives none.
VectorsSupplement ==
    Done =>
      LET alone == RecommendedSize(ask.profile, [ask.evidence EXCEPT !.similar = <<>>],
                                   ask.requested, ask.sizes)
      IN alone # NoSize => ask.answer.recommended = alone

\* The history with only the lines of I: the others say nothing.
Only(items, I) ==
    [i \in DOMAIN items |-> IF i \in I THEN items[i] ELSE KeptItem("NONE", NoSize)]

\* "Non-fit returns do not influence sizing" (SYSTEM_DESIGN.md:386): the size
\* is the one the history gives without the lines returned for other reasons.
NonFitReturnsDoNotSize ==
    Done =>
      LET items == ask.evidence.items
          fit == Only(items, {i \in DOMAIN items : items[i].reason # "OTHER"})
      IN ask.answer.recommended =
           RecommendedSize(ask.profile, [ask.evidence EXCEPT !.items = fit], ask.requested, ask.sizes)

\* The risk of a size hangs on the nearest level that knows it: what became
\* of this product (or else of its brand) in the size asked for hides what
\* became of less similar ones, and a fit return of this very size weighs in
\* full, however often the customer kept it.
NearestLevelDecidesRisk ==
    Done =>
      LET items == ask.evidence.items
          knows(level) == \E i \in Of(items, level) :
                             items[i].size = ask.requested /\ items[i].reason # "OTHER"
          riskOf(levels) ==
            LET near == Only(items, {i \in DOMAIN items : items[i].relevance \in levels})
            IN RiskScore(ask.profile, [ask.evidence EXCEPT !.items = near], ask.requested)
      IN /\ knows("SAME_SKU") => ask.answer.risk = riskOf({"SAME_SKU"})
         /\ knows("SAME_BRAND") => ask.answer.risk = riskOf({"SAME_SKU", "SAME_BRAND"})
         /\ (\E i \in FitReturns(items) \cap Of(items, "SAME_SKU") : items[i].size = ask.requested)
            => ask.answer.risk >= 1000

\* The say of three kinds of evidence: other customers' cases and returns for
\* other reasons in the size, the levels of the customer's own lines in the
\* risk.  That the levels of the lines rank in the size, too, is not said: see
\* ExactOutranksBrand, which does not hold.
EvidenceDecides == VectorsSupplement /\ NonFitReturnsDoNotSize /\ NearestLevelDecidesRisk

\* "Missing Fit history/profile: a weaker or INSUFFICIENT_EVIDENCE result is
\* returned rather than invented certainty" (SYSTEM_DESIGN.md:696): an answer
\* that fell back is never surer than the one all the tools would have given.
MissingIsWeaker ==
    Done => ask.answer.confidence <=
              Decide(ask.stored, ask.sizes, ask.requested,
                     [ask.evidence EXCEPT !.similar = ask.cases]).confidence

\* "Exact customer/product history outranks brand and category evidence"
\* (SYSTEM_DESIGN.md:384): who kept this product in the size asked for, and
\* never returned it in that size, is advised that size.  Violated: an
\* adjustment of the brand comes before the kept size.
\* Does not hold: README, section 4.
ExactOutranksBrand ==
    Done =>
      LET items == ask.evidence.items IN
      KeptSize(items, "SAME_SKU", ask.requested) /\ Contains(ask.sizes, ask.requested)
      /\ (\A i \in Of(items, "SAME_SKU") : ~Returned(items[i]))
        => ask.answer.recommended = ask.requested
=============================================================================
