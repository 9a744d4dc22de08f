------------------------------- MODULE FitRules -------------------------------
(***************************************************************************)
(* The deterministic rules of the Fit agent: the evidence of a purchase    *)
(* history (src/services/fit_evidence_service.py), the size, risk and      *)
(* confidence FitCalculator derives from it (src/agents/fit) and the       *)
(* signals of FitPolicy.                                                   *)
(*                                                                         *)
(* Sizes are numbers, scores integers: rates, strengths and confidences in *)
(* thousandths, the risk score in parts of 4000 (each weight of the code   *)
(* is then an integer), rounded like the code to thousandths; only a tie   *)
(* of the risk goes up, and the share of the similar cases is cut to a     *)
(* part of 4000 before it is added.                                        *)
(***************************************************************************)
EXTENDS Selections, SequencesExt

NoSize == 0

\* The scales of rates, strengths and confidences, and of the risk.
Share == {n \in Nat : n <= 1000}
RiskScale == {n \in Nat : n <= 4000}

\* FitCaseRecord, newest first: what one order line says.  normalize_fit_return_reason
\* tells a fit reason from any other one.
Relevance == {"SAME_SKU", "SAME_BRAND", "SAME_CATEGORY"}
Returned(item) == item.reason # "none"
KeptItem(relevance, size) ==
    [relevance |-> relevance, size |-> size, reason |-> "none", exchange |-> NoSize]

OrderLine == [relevance : Relevance, size : Nat \ {NoSize}, reason : {"none", "FIT", "OTHER"},
              exchange : Nat]
SimilarCase == [size : Nat \ {NoSize}, reason : {"none", "FIT", "OTHER"}, score : Nat]
FitProfile == [known : BOOLEAN, usual : Nat, adjustment : Int, confidence : Share]

\* A part of a history is the set of its positions.
Of(items, relevance) == {i \in DOMAIN items : items[i].relevance = relevance}
FitReturns(items) == {i \in DOMAIN items : items[i].reason = "FIT"}
UpTo(n, limit) == IF n < limit THEN n ELSE limit

\* _evidence_strength.
Strength(items, profiled) ==
    UpTo((IF profiled THEN 150 ELSE 0) + UpTo(Cardinality(Of(items, "SAME_SKU")), 2) * 250
         + UpTo(Cardinality(Of(items, "SAME_BRAND")), 3) * 70
         + UpTo(Cardinality(Of(items, "SAME_CATEGORY")), 3) * 30
         + UpTo(Cardinality(FitReturns(items)), 2) * 25, 1000)

\* FitEvidenceService.build: what one session sees of history and profile.  The
\* rate is get_return_summary's, over every purchase of the last twelve months:
\* nothing ties it to the lines of products like this one.
Evidence(items, profile, rate) ==
    [items |-> items, usual |-> profile.usual, adjustment |-> profile.adjustment,
     rate |-> rate, strength |-> Strength(items, profile.known), similar |-> <<>>]

-----------------------------------------------------------------------------
(* Size.                                                                   *)

KeptSize(items, relevance, size) ==
    size # NoSize /\ \E i \in Of(items, relevance) : items[i].size = size /\ ~Returned(items[i])

\* The fit returns of the requested size, of one level.
ReturnsOf(items, relevance, requested) ==
    {i \in FitReturns(items) \cap Of(items, relevance) :
        requested # NoSize /\ items[i].size = requested}

\* Mutant: the returns of all levels are put together.
MatchingReturnsOfAll(items, requested) ==
    UNION {ReturnsOf(items, relevance, requested) : relevance \in Relevance}

\* The returns that count against the requested size: a nearer level of
\* evidence silences the levels below it.
MatchingReturns(items, requested) ==
    LET exact == ReturnsOf(items, "SAME_SKU", requested)
        brand == ReturnsOf(items, "SAME_BRAND", requested)
    IN IF exact # {} THEN exact
       ELSE IF KeptSize(items, "SAME_SKU", requested) THEN {}
       ELSE IF brand # {} THEN brand
       ELSE IF KeptSize(items, "SAME_BRAND", requested) THEN {}
       ELSE ReturnsOf(items, "SAME_CATEGORY", requested)

Earliest(I) == CHOOSE i \in I : \A j \in I : i <= j

\* Counter.most_common(1): the heaviest size, the first one met among equals.
MostCommon(values, weights) ==
    LET counted == {i \in DOMAIN values : values[i] # NoSize}
        total == [i \in counted |->
                    SumOf([j \in DOMAIN values |-> IF values[j] = values[i] THEN weights[j] ELSE 0])]
        best == {i \in counted : \A j \in counted : total[i] >= total[j]}
    IN IF counted = {} THEN NoSize ELSE values[Earliest(best)]

Sold(size, sizes) == IF Contains(sizes, size) THEN size ELSE NoSize

\* Mutant: an exchange is advised whether the product comes in its size or not.
PreferredExchangeUnsold(items, returns, sizes) ==
    MostCommon([i \in DOMAIN items |-> IF i \in returns THEN items[i].exchange ELSE NoSize],
               [i \in DOMAIN items |-> 1])

PreferredExchange(items, returns, sizes) ==
    MostCommon([i \in DOMAIN items |->
                  IF i \in returns THEN Sold(items[i].exchange, sizes) ELSE NoSize],
               [i \in DOMAIN items |-> 1])

\* _adjusted_size: steps along the sizes of the product, never past its ends.
AdjustedSize(base, steps, sizes) ==
    LET place == Earliest({i \in DOMAIN sizes : sizes[i] = base}) + steps
    IN IF Contains(sizes, base) /\ place \in DOMAIN sizes THEN sizes[place] ELSE NoSize

\* _vector_supported_size.
VectorSize(similar, sizes) ==
    MostCommon([i \in DOMAIN similar |->
                  IF Returned(similar[i]) THEN NoSize ELSE Sold(similar[i].size, sizes)],
               [i \in DOMAIN similar |-> similar[i].score])

FirstSize(candidates) ==
    LET found == {i \in DOMAIN candidates : candidates[i] # NoSize}
    IN IF found = {} THEN NoSize ELSE candidates[Earliest(found)]

Usual(profile, evidence) == IF profile.usual # NoSize THEN profile.usual ELSE evidence.usual

\* The recommended size: exchanges, brand adjustment, kept, usual, requested, vectors.
RecommendedSize(profile, evidence, requested, sizes) ==
    LET items == evidence.items
        kept == \E level \in {"SAME_SKU", "SAME_BRAND"} : KeptSize(items, level, requested)
        usual == Usual(profile, evidence)
    IN FirstSize(<<PreferredExchange(items, MatchingReturns(items, requested), sizes),
                   IF evidence.adjustment = 0 THEN NoSize
                   ELSE AdjustedSize(IF usual # NoSize THEN usual ELSE requested,
                                     evidence.adjustment, sizes),
                   IF kept THEN Sold(requested, sizes) ELSE NoSize,
                   Sold(usual, sizes),
                   Sold(requested, sizes),
                   VectorSize(evidence.similar, sizes)>>)

-----------------------------------------------------------------------------
(* Risk, confidence, decision, signals.                                    *)

ReturnWeight(relevance) ==
    CASE relevance = "SAME_SKU" -> 1000 [] relevance = "SAME_BRAND" -> 750 [] OTHER -> 500

ScoreSum(cases, I) == SumOf([i \in DOMAIN cases |-> IF i \in I THEN cases[i].score ELSE 0])

Clamp(score, top) == IF score < 0 THEN 0 ELSE UpTo(score, top)

\* What the returns of the nearest level weigh.
ReturnRisk(items, requested) ==
    LET weights == {ReturnWeight(items[i].relevance) : i \in MatchingReturns(items, requested)}
    IN IF weights = {} THEN 0 ELSE CHOOSE w \in weights : \A v \in weights : w >= v

\* The share of fit returns among the similar cases, in 0.10 of the score.
SimilarRisk(similar, requested) ==
    LET alike == {i \in DOMAIN similar : requested = NoSize \/ similar[i].size = requested}
        bad == {i \in alike : similar[i].reason = "FIT"}
        all == ScoreSum(similar, alike)
    IN (400 * ScoreSum(similar, bad)) \div (IF all > 1000 THEN all ELSE 1000)

\* _risk_score in parts of 4000: 0.25 rate, 0.20 mismatch, 0.20 brand, 0.25
\* return, 0.10 similar, less 0.15 for an exact success.
RiskScore(profile, evidence, requested) ==
    LET usual == Usual(profile, evidence)
        return == ReturnRisk(evidence.items, requested)
        success == KeptSize(evidence.items, "SAME_SKU", requested)
        total == evidence.rate
                 + (IF requested # NoSize /\ usual # NoSize /\ requested # usual THEN 800 ELSE 0)
                 + (IF evidence.adjustment # 0 THEN 800 ELSE 0)
                 + return + SimilarRisk(evidence.similar, requested)
                 - (IF success /\ return < 1000 THEN 600 ELSE 0)
    IN ((Clamp(total, 4000) + 2) \div 4) * 4

RiskBand(score) == IF score < 1200 THEN "LOW" ELSE IF score < 2600 THEN "MEDIUM" ELSE "HIGH"

Confidence(profile, evidence, requested, sizes) ==
    Clamp((2 * profile.confidence + 2 * evidence.strength + 2) \div 5
          + (IF KeptSize(evidence.items, "SAME_SKU", requested) THEN 150 ELSE 0)
          + (IF PreferredExchange(evidence.items, MatchingReturns(evidence.items, requested), sizes)
                # NoSize THEN 150 ELSE 0)
          + UpTo(Len(evidence.similar), 5) * 10, 1000)

ActionFor(recommended, requested, band, sizes, insufficient) ==
    IF insufficient THEN "INSUFFICIENT_EVIDENCE"
    ELSE IF requested # NoSize /\ recommended # requested THEN "RECOMMEND_SIZE_CHANGE"
    ELSE IF band = "HIGH" \/ (requested # NoSize /\ ~Contains(sizes, requested)) THEN "SHOW_CAUTION"
    ELSE "CONFIRM_SIZE"

\* FitCalculator.evaluate.
Decide(profile, sizes, requested, evidence) ==
    LET recommended == RecommendedSize(profile, evidence, requested, sizes)
        risk == RiskScore(profile, evidence, requested)
        insufficient == \/ recommended = NoSize
                        \/ /\ evidence.strength < 200
                           /\ evidence.similar = <<>> /\ profile.usual = NoSize
    IN [recommended |-> recommended, risk |-> risk, band |-> RiskBand(risk),
        confidence |-> Confidence(profile, evidence, requested, sizes),
        action |-> ActionFor(recommended, requested, RiskBand(risk), sizes, insufficient)]

\* FitPolicy.evaluate_signals.
Signals(decision, evidence) ==
    (IF evidence.rate > 500 THEN {"CHRONIC_FIT_RISK"} ELSE {})
    \cup (IF decision.band = "HIGH" THEN {"HIGH_FIT_RISK"} ELSE {})
=============================================================================
