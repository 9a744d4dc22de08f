---------------------------- MODULE DiscoveryRules ----------------------------
(***************************************************************************)
(* The deterministic rules of product discovery: criteria and retrieval    *)
(* strategy (src/agents/discovery/query_builder.py), the constraints of    *)
(* the catalogue query and of the agent, the vector search, and the        *)
(* personalized ranking (src/agents/discovery/ranking.py).                 *)
(*                                                                         *)
(* SKUs are naturals, in their text order.  What the words of a query say  *)
(* is a record; parts of a score are percentages, the total is in          *)
(* hundredths of a percent.  The quotient of the price score is rounded    *)
(* down where the code keeps a float.                                      *)
(***************************************************************************)
EXTENDS Selections, SequencesExt

CONSTANTS
    Sku,
    Context,      \* the customer's segment, sensitivity, affinity and preferences
    Similarity,   \* of each product's document to the query, in percent
    Limit         \* DEFAULT_RETRIEVAL_LIMIT (30)

ASSUME DiscoveryAssumption ==
    Sku \subseteq Nat /\ IsFiniteSet(Sku) /\ Limit \in Nat \ {0}
    /\ Similarity \in [Sku -> 0 .. 100]
    /\ Context.sensitivity \in Nat /\ Context.affinity \in Nat

None == "none"
NoPrice == -1
NoSku == -1
Scalar == {"gender", "category", "subcategory", "occasion"}
Indexed == {"gender", "category", "occasion"}

Either(a, b) == IF a # None THEN a ELSE b
EitherSet(a, b) == IF a # {} THEN a ELSE b
EitherPrice(a, b) == IF a # NoPrice THEN a ELSE b

\* DiscoveryQueryBuilder.build: criteria of the caller, of the session and
\* of the words, in that order; vague words ask for a semantic search.
Criteria(supplied, said, session) ==
    LET category == Either(supplied.category, Either(session.category, said.category))
        subcategory == Either(supplied.subcategory, said.subcategory)
        occasion == Either(supplied.occasion, Either(session.occasion, said.occasion))
        colors == EitherSet(supplied.colors, said.colors)
        styles == EitherSet(supplied.styles, said.styles)
        exact == {category, subcategory, occasion, said.size} # {None}
                 \/ colors \cup styles # {} \/ {said.min, said.max} # {NoPrice}
    IN [gender |-> Either(supplied.gender, Either(said.gender, Context.gender)),
        category |-> category, subcategory |-> subcategory, occasion |-> occasion,
        colors |-> colors, styles |-> styles,
        min |-> EitherPrice(supplied.min, said.min), max |-> EitherPrice(supplied.max, said.max),
        size |-> Either(supplied.size, Either(session.size, said.size)),
        semantic |-> supplied.semantic \/ said.semantic \/ ~exact]

Strategy(c, similar, selected) ==
    IF similar /\ selected # NoSku THEN "SIMILAR_ITEM"
    ELSE IF ~c.semantic THEN "STRUCTURED"
    ELSE IF c.colors \cup c.styles # {} \/ {c.subcategory, c.size} # {None}
            \/ {c.min, c.max} # {NoPrice}
         THEN "HYBRID"
    ELSE "SEMANTIC"

\* ProductSearchInput and DiscoveryCriteria refuse an empty price range.
RangeIsValid(c) == c.min = NoPrice \/ c.max = NoPrice \/ c.min <= c.max

\* The exact constraints of ProductRepository.search and of
\* DiscoveryAgent._apply_constraints.  The two differ on a row without a value
\* in active, which only the agent lets through: every product here has one.
\* A blank name is no name.
Fits(p, c) ==
    /\ p.active
    /\ \A f \in Scalar : c[f] \in {None, p[f]}
    /\ c.colors = {} \/ p.color \in c.colors
    /\ c.styles = {} \/ p.style \in c.styles
    /\ c.min = NoPrice \/ (p.price # NoPrice /\ p.price >= c.min)
    /\ c.max = NoPrice \/ (p.price # NoPrice /\ p.price <= c.max)
    /\ c.size = None \/ c.size \in p.sizes

First(n, s) == IF Len(s) <= n THEN s ELSE SubSeq(s, 1, n)

\* ProductRepository.search: the first SKUs that fit.  Nothing hangs on the
\* order of the matches: they are a set.
Search(product, c) ==
    LET fit == {s \in Sku : Fits(product[s], c)}
    IN {s \in fit : Cardinality({t \in fit : t < s}) < Limit}

Closer(s, t) == Similarity[s] > Similarity[t] \/ (Similarity[s] = Similarity[t] /\ s < t)

\* InMemoryVectorStore.search over the metadata of its last refresh.
Nearest(index, filter) ==
    LET near == {s \in DOMAIN index : Similarity[s] > 0
                                      /\ \A f \in Indexed : filter[f] \in {None, index[s][f]}}
    IN {s \in near : Cardinality({t \in near : Closer(t, s)}) < Limit}

\* ProductRetrievalService.refresh_index.
Index(product) ==
    [s \in {t \in Sku : product[t].active} |-> [f \in Indexed |-> product[s][f]]]

-----------------------------------------------------------------------------
(* PersonalizedProductRanker.                                              *)

Preference(value, exact, preferred) ==
    IF exact # {} THEN IF value \in exact THEN 100 ELSE 0
    ELSE IF preferred # {} THEN IF value \in preferred THEN 100 ELSE 35
    ELSE 50

Editorial == {"classic", "contemporary", "statement", "tailored"}

Points(holds, n) == IF holds THEN n ELSE 0

SegmentScore(p) ==
    10 + CASE Context.segment = "prestige champion" ->
                  Points(p.tier = "premium", 40) + Points(p.exclusive, 20)
                  + Points(p.new, 15) + Points(~p.discounted, 15)
           [] Context.segment = "value defender" ->
                  Points(p.label, 40) + Points(p.tier = "value", 30) + Points(p.discounted, 20)
           [] Context.segment = "price explorer" ->
                  Points(p.tier = "value", 30) + Points(p.price <= 75, 30)
                  + Points(p.new, 20) + Points(p.discounted, 10)
           [] Context.segment = "aspiring loyalist" ->
                  Points(p.tier = "premium", 35) + Points(p.new, 25)
                  + Points(p.exclusive, 15) + Points(p.style \in Editorial, 15)
           [] OTHER -> 0

TierValue(p) ==
    CASE p.tier = "premium" -> 100 [] p.tier = "mid" -> 60 [] p.tier = "value" -> 20 [] OTHER -> 40

PriceScore(p, c) ==
    LET affordable == IF p.price >= 500 THEN 0 ELSE 100 - p.price \div 5
        weight == Context.sensitivity + Context.affinity
    IN IF p.price = NoPrice THEN 0
       ELSE IF {c.min, c.max} # {NoPrice} THEN 100
       ELSE IF weight = 0 THEN 50
       ELSE (Context.sensitivity * affordable + Context.affinity * TierValue(p)) \div weight

Total(s, p, c, semantic) ==
    25 * Preference(p.occasion, {c.occasion} \ {None}, Context.occasions)
    + 15 * Preference(p.style, c.styles, Context.styles)
    + 10 * Preference(p.color, c.colors, Context.colors)
    + 20 * SegmentScore(p) + 10 * PriceScore(p, c)
    + 15 * (IF semantic THEN Similarity[s] ELSE 0) + 5 * 100

\* A product without a price comes last among equals.
Cheaper(p, q) == p.price # NoPrice /\ (q.price = NoPrice \/ p.price < q.price)

\* Ranks of the products described by d: score, then price, then SKU.
Outranks(s, t, d, c, semantic) ==
    LET a == Total(s, d[s], c, semantic)
        b == Total(t, d[t], c, semantic)
    IN \/ a > b
       \/ a = b /\ (Cheaper(d[s], d[t]) \/ (d[s].price = d[t].price /\ s < t))

Ranked(S, d, c, semantic) ==
    SortedBy(S, {p \in S \X S : Outranks(p[1], p[2], d, c, semantic)})

\* _has_required_facts, and the facts ProductCandidate requires of a row.
Presentable(p) == p.named /\ p.price # NoPrice
Candidate(p) == Presentable(p) /\ None \notin {p.category, p.tier, p.color, p.style, p.occasion}
=============================================================================
