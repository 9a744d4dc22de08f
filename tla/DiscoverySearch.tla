--------------------------- MODULE DiscoverySearch ---------------------------
(***************************************************************************)
(* A discovery request: DiscoveryAgent.execute (src/agents/discovery/      *)
(* agent.py) over the tools of src/tools/product_tools.py.  Each tool      *)
(* call is a transaction of its own; the catalogue and the stock may be    *)
(* edited between two of them, and the vector index is the one of the      *)
(* process's first semantic search.                                        *)
(*                                                                         *)
(* The source writes neither catalogue nor stock: the edits are external.  *)
(* The details of all matches are read at one moment.                      *)
(***************************************************************************)
EXTENDS DiscoveryRules

CONSTANTS
    Catalogues,    \* the catalogues a run starts from
    Versions,      \* Versions[s]: the rows an edit may give the product
    Queries,       \* what the words of a message may say
    Callers,       \* criteria of the caller
    Chat,          \* session entities: category, occasion, size, selected
    Sizes,         \* max_results of a request
    MaxEdits, MaxRequests   \* bounds

\* The rows a product may have.
Rows == UNION ({{rows[s] : s \in Sku} : rows \in Catalogues}
               \cup {Versions[s] : s \in Sku})

ASSUME CatalogueAssumption ==
    /\ Catalogues \subseteq [Sku -> Rows]
    /\ \A p \in Rows : p.price \in Nat \cup {NoPrice}

ASSUME SearchBounds == Sizes \subseteq Nat \ {0} /\ MaxEdits \in Nat /\ MaxRequests \in Nat

VARIABLES
    product,    \* durable: products rows
    stock,      \* durable: the SKUs available somewhere
    index,      \* InMemoryVectorStore: metadata by SKU, empty before a search
    req,        \* the request in flight
    held,       \* history: rows each product has had since the request began
    stocked,    \* history: SKUs that have been in stock since then
    edits, requests   \* bound counters

catalogue == <<product, stock>>
counters == <<edits, requests>>
vars == <<product, stock, index, req, held, stocked, edits, requests>>

NoCriteria == [gender |-> None, category |-> None, subcategory |-> None, occasion |-> None,
               colors |-> {}, styles |-> {}, min |-> NoPrice, max |-> NoPrice, size |-> None,
               semantic |-> FALSE]

Empty == <<>>

Idle == [step |-> "idle", c |-> NoCriteria, strategy |-> None, selected |-> NoSku, size |-> 1,
         filter |-> [f \in Indexed |-> None], matches |-> {}, details |-> Empty,
         available |-> {}, status |-> None, result |-> <<>>, edited |-> FALSE]

Init ==
    /\ product \in Catalogues /\ stock = Sku
    /\ index = Empty /\ req = Idle
    /\ held = [s \in Sku |-> {product[s]}] /\ stocked = stock
    /\ edits = 0 /\ requests = 0

-----------------------------------------------------------------------------
Running == req.step # "idle"
Go(r) == req' = r
Finish(status, list) == Go([req EXCEPT !.step = "idle", !.status = status, !.result = list])

\* Criteria and strategy; an empty price range raises out of the agent.
Ask(supplied, said, session, size) ==
    /\ ~Running /\ requests < MaxRequests /\ requests' = requests + 1
    /\ LET c == Criteria(supplied, said, session)
           r == [Idle EXCEPT !.c = c, !.selected = session.selected, !.size = size]
       IN Go(IF ~RangeIsValid(c) THEN [r EXCEPT !.status = "raised"]
             ELSE [r EXCEPT !.step = "retrieve", !.filter = [f \in Indexed |-> c[f]],
                            !.strategy = Strategy(c, said.similar, session.selected)])
    /\ held' = [s \in Sku |-> {product[s]}] /\ stocked' = stock
    /\ UNCHANGED <<catalogue, index, edits>>

ToolFails == Running /\ Finish("FAILED", <<>>)
             /\ UNCHANGED <<catalogue, index, held, stocked, counters>>

\* search_products: one row without the facts of a candidate fails the call.
Structured ==
    /\ req.step = "retrieve" /\ req.strategy = "STRUCTURED"
    /\ LET matches == Search(product, req.c) IN
         IF \A s \in matches : Candidate(product[s])
         THEN IF matches = {} THEN Finish("NO_RESULTS", <<>>)
              ELSE Go([req EXCEPT !.step = "inventory", !.matches = matches,
                                  !.details = [s \in matches |-> product[s]]])
         ELSE Finish("FAILED", <<>>)
    /\ UNCHANGED <<catalogue, index, held, stocked, counters>>

\* The source of a similar-item search gives the category, and no occasion.
Source ==
    /\ req.step = "retrieve" /\ req.strategy = "SIMILAR_ITEM"
    /\ Go([req EXCEPT !.step = "nearest", !.filter =
              [req.filter EXCEPT !["category"] = product[req.selected].category,
                                 !["occasion"] = None]])
    /\ UNCHANGED <<catalogue, index, held, stocked, counters>>

\* semantic_product_search: the index is built once, when it is empty.
Semantic ==
    /\ \/ req.step = "nearest"
       \/ req.step = "retrieve" /\ req.strategy \in {"SEMANTIC", "HYBRID"}
    /\ index' = IF index = Empty THEN Index(product) ELSE index
    /\ Go([req EXCEPT !.step = "details", !.matches = Nearest(index', req.filter) \ {req.selected}])
    /\ UNCHANGED <<catalogue, held, stocked, counters>>

\* get_product_details of every match.
Details ==
    /\ req.step = "details"
    /\ IF req.matches = {} THEN Finish("NO_RESULTS", <<>>)
       ELSE Go([req EXCEPT !.step = "inventory",
                           !.details = [s \in req.matches |-> product[s]]])
    /\ UNCHANGED <<catalogue, index, held, stocked, counters>>

\* check_inventory.
Inventory ==
    /\ req.step = "inventory"
    /\ Go([req EXCEPT !.step = "rank", !.available = stock \cap req.matches])
    /\ UNCHANGED <<catalogue, index, held, stocked, counters>>

\* Mutant: the matches are cut to the number of results before the stock is looked at.
EligibleFirst(r) ==
    {s \in r.matches \cap r.available :
        /\ Cardinality({t \in r.matches : t < s}) < r.size
        /\ Fits(r.details[s], r.c) /\ Presentable(r.details[s])}

\* Mutant: the exact constraints are left to the retrieval.
EligibleAny(r) == {s \in r.available : Presentable(r.details[s])}

Eligible(r) ==
    {s \in r.matches \cap r.available :
        Fits(r.details[s], r.c) /\ Presentable(r.details[s])}

IsSemantic(r) == r.strategy # "STRUCTURED"

\* Constraints, ranking and the first max_results; wording changes no result.
Rank ==
    /\ req.step = "rank"
    /\ LET ranked == Ranked(Eligible(req), req.details, req.c, IsSemantic(req)) IN
         Finish(IF ranked = <<>> THEN "NO_RESULTS" ELSE "SUCCESS", First(req.size, ranked))
    /\ UNCHANGED <<catalogue, index, held, stocked, counters>>

\* External: a row or a balance changes.
Edit(s) ==
    /\ edits < MaxEdits /\ edits' = edits + 1
    /\ \/ \E p \in Versions[s] \ {product[s]} :
             product' = [product EXCEPT ![s] = p] /\ UNCHANGED stock
       \/ stock' = (IF s \in stock THEN stock \ {s} ELSE stock \cup {s}) /\ UNCHANGED product
    /\ held' = [held EXCEPT ![s] = @ \cup {product'[s]}] /\ stocked' = stocked \cup stock'
    /\ Go([req EXCEPT !.edited = TRUE])
    /\ UNCHANGED <<index, requests>>

\* A restart forgets the index and the request in flight.
Restart ==
    /\ index' = Empty /\ req' = Idle
    /\ UNCHANGED <<catalogue, held, stocked, counters>>

Work == ToolFails \/ Structured \/ Source \/ Semantic \/ Details \/ Inventory \/ Rank

Next ==
    \/ \E supplied \in Callers, said \in Queries, session \in Chat, n \in Sizes :
          Ask(supplied, said, session, n)
    \/ Work \/ Restart
    \/ \E s \in Sku : Edit(s)

Spec == Init /\ [][Next]_vars

-----------------------------------------------------------------------------
\* Type invariant.
TypeOK ==
    /\ product \in [Sku -> Rows] /\ stock \subseteq Sku /\ DOMAIN index \subseteq Sku
    /\ req.step \in {"idle", "retrieve", "nearest", "details", "inventory", "rank"}
    /\ req.status \in {None, "SUCCESS", "NO_RESULTS", "FAILED", "raised"}
    /\ ToSet(req.result) \subseteq DOMAIN req.details /\ req.available \subseteq Sku
    /\ edits \in 0 .. MaxEdits /\ requests \in 0 .. MaxRequests

\* Whatever the index remembers: a recommended product had, at some moment of
\* the request, the row that satisfies every exact constraint, and was in stock.
RecommendedIsReal ==
    \A s \in ToSet(req.result) :
        /\ s \in stocked
        /\ \E p \in held[s] : Fits(p, req.c) /\ Presentable(p)

\* A successful search recommends distinct products, best first.
BestComeFirst ==
    /\ Len(req.result) <= req.size
    /\ \A i, j \in DOMAIN req.result : i < j =>
          Outranks(req.result[i], req.result[j], req.details, req.c, IsSemantic(req))

\* Every recommendation is real and stands in its place, although rows, stock
\* and index were read at different moments.
ResultIsRight == TypeOK /\ RecommendedIsReal /\ BestComeFirst

Worthy == {s \in stock : Fits(product[s], req.c) /\ Presentable(product[s])}

\* Nothing better is left out: with a catalogue that keeps still and fewer
\* matches than the retrieval limit, an eligible product that is not listed
\* ranks below every product that is, and the list is full.
NothingBetterIsLeftOut ==
    req.status \in {"SUCCESS", "NO_RESULTS"} /\ req.strategy = "STRUCTURED" /\ ~req.edited
        /\ Cardinality({s \in Sku : Fits(product[s], req.c)}) <= Limit =>
      LET left == Worthy \ ToSet(req.result) IN
      /\ left # {} => Len(req.result) = req.size
      /\ \A s \in left, t \in ToSet(req.result) : Outranks(t, s, product, req.c, FALSE)

\* The same of a semantic search whose index knows the catalogue as it is.
NothingNearIsLeftOut ==
    req.status \in {"SUCCESS", "NO_RESULTS"} /\ req.strategy \in {"SEMANTIC", "HYBRID"}
        /\ ~req.edited /\ index = Index(product)
        /\ Cardinality({s \in Sku : Similarity[s] > 0}) <= Limit =>
      \A s \in Worthy \ (ToSet(req.result) \cup {req.selected}) :
          Similarity[s] = 0 \/ Len(req.result) = req.size

\* No cut (of the query, the index, the ranking) loses a product that should
\* have been listed.
NothingIsLeftOut == NothingBetterIsLeftOut /\ NothingNearIsLeftOut
=============================================================================
