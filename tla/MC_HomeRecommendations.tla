-------------------------- MODULE MC_HomeRecommendations --------------------------
(* Small instances of DiscoverySearch for TLC: three dresses and a coat.   *)
EXTENDS HomeRecommendations

MC_Product(category, color, price, tier) ==
    [gender |-> "Women", category |-> category, subcategory |-> None, occasion |-> "Work",
     color |-> color, style |-> "classic", price |-> price, tier |-> tier, sizes |-> {"M"},
     discounted |-> FALSE, exclusive |-> FALSE, new |-> FALSE, label |-> FALSE,
     named |-> TRUE, active |-> TRUE]

MC_Catalogue ==
    <<MC_Product("Dresses", "navy", 200, "premium"), MC_Product("Dresses", "red", 50, "value"),
      MC_Product("Dresses", "navy", 100, "mid"), MC_Product("Outerwear", "navy", 150, "premium")>>

MC_Catalogues == {MC_Catalogue, [MC_Catalogue EXCEPT ![3].price = NoPrice]}

\* An edit retires a product, moves it to another category or takes its price.
MC_Versions ==
    [s \in 1 .. 4 |-> {MC_Catalogue[s], [MC_Catalogue[s] EXCEPT !.active = FALSE]}
        \cup (IF s = 1 THEN {[MC_Catalogue[s] EXCEPT !.category = "Outerwear"]} ELSE {})
        \cup (IF s = 4 THEN {[MC_Catalogue[s] EXCEPT !.category = "Dresses"]} ELSE {})
        \cup (IF s = 2 THEN {[MC_Catalogue[s] EXCEPT !.price = NoPrice]} ELSE {})]

MC_Said == [gender |-> None, category |-> None, subcategory |-> None, occasion |-> None,
            colors |-> {}, styles |-> {}, min |-> NoPrice, max |-> NoPrice, size |-> None,
            semantic |-> FALSE, similar |-> FALSE]

MC_Queries ==
    {[MC_Said EXCEPT !.category = "Dresses"],
     [MC_Said EXCEPT !.colors = {"navy"}, !.max = 150],
     [MC_Said EXCEPT !.semantic = TRUE, !.category = "Dresses"],
     [MC_Said EXCEPT !.semantic = TRUE, !.max = 150],
     [MC_Said EXCEPT !.similar = TRUE],
     [MC_Said EXCEPT !.min = 150, !.max = 100]}

MC_Callers == {NoCriteria}

MC_Chat == {[category |-> None, occasion |-> None, size |-> None, selected |-> s] :
               s \in {NoSku, 3}}

MC_Context == [segment |-> "prestige champion", sensitivity |-> 25, affinity |-> 75,
               gender |-> "Women", occasions |-> {"Work"}, styles |-> {}, colors |-> {"navy"}]

MC_Similarity == <<40, 70, 0, 40>>

MC_Name == [Dresses |-> "Dresses", dresses |-> "Dresses", Outerwear |-> "Outerwear", blank |-> None]

MC_Affinities ==
    {<<<<"Dresses", "dresses", "Outerwear">>, <<>>>>, <<<<"blank">>, <<"Outerwear", "Dresses">>>>,
     <<<<>>, <<"blank", "Dresses">>>>, <<<<>>, <<>>>>}
=============================================================================
