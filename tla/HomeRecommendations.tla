-------------------------- MODULE HomeRecommendations --------------------------
(***************************************************************************)
(* The homepage: NeuTailOrchestrator.handle_home_recommendations asks      *)
(* Discovery for one section after the other (DiscoverySearch), each an    *)
(* awaited request of its own, and puts the products together.             *)
(***************************************************************************)
EXTENDS DiscoverySearch

CONSTANTS
    Affinities,    \* what the profile may hold: two sequences of raw values
    Name,          \* the category a raw value names, None when it is blank
    HomeLimits,    \* the limit of a request (1 to 12)
    SectionCap     \* the most products of a section (20)

ASSUME HomeAssumption ==
    /\ HomeLimits \subseteq Nat \ {0} /\ SectionCap \in Nat \ {0}
    /\ \A profile \in Affinities, i \in 1 .. 2 : profile[i] \in Seq(DOMAIN Name)

VARIABLE home    \* the homepage request

homeVars == <<vars, home>>

NoHome == [step |-> "idle", limit |-> 1, plan |-> <<>>, next |-> 1, asked |-> FALSE,
           seen |-> {}, sections |-> <<>>, edited |-> FALSE]

HomeInit == Init /\ home = NoHome

\* _unique_values.
Unique(s) ==
    LET n == [i \in DOMAIN s |-> Name[s[i]]]
    IN Picked(n, {i \in DOMAIN n : n[i] # None /\ \A j \in 1 .. i - 1 : n[j] # n[i]})

\* Two categories of the customer's affinity, else of the preferences, else
\* one section without a category.
Planned(profile) ==
    LET affinity == Unique(profile[1])
        preferred == Unique(profile[2])
    IN IF affinity # <<>> THEN First(2, affinity)
       ELSE IF preferred # <<>> THEN First(2, preferred)
       ELSE <<None>>

PerSection(h) ==
    LET n == Len(h.plan)
        share == (h.limit + n - 1) \div n
    IN IF share < SectionCap THEN share ELSE SectionCap

Remaining(h) == h.limit - Cardinality(h.seen)

-----------------------------------------------------------------------------
\* Profiling answers with the customer's context, or the request fails.
HomeStart(profile, limit) ==
    /\ home.step # "build" /\ ~Running /\ requests < MaxRequests /\ requests' = requests + 1
    /\ home' = [NoHome EXCEPT !.step = "build", !.limit = limit, !.plan = Planned(profile)]
    /\ UNCHANGED <<catalogue, index, req, held, stocked, edits>>

ProfilingFails ==
    /\ home.step = "build" /\ home.next = 1 /\ ~home.asked
    /\ home' = [home EXCEPT !.step = "failed"]
    /\ UNCHANGED vars

Silent == [gender |-> None, category |-> None, subcategory |-> None, occasion |-> None,
           colors |-> {}, styles |-> {}, min |-> NoPrice, max |-> NoPrice, size |-> None,
           semantic |-> FALSE, similar |-> FALSE]

Least(a, b) == IF a < b THEN a ELSE b

\* One Discovery request: its category is a criterion and an entity.
AskSection ==
    /\ home.step = "build" /\ ~home.asked /\ home.next <= Len(home.plan) /\ Remaining(home) > 0
    /\ LET category == home.plan[home.next]
           c == Criteria([NoCriteria EXCEPT !.category = category], Silent,
                         [category |-> category, occasion |-> None, size |-> None])
       IN req' = [Idle EXCEPT !.step = "retrieve", !.c = c,
                              !.size = Least(PerSection(home), Remaining(home)),
                              !.filter = [f \in Indexed |-> c[f]],
                              !.strategy = Strategy(c, FALSE, NoSku)]
    /\ held' = [s \in Sku |-> {product[s]}] /\ stocked' = stock
    /\ home' = [home EXCEPT !.asked = TRUE]
    /\ UNCHANGED <<catalogue, index, counters>>

\* Mutant: each section is filled on its own.
NewAlone(h, list) == list

\* Products no earlier section has.
NewProducts(h, list) ==
    First(Remaining(h), Picked(list, {i \in DOMAIN list : list[i] \notin h.seen}))

Shown(h, products) ==
    IF products = <<>> THEN h.sections
    ELSE Append(h.sections, [category |-> h.plan[h.next], skus |-> products])

\* The answer of Discovery; FAILED fails the whole homepage.
Collect ==
    /\ home.step = "build" /\ home.asked /\ ~Running
    /\ home' =
         IF req.status = "FAILED" THEN [home EXCEPT !.step = "failed"]
         ELSE LET products == NewProducts(home, req.result) IN
              [home EXCEPT !.next = @ + 1, !.asked = FALSE,
                           !.seen = @ \cup ToSet(products), !.sections = Shown(home, products)]
    /\ UNCHANGED vars

Respond ==
    /\ home.step = "build" /\ ~home.asked
    /\ home.next > Len(home.plan) \/ Remaining(home) <= 0
    /\ home' = [home EXCEPT !.step = "done"]
    /\ UNCHANGED vars

HomeWork == AskSection \/ ProfilingFails \/ Collect \/ Respond \/ (Work /\ UNCHANGED home)

HomeNext ==
    \/ \E profile \in Affinities, limit \in HomeLimits : HomeStart(profile, limit)
    \/ /\ home.step # "build" /\ UNCHANGED home
       /\ \E supplied \in Callers, said \in Queries, session \in Chat, n \in Sizes :
             Ask(supplied, said, session, n)
    \/ HomeWork
    \/ \E s \in Sku : Edit(s) /\ home' = [home EXCEPT !.edited = TRUE]
    \/ Restart /\ home' = NoHome

HomeSpec == HomeInit /\ [][HomeNext]_homeVars

-----------------------------------------------------------------------------
\* The page keeps its limit and its shares, and no product appears twice,
\* even one that moved to another category between two sections.
HomeIsBounded ==
    LET section == home.sections IN
    /\ Cardinality(UNION {ToSet(section[i].skus) : i \in DOMAIN section}) <= home.limit
    /\ \A i, j \in DOMAIN section : \A a \in DOMAIN section[i].skus, b \in DOMAIN section[j].skus :
          section[i].skus[a] = section[j].skus[b] => i = j /\ a = b
    /\ \A i \in DOMAIN section : Len(section[i].skus) \in 1 .. PerSection(home)

\* What a section could show, and what its query matches.
Matching(category) ==
    {s \in Sku : product[s].active /\ product[s].category = category
                 /\ Context.gender \in {None, product[s].gender}}
InCategory(category) == {s \in stock \cap Matching(category) : Presentable(product[s])}

\* With a catalogue that keeps still, a product of a planned category is
\* missing from the finished page only if its section or the page is full,
\* or the category has more products than a query returns.
HomeIsFull ==
    home.step = "done" /\ ~home.edited =>
        \A i \in DOMAIN home.plan :
            \/ home.plan[i] = None \/ Cardinality(Matching(home.plan[i])) > Limit
            \/ InCategory(home.plan[i]) \subseteq home.seen
            \/ Remaining(home) = 0
            \/ \E j \in DOMAIN home.sections :
                  home.sections[j].category = home.plan[i]
                  /\ Len(home.sections[j].skus) = PerSection(home)

\* The rounded shares of the sections neither overrun the page nor leave room
\* that a product could have taken.
HomeIsWhole == HomeIsBounded /\ HomeIsFull
=============================================================================
