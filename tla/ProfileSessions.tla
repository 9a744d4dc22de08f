--------------------------- MODULE ProfileSessions ---------------------------
(***************************************************************************)
(* Process-local projections of a customer: the session contexts           *)
(* (src/services/session_context_service.py), the Profiling agent's cache  *)
(* (src/agents/profiling/agent.py), the turns that copy, use and save them *)
(* (src/orchestrator/orchestrator.py), and the subscriber that invalidates *)
(* them after a purchase (src/services/context_bus.py).                    *)
(*                                                                         *)
(* Between two awaits a coroutine runs alone.  A chat turn copies its      *)
(* session when it starts and saves the copy when it ends; the agents and  *)
(* models it awaits in between leave both alone, so a turn is the step     *)
(* that loads, the steps of the Profiling agent and the step that saves.   *)
(* Neither lock is held across an await, so closing a session and handling *)
(* an invalidation are one step each.  A profile is reduced to the version *)
(* of the customers row it was built from and the version its histories    *)
(* were read at, 0 if an optional tool had no answer.                      *)
(***************************************************************************)
EXTENDS Integers, Sequences, FiniteSets

CONSTANTS
    Customer,
    Session,      \* session ids
    Turn,         \* coroutines: chat turns, signals and profile requests
    MaxTurns,     \* turns a conversation keeps (ten in the code)
    MaxVersion,   \* bound: profile versions of a customer
    MaxRuns       \* bound: turns each coroutine serves

ASSUME BoundAssumption ==
    MaxTurns \in Nat \ {0} /\ MaxVersion \in Nat \ {0} /\ MaxRuns \in Nat

VARIABLES
    version,     \* durable: customers.profile_version
    due,         \* durable: committed purchases whose event is not handled
    contexts,    \* SessionContextService._contexts
    cache,       \* ProfileAgent._cache, by session and customer
    fresh,       \* session ids nobody has named yet
    turn,        \* the state of each coroutine
    runs,        \* bound counter; with the coroutine, the id of a turn
    overlapped,  \* history: customers with a turn in flight at an invalidation
    closed       \* history: sessions closed and not named since

vars == <<version, due, contexts, cache, fresh, turn, runs, overlapped, closed>>
memory == <<contexts, cache>>
ghosts == <<overlapped, closed>>

Kind == {"chat", "signal", "profile"}
Step == {"idle", "profile", "snapshot", "histories", "publish", "save"}
NoProfile == [customer |-> "none", version |-> 0, histories |-> 0]
Profile == {NoProfile} \cup
    [customer : Customer, version : 1 .. MaxVersion, histories : 0 .. MaxVersion]

TurnId == Turn \X (1 .. MaxRuns)
NoContext == [owner |-> "none", profile |-> NoProfile, turns |-> <<>>]
Context == {NoContext} \cup [owner : Customer, profile : Profile, turns : Seq(TurnId)]
Idle == [step |-> "idle", kind |-> "chat", session |-> "none", customer |-> "none",
         refresh |-> FALSE, profile |-> NoProfile, turns |-> <<>>]

TypeOK ==
    /\ version \in [Customer -> 1 .. MaxVersion] /\ due \in [Customer -> Nat]
    /\ \A s \in Session : contexts[s] \in Context /\ Len(contexts[s].turns) <= MaxTurns
    /\ cache \in [Session \X Customer -> Profile]
    /\ fresh \subseteq Session /\ closed \subseteq Session
    /\ overlapped \subseteq Customer
    /\ runs \in [Turn -> 0 .. MaxRuns]
    /\ \A t \in Turn :
          /\ turn[t].step \in Step /\ turn[t].kind \in Kind
          /\ turn[t].profile \in Profile /\ turn[t].turns \in Seq(TurnId)
          /\ turn[t] # Idle => turn[t].session \in Session /\ turn[t].customer \in Customer

Init ==
    /\ version = [c \in Customer |-> 1] /\ due = [c \in Customer |-> 0]
    /\ contexts = [s \in Session |-> NoContext]
    /\ cache = [k \in Session \X Customer |-> NoProfile]
    /\ fresh = Session
    /\ turn = [t \in Turn |-> Idle] /\ runs = [t \in Turn |-> 0]
    /\ overlapped = {} /\ closed = {}

-----------------------------------------------------------------------------
Exists(s) == contexts[s] # NoContext
Owned(s, c) == contexts[s].owner = c
Active(t) == turn[t] # Idle
At(t, step) == Active(t) /\ turn[t].step = step
Key(t) == <<turn[t].session, turn[t].customer>>

\* POST /sessions: a new id.
CreateSession(s, c) ==
    /\ s \in fresh
    /\ contexts' = [contexts EXCEPT ![s] = [NoContext EXCEPT !.owner = c]]
    /\ fresh' = fresh \ {s}
    /\ UNCHANGED <<version, due, cache, turn, runs, ghosts>>

\* DELETE /sessions/{id}: clear_context, then clear_session.
CloseSession(s, c) ==
    /\ Exists(s) /\ Owned(s, c)
    /\ contexts' = [contexts EXCEPT ![s] = NoContext]
    /\ cache' = [k \in DOMAIN cache |-> IF k[1] = s THEN NoProfile ELSE cache[k]]
    /\ closed' = closed \cup {s}
    /\ UNCHANGED <<version, due, fresh, turn, runs, overlapped>>

-----------------------------------------------------------------------------
Starts(t, kind, s, c, step, refresh, from) ==
    /\ ~Active(t) /\ runs[t] < MaxRuns
    /\ turn' = [turn EXCEPT ![t] =
                  [step |-> step, kind |-> kind, session |-> s, customer |-> c,
                   refresh |-> refresh, profile |-> from.profile, turns |-> from.turns]]
    /\ runs' = [runs EXCEPT ![t] = @ + 1]
    /\ fresh' = fresh \ {s}
    /\ closed' = closed \ {s}

\* The Profiling agent runs if the copy has no profile and a specialist is
\* needed; an intent that needs none leaves it empty.
FirstStep(s, needed) ==
    IF contexts[s].profile = NoProfile /\ needed THEN "profile" ELSE "save"

\* A chat turn on a session id of the caller's choice: get_or_create copies
\* the context, or makes one that is not stored.  Another customer's session
\* is refused.
StartChat(t, s, c) ==
    /\ Exists(s) => Owned(s, c)
    /\ \E needed \in BOOLEAN :
          Starts(t, "chat", s, c, FirstStep(s, needed), FALSE, contexts[s])
    /\ UNCHANGED <<version, due, memory, overlapped>>

\* An engagement signal: ensure_context, then handle_upsell_trigger copies.
\* The bus delivers one signal at a time.
StartSignal(t, s, c) ==
    /\ Exists(s) => Owned(s, c)
    /\ \A u \in Turn : Active(u) => turn[u].kind # "signal"
    /\ Starts(t, "signal", s, c, FirstStep(s, TRUE), FALSE, contexts[s])
    /\ contexts' = [contexts EXCEPT ![s].owner = c]
    /\ UNCHANGED <<version, due, cache, overlapped>>

\* The homepage, the profile endpoints and the refresh after a purchase ask
\* the agent alone, under any session id.
StartProfile(t, s, c) ==
    \E refresh \in BOOLEAN :
        /\ Starts(t, "profile", s, c, "profile", refresh, NoContext)
        /\ UNCHANGED <<version, due, memory, overlapped>>

\* Where a coroutine goes once it has the profile p.
Continue(t, p) ==
    turn' = [turn EXCEPT ![t] =
        IF @.kind = "profile" THEN Idle ELSE [@ EXCEPT !.step = "save", !.profile = p]]

\* ProfileAgent.execute
CacheHit(t) ==
    /\ At(t, "profile") /\ ~turn[t].refresh
    /\ cache[Key(t)] # NoProfile
    /\ Continue(t, cache[Key(t)])
    /\ UNCHANGED <<version, due, memory, fresh, runs, ghosts>>

CacheMiss(t) ==
    /\ At(t, "profile")
    /\ cache[Key(t)] = NoProfile \/ turn[t].refresh
    /\ turn' = [turn EXCEPT ![t].step = "snapshot"]
    /\ UNCHANGED <<version, due, memory, fresh, runs, ghosts>>

ReadSnapshot(t) ==
    /\ At(t, "snapshot")
    /\ LET c == turn[t].customer IN
         turn' = [turn EXCEPT ![t].step = "histories",
                              ![t].profile = [customer |-> c, version |-> version[c],
                                              histories |-> 0]]
    /\ UNCHANGED <<version, due, memory, fresh, runs, ghosts>>

\* The four enrichment nodes; an optional tool that fails leaves its part out.
ReadHistories(t) ==
    /\ At(t, "histories")
    /\ \E answered \in BOOLEAN :
          turn' = [turn EXCEPT ![t].step = "publish",
                     ![t].profile.histories = IF answered THEN version[turn[t].customer] ELSE 0]
    /\ UNCHANGED <<version, due, memory, fresh, runs, ghosts>>

\* Mutant: the cache is keyed by the session alone.
PublishForSession(t) ==
    /\ At(t, "publish")
    /\ cache' = [k \in DOMAIN cache |->
                    IF k[1] = turn[t].session THEN turn[t].profile ELSE cache[k]]
    /\ Continue(t, turn[t].profile)
    /\ UNCHANGED <<version, due, contexts, fresh, runs, ghosts>>

PublishProfile(t) ==
    /\ At(t, "publish")
    /\ cache' = [cache EXCEPT ![Key(t)] = turn[t].profile]
    /\ Continue(t, turn[t].profile)
    /\ UNCHANGED <<version, due, contexts, fresh, runs, ghosts>>

\* A required tool fails.  A chat turn goes on without a profile; a signal
\* has no result and a profile request no answer: both end with an error.
ProfileFails(t) ==
    /\ At(t, "snapshot") \/ At(t, "histories")
    /\ turn' = [turn EXCEPT ![t] =
                  IF @.kind = "chat" THEN [@ EXCEPT !.step = "save", !.profile = NoProfile]
                  ELSE Idle]
    /\ UNCHANGED <<version, due, memory, fresh, runs, ghosts>>

LastTurns(q) == SubSeq(q, IF Len(q) > MaxTurns THEN Len(q) - MaxTurns + 1 ELSE 1, Len(q))

Saved(t) ==
    [owner |-> turn[t].customer, profile |-> turn[t].profile,
     turns |-> LastTurns(IF turn[t].kind = "chat"
                         THEN Append(turn[t].turns, <<t, runs[t]>>)
                         ELSE turn[t].turns)]

\* Mutant: save_context does not look who owns the session now.
SaveAnyOwner(t) ==
    /\ At(t, "save")
    /\ turn' = [turn EXCEPT ![t] = Idle]
    /\ contexts' = [contexts EXCEPT ![turn[t].session] = Saved(t)]
    /\ UNCHANGED <<version, due, cache, fresh, runs, ghosts>>

\* _persist_context, or the end of handle_upsell_trigger: the copy is saved
\* over whatever is stored now, unless that is another customer's.
Save(t) ==
    LET s == turn[t].session IN
    /\ At(t, "save")
    /\ turn' = [turn EXCEPT ![t] = Idle]
    /\ contexts' = IF Exists(s) /\ ~Owned(s, turn[t].customer) THEN contexts
                   ELSE [contexts EXCEPT ![s] = Saved(t)]
    /\ UNCHANGED <<version, due, cache, fresh, runs, ghosts>>

\* A turn raises after its profile step and saves nothing: record_decision
\* fails, or a trusted trigger brought no structured result.
TurnRaises(t) ==
    /\ At(t, "save")
    /\ turn' = [turn EXCEPT ![t] = Idle]
    /\ UNCHANGED <<version, due, memory, fresh, runs, ghosts>>

-----------------------------------------------------------------------------
\* A purchase commits a new profile version with its outbox row.
Purchase(c) ==
    /\ version[c] < MaxVersion
    /\ version' = [version EXCEPT ![c] = @ + 1]
    /\ due' = [due EXCEPT ![c] = @ + 1]
    /\ UNCHANGED <<memory, fresh, turn, runs, ghosts>>

InFlight(c) == \E t \in Turn : Active(t) /\ turn[t].customer = c

Handled(c) ==
    /\ due[c] > 0
    /\ due' = [due EXCEPT ![c] = @ - 1]
    /\ overlapped' = IF InFlight(c) THEN overlapped \cup {c} ELSE overlapped

\* Mutant: only the agent's cache is cleared.
InvalidateCacheOnly(c) ==
    /\ Handled(c)
    /\ cache' = [k \in DOMAIN cache |-> IF k[2] = c THEN NoProfile ELSE cache[k]]
    /\ UNCHANGED <<version, contexts, fresh, turn, runs, closed>>

\* ProfileContextSubscriber: clear_customer, then invalidate_customer_context.
Invalidate(c) ==
    /\ Handled(c)
    /\ cache' = [k \in DOMAIN cache |-> IF k[2] = c THEN NoProfile ELSE cache[k]]
    /\ contexts' = [s \in Session |->
                      IF Owned(s, c) THEN [contexts[s] EXCEPT !.profile = NoProfile]
                      ELSE contexts[s]]
    /\ UNCHANGED <<version, fresh, turn, runs, closed>>

\* Everything but the database is gone.
Restart ==
    /\ contexts' = [s \in Session |-> NoContext]
    /\ cache' = [k \in DOMAIN cache |-> NoProfile]
    /\ turn' = [t \in Turn |-> Idle]
    /\ UNCHANGED <<version, due, fresh, runs, ghosts>>

TurnStep(t) ==
    \/ CacheHit(t) \/ CacheMiss(t) \/ ReadSnapshot(t) \/ ReadHistories(t)
    \/ PublishProfile(t) \/ Save(t)

Next ==
    \/ \E s \in Session, c \in Customer :
          \/ CreateSession(s, c) \/ CloseSession(s, c)
          \/ \E t \in Turn : StartChat(t, s, c) \/ StartSignal(t, s, c) \/ StartProfile(t, s, c)
    \/ \E t \in Turn : TurnStep(t) \/ ProfileFails(t) \/ TurnRaises(t)
    \/ \E c \in Customer : Purchase(c) \/ Invalidate(c)
    \/ Restart

Spec == Init /\ [][Next]_vars

-----------------------------------------------------------------------------
UpToDate(p, c) ==
    p = NoProfile \/ (p.customer = c /\ p.version = version[c] /\ p.histories \in {0, version[c]})

Projected(c) ==
    /\ \A s \in Session : UpToDate(cache[<<s, c>>], c)
    /\ \A s \in Session : Owned(s, c) => UpToDate(contexts[s].profile, c)

\* Once the events of a customer's purchases are handled, no cache entry and
\* no session holds an older or a torn profile, unless a turn of this customer was in
\* flight while one was being handled.
FreshUnlessOverlapped ==
    \A c \in Customer : due[c] = 0 /\ c \notin overlapped => Projected(c)

\* A coroutine, a session and a cache entry only ever hold the profile of
\* their own customer, although callers choose their session ids.
OwnProfilesOnly ==
    /\ \A t \in Turn : turn[t].profile.customer \in {"none", turn[t].customer}
    /\ \A s \in Session : contexts[s].profile.customer \in {"none", contexts[s].owner}
    /\ \A k \in DOMAIN cache : cache[k].customer \in {"none", k[2]}

\* Whatever session ids callers choose, state is well formed and no profile
\* reaches another customer.
ProfilesAreOwn == TypeOK /\ OwnProfilesOnly

\* Two customers who race for a session id: the first to save it keeps it
\* until it is closed or lost.
OwnerIsKept ==
    [][\A s \in Session :
          Exists(s) /\ contexts'[s] # NoContext => contexts'[s].owner = contexts[s].owner]_vars

InUse(s) == \E t \in Turn : Active(t) /\ turn[t].session = s

\* While no turn of a session runs, purchases, closes of other sessions and
\* turns elsewhere leave its conversation alone.
RestingSessionKeepsTurns ==
    [][\A s \in Session :
          Exists(s) /\ ~InUse(s) /\ contexts'[s] # NoContext
              => contexts'[s].turns = contexts[s].turns]_vars

\* A closed session leaves nothing behind for its id unless a turn was in
\* flight: the next customer to name the id starts from nothing.
ClosedLeavesNothing ==
    [][\A s \in closed' \ closed :
          contexts'[s] = NoContext /\ \A c \in Customer : cache'[<<s, c>>] = NoProfile]_vars

\* A session changes hands only by being closed or lost, changes its
\* conversation only by its own turns, and is closed without a trace.
SessionsAreKept == OwnerIsKept /\ RestingSessionKeepsTurns /\ ClosedLeavesNothing

\* Stale profile and session projections are invalidated.
\* Does not hold: README, section 4.
ProjectionsFresh == \A c \in Customer : due[c] = 0 => Projected(c)

\* A turn that was stored stays in the multi-turn context until newer turns
\* displace it.
\* Does not hold: README, section 4.
TurnsArePersisted ==
    [][\A s \in Session :
          Exists(s) /\ contexts[s].turns # <<>> /\ contexts'[s] # NoContext
              => \E i \in DOMAIN contexts'[s].turns :
                    contexts'[s].turns[i] = contexts[s].turns[Len(contexts[s].turns)]]_vars

\* A closed session is gone until somebody names its id again.
\* Does not hold: README, section 4.
ClosedStaysClosed == \A s \in closed : ~Exists(s)
=============================================================================
