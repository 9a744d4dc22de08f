--------------------------- MODULE UpsellDecisions ---------------------------
(***************************************************************************)
(* Customer responses to upsell offers                                     *)
(* (src/services/upsell_decision_service.py and the decision endpoint of   *)
(* src/api/upsell.py).                                                     *)
(*                                                                         *)
(* A response claims its idempotency key, awaits the tool that writes a    *)
(* service-engagement row, and completes the key and the decision.  Each   *)
(* of the three is its own transaction, other requests run at the await,   *)
(* and the process may stop between any two.                               *)
(***************************************************************************)
EXTENDS Integers, FiniteSets

CONSTANTS
    Decision,   \* decision ids
    Key,        \* idempotency keys, chosen by the client
    Response,   \* OFFER_ACCEPTED, OFFER_DECLINED, OFFER_DISMISSED
    Request,    \* request coroutines
    None,
    MaxFaults,  \* bound: failing transactions, failing tools and crashes
    MaxCalls    \* bound: requests each coroutine serves

ASSUME NoneAssumption == None \notin Request \cup Key \cup Response
ASSUME PendingAssumption == "PENDING" \notin Response
ASSUME BoundAssumption == MaxFaults \in Nat /\ MaxCalls \in Nat

VARIABLES
    decision,  \* durable: upsell_decisions; None, "PENDING" or a Response
    keys,      \* durable: upsell_decision_events, by idempotency key
    served,    \* durable: service-engagement rows written for each key
    up,        \* the process is running
    pc,        \* where each coroutine is
    args,      \* the request each coroutine serves
    reply,     \* the answer it last gave
    calls,     \* bound counter
    faults     \* bound counter

durable == <<decision, keys, served>>
vars == <<decision, keys, served, up, pc, args, reply, calls, faults>>

KeyStatus == {"NONE", "PROCESSING", "COMPLETED", "FAILED"}
Working   == {"recording", "recorded", "aborting"}
Reply     == {"NONE", "OK", "NOT_FOUND", "KEY_REUSED", "IN_FLIGHT", "RESOLVED", "ERROR"}

\* A request: the decision and response that make up the fingerprint, the
\* key, and whether the decision belongs to its customer and session.
Args == [fp : Decision \X Response, key : Key, owned : BOOLEAN]

TypeOK ==
    /\ decision \in [Decision -> Response \cup {None, "PENDING"}]
    /\ keys \in [Key -> [status : KeyStatus, fp : (Decision \X Response) \cup {None}]]
    /\ served \in [Key -> Nat]
    /\ up \in BOOLEAN
    /\ pc \in [Request -> {"idle"} \cup Working]
    /\ args \in [Request -> Args \cup {None}]
    /\ reply \in [Request -> Reply]
    /\ calls \in [Request -> Nat] /\ faults \in Nat

Init ==
    /\ decision = [d \in Decision |-> None]
    /\ keys = [k \in Key |-> [status |-> "NONE", fp |-> None]]
    /\ served = [k \in Key |-> 0]
    /\ up = TRUE
    /\ pc = [r \in Request |-> "idle"]
    /\ args = [r \in Request |-> None]
    /\ reply = [r \in Request |-> "NONE"]
    /\ calls = [r \in Request |-> 0]
    /\ faults = 0

-----------------------------------------------------------------------------
DecisionOf(a) == a.fp[1]
ResponseOf(a) == a.fp[2]

Fault ==
    /\ faults < MaxFaults
    /\ faults' = faults + 1

\* Mutant: recording a known decision makes it PENDING again.
RecordDecisionAnew(d) ==
    /\ up
    /\ decision' = [decision EXCEPT ![d] = "PENDING"]
    /\ UNCHANGED <<keys, served, up, pc, args, reply, calls, faults>>

\* record_decision: a new offer is PENDING; recording a known one again
\* (a redelivered signal) leaves its status alone.
RecordDecision(d) ==
    /\ up
    /\ decision' = [decision EXCEPT ![d] = IF @ = None THEN "PENDING" ELSE @]
    /\ UNCHANGED <<keys, served, up, pc, args, reply, calls, faults>>

Answer(r, text) == pc' = [pc EXCEPT ![r] = "idle"] /\ reply' = [reply EXCEPT ![r] = text]

\* A request arrives; claim_decision_event is its first transaction.
Arrives(r, a) ==
    /\ up
    /\ pc[r] = "idle"
    /\ calls[r] < MaxCalls
    /\ calls' = [calls EXCEPT ![r] = @ + 1]
    /\ args' = [args EXCEPT ![r] = a]
    /\ UNCHANGED <<decision, served, up, faults>>

\* The decision is missing or belongs to another customer or session.
ClaimNotFound(r, a) ==
    /\ Arrives(r, a)
    /\ decision[DecisionOf(a)] = None \/ ~a.owned
    /\ Answer(r, "NOT_FOUND")
    /\ UNCHANGED keys

Visible(a) == decision[DecisionOf(a)] # None /\ a.owned

ClaimKeyReused(r, a) ==
    /\ Arrives(r, a)
    /\ Visible(a)
    /\ keys[a.key].status # "NONE" /\ keys[a.key].fp # a.fp
    /\ Answer(r, "KEY_REUSED")
    /\ UNCHANGED keys

\* Mutant: the fingerprint is not compared.
SameKey(a) == keys[a.key].status # "NONE"

SameRequest(a) == keys[a.key].status # "NONE" /\ keys[a.key].fp = a.fp

\* A completed key returns its stored response.
ClaimReplay(r, a) ==
    /\ Arrives(r, a)
    /\ Visible(a) /\ SameRequest(a)
    /\ keys[a.key].status = "COMPLETED"
    /\ Answer(r, "OK")
    /\ UNCHANGED keys

ClaimInFlight(r, a) ==
    /\ Arrives(r, a)
    /\ Visible(a) /\ SameRequest(a)
    /\ keys[a.key].status = "PROCESSING"
    /\ Answer(r, "IN_FLIGHT")
    /\ UNCHANGED keys

StartWork(r, a) ==
    /\ keys' = [keys EXCEPT ![a.key] = [status |-> "PROCESSING", fp |-> a.fp]]
    /\ pc' = [pc EXCEPT ![r] = "recording"]
    /\ reply' = [reply EXCEPT ![r] = "NONE"]

\* Mutant: a key being processed is claimed again.
ClaimRetryInFlight(r, a) ==
    /\ Arrives(r, a)
    /\ Visible(a) /\ SameRequest(a)
    /\ keys[a.key].status \in {"FAILED", "PROCESSING"}
    /\ StartWork(r, a)

\* A FAILED key is claimed again, whatever the decision's status is by now.
ClaimRetry(r, a) ==
    /\ Arrives(r, a)
    /\ Visible(a) /\ SameRequest(a)
    /\ keys[a.key].status = "FAILED"
    /\ StartWork(r, a)

ClaimResolved(r, a) ==
    /\ Arrives(r, a)
    /\ Visible(a)
    /\ keys[a.key].status = "NONE"
    /\ decision[DecisionOf(a)] # "PENDING"
    /\ Answer(r, "RESOLVED")
    /\ UNCHANGED keys

\* A new key needs a PENDING decision; the decision itself is not reserved.
ClaimNew(r, a) ==
    /\ Arrives(r, a)
    /\ Visible(a)
    /\ keys[a.key].status = "NONE"
    /\ decision[DecisionOf(a)] = "PENDING"
    /\ StartWork(r, a)

\* await call_tool("record_upsell_event"): the tool commits its row.
ToolRecords(r) ==
    /\ pc[r] = "recording"
    /\ served' = [served EXCEPT ![args[r].key] = @ + 1]
    /\ pc' = [pc EXCEPT ![r] = "recorded"]
    /\ UNCHANGED <<decision, keys, up, args, reply, calls, faults>>

ToolFails(r) ==
    /\ pc[r] = "recording"
    /\ Fault
    /\ pc' = [pc EXCEPT ![r] = "aborting"]
    /\ UNCHANGED <<durable, up, args, reply, calls>>

\* complete_decision_event writes the decision's status unconditionally.
Complete(r) ==
    /\ pc[r] = "recorded"
    /\ keys' = [keys EXCEPT ![args[r].key].status = "COMPLETED"]
    /\ decision' = [decision EXCEPT ![DecisionOf(args[r])] = ResponseOf(args[r])]
    /\ Answer(r, "OK")
    /\ UNCHANGED <<served, up, args, calls, faults>>

\* Its transaction fails, after the tool's row was committed.
CompleteFails(r) ==
    /\ pc[r] = "recorded"
    /\ Fault
    /\ pc' = [pc EXCEPT ![r] = "aborting"]
    /\ UNCHANGED <<durable, up, args, reply, calls>>

Abort(r) ==
    /\ pc[r] = "aborting"
    /\ keys' = [keys EXCEPT ![args[r].key].status = IF @ = "PROCESSING" THEN "FAILED" ELSE @]
    /\ Answer(r, "ERROR")
    /\ UNCHANGED <<decision, served, up, args, calls, faults>>

\* The abort's transaction fails too: the key keeps its claim.
AbortFails(r) ==
    /\ pc[r] = "aborting"
    /\ Fault
    /\ Answer(r, "ERROR")
    /\ UNCHANGED <<durable, up, args, calls>>

Crash ==
    /\ up
    /\ Fault
    /\ up' = FALSE
    /\ pc' = [r \in Request |-> "idle"]
    /\ args' = [r \in Request |-> None]
    /\ reply' = [r \in Request |-> "NONE"]
    /\ UNCHANGED <<durable, calls>>

Restart ==
    /\ ~up
    /\ up' = TRUE
    /\ UNCHANGED <<durable, pc, args, reply, calls, faults>>

Claim(r, a) ==
    \/ ClaimNotFound(r, a) \/ ClaimKeyReused(r, a) \/ ClaimReplay(r, a)
    \/ ClaimInFlight(r, a) \/ ClaimRetry(r, a) \/ ClaimResolved(r, a)
    \/ ClaimNew(r, a)

Work(r) == ToolRecords(r) \/ Complete(r) \/ Abort(r)
WorkFails(r) == ToolFails(r) \/ CompleteFails(r) \/ AbortFails(r)

Next ==
    \/ \E d \in Decision : RecordDecision(d)
    \/ \E r \in Request : (\E a \in Args : Claim(r, a)) \/ Work(r) \/ WorkFails(r)
    \/ Crash \/ Restart

Spec == Init /\ [][Next]_vars

-----------------------------------------------------------------------------
Resolved(d) == decision[d] \in Response
Holds(r, k) == pc[r] \in Working /\ args[r].key = k

\* A request that was answered "recorded" left a complete trace: its key is
\* COMPLETED for exactly the payload it sent, a service row was written and
\* the decision is resolved, whatever raced with it or failed before.
OkMeansRecorded ==
    \A r \in Request : reply[r] = "OK" =>
        LET a == args[r] IN
        /\ keys[a.key] = [status |-> "COMPLETED", fp |-> a.fp]
        /\ served[a.key] >= 1
        /\ Resolved(DecisionOf(a))

\* A decision is resolved only by a response that completed, and a completed
\* response resolved its decision.
StatusHasEvent ==
    /\ \A d \in Decision : Resolved(d) =>
          \E k \in Key : keys[k] = [status |-> "COMPLETED", fp |-> <<d, decision[d]>>]
    /\ \A k \in Key : keys[k].status = "COMPLETED" =>
          Resolved(keys[k].fp[1]) /\ served[k] >= 1

\* Answers, keys, decisions and service rows tell one story, although three
\* transactions write them.
RowsAgree == TypeOK /\ OkMeansRecorded /\ StatusHasEvent

\* Two requests never work on one key: the claim's status is the mutex.
OneWorkerPerKey ==
    \A r, s \in Request, k \in Key : Holds(r, k) /\ Holds(s, k) => r = s

\* Without failures a key writes one service row, however often it is sent.
OneRowWithoutFaults == faults = 0 => \A k \in Key : served[k] <= 1

\* A key is worked on by one request, so retries and races alone never write
\* a second service row.
OneWorker == OneWorkerPerKey /\ OneRowWithoutFaults

\* A completed key never changes, so a replay is always the same answer.
CompletedKeyIsFinal ==
    [][\A k \in Key : keys[k].status = "COMPLETED" => keys'[k] = keys[k]]_vars

\* A resolved offer is never actionable again, even when it is recorded anew.
NeverPendingAgain ==
    [][\A d \in Decision : Resolved(d) => decision'[d] # "PENDING"]_vars

\* What was completed or resolved stays so, through retries of its key,
\* redelivered signals and crashes.
FinalStates == CompletedKeyIsFinal /\ NeverPendingAgain

\* A decision takes one response: a second one is refused as already
\* resolved (the docstring and message of UpsellDecisionConflictError).
OneResponsePerDecision ==
    \A k, l \in Key :
        /\ keys[k].status = "COMPLETED" /\ keys[l].status = "COMPLETED"
        /\ keys[k].fp[1] = keys[l].fp[1]
        => k = l

\* A key that answers "already being processed" is being processed.
\* Does not hold: README, section 4.
InFlightIsTrue ==
    \A k \in Key : keys[k].status = "PROCESSING" /\ up
        => \E r \in Request : Holds(r, k)
=============================================================================
