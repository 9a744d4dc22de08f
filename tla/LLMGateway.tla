------------------------------ MODULE LLMGateway ------------------------------
(***************************************************************************)
(* Calls of agents to a language model through LLMGateway.invoke           *)
(* (src/llm_gateway/gateway.py): the route of a use case, the prompt from  *)
(* the registry, retries of an unusable structured answer, the fallback    *)
(* model and the telemetry shared by every caller.                         *)
(*                                                                         *)
(* The only await of a call is the provider's answer, so one action is one *)
(* answer with everything the gateway does until it waits again.           *)
(***************************************************************************)
EXTENDS Integers, FiniteSets, Sequences

CONSTANTS
    Callers,      \* coroutines that may be in invoke at the same time
    Route,        \* use case -> [primary, fallback, allowed, retries, group]
    NoModel,      \* no fallback configured
    Texts,        \* contents of a valid prompt file
    MaxCalls,     \* bound: calls of a run
    MaxAnswers,   \* bound: recorded answers of a run
    MaxEdits      \* bound: changes of prompt files

UseCase == DOMAIN Route
Group == {Route[u].group : u \in UseCase}

ASSUME RouteAssumption ==
    /\ UseCase # {}
    /\ \A u \in UseCase :
          /\ Route[u].primary # NoModel /\ Route[u].fallback # Route[u].primary
          /\ Route[u].allowed \in BOOLEAN /\ Route[u].retries \in 0..2
ASSUME TextAssumption == Texts \cap {"unread", "missing", "broken"} = {}
ASSUME BoundsAssumption == MaxCalls \in Nat /\ MaxAnswers \in Nat /\ MaxEdits \in Nat

VARIABLES
    call,         \* the invocation of each caller
    telemetry,    \* GatewayTelemetry._records
    file,         \* the prompt file of a group: a text, "missing" or "broken"
    cache,        \* PromptRegistry._cache
    calls, edits  \* bound counters

vars == <<call, telemetry, file, cache, calls, edits>>

Unread == "unread"
AnyUse == CHOOSE u \in UseCase : TRUE
Idle == [phase |-> "over", trace |-> 0, use |-> AnyUse, structured |-> FALSE,
         candidate |-> 1, tries |-> 1, attempt |-> 0, text |-> Unread, records |-> <<>>,
         outcome |-> "none",
         reported |-> 0]  \* history: tokens the provider said it used

Init ==
    /\ call = [c \in Callers |-> Idle]
    /\ telemetry = <<>>
    /\ file \in [Group -> Texts \cup {"missing", "broken"}]
    /\ cache = [g \in Group |-> Unread]
    /\ calls = 0 /\ edits = 0

-----------------------------------------------------------------------------
(* The start of a call: route, prompt, messages.                           *)

\* Mutant: the file is read for every call.
LoadUncached(g) == file[g]

\* PromptRegistry.load: a cached prompt is served whatever the file says now.
Load(g) == IF cache[g] # Unread THEN cache[g] ELSE file[g]
Candidates(u) ==
    IF Route[u].allowed /\ Route[u].fallback # NoModel
    THEN <<Route[u].primary, Route[u].fallback>> ELSE <<Route[u].primary>>

Reject(c, error) ==
    call' = [call EXCEPT ![c] = [Idle EXCEPT !.trace = calls + 1, !.outcome = error]]

\* invoke up to its first await.  "complete" says that the context holds the
\* fields of the prompt and that agent name and trace id are not blank.
Invoke(c, u, structured, complete) ==
    LET g == Route[u].group IN
    /\ call[c].phase = "over" /\ calls < MaxCalls /\ calls' = calls + 1
    /\ CASE Load(g) = "missing" -> Reject(c, "LookupError") /\ UNCHANGED cache
         [] Load(g) = "broken" -> Reject(c, "ValueError") /\ UNCHANGED cache
         [] OTHER ->
              /\ cache' = [cache EXCEPT ![g] = Load(g)]
              /\ IF complete
                 THEN call' = [call EXCEPT ![c] =
                        [Idle EXCEPT !.phase = "waiting", !.trace = calls + 1, !.use = u,
                                     !.structured = structured, !.attempt = 1, !.text = Load(g)]]
                 ELSE Reject(c, "ValueError")
    /\ UNCHANGED <<telemetry, file, edits>>

\* router.resolve of a use case models.yaml does not name.
InvokeUnknown(c) ==
    /\ call[c].phase = "over" /\ calls < MaxCalls /\ calls' = calls + 1
    /\ Reject(c, "LookupError")
    /\ UNCHANGED <<telemetry, file, cache, edits>>

\* Somebody writes the prompt file of a running process.
EditPrompt(g, text) ==
    /\ edits < MaxEdits /\ edits' = edits + 1
    /\ text # file[g] /\ file' = [file EXCEPT ![g] = text]
    /\ UNCHANGED <<call, telemetry, cache, calls>>

-----------------------------------------------------------------------------
(* The end of an attempt.                                                  *)

\* What acompletion comes back with: an object it parsed itself, content that
\* is (not) what was asked for, no content, an error, or the timeout of wait_for.
\* "malformed" is an error too: acompletion itself raises a ValidationError or a
\* JSONDecodeError, which the gateway takes for output it cannot use.
Answers(structured) ==
    {"valid", "empty", "error", "malformed"}
        \cup (IF structured THEN {"parsed", "invalid"} ELSE {})

\* No answer came back, and with it no usage.
NoAnswer == {"error", "malformed", "timeout"}

Status(answer, fallback) ==
    CASE answer \in {"parsed", "valid"} -> IF fallback THEN "FALLBACK_SUCCESS" ELSE "SUCCESS"
      [] answer \in {"invalid", "malformed"} -> "INVALID_OUTPUT"
      [] OTHER -> "FAILED"

Success == {"SUCCESS", "FALLBACK_SUCCESS"}

\* Mutant: only a usable answer counts its tokens.
TokensOfGood(answer) == IF answer \in {"valid", "parsed"} THEN 1 ELSE 0

\* _response_usage: only an answer carries a usage.
Tokens(answer) == IF answer \in NoAnswer THEN 0 ELSE 1
Record(k, answer) ==
    [trace |-> k.trace, attempt |-> k.attempt, model |-> Candidates(k.use)[k.candidate],
     status |-> Status(answer, k.candidate > 1), tokens |-> Tokens(answer), text |-> k.text,
     group |-> Route[k.use].group]

PerModel(k) == 1 + (IF k.structured THEN Route[k.use].retries ELSE 0)

Return(k, outcome) == [k EXCEPT !.phase = "over", !.outcome = outcome]
Retry(k) == [k EXCEPT !.tries = @ + 1, !.attempt = @ + 1]
FallBack(k) == [k EXCEPT !.candidate = @ + 1, !.tries = 1, !.attempt = @ + 1]

\* The two loops of invoke: only unusable output is asked again, and only of a
\* call that wants a structured answer.
NextModel(k) ==
    IF k.candidate < Len(Candidates(k.use)) THEN FallBack(k) ELSE Return(k, "LLMInvocationError")

\* Mutant: an unusable answer ends the call without the fallback.
ContinueInvalidEnds(k, status) ==
    CASE status \in Success -> Return(k, "answer")
      [] status = "INVALID_OUTPUT" ->
           IF k.tries < PerModel(k) THEN Retry(k) ELSE Return(k, "LLMInvocationError")
      [] OTHER -> NextModel(k)

Continue(k, status) ==
    CASE status \in Success -> Return(k, "answer")
      [] status = "INVALID_OUTPUT" /\ k.tries < PerModel(k) -> Retry(k)
      [] OTHER -> NextModel(k)

\* _attempt from the answer on: the record is written, then the loops go on.
Finish(c, answer) ==
    LET k == call[c]
        r == Record(k, answer)
        told == [k EXCEPT !.records = Append(@, r),
                          !.reported = @ + (IF answer \in NoAnswer THEN 0 ELSE 1)]
    IN /\ k.phase = "waiting" /\ Len(telemetry) < MaxAnswers
       /\ telemetry' = Append(telemetry, r)
       /\ call' = [call EXCEPT ![c] = Continue(told, r.status)]
       /\ UNCHANGED <<file, cache, calls, edits>>

\* wait_for: a provider that says nothing.
Timeout(c) == Finish(c, "timeout")
\* A usage TokenUsage rejects: the handler of that ValidationError reads the
\* usage again, and the second one leaves _attempt before the record.
Unusable(c) ==
    /\ call[c].phase = "waiting"
    /\ call' = [call EXCEPT ![c] = Return(@, "ValueError")]
    /\ UNCHANGED <<telemetry, file, cache, calls, edits>>

\* The caller's task is cancelled: no handler of _attempt catches it.
Cancel(c) ==
    /\ call[c].phase = "waiting"
    /\ call' = [call EXCEPT ![c] = Return(@, "CancelledError")]
    /\ UNCHANGED <<telemetry, file, cache, calls, edits>>

Next ==
    \/ \E c \in Callers :
         \/ \E u \in UseCase, structured, complete \in BOOLEAN : Invoke(c, u, structured, complete)
         \/ InvokeUnknown(c)
         \/ \E answer \in Answers(call[c].structured) : Finish(c, answer)
         \/ Timeout(c)
         \/ Unusable(c)
         \/ Cancel(c)
    \/ \E g \in Group, text \in Texts \cup {"missing", "broken"} : EditPrompt(g, text)

Spec == Init /\ [][Next]_vars

-----------------------------------------------------------------------------
(* Properties.                                                             *)

CallRecord == [trace : 1..MaxCalls, attempt : 1..6,
               model : (UNION {{Route[u].primary, Route[u].fallback} : u \in UseCase}) \ {NoModel},
               status : Success \cup {"INVALID_OUTPUT", "FAILED"}, tokens : 0..1,
               text : Texts, group : Group]

Call == [phase : {"waiting", "over"}, trace : 0..MaxCalls, use : UseCase, structured : BOOLEAN,
         candidate : 1..2, tries : 1..3, attempt : 0..6, text : Texts \cup {Unread},
         records : Seq(CallRecord), reported : 0..6,
         outcome : {"none", "answer", "LLMInvocationError", "LookupError", "ValueError",
                    "CancelledError"}]

\* Types of the variables.
TypeOK ==
    /\ call \in [Callers -> Call]
    /\ telemetry \in Seq(CallRecord)
    /\ file \in [Group -> Texts \cup {"missing", "broken"}]
    /\ cache \in [Group -> Texts \cup {Unread}]
    /\ calls \in 0..MaxCalls /\ edits \in 0..MaxEdits

Governed(k) == k.outcome \in {"answer", "LLMInvocationError"}

\* The records of a call stand in the telemetry once and in order, numbered
\* from 1; a call that the gateway ended itself has one for every attempt.
Recorded(k, t) ==
    LET mine == {j \in DOMAIN t : t[j].trace = k.trace}
    IN  /\ \A i \in DOMAIN k.records : k.records[i].attempt = i
        /\ {t[j] : j \in mine} = {k.records[i] : i \in DOMAIN k.records}
        /\ \A j1, j2 \in mine : j1 < j2 => t[j1].attempt < t[j2].attempt
        /\ Governed(k) => Len(k.records) = k.attempt

\* Nothing follows a success, a model that failed for another reason than its
\* output is not asked again, the fallback follows the primary and is never
\* left for it.
ForCause(k) ==
    LET r == k.records IN
    \A i \in DOMAIN r : \A j \in (i + 1)..Len(r) :
        /\ r[i].status \notin Success
        /\ r[i].model = r[j].model => r[i].status = "INVALID_OUTPUT"
        /\ r[i].model = Route[k.use].fallback => r[j].model = r[i].model

Attempts(k, m) == {i \in DOMAIN k.records : k.records[i].model = m}

\* Every model the route allows was asked, and its last attempt failed
\* outright or used up its retries.
LastResort(k) ==
    LET route == Route[k.use] IN
    k.outcome = "LLMInvocationError" =>
        \A m \in {route.primary} \cup (IF route.allowed THEN {route.fallback} \ {NoModel} ELSE {}) :
            \E last \in Attempts(k, m) :
                /\ \A i \in Attempts(k, m) : i <= last
                /\ \/ k.records[last].status = "FAILED"
                   \/ /\ k.records[last].status = "INVALID_OUTPUT"
                      /\ Cardinality(Attempts(k, m)) =
                            1 + (IF k.structured THEN route.retries ELSE 0)

\* What the provider reported, also with an answer the gateway could not use,
\* is in the records.
Accounted(k) ==
    Governed(k) => k.reported = Cardinality({i \in DOMAIN k.records : k.records[i].tokens = 1})

\* A call tries again exactly as long as its route allows and its failures
\* call for; LLMInvocationError is the last resort.
AttemptsAreDue == \A c \in Callers : ForCause(call[c]) /\ LastResort(call[c])

\* Concurrent callers share one telemetry: it has each call's attempts once, in
\* order, with all that they cost (telemetry.py record).
RecordsAreComplete ==
    TypeOK /\ \A c \in Callers : Recorded(call[c], telemetry) /\ Accounted(call[c])

\* A prompt edited, broken or removed while the process runs changes nothing
\* for it: all attempts of a group were made with the same text (_cache).
PromptIsPinned ==
    \A i, j \in DOMAIN telemetry :
      telemetry[i].group = telemetry[j].group => telemetry[i].text = telemetry[j].text

\* SYSTEM_DESIGN.md:702 of a provider error: "Attempt is accounted and fallback
\* is tried when allowed".  Violated by Unusable.
\* Does not hold: README, section 4.
EveryAttemptAccounted ==
    \A c \in Callers :
      call[c].phase = "over" /\ call[c].outcome # "CancelledError" =>
        Len(call[c].records) = call[c].attempt
=============================================================================
