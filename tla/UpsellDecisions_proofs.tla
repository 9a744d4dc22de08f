----------------------- MODULE UpsellDecisions_proofs -----------------------
(***************************************************************************)
(* Proofs about UpsellDecisions, for every set of decisions, keys,         *)
(* responses and requests and every bound on faults and calls.             *)
(***************************************************************************)
EXTENDS UpsellDecisions, TLAPS

(***************************************************************************)
(* The inductive invariant.  Keys: a key that was ever claimed names a     *)
(* payload.  Work: a request at work owns the claim on its key, for the    *)
(* payload it sent, and has written a row by the time it completes.        *)
(* Answers: a request that was answered OK still knows what it asked.      *)
(* Clean: as long as nothing failed there is no retry, so a row is written *)
(* only by the one request that claimed the key when it was new.           *)
(***************************************************************************)
KeysInv == \A k \in Key : keys[k].status # "NONE" => keys[k].fp \in Decision \X Response

WorkInv ==
    \A r \in Request : pc[r] \in Working =>
        /\ args[r] \in Args
        /\ keys[args[r].key] = [status |-> "PROCESSING", fp |-> args[r].fp]
        /\ pc[r] = "recorded" => served[args[r].key] >= 1

AnswerInv == \A r \in Request : reply[r] = "OK" => args[r] \in Args

CleanInv ==
    faults = 0 =>
        /\ \A k \in Key : /\ served[k] <= 1
                          /\ keys[k].status = "NONE" => served[k] = 0
                          /\ keys[k].status # "FAILED"
        /\ \A r \in Request : /\ pc[r] # "aborting"
                              /\ pc[r] = "recording" => served[args[r].key] = 0

IInv ==
    /\ TypeOK /\ KeysInv /\ WorkInv /\ OneWorkerPerKey
    /\ AnswerInv /\ OkMeansRecorded /\ StatusHasEvent /\ CleanInv

-----------------------------------------------------------------------------
\* The parts of a request.
LEMMA ArgsType ==
    ASSUME NEW a \in Args
    PROVE  /\ a.fp \in Decision \X Response /\ a.key \in Key
           /\ DecisionOf(a) \in Decision /\ ResponseOf(a) \in Response
           /\ a.fp = <<DecisionOf(a), ResponseOf(a)>>
  BY DEF Args, DecisionOf, ResponseOf

\* One coroutine answers, the others stay where they are.
LEMMA AnswerType ==
    ASSUME TypeOK, NEW r \in Request, NEW text \in Reply, Answer(r, text)
    PROVE  /\ pc' \in [Request -> {"idle"} \cup Working]
           /\ reply' \in [Request -> Reply]
           /\ pc'[r] = "idle" /\ reply'[r] = text
           /\ \A s \in Request \ {r} : pc'[s] = pc[s] /\ reply'[s] = reply[s]
  BY DEF TypeOK, Answer

\* One key changes its row, every other key keeps its own.
LEMMA KeyUpdate ==
    ASSUME TypeOK, NEW k \in Key, NEW st \in KeyStatus,
           keys' = [keys EXCEPT ![k].status = st]
    PROVE  /\ keys' \in [Key -> [status : KeyStatus, fp : (Decision \X Response) \cup {None}]]
           /\ keys'[k] = [status |-> st, fp |-> keys[k].fp]
           /\ \A l \in Key \ {k} : keys'[l] = keys[l]
  <1> DEFINE row == [status |-> st, fp |-> keys[k].fp]
  <1>1. /\ keys \in [Key -> [status : KeyStatus, fp : (Decision \X Response) \cup {None}]]
        /\ keys[k] \in [status : KeyStatus, fp : (Decision \X Response) \cup {None}]
    BY DEF TypeOK
  <1>2. row \in [status : KeyStatus, fp : (Decision \X Response) \cup {None}]
    BY <1>1
  <1>3. [keys[k] EXCEPT !.status = st] = row
    BY <1>1
  <1>4. keys' = [keys EXCEPT ![k] = row]
    BY <1>3
  <1> HIDE DEF row
  <1>5. keys' \in [Key -> [status : KeyStatus, fp : (Decision \X Response) \cup {None}]]
    BY <1>1, <1>2, <1>4
  <1>6. keys'[k] = row /\ \A l \in Key \ {k} : keys'[l] = keys[l]
    BY <1>1, <1>4
  <1> QED BY <1>5, <1>6 DEF row

\* The fields of a row, and when two rows are one.
LEMMA KeyRow ==
    ASSUME TypeOK, NEW k \in Key
    PROVE  /\ keys[k].status \in KeyStatus
           /\ keys[k] = [status |-> keys[k].status, fp |-> keys[k].fp]
  BY DEF TypeOK

\* A failure is counted.
LEMMA FaultCounts ==
    ASSUME TypeOK, Fault
    PROVE  faults' \in Nat /\ faults' # 0
  BY BoundAssumption DEF TypeOK, Fault

\* The first state: nothing is offered, claimed or written.
LEMMA InitIInv == Init => IInv
  <1> SUFFICES ASSUME Init PROVE IInv
    OBVIOUS
  <1>1. TypeOK
    <2>1. [status |-> "NONE", fp |-> None]
             \in [status : KeyStatus, fp : (Decision \X Response) \cup {None}]
      BY DEF KeyStatus
    <2>2. "NONE" \in Reply
      BY DEF Reply
    <2> QED BY <2>1, <2>2 DEF TypeOK, Init
  <1>2. KeysInv /\ WorkInv /\ OneWorkerPerKey /\ AnswerInv
    BY DEF Init, KeysInv, WorkInv, OneWorkerPerKey, Holds, AnswerInv, Working
  <1>3. OkMeansRecorded
    BY DEF Init, OkMeansRecorded
  <1>4. StatusHasEvent
    BY NoneAssumption DEF Init, StatusHasEvent, Resolved
  <1>5. CleanInv
    BY DEF Init, CleanInv
  <1> QED BY <1>1, <1>2, <1>3, <1>4, <1>5 DEF IInv

-----------------------------------------------------------------------------
\* Steps that leave the tables alone: each coroutine either stays where it
\* is, or stops working without an OK, or moves on to aborting its claim
\* after a failure.
LEMMA TablesKept ==
    ASSUME IInv, TypeOK', UNCHANGED durable,
           faults' = 0 => faults = 0,
           \A r \in Request :
              \/ pc'[r] = pc[r] /\ args'[r] = args[r] /\ reply'[r] = reply[r]
              \/ pc'[r] = "idle" /\ reply'[r] # "OK"
              \/ /\ pc[r] \in Working /\ pc'[r] = "aborting" /\ faults' # 0
                 /\ args'[r] = args[r] /\ reply'[r] = reply[r]
    PROVE  IInv'
  <1>1. KeysInv'
    BY DEF IInv, KeysInv, durable
  <1>2. WorkInv'
    BY DEF IInv, WorkInv, Working, durable
  <1>3. OneWorkerPerKey'
    BY DEF IInv, OneWorkerPerKey, Holds, Working
  <1>4. AnswerInv' /\ OkMeansRecorded'
    BY DEF IInv, AnswerInv, OkMeansRecorded, Resolved, durable
  <1>5. StatusHasEvent'
    BY DEF IInv, StatusHasEvent, Resolved, durable
  <1>6. CleanInv'
    BY DEF IInv, CleanInv, durable
  <1> QED BY <1>1, <1>2, <1>3, <1>4, <1>5, <1>6 DEF IInv

\* An offer is recorded: a decision that was resolved keeps its response.
LEMMA RecordKeepsIInv ==
    ASSUME IInv, NEW d \in Decision, RecordDecision(d)
    PROVE  IInv' /\ \A e \in Decision : Resolved(e) => decision'[e] = decision[e]
  <1>1. TypeOK'
    BY DEF IInv, TypeOK, RecordDecision
  <1>2. \A e \in Decision : /\ Resolved(e) => decision'[e] = decision[e]
                            /\ Resolved(e)' => decision'[e] = decision[e]
    BY NoneAssumption, PendingAssumption DEF IInv, TypeOK, RecordDecision, Resolved
  <1>3. UNCHANGED <<keys, served, up, pc, args, reply, calls, faults>>
    BY DEF RecordDecision
  <1>4. KeysInv' /\ WorkInv' /\ OneWorkerPerKey' /\ AnswerInv' /\ CleanInv'
    BY <1>3 DEF IInv, KeysInv, WorkInv, OneWorkerPerKey, Holds, AnswerInv, CleanInv
  <1>5. OkMeansRecorded'
    BY <1>2, <1>3, ArgsType DEF IInv, AnswerInv, OkMeansRecorded, Resolved
  <1>6. StatusHasEvent'
    <2>1. \A k \in Key : keys[k].status = "COMPLETED" => keys[k].fp[1] \in Decision
      BY DEF IInv, KeysInv
    <2> QED BY <1>2, <1>3, <2>1 DEF IInv, StatusHasEvent, Resolved
  <1> QED BY <1>1, <1>2, <1>4, <1>5, <1>6 DEF IInv

\* What the arrival of a request changes.
LEMMA ArrivesType ==
    ASSUME TypeOK, NEW r \in Request, NEW a \in Args, Arrives(r, a)
    PROVE  /\ args' \in [Request -> Args \cup {None}] /\ args'[r] = a
           /\ \A s \in Request \ {r} : args'[s] = args[s]
           /\ calls' \in [Request -> Nat]
           /\ UNCHANGED <<decision, served, up, faults>>
  BY DEF TypeOK, Arrives

\* A claim that is answered at once: only a completed key answers OK.
LEMMA AnswerKeepsIInv ==
    ASSUME IInv, NEW r \in Request, NEW a \in Args, NEW text \in Reply,
           Arrives(r, a), Answer(r, text), UNCHANGED keys,
           text = "OK" => SameRequest(a) /\ keys[a.key].status = "COMPLETED"
    PROVE  IInv'
  <1>a. TypeOK
    BY DEF IInv
  <1>1. TypeOK'
    BY <1>a, ArrivesType, AnswerType DEF TypeOK
  <1>2. CASE text # "OK"
    <2>1. UNCHANGED durable /\ faults' = faults
      BY DEF Arrives, durable
    <2>2. \A s \in Request :
             \/ pc'[s] = pc[s] /\ args'[s] = args[s] /\ reply'[s] = reply[s]
             \/ pc'[s] = "idle" /\ reply'[s] # "OK"
      BY <1>a, <1>2, ArrivesType, AnswerType
    <2> QED BY <1>1, <2>1, <2>2, TablesKept
  <1>3. CASE text = "OK"
    <2>1. /\ a.key \in Key
          /\ keys[a.key] = [status |-> "COMPLETED", fp |-> a.fp]
      BY <1>a, <1>3, ArgsType, KeyRow DEF SameRequest
    <2>2. Resolved(DecisionOf(a)) /\ served[a.key] >= 1
      BY <2>1 DEF IInv, StatusHasEvent, DecisionOf
    <2>3. UNCHANGED <<decision, keys, served, faults>>
      BY DEF Arrives
    <2>4. /\ pc'[r] = "idle" /\ reply'[r] = "OK" /\ args'[r] = a
          /\ \A s \in Request \ {r} : pc'[s] = pc[s] /\ args'[s] = args[s] /\ reply'[s] = reply[s]
      BY <1>a, <1>3, ArrivesType, AnswerType
    <2>5. KeysInv' /\ StatusHasEvent'
      BY <2>3 DEF IInv, KeysInv, StatusHasEvent, Resolved
    <2>6. WorkInv'
      BY <2>3, <2>4 DEF IInv, WorkInv, Working
    <2>7. OneWorkerPerKey'
      BY <2>4 DEF IInv, OneWorkerPerKey, Holds, Working
    <2>8. AnswerInv'
      BY <2>4 DEF IInv, AnswerInv
    <2>9. OkMeansRecorded'
      BY <2>1, <2>2, <2>3, <2>4 DEF IInv, OkMeansRecorded, Resolved
    <2>10. CleanInv'
      BY <2>3, <2>4 DEF IInv, CleanInv
    <2> QED BY <1>1, <2>5, <2>6, <2>7, <2>8, <2>9, <2>10 DEF IInv
  <1> QED BY <1>2, <1>3

\* A claim that starts work takes a key that nobody works on.
LEMMA StartKeepsIInv ==
    ASSUME IInv, NEW r \in Request, NEW a \in Args, Arrives(r, a), StartWork(r, a),
           \/ keys[a.key].status = "NONE"
           \/ keys[a.key].status = "FAILED" /\ SameRequest(a)
    PROVE  IInv'
  <1> DEFINE row == [status |-> "PROCESSING", fp |-> a.fp]
  <1>a. TypeOK /\ a.key \in Key /\ a.fp \in Decision \X Response
    BY ArgsType DEF IInv
  <1>b. /\ keys' \in [Key -> [status : KeyStatus, fp : (Decision \X Response) \cup {None}]]
        /\ keys'[a.key] = row
        /\ \A k \in Key \ {a.key} : keys'[k] = keys[k]
    <2>1. row \in [status : KeyStatus, fp : (Decision \X Response) \cup {None}]
      BY <1>a DEF KeyStatus
    <2>2. keys' = [keys EXCEPT ![a.key] = row]
      BY DEF StartWork
    <2> HIDE DEF row
    <2> QED BY <1>a, <2>1, <2>2 DEF TypeOK
  <1>c. /\ pc' \in [Request -> {"idle"} \cup Working] /\ pc'[r] = "recording"
        /\ reply' \in [Request -> Reply] /\ reply'[r] = "NONE"
        /\ \A s \in Request \ {r} : pc'[s] = pc[s] /\ reply'[s] = reply[s]
    BY <1>a DEF StartWork, TypeOK, Working, Reply
  <1>d. /\ args' \in [Request -> Args \cup {None}] /\ args'[r] = a
        /\ \A s \in Request \ {r} : args'[s] = args[s]
        /\ calls' \in [Request -> Nat]
        /\ UNCHANGED <<decision, served, up, faults>>
    BY <1>a, ArrivesType
  <1>e. keys[a.key].status \notin {"PROCESSING", "COMPLETED"}
    OBVIOUS
  <1>f. \A s \in Request : pc[s] \in Working => args[s] \in Args /\ args[s].key # a.key
    <2> SUFFICES ASSUME NEW s \in Request, pc[s] \in Working
                 PROVE  args[s] \in Args /\ args[s].key # a.key
      OBVIOUS
    <2>1. /\ args[s] \in Args
          /\ keys[args[s].key] = [status |-> "PROCESSING", fp |-> args[s].fp]
      BY DEF IInv, WorkInv
    <2>2. keys[args[s].key].status = "PROCESSING"
      BY <2>1
    <2> QED BY <1>e, <2>1, <2>2
  <1>1. TypeOK'
    BY <1>a, <1>b, <1>c, <1>d DEF TypeOK
  <1>2. KeysInv'
    BY <1>a, <1>b DEF IInv, KeysInv
  <1>3. WorkInv'
    <2>1. pc'[r] # "recorded" /\ args'[r] \in Args /\ keys'[args'[r].key] = row /\ args'[r].fp = a.fp
      BY <1>b, <1>c, <1>d
    <2>2. ASSUME NEW s \in Request \ {r}, pc'[s] \in Working
          PROVE  /\ args'[s] \in Args
                 /\ keys'[args'[s].key] = [status |-> "PROCESSING", fp |-> args'[s].fp]
                 /\ pc'[s] = "recorded" => served'[args'[s].key] >= 1
      <3>1. pc[s] \in Working /\ pc'[s] = pc[s] /\ args'[s] = args[s]
        BY <1>c, <1>d, <2>2
      <3>2. args[s].key \in Key \ {a.key}
        BY <1>f, <3>1, ArgsType
      <3>3. keys'[args[s].key] = keys[args[s].key] /\ served' = served
        BY <1>b, <1>d, <3>2
      <3> QED BY <3>1, <3>3 DEF IInv, WorkInv
    <2> QED BY <2>1, <2>2 DEF WorkInv
  <1>4. OneWorkerPerKey'
    BY <1>c, <1>d, <1>f DEF IInv, OneWorkerPerKey, Holds
  <1>5. AnswerInv'
    BY <1>c, <1>d DEF IInv, AnswerInv
  <1>6. OkMeansRecorded'
    <2>1. ASSUME NEW s \in Request, reply'[s] = "OK"
          PROVE  /\ keys'[args'[s].key] = [status |-> "COMPLETED", fp |-> args'[s].fp]
                 /\ served'[args'[s].key] >= 1
                 /\ decision'[DecisionOf(args'[s])] \in Response
      <3>1. args'[s] = args[s] /\ reply[s] = "OK" /\ args[s] \in Args
        BY <1>c, <1>d, <2>1 DEF IInv, AnswerInv
      <3>2. /\ keys[args[s].key] = [status |-> "COMPLETED", fp |-> args[s].fp]
            /\ served[args[s].key] >= 1
            /\ Resolved(DecisionOf(args[s]))
        BY <3>1 DEF IInv, OkMeansRecorded
      <3>3. args[s].key \in Key \ {a.key}
        BY <1>e, <3>1, <3>2, ArgsType
      <3> QED BY <1>b, <1>d, <3>1, <3>2, <3>3 DEF Resolved
    <2> QED BY <2>1 DEF OkMeansRecorded, Resolved
  <1>7. StatusHasEvent'
    <2>1. ASSUME NEW d \in Decision, Resolved(d)'
          PROVE  \E k \in Key : keys'[k] = [status |-> "COMPLETED", fp |-> <<d, decision'[d]>>]
      <3>1. PICK k \in Key : keys[k] = [status |-> "COMPLETED", fp |-> <<d, decision[d]>>]
        BY <1>d, <2>1 DEF IInv, StatusHasEvent, Resolved
      <3>2. k # a.key
        BY <1>e, <3>1
      <3> QED BY <1>b, <1>d, <3>1, <3>2
    <2>2. ASSUME NEW k \in Key, keys'[k].status = "COMPLETED"
          PROVE  decision'[keys'[k].fp[1]] \in Response /\ served'[k] >= 1
      <3>1. k # a.key
        BY <1>b, <2>2
      <3> QED BY <1>b, <1>d, <2>2, <3>1 DEF IInv, StatusHasEvent, Resolved
    <2> QED BY <2>1, <2>2 DEF StatusHasEvent, Resolved
  <1>8. CleanInv'
    <2> SUFFICES ASSUME faults = 0 PROVE CleanInv'
      BY <1>d DEF CleanInv
    <2>1. keys[a.key].status = "NONE" /\ served[a.key] = 0
      BY <1>a DEF IInv, CleanInv
    <2>2. \A k \in Key : /\ served'[k] <= 1
                         /\ keys'[k].status = "NONE" => served'[k] = 0
                         /\ keys'[k].status # "FAILED"
      BY <1>b, <1>d DEF IInv, CleanInv
    <2>3. \A s \in Request : /\ pc'[s] # "aborting"
                             /\ pc'[s] = "recording" => served'[args'[s].key] = 0
      BY <1>c, <1>d, <2>1 DEF IInv, CleanInv
    <2> QED BY <2>2, <2>3 DEF CleanInv
  <1> QED BY <1>1, <1>2, <1>3, <1>4, <1>5, <1>6, <1>7, <1>8 DEF IInv

\* What a request at work owns.
LEMMA WorkerOwns ==
    ASSUME IInv, NEW r \in Request, pc[r] \in Working
    PROVE  /\ args[r] \in Args /\ args[r].key \in Key
           /\ keys[args[r].key].status = "PROCESSING"
           /\ keys[args[r].key].fp = args[r].fp
           /\ \A s \in Request \ {r} : pc[s] \in Working => args[s].key # args[r].key
  <1>1. /\ args[r] \in Args
        /\ keys[args[r].key] = [status |-> "PROCESSING", fp |-> args[r].fp]
    BY DEF IInv, WorkInv
  <1>2. args[r].key \in Key
    BY <1>1, ArgsType
  <1>3. \A s \in Request \ {r} : pc[s] \in Working => args[s].key # args[r].key
    BY <1>2 DEF IInv, OneWorkerPerKey, Holds
  <1> QED BY <1>1, <1>2, <1>3

\* The tool writes its row: no other request works on that key.
LEMMA ToolKeepsIInv ==
    ASSUME IInv, NEW r \in Request, ToolRecords(r)
    PROVE  IInv'
  <1>a. /\ TypeOK /\ pc[r] = "recording" /\ pc[r] \in Working
        /\ UNCHANGED <<decision, keys, up, args, reply, calls, faults>>
    BY DEF IInv, ToolRecords, Working
  <1>b. /\ args[r] \in Args /\ args[r].key \in Key
        /\ \A s \in Request \ {r} : pc[s] \in Working => args[s].key # args[r].key
    BY <1>a, WorkerOwns
  <1>c. /\ served' \in [Key -> Nat] /\ served'[args[r].key] = served[args[r].key] + 1
        /\ \A k \in Key \ {args[r].key} : served'[k] = served[k]
        /\ \A k \in Key : served'[k] >= served[k]
    BY <1>a, <1>b DEF ToolRecords, TypeOK
  <1>d. /\ pc' \in [Request -> {"idle"} \cup Working] /\ pc'[r] = "recorded"
        /\ \A s \in Request \ {r} : pc'[s] = pc[s]
    BY <1>a DEF ToolRecords, TypeOK, Working
  <1>e. \A s \in Request : pc'[s] \in Working => pc[s] \in Working
    BY <1>a, <1>d
  <1>f. \A k \in Key : served[k] \in Nat /\ served'[k] \in Nat
    BY <1>a, <1>c DEF TypeOK
  <1>1. TypeOK' /\ KeysInv' /\ AnswerInv'
    BY <1>a, <1>c, <1>d DEF IInv, TypeOK, KeysInv, AnswerInv
  <1>2. WorkInv'
    <2>1. served'[args[r].key] >= 1
      BY <1>b, <1>c, <1>f
    <2>2. \A s \in Request \ {r} : pc[s] = "recorded" => served'[args[s].key] >= 1
      <3> SUFFICES ASSUME NEW s \in Request \ {r}, pc[s] = "recorded"
                   PROVE  served'[args[s].key] >= 1
        OBVIOUS
      <3>1. args[s] \in Args /\ served[args[s].key] >= 1
        BY DEF IInv, WorkInv, Working
      <3>2. args[s].key \in Key
        BY <3>1, ArgsType
      <3> QED BY <1>c, <1>f, <3>1, <3>2
    <2> QED BY <1>a, <1>d, <1>e, <2>1, <2>2 DEF IInv, WorkInv
  <1>3. OneWorkerPerKey'
    BY <1>a, <1>e DEF IInv, OneWorkerPerKey, Holds
  <1>4. OkMeansRecorded'
    <2>1. ASSUME NEW s \in Request, reply[s] = "OK"
          PROVE  /\ keys[args[s].key] = [status |-> "COMPLETED", fp |-> args[s].fp]
                 /\ served'[args[s].key] >= 1
                 /\ decision[DecisionOf(args[s])] \in Response
      <3>1. args[s].key \in Key
        BY <2>1, ArgsType DEF IInv, AnswerInv
      <3>2. /\ keys[args[s].key] = [status |-> "COMPLETED", fp |-> args[s].fp]
            /\ served[args[s].key] >= 1
            /\ decision[DecisionOf(args[s])] \in Response
        BY <2>1 DEF IInv, OkMeansRecorded, Resolved
      <3> QED BY <1>c, <1>f, <3>1, <3>2
    <2> QED BY <1>a, <2>1 DEF OkMeansRecorded, Resolved
  <1>5. StatusHasEvent'
    <2>1. \A k \in Key : served[k] >= 1 => served'[k] >= 1
      BY <1>c, <1>f
    <2> QED BY <1>a, <2>1 DEF IInv, StatusHasEvent, Resolved
  <1>6. CleanInv'
    <2> SUFFICES ASSUME faults = 0 PROVE CleanInv'
      BY <1>a DEF CleanInv
    <2>1. served[args[r].key] = 0 /\ keys[args[r].key].status = "PROCESSING"
      BY <1>a, WorkerOwns DEF IInv, CleanInv
    <2>2. \A k \in Key : /\ served'[k] <= 1
                         /\ keys[k].status = "NONE" => served'[k] = 0
                         /\ keys[k].status # "FAILED"
      BY <1>b, <1>c, <2>1 DEF IInv, CleanInv
    <2>3. ASSUME NEW s \in Request \ {r}, pc[s] = "recording"
          PROVE  served'[args[s].key] = 0
      <3>1. pc[s] \in Working
        BY <2>3 DEF Working
      <3>2. args[s].key \in Key \ {args[r].key}
        BY <1>b, <3>1, WorkerOwns
      <3>3. served[args[s].key] = 0
        BY <2>3 DEF IInv, CleanInv
      <3> QED BY <1>c, <3>2, <3>3
    <2>4. \A s \in Request : pc'[s] # "aborting"
      BY <1>d DEF IInv, CleanInv
    <2> QED BY <1>a, <1>d, <2>2, <2>3, <2>4 DEF CleanInv
  <1> QED BY <1>1, <1>2, <1>3, <1>4, <1>5, <1>6 DEF IInv

\* A worker gives its claim back, as COMPLETED or as FAILED, and answers:
\* what it leaves of keys, of workers and of the other requests' answers.
LEMMA WorkerEnds ==
    ASSUME IInv, NEW r \in Request, pc[r] \in Working,
           NEW st \in {"COMPLETED", "FAILED"}, NEW text \in Reply,
           keys' = [keys EXCEPT ![args[r].key].status = st], Answer(r, text),
           UNCHANGED <<served, args>>,
           \A d \in Decision : Resolved(d) => Resolved(d)'
    PROVE  /\ keys' \in [Key -> [status : KeyStatus, fp : (Decision \X Response) \cup {None}]]
           /\ keys'[args[r].key] = [status |-> st, fp |-> args[r].fp]
           /\ \A k \in Key \ {args[r].key} : keys'[k] = keys[k]
           /\ KeysInv' /\ WorkInv' /\ OneWorkerPerKey'
           /\ \A s \in Request \ {r} : reply'[s] = "OK" =>
                 /\ keys'[args[s].key] = [status |-> "COMPLETED", fp |-> args[s].fp]
                 /\ served[args[s].key] >= 1
                 /\ decision'[DecisionOf(args[s])] \in Response
  <1>a. TypeOK /\ st \in KeyStatus
    BY DEF IInv, KeyStatus
  <1>b. /\ args[r] \in Args /\ args[r].key \in Key
        /\ keys[args[r].key].status = "PROCESSING"
        /\ keys[args[r].key].fp = args[r].fp
        /\ \A s \in Request \ {r} : pc[s] \in Working => args[s].key # args[r].key
    BY WorkerOwns
  <1>1. /\ keys' \in [Key -> [status : KeyStatus, fp : (Decision \X Response) \cup {None}]]
        /\ keys'[args[r].key] = [status |-> st, fp |-> args[r].fp]
        /\ \A k \in Key \ {args[r].key} : keys'[k] = keys[k]
    <2> DEFINE k == args[r].key
    <2>1. k \in Key /\ keys[k].fp = args[r].fp /\ keys' = [keys EXCEPT ![k].status = st]
      BY <1>b
    <2> HIDE DEF k
    <2>2. /\ keys' \in [Key -> [status : KeyStatus, fp : (Decision \X Response) \cup {None}]]
          /\ keys'[k] = [status |-> st, fp |-> keys[k].fp]
          /\ \A l \in Key \ {k} : keys'[l] = keys[l]
      BY <1>a, <2>1, KeyUpdate
    <2> QED BY <2>1, <2>2 DEF k
  <1>2. /\ pc'[r] = "idle" /\ pc'[r] \notin Working
        /\ \A s \in Request \ {r} : pc'[s] = pc[s] /\ reply'[s] = reply[s]
    BY <1>a, AnswerType DEF Working
  <1>3. KeysInv'
    BY <1>1, <1>b, ArgsType DEF IInv, KeysInv
  <1>4. WorkInv'
    <2>1. ASSUME NEW s \in Request \ {r}, pc[s] \in Working
          PROVE  keys'[args[s].key] = keys[args[s].key]
      BY <1>1, <1>b, <2>1, WorkerOwns
    <2> QED BY <1>2, <2>1 DEF IInv, WorkInv
  <1>5. OneWorkerPerKey'
    BY <1>2 DEF IInv, OneWorkerPerKey, Holds
  <1>6. ASSUME NEW s \in Request \ {r}, reply'[s] = "OK"
        PROVE  /\ keys'[args[s].key] = [status |-> "COMPLETED", fp |-> args[s].fp]
               /\ served[args[s].key] >= 1
               /\ decision'[DecisionOf(args[s])] \in Response
    <2>1. reply[s] = "OK" /\ args[s] \in Args
      BY <1>2, <1>6 DEF IInv, AnswerInv
    <2>2. /\ keys[args[s].key] = [status |-> "COMPLETED", fp |-> args[s].fp]
          /\ served[args[s].key] >= 1
          /\ Resolved(DecisionOf(args[s]))
      BY <2>1 DEF IInv, OkMeansRecorded
    <2>3. args[s].key \in Key \ {args[r].key} /\ DecisionOf(args[s]) \in Decision
      BY <1>b, <2>1, <2>2, ArgsType
    <2> QED BY <1>1, <2>2, <2>3 DEF Resolved
  <1> QED BY <1>1, <1>3, <1>4, <1>5, <1>6

\* The response completes: the key and the decision are written together.
LEMMA CompleteKeepsIInv ==
    ASSUME IInv, NEW r \in Request, Complete(r)
    PROVE  /\ IInv'
           /\ \A k \in Key : keys[k].status = "COMPLETED" => keys'[k] = keys[k]
           /\ \A d \in Decision : Resolved(d) => Resolved(d)'
  <1> DEFINE a == args[r]
             d == DecisionOf(a)
  <1>a. /\ TypeOK /\ pc[r] = "recorded" /\ pc[r] \in Working
        /\ keys' = [keys EXCEPT ![a.key].status = "COMPLETED"]
        /\ decision' = [decision EXCEPT ![d] = ResponseOf(a)]
        /\ Answer(r, "OK")
        /\ UNCHANGED <<served, up, args, calls, faults>>
    BY DEF IInv, Complete, Working
  <1>b. /\ a \in Args /\ a.key \in Key /\ keys[a.key].status = "PROCESSING"
        /\ served[a.key] >= 1
        /\ d \in Decision /\ ResponseOf(a) \in Response /\ a.fp = <<d, ResponseOf(a)>>
    <2>1. a \in Args /\ a.key \in Key /\ keys[a.key].status = "PROCESSING"
      BY <1>a, WorkerOwns
    <2>2. served[a.key] >= 1
      BY <1>a DEF IInv, WorkInv
    <2> QED BY <2>1, <2>2, ArgsType
  <1>c. /\ decision' \in [Decision -> Response \cup {None, "PENDING"}]
        /\ decision'[d] = ResponseOf(a)
        /\ \A e \in Decision \ {d} : decision'[e] = decision[e]
    BY <1>a, <1>b DEF TypeOK
  <1>d. \A e \in Decision : Resolved(e) => Resolved(e)'
    BY <1>b, <1>c DEF Resolved
  <1>e. "OK" \in Reply
    BY DEF Reply
  <1>f. /\ pc' \in [Request -> {"idle"} \cup Working] /\ reply' \in [Request -> Reply]
        /\ pc'[r] = "idle" /\ reply'[r] = "OK"
        /\ \A s \in Request \ {r} : pc'[s] = pc[s] /\ reply'[s] = reply[s]
    BY <1>a, <1>e, AnswerType
  <1>g. /\ keys' \in [Key -> [status : KeyStatus, fp : (Decision \X Response) \cup {None}]]
        /\ keys'[a.key] = [status |-> "COMPLETED", fp |-> a.fp]
        /\ \A k \in Key \ {a.key} : keys'[k] = keys[k]
        /\ KeysInv' /\ WorkInv' /\ OneWorkerPerKey'
        /\ \A s \in Request \ {r} : reply'[s] = "OK" =>
              /\ keys'[args[s].key] = [status |-> "COMPLETED", fp |-> args[s].fp]
              /\ served[args[s].key] >= 1
              /\ decision'[DecisionOf(args[s])] \in Response
    BY <1>a, <1>d, <1>e, WorkerEnds
  <1>1. TypeOK'
    BY <1>a, <1>c, <1>f, <1>g DEF TypeOK
  <1>2. AnswerInv'
    BY <1>a, <1>b, <1>f DEF IInv, AnswerInv
  <1>3. OkMeansRecorded'
    <2>1. /\ keys'[args[r].key] = [status |-> "COMPLETED", fp |-> args[r].fp]
          /\ served[args[r].key] >= 1
          /\ decision'[DecisionOf(args[r])] \in Response
      BY <1>b, <1>c, <1>g
    <2>2. \A s \in Request : reply'[s] = "OK" =>
             /\ keys'[args[s].key] = [status |-> "COMPLETED", fp |-> args[s].fp]
             /\ served[args[s].key] >= 1
             /\ decision'[DecisionOf(args[s])] \in Response
      BY <1>g, <2>1
    <2> QED BY <1>a, <2>2 DEF OkMeansRecorded, Resolved
  <1>4. StatusHasEvent'
    <2>1. ASSUME NEW e \in Decision, decision'[e] \in Response
          PROVE  \E k \in Key : keys'[k] = [status |-> "COMPLETED", fp |-> <<e, decision'[e]>>]
      <3>1. CASE e = d
        BY <1>b, <1>c, <1>g, <3>1
      <3>2. CASE e # d
        <4>1. decision'[e] = decision[e]
          BY <1>c, <3>2
        <4>2. PICK k \in Key : keys[k] = [status |-> "COMPLETED", fp |-> <<e, decision[e]>>]
          BY <2>1, <4>1 DEF IInv, StatusHasEvent, Resolved
        <4>3. k # a.key
          BY <1>b, <4>2
        <4> QED BY <1>g, <4>1, <4>2, <4>3
      <3> QED BY <3>1, <3>2
    <2>2. ASSUME NEW k \in Key, keys'[k].status = "COMPLETED"
          PROVE  decision'[keys'[k].fp[1]] \in Response /\ served'[k] >= 1
      <3>1. CASE k = a.key
        BY <1>a, <1>b, <1>c, <1>g, <3>1
      <3>2. CASE k # a.key
        <4>1. keys'[k] = keys[k] /\ served' = served
          BY <1>a, <1>g, <3>2
        <4>2. keys[k].fp[1] \in Decision /\ Resolved(keys[k].fp[1]) /\ served[k] >= 1
          BY <2>2, <4>1 DEF IInv, KeysInv, StatusHasEvent
        <4> QED BY <1>d, <4>1, <4>2 DEF Resolved
      <3> QED BY <3>1, <3>2
    <2> QED BY <2>1, <2>2 DEF StatusHasEvent, Resolved
  <1>5. CleanInv'
    BY <1>a, <1>f, <1>g DEF IInv, CleanInv
  <1>6. \A k \in Key : keys[k].status = "COMPLETED" => keys'[k] = keys[k]
    BY <1>b, <1>g
  <1> QED BY <1>1, <1>2, <1>3, <1>4, <1>5, <1>6, <1>d, <1>g DEF IInv

\* The claim is aborted: there was a failure, and the key may be retried.
LEMMA AbortKeepsIInv ==
    ASSUME IInv, NEW r \in Request, Abort(r)
    PROVE  /\ IInv'
           /\ \A k \in Key : keys[k].status = "COMPLETED" => keys'[k] = keys[k]
  <1> DEFINE k == args[r].key
  <1>a. /\ TypeOK /\ pc[r] = "aborting" /\ pc[r] \in Working
        /\ keys' = [keys EXCEPT ![k].status = IF @ = "PROCESSING" THEN "FAILED" ELSE @]
        /\ Answer(r, "ERROR")
        /\ UNCHANGED <<decision, served, up, args, calls, faults>>
    BY DEF IInv, Abort, Working
  <1>b. k \in Key /\ keys[k].status = "PROCESSING"
    BY <1>a, WorkerOwns
  <1>c. keys' = [keys EXCEPT ![k].status = "FAILED"]
    BY <1>a, <1>b
  <1>d. "ERROR" \in Reply
    BY DEF Reply
  <1>e. /\ pc' \in [Request -> {"idle"} \cup Working] /\ reply' \in [Request -> Reply]
        /\ pc'[r] = "idle" /\ reply'[r] = "ERROR"
        /\ \A s \in Request \ {r} : pc'[s] = pc[s] /\ reply'[s] = reply[s]
    BY <1>a, <1>d, AnswerType
  <1>f. \A d \in Decision : Resolved(d) => Resolved(d)'
    BY <1>a DEF Resolved
  <1>g. /\ keys' \in [Key -> [status : KeyStatus, fp : (Decision \X Response) \cup {None}]]
        /\ keys'[k] = [status |-> "FAILED", fp |-> args[r].fp]
        /\ \A l \in Key \ {k} : keys'[l] = keys[l]
        /\ KeysInv' /\ WorkInv' /\ OneWorkerPerKey'
        /\ \A s \in Request \ {r} : reply'[s] = "OK" =>
              /\ keys'[args[s].key] = [status |-> "COMPLETED", fp |-> args[s].fp]
              /\ served[args[s].key] >= 1
              /\ decision'[DecisionOf(args[s])] \in Response
    BY <1>a, <1>c, <1>d, <1>f, WorkerEnds
  <1>1. TypeOK'
    BY <1>a, <1>e, <1>g DEF TypeOK
  <1>2. AnswerInv' /\ OkMeansRecorded'
    BY <1>a, <1>e, <1>g DEF IInv, AnswerInv, OkMeansRecorded, Resolved
  <1>3. StatusHasEvent'
    <2>1. ASSUME NEW d \in Decision, decision[d] \in Response
          PROVE  \E l \in Key : keys'[l] = [status |-> "COMPLETED", fp |-> <<d, decision[d]>>]
      <3>1. PICK l \in Key : keys[l] = [status |-> "COMPLETED", fp |-> <<d, decision[d]>>]
        BY <2>1 DEF IInv, StatusHasEvent, Resolved
      <3>2. l # k
        BY <1>b, <3>1
      <3> QED BY <1>g, <3>1, <3>2
    <2>2. ASSUME NEW l \in Key, keys'[l].status = "COMPLETED"
          PROVE  decision[keys'[l].fp[1]] \in Response /\ served[l] >= 1
      <3>1. l # k
        BY <1>g, <2>2
      <3>2. keys'[l] = keys[l]
        BY <1>g, <3>1
      <3> QED BY <2>2, <3>2 DEF IInv, StatusHasEvent, Resolved
    <2> QED BY <1>a, <2>1, <2>2 DEF StatusHasEvent, Resolved
  <1>4. CleanInv'
    BY <1>a DEF IInv, CleanInv
  <1>5. \A l \in Key : keys[l].status = "COMPLETED" => keys'[l] = keys[l]
    BY <1>b, <1>g
  <1> QED BY <1>1, <1>2, <1>3, <1>4, <1>5, <1>g DEF IInv

-----------------------------------------------------------------------------
\* What every step keeps: the invariant, every completed key as it is, and
\* every resolved decision resolved.
LEMMA NextKeeps ==
    ASSUME IInv, [Next]_vars
    PROVE  /\ IInv'
           /\ \A k \in Key : keys[k].status = "COMPLETED" => keys'[k] = keys[k]
           /\ \A d \in Decision : Resolved(d) => Resolved(d)'
  <1>a. TypeOK
    BY DEF IInv
  <1>1. ASSUME NEW d \in Decision, RecordDecision(d)
        PROVE  /\ IInv' /\ keys' = keys
               /\ \A e \in Decision : Resolved(e) => Resolved(e)'
    BY <1>1, RecordKeepsIInv DEF RecordDecision, Resolved
  <1>2. ASSUME NEW r \in Request, NEW a \in Args, Claim(r, a)
        PROVE  /\ IInv' /\ decision' = decision
               /\ \A k \in Key : keys[k].status = "COMPLETED" => keys'[k] = keys[k]
    <2>a. {"NOT_FOUND", "KEY_REUSED", "OK", "IN_FLIGHT", "RESOLVED"} \subseteq Reply
      BY DEF Reply
    <2>b. decision' = decision
      BY <1>2 DEF Claim, ClaimNotFound, ClaimKeyReused, ClaimReplay, ClaimInFlight,
                  ClaimRetry, ClaimResolved, ClaimNew, Arrives
    <2>1. CASE ClaimNotFound(r, a)
      BY <2>1, <2>a, <2>b, AnswerKeepsIInv DEF ClaimNotFound
    <2>2. CASE ClaimKeyReused(r, a)
      BY <2>2, <2>a, <2>b, AnswerKeepsIInv DEF ClaimKeyReused
    <2>3. CASE ClaimReplay(r, a)
      BY <2>3, <2>a, <2>b, AnswerKeepsIInv DEF ClaimReplay
    <2>4. CASE ClaimInFlight(r, a)
      BY <2>4, <2>a, <2>b, AnswerKeepsIInv DEF ClaimInFlight
    <2>5. CASE ClaimResolved(r, a)
      BY <2>5, <2>a, <2>b, AnswerKeepsIInv DEF ClaimResolved
    <2>6. ASSUME StartWork(r, a), keys[a.key].status \in {"NONE", "FAILED"}
          PROVE  \A k \in Key : keys[k].status = "COMPLETED" => keys'[k] = keys[k]
      BY <1>a, <2>6 DEF StartWork, TypeOK
    <2>7. CASE ClaimRetry(r, a)
      BY <2>7, <2>6, <2>b, StartKeepsIInv DEF ClaimRetry
    <2>8. CASE ClaimNew(r, a)
      BY <2>8, <2>6, <2>b, StartKeepsIInv DEF ClaimNew
    <2> QED BY <1>2, <2>1, <2>2, <2>3, <2>4, <2>5, <2>7, <2>8 DEF Claim
  <1>3. ASSUME NEW r \in Request, Work(r)
        PROVE  /\ IInv'
               /\ \A k \in Key : keys[k].status = "COMPLETED" => keys'[k] = keys[k]
               /\ \A d \in Decision : Resolved(d) => Resolved(d)'
    <2>1. CASE ToolRecords(r)
      BY <2>1, ToolKeepsIInv DEF ToolRecords, Resolved
    <2>2. CASE Complete(r)
      BY <2>2, CompleteKeepsIInv
    <2>3. CASE Abort(r)
      BY <2>3, AbortKeepsIInv DEF Abort, Resolved
    <2> QED BY <1>3, <2>1, <2>2, <2>3 DEF Work
  <1>4. ASSUME NEW r \in Request, WorkFails(r)
        PROVE  IInv' /\ UNCHANGED durable
    <2>a. /\ Fault /\ UNCHANGED durable /\ args' = args /\ up' = up /\ calls' = calls
          /\ faults' \in Nat /\ faults' # 0
      BY <1>4, <1>a, FaultCounts DEF WorkFails, ToolFails, CompleteFails, AbortFails
    <2>1. CASE ToolFails(r) \/ CompleteFails(r)
      <3>1. /\ pc[r] \in Working /\ pc' = [pc EXCEPT ![r] = "aborting"] /\ reply' = reply
        BY <2>1 DEF ToolFails, CompleteFails, Working
      <3>2. TypeOK'
        BY <1>a, <2>a, <3>1 DEF TypeOK, durable, Working
      <3>3. \A s \in Request :
               \/ pc'[s] = pc[s] /\ args'[s] = args[s] /\ reply'[s] = reply[s]
               \/ /\ pc[s] \in Working /\ pc'[s] = "aborting" /\ faults' # 0
                  /\ args'[s] = args[s] /\ reply'[s] = reply[s]
        BY <1>a, <2>a, <3>1 DEF TypeOK
      <3> QED BY <2>a, <3>2, <3>3, TablesKept
    <2>2. CASE AbortFails(r)
      <3>1. Answer(r, "ERROR") /\ "ERROR" \in Reply
        BY <2>2 DEF AbortFails, Reply
      <3>2. TypeOK'
        BY <1>a, <2>a, <3>1, AnswerType DEF TypeOK, durable
      <3>3. \A s \in Request :
               \/ pc'[s] = pc[s] /\ args'[s] = args[s] /\ reply'[s] = reply[s]
               \/ pc'[s] = "idle" /\ reply'[s] # "OK"
        BY <1>a, <2>a, <3>1, AnswerType
      <3> QED BY <2>a, <3>2, <3>3, TablesKept
    <2> QED BY <1>4, <2>a, <2>1, <2>2 DEF WorkFails
  <1>5. CASE Crash
    <2>1. UNCHANGED <<durable, calls>> /\ faults' \in Nat /\ faults' # 0
      BY <1>5, <1>a, FaultCounts DEF Crash
    <2>2. \A s \in Request : pc'[s] = "idle" /\ reply'[s] = "NONE"
      BY <1>5 DEF Crash
    <2>3. TypeOK'
      BY <1>5, <1>a, <2>1 DEF Crash, TypeOK, durable, Reply
    <2>4. IInv'
      BY <2>1, <2>2, <2>3, TablesKept
    <2> QED BY <2>1, <2>4 DEF durable, Resolved
  <1>6. CASE Restart \/ UNCHANGED vars
    <2>1. UNCHANGED <<durable, pc, args, reply, calls, faults>> /\ up' \in BOOLEAN
      BY <1>6, <1>a DEF Restart, vars, durable, TypeOK
    <2>2. TypeOK'
      BY <1>a, <2>1 DEF TypeOK, durable
    <2>3. IInv'
      BY <2>1, <2>2, TablesKept
    <2> QED BY <2>1, <2>3 DEF durable, Resolved
  <1>7. UNCHANGED durable => keys' = keys /\ decision' = decision
    BY DEF durable
  <1>8. decision' = decision => \A d \in Decision : Resolved(d) => Resolved(d)'
    BY DEF Resolved
  <1> QED BY <1>1, <1>2, <1>3, <1>4, <1>5, <1>6, <1>7, <1>8 DEF Next

-----------------------------------------------------------------------------
\* The inductive invariant holds throughout.
THEOREM Invariant == Spec => []IInv
  <1>1. IInv /\ [Next]_vars => IInv'
    BY NextKeeps
  <1> QED BY InitIInv, <1>1, PTL DEF Spec

\* The keys, the decisions, the service rows and the answers the customer
\* saw agree at every point, however requests, retries and crashes interleave.
THEOREM Agreement == Spec => []RowsAgree
  <1>1. IInv => RowsAgree
    BY DEF IInv, RowsAgree
  <1> QED BY Invariant, <1>1, PTL

\* One request at a time works on a key, and without failures a key writes
\* at most one service row, whatever the clients retry or race.
THEOREM Exclusion == Spec => []OneWorker
  <1>1. IInv => OneWorker
    BY DEF IInv, OneWorker, OneRowWithoutFaults, CleanInv
  <1> QED BY Invariant, <1>1, PTL

\* A completed key and a resolved offer are final: no retry, redelivered
\* signal or crash opens them again.
THEOREM Finality == Spec => FinalStates
  <1>1. IInv /\ [Next]_vars =>
           [\A k \in Key : keys[k].status = "COMPLETED" => keys'[k] = keys[k]]_vars
    BY NextKeeps
  <1>2. IInv /\ [Next]_vars =>
           [\A d \in Decision : Resolved(d) => decision'[d] # "PENDING"]_vars
    BY NextKeeps, PendingAssumption DEF Resolved
  <1> QED BY Invariant, <1>1, <1>2, PTL DEF Spec, FinalStates, CompletedKeyIsFinal, NeverPendingAgain
=============================================================================
