-------------------------- MODULE BusClients_proofs --------------------------
(***************************************************************************)
(* Proofs about the two workflows that publish through the context bus:    *)
(* Engagement (product views and upsell signals) and Purchases (purchase   *)
(* events and segmentation), for every set of events and requests and      *)
(* every bound.                                                            *)
(***************************************************************************)
EXTENDS Engagement, Purchases, ContextBus_proofs, FiniteSetTheorems, SequenceTheorems

\* A step of one coroutine's view request is a step of the bus or leaves the
\* bus alone.
LEMMA ViewStepIsBusStep ==
    ASSUME NEW r \in Request, ViewStep(r)
    PROVE  Next \/ UNCHANGED vars
<1>1. r \in Caller BY DEF Caller
<1>2. CASE \E k \in Event, v \in View :
               \/ ViewRecorded(r, k, v) \/ ViewUnfinished(r, k, v)
               \/ ReplayCompleted(r, k, v) \/ ReplayUnfinished(r, k, v)
  BY <1>2 DEF ViewRecorded, ViewUnfinished, ReplayCompleted, ReplayUnfinished
<1>3. CASE \E k \in Event, v \in View : ViewSignals(r, k, v)
  BY <1>3 DEF ViewSignals, Next
<1>4. CASE \E k \in Event, v \in View : ReplaySignal(r, k, v)
  <2>1. PICK k \in Event : Call(r, {k}) BY <1>4 DEF ReplaySignal
  <2>2. {k} \in SUBSET Event OBVIOUS
  <2> QED BY <2>1, <2>2 DEF Next
<1>5. CASE FinishView(r) \/ FinishFails(r)
  <2>1. Return(r) BY <1>5 DEF FinishView, FinishFails
  <2> QED BY <1>1, <2>1 DEF Next, Dispatch
<1> QED BY <1>2, <1>3, <1>4, <1>5, ViewStep(r) DEF ViewStep

\* So is a step of a dispatch, of its handler, or a fault in it.
LEMMA DispatchStepIsBusStep ==
    ASSUME NEW c \in Caller, DispatchStep(c) \/ HandlerBreaks(c) \/ BusFault(c)
    PROVE  Next \/ UNCHANGED vars
<1>1. CASE BusStep(c)
  BY <1>1 DEF BusStep, Next, Dispatch
<1>2. CASE CallHandler(c) \/ StoreResponse(c)
  BY <1>2 DEF CallHandler, StoreResponse, Next, Dispatch
<1>3. CASE HandlerDone(c) \/ HandlerBreaks(c)
  BY <1>3 DEF HandlerDone, HandlerBreaks, Next, Handler
<1>4. CASE HandlerStep(c)
  BY <1>4 DEF HandlerStep, FindDecision, StartAgent, SelectOffer, NoOffer,
       ShowOffer, ShowFails, RecordOffer, Settle
<1>5. CASE BusFault(c)
  BY <1>5 DEF BusFault, Next
<1> QED BY <1>1, <1>2, <1>3, <1>4, <1>5,
           DispatchStep(c) \/ HandlerBreaks(c) \/ BusFault(c) DEF DispatchStep

\* And so is every step of the composition.
LEMMA EngStepIsBusStep ==
    ASSUME [EngNext]_allVars
    PROVE  [Next]_vars
<1>1. CASE \E r \in Request, k \in Event : DispatchSignal(r, k)
  <2>1. PICK r \in Request, k \in Event : Call(r, {k})
    BY <1>1 DEF DispatchSignal
  <2>2. {k} \in SUBSET Event OBVIOUS
  <2> QED BY <2>1, <2>2 DEF Next
<1>2. CASE \E s \in Session : CreateSession(s) \/ CloseSession(s)
  BY <1>2 DEF CreateSession, CloseSession
<1>3. CASE \E r \in Request : ViewStep(r)
  BY <1>3, ViewStepIsBusStep
<1>4. CASE \E c \in Caller : DispatchStep(c) \/ HandlerBreaks(c) \/ BusFault(c)
  BY <1>4, DispatchStepIsBusStep
<1>5. CASE PollerStep
  <2>1. Poller \in Caller BY DEF Caller
  <2> QED BY <1>5, <2>1 DEF PollerStep, Next, Dispatch
<1>6. CASE Shutdown \/ Crash \/ PollerExits \/ Restart
  BY <1>6 DEF Next
<1>7. CASE UNCHANGED allVars
  BY <1>7 DEF allVars
<1> QED BY <1>1, <1>2, <1>3, <1>4, <1>5, <1>6, <1>7, [EngNext]_allVars DEF EngNext

(***************************************************************************)
(* The endpoint, the handler and the bus together are still the bus of     *)
(* ContextBus, so everything proved of the bus holds of them.              *)
(***************************************************************************)
THEOREM Composition == EngSpec => ImplementsBus
<1>1. EngInit => Init BY DEF EngInit
<1>2. [EngNext]_allVars => [Next]_vars BY EngStepIsBusStep
<1> QED BY <1>1, <1>2, PTL DEF EngSpec, ImplementsBus, Spec

\* A signal is published only when the handler of the Upsell agent completed.
THEOREM SignalsPublishedSafely == EngSpec => []PublishedOnlyAfterAll
BY Composition, PublishedSafe, PTL DEF ImplementsBus

\* Two evaluations of offers never overlap: the bus lock covers the handler.
THEOREM EvaluationsExclude == EngSpec => []OneHandlerAtATime
BY Composition, HandlersExclude, PTL DEF ImplementsBus

\* What the bus promises, it keeps while recordings and evaluations share its
\* rows: a handler sees the events of its topic in their order, an answer to a
\* publisher is true, a completed receipt is final, and every delivery is one
\* of the abstract specification.
THEOREM EngagementDelivery ==
    EngSpec => []ServedInOrder /\ []AnswerMeansPublished /\ CompletedIsFinal /\ ImplementsDelivery
BY Composition, InOrder, AnswersTrue, CompletedForever, Refinement, PTL DEF ImplementsBus

-----------------------------------------------------------------------------
(***************************************************************************)
(* Signals.  The receipts of one view (session and product) are numbered   *)
(* without repetition, by at most their number: so at most one of them has *)
(* the threshold's number, and only that one raises a signal.              *)
(***************************************************************************)
RecordedKeys == {k \in Event : Recorded(k)}
Views(v) == {k \in Event : Recorded(k) /\ receipts[k].view = v}

ReceiptsInv ==
    /\ receipts \in [Event -> Receipt]
    /\ IsFiniteSet(RecordedKeys)
    /\ \A k \in Event : Signalled(k) =>
          Recorded(k) /\ receipts[k].count = Threshold /\ receipts[k].view.sku \in Premium
    /\ \A k \in Event : Recorded(k) => receipts[k].count <= Cardinality(Views(receipts[k].view))
    /\ \A k, l \in Event :
          /\ Recorded(k) /\ Recorded(l)
          /\ receipts[k].view = receipts[l].view /\ receipts[k].count = receipts[l].count
          => k = l

\* What a receipt that is there says.
LEMMA ReceiptType ==
    ASSUME NEW x \in Receipt, x.status # "NONE"
    PROVE  /\ x.view \in View /\ x.count \in Nat /\ x.status \in {"PROCESSING", "COMPLETED"}
           /\ x.status = "COMPLETED" => x.reply \in Response
  BY DEF Receipt, NoReceipt

\* The next view of a product is one more than the views recorded.
LEMMA ViewCountType ==
    ASSUME ReceiptsInv, NEW v
    PROVE  /\ IsFiniteSet(Views(v)) /\ Cardinality(Views(v)) \in Nat
           /\ ViewCount(v) = 1 + Cardinality(Views(v)) /\ ViewCount(v) \in Nat
  <1>1. Views(v) \in SUBSET RecordedKeys
    BY DEF Views, RecordedKeys
  <1>2. IsFiniteSet(Views(v)) /\ Cardinality(Views(v)) \in Nat
    BY <1>1, FS_Subset, FS_CardinalityType DEF ReceiptsInv
  <1>3. ViewCount(v) = 1 + Cardinality(Views(v))
    BY DEF ViewCount, Views
  <1> QED BY <1>2, <1>3

\* Recording the next view.
LEMMA RecordKeepsReceipts ==
    ASSUME ReceiptsInv, NEW k \in Event, NEW v \in View, ~Recorded(k),
           NEW x \in Receipt, x.status # "NONE", x.view = v, x.count = ViewCount(v),
           receipts' = [receipts EXCEPT ![k] = x],
           \A e \in Event : Signalled(e)' => Signalled(e) \/ (e = k /\ Raises(v))
    PROVE  ReceiptsInv'
  <1> DEFINE n == Cardinality(Views(v))
  <1>1. n \in Nat /\ x.count = n + 1 /\ IsFiniteSet(Views(v))
    BY ViewCountType
  <1>2. /\ receipts' \in [Event -> Receipt] /\ receipts'[k] = x
        /\ \A l \in Event \ {k} : receipts'[l] = receipts[l]
    BY DEF ReceiptsInv
  <1>3. Recorded(k)' /\ \A l \in Event \ {k} : Recorded(l)' <=> Recorded(l)
    BY <1>2 DEF Recorded
  <1>4. IsFiniteSet(RecordedKeys)'
    <2>1. RecordedKeys' = RecordedKeys \cup {k}
      BY <1>3 DEF RecordedKeys
    <2> QED BY <2>1, FS_AddElement DEF ReceiptsInv
  <1>5. \A e \in Event : Signalled(e)' =>
          Recorded(e)' /\ receipts'[e].count = Threshold /\ receipts'[e].view.sku \in Premium
    <2>1. ~Signalled(k)
      BY DEF ReceiptsInv
    <2>2. Raises(v) => x.count = Threshold /\ x.view.sku \in Premium
      BY DEF Raises
    <2> QED BY <1>2, <1>3, <2>1, <2>2 DEF ReceiptsInv
  <1>6. Views(v)' = Views(v) \cup {k} /\ k \notin Views(v)
    BY <1>2, <1>3 DEF Views
  <1>7. Cardinality(Views(v)') = n + 1
    BY <1>1, <1>6, FS_AddElement, ZenonT(40)
  <1>8. ASSUME NEW w, w # v
        PROVE  Views(w)' = Views(w)
    BY <1>2, <1>3, <1>8 DEF Views
  <1> HIDE DEF n
  <1>9. \A l \in Event : Recorded(l)' => receipts'[l].count <= Cardinality(Views(receipts[l].view)')
    <2> SUFFICES ASSUME NEW l \in Event, Recorded(l)'
                 PROVE  receipts'[l].count <= Cardinality(Views(receipts[l].view)')
      OBVIOUS
    <2>1. CASE l = k
      BY <1>1, <1>2, <1>7, <2>1
    <2>2. CASE l # k /\ receipts[l].view = v
      <3>1. Recorded(l) /\ receipts[l].count \in Nat /\ receipts[l].count <= n
        BY <1>3, <2>2, ReceiptType DEF ReceiptsInv, Recorded, n
      <3> QED BY <1>1, <1>2, <1>7, <2>2, <3>1
    <2>3. CASE l # k /\ receipts[l].view # v
      BY <1>2, <1>3, <1>8, <2>3 DEF ReceiptsInv
    <2> QED BY <2>1, <2>2, <2>3
  <1>10. ASSUME NEW l \in Event \ {k}, Recorded(l), receipts[l].view = v
         PROVE  receipts[l].count # n + 1
    <2>1. receipts[l].count \in Nat /\ receipts[l].count <= n
      BY <1>10, ReceiptType DEF ReceiptsInv, Recorded, n
    <2> QED BY <1>1, <2>1
  <1>11. \A l, m \in Event :
           /\ Recorded(l)' /\ Recorded(m)'
           /\ receipts'[l].view = receipts'[m].view /\ receipts'[l].count = receipts'[m].count
           => l = m
    BY <1>1, <1>2, <1>3, <1>10 DEF ReceiptsInv
  <1> QED BY <1>2, <1>4, <1>5, <1>9, <1>11 DEF ReceiptsInv

\* Steps that leave every receipt its view and number and raise no signal.
LEMMA ReceiptsKept ==
    ASSUME ReceiptsInv, receipts' \in [Event -> Receipt],
           \A l \in Event : /\ Recorded(l)' <=> Recorded(l)
                            /\ Recorded(l) => /\ receipts'[l].view = receipts[l].view
                                              /\ receipts'[l].count = receipts[l].count
                            /\ Signalled(l)' => Signalled(l)
    PROVE  ReceiptsInv'
  <1>1. RecordedKeys' = RecordedKeys
    BY DEF RecordedKeys
  <1>2. \A v : Views(v)' = Views(v)
    BY DEF Views
  <1> QED BY <1>1, <1>2 DEF ReceiptsInv

-----------------------------------------------------------------------------
(***************************************************************************)
(* Answers.  A receipt is completed with the result of its published       *)
(* signal, which no later delivery changes, so all answers carry it.       *)
(***************************************************************************)
RepliesInv ==
    /\ response \in [Event -> Result]
    /\ answered \in [Event -> SUBSET Response]
    /\ CompletedIsEvaluated
    /\ \A k \in Event : \A a \in answered[k] :
          Finished(k) /\ a.upsell = receipts[k].reply.upsell

\* The outbox as the requests see it: nothing new is committed and what is
\* published stays so.
OutboxStands ==
    \A e \in Event :
        /\ Signalled(e)' => Signalled(e)
        /\ outbox[e].status = "PUBLISHED" => outbox'[e].status = "PUBLISHED"

\* The bus commits no event by itself.
LEMMA BusStands ==
    ASSUME DeliveryInv, Next \/ UNCHANGED vars,
           \/ outbox' = outbox
           \/ \E c \in Caller : (\E f \in Event : StartEvent(c, f)) \/ MarkPublished(c)
    PROVE  OutboxStands
  <1>1. [Next]_vars /\ TypeInv
    BY DEF DeliveryInv
  <1> QED BY <1>1, DispatchKeepsCommitted, OutboxGrows DEF OutboxStands, Signalled

\* Steps that leave the receipts and the answers alone.
LEMMA RepliesKept ==
    ASSUME ReceiptsInv, RepliesInv, OutboxStands, UNCHANGED <<receipts, answered, response>>
    PROVE  ReceiptsInv' /\ RepliesInv'
  <1>1. ReceiptsInv'
    BY ReceiptsKept DEF ReceiptsInv, OutboxStands, Recorded
  <1>2. RepliesInv'
    BY DEF RepliesInv, OutboxStands, CompletedIsEvaluated, Finished
  <1> QED BY <1>1, <1>2

\* Steps that rewrite one receipt and its answers.
LEMMA RepliesChange ==
    ASSUME RepliesInv, NEW k \in Event, response' = response,
           answered' \in [Event -> SUBSET Response],
           \A l \in Event \ {k} : /\ receipts'[l] = receipts[l] /\ answered'[l] = answered[l]
                                  /\ Signalled(l)' => Signalled(l),
           \A e \in Event : outbox[e].status = "PUBLISHED" => outbox'[e].status = "PUBLISHED",
           Finished(k)' /\ Signalled(k)' =>
               outbox'[k].status = "PUBLISHED" /\ receipts'[k].reply.upsell = response[k],
           \A a \in answered'[k] : Finished(k)' /\ a.upsell = receipts'[k].reply.upsell
    PROVE  RepliesInv'
  <1>1. CompletedIsEvaluated'
    BY DEF CompletedIsEvaluated, RepliesInv, Finished
  <1>2. \A l \in Event : \A a \in answered'[l] :
          Finished(l)' /\ a.upsell = receipts'[l].reply.upsell
    BY DEF RepliesInv, Finished
  <1> QED BY <1>1, <1>2 DEF RepliesInv

\* A receipt that is not there was never answered, and raised no signal.
LEMMA UnrecordedKey ==
    ASSUME ReceiptsInv, RepliesInv, NEW k \in Event, ~Recorded(k)
    PROVE  answered[k] = {} /\ ~Signalled(k)
  BY DEF ReceiptsInv, RepliesInv, Finished, Recorded

\* A reply of a request.
LEMMA ReplyType ==
    ASSUME NEW r \in Request, NEW k, NEW u \in Result
    PROVE  Reply(r, k, u) \in Response /\ Reply(r, k, u).upsell = u
  BY DEF Reply, Response

\* Completing a receipt, in fields.
LEMMA CompletedRow ==
    ASSUME ReceiptsInv, NEW k \in Event, NEW v \in View, NEW n \in Nat, NEW reply \in Response,
           receipts' = CompleteReceipt(k, v, n, reply)
    PROVE  /\ receipts' \in [Event -> Receipt]
           /\ \A l \in Event \ {k} : receipts'[l] = receipts[l]
           /\ Finished(k)' /\ Recorded(k)' /\ receipts'[k].reply = reply
           /\ receipts'[k].view = v /\ receipts'[k].count = n
  <1> DEFINE x == [status |-> "COMPLETED", view |-> v, count |-> n, reply |-> reply]
  <1>1. x \in Receipt
    BY DEF Receipt
  <1>2. /\ x.status = "COMPLETED" /\ x.reply = reply /\ x.view = v /\ x.count = n
        /\ receipts' = [receipts EXCEPT ![k] = x]
    BY DEF CompleteReceipt
  <1> HIDE DEF x
  <1> QED BY <1>1, <1>2 DEF ReceiptsInv, Finished, Recorded

\* One key more is answered.
LEMMA AnswerRow ==
    ASSUME RepliesInv, NEW k \in Event, NEW reply \in Response, Answer(k, reply)
    PROVE  /\ answered' \in [Event -> SUBSET Response]
           /\ answered'[k] = answered[k] \cup {reply}
           /\ \A l \in Event \ {k} : answered'[l] = answered[l]
  BY DEF RepliesInv, Answer

\* NoResult is a result.
LEMMA NoResultType == NoResult \in Result
  BY DEF Result

\* A view without a signal.
LEMMA ViewKeepsReplies ==
    ASSUME ReceiptsInv, RepliesInv, NEW r \in Request, NEW k \in Event, NEW v \in View,
           ViewRecorded(r, k, v) \/ ViewUnfinished(r, k, v)
    PROVE  ReceiptsInv' /\ RepliesInv'
  <1> DEFINE reply == Reply(r, k, NoResult)
             x == [status |-> "PROCESSING", view |-> v, count |-> ViewCount(v)]
             y == [status |-> "COMPLETED", view |-> v, count |-> ViewCount(v), reply |-> reply]
  <1>1. ~Recorded(k) /\ outbox' = outbox /\ response' = response
    BY DEF ViewRecorded, ViewUnfinished, NewView, vars
  <1>2. reply \in Response /\ reply.upsell = NoResult
    BY ReplyType, NoResultType
  <1>3. ViewCount(v) \in Nat
    BY ViewCountType
  <1>4. answered[k] = {} /\ ~Signalled(k)
    BY <1>1, UnrecordedKey
  <1> HIDE DEF reply
  <1>5. x \in Receipt /\ x.status = "PROCESSING" /\ x.view = v /\ x.count = ViewCount(v)
    BY <1>3 DEF Receipt
  <1>6. /\ y \in Receipt /\ y.status = "COMPLETED" /\ y.view = v /\ y.count = ViewCount(v)
        /\ y.reply = reply
    BY <1>2, <1>3 DEF Receipt
  <1> HIDE DEF x, y
  <1>7. \/ receipts' = [receipts EXCEPT ![k] = x] /\ answered' = answered
        \/ receipts' = [receipts EXCEPT ![k] = y] /\ Answer(k, reply)
    BY DEF ViewRecorded, ViewUnfinished, CompleteReceipt, x, y, reply
  <1>8. \A e \in Event : Signalled(e)' => Signalled(e)
    BY <1>1 DEF Signalled
  <1>9. ReceiptsInv'
    <2>1. CASE receipts' = [receipts EXCEPT ![k] = x]
      BY <1>1, <1>5, <1>8, <2>1, RecordKeepsReceipts
    <2>2. CASE receipts' = [receipts EXCEPT ![k] = y]
      BY <1>1, <1>6, <1>8, <2>2, RecordKeepsReceipts
    <2> QED BY <1>7, <2>1, <2>2
  <1>10. CASE receipts' = [receipts EXCEPT ![k] = x] /\ answered' = answered
    <2>1. ~Finished(k)'
      BY <1>5, <1>10 DEF ReceiptsInv, Finished
    <2>2. \A l \in Event \ {k} : receipts'[l] = receipts[l]
      BY <1>10 DEF ReceiptsInv
    <2>3. answered' \in [Event -> SUBSET Response]
      BY <1>10 DEF RepliesInv
    <2> QED BY <1>1, <1>4, <1>8, <1>9, <1>10, <2>1, <2>2, <2>3, RepliesChange
  <1>11. CASE receipts' = [receipts EXCEPT ![k] = y] /\ Answer(k, reply)
    <2>1. receipts'[k] = y /\ Finished(k)'
      BY <1>6, <1>11 DEF ReceiptsInv, Finished
    <2>2. \A l \in Event \ {k} : receipts'[l] = receipts[l]
      BY <1>11 DEF ReceiptsInv
    <2>3. /\ answered' \in [Event -> SUBSET Response] /\ answered'[k] = {reply}
          /\ \A l \in Event \ {k} : answered'[l] = answered[l]
      BY <1>2, <1>4, <1>11, AnswerRow
    <2>4. ~Signalled(k)'
      BY <1>4, <1>8
    <2> QED BY <1>1, <1>6, <1>8, <1>9, <2>1, <2>2, <2>3, <2>4, RepliesChange
  <1> QED BY <1>7, <1>10, <1>11

\* A view that raises its signal.
LEMMA SignalKeepsReplies ==
    ASSUME DeliveryInv, ReceiptsInv, RepliesInv, NEW r \in Request, NEW k \in Event,
           NEW v \in View, ViewSignals(r, k, v)
    PROVE  ReceiptsInv' /\ RepliesInv'
  <1> DEFINE x == [status |-> "PROCESSING", view |-> v, count |-> ViewCount(v)]
  <1>1. /\ ~Recorded(k) /\ Raises(v) /\ Emit(k) /\ receipts' = [receipts EXCEPT ![k] = x]
        /\ answered' = answered /\ response' = response
    BY DEF ViewSignals, NewView
  <1>2. ViewCount(v) \in Nat
    BY ViewCountType
  <1>3. answered[k] = {}
    BY <1>1, UnrecordedKey
  <1>4. x \in Receipt /\ x.status = "PROCESSING" /\ x.view = v /\ x.count = ViewCount(v)
    BY <1>2 DEF Receipt
  <1> HIDE DEF x
  <1>5. \A e \in Event \ {k} : outbox'[e] = outbox[e]
    BY <1>1 DEF Emit, DeliveryInv, TypeInv, TypeOK
  <1>6. \A e \in Event : Signalled(e)' => Signalled(e) \/ (e = k /\ Raises(v))
    BY <1>1, <1>5 DEF Signalled
  <1>7. ReceiptsInv'
    BY <1>1, <1>4, <1>6, RecordKeepsReceipts
  <1>8. ~Finished(k)' /\ \A l \in Event \ {k} : receipts'[l] = receipts[l]
    BY <1>1, <1>4 DEF ReceiptsInv, Finished
  <1>9. answered' \in [Event -> SUBSET Response]
    BY <1>1 DEF RepliesInv
  <1>10. \A e \in Event : outbox[e].status = "PUBLISHED" => outbox'[e].status = "PUBLISHED"
    BY <1>1, <1>5 DEF Emit
  <1>11. \A l \in Event \ {k} : Signalled(l)' => Signalled(l)
    BY <1>5 DEF Signalled
  <1> QED BY <1>1, <1>3, <1>7, <1>8, <1>9, <1>10, <1>11, RepliesChange

\* Completing a receipt that is there, with a result that is settled.
LEMMA CompletionKeepsReplies ==
    ASSUME ReceiptsInv, RepliesInv, OutboxStands, NEW k \in Event, Recorded(k),
           NEW reply \in Response, response' = response,
           receipts' = CompleteReceipt(k, receipts[k].view, receipts[k].count, reply),
           Answer(k, reply), ~Signalled(k) => ~Finished(k),
           Signalled(k) => outbox[k].status = "PUBLISHED" /\ reply.upsell = response[k]
    PROVE  ReceiptsInv' /\ RepliesInv'
  <1>1. receipts[k].view \in View /\ receipts[k].count \in Nat
    BY ReceiptType DEF ReceiptsInv, Recorded
  <1>2. /\ receipts' \in [Event -> Receipt]
        /\ \A l \in Event \ {k} : receipts'[l] = receipts[l]
        /\ Finished(k)' /\ Recorded(k)' /\ receipts'[k].reply = reply
        /\ receipts'[k].view = receipts[k].view /\ receipts'[k].count = receipts[k].count
    BY <1>1, CompletedRow
  <1>3. ReceiptsInv'
    BY <1>2, ReceiptsKept DEF OutboxStands, Recorded
  <1>4. /\ answered' \in [Event -> SUBSET Response]
        /\ answered'[k] = answered[k] \cup {reply}
        /\ \A l \in Event \ {k} : answered'[l] = answered[l]
    BY AnswerRow
  <1>5. \A a \in answered[k] : a.upsell = reply.upsell
    BY DEF RepliesInv, CompletedIsEvaluated
  <1> QED BY <1>2, <1>3, <1>4, <1>5, RepliesChange DEF OutboxStands

\* dispatch returned: the signal is published, so its result is settled.
LEMMA FinishKeepsReplies ==
    ASSUME DeliveryInv, AnswerInv, ReceiptsInv, RepliesInv, NEW r \in Request, FinishView(r)
    PROVE  ReceiptsInv' /\ RepliesInv'
  <1>1. PICK k \in asked[r] :
          /\ Return(r) /\ Answer(k, Reply(r, k, response[k])) /\ response' = response
          /\ receipts' = CompleteReceipt(k, receipts[k].view, receipts[k].count,
                                         Reply(r, k, response[k]))
    BY DEF FinishView
  <1>2. k \in Event /\ r \in Caller
    BY DEF DeliveryInv, TypeInv, TypeOK, Caller
  <1>3. outbox[k].status = "PUBLISHED"
    BY <1>1, <1>2 DEF AnswerInv, Return, Busy, Dispatching
  <1>4. Signalled(k) /\ Recorded(k)
    BY <1>2, <1>3 DEF Signalled, ReceiptsInv
  <1>5. OutboxStands
    BY <1>1, <1>2, BusStands DEF Return, durable, Next, Dispatch
  <1>6. response[k] \in Result
    BY <1>2 DEF RepliesInv
  <1>7. Reply(r, k, response[k]) \in Response /\ Reply(r, k, response[k]).upsell = response[k]
    BY <1>6, ReplyType
  <1> QED BY <1>1, <1>2, <1>3, <1>4, <1>5, <1>7, CompletionKeepsReplies

\* A repeated key.
LEMMA ReplayKeepsReplies ==
    ASSUME ReceiptsInv, RepliesInv, NEW r \in Request, NEW k \in Event, NEW v \in View,
           ReplayCompleted(r, k, v) \/ ReplayUnfinished(r, k, v)
    PROVE  ReceiptsInv' /\ RepliesInv'
  <1>1. Recorded(k) /\ receipts[k].view = v /\ outbox' = outbox /\ response' = response
    BY DEF ReplayCompleted, ReplayUnfinished, SameView, vars
  <1>2. OutboxStands
    BY <1>1 DEF OutboxStands, Signalled
  <1>3. CASE ReplayCompleted(r, k, v)
    <2>1. /\ Answer(k, receipts[k].reply) /\ receipts' = receipts
          /\ receipts[k].status = "COMPLETED"
      BY <1>3 DEF ReplayCompleted
    <2>2. receipts[k].reply \in Response
      BY <1>1, <2>1, ReceiptType DEF ReceiptsInv, Recorded
    <2>3. /\ answered' \in [Event -> SUBSET Response]
          /\ answered'[k] = answered[k] \cup {receipts[k].reply}
          /\ \A l \in Event \ {k} : answered'[l] = answered[l]
      BY <2>1, <2>2, AnswerRow
    <2>4. ReceiptsInv'
      BY <1>2, <2>1, ReceiptsKept DEF ReceiptsInv, OutboxStands, Recorded
    <2>5. Finished(k)' /\ Finished(k)
      BY <2>1 DEF Finished
    <2>6. Signalled(k)' =>
            outbox'[k].status = "PUBLISHED" /\ receipts'[k].reply.upsell = response[k]
      BY <1>1, <2>1, <2>5 DEF RepliesInv, CompletedIsEvaluated, Signalled
    <2>7. \A a \in answered'[k] : a.upsell = receipts'[k].reply.upsell
      BY <2>1, <2>3 DEF RepliesInv
    <2> QED BY <1>1, <1>2, <2>1, <2>3, <2>4, <2>5, <2>6, <2>7, RepliesChange DEF OutboxStands
  <1>4. CASE ReplayUnfinished(r, k, v)
    <2>1. /\ receipts' = CompleteReceipt(k, receipts[k].view, receipts[k].count,
                                         Reply(r, k, NoResult))
          /\ Answer(k, Reply(r, k, NoResult)) /\ ~Signalled(k) /\ ~Finished(k)
      BY <1>1, <1>4 DEF ReplayUnfinished, Finished
    <2>2. Reply(r, k, NoResult) \in Response
      BY ReplyType, NoResultType
    <2> QED BY <1>1, <1>2, <2>1, <2>2, CompletionKeepsReplies
  <1> QED BY <1>3, <1>4

\* A delivery that completes stores a result nobody has been told yet.
LEMMA StoreKeepsReplies ==
    ASSUME DeliveryInv, ReceiptsInv, RepliesInv, NEW c \in Caller, StoreResponse(c),
           work[c].result \in Result
    PROVE  ReceiptsInv' /\ RepliesInv'
  <1>1. /\ phase[c] = "returned" /\ outbox' = outbox /\ UNCHANGED <<receipts, answered>>
        /\ response' = [response EXCEPT ![cur[c]] = work[c].result]
    BY DEF StoreResponse, CompleteDelivery
  <1>2. Serving(c) /\ pos[c] <= Len(Subs[cur[c]]) /\ Served(c).status = "PROCESSING"
    BY <1>1 DEF DeliveryInv, TypeInv, CursorInv, ClaimInv, Serving, Handling
  <1>3. cur[c] \in Event /\ pos[c] \in 1 .. Len(Subs[cur[c]])
    BY <1>2, ServedRow DEF DeliveryInv
  <1>4. outbox[cur[c]].status # "PUBLISHED"
    BY <1>2, <1>3, SubsType
       DEF DeliveryInv, RowsInv, PublishedOnlyAfterAll, AllCompleted, Served, Current
  <1>5. OutboxStands
    BY <1>1 DEF OutboxStands, Signalled
  <1>6. ReceiptsInv'
    BY <1>1, <1>5, ReceiptsKept DEF ReceiptsInv, OutboxStands, Recorded
  <1>7. response' \in [Event -> Result] /\ \A e \in Event \ {cur[c]} : response'[e] = response[e]
    BY <1>1, <1>3 DEF RepliesInv
  <1>8. CompletedIsEvaluated'
    BY <1>1, <1>4, <1>7 DEF RepliesInv, CompletedIsEvaluated, Finished, Signalled
  <1>9. \A k \in Event : \A a \in answered'[k] :
          Finished(k)' /\ a.upsell = receipts'[k].reply.upsell
    BY <1>1 DEF RepliesInv, Finished
  <1> QED BY <1>1, <1>6, <1>7, <1>8, <1>9 DEF RepliesInv

-----------------------------------------------------------------------------
(***************************************************************************)
(* Offers.  While the handler of a signal runs, nobody else's does, so     *)
(* what it found stays true: the signal has no decision until the handler  *)
(* settles the one it recorded.  The stored result names that decision.    *)
(***************************************************************************)
Made == [signal : Event, source : Event \cup {NoEvent}]
Evaluating(c) == phase[c] \in {"handling", "returned"}

\* A result of the signal e that the customer can respond to.
Named(u, e) ==
    /\ u # NoResult
    /\ u.status = "OFFER_AVAILABLE" => u.id \in SourcedBy(e)

WorkOf(c) ==
    /\ work[c].step \in {"agent", "selected", "shown", "settle"} => SourcedBy(cur[c]) = {}
    /\ work[c].step = "settle" =>
         /\ work[c].result # NoResult
         /\ work[c].result.status = "OFFER_AVAILABLE" =>
              /\ work[c].result.id \in DOMAIN decisions
              /\ decisions[work[c].result.id] = [signal |-> cur[c], source |-> NoEvent]
    /\ work[c].step = "done" => Named(work[c].result, cur[c])
    /\ phase[c] = "returned" => work[c].step = "done"

DeliveredTo(e) == delivery[e][Subs[e][1]].status = "COMPLETED"

OffersInv ==
    /\ decisions \in Seq(Made)
    /\ work \in [Caller -> [step : Step, result : Result]]
    /\ \A e \in Event : \A m, n \in SourcedBy(e) : m = n
    /\ \A e \in Event : \A n \in SourcedBy(e) : decisions[n].signal = e
    /\ \A c \in Caller : Evaluating(c) => WorkOf(c)
    /\ \A e \in Event : DeliveredTo(e) => Named(response[e], e)

\* Every signal has one subscriber, the Upsell agent's.
LEMMA OneSubscriber ==
    ASSUME NEW e \in Event
    PROVE  Len(Subs[e]) = 1 /\ Subs[e][1] \in Subscriber /\ DOMAIN Subs[e] = {1}
  BY SignalAssumption, SubsType

\* A result, in fields.
LEMMA ResultType ==
    ASSUME NEW u \in Result
    PROVE  u.status = "OFFER_AVAILABLE" => u.id \in Nat \ {0}
  BY DEF Result, NoResult

\* The coroutine whose handler runs, and nobody else's.
LEMMA OneEvaluation ==
    ASSUME DeliveryInv, NEW c \in Caller, Evaluating(c)
    PROVE  /\ cur[c] \in Event /\ Handling(c) /\ Busy(c)
           /\ \A d \in Caller \ {c} : ~Evaluating(d)
  <1>1. Handling(c) /\ Busy(c) /\ Serving(c)
    BY DEF Evaluating, Handling, Busy, Dispatching, Serving
  <1>2. cur[c] \in Event
    BY <1>1 DEF DeliveryInv, TypeInv, CursorInv
  <1>3. \A d \in Caller \ {c} : ~Busy(d)
    BY <1>1 DEF DeliveryInv, TypeInv, LockInv, Holds
  <1> QED BY <1>1, <1>2, <1>3 DEF Evaluating, Busy, Dispatching

\* Steps that touch neither decisions nor results and start no handler.
LEMMA OffersKept ==
    ASSUME OffersInv, UNCHANGED <<decisions, response, work>>,
           \A d \in Caller : Evaluating(d)' => phase'[d] = phase[d] /\ cur'[d] = cur[d],
           \A e \in Event : DeliveredTo(e)' => DeliveredTo(e)
    PROVE  OffersInv'
  <1>1. \A e : SourcedBy(e)' = SourcedBy(e)
    BY DEF SourcedBy
  <1>2. ASSUME NEW c \in Caller, Evaluating(c)'
        PROVE  WorkOf(c)'
    BY <1>1, <1>2 DEF OffersInv, WorkOf, Evaluating, Named
  <1>3. ASSUME NEW e \in Event, DeliveredTo(e)'
        PROVE  Named(response[e], e)'
    BY <1>1, <1>3 DEF OffersInv, Named
  <1> QED BY <1>1, <1>2, <1>3 DEF OffersInv

\* The bus outside the handler: no handler starts, no delivery completes.
LEMMA BusKeepsOffers ==
    ASSUME DeliveryInv, OffersInv, UNCHANGED <<decisions, response, work>>,
           \/ UNCHANGED vars
           \/ \E e \in Event : Emit(e)
           \/ \E r \in Request, k \in Event : Call(r, {k})
           \/ \E c \in Caller : \/ BusStep(c) \/ BusFault(c) \/ Return(c)
                                \/ HandlerRaises(c)
           \/ PollerTick \/ Shutdown \/ Restart
    PROVE  OffersInv'
  <1>0. /\ phase \in [Caller -> Resting \cup Dispatching]
        /\ cur \in [Caller -> Event \cup {NoEvent}]
    BY DEF DeliveryInv, TypeInv, TypeOK
  <1>1. CASE UNCHANGED vars
    BY <1>1, OffersKept DEF vars, DeliveredTo
  <1>2. CASE \/ \E e \in Event : Emit(e)
             \/ Shutdown \/ Restart
    BY <1>2, OffersKept DEF Emit, Shutdown, Restart, durable, locals, DeliveredTo
  <1>3. ASSUME NEW r \in Caller, \/ \E k \in Event : Call(r, {k})
                                 \/ Return(r) \/ HandlerRaises(r) \/ Load(r) \/ LoadFails(r)
        PROVE  OffersInv'
    <2>1. ~Evaluating(r)'
      BY <1>0, <1>3 DEF Call, Return, HandlerRaises, Load, LoadFails, Goto, Evaluating
    <2>2. cur' = cur /\ \A d \in Caller \ {r} : phase'[d] = phase[d]
      BY <1>0, <1>3 DEF Call, Return, HandlerRaises, Load, LoadFails, Goto, locals
    <2>3. delivery' = delivery
      BY <1>3 DEF Call, Return, HandlerRaises, Load, LoadFails, durable
    <2> QED BY <2>1, <2>2, <2>3, OffersKept DEF DeliveredTo
  <1>4. CASE PollerTick
    <2>1. ~Evaluating(Poller)'
      BY <1>0, <1>4 DEF PollerTick, Goto, Evaluating, Caller
    <2>2. cur' = cur /\ \A d \in Caller \ {Poller} : phase'[d] = phase[d]
      BY <1>0, <1>4 DEF PollerTick, Goto, locals
    <2>3. delivery' = delivery
      BY <1>4 DEF PollerTick, durable
    <2> QED BY <2>1, <2>2, <2>3, OffersKept DEF DeliveredTo
  <1>5. ASSUME NEW c \in Caller, \/ \E e \in Event : StartEvent(c, e)
                                 \/ MarkPublished(c) \/ SkipCompleted(c)
        PROVE  OffersInv'
    <2>1. ~Evaluating(c)'
      BY <1>0, <1>5 DEF StartEvent, MarkPublished, SkipCompleted, AtSubscriber, Goto, Evaluating
    <2>2. \A d \in Caller \ {c} : phase'[d] = phase[d] /\ cur'[d] = cur[d]
      BY <1>0, <1>5 DEF StartEvent, MarkPublished, SkipCompleted, Goto
    <2>3. delivery' = delivery
      BY <1>5 DEF StartEvent, MarkPublished, SkipCompleted, durable
    <2> QED BY <2>1, <2>2, <2>3, OffersKept DEF DeliveredTo
  <1>6. ASSUME NEW c \in Caller, FailDelivery(c) \/ TransactionFails(c)
        PROVE  OffersInv'
    <2>1. (\E e : EventFails(c, e)) /\ cur' = cur /\ Busy(c)
      BY <1>6 DEF FailDelivery, TransactionFails, Busy, Dispatching
    <2>2. Holds(c)
      BY <2>1 DEF DeliveryInv, TypeInv, LockInv
    <2>3. phase'[c] \in {"next", "error"} /\ \A d \in Caller \ {c} : phase'[d] = phase[d]
      BY <2>1, <2>2, EventFailsType DEF DeliveryInv
    <2>4. ASSUME NEW e \in Event, DeliveredTo(e)'
          PROVE  DeliveredTo(e)
      <3>1. CASE delivery' = delivery
        BY <2>4, <3>1 DEF DeliveredTo
      <3>2. CASE FailDelivery(c)
        <4>1. Handling(c) /\ delivery' = [delivery EXCEPT ![cur[c]][Current(c)].status = "FAILED"]
          BY <3>2 DEF FailDelivery, Handling
        <4>2. RowMoves(c, "FAILED")
          BY <4>1, FinishMoves DEF DeliveryInv, DeliveryStatus
        <4> QED BY <2>4, <4>2, OneSubscriber DEF RowMoves, DeliveredTo
      <3> QED BY <1>6, <3>1, <3>2 DEF TransactionFails, durable
    <2> QED BY <2>1, <2>3, <2>4, OffersKept DEF Evaluating
  <1> QED BY <1>1, <1>2, <1>3, <1>4, <1>5, <1>6 DEF BusStep, BusFault, Caller

\* A step of the handler that runs: only what it says of its own signal is
\* left to show.
LEMMA HandlerMoves ==
    ASSUME DeliveryInv, OffersInv, NEW c \in Caller, phase[c] = "handling",
           UNCHANGED vars, response' = response,
           NEW s \in Step, NEW u \in Result, Advance(c, s, u),
           decisions' \in Seq(Made),
           \A f \in Event \ {cur[c]} : SourcedBy(f)' = SourcedBy(f),
           SourcedBy(cur[c]) \subseteq SourcedBy(cur[c])',
           \A m, n \in SourcedBy(cur[c])' : m = n,
           \A f \in Event : \A n \in SourcedBy(f)' : decisions'[n].signal = f,
           s \in {"agent", "selected", "shown", "settle"} => SourcedBy(cur[c])' = {},
           s = "settle" =>
             /\ u # NoResult
             /\ u.status = "OFFER_AVAILABLE" =>
                  /\ u.id \in DOMAIN decisions'
                  /\ decisions'[u.id] = [signal |-> cur[c], source |-> NoEvent],
           s = "done" =>
             /\ u # NoResult
             /\ u.status = "OFFER_AVAILABLE" => u.id \in SourcedBy(cur[c])'
    PROVE  OffersInv'
  <1>1. /\ cur[c] \in Event /\ \A d \in Caller \ {c} : ~Evaluating(d)
        /\ cur' = cur /\ phase' = phase /\ delivery' = delivery
    BY OneEvaluation DEF Evaluating, vars
  <1>2. work' = [work EXCEPT ![c] = [step |-> s, result |-> u]]
    BY DEF Advance
  <1>3. /\ work' \in [Caller -> [step : Step, result : Result]]
        /\ work'[c].step = s /\ work'[c].result = u
    BY <1>2 DEF OffersInv
  <1>4. ASSUME NEW d \in Caller, Evaluating(d)'
        PROVE  WorkOf(d)'
    <2>1. d = c
      BY <1>1, <1>4 DEF Evaluating
    <2> QED BY <1>1, <1>3, <2>1 DEF WorkOf, Named
  <1>5. ASSUME NEW f \in Event
        PROVE  SourcedBy(f) \subseteq SourcedBy(f)' /\ \A m, n \in SourcedBy(f)' : m = n
    <2>1. CASE f = cur[c]
      BY <1>1, <2>1 DEF SourcedBy
    <2>2. CASE f # cur[c]
      BY <2>2 DEF OffersInv
    <2> QED BY <2>1, <2>2
  <1>6. ASSUME NEW e \in Event, DeliveredTo(e)'
        PROVE  Named(response[e], e)'
    BY <1>1, <1>5, <1>6 DEF OffersInv, DeliveredTo, Named
  <1> QED BY <1>3, <1>4, <1>5, <1>6 DEF OffersInv

\* The offers of results without one.
LEMMA PlainResult ==
    ASSUME NEW status \in {"NO_OFFER", "FAILED"}
    PROVE  /\ [status |-> status, id |-> 0] \in Result /\ [status |-> status, id |-> 0] # NoResult
           /\ [status |-> status, id |-> 0].status # "OFFER_AVAILABLE"
  BY DEF Result, NoResult

\* An offer names its decision.
LEMMA OfferType ==
    ASSUME NEW n \in Nat \ {0}
    PROVE  /\ Offer(n) \in Result /\ Offer(n) # NoResult
           /\ Offer(n).status = "OFFER_AVAILABLE" /\ Offer(n).id = n
  BY DEF Offer, Result, NoResult

\* Steps of the handler that record nothing.
LEMMA ThinkingKeepsOffers ==
    ASSUME DeliveryInv, OffersInv, NEW c \in Caller,
           \/ FindDecision(c) \/ StartAgent(c) \/ SelectOffer(c) \/ NoOffer(c)
           \/ ShowOffer(c) \/ ShowFails(c)
    PROVE  OffersInv'
  <1>1. /\ phase[c] = "handling" /\ UNCHANGED vars /\ response' = response
        /\ decisions' = decisions
    BY DEF FindDecision, StartAgent, SelectOffer, NoOffer, ShowOffer, ShowFails, At
  <1>2. cur[c] \in Event /\ WorkOf(c) /\ cur' = cur
    BY <1>1, OneEvaluation DEF OffersInv, Evaluating, vars
  <1>3. \A f : SourcedBy(f)' = SourcedBy(f)
    BY <1>1 DEF SourcedBy
  <1>4. /\ decisions' \in Seq(Made)
        /\ \A f \in Event \ {cur[c]} : SourcedBy(f)' = SourcedBy(f)
        /\ SourcedBy(cur[c])' = SourcedBy(cur[c])
        /\ \A m, n \in SourcedBy(cur[c]) : m = n
        /\ \A f \in Event : \A n \in SourcedBy(f)' : decisions'[n].signal = f
    BY <1>1, <1>2, <1>3 DEF OffersInv, SourcedBy
  <1>5. CASE FindDecision(c)
    <2>1. PICK n \in SourcedBy(cur[c]) : Advance(c, "done", Offer(n))
      BY <1>5 DEF FindDecision
    <2>2. n \in Nat \ {0}
      BY <2>1 DEF SourcedBy, OffersInv
    <2>3. PICK u : u = Offer(n)
      OBVIOUS
    <2>4. u \in Result /\ u # NoResult /\ u.id = n /\ "done" \in Step
      BY <2>2, <2>3, OfferType DEF Step
    <2>5. u.id \in SourcedBy(cur[c])'
      BY <1>4, <2>1, <2>4
    <2>6. Advance(c, "done", u)
      BY <2>1, <2>3
    <2>7. /\ SourcedBy(cur[c]) \subseteq SourcedBy(cur[c])'
          /\ \A i, j \in SourcedBy(cur[c])' : i = j
      BY <1>4
    <2>8. /\ decisions' \in Seq(Made)
          /\ \A f \in Event \ {cur[c]} : SourcedBy(f)' = SourcedBy(f)
          /\ \A f \in Event : \A i \in SourcedBy(f)' : decisions'[i].signal = f
      BY <1>4
    <2> QED BY <1>1, <2>4, <2>5, <2>6, <2>7, <2>8, HandlerMoves
  <1>6. CASE StartAgent(c) \/ SelectOffer(c) \/ ShowOffer(c) \/ ShowFails(c)
    <2>1. PICK s \in {"agent", "selected", "shown"} : Advance(c, s, NoResult)
      BY <1>6 DEF StartAgent, SelectOffer, ShowOffer, ShowFails
    <2>2. SourcedBy(cur[c]) = {}
      BY <1>2, <1>6 DEF StartAgent, SelectOffer, ShowOffer, ShowFails, At, WorkOf
    <2>3. s \in Step /\ NoResult \in Result
      BY NoResultType DEF Step
    <2> QED BY <1>1, <1>4, <2>1, <2>2, <2>3, HandlerMoves
  <1>7. CASE NoOffer(c)
    <2>1. PICK status \in {"NO_OFFER", "FAILED"} :
            Advance(c, "settle", [status |-> status, id |-> 0])
      BY <1>7 DEF NoOffer
    <2>2. SourcedBy(cur[c]) = {}
      BY <1>2, <1>7 DEF NoOffer, At, WorkOf
    <2>3. PICK u : u = [status |-> status, id |-> 0]
      OBVIOUS
    <2>4. u \in Result /\ u # NoResult /\ u.status # "OFFER_AVAILABLE" /\ "settle" \in Step
      BY <2>3, PlainResult DEF Step
    <2>5. Advance(c, "settle", u)
      BY <2>1, <2>3
    <2> QED BY <1>1, <1>4, <2>2, <2>4, <2>5, HandlerMoves
  <1> QED BY <1>5, <1>6, <1>7

\* RecordOffer: a decision without a source.
LEMMA RecordKeepsOffers ==
    ASSUME DeliveryInv, OffersInv, NEW c \in Caller, RecordOffer(c)
    PROVE  OffersInv'
  <1> DEFINE row == [signal |-> cur[c], source |-> NoEvent]
             n == Len(decisions) + 1
  <1>1. /\ phase[c] = "handling" /\ UNCHANGED vars /\ response' = response
        /\ work[c].step = "shown"
        /\ decisions' = Append(decisions, row) /\ Advance(c, "settle", Offer(n))
    BY DEF RecordOffer, At
  <1>2. cur[c] \in Event /\ WorkOf(c)
    BY <1>1, OneEvaluation DEF OffersInv, Evaluating
  <1>3. row \in Made /\ row.source = NoEvent
    BY <1>2 DEF Made
  <1>4. /\ decisions \in Seq(Made) /\ n \in Nat \ {0} /\ DOMAIN decisions = 1 .. n - 1
    BY DEF OffersInv
  <1> HIDE DEF row, n
  <1>5. /\ decisions' \in Seq(Made) /\ DOMAIN decisions' = 1 .. n /\ decisions'[n] = row
        /\ \A i \in 1 .. n - 1 : decisions'[i] = decisions[i]
    BY <1>1, <1>3, <1>4 DEF n
  <1>6. \A f \in Event : SourcedBy(f)' = SourcedBy(f)
    BY <1>3, <1>4, <1>5, NoEventAssumption DEF SourcedBy
  <1>7. SourcedBy(cur[c]) = {}
    BY <1>1, <1>2 DEF WorkOf
  <1>8. \A f \in Event : \A i \in SourcedBy(f)' : decisions'[i].signal = f
    BY <1>4, <1>5, <1>6 DEF OffersInv, SourcedBy
  <1>9. SourcedBy(cur[c])' = {}
    BY <1>1, <1>2, <1>6, <1>7 DEF vars
  <1>10. /\ Offer(n) \in Result /\ Offer(n) # NoResult /\ Offer(n).id = n
         /\ n \in DOMAIN decisions' /\ "settle" \in Step
    BY <1>4, <1>5, OfferType DEF Step
  <1>11. decisions'[Offer(n).id] = [signal |-> cur[c], source |-> NoEvent]
    BY <1>5, <1>10 DEF row
  <1> QED BY <1>1, <1>5, <1>6, <1>7, <1>8, <1>9, <1>10, <1>11, HandlerMoves

\* Settle: the decision gets its source.
LEMMA SettleKeepsOffers ==
    ASSUME DeliveryInv, OffersInv, NEW c \in Caller, Settle(c)
    PROVE  OffersInv'
  <1> DEFINE u == work[c].result
             e == cur[c]
  <1>1. /\ phase[c] = "handling" /\ UNCHANGED vars /\ response' = response
        /\ work[c].step = "settle" /\ Advance(c, "done", u)
        /\ decisions' = IF u.status = "OFFER_AVAILABLE"
                        THEN [decisions EXCEPT ![u.id].source = e] ELSE decisions
    BY DEF Settle, At
  <1>2. e \in Event /\ WorkOf(c) /\ cur' = cur
    BY <1>1, OneEvaluation DEF OffersInv, Evaluating, vars
  <1>3. /\ u \in Result /\ u # NoResult /\ SourcedBy(e) = {} /\ "done" \in Step
        /\ u.status = "OFFER_AVAILABLE" =>
             u.id \in DOMAIN decisions /\ decisions[u.id] = [signal |-> e, source |-> NoEvent]
    BY <1>1, <1>2 DEF WorkOf, OffersInv, Step
  <1> HIDE DEF u
  <1>4. CASE u.status # "OFFER_AVAILABLE"
    <2>1. decisions' = decisions
      BY <1>1, <1>4
    <2>2. \A f : SourcedBy(f)' = SourcedBy(f)
      BY <2>1 DEF SourcedBy
    <2>3. /\ decisions' \in Seq(Made) /\ SourcedBy(e)' = {}
          /\ \A f \in Event : \A i \in SourcedBy(f)' : decisions'[i].signal = f
      BY <1>2, <1>3, <2>1, <2>2 DEF OffersInv, SourcedBy
    <2> QED BY <1>1, <1>3, <1>4, <2>2, <2>3, HandlerMoves
  <1>5. CASE u.status = "OFFER_AVAILABLE"
    <2> DEFINE n == u.id
               row == [signal |-> e, source |-> e]
    <2>1. n \in DOMAIN decisions /\ decisions[n] = [signal |-> e, source |-> NoEvent]
      BY <1>3, <1>5
    <2>2. decisions \in Seq(Made) /\ row \in Made
      BY <1>2 DEF OffersInv, Made
    <2>3. [decisions[n] EXCEPT !.source = e] = row
      BY <2>1
    <2>4. decisions' = [decisions EXCEPT ![n] = row]
      BY <1>1, <1>5, <2>1, <2>3
    <2>5. row.source = e /\ row.signal = e
      OBVIOUS
    <2> HIDE DEF n, row
    <2>6. /\ decisions' \in Seq(Made) /\ DOMAIN decisions' = DOMAIN decisions
          /\ decisions'[n] = row /\ \A i \in DOMAIN decisions \ {n} : decisions'[i] = decisions[i]
      BY <2>1, <2>2, <2>4
    <2>7. decisions[n].source = NoEvent
      BY <2>1
    <2>8. \A f \in Event \ {e} : SourcedBy(f)' = SourcedBy(f)
      BY <1>2, <2>5, <2>6, <2>7, NoEventAssumption DEF SourcedBy
    <2>9. {i \in DOMAIN decisions' : decisions'[i].source = e} = {n}
      BY <1>3, <2>1, <2>5, <2>6 DEF SourcedBy
    <2>10. SourcedBy(e)' = {n}
      BY <1>2, <2>9 DEF SourcedBy
    <2>11. \A f \in Event : \A i \in SourcedBy(f)' : decisions'[i].signal = f
      BY <2>5, <2>6, <2>8, <2>10 DEF OffersInv, SourcedBy
    <2>12. u.id \in SourcedBy(e)'
      BY <2>10 DEF n
    <2> QED BY <1>1, <1>3, <2>6, <2>8, <2>10, <2>11, <2>12, HandlerMoves
  <1> QED BY <1>4, <1>5

\* A dispatch claims the delivery and calls the handler, from its first step.
LEMMA CallKeepsOffers ==
    ASSUME DeliveryInv, OffersInv, NEW c \in Caller, CallHandler(c)
    PROVE  OffersInv'
  <1>0. phase \in [Caller -> Resting \cup Dispatching] /\ TypeInv
    BY DEF DeliveryInv, TypeInv, TypeOK
  <1>1. /\ ClaimDelivery(c) /\ work' = [work EXCEPT ![c] = Idle]
        /\ UNCHANGED <<decisions, response, cur>>
    BY DEF CallHandler, ClaimDelivery, locals
  <1>2. Busy(c) /\ RowMoves(c, "PROCESSING")
    BY <1>0, <1>1, ClaimMoves DEF ClaimDelivery, AtSubscriber, Busy, Dispatching
  <1>3. Holds(c) /\ \A d \in Caller \ {c} : ~Busy(d)
    BY <1>0, <1>2 DEF TypeInv, LockInv, Holds
  <1>4. phase'[c] = "handling" /\ \A d \in Caller \ {c} : ~Evaluating(d)'
    BY <1>0, <1>1, <1>3 DEF ClaimDelivery, Goto, Evaluating, Busy, Dispatching
  <1>5. Idle \in [step : Step, result : Result] /\ Idle.step = "find"
    BY NoResultType DEF Idle, Step
  <1>6. work' \in [Caller -> [step : Step, result : Result]] /\ work'[c].step = "find"
    BY <1>1, <1>5 DEF OffersInv
  <1>7. WorkOf(c)'
    BY <1>4, <1>6 DEF WorkOf
  <1>8. \A f : SourcedBy(f)' = SourcedBy(f)
    BY <1>1 DEF SourcedBy
  <1>9. ASSUME NEW e \in Event, DeliveredTo(e)'
        PROVE  Named(response[e], e)'
    <2>1. DeliveredTo(e)
      BY <1>2, <1>9, OneSubscriber DEF RowMoves, DeliveredTo
    <2> QED BY <1>1, <1>8, <2>1 DEF OffersInv, Named
  <1> QED BY <1>1, <1>4, <1>6, <1>7, <1>8, <1>9 DEF OffersInv

\* The handler has answered.
LEMMA DoneKeepsOffers ==
    ASSUME DeliveryInv, OffersInv, NEW c \in Caller, HandlerDone(c)
    PROVE  OffersInv'
  <1>0. phase \in [Caller -> Resting \cup Dispatching]
    BY DEF DeliveryInv, TypeInv, TypeOK
  <1>1. /\ work[c].step = "done" /\ phase[c] = "handling"
        /\ UNCHANGED <<decisions, response, work, cur, delivery>>
        /\ \A d \in Caller \ {c} : phase'[d] = phase[d]
    BY <1>0 DEF HandlerDone, HandlerReturns, engVars, durable, locals, Goto
  <1>2. \A f : SourcedBy(f)' = SourcedBy(f)
    BY <1>1 DEF SourcedBy
  <1>3. ASSUME NEW d \in Caller, Evaluating(d)'
        PROVE  WorkOf(d)'
    <2>1. Evaluating(d) /\ WorkOf(d)
      BY <1>1, <1>3 DEF Evaluating, OffersInv
    <2> QED BY <1>1, <1>2, <2>1 DEF WorkOf, Named
  <1>4. ASSUME NEW e \in Event, DeliveredTo(e)'
        PROVE  Named(response[e], e)'
    BY <1>1, <1>2, <1>4 DEF OffersInv, DeliveredTo, Named
  <1> QED BY <1>1, <1>2, <1>3, <1>4 DEF OffersInv

\* The row a dispatch serves is its signal's only one.
LEMMA OnlyRow ==
    ASSUME DeliveryInv, NEW c \in Caller, Serving(c), pos[c] <= Len(Subs[cur[c]])
    PROVE  cur[c] \in Event /\ Current(c) = Subs[cur[c]][1]
  <1>1. cur[c] \in Event /\ pos[c] \in 1 .. Len(Subs[cur[c]])
    BY ServedRow DEF DeliveryInv
  <1>2. Len(Subs[cur[c]]) = 1
    BY <1>1, OneSubscriber
  <1>3. pos[c] = 1
    BY <1>1, <1>2
  <1> QED BY <1>1, <1>3 DEF Current

\* The delivery completes with the result of its handler.
LEMMA StoreKeepsOffers ==
    ASSUME DeliveryInv, RepliesInv, OffersInv, NEW c \in Caller, StoreResponse(c)
    PROVE  OffersInv'
  <1>0. phase \in [Caller -> Resting \cup Dispatching] /\ TypeInv
    BY DEF DeliveryInv, TypeInv, TypeOK
  <1>1. /\ CompleteDelivery(c) /\ work' = [work EXCEPT ![c] = Idle]
        /\ phase[c] = "returned" /\ UNCHANGED <<decisions, cur>>
    BY DEF StoreResponse, CompleteDelivery
  <1>2. /\ Evaluating(c) /\ cur[c] \in Event /\ Handling(c)
        /\ \A d \in Caller \ {c} : ~Evaluating(d)
    BY <1>1, OneEvaluation DEF Evaluating
  <1>3. RowMoves(c, "COMPLETED")
    BY <1>0, <1>1, <1>2, FinishMoves DEF CompleteDelivery, DeliveryStatus
  <1>4. \A d \in Caller : ~Evaluating(d)'
    BY <1>0, <1>1, <1>2 DEF CompleteDelivery, Goto, Evaluating
  <1>5. Idle \in [step : Step, result : Result]
    BY NoResultType DEF Idle, Step
  <1>6. work' \in [Caller -> [step : Step, result : Result]]
    BY <1>1, <1>5 DEF OffersInv
  <1>7. \A f : SourcedBy(f)' = SourcedBy(f)
    BY <1>1 DEF SourcedBy
  <1>8. Named(work[c].result, cur[c])
    BY <1>1, <1>2 DEF OffersInv, WorkOf
  <1>9. ASSUME NEW e \in Event, DeliveredTo(e)', DeliveredTo(e) => Named(response[e], e)
        PROVE  Named(response[e], e)'
    <2>1. response' = [response EXCEPT ![cur[c]] = work[c].result] /\ response \in [Event -> Result]
      BY DEF StoreResponse, RepliesInv
    <2>2. CASE e = cur[c]
      <3>1. response'[e] = work[c].result
        BY <1>9, <2>1, <2>2
      <3> QED BY <1>7, <1>8, <2>2, <3>1 DEF Named
    <2>3. CASE e # cur[c]
      <3>1. response'[e] = response[e] /\ DeliveredTo(e)
        BY <1>3, <1>9, <2>1, <2>3, OneSubscriber DEF RowMoves, DeliveredTo
      <3> QED BY <1>7, <1>9, <3>1 DEF Named
    <2> QED BY <2>2, <2>3
  <1> QED BY <1>1, <1>4, <1>6, <1>7, <1>9 DEF OffersInv

\* When the process ends every handler is gone, and the rows stay.
LEMMA ForgetKeepsOffers ==
    ASSUME OffersInv, ProcessEnds, Forget
    PROVE  OffersInv'
  <1>1. \A d \in Caller : ~Evaluating(d)'
    BY DEF ProcessEnds, Evaluating
  <1>2. UNCHANGED <<decisions, response, delivery>>
    BY DEF ProcessEnds, Forget, durable
  <1>3. Idle \in [step : Step, result : Result]
    BY NoResultType DEF Idle, Step
  <1>4. work' \in [Caller -> [step : Step, result : Result]]
    BY <1>3 DEF Forget
  <1>5. \A f : SourcedBy(f)' = SourcedBy(f)
    BY <1>2 DEF SourcedBy
  <1>6. ASSUME NEW e \in Event, DeliveredTo(e)'
        PROVE  Named(response[e], e)'
    BY <1>2, <1>5, <1>6 DEF OffersInv, DeliveredTo, Named
  <1> QED BY <1>1, <1>2, <1>4, <1>5, <1>6 DEF OffersInv

-----------------------------------------------------------------------------
(***************************************************************************)
(* Runs without a fault.  A claim then finds a row nobody claimed before,  *)
(* and its handler is the only one the signal ever has.                    *)
(***************************************************************************)
RowOf(e) == delivery[e][Subs[e][1]]
MadeFor(e) == {n \in DOMAIN decisions : decisions[n].signal = e}

\* What the evaluation of a signal left behind at each status of its row.
EvaluatedOnce(e) ==
    /\ RowOf(e).status # "FAILED"
    /\ RowOf(e).status = "PROCESSING" => \E c \in Caller : Evaluating(c) /\ cur[c] = e
    /\ RowOf(e).status = "NONE" => shown[e] = 0 /\ MadeFor(e) = {}
    /\ shown[e] <= 1
    /\ \A m, n \in MadeFor(e) : m = n

\* What a handler has not done yet at each of its steps.
NotYet(c) ==
    /\ work[c].step \in {"find", "agent", "selected"} => shown[cur[c]] = 0
    /\ work[c].step \in {"find", "agent", "selected", "shown"} => MadeFor(cur[c]) = {}

FaultlessInv ==
    faults = 0 =>
        /\ ~stopping
        /\ \A c \in Caller : phase[c] # "raised" /\ (Evaluating(c) => NotYet(c))
        /\ \A e \in Event : EvaluatedOnce(e)

\* Steps of the bus outside the handler.  A faultless one starts no handler,
\* ends none, and touches no row.
LEMMA FaultlessKept ==
    ASSUME FaultlessInv, UNCHANGED <<decisions, shown, work>>,
           faults' = 0 =>
             /\ faults = 0 /\ stopping' = stopping
             /\ \A d \in Caller : /\ phase'[d] # "raised"
                                  /\ Evaluating(d)' <=> Evaluating(d)
                                  /\ Evaluating(d)' => cur'[d] = cur[d]
             /\ \A e \in Event : RowOf(e)'.status = RowOf(e).status
    PROVE  FaultlessInv'
  <1> SUFFICES ASSUME faults' = 0
               PROVE  /\ ~stopping'
                      /\ \A c \in Caller : phase'[c] # "raised" /\ (Evaluating(c)' => NotYet(c)')
                      /\ \A e \in Event : EvaluatedOnce(e)'
    BY DEF FaultlessInv
  <1>1. \A e : MadeFor(e)' = MadeFor(e)
    BY DEF MadeFor
  <1>2. ASSUME NEW c \in Caller, Evaluating(c)'
        PROVE  NotYet(c)'
    BY <1>1, <1>2 DEF FaultlessInv, NotYet
  <1>3. ASSUME NEW e \in Event
        PROVE  EvaluatedOnce(e)'
    BY <1>1, <1>3 DEF FaultlessInv, EvaluatedOnce
  <1> QED BY <1>2, <1>3 DEF FaultlessInv

\* A fault can only be counted.
LEMMA FaultsShow ==
    ASSUME DeliveryInv, Fault
    PROVE  faults' # 0
  BY DEF DeliveryInv, TypeInv, TypeOK, Fault

\* The bus outside the handler, and how the handler ends.
LEMMA BusKeepsFaultless ==
    ASSUME DeliveryInv, FaultlessInv, UNCHANGED <<decisions, shown, work>>,
           \/ UNCHANGED vars
           \/ \E e \in Event : Emit(e)
           \/ \E r \in Request, k \in Event : Call(r, {k})
           \/ \E c \in Caller : \/ BusStep(c) \/ BusFault(c) \/ Return(c)
                                \/ HandlerRaises(c) \/ HandlerReturns(c)
           \/ PollerTick \/ Shutdown \/ Restart
    PROVE  FaultlessInv'
  <1>0. phase \in [Caller -> Resting \cup Dispatching]
    BY DEF DeliveryInv, TypeInv, TypeOK
  <1>1. CASE UNCHANGED vars
    BY <1>1, FaultlessKept DEF vars, RowOf, Evaluating, FaultlessInv
  <1>2. CASE (\E e \in Event : Emit(e)) \/ Restart
    BY <1>2, FaultlessKept DEF Emit, Restart, durable, locals, RowOf, Evaluating, FaultlessInv
  <1>3. CASE \/ Shutdown
             \/ \E c \in Caller : BusFault(c) \/ HandlerRaises(c)
    BY <1>3, FaultsShow
       DEF Shutdown, BusFault, LoadFails, TransactionFails, HandlerRaises, FaultlessInv
  <1>4. ASSUME NEW c \in Caller, NEW ph, ph # "raised", Goto(c, ph), faults' = faults,
               stopping' = stopping, delivery' = delivery,
               ph \in {"handling", "returned"} <=> Evaluating(c),
               Evaluating(c) => cur'[c] = cur[c],
               \A d \in Caller \ {c} : cur'[d] = cur[d]
        PROVE  FaultlessInv'
    <2>1. \A d \in Caller \ {c} : phase'[d] = phase[d]
      BY <1>0, <1>4 DEF Goto
    <2>2. phase'[c] = ph
      BY <1>0, <1>4 DEF Goto
    <2> QED BY <1>4, <2>1, <2>2, FaultlessKept DEF RowOf, Evaluating, FaultlessInv
  <1>5. ASSUME NEW c \in Caller, \E k \in Event : Call(c, {k})
        PROVE  FaultlessInv'
    BY <1>4, <1>5 DEF Call, Evaluating, durable, locals
  <1>6. CASE PollerTick
    BY <1>4, <1>6 DEF PollerTick, Evaluating, durable, locals, Caller
  <1>7. ASSUME NEW c \in Caller, Return(c)
        PROVE  FaultlessInv'
    <2>1. PICK ph : ph = IF c = Poller THEN "idle" ELSE "ok"
      OBVIOUS
    <2> QED BY <1>4, <1>7, <2>1 DEF Return, Evaluating, durable, locals
  <1>8. ASSUME NEW c \in Caller, HandlerReturns(c)
        PROVE  FaultlessInv'
    BY <1>4, <1>8 DEF HandlerReturns, Evaluating, durable, locals
  <1>9. ASSUME NEW c \in Caller, BusStep(c)
         PROVE  FaultlessInv'
    <2>1. CASE Load(c)
      BY <1>4, <2>1 DEF Load, Evaluating, durable
    <2>2. CASE \E e \in Event : StartEvent(c, e)
      <3>1. /\ phase[c] = "next" /\ Goto(c, "subscriber") /\ faults' = faults
            /\ stopping' = stopping /\ delivery' = delivery
            /\ \A d \in Caller \ {c} : cur'[d] = cur[d]
        BY <2>2 DEF StartEvent, DeliveryInv, TypeInv, TypeOK
      <3> QED BY <1>4, <3>1 DEF Evaluating
    <2>3. CASE SkipCompleted(c)
      <3>1. /\ phase' = phase /\ faults' = faults /\ stopping' = stopping
            /\ delivery' = delivery /\ cur' = cur
        BY <2>3 DEF SkipCompleted, durable
      <3> QED BY <3>1, FaultlessKept DEF RowOf, Evaluating, FaultlessInv
    <2>4. CASE FailDelivery(c)
      BY <2>4, FaultlessKept DEF FailDelivery, FaultlessInv
    <2>5. CASE MarkPublished(c)
      BY <1>4, <2>5 DEF MarkPublished, Evaluating
    <2> QED BY <1>9, <2>1, <2>2, <2>3, <2>4, <2>5 DEF BusStep
  <1> QED BY <1>1, <1>2, <1>3, <1>5, <1>6, <1>7, <1>8, <1>9 DEF Caller

\* The end of the process is a fault, or follows one.
LEMMA EndKeepsFaultless ==
    ASSUME DeliveryInv, FaultlessInv, Crash \/ PollerExits
    PROVE  FaultlessInv'
  BY FaultsShow DEF Crash, PollerExits, FaultlessInv

\* A step of the handler that runs: only what it says of its own signal is
\* left to show.
LEMMA HandlerKeepsFaultless ==
    ASSUME DeliveryInv, OffersInv, FaultlessInv, NEW c \in Caller, phase[c] = "handling",
           UNCHANGED vars, NEW s, NEW u, Advance(c, s, u),
           \A e \in Event \ {cur[c]} : shown'[e] = shown[e] /\ MadeFor(e)' = MadeFor(e),
           faults = 0 =>
             /\ shown'[cur[c]] <= 1
             /\ \A m, n \in MadeFor(cur[c])' : m = n
             /\ s \in {"find", "agent", "selected"} => shown'[cur[c]] = 0
             /\ s \in {"find", "agent", "selected", "shown"} => MadeFor(cur[c])' = {}
    PROVE  FaultlessInv'
  <1> SUFFICES ASSUME faults = 0
               PROVE  FaultlessInv'
    BY DEF FaultlessInv, vars
  <1>1. /\ Evaluating(c) /\ cur[c] \in Event /\ Handling(c)
        /\ \A d \in Caller \ {c} : ~Evaluating(d)
    BY OneEvaluation DEF Evaluating
  <1>2. cur' = cur /\ phase' = phase /\ delivery' = delivery /\ stopping' = stopping
    BY DEF vars
  <1>3. work'[c].step = s
    BY DEF Advance, OffersInv
  <1>4. NotYet(c)'
    BY <1>2, <1>3 DEF NotYet
  <1>5. Serving(c) /\ pos[c] <= Len(Subs[cur[c]]) /\ Served(c).status = "PROCESSING"
    BY <1>1 DEF DeliveryInv, TypeInv, CursorInv, ClaimInv, Serving, Handling
  <1>6. RowOf(cur[c]).status = "PROCESSING"
    BY <1>5, OnlyRow DEF RowOf, Served
  <1>7. ASSUME NEW e \in Event
        PROVE  EvaluatedOnce(e)'
    <2>1. EvaluatedOnce(e)
      BY DEF FaultlessInv
    <2>2. CASE e = cur[c]
      BY <1>1, <1>2, <1>6, <2>2 DEF EvaluatedOnce, RowOf, Evaluating
    <2>3. CASE e # cur[c]
      BY <1>2, <2>1, <2>3 DEF EvaluatedOnce, RowOf, Evaluating
    <2> QED BY <2>2, <2>3
  <1> QED BY <1>1, <1>2, <1>4, <1>7 DEF FaultlessInv, Evaluating

\* The handler up to the offer it shows.
LEMMA ThinkingKeepsFaultless ==
    ASSUME DeliveryInv, OffersInv, FaultlessInv, shown \in [Event -> Nat], NEW c \in Caller,
           \/ FindDecision(c) \/ StartAgent(c) \/ SelectOffer(c) \/ NoOffer(c)
           \/ ShowOffer(c) \/ ShowFails(c)
    PROVE  FaultlessInv'
  <1>1. phase[c] = "handling" /\ UNCHANGED vars /\ decisions' = decisions
    BY DEF FindDecision, StartAgent, SelectOffer, NoOffer, ShowOffer, ShowFails, At
  <1>2. cur[c] \in Event /\ Evaluating(c) /\ cur' = cur
    BY <1>1, OneEvaluation DEF Evaluating, vars
  <1>3. /\ \A e : MadeFor(e)' = MadeFor(e)
        /\ MadeFor(cur[c])' = MadeFor(cur[c])
    BY <1>1, <1>2 DEF MadeFor
  <1>4. faults = 0 => /\ NotYet(c) /\ shown[cur[c]] <= 1
                      /\ \A m, n \in MadeFor(cur[c]) : m = n
    BY <1>2 DEF FaultlessInv, EvaluatedOnce
  <1>5. CASE shown' = shown
    <2>1. PICK s, u :
            /\ Advance(c, s, u)
            /\ s = "agent" => work[c].step = "find"
            /\ s = "selected" => work[c].step = "agent"
            /\ s = "shown" => work[c].step = "selected"
            /\ s # "find"
      BY <1>5 DEF FindDecision, StartAgent, SelectOffer, NoOffer, ShowOffer, ShowFails, At
    <2>2. faults = 0 =>
             /\ s \in {"find", "agent", "selected"} => shown'[cur[c]] = 0
             /\ s \in {"find", "agent", "selected", "shown"} => MadeFor(cur[c])' = {}
      BY <1>3, <1>4, <1>5, <2>1 DEF NotYet
    <2> QED BY <1>1, <1>3, <1>4, <1>5, <2>1, <2>2, HandlerKeepsFaultless
  <1>6. CASE ShowOffer(c)
    <2>1. /\ work[c].step = "selected" /\ Advance(c, "shown", NoResult)
          /\ shown' = [shown EXCEPT ![cur[c]] = shown[cur[c]] + 1]
      BY <1>6 DEF ShowOffer, At
    <2>2. /\ shown'[cur[c]] = shown[cur[c]] + 1
          /\ \A e \in Event \ {cur[c]} : shown'[e] = shown[e]
      BY <1>2, <2>1
    <2>3. faults = 0 => shown'[cur[c]] <= 1 /\ MadeFor(cur[c])' = {}
      BY <1>3, <1>4, <2>1, <2>2 DEF NotYet
    <2> QED BY <1>1, <1>3, <2>1, <2>2, <2>3, HandlerKeepsFaultless
  <1> QED BY <1>5, <1>6 DEF FindDecision, StartAgent, SelectOffer, NoOffer, ShowFails

\* RecordOffer writes the first decision made for its signal.
LEMMA RecordKeepsFaultless ==
    ASSUME DeliveryInv, OffersInv, FaultlessInv, NEW c \in Caller, RecordOffer(c)
    PROVE  FaultlessInv'
  <1> DEFINE row == [signal |-> cur[c], source |-> NoEvent]
             n == Len(decisions) + 1
  <1>1. /\ phase[c] = "handling" /\ UNCHANGED vars /\ shown' = shown
        /\ work[c].step = "shown"
        /\ decisions' = Append(decisions, row) /\ Advance(c, "settle", Offer(n))
    BY DEF RecordOffer, At
  <1>2. cur[c] \in Event /\ Evaluating(c) /\ cur' = cur
    BY <1>1, OneEvaluation DEF Evaluating, vars
  <1>3. row \in Made /\ row.signal = cur[c]
    BY <1>2 DEF Made
  <1>4. decisions \in Seq(Made) /\ n \in Nat \ {0} /\ DOMAIN decisions = 1 .. n - 1
    BY DEF OffersInv
  <1> HIDE DEF row, n
  <1>5. /\ DOMAIN decisions' = 1 .. n /\ decisions'[n] = row
        /\ \A i \in 1 .. n - 1 : decisions'[i] = decisions[i]
    BY <1>1, <1>3, <1>4 DEF n
  <1>6. \A f \in Event \ {cur[c]} : MadeFor(f)' = MadeFor(f)
    BY <1>3, <1>4, <1>5 DEF MadeFor
  <1>7. faults = 0 => MadeFor(cur[c]) = {} /\ shown[cur[c]] <= 1
    BY <1>1, <1>2 DEF FaultlessInv, EvaluatedOnce, NotYet
  <1>8. faults = 0 => \A i, j \in MadeFor(cur[c])' : i = j
    BY <1>2, <1>4, <1>5, <1>7 DEF MadeFor
  <1> QED BY <1>1, <1>6, <1>7, <1>8, HandlerKeepsFaultless

\* Settle gives a decision its source, not a new signal.
LEMMA SettleKeepsFaultless ==
    ASSUME DeliveryInv, OffersInv, FaultlessInv, NEW c \in Caller, Settle(c)
    PROVE  FaultlessInv'
  <1>1. /\ phase[c] = "handling" /\ UNCHANGED vars /\ shown' = shown
        /\ \/ decisions' = decisions
           \/ decisions' = [decisions EXCEPT ![work[c].result.id].source = cur[c]]
    BY DEF Settle, At
  <1>2. PICK u : Advance(c, "done", u)
    BY DEF Settle
  <1>3. cur[c] \in Event /\ cur' = cur
    BY <1>1, OneEvaluation DEF Evaluating, vars
  <1>4. decisions \in Seq(Made)
    BY DEF OffersInv
  <1>5. /\ DOMAIN decisions' = DOMAIN decisions
        /\ \A i \in DOMAIN decisions : decisions'[i].signal = decisions[i].signal
    <2>1. \A i \in DOMAIN decisions : decisions[i] \in Made
      BY <1>4
    <2>2. CASE decisions' = decisions
      BY <2>2
    <2>3. CASE decisions' = [decisions EXCEPT ![work[c].result.id].source = cur[c]]
      BY <2>1, <2>3 DEF Made
    <2> QED BY <1>1, <2>2, <2>3
  <1>6. /\ \A f \in Event : MadeFor(f)' = MadeFor(f)
        /\ MadeFor(cur[c])' = MadeFor(cur[c])
    BY <1>3, <1>5 DEF MadeFor
  <1>7. faults = 0 => shown[cur[c]] <= 1 /\ \A m, n \in MadeFor(cur[c]) : m = n
    BY <1>3 DEF FaultlessInv, EvaluatedOnce
  <1> QED BY <1>1, <1>2, <1>6, <1>7, HandlerKeepsFaultless

\* A claimed row was never claimed before: its last claim would have ended in
\* a completion, or would hold the lock now.
LEMMA CallKeepsFaultless ==
    ASSUME DeliveryInv, OffersInv, FaultlessInv, NEW c \in Caller, CallHandler(c)
    PROVE  FaultlessInv'
  <1>0. phase \in [Caller -> Resting \cup Dispatching] /\ TypeInv
    BY DEF DeliveryInv, TypeInv, TypeOK
  <1>1. /\ ClaimDelivery(c) /\ work' = [work EXCEPT ![c] = Idle]
        /\ UNCHANGED <<decisions, shown, cur, faults, stopping>>
    BY DEF CallHandler, ClaimDelivery, locals
  <1>2. Busy(c) /\ RowMoves(c, "PROCESSING") /\ Serving(c) /\ pos[c] <= Len(Subs[cur[c]])
    BY <1>0, <1>1, ClaimMoves DEF ClaimDelivery, AtSubscriber, Busy, Dispatching, Serving
  <1>3. cur[c] \in Event /\ Current(c) = Subs[cur[c]][1]
    BY <1>2, OnlyRow
  <1>4. Holds(c) /\ \A d \in Caller : ~Evaluating(d)
    BY <1>0, <1>1, <1>2
       DEF TypeInv, LockInv, Holds, ClaimDelivery, AtSubscriber, Evaluating, Busy, Dispatching
  <1>5. /\ phase'[c] = "handling" /\ work'[c].step = "find"
        /\ \A d \in Caller \ {c} : phase'[d] = phase[d]
    BY <1>0, <1>1 DEF ClaimDelivery, Goto, OffersInv, Idle
  <1>6. /\ RowOf(cur[c])'.status = "PROCESSING"
        /\ \A e \in Event \ {cur[c]} : RowOf(e)' = RowOf(e)
    BY <1>1, <1>2, <1>3, OneSubscriber DEF RowMoves, RowOf
  <1>7. \A e : MadeFor(e)' = MadeFor(e)
    BY <1>1 DEF MadeFor
  <1> SUFFICES ASSUME faults = 0
               PROVE  FaultlessInv'
    BY <1>1 DEF FaultlessInv
  <1>8. shown[cur[c]] = 0 /\ MadeFor(cur[c]) = {}
    <2>1. RowOf(cur[c]).status \in {"NONE", "PROCESSING", "FAILED"}
      <3>1. Served(c).status # "COMPLETED" /\ Served(c).status \in DeliveryStatus
        BY <1>0, <1>1, <1>2, ServedRow DEF ClaimDelivery
      <3> QED BY <1>3, <3>1 DEF Served, RowOf, DeliveryStatus
    <2> QED BY <1>3, <1>4, <2>1 DEF FaultlessInv, EvaluatedOnce
  <1>9. NotYet(c)'
    BY <1>1, <1>7, <1>8 DEF NotYet
  <1>10. ASSUME NEW e \in Event
         PROVE  EvaluatedOnce(e)'
    <2>1. EvaluatedOnce(e) /\ RowOf(e).status # "PROCESSING"
      BY <1>4, <1>10 DEF FaultlessInv, EvaluatedOnce
    <2>2. CASE e = cur[c]
      BY <1>1, <1>5, <1>6, <1>7, <2>1, <2>2 DEF EvaluatedOnce, Evaluating
    <2>3. CASE e # cur[c]
      BY <1>1, <1>6, <1>7, <2>1, <2>3 DEF EvaluatedOnce
    <2> QED BY <2>2, <2>3
  <1>11. \A d \in Caller : phase'[d] # "raised" /\ (Evaluating(d)' => d = c)
    BY <1>4, <1>5 DEF FaultlessInv, Evaluating
  <1> QED BY <1>1, <1>9, <1>10, <1>11 DEF FaultlessInv

\* The delivery completes, and nobody else's was in progress.
LEMMA StoreKeepsFaultless ==
    ASSUME DeliveryInv, OffersInv, FaultlessInv, NEW c \in Caller, StoreResponse(c)
    PROVE  FaultlessInv'
  <1>0. phase \in [Caller -> Resting \cup Dispatching] /\ TypeInv
    BY DEF DeliveryInv, TypeInv, TypeOK
  <1>1. /\ CompleteDelivery(c) /\ phase[c] = "returned"
        /\ UNCHANGED <<decisions, shown, cur, faults, stopping>>
    BY DEF StoreResponse, CompleteDelivery
  <1>2. /\ Evaluating(c) /\ cur[c] \in Event /\ Handling(c) /\ Serving(c)
        /\ \A d \in Caller \ {c} : ~Evaluating(d)
    BY <1>1, OneEvaluation DEF Evaluating, Serving
  <1>3. RowMoves(c, "COMPLETED")
    BY <1>0, <1>1, <1>2, FinishMoves DEF CompleteDelivery, DeliveryStatus
  <1>4. Current(c) = Subs[cur[c]][1]
    BY <1>0, <1>2, OnlyRow DEF TypeInv, CursorInv
  <1>5. phase'[c] = "subscriber" /\ \A d \in Caller \ {c} : phase'[d] = phase[d]
    BY <1>0, <1>1 DEF CompleteDelivery, Goto
  <1>6. /\ RowOf(cur[c])'.status = "COMPLETED"
        /\ \A e \in Event \ {cur[c]} : RowOf(e)' = RowOf(e)
    BY <1>1, <1>2, <1>3, <1>4, OneSubscriber DEF RowMoves, RowOf
  <1>7. \A e : MadeFor(e)' = MadeFor(e)
    BY <1>1 DEF MadeFor
  <1> SUFFICES ASSUME faults = 0
               PROVE  FaultlessInv'
    BY <1>1 DEF FaultlessInv
  <1>8. ASSUME NEW e \in Event
        PROVE  EvaluatedOnce(e)'
    <2>1. EvaluatedOnce(e) /\ (RowOf(e).status = "PROCESSING" => e = cur[c])
      BY <1>2, <1>8 DEF FaultlessInv, EvaluatedOnce
    <2>2. CASE e = cur[c]
      BY <1>1, <1>6, <1>7, <2>1, <2>2 DEF EvaluatedOnce
    <2>3. CASE e # cur[c]
      BY <1>1, <1>6, <1>7, <2>1, <2>3 DEF EvaluatedOnce
    <2> QED BY <2>2, <2>3
  <1>9. \A d \in Caller : phase'[d] # "raised" /\ ~Evaluating(d)'
    BY <1>2, <1>5 DEF FaultlessInv, Evaluating
  <1> QED BY <1>1, <1>8, <1>9 DEF FaultlessInv

-----------------------------------------------------------------------------
(***************************************************************************)
(* All of it, over every step.                                             *)
(***************************************************************************)
PlainTypes ==
    /\ shown \in [Event -> Nat]
    /\ sessions \in [Session -> {"new", "open", "gone"}]
    /\ turn \in {<<>>} \cup (Request \X Event)

EngInv == ReceiptsInv /\ RepliesInv /\ OffersInv /\ FaultlessInv /\ PlainTypes

\* Counts, contexts and the running turn keep their types.
LEMMA PlainTypesKept ==
    ASSUME DeliveryInv, PlainTypes, [EngNext]_allVars
    PROVE  PlainTypes'
  <1> USE DEF PlainTypes
  <1>1. ASSUME NEW s \in Session, CreateSession(s) \/ CloseSession(s)
        PROVE  PlainTypes'
    BY <1>1 DEF CreateSession, CloseSession
  <1>2. ASSUME NEW r \in Request, NEW k \in Event, DispatchSignal(r, k)
        PROVE  PlainTypes'
    BY <1>2 DEF DispatchSignal
  <1>3. ASSUME NEW r \in Request, ViewStep(r)
        PROVE  PlainTypes'
    <2>1. shown' = shown /\ sessions' = sessions
      BY <1>3 DEF ViewStep, ViewRecorded, ViewUnfinished, ViewSignals, ReplayCompleted,
                  ReplayUnfinished, ReplaySignal, FinishView, FinishFails, engVars
    <2>2. turn' = turn \/ \E k \in Event : turn' = <<r, k>>
      BY <1>3 DEF ViewStep, ViewRecorded, ViewUnfinished, ViewSignals, ReplayCompleted,
                  ReplayUnfinished, ReplaySignal, FinishView, FinishFails, engVars
    <2> QED BY <2>1, <2>2
  <1>4. ASSUME NEW c \in Caller, HandlerStep(c)
        PROVE  PlainTypes'
    <2>1. cur[c] \in Event
      BY <1>4, OneEvaluation
         DEF Evaluating, HandlerStep, FindDecision, StartAgent, SelectOffer, NoOffer, ShowOffer,
             ShowFails, RecordOffer, Settle, At
    <2>2. turn' = turn
      BY <1>4 DEF HandlerStep, FindDecision, StartAgent, SelectOffer, NoOffer, ShowOffer,
                  ShowFails, RecordOffer, Settle
    <2>3. \/ shown' = shown
          \/ shown' = [shown EXCEPT ![cur[c]] = shown[cur[c]] + 1]
      BY <1>4 DEF HandlerStep, FindDecision, StartAgent, SelectOffer, NoOffer, ShowOffer,
                  ShowFails, RecordOffer, Settle
    <2>4. \/ sessions' = sessions
          \/ sessions' = [sessions EXCEPT ![receipts[cur[c]].view.session] = "open"]
      BY <1>4 DEF HandlerStep, FindDecision, StartAgent, SelectOffer, NoOffer, ShowOffer,
                  ShowFails, RecordOffer, Settle
    <2> QED BY <2>1, <2>2, <2>3, <2>4
  <1>5. ASSUME NEW c \in Caller,
               \/ BusStep(c) \/ CallHandler(c) \/ HandlerDone(c) \/ StoreResponse(c)
               \/ HandlerBreaks(c) \/ BusFault(c)
        PROVE  PlainTypes'
    BY <1>5 DEF BusStep, CallHandler, HandlerDone, StoreResponse, HandlerBreaks, BusFault, engVars
  <1>6. CASE PollerStep \/ ((Shutdown \/ Restart) /\ UNCHANGED engVars)
    BY <1>6 DEF PollerStep, engVars
  <1>7. CASE Forget
    BY <1>7 DEF Forget
  <1>8. CASE UNCHANGED allVars
    BY <1>8 DEF allVars, engVars
  <1>9. ASSUME NEW c \in Caller, DispatchStep(c) \/ HandlerBreaks(c) \/ BusFault(c)
        PROVE  PlainTypes'
    BY <1>4, <1>5, <1>9 DEF DispatchStep
  <1> HIDE DEF PlainTypes
  <1> QED BY <1>1, <1>2, <1>3, <1>6, <1>7, <1>8, <1>9 DEF EngNext

\* Steps of the bus around which this module's state stays as it is.
LEMMA BusKeepsEng ==
    ASSUME DeliveryInv, EngInv, UNCHANGED <<receipts, decisions, shown, response, work, answered>>,
           \/ UNCHANGED vars
           \/ \E r \in Request, k \in Event : Call(r, {k})
           \/ \E c \in Caller : \/ BusStep(c) \/ BusFault(c) \/ Return(c)
                                \/ HandlerRaises(c)
           \/ PollerTick \/ Shutdown \/ Restart
    PROVE  ReceiptsInv' /\ RepliesInv' /\ OffersInv' /\ FaultlessInv'
  <1>1. OffersInv'
    BY BusKeepsOffers DEF EngInv
  <1>2. FaultlessInv'
    BY BusKeepsFaultless DEF EngInv
  <1>3. OutboxStands
    <2>1. \/ outbox' = outbox
          \/ \E c \in Caller : (\E f \in Event : StartEvent(c, f)) \/ MarkPublished(c)
      BY DEF vars, Call, BusStep, BusFault, Return, HandlerRaises, PollerTick, Shutdown, Restart,
             Load, SkipCompleted, FailDelivery, LoadFails, TransactionFails, durable
    <2>2. CASE outbox' = outbox
      BY <2>2 DEF OutboxStands, Signalled
    <2>3. CASE \E c \in Caller : (\E f \in Event : StartEvent(c, f)) \/ MarkPublished(c)
      BY <2>3, BusStands DEF Next, Dispatch
    <2> QED BY <2>1, <2>2, <2>3
  <1>4. ReceiptsInv' /\ RepliesInv'
    BY <1>3, RepliesKept DEF EngInv
  <1> QED BY <1>1, <1>2, <1>4

\* A step of a view request.
LEMMA ViewKeepsEng ==
    ASSUME DeliveryInv, AnswerInv, EngInv, NEW r \in Request, ViewStep(r)
    PROVE  ReceiptsInv' /\ RepliesInv' /\ OffersInv' /\ FaultlessInv'
  <1>1. r \in Caller
    BY DEF Caller
  <1>2. ASSUME NEW k \in Event, NEW v \in View,
               \/ ViewRecorded(r, k, v) \/ ViewUnfinished(r, k, v) \/ ViewSignals(r, k, v)
               \/ ReplayCompleted(r, k, v) \/ ReplayUnfinished(r, k, v)
        PROVE  ReceiptsInv' /\ RepliesInv' /\ OffersInv' /\ FaultlessInv'
    <2>1. ReceiptsInv' /\ RepliesInv'
      BY <1>2, ViewKeepsReplies, SignalKeepsReplies, ReplayKeepsReplies DEF EngInv
    <2>2. /\ UNCHANGED vars \/ Emit(k)
          /\ UNCHANGED <<decisions, shown, response, work>>
      BY <1>2 DEF ViewRecorded, ViewUnfinished, ViewSignals, ReplayCompleted, ReplayUnfinished
    <2>3. OffersInv'
      BY <2>2, BusKeepsOffers DEF EngInv
    <2>4. FaultlessInv'
      BY <2>2, BusKeepsFaultless DEF EngInv
    <2> QED BY <2>1, <2>3, <2>4
  <1>3. ASSUME NEW k \in Event, NEW v \in View, ReplaySignal(r, k, v)
        PROVE  ReceiptsInv' /\ RepliesInv' /\ OffersInv' /\ FaultlessInv'
    BY <1>3, BusKeepsEng DEF ReplaySignal, engVars
  <1>4. CASE FinishView(r)
    <2>1. ReceiptsInv' /\ RepliesInv'
      BY <1>4, FinishKeepsReplies DEF EngInv
    <2>2. Return(r) /\ UNCHANGED <<decisions, shown, response, work>>
      BY <1>4 DEF FinishView
    <2>3. OffersInv'
      BY <1>1, <2>2, BusKeepsOffers DEF EngInv
    <2>4. FaultlessInv'
      BY <1>1, <2>2, BusKeepsFaultless DEF EngInv
    <2> QED BY <2>1, <2>3, <2>4
  <1>5. CASE FinishFails(r)
    BY <1>1, <1>5, BusKeepsEng DEF FinishFails, engVars
  <1> QED BY <1>2, <1>3, <1>4, <1>5 DEF ViewStep

\* A step of the handler.
LEMMA HandlerKeepsEng ==
    ASSUME DeliveryInv, EngInv, NEW c \in Caller, HandlerStep(c)
    PROVE  ReceiptsInv' /\ RepliesInv' /\ OffersInv' /\ FaultlessInv'
  <1>1. UNCHANGED <<vars, receipts, answered, response>>
    BY DEF HandlerStep, FindDecision, StartAgent, SelectOffer, NoOffer, ShowOffer, ShowFails,
           RecordOffer, Settle
  <1>2. OutboxStands
    BY <1>1 DEF OutboxStands, Signalled, vars
  <1>3. ReceiptsInv' /\ RepliesInv'
    BY <1>1, <1>2, RepliesKept DEF EngInv
  <1>4. OffersInv'
    BY ThinkingKeepsOffers, RecordKeepsOffers, SettleKeepsOffers DEF EngInv, HandlerStep
  <1>5. FaultlessInv'
    BY ThinkingKeepsFaultless, RecordKeepsFaultless, SettleKeepsFaultless
       DEF EngInv, PlainTypes, HandlerStep
  <1> QED BY <1>3, <1>4, <1>5

\* A step of a dispatch.
LEMMA DispatchKeepsEng ==
    ASSUME DeliveryInv, EngInv, NEW c \in Caller,
           DispatchStep(c) \/ HandlerBreaks(c) \/ BusFault(c)
    PROVE  ReceiptsInv' /\ RepliesInv' /\ OffersInv' /\ FaultlessInv'
  <1>1. CASE BusStep(c) \/ BusFault(c) \/ HandlerBreaks(c)
    BY <1>1, BusKeepsEng DEF BusStep, BusFault, HandlerBreaks, engVars
  <1>2. CASE HandlerStep(c)
    BY <1>2, HandlerKeepsEng
  <1>3. CASE CallHandler(c) \/ HandlerDone(c)
    <2>1. /\ UNCHANGED <<outbox, receipts, answered, response, decisions, shown>>
      BY <1>3 DEF CallHandler, ClaimDelivery, HandlerDone, HandlerReturns, engVars, durable
    <2>2. OutboxStands
      BY <2>1 DEF OutboxStands, Signalled
    <2>3. ReceiptsInv' /\ RepliesInv'
      BY <2>1, <2>2, RepliesKept DEF EngInv
    <2>4. OffersInv'
      BY <1>3, CallKeepsOffers, DoneKeepsOffers DEF EngInv
    <2>5. CASE HandlerDone(c)
      BY <2>1, <2>3, <2>4, <2>5, BusKeepsFaultless DEF HandlerDone, EngInv, engVars
    <2>6. CASE CallHandler(c)
      BY <2>3, <2>4, <2>6, CallKeepsFaultless DEF EngInv
    <2> QED BY <1>3, <2>5, <2>6
  <1>4. CASE StoreResponse(c)
    <2>1. work[c].result \in Result
      BY DEF EngInv, OffersInv
    <2> QED BY <1>4, <2>1, StoreKeepsReplies, StoreKeepsOffers, StoreKeepsFaultless DEF EngInv
  <1> QED BY <1>1, <1>2, <1>3, <1>4 DEF DispatchStep

\* Every step keeps the invariant.
LEMMA NextEngInv ==
    ASSUME DeliveryInv, AnswerInv, EngInv, [EngNext]_allVars
    PROVE  EngInv'
  <1> SUFFICES ReceiptsInv' /\ RepliesInv' /\ OffersInv' /\ FaultlessInv'
    BY PlainTypesKept DEF EngInv
  <1>1. ASSUME NEW r \in Request, NEW k \in Event, DispatchSignal(r, k)
        PROVE  ReceiptsInv' /\ RepliesInv' /\ OffersInv' /\ FaultlessInv'
    BY <1>1, BusKeepsEng DEF DispatchSignal
  <1>2. ASSUME NEW s \in Session, CreateSession(s) \/ CloseSession(s)
        PROVE  ReceiptsInv' /\ RepliesInv' /\ OffersInv' /\ FaultlessInv'
    BY <1>2, BusKeepsEng DEF CreateSession, CloseSession
  <1>3. CASE \E r \in Request : ViewStep(r)
    BY <1>3, ViewKeepsEng
  <1>4. CASE \E c \in Caller : DispatchStep(c) \/ HandlerBreaks(c) \/ BusFault(c)
    BY <1>4, DispatchKeepsEng
  <1>5. CASE PollerStep \/ ((Shutdown \/ Restart) /\ UNCHANGED engVars)
    BY <1>5, BusKeepsEng DEF PollerStep, engVars, Caller
  <1>6. CASE (Crash \/ PollerExits) /\ Forget
    <2>1. ProcessEnds /\ UNCHANGED <<receipts, answered, response>>
      BY <1>6 DEF Crash, PollerExits, Forget
    <2>2. OutboxStands
      BY <2>1 DEF ProcessEnds, durable, OutboxStands, Signalled
    <2>3. ReceiptsInv' /\ RepliesInv'
      BY <2>1, <2>2, RepliesKept DEF EngInv
    <2> QED BY <1>6, <2>1, <2>3, ForgetKeepsOffers, EndKeepsFaultless DEF EngInv
  <1>7. CASE UNCHANGED allVars
    BY <1>7, BusKeepsEng DEF allVars, engVars
  <1> QED BY <1>1, <1>2, <1>3, <1>4, <1>5, <1>6, <1>7 DEF EngNext

\* The first state.
LEMMA InitEngInv == EngInit => EngInv
  <1> SUFFICES ASSUME EngInit
               PROVE  EngInv
    OBVIOUS
  <1>1. /\ NoReceipt \in Receipt /\ NoReceipt.status = "NONE"
        /\ Idle \in [step : Step, result : Result]
    BY NoResultType DEF Receipt, NoReceipt, Idle, Step
  <1>2. /\ \A e \in Event : receipts[e].status = "NONE" /\ outbox[e].status = "ABSENT"
        /\ \A e \in Event, s \in Subscriber : delivery[e][s].status = "NONE"
        /\ \A c \in Caller : phase[c] = "idle"
        /\ faults = 0 /\ stopping = FALSE
    BY <1>1 DEF EngInit, Init
  <1>3. ReceiptsInv
    <2>1. receipts \in [Event -> Receipt]
      BY <1>1 DEF EngInit
    <2>2. RecordedKeys = {}
      BY <1>2 DEF RecordedKeys, Recorded
    <2> QED BY <1>2, <2>1, <2>2, FS_EmptySet DEF ReceiptsInv, Recorded, Signalled
  <1>4. RepliesInv
    BY <1>2, NoResultType DEF EngInit, RepliesInv, CompletedIsEvaluated, Finished
  <1>5. /\ \A e : SourcedBy(e) = {} /\ MadeFor(e) = {}
        /\ decisions \in Seq(Made)
    BY DEF EngInit, SourcedBy, MadeFor
  <1>6. \A e \in Event : RowOf(e).status = "NONE" /\ ~DeliveredTo(e)
    BY <1>2, OneSubscriber DEF RowOf, DeliveredTo
  <1>7. OffersInv
    BY <1>1, <1>2, <1>5, <1>6 DEF EngInit, OffersInv, Evaluating
  <1>8. FaultlessInv
    BY <1>2, <1>5, <1>6 DEF EngInit, FaultlessInv, EvaluatedOnce, Evaluating
  <1>9. PlainTypes
    BY DEF EngInit, PlainTypes
  <1> QED BY <1>3, <1>4, <1>7, <1>8, <1>9 DEF EngInv

\* The invariant holds throughout, with those of the bus.
LEMMA EngInvariance == EngSpec => [](DeliveryInv /\ EngInv)
  <1>1. EngSpec => []DeliveryInv /\ []AnswerInv
    BY Composition, DeliveryInvariance, AnswerInvariance, PTL DEF ImplementsBus
  <1> QED BY <1>1, InitEngInv, NextEngInv, PTL DEF EngSpec

\* A product earns one signal per session, whatever keys, retries and
\* crashes its views went through.
THEOREM OneSignal == EngSpec => []OneSignalPerProduct
  <1>1. EngInv => OneSignalPerProduct
    BY DEF EngInv, ReceiptsInv, OneSignalPerProduct
  <1> QED BY <1>1, EngInvariance, PTL

\* A set with no two members has at most one.
LEMMA AtMostOne ==
    ASSUME NEW S, \A m, n \in S : m = n
    PROVE  Cardinality(S) <= 1
  <1>1. CASE S = {}
    BY <1>1, FS_EmptySet
  <1>2. ASSUME NEW x \in S
        PROVE  Cardinality(S) <= 1
    <2>1. S = {x}
      OBVIOUS
    <2> QED BY <2>1, FS_Singleton
  <1> QED BY <1>1, <1>2

\* Each signal sources at most one decision, made for it, and a published one
\* stored a result whose offer, if any, is that decision.
THEOREM DecisionsNamed == EngSpec => []DecisionsSourced
  <1>1. ASSUME DeliveryInv, EngInv
        PROVE  DecisionsSourced
    <2>1. EngTypeOK
      BY <1>1 DEF EngTypeOK, DeliveryInv, TypeInv, EngInv, ReceiptsInv, RepliesInv, OffersInv,
                  PlainTypes, Made
    <2>2. SourcedOnce
      BY <1>1, AtMostOne DEF EngInv, OffersInv, SourcedOnce
    <2>3. ASSUME NEW e \in Event, outbox[e].status = "PUBLISHED"
          PROVE  DeliveredTo(e)
      BY <1>1, <2>3, OneSubscriber
         DEF DeliveryInv, RowsInv, PublishedOnlyAfterAll, AllCompleted, DeliveredTo
    <2>4. PublishedNamesDecision
      BY <1>1, <2>3 DEF EngInv, OffersInv, Named, PublishedNamesDecision
    <2> QED BY <2>1, <2>2, <2>4 DEF DecisionsSourced
  <1> QED BY <1>1, EngInvariance, PTL

\* A signal leads to one offer, and every answer to its key carries it; the
\* offer is shown once unless something failed.
THEOREM OneOfferPerSignal == EngSpec => []OneOffer
  <1>1. ASSUME EngInv
        PROVE  OneOffer
    <2>1. SameOfferEveryTime /\ CompletedIsEvaluated
      BY <1>1 DEF EngInv, RepliesInv, SameOfferEveryTime
    <2>2. OneOfferWithoutFaults
      BY <1>1, AtMostOne DEF EngInv, FaultlessInv, EvaluatedOnce, MadeFor, OneOfferWithoutFaults
    <2> QED BY <2>1, <2>2 DEF OneOffer
  <1> QED BY <1>1, EngInvariance, PTL

-----------------------------------------------------------------------------
\* Composition.  A request that is inside the graph serves a purchase event.
StageInv ==
    /\ stage \in [Request -> [node : {"none", "dispatch", "bus", "refresh"},
                              event : Event \cup {NoEvent}]]
    /\ \A r \in Request : stage[r].node # "none" => stage[r].event \in Event

\* One request moves to a node of the graph, or leaves it.
LEMMA StageMoves ==
    ASSUME StageInv, NEW r \in Request,
           \/ stage' = [stage EXCEPT ![r] = NoStage]
           \/ \E node \in {"dispatch", "bus", "refresh"}, e \in Event : Enter(r, node, e)
    PROVE  StageInv'
  BY DEF StageInv, Enter, NoStage

\* Every step keeps the requests' places in the graph.
LEMMA NextStageInv ==
    ASSUME StageInv, [PurchaseNext]_allPurchaseVars
    PROVE  StageInv'
  <1>1. ASSUME NEW r \in Request, NEW e \in Event, ProcessPurchase(r, e) \/ ReplayPurchase(r, e)
        PROVE  StageInv'
    BY <1>1, StageMoves DEF ProcessPurchase, ReplayPurchase
  <1>2. ASSUME NEW r \in Request, DispatchPurchase(r) \/ Dispatched(r) PROVE StageInv'
    <2>1. stage[r].event \in Event
      BY <1>2 DEF DispatchPurchase, Dispatched, AtNode, StageInv
    <2> QED BY <1>2, <2>1, StageMoves DEF DispatchPurchase, Dispatched
  <1>3. ASSUME NEW r \in Request, DispatchFailed(r) \/ RefreshProfile(r) \/ RefreshFails(r)
        PROVE  StageInv'
    BY <1>3, StageMoves DEF DispatchFailed, RefreshProfile, RefreshFails
  <1>4. CASE \/ \E c \in Caller : PurchaseBusStep(c) \/ PurchaseBusFault(c)
             \/ PurchasePollerStep \/ ShutdownWhenIdle \/ (Restart /\ UNCHANGED purchaseVars)
             \/ UNCHANGED allPurchaseVars
    <2>1. stage' = stage
      BY <1>4 DEF PurchaseBusStep, PurchaseBusFault, PurchasePollerStep, ShutdownWhenIdle,
                  purchaseVars, allPurchaseVars
    <2> QED BY <2>1 DEF StageInv
  <1>5. CASE (Crash \/ PollerExits) /\ ForgetPurchases
    BY <1>5 DEF ForgetPurchases, StageInv, NoStage
  <1> QED BY <1>1, <1>2, <1>3, <1>4, <1>5 DEF PurchaseNext, Workflow

\* Every step of the composition is a step of the bus, or leaves it alone.
LEMMA PurchaseStepIsBusStep ==
    ASSUME StageInv, [PurchaseNext]_allPurchaseVars
    PROVE  Next \/ UNCHANGED vars
  <1>1. ASSUME NEW r \in Request, NEW e \in Event, ProcessPurchase(r, e) \/ ReplayPurchase(r, e)
        PROVE  Next \/ UNCHANGED vars
    BY <1>1 DEF ProcessPurchase, ReplayPurchase, Next
  <1>2. ASSUME NEW r \in Request, DispatchPurchase(r) PROVE Next
    <2>1. {stage[r].event} \in SUBSET Event /\ Call(r, {stage[r].event})
      BY <1>2 DEF DispatchPurchase, AtNode, StageInv
    <2> QED BY <2>1 DEF Next
  <1>3. ASSUME NEW r \in Request, Dispatched(r) PROVE Next
    BY <1>3 DEF Dispatched, Next, Dispatch, Caller
  <1>4. ASSUME NEW r \in Request, DispatchFailed(r) \/ RefreshProfile(r) \/ RefreshFails(r)
        PROVE  UNCHANGED vars
    BY <1>4 DEF DispatchFailed, RefreshProfile, RefreshFails
  <1>5. ASSUME NEW c \in Caller, PurchaseBusStep(c) \/ PurchaseBusFault(c) PROVE Next
    BY <1>5 DEF PurchaseBusStep, PurchaseBusFault, Next, Dispatch, Handler
  <1>6. CASE PurchasePollerStep
    BY <1>6 DEF PurchasePollerStep, Next, Dispatch, Caller
  <1>7. CASE \/ ShutdownWhenIdle
             \/ (Crash \/ PollerExits) /\ ForgetPurchases
             \/ Restart /\ UNCHANGED purchaseVars
    BY <1>7 DEF ShutdownWhenIdle, Next
  <1>8. CASE UNCHANGED allPurchaseVars
    BY <1>8 DEF allPurchaseVars
  <1>9. \A r \in Request : Workflow(r) \/ RefreshFails(r) => Next \/ UNCHANGED vars
    BY <1>2, <1>3, <1>4 DEF Workflow
  <1>10. CASE PurchaseNext
    BY <1>1, <1>5, <1>6, <1>7, <1>9, <1>10 DEF PurchaseNext
  <1> QED BY <1>8, <1>10

\* The graphs of all requests stay in step with what they serve.
LEMMA StageInvariance == PurchaseSpec => []StageInv
  <1>1. PurchaseInit => StageInv
    BY DEF PurchaseInit, StageInv, NoStage
  <1> QED BY <1>1, NextStageInv, PTL DEF PurchaseSpec

\* The purchase transactions, their graph and the bus together are still the
\* bus of ContextBus, so everything proved of the bus holds of them.
THEOREM PurchaseComposition == PurchaseSpec => PurchasesImplementBus
  <1>1. PurchaseInit => Init
    BY DEF PurchaseInit
  <1>2. StageInv /\ [PurchaseNext]_allPurchaseVars => [Next]_vars
    BY PurchaseStepIsBusStep
  <1> QED BY <1>1, <1>2, StageInvariance, PTL DEF PurchaseSpec, PurchasesImplementBus, Spec

\* The promises of the bus hold while it carries purchases: order, publication
\* after all subscribers, true answers, final receipts, the abstract delivery.
THEOREM PurchaseDelivery ==
    PurchaseSpec => /\ []ServedInOrder /\ []PublishedOnlyAfterAll /\ []AnswerMeansPublished
                    /\ CompletedIsFinal /\ ImplementsDelivery
BY PurchaseComposition, InOrder, PublishedSafe, AnswersTrue, CompletedForever, Refinement, PTL
   DEF PurchasesImplementBus

-----------------------------------------------------------------------------
(***************************************************************************)
(* Effects.  Rows: an inbox row, an outbox row and an order come together, *)
(* each order of one event.  Versions: the applied events are numbered     *)
(* from 2 to the customer's version, without a gap.  Audit: the history is *)
(* about applied events, so the chain's start is settled by the first one. *)
(***************************************************************************)
Taken == {o \in Order : orders[o] # NoOrder}

PurchaseRowsInv ==
    /\ PurchaseTypeOK
    /\ customer.segment = Segment(customer.loyalty)
    /\ \A e \in Event : Seen(e) <=> outbox[e].status # "ABSENT"
    /\ \A e \in Applied : orders[OrderOf[e]] = [at |-> OccurredAt[e], event |-> e]
    /\ IsFiniteSet(Taken)
    /\ \A o \in Taken : orders[o].event \in Applied /\ OrderOf[orders[o].event] = o

VersionsInv ==
    /\ IsFiniteSet(Applied)
    /\ customer.version = 1 + Cardinality(Applied)
    /\ customer.ledger = customer.version
    /\ \A e \in Applied : inbox[e].version \in 2 .. customer.version
    /\ \A e, f \in Applied : inbox[e].version = inbox[f].version => e = f
    /\ \A v \in 2 .. customer.version : \E e \in Applied : inbox[e].version = v

AuditInv == HistoryIsAudit /\ \A i \in DOMAIN history : history[i].event \in Applied

EffectsInv == PurchaseRowsInv /\ VersionsInv /\ AuditInv

\* Only a purchase's own transaction changes what a purchase writes.
LEMMA QuietStep ==
    ASSUME DeliveryInv, [PurchaseNext]_allPurchaseVars,
           ~ \E r \in Request, e \in Event : ProcessPurchase(r, e)
    PROVE  /\ UNCHANGED <<inbox, orders, customer, history>>
           /\ \A e \in Event : outbox'[e].status # "ABSENT" <=> outbox[e].status # "ABSENT"
  <1>1. ASSUME NEW r \in Request, NEW e \in Event, ReplayPurchase(r, e)
        PROVE  UNCHANGED <<inbox, orders, customer, history, outbox>>
    BY <1>1 DEF ReplayPurchase, vars
  <1>2. ASSUME NEW r \in Request, Workflow(r) \/ RefreshFails(r)
        PROVE  UNCHANGED <<inbox, orders, customer, history, outbox>>
    BY <1>2 DEF Workflow, DispatchPurchase, Dispatched, DispatchFailed, RefreshProfile,
                RefreshFails, Call, Return, durable, vars
  <1>3. ASSUME NEW c \in Caller, PurchaseBusStep(c) \/ PurchaseBusFault(c)
        PROVE  /\ UNCHANGED <<inbox, orders, customer, history>>
               /\ outbox' = outbox \/ (\E f \in Event : StartEvent(c, f)) \/ MarkPublished(c)
    BY <1>3 DEF PurchaseBusStep, PurchaseBusFault, purchaseVars, Load, SkipCompleted, ClaimDelivery,
                HandlerReturns, CompleteDelivery, FailDelivery, HandlerRaises, LoadFails,
                TransactionFails, durable
  <1>4. CASE PurchasePollerStep \/ ShutdownWhenIdle
    BY <1>4, DispatchKeepsCommitted
       DEF PurchasePollerStep, ShutdownWhenIdle, purchaseVars, PollerTick, Return, Shutdown, durable
  <1>5. CASE (Crash \/ PollerExits) /\ ForgetPurchases
    BY <1>5, DispatchKeepsCommitted DEF ForgetPurchases, Crash, PollerExits, ProcessEnds, durable
  <1>6. CASE (Restart /\ UNCHANGED purchaseVars) \/ UNCHANGED allPurchaseVars
    BY <1>6, DispatchKeepsCommitted DEF Restart, purchaseVars, allPurchaseVars, vars, durable
  <1> QED BY <1>1, <1>2, <1>3, <1>4, <1>5, <1>6, DispatchKeepsCommitted DEF PurchaseNext

-----------------------------------------------------------------------------
\* What the policy computes from typed rows.
OutcomeTyped(e) ==
    /\ PurchaseCount(e) \in Nat
    /\ NewLoyalty(e) \in Loyalty /\ Segment(NewLoyalty(e)) \in Segments
    /\ OutcomeOf(e) \in Effect
    /\ OutcomeOf(e).version = customer.version + 1
    /\ OutcomeOf(e).from = customer.loyalty /\ OutcomeOf(e).to = NewLoyalty(e)
    /\ OutcomeOf(e).count = PurchaseCount(e)
    /\ Changed(e) <=> customer.loyalty # NewLoyalty(e)

\* The outcome of a purchase is a result, whatever the tables hold.
LEMMA OutcomeType ==
    ASSUME PurchaseRowsInv, NEW e \in Event
    PROVE  OutcomeTyped(e)
  <1>1. customer.loyalty \in Loyalty /\ customer.version \in Nat
    BY DEF PurchaseRowsInv, PurchaseTypeOK
  <1>2. PurchaseCount(e) \in Nat
    <2>1. {o \in Order : orders[o] # NoOrder /\ InWindow(orders[o].at, OccurredAt[e])} \in SUBSET Taken
      BY DEF Taken
    <2>2. {t \in Past : InWindow(t, OccurredAt[e])} \in SUBSET Past
      OBVIOUS
    <2>3. /\ Cardinality({o \in Order : orders[o] # NoOrder /\ InWindow(orders[o].at, OccurredAt[e])}) \in Nat
          /\ Cardinality({t \in Past : InWindow(t, OccurredAt[e])}) \in Nat
      BY <2>1, <2>2, FS_Subset, FS_CardinalityType, PurchaseAssumption DEF PurchaseRowsInv
    <2> QED BY <2>3 DEF PurchaseCount
  <1>3. NewLoyalty(e) \in Loyalty
    BY <1>1 DEF NewLoyalty, Loyalty
  <1>4. Segment(NewLoyalty(e)) \in Segments
    BY <1>3 DEF Segments
  <1>5. OutcomeOf(e) \in Effect
    BY <1>1, <1>2, <1>3 DEF OutcomeOf, Effect
  <1>6. Changed(e) <=> customer.loyalty # NewLoyalty(e)
    BY DEF Changed, PurchaseRowsInv
  <1> QED BY <1>2, <1>3, <1>4, <1>5, <1>6 DEF OutcomeOf, OutcomeTyped

\* What the purchase transaction does to the inbox and the orders.
PurchaseWritten(e) ==
    /\ inbox' \in [Event -> Effect] /\ inbox'[e] = OutcomeOf(e)
    /\ \A f \in Event \ {e} : inbox'[f] = inbox[f]
    /\ e \notin Applied /\ Applied' = Applied \cup {e}
    /\ orders' \in [Order -> [at : Nat, event : Event \cup {NoEvent}]]
    /\ OrderOf[e] \in Order \ Taken
    /\ orders'[OrderOf[e]] = [at |-> OccurredAt[e], event |-> e]
    /\ \A o \in Order \ {OrderOf[e]} : orders'[o] = orders[o]
    /\ Taken' = Taken \cup {OrderOf[e]}

\* The transaction adds one result and one order, to rows that were free.
LEMMA PurchaseWrites ==
    ASSUME PurchaseRowsInv, NEW r \in Request, NEW e \in Event, ProcessPurchase(r, e)
    PROVE  PurchaseWritten(e)
  <1>1. /\ inbox \in [Event -> Effect]
        /\ orders \in [Order -> [at : Nat, event : Event \cup {NoEvent}]]
        /\ customer.version \in Nat
    BY DEF PurchaseRowsInv, PurchaseTypeOK
  <1>2. /\ inbox' \in [Event -> Effect] /\ inbox'[e] = OutcomeOf(e)
        /\ \A f \in Event \ {e} : inbox'[f] = inbox[f]
    BY <1>1, OutcomeType DEF ProcessPurchase, OutcomeTyped
  <1>3. OutcomeOf(e) # NoEffect
    <2>1. OutcomeOf(e).version = customer.version + 1
      BY OutcomeType DEF OutcomeTyped
    <2>2. OutcomeOf(e).version # 0 /\ NoEffect.version = 0
      BY <1>1, <2>1 DEF NoEffect
    <2> QED BY <2>2
  <1>4. e \notin Applied /\ Applied' = Applied \cup {e}
    BY <1>2, <1>3 DEF Applied, Seen, ProcessPurchase
  <1> DEFINE row == [at |-> OccurredAt[e], event |-> e]
  <1>5. /\ OrderOf[e] \in Order \ Taken /\ OccurredAt[e] \in Nat
        /\ row \in [at : Nat, event : Event \cup {NoEvent}] /\ row # NoOrder
    BY PurchaseAssumption, NoEventAssumption DEF ProcessPurchase, Taken, NoOrder
  <1>6. orders' = [orders EXCEPT ![OrderOf[e]] = row]
    BY DEF ProcessPurchase
  <1> HIDE DEF row
  <1>7. /\ orders' \in [Order -> [at : Nat, event : Event \cup {NoEvent}]]
        /\ orders'[OrderOf[e]] = row
        /\ \A o \in Order \ {OrderOf[e]} : orders'[o] = orders[o]
    BY <1>1, <1>5, <1>6
  <1>8. Taken' = Taken \cup {OrderOf[e]}
    BY <1>5, <1>7 DEF Taken
  <1> QED BY <1>2, <1>4, <1>5, <1>7, <1>8 DEF row, PurchaseWritten

\* The purchase transaction keeps the rows in step.
LEMMA PurchaseKeepsRows ==
    ASSUME PurchaseRowsInv, TypeOK', NEW r \in Request, NEW e \in Event, ProcessPurchase(r, e)
    PROVE  PurchaseRowsInv'
  <1>w. PurchaseWritten(e) /\ OutcomeTyped(e)
    BY PurchaseWrites, OutcomeType
  <1>1. /\ outbox \in [Event -> [status : OutboxStatus, attempts : Nat]]
        /\ history \in Seq([from : Segments, to : Segments, count : Nat, event : Event])
        /\ customer.segment \in Segments /\ customer.version \in Nat /\ customer.ledger \in Nat
    BY DEF PurchaseRowsInv, PurchaseTypeOK, TypeOK
  <1>2. customer' = [loyalty |-> NewLoyalty(e), segment |-> Segment(NewLoyalty(e)),
                     version |-> customer.version + 1, ledger |-> customer.ledger + 1]
    BY DEF ProcessPurchase, Promote
  <1>3. /\ customer' \in [loyalty : Loyalty, segment : Segments, version : Nat, ledger : Nat]
        /\ customer'.segment = Segment(customer'.loyalty)
    BY <1>1, <1>2, <1>w DEF OutcomeTyped
  <1>4. history' \in Seq([from : Segments, to : Segments, count : Nat, event : Event])
    <2> DEFINE row == [from |-> customer.segment, to |-> Segment(NewLoyalty(e)),
                       count |-> PurchaseCount(e), event |-> e]
               rows == [from : Segments, to : Segments, count : Nat, event : Event]
    <2>1. row \in rows /\ history \in Seq(rows)
      BY <1>1, <1>w DEF OutcomeTyped
    <2>2. history' = Append(history, row) \/ history' = history
      BY DEF ProcessPurchase, RecordHistory
    <2> HIDE DEF row, rows
    <2>3. history' \in Seq(rows)
      BY <2>1, <2>2
    <2> QED BY <2>3 DEF rows
  <1>5. /\ stage' \in [Request -> [node : {"none", "dispatch", "bus", "refresh"},
                                   event : Event \cup {NoEvent}]]
        /\ reported' \in [Event -> SUBSET [result : Effect, context : Nat]]
    BY DEF ProcessPurchase, Enter, PurchaseRowsInv, PurchaseTypeOK
  <1>6. PurchaseTypeOK'
    BY <1>3, <1>4, <1>5, <1>w DEF PurchaseTypeOK, PurchaseWritten
  <1>7. /\ outbox[e].status = "ABSENT" /\ outbox'[e].status = "PENDING"
        /\ \A f \in Event \ {e} : outbox'[f] = outbox[f]
    BY <1>1 DEF ProcessPurchase, Emit
  <1>8. ASSUME NEW f \in Event PROVE Seen(f)' <=> outbox'[f].status # "ABSENT"
    <2>1. CASE f = e
      BY <1>7, <1>w, <2>1 DEF Applied, PurchaseWritten
    <2>2. CASE f # e
      BY <1>7, <1>w, <2>2 DEF PurchaseRowsInv, Seen, PurchaseWritten, NoEffect
    <2> QED BY <2>1, <2>2
  <1>9. \A f \in Applied : OrderOf[f] \in Taken
    <2> SUFFICES ASSUME NEW f \in Applied PROVE OrderOf[f] \in Taken
      OBVIOUS
    <2>1. f \in Event /\ OrderOf[f] \in Order /\ orders[OrderOf[f]].event = f
      <3>1. f \in Event /\ OrderOf[f] \in Order
        BY PurchaseAssumption DEF Applied
      <3>2. orders[OrderOf[f]] = [at |-> OccurredAt[f], event |-> f]
        BY DEF PurchaseRowsInv
      <3> QED BY <3>1, <3>2
    <2>2. NoOrder.event = NoEvent
      BY DEF NoOrder
    <2> QED BY <2>1, <2>2, NoEventAssumption DEF Taken
  <1>10. \A f \in Applied' : orders'[OrderOf[f]] = [at |-> OccurredAt[f], event |-> f]
    <2>1. \A f \in Applied : orders'[OrderOf[f]] = orders[OrderOf[f]]
      BY <1>9, <1>w DEF PurchaseWritten, Taken
    <2> QED BY <1>w, <2>1 DEF PurchaseRowsInv, PurchaseWritten
  <1>11. IsFiniteSet(Taken')
    BY <1>w, FS_AddElement DEF PurchaseRowsInv, PurchaseWritten
  <1>12. \A o \in Taken' : orders'[o].event \in Applied' /\ OrderOf[orders'[o].event] = o
    <2>1. \A o \in Taken : orders'[o] = orders[o]
      BY <1>w DEF PurchaseWritten, Taken
    <2>2. orders'[OrderOf[e]].event = e
      BY <1>w DEF PurchaseWritten
    <2> QED BY <1>w, <2>1, <2>2 DEF PurchaseRowsInv, PurchaseWritten
  <1> QED BY <1>3, <1>6, <1>8, <1>10, <1>11, <1>12 DEF PurchaseRowsInv

\* It gives the event the next version.
LEMMA PurchaseKeepsVersions ==
    ASSUME PurchaseRowsInv, VersionsInv, NEW r \in Request, NEW e \in Event, ProcessPurchase(r, e)
    PROVE  VersionsInv'
  <1>w. PurchaseWritten(e) /\ OutcomeTyped(e)
    BY PurchaseWrites, OutcomeType
  <1>1. /\ customer'.version = customer.version + 1 /\ customer'.ledger = customer.ledger + 1
        /\ customer.version \in Nat
    BY DEF ProcessPurchase, Promote, PurchaseRowsInv, PurchaseTypeOK
  <1>2. IsFiniteSet(Applied') /\ Cardinality(Applied') = Cardinality(Applied) + 1
    <2>1. IsFiniteSet(Applied) /\ e \notin Applied /\ Applied' = Applied \cup {e}
      BY <1>w DEF VersionsInv, PurchaseWritten
    <2>2. /\ IsFiniteSet(Applied \cup {e})
          /\ Cardinality(Applied \cup {e}) = Cardinality(Applied) + 1
      BY <2>1, FS_AddElement
    <2> QED BY <2>1, <2>2
  <1>3. Cardinality(Applied) \in Nat
    BY FS_CardinalityType DEF VersionsInv
  <1>4. /\ inbox'[e].version = customer.version + 1
        /\ Applied' = Applied \cup {e} /\ e \notin Applied
        /\ \A f \in Applied : inbox'[f] = inbox[f]
    BY <1>w DEF Applied, PurchaseWritten, OutcomeTyped
  <1>5. \A f \in Applied' : inbox'[f].version \in 2 .. customer'.version
    BY <1>1, <1>3, <1>4 DEF VersionsInv
  <1>6. \A f, g \in Applied' : inbox'[f].version = inbox'[g].version => f = g
    BY <1>1, <1>4 DEF VersionsInv
  <1>7. \A v \in 2 .. customer'.version : \E f \in Applied' : inbox'[f].version = v
    BY <1>1, <1>4 DEF VersionsInv
  <1> QED BY <1>1, <1>2, <1>3, <1>5, <1>6, <1>7 DEF VersionsInv

\* It continues the audit chain, or leaves it alone.
LEMMA PurchaseKeepsAudit ==
    ASSUME EffectsInv, NEW r \in Request, NEW e \in Event, ProcessPurchase(r, e)
    PROVE  AuditInv'
  <1> DEFINE Start == IF history = <<>> THEN customer.segment ELSE history[1].from
             Row == [from |-> customer.segment, to |-> Segment(NewLoyalty(e)),
                     count |-> PurchaseCount(e), event |-> e]
             n == Len(history)
  <1>w. PurchaseWritten(e) /\ OutcomeTyped(e)
    BY PurchaseWrites, OutcomeType DEF EffectsInv
  <1>1. /\ history \in Seq([from : Segments, to : Segments, count : Nat, event : Event])
        /\ n \in Nat /\ DOMAIN history = 1 .. n /\ (history = <<>> <=> n = 0)
        /\ customer.segment = Segment(customer.loyalty)
    BY DEF EffectsInv, PurchaseRowsInv, PurchaseTypeOK
  <1>2. /\ customer'.segment = Segment(NewLoyalty(e))
        /\ customer'.loyalty = NewLoyalty(e)
        /\ inbox'[e].from = customer.loyalty /\ inbox'[e].to = NewLoyalty(e)
        /\ inbox'[e].count = PurchaseCount(e) /\ inbox'[e].version = customer.version + 1
        /\ Applied' = Applied \cup {e} /\ e \notin Applied
        /\ \A f \in Applied : inbox'[f] = inbox[f]
    BY <1>w DEF ProcessPurchase, Promote, PurchaseWritten, OutcomeTyped, Applied
  <1>3. /\ \A f \in Applied : inbox[f].version = 2 => Segment(inbox[f].from) = Start
        /\ \A i \in 1 .. n :
              /\ history[i].to = IF i = n THEN customer.segment ELSE history[i + 1].from
              /\ history[i].count = inbox[history[i].event].count
              /\ history[i].to = Segment(inbox[history[i].event].to)
              /\ history[i].event \in Applied
        /\ \A f \in Applied :
              (inbox[f].from # inbox[f].to) <=> \E i \in 1 .. n : history[i].event = f
    BY <1>1 DEF EffectsInv, AuditInv, HistoryIsAudit
  <1>4. inbox'[e].version = 2 => history = <<>> /\ Segment(inbox'[e].from) = Start
    <2> SUFFICES ASSUME inbox'[e].version = 2 PROVE history = <<>> /\ Segment(inbox'[e].from) = Start
      OBVIOUS
    <2>1. customer.version = 1
      BY <1>2 DEF EffectsInv, PurchaseRowsInv, PurchaseTypeOK
    <2>2. Cardinality(Applied) = 0 /\ IsFiniteSet(Applied)
      BY <2>1, FS_CardinalityType DEF EffectsInv, VersionsInv
    <2>3. Applied = {}
      BY <2>2, FS_EmptySet
    <2>4. history = <<>>
      <3>1. \A i \in 1 .. n : FALSE
        BY <1>3, <2>3
      <3>2. n = 0
        BY <1>1, <3>1
      <3> QED BY <1>1, <3>2
    <2> QED BY <1>1, <1>2, <2>4
  <1>5. CASE ~Changed(e)
    <2>1. history' = history /\ NewLoyalty(e) = customer.loyalty
      BY <1>5, <1>w DEF ProcessPurchase, RecordHistory, OutcomeTyped
    <2>2. customer'.segment = customer.segment
      BY <1>1, <1>2, <2>1
    <2>3. \A f \in Applied' : inbox'[f].version = 2 => Segment(inbox'[f].from) = Start
      BY <1>2, <1>3, <1>4
    <2>4. \A i \in 1 .. n :
              /\ history[i].to = IF i = n THEN customer.segment ELSE history[i + 1].from
              /\ history[i].count = inbox'[history[i].event].count
              /\ history[i].to = Segment(inbox'[history[i].event].to)
              /\ history[i].event \in Applied'
      BY <1>2, <1>3
    <2>5. \A f \in Applied' :
              (inbox'[f].from # inbox'[f].to) <=> \E i \in 1 .. n : history[i].event = f
      BY <1>2, <1>3, <2>1
    <2> QED BY <1>1, <2>1, <2>2, <2>3, <2>4, <2>5, ZenonT(40) DEF AuditInv, HistoryIsAudit
  <1>6. CASE Changed(e)
    <2>0. Row \in [from : Segments, to : Segments, count : Nat, event : Event]
      BY <1>w DEF OutcomeTyped, EffectsInv, PurchaseRowsInv, PurchaseTypeOK
    <2>1. history' = Append(history, Row) /\ NewLoyalty(e) # customer.loyalty
      BY <1>6, <1>w DEF ProcessPurchase, RecordHistory, OutcomeTyped
    <2>r. /\ Row.from = customer.segment /\ Row.to = Segment(NewLoyalty(e))
          /\ Row.count = PurchaseCount(e) /\ Row.event = e
      OBVIOUS
    <2> HIDE DEF Row
    <2>2. /\ Len(history') = n + 1 /\ DOMAIN history' = 1 .. (n + 1) /\ history' # <<>>
          /\ history'[n + 1] = Row
          /\ \A i \in 1 .. n : history'[i] = history[i]
      BY <1>1, <2>0, <2>1
    <2>3. history'[1].from = Start
      <3>1. CASE n = 0
        BY <1>1, <2>2, <2>r, <3>1
      <3>2. CASE n # 0
        BY <1>1, <2>2, <3>2
      <3> QED BY <3>1, <3>2
    <2>4. \A f \in Applied' : inbox'[f].version = 2 => Segment(inbox'[f].from) = Start
      BY <1>2, <1>3, <1>4
    <2>5. ASSUME NEW i \in 1 .. (n + 1)
          PROVE  /\ history'[i].to = IF i = n + 1 THEN customer'.segment ELSE history'[i + 1].from
                 /\ history'[i].count = inbox'[history'[i].event].count
                 /\ history'[i].to = Segment(inbox'[history'[i].event].to)
                 /\ history'[i].event \in Applied'
      <3>1. CASE i = n + 1
        BY <1>2, <2>2, <2>r, <3>1
      <3>2. CASE i # n + 1
        <4>1. i \in 1 .. n /\ history'[i] = history[i]
          BY <1>1, <2>2, <3>2
        <4>2. history[i].to = history'[i + 1].from
          <5>1. CASE i = n
            BY <1>3, <2>2, <2>r, <4>1, <5>1
          <5>2. CASE i # n
            <6>0. n \in Nat /\ i \in 1 .. n
              BY <1>1, <4>1
            <6>1. i + 1 \in 1 .. n
              <7> HIDE DEF n
              <7> QED BY <6>0, <5>2
            <6>2. history'[i + 1] = history[i + 1]
              BY <2>2, <6>1
            <6> QED BY <1>3, <4>1, <5>2, <6>2
          <5> QED BY <5>1, <5>2
        <4> QED BY <1>2, <1>3, <3>2, <4>1, <4>2
      <3> QED BY <3>1, <3>2
    <2>6. ASSUME NEW f \in Applied'
          PROVE  (inbox'[f].from # inbox'[f].to) <=> \E i \in 1 .. (n + 1) : history'[i].event = f
      <3>1. CASE f = e
        BY <1>1, <1>2, <2>1, <2>2, <2>r, <3>1
      <3>2. CASE f # e
        <4>1. f \in Applied /\ inbox'[f] = inbox[f]
          BY <1>2, <3>2
        <4>2. (\E i \in 1 .. (n + 1) : history'[i].event = f) <=> \E i \in 1 .. n : history[i].event = f
          BY <1>1, <2>2, <2>r, <3>2
        <4> QED BY <1>3, <4>1, <4>2
      <3> QED BY <3>1, <3>2
    <2> QED BY <2>2, <2>3, <2>4, <2>5, <2>6 DEF AuditInv, HistoryIsAudit
  <1> QED BY <1>5, <1>6

\* Every other step leaves the effects as they are.
LEMMA QuietKeepsEffects ==
    ASSUME EffectsInv, TypeOK', StageInv',
           reported' \in [Event -> SUBSET [result : Effect, context : Nat]],
           UNCHANGED <<inbox, orders, customer, history>>,
           \A e \in Event : outbox'[e].status # "ABSENT" <=> outbox[e].status # "ABSENT"
    PROVE  EffectsInv'
  <1>1. Applied' = Applied /\ Taken' = Taken
    BY DEF Applied, Seen, Taken
  <1>2. PurchaseTypeOK'
    BY DEF EffectsInv, PurchaseRowsInv, PurchaseTypeOK, StageInv
  <1>3. PurchaseRowsInv'
    BY <1>1, <1>2 DEF EffectsInv, PurchaseRowsInv, Seen
  <1>4. VersionsInv'
    BY <1>1 DEF EffectsInv, VersionsInv
  <1>5. AuditInv'
    BY <1>1 DEF EffectsInv, AuditInv, HistoryIsAudit
  <1> QED BY <1>3, <1>4, <1>5 DEF EffectsInv

\* Only a refreshed profile adds an answer.
LEMMA AnsweredStep ==
    ASSUME EffectsInv, StageInv, [PurchaseNext]_allPurchaseVars
    PROVE  /\ reported' \in [Event -> SUBSET [result : Effect, context : Nat]]
           /\ (~ \E r \in Request : RefreshProfile(r)) => reported' = reported
  <1>0. reported \in [Event -> SUBSET [result : Effect, context : Nat]]
    BY DEF EffectsInv, PurchaseRowsInv, PurchaseTypeOK
  <1>1. ASSUME NEW r \in Request, RefreshProfile(r)
        PROVE  reported' \in [Event -> SUBSET [result : Effect, context : Nat]]
    <2>1. stage[r].event \in Event
      BY <1>1 DEF RefreshProfile, AtNode, StageInv
    <2>2. [result |-> inbox[stage[r].event], context |-> customer.version]
             \in [result : Effect, context : Nat]
      BY <2>1 DEF EffectsInv, PurchaseRowsInv, PurchaseTypeOK
    <2> QED BY <1>0, <1>1, <2>1, <2>2 DEF RefreshProfile
  <1>2. ASSUME NEW r \in Request, ~RefreshProfile(r), Workflow(r) \/ RefreshFails(r)
        PROVE  reported' = reported
    BY <1>2 DEF Workflow, DispatchPurchase, Dispatched, DispatchFailed, RefreshFails
  <1>3. ASSUME NEW c \in Caller, PurchaseBusStep(c) \/ PurchaseBusFault(c) PROVE reported' = reported
    BY <1>3 DEF PurchaseBusStep, PurchaseBusFault, purchaseVars
  <1>4. CASE \/ PurchasePollerStep \/ ShutdownWhenIdle
             \/ (Crash \/ PollerExits) /\ ForgetPurchases
             \/ Restart /\ UNCHANGED purchaseVars
             \/ UNCHANGED allPurchaseVars
    <2>1. UNCHANGED purchaseVars \/ ForgetPurchases
      BY <1>4 DEF PurchasePollerStep, ShutdownWhenIdle, allPurchaseVars
    <2> QED BY <1>0, <2>1 DEF ForgetPurchases, purchaseVars
  <1>5. ASSUME NEW r \in Request, NEW e \in Event, ProcessPurchase(r, e) \/ ReplayPurchase(r, e)
        PROVE  reported' = reported
    BY <1>5 DEF ProcessPurchase, ReplayPurchase
  <1> QED BY <1>0, <1>1, <1>2, <1>3, <1>4, <1>5 DEF PurchaseNext

\* Every step keeps the effects of the purchases in step.
LEMMA NextEffectsInv ==
    ASSUME EffectsInv, DeliveryInv, StageInv, [PurchaseNext]_allPurchaseVars
    PROVE  EffectsInv'
  <1>1. TypeOK' /\ StageInv'
    BY PurchaseStepIsBusStep, NextTypeInv, NextStageInv DEF DeliveryInv, TypeInv
  <1>2. ASSUME NEW r \in Request, NEW e \in Event, ProcessPurchase(r, e) PROVE EffectsInv'
    BY <1>1, <1>2, PurchaseKeepsRows, PurchaseKeepsVersions, PurchaseKeepsAudit DEF EffectsInv
  <1>3. CASE ~ \E r \in Request, e \in Event : ProcessPurchase(r, e)
    BY <1>1, <1>3, QuietStep, AnsweredStep, QuietKeepsEffects
  <1> QED BY <1>2, <1>3

\* Nothing has been bought in the first state.
LEMMA InitEffectsInv == PurchaseInit => EffectsInv
  <1> SUFFICES ASSUME PurchaseInit PROVE EffectsInv
    OBVIOUS
  <1>1. Applied = {} /\ Taken = {}
    BY DEF PurchaseInit, Applied, Seen, Taken
  <1>2. /\ TypeOK /\ \A e \in Event : outbox[e].status = "ABSENT"
    BY InitTypeInv DEF PurchaseInit, Init, TypeInv
  <1>3. NoEffect \in Effect /\ NoOrder \in [at : Nat, event : Event \cup {NoEvent}]
    BY DEF NoEffect, Effect, NoOrder, Loyalty
  <1>4. PurchaseTypeOK
    BY <1>2, <1>3 DEF PurchaseInit, PurchaseTypeOK, Segments, NoStage
  <1>5. customer.segment = Segment(customer.loyalty) /\ customer.version = 1 /\ customer.ledger = 1
    BY DEF PurchaseInit
  <1>6. PurchaseRowsInv
    BY <1>1, <1>2, <1>4, <1>5, FS_EmptySet DEF PurchaseRowsInv, Applied
  <1>7. VersionsInv
    BY <1>1, <1>5, FS_EmptySet DEF VersionsInv
  <1>8. AuditInv
    BY <1>1 DEF PurchaseInit, AuditInv, HistoryIsAudit
  <1> QED BY <1>6, <1>7, <1>8 DEF EffectsInv

\* What the composition inherits from the bus.
LEMMA BusInvariance == PurchaseSpec => [](DeliveryInv /\ AnswerInv)
  BY PurchaseComposition, DeliveryInvariance, AnswerInvariance, PTL DEF PurchasesImplementBus

\* The effects stay in step in every reachable state.
LEMMA EffectsInvariance == PurchaseSpec => []EffectsInv
  BY InitEffectsInv, NextEffectsInv, BusInvariance, StageInvariance, PTL DEF PurchaseSpec

\* However a purchase event is repeated, raced, failed or crashed, it takes
\* effect once: its inbox row, order, outbox row, profile version and link of
\* the audit chain come together or not at all.
THEOREM EffectsOnce == PurchaseSpec => []EffectsAgree
  <1>1. EffectsInv => EffectsAgree
    BY DEF EffectsInv, PurchaseRowsInv, VersionsInv, AuditInv, EffectsAgree, AppliedOnce
  <1> QED BY EffectsInvariance, <1>1, PTL

-----------------------------------------------------------------------------
(***************************************************************************)
(* Answers.  A request inside the graph serves an applied event; while it  *)
(* is in the bus it asked for just that event, and it leaves the bus for   *)
(* the refresh only when the event is published.                           *)
(***************************************************************************)
GraphInv ==
    \A r \in Request :
        /\ stage[r].node # "none" => stage[r].event \in Applied
        /\ AtNode(r, "bus") => asked[r] = {stage[r].event}
        /\ AtNode(r, "refresh") => outbox[stage[r].event].status = "PUBLISHED"

\* What a step may not undo.
LEMMA EffectsGrow ==
    ASSUME EffectsInv, DeliveryInv, StageInv, [PurchaseNext]_allPurchaseVars
    PROVE  /\ \A e \in Applied : e \in Applied' /\ inbox'[e] = inbox[e]
           /\ \A e \in Event : outbox[e].status = "PUBLISHED" => outbox'[e].status = "PUBLISHED"
           /\ customer'.version \in Nat /\ customer'.version >= customer.version
  <1>1. \A e \in Event : outbox[e].status = "PUBLISHED" => outbox'[e].status = "PUBLISHED"
    BY PurchaseStepIsBusStep, OutboxGrows DEF DeliveryInv
  <1>2. customer.version \in Nat
    BY DEF EffectsInv, PurchaseRowsInv, PurchaseTypeOK
  <1>3. ASSUME NEW r \in Request, NEW e \in Event, ProcessPurchase(r, e)
        PROVE  /\ \A f \in Applied : f \in Applied' /\ inbox'[f] = inbox[f]
               /\ customer'.version = customer.version + 1
    <2>1. PurchaseWritten(e)
      BY <1>3, PurchaseWrites DEF EffectsInv
    <2> QED BY <1>3, <2>1 DEF PurchaseWritten, ProcessPurchase, Promote, Applied
  <1>4. CASE ~ \E r \in Request, e \in Event : ProcessPurchase(r, e)
    BY <1>1, <1>2, <1>4, QuietStep DEF Applied, Seen
  <1> QED BY <1>1, <1>2, <1>3, <1>4

\* Every step keeps the requests' graphs honest.
LEMMA NextGraphInv ==
    ASSUME GraphInv, EffectsInv, DeliveryInv, AnswerInv, StageInv, [PurchaseNext]_allPurchaseVars
    PROVE  GraphInv'
  <1>0. /\ \A e \in Applied : e \in Applied'
        /\ \A e \in Event : outbox[e].status = "PUBLISHED" => outbox'[e].status = "PUBLISHED"
        /\ Applied \subseteq Event
    BY EffectsGrow DEF Applied
  <1>t. /\ stage \in [Request -> [node : {"none", "dispatch", "bus", "refresh"},
                                  event : Event \cup {NoEvent}]]
        /\ asked \in [Request -> SUBSET Event]
    BY DEF StageInv, DeliveryInv, TypeInv, TypeOK
  <1>k. ASSUME NEW s \in Request, stage'[s] = stage[s], asked'[s] = asked[s]
        PROVE  /\ stage'[s].node # "none" => stage'[s].event \in Applied'
               /\ AtNode(s, "bus")' => asked'[s] = {stage'[s].event}
               /\ AtNode(s, "refresh")' => outbox'[stage'[s].event].status = "PUBLISHED"
    BY <1>0, <1>k DEF GraphInv, AtNode
  <1>1. ASSUME NEW r \in Request, NEW e \in Event, ProcessPurchase(r, e) \/ ReplayPurchase(r, e)
        PROVE  GraphInv'
    <2>1. /\ asked' = asked /\ stage'[r] = [node |-> "dispatch", event |-> e]
          /\ \A s \in Request \ {r} : stage'[s] = stage[s]
      BY <1>1, <1>t DEF ProcessPurchase, ReplayPurchase, Emit, Enter, vars
    <2>2. e \in Applied'
      <3>1. CASE ProcessPurchase(r, e)
        BY <3>1, PurchaseWrites DEF EffectsInv, PurchaseWritten
      <3>2. CASE ReplayPurchase(r, e)
        BY <3>2, <1>0 DEF ReplayPurchase, Applied
      <3> QED BY <1>1, <3>1, <3>2
    <2> QED BY <1>k, <2>1, <2>2 DEF GraphInv, AtNode
  <1>2. ASSUME NEW r \in Request, DispatchPurchase(r) PROVE GraphInv'
    <2>1. /\ stage[r].event \in Applied
          /\ asked'[r] = {stage[r].event}
          /\ stage'[r] = [node |-> "bus", event |-> stage[r].event]
          /\ \A s \in Request \ {r} : stage'[s] = stage[s] /\ asked'[s] = asked[s]
      BY <1>2, <1>t DEF DispatchPurchase, Call, Enter, AtNode, GraphInv
    <2> QED BY <1>0, <1>k, <2>1 DEF GraphInv, AtNode
  <1>3. ASSUME NEW r \in Request, Dispatched(r) PROVE GraphInv'
    <2>1. /\ stage[r].event \in Applied /\ asked[r] = {stage[r].event}
          /\ stage'[r] = [node |-> "refresh", event |-> stage[r].event]
          /\ \A s \in Request \ {r} : stage'[s] = stage[s]
          /\ asked' = asked
      BY <1>3, <1>t DEF Dispatched, Return, Enter, AtNode, GraphInv
    <2>2. Busy(r) /\ batch[r] = {}
      BY <1>3 DEF Dispatched, Return, Busy, Dispatching
    <2>3. outbox[stage[r].event].status = "PUBLISHED"
      BY <2>1, <2>2 DEF AnswerInv
    <2> QED BY <1>0, <1>k, <2>1, <2>3 DEF GraphInv, AtNode
  <1>4. ASSUME NEW r \in Request, DispatchFailed(r) \/ RefreshProfile(r) \/ RefreshFails(r)
        PROVE  GraphInv'
    <2>1. /\ stage'[r].node = "none" /\ asked' = asked
          /\ \A s \in Request \ {r} : stage'[s] = stage[s]
      BY <1>4, <1>t DEF DispatchFailed, RefreshProfile, RefreshFails, NoStage, vars
    <2> QED BY <1>k, <2>1 DEF GraphInv, AtNode
  <1>5. CASE \/ \E c \in Caller : PurchaseBusStep(c) \/ PurchaseBusFault(c)
             \/ PurchasePollerStep \/ ShutdownWhenIdle
             \/ Restart /\ UNCHANGED purchaseVars
             \/ UNCHANGED allPurchaseVars
    <2>1. stage' = stage
      BY <1>5 DEF PurchaseBusStep, PurchaseBusFault, PurchasePollerStep, ShutdownWhenIdle,
                  purchaseVars, allPurchaseVars
    <2>2. asked' = asked
      BY <1>5 DEF PurchaseBusStep, PurchaseBusFault, PurchasePollerStep, ShutdownWhenIdle, Load, StartEvent,
           SkipCompleted, ClaimDelivery, HandlerReturns, CompleteDelivery, FailDelivery,
           MarkPublished, HandlerRaises, LoadFails, TransactionFails, PollerTick, Return,
           Shutdown, Restart, allPurchaseVars, vars
    <2> QED BY <1>k, <2>1, <2>2 DEF GraphInv
  <1>6. CASE (Crash \/ PollerExits) /\ ForgetPurchases
    BY <1>6 DEF ForgetPurchases, GraphInv, NoStage, AtNode
  <1> QED BY <1>1, <1>2, <1>3, <1>4, <1>5, <1>6 DEF PurchaseNext, Workflow

\* An answer is given only at the end of the graph, and nothing it says is
\* taken back.
LEMMA NextAnswerIsFinal ==
    ASSUME AnswerIsFinal, GraphInv, EffectsInv, DeliveryInv, StageInv, [PurchaseNext]_allPurchaseVars
    PROVE  AnswerIsFinal'
  <1>0. /\ \A e \in Applied : e \in Applied' /\ inbox'[e] = inbox[e]
        /\ \A e \in Event : outbox[e].status = "PUBLISHED" => outbox'[e].status = "PUBLISHED"
    BY EffectsGrow
  <1>1. ASSUME NEW e \in Event, NEW a \in reported[e]
        PROVE  /\ outbox'[e].status = "PUBLISHED" /\ a.result = inbox'[e]
               /\ a.context >= inbox'[e].version
    <2>1. /\ outbox[e].status = "PUBLISHED" /\ a.result = inbox[e]
          /\ a.context >= inbox[e].version
      BY DEF AnswerIsFinal
    <2>2. e \in Applied
      BY <2>1 DEF EffectsInv, PurchaseRowsInv, Applied
    <2> QED BY <1>0, <2>1, <2>2
  <1>2. CASE ~ \E r \in Request : RefreshProfile(r)
    BY <1>1, <1>2, AnsweredStep DEF AnswerIsFinal
  <1>3. ASSUME NEW r \in Request, RefreshProfile(r) PROVE AnswerIsFinal'
    <2> DEFINE f == stage[r].event
               b == [result |-> inbox[f], context |-> customer.version]
    <2>1. f \in Applied /\ f \in Event /\ outbox[f].status = "PUBLISHED"
      BY <1>3 DEF RefreshProfile, AtNode, GraphInv, Applied
    <2>2. /\ reported'[f] = reported[f] \cup {b}
          /\ \A e \in Event \ {f} : reported'[e] = reported[e]
          /\ inbox' = inbox /\ outbox' = outbox
      BY <1>3, <2>1 DEF RefreshProfile, EffectsInv, PurchaseRowsInv, PurchaseTypeOK, vars
    <2>3. b.result = inbox[f] /\ b.context = customer.version
      OBVIOUS
    <2>4. customer.version >= inbox[f].version
      BY <2>1 DEF EffectsInv, VersionsInv
    <2> HIDE DEF f, b
    <2> QED BY <1>1, <2>1, <2>2, <2>3, <2>4 DEF AnswerIsFinal
  <1> QED BY <1>2, <1>3

\* A 200 for a purchase means its projections were invalidated, and carries
\* the one stored result and a profile at least as new.
THEOREM AnswersFinal == PurchaseSpec => []AnswerIsFinal
  <1>1. PurchaseInit => GraphInv /\ AnswerIsFinal
    BY DEF PurchaseInit, GraphInv, AnswerIsFinal, NoStage, AtNode
  <1>2. PurchaseSpec => []GraphInv
    BY <1>1, NextGraphInv, EffectsInvariance, BusInvariance, StageInvariance, PTL DEF PurchaseSpec
  <1> QED BY <1>1, <1>2, NextAnswerIsFinal, EffectsInvariance, BusInvariance, StageInvariance, PTL
          DEF PurchaseSpec

-----------------------------------------------------------------------------
(***************************************************************************)
(* Refinement.  The versions 2 .. n + 1 number the applied purchases, so   *)
(* InVersionOrder lists each of them once.                                 *)
(***************************************************************************)

\* The rows of done carry the versions 2, 3, ... once each.
Numbered(done, box) ==
    /\ IsFiniteSet(done)
    /\ \A e \in done : box[e].version \in 2 .. (1 + Cardinality(done))
    /\ \A e, f \in done : box[e].version = box[f].version => e = f
    /\ \A v \in 2 .. (1 + Cardinality(done)) : \E e \in done : box[e].version = v

\* order lists the rows of done by their versions.
Lists(order, done, box) ==
    /\ Cardinality(done) \in Nat
    /\ order \in Seq(done)
    /\ Len(order) = Cardinality(done)
    /\ \A i \in 1 .. Cardinality(done) : box[order[i]].version = i + 1
    /\ \A e \in done : \E i \in 1 .. Cardinality(done) : order[i] = e

\* The row with the i-th version, in the i-th place.
ByVersion(done, box) ==
    [i \in 1 .. Cardinality(done) |-> CHOOSE e \in done : box[e].version = i + 1]

\* Numbered rows can be listed by their versions.
LEMMA VersionOrderOf ==
    ASSUME NEW done, NEW box, Numbered(done, box)
    PROVE  Lists(ByVersion(done, box), done, box)
  <1> DEFINE n == Cardinality(done)
             order == ByVersion(done, box)
  <1>1. n \in Nat
    BY FS_CardinalityType DEF Numbered
  <1>2. /\ \A e \in done : box[e].version \in 2 .. (1 + n)
        /\ \A v \in 2 .. (1 + n) : \E e \in done : box[e].version = v
        /\ order = [i \in 1 .. n |-> CHOOSE e \in done : box[e].version = i + 1]
    BY DEF Numbered, ByVersion
  <1> HIDE DEF n, order
  <1>3. ASSUME NEW i \in 1 .. n
        PROVE  order[i] \in done /\ box[order[i]].version = i + 1
    <2>1. i + 1 \in 2 .. (1 + n)
      BY <1>1
    <2>2. \E e \in done : box[e].version = i + 1
      BY <1>2, <2>1
    <2>3. order[i] = CHOOSE e \in done : box[e].version = i + 1
      BY <1>2
    <2> QED BY <2>2, <2>3
  <1>4. order \in [1 .. n -> done]
    BY <1>2, <1>3
  <1>5. order \in Seq(done)
    BY <1>1, <1>4
  <1>6. Len(order) = n
    BY <1>1, <1>4, <1>5
  <1>7. ASSUME NEW e \in done
        PROVE  \E i \in 1 .. n : order[i] = e
    <2> DEFINE i == box[e].version - 1
    <2>1. box[e].version \in 2 .. (1 + n)
      BY <1>2
    <2>2. i \in 1 .. n /\ i + 1 = box[e].version
      BY <1>1, <2>1
    <2>3. order[i] \in done /\ box[order[i]].version = box[e].version
      BY <1>3, <2>2
    <2>4. order[i] = e
      BY <2>3, Zenon DEF Numbered
    <2> QED BY <2>2, <2>4
  <1> QED BY <1>1, <1>3, <1>5, <1>6, <1>7 DEF Lists, n, order

\* So the order of the versions is an order of the applied purchases.
LEMMA VersionOrder ==
    ASSUME VersionsInv
    PROVE  Lists(InVersionOrder, Applied, inbox)
  <1>1. Numbered(Applied, inbox)
    BY DEF VersionsInv, Numbered
  <1>2. InVersionOrder = ByVersion(Applied, inbox)
    BY DEF InVersionOrder, ByVersion
  <1> QED BY <1>1, <1>2, VersionOrderOf

\* And so it is after a step that keeps the versions in step.
LEMMA VersionOrderAfter ==
    ASSUME VersionsInv'
    PROVE  Lists(InVersionOrder', Applied', inbox')
  <1>1. Numbered(Applied', inbox')
    BY DEF VersionsInv, Numbered
  <1>2. InVersionOrder' = ByVersion(Applied', inbox')
    BY DEF InVersionOrder, ByVersion
  <1> QED BY <1>1, <1>2, VersionOrderOf

\* The orders the policy counts are the applied purchases of the window.
LEMMA CountIsArrivals ==
    ASSUME PurchaseRowsInv, VersionsInv, NEW e \in Event, e \notin Applied
    PROVE  Ledger!Arrivals(Applied \cup {e}, OccurredAt[e]) = PurchaseCount(e)
  <1> DEFINE S == {o \in Order : orders[o] # NoOrder /\ InWindow(orders[o].at, OccurredAt[e])}
             T == {p \in Applied : OccurredAt[e] - Window < OccurredAt[p] /\ OccurredAt[p] <= OccurredAt[e]}
             P == {t \in Past : OccurredAt[e] - Window < t /\ t <= OccurredAt[e]}
             f == [p \in T |-> OrderOf[p]]
  <1>1. IsFiniteSet(T) /\ Cardinality(T) \in Nat
    <2>1. T \in SUBSET Applied
      OBVIOUS
    <2> HIDE DEF T
    <2> QED BY <2>1, FS_Subset, FS_CardinalityType DEF VersionsInv
  <1>2. ASSUME NEW p \in Applied
        PROVE  /\ orders[OrderOf[p]] = [at |-> OccurredAt[p], event |-> p] /\ p \in Event
               /\ orders[OrderOf[p]].at = OccurredAt[p] /\ orders[OrderOf[p]].event = p
               /\ OrderOf[p] \in Order /\ orders[OrderOf[p]] # NoOrder
    <2>1. orders[OrderOf[p]] = [at |-> OccurredAt[p], event |-> p]
      BY DEF PurchaseRowsInv
    <2>2. p \in Event /\ OrderOf[p] \in Order /\ p # NoEvent
      BY PurchaseAssumption, NoEventAssumption DEF Applied
    <2> QED BY <2>1, <2>2 DEF NoOrder
  <1>3. \A p \in T : OrderOf[p] \in S
    BY <1>2 DEF InWindow
  <1>4. \A o \in S : orders[o].event \in T /\ OrderOf[orders[o].event] = o
    <2> SUFFICES ASSUME NEW o \in S
                 PROVE  orders[o].event \in T /\ OrderOf[orders[o].event] = o
      OBVIOUS
    <2>1. orders[o].event \in Applied /\ OrderOf[orders[o].event] = o
      BY DEF PurchaseRowsInv, Taken
    <2>2. orders[o].at = OccurredAt[orders[o].event]
      BY <1>2, <2>1, ZenonT(30)
    <2> QED BY <2>1, <2>2 DEF InWindow
  <1>5. \A p, q \in T : OrderOf[p] = OrderOf[q] => p = q
    <2> SUFFICES ASSUME NEW p \in T, NEW q \in T, OrderOf[p] = OrderOf[q] PROVE p = q
      OBVIOUS
    <2>1. orders[OrderOf[p]].event = p /\ orders[OrderOf[q]].event = q
      BY <1>2
    <2> QED BY <2>1
  <1> HIDE DEF S, T
  <1>6. f \in Bijection(T, S)
    <2>1. f \in [T -> S]
      BY <1>3
    <2>2. \A p, q \in T : f[p] = f[q] => p = q
      BY <1>5
    <2>3. \A o \in S : \E p \in T : f[p] = o
      BY <1>4
    <2> QED BY <2>1, <2>2, <2>3 DEF Bijection, Injection, Surjection, IsInjective
  <1>7. Cardinality(S) = Cardinality(T)
    <2>1. ExistsBijection(T, S)
      BY <1>6 DEF ExistsBijection
    <2> QED BY <1>1, <2>1, FS_Bijection
  <1>8. Ledger!InWindow(Applied \cup {e}, OccurredAt[e]) = T \cup {e} /\ e \notin T
    <2>0. OccurredAt[e] \in Nat /\ Window \in Nat \ {0}
      BY PurchaseAssumption
    <2>1. OccurredAt[e] - Window < OccurredAt[e] /\ OccurredAt[e] <= OccurredAt[e]
      BY <2>0
    <2> QED BY <2>1 DEF Ledger!InWindow, T
  <1>9. Cardinality(T \cup {e}) = Cardinality(T) + 1
    BY <1>1, <1>8, FS_AddElement
  <1>10. P = {t \in Past : InWindow(t, OccurredAt[e])}
    BY DEF InWindow
  <1>11. IsFiniteSet(P) /\ Cardinality(P) \in Nat
    <2>1. P \in SUBSET Past
      OBVIOUS
    <2> HIDE DEF P
    <2> QED BY <2>1, FS_Subset, FS_CardinalityType, PurchaseAssumption
  <1>12. Ledger!Arrivals(Applied \cup {e}, OccurredAt[e]) = Cardinality(T \cup {e}) + Cardinality(P)
    <2>1. Ledger!Arrivals(Applied \cup {e}, OccurredAt[e])
            = Cardinality(Ledger!InWindow(Applied \cup {e}, OccurredAt[e])) + Cardinality(P)
      BY DEF Ledger!Arrivals, Ledger!Cardinality, Cardinality
    <2> QED BY <1>8, <2>1
  <1>13. PurchaseCount(e) = 1 + Cardinality(P) + Cardinality(S)
    BY <1>10 DEF PurchaseCount, S
  <1> HIDE DEF P
  <1> QED BY <1>1, <1>7, <1>9, <1>11, <1>12, <1>13

\* The abstract effect is the set of applied purchases.
LEMMA EffectIsApplied ==
    ASSUME VersionsInv
    PROVE  Ledger!Effect = Applied
  <1>1. DOMAIN InVersionOrder = 1 .. Cardinality(Applied)
    BY DEF InVersionOrder
  <1>2. \A i \in 1 .. Cardinality(Applied) : InVersionOrder[i] \in Applied
    BY <1>1, VersionOrder, ElementOfSeq DEF Lists
  <1> QED BY <1>1, <1>2, VersionOrder DEF Lists, Ledger!Effect

\* The purchase transaction appends its event to that order.
LEMMA PurchaseAppends ==
    ASSUME EffectsInv, NEW r \in Request, NEW e \in Event, ProcessPurchase(r, e)
    PROVE  InVersionOrder' = Append(InVersionOrder, e)
  <1> DEFINE n == Cardinality(Applied)
             s == InVersionOrder
             t == InVersionOrder'
             A == Applied \cup {e}
  <1>1. PurchaseWritten(e) /\ OutcomeTyped(e)
    BY PurchaseWrites, OutcomeType DEF EffectsInv
  <1>2. /\ Applied' = A /\ e \notin Applied
        /\ \A f \in Applied : inbox'[f] = inbox[f]
        /\ inbox'[e].version = customer.version + 1
    BY <1>1 DEF PurchaseWritten, OutcomeTyped, Applied
  <1>3. VersionsInv /\ VersionsInv'
    BY PurchaseKeepsVersions DEF EffectsInv
  <1>4. /\ n \in Nat /\ customer.version = 1 + n
        /\ s \in Seq(Applied) /\ Len(s) = n
        /\ \A i \in 1 .. n : inbox[s[i]].version = i + 1
    BY <1>3, VersionOrder DEF Lists, VersionsInv
  <1>5. Cardinality(A) = n + 1
    <2>1. IsFiniteSet(Applied)
      BY <1>3 DEF VersionsInv
    <2> QED BY <1>2, <2>1, FS_AddElement
  <1>6. /\ t \in Seq(A) /\ Len(t) = n + 1
        /\ \A i \in 1 .. (n + 1) : inbox'[t[i]].version = i + 1
    <2>1. /\ InVersionOrder' \in Seq(Applied')
          /\ Len(InVersionOrder') = Cardinality(Applied')
          /\ \A i \in 1 .. Cardinality(Applied') : inbox'[InVersionOrder'[i]].version = i + 1
      BY <1>3, VersionOrderAfter DEF Lists
    <2> QED BY <1>2, <1>5, <2>1
  <1>7. \A f, g \in A : inbox'[f].version = inbox'[g].version => f = g
    BY <1>2, <1>3 DEF VersionsInv
  <1> HIDE DEF n, s, t
  <1>8. ASSUME NEW i \in 1 .. (n + 1) PROVE t[i] = Append(s, e)[i]
    <2>1. t[i] \in A /\ inbox'[t[i]].version = i + 1
      BY <1>4, <1>6
    <2>2. CASE i = n + 1
      <3>1. Append(s, e)[i] = e
        BY <1>4, <2>2
      <3> QED BY <1>2, <1>4, <1>7, <2>1, <2>2, <3>1
    <2>3. CASE i # n + 1
      <3>0. i \in 1 .. n
        BY <1>4, <2>3
      <3>1. Append(s, e)[i] = s[i] /\ s[i] \in Applied
        BY <1>4, <3>0
      <3>2. inbox'[s[i]].version = i + 1
        BY <1>2, <1>4, <3>0, <3>1
      <3> QED BY <1>7, <2>1, <3>1, <3>2
    <2> QED BY <2>2, <2>3
  <1>9. Append(s, e) \in Seq(A) /\ Len(Append(s, e)) = n + 1
    <2>1. s \in Seq(A)
      BY <1>4
    <2> QED BY <1>4, <2>1
  <1>10. t = Append(s, e)
    BY <1>6, <1>8, <1>9, SeqEqual
  <1> QED BY <1>10 DEF s, t

\* Every step applies one purchase or none.
LEMMA StepIsLedgerStep ==
    ASSUME EffectsInv, DeliveryInv, StageInv, [PurchaseNext]_allPurchaseVars
    PROVE  Ledger!Next \/ UNCHANGED <<InVersionOrder, customer.loyalty>>
  <1>1. ASSUME NEW r \in Request, NEW e \in Event, ProcessPurchase(r, e) PROVE Ledger!Next
    <2>1. e \notin Applied /\ customer'.loyalty = NewLoyalty(e) /\ customer.loyalty \in Loyalty
      BY <1>1 DEF ProcessPurchase, Promote, Applied, EffectsInv, PurchaseRowsInv, PurchaseTypeOK
    <2>2. InVersionOrder' = Append(InVersionOrder, e)
      BY <1>1, PurchaseAppends
    <2>3. Ledger!Effect = Applied
      BY EffectIsApplied DEF EffectsInv
    <2>4. Ledger!Arrivals(Applied \cup {e}, OccurredAt[e]) = PurchaseCount(e)
      BY <2>1, CountIsArrivals DEF EffectsInv
    <2>5. customer'.loyalty = IF Ledger!Arrivals(Ledger!Effect \cup {e}, OccurredAt[e]) >= LoyalThreshold
                              THEN "Loyal" ELSE customer.loyalty
      BY <2>1, <2>3, <2>4 DEF NewLoyalty, Loyalty
    <2> QED BY <2>1, <2>2, <2>3, <2>5 DEF Ledger!Apply, Ledger!Next
  <1>2. CASE ~ \E r \in Request, e \in Event : ProcessPurchase(r, e)
    <2>1. UNCHANGED <<inbox, customer>>
      BY <1>2, QuietStep
    <2>2. Applied' = Applied
      BY <2>1 DEF Applied, Seen
    <2> QED BY <2>1, <2>2 DEF InVersionOrder
  <1> QED BY <1>1, <1>2

\* Inbox, outbox, retries, crashes and the bus add up to what the abstract
\* ledger promises: one effect for each purchase, in one order.
THEOREM LedgerRefinement == PurchaseSpec => ImplementsLedger
  <1>1. PurchaseInit => Ledger!Init
    <2> SUFFICES ASSUME PurchaseInit PROVE Ledger!Init
      OBVIOUS
    <2>1. VersionsInv /\ Applied = {}
      BY InitEffectsInv DEF EffectsInv, PurchaseInit, Applied, Seen
    <2>2. InVersionOrder \in Seq({}) /\ Len(InVersionOrder) = 0
      BY <2>1, VersionOrder, FS_EmptySet DEF Lists
    <2>3. InVersionOrder = <<>>
      BY <2>2
    <2>4. customer.loyalty \in {"New", "Loyal"}
      BY DEF PurchaseInit, Loyalty
    <2> QED BY <2>3, <2>4 DEF Ledger!Init
  <1>2. EffectsInv /\ DeliveryInv /\ StageInv /\ [PurchaseNext]_allPurchaseVars
           => [Ledger!Next]_<<InVersionOrder, customer.loyalty>>
    BY StepIsLedgerStep
  <1> QED BY <1>1, <1>2, EffectsInvariance, BusInvariance, StageInvariance, PTL
          DEF PurchaseSpec, ImplementsLedger, Ledger!Spec
=============================================================================
