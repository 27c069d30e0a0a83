--------------------------- MODULE AfterSalesProofs ---------------------------
(***************************************************************************)
(* Proofs about AfterSales: types, the stock it uses, returned goods, the  *)
(* record of refunds and their sum, for every number of orders and keys,   *)
(* and of refund requests in flight unless a theorem says otherwise.       *)
(***************************************************************************)
EXTENDS AfterSales, OrderFlowProofs

LEMMA DeliveredIsStatus == AfterDelivery \subseteq OrderStatus \ {None}
BY DEF AfterDelivery, OrderStatus, None

LEMMA ReturnTablesInStatus ==
    /\ \A s \in ReturnStatus : RETURN_TRANSITIONS[s] \subseteq ReturnStatus
    /\ None \notin ReturnStatus
BY DEF RETURN_TRANSITIONS, ReturnStatus, None

\* The sum of some refunds of an order is a natural number.
LEMMA UnitsAreFinite ==
    ASSUME NEW o \in Orders, NEW amount
    PROVE  Cardinality(Units(o, amount)) \in Nat
<1>1. IsFiniteSet(Keys \X (1 .. MaxRefund))
  <2>1. IsFiniteSet(Keys) /\ IsFiniteSet(1 .. MaxRefund)
    BY AfterAssumption, FS_Interval
  <2> QED
    BY ONLY <2>1, FS_Product
<1>2. Units(o, amount) \subseteq Keys \X (1 .. MaxRefund)
  BY DEF Units
<1> QED
  BY <1>1, <1>2, FS_Subset, FS_CardinalityType

LEMMA RequestFields ==
    ASSUME AfterTypeOK, NEW o \in Orders, request[o].status # None
    PROVE  /\ request[o] # NoRequest
           /\ request[o].status \in ReturnStatus /\ request[o].lines \in Lines
BY DEF AfterTypeOK, Requests, NoRequest

LEMMA RequestStatus ==
    ASSUME AfterTypeOK, NEW o \in Orders, request[o] # NoRequest
    PROVE  /\ request[o].status # None
           /\ request[o].status \in ReturnStatus /\ request[o].lines \in Lines
BY ReturnTablesInStatus DEF AfterTypeOK, Requests

LEMMA CallFields ==
    ASSUME AfterTypeOK, NEW a \in Admins, call[a] # Idle
    PROVE  /\ call[a].at \in {"checked", "created"} \cup Answers
           /\ call[a].key \in Keys
           /\ call[a].order \in Orders
           /\ call[a].amount \in 1 .. MaxRefund
           /\ call[a].already \in Nat
           /\ call[a].was \in OrderStatus
BY DEF AfterTypeOK, Calls

LEMMA CallBusy ==
    ASSUME NEW a, call[a].at \in {"checked", "created"} \cup Answers
    PROVE  call[a] # Idle
BY DEF Idle, Answers

\* What Proceed makes of a call that is not idle.
LEMMA ProceedCalls ==
    ASSUME AfterTypeOK, NEW a \in Admins, call[a] # Idle,
           NEW at \in {"checked", "created"} \cup Answers, Proceed(a, at)
    PROVE  call' \in [Admins -> Calls]
<1>1. [at |-> at, key |-> call[a].key, order |-> call[a].order, amount |-> call[a].amount,
       already |-> call[a].already, was |-> call[a].was] \in Calls
  BY CallFields DEF Calls
<1> QED
  BY <1>1 DEF Proceed, AfterTypeOK

LEMMA EndCalls ==
    ASSUME AfterTypeOK, NEW a \in Admins, EndCall(a)
    PROVE  call' \in [Admins -> Calls]
BY DEF AfterTypeOK, EndCall, Calls

LEMMA SetRefunds ==
    ASSUME AfterTypeOK, NEW a \in Admins, call[a] # Idle,
           NEW to \in {"PROCESSING", "SUCCEEDED", "FAILED"}, SetRefund(a, to)
    PROVE  refunds' \in [Keys -> Refunds]
<1>1. [status |-> to, order |-> call[a].order, amount |-> call[a].amount] \in Refunds
  BY CallFields DEF Refunds
<1> QED
  BY <1>1 DEF SetRefund, AfterTypeOK

\* Both type invariants after one step.
LEMMA AfterTypeStep ==
    FlowTypeOK /\ AfterTypeOK /\ [AfterNext]_afterVars => FlowTypeOK' /\ AfterTypeOK'
<1> SUFFICES ASSUME FlowTypeOK, AfterTypeOK, [AfterNext]_afterVars
             PROVE  FlowTypeOK' /\ AfterTypeOK'
  OBVIOUS
<1>1. CASE FlowNext /\ UNCHANGED <<request, refundVars>>
  BY <1>1, FlowTypeStep DEF AfterTypeOK, refundVars
<1>2. ASSUME NEW o \in Orders, NEW lines \in Lines, CreateReturn(o, lines)
      PROVE  FlowTypeOK' /\ AfterTypeOK'
  <2>1. /\ status' \in [Orders -> OrderStatus \cup {None}]
        /\ history' \in [Orders -> (OrderStatus \cup {None}) \X (OrderStatus \cup {None})]
    <3>1. {"DELIVERED", "RETURN_REQUESTED"} \subseteq OrderStatus
      BY DEF OrderStatus
    <3> QED
      BY <1>2, <3>1, SetStatusType DEF CreateReturn
  <2>2. request' \in [Orders -> Requests]
    <3>1. [status |-> "REQUESTED", lines |-> lines] \in Requests
      BY DEF Requests, ReturnStatus
    <3> QED
      BY <1>2, <3>1 DEF CreateReturn, AfterTypeOK
  <2> QED
    BY <1>2, <2>1, <2>2
    DEF CreateReturn, FlowTypeOK, AfterTypeOK, paymentVars, requestVars, providerVars, refundVars
<1>3. ASSUME NEW o \in Orders, NEW to \in ReturnStatus, request[o] # NoRequest, MoveRequest(o, to)
      PROVE  request' \in [Orders -> Requests]
  <2>1. [status |-> to, lines |-> request[o].lines] \in Requests
    BY <1>3, RequestStatus DEF Requests
  <2> QED
    BY <1>3, <2>1 DEF MoveRequest, AfterTypeOK
<1>4. ASSUME NEW o \in Orders, ProvideInformation(o)
      PROVE  FlowTypeOK' /\ AfterTypeOK'
  <2>1. request[o] # NoRequest /\ "REQUESTED" \in ReturnStatus
    BY <1>4 DEF ProvideInformation, NoRequest, None, ReturnStatus
  <2> QED
    BY <1>3, <1>4, <2>1
    DEF ProvideInformation, FlowTypeOK, AfterTypeOK, flowVars, orderVars, paymentVars,
        requestVars, providerVars, refundVars
<1>5. ASSUME NEW o \in Orders, NEW to \in ReturnStatus, SetReturnStatus(o, to)
      PROVE  FlowTypeOK' /\ AfterTypeOK'
  BY <1>3, <1>5
  DEF SetReturnStatus, FlowTypeOK, AfterTypeOK, orderVars, paymentVars, requestVars,
      providerVars, refundVars
<1>6. ASSUME NEW a \in Admins, NEW k \in Keys, NEW o \in Orders, NEW amount \in 1 .. MaxRefund,
             RefundCheck(a, k, o, amount)
      PROVE  FlowTypeOK' /\ AfterTypeOK'
  <2>1. status[o] \in OrderStatus
    BY <1>6 DEF RefundCheck, Refundable, OrderStatus
  <2>2. Refunded(o) \in Nat
    BY UnitsAreFinite DEF Refunded
  <2>3. call' \in [Admins -> Calls]
    BY <1>6, <2>1, <2>2 DEF RefundCheck, AfterTypeOK, Calls
  <2> QED
    BY <1>6, <2>3
    DEF RefundCheck, FlowTypeOK, AfterTypeOK, flowVars, orderVars, paymentVars, requestVars,
        providerVars
<1>7. ASSUME NEW a \in Admins, RefundCreate(a)
      PROVE  FlowTypeOK' /\ AfterTypeOK'
  <2>1. call[a] # Idle
    BY <1>7, CallBusy DEF RefundCreate
  <2> QED
    BY <1>7, <2>1, ProceedCalls, SetRefunds
    DEF RefundCreate, FlowTypeOK, AfterTypeOK, flowVars, orderVars, paymentVars, requestVars,
        providerVars
<1>8. ASSUME NEW a \in Admins, NEW answer \in Answers, RefundGateway(a, answer)
      PROVE  FlowTypeOK' /\ AfterTypeOK'
  <2>1. call[a] # Idle
    BY <1>8, CallBusy DEF RefundGateway
  <2>2. call' \in [Admins -> Calls]
    BY <1>8, <2>1, ProceedCalls DEF RefundGateway
  <2>3. paidBack' \in [Keys -> 0 .. MaxRefund]
    <3>1. call[a].amount \in 0 .. MaxRefund
      BY <2>1, CallFields, AfterAssumption
    <3> QED
      BY <1>8, <3>1 DEF RefundGateway, AfterTypeOK
  <2> QED
    BY <1>8, <2>2, <2>3
    DEF RefundGateway, FlowTypeOK, AfterTypeOK, flowVars, orderVars, paymentVars, requestVars,
        providerVars
<1>9. ASSUME NEW a \in Admins, RefundFinish(a)
      PROVE  FlowTypeOK' /\ AfterTypeOK'
  <2>1. call[a] # Idle
    BY <1>9, CallBusy DEF RefundFinish
  <2>2. refunds' \in [Keys -> Refunds]
    BY <1>9, <2>1, SetRefunds DEF RefundFinish, AfterTypeOK
  <2>3. \A x \in {"REFUNDED", "PARTIALLY_REFUNDED"} : x \in OrderStatus /\ x \in PaymentStatus
    BY DEF OrderStatus, PaymentStatus
  <2>4. /\ status' \in [Orders -> OrderStatus \cup {None}]
        /\ history' \in [Orders -> (OrderStatus \cup {None}) \X (OrderStatus \cup {None})]
        /\ payment' \in [Orders -> PaymentStatus \cup {None}]
    <3>1. CASE call[a].at = "succeeded"
      BY <1>9, <2>1, <2>3, <3>1, CallFields, SetStatusType DEF RefundFinish, FlowTypeOK
    <3>2. CASE call[a].at # "succeeded"
      BY <1>9, <3>2 DEF RefundFinish, FlowTypeOK
    <3> QED
      BY <3>1, <3>2
  <2> QED
    BY <1>9, <2>2, <2>4, EndCalls
    DEF RefundFinish, FlowTypeOK, AfterTypeOK, requestVars, providerVars
<1>10. ASSUME NEW a \in Admins, RefundFail(a) \/ RefundDie(a)
       PROVE  FlowTypeOK' /\ AfterTypeOK'
  <2>1. call[a] # Idle
    BY <1>10, CallBusy DEF RefundFail, RefundDie
  <2> QED
    BY <1>10, <2>1, EndCalls, SetRefunds
    DEF RefundFail, RefundDie, FlowTypeOK, AfterTypeOK, flowVars, orderVars, paymentVars,
        requestVars, providerVars
<1>11. CASE ReturnStep
  BY <1>11, <1>2, <1>4, <1>5 DEF ReturnStep
<1>12. CASE RefundStep
  BY <1>12, <1>6, <1>7, <1>8, <1>9, <1>10 DEF RefundStep
<1>13. CASE UNCHANGED afterVars
  BY <1>13
  DEF afterVars, FlowTypeOK, AfterTypeOK, flowVars, orderVars, paymentVars, requestVars,
      providerVars, refundVars
<1> QED
  BY <1>1, <1>11, <1>12, <1>13 DEF AfterNext

\* Return requests, refunds, refund requests in flight and the provider's
\* record keep their types.
THEOREM AfterTypeCorrect == AfterSpec => [](FlowTypeOK /\ AfterTypeOK)
<1>1. FlowInit => FlowTypeOK
  BY DEF FlowInit, FlowTypeOK, Captures
<1>2. AfterInit => FlowTypeOK /\ AfterTypeOK
  BY <1>1, AfterAssumption DEF AfterInit, AfterTypeOK, Requests, Refunds, Calls
<1> QED
  BY <1>2, AfterTypeStep, PTL DEF AfterSpec

-----------------------------------------------------------------------------
(* The stock: returned goods                                               *)

Received == {"RECEIVED", "REFUND_PENDING", "COMPLETED"}

\* A request names at most what was bought; its order keeps its quantities.
RequestsWithinOrder ==
    \A o \in Orders :
        request[o] # NoRequest =>
            /\ request[o].lines # NoUnits
            /\ \A v \in Variants : request[o].lines[v] <= quantity[o][v]

ReturnInv == FlowTypeOK /\ AfterTypeOK /\ StockTypeOK /\ RequestsWithinOrder /\ RestockedOnce

\* Nothing before the return restocks, ...
LEMMA StockKeepsReturned ==
    ASSUME \/ \E o \in Orders, lines \in Lines : Reserve(o, lines) \/ ReserveAndCommit(o, lines)
           \/ \E o \in Orders : CommitOrder(o) \/ CancelOrder(o) \/ Lapse(o)
           \/ ReleaseJob \/ ManualChange
           \/ UNCHANGED stockVars
    PROVE  returned' = returned
BY DEF Reserve, ReserveAndCommit, CommitOrder, CancelOrder, Lapse, ReleaseJob, ReleaseRead,
       ReleaseClaim, ReleaseSkip, ReleaseFail, ManualChange, AdjustInventory, EditSnapshot,
       EditCommit, stockVars, rows, jobs, admins

LEMMA FlowKeepsReturned == FlowTypeOK /\ [FlowNext]_flowVars => returned' = returned
<1> SUFFICES ASSUME FlowTypeOK, [FlowNext]_flowVars PROVE returned' = returned
  OBVIOUS
<1>1. ASSUME NEW o \in Orders, NEW s, ConfirmIfPending(o, s)
      PROVE  returned' = returned
  BY <1>1, StockKeepsReturned DEF ConfirmIfPending
<1>2. ASSUME NEW o \in Orders, NEW p, NEW s, MarkPaid(o, p, s)
      PROVE  returned' = returned
  BY <1>1, <1>2, StockKeepsReturned DEF MarkPaid
<1>3. ASSUME NEW o \in Orders, NEW lines \in Lines, NEW p \in Offered, PlaceOrder(o, lines, p)
      PROVE  returned' = returned
  BY <1>3, StockKeepsReturned DEF PlaceOrder
<1>4. ASSUME NEW o \in Orders, NEW to, Transition(o, to)
      PROVE  returned' = returned
  <2>1. CASE to = "CONFIRMED"
    BY <1>4, <2>1, StockKeepsReturned DEF Transition
  <2>2. CASE to = "CANCELLED"
    BY <1>4, <2>2, StockKeepsReturned DEF Transition
  <2>3. CASE to \notin {"CONFIRMED", "CANCELLED"}
    BY <1>4, <2>3, StockKeepsReturned DEF Transition
  <2> QED
    BY <2>1, <2>2, <2>3
<1>5. CASE OrderStep
  BY <1>3, <1>4, <1>5, StockKeepsReturned DEF OrderStep, Ship
<1>6. ASSUME NEW o \in Orders, NEW type, StripeWebhook(o, type) \/ PayPalWebhook(o, type)
      PROVE  returned' = returned
  BY <1>1, <1>2, <1>6, StockKeepsReturned DEF StripeWebhook, PayPalWebhook
<1>7. ASSUME NEW c \in Clients, CaptureWrite(c)
      PROVE  returned' = returned
  <2>1. capture[c].order \in Orders
    BY <1>7, CaptureOrder DEF CaptureWrite
  <2> QED
    BY <1>2, <1>7, <2>1 DEF CaptureWrite
<1>8. CASE PaymentStep
  BY <1>6, <1>7, <1>8, StockKeepsReturned
  DEF PaymentStep, InitializeRead, InitializeWrite, InitializeFail, CaptureCheck,
      CaptureGateway, CaptureDenied, CaptureSnapshot, CaptureFail
<1>9. CASE ProviderStep
  BY <1>9, StockKeepsReturned DEF ProviderStep, StripeCharge, StripeDecline
<1>10. CASE StockStep
  BY <1>10, StockKeepsReturned DEF StockStep
<1>11. CASE UNCHANGED flowVars
  BY <1>11, StockKeepsReturned DEF flowVars
<1> QED
  BY <1>5, <1>8, <1>9, <1>10, <1>11 DEF FlowNext

\* ... and an order that was placed keeps its quantities.
LEMMA PlacedKeepsQuantity ==
    ASSUME StockTypeOK, [StockNext]_stockVars, NEW o \in Orders, Placed(o)
    PROVE  quantity'[o] = quantity[o]
<1>1. ASSUME NEW x \in Orders, NEW lines \in Lines, Reserve(x, lines) \/ ReserveAndCommit(x, lines)
      PROVE  quantity'[o] = quantity[o]
  BY <1>1 DEF Reserve, ReserveAndCommit, StockTypeOK
<1>2. ASSUME NEW x \in Orders, NEW lines \in Lines, ReceiveReturn(x, lines)
      PROVE  quantity'[o] = quantity[o]
  BY <1>2 DEF ReceiveReturn, Restock, rows
<1>3. ASSUME NEW x \in Orders, CommitOrder(x) \/ CancelOrder(x) \/ Lapse(x)
      PROVE  quantity'[o] = quantity[o]
  BY <1>3 DEF CommitOrder, CancelOrder, Lapse, rows
<1>4. CASE ReleaseJob
  BY <1>4 DEF ReleaseJob, ReleaseRead, ReleaseClaim, ReleaseSkip, ReleaseFail, stockVars, rows
<1>5. CASE ManualChange
  BY <1>5 DEF ManualChange, AdjustInventory, EditSnapshot, EditCommit, stockVars, rows
<1>6. CASE UNCHANGED stockVars
  BY <1>6 DEF stockVars, rows
<1> QED
  BY <1>1, <1>2, <1>3, <1>4, <1>5, <1>6 DEF StockNext

LEMMA RequestedIsPlaced ==
    ASSUME StockTypeOK, AfterTypeOK, RequestsWithinOrder, NEW o \in Orders, request[o] # NoRequest
    PROVE  Placed(o)
<1>1. request[o].lines \in Lines /\ request[o].lines # NoUnits
  BY RequestStatus DEF RequestsWithinOrder
<1>2. PICK v \in Variants : request[o].lines[v] # 0
  BY <1>1 DEF Lines, NoUnits
<1>3. request[o].lines[v] \in Nat /\ quantity[o][v] \in Nat
  BY <1>1, StockAssumption DEF Lines, StockTypeOK
<1> QED
  BY <1>2, <1>3 DEF RequestsWithinOrder, Placed

\* RECEIVED is entered once, and what follows it stays after it.
LEMMA ReceivedIsEnteredOnce ==
    ASSUME NEW s \in ReturnStatus, NEW to \in RETURN_TRANSITIONS[s]
    PROVE  /\ to = "RECEIVED" => s \notin Received
           /\ to # "RECEIVED" => (to \in Received <=> s \in Received)
BY DEF RETURN_TRANSITIONS, ReturnStatus, Received

\* A request that reaches RECEIVED restocks as StockSpec allows: its goods
\* were not given back before and are at most what was bought.
LEMMA RestockIsReceiveReturn ==
    ASSUME ReturnInv, NEW o \in Orders, request[o] # NoRequest,
           "RECEIVED" \in RETURN_TRANSITIONS[request[o].status], Restock(o, request[o].lines)
    PROVE  /\ StockNext
           /\ returned' = [returned EXCEPT ![o] = request[o].lines]
<1>1. request[o].lines \in Lines /\ request[o].status \in ReturnStatus
  BY RequestStatus DEF ReturnInv
<1>2. returned[o] = NoUnits
  BY <1>1, ReceivedIsEnteredOnce DEF ReturnInv, RestockedOnce, Received
<1>3. \A v \in Variants : /\ request[o].lines[v] \in Int
                          /\ returned[o][v] + request[o].lines[v] = request[o].lines[v]
  BY <1>1, <1>2, StockAssumption DEF Lines, NoUnits
<1>4. \A v \in Variants : returned[o][v] + request[o].lines[v] <= quantity[o][v]
  BY <1>3 DEF ReturnInv, RequestsWithinOrder
<1>5. [v \in Variants |-> returned[o][v] + request[o].lines[v]] = request[o].lines
  BY <1>1, <1>3 DEF Lines
<1> QED
  BY <1>1, <1>4, <1>5 DEF StockNext, ReceiveReturn, Restock

LEMMA AfterStepIsStockStep == ReturnInv /\ [AfterNext]_afterVars => [StockNext]_stockVars
<1> SUFFICES ASSUME ReturnInv, [AfterNext]_afterVars PROVE [StockNext]_stockVars
  OBVIOUS
<1>1. CASE FlowNext
  BY <1>1, FlowStepIsStockStep DEF ReturnInv
<1>2. ASSUME NEW o \in Orders, NEW to \in ReturnStatus, SetReturnStatus(o, to)
      PROVE  [StockNext]_stockVars
  <2>1. CASE to = "RECEIVED"
    BY <1>2, <2>1, RestockIsReceiveReturn DEF SetReturnStatus
  <2>2. CASE to # "RECEIVED"
    BY <1>2, <2>2 DEF SetReturnStatus
  <2> QED
    BY <2>1, <2>2
<1>3. CASE ReturnStep
  BY <1>2, <1>3 DEF ReturnStep, CreateReturn, ProvideInformation, flowVars
<1>4. CASE RefundStep
  BY <1>4
  DEF RefundStep, RefundCheck, RefundCreate, RefundGateway, RefundFinish, RefundFail, RefundDie,
      flowVars
<1>5. CASE UNCHANGED afterVars
  BY <1>5 DEF afterVars, flowVars
<1> QED
  BY <1>1, <1>3, <1>4, <1>5 DEF AfterNext

\* A step that moves no request and restocks nothing keeps the invariant.
LEMMA RequestsKept ==
    ASSUME ReturnInv, [StockNext]_stockVars, request' = request, returned' = returned
    PROVE  RequestsWithinOrder' /\ RestockedOnce'
<1>1. RestockedOnce'
  BY DEF ReturnInv, RestockedOnce
<1>2. ASSUME NEW o \in Orders, request[o] # NoRequest
      PROVE  quantity'[o] = quantity[o]
  BY <1>2, RequestedIsPlaced, PlacedKeepsQuantity DEF ReturnInv
<1>3. RequestsWithinOrder'
  BY <1>2 DEF ReturnInv, RequestsWithinOrder
<1> QED
  BY <1>1, <1>3

LEMMA ReturnInvStep == ReturnInv /\ [AfterNext]_afterVars => ReturnInv'
<1> SUFFICES ASSUME ReturnInv, [AfterNext]_afterVars PROVE ReturnInv'
  OBVIOUS
<1>1. FlowTypeOK' /\ AfterTypeOK'
  BY AfterTypeStep DEF ReturnInv
<1>2. [StockNext]_stockVars /\ StockTypeOK'
  BY AfterStepIsStockStep, StockTypeStep DEF ReturnInv
<1>3. SUFFICES RequestsWithinOrder' /\ RestockedOnce'
  BY <1>1, <1>2 DEF ReturnInv
<1>4. CASE FlowNext /\ UNCHANGED <<request, refundVars>>
  BY <1>2, <1>4, FlowKeepsReturned, RequestsKept DEF ReturnInv
<1>5. ASSUME NEW o \in Orders, NEW lines \in Lines, CreateReturn(o, lines)
      PROVE  RequestsWithinOrder' /\ RestockedOnce'
  <2>1. request' = [request EXCEPT ![o] = [status |-> "REQUESTED", lines |-> lines]]
    BY <1>5 DEF CreateReturn
  <2>2. quantity' = quantity /\ returned' = returned
    BY <1>5 DEF CreateReturn, stockVars, rows
  <2>3. RequestsWithinOrder'
    BY <1>5, <2>1, <2>2 DEF CreateReturn, ReturnInv, RequestsWithinOrder, AfterTypeOK
  <2>4. returned[o] = NoUnits
    BY <1>5 DEF CreateReturn, ReturnInv, RestockedOnce, NoRequest, None
  <2> QED
    BY <2>1, <2>2, <2>3, <2>4 DEF ReturnInv, RestockedOnce, AfterTypeOK
<1>6. ASSUME NEW o \in Orders, NEW to \in ReturnStatus, request[o] # NoRequest, MoveRequest(o, to),
             quantity' = quantity
      PROVE  RequestsWithinOrder'
  <2>1. request'[o].lines = request[o].lines
    BY <1>6 DEF MoveRequest, ReturnInv, AfterTypeOK
  <2> QED
    BY <1>6, <2>1 DEF MoveRequest, ReturnInv, RequestsWithinOrder, AfterTypeOK
<1>7. ASSUME NEW o \in Orders, ProvideInformation(o)
      PROVE  RequestsWithinOrder' /\ RestockedOnce'
  <2>1. request[o] # NoRequest /\ "REQUESTED" \in ReturnStatus
    BY <1>7 DEF ProvideInformation, NoRequest, None, ReturnStatus
  <2>2. quantity' = quantity /\ returned' = returned
    BY <1>7 DEF ProvideInformation, flowVars, stockVars, rows
  <2>3. RequestsWithinOrder'
    BY <1>6, <1>7, <2>1, <2>2 DEF ProvideInformation
  <2> QED
    BY <1>7, <2>2, <2>3
    DEF ProvideInformation, MoveRequest, ReturnInv, RestockedOnce, AfterTypeOK
<1>8. ASSUME NEW o \in Orders, NEW to \in ReturnStatus, SetReturnStatus(o, to)
      PROVE  RequestsWithinOrder' /\ RestockedOnce'
  <2>1. request[o] # NoRequest /\ request[o].status \in ReturnStatus /\ MoveRequest(o, to)
    BY <1>8, RequestStatus DEF SetReturnStatus, ReturnInv
  <2>2. quantity' = quantity
    BY <1>8 DEF SetReturnStatus, Restock, stockVars, rows
  <2>3. RequestsWithinOrder'
    BY <1>6, <2>1, <2>2
  <2>4. CASE to = "RECEIVED"
    <3>1. returned' = [returned EXCEPT ![o] = request[o].lines]
      BY <1>8, <2>1, <2>4, RestockIsReceiveReturn DEF SetReturnStatus
    <3> QED
      BY <2>1, <2>3, <2>4, <3>1
      DEF MoveRequest, ReturnInv, RestockedOnce, AfterTypeOK, StockTypeOK
  <2>5. CASE to # "RECEIVED"
    <3>1. returned' = returned
      BY <1>8, <2>5 DEF SetReturnStatus, stockVars
    <3>2. to \in Received <=> request[o].status \in Received
      BY <1>8, <2>1, <2>5, ReceivedIsEnteredOnce DEF SetReturnStatus
    <3> QED
      BY <2>1, <2>3, <3>1, <3>2
      DEF MoveRequest, ReturnInv, RestockedOnce, AfterTypeOK, Received
  <2> QED
    BY <2>4, <2>5
<1>9. CASE ReturnStep
  BY <1>5, <1>7, <1>8, <1>9 DEF ReturnStep
<1>10. CASE RefundStep
  <2>1. request' = request /\ returned' = returned
    BY <1>10
    DEF RefundStep, RefundCheck, RefundCreate, RefundGateway, RefundFinish, RefundFail,
        RefundDie, flowVars, stockVars
  <2> QED
    BY <1>2, <2>1, RequestsKept
<1>11. CASE UNCHANGED afterVars
  BY <1>2, <1>11, RequestsKept DEF afterVars, flowVars, stockVars
<1> QED
  BY <1>4, <1>9, <1>10, <1>11 DEF AfterNext

LEMMA ReturnInvInit == AfterInit => ReturnInv
<1> SUFFICES ASSUME AfterInit PROVE ReturnInv
  OBVIOUS
<1>1. StockTypeOK
  BY StockAssumption, NoUnitsType
  DEF AfterInit, FlowInit, StockInit, StockTypeOK, Deltas, Reservations, NoUnits
<1>2. FlowTypeOK /\ AfterTypeOK
  BY AfterAssumption
  DEF AfterInit, FlowInit, FlowTypeOK, Captures, AfterTypeOK, Requests, Refunds, Calls
<1>3. RequestsWithinOrder
  BY DEF AfterInit, RequestsWithinOrder
<1>4. RestockedOnce
  BY DEF AfterInit, FlowInit, StockInit, RestockedOnce, NoRequest, None
<1> QED
  BY <1>1, <1>2, <1>3, <1>4 DEF ReturnInv

\* Returned goods go back on the shelf once and in the quantity requested.
THEOREM AfterRestockedOnce == AfterSpec => []RestockedOnce
<1>1. ReturnInv => RestockedOnce
  BY DEF ReturnInv
<1> QED
  BY <1>1, ReturnInvInit, ReturnInvStep, PTL DEF AfterSpec

\* Also with returns and refunds the stock sees only its own operations; a
\* restock stays within what was bought and not yet returned.
THEOREM AfterImplementsStock == AfterSpec => StockSpec
<1>1. AfterInit => StockInit
  BY DEF AfterInit, FlowInit
<1> QED
  BY <1>1, ReturnInvInit, ReturnInvStep, AfterStepIsStockStep, PTL DEF AfterSpec, StockSpec

\* No oversell, and counters that count the rows, from checkout to return.
THEOREM AfterStockIsSafe == AfterSpec => [](NeverOversold /\ ReservedMatchesRows /\ SoldMatchesRows)
BY AfterImplementsStock, StockNeverOversold, StockCountersMatchRows, PTL

-----------------------------------------------------------------------------
(* What a step may do to one order, with returns and refunds                *)

\* Every step of AfterNext but the last write of a refund is orderly, and that
\* one keeps orders placed with their providers, too.
LEMMA AfterOrderly ==
    ASSUME FlowTypeOK, AfterTypeOK, [AfterNext]_afterVars, NEW x \in Orders
    PROVE  \/ Orderly(x)
           \/ /\ status[x] # None => status'[x] # None
              /\ provider' = provider
              /\ \E a \in Admins : RefundFinish(a) /\ call[a].order = x
<1>1. CASE FlowNext
  BY <1>1, FlowOrderly
<1>2. ASSUME UNCHANGED <<status, provider, payment, transaction>>
      PROVE  Orderly(x)
  BY <1>2 DEF Orderly
<1>3. ASSUME NEW o \in Orders, NEW lines \in Lines, CreateReturn(o, lines)
      PROVE  Orderly(x)
  <2>1. "RETURN_REQUESTED" \in OrderStatus
    BY DEF OrderStatus
  <2> QED
    BY <1>3, <2>1, SetStatusOrderly DEF CreateReturn, Orderly, paymentVars
<1>4. CASE ReturnStep
  BY <1>2, <1>3, <1>4
  DEF ReturnStep, ProvideInformation, SetReturnStatus, flowVars, orderVars, paymentVars
<1>5. ASSUME NEW a \in Admins, RefundFinish(a)
      PROVE  \/ Orderly(x)
             \/ /\ status[x] # None => status'[x] # None
                /\ provider' = provider
                /\ call[a].order = x
  <2>1. call[a].order \in Orders
    BY <1>5, CallBusy, CallFields DEF RefundFinish
  <2>2. CASE call[a].at = "succeeded"
    <3>1. {"REFUNDED", "PARTIALLY_REFUNDED"} \subseteq OrderStatus
      BY DEF OrderStatus
    <3>2. status[x] # None => status'[x] # None
      BY <1>5, <2>1, <2>2, <3>1, SetStatusOrderly DEF RefundFinish
    <3>3. /\ provider' = provider /\ transaction' = transaction
          /\ call[a].order # x => payment'[x] = payment[x]
      BY <1>5, <2>2 DEF RefundFinish, FlowTypeOK
    <3> QED
      BY <3>2, <3>3 DEF Orderly
  <2>3. CASE call[a].at # "succeeded"
    BY <1>2, <1>5, <2>3 DEF RefundFinish
  <2> QED
    BY <2>2, <2>3
<1>6. CASE RefundStep
  BY <1>2, <1>5, <1>6
  DEF RefundStep, RefundCheck, RefundCreate, RefundGateway, RefundFail, RefundDie,
      flowVars, orderVars, paymentVars
<1>7. CASE UNCHANGED afterVars
  BY <1>2, <1>7 DEF afterVars, flowVars, orderVars, paymentVars
<1> QED
  BY <1>1, <1>4, <1>6, <1>7 DEF AfterNext

\* An order stays placed and with its provider.
LEMMA PlacedStays ==
    ASSUME FlowTypeOK, AfterTypeOK, [AfterNext]_afterVars, NEW x \in Orders, status[x] # None
    PROVE  status'[x] # None /\ provider'[x] = provider[x]
BY AfterOrderly DEF Orderly

\* A refund always finds the id of the charge, never that of a session.
THEOREM AfterPaidHasCharge == AfterSpec => []PaidHasCharge
<1>1. AfterInit => PaidHasCharge
  BY DEF AfterInit, FlowInit, PaidHasCharge, None
<1>2. FlowTypeOK /\ AfterTypeOK /\ PaidHasCharge /\ [AfterNext]_afterVars => PaidHasCharge'
  <2> SUFFICES ASSUME FlowTypeOK, AfterTypeOK, PaidHasCharge, [AfterNext]_afterVars,
                      NEW x \in Orders, payment'[x] = "PAID"
               PROVE  transaction'[x] = "CHARGE"
    BY DEF PaidHasCharge
  <2>1. CASE Orderly(x)
    BY <2>1 DEF Orderly, PaidHasCharge
  <2>2. ASSUME NEW a \in Admins, RefundFinish(a)
        PROVE  transaction'[x] = "CHARGE"
    <3>1. call[a].order \in Orders
      BY <2>2, CallBusy, CallFields DEF RefundFinish
    <3>2. payment[x] = "PAID"
      BY <2>2, <3>1 DEF RefundFinish, FlowTypeOK
    <3> QED
      BY <2>2, <3>2 DEF RefundFinish, PaidHasCharge
  <2> QED
    BY <2>1, <2>2, AfterOrderly
<1> QED
  BY <1>1, <1>2, AfterTypeCorrect, PTL DEF AfterSpec

-----------------------------------------------------------------------------
(* The record of refunds                                                   *)

\* A call past the creation of its row owns the row, which is PROCESSING.
HasRow(a) == call[a].at \in {"created"} \cup Answers

RowOf(a) == [status |-> "PROCESSING", order |-> call[a].order, amount |-> call[a].amount]

\* Orders named by calls and rows were placed, and keep their provider.
NamedIsPlaced ==
    /\ \A a \in Admins : call[a] # Idle => status[call[a].order] # None
    /\ \A k \in Keys : refunds[k] # NoRefund => status[refunds[k].order] # None

CallsOwnRows ==
    /\ \A a \in Admins : HasRow(a) => refunds[call[a].key] = RowOf(a)
    /\ \A a, b \in Admins : a # b /\ HasRow(a) /\ HasRow(b) => call[a].key # call[b].key

AnsweredIsPaid ==
    \A a \in Admins :
        call[a].at \in Answers /\ provider[call[a].order] # "COD"
            => paidBack[call[a].key] = call[a].amount

RefundInv ==
    FlowTypeOK /\ AfterTypeOK /\ NamedIsPlaced /\ CallsOwnRows /\ AnsweredIsPaid /\ RefundsMatchProvider

\* What of the invariant does not depend on the step.
LEMMA RefundContext ==
    ASSUME RefundInv, [AfterNext]_afterVars
    PROVE  /\ FlowTypeOK' /\ AfterTypeOK'
           /\ \A x \in Orders : status[x] # None => status'[x] # None /\ provider'[x] = provider[x]
BY AfterTypeStep, PlacedStays DEF RefundInv

LEMMA RowFields ==
    ASSUME AfterTypeOK, NEW k \in Keys, refunds[k] # NoRefund
    PROVE  refunds[k].order \in Orders /\ refunds[k].amount \in 1 .. MaxRefund
BY DEF AfterTypeOK, Refunds

\* The steps of orders, payments and returns.
LEMMA RefundsUntouched ==
    ASSUME RefundInv, [AfterNext]_afterVars, UNCHANGED refundVars
    PROVE  RefundInv'
<1>1. NamedIsPlaced'
  BY RefundContext, CallFields, RowFields DEF RefundInv, NamedIsPlaced, refundVars
<1>2. CallsOwnRows'
  BY DEF RefundInv, CallsOwnRows, HasRow, RowOf, refundVars
<1>3. AnsweredIsPaid'
  <2> SUFFICES ASSUME NEW a \in Admins, call[a].at \in Answers, provider'[call[a].order] # "COD"
               PROVE  paidBack[call[a].key] = call[a].amount
    BY DEF AnsweredIsPaid, refundVars
  <2>1. call[a].order \in Orders /\ status[call[a].order] # None
    BY CallBusy, CallFields DEF RefundInv, NamedIsPlaced
  <2> QED
    BY <2>1, RefundContext DEF RefundInv, AnsweredIsPaid
<1>4. RefundsMatchProvider'
  <2> SUFFICES ASSUME NEW k \in Keys, refunds[k].status = "SUCCEEDED",
                      provider'[refunds[k].order] # "COD"
               PROVE  paidBack[k] = refunds[k].amount
    BY DEF RefundInv, RefundsMatchProvider, refundVars
  <2>1. refunds[k].order \in Orders /\ status[refunds[k].order] # None
    BY RowFields DEF RefundInv, NamedIsPlaced, NoRefund, None
  <2> QED
    BY <2>1, RefundContext DEF RefundInv, RefundsMatchProvider
<1> QED
  BY <1>1, <1>2, <1>3, <1>4, RefundContext DEF RefundInv

LEMMA RefundInvStep == RefundInv /\ [AfterNext]_afterVars => RefundInv'
<1> SUFFICES ASSUME RefundInv, [AfterNext]_afterVars PROVE RefundInv'
  OBVIOUS
<1>0. /\ FlowTypeOK /\ AfterTypeOK /\ FlowTypeOK' /\ AfterTypeOK'
      /\ \A x \in Orders : status[x] # None => status'[x] # None /\ provider'[x] = provider[x]
  BY RefundContext DEF RefundInv
<1>1. ASSUME NEW a \in Admins, NEW k \in Keys, NEW o \in Orders, NEW amount \in 1 .. MaxRefund,
             RefundCheck(a, k, o, amount)
      PROVE  RefundInv'
  <2>1. /\ call'[a].at = "checked" /\ call'[a].order = o
        /\ \A b \in Admins \ {a} : call'[b] = call[b]
        /\ refunds' = refunds /\ paidBack' = paidBack /\ status' = status /\ provider' = provider
    BY <1>0, <1>1 DEF RefundCheck, AfterTypeOK, flowVars, orderVars, paymentVars
  <2>2. status[o] # None
    BY <1>1 DEF RefundCheck, Refundable, None
  <2>3. NamedIsPlaced'
    BY <2>1, <2>2 DEF RefundInv, NamedIsPlaced
  <2>4. CallsOwnRows'
    BY <2>1 DEF RefundInv, CallsOwnRows, HasRow, RowOf, Answers
  <2>5. AnsweredIsPaid'
    BY <2>1 DEF RefundInv, AnsweredIsPaid, Answers
  <2>6. RefundsMatchProvider'
    BY <2>1 DEF RefundInv, RefundsMatchProvider
  <2> QED
    BY <1>0, <2>3, <2>4, <2>5, <2>6 DEF RefundInv
<1>2. ASSUME NEW a \in Admins, RefundCreate(a)
      PROVE  RefundInv'
  <2> DEFINE k == call[a].key
             o == call[a].order
  <2>0. call[a] # Idle /\ k \in Keys /\ o \in Orders /\ status[o] # None
    BY <1>0, <1>2, CallBusy, CallFields DEF RefundCreate, RefundInv, NamedIsPlaced
  <2>1. /\ call'[a].at = "created" /\ call'[a].key = k /\ call'[a].order = o
        /\ call'[a].amount = call[a].amount
        /\ \A b \in Admins \ {a} : call'[b] = call[b]
        /\ paidBack' = paidBack /\ status' = status /\ provider' = provider
    BY <1>0, <1>2 DEF RefundCreate, Proceed, AfterTypeOK, flowVars, orderVars, paymentVars
  <2>2. /\ refunds[k] = NoRefund
        /\ refunds'[k] = RowOf(a)
        /\ \A j \in Keys \ {k} : refunds'[j] = refunds[j]
    BY <1>0, <1>2, <2>0 DEF RefundCreate, SetRefund, RowOf, AfterTypeOK
  <2>3. NamedIsPlaced'
    BY <2>0, <2>1, <2>2 DEF RefundInv, NamedIsPlaced, RowOf
  <2>4. \A b \in Admins \ {a} : HasRow(b) => call[b].key \in Keys \ {k}
    <3> SUFFICES ASSUME NEW b \in Admins \ {a}, HasRow(b) PROVE call[b].key \in Keys \ {k}
      OBVIOUS
    <3>1. call[b].key \in Keys
      BY <1>0, CallBusy, CallFields DEF HasRow
    <3>2. refunds[call[b].key].status = "PROCESSING"
      <4>1. b \in Admins /\ CallsOwnRows
        BY DEF RefundInv
      <4>2. refunds[call[b].key] = RowOf(b)
        BY <4>1 DEF CallsOwnRows
      <4> QED
        BY <4>2 DEF RowOf
    <3>3. refunds[call[b].key] # NoRefund
      BY <3>2 DEF NoRefund, None
    <3> QED
      BY <2>2, <3>1, <3>3
  <2>5. CallsOwnRows'
    BY <2>1, <2>2, <2>4 DEF RefundInv, CallsOwnRows, HasRow, RowOf
  <2>6. AnsweredIsPaid'
    BY <2>1 DEF RefundInv, AnsweredIsPaid, Answers
  <2>7. RefundsMatchProvider'
    <3>1. ~(paidBack[k] > 0)
      BY <2>0, <2>2 DEF RefundInv, RefundsMatchProvider
    <3> QED
      BY <2>0, <2>1, <2>2, <3>1 DEF RefundInv, RefundsMatchProvider, RowOf
  <2> QED
    BY <1>0, <2>3, <2>5, <2>6, <2>7 DEF RefundInv
<1>3. ASSUME NEW a \in Admins, NEW answer \in Answers, RefundGateway(a, answer)
      PROVE  RefundInv'
  <2> DEFINE k == call[a].key
             o == call[a].order
  <2>0. /\ call[a] # Idle /\ k \in Keys /\ o \in Orders /\ status[o] # None
        /\ HasRow(a) /\ refunds[k] = RowOf(a) /\ call[a].amount \in 1 .. MaxRefund
    BY <1>0, <1>3, CallBusy, CallFields
    DEF RefundGateway, RefundInv, NamedIsPlaced, CallsOwnRows, HasRow
  <2>1. /\ call'[a].at = answer /\ call'[a].key = k /\ call'[a].order = o
        /\ call'[a].amount = call[a].amount
        /\ \A b \in Admins \ {a} : call'[b] = call[b]
        /\ refunds' = refunds /\ status' = status /\ provider' = provider
    BY <1>0, <1>3 DEF RefundGateway, Proceed, AfterTypeOK, flowVars, orderVars, paymentVars
  <2>2. /\ \A j \in Keys \ {k} : paidBack'[j] = paidBack[j]
        /\ provider[o] = "COD" => paidBack' = paidBack
        /\ provider[o] # "COD" => paidBack'[k] = call[a].amount
    BY <1>0, <1>3, <2>0 DEF RefundGateway, AfterTypeOK
  <2>3. NamedIsPlaced'
    BY <2>0, <2>1 DEF RefundInv, NamedIsPlaced
  <2>4. CallsOwnRows'
    BY <2>0, <2>1 DEF RefundInv, CallsOwnRows, HasRow, RowOf
  <2>5. AnsweredIsPaid'
    <3>1. \A b \in Admins \ {a} : call[b].at \in Answers => call[b].key \in Keys \ {k}
      BY <1>0, <2>0, CallBusy, CallFields DEF RefundInv, CallsOwnRows, HasRow
    <3> QED
      BY <2>0, <2>1, <2>2, <3>1 DEF RefundInv, AnsweredIsPaid
  <2>6. RefundsMatchProvider'
    <3>1. refunds[k] # NoRefund /\ refunds[k].amount = call[a].amount
          /\ refunds[k].status # "SUCCEEDED"
      BY <2>0 DEF RowOf, NoRefund
    <3> QED
      BY <2>1, <2>2, <3>1 DEF RefundInv, RefundsMatchProvider
  <2> QED
    BY <1>0, <2>3, <2>4, <2>5, <2>6 DEF RefundInv
<1>4. ASSUME NEW a \in Admins, HasRow(a), EndCall(a), NEW to \in {"SUCCEEDED", "FAILED"},
             SetRefund(a, to), paidBack' = paidBack,
             to = "SUCCEEDED" => call[a].at \in Answers
      PROVE  RefundInv'
  <2> DEFINE k == call[a].key
             o == call[a].order
  <2>0. /\ call[a] # Idle /\ k \in Keys /\ o \in Orders /\ status[o] # None
        /\ refunds[k] = RowOf(a)
    BY <1>0, <1>4, CallBusy, CallFields DEF RefundInv, NamedIsPlaced, CallsOwnRows, HasRow
  <2>1. call'[a] = Idle /\ \A b \in Admins \ {a} : call'[b] = call[b]
    BY <1>0, <1>4 DEF EndCall, AfterTypeOK
  <2>2. /\ refunds'[k] = [status |-> to, order |-> o, amount |-> call[a].amount]
        /\ \A j \in Keys \ {k} : refunds'[j] = refunds[j]
    BY <1>0, <1>4, <2>0 DEF SetRefund, AfterTypeOK
  <2>3. NamedIsPlaced'
    <3>1. \A b \in Admins : call'[b] # Idle => status'[call'[b].order] # None
      BY <1>0, <2>1, CallFields DEF RefundInv, NamedIsPlaced
    <3>2. \A j \in Keys : refunds'[j] # NoRefund => status'[refunds'[j].order] # None
      BY <1>0, <2>0, <2>2, RowFields DEF RefundInv, NamedIsPlaced
    <3> QED
      BY <3>1, <3>2 DEF NamedIsPlaced
  <2>4. \A b \in Admins \ {a} : HasRow(b) => call[b].key \in Keys \ {k}
    BY <1>0, <1>4, CallBusy, CallFields DEF RefundInv, CallsOwnRows, HasRow
  <2>5. CallsOwnRows'
    BY <2>1, <2>2, <2>4 DEF RefundInv, CallsOwnRows, HasRow, RowOf, Idle, Answers
  <2>6. AnsweredIsPaid'
    <3> SUFFICES ASSUME NEW b \in Admins, call'[b].at \in Answers, provider'[call'[b].order] # "COD"
                 PROVE  paidBack[call'[b].key] = call'[b].amount
      BY <1>4 DEF AnsweredIsPaid
    <3>1. b # a /\ call'[b] = call[b]
      BY <2>1 DEF Idle, Answers
    <3>2. call[b].order \in Orders /\ status[call[b].order] # None
      BY <1>0, <3>1, CallBusy, CallFields DEF RefundInv, NamedIsPlaced
    <3> QED
      BY <1>0, <3>1, <3>2 DEF RefundInv, AnsweredIsPaid
  <2>7. RefundsMatchProvider'
    <3>1. refunds[k] # NoRefund /\ refunds[k].amount = call[a].amount
      BY <2>0 DEF RowOf, NoRefund
    <3>2. refunds'[k] # NoRefund /\ refunds'[k].amount = call[a].amount /\ refunds'[k].order = o
      BY <2>2 DEF NoRefund
    <3>3. provider'[o] # "COD" /\ to = "SUCCEEDED" => paidBack[k] = call[a].amount
      BY <1>0, <1>4, <2>0 DEF RefundInv, AnsweredIsPaid
    <3>4. ASSUME NEW j \in Keys \ {k}, refunds[j].status = "SUCCEEDED",
                 provider'[refunds[j].order] # "COD"
          PROVE  paidBack[j] = refunds[j].amount
      <4>1. refunds[j].order \in Orders /\ status[refunds[j].order] # None
        BY <1>0, <3>4, RowFields DEF RefundInv, NamedIsPlaced, NoRefund, None
      <4> QED
        BY <1>0, <3>4, <4>1 DEF RefundInv, RefundsMatchProvider
    <3> QED
      BY <1>4, <2>2, <3>1, <3>2, <3>3, <3>4 DEF RefundInv, RefundsMatchProvider
  <2> QED
    BY <1>0, <2>3, <2>5, <2>6, <2>7 DEF RefundInv
<1>5. ASSUME NEW a \in Admins, call[a] # Idle, EndCall(a), UNCHANGED <<refunds, paidBack>>
      PROVE  RefundInv'
  <2>1. call'[a] = Idle /\ \A b \in Admins \ {a} : call'[b] = call[b]
    BY <1>0, <1>5 DEF EndCall, AfterTypeOK
  <2>2. NamedIsPlaced'
    BY <1>0, <1>5, <2>1, CallFields, RowFields DEF RefundInv, NamedIsPlaced
  <2>3. CallsOwnRows'
    BY <1>5, <2>1 DEF RefundInv, CallsOwnRows, HasRow, RowOf, Idle, Answers
  <2>4. AnsweredIsPaid'
    <3> SUFFICES ASSUME NEW b \in Admins, call'[b].at \in Answers, provider'[call'[b].order] # "COD"
                 PROVE  paidBack[call'[b].key] = call'[b].amount
      BY <1>5 DEF AnsweredIsPaid
    <3>1. b # a /\ call'[b] = call[b]
      BY <2>1 DEF Idle, Answers
    <3>2. call[b].order \in Orders /\ status[call[b].order] # None
      BY <1>0, <3>1, CallBusy, CallFields DEF RefundInv, NamedIsPlaced
    <3> QED
      BY <1>0, <3>1, <3>2 DEF RefundInv, AnsweredIsPaid
  <2>5. RefundsMatchProvider'
    <3> SUFFICES ASSUME NEW j \in Keys, refunds[j].status = "SUCCEEDED",
                        provider'[refunds[j].order] # "COD"
                 PROVE  paidBack[j] = refunds[j].amount
      BY <1>5 DEF RefundInv, RefundsMatchProvider
    <3>1. refunds[j].order \in Orders /\ status[refunds[j].order] # None
      BY <1>0, RowFields DEF RefundInv, NamedIsPlaced, NoRefund, None
    <3> QED
      BY <1>0, <3>1 DEF RefundInv, RefundsMatchProvider
  <2> QED
    BY <1>0, <2>2, <2>3, <2>4, <2>5 DEF RefundInv
<1>6. ASSUME NEW a \in Admins, RefundFinish(a) \/ RefundFail(a) \/ RefundDie(a)
      PROVE  RefundInv'
  <2>1. CASE RefundFinish(a) /\ call[a].at = "succeeded"
    BY <1>4, <2>1 DEF RefundFinish, HasRow
  <2>2. CASE RefundFinish(a) /\ call[a].at # "succeeded"
    BY <1>5, <2>2, CallBusy DEF RefundFinish
  <2>3. CASE RefundFail(a)
    BY <1>4, <2>3 DEF RefundFail, HasRow
  <2>4. CASE RefundDie(a)
    BY <1>5, <2>4 DEF RefundDie
  <2> QED
    BY <1>6, <2>1, <2>2, <2>3, <2>4
<1>7. CASE RefundStep
  BY <1>1, <1>2, <1>3, <1>6, <1>7 DEF RefundStep
<1>8. CASE UNCHANGED refundVars
  BY <1>8, RefundsUntouched
<1>9. CASE ReturnStep
  BY <1>8, <1>9 DEF ReturnStep, CreateReturn, ProvideInformation, SetReturnStatus
<1>10. CASE UNCHANGED afterVars
  BY <1>8, <1>10 DEF afterVars
<1> QED
  BY <1>7, <1>8, <1>9, <1>10 DEF AfterNext

LEMMA RefundInvInit == AfterInit => RefundInv
<1>1. AfterInit => FlowTypeOK /\ AfterTypeOK
  BY ReturnInvInit DEF ReturnInv
<1>2. AfterInit => NamedIsPlaced /\ CallsOwnRows /\ AnsweredIsPaid
  BY DEF AfterInit, NamedIsPlaced, CallsOwnRows, AnsweredIsPaid, HasRow, Idle, Answers
<1>3. AfterInit => RefundsMatchProvider
  BY DEF AfterInit, RefundsMatchProvider, NoRefund, None
<1> QED
  BY <1>1, <1>2, <1>3 DEF RefundInv

\* Whatever dies between the gateway and the database: money that was paid
\* back has its row and amount, and an online refund SUCCEEDED was paid back.
THEOREM AfterRefundsMatchProvider == AfterSpec => []RefundsMatchProvider
<1>1. RefundInv => RefundsMatchProvider
  BY DEF RefundInv
<1> QED
  BY <1>1, RefundInvInit, RefundInvStep, PTL DEF AfterSpec

-----------------------------------------------------------------------------
(* The sum of the refunds                                                  *)

\* The units of the refunds of an order that succeeded.
Success(o) ==
    {u \in Keys \X (1 .. MaxRefund) :
        /\ refunds[u[1]].status = "SUCCEEDED"
        /\ refunds[u[1]].order = o
        /\ u[2] <= refunds[u[1]].amount}

SumsOfSuccess ==
    \A o \in Orders : /\ Refunded(o) = Cardinality(Success(o))
                     /\ Refunded(o) \in Nat
                     /\ IsFiniteSet(Success(o))

LEMMA RefundedIsSuccess == SumsOfSuccess
<1> SUFFICES ASSUME NEW o \in Orders
             PROVE  /\ Refunded(o) = Cardinality(Success(o))
                    /\ Refunded(o) \in Nat
                    /\ IsFiniteSet(Success(o))
  BY DEF SumsOfSuccess
<1> DEFINE succeeded == [k \in Keys |-> IF refunds[k].status = "SUCCEEDED"
                                        THEN refunds[k].amount ELSE 0]
<1>1. Units(o, succeeded) = Success(o)
  <2> SUFFICES ASSUME NEW u \in Keys \X (1 .. MaxRefund)
               PROVE  u \in Units(o, succeeded) <=> u \in Success(o)
    BY DEF Units, Success
  <2>1. u[1] \in Keys /\ u[2] \in 1 .. MaxRefund
    OBVIOUS
  <2>2. CASE refunds[u[1]].status = "SUCCEEDED"
    <3>1. refunds[u[1]] # NoRefund
      BY <2>2 DEF NoRefund, None
    <3> QED
      BY <2>1, <2>2, <3>1 DEF Units, Success
  <2>3. CASE refunds[u[1]].status # "SUCCEEDED"
    <3>1. succeeded[u[1]] = 0 /\ ~(u[2] <= 0)
      BY <2>1, <2>3, AfterAssumption
    <3> QED
      BY <2>3, <3>1 DEF Units, Success
  <2> QED
    BY <2>2, <2>3
<1>2. Refunded(o) = Cardinality(Success(o))
  BY <1>1 DEF Refunded
<1>3. IsFiniteSet(Keys \X (1 .. MaxRefund))
  <2>1. IsFiniteSet(Keys) /\ IsFiniteSet(1 .. MaxRefund)
    BY AfterAssumption, FS_Interval
  <2> QED
    BY ONLY <2>1, FS_Product
<1>4. Success(o) \subseteq Keys \X (1 .. MaxRefund)
  BY DEF Success
<1> QED
  BY <1>2, <1>3, <1>4, FS_Subset, FS_CardinalityType

LEMMA RefundedIsSuccessNext == SumsOfSuccess'
BY RefundedIsSuccess, PTL

\* A step that changes only rows that did not and do not succeed.
LEMMA SumKept ==
    ASSUME \A k \in Keys : \/ refunds'[k] = refunds[k]
                           \/ /\ refunds[k].status # "SUCCEEDED"
                              /\ refunds'[k].status # "SUCCEEDED",
           NEW o \in Orders
    PROVE  Refunded(o)' = Refunded(o)
<1>1. Success(o)' = Success(o)
  BY DEF Success
<1> QED
  BY <1>1, RefundedIsSuccess, RefundedIsSuccessNext DEF SumsOfSuccess

\* A refund that succeeds adds its amount to the sum of its order.
LEMMA SumGrows ==
    ASSUME RefundInv, NEW a \in Admins, RefundFinish(a), call[a].at = "succeeded",
           NEW o \in Orders, o = call[a].order,
           NEW n, n = call[a].amount
    PROVE  /\ n \in 1 .. MaxRefund
           /\ Refunded(o)' = Refunded(o) + n
           /\ \A x \in Orders \ {o} : Refunded(x)' = Refunded(x)
<1> DEFINE k == call[a].key
           new == {k} \X (1 .. n)
<1>1. /\ FlowTypeOK /\ AfterTypeOK /\ HasRow(a)
      /\ k \in Keys /\ n \in 1 .. MaxRefund
  BY CallBusy, CallFields DEF RefundInv, HasRow, Answers
<1>2. refunds[k] = RowOf(a)
  BY <1>1 DEF RefundInv, CallsOwnRows
<1>3. /\ refunds'[k] = [status |-> "SUCCEEDED", order |-> o, amount |-> n]
      /\ \A j \in Keys \ {k} : refunds'[j] = refunds[j]
  BY <1>1 DEF RefundFinish, SetRefund, AfterTypeOK
<1>4. refunds[k].status # "SUCCEEDED"
  BY <1>2 DEF RowOf
<1>5. ASSUME NEW x \in Orders \ {o}
      PROVE  Refunded(x)' = Refunded(x)
  <2>1. Success(x)' = Success(x)
    BY <1>3, <1>4 DEF Success
  <2> QED
    BY <2>1, RefundedIsSuccess, RefundedIsSuccessNext DEF SumsOfSuccess
<1>6. Success(o)' = Success(o) \cup new
  <2> SUFFICES ASSUME NEW u \in Keys \X (1 .. MaxRefund)
               PROVE  u \in Success(o)' <=> u \in Success(o) \/ u \in new
    <3>1. new \subseteq Keys \X (1 .. MaxRefund)
      BY <1>1, AfterAssumption
    <3> QED
      BY <3>1 DEF Success
  <2>1. CASE u[1] = k
    BY <1>1, <1>3, <1>4, <2>1 DEF Success
  <2>2. CASE u[1] # k
    BY <1>3, <2>2 DEF Success
  <2> QED
    BY <2>1, <2>2
<1>7. Success(o) \cap new = {}
  BY <1>4 DEF Success
<1>8. IsFiniteSet(new) /\ Cardinality(new) = n
  <2>1. n \in Nat
    BY <1>1, AfterAssumption
  <2> QED
    BY ONLY <2>1, UnitsOfOneOrder
<1>9. IsFiniteSet(Success(o)) /\ Cardinality(Success(o)) \in Nat
  BY <1>1, RefundedIsSuccess DEF SumsOfSuccess
<1>10. Cardinality(Success(o) \cup new) = Cardinality(Success(o)) + n
  <2>1. Cardinality(Success(o) \cap new) = 0
    BY <1>7, FS_EmptySet
  <2>2. Cardinality(Success(o) \cup new)
          = Cardinality(Success(o)) + Cardinality(new) - Cardinality(Success(o) \cap new)
    BY ONLY <1>8, <1>9, FS_Union
  <2>3. n \in Nat
    BY <1>1, AfterAssumption
  <2> QED
    BY ONLY <1>8, <1>9, <2>1, <2>2, <2>3
<1>11. Refunded(o)' = Refunded(o) + n
  BY <1>1, <1>6, <1>10, RefundedIsSuccess, RefundedIsSuccessNext DEF SumsOfSuccess
<1> QED
  BY <1>1, <1>5, <1>11

\* No other step changes a sum.
LEMMA OtherSumsKept ==
    ASSUME RefundInv, [AfterNext]_afterVars,
           ~ \E a \in Admins : RefundFinish(a) /\ call[a].at = "succeeded",
           NEW o \in Orders
    PROVE  Refunded(o)' = Refunded(o)
<1> DEFINE Kept == \A k \in Keys : \/ refunds'[k] = refunds[k]
                                   \/ /\ refunds[k].status # "SUCCEEDED"
                                      /\ refunds'[k].status # "SUCCEEDED"
<1>1. CASE UNCHANGED refunds
  BY <1>1, SumKept
<1>2. ASSUME NEW a \in Admins, call[a] # Idle, refunds[call[a].key].status # "SUCCEEDED",
             NEW to \in {"PROCESSING", "FAILED"}, SetRefund(a, to)
      PROVE  Refunded(o)' = Refunded(o)
  <2>1. call[a].key \in Keys
    BY <1>2, CallFields DEF RefundInv
  <2>2. Kept
    BY <1>2, <2>1 DEF SetRefund, RefundInv, AfterTypeOK
  <2> QED
    BY <2>2, SumKept
<1>3. ASSUME NEW a \in Admins, RefundCreate(a)
      PROVE  Refunded(o)' = Refunded(o)
  BY <1>2, <1>3, CallBusy DEF RefundCreate, NoRefund, None
<1>4. ASSUME NEW a \in Admins, RefundFail(a)
      PROVE  Refunded(o)' = Refunded(o)
  <2>1. refunds[call[a].key] = RowOf(a)
    BY <1>4 DEF RefundFail, RefundInv, CallsOwnRows, HasRow
  <2>2. refunds[call[a].key].status # "SUCCEEDED"
    BY <2>1 DEF RowOf
  <2> QED
    BY <1>2, <1>4, <2>2, CallBusy DEF RefundFail
<1>5. CASE RefundStep
  BY <1>1, <1>3, <1>4, <1>5
  DEF RefundStep, RefundCheck, RefundGateway, RefundFinish, RefundDie
<1>6. CASE ReturnStep
  BY <1>1, <1>6 DEF ReturnStep, CreateReturn, ProvideInformation, SetReturnStatus, refundVars
<1>7. CASE FlowNext /\ UNCHANGED <<request, refundVars>>
  BY <1>1, <1>7 DEF refundVars
<1>8. CASE UNCHANGED afterVars
  BY <1>1, <1>8 DEF afterVars, refundVars
<1> QED
  BY <1>5, <1>6, <1>7, <1>8 DEF AfterNext

\* A call after a step is the one before it, or has just read its order.
LEMMA CallsChange ==
    ASSUME AfterTypeOK, [AfterNext]_afterVars, NEW b \in Admins, call'[b] # Idle
    PROVE  \/ /\ call[b] # Idle
              /\ call'[b].order = call[b].order
              /\ call'[b].amount = call[b].amount
              /\ call'[b].already = call[b].already
           \/ /\ UNCHANGED refunds
              /\ call'[b].order \in Orders /\ call'[b].amount \in 1 .. MaxRefund
              /\ call'[b].already = Refunded(call'[b].order)
              /\ call'[b].amount + Refunded(call'[b].order) <= Total
<1> DEFINE Same == /\ call[b] # Idle
                   /\ call'[b].order = call[b].order
                   /\ call'[b].amount = call[b].amount
                   /\ call'[b].already = call[b].already
           Fresh == /\ UNCHANGED refunds
                    /\ call'[b].order \in Orders /\ call'[b].amount \in 1 .. MaxRefund
                    /\ call'[b].already = Refunded(call'[b].order)
                    /\ call'[b].amount + Refunded(call'[b].order) <= Total
<1>1. ASSUME UNCHANGED call
      PROVE  Same
  BY <1>1
<1>2. ASSUME NEW a \in Admins, NEW k \in Keys, NEW o \in Orders, NEW amount \in 1 .. MaxRefund,
             RefundCheck(a, k, o, amount)
      PROVE  Same \/ Fresh
  <2>1. CASE b = a
    <3>1. call'[b] = [at |-> "checked", key |-> k, order |-> o, amount |-> amount,
                      already |-> Refunded(o), was |-> status[o]]
      BY <1>2, <2>1 DEF RefundCheck, AfterTypeOK
    <3>2. UNCHANGED refunds /\ amount + Refunded(o) <= Total
      BY <1>2 DEF RefundCheck
    <3>3. Fresh
      BY <3>1, <3>2
    <3> QED
      BY <3>3
  <2>2. CASE b # a
    BY <1>2, <2>2 DEF RefundCheck, AfterTypeOK
  <2> QED
    BY <2>1, <2>2
<1>3. ASSUME NEW a \in Admins, NEW at, call[a] # Idle, Proceed(a, at)
      PROVE  Same
  <2>1. CASE b = a
    BY <1>3, <2>1 DEF Proceed, AfterTypeOK
  <2>2. CASE b # a
    BY <1>3, <2>2 DEF Proceed, AfterTypeOK
  <2> QED
    BY <2>1, <2>2
<1>4. ASSUME NEW a \in Admins, EndCall(a)
      PROVE  Same
  BY <1>4 DEF EndCall, AfterTypeOK
<1>5. CASE RefundStep
  <2>1. ASSUME NEW a \in Admins, RefundCreate(a)
        PROVE  Same
    BY <1>3, <2>1, CallBusy DEF RefundCreate
  <2>2. ASSUME NEW a \in Admins, NEW answer \in Answers, RefundGateway(a, answer)
        PROVE  Same
    BY <1>3, <2>2, CallBusy DEF RefundGateway
  <2>3. ASSUME NEW a \in Admins, RefundFinish(a) \/ RefundFail(a) \/ RefundDie(a)
        PROVE  Same
    BY <1>4, <2>3 DEF RefundFinish, RefundFail, RefundDie
  <2> HIDE DEF Same, Fresh
  <2>4. Same \/ Fresh
    BY <1>2, <1>5, <2>1, <2>2, <2>3 DEF RefundStep
  <2> QED
    BY <2>4 DEF Same, Fresh
<1>6. CASE ReturnStep
  BY <1>1, <1>6 DEF ReturnStep, CreateReturn, ProvideInformation, SetReturnStatus, refundVars
<1>7. CASE UNCHANGED refundVars
  BY <1>1, <1>7 DEF refundVars
<1>8. CASE UNCHANGED afterVars
  BY <1>1, <1>8 DEF afterVars, refundVars
<1> QED
  BY <1>5, <1>6, <1>7, <1>8 DEF AfterNext

\* What a call has summed up may be old, but sums only grow.
SeenIsOld == \A a \in Admins : call[a] # Idle => call[a].already <= Refunded(call[a].order)

WholeInv == RefundInv /\ SeenIsOld /\ RefundedMeansWhole

LEMMA SumsGrow ==
    ASSUME RefundInv, [AfterNext]_afterVars, NEW x \in Orders
    PROVE  Refunded(x) \in Nat /\ Refunded(x)' \in Nat /\ Refunded(x) <= Refunded(x)'
<1>1. Refunded(x) \in Nat /\ Refunded(x)' \in Nat
  BY RefundedIsSuccess, RefundedIsSuccessNext DEF SumsOfSuccess
<1>2. ASSUME NEW a \in Admins, RefundFinish(a), call[a].at = "succeeded"
      PROVE  Refunded(x) <= Refunded(x)'
  <2>1. call[a].order \in Orders /\ call[a].amount \in Nat
    BY <1>2, CallBusy, CallFields, AfterAssumption DEF RefundInv, Answers
  <2>2. CASE x = call[a].order
    BY <1>1, <1>2, <2>1, <2>2, SumGrows
  <2>3. CASE x # call[a].order
    BY <1>1, <1>2, <2>1, <2>3, SumGrows
  <2> QED
    BY <2>2, <2>3
<1>3. CASE ~ \E a \in Admins : RefundFinish(a) /\ call[a].at = "succeeded"
  BY <1>1, <1>3, OtherSumsKept
<1> QED
  BY <1>1, <1>2, <1>3

LEMMA WholeStep == WholeInv /\ [AfterNext]_afterVars => WholeInv'
<1> SUFFICES ASSUME WholeInv, [AfterNext]_afterVars PROVE WholeInv'
  OBVIOUS
<1>1. RefundInv /\ RefundInv' /\ FlowTypeOK /\ AfterTypeOK
  BY RefundInvStep DEF WholeInv, RefundInv
<1>2. SeenIsOld'
  <2> SUFFICES ASSUME NEW b \in Admins, NEW o, o = call'[b].order, call'[b] # Idle
               PROVE  call'[b].already <= Refunded(o)'
    BY DEF SeenIsOld
  <2>1. CASE /\ call[b] # Idle /\ o = call[b].order
             /\ call'[b].already = call[b].already
    <3>1. o \in Orders /\ call[b].already \in Nat /\ call[b].already <= Refunded(o)
      BY <1>1, <2>1, CallFields DEF WholeInv, SeenIsOld
    <3> QED
      BY <1>1, <2>1, <3>1, SumsGrow
  <2>2. CASE /\ o \in Orders /\ call'[b].already = Refunded(o)
    BY <1>1, <2>2, SumsGrow
  <2> QED
    BY <1>1, <2>1, <2>2, CallsChange
<1>3. RefundedMeansWhole'
  <2> SUFFICES ASSUME NEW x \in Orders, payment'[x] = "REFUNDED"
               PROVE  Refunded(x)' >= Total
    BY DEF RefundedMeansWhole
  <2>1. Refunded(x) \in Nat /\ Refunded(x)' \in Nat /\ Refunded(x) <= Refunded(x)'
    BY <1>1, SumsGrow
  <2>2. CASE payment[x] = "REFUNDED"
    BY <2>1, <2>2, AfterAssumption DEF WholeInv, RefundedMeansWhole
  <2>3. ASSUME NEW a \in Admins, RefundFinish(a), call[a].order = x, payment[x] # "REFUNDED"
        PROVE  Refunded(x)' >= Total
    <3>1. call[a].at = "succeeded"
      BY <1>1, <2>3 DEF RefundFinish
    <3>2. call[a].amount + call[a].already = Total
      BY <1>1, <2>3, <3>1 DEF RefundFinish, FlowTypeOK
    <3>3. Refunded(x)' = Refunded(x) + call[a].amount
      BY <1>1, <2>3, <3>1, SumGrows
    <3>4. call[a].already <= Refunded(x) /\ call[a].already \in Nat /\ call[a].amount \in Nat
      BY <1>1, <2>3, CallBusy, CallFields, AfterAssumption DEF RefundFinish, WholeInv, SeenIsOld
    <3> QED
      BY <2>1, <3>2, <3>3, <3>4
  <2> QED
    BY <1>1, <2>2, <2>3, AfterOrderly DEF Orderly
<1> QED
  BY <1>1, <1>2, <1>3 DEF WholeInv

\* A payment is REFUNDED only when its refunds add up to it, though any number
\* of calls may have computed what is left from an old sum.
THEOREM AfterRefundedMeansWhole == AfterSpec => []RefundedMeansWhole
<1>1. AfterInit => WholeInv
  BY RefundInvInit
  DEF AfterInit, FlowInit, WholeInv, SeenIsOld, RefundedMeansWhole, None
<1>2. WholeInv => RefundedMeansWhole
  BY DEF WholeInv
<1> QED
  BY <1>1, <1>2, WholeStep, PTL DEF AfterSpec

\* What a call has checked still fits, as long as there is only one call.
CheckedFits ==
    \A a \in Admins : call[a] # Idle => call[a].amount + Refunded(call[a].order) <= Total

OneByOneInv == RefundInv /\ CheckedFits /\ RefundsWithinPayment

\* Refunds one after another stay within the payment, whatever pends, fails or
\* dies, and whatever late events make of the payment's status.  With two
\* calls at a time they need not.
THEOREM OneByOneWithinPayment ==
    ASSUME \A a, b \in Admins : a = b
    PROVE  AfterSpec => []RefundsWithinPayment
<1>1. AfterInit => OneByOneInv
  <2> SUFFICES ASSUME AfterInit PROVE OneByOneInv
    OBVIOUS
  <2>1. \A o \in Orders : Success(o) = {}
    BY DEF AfterInit, Success, NoRefund, None
  <2>2. RefundsWithinPayment
    BY <2>1, RefundedIsSuccess, FS_EmptySet, AfterAssumption DEF SumsOfSuccess, RefundsWithinPayment
  <2> QED
    BY <2>2, RefundInvInit DEF AfterInit, OneByOneInv, CheckedFits
<1>2. OneByOneInv /\ [AfterNext]_afterVars => OneByOneInv'
  <2> SUFFICES ASSUME OneByOneInv, [AfterNext]_afterVars PROVE OneByOneInv'
    OBVIOUS
  <2>1. RefundInv /\ RefundInv' /\ FlowTypeOK /\ AfterTypeOK
    BY RefundInvStep DEF OneByOneInv, RefundInv
  <2>2. ASSUME NEW a \in Admins, RefundFinish(a), call[a].at = "succeeded"
        PROVE  CheckedFits' /\ RefundsWithinPayment'
    <3>1. call[a].order \in Orders /\ call[a].amount + Refunded(call[a].order) <= Total
      BY <2>1, <2>2, CallBusy, CallFields DEF OneByOneInv, CheckedFits, Answers
    <3>2. \A b \in Admins : call'[b] = Idle
      BY <2>1, <2>2 DEF RefundFinish, EndCall, AfterTypeOK
    <3>3. CheckedFits'
      BY <3>2 DEF CheckedFits
    <3>4. ASSUME NEW x \in Orders
          PROVE  Refunded(x)' <= Total
      <4>1. Refunded(x) \in Nat /\ call[a].amount \in Nat
        BY <2>1, <2>2, CallBusy, CallFields, RefundedIsSuccess, AfterAssumption
        DEF SumsOfSuccess, Answers
      <4>2. CASE x = call[a].order
        BY <2>1, <2>2, <3>1, <4>1, <4>2, SumGrows, AfterAssumption
      <4>3. CASE x # call[a].order
        BY <2>1, <2>2, <3>1, <4>3, SumGrows DEF OneByOneInv, RefundsWithinPayment
      <4> QED
        BY <4>2, <4>3
    <3> QED
      BY <3>3, <3>4 DEF RefundsWithinPayment
  <2>3. CASE ~ \E a \in Admins : RefundFinish(a) /\ call[a].at = "succeeded"
    <3>1. \A x \in Orders : Refunded(x)' = Refunded(x)
      BY <2>1, <2>3, OtherSumsKept
    <3>2. RefundsWithinPayment'
      BY <3>1 DEF OneByOneInv, RefundsWithinPayment
    <3>3. CheckedFits'
      <4> SUFFICES ASSUME NEW b \in Admins, NEW o, o = call'[b].order, call'[b] # Idle
                   PROVE  call'[b].amount + Refunded(o)' <= Total
        BY DEF CheckedFits
      <4>1. CASE call[b] # Idle /\ o = call[b].order /\ call'[b].amount = call[b].amount
        BY <2>1, <3>1, <4>1, CallFields DEF OneByOneInv, CheckedFits
      <4>2. CASE o \in Orders /\ call'[b].amount + Refunded(o) <= Total
        BY <3>1, <4>2
      <4>3. \/ call[b] # Idle /\ o = call[b].order /\ call'[b].amount = call[b].amount
            \/ o \in Orders /\ call'[b].amount + Refunded(o) <= Total
        BY <2>1, CallsChange, Zenon
      <4> QED
        BY <4>1, <4>2, <4>3
    <3> QED
      BY <2>1, <3>2, <3>3 DEF OneByOneInv
  <2> QED
    BY <2>1, <2>2, <2>3 DEF OneByOneInv
<1>3. OneByOneInv => RefundsWithinPayment
  BY DEF OneByOneInv
<1> QED
  BY <1>1, <1>2, <1>3, PTL DEF AfterSpec

\* With one refund request at a time the refunds of an order stay within its
\* payment, and it is REFUNDED only when they add up to it.
THEOREM OneByOneRefundsAddUp ==
    ASSUME \A a, b \in Admins : a = b
    PROVE  AfterSpec => []RefundsAddUp
<1>1. RefundsWithinPayment /\ RefundedMeansWhole => RefundsAddUp
  BY DEF RefundsAddUp
<1> QED
  BY <1>1, OneByOneWithinPayment, AfterRefundedMeansWhole, PTL

-----------------------------------------------------------------------------
(* Returns and refunds follow the delivery                                 *)

\* Without a capture request that confirms by an old status an order that was
\* delivered stays so, and only such an order becomes refunded.
StaysDelivered(x) ==
    /\ status[x] \in AfterDelivery => status'[x] \in AfterDelivery
    /\ status'[x] = "DELIVERED" => status[x] \in {"OUT_FOR_DELIVERY", "DELIVERED"}
    /\ status'[x] \in {"PARTIALLY_REFUNDED", "REFUNDED"} =>
          status'[x] = status[x] \/ status[x] \in AfterDelivery

LEMMA FlowStaysDelivered ==
    ASSUME Clients = {}, FlowTypeOK, [FlowNext]_flowVars, NEW x \in Orders
    PROVE  StaysDelivered(x)
<1>1. ASSUME NEW o \in Orders, NEW from, NEW to, SetStatus(o, from, to),
             status[o] \in AfterDelivery => to \in AfterDelivery,
             to = "DELIVERED" => status[o] = "OUT_FOR_DELIVERY",
             to \in {"PARTIALLY_REFUNDED", "REFUNDED"} => status[o] \in AfterDelivery
      PROVE  StaysDelivered(x)
  BY <1>1 DEF StaysDelivered, SetStatus, FlowTypeOK
<1>2. ASSUME NEW o \in Orders, NEW lines, NEW p, PlaceOrder(o, lines, p)
      PROVE  StaysDelivered(x)
  BY <1>1, <1>2 DEF PlaceOrder, AfterDelivery, None
<1>3. ASSUME NEW o \in Orders, NEW to, Transition(o, to)
      PROVE  StaysDelivered(x)
  <2>1. status[o] \in OrderStatus /\ to \in ORDER_TRANSITIONS[status[o]]
    BY <1>3 DEF Transition, FlowTypeOK
  <2>2. /\ status[o] \in AfterDelivery => to \in AfterDelivery
        /\ to = "DELIVERED" => status[o] = "OUT_FOR_DELIVERY"
        /\ to \in {"PARTIALLY_REFUNDED", "REFUNDED"} => status[o] \in AfterDelivery
    BY <2>1 DEF OrderStatus, ORDER_TRANSITIONS, AfterDelivery
  <2> QED
    BY <1>1, <1>3, <2>2 DEF Transition
<1>4. ASSUME NEW o \in Orders, Ship(o)
      PROVE  StaysDelivered(x)
  BY <1>1, <1>4 DEF Ship, AfterDelivery
<1>5. ASSUME NEW o \in Orders, Confirms(o)
      PROVE  StaysDelivered(x)
  BY <1>1, <1>5 DEF Confirms, AfterDelivery
<1>6. CASE UNCHANGED orderVars
  BY <1>6 DEF orderVars, StaysDelivered
<1> QED
  BY <1>2, <1>3, <1>4, <1>5, <1>6, FlowMoves DEF OrderStep, StockStep

\* A request for an order, or a refund under way, is about a delivered one.
DeliveredInv ==
    /\ \A o \in Orders : request[o] # NoRequest => status[o] \in AfterDelivery \ {"DELIVERED"}
    /\ \A a \in Admins : call[a] # Idle => status[call[a].order] \in AfterDelivery

LEMMA DeliveredStep ==
    ASSUME Clients = {}, FlowTypeOK, AfterTypeOK, DeliveredInv, [AfterNext]_afterVars
    PROVE  DeliveredInv' /\ \A x \in Orders : StaysDelivered(x)
<1>1. ASSUME \A x \in Orders : StaysDelivered(x),
             \A o \in Orders : request'[o] # NoRequest =>
                 request[o] # NoRequest \/ status'[o] \in AfterDelivery \ {"DELIVERED"},
             \A a \in Admins : call'[a] # Idle =>
                 \/ call[a] # Idle /\ call'[a].order = call[a].order
                 \/ call'[a].order \in Orders /\ status[call'[a].order] \in AfterDelivery
      PROVE  DeliveredInv' /\ \A x \in Orders : StaysDelivered(x)
  <2>1. ASSUME NEW o \in Orders, request'[o] # NoRequest
        PROVE  status'[o] \in AfterDelivery \ {"DELIVERED"}
    BY <1>1, <2>1 DEF DeliveredInv, StaysDelivered, AfterDelivery
  <2>2. ASSUME NEW a \in Admins, call'[a] # Idle
        PROVE  status'[call'[a].order] \in AfterDelivery
    BY <1>1, <2>2, CallFields DEF DeliveredInv, StaysDelivered
  <2> QED
    BY <1>1, <2>1, <2>2 DEF DeliveredInv
<1>2. UNCHANGED status => \A x \in Orders : StaysDelivered(x)
  BY DEF StaysDelivered
<1>3. CASE FlowNext /\ UNCHANGED <<request, refundVars>>
  BY <1>1, <1>3, FlowStaysDelivered DEF refundVars
<1>4. ASSUME NEW o \in Orders, NEW lines \in Lines, CreateReturn(o, lines)
      PROVE  DeliveredInv' /\ \A x \in Orders : StaysDelivered(x)
  <2>1. \A x \in Orders : StaysDelivered(x)
    BY <1>4 DEF CreateReturn, SetStatus, FlowTypeOK, StaysDelivered, AfterDelivery
  <2>2. \A x \in Orders : request'[x] # NoRequest =>
            request[x] # NoRequest \/ status'[x] \in AfterDelivery \ {"DELIVERED"}
    BY <1>4 DEF CreateReturn, SetStatus, FlowTypeOK, AfterTypeOK, AfterDelivery
  <2> QED
    BY <1>1, <1>4, <2>1, <2>2 DEF CreateReturn, refundVars
<1>5. ASSUME NEW o \in Orders, NEW to, request[o] # NoRequest, MoveRequest(o, to),
             UNCHANGED <<orderVars, refundVars>>
      PROVE  DeliveredInv' /\ \A x \in Orders : StaysDelivered(x)
  <2>1. \A x \in Orders : request'[x] # NoRequest => request[x] # NoRequest
    BY <1>5 DEF MoveRequest, AfterTypeOK
  <2> QED
    BY <1>1, <1>2, <1>5, <2>1 DEF orderVars, refundVars
<1>6. CASE ReturnStep
  <2>1. ASSUME NEW o \in Orders, ProvideInformation(o)
        PROVE  request[o] # NoRequest /\ MoveRequest(o, "REQUESTED")
                  /\ UNCHANGED <<orderVars, refundVars>>
    BY <2>1 DEF ProvideInformation, NoRequest, None, flowVars
  <2>2. ASSUME NEW o \in Orders, NEW to, SetReturnStatus(o, to)
        PROVE  request[o] # NoRequest /\ MoveRequest(o, to) /\ UNCHANGED <<orderVars, refundVars>>
    BY <2>2 DEF SetReturnStatus
  <2> QED
    BY <1>4, <1>5, <1>6, <2>1, <2>2 DEF ReturnStep
<1>7. ASSUME NEW a \in Admins, NEW k \in Keys, NEW o \in Orders, NEW amount,
             RefundCheck(a, k, o, amount)
      PROVE  DeliveredInv' /\ \A x \in Orders : StaysDelivered(x)
  <2>1. status[o] \in AfterDelivery
    BY <1>7 DEF RefundCheck, Refundable, AfterDelivery
  <2>2. \A b \in Admins : call'[b] # Idle =>
            \/ call[b] # Idle /\ call'[b].order = call[b].order
            \/ call'[b].order \in Orders /\ status[call'[b].order] \in AfterDelivery
    BY <1>7, <2>1 DEF RefundCheck, AfterTypeOK
  <2> QED
    BY <1>1, <1>2, <1>7, <2>2 DEF RefundCheck, flowVars, orderVars
<1>8. ASSUME NEW a \in Admins, call[a] # Idle, EndCall(a) \/ \E at : Proceed(a, at)
      PROVE  \A b \in Admins : call'[b] # Idle => call[b] # Idle /\ call'[b].order = call[b].order
  BY <1>8 DEF EndCall, Proceed, AfterTypeOK
<1>9. ASSUME NEW a \in Admins, UNCHANGED <<orderVars, request>>, call[a] # Idle,
             EndCall(a) \/ \E at : Proceed(a, at)
      PROVE  DeliveredInv' /\ \A x \in Orders : StaysDelivered(x)
  BY <1>1, <1>2, <1>8, <1>9 DEF orderVars
<1>10. ASSUME NEW a \in Admins,
              RefundCreate(a) \/ RefundFail(a) \/ RefundDie(a)
                 \/ \E answer \in Answers : RefundGateway(a, answer)
       PROVE  DeliveredInv' /\ \A x \in Orders : StaysDelivered(x)
  <2>1. call[a] # Idle /\ (EndCall(a) \/ \E at : Proceed(a, at))
    BY <1>10, CallBusy DEF RefundCreate, RefundFail, RefundDie, RefundGateway
  <2>2. UNCHANGED <<orderVars, request>>
    BY <1>10 DEF RefundCreate, RefundFail, RefundDie, RefundGateway, flowVars
  <2> QED
    BY <1>9, <2>1, <2>2
<1>11. ASSUME NEW a \in Admins, RefundFinish(a)
       PROVE  DeliveredInv' /\ \A x \in Orders : StaysDelivered(x)
  <2>1. call[a] # Idle /\ EndCall(a) /\ UNCHANGED request
    BY <1>11, CallBusy DEF RefundFinish
  <2>2. call[a].order \in Orders /\ status[call[a].order] \in AfterDelivery
    BY <2>1, CallFields DEF DeliveredInv
  <2>3. \/ UNCHANGED status
        \/ \E to \in {"PARTIALLY_REFUNDED", "REFUNDED"} :
              status' = [status EXCEPT ![call[a].order] = to]
    BY <1>11 DEF RefundFinish, SetStatus
  <2>4. \A x \in Orders : StaysDelivered(x)
    BY <2>2, <2>3 DEF StaysDelivered, FlowTypeOK, AfterDelivery
  <2> QED
    BY <1>1, <1>8, <2>1, <2>4
<1>12. CASE RefundStep
  BY <1>7, <1>10, <1>11, <1>12 DEF RefundStep
<1>13. CASE UNCHANGED afterVars
  BY <1>1, <1>2, <1>13 DEF afterVars, flowVars, orderVars, refundVars
<1> QED
  BY <1>3, <1>6, <1>12, <1>13 DEF AfterNext

\* An order is returned and refunded only after its delivery and by one request,
\* for any number of administrators, refund requests and return requests, when no
\* capture request confirms by an old snapshot (orders.service.ts createReturn,
\* admin.service.ts updateReturn, payments.service.ts refund).
THEOREM AfterReturnsFollowDelivery ==
    ASSUME Clients = {}
    PROVE  AfterSpec => ReturnsFollowDelivery
<1>1. AfterInit => DeliveredInv
  BY DEF AfterInit, DeliveredInv
<1>2. DeliveredInv => OneRequestPerOrder
  BY DEF DeliveredInv, OneRequestPerOrder
<1>3. FlowTypeOK /\ AfterTypeOK /\ DeliveredInv /\ [AfterNext]_afterVars => DeliveredInv'
  BY DeliveredStep
<1>4. FlowTypeOK /\ AfterTypeOK /\ DeliveredInv /\ [AfterNext]_afterVars =>
        [\A o \in Orders :
            status'[o] # status[o] /\ status'[o] \in {"PARTIALLY_REFUNDED", "REFUNDED"}
                => status[o] \in AfterDelivery]_afterVars
  BY DeliveredStep DEF StaysDelivered
<1> QED
  BY <1>1, <1>2, <1>3, <1>4, AfterTypeCorrect, PTL
  DEF AfterSpec, ReturnsFollowDelivery, RefundedWasDelivered
=============================================================================
