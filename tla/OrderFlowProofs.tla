--------------------------- MODULE OrderFlowProofs ---------------------------
(***************************************************************************)
(* Proofs about OrderFlow: it uses the stock only through the operations   *)
(* of Inventory, so the theorems about the stock hold of it; an online     *)
(* payment is PAID only when the provider was charged, and only stragglers *)
(* undo it; cash is paid on delivery; reservations follow their order's    *)
(* status; and without PayPal captures orders follow ORDER_TRANSITIONS     *)
(* and a confirmed order owns its stock.                                   *)
(***************************************************************************)
EXTENDS OrderFlow, InventoryProofs

-----------------------------------------------------------------------------
(* Types                                                                   *)

LEMMA TablesInStatus ==
    /\ \A s \in OrderStatus : ORDER_TRANSITIONS[s] \subseteq OrderStatus
    /\ None \notin OrderStatus
    /\ "PENDING" \in PaymentStatus /\ "PAID" \in PaymentStatus /\ "FAILED" \in PaymentStatus
    /\ {"PENDING", "CONFIRMED", "SHIPPED", "DELIVERED"} \subseteq OrderStatus
BY DEF ORDER_TRANSITIONS, OrderStatus, PaymentStatus, None

\* The conjuncts of FlowTypeOK about orders and their history.
LEMMA SetStatusType ==
    ASSUME FlowTypeOK, NEW o \in Orders, NEW from \in OrderStatus \cup {None},
           NEW to \in OrderStatus, SetStatus(o, from, to)
    PROVE  /\ status' \in [Orders -> OrderStatus \cup {None}]
           /\ history' \in [Orders -> (OrderStatus \cup {None}) \X (OrderStatus \cup {None})]
BY DEF FlowTypeOK, SetStatus

LEMMA ConfirmType ==
    ASSUME FlowTypeOK, NEW o \in Orders, NEW s, ConfirmIfPending(o, s)
    PROVE  /\ status' \in [Orders -> OrderStatus \cup {None}]
           /\ history' \in [Orders -> (OrderStatus \cup {None}) \X (OrderStatus \cup {None})]
<1>1. CASE s = "PENDING"
  BY <1>1, SetStatusType, TablesInStatus DEF ConfirmIfPending
<1>2. CASE s # "PENDING"
  BY <1>2 DEF ConfirmIfPending, FlowTypeOK
<1> QED
  BY <1>1, <1>2

LEMMA MarkPaidType ==
    ASSUME FlowTypeOK, NEW o \in Orders, NEW p, NEW s, MarkPaid(o, p, s)
    PROVE  /\ status' \in [Orders -> OrderStatus \cup {None}]
           /\ history' \in [Orders -> (OrderStatus \cup {None}) \X (OrderStatus \cup {None})]
           /\ payment' \in [Orders -> PaymentStatus \cup {None}]
           /\ transaction' \in [Orders -> {None, "SESSION", "CHARGE"}]
<1>1. CASE p = "PAID"
  BY <1>1 DEF MarkPaid, FlowTypeOK
<1>2. CASE p # "PAID"
  BY <1>2, ConfirmType, TablesInStatus DEF MarkPaid, FlowTypeOK
<1> QED
  BY <1>1, <1>2

LEMMA CaptureOrder ==
    ASSUME FlowTypeOK, NEW c \in Clients, capture[c].at \in {"checked", "captured", "snapshot"}
    PROVE  capture[c].order \in Orders
BY DEF FlowTypeOK, Captures, Idle

LEMMA FlowTypeStep == FlowTypeOK /\ [FlowNext]_flowVars => FlowTypeOK'
<1> SUFFICES ASSUME FlowTypeOK, [FlowNext]_flowVars PROVE FlowTypeOK'
  OBVIOUS
<1>1. ASSUME NEW o \in Orders, NEW lines \in Lines, NEW p \in Offered, PlaceOrder(o, lines, p)
      PROVE  FlowTypeOK'
  <2>1. /\ status' \in [Orders -> OrderStatus \cup {None}]
        /\ history' \in [Orders -> (OrderStatus \cup {None}) \X (OrderStatus \cup {None})]
    BY <1>1, SetStatusType, TablesInStatus DEF PlaceOrder
  <2> QED
    BY <1>1, <2>1, TablesInStatus DEF PlaceOrder, FlowTypeOK, requestVars, providerVars
<1>2. ASSUME NEW o \in Orders, NEW to \in Targets, Transition(o, to)
      PROVE  FlowTypeOK'
  <2>1. status[o] \in OrderStatus /\ to \in OrderStatus
    BY <1>2, TablesInStatus DEF Transition, FlowTypeOK
  <2>2. /\ status' \in [Orders -> OrderStatus \cup {None}]
        /\ history' \in [Orders -> (OrderStatus \cup {None}) \X (OrderStatus \cup {None})]
    BY <1>2, <2>1, SetStatusType DEF Transition
  <2>3. /\ shipment' \in [Orders -> {None, "SHIPPED", "DELIVERED"}]
        /\ payment' \in [Orders -> PaymentStatus \cup {None}]
        /\ transaction' \in [Orders -> {None, "SESSION", "CHARGE"}]
    BY <1>2, TablesInStatus DEF Transition, FlowTypeOK
  <2> QED
    BY <1>2, <2>2, <2>3 DEF Transition, FlowTypeOK, requestVars, providerVars
<1>3. ASSUME NEW o \in Orders, Ship(o)
      PROVE  FlowTypeOK'
  <2>1. "PACKED" \in OrderStatus /\ "SHIPPED" \in OrderStatus
    BY DEF OrderStatus
  <2>2. /\ status' \in [Orders -> OrderStatus \cup {None}]
        /\ history' \in [Orders -> (OrderStatus \cup {None}) \X (OrderStatus \cup {None})]
    BY <1>3, <2>1, SetStatusType DEF Ship
  <2> QED
    BY <1>3, <2>2 DEF Ship, FlowTypeOK, paymentVars, requestVars, providerVars
<1>4. ASSUME NEW o \in Orders, InitializeRead(o) \/ InitializeWrite(o) \/ InitializeFail(o)
      PROVE  FlowTypeOK'
  BY <1>4, TablesInStatus
  DEF InitializeRead, InitializeWrite, InitializeFail, FlowTypeOK, orderVars, paymentVars,
      providerVars
<1>5. ASSUME NEW o \in Orders, NEW type \in StripeEvents, StripeWebhook(o, type)
      PROVE  FlowTypeOK'
  <2>1. StripeStatus(type) \in PaymentStatus
    BY DEF StripeStatus, PaymentStatus
  <2>2. /\ status' \in [Orders -> OrderStatus \cup {None}]
        /\ history' \in [Orders -> (OrderStatus \cup {None}) \X (OrderStatus \cup {None})]
    <3>1. CASE StripeMatches(o, type)
      BY <1>5, <3>1, ConfirmType DEF StripeWebhook
    <3>2. CASE ~StripeMatches(o, type)
      BY <1>5, <3>2 DEF StripeWebhook, FlowTypeOK
    <3> QED
      BY <3>1, <3>2
  <2>3. /\ payment' \in [Orders -> PaymentStatus \cup {None}]
        /\ transaction' \in [Orders -> {None, "SESSION", "CHARGE"}]
    BY <1>5, <2>1 DEF StripeWebhook, FlowTypeOK
  <2>4. stored' \subseteq emitted'
    BY <1>5 DEF StripeWebhook, FlowTypeOK
  <2> QED
    BY <1>5, <2>2, <2>3, <2>4 DEF StripeWebhook, FlowTypeOK, requestVars
<1>6. ASSUME NEW o \in Orders, NEW type \in PayPalEvents, PayPalWebhook(o, type)
      PROVE  FlowTypeOK'
  <2>1. /\ status' \in [Orders -> OrderStatus \cup {None}]
        /\ history' \in [Orders -> (OrderStatus \cup {None}) \X (OrderStatus \cup {None})]
        /\ payment' \in [Orders -> PaymentStatus \cup {None}]
        /\ transaction' \in [Orders -> {None, "SESSION", "CHARGE"}]
    <3>1. CASE type = "PAYMENT.CAPTURE.COMPLETED"
      BY <1>6, <3>1, MarkPaidType DEF PayPalWebhook
    <3>2. CASE type # "PAYMENT.CAPTURE.COMPLETED"
      BY <1>6, <3>2, TablesInStatus DEF PayPalWebhook, FlowTypeOK
    <3> QED
      BY <3>1, <3>2
  <2>2. stored' \subseteq emitted'
    BY <1>6 DEF PayPalWebhook, FlowTypeOK
  <2> QED
    BY <1>6, <2>1, <2>2 DEF PayPalWebhook, FlowTypeOK, requestVars
<1>7. ASSUME NEW c \in Clients, NEW o \in Orders, CaptureCheck(c, o)
      PROVE  FlowTypeOK'
  <2>1. capture' \in [Clients -> Captures]
    BY <1>7 DEF CaptureCheck, FlowTypeOK, Captures
  <2> QED
    BY <1>7, <2>1 DEF CaptureCheck, FlowTypeOK, orderVars, paymentVars, providerVars
<1>8. ASSUME NEW c \in Clients, CaptureGateway(c)
      PROVE  FlowTypeOK'
  <2>1. capture[c].order \in Orders
    BY <1>8, CaptureOrder DEF CaptureGateway
  <2>2. capture' \in [Clients -> Captures]
    BY <1>8, <2>1 DEF CaptureGateway, FlowTypeOK, Captures
  <2>3. charged' \subseteq Orders /\ emitted' \subseteq Events /\ stored' \subseteq emitted'
    BY <1>8, <2>1 DEF CaptureGateway, FlowTypeOK, Events, PayPalEvents
  <2> QED
    BY <1>8, <2>2, <2>3 DEF CaptureGateway, FlowTypeOK, orderVars, paymentVars
<1>9. ASSUME NEW c \in Clients, CaptureDenied(c)
      PROVE  FlowTypeOK'
  <2>1. capture[c].order \in Orders
    BY <1>9, CaptureOrder DEF CaptureDenied
  <2>2. capture' \in [Clients -> Captures]
    BY <1>9 DEF CaptureDenied, FlowTypeOK, Captures
  <2>3. emitted' \subseteq Events /\ stored' \subseteq emitted'
    BY <1>9, <2>1 DEF CaptureDenied, FlowTypeOK, Events, PayPalEvents
  <2> QED
    BY <1>9, <2>2, <2>3 DEF CaptureDenied, FlowTypeOK, orderVars, paymentVars
<1>10. ASSUME NEW c \in Clients, CaptureSnapshot(c)
       PROVE  FlowTypeOK'
  <2>1. capture[c].order \in Orders
    BY <1>10, CaptureOrder DEF CaptureSnapshot
  <2>2. /\ payment[capture[c].order] \in PaymentStatus \cup {None}
        /\ status[capture[c].order] \in OrderStatus \cup {None}
    BY <2>1 DEF FlowTypeOK
  <2>3. capture' \in [Clients -> Captures]
    BY <1>10, <2>1, <2>2 DEF CaptureSnapshot, FlowTypeOK, Captures
  <2> QED
    BY <1>10, <2>3 DEF CaptureSnapshot, FlowTypeOK, orderVars, paymentVars, providerVars
<1>11. ASSUME NEW c \in Clients, CaptureWrite(c)
       PROVE  FlowTypeOK'
  <2>1. capture[c].order \in Orders
    BY <1>11, CaptureOrder DEF CaptureWrite
  <2>2. /\ status' \in [Orders -> OrderStatus \cup {None}]
        /\ history' \in [Orders -> (OrderStatus \cup {None}) \X (OrderStatus \cup {None})]
        /\ payment' \in [Orders -> PaymentStatus \cup {None}]
        /\ transaction' \in [Orders -> {None, "SESSION", "CHARGE"}]
    BY <1>11, <2>1, MarkPaidType DEF CaptureWrite
  <2>3. capture' \in [Clients -> Captures]
    BY <1>11 DEF CaptureWrite, FlowTypeOK, Captures
  <2> QED
    BY <1>11, <2>2, <2>3 DEF CaptureWrite, FlowTypeOK, providerVars
<1>12. ASSUME NEW c \in Clients, CaptureFail(c)
       PROVE  FlowTypeOK'
  <2>1. capture' \in [Clients -> Captures]
    BY <1>12 DEF CaptureFail, FlowTypeOK, Captures
  <2> QED
    BY <1>12, <2>1 DEF CaptureFail, FlowTypeOK, orderVars, paymentVars, providerVars
<1>13. ASSUME NEW o \in Orders, StripeCharge(o)
       PROVE  FlowTypeOK'
  <2>1. charged' \subseteq Orders /\ emitted' \subseteq Events /\ stored' \subseteq emitted'
    BY <1>13 DEF StripeCharge, FlowTypeOK, Events, StripeEvents
  <2> QED
    BY <1>13, <2>1 DEF StripeCharge, FlowTypeOK, orderVars, paymentVars, requestVars
<1>14. ASSUME NEW o \in Orders, NEW type \in StripeEvents, StripeDecline(o, type)
       PROVE  FlowTypeOK'
  <2>1. emitted' \subseteq Events /\ stored' \subseteq emitted'
    BY <1>14 DEF StripeDecline, FlowTypeOK, Events
  <2> QED
    BY <1>14, <2>1 DEF StripeDecline, FlowTypeOK, orderVars, paymentVars, requestVars
<1>15. CASE StockStep
  BY <1>15 DEF StockStep, FlowTypeOK, orderVars, paymentVars, requestVars, providerVars
<1>16. CASE UNCHANGED flowVars
  BY <1>16 DEF flowVars, FlowTypeOK, orderVars, paymentVars, requestVars, providerVars
<1>17. CASE OrderStep
  BY <1>17, <1>1, <1>2, <1>3 DEF OrderStep
<1>18. CASE PaymentStep
  BY <1>18, <1>4, <1>5, <1>6, <1>7, <1>8, <1>9, <1>10, <1>11, <1>12 DEF PaymentStep
<1>19. CASE ProviderStep
  BY <1>19, <1>13, <1>14 DEF ProviderStep
<1> QED
  BY <1>15, <1>16, <1>17, <1>18, <1>19 DEF FlowNext

\* Every table of orders and payments keeps its type: statuses stay in the
\* schema's enums, captures know their order, and only events the providers
\* emitted are stored.
THEOREM FlowTypeCorrect == FlowSpec => []FlowTypeOK
<1>1. FlowInit => FlowTypeOK
  BY DEF FlowInit, FlowTypeOK, Captures
<1> QED
  BY <1>1, FlowTypeStep, PTL DEF FlowSpec

-----------------------------------------------------------------------------
(* The flow implements the stock specification                             *)

LEMMA CommitIsStockStep ==
    ASSUME NEW o \in Orders, CommitOrder(o) \/ CancelOrder(o)
    PROVE  StockNext
BY DEF StockNext

LEMMA ConfirmIsStockStep ==
    ASSUME NEW o \in Orders, NEW s, ConfirmIfPending(o, s)
    PROVE  [StockNext]_stockVars
<1>1. CASE s = "PENDING"
  BY <1>1, CommitIsStockStep DEF ConfirmIfPending
<1>2. CASE s # "PENDING"
  BY <1>2 DEF ConfirmIfPending
<1> QED
  BY <1>1, <1>2

LEMMA MarkPaidIsStockStep ==
    ASSUME NEW o \in Orders, NEW p, NEW s, MarkPaid(o, p, s)
    PROVE  [StockNext]_stockVars
BY ConfirmIsStockStep DEF MarkPaid

LEMMA TransitionIsStockStep ==
    ASSUME NEW o \in Orders, NEW to, Transition(o, to)
    PROVE  [StockNext]_stockVars
<1>1. CASE to = "CONFIRMED"
  BY <1>1, CommitIsStockStep DEF Transition
<1>2. CASE to = "CANCELLED"
  BY <1>2, CommitIsStockStep DEF Transition
<1>3. CASE to \notin {"CONFIRMED", "CANCELLED"}
  BY <1>3 DEF Transition
<1> QED
  BY <1>1, <1>2, <1>3

\* Whatever checkouts, payments, webhooks and captures do, to the stock it is
\* one of the operations of Inventory, or nothing.
LEMMA FlowStepIsStockStep ==
    FlowTypeOK /\ [FlowNext]_flowVars => [StockNext]_stockVars
<1> SUFFICES ASSUME FlowTypeOK, [FlowNext]_flowVars PROVE [StockNext]_stockVars
  OBVIOUS
<1>1. ASSUME NEW o \in Orders, NEW lines \in Lines, NEW p \in Offered, PlaceOrder(o, lines, p)
      PROVE  [StockNext]_stockVars
  <2>1. Reserve(o, lines) \/ ReserveAndCommit(o, lines)
    BY <1>1 DEF PlaceOrder
  <2> QED
    BY <2>1 DEF StockNext
<1>2. CASE OrderStep
  BY <1>1, <1>2, TransitionIsStockStep DEF OrderStep, Ship
<1>3. ASSUME NEW o \in Orders, NEW type, StripeWebhook(o, type) \/ PayPalWebhook(o, type)
      PROVE  [StockNext]_stockVars
  BY <1>3, ConfirmIsStockStep, MarkPaidIsStockStep DEF StripeWebhook, PayPalWebhook
<1>4. ASSUME NEW c \in Clients, CaptureWrite(c)
      PROVE  [StockNext]_stockVars
  <2>1. capture[c].order \in Orders
    BY <1>4, CaptureOrder DEF CaptureWrite
  <2> QED
    BY <1>4, <2>1, MarkPaidIsStockStep DEF CaptureWrite
<1>5. CASE PaymentStep
  BY <1>3, <1>4, <1>5
  DEF PaymentStep, InitializeRead, InitializeWrite, InitializeFail, CaptureCheck,
      CaptureGateway, CaptureDenied, CaptureSnapshot, CaptureFail
<1>6. CASE ProviderStep
  BY <1>6 DEF ProviderStep, StripeCharge, StripeDecline
<1>7. CASE StockStep
  BY <1>7 DEF StockStep, StockNext
<1>8. CASE UNCHANGED flowVars
  BY <1>8 DEF flowVars
<1> QED
  BY <1>2, <1>5, <1>6, <1>7, <1>8 DEF FlowNext

\* The order flow uses the stock only through the operations of Inventory:
\* its specification implements StockSpec.
THEOREM FlowImplementsStock == FlowSpec => StockSpec
<1>1. FlowInit => StockInit
  BY DEF FlowInit
<1> QED
  BY <1>1, FlowTypeCorrect, FlowStepIsStockStep, PTL DEF FlowSpec, StockSpec

\* No oversell in the whole flow, from the theorem about the stock alone.
THEOREM FlowNeverOversold == FlowSpec => []NeverOversold
BY FlowImplementsStock, StockNeverOversold, PTL

\* The reserved and sold counters count the reservations, in the whole flow.
THEOREM FlowCountersMatchRows == FlowSpec => [](ReservedMatchesRows /\ SoldMatchesRows)
BY FlowImplementsStock, StockCountersMatchRows, PTL

-----------------------------------------------------------------------------
(* An online payment is PAID only when the customer was charged            *)

SuccessEvents ==
    {"checkout.session.completed", "payment_intent.succeeded", "PAYMENT.CAPTURE.COMPLETED"}

\* PaidMeansCharged alone is not inductive: what makes a payment PAID is a
\* success event, or a capture request past its gateway call, and each of them
\* exists only after the charge.
ChargeInv ==
    /\ FlowTypeOK
    /\ PaidMeansCharged
    /\ \A o \in Orders, type \in SuccessEvents : <<o, type>> \in emitted => o \in charged
    /\ \A c \in Clients :
          capture[c].at \in {"captured", "snapshot"} => capture[c].order \in charged

\* A step that leaves providers and captures alone and makes no payment PAID
\* but one whose order was charged.
LEMMA PaymentsPaid ==
    ASSUME ChargeInv, FlowTypeOK', UNCHANGED providerVars,
           UNCHANGED provider,
           \A x \in Orders : payment'[x] = "PAID" /\ payment[x] # "PAID" /\ provider[x] # "COD"
                                => x \in charged,
           \A c \in Clients : capture'[c] = capture[c] \/ capture'[c] = Idle
    PROVE  ChargeInv'
<1>1. PaidMeansCharged'
  BY DEF ChargeInv, PaidMeansCharged, providerVars
<1>2. \A c \in Clients :
          capture'[c].at \in {"captured", "snapshot"} => capture'[c].order \in charged'
  BY DEF ChargeInv, Idle, providerVars
<1> QED
  BY <1>1, <1>2 DEF ChargeInv, providerVars

LEMMA ChargeStep == ChargeInv /\ [FlowNext]_flowVars => ChargeInv'
<1> SUFFICES ASSUME ChargeInv, [FlowNext]_flowVars PROVE ChargeInv'
  OBVIOUS
<1>0. FlowTypeOK /\ FlowTypeOK'
  BY FlowTypeStep DEF ChargeInv
<1>1. ASSUME NEW o \in Orders, NEW lines \in Lines, NEW p \in Offered, PlaceOrder(o, lines, p)
      PROVE  ChargeInv'
  <2>1. PaidMeansCharged'
    BY <1>0, <1>1 DEF PlaceOrder, ChargeInv, PaidMeansCharged, FlowTypeOK, providerVars
  <2> QED
    BY <1>0, <1>1, <2>1 DEF PlaceOrder, ChargeInv, requestVars, providerVars
<1>2. ASSUME NEW o \in Orders, NEW to \in Targets, Transition(o, to)
      PROVE  ChargeInv'
  <2>1. \A x \in Orders : payment'[x] = "PAID" /\ payment[x] # "PAID" => provider[x] = "COD"
    BY <1>0, <1>2 DEF Transition, FlowTypeOK
  <2>2. UNCHANGED <<provider, requestVars, providerVars>>
    BY <1>2 DEF Transition
  <2> QED
    BY <1>0, <2>1, <2>2, PaymentsPaid DEF requestVars
<1>3. ASSUME NEW o \in Orders,
             Ship(o) \/ InitializeRead(o) \/ InitializeWrite(o) \/ InitializeFail(o)
      PROVE  ChargeInv'
  <2>1. /\ \A x \in Orders : payment'[x] = "PAID" => payment[x] = "PAID"
        /\ UNCHANGED <<provider, capture, providerVars>>
    BY <1>0, <1>3
    DEF Ship, InitializeRead, InitializeWrite, InitializeFail, FlowTypeOK, paymentVars,
        requestVars
  <2> QED
    BY <1>0, <2>1, PaymentsPaid
<1>4. ASSUME NEW o \in Orders, NEW type \in StripeEvents, StripeWebhook(o, type)
      PROVE  ChargeInv'
  <2>1. StripeStatus(type) = "PAID" => type \in SuccessEvents
    BY DEF StripeStatus, StripeEvents, SuccessEvents
  <2>2. StripeStatus(type) = "PAID" => o \in charged
    BY <1>4, <2>1 DEF StripeWebhook, ChargeInv
  <2>3. \A x \in Orders : payment'[x] = "PAID" /\ payment[x] # "PAID" => x \in charged
    BY <1>0, <1>4, <2>2 DEF StripeWebhook, FlowTypeOK
  <2>4. PaidMeansCharged'
    BY <1>4, <2>3 DEF StripeWebhook, ChargeInv, PaidMeansCharged
  <2> QED
    BY <1>0, <1>4, <2>4 DEF StripeWebhook, ChargeInv, requestVars
<1>5. ASSUME NEW o \in Orders, NEW type \in PayPalEvents, PayPalWebhook(o, type)
      PROVE  ChargeInv'
  <2>1. type = "PAYMENT.CAPTURE.COMPLETED" => o \in charged
    BY <1>5 DEF PayPalWebhook, ChargeInv, SuccessEvents
  <2>2. \A x \in Orders : payment'[x] = "PAID" /\ payment[x] # "PAID" => x \in charged
    BY <1>0, <1>5, <2>1 DEF PayPalWebhook, MarkPaid, FlowTypeOK
  <2>3. PaidMeansCharged'
    BY <1>5, <2>2 DEF PayPalWebhook, ChargeInv, PaidMeansCharged
  <2> QED
    BY <1>0, <1>5, <2>3 DEF PayPalWebhook, ChargeInv, requestVars
<1>6. ASSUME NEW c \in Clients, NEW o \in Orders, CaptureCheck(c, o)
      PROVE  ChargeInv'
  <2>1. PaidMeansCharged'
    BY <1>6 DEF CaptureCheck, ChargeInv, PaidMeansCharged, paymentVars, providerVars
  <2> QED
    BY <1>0, <1>6, <2>1 DEF CaptureCheck, ChargeInv, FlowTypeOK, providerVars
<1>7. ASSUME NEW c \in Clients, CaptureGateway(c)
      PROVE  ChargeInv'
  <2>1. capture[c].order \in Orders
    BY <1>0, <1>7, CaptureOrder DEF CaptureGateway
  <2>2. PaidMeansCharged'
    BY <1>7 DEF CaptureGateway, ChargeInv, PaidMeansCharged, paymentVars
  <2>3. \A x \in Orders, type \in SuccessEvents : <<x, type>> \in emitted' => x \in charged'
    BY <1>7 DEF CaptureGateway, ChargeInv
  <2>4. \A d \in Clients :
            capture'[d].at \in {"captured", "snapshot"} => capture'[d].order \in charged'
    BY <1>0, <1>7 DEF CaptureGateway, ChargeInv, FlowTypeOK
  <2> QED
    BY <1>0, <2>2, <2>3, <2>4 DEF ChargeInv
<1>8. ASSUME NEW c \in Clients, CaptureDenied(c)
      PROVE  ChargeInv'
  <2>1. PaidMeansCharged'
    BY <1>8 DEF CaptureDenied, ChargeInv, PaidMeansCharged, paymentVars
  <2>2. \A x \in Orders, type \in SuccessEvents : <<x, type>> \in emitted' => x \in charged'
    BY <1>8 DEF CaptureDenied, ChargeInv, SuccessEvents
  <2>3. \A d \in Clients :
            capture'[d].at \in {"captured", "snapshot"} => capture'[d].order \in charged'
    BY <1>0, <1>8 DEF CaptureDenied, ChargeInv, FlowTypeOK, Idle
  <2> QED
    BY <1>0, <2>1, <2>2, <2>3 DEF ChargeInv
<1>9. ASSUME NEW c \in Clients, CaptureSnapshot(c)
      PROVE  ChargeInv'
  <2>1. PaidMeansCharged'
    BY <1>9 DEF CaptureSnapshot, ChargeInv, PaidMeansCharged, paymentVars, providerVars
  <2>2. \A d \in Clients :
            capture'[d].at \in {"captured", "snapshot"} => capture'[d].order \in charged'
    BY <1>0, <1>9 DEF CaptureSnapshot, ChargeInv, FlowTypeOK, providerVars
  <2> QED
    BY <1>0, <1>9, <2>1, <2>2 DEF CaptureSnapshot, ChargeInv, providerVars
<1>10. ASSUME NEW c \in Clients, CaptureWrite(c)
       PROVE  ChargeInv'
  <2>1. capture[c].order \in Orders /\ capture[c].order \in charged
    BY <1>0, <1>10, CaptureOrder DEF CaptureWrite, ChargeInv
  <2>2. \A x \in Orders : payment'[x] = "PAID" /\ payment[x] # "PAID" => x \in charged
    BY <1>0, <1>10, <2>1 DEF CaptureWrite, MarkPaid, FlowTypeOK
  <2>3. \A d \in Clients : capture'[d] = capture[d] \/ capture'[d] = Idle
    BY <1>0, <1>10 DEF CaptureWrite, FlowTypeOK
  <2>4. UNCHANGED provider /\ UNCHANGED providerVars
    BY <1>10 DEF CaptureWrite
  <2> QED
    BY <1>0, <2>2, <2>3, <2>4, PaymentsPaid
<1>11. ASSUME NEW c \in Clients, CaptureFail(c)
       PROVE  ChargeInv'
  <2>1. UNCHANGED provider /\ UNCHANGED payment /\ UNCHANGED providerVars
    BY <1>11 DEF CaptureFail, paymentVars
  <2>2. \A d \in Clients : capture'[d] = capture[d] \/ capture'[d] = Idle
    BY <1>0, <1>11 DEF CaptureFail, FlowTypeOK
  <2> QED
    BY <1>0, <2>1, <2>2, PaymentsPaid
<1>12. ASSUME NEW o \in Orders, StripeCharge(o)
       PROVE  ChargeInv'
  <2>1. PaidMeansCharged'
    BY <1>12 DEF StripeCharge, ChargeInv, PaidMeansCharged, paymentVars
  <2>2. \A x \in Orders, type \in SuccessEvents : <<x, type>> \in emitted' => x \in charged'
    BY <1>12 DEF StripeCharge, ChargeInv
  <2> QED
    BY <1>0, <1>12, <2>1, <2>2 DEF StripeCharge, ChargeInv, requestVars
<1>13. ASSUME NEW o \in Orders, NEW type \in StripeEvents, StripeDecline(o, type)
       PROVE  ChargeInv'
  <2>1. PaidMeansCharged'
    BY <1>13 DEF StripeDecline, ChargeInv, PaidMeansCharged, paymentVars
  <2>2. \A x \in Orders, t \in SuccessEvents : <<x, t>> \in emitted' => x \in charged'
    BY <1>13 DEF StripeDecline, ChargeInv, SuccessEvents
  <2> QED
    BY <1>0, <1>13, <2>1, <2>2 DEF StripeDecline, ChargeInv, requestVars
<1>14. CASE StockStep \/ UNCHANGED flowVars
  <2>1. UNCHANGED <<provider, payment, capture, providerVars>>
    BY <1>14 DEF StockStep, flowVars, paymentVars, requestVars
  <2> QED
    BY <1>0, <2>1, PaymentsPaid
<1>15. CASE OrderStep
  BY <1>15, <1>1, <1>2, <1>3 DEF OrderStep
<1>16. CASE PaymentStep
  BY <1>16, <1>3, <1>4, <1>5, <1>6, <1>7, <1>8, <1>9, <1>10, <1>11 DEF PaymentStep
<1>17. CASE ProviderStep
  BY <1>17, <1>12, <1>13 DEF ProviderStep
<1> QED
  BY <1>14, <1>15, <1>16, <1>17 DEF FlowNext

\* Browser redirects, captures, initialize requests and webhooks in any order
\* never mark an online payment PAID that the provider has not charged.
THEOREM FlowPaidMeansCharged == FlowSpec => []PaidMeansCharged
<1>1. FlowInit => FlowTypeOK
  BY DEF FlowInit, FlowTypeOK, Captures
<1>2. FlowInit => ChargeInv
  BY <1>1 DEF FlowInit, ChargeInv, PaidMeansCharged, Idle, None
<1>3. ChargeInv => PaidMeansCharged
  BY DEF ChargeInv
<1> QED
  BY <1>2, <1>3, ChargeStep, PTL DEF FlowSpec

-----------------------------------------------------------------------------
(* What a step may do to one order                                         *)

\* An order stays placed and keeps its provider, only a refund makes its
\* payment REFUNDED, and it becomes PAID together with its charge.
Orderly(x) ==
    /\ status[x] # None => status'[x] # None /\ provider'[x] = provider[x]
    /\ payment'[x] = "REFUNDED" => payment[x] = "REFUNDED"
    /\ payment'[x] = "PAID" =>
          \/ transaction'[x] = "CHARGE"
          \/ payment[x] = "PAID" /\ transaction'[x] = transaction[x]

LEMMA SetStatusOrderly ==
    ASSUME FlowTypeOK, NEW o \in Orders, NEW from, NEW to \in OrderStatus, SetStatus(o, from, to),
           NEW x \in Orders, status[x] # None
    PROVE  status'[x] # None
BY TablesInStatus DEF FlowTypeOK, SetStatus

LEMMA ConfirmOrderly ==
    ASSUME FlowTypeOK, NEW o \in Orders, NEW s, ConfirmIfPending(o, s),
           NEW x \in Orders, status[x] # None
    PROVE  status'[x] # None
BY SetStatusOrderly, TablesInStatus DEF ConfirmIfPending

LEMMA MarkPaidOrderly ==
    ASSUME FlowTypeOK, NEW o \in Orders, NEW p, NEW s, MarkPaid(o, p, s), UNCHANGED provider,
           NEW x \in Orders
    PROVE  Orderly(x)
<1>1. CASE p = "PAID"
  BY <1>1 DEF MarkPaid, Orderly
<1>2. CASE p # "PAID"
  <2>1. status[x] # None => status'[x] # None
    BY <1>2, ConfirmOrderly DEF MarkPaid
  <2>2. CASE x = o
    BY <1>2, <2>1, <2>2 DEF MarkPaid, Orderly, FlowTypeOK
  <2>3. CASE x # o
    BY <1>2, <2>1, <2>3 DEF MarkPaid, Orderly, FlowTypeOK
  <2> QED
    BY <2>2, <2>3
<1> QED
  BY <1>1, <1>2

LEMMA FlowOrderly ==
    ASSUME FlowTypeOK, [FlowNext]_flowVars, NEW x \in Orders
    PROVE  Orderly(x)
<1>1. ASSUME NEW o \in Orders, NEW lines \in Lines, NEW p \in Offered, PlaceOrder(o, lines, p)
      PROVE  Orderly(x)
  <2>1. status[x] # None => status'[x] # None
    BY <1>1, SetStatusOrderly, TablesInStatus DEF PlaceOrder
  <2> QED
    BY <1>1, <2>1 DEF PlaceOrder, Orderly, FlowTypeOK
<1>2. ASSUME NEW o \in Orders, NEW to, Transition(o, to)
      PROVE  Orderly(x)
  <2>1. status[o] \in OrderStatus /\ to \in OrderStatus
    BY <1>2, TablesInStatus DEF Transition, FlowTypeOK
  <2>2. status[x] # None => status'[x] # None
    BY <1>2, <2>1, SetStatusOrderly DEF Transition
  <2>3. \/ payment'[x] = payment[x] /\ transaction'[x] = transaction[x]
        \/ payment'[x] = "PAID" /\ transaction'[x] = "CHARGE"
    BY <1>2 DEF Transition, FlowTypeOK
  <2>4. provider' = provider
    BY <1>2 DEF Transition
  <2> QED
    BY <2>2, <2>3, <2>4 DEF Orderly
<1>3. ASSUME NEW o \in Orders, Ship(o)
      PROVE  Orderly(x)
  BY <1>3, SetStatusOrderly, TablesInStatus DEF Ship, Orderly, paymentVars
<1>4. ASSUME NEW o \in Orders, InitializeRead(o) \/ InitializeWrite(o) \/ InitializeFail(o)
      PROVE  Orderly(x)
  BY <1>4
  DEF InitializeRead, InitializeWrite, InitializeFail, Orderly, FlowTypeOK, paymentVars, orderVars
<1>5. ASSUME NEW o \in Orders, NEW type \in StripeEvents, StripeWebhook(o, type)
      PROVE  Orderly(x)
  <2>1. StripeStatus(type) # "REFUNDED"
    BY DEF StripeStatus
  <2>2. CASE StripeMatches(o, type)
    <3>1. status[x] # None => status'[x] # None
      BY <1>5, <2>2, ConfirmOrderly DEF StripeWebhook
    <3>2. \/ payment'[x] = payment[x] /\ transaction'[x] = transaction[x]
          \/ payment'[x] = StripeStatus(type) /\ transaction'[x] = "CHARGE"
      BY <1>5, <2>2 DEF StripeWebhook, FlowTypeOK
    <3>3. provider' = provider
      BY <1>5 DEF StripeWebhook
    <3> QED
      BY <2>1, <3>1, <3>2, <3>3 DEF Orderly
  <2>3. CASE ~StripeMatches(o, type)
    BY <1>5, <2>3 DEF StripeWebhook, Orderly
  <2> QED
    BY <2>2, <2>3
<1>6. ASSUME NEW o \in Orders, NEW type, PayPalWebhook(o, type)
      PROVE  Orderly(x)
  <2>1. CASE type = "PAYMENT.CAPTURE.COMPLETED"
    BY <1>6, <2>1, MarkPaidOrderly DEF PayPalWebhook
  <2>2. CASE type # "PAYMENT.CAPTURE.COMPLETED"
    BY <1>6, <2>2 DEF PayPalWebhook, Orderly, FlowTypeOK
  <2> QED
    BY <2>1, <2>2
<1>7. ASSUME NEW c \in Clients, CaptureWrite(c)
      PROVE  Orderly(x)
  BY <1>7, CaptureOrder, MarkPaidOrderly DEF CaptureWrite
<1>8. ASSUME UNCHANGED <<status, provider, payment, transaction>>
      PROVE  Orderly(x)
  BY <1>8 DEF Orderly
<1>9. CASE OrderStep
  BY <1>1, <1>2, <1>3, <1>9 DEF OrderStep
<1>10. CASE PaymentStep
  BY <1>4, <1>5, <1>6, <1>7, <1>8, <1>10
  DEF PaymentStep, CaptureCheck, CaptureGateway, CaptureDenied, CaptureSnapshot, CaptureFail,
      orderVars, paymentVars
<1>11. CASE ProviderStep
  BY <1>8, <1>11 DEF ProviderStep, StripeCharge, StripeDecline, orderVars, paymentVars
<1>12. CASE StockStep
  BY <1>8, <1>12 DEF StockStep, orderVars, paymentVars
<1>13. CASE UNCHANGED flowVars
  BY <1>8, <1>13 DEF flowVars, orderVars, paymentVars
<1> QED
  BY <1>9, <1>10, <1>11, <1>12, <1>13 DEF FlowNext

-----------------------------------------------------------------------------
(* Orders and their reservations                                           *)

\* What a paid payment does to its order; only a capture request may do it
\* by a status that has changed since.
Confirms(o) ==
    /\ SetStatus(o, "PENDING", "CONFIRMED") /\ CommitOrder(o) /\ UNCHANGED shipment
    /\ status[o] = "PENDING" \/ Clients # {}

LEMMA ConfirmMoves ==
    ASSUME NEW o \in Orders, NEW s, ConfirmIfPending(o, s), UNCHANGED shipment,
           s \in {status[o], None} \/ Clients # {}
    PROVE  Confirms(o) \/ UNCHANGED <<stockVars, orderVars>>
BY DEF ConfirmIfPending, Confirms, orderVars, None

\* To orders and their stock a step is one of these.
LEMMA FlowMoves ==
    ASSUME FlowTypeOK, [FlowNext]_flowVars
    PROVE  \/ OrderStep \/ StockStep
           \/ \E o \in Orders : Confirms(o)
           \/ UNCHANGED <<stockVars, orderVars>>
<1>1. ASSUME NEW o \in Orders, NEW type \in StripeEvents, StripeWebhook(o, type)
      PROVE  Confirms(o) \/ UNCHANGED <<stockVars, orderVars>>
  BY <1>1, ConfirmMoves DEF StripeWebhook, orderVars
<1>2. ASSUME NEW o \in Orders, NEW type \in PayPalEvents, PayPalWebhook(o, type)
      PROVE  Confirms(o) \/ UNCHANGED <<stockVars, orderVars>>
  BY <1>2, ConfirmMoves DEF PayPalWebhook, MarkPaid, orderVars
<1>3. ASSUME NEW c \in Clients, CaptureWrite(c)
      PROVE  (\E o \in Orders : Confirms(o)) \/ UNCHANGED <<stockVars, orderVars>>
  BY <1>3, CaptureOrder, ConfirmMoves DEF CaptureWrite, MarkPaid, orderVars
<1>4. CASE PaymentStep
  BY <1>1, <1>2, <1>3, <1>4
  DEF PaymentStep, InitializeRead, InitializeWrite, InitializeFail, CaptureCheck,
      CaptureGateway, CaptureDenied, CaptureSnapshot, CaptureFail
<1>5. CASE ProviderStep
  BY <1>5 DEF ProviderStep, StripeCharge, StripeDecline
<1> QED
  BY <1>4, <1>5 DEF FlowNext, flowVars

\* The rows of one order: none before it is placed, closed ones exist, open
\* ones only while it is PENDING, and a cancelled one holds nothing.
OwnRows(o) ==
    \A v \in Variants :
        /\ status[o] = None => quantity[o][v] = 0
        /\ <<o, v>> \in released \cup converted => quantity[o][v] > 0
        /\ IsOpen(o, v) => status[o] = "PENDING"
        /\ status[o] = "CANCELLED" => ~IsOpen(o, v) /\ ~IsTaken(o, v)

RowsOfOrders == \A o \in Orders : OwnRows(o)

\* A step that leaves the rows of an order and its status alone.
LeavesRows(x) ==
    /\ status'[x] = status[x] /\ quantity'[x] = quantity[x]
    /\ \A v \in Variants : /\ <<x, v>> \in released' <=> <<x, v>> \in released
                           /\ <<x, v>> \in converted' <=> <<x, v>> \in converted

LEMMA RowsLeft ==
    ASSUME NEW x \in Orders, OwnRows(x), LeavesRows(x)
    PROVE  OwnRows(x)'
BY DEF OwnRows, LeavesRows, IsOpen, IsTaken

LEMMA RowsOfOne ==
    ASSUME RowsOfOrders, NEW o \in Orders, \A x \in Orders \ {o} : LeavesRows(x), OwnRows(o)'
    PROVE  RowsOfOrders'
<1> SUFFICES ASSUME NEW x \in Orders PROVE OwnRows(x)'
  BY DEF RowsOfOrders
<1>1. CASE x # o
  BY <1>1, RowsLeft DEF RowsOfOrders
<1> QED
  BY <1>1

\* Committing closes every open row of the order; cancelling frees all it has.
LEMMA CommitRows ==
    ASSUME StockTypeOK, FlowTypeOK, RowsOfOrders, NEW o \in Orders, NEW from, CommitOrder(o),
           SetStatus(o, from, "CONFIRMED")
    PROVE  RowsOfOrders'
<1>1. \A x \in Orders \ {o} : LeavesRows(x)
  BY DEF LeavesRows, CommitOrder, OpenLines, SetStatus, FlowTypeOK
<1>2. OwnRows(o)'
  <2>1. status'[o] = "CONFIRMED" /\ quantity' = quantity /\ released' = released
    BY DEF SetStatus, FlowTypeOK, CommitOrder
  <2>2. \A v \in Variants : <<o, v>> \in converted' <=> <<o, v>> \in converted \/ IsOpen(o, v)
    BY DEF CommitOrder, OpenLines
  <2> QED
    BY <2>1, <2>2 DEF OwnRows, RowsOfOrders, IsOpen, IsTaken, None
<1> QED
  BY <1>1, <1>2, RowsOfOne

LEMMA CancelRows ==
    ASSUME StockTypeOK, FlowTypeOK, RowsOfOrders, NEW o \in Orders, NEW from, CancelOrder(o),
           SetStatus(o, from, "CANCELLED")
    PROVE  RowsOfOrders'
<1>1. \A x \in Orders \ {o} : LeavesRows(x)
  BY DEF LeavesRows, CancelOrder, OpenLines, TakenLines, SetStatus, FlowTypeOK
<1>2. OwnRows(o)'
  <2>1. status'[o] = "CANCELLED" /\ quantity' = quantity /\ converted' = converted
    BY DEF SetStatus, FlowTypeOK, CancelOrder
  <2>2. \A v \in Variants :
            <<o, v>> \in released' <=> <<o, v>> \in released \/ IsOpen(o, v) \/ IsTaken(o, v)
    BY DEF CancelOrder, OpenLines, TakenLines
  <2> QED
    BY <2>1, <2>2 DEF OwnRows, RowsOfOrders, IsOpen, IsTaken, None
<1> QED
  BY <1>1, <1>2, RowsOfOne

LEMMA PlaceRows ==
    ASSUME StockTypeOK, FlowTypeOK, RowsOfOrders, NEW o \in Orders, NEW lines \in Lines, NEW p,
           PlaceOrder(o, lines, p)
    PROVE  RowsOfOrders'
<1>1. \A v \in Variants : quantity[o][v] = 0 /\ <<o, v>> \notin released \cup converted
  BY DEF PlaceOrder, RowsOfOrders, OwnRows
<1>2. /\ status' = [status EXCEPT ![o] = IF p = "COD" THEN "CONFIRMED" ELSE "PENDING"]
      /\ quantity' = [quantity EXCEPT ![o] = lines] /\ released' = released
  BY DEF PlaceOrder, SetStatus, Reserve, ReserveAndCommit
<1>3. \A x \in Orders, v \in Variants :
          <<x, v>> \in converted' <=> <<x, v>> \in converted \/ (x = o /\ p = "COD" /\ lines[v] > 0)
  BY DEF PlaceOrder, Reserve, ReserveAndCommit
<1>4. \A x \in Orders \ {o} : LeavesRows(x)
  BY <1>2, <1>3 DEF LeavesRows, FlowTypeOK, StockTypeOK
<1>5. \A v \in Variants : lines[v] \in 0 .. MaxQty
  BY DEF Lines
<1>6. OwnRows(o)'
  <2>1. quantity'[o] = lines /\ status'[o] = IF p = "COD" THEN "CONFIRMED" ELSE "PENDING"
    BY <1>2 DEF FlowTypeOK, StockTypeOK
  <2> QED
    BY <1>1, <1>2, <1>3, <1>5, <2>1, StockAssumption DEF OwnRows, IsOpen, IsTaken, None
<1> QED
  BY <1>4, <1>6, RowsOfOne

LEMMA RowsOfOrdersStep ==
    StockTypeOK /\ FlowTypeOK /\ RowsOfOrders /\ [FlowNext]_flowVars => RowsOfOrders'
<1> SUFFICES ASSUME StockTypeOK, FlowTypeOK, RowsOfOrders, [FlowNext]_flowVars
             PROVE  RowsOfOrders'
  OBVIOUS
<1>1. ASSUME NEW o \in Orders, NEW to, Transition(o, to)
      PROVE  RowsOfOrders'
  <2>1. CASE to = "CONFIRMED"
    BY <1>1, <2>1, CommitRows DEF Transition
  <2>2. CASE to = "CANCELLED"
    BY <1>1, <2>2, CancelRows DEF Transition
  <2>3. CASE to \notin {"CONFIRMED", "CANCELLED"}
    <3>1. /\ status' = [status EXCEPT ![o] = to] /\ UNCHANGED <<quantity, released, converted>>
          /\ status[o] \notin {None, "PENDING"} /\ to # None
      BY <1>1, <2>3, TablesInStatus
      DEF Transition, SetStatus, ORDER_TRANSITIONS, stockVars, rows, FlowTypeOK
    <3>2. \A x \in Orders \ {o} : LeavesRows(x)
      BY <3>1 DEF LeavesRows, FlowTypeOK
    <3>3. OwnRows(o)'
      BY <2>3, <3>1 DEF OwnRows, RowsOfOrders, IsOpen, IsTaken, FlowTypeOK
    <3> QED
      BY <3>2, <3>3, RowsOfOne
  <2> QED
    BY <2>1, <2>2, <2>3
<1>2. ASSUME NEW o \in Orders, Ship(o)
      PROVE  RowsOfOrders'
  <2>1. /\ status' = [status EXCEPT ![o] = "SHIPPED"] /\ UNCHANGED <<quantity, released, converted>>
        /\ status[o] = "PACKED"
    BY <1>2 DEF Ship, SetStatus, stockVars, rows
  <2>2. \A x \in Orders \ {o} : LeavesRows(x)
    BY <2>1 DEF LeavesRows, FlowTypeOK
  <2>3. OwnRows(o)'
    BY <2>1 DEF OwnRows, RowsOfOrders, IsOpen, IsTaken, FlowTypeOK, None
  <2> QED
    BY <2>2, <2>3, RowsOfOne
<1>3. CASE OrderStep
  BY <1>1, <1>2, <1>3, PlaceRows DEF OrderStep
<1>4. ASSUME NEW o \in Orders, Confirms(o)
      PROVE  RowsOfOrders'
  BY <1>4, CommitRows DEF Confirms
<1>5. ASSUME NEW w \in Workers, NEW o \in Orders, NEW v \in Variants, ReleaseClaim(w, o, v),
             UNCHANGED status
      PROVE  RowsOfOrders'
  <2>1. \A x \in Orders \ {o} : LeavesRows(x)
    BY <1>5 DEF LeavesRows, ReleaseClaim
  <2>2. OwnRows(o)'
    BY <1>5 DEF OwnRows, RowsOfOrders, IsOpen, IsTaken, ReleaseClaim
  <2> QED
    BY <2>1, <2>2, RowsOfOne
<1>6. ASSUME UNCHANGED <<quantity, released, converted, status>>
      PROVE  RowsOfOrders'
  BY <1>6, RowsLeft DEF RowsOfOrders, LeavesRows
<1>7. CASE StockStep
  <2>1. UNCHANGED status
    BY <1>7 DEF StockStep, orderVars
  <2>2. CASE ReleaseJob
    BY <1>5, <1>6, <2>1, <2>2 DEF ReleaseJob, ReleaseRead, ReleaseFail, ReleaseSkip, rows
  <2>3. CASE (\E o \in Orders : Lapse(o)) \/ ManualChange
    BY <1>6, <2>1, <2>3
    DEF Lapse, ManualChange, AdjustInventory, EditSnapshot, EditCommit, rows
  <2> QED
    BY <1>7, <2>2, <2>3 DEF StockStep
<1> QED
  BY <1>3, <1>4, <1>6, <1>7, FlowMoves DEF stockVars, rows, orderVars

\* Only a pending order has open reservations and a cancelled one holds no stock at all,
\* for any number of orders, release workers, product editors and capture requests with
\* stale snapshots (inventory.service.ts, orders.service.ts transition,
\* payments.service.ts).  Of returned and refunded orders it says no more than that their
\* reservations are closed: they may keep what was sold.
THEOREM FlowReservationsFollowStatus == FlowSpec => []ReservationsFollowStatus
<1>1. FlowInit => RowsOfOrders
  BY DEF FlowInit, StockInit, NoUnits, RowsOfOrders, OwnRows, IsOpen, None
<1>2. RowsOfOrders => ReservationsFollowStatus
  BY DEF RowsOfOrders, OwnRows, ReservationsFollowStatus, OpenOnlyWhilePending,
         CancelledHoldsNoStock
<1>3. FlowSpec => []StockTypeOK
  BY FlowImplementsStock, StockTypeCorrect, PTL
<1> QED
  BY <1>1, <1>2, <1>3, RowsOfOrdersStep, FlowTypeCorrect, PTL DEF FlowSpec

-----------------------------------------------------------------------------
(* Without PayPal captures no step acts on a status that has changed         *)

\* Every change of an order's status is one the table allows and is in the
\* history, when no capture request holds an old snapshot (orders.service.ts
\* transition, payments.service.ts webhook); with one, a run refutes it.
THEOREM FlowFollowsStateMachine ==
    ASSUME Clients = {}
    PROVE  FlowSpec => OrdersFollowStateMachine
<1> DEFINE Followed(o) ==
        status[o] # None /\ <<status[o], history[o]>>' # <<status[o], history[o]>> =>
            /\ history'[o] = <<status[o], status'[o]>>
            /\ status'[o] \in ORDER_TRANSITIONS[status[o]]
<1>1. ASSUME FlowTypeOK, NEW o \in Orders, NEW to \in OrderStatus,
             SetStatus(o, status[o], to),
             status[o] # None => to \in ORDER_TRANSITIONS[status[o]]
      PROVE  \A x \in Orders : Followed(x)
  BY <1>1 DEF SetStatus, FlowTypeOK
<1>2. ASSUME FlowTypeOK, [FlowNext]_flowVars
      PROVE  \A x \in Orders : Followed(x)
  <2>1. ASSUME NEW o \in Orders, NEW lines, NEW p, PlaceOrder(o, lines, p)
        PROVE  \A x \in Orders : Followed(x)
    BY <1>1, <1>2, <2>1, TablesInStatus DEF PlaceOrder
  <2>2. ASSUME NEW o \in Orders, NEW to, Transition(o, to)
        PROVE  \A x \in Orders : Followed(x)
    <3>1. to \in OrderStatus
      BY <1>2, <2>2, TablesInStatus DEF Transition, FlowTypeOK
    <3> QED
      BY <1>1, <1>2, <2>2, <3>1 DEF Transition
  <2>3. ASSUME NEW o \in Orders, Ship(o)
        PROVE  \A x \in Orders : Followed(x)
    BY <1>1, <1>2, <2>3, TablesInStatus DEF Ship, ORDER_TRANSITIONS
  <2>4. ASSUME NEW o \in Orders, Confirms(o)
        PROVE  \A x \in Orders : Followed(x)
    <3>1. status[o] = "PENDING"
      BY <2>4 DEF Confirms
    <3>2. "CONFIRMED" \in ORDER_TRANSITIONS["PENDING"]
      BY DEF ORDER_TRANSITIONS
    <3> QED
      BY <1>1, <1>2, <2>4, <3>1, <3>2, TablesInStatus DEF Confirms
  <2>5. CASE UNCHANGED orderVars
    BY <2>5 DEF orderVars
  <2> QED
    BY <1>2, <2>1, <2>2, <2>3, <2>4, <2>5, FlowMoves DEF OrderStep, StockStep
<1>3. FlowTypeOK /\ [FlowNext]_flowVars => [\A o \in Orders : Followed(o)]_flowVars
  BY <1>2
<1> QED
  BY <1>3, FlowTypeCorrect, PTL DEF FlowSpec, OrdersFollowStateMachine

\* What an order owns, but for lines the job has given away: its rows while it is
\* PENDING, its units from then on; a release job visits lapsed orders only.
Owns(o) ==
    \A v \in Variants : quantity[o][v] > 0 /\ ~GivenAway(o, v) =>
        /\ status[o] = "PENDING" => IsOpen(o, v)
        /\ status[o] \in Confirmed \cup AfterDelivery => IsTaken(o, v)

OwnedStock ==
    /\ \A o \in Orders : Owns(o)
    /\ \A w \in Workers, r \in Reservations : r \in candidates[w] => r[1] \in lapsed

LEMMA OwnsLeft ==
    ASSUME NEW x \in Orders, Owns(x), LeavesRows(x), lapsed \subseteq lapsed'
    PROVE  Owns(x)'
BY DEF Owns, LeavesRows, IsOpen, IsTaken, GivenAway

LEMMA OwnsOfOne ==
    ASSUME OwnedStock, NEW o \in Orders, \A x \in Orders \ {o} : LeavesRows(x), Owns(o)',
           UNCHANGED jobs
    PROVE  OwnedStock'
<1>1. ASSUME NEW x \in Orders PROVE Owns(x)'
  <2>1. CASE x # o
    BY <2>1, OwnsLeft DEF OwnedStock, jobs
  <2> QED
    BY <2>1
<1> QED
  BY <1>1 DEF OwnedStock, jobs

LEMMA OwnedStockStep ==
    ASSUME Clients = {}
    PROVE  StockTypeOK /\ FlowTypeOK /\ RowsOfOrders /\ OwnedStock /\ [FlowNext]_flowVars
             => OwnedStock'
<1> SUFFICES ASSUME StockTypeOK, FlowTypeOK, RowsOfOrders, OwnedStock, [FlowNext]_flowVars
             PROVE  OwnedStock'
  OBVIOUS
<1>1. ASSUME NEW o \in Orders, NEW lines \in Lines, NEW p, PlaceOrder(o, lines, p)
      PROVE  OwnedStock'
  <2>1. \A v \in Variants : quantity[o][v] = 0 /\ <<o, v>> \notin released \cup converted
    BY <1>1 DEF PlaceOrder, RowsOfOrders, OwnRows
  <2>2. /\ status' = [status EXCEPT ![o] = IF p = "COD" THEN "CONFIRMED" ELSE "PENDING"]
        /\ quantity' = [quantity EXCEPT ![o] = lines] /\ released' = released /\ jobs' = jobs
    BY <1>1 DEF PlaceOrder, SetStatus, Reserve, ReserveAndCommit
  <2>3. \A x \in Orders, v \in Variants :
            <<x, v>> \in converted' <=>
                <<x, v>> \in converted \/ (x = o /\ p = "COD" /\ lines[v] > 0)
    BY <1>1 DEF PlaceOrder, Reserve, ReserveAndCommit
  <2>4. \A x \in Orders \ {o} : LeavesRows(x)
    BY <2>2, <2>3 DEF LeavesRows, FlowTypeOK, StockTypeOK
  <2>5. quantity'[o] = lines /\ status'[o] = IF p = "COD" THEN "CONFIRMED" ELSE "PENDING"
    BY <2>2 DEF FlowTypeOK, StockTypeOK
  <2>6. Owns(o)'
    BY <2>1, <2>2, <2>3, <2>5 DEF Owns, GivenAway, IsOpen, IsTaken, Confirmed, AfterDelivery
  <2> QED
    BY <2>2, <2>4, <2>6, OwnsOfOne
<1>2. ASSUME NEW o \in Orders, CommitOrder(o), SetStatus(o, status[o], "CONFIRMED"),
             status[o] = "PENDING"
      PROVE  OwnedStock'
  <2>1. \A x \in Orders \ {o} : LeavesRows(x)
    BY <1>2 DEF LeavesRows, CommitOrder, OpenLines, SetStatus, FlowTypeOK
  <2>2. /\ status'[o] = "CONFIRMED" /\ quantity' = quantity /\ released' = released
        /\ lapsed' = lapsed
    BY <1>2 DEF SetStatus, FlowTypeOK, CommitOrder, jobs
  <2>3. \A v \in Variants : <<o, v>> \in converted' <=> <<o, v>> \in converted \/ IsOpen(o, v)
    BY <1>2 DEF CommitOrder, OpenLines
  <2>4. Owns(o)'
    BY <1>2, <2>2, <2>3 DEF Owns, OwnedStock, GivenAway, IsOpen, IsTaken
  <2> QED
    BY <1>2, <2>1, <2>4, OwnsOfOne DEF CommitOrder
<1>3. ASSUME NEW o \in Orders, CancelOrder(o), SetStatus(o, status[o], "CANCELLED")
      PROVE  OwnedStock'
  <2>1. \A x \in Orders \ {o} : LeavesRows(x)
    BY <1>3 DEF LeavesRows, CancelOrder, OpenLines, TakenLines, SetStatus, FlowTypeOK
  <2>2. Owns(o)'
    BY <1>3 DEF Owns, SetStatus, FlowTypeOK, Confirmed, AfterDelivery
  <2> QED
    BY <1>3, <2>1, <2>2, OwnsOfOne DEF CancelOrder
<1>4. ASSUME NEW o \in Orders, NEW to, SetStatus(o, status[o], to), UNCHANGED stockVars,
             status[o] \in Confirmed \cup AfterDelivery, to # "PENDING"
      PROVE  OwnedStock'
  <2>1. \A x \in Orders \ {o} : LeavesRows(x)
    BY <1>4 DEF LeavesRows, SetStatus, FlowTypeOK, stockVars, rows
  <2>2. Owns(o)'
    BY <1>4 DEF Owns, OwnedStock, GivenAway, IsTaken, SetStatus, FlowTypeOK, stockVars, rows, jobs
  <2> QED
    BY <1>4, <2>1, <2>2, OwnsOfOne DEF stockVars
<1>5. ASSUME NEW o \in Orders, NEW to, Transition(o, to)
      PROVE  OwnedStock'
  <2>1. status[o] \in OrderStatus /\ to \in ORDER_TRANSITIONS[status[o]]
    BY <1>5 DEF Transition, FlowTypeOK
  <2>2. CASE to = "CONFIRMED"
    <3>1. status[o] = "PENDING"
      BY <2>1, <2>2 DEF OrderStatus, ORDER_TRANSITIONS
    <3> QED
      BY <1>2, <1>5, <2>2, <3>1 DEF Transition
  <2>3. CASE to = "CANCELLED"
    BY <1>3, <1>5, <2>3 DEF Transition
  <2>4. CASE to \notin {"CONFIRMED", "CANCELLED"}
    <3>1. status[o] \in Confirmed \cup AfterDelivery /\ to # "PENDING"
      BY <2>1, <2>4 DEF OrderStatus, ORDER_TRANSITIONS, Confirmed, AfterDelivery
    <3> QED
      BY <1>4, <1>5, <2>4, <3>1 DEF Transition
  <2> QED
    BY <2>2, <2>3, <2>4
<1>6. ASSUME NEW o \in Orders, Ship(o)
      PROVE  OwnedStock'
  BY <1>4, <1>6 DEF Ship, Confirmed
<1>7. CASE OrderStep
  BY <1>1, <1>5, <1>6, <1>7 DEF OrderStep
<1>8. ASSUME NEW o \in Orders, Confirms(o)
      PROVE  OwnedStock'
  BY <1>2, <1>8 DEF Confirms
<1>9. ASSUME UNCHANGED <<quantity, released, converted, status>>, lapsed \subseteq lapsed',
             \A w \in Workers, r \in Reservations : r \in candidates'[w] =>
                 r \in candidates[w] \/ r[1] \in lapsed
      PROVE  OwnedStock'
  BY <1>9, OwnsLeft DEF OwnedStock, LeavesRows
<1>10. ASSUME NEW w \in Workers, ReleaseRead(w), UNCHANGED status
       PROVE  OwnedStock'
  <2>1. \A r \in candidates'[w] : r[1] \in lapsed
    BY <1>10 DEF ReleaseRead, Due, StockTypeOK
  <2> QED
    BY <1>9, <1>10, <2>1 DEF ReleaseRead, rows, StockTypeOK
<1>11. ASSUME NEW w \in Workers, ReleaseFail(w), UNCHANGED status
       PROVE  OwnedStock'
  BY <1>9, <1>11 DEF ReleaseFail, rows, StockTypeOK
<1>12. ASSUME NEW w \in Workers, NEW o \in Orders, NEW v \in Variants, ReleaseSkip(w, o, v),
              UNCHANGED status
       PROVE  OwnedStock'
  BY <1>9, <1>12 DEF ReleaseSkip, rows, StockTypeOK
<1>13. ASSUME NEW w \in Workers, NEW o \in Orders, NEW v \in Variants, ReleaseClaim(w, o, v),
              UNCHANGED status
       PROVE  OwnedStock'
  <2>1. o \in lapsed /\ lapsed' = lapsed
    BY <1>13 DEF ReleaseClaim, OwnedStock, Reservations
  <2>2. \A x \in Orders \ {o} : LeavesRows(x)
    BY <1>13 DEF LeavesRows, ReleaseClaim
  <2>3. \A x \in Orders : Owns(x)'
    <3>1. <<o, v>> \notin converted /\ status[o] = "PENDING"
      BY <1>13 DEF ReleaseClaim, IsOpen, RowsOfOrders, OwnRows
    <3>2. /\ released' = released \cup {<<o, v>>}
          /\ UNCHANGED <<quantity, converted, status, lapsed>>
      BY <1>13 DEF ReleaseClaim
    <3>3. Owns(o)'
      BY <2>1, <3>1, <3>2 DEF Owns, OwnedStock, GivenAway, IsOpen, IsTaken
    <3> QED
      BY <2>1, <2>2, <3>3, OwnsLeft DEF OwnedStock
  <2>4. \A u \in Workers : candidates'[u] \subseteq candidates[u]
    BY <1>13 DEF ReleaseClaim, StockTypeOK
  <2> QED
    BY <2>1, <2>3, <2>4 DEF OwnedStock
<1>14. CASE StockStep
  <2>1. UNCHANGED status
    BY <1>14 DEF StockStep, orderVars
  <2>2. CASE ReleaseJob
    BY <1>10, <1>11, <1>12, <1>13, <2>1, <2>2 DEF ReleaseJob
  <2>3. CASE (\E o \in Orders : Lapse(o)) \/ ManualChange
    BY <1>9, <2>1, <2>3
    DEF Lapse, ManualChange, AdjustInventory, EditSnapshot, EditCommit, rows, jobs
  <2> QED
    BY <1>14, <2>2, <2>3 DEF StockStep
<1>15. CASE UNCHANGED <<stockVars, orderVars>>
  BY <1>9, <1>15 DEF stockVars, rows, jobs, orderVars
<1> QED
  BY <1>7, <1>8, <1>14, <1>15, FlowMoves

\* A confirmed order owns every unit of it until it is cancelled, unless the job had
\* given the line away before the payment came, with any number of release workers,
\* checkouts and product editors, when no capture request confirms by an old snapshot
\* (payments.service.ts markPaid).
THEOREM FlowConfirmedOwnsStock ==
    ASSUME Clients = {}
    PROVE  FlowSpec => []ConfirmedOwnsStock
<1>1. FlowInit => RowsOfOrders
  BY DEF FlowInit, StockInit, NoUnits, RowsOfOrders, OwnRows, IsOpen, None
<1>2. FlowInit => OwnedStock
  BY DEF FlowInit, StockInit, NoUnits, OwnedStock, Owns
<1>3. OwnedStock => ConfirmedOwnsStock
  BY DEF OwnedStock, Owns, ConfirmedOwnsStock
<1>4. FlowSpec => []StockTypeOK
  BY FlowImplementsStock, StockTypeCorrect, PTL
<1> QED
  BY <1>1, <1>2, <1>3, <1>4, RowsOfOrdersStep, OwnedStockStep, FlowTypeCorrect, PTL DEF FlowSpec

-----------------------------------------------------------------------------
(* Cash on delivery                                                         *)

\* No initialize request, capture or provider event is about an order paid in
\* cash, and its payment follows its status.
CashInv ==
    /\ FlowTypeOK
    /\ \A o \in Orders :
          /\ status[o] = None => provider[o] = None
          /\ provider[o] = "COD" =>
                payment[o] = IF status[o] \in AfterDelivery THEN "PAID" ELSE "PENDING"
    /\ \A o \in initializing : provider[o] \in {"STRIPE", "PAYPAL"}
    /\ \A c \in Clients : capture[c] # Idle => provider[capture[c].order] = "PAYPAL"
    /\ \A e \in emitted : provider[e[1]] \in {"STRIPE", "PAYPAL"}

\* What a step that is not a checkout does to other orders than those paid in
\* cash is of no interest; provider events and requests stay with theirs.
LEMMA CashKept ==
    ASSUME CashInv, FlowTypeOK', UNCHANGED provider,
           \A x \in Orders : status[x] # None => status'[x] # None,
           \A x \in Orders : provider[x] = "COD" =>
               payment'[x] = IF status'[x] \in AfterDelivery THEN "PAID" ELSE "PENDING",
           \A x \in initializing' \ initializing : provider[x] \in {"STRIPE", "PAYPAL"},
           \A c \in Clients : capture'[c] \in {capture[c], Idle}
                                 \/ provider[capture'[c].order] = "PAYPAL",
           \A e \in emitted' \ emitted : provider[e[1]] \in {"STRIPE", "PAYPAL"}
    PROVE  CashInv'
<1>1. ASSUME NEW o \in Orders
      PROVE  /\ status'[o] = None => provider'[o] = None
             /\ provider'[o] = "COD" =>
                  payment'[o] = IF status'[o] \in AfterDelivery THEN "PAID" ELSE "PENDING"
  BY DEF CashInv
<1>2. \A c \in Clients : capture'[c] # Idle => provider'[capture'[c].order] = "PAYPAL"
  BY DEF CashInv
<1>3. /\ \A o \in initializing' : provider'[o] \in {"STRIPE", "PAYPAL"}
      /\ \A e \in emitted' : provider'[e[1]] \in {"STRIPE", "PAYPAL"}
  BY DEF CashInv
<1> QED
  BY <1>1, <1>2, <1>3 DEF CashInv

\* Only one order's status and payment change, and it is not paid in cash.
LEMMA CashApart ==
    ASSUME CashInv, FlowTypeOK', UNCHANGED <<provider, initializing, emitted>>,
           NEW o \in Orders, provider[o] # "COD", status'[o] # None \/ status[o] = None,
           \A x \in Orders \ {o} : status'[x] = status[x] /\ payment'[x] = payment[x],
           \A c \in Clients : capture'[c] \in {capture[c], Idle}
    PROVE  CashInv'
<1>1. \A x \in Orders : status[x] # None => status'[x] # None
  OBVIOUS
<1>2. \A x \in Orders : provider[x] = "COD" =>
          payment'[x] = IF status'[x] \in AfterDelivery THEN "PAID" ELSE "PENDING"
  BY DEF CashInv
<1> QED
  BY <1>1, <1>2, CashKept

LEMMA ConfirmApart ==
    ASSUME FlowTypeOK, NEW o \in Orders, NEW s, ConfirmIfPending(o, s)
    PROVE  /\ \A x \in Orders \ {o} : status'[x] = status[x]
           /\ status'[o] # None \/ status[o] = None
BY DEF ConfirmIfPending, SetStatus, FlowTypeOK, None

LEMMA CashStep == CashInv /\ [FlowNext]_flowVars => CashInv'
<1> SUFFICES ASSUME CashInv, [FlowNext]_flowVars PROVE CashInv'
  OBVIOUS
<1>0. FlowTypeOK /\ FlowTypeOK'
  BY FlowTypeStep DEF CashInv
<1>1. ASSUME NEW o \in Orders, NEW lines \in Lines, NEW p \in Offered, PlaceOrder(o, lines, p)
      PROVE  CashInv'
  <2>1. /\ provider' = [provider EXCEPT ![o] = p] /\ payment' = [payment EXCEPT ![o] = "PENDING"]
        /\ status' = [status EXCEPT ![o] = IF p = "COD" THEN "CONFIRMED" ELSE "PENDING"]
        /\ provider[o] = None /\ UNCHANGED <<initializing, capture, emitted>>
    BY <1>1 DEF PlaceOrder, SetStatus, requestVars, providerVars, CashInv
  <2>2. \A x \in Orders :
            /\ status'[x] = None => provider'[x] = None
            /\ provider'[x] = "COD" =>
                  payment'[x] = IF status'[x] \in AfterDelivery THEN "PAID" ELSE "PENDING"
    BY <1>0, <2>1 DEF CashInv, FlowTypeOK, AfterDelivery, None
  <2>3. o \notin initializing /\ (\A e \in emitted : e[1] # o)
        /\ \A c \in Clients : capture[c] # Idle => capture[c].order # o
    BY <2>1 DEF CashInv, None
  <2>4. /\ \A x \in initializing' : provider'[x] \in {"STRIPE", "PAYPAL"}
        /\ \A c \in Clients : capture'[c] # Idle => provider'[capture'[c].order] = "PAYPAL"
        /\ \A e \in emitted' : provider'[e[1]] \in {"STRIPE", "PAYPAL"}
    BY <1>0, <2>1, <2>3 DEF CashInv, FlowTypeOK
  <2> QED
    BY <1>0, <2>2, <2>4 DEF CashInv
<1>2. ASSUME NEW o \in Orders, NEW to, Transition(o, to)
      PROVE  CashInv'
  <2>1. status[o] \in OrderStatus /\ to \in ORDER_TRANSITIONS[status[o]] /\ to # None
    BY <1>2, TablesInStatus DEF Transition, FlowTypeOK, CashInv
  <2>2. /\ status' = [status EXCEPT ![o] = to] /\ UNCHANGED <<provider, requestVars, providerVars>>
        /\ payment' = IF to = "DELIVERED" /\ provider[o] = "COD" /\ payment[o] = "PENDING"
                      THEN [payment EXCEPT ![o] = "PAID"] ELSE payment
    BY <1>2 DEF Transition, SetStatus
  <2>3. to = "DELIVERED" => status[o] = "OUT_FOR_DELIVERY"
    BY <2>1 DEF OrderStatus, ORDER_TRANSITIONS
  <2>4. to # "DELIVERED" => (to \in AfterDelivery <=> status[o] \in AfterDelivery)
    BY <2>1 DEF OrderStatus, ORDER_TRANSITIONS, AfterDelivery
  <2>5. \A x \in Orders : provider[x] = "COD" =>
            payment'[x] = IF status'[x] \in AfterDelivery THEN "PAID" ELSE "PENDING"
    BY <1>0, <2>2, <2>3, <2>4 DEF CashInv, FlowTypeOK, AfterDelivery
  <2>6. \A x \in Orders : status[x] # None => status'[x] # None
    BY <1>0, <2>1, <2>2 DEF FlowTypeOK
  <2> QED
    BY <1>0, <2>2, <2>5, <2>6, CashKept DEF requestVars, providerVars
<1>3. ASSUME NEW o \in Orders, Ship(o)
      PROVE  CashInv'
  <2>1. /\ status[o] = "PACKED" /\ status' = [status EXCEPT ![o] = "SHIPPED"]
        /\ UNCHANGED <<provider, payment, requestVars, providerVars>>
    BY <1>3 DEF Ship, SetStatus, paymentVars
  <2>2. \A x \in Orders : provider[x] = "COD" =>
            payment'[x] = IF status'[x] \in AfterDelivery THEN "PAID" ELSE "PENDING"
    BY <1>0, <2>1 DEF CashInv, FlowTypeOK, AfterDelivery
  <2>3. \A x \in Orders : status[x] # None => status'[x] # None
    BY <1>0, <2>1 DEF FlowTypeOK, None
  <2>4. UNCHANGED <<provider, initializing, capture, emitted>>
    BY <2>1 DEF requestVars, providerVars
  <2> QED
    BY <1>0, <2>2, <2>3, <2>4, CashKept
<1>4. ASSUME UNCHANGED <<status, provider, payment>>,
             \A x \in initializing' \ initializing : provider[x] \in {"STRIPE", "PAYPAL"},
             \A c \in Clients : capture'[c] \in {capture[c], Idle}
                                   \/ provider[capture'[c].order] = "PAYPAL",
             \A e \in emitted' \ emitted : provider[e[1]] \in {"STRIPE", "PAYPAL"}
      PROVE  CashInv'
  <2>1. \A x \in Orders : provider[x] = "COD" =>
            payment'[x] = IF status'[x] \in AfterDelivery THEN "PAID" ELSE "PENDING"
    BY <1>4 DEF CashInv
  <2> QED
    BY <1>0, <1>4, <2>1, CashKept
<1>5. ASSUME NEW o \in Orders, InitializeRead(o) \/ InitializeFail(o)
      PROVE  CashInv'
  BY <1>4, <1>5 DEF InitializeRead, InitializeFail, orderVars, paymentVars, providerVars
<1>6. ASSUME NEW o \in Orders, InitializeWrite(o)
      PROVE  CashInv'
  <2>1. /\ provider[o] # "COD" /\ status' = status /\ provider' = provider
        /\ capture' = capture /\ emitted' = emitted
        /\ \A x \in Orders \ {o} : payment'[x] = payment[x]
        /\ initializing' \subseteq initializing
    BY <1>0, <1>6 DEF InitializeWrite, CashInv, FlowTypeOK, orderVars, providerVars
  <2>2. \A x \in Orders : provider[x] = "COD" =>
            payment'[x] = IF status'[x] \in AfterDelivery THEN "PAID" ELSE "PENDING"
    BY <2>1 DEF CashInv
  <2>3. \A x \in Orders : status[x] # None => status'[x] # None
    BY <2>1
  <2>4. /\ \A x \in initializing' \ initializing : provider[x] \in {"STRIPE", "PAYPAL"}
        /\ \A c \in Clients : capture'[c] \in {capture[c], Idle}
        /\ \A e \in emitted' \ emitted : provider[e[1]] \in {"STRIPE", "PAYPAL"}
    BY <2>1
  <2> QED
    BY <1>0, <2>1, <2>2, <2>3, <2>4, CashKept
<1>7. ASSUME NEW o \in Orders, NEW type \in StripeEvents, StripeWebhook(o, type)
      PROVE  CashInv'
  <2>1. provider[o] # "COD" /\ UNCHANGED <<provider, initializing, emitted, capture>>
    BY <1>7 DEF StripeWebhook, CashInv, requestVars
  <2>2. /\ status'[o] # None \/ status[o] = None
        /\ \A x \in Orders \ {o} : status'[x] = status[x] /\ payment'[x] = payment[x]
    BY <1>0, <1>7, ConfirmApart DEF StripeWebhook, FlowTypeOK
  <2> QED
    BY <1>0, <2>1, <2>2, CashApart
<1>8. ASSUME NEW o \in Orders, NEW type \in PayPalEvents, PayPalWebhook(o, type)
      PROVE  CashInv'
  <2>1. provider[o] # "COD" /\ UNCHANGED <<provider, initializing, emitted, capture>>
    BY <1>8 DEF PayPalWebhook, CashInv, requestVars
  <2>2. /\ status'[o] # None \/ status[o] = None
        /\ \A x \in Orders \ {o} : status'[x] = status[x] /\ payment'[x] = payment[x]
    BY <1>0, <1>8, ConfirmApart DEF PayPalWebhook, MarkPaid, FlowTypeOK
  <2> QED
    BY <1>0, <2>1, <2>2, CashApart
<1>9. ASSUME NEW c \in Clients, CaptureWrite(c)
      PROVE  CashInv'
  <2>1. capture[c].order \in Orders /\ capture[c] # Idle
    BY <1>0, <1>9, CaptureOrder DEF CaptureWrite, Idle
  <2>2. /\ provider[capture[c].order] # "COD" /\ UNCHANGED <<provider, initializing, emitted>>
        /\ \A d \in Clients : capture'[d] \in {capture[d], Idle}
    BY <1>0, <1>9, <2>1 DEF CaptureWrite, CashInv, FlowTypeOK, providerVars
  <2>3. /\ status'[capture[c].order] # None \/ status[capture[c].order] = None
        /\ \A x \in Orders \ {capture[c].order} :
              status'[x] = status[x] /\ payment'[x] = payment[x]
    BY <1>0, <1>9, <2>1, ConfirmApart DEF CaptureWrite, MarkPaid, FlowTypeOK
  <2> QED
    BY <1>0, <2>1, <2>2, <2>3, CashApart
<1>10. ASSUME NEW c \in Clients, NEW o \in Orders, CaptureCheck(c, o)
       PROVE  CashInv'
  <2>1. \A d \in Clients : capture'[d] = capture[d] \/ provider[capture'[d].order] = "PAYPAL"
    BY <1>0, <1>10 DEF CaptureCheck, FlowTypeOK
  <2> QED
    BY <1>4, <1>10, <2>1 DEF CaptureCheck, orderVars, paymentVars, providerVars
<1>11. ASSUME NEW c \in Clients, CaptureGateway(c)
       PROVE  CashInv'
  <2>1. provider[capture[c].order] = "PAYPAL"
    BY <1>11 DEF CaptureGateway, CashInv, Idle
  <2>2. \A d \in Clients : capture'[d] = capture[d] \/ provider[capture'[d].order] = "PAYPAL"
    BY <1>0, <1>11, <2>1 DEF CaptureGateway, FlowTypeOK
  <2> QED
    BY <1>4, <1>11, <2>1, <2>2 DEF CaptureGateway, orderVars, paymentVars
<1>12. ASSUME NEW c \in Clients, CaptureDenied(c) \/ CaptureFail(c)
       PROVE  CashInv'
  <2>1. CaptureDenied(c) => provider[capture[c].order] = "PAYPAL"
    BY DEF CaptureDenied, CashInv, Idle
  <2>2. \A d \in Clients : capture'[d] \in {capture[d], Idle}
    BY <1>0, <1>12 DEF CaptureDenied, CaptureFail, FlowTypeOK
  <2> QED
    BY <1>4, <1>12, <2>1, <2>2
    DEF CaptureDenied, CaptureFail, orderVars, paymentVars, providerVars
<1>13. ASSUME NEW c \in Clients, CaptureSnapshot(c)
       PROVE  CashInv'
  <2>1. provider[capture[c].order] = "PAYPAL"
    BY <1>13 DEF CaptureSnapshot, CashInv, Idle
  <2>2. \A d \in Clients : capture'[d] = capture[d] \/ provider[capture'[d].order] = "PAYPAL"
    BY <1>0, <1>13, <2>1 DEF CaptureSnapshot, FlowTypeOK
  <2> QED
    BY <1>4, <1>13, <2>2 DEF CaptureSnapshot, orderVars, paymentVars, providerVars
<1>14. ASSUME NEW o \in Orders, StripeCharge(o)
       PROVE  CashInv'
  <2>1. /\ provider[o] = "STRIPE" /\ UNCHANGED <<status, provider, payment, initializing, capture>>
        /\ \A e \in emitted' \ emitted : e[1] = o
    BY <1>14 DEF StripeCharge, orderVars, paymentVars, requestVars
  <2> QED
    BY <1>4, <2>1
<1>15. ASSUME NEW o \in Orders, NEW type \in StripeEvents, StripeDecline(o, type)
       PROVE  CashInv'
  <2>1. /\ provider[o] = "STRIPE" /\ UNCHANGED <<status, provider, payment, initializing, capture>>
        /\ \A e \in emitted' \ emitted : e[1] = o
    BY <1>15 DEF StripeDecline, orderVars, paymentVars, requestVars
  <2> QED
    BY <1>4, <2>1
<1>16. CASE StockStep \/ UNCHANGED flowVars
  BY <1>4, <1>16 DEF StockStep, flowVars, orderVars, paymentVars, requestVars, providerVars
<1>17. CASE OrderStep
  BY <1>1, <1>2, <1>3, <1>17 DEF OrderStep
<1>18. CASE PaymentStep
  BY <1>5, <1>6, <1>7, <1>8, <1>9, <1>10, <1>11, <1>12, <1>13, <1>18 DEF PaymentStep
<1>19. CASE ProviderStep
  BY <1>14, <1>15, <1>19 DEF ProviderStep
<1> QED
  BY <1>16, <1>17, <1>18, <1>19 DEF FlowNext

\* Cash is booked when the order is delivered and at no other time, whatever
\* payment requests and provider events are under way for other orders
\* (orders.service.ts transition).
THEOREM FlowCodPaidOnDelivery == FlowSpec => []CodPaidOnDelivery
<1>1. FlowInit => FlowTypeOK
  BY DEF FlowInit, FlowTypeOK, Captures
<1>2. FlowInit => CashInv
  BY <1>1 DEF FlowInit, CashInv, None
<1>3. CashInv => CodPaidOnDelivery
  BY DEF CashInv, CodPaidOnDelivery
<1> QED
  BY <1>2, <1>3, CashStep, PTL DEF FlowSpec

-----------------------------------------------------------------------------
(* What takes PAID from a payment                                          *)

Refusals == {"payment_intent.canceled", "PAYMENT.CAPTURE.DENIED"}

\* A provider that has closed a session or denied a capture does not charge, and
\* the events of an order are those of its provider.
EventsFit ==
    /\ \A o \in Orders : status[o] = None => payment[o] = None
    /\ \A o \in Orders, type \in StripeEvents : <<o, type>> \in emitted => provider[o] = "STRIPE"
    /\ \A o \in Orders, type \in PayPalEvents : <<o, type>> \in emitted => provider[o] = "PAYPAL"
    /\ \A o \in Orders, type \in Refusals : <<o, type>> \in emitted => o \notin charged

\* Every payment that was PAID and is not: what has undone it.
UndoneByStraggler(x) ==
    payment[x] = "PAID" /\ payment'[x] # "PAID" =>
        \/ x \in initializing /\ payment'[x] = "PENDING"
        \/ <<x, "payment_intent.payment_failed">> \in emitted \ stored /\ payment'[x] = "FAILED"

LEMMA EventsKept ==
    ASSUME EventsFit, UNCHANGED <<provider, charged, emitted>>,
           \A x \in Orders : status'[x] = None => status[x] = None /\ payment'[x] = payment[x]
    PROVE  EventsFit'
BY DEF EventsFit

LEMMA PaymentsApart ==
    ASSUME FlowTypeOK, NEW o \in Orders, NEW p, payment' = [payment EXCEPT ![o] = p],
           payment[o] = "PAID" /\ p # "PAID" => UndoneByStraggler(o)
    PROVE  \A x \in Orders : UndoneByStraggler(x)
BY DEF FlowTypeOK, UndoneByStraggler

LEMMA EventsStep ==
    ASSUME CashInv, ChargeInv, EventsFit, [FlowNext]_flowVars
    PROVE  EventsFit' /\ \A x \in Orders : UndoneByStraggler(x)
<1>0. FlowTypeOK
  BY DEF CashInv
<1>1. UNCHANGED payment => \A x \in Orders : UndoneByStraggler(x)
  BY DEF UndoneByStraggler
<1>2. ASSUME NEW o \in Orders, NEW s, ConfirmIfPending(o, s)
      PROVE  \A x \in Orders : status'[x] = None => status[x] = None /\ (x = o => s # "PENDING")
  BY <1>0, <1>2 DEF ConfirmIfPending, SetStatus, FlowTypeOK, None
<1>3. ASSUME NEW o \in Orders, NEW lines, NEW p \in Offered, PlaceOrder(o, lines, p)
      PROVE  EventsFit' /\ \A x \in Orders : UndoneByStraggler(x)
  <2>1. /\ provider' = [provider EXCEPT ![o] = p] /\ payment' = [payment EXCEPT ![o] = "PENDING"]
        /\ status' = [status EXCEPT ![o] = IF p = "COD" THEN "CONFIRMED" ELSE "PENDING"]
        /\ provider[o] = None /\ payment[o] = None /\ charged' = charged /\ emitted' = emitted
    BY <1>3 DEF PlaceOrder, SetStatus, providerVars, CashInv, EventsFit
  <2>2. \A type : <<o, type>> \notin emitted
    BY <2>1 DEF CashInv, None
  <2>3. EventsFit'
    BY <1>0, <2>1, <2>2 DEF EventsFit, FlowTypeOK, None
  <2>4. \A x \in Orders : UndoneByStraggler(x)
    BY <1>0, <2>1, PaymentsApart DEF None
  <2> QED
    BY <2>3, <2>4
<1>4. ASSUME NEW o \in Orders, NEW to, Transition(o, to)
      PROVE  EventsFit' /\ \A x \in Orders : UndoneByStraggler(x)
  <2>1. /\ to # None /\ status' = [status EXCEPT ![o] = to] /\ status[o] # None
        /\ payment' = payment \/ payment' = [payment EXCEPT ![o] = "PAID"]
        /\ UNCHANGED <<provider, charged, emitted>>
    BY <1>0, <1>4, TablesInStatus DEF Transition, SetStatus, FlowTypeOK, providerVars
  <2>2. EventsFit'
    BY <1>0, <2>1, EventsKept DEF FlowTypeOK
  <2> QED
    BY <1>0, <1>1, <2>1, <2>2, PaymentsApart
<1>5. ASSUME NEW o \in Orders, Ship(o)
      PROVE  EventsFit' /\ \A x \in Orders : UndoneByStraggler(x)
  <2>1. \A x \in Orders : status'[x] = None => status[x] = None
    BY <1>0, <1>5 DEF Ship, SetStatus, FlowTypeOK, None
  <2> QED
    BY <1>1, <1>5, <2>1, EventsKept DEF Ship, paymentVars, providerVars
<1>6. ASSUME NEW o \in Orders, InitializeRead(o) \/ InitializeFail(o)
      PROVE  EventsFit' /\ \A x \in Orders : UndoneByStraggler(x)
  BY <1>1, <1>6, EventsKept
  DEF InitializeRead, InitializeFail, orderVars, paymentVars, providerVars
<1>7. ASSUME NEW o \in Orders, InitializeWrite(o)
      PROVE  EventsFit' /\ \A x \in Orders : UndoneByStraggler(x)
  <2>1. /\ o \in initializing /\ payment' = [payment EXCEPT ![o] = "PENDING"]
        /\ status' = status /\ UNCHANGED <<provider, charged, emitted>>
    BY <1>7 DEF InitializeWrite, orderVars, providerVars
  <2>2. payment'[o] = "PENDING"
    BY <1>0, <2>1 DEF FlowTypeOK
  <2>3. provider[o] # None
    BY <2>1 DEF CashInv, None
  <2>4. status[o] # None
    BY <2>3 DEF CashInv
  <2>5. EventsFit'
    BY <1>0, <2>1, <2>4, EventsKept DEF FlowTypeOK
  <2> QED
    BY <1>0, <2>1, <2>2, <2>5, PaymentsApart DEF UndoneByStraggler
<1>8. ASSUME NEW o \in Orders, NEW type \in StripeEvents, StripeWebhook(o, type)
      PROVE  EventsFit' /\ \A x \in Orders : UndoneByStraggler(x)
  <2>1. /\ provider[o] = "STRIPE" /\ <<o, type>> \in emitted \ stored /\ status[o] # None
        /\ UNCHANGED <<provider, charged, emitted>>
    BY <1>8 DEF StripeWebhook, EventsFit, CashInv, None
  <2>2. EventsFit'
    <3>1. \A x \in Orders : status'[x] = None => status[x] = None
      BY <1>2, <1>8 DEF StripeWebhook
    <3>2. \A x \in Orders : x # o => payment'[x] = payment[x]
      BY <1>0, <1>8 DEF StripeWebhook, FlowTypeOK
    <3> QED
      BY <2>1, <3>1, <3>2, EventsKept
  <2>3. CASE StripeMatches(o, type)
    <3>1. payment' = [payment EXCEPT ![o] = StripeStatus(type)]
      BY <1>8, <2>3 DEF StripeWebhook
    <3>2. payment[o] = "PAID" => type # "payment_intent.canceled"
      BY <2>1 DEF ChargeInv, PaidMeansCharged, EventsFit, Refusals
    <3>3. payment[o] = "PAID" /\ StripeStatus(type) # "PAID" =>
             type = "payment_intent.payment_failed" /\ StripeStatus(type) = "FAILED"
      BY <3>2 DEF StripeStatus
    <3>4. payment'[o] = StripeStatus(type)
      BY <1>0, <3>1 DEF FlowTypeOK
    <3> QED
      BY <1>0, <2>1, <2>2, <3>1, <3>3, <3>4, PaymentsApart DEF UndoneByStraggler
  <2>4. CASE ~StripeMatches(o, type)
    BY <1>1, <1>8, <2>2, <2>4 DEF StripeWebhook
  <2> QED
    BY <2>3, <2>4
<1>9. ASSUME NEW o \in Orders, NEW p, NEW s, MarkPaid(o, p, s), status[o] # None,
             UNCHANGED <<provider, charged, emitted>>
      PROVE  EventsFit' /\ \A x \in Orders : UndoneByStraggler(x)
  <2>1. \A x \in Orders : status'[x] = None => status[x] = None /\ payment'[x] = payment[x]
    BY <1>0, <1>2, <1>9 DEF MarkPaid, FlowTypeOK
  <2>2. EventsFit'
    BY <1>9, <2>1, EventsKept
  <2> QED
    BY <1>0, <1>1, <1>9, <2>2, PaymentsApart DEF MarkPaid
<1>10. ASSUME NEW o \in Orders, NEW type \in PayPalEvents, PayPalWebhook(o, type)
       PROVE  EventsFit' /\ \A x \in Orders : UndoneByStraggler(x)
  <2>1. /\ provider[o] = "PAYPAL" /\ <<o, type>> \in emitted /\ status[o] # None
        /\ UNCHANGED <<provider, charged, emitted>>
    BY <1>10 DEF PayPalWebhook, EventsFit, CashInv, None
  <2>2. CASE type = "PAYMENT.CAPTURE.COMPLETED"
    BY <1>9, <1>10, <2>1, <2>2 DEF PayPalWebhook
  <2>3. CASE type = "PAYMENT.CAPTURE.DENIED"
    <3>1. payment[o] # "PAID"
      BY <2>1, <2>3 DEF ChargeInv, PaidMeansCharged, EventsFit, Refusals
    <3>2. payment' = [payment EXCEPT ![o] = "FAILED"] /\ status' = status
      BY <1>10, <2>3 DEF PayPalWebhook
    <3>3. EventsFit'
      BY <1>0, <2>1, <3>2, EventsKept DEF FlowTypeOK
    <3> QED
      BY <1>0, <3>1, <3>2, <3>3, PaymentsApart
  <2> QED
    BY <2>2, <2>3 DEF PayPalEvents
<1>11. ASSUME NEW c \in Clients, CaptureWrite(c)
       PROVE  EventsFit' /\ \A x \in Orders : UndoneByStraggler(x)
  <2>1. capture[c].order \in Orders /\ provider[capture[c].order] = "PAYPAL"
    BY <1>0, <1>11, CaptureOrder DEF CaptureWrite, CashInv, Idle
  <2>2. status[capture[c].order] # None
    BY <2>1 DEF CashInv, None
  <2> QED
    BY <1>9, <1>11, <2>1, <2>2 DEF CaptureWrite, providerVars
<1>12. ASSUME UNCHANGED <<status, provider, payment, charged, emitted>>
       PROVE  EventsFit' /\ \A x \in Orders : UndoneByStraggler(x)
  BY <1>1, <1>12, EventsKept
<1>13. ASSUME NEW c \in Clients,
              CaptureSnapshot(c) \/ CaptureFail(c) \/ \E o \in Orders : CaptureCheck(c, o)
       PROVE  EventsFit' /\ \A x \in Orders : UndoneByStraggler(x)
  BY <1>12, <1>13
  DEF CaptureSnapshot, CaptureFail, CaptureCheck, orderVars, paymentVars, providerVars
<1>14. ASSUME NEW c \in Clients, CaptureGateway(c) \/ CaptureDenied(c)
       PROVE  EventsFit' /\ \A x \in Orders : UndoneByStraggler(x)
  <2>1. capture[c].order \in Orders /\ provider[capture[c].order] = "PAYPAL"
    BY <1>0, <1>14, CaptureOrder DEF CaptureGateway, CaptureDenied, CashInv, Idle
  <2>2. UNCHANGED <<status, provider, payment>>
    BY <1>14 DEF CaptureGateway, CaptureDenied, orderVars, paymentVars
  <2>3. CASE CaptureGateway(c)
    <3>1. /\ charged' = charged \cup {capture[c].order}
          /\ emitted' = emitted \cup {<<capture[c].order, "PAYMENT.CAPTURE.COMPLETED">>}
          /\ <<capture[c].order, "PAYMENT.CAPTURE.DENIED">> \notin emitted
      BY <2>3 DEF CaptureGateway
    <3>2. EventsFit'
      BY <2>1, <2>2, <3>1 DEF EventsFit, Refusals, StripeEvents, PayPalEvents
    <3> QED
      BY <1>1, <2>2, <3>2
  <2>4. CASE CaptureDenied(c)
    <3>1. /\ charged' = charged /\ capture[c].order \notin charged
          /\ emitted' = emitted \cup {<<capture[c].order, "PAYMENT.CAPTURE.DENIED">>}
      BY <2>4 DEF CaptureDenied
    <3>2. EventsFit'
      BY <2>1, <2>2, <3>1 DEF EventsFit, Refusals, StripeEvents, PayPalEvents
    <3> QED
      BY <1>1, <2>2, <3>2
  <2> QED
    BY <1>14, <2>3, <2>4
<1>15. ASSUME NEW o \in Orders, StripeCharge(o)
       PROVE  EventsFit' /\ \A x \in Orders : UndoneByStraggler(x)
  <2>1. /\ provider[o] = "STRIPE" /\ UNCHANGED <<status, provider, payment>>
        /\ <<o, "payment_intent.canceled">> \notin emitted
        /\ charged' = charged \cup {o}
        /\ emitted' = emitted \cup {<<o, "checkout.session.completed">>,
                                    <<o, "payment_intent.succeeded">>}
    BY <1>15 DEF StripeCharge, orderVars, paymentVars
  <2>2. EventsFit'
    BY <2>1 DEF EventsFit, Refusals, StripeEvents, PayPalEvents
  <2> QED
    BY <1>1, <2>1, <2>2
<1>16. ASSUME NEW o \in Orders, NEW type \in StripeEvents, StripeDecline(o, type)
       PROVE  EventsFit' /\ \A x \in Orders : UndoneByStraggler(x)
  <2>1. /\ provider[o] = "STRIPE" /\ UNCHANGED <<status, provider, payment>>
        /\ o \notin charged /\ charged' = charged /\ emitted' = emitted \cup {<<o, type>>}
    BY <1>16 DEF StripeDecline, orderVars, paymentVars
  <2>2. EventsFit'
    BY <2>1 DEF EventsFit, Refusals, StripeEvents, PayPalEvents
  <2> QED
    BY <1>1, <2>1, <2>2
<1>17. CASE StockStep \/ UNCHANGED flowVars
  BY <1>12, <1>17 DEF StockStep, flowVars, orderVars, paymentVars, providerVars
<1>18. CASE OrderStep
  BY <1>3, <1>4, <1>5, <1>18 DEF OrderStep
<1>19. CASE PaymentStep
  BY <1>6, <1>7, <1>8, <1>10, <1>11, <1>13, <1>14, <1>19 DEF PaymentStep
<1>20. CASE ProviderStep
  BY <1>15, <1>16, <1>20 DEF ProviderStep
<1> QED
  BY <1>17, <1>18, <1>19, <1>20 DEF FlowNext

\* Nothing undoes a paid payment but an initialize request that had read it
\* PENDING and the late decline of an earlier attempt: no cancelled session and
\* no denied capture does (payments.service.ts initialize, webhook, paypalWebhook).
THEOREM FlowOnlyStragglersUndoPaid == FlowSpec => OnlyStragglersUndoPaid
<1>1. FlowInit => FlowTypeOK
  BY DEF FlowInit, FlowTypeOK, Captures
<1>2. FlowInit => CashInv /\ ChargeInv /\ EventsFit
  BY <1>1 DEF FlowInit, CashInv, ChargeInv, PaidMeansCharged, EventsFit, Idle, None
<1>3. CashInv /\ ChargeInv /\ EventsFit /\ [FlowNext]_flowVars
        => /\ CashInv' /\ ChargeInv' /\ EventsFit'
           /\ [\A o \in Orders :
                  payment[o] = "PAID" /\ payment'[o] # "PAID" =>
                      \/ o \in initializing /\ payment'[o] = "PENDING"
                      \/ <<o, "payment_intent.payment_failed">> \in emitted \ stored
                             /\ payment'[o] = "FAILED"]_flowVars
  BY CashStep, ChargeStep, EventsStep DEF UndoneByStraggler
<1> QED
  BY <1>2, <1>3, PTL DEF FlowSpec, OnlyStragglersUndoPaid
=============================================================================
