------------------------------ MODULE OrderFlow ------------------------------
(***************************************************************************)
(* An order from checkout to delivery: checkout.service.ts,                *)
(* orders.service.ts and payments.service.ts (all but refunds) over the    *)
(* stock of Inventory, with Stripe and PayPal as the environment.          *)
(*                                                                         *)
(* An element of Orders stands for the idempotency key of a checkout and   *)
(* for the order and the payment created under it: a second request with   *)
(* the same key returns the first order and changes nothing.               *)
(***************************************************************************)
EXTENDS Inventory, OrderStates

CONSTANTS
    Clients,        \* capture requests that may be in flight together
    Offered,        \* payment providers customers choose from
    Targets         \* statuses asked for through transition

AllProviders == {"COD", "STRIPE", "PAYPAL"}

ASSUME FlowAssumption == Offered \subseteq AllProviders /\ Targets \subseteq OrderStatus

VARIABLES
    status,         \* order status
    history,        \* the last OrderStatusHistory row, <<from, to>>
    provider,       \* payment provider chosen at checkout
    payment,        \* payment status
    transaction,    \* Payment.transactionId: NONE, the checkout SESSION
                    \*   (Stripe session, PayPal order) or the CHARGE
    shipment,       \* NONE, SHIPPED or DELIVERED
    initializing,   \* payments an initialize request has found PENDING
    capture,        \* capture[c]: the capture request c and what it has read
    charged,        \* orders the provider has taken the money for
    emitted,        \* provider events <<order, type>>
    stored          \* events in the PaymentEvent table

orderVars    == <<status, history, shipment>>
paymentVars  == <<provider, payment, transaction>>
requestVars  == <<initializing, capture>>
providerVars == <<charged, emitted, stored>>
flowVars == <<stockVars, orderVars, paymentVars, requestVars, providerVars>>

StripeEvents == {"checkout.session.completed", "payment_intent.succeeded",
                 "payment_intent.payment_failed", "payment_intent.canceled"}
PayPalEvents == {"PAYMENT.CAPTURE.COMPLETED", "PAYMENT.CAPTURE.DENIED"}
Events == Orders \X (StripeEvents \cup PayPalEvents)

\* A capture request: where it is, its order, and the snapshot its
\* transaction has taken.
Idle == [at |-> "idle"]
Captures ==
    {Idle}
      \cup [at : {"checked", "captured"}, order : Orders]
      \cup [at : {"snapshot"}, order : Orders,
            payment : PaymentStatus \cup {None}, status : OrderStatus \cup {None}]

FlowInit ==
    /\ StockInit
    /\ status = [o \in Orders |-> None]
    /\ history = [o \in Orders |-> <<None, None>>]
    /\ provider = [o \in Orders |-> None]
    /\ payment = [o \in Orders |-> None]
    /\ transaction = [o \in Orders |-> None]
    /\ shipment = [o \in Orders |-> None]
    /\ initializing = {}
    /\ capture = [c \in Clients |-> Idle]
    /\ charged = {}
    /\ emitted = {}
    /\ stored = {}

SetStatus(o, from, to) ==
    /\ status' = [status EXCEPT ![o] = to]
    /\ history' = [history EXCEPT ![o] = <<from, to>>]

-----------------------------------------------------------------------------
(* Checkout                                                                *)

\* One serializable transaction: order, reservations, payment.  A cash on
\* delivery order is confirmed and its stock committed at once.
PlaceOrder(o, lines, p) ==
    LET first == IF p = "COD" THEN "CONFIRMED" ELSE "PENDING" IN
    /\ status[o] = None
    /\ IF p = "COD" THEN ReserveAndCommit(o, lines) ELSE Reserve(o, lines)
    /\ SetStatus(o, None, first)
    /\ provider' = [provider EXCEPT ![o] = p]
    /\ payment' = [payment EXCEPT ![o] = "PENDING"]
    /\ UNCHANGED <<transaction, shipment, requestVars, providerVars>>

-----------------------------------------------------------------------------
(* Administrators and customers move the order                             *)

\* Mutant of Transition: cash is booked when the parcel leaves.
Transition_CollectsEarly(o, to) ==
    /\ status[o] # None
    /\ to \in ORDER_TRANSITIONS[status[o]]
    /\ SetStatus(o, status[o], to)
    /\ CASE to = "CONFIRMED" -> CommitOrder(o)
         [] to = "CANCELLED" -> CancelOrder(o)
         [] OTHER            -> UNCHANGED stockVars
    /\ payment' = IF to = "OUT_FOR_DELIVERY" /\ provider[o] = "COD"
                  THEN [payment EXCEPT ![o] = "PAID"]
                  ELSE payment
    /\ UNCHANGED <<shipment, transaction, provider, requestVars, providerVars>>

\* OrdersService.transition, with any target the table allows.
Transition(o, to) ==
    /\ status[o] # None
    /\ to \in ORDER_TRANSITIONS[status[o]]
    /\ SetStatus(o, status[o], to)
    /\ CASE to = "CONFIRMED" -> CommitOrder(o)
         [] to = "CANCELLED" -> CancelOrder(o)
         [] OTHER            -> UNCHANGED stockVars
    /\ LET delivered == to = "DELIVERED"
           collected == delivered /\ provider[o] = "COD" /\ payment[o] = "PENDING"
       IN  /\ shipment' = IF delivered /\ shipment[o] = "SHIPPED"
                          THEN [shipment EXCEPT ![o] = "DELIVERED"]
                          ELSE shipment
           /\ payment' = IF collected THEN [payment EXCEPT ![o] = "PAID"] ELSE payment
           /\ transaction' = IF collected
                             THEN [transaction EXCEPT ![o] = "CHARGE"]
                             ELSE transaction
    /\ UNCHANGED <<provider, requestVars, providerVars>>

\* OrdersService.ship: the same step as Transition to SHIPPED, with a shipment.
Ship(o) ==
    /\ status[o] = "PACKED"
    /\ SetStatus(o, "PACKED", "SHIPPED")
    /\ shipment' = [shipment EXCEPT ![o] = "SHIPPED"]
    /\ UNCHANGED <<stockVars, paymentVars, requestVars, providerVars>>

-----------------------------------------------------------------------------
(* Payment: initialize                                                     *)

\* The request reads the payment and asks the gateway for a session ...
InitializeRead(o) ==
    /\ provider[o] \in {"STRIPE", "PAYPAL"}
    /\ payment[o] = "PENDING"
    /\ o \notin initializing
    /\ initializing' = initializing \cup {o}
    /\ UNCHANGED <<stockVars, orderVars, paymentVars, capture, providerVars>>

\* Mutant of InitializeWrite: only the session's id is stored.
InitializeWrite_IdOnly(o) ==
    /\ o \in initializing
    /\ transaction' = [transaction EXCEPT ![o] = "SESSION"]
    /\ initializing' = initializing \ {o}
    /\ UNCHANGED <<stockVars, orderVars, provider, payment, capture, providerVars>>

\* ... and writes the answer whatever the payment has become meanwhile.  The
\* gateway call carries the payment's own key: it answers the same session.
InitializeWrite(o) ==
    /\ o \in initializing
    /\ transaction' = [transaction EXCEPT ![o] = "SESSION"]
    /\ payment' = [payment EXCEPT ![o] = "PENDING"]
    /\ initializing' = initializing \ {o}
    /\ UNCHANGED <<stockVars, orderVars, provider, capture, providerVars>>

\* The gateway refuses or the request dies.
InitializeFail(o) ==
    /\ o \in initializing
    /\ initializing' = initializing \ {o}
    /\ UNCHANGED <<stockVars, orderVars, paymentVars, capture, providerVars>>

-----------------------------------------------------------------------------
(* The providers (environment)                                             *)

\* The customer pays the Stripe session she was redirected to.
StripeCharge(o) ==
    /\ provider[o] = "STRIPE"
    /\ transaction[o] # None
    /\ o \notin charged
    /\ <<o, "payment_intent.canceled">> \notin emitted
    /\ charged' = charged \cup {o}
    /\ emitted' = emitted \cup {<<o, "checkout.session.completed">>,
                                <<o, "payment_intent.succeeded">>}
    /\ UNCHANGED <<stockVars, orderVars, paymentVars, requestVars, stored>>

\* A card is declined, or an unpaid session is closed.
StripeDecline(o, type) ==
    /\ type \in {"payment_intent.payment_failed", "payment_intent.canceled"}
    /\ provider[o] = "STRIPE"
    /\ transaction[o] # None
    /\ o \notin charged
    /\ <<o, type>> \notin emitted
    /\ <<o, "payment_intent.canceled">> \notin emitted
    /\ emitted' = emitted \cup {<<o, type>>}
    /\ UNCHANGED <<stockVars, orderVars, paymentVars, requestVars, charged, stored>>

-----------------------------------------------------------------------------
(* Payment: webhooks                                                       *)

\* Mutants of ConfirmIfPending: the order's status is not looked at; the stock
\* is not committed.
ConfirmIfPending_Always(o, seen_status) ==
    IF seen_status # None
    THEN /\ SetStatus(o, "PENDING", "CONFIRMED")
         /\ CommitOrder(o)
    ELSE UNCHANGED <<status, history, stockVars>>

ConfirmIfPending_NoCommit(o, seen_status) ==
    IF seen_status = "PENDING"
    THEN SetStatus(o, "PENDING", "CONFIRMED") /\ UNCHANGED stockVars
    ELSE UNCHANGED <<status, history, stockVars>>

\* What a payment that becomes PAID does to its order.
ConfirmIfPending(o, seen_status) ==
    IF seen_status = "PENDING"
    THEN /\ SetStatus(o, "PENDING", "CONFIRMED")
         /\ CommitOrder(o)
    ELSE UNCHANGED <<status, history, stockVars>>

\* Mutant of StripeMatches: every event is looked up by the charge.
StripeMatches_ChargeOnly(o, type) == transaction[o] = "CHARGE"

\* The payment is found by transactionId: a session event names the session,
\* an intent event the charge.
StripeMatches(o, type) ==
    transaction[o] = IF type = "checkout.session.completed" THEN "SESSION" ELSE "CHARGE"

StripeStatus(type) ==
    CASE type = "payment_intent.payment_failed" -> "FAILED"
      [] type = "payment_intent.canceled"       -> "CANCELLED"
      [] OTHER                                  -> "PAID"

\* Mutant of StripeWebhook: a duplicate event id is processed again.
StripeWebhook_Redelivered(o, type) ==
    /\ type \in StripeEvents
    /\ <<o, type>> \in emitted
    /\ stored' = stored \cup {<<o, type>>}
    /\ IF StripeMatches(o, type)
       THEN /\ payment' = [payment EXCEPT ![o] = StripeStatus(type)]
            /\ transaction' = [transaction EXCEPT ![o] = "CHARGE"]
            /\ ConfirmIfPending(o, IF StripeStatus(type) = "PAID" THEN status[o] ELSE None)
       ELSE UNCHANGED <<payment, transaction, status, history, stockVars>>
    /\ UNCHANGED <<provider, shipment, requestVars, charged, emitted>>

\* PaymentsService.webhook.  The event is stored even when no payment matches,
\* and is then never looked at again.
StripeWebhook(o, type) ==
    /\ type \in StripeEvents
    /\ <<o, type>> \in emitted \ stored
    /\ stored' = stored \cup {<<o, type>>}
    /\ IF StripeMatches(o, type)
       THEN /\ payment' = [payment EXCEPT ![o] = StripeStatus(type)]
            /\ transaction' = [transaction EXCEPT ![o] = "CHARGE"]
            /\ ConfirmIfPending(o, IF StripeStatus(type) = "PAID" THEN status[o] ELSE None)
       ELSE UNCHANGED <<payment, transaction, status, history, stockVars>>
    /\ UNCHANGED <<provider, shipment, requestVars, charged, emitted>>

\* markPaid with the payment and order status its transaction has read.
MarkPaid(o, seen_payment, seen_status) ==
    IF seen_payment = "PAID"
    THEN UNCHANGED <<payment, transaction, status, history, stockVars>>
    ELSE /\ payment' = [payment EXCEPT ![o] = "PAID"]
         /\ transaction' = [transaction EXCEPT ![o] = "CHARGE"]
         /\ ConfirmIfPending(o, seen_status)

\* PaymentsService.paypalWebhook: the event carries both ids, so it finds a
\* payment that has either.
PayPalWebhook(o, type) ==
    /\ type \in PayPalEvents
    /\ <<o, type>> \in emitted \ stored
    /\ stored' = stored \cup {<<o, type>>}
    /\ IF type = "PAYMENT.CAPTURE.COMPLETED"
       THEN MarkPaid(o, payment[o], status[o])
       ELSE /\ payment' = [payment EXCEPT ![o] = "FAILED"]
            /\ UNCHANGED <<transaction, status, history, stockVars>>
    /\ UNCHANGED <<provider, shipment, requestVars, charged, emitted>>

-----------------------------------------------------------------------------
(* Payment: PayPal capture, asked for by the customer's success page       *)

\* The request finds the payment by its PayPal order id, still PENDING.
CaptureCheck(c, o) ==
    /\ capture[c] = Idle
    /\ provider[o] = "PAYPAL"
    /\ transaction[o] = "SESSION"
    /\ payment[o] = "PENDING"
    /\ capture' = [capture EXCEPT ![c] = [at |-> "checked", order |-> o]]
    /\ UNCHANGED <<stockVars, orderVars, paymentVars, initializing, providerVars>>

\* The gateway captures; a repeated capture answers the same (same key).
CaptureGateway(c) ==
    /\ capture[c].at = "checked"
    /\ LET o == capture[c].order IN
       /\ <<o, "PAYMENT.CAPTURE.DENIED">> \notin emitted
       /\ charged' = charged \cup {o}
       /\ emitted' = emitted \cup {<<o, "PAYMENT.CAPTURE.COMPLETED">>}
    /\ capture' = [capture EXCEPT ![c] = [at |-> "captured", order |-> capture[c].order]]
    /\ UNCHANGED <<stockVars, orderVars, paymentVars, initializing, stored>>

CaptureDenied(c) ==
    /\ capture[c].at = "checked"
    /\ LET o == capture[c].order IN
       /\ o \notin charged
       /\ emitted' = emitted \cup {<<o, "PAYMENT.CAPTURE.DENIED">>}
    /\ capture' = [capture EXCEPT ![c] = Idle]
    /\ UNCHANGED <<stockVars, orderVars, paymentVars, initializing, charged, stored>>

\* Mutant of CaptureSnapshot: nobody waits for the provider's COMPLETED.
CaptureSnapshot_Unverified(c) ==
    /\ capture[c].at \in {"checked", "captured"}
    /\ LET o == capture[c].order IN
       capture' = [capture EXCEPT ![c] = [at |-> "snapshot", order |-> o,
                                          payment |-> payment[o], status |-> status[o]]]
    /\ UNCHANGED <<stockVars, orderVars, paymentVars, initializing, providerVars>>

\* The transaction, at the default isolation, reads payment and order ...
CaptureSnapshot(c) ==
    /\ capture[c].at = "captured"
    /\ LET o == capture[c].order IN
       capture' = [capture EXCEPT ![c] = [at |-> "snapshot", order |-> o,
                                          payment |-> payment[o], status |-> status[o]]]
    /\ UNCHANGED <<stockVars, orderVars, paymentVars, initializing, providerVars>>

\* ... and writes by what it has read.
CaptureWrite(c) ==
    /\ capture[c].at = "snapshot"
    /\ MarkPaid(capture[c].order, capture[c].payment, capture[c].status)
    /\ capture' = [capture EXCEPT ![c] = Idle]
    /\ UNCHANGED <<shipment, provider, initializing, providerVars>>

\* The request dies, or its transaction is rolled back.
CaptureFail(c) ==
    /\ capture[c] # Idle
    /\ capture' = [capture EXCEPT ![c] = Idle]
    /\ UNCHANGED <<stockVars, orderVars, paymentVars, initializing, providerVars>>

-----------------------------------------------------------------------------

OrderStep ==
    \E o \in Orders :
        \/ \E lines \in Lines, p \in Offered : PlaceOrder(o, lines, p)
        \/ \E to \in Targets : Transition(o, to)
        \/ Ship(o)

PaymentStep ==
    \/ \E o \in Orders :
          \/ InitializeRead(o) \/ InitializeWrite(o) \/ InitializeFail(o)
          \/ \E type \in StripeEvents : StripeWebhook(o, type)
          \/ \E type \in PayPalEvents : PayPalWebhook(o, type)
    \/ \E c \in Clients :
          \/ \E o \in Orders : CaptureCheck(c, o)
          \/ CaptureGateway(c) \/ CaptureDenied(c) \/ CaptureSnapshot(c)
          \/ CaptureWrite(c) \/ CaptureFail(c)

ProviderStep ==
    \E o \in Orders :
        \/ StripeCharge(o)
        \/ \E type \in StripeEvents : StripeDecline(o, type)

\* Time, the release job and manual stock changes, with no order involved.
StockStep ==
    /\ \/ \E o \in Orders : Lapse(o)
       \/ ReleaseJob
       \/ ManualChange
    /\ UNCHANGED <<orderVars, paymentVars, requestVars, providerVars>>

FlowNext == OrderStep \/ PaymentStep \/ ProviderStep \/ StockStep

FlowSpec == FlowInit /\ [][FlowNext]_flowVars

\* The providers deliver an event again until it is answered.
DeliveryFairness ==
    \A o \in Orders :
        /\ \A type \in StripeEvents : WF_flowVars(StripeWebhook(o, type))
        /\ \A type \in PayPalEvents : WF_flowVars(PayPalWebhook(o, type))

FairFlowSpec == FlowSpec /\ DeliveryFairness

-----------------------------------------------------------------------------
(* Properties                                                              *)

FlowTypeOK ==
    /\ status \in [Orders -> OrderStatus \cup {None}]
    /\ history \in [Orders -> (OrderStatus \cup {None}) \X (OrderStatus \cup {None})]
    /\ provider \in [Orders -> Offered \cup {None}]
    /\ payment \in [Orders -> PaymentStatus \cup {None}]
    /\ transaction \in [Orders -> {None, "SESSION", "CHARGE"}]
    /\ shipment \in [Orders -> {None, "SHIPPED", "DELIVERED"}]
    /\ initializing \subseteq Orders
    /\ capture \in [Clients -> Captures]
    /\ charged \subseteq Orders
    /\ emitted \subseteq Events
    /\ stored \subseteq emitted

\* README: "Orders use an explicit state machine and status history."  Every
\* change of an order's status is one ORDER_TRANSITIONS allows, and the history
\* row written with it says what changed.
OrdersFollowStateMachine ==
    [][\A o \in Orders :
          status[o] # None /\ <<status[o], history[o]>>' # <<status[o], history[o]>> =>
              /\ history'[o] = <<status[o], status'[o]>>
              /\ status'[o] \in ORDER_TRANSITIONS[status[o]]]_flowVars

\* README: "Browser redirects never mark a payment paid."  An online payment is
\* PAID only when the provider has taken the money, whatever initialize,
\* captures and reordered webhooks do.  The provider's event is believed: of
\* checkout.session.completed the payment_status is not looked at
\* (payments.service.ts:113).
PaidMeansCharged ==
    \A o \in Orders : payment[o] = "PAID" /\ provider[o] # "COD" => o \in charged

\* A cash on delivery payment is PAID exactly once the order was delivered.
CodPaidOnDelivery ==
    \A o \in Orders :
        provider[o] = "COD" => (payment[o] = "PAID" <=> status[o] \in AfterDelivery)

\* A cancelled order holds no stock, neither reserved nor sold, also when its
\* payment arrives after the cancellation.
CancelledHoldsNoStock ==
    \A o \in Orders, v \in Variants :
        status[o] = "CANCELLED" => ~IsOpen(o, v) /\ ~IsTaken(o, v)

\* The release job took the line while the order waited for its payment: past
\* the 15 minutes, and never after it was converted.
GivenAway(o, v) == o \in lapsed /\ <<o, v>> \in released \ converted

\* From its confirmation on an order owns the stock of every line, however long
\* ago its 15 minutes ran out: no release job, also one that read the row before
\* the payment, takes it away, only a cancellation does (a received return puts
\* units back and leaves the row converted).  The one line it may not own is one
\* that had been given away before a late payment confirmed the order.
ConfirmedOwnsStock ==
    \A o \in Orders, v \in Variants :
        status[o] \in Confirmed \cup AfterDelivery /\ quantity[o][v] > 0
            => IsTaken(o, v) \/ GivenAway(o, v)

\* A PENDING order is the only kind that still holds open reservations.
OpenOnlyWhilePending ==
    \A o \in Orders, v \in Variants : IsOpen(o, v) => status[o] = "PENDING"

\* The reservations of an order follow its status, whoever has moved it and
\* whatever the payment, the release job and the captures in flight have seen.
ReservationsFollowStatus == OpenOnlyWhilePending /\ CancelledHoldsNoStock

\* A payment leaves PAID only by an initialize request that had read it
\* PENDING, or by a decline of an earlier attempt delivered late.
OnlyStragglersUndoPaid ==
    [][\A o \in Orders :
          payment[o] = "PAID" /\ payment'[o] # "PAID" =>
              \/ o \in initializing /\ payment'[o] = "PENDING"
              \/ <<o, "payment_intent.payment_failed">> \in emitted \ stored
                     /\ payment'[o] = "FAILED"]_flowVars

\* A customer who was charged does not wait for ever on a PENDING order.
ChargedLeavesPending ==
    \A o \in Orders : (o \in charged /\ status[o] = "PENDING") ~> status[o] # "PENDING"
=============================================================================
