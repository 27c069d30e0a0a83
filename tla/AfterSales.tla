------------------------------ MODULE AfterSales ------------------------------
(***************************************************************************)
(* What follows the delivery: return requests (returns.service.ts and      *)
(* returnStatus of admin.service.ts) and refunds (refund of                *)
(* payments.service.ts), together with everything OrderFlow does.          *)
(*                                                                         *)
(* A refund request reads the payment, creates its row, calls the gateway  *)
(* and writes the outcome: four steps with nothing but the row's unique    *)
(* idempotency key between two of them.                                    *)
(***************************************************************************)
EXTENDS OrderFlow

CONSTANTS
    Admins,         \* refund requests that may be in flight together
    Keys,           \* idempotency keys of refund requests
    Total,          \* amount of an order's payment
    MaxRefund       \* bound: the largest amount asked for

ASSUME AfterAssumption ==
    /\ IsFiniteSet(Keys)
    /\ Total \in Nat \ {0}
    /\ MaxRefund \in Nat \ {0}

VARIABLES
    request,        \* request[o]: the return request of an order
    refunds,        \* refunds[k]: the Refund row with idempotency key k
    call,           \* call[a]: a refund request and what it has read
    paidBack        \* paidBack[k]: what the provider has paid back under k

refundVars == <<refunds, call, paidBack>>
afterVars  == <<flowVars, request, refundVars>>

NoRequest == [status |-> None]
Requests  == {NoRequest} \cup [status : ReturnStatus, lines : Lines]

NoRefund == [status |-> None]
Refunds  == {NoRefund} \cup [status : {"PROCESSING", "SUCCEEDED", "FAILED"},
                             order : Orders, amount : 1 .. MaxRefund]

Answers == {"succeeded", "pending"}
Calls   == {Idle} \cup [at : {"checked", "created"} \cup Answers,
                        key : Keys, order : Orders, amount : 1 .. MaxRefund,
                        already : Nat, was : OrderStatus]

\* Amounts are sets of single units <<key, i>>, their sum is the cardinality.
Units(o, amount) == {u \in Keys \X (1 .. MaxRefund) :
                        /\ refunds[u[1]] # NoRefund
                        /\ refunds[u[1]].order = o
                        /\ u[2] <= amount[u[1]]}

Refunded(o) ==
    Cardinality(Units(o, [k \in Keys |-> IF refunds[k].status = "SUCCEEDED"
                                         THEN refunds[k].amount ELSE 0]))

PaidBack(o) == Cardinality(Units(o, paidBack))

AfterInit ==
    /\ FlowInit
    /\ request = [o \in Orders |-> NoRequest]
    /\ refunds = [k \in Keys |-> NoRefund]
    /\ call = [a \in Admins |-> Idle]
    /\ paidBack = [k \in Keys |-> 0]

-----------------------------------------------------------------------------
(* Returns                                                                 *)

\* Mutant of CreateReturn: the quantities are not compared with the order's.
CreateReturn_Unchecked(o, lines) ==
    /\ status[o] = "DELIVERED"
    /\ request[o] = NoRequest
    /\ lines # NoUnits
    /\ request' = [request EXCEPT ![o] = [status |-> "REQUESTED", lines |-> lines]]
    /\ SetStatus(o, "DELIVERED", "RETURN_REQUESTED")
    /\ UNCHANGED <<stockVars, shipment, paymentVars, requestVars, providerVars, refundVars>>

\* The customer asks to return some units of a delivered order.  The request
\* takes the order out of DELIVERED, so nothing was requested for it before.
CreateReturn(o, lines) ==
    /\ status[o] = "DELIVERED"
    /\ request[o] = NoRequest
    /\ lines # NoUnits
    /\ \A v \in Variants : lines[v] <= quantity[o][v]
    /\ request' = [request EXCEPT ![o] = [status |-> "REQUESTED", lines |-> lines]]
    /\ SetStatus(o, "DELIVERED", "RETURN_REQUESTED")
    /\ UNCHANGED <<stockVars, shipment, paymentVars, requestVars, providerVars, refundVars>>

\* A request keeps its lines when its status moves.
MoveRequest(o, to) ==
    request' = [request EXCEPT ![o] = [status |-> to, lines |-> request[o].lines]]

ProvideInformation(o) ==
    /\ request[o].status = "MORE_INFO_REQUIRED"
    /\ MoveRequest(o, "REQUESTED")
    /\ UNCHANGED <<flowVars, refundVars>>

\* Mutant of SetReturnStatus: any status may follow any other.
SetReturnStatus_AnyOrder(o, to) ==
    /\ request[o] # NoRequest
    /\ IF to = "RECEIVED" THEN Restock(o, request[o].lines) ELSE UNCHANGED stockVars
    /\ MoveRequest(o, to)
    /\ UNCHANGED <<orderVars, paymentVars, requestVars, providerVars, refundVars>>

\* An administrator moves the request; the order's status stays as it is.
SetReturnStatus(o, to) ==
    /\ request[o] # NoRequest
    /\ to \in RETURN_TRANSITIONS[request[o].status]
    /\ IF to = "RECEIVED" THEN Restock(o, request[o].lines) ELSE UNCHANGED stockVars
    /\ MoveRequest(o, to)
    /\ UNCHANGED <<orderVars, paymentVars, requestVars, providerVars, refundVars>>

-----------------------------------------------------------------------------
(* Refunds                                                                 *)

\* Mutant of Refundable: an order that is paid can be refunded.
Refundable_AnyStatus(o) ==
    /\ payment[o] = "PAID"
    /\ provider[o] = "COD" \/ transaction[o] # None

Refundable(o) ==
    /\ payment[o] = "PAID"
    /\ provider[o] = "COD" \/ transaction[o] # None
    /\ status[o] \in {"DELIVERED", "RETURNED", "PARTIALLY_REFUNDED"}

\* Mutant of RefundCheck: the limit is dropped.
RefundCheck_AnyAmount(a, k, o, amount) ==
    /\ call[a] = Idle
    /\ refunds[k] = NoRefund
    /\ Refundable(o)
    /\ call' = [call EXCEPT ![a] = [at |-> "checked", key |-> k, order |-> o,
                                    amount |-> amount, already |-> Refunded(o),
                                    was |-> status[o]]]
    /\ UNCHANGED <<flowVars, request, refunds, paidBack>>

\* The request reads the payment, its SUCCEEDED refunds and the order, outside
\* any transaction.  A key that already has a row is answered with that row.
RefundCheck(a, k, o, amount) ==
    /\ call[a] = Idle
    /\ refunds[k] = NoRefund
    /\ Refundable(o)
    /\ amount + Refunded(o) <= Total
    /\ call' = [call EXCEPT ![a] = [at |-> "checked", key |-> k, order |-> o,
                                    amount |-> amount, already |-> Refunded(o),
                                    was |-> status[o]]]
    /\ UNCHANGED <<flowVars, request, refunds, paidBack>>

\* call[a] goes on to the next step.
Proceed(a, at) ==
    call' = [call EXCEPT ![a] = [at |-> at, key |-> call[a].key, order |-> call[a].order,
                                 amount |-> call[a].amount, already |-> call[a].already,
                                 was |-> call[a].was]]

EndCall(a) == call' = [call EXCEPT ![a] = Idle]

SetRefund(a, to) ==
    refunds' = [refunds EXCEPT ![call[a].key] =
                   [status |-> to, order |-> call[a].order, amount |-> call[a].amount]]

RefundCreate(a) ==
    /\ call[a].at = "checked"
    /\ refunds[call[a].key] = NoRefund
    /\ SetRefund(a, "PROCESSING")
    /\ Proceed(a, "created")
    /\ UNCHANGED <<flowVars, request, paidBack>>

\* Mutant of RefundGateway: the provider is asked before the row exists.
RefundGateway_Unrecorded(a, answer) ==
    /\ call[a].at \in {"checked", "created"}
    /\ IF provider[call[a].order] = "COD"
       THEN answer = "succeeded" /\ UNCHANGED paidBack
       ELSE /\ PaidBack(call[a].order) + call[a].amount <= Total
            /\ paidBack' = [paidBack EXCEPT ![call[a].key] = call[a].amount]
    /\ Proceed(a, answer)
    /\ UNCHANGED <<flowVars, request, refunds>>

\* The provider pays back at most what was charged; cash is always "succeeded".
RefundGateway(a, answer) ==
    /\ call[a].at = "created"
    /\ IF provider[call[a].order] = "COD"
       THEN answer = "succeeded" /\ UNCHANGED paidBack
       ELSE /\ PaidBack(call[a].order) + call[a].amount <= Total
            /\ paidBack' = [paidBack EXCEPT ![call[a].key] = call[a].amount]
    /\ Proceed(a, answer)
    /\ UNCHANGED <<flowVars, request, refunds>>

\* The outcome, written by what was read before the gateway was called.  A
\* pending refund stays PROCESSING: no later message of the provider is handled.
RefundFinish(a) ==
    LET o    == call[a].order
        next == IF call[a].amount + call[a].already = Total
                THEN "REFUNDED" ELSE "PARTIALLY_REFUNDED"
    IN  /\ call[a].at \in Answers
        /\ IF call[a].at = "succeeded"
           THEN /\ SetRefund(a, "SUCCEEDED")
                /\ payment' = [payment EXCEPT ![o] = next]
                /\ SetStatus(o, call[a].was, next)
           ELSE UNCHANGED <<refunds, payment, status, history>>
        /\ EndCall(a)
        /\ UNCHANGED <<stockVars, shipment, provider, transaction, requestVars, providerVars,
                       request, paidBack>>

\* The gateway refuses, its answer is lost, or the transaction fails: all of
\* them leave a FAILED row.
RefundFail(a) ==
    /\ call[a].at \in {"created"} \cup Answers
    /\ SetRefund(a, "FAILED")
    /\ EndCall(a)
    /\ UNCHANGED <<flowVars, request, paidBack>>

\* Another request has created the row with this key, or the process dies and
\* leaves the row as it is.
RefundDie(a) ==
    /\ call[a] # Idle
    /\ EndCall(a)
    /\ UNCHANGED <<flowVars, request, refunds, paidBack>>

-----------------------------------------------------------------------------

ReturnStep ==
    \E o \in Orders :
        \/ \E lines \in Lines : CreateReturn(o, lines)
        \/ ProvideInformation(o)
        \/ \E to \in ReturnStatus : SetReturnStatus(o, to)

RefundStep ==
    \E a \in Admins :
        \/ \E k \in Keys, o \in Orders, amount \in 1 .. MaxRefund : RefundCheck(a, k, o, amount)
        \/ \E answer \in Answers : RefundGateway(a, answer)
        \/ RefundCreate(a) \/ RefundFinish(a) \/ RefundFail(a) \/ RefundDie(a)

AfterNext ==
    \/ FlowNext /\ UNCHANGED <<request, refundVars>>
    \/ ReturnStep
    \/ RefundStep

AfterSpec == AfterInit /\ [][AfterNext]_afterVars

-----------------------------------------------------------------------------
(* Properties                                                              *)

AfterTypeOK ==
    /\ request \in [Orders -> Requests]
    /\ refunds \in [Keys -> Refunds]
    /\ call \in [Admins -> Calls]
    /\ paidBack \in [Keys -> 0 .. MaxRefund]

\* A payment is PAID with the id of its charge, which a refund must name: no
\* initialize request or late event leaves it PAID with the id of a session.
PaidHasCharge == \A o \in Orders : payment[o] = "PAID" => transaction[o] = "CHARGE"

\* refund: "Refund exceeds the paid amount".  The refunds of an order that
\* succeeded are at most its payment.
RefundsWithinPayment == \A o \in Orders : Refunded(o) <= Total

\* Whatever dies in between, money the provider has paid back has its row with
\* this amount, and an online refund SUCCEEDED only if it was paid back.
RefundsMatchProvider ==
    \A k \in Keys :
        /\ paidBack[k] > 0 => refunds[k] # NoRefund /\ refunds[k].amount = paidBack[k]
        /\ refunds[k].status = "SUCCEEDED" /\ provider[refunds[k].order] # "COD"
               => paidBack[k] = refunds[k].amount

\* A payment is REFUNDED only when its refunds add up to it, also when several
\* requests computed what was left from an old sum.
RefundedMeansWhole == \A o \in Orders : payment[o] = "REFUNDED" => Refunded(o) >= Total

\* With one refund request at a time, failing and dying wherever it may, an order
\* is refunded up to its payment, and is REFUNDED when it is.
RefundsAddUp == RefundsWithinPayment /\ RefundedMeansWhole

\* A refund writes the order's status by what it has read before the gateway
\* call.  The status it overwrites may be another one by then, but never one
\* of an order that was not delivered.
RefundedWasDelivered ==
    [][\A o \in Orders :
          status'[o] # status[o] /\ status'[o] \in {"PARTIALLY_REFUNDED", "REFUNDED"}
              => status[o] \in AfterDelivery]_afterVars

\* Goods go back on the shelf once, when the request is RECEIVED, and as many
\* as the request names.
RestockedOnce ==
    \A o \in Orders :
        returned[o] = IF request[o].status \in {"RECEIVED", "REFUND_PENDING", "COMPLETED"}
                      THEN request[o].lines
                      ELSE NoUnits

\* Nothing was requested yet for an order that can be returned: no transition,
\* refund or decision on a request takes an order back to DELIVERED.
OneRequestPerOrder == \A o \in Orders : status[o] = "DELIVERED" => request[o] = NoRequest

\* An order is returned and refunded only after its delivery, by one request:
\* neither an administrator's transition nor a refund that writes an old status
\* opens the way to a second one.
ReturnsFollowDelivery == []OneRequestPerOrder /\ RefundedWasDelivered
=============================================================================
