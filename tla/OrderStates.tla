----------------------------- MODULE OrderStates -----------------------------
(***************************************************************************)
(* The status types of orders, payments and returns, and the tables that   *)
(* say which status may follow which.                                      *)
(***************************************************************************)

OrderStatus ==
    {"PENDING", "CONFIRMED", "PROCESSING", "PACKED", "SHIPPED", "OUT_FOR_DELIVERY", "DELIVERED",
     "CANCELLED", "RETURN_REQUESTED", "RETURNED", "REFUNDED", "PARTIALLY_REFUNDED"}

PaymentStatus ==
    {"PENDING", "AUTHORIZED", "PAID", "FAILED", "CANCELLED", "PARTIALLY_REFUNDED", "REFUNDED"}

ReturnStatus ==
    {"REQUESTED", "MORE_INFO_REQUIRED", "APPROVED", "REJECTED", "IN_TRANSIT", "RECEIVED",
     "REFUND_PENDING", "COMPLETED"}

\* No row yet.
None == "NONE"

ORDER_TRANSITIONS ==
    [PENDING            |-> {"CONFIRMED", "CANCELLED"},
     CONFIRMED          |-> {"PROCESSING", "CANCELLED"},
     PROCESSING         |-> {"PACKED", "CANCELLED"},
     PACKED             |-> {"SHIPPED", "CANCELLED"},
     SHIPPED            |-> {"OUT_FOR_DELIVERY"},
     OUT_FOR_DELIVERY   |-> {"DELIVERED"},
     DELIVERED          |-> {"RETURN_REQUESTED", "PARTIALLY_REFUNDED", "REFUNDED"},
     CANCELLED          |-> {},
     RETURN_REQUESTED   |-> {"RETURNED"},
     RETURNED           |-> {"PARTIALLY_REFUNDED", "REFUNDED"},
     REFUNDED           |-> {},
     PARTIALLY_REFUNDED |-> {"REFUNDED"}]

\* The statuses of an order whose goods were promised or sent.
Confirmed == {"CONFIRMED", "PROCESSING", "PACKED", "SHIPPED", "OUT_FOR_DELIVERY"}

\* The statuses an order reaches only through DELIVERED.
AfterDelivery == {"DELIVERED", "RETURN_REQUESTED", "RETURNED", "REFUNDED", "PARTIALLY_REFUNDED"}

RETURN_TRANSITIONS ==
    [REQUESTED          |-> {"MORE_INFO_REQUIRED", "APPROVED", "REJECTED"},
     MORE_INFO_REQUIRED |-> {"REQUESTED", "APPROVED", "REJECTED"},
     APPROVED           |-> {"MORE_INFO_REQUIRED", "IN_TRANSIT", "RECEIVED"},
     REJECTED           |-> {},
     IN_TRANSIT         |-> {"RECEIVED"},
     RECEIVED           |-> {"REFUND_PENDING", "COMPLETED"},
     REFUND_PENDING     |-> {"COMPLETED"},
     COMPLETED          |-> {}]
=============================================================================
