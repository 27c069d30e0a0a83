----------------------------- MODULE MCAfterSales -----------------------------
(* Instances of AfterSales for TLC. *)
EXTENDS AfterSales, TLC

CONSTANTS o1, v1, v2, a1, a2, k1, k2

OneOrder    == {o1}
OneVariant  == {v1}
TwoVariants == {v1, v2}
NoWorker    == {}
NoEditor    == {}
NoClient    == {}

NoAdmin   == {}
OneAdmin  == {a1}
TwoAdmins == {a1, a2}
TwoKeys   == {k1, k2}

CashOnly     == {"COD"}
CardOnly     == {"STRIPE"}
CashAndCard  == {"COD", "STRIPE"}

\* The way to delivery and back: nobody cancels, and REFUNDED is only reached
\* by a refund.
ToDelivery == {"CONFIRMED", "PROCESSING", "PACKED", "SHIPPED", "OUT_FOR_DELIVERY",
               "DELIVERED", "RETURNED"}

\* Every transition but the last, which only a refund makes.
ButRefunded == OrderStatus \ {"PARTIALLY_REFUNDED", "REFUNDED"}

Symmetry == Permutations({a1, a2}) \cup Permutations({k1, k2})
=============================================================================
