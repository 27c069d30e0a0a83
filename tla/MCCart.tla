-------------------------------- MODULE MCCart --------------------------------
(* Instances of Cart for TLC. *)
EXTENDS Cart, TLC

CONSTANTS o1, o2, v1, u1, u2, g1, t1, t2

OneOrder   == {o1}
TwoOrders  == {o1, o2}
OneVariant == {v1}
OneUser    == {u1}
TwoUsers   == {u1, u2}
OneGuest   == {g1}
TwoTabs    == {t1, t2}
NoWorker   == {}
NoEditor   == {}
NoClient   == {}

CashOnly      == {"COD"}
CashAndPayPal == {"COD", "PAYPAL"}
ToCancelled   == {"CANCELLED"}

\* A limit on all uses, one per customer, a first-order coupon, and the coupon
\* switched off.
Limits(active, usage, perUser, first) ==
    [active |-> active, usageLimit |-> usage, perUserLimit |-> perUser,
     firstOrderOnly |-> first]
SomePolicies == {Limits(TRUE, 1, 0, FALSE), Limits(TRUE, 2, 1, FALSE),
                 Limits(TRUE, 2, 0, TRUE), Limits(FALSE, 2, 0, FALSE)}
OnePolicy == {Limits(TRUE, 1, 1, FALSE)}

Symmetry == Permutations({o1, o2}) \cup Permutations({u1, u2}) \cup Permutations({t1, t2})
=============================================================================
