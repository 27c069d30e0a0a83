----------------------------- MODULE MCOrderFlow -----------------------------
(* Instances of OrderFlow for TLC. *)
EXTENDS OrderFlow, TLC

CONSTANTS o1, o2, v1, v2, w1, c1, c2

OneOrder   == {o1}
TwoOrders  == {o1, o2}
OneVariant == {v1}
TwoVariants == {v1, v2}
NoWorker   == {}
OneWorker  == {w1}
NoEditor   == {}
NoClient   == {}
OneClient  == {c1}
TwoClients == {c1, c2}

StripeOnly == {"STRIPE"}
EarlyTargets == {"CONFIRMED", "CANCELLED"}

Symmetry == Permutations({o1, o2}) \cup Permutations({c1, c2})
=============================================================================
