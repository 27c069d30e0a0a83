----------------------------- MODULE MCInventory -----------------------------
(* Instances of Inventory for TLC. *)
EXTENDS Inventory, TLC

CONSTANTS o1, o2, v1, v2, w1, w2, e1, e2

TwoOrders  == {o1, o2}
OneVariant == {v1}
TwoVariants == {v1, v2}
OneWorker  == {w1}
TwoWorkers == {w1, w2}
NoEditor   == {}
OneEditor  == {e1}
TwoEditors == {e1, e2}

Symmetry == Permutations({o1, o2}) \cup Permutations({w1, w2}) \cup Permutations({e1, e2})
=============================================================================
