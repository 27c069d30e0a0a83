-------------------------------- MODULE MCRoles --------------------------------
(* Roles alone, for TLC. *)
EXTENDS Roles, TLC

CONSTANTS u1, u2, r1, r2

TwoUsers  == {u1, u2}
TwoEdits  == {r1, r2}
OneCustom == {"EDITOR"}

Symmetry == Permutations({u1, u2}) \cup Permutations({r1, r2})
=============================================================================
