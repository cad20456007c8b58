------------------------------ MODULE MCStaff ------------------------------
(* Two employees who see and press each other's cards. *)
EXTENDS Staff, TLC

CONSTANTS u1, u2, a, b

Everything == [u \in People |-> AllKinds]

Symmetry == Permutations({u1, u2}) \cup Permutations({a, b})
=============================================================================
