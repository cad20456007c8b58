----------------------------- MODULE MCWorkflow -----------------------------
(* Small instances of Workflow. *)
EXTENDS Workflow, TLC

CONSTANTS i1, u1, u2, g1, g2

Symmetry == Permutations({u1, u2})
=============================================================================
