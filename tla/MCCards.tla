------------------------------ MODULE MCCards ------------------------------
(* A small instance of Cards. *)
EXTENDS Cards

MCOneGroup == {"g1"}
MCLong == {2}
=============================================================================
