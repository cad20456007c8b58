------------------------------ MODULE MCUpkeep ------------------------------
(* A small instance of Upkeep: an incident with an answer's file, a file   *)
(* staged for another message, one administrator.                          *)
EXTENDS Upkeep

CONSTANTS i1, answer, staged, tx, process, admin

MCIncidents  == {i1}
MCAnswerKeys == {answer}
MCStagedKeys == {staged}
MCOf         == [k \in MCAnswerKeys |-> i1]
MCWriters    == {tx}
MCSweepers   == {process}
MCAdmins     == {admin}
=============================================================================
