----------------------------- MODULE MCResident -----------------------------
(* Small instances of Resident: one update at a time with the recovery      *)
(* sweep, and two updates that overlap because one outlives its lock.       *)
EXTENDS Resident

MCOne  == {"h1"}
MCTwo  == {"h1", "h2"}
MCSweep == {"sweep"}
MCNone == {}
MCInputs ==
  {[text |-> "hole", photo |-> "photo"], [text |-> "lamp", photo |-> "none"]}
=============================================================================
