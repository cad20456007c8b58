------------------------------ MODULE MCInbox ------------------------------
(* Small instances of Inbox.                                               *)
EXTENDS Inbox

CONSTANTS a1, a2, b1, LaneA, LaneB

(* Two updates of one user and one of another; a1 carries a phone number. *)
MCUpdates == {a1, a2, b1}
MCLanes   == {LaneA, LaneB}
MCLane    == [u \in MCUpdates |-> IF u = b1 THEN LaneB ELSE LaneA]
MCContact == {a1}
MCNoLegacy == {}
MCLocks   == 1..5

(* Two updates of one user. *)
LaneUpdates == {a1, a2}
LaneOfLane  == [u \in LaneUpdates |-> LaneA]

(* One update per user. *)
PairUpdates == {a1, b1}
PairLane    == [u \in PairUpdates |-> IF u = b1 THEN LaneB ELSE LaneA]
=============================================================================
