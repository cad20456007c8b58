------------------------------ MODULE Delivery ------------------------------
(***************************************************************************)
(* What the outbox promises for one message: it is queued, its parts reach *)
(* the recipient in order, and it is called SENT only when all of them     *)
(* have.  A failed message may be put back if it is of a kind that can     *)
(* be; an end is final except for the kinds whose writes are not fenced.   *)
(***************************************************************************)
EXTENDS Naturals

CONSTANTS
  Jobs,    \* messages
  Parts,   \* Parts[j]: the number of parts of j
  Kind,    \* Kind[j]: its kind
  Again,   \* messages that can be put back after a failure
  Unsure   \* messages a stale worker can move after their end

VARIABLES
  state,   \* state[j]: none, queued, SENT, FAILED or CANCELLED
  given    \* given[j]: the parts the recipient has

Move(j, from, to) == state[j] \in from /\ state' = [state EXCEPT ![j] = to]

Init == state = [j \in Jobs |-> "none"] /\ given = [j \in Jobs |-> {}]

Queue(j)  == Move(j, {"none"}, "queued") /\ UNCHANGED given

(* Part k reaches the recipient after the parts before it. *)
Give(j) ==
  /\ state[j] # "none"
  /\ \E k \in 1..Parts[j] :
       /\ 1..(k - 1) \subseteq given[j]
       /\ given' = [given EXCEPT ![j] = @ \cup {k}]
  /\ UNCHANGED state

Finish(j) == given[j] = 1..Parts[j] /\ Move(j, {"queued"}, "SENT") /\ UNCHANGED given
Abandon(j) == Move(j, {"queued"}, "FAILED") /\ UNCHANGED given
Cancel(j) == Kind[j] = "deadline" /\ Move(j, {"queued"}, "CANCELLED") /\ UNCHANGED given
Resume(j) == j \in Again /\ Move(j, {"FAILED"}, "queued") /\ UNCHANGED given
Disturb(j) ==
  /\ j \in Unsure
  /\ \E to \in {"queued", "FAILED"} : Move(j, {"SENT", "FAILED"}, to)
  /\ UNCHANGED given

Step(j) ==
  \/ Queue(j) \/ Give(j) \/ Finish(j) \/ Abandon(j) \/ Cancel(j) \/ Resume(j) \/ Disturb(j)

Next == \E j \in Jobs : Step(j)

vars == <<state, given>>
Spec == Init /\ [][Next]_vars
=============================================================================
