------------------------------ MODULE Mailbox ------------------------------
(***************************************************************************)
(* What the durable inbox promises, and no more: one waiting line per user.*)
(* An update enters a line at most once and at its end; only the first of  *)
(* a line may be given to the business handlers, and only once; then, or   *)
(* without having been given, it leaves.  Nothing leaves out of turn.      *)
(* (The header comment of server/update-dispatcher.ts, 20-27.)             *)
(***************************************************************************)
EXTENDS Naturals

CONSTANTS Updates, Lane

VARIABLES
  accepted,  \* updates that ever entered a line
  place,     \* place[u]: position in the line of Lane[u], 0 when not waiting
  given      \* given[u]: how often the business handlers got u

vars == <<accepted, place, given>>

Waiting == {u \in Updates : place[u] > 0}

First(u) ==
  /\ u \in Waiting
  /\ \A v \in Waiting : Lane[v] = Lane[u] => place[u] <= place[v]

Init ==
  /\ accepted = {}
  /\ place = [u \in Updates |-> 0]
  /\ given = [u \in Updates |-> 0]

Accept(u) ==
  /\ u \notin accepted
  /\ accepted' = accepted \cup {u}
  /\ place'[u] \in Nat /\ place'[u] > 0
  /\ \A v \in Updates : Lane[v] = Lane[u] => place[v] < place'[u]
  /\ place' = [place EXCEPT ![u] = place'[u]]
  /\ UNCHANGED given

Give(u) ==
  /\ First(u) /\ given[u] = 0
  /\ given' = [given EXCEPT ![u] = 1]
  /\ UNCHANGED <<accepted, place>>

(* The heads of one or more lines leave for good. *)
Leave ==
  /\ \A u \in Updates : place'[u] # place[u] => First(u) /\ place'[u] = 0
  /\ place' = [u \in Updates |-> place'[u]]
  /\ UNCHANGED <<accepted, given>>

Next == (\E u \in Updates : Accept(u) \/ Give(u)) \/ Leave

Spec == Init /\ [][Next]_vars

=============================================================================
