------------------------------ MODULE MCOutbox ------------------------------
(* Small instances of Outbox: two messages to one recipient.               *)
EXTENDS Outbox, TLC

CONSTANTS first, second, third, w1, w2, user

MCTargets == {user}
MCWorkers == {w1, w2}
MCLocks   == 1..(Cardinality(MCWorkers) + 2)
Symmetry  == Permutations(MCWorkers)

(* An approved answer and a refresh of cards, which has no part to send.   *)
PairJobs   == {first, second}
PairTarget == [j \in PairJobs |-> user]
AnswerThenRefresh == (first :> "answer") @@ (second :> "plain")
TwoAndNone == (first :> 2) @@ (second :> 0)
AnyOrder   == {<<first, second>>, <<second, first>>}

(* An invitation before a sector card, or a deadline notice before an      *)
(* invitation.  No lease lapses, so one worker is enough.                  *)
TrioJobs   == {first, second, third}
TrioTarget == [j \in TrioJobs |-> user]
TrioKind   == (first :> "deadline") @@ (second :> "card") @@ (third :> "invite")
OneEach    == [j \in TrioJobs |-> 1]
SoloWorker == {w1}
TrioOrders == {<<third, second>>, <<first, third>>}
=============================================================================
