---------------------------- MODULE OutboxProofs ----------------------------
(***************************************************************************)
(* Proofs about Outbox, for every number of messages, parts and workers    *)
(* and every bound.                                                        *)
(***************************************************************************)
EXTENDS Outbox, FiniteSetTheorems, TLAPS

-----------------------------------------------------------------------------
(* Type correctness.                                                       *)

(* The updates of a row give rows again.                                   *)
LEMMA RowUpdates ==
  ASSUME NEW r \in Row, NEW j \in Jobs, ConstantsAssumption, TypeOK
  PROVE  /\ [r EXCEPT !.status = "INSERTED", !.seq = lastSeq + 1] \in Row
         /\ [r EXCEPT !.status = "PENDING", !.due = TRUE] \in Row
         /\ [r EXCEPT !.due = TRUE] \in Row
         /\ [r EXCEPT !.live = FALSE] \in Row
         /\ \A l \in Locks : Claimed(r, l) \in Row /\ Renewed(r, l) \in Row
         /\ Retired(r) \in Row
         /\ Paused(r) \in Row
         /\ Completed(r, j) \in Row
         /\ Rearmed(r) \in Row
<1>1. lastSeq + 1 \in Nat /\ 0 \in Locks \cup {0} /\ \A l \in Locks : l \in Locks \cup {0}
  BY DEF TypeOK
<1>2. r.attempts + 1 \in Int /\ r.attempts - 1 \in Int /\ r.parts + 1 \in Nat
  BY DEF Row
<1>3. Counts(j) \in BOOLEAN
  BY DEF Counts
<1>4. {"INSERTED", "PENDING", "SENDING", "FAILED", "SENT"} \subseteq Statuses
  BY DEF Statuses, Done, Waiting
<1>5. /\ [r EXCEPT !.status = "INSERTED", !.seq = lastSeq + 1] \in Row
      /\ [r EXCEPT !.status = "PENDING", !.due = TRUE] \in Row
      /\ [r EXCEPT !.due = TRUE] \in Row
      /\ [r EXCEPT !.live = FALSE] \in Row
  BY <1>1, <1>4 DEF Row
<1>6. \A l \in Locks : Claimed(r, l) \in Row /\ Renewed(r, l) \in Row
  BY <1>1, <1>2, <1>4 DEF Row, Claimed, Renewed
<1>7. Retired(r) \in Row
  BY <1>1, <1>4 DEF Row, Retired
<1>8. Paused(r) \in Row
  <2> DEFINE n == r.attempts - 1
  <2>1. n \in Int
    BY <1>2
  <2> HIDE DEF n
  <2>2. [r EXCEPT !.status = "PENDING", !.attempts = n, !.due = FALSE, !.lock = 0] \in Row
    BY <1>1, <1>4, <2>1 DEF Row
  <2> QED BY <2>2 DEF Paused, n
<1>9. Rearmed(r) \in Row
  <2> DEFINE q == [r EXCEPT !.status = "PENDING", !.due = TRUE, !.lock = 0]
  <2>1. q \in Row
    BY <1>1, <1>4 DEF Row
  <2>2. Rearmed(r) = [q EXCEPT !.attempts = 0]
    BY DEF Rearmed, Row
  <2> HIDE DEF q
  <2> QED BY <2>1, <2>2 DEF Row
<1>10. Completed(r, j) \in Row
  <2> DEFINE b == Counts(j)
  <2>1. b \in BOOLEAN
    BY <1>3
  <2> HIDE DEF b
  <2>2. [r EXCEPT !.status = "SENT", !.applied = b, !.lock = 0] \in Row
    BY <1>1, <1>4, <2>1 DEF Row
  <2> QED BY <2>2 DEF Completed, b
<1> QED BY <1>5, <1>6, <1>7, <1>8, <1>9, <1>10

(* A worker that is not idle works on a job, and may change its step.      *)
LEMMA Working ==
  ASSUME NEW w \in Workers, ConstantsAssumption, TypeOK
  PROVE  /\ att[w] = Idle \/ att[w] \in Attempt
         /\ att[w].at # "idle" => att[w] \in Attempt /\ Job(w) \in Jobs
         /\ att[w] \in Attempt => att[w].at \in Steps /\ att[w] # Idle
         /\ \A step \in Steps : att[w].at # "idle" /\ Goto(w, step)
              => att' \in [Workers -> Attempt \cup {Idle}]
         /\ Quit(w) => att' \in [Workers -> Attempt \cup {Idle}]
<1>1. att[w] = Idle \/ att[w] \in Attempt
  BY DEF TypeOK
<1>2. Idle.at = "idle" /\ "idle" \notin Steps
  BY DEF Idle, Steps
<1>3. att[w].at # "idle" => att[w] \in Attempt /\ Job(w) \in Jobs
  BY <1>1, <1>2 DEF Attempt, Job
<1>4. att[w] \in Attempt => att[w].at \in Steps /\ att[w] # Idle
  BY <1>2 DEF Attempt
<1>5. ASSUME NEW step \in Steps, att[w].at # "idle", Goto(w, step)
      PROVE  att' \in [Workers -> Attempt \cup {Idle}]
  <2>1. [att[w] EXCEPT !.at = step] \in Attempt
    BY <1>3, <1>5 DEF Attempt
  <2> QED BY <2>1, <1>5 DEF Goto, TypeOK
<1>6. Quit(w) => att' \in [Workers -> Attempt \cup {Idle}]
  BY DEF Quit, TypeOK
<1> QED BY <1>1, <1>3, <1>4, <1>5, <1>6

(* The next step is always a step.                                         *)
LEMMA NextSteps ==
  ASSUME NEW w \in Workers
  PROVE  /\ Judged(w) \in Steps
         /\ Checked(w) \in Steps
         /\ \A j \in Jobs, n \in Nat : Onward(j, n) \in Steps
<1>1. \A j \in Jobs, n \in Nat : Onward(j, n) \in {"check", "complete"}
  BY DEF Onward
<1>2. Onward(Job(w), att[w].parts) \in {"check", "complete"}
  BY DEF Onward
<1>3. Judged(w) \in Steps
  BY <1>2 DEF Judged, Steps
<1>4. Checked(w) \in Steps
  BY DEF Checked, Steps
<1> QED BY <1>1, <1>3, <1>4 DEF Steps

(* What End writes is a row.                                               *)
LEMMA EndedRow ==
  ASSUME NEW w \in Workers, rows[Job(w)] \in Row
  PROVE  Ended(w) \in Row
<1> DEFINE r == [rows[Job(w)] EXCEPT !.lock = 0, !.due = FALSE]
<1>1. r \in Row /\ r.attempts - 1 \in Int
  <2>1. r \in Row
    BY DEF Row
  <2> QED BY <2>1 DEF Row
<1>2. {"CANCELLED", "DEFERRED", "FAILED", "PENDING"} \subseteq Statuses
  BY DEF Statuses, Done, Waiting
<1> HIDE DEF r
<1>3. \A s \in Statuses : [r EXCEPT !.status = s] \in Row
  BY <1>1 DEF Row
<1>4. [r EXCEPT !.status = "CANCELLED", !.applied = FALSE] \in Row
  BY <1>1, <1>2 DEF Row
<1>5. [r EXCEPT !.status = "DEFERRED", !.attempts = r.attempts - 1] \in Row
  BY <1>1, <1>2 DEF Row
<1>6. (IF Kind[Job(w)] = "deadline" THEN "DEFERRED" ELSE "PENDING") \in Statuses
  BY <1>2
<1>7. Ended(w) = CASE att[w].at = "cancel" -> [r EXCEPT !.status = "CANCELLED", !.applied = FALSE]
    [] att[w].at = "defer"  -> [r EXCEPT !.status = "DEFERRED", !.attempts = r.attempts - 1]
    [] att[w].at \in {"fail", "stale"} /\ Final(w) -> [r EXCEPT !.status = "FAILED"]
    [] OTHER -> [r EXCEPT !.status = IF Kind[Job(w)] = "deadline" THEN "DEFERRED" ELSE "PENDING"]
  BY DEF Ended, r
<1> QED BY <1>2, <1>3, <1>4, <1>5, <1>6, <1>7

(* The parts of the type invariant. *)
AttOK    == att \in [Workers -> Attempt \cup {Idle}]
OtherOK  ==
  /\ lastSeq \in Nat
  /\ valid \in [Jobs -> BOOLEAN] /\ held \in [Jobs -> BOOLEAN]
  /\ delivered \in [Jobs -> BOOLEAN]
  /\ got \in [Slots -> Nat]
  /\ tried \subseteq Jobs /\ late \subseteq Jobs \X Jobs
  /\ inflight \in [Jobs -> Int]
  /\ faults \in Nat /\ crashes \in Nat /\ lapses \in Nat /\ resends \in Nat

LEMMA TypeParts == TypeOK <=> rows \in [Jobs -> Row] /\ AttOK /\ OtherOK
  BY DEF TypeOK, AttOK, OtherOK

(* A step writes at most one row.                                          *)
LEMMA RowsWritten ==
  ASSUME ConstantsAssumption, TypeOK, Next
  PROVE  rows' \in [Jobs -> Row]
<1>0. rows \in [Jobs -> Row] /\ (rows' = rows => rows' \in [Jobs -> Row])
  BY DEF TypeOK
<1>1. ASSUME NEW j \in Jobs, NEW r \in Row, rows' = [rows EXCEPT ![j] = r]
      PROVE  rows' \in [Jobs -> Row]
  BY <1>0, <1>1
<1>2. \A j \in Jobs : rows[j] \in Row
  BY <1>0
<1>3. ASSUME NEW w \in Workers, WorkerStep(w) \/ WorkerFault(w)
      PROVE  rows' \in [Jobs -> Row]
  <2>1. CASE Read(w) \/ Judge(w) \/ Check(w) \/ Send(w) \/ Refuse(w) \/ ReadFails(w)
             \/ SendLost(w) \/ Crash(w)
    BY <1>0, <2>1 DEF Read, Judge, Check, Send, Refuse, ReadFails, SendLost, Crash, Reads
  <2>2. CASE Unguard(w) \/ UnguardFails(w)
    <3>1. Job(w) \in Jobs
      BY <2>2, Working DEF Unguard, UnguardFails
    <3>2. Unguarded(w) \in Row
      BY <3>1, <1>2, RowUpdates DEF Unguarded
    <3> QED BY <3>1, <3>2, <1>1, <1>0, <2>2 DEF Unguard, UnguardFails
  <2>3. CASE Save(w) \/ SaveLost(w)
    <3>1. Job(w) \in Jobs
      BY <2>3, Working DEF Save, SaveLost
    <3>2. CASE rows' = rows
      BY <3>2, <1>0
    <3>3. CASE \E l \in Locks : rows' = [rows EXCEPT ![Job(w)] = Renewed(rows[Job(w)], l)]
      BY <3>1, <3>3, <1>1, <1>2, RowUpdates
    <3> QED BY <2>3, <3>2, <3>3 DEF Save, SaveLost
  <2>4. CASE Complete(w) \/ CompleteLost(w)
    <3>1. Job(w) \in Jobs
      BY <2>4, Working DEF Complete, CompleteLost
    <3>2. CASE rows' = rows
      BY <3>2, <1>0
    <3>3. CASE CompleteRow(w)
      BY <3>1, <3>3, <1>1, <1>2, RowUpdates DEF CompleteRow
    <3> QED BY <2>4, <3>2, <3>3 DEF Complete, CompleteLost
  <2>5. CASE End(w) \/ EndLost(w)
    <3>1. Job(w) \in Jobs
      BY <2>5, Working DEF End, EndLost, Ending
    <3>2. Ended(w) \in Row
      BY <3>1, <1>2, EndedRow
    <3> QED BY <3>1, <3>2, <1>0, <1>1, <2>5 DEF End, EndLost
  <2> QED BY <1>3, <2>1, <2>2, <2>3, <2>4, <2>5 DEF WorkerStep, WorkerFault
<1>4. ASSUME NEW w \in Workers, NEW j \in Jobs, Claim(w, j) \/ ClaimLost(w, j)
      PROVE  rows' \in [Jobs -> Row]
  <2>1. PICK l \in Locks : rows' = [rows EXCEPT ![j] = Claimed(rows[j], l)]
    BY <1>4 DEF Claim, ClaimLost
  <2> QED BY <2>1, <1>1, <1>2, RowUpdates
<1>5. ASSUME NEW j \in Jobs, Program(j) \/ Tick(j) \/ Lapse(j)
      PROVE  rows' \in [Jobs -> Row]
  <2>1. CASE Insert(j)
    BY <2>1, <1>1, <1>2, RowUpdates DEF Insert
  <2>2. CASE Commit(j)
    BY <2>2, <1>1, <1>2, RowUpdates DEF Commit
  <2>3. CASE Tick(j)
    BY <2>3, <1>1, <1>2, RowUpdates DEF Tick
  <2>4. CASE Lapse(j)
    BY <2>4, <1>1, <1>2, RowUpdates DEF Lapse
  <2>5. CASE Obsolete(j) \/ Clock(j)
    BY <2>5, <1>0 DEF Obsolete, Clock
  <2>6. CASE Resend(j) \/ Rate(j)
    BY <2>6, <1>0, <1>1, <1>2, RowUpdates DEF Resend, Rate, Rearm
  <2> QED BY <1>5, <2>1, <2>2, <2>3, <2>4, <2>5, <2>6 DEF Program
<1> QED BY <1>3, <1>4, <1>5 DEF Next

(* A worker's step leads to a legal place.                                 *)
LEMMA AttWritten ==
  ASSUME ConstantsAssumption, TypeOK, Next
  PROVE  AttOK'
<1>0. AttOK /\ (att' = att => AttOK')
  BY DEF TypeOK, AttOK
<1>1. ASSUME NEW w \in Workers, NEW a \in Attempt, att' = [att EXCEPT ![w] = a]
      PROVE  AttOK'
  BY <1>0, <1>1 DEF AttOK
<1>2. ASSUME NEW w \in Workers, Quit(w)
      PROVE  AttOK'
  BY <1>2, Working DEF AttOK
<1>3. ASSUME NEW w \in Workers, NEW step \in Steps, att[w].at # "idle", Goto(w, step)
      PROVE  AttOK'
  BY <1>3, Working DEF AttOK
<1>4. ASSUME NEW w \in Workers, WorkerStep(w) \/ WorkerFault(w)
      PROVE  AttOK'
  <2>0. {"send", "save", "complete", "check", "fail", "stale"} \subseteq Steps
    BY DEF Steps
  <2>1. CASE Read(w)
    <3>1. att[w] \in Attempt /\ rows[Job(w)] \in Row
      BY <2>1, Working DEF Read, TypeOK
    <3>2. [att[w] EXCEPT !.at = "read", !.attempts = rows[Job(w)].attempts,
             !.lock = rows[Job(w)].lock, !.parts = rows[Job(w)].parts] \in Attempt
      BY <3>1 DEF Attempt, Row, Steps
    <3> QED BY <2>1, <3>2, <1>1 DEF Read
  <2>2. CASE Judge(w) \/ Check(w)
    BY <2>2, <1>3, NextSteps DEF Judge, Check
  <2>3. CASE Unguard(w) \/ Crash(w) \/ End(w) \/ EndLost(w)
    BY <2>3, <1>2 DEF Unguard, Crash, End, EndLost
  <2>4. CASE Send(w) \/ Refuse(w) \/ SendLost(w) \/ SaveLost(w) \/ CompleteLost(w)
    BY <2>0, <2>4, <1>3 DEF Send, Refuse, SendLost, SaveLost, CompleteLost
  <2>5. CASE Save(w)
    <3>1. CASE Goto(w, "stale")
      BY <2>0, <2>5, <3>1, <1>3 DEF Save
    <3>2. ASSUME NEW l \in Locks, att' = [att EXCEPT ![w] =
               [@ EXCEPT !.at = Onward(Job(w), att[w].parts + 1),
                         !.parts = att[w].parts + 1, !.lock = l]]
          PROVE  AttOK'
      <4>1. att[w] \in Attempt /\ Job(w) \in Jobs
        BY <2>5, Working DEF Save
      <4>2. att[w].parts + 1 \in Nat
        BY <4>1 DEF Attempt
      <4>3. Onward(Job(w), att[w].parts + 1) \in Steps
        BY <4>1, <4>2, NextSteps
      <4>4. [att[w] EXCEPT !.at = Onward(Job(w), att[w].parts + 1),
                           !.parts = att[w].parts + 1, !.lock = l] \in Attempt
        BY <4>1, <4>2, <4>3 DEF Attempt
      <4> QED BY <4>4, <3>2, <1>1
    <3> QED BY <2>5, <3>1, <3>2 DEF Save
  <2>6. CASE Complete(w)
    BY <2>0, <2>6, <1>2, <1>3 DEF Complete
  <2>7. CASE ReadFails(w) \/ UnguardFails(w)
    BY <2>0, <2>7, <1>2, <1>3 DEF ReadFails, UnguardFails
  <2> QED BY <1>4, <2>1, <2>2, <2>3, <2>4, <2>5, <2>6, <2>7 DEF WorkerStep, WorkerFault
<1>5. ASSUME NEW w \in Workers, NEW j \in Jobs, Claim(w, j) \/ ClaimLost(w, j)
      PROVE  AttOK'
  <2>1. [at |-> "claimed", job |-> j, attempts |-> 0, lock |-> 0, parts |-> 0] \in Attempt
    BY DEF Attempt, Steps
  <2> QED BY <1>0, <1>1, <1>5, <2>1 DEF Claim, ClaimLost
<1>6. ASSUME NEW j \in Jobs, Program(j) \/ Tick(j) \/ Lapse(j)
      PROVE  AttOK'
  BY <1>0, <1>6 DEF Program, Insert, Commit, Obsolete, Clock, Resend, Rate, Tick, Lapse
<1> QED BY <1>4, <1>5, <1>6 DEF Next

LEMMA OtherWritten ==
  ASSUME ConstantsAssumption, TypeOK, Next
  PROVE  OtherOK'
<1>0. OtherOK
  BY TypeParts
<1>1. ASSUME NEW w \in Workers, WorkerStep(w) \/ WorkerFault(w)
      PROVE  OtherOK'
  <2>1. CASE Read(w) \/ Judge(w) \/ Unguard(w) \/ Check(w) \/ Refuse(w) \/ Save(w) \/ End(w)
    BY <1>0, <2>1 DEF Read, Judge, Unguard, Check, Refuse, Save, End,
                       Reads, business, history, budgets, OtherOK
  <2>2. CASE ReadFails(w) \/ UnguardFails(w) \/ SaveLost(w) \/ EndLost(w) \/ Crash(w)
    BY <1>0, <2>2 DEF ReadFails, UnguardFails, SaveLost, EndLost, Crash, Fault,
                       Reads, business, history, budgets, OtherOK
  <2>3. CASE Send(w) \/ SendLost(w)
    <3>1. got' \in [Slots -> Nat] /\ inflight' \in [Jobs -> Int]
      <4>1. CASE Receive(w)
        <5> DEFINE x == <<Job(w), att[w].parts + 1>>
        <5>0. /\ got' = [got EXCEPT ![x] = got[x] + 1]
              /\ inflight' \in {inflight, [inflight EXCEPT ![Job(w)] = inflight[Job(w)] - 1]}
          BY <4>1 DEF Receive
        <5> HIDE DEF x
        <5>1. got' \in [Slots -> Nat]
          <6>1. got \in [Slots -> Nat]
            BY <1>0 DEF OtherOK
          <6>2. \A s \in Slots : got'[s] \in Nat
            BY <6>1, <5>0
          <6>3. got' = [s \in Slots |-> got'[s]]
            BY <6>1, <5>0
          <6> QED BY <6>2, <6>3
        <5>2. inflight' \in [Jobs -> Int]
          <6>1. Job(w) \in Jobs
            BY <2>3, Working DEF Send, SendLost
          <6>2. inflight \in [Jobs -> Int]
            BY <1>0 DEF OtherOK
          <6>3. inflight[Job(w)] - 1 \in Int
            BY <6>1, <6>2
          <6> QED BY <5>0, <6>2, <6>3
        <5> QED BY <5>1, <5>2
      <4>2. CASE UNCHANGED <<got, inflight>>
        BY <1>0, <4>2 DEF OtherOK
      <4> QED BY <2>3, <4>1, <4>2 DEF Send, SendLost
    <3> QED BY <1>0, <2>3, <3>1 DEF Send, SendLost, Fault, business, budgets, OtherOK
  <2>4. CASE Complete(w) \/ CompleteLost(w)
    <3>1. Job(w) \in Jobs
      BY <2>4, Working DEF Complete, CompleteLost
    <3>2. delivered' \in [Jobs -> BOOLEAN]
      <4>1. CASE CompleteRow(w)
        <5>1. (delivered[Job(w)] \/ (Kind[Job(w)] = "answer" /\ Counts(Job(w)))) \in BOOLEAN
          BY <1>0, <3>1 DEF OtherOK
        <5> QED BY <1>0, <3>1, <4>1, <5>1 DEF CompleteRow, OtherOK
      <4> QED BY <1>0, <2>4, <4>1 DEF Complete, CompleteLost, OtherOK
    <3> QED BY <1>0, <2>4, <3>2 DEF Complete, CompleteLost, Fault, history, budgets, OtherOK
  <2> QED BY <1>1, <2>1, <2>2, <2>3, <2>4 DEF WorkerStep, WorkerFault
<1>2. ASSUME NEW w \in Workers, NEW j \in Jobs, Claim(w, j) \/ ClaimLost(w, j)
      PROVE  OtherOK'
  BY <1>0, <1>2 DEF Claim, ClaimLost, Fault, business, budgets, OtherOK
<1>3. ASSUME NEW j \in Jobs, Program(j) \/ Tick(j) \/ Lapse(j)
      PROVE  OtherOK'
  <2>1. CASE Insert(j) \/ Tick(j) \/ Lapse(j)
    BY <1>0, <2>1 DEF Insert, Tick, Lapse, business, history, budgets, OtherOK
  <2>2. Overtaken(j) \subseteq Jobs \X Jobs
    BY <1>0 DEF Overtaken, OtherOK
  <2>3. CASE Commit(j) \/ Resend(j) \/ Rate(j)
    <3>1. late' \subseteq Jobs \X Jobs
      BY <1>0, <2>2, <2>3 DEF Commit, Resend, Rate, Rearm, OtherOK
    <3>2. held' \in [Jobs -> BOOLEAN]
      BY <1>0, <2>3 DEF Commit, Resend, Rate, business, OtherOK
    <3> QED BY <1>0, <2>3, <3>1, <3>2 DEF Commit, Resend, Rate, business, budgets, OtherOK
  <2>4. CASE Clock(j)
    BY <1>0, <2>4 DEF Clock, history, budgets, OtherOK
  <2>5. CASE Obsolete(j)
    <3>1. Cardinality(Sending(j)) \in Nat
      <4>1. Sending(j) \subseteq Workers
        BY DEF Sending
      <4> QED BY <4>1, FS_Subset, FS_CardinalityType DEF ConstantsAssumption
    <3> QED BY <1>0, <2>5, <3>1 DEF Obsolete, budgets, OtherOK
  <2> QED BY <1>3, <2>1, <2>3, <2>4, <2>5 DEF Program
<1> QED BY <1>1, <1>2, <1>3 DEF Next

(* Every variable stays in its domain. *)
THEOREM TypeCorrect == Spec => []TypeOK
<1>1. Init => TypeOK
  <2> SUFFICES ASSUME Init PROVE TypeOK
    OBVIOUS
  <2>1. NoRow \in Row
    BY DEF NoRow, Row, Statuses
  <2>2. rows \in [Jobs -> Row] /\ AttOK
    BY <2>1 DEF Init, AttOK
  <2>3. \A j \in Jobs : (Kind[j] = "invite") \in BOOLEAN
    OBVIOUS
  <2>4. OtherOK
    BY <2>3 DEF Init, OtherOK
  <2> QED BY <2>2, <2>4, TypeParts
<1>2. TypeOK /\ [Next]_vars => TypeOK'
  <2> SUFFICES ASSUME TypeOK, [Next]_vars PROVE TypeOK'
    OBVIOUS
  <2>1. CASE Next
    <3>1. (rows \in [Jobs -> Row] /\ AttOK /\ OtherOK)'
      BY <2>1, RowsWritten, AttWritten, OtherWritten, ConstantsAssumption
    <3> QED BY <3>1, TypeParts DEF TypeOK, AttOK, OtherOK
  <2>2. CASE UNCHANGED vars
    BY <2>2 DEF TypeOK, vars, business, history, budgets
  <2> QED BY <2>1, <2>2
<1> QED BY <1>1, <1>2, PTL DEF Spec

-----------------------------------------------------------------------------
(* What a step can do, in terms of the fields the properties look at.      *)

Has(j, k)  == got[<<j, k>>] > 0
HasAll(j)  == \A k \in 1..Parts[j] : Has(j, k)
Keeps(j)   == rows'[j].seq = rows[j].seq /\ rows'[j].parts = rows[j].parts
Visible(j) == rows[j].status \notin {"ABSENT", "INSERTED"}

(* Where a worker can be, given its job and the parts it knows of. *)
Placed(w) ==
  LET j == Job(w) IN
  att[w].at # "idle" =>
    /\ Visible(j)
    /\ att[w].at = "retire" => Kind[j] = "card"
    /\ att[w].at = "hold" => Kind[j] = "invite"
    /\ att[w].at \in {"cancel", "defer"} => Kind[j] = "deadline"
    /\ att[w].at \in {"check", "send", "save"} => att[w].parts < Parts[j]
    /\ \A k \in 1..Parts[j] : k <= att[w].parts => Has(j, k)
    /\ att[w].at = "save" => Has(j, att[w].parts + 1)
    /\ att[w].at = "complete" => HasAll(j)

PlacedInv == \A w \in Workers : Placed(w)

(* The moves of a row. *)
Born(j) ==
  /\ rows[j].status = "ABSENT" /\ rows'[j].status = "INSERTED"
  /\ rows'[j].seq = lastSeq + 1 /\ rows'[j].attempts = rows[j].attempts
  /\ rows'[j].parts = rows[j].parts
Shown(j) ==
  /\ rows[j].status = "INSERTED" /\ rows'[j].status = "PENDING" /\ rows'[j].due
  /\ rows'[j].attempts = rows[j].attempts /\ Keeps(j) /\ Overtaken(j) \subseteq late'
Taken(j) ==
  /\ Claimable(j) /\ rows'[j].status = "SENDING"
  /\ rows'[j].attempts = rows[j].attempts + 1 /\ Keeps(j)
Struck(j) ==
  /\ Visible(j) /\ Keeps(j)
  /\ \/ /\ Kind[j] = "card" /\ rows'[j].status = "FAILED"
        /\ rows'[j].attempts = rows[j].attempts
     \/ Kind[j] = "invite" /\ rows'[j].status = "PENDING"
Progress(j) ==
  /\ rows[j].status = "SENDING" /\ rows'[j].status = "SENDING"
  /\ rows[j].parts < Parts[j] /\ Has(j, rows[j].parts + 1)
  /\ rows'[j].parts = rows[j].parts + 1 /\ rows'[j].seq = rows[j].seq
  /\ rows'[j].attempts = rows[j].attempts
Finished(j) ==
  /\ rows[j].status = "SENDING" /\ rows'[j].status = "SENT" /\ HasAll(j)
  /\ rows'[j].applied = Counts(j)
  /\ delivered' = [delivered EXCEPT ![j] = @ \/ (Kind[j] = "answer" /\ Counts(j))]
  /\ rows'[j].attempts = rows[j].attempts /\ Keeps(j)
Closed(j) ==
  /\ rows[j].status = "SENDING" /\ Keeps(j)
  /\ \/ rows'[j].status = "FAILED" /\ rows'[j].attempts = rows[j].attempts
     \/ /\ Kind[j] # "deadline"
        /\ rows'[j].status = "PENDING" /\ rows'[j].attempts = rows[j].attempts
     \/ Kind[j] = "deadline" /\ rows'[j].status \in {"DEFERRED", "CANCELLED"}
Timed(j) ==
  /\ rows[j].status \in Waiting \cup {"SENDING"} /\ rows'[j].status = rows[j].status
  /\ rows'[j].attempts = rows[j].attempts /\ Keeps(j)
  /\ rows'[j].due \/ rows'[j].due = rows[j].due
Revived(j) ==
  /\ \/ Kind[j] = "answer" /\ rows[j].status = "FAILED"
     \/ Kind[j] = "invite" /\ rows[j].status \in {"PENDING", "FAILED"}
  /\ rows'[j].status = "PENDING" /\ rows'[j].due /\ rows'[j].attempts = 0 /\ Keeps(j)
  /\ Overtaken(j) \subseteq late'

RowMove(j) ==
  \/ rows'[j] = rows[j]
  \/ Born(j) \/ Shown(j) \/ Taken(j) \/ Struck(j) \/ Progress(j) \/ Finished(j)
  \/ Closed(j) \/ Timed(j) \/ Revived(j)

(* One row moves and the others stay. *)
OneMoves(j) == RowMove(j) /\ \A i \in Jobs \ {j} : rows'[i] = rows[i]

(* Writing a row whose fields fit a move is that move. *)
LEMMA Written ==
  ASSUME NEW j \in Jobs, NEW r, rows \in [Jobs -> Row], rows' = [rows EXCEPT ![j] = r]
  PROVE  rows'[j] = r /\ \A i \in Jobs \ {j} : rows'[i] = rows[i]
  OBVIOUS

LEMMA WorkerMoves ==
  ASSUME ConstantsAssumption, TypeOK, NEW w \in Workers, Placed(w),
         WorkerStep(w) \/ WorkerFault(w)
  PROVE  \/ rows' = rows /\ UNCHANGED delivered
         \/ Job(w) \in Jobs /\ OneMoves(Job(w)) /\ (Finished(Job(w)) \/ UNCHANGED delivered)
<1>0. rows \in [Jobs -> Row] /\ \A j \in Jobs : rows[j] \in Row
  BY DEF TypeOK
<1>1. CASE Read(w) \/ Judge(w) \/ Check(w) \/ Send(w) \/ Refuse(w) \/ ReadFails(w)
           \/ SendLost(w) \/ Crash(w)
  BY <1>1 DEF Read, Judge, Check, Send, Refuse, ReadFails, SendLost, Crash, Reads, business
<1>2. CASE Unguard(w) \/ UnguardFails(w)
  <2>1. Job(w) \in Jobs /\ att[w].at \in {"retire", "hold"} /\ UNCHANGED delivered
    BY <1>2, Working DEF Unguard, UnguardFails, business
  <2>2. Visible(Job(w)) /\ (att[w].at = "retire" => Kind[Job(w)] = "card")
        /\ (att[w].at = "hold" => Kind[Job(w)] = "invite")
    BY <2>1 DEF Placed
  <2>3. CASE rows' = [rows EXCEPT ![Job(w)] = Unguarded(w)]
    <3>1. /\ rows'[Job(w)] = Unguarded(w)
          /\ \A i \in Jobs \ {Job(w)} : rows'[i] = rows[i]
      BY <1>0, <2>1, <2>3, Written
    <3>2. Unguarded(w).seq = rows[Job(w)].seq /\ Unguarded(w).parts = rows[Job(w)].parts
          /\ Unguarded(w).status = IF att[w].at = "retire" THEN "FAILED" ELSE "PENDING"
      BY <1>0, <2>1 DEF Unguarded, Retired, Paused, Row
    <3>3. att[w].at = "retire" => Unguarded(w).attempts = rows[Job(w)].attempts
      BY <1>0, <2>1 DEF Unguarded, Retired, Row
    <3>4. Struck(Job(w))
      BY <2>1, <2>2, <3>1, <3>2, <3>3 DEF Struck, Keeps
    <3> QED BY <2>1, <3>1, <3>4 DEF OneMoves, RowMove
  <2>4. CASE rows' = rows
    BY <2>1, <2>4
  <2> QED BY <1>2, <2>3, <2>4 DEF Unguard, UnguardFails
<1>3. CASE Save(w) \/ SaveLost(w)
  <2>1. Job(w) \in Jobs /\ att[w].at = "save" /\ UNCHANGED delivered
    BY <1>3, Working DEF Save, SaveLost, business
  <2>2. att[w].parts < Parts[Job(w)] /\ Has(Job(w), att[w].parts + 1)
    BY <2>1 DEF Placed
  <2>3. CASE rows' = rows
    BY <2>1, <2>3
  <2>4. ASSUME Owns(w), rows[Job(w)].parts = att[w].parts,
               NEW l \in Locks, rows' = [rows EXCEPT ![Job(w)] = Renewed(rows[Job(w)], l)]
        PROVE  OneMoves(Job(w))
    <3>1. /\ rows'[Job(w)] = Renewed(rows[Job(w)], l)
          /\ \A i \in Jobs \ {Job(w)} : rows'[i] = rows[i]
      BY <1>0, <2>1, <2>4, Written
    <3>2. /\ rows'[Job(w)].status = rows[Job(w)].status /\ rows'[Job(w)].seq = rows[Job(w)].seq
          /\ rows'[Job(w)].parts = rows[Job(w)].parts + 1
          /\ rows'[Job(w)].attempts = rows[Job(w)].attempts
      BY <1>0, <2>1, <3>1 DEF Renewed, Row
    <3>3. Progress(Job(w))
      BY <2>2, <2>4, <3>2 DEF Progress, Owns
    <3> QED BY <3>1, <3>3 DEF OneMoves, RowMove
  <2> QED BY <1>3, <2>1, <2>3, <2>4 DEF Save, SaveLost
<1>4. CASE Complete(w) \/ CompleteLost(w)
  <2>1. Job(w) \in Jobs /\ att[w].at = "complete"
    BY <1>4, Working DEF Complete, CompleteLost
  <2>2. HasAll(Job(w))
    BY <2>1 DEF Placed
  <2>3. CASE UNCHANGED <<rows, delivered>>
    BY <2>3
  <2>4. CASE Owns(w) /\ CompleteRow(w)
    <3>1. /\ rows'[Job(w)] = Completed(rows[Job(w)], Job(w))
          /\ \A i \in Jobs \ {Job(w)} : rows'[i] = rows[i]
      BY <1>0, <2>1, <2>4, Written DEF CompleteRow
    <3>2. /\ rows'[Job(w)].status = "SENT" /\ rows'[Job(w)].seq = rows[Job(w)].seq
          /\ rows'[Job(w)].parts = rows[Job(w)].parts
          /\ rows'[Job(w)].attempts = rows[Job(w)].attempts
          /\ rows'[Job(w)].applied = Counts(Job(w))
      BY <1>0, <2>1, <3>1 DEF Completed, Row
    <3>3. delivered' = [delivered EXCEPT ![Job(w)] = @ \/ (Kind[Job(w)] = "answer" /\ Counts(Job(w)))]
      BY <2>4 DEF CompleteRow
    <3>4. Finished(Job(w))
      BY <2>2, <2>4, <3>2, <3>3 DEF Finished, Owns, Keeps
    <3> QED BY <2>1, <3>1, <3>4 DEF OneMoves, RowMove
  <2> QED BY <1>4, <2>3, <2>4 DEF Complete, CompleteLost
<1>5. CASE End(w) \/ EndLost(w)
  <2>1. Job(w) \in Jobs /\ att[w].at \in Ending /\ UNCHANGED delivered
    BY <1>5, Working DEF End, EndLost, Ending, business
  <2>2. att[w].at \in {"cancel", "defer"} => Kind[Job(w)] = "deadline"
    BY <2>1 DEF Placed, Ending
  <2>3. CASE rows' = rows
    BY <2>1, <2>3
  <2>4. CASE Owns(w) /\ rows' = [rows EXCEPT ![Job(w)] = Ended(w)]
    <3>1. /\ rows'[Job(w)] = Ended(w)
          /\ \A i \in Jobs \ {Job(w)} : rows'[i] = rows[i]
      BY <1>0, <2>1, <2>4, Written
    <3> DEFINE r == rows[Job(w)]
    <3>2. r \in Row
      BY <1>0, <2>1
    <3>3. Ended(w).seq = r.seq /\ Ended(w).parts = r.parts
      BY <3>2 DEF Ended, Row
    <3>4. CASE att[w].at \in {"cancel", "defer"}
      <4>1. Ended(w).status \in {"CANCELLED", "DEFERRED"}
        BY <3>2, <3>4 DEF Ended, Row
      <4>2. Closed(Job(w))
        BY <2>2, <2>4, <3>1, <3>3, <3>4, <4>1 DEF Closed, Keeps, Owns
      <4> QED BY <2>1, <3>1, <4>2 DEF OneMoves, RowMove
    <3>5. CASE att[w].at \in {"fail", "stale"}
      <4>1. /\ Ended(w).attempts = r.attempts
            /\ \/ Ended(w).status = "FAILED"
               \/ Ended(w).status = IF Kind[Job(w)] = "deadline" THEN "DEFERRED" ELSE "PENDING"
        BY <3>2, <3>5 DEF Ended, Row
      <4>2. Closed(Job(w))
        BY <2>4, <3>1, <3>3, <4>1 DEF Closed, Keeps, Owns
      <4> QED BY <2>1, <3>1, <4>2 DEF OneMoves, RowMove
    <3> QED BY <2>1, <3>4, <3>5 DEF Ending
  <2> QED BY <1>5, <2>1, <2>3, <2>4 DEF End, EndLost
<1> QED BY <1>1, <1>2, <1>3, <1>4, <1>5 DEF WorkerStep, WorkerFault

LEMMA ProgramMoves ==
  ASSUME ConstantsAssumption, TypeOK, NEW j \in Jobs,
         \/ \E w \in Workers : Claim(w, j) \/ ClaimLost(w, j)
         \/ Program(j) \/ Tick(j) \/ Lapse(j)
  PROVE  UNCHANGED delivered /\ (rows' = rows \/ OneMoves(j))
<1>0. rows \in [Jobs -> Row] /\ rows[j] \in Row
  BY DEF TypeOK
<1>1. CASE \E w \in Workers : Claim(w, j) \/ ClaimLost(w, j)
  <2>1. UNCHANGED delivered /\ Claimable(j)
    BY <1>1 DEF Claim, ClaimLost, business
  <2>2. PICK l \in Locks : rows' = [rows EXCEPT ![j] = Claimed(rows[j], l)]
    BY <1>1 DEF Claim, ClaimLost
  <2>3. rows'[j] = Claimed(rows[j], l) /\ \A i \in Jobs \ {j} : rows'[i] = rows[i]
    BY <1>0, <2>2, Written
  <2>4. Taken(j)
    BY <1>0, <2>1, <2>3 DEF Taken, Claimed, Keeps, Row
  <2> QED BY <2>1, <2>3, <2>4 DEF OneMoves, RowMove
<1>2. CASE Insert(j)
  <2>1. rows' = [rows EXCEPT ![j] = [rows[j] EXCEPT !.status = "INSERTED", !.seq = lastSeq + 1]]
    BY <1>2 DEF Insert
  <2>2. /\ rows'[j] = [rows[j] EXCEPT !.status = "INSERTED", !.seq = lastSeq + 1]
        /\ \A i \in Jobs \ {j} : rows'[i] = rows[i]
    BY <1>0, <2>1, Written
  <2>3. Born(j)
    BY <1>0, <1>2, <2>2 DEF Insert, Born, Row
  <2> QED BY <1>2, <2>2, <2>3 DEF OneMoves, RowMove, Insert, business
<1>3. CASE Commit(j)
  <2>1. rows' = [rows EXCEPT ![j] = [rows[j] EXCEPT !.status = "PENDING", !.due = TRUE]]
    BY <1>3 DEF Commit
  <2>2. /\ rows'[j] = [rows[j] EXCEPT !.status = "PENDING", !.due = TRUE]
        /\ \A i \in Jobs \ {j} : rows'[i] = rows[i]
    BY <1>0, <2>1, Written
  <2>3. Shown(j)
    BY <1>0, <1>3, <2>2 DEF Commit, Shown, Keeps, Row
  <2> QED BY <1>3, <2>2, <2>3 DEF OneMoves, RowMove, Commit, business
<1>4. CASE Tick(j)
  <2>1. rows' = [rows EXCEPT ![j] = [rows[j] EXCEPT !.due = TRUE]]
    BY <1>4 DEF Tick
  <2>2. /\ rows'[j] = [rows[j] EXCEPT !.due = TRUE]
        /\ \A i \in Jobs \ {j} : rows'[i] = rows[i]
    BY <1>0, <2>1, Written
  <2>3. Timed(j)
    BY <1>0, <1>4, <2>2 DEF Tick, Timed, Keeps, Row
  <2> QED BY <1>4, <2>2, <2>3 DEF OneMoves, RowMove, Tick, business
<1>5. CASE Lapse(j)
  <2>1. rows' = [rows EXCEPT ![j] = [rows[j] EXCEPT !.live = FALSE]]
    BY <1>5 DEF Lapse
  <2>2. /\ rows'[j] = [rows[j] EXCEPT !.live = FALSE]
        /\ \A i \in Jobs \ {j} : rows'[i] = rows[i]
    BY <1>0, <2>1, Written
  <2>3. Timed(j)
    BY <1>0, <1>5, <2>2 DEF Lapse, Timed, Keeps, Row
  <2> QED BY <1>5, <2>2, <2>3 DEF OneMoves, RowMove, Lapse, business
<1>6. CASE Obsolete(j) \/ Clock(j)
  BY <1>6 DEF Obsolete, Clock
<1>7. CASE Resend(j) \/ Rate(j)
  <2>1. UNCHANGED delivered
    BY <1>7 DEF Resend, Rate, business
  <2>2. CASE rows' = rows
    BY <2>1, <2>2
  <2>3. ASSUME Rearm(j),
               \/ Kind[j] = "answer" /\ rows[j].status = "FAILED"
               \/ Kind[j] = "invite" /\ rows[j].status \in {"PENDING", "FAILED"}
        PROVE  OneMoves(j)
    <3>1. /\ rows'[j] = Rearmed(rows[j])
          /\ \A i \in Jobs \ {j} : rows'[i] = rows[i]
      BY <1>0, <2>3, Written DEF Rearm
    <3>2. Revived(j)
      BY <1>0, <2>3, <3>1 DEF Revived, Rearm, Rearmed, Keeps, Row
    <3> QED BY <3>1, <3>2 DEF OneMoves, RowMove
  <2> QED BY <1>7, <2>1, <2>2, <2>3 DEF Resend, Rate
<1> QED BY <1>1, <1>2, <1>3, <1>4, <1>5, <1>6, <1>7 DEF Program

LEMMA RowMoves ==
  ASSUME ConstantsAssumption, TypeOK, PlacedInv, Next
  PROVE  \/ rows' = rows /\ UNCHANGED delivered
         \/ \E j \in Jobs : OneMoves(j) /\ (Finished(j) \/ UNCHANGED delivered)
  BY WorkerMoves, ProgramMoves DEF Next, PlacedInv

(* The moves of a worker. *)
Starts(w) ==
  /\ att[w] = Idle
  /\ att'[w].at = "claimed" /\ att'[w].parts = 0 /\ att'[w].job \in Jobs
  /\ rows'[att'[w].job].status = "SENDING"
Goes(w) ==
  /\ att[w].at # "idle" /\ att'[w].job = att[w].job
  /\ \/ /\ att[w].at = "claimed" /\ att'[w].at = "read"
        /\ att'[w].parts = rows[Job(w)].parts
     \/ /\ att[w].at = "save" /\ att'[w].at = Onward(Job(w), att[w].parts + 1)
        /\ att'[w].parts = att[w].parts + 1
     \/ /\ att'[w].parts = att[w].parts
        /\ \/ att[w].at = "read" /\ att'[w].at = Judged(w)
           \/ att[w].at = "check" /\ att'[w].at = Checked(w)
           \/ /\ att[w].at = "send" /\ Receive(w)
              /\ att'[w].at = IF Saves(Job(w)) THEN "save" ELSE "complete"
           \/ att[w].at = "send" /\ att'[w].at = "check"
           \/ att'[w].at \in {"fail", "stale"}

AttMove(w) == att'[w] = att[w] \/ att'[w] = Idle \/ Starts(w) \/ Goes(w)

LEMMA GoesTo ==
  ASSUME ConstantsAssumption, TypeOK, NEW w \in Workers, att[w].at # "idle", NEW step,
         Goto(w, step)
  PROVE  /\ att'[w].at = step /\ att'[w].job = att[w].job /\ att'[w].parts = att[w].parts
         /\ \A v \in Workers \ {w} : att'[v] = att[v]
<1>1. att[w] \in Attempt /\ att \in [Workers -> Attempt \cup {Idle}]
  BY Working DEF TypeOK
<1>2. att'[w] = [att[w] EXCEPT !.at = step] /\ \A v \in Workers \ {w} : att'[v] = att[v]
  BY <1>1 DEF Goto
<1> QED BY <1>1, <1>2 DEF Attempt

LEMMA AttMoves ==
  ASSUME ConstantsAssumption, TypeOK, Next
  PROVE  \/ att' = att
         \/ \E w \in Workers : AttMove(w) /\ \A v \in Workers \ {w} : att'[v] = att[v]
<1>0. att \in [Workers -> Attempt \cup {Idle}] /\ rows \in [Jobs -> Row]
  BY DEF TypeOK
<1>1. ASSUME NEW w \in Workers, WorkerStep(w) \/ WorkerFault(w)
      PROVE  AttMove(w) /\ \A v \in Workers \ {w} : att'[v] = att[v]
  <2>1. CASE Quit(w)
    BY <1>0, <2>1 DEF Quit, AttMove
  <2>2. CASE Read(w)
    <3>1. att[w] \in Attempt
      BY <2>2, Working DEF Read
    <3> QED BY <1>0, <2>2, <3>1 DEF Read, AttMove, Goes, Attempt
  <2>3. CASE Judge(w)
    BY <2>3, GoesTo DEF Judge, AttMove, Goes
  <2>4. CASE Check(w)
    BY <2>4, GoesTo DEF Check, AttMove, Goes
  <2>5. CASE Send(w)
    BY <2>5, GoesTo DEF Send, AttMove, Goes
  <2>6. CASE SendLost(w)
    BY <2>6, GoesTo DEF SendLost, AttMove, Goes
  <2>7. CASE Refuse(w) \/ SaveLost(w) \/ CompleteLost(w)
    BY <2>7, GoesTo DEF Refuse, SaveLost, CompleteLost, AttMove, Goes
  <2>8. CASE Save(w)
    <3>1. att[w] \in Attempt
      BY <2>8, Working DEF Save
    <3>2. CASE Goto(w, "stale")
      BY <2>8, <3>2, GoesTo DEF Save, AttMove, Goes
    <3>3. CASE \E l \in Locks : att' = [att EXCEPT ![w] =
               [@ EXCEPT !.at = Onward(Job(w), att[w].parts + 1),
                         !.parts = att[w].parts + 1, !.lock = l]]
      <4> DEFINE n == att[w].parts + 1
                 o == Onward(Job(w), n)
      <4>1. PICK l \in Locks : att' = [att EXCEPT ![w] =
               [att[w] EXCEPT !.at = o, !.parts = n, !.lock = l]]
        BY <3>3
      <4>2. att[w].at = "save"
        BY <2>8 DEF Save
      <4> HIDE DEF n, o
      <4>3. /\ att'[w].at = o /\ att'[w].parts = n /\ att'[w].job = att[w].job
            /\ \A v \in Workers \ {w} : att'[v] = att[v]
        BY <1>0, <3>1, <4>1 DEF Attempt
      <4> QED BY <4>2, <4>3 DEF AttMove, Goes, n, o
    <3> QED BY <2>8, <3>2, <3>3 DEF Save
  <2>9. CASE Complete(w) \/ ReadFails(w) \/ UnguardFails(w)
    <3>1. CASE Goto(w, "stale") \/ Goto(w, "fail")
      BY <2>9, <3>1, GoesTo DEF Complete, ReadFails, UnguardFails, AttMove, Goes
    <3> QED BY <2>1, <2>9, <3>1 DEF Complete, ReadFails, UnguardFails
  <2>10. CASE Unguard(w) \/ End(w) \/ EndLost(w) \/ Crash(w)
    BY <2>1, <2>10 DEF Unguard, End, EndLost, Crash
  <2> QED BY <1>1, <2>2, <2>3, <2>4, <2>5, <2>6, <2>7, <2>8, <2>9, <2>10 DEF WorkerStep, WorkerFault
<1>2. ASSUME NEW w \in Workers, NEW j \in Jobs, Claim(w, j)
      PROVE  AttMove(w) /\ \A v \in Workers \ {w} : att'[v] = att[v]
  <2>1. att'[w] = [at |-> "claimed", job |-> j, attempts |-> 0, lock |-> 0, parts |-> 0]
        /\ \A v \in Workers \ {w} : att'[v] = att[v]
    BY <1>0, <1>2 DEF Claim
  <2>2. PICK l \in Locks : rows' = [rows EXCEPT ![j] = Claimed(rows[j], l)]
    BY <1>2 DEF Claim
  <2>3. rows'[j].status = "SENDING"
    BY <1>0, <2>2 DEF Claimed, Row
  <2> QED BY <1>2, <2>1, <2>3 DEF Claim, AttMove, Starts
<1>3. ASSUME NEW w \in Workers, NEW j \in Jobs, ClaimLost(w, j)
      PROVE  att' = att
  BY <1>3 DEF ClaimLost
<1>4. ASSUME NEW j \in Jobs, Program(j) \/ Tick(j) \/ Lapse(j)
      PROVE  att' = att
  BY <1>4 DEF Program, Insert, Commit, Obsolete, Clock, Resend, Rate, Tick, Lapse
<1> QED BY <1>1, <1>2, <1>3, <1>4 DEF Next

(* A request adds to one slot, of a worker that is sending. *)
LEMMA SlotOf ==
  ASSUME NEW j \in Jobs, NEW k \in 1..Parts[j]
  PROVE  <<j, k>> \in Slots
  BY DEF Slots

Receives(w) ==
  /\ att[w].at = "send" /\ Job(w) \in Jobs /\ att[w].parts \in Nat
  /\ att[w].parts < Parts[Job(w)] /\ Receive(w)
  /\ got' = [got EXCEPT ![<<Job(w), att[w].parts + 1>>] = @ + 1]

LEMMA GotMoves ==
  ASSUME ConstantsAssumption, TypeOK, PlacedInv, Next
  PROVE  got' = got \/ \E w \in Workers : Receives(w)
<1>1. ASSUME NEW w \in Workers, WorkerStep(w) \/ WorkerFault(w)
      PROVE  got' = got \/ Receives(w)
  <2>1. CASE Send(w) \/ SendLost(w)
    <3>1. att[w].at = "send" /\ att[w] \in Attempt /\ Job(w) \in Jobs
      BY <2>1, Working DEF Send, SendLost
    <3>2. att[w].parts \in Nat /\ att[w].parts < Parts[Job(w)]
      BY <3>1 DEF PlacedInv, Placed, Attempt
    <3> QED BY <2>1, <3>1, <3>2 DEF Send, SendLost, Receive, Receives
  <2>2. CASE ~(Send(w) \/ SendLost(w))
    BY <1>1, <2>2 DEF WorkerStep, WorkerFault, Read, Judge, Unguard, Check, Refuse, Save, Complete,
       End, ReadFails, UnguardFails, SaveLost, CompleteLost, EndLost, Crash, Reads, history
  <2> QED BY <2>1, <2>2
<1>2. ASSUME NEW j \in Jobs,
             \/ \E w \in Workers : Claim(w, j) \/ ClaimLost(w, j)
             \/ Program(j) \/ Tick(j) \/ Lapse(j)
      PROVE  got' = got
  BY <1>2 DEF Claim, ClaimLost, Program, Insert, Commit, Obsolete, Clock, Resend, Rate, Tick,
              Lapse, history
<1> QED BY <1>1, <1>2 DEF Next

-----------------------------------------------------------------------------
(* What is saved was received.                                             *)

PartsInv ==
  \A j \in Jobs :
    /\ rows[j].parts <= Parts[j]
    /\ \A k \in 1..Parts[j] :
         /\ (k <= rows[j].parts \/ rows[j].status = "SENT") => Has(j, k)
         /\ Has(j, k) => \A m \in 1..k : Has(j, m)

ReceivedInv == TypeOK /\ PlacedInv /\ PartsInv

(* Once received is received, once visible is visible.                     *)
LEMMA Monotone ==
  ASSUME ConstantsAssumption, ReceivedInv, Next, NEW j \in Jobs
  PROVE  /\ Visible(j) => Visible(j)'
         /\ \A k \in 1..Parts[j] : Has(j, k) => Has(j, k)'
<1>1. Visible(j) => Visible(j)'
  <2>1. rows'[j] = rows[j] \/ RowMove(j)
    BY RowMoves DEF ReceivedInv, OneMoves
  <2> QED BY <2>1 DEF RowMove, Born, Shown, Taken, Struck, Progress, Finished, Closed, Timed, Revived,
                      Visible, Waiting
<1>2. ASSUME NEW k \in 1..Parts[j], Has(j, k)
      PROVE  Has(j, k)'
  <2>1. <<j, k>> \in Slots /\ got \in [Slots -> Nat]
    BY SlotOf DEF ReceivedInv, TypeOK
  <2>2. CASE got' = got
    BY <1>2, <2>2 DEF Has
  <2>3. ASSUME NEW w \in Workers, Receives(w)
        PROVE  Has(j, k)'
    <3> DEFINE x == <<Job(w), att[w].parts + 1>>
    <3>1. got' = [got EXCEPT ![x] = got[x] + 1]
      BY <2>3 DEF Receives
    <3> HIDE DEF x
    <3>2. got'[<<j, k>>] >= got[<<j, k>>]
      BY <2>1, <3>1
    <3>3. got[<<j, k>>] \in Nat /\ got'[<<j, k>>] \in Nat
      BY <2>1, <3>1
    <3> QED BY <1>2, <3>2, <3>3 DEF Has
  <2> QED BY <2>2, <2>3, GotMoves DEF ReceivedInv
<1> QED BY <1>1, <1>2

(* The part a worker receives is the next one.                             *)
LEMMA NextPart ==
  ASSUME ConstantsAssumption, ReceivedInv, NEW w \in Workers, Receives(w)
  PROVE  \A j \in Jobs : \A k \in 1..Parts[j] :
           /\ j = Job(w) /\ k = att[w].parts + 1 => Has(j, k)'
           /\ Has(j, k)' => Has(j, k) \/ (j = Job(w) /\ k = att[w].parts + 1)
<1> DEFINE x == <<Job(w), att[w].parts + 1>>
<1>1. got' = [got EXCEPT ![x] = got[x] + 1] /\ got \in [Slots -> Nat]
  BY DEF Receives, ReceivedInv, TypeOK
<1>2. x \in Slots
  <2>1. Parts[Job(w)] \in Nat
    BY DEF Receives, ConstantsAssumption
  <2>2. att[w].parts + 1 \in 1..Parts[Job(w)]
    BY <2>1 DEF Receives
  <2> QED BY <2>2, SlotOf DEF Receives
<1>3. got'[x] > 0
  BY <1>1, <1>2
<1>4. ASSUME NEW j \in Jobs, NEW k \in 1..Parts[j], Has(j, k)'
      PROVE  Has(j, k) \/ (j = Job(w) /\ k = att[w].parts + 1)
  <2>1. CASE <<j, k>> = x
    BY <2>1
  <2>2. CASE <<j, k>> # x
    <3>1. got'[<<j, k>>] = got[<<j, k>>]
      BY <1>1, <2>2, SlotOf
    <3> QED BY <1>4, <3>1 DEF Has
  <2> QED BY <2>1, <2>2
<1>5. ASSUME NEW j \in Jobs, NEW k \in 1..Parts[j], j = Job(w), k = att[w].parts + 1
      PROVE  Has(j, k)'
  BY <1>3, <1>5 DEF Has
<1> QED BY <1>4, <1>5

LEMMA PartsStep ==
  ASSUME ConstantsAssumption, ReceivedInv, Next
  PROVE  PartsInv'
<1> SUFFICES ASSUME NEW j \in Jobs
             PROVE  /\ rows'[j].parts <= Parts[j]
                    /\ \A k \in 1..Parts[j] :
                         /\ (k <= rows'[j].parts \/ rows'[j].status = "SENT") => Has(j, k)'
                         /\ Has(j, k)' => \A m \in 1..k : Has(j, m)'
  BY DEF PartsInv
<1>0. rows[j] \in Row /\ Parts[j] \in Nat /\ rows[j].parts \in Nat
  BY DEF ReceivedInv, TypeOK, ConstantsAssumption, Row
<1>1. \A k \in 1..Parts[j] : Has(j, k) => Has(j, k)'
  BY Monotone
<1>2. /\ rows[j].parts <= Parts[j]
      /\ \A k \in 1..Parts[j] :
           /\ (k <= rows[j].parts \/ rows[j].status = "SENT") => Has(j, k)
           /\ Has(j, k) => \A m \in 1..k : Has(j, m)
  BY DEF ReceivedInv, PartsInv
<1>3. rows'[j] = rows[j] \/ RowMove(j)
  BY RowMoves DEF ReceivedInv, OneMoves
<1>4. /\ rows'[j].parts <= Parts[j]
      /\ \A k \in 1..Parts[j] :
           k <= rows'[j].parts \/ rows'[j].status = "SENT" => Has(j, k)
  <2>1. CASE rows'[j] = rows[j]
    BY <1>2, <2>1
  <2>2. CASE Progress(j)
    <3>1. /\ rows[j].parts < Parts[j] /\ Has(j, rows[j].parts + 1)
          /\ rows'[j].parts = rows[j].parts + 1 /\ rows'[j].status = "SENDING"
      BY <2>2 DEF Progress
    <3>2. ASSUME NEW k \in 1..Parts[j], k <= rows[j].parts + 1
          PROVE  Has(j, k)
      <4>1. k <= rows[j].parts \/ k = rows[j].parts + 1
        BY <1>0, <3>2
      <4> QED BY <1>2, <3>1, <4>1
    <3> QED BY <1>0, <3>1, <3>2
  <2>3. CASE Finished(j)
    BY <1>2, <2>3 DEF Finished, HasAll, Keeps
  <2>4. CASE Born(j) \/ Shown(j) \/ Taken(j) \/ Struck(j) \/ Closed(j) \/ Revived(j)
    <3>1. rows'[j].parts = rows[j].parts /\ rows'[j].status # "SENT"
      BY <2>4 DEF Born, Shown, Taken, Struck, Closed, Revived, Keeps
    <3> QED BY <1>2, <3>1
  <2>5. CASE Timed(j)
    <3>1. rows'[j].parts = rows[j].parts /\ rows'[j].status = rows[j].status
      BY <2>5 DEF Timed, Keeps
    <3> QED BY <1>2, <3>1
  <2> QED BY <1>3, <2>1, <2>2, <2>3, <2>4, <2>5 DEF RowMove
<1>5. ASSUME NEW k \in 1..Parts[j], Has(j, k)', NEW m \in 1..k
      PROVE  Has(j, m)'
  <2>1. m \in 1..Parts[j]
    BY <1>0
  <2>2. CASE Has(j, k)
    BY <1>1, <1>2, <2>1, <2>2
  <2>3. CASE ~Has(j, k)
    <3>1. PICK w \in Workers : Receives(w)
      BY <1>5, <2>3, GotMoves DEF ReceivedInv, Has
    <3>2. j = Job(w) /\ k = att[w].parts + 1
      BY <1>5, <2>3, <3>1, NextPart
    <3>3. CASE m = k
      BY <1>5, <3>3
    <3>4. CASE m # k
      <4>1. m <= att[w].parts
        BY <3>1, <3>2, <3>4 DEF Receives
      <4>2. Has(j, m)
        BY <2>1, <3>1, <3>2, <4>1 DEF Receives, ReceivedInv, PlacedInv, Placed
      <4> QED BY <1>1, <2>1, <4>2
    <3> QED BY <3>3, <3>4
  <2> QED BY <2>2, <2>3
<1> QED BY <1>1, <1>4, <1>5

LEMMA PlacedStep ==
  ASSUME ConstantsAssumption, ReceivedInv, Next
  PROVE  PlacedInv'
<1> SUFFICES ASSUME NEW w \in Workers, att'[w].at # "idle"
             PROVE  Placed(w)'
  BY DEF PlacedInv, Placed
<1>0. Placed(w) /\ TypeOK
  BY DEF ReceivedInv, PlacedInv
<1>1. att'[w] = att[w] \/ AttMove(w)
  BY AttMoves DEF ReceivedInv
<1>2. \A j \in Jobs : Visible(j) => Visible(j)'
  BY Monotone
<1>3. \A j \in Jobs : \A k \in 1..Parts[j] : Has(j, k) => Has(j, k)'
  BY Monotone
<1>4. CASE att'[w] = att[w]
  <2>1. att[w].at # "idle" /\ Job(w) \in Jobs /\ Job(w)' = Job(w) /\ att[w] \in Attempt
    BY <1>0, <1>4, Working DEF Job
  <2>2. Parts[Job(w)] \in Nat /\ att[w].parts \in Nat
    BY <2>1 DEF ConstantsAssumption, Attempt
  <2>3. att[w].at = "save" => att[w].parts + 1 \in 1..Parts[Job(w)]
    BY <1>0, <2>1, <2>2 DEF Placed
  <2> QED BY <1>0, <1>2, <1>3, <1>4, <2>1, <2>3 DEF Placed, HasAll
<1>5. CASE att'[w] = Idle
  BY <1>5 DEF Idle
<1>6. CASE Starts(w)
  <2>1. /\ att'[w].parts = 0 /\ att'[w].at = "claimed"
        /\ rows'[Job(w)'].status \notin {"ABSENT", "INSERTED"}
    BY <1>6 DEF Starts, Job
  <2>2. \A k \in 1..Parts[Job(w)'] : ~(k <= att'[w].parts)
    BY <2>1
  <2> QED BY <2>1, <2>2 DEF Placed, Visible
<1>7. CASE Goes(w)
  <2>0. att[w].at # "idle" /\ Job(w) \in Jobs /\ Job(w)' = Job(w) /\ att[w] \in Attempt
    BY <1>0, <1>7, Working DEF Goes, Job
  <2> PICK j \in Jobs : j = Job(w) /\ j = Job(w)'
    BY <2>0
  <2>1. Visible(j) /\ Visible(j)'
    BY <1>0, <1>2, <2>0 DEF Placed
  <2>2. Parts[j] \in Nat /\ att[w].parts \in Nat
    BY <2>0 DEF ConstantsAssumption, Attempt
  <2>3. \A k \in 1..Parts[j] : k <= att[w].parts => Has(j, k) /\ Has(j, k)'
    BY <1>0, <1>3, <2>0 DEF Placed
  <2>4. CASE att[w].at = "claimed" /\ att'[w].at = "read" /\ att'[w].parts = rows[j].parts
    <3>1. \A k \in 1..Parts[j] : k <= rows[j].parts => Has(j, k)'
      BY <1>3, <2>0 DEF ReceivedInv, PartsInv
    <3> QED BY <2>0, <2>1, <2>4, <3>1 DEF Placed
  <2>5. CASE /\ att[w].at = "save" /\ att'[w].at = Onward(j, att[w].parts + 1)
             /\ att'[w].parts = att[w].parts + 1
    <3>1. att[w].parts < Parts[j] /\ Has(j, att[w].parts + 1)
      BY <1>0, <2>0, <2>5 DEF Placed
    <3>2. \A k \in 1..Parts[j] : k <= att[w].parts + 1 => Has(j, k)'
      <4> SUFFICES ASSUME NEW k \in 1..Parts[j], k <= att[w].parts + 1 PROVE Has(j, k)'
        OBVIOUS
      <4>1. k <= att[w].parts \/ k = att[w].parts + 1
        BY <2>2
      <4>2. Has(j, k)
        BY <2>3, <3>1, <4>1
      <4> QED BY <1>3, <2>0, <4>2
    <3>3. CASE att[w].parts + 1 < Parts[j]
      <4>1. att'[w].at = "check"
        BY <2>5, <3>3 DEF Onward
      <4> QED BY <2>0, <2>1, <2>5, <3>2, <3>3, <4>1 DEF Placed
    <3>4. CASE ~(att[w].parts + 1 < Parts[j])
      <4>1. att'[w].at = "complete"
        BY <2>5, <3>4 DEF Onward
      <4>2. HasAll(j)'
        BY <2>2, <3>2, <3>4 DEF HasAll
      <4> QED BY <2>0, <2>1, <2>5, <3>2, <4>1, <4>2 DEF Placed
    <3> QED BY <3>3, <3>4
  <2>6. CASE att'[w].parts = att[w].parts
    <3>1. CASE att[w].at = "read" /\ att'[w].at = Judged(w)
      <4>1. CASE att'[w].at = Onward(j, att[w].parts)
        <5>1. CASE att[w].parts < Parts[j]
          BY <2>0, <2>1, <2>3, <2>6, <4>1, <5>1 DEF Onward, Placed
        <5>2. CASE ~(att[w].parts < Parts[j])
          <6>1. HasAll(j)'
            BY <2>2, <2>3, <5>2 DEF HasAll
          <6> QED BY <2>0, <2>1, <2>3, <2>6, <4>1, <5>2, <6>1 DEF Onward, Placed
        <5> QED BY <5>1, <5>2
      <4>2. CASE att'[w].at # Onward(j, att[w].parts)
        <5>1. \/ att'[w].at = "retire" /\ Kind[j] = "card"
              \/ att'[w].at = "stale"
              \/ att'[w].at \in {"cancel", "defer"} /\ Kind[j] = "deadline"
              \/ att'[w].at = "hold" /\ Kind[j] = "invite"
          BY <3>1, <4>2 DEF Judged
        <5> QED BY <2>0, <2>1, <2>3, <2>6, <5>1 DEF Placed
      <4> QED BY <4>1, <4>2
    <3>2. CASE att[w].at = "check" /\ att'[w].at = Checked(w)
      <4>1. att[w].parts < Parts[j]
        BY <1>0, <2>0, <3>2 DEF Placed
      <4>2. \/ att'[w].at \in {"stale", "send"}
            \/ att'[w].at \in {"cancel", "defer"} /\ Kind[j] = "deadline"
        BY <3>2 DEF Checked
      <4> QED BY <2>0, <2>1, <2>3, <2>6, <4>1, <4>2 DEF Placed
    <3>3. CASE /\ att[w].at = "send" /\ Receive(w)
               /\ att'[w].at = IF Saves(j) THEN "save" ELSE "complete"
      <4>1. att[w].parts < Parts[j]
        BY <1>0, <2>0, <3>3 DEF Placed
      <4>2. Receives(w)
        BY <2>0, <2>2, <3>3, <4>1 DEF Receives, Receive
      <4>3. \A k \in 1..Parts[j] : k = att[w].parts + 1 => Has(j, k)'
        BY <4>2, NextPart
      <4>4. CASE Saves(j)
        <5>1. att[w].parts + 1 \in 1..Parts[j]
          BY <2>2, <4>1
        <5>2. got'[<<j, att'[w].parts + 1>>] > 0
          BY <2>6, <4>3, <5>1 DEF Has
        <5>3. att'[w].at = "save"
          BY <3>3, <4>4
        <5> QED BY <2>0, <2>1, <2>3, <2>6, <4>1, <5>2, <5>3 DEF Placed, Has
      <4>5. CASE ~Saves(j)
        <5>1. Parts[j] = 1 /\ att[w].parts = 0
          BY <2>0, <2>2, <4>1, <4>5 DEF Saves, ConstantsAssumption
        <5>2. HasAll(j)'
          BY <4>3, <5>1 DEF HasAll
        <5> QED BY <2>0, <2>1, <2>3, <2>6, <3>3, <4>5, <5>2 DEF Placed
      <4> QED BY <4>4, <4>5
    <3>4. CASE att[w].at = "send" /\ att'[w].at = "check"
      <4>1. att[w].parts < Parts[j]
        BY <1>0, <2>0, <3>4 DEF Placed
      <4> QED BY <2>0, <2>1, <2>3, <2>6, <3>4, <4>1 DEF Placed
    <3>5. CASE att'[w].at \in {"fail", "stale"}
      BY <2>0, <2>1, <2>3, <2>6, <3>5 DEF Placed
    <3> QED BY <1>7, <2>4, <2>5, <3>1, <3>2, <3>3, <3>4, <3>5 DEF Goes
  <2> QED BY <1>7, <2>4, <2>5, <2>6 DEF Goes
<1> QED BY <1>1, <1>4, <1>5, <1>6, <1>7 DEF AttMove

(* The inductive invariant behind SavedReceived.                           *)
LEMMA ReceivedStart == ASSUME ConstantsAssumption, Init PROVE PlacedInv /\ PartsInv
<1>1. PlacedInv
  BY DEF Init, Idle, PlacedInv, Placed
<1>2. ASSUME NEW j \in Jobs, NEW k \in 1..Parts[j] PROVE got[<<j, k>>] = 0
  BY SlotOf DEF Init
<1>3. ASSUME NEW j \in Jobs
      PROVE  rows[j].parts = 0 /\ rows[j].status # "SENT" /\ rows[j].parts <= Parts[j]
  BY DEF Init, NoRow, ConstantsAssumption
<1>4. ASSUME NEW j \in Jobs, NEW k \in 1..Parts[j]
      PROVE  ~Has(j, k) /\ ~(k <= rows[j].parts \/ rows[j].status = "SENT")
  BY <1>2, <1>3 DEF Has
<1> QED BY <1>1, <1>3, <1>4 DEF PartsInv

LEMMA ReceivedAlways == Spec => []ReceivedInv
<1>1. Init => PlacedInv /\ PartsInv
  BY ReceivedStart, ConstantsAssumption
<1>2. TypeOK /\ PlacedInv /\ PartsInv /\ [Next]_vars => (PlacedInv /\ PartsInv)'
  <2> SUFFICES ASSUME TypeOK, PlacedInv, PartsInv, [Next]_vars PROVE (PlacedInv /\ PartsInv)'
    OBVIOUS
  <2>1. CASE Next
    BY <2>1, PartsStep, PlacedStep, ConstantsAssumption DEF ReceivedInv
  <2>2. CASE UNCHANGED vars
    BY <2>2 DEF vars, history, PlacedInv, Placed, PartsInv, Has, HasAll, Visible, Job
  <2> QED BY <2>1, <2>2
<1> QED BY <1>1, <1>2, TypeCorrect, PTL DEF Spec, ReceivedInv

(* What the table says was delivered was received, in order.               *)
THEOREM SavedMeansReceived == Spec => []SavedReceived
<1>1. ReceivedInv => SavedReceived
  BY DEF ReceivedInv, PartsInv, SavedReceived, Has
<1> QED BY <1>1, ReceivedAlways, PTL

-----------------------------------------------------------------------------
(* The answer's delivery time and the row agree.                           *)

LEMMA HonestStep ==
  ASSUME ConstantsAssumption, ReceivedInv, DeliveredHonest, Next
  PROVE  DeliveredHonest'
<1> SUFFICES ASSUME NEW j \in Jobs, Kind[j] = "answer"
             PROVE  delivered'[j] <=> (rows'[j].status = "SENT" /\ rows'[j].applied)
  BY DEF DeliveredHonest
<1>0. delivered \in [Jobs -> BOOLEAN] /\ rows[j] \in Row
  BY DEF ReceivedInv, TypeOK
<1>1. delivered[j] <=> (rows[j].status = "SENT" /\ rows[j].applied)
  BY DEF DeliveredHonest
<1>2. CASE rows'[j] = rows[j] /\ delivered'[j] = delivered[j]
  BY <1>1, <1>2
<1>3. ASSUME NEW i \in Jobs, OneMoves(i), Finished(i) \/ UNCHANGED delivered
      PROVE  delivered'[j] <=> (rows'[j].status = "SENT" /\ rows'[j].applied)
  <2>1. CASE i # j
    <3>1. rows'[j] = rows[j]
      BY <1>3, <2>1 DEF OneMoves
    <3>2. delivered'[j] = delivered[j]
      BY <1>0, <1>3, <2>1 DEF Finished
    <3> QED BY <1>2, <3>1, <3>2
  <2>2. CASE i = j /\ Finished(j)
    <3>1. ~delivered[j]
      BY <1>1, <2>2 DEF Finished
    <3>2. delivered'[j] <=> Counts(j)
      BY <1>0, <2>2, <3>1 DEF Finished
    <3> QED BY <2>2, <3>2 DEF Finished
  <2>3. CASE i = j /\ ~Finished(j)
    <3>1. delivered'[j] = delivered[j] /\ RowMove(j)
      BY <1>3, <2>3 DEF OneMoves
    <3>2. CASE rows'[j] = rows[j]
      BY <1>2, <3>1, <3>2
    <3>3. CASE Born(j) \/ Shown(j) \/ Taken(j) \/ Progress(j) \/ Closed(j) \/ Timed(j) \/ Revived(j)
      <4>1. rows[j].status # "SENT" /\ rows'[j].status # "SENT"
        BY <3>3 DEF Born, Shown, Taken, Claimable, Expired, Progress, Closed, Timed, Revived, Waiting
      <4> QED BY <1>1, <3>1, <4>1
    <3>4. ~Struck(j)
      BY DEF Struck
    <3> QED BY <2>3, <3>1, <3>2, <3>3, <3>4 DEF RowMove
  <2> QED BY <2>1, <2>2, <2>3
<1> QED BY <1>2, <1>3, RowMoves DEF ReceivedInv

(* deliveredAt is set exactly for an answer whose row is SENT and counted. *)
THEOREM DeliveredTogether == Spec => []DeliveredHonest
<1>1. Init => DeliveredHonest
  BY DEF Init, NoRow, DeliveredHonest
<1>2. ReceivedInv /\ DeliveredHonest /\ [Next]_vars => DeliveredHonest'
  <2> SUFFICES ASSUME ReceivedInv, DeliveredHonest, [Next]_vars PROVE DeliveredHonest'
    OBVIOUS
  <2>1. CASE Next
    BY <2>1, HonestStep, ConstantsAssumption
  <2>2. CASE UNCHANGED vars
    BY <2>2 DEF vars, business, DeliveredHonest
  <2> QED BY <2>1, <2>2
<1> QED BY <1>1, <1>2, ReceivedAlways, PTL DEF Spec

(* A settled row of a fenced kind is never touched again and progress is   *)
(* never undone.                                                           *)
THEOREM SettledStays == Spec => SettledFinal
<1>1. ReceivedInv /\ [Next]_vars
        => [\A j \in Jobs : Fenced(j) =>
              /\ rows[j].status \in {"SENT", "CANCELLED"} => rows'[j] = rows[j]
              /\ rows'[j].parts >= rows[j].parts]_vars
  <2> SUFFICES ASSUME ReceivedInv, [Next]_vars, NEW j \in Jobs, Fenced(j)
               PROVE  /\ rows[j].status \in {"SENT", "CANCELLED"} => rows'[j] = rows[j]
                      /\ rows'[j].parts >= rows[j].parts
    OBVIOUS
  <2>0. rows[j].parts \in Nat
    BY DEF ReceivedInv, TypeOK, Row
  <2>1. rows'[j] = rows[j] \/ RowMove(j)
    BY RowMoves, ConstantsAssumption DEF ReceivedInv, OneMoves, vars
  <2>2. CASE rows'[j] = rows[j]
    BY <2>0, <2>2
  <2>3. CASE Born(j) \/ Shown(j) \/ Taken(j) \/ Finished(j) \/ Closed(j) \/ Timed(j) \/ Revived(j)
    <3>1. rows[j].status \notin {"SENT", "CANCELLED"}
      BY <2>3 DEF Fenced, Born, Shown, Taken, Claimable, Expired, Finished, Closed, Timed, Revived, Waiting
    <3>2. rows'[j].parts = rows[j].parts
      BY <2>3 DEF Born, Shown, Taken, Finished, Closed, Timed, Revived, Keeps
    <3> QED BY <2>0, <3>1, <3>2
  <2>4. CASE Progress(j)
    BY <2>0, <2>4 DEF Progress
  <2>5. ~Struck(j)
    BY DEF Struck, Fenced
  <2> QED BY <2>1, <2>2, <2>3, <2>4, <2>5 DEF RowMove
<1> QED BY <1>1, ReceivedAlways, PTL DEF Spec, SettledFinal

-----------------------------------------------------------------------------
(* Order within a recipient.                                               *)

(* An ordinary message that waits without being due was tried.             *)
BacklogInv ==
  /\ \A j \in Jobs : Ordinary(j) =>
       /\ rows[j].status # "DEFERRED" /\ rows[j].attempts >= 0
       /\ rows[j].status = "SENDING" => rows[j].attempts > 0
       /\ rows[j].status = "PENDING" /\ ~rows[j].due => rows[j].attempts > 0
  /\ \A j \in tried : Visible(j)

LEMMA LateMoves ==
  ASSUME ConstantsAssumption, TypeOK, Next
  PROVE  /\ late \subseteq late'
         /\ \/ tried' = tried
            \/ \E j \in Jobs : /\ Taken(j) /\ tried' = tried \cup {j}
                               /\ \A i \in Jobs \ {j} : rows'[i] = rows[i]
<1>0. rows \in [Jobs -> Row]
  BY DEF TypeOK
<1>1. ASSUME NEW w \in Workers, WorkerStep(w) \/ WorkerFault(w)
      PROVE  late' = late /\ tried' = tried
  BY <1>1 DEF WorkerStep, WorkerFault, Read, Judge, Unguard, Check, Send, Refuse, Save, Complete,
       End, ReadFails, UnguardFails, SendLost, SaveLost, CompleteLost, EndLost, Crash, Reads, history
<1>2. ASSUME NEW w \in Workers, NEW j \in Jobs, Claim(w, j) \/ ClaimLost(w, j)
      PROVE  /\ late' = late /\ Taken(j) /\ tried' = tried \cup {j}
             /\ \A i \in Jobs \ {j} : rows'[i] = rows[i]
  <2>1. late' = late /\ Claimable(j) /\ tried' = tried \cup {j}
    BY <1>2 DEF Claim, ClaimLost
  <2>2. PICK l \in Locks : rows' = [rows EXCEPT ![j] = Claimed(rows[j], l)]
    BY <1>2 DEF Claim, ClaimLost
  <2>3. rows'[j] = Claimed(rows[j], l) /\ \A i \in Jobs \ {j} : rows'[i] = rows[i]
    BY <1>0, <2>2, Written
  <2>4. Taken(j)
    BY <1>0, <2>1, <2>3 DEF Taken, Claimed, Keeps, Row
  <2> QED BY <2>1, <2>3, <2>4
<1>3. ASSUME NEW j \in Jobs, Program(j) \/ Tick(j) \/ Lapse(j)
      PROVE  late \subseteq late' /\ tried' = tried
  BY <1>3 DEF Program, Insert, Commit, Obsolete, Clock, Resend, Rate, Rearm, Tick, Lapse, history
<1> QED BY <1>1, <1>2, <1>3 DEF Next

LEMMA BacklogStep ==
  ASSUME ConstantsAssumption, ReceivedInv, BacklogInv, Next
  PROVE  BacklogInv'
<1>1. ASSUME NEW j \in Jobs, Ordinary(j)
      PROVE  /\ rows'[j].status # "DEFERRED" /\ rows'[j].attempts >= 0
             /\ rows'[j].status = "SENDING" => rows'[j].attempts > 0
             /\ rows'[j].status = "PENDING" /\ ~rows'[j].due => rows'[j].attempts > 0
  <2>0. rows[j].attempts \in Int
    BY DEF ReceivedInv, TypeOK, Row
  <2>1. rows'[j] = rows[j] \/ RowMove(j)
    BY RowMoves DEF ReceivedInv, OneMoves
  <2>2. /\ rows[j].status # "DEFERRED" /\ rows[j].attempts >= 0
        /\ rows[j].status = "SENDING" => rows[j].attempts > 0
        /\ rows[j].status = "PENDING" /\ ~rows[j].due => rows[j].attempts > 0
    BY <1>1 DEF BacklogInv
  <2>3. Kind[j] # "invite" /\ Kind[j] # "deadline"
    BY <1>1 DEF Ordinary
  <2>4. CASE rows'[j] = rows[j]
    BY <2>2, <2>4
  <2>5. CASE Born(j) \/ Shown(j) \/ Taken(j) \/ Struck(j) \/ Progress(j)
    BY <2>0, <2>2, <2>3, <2>5 DEF Born, Shown, Taken, Struck, Progress
  <2>6. CASE Finished(j) \/ Closed(j) \/ Timed(j) \/ Revived(j)
    BY <2>0, <2>2, <2>3, <2>6 DEF Finished, Closed, Timed, Revived, Waiting
  <2> QED BY <2>1, <2>4, <2>5, <2>6 DEF RowMove
<1>2. ASSUME NEW j \in tried' PROVE Visible(j)'
  <2>1. tried \subseteq Jobs
    BY DEF ReceivedInv, TypeOK
  <2>2. CASE j \in tried
    BY <2>1, <2>2, Monotone DEF BacklogInv
  <2>3. CASE j \notin tried
    <3>1. Taken(j) /\ j \in Jobs
      BY <1>2, <2>3, LateMoves DEF ReceivedInv
    <3> QED BY <3>1 DEF Taken, Visible
  <2> QED BY <2>2, <2>3
<1> QED BY <1>1, <1>2 DEF BacklogInv, Ordinary

LEMMA OrderStep ==
  ASSUME ConstantsAssumption, ReceivedInv, BacklogInv, NoOvertake, Next
  PROVE  NoOvertake'
<1> SUFFICES ASSUME NEW i \in Jobs, NEW j \in Jobs, Before(i, j)', Open(i)', Ordinary(i), j \in tried'
             PROVE  <<i, j>> \in late'
  BY DEF NoOvertake, Ordinary
<1>0. i # j /\ Target[i] = Target[j] /\ rows'[i].seq < rows'[j].seq
  BY DEF Before
<1>1. rows'[i] = rows[i] \/ RowMove(i)
  BY RowMoves DEF ReceivedInv, OneMoves
<1>2. rows'[j] = rows[j] \/ RowMove(j)
  BY RowMoves DEF ReceivedInv, OneMoves
<1>3. late \subseteq late'
  BY LateMoves DEF ReceivedInv
<1>4. rows'[i].seq = rows[i].seq
  BY <1>1 DEF RowMove, Born, Shown, Taken, Struck, Progress, Finished, Closed, Timed, Revived, Keeps,
              Open, Waiting
<1>5. CASE j \notin tried
  <2>1. Taken(j) /\ \A k \in Jobs \ {j} : rows'[k] = rows[k]
    BY <1>5, LateMoves DEF ReceivedInv
  <2>2. rows'[i] = rows[i] /\ rows'[j].seq = rows[j].seq
    BY <1>0, <2>1 DEF Taken, Keeps
  <2>3. Before(i, j) /\ Open(i)
    BY <1>0, <2>2 DEF Before, Open
  <2>4. ~Blocks(i, j)
    BY <2>1 DEF Taken, Claimable
  <2>5. rows[i].status = "PENDING" => InLine(i)
    BY DEF InLine, BacklogInv
  <2>6. rows[i].status # "DEFERRED"
    BY DEF BacklogInv
  <2> QED BY <1>0, <2>3, <2>4, <2>5, <2>6 DEF Blocks, Open, Waiting
<1>6. CASE j \in tried
  <2>1. Visible(j)
    BY <1>6 DEF BacklogInv
  <2>2. rows'[j].seq = rows[j].seq
    BY <1>2, <2>1 DEF RowMove, Born, Shown, Taken, Struck, Progress, Finished, Closed, Timed, Revived,
                      Keeps, Visible
  <2>3. Before(i, j)
    BY <1>0, <1>4, <2>2 DEF Before
  <2>4. CASE Open(i)
    BY <1>3, <1>6, <2>3, <2>4 DEF NoOvertake
  <2>5. CASE ~Open(i)
    <3>1. Shown(i) \/ Revived(i)
      <4>1. rows'[i].status \in {"PENDING", "DEFERRED", "SENDING"}
            /\ rows[i].status \notin {"PENDING", "DEFERRED", "SENDING"}
        BY <2>5 DEF Open, Waiting
      <4>2. Kind[i] # "invite"
        BY DEF Ordinary
      <4>3. ~Taken(i)
        BY <4>1 DEF Taken, Claimable, Expired, Waiting
      <4> QED BY <1>1, <4>1, <4>2, <4>3 DEF RowMove, Born, Struck, Progress, Finished, Closed, Timed,
                                           Waiting
    <3>2. Overtaken(i) \subseteq late'
      BY <3>1 DEF Shown, Revived
    <3>3. <<i, j>> \in Overtaken(i)
      BY <1>6, <2>3 DEF Overtaken
    <3> QED BY <3>2, <3>3
  <2> QED BY <2>4, <2>5
<1> QED BY <1>5, <1>6

(* Work on a message begins only when the earlier ordinary messages to the *)
(* recipient are over.                                                     *)
THEOREM Ordered == Spec => []NoOvertake
<1>1. Init => BacklogInv /\ NoOvertake
  BY DEF Init, NoRow, BacklogInv, NoOvertake
<1>2. ReceivedInv /\ BacklogInv /\ NoOvertake /\ [Next]_vars => (BacklogInv /\ NoOvertake)'
  <2> SUFFICES ASSUME ReceivedInv, BacklogInv, NoOvertake, [Next]_vars
               PROVE (BacklogInv /\ NoOvertake)'
    OBVIOUS
  <2>1. CASE Next
    BY <2>1, BacklogStep, OrderStep, ConstantsAssumption
  <2>2. CASE UNCHANGED vars
    BY <2>2 DEF vars, history, BacklogInv, NoOvertake, Before, Open, Ordinary, Visible
  <2> QED BY <2>1, <2>2
<1> QED BY <1>1, <1>2, ReceivedAlways, PTL DEF Spec

-----------------------------------------------------------------------------
(* An obsolete message stops.                                              *)

(* Of an obsolete message no more requests are under way than counted.     *)
UnderWayInv ==
  \A j \in Jobs :
    /\ valid[j] => inflight[j] = 0
    /\ ~valid[j] => Cardinality(Sending(j)) <= inflight[j]
    /\ Kind[j] \in {"plain", "invite"} => valid[j]

LEMMA SendingFinite ==
  ASSUME ConstantsAssumption, NEW j
  PROVE  IsFiniteSet(Sending(j)) /\ Cardinality(Sending(j)) \in Nat
<1>1. Sending(j) \subseteq Workers
  BY DEF Sending
<1> QED BY <1>1, FS_Subset, FS_CardinalityType DEF ConstantsAssumption

(* No request starts for an obsolete message. *)
LEMMA NoNewSend ==
  ASSUME ConstantsAssumption, TypeOK, UnderWayInv, Next, NEW j \in Jobs, ~valid[j]
  PROVE  Sending(j)' \subseteq Sending(j)
<1> SUFFICES ASSUME NEW w \in Workers, att'[w].at = "send", att'[w].job = j
             PROVE  att[w].at = "send" /\ att[w].job = j
  BY DEF Sending, Job
<1>1. att'[w] = att[w] \/ AttMove(w)
  BY AttMoves
<1>2. att'[w] # Idle /\ ~Starts(w)
  BY DEF Idle, Starts
<1>3. ASSUME Goes(w) PROVE FALSE
  <2>1. Job(w) = j
    BY <1>3 DEF Goes, Job
  <2>2. att'[w].at = Checked(w)
    BY <1>3 DEF Goes, Judged, Onward
  <2>3. ~Stale(j) /\ ~(Kind[j] = "deadline" /\ ~valid[j])
    BY <2>1, <2>2 DEF Checked
  <2>4. Kind[j] \in {"plain", "invite"}
    BY <2>3 DEF Stale, ConstantsAssumption, Kinds
  <2> QED BY <2>4 DEF UnderWayInv
<1> QED BY <1>1, <1>2, <1>3 DEF AttMove

(* A request that arrives is over, and is counted. *)
LEMMA Arrives ==
  ASSUME ConstantsAssumption, TypeOK, NEW w \in Workers, Send(w) \/ SendLost(w),
         NEW j \in Jobs
  PROVE  /\ valid' = valid
         /\ \/ inflight'[j] = inflight[j]
            \/ /\ Job(w) = j /\ ~valid[j] /\ inflight'[j] = inflight[j] - 1
               /\ w \in Sending(j) /\ w \notin Sending(j)'
<1>1. att[w].at = "send" /\ Job(w) \in Jobs /\ inflight \in [Jobs -> Int]
  BY Working DEF Send, SendLost, TypeOK
<1>2. att'[w].at # "send"
  <2>1. PICK step \in {"check", "fail", "stale", "save", "complete"} : Goto(w, step)
    BY DEF Send, SendLost
  <2> QED BY <1>1, <2>1, GoesTo
<1>3. CASE inflight' = inflight
  BY <1>3 DEF Send, SendLost, business
<1>4. CASE Receive(w)
  <2>1. inflight' = IF valid[Job(w)] THEN inflight
                    ELSE [inflight EXCEPT ![Job(w)] = inflight[Job(w)] - 1]
    BY <1>4 DEF Receive
  <2>2. CASE Job(w) = j /\ ~valid[j]
    BY <1>1, <1>2, <2>1, <2>2 DEF Sending, Send, SendLost, business
  <2>3. CASE ~(Job(w) = j /\ ~valid[j])
    BY <1>1, <2>1, <2>3 DEF Send, SendLost, business
  <2> QED BY <2>2, <2>3
<1> QED BY <1>3, <1>4 DEF Send, SendLost

LEMMA UnderWayStep ==
  ASSUME ConstantsAssumption, TypeOK, UnderWayInv, Next
  PROVE  UnderWayInv'
<1>0. valid \in [Jobs -> BOOLEAN] /\ inflight \in [Jobs -> Int]
  BY DEF TypeOK
<1>1. ASSUME NEW j \in Jobs, valid'[j] = valid[j], inflight'[j] = inflight[j]
      PROVE  /\ valid'[j] => inflight'[j] = 0
             /\ ~valid'[j] => Cardinality(Sending(j)') <= inflight'[j]
             /\ Kind[j] \in {"plain", "invite"} => valid'[j]
  <2>1. CASE valid[j]
    BY <1>1, <2>1 DEF UnderWayInv
  <2>2. CASE ~valid[j]
    <3>1. Sending(j)' \subseteq Sending(j)
      BY <2>2, NoNewSend
    <3>2. Cardinality(Sending(j)') <= Cardinality(Sending(j)) /\ Cardinality(Sending(j)') \in Nat
      BY <3>1, SendingFinite, FS_Subset, FS_CardinalityType
    <3>3. Cardinality(Sending(j)) \in Nat
      BY SendingFinite
    <3> QED BY <1>0, <1>1, <2>2, <3>2, <3>3 DEF UnderWayInv
  <2> QED BY <2>1, <2>2
<1>2. ASSUME NEW w \in Workers, Send(w) \/ SendLost(w), NEW j \in Jobs
      PROVE  /\ valid'[j] => inflight'[j] = 0
             /\ ~valid'[j] => Cardinality(Sending(j)') <= inflight'[j]
             /\ Kind[j] \in {"plain", "invite"} => valid'[j]
  <2>1. valid' = valid
    BY <1>2, Arrives
  <2>2. CASE inflight'[j] = inflight[j]
    BY <1>1, <2>1, <2>2
  <2>3. CASE inflight'[j] # inflight[j]
    <3>1. /\ ~valid[j] /\ inflight'[j] = inflight[j] - 1
          /\ w \in Sending(j) /\ w \notin Sending(j)'
      BY <1>2, <2>3, Arrives
    <3>2. Sending(j)' \subseteq Sending(j) \ {w}
      BY <3>1, NoNewSend
    <3>3. /\ IsFiniteSet(Sending(j) \ {w})
          /\ Cardinality(Sending(j) \ {w}) = Cardinality(Sending(j)) - 1
      BY <3>1, SendingFinite, FS_RemoveElement
    <3>4. Cardinality(Sending(j)') <= Cardinality(Sending(j) \ {w}) /\ Cardinality(Sending(j)') \in Nat
      BY <3>2, <3>3, FS_Subset, FS_CardinalityType
    <3>5. Cardinality(Sending(j)) \in Nat
      BY SendingFinite
    <3> QED BY <1>0, <2>1, <3>1, <3>3, <3>4, <3>5 DEF UnderWayInv
  <2> QED BY <2>2, <2>3
<1>3. ASSUME NEW i \in Jobs, Obsolete(i), NEW j \in Jobs
      PROVE  /\ valid'[j] => inflight'[j] = 0
             /\ ~valid'[j] => Cardinality(Sending(j)') <= inflight'[j]
             /\ Kind[j] \in {"plain", "invite"} => valid'[j]
  <2>1. CASE i = j
    <3>1. Sending(j)' = Sending(j)
      BY <1>3 DEF Obsolete, Sending, Job
    <3>2. ~valid'[j] /\ inflight'[j] = Cardinality(Sending(j)) /\ Kind[j] \notin {"plain", "invite"}
      BY <1>0, <1>3, <2>1 DEF Obsolete
    <3>3. Cardinality(Sending(j)) \in Nat
      BY SendingFinite
    <3> QED BY <3>1, <3>2, <3>3
  <2>2. CASE i # j
    BY <1>0, <1>1, <1>3, <2>2 DEF Obsolete
  <2> QED BY <2>1, <2>2
<1>4. CASE UNCHANGED <<valid, inflight>>
  BY <1>1, <1>4 DEF UnderWayInv
<1>5. ASSUME NEW w \in Workers, WorkerStep(w) \/ WorkerFault(w), ~(Send(w) \/ SendLost(w))
      PROVE  UNCHANGED <<valid, inflight>>
  BY <1>5 DEF WorkerStep, WorkerFault, Read, Judge, Unguard, Check, Refuse, Save, Complete,
       End, ReadFails, UnguardFails, SaveLost, CompleteLost, EndLost, Crash, Reads, history, business
<1>6. ASSUME NEW j \in Jobs, ~Obsolete(j),
             \/ \E w \in Workers : Claim(w, j) \/ ClaimLost(w, j)
             \/ Program(j) \/ Tick(j) \/ Lapse(j)
      PROVE  UNCHANGED <<valid, inflight>>
  BY <1>6 DEF Claim, ClaimLost, Program, Insert, Commit, Clock, Resend, Rate, Tick,
              Lapse, history, business
<1> QED BY <1>2, <1>3, <1>4, <1>5, <1>6 DEF Next, Program, UnderWayInv

(* Once a message is obsolete only the requests already under way can      *)
(* still reach MAX.                                                        *)
THEOREM ObsoleteStop == Spec => []ObsoleteStops
<1>1. Init => UnderWayInv
  BY DEF Init, UnderWayInv
<1>2. TypeOK /\ UnderWayInv /\ [Next]_vars => UnderWayInv'
  <2> SUFFICES ASSUME TypeOK, UnderWayInv, [Next]_vars PROVE UnderWayInv'
    OBVIOUS
  <2>1. CASE Next
    BY <2>1, UnderWayStep, ConstantsAssumption
  <2>2. CASE UNCHANGED vars
    <3>1. \A j \in Jobs : Sending(j)' = Sending(j)
      BY <2>2 DEF vars, Sending, Job
    <3> QED BY <2>2, <3>1 DEF vars, business, history, UnderWayInv
  <2> QED BY <2>1, <2>2
<1>3. TypeOK /\ UnderWayInv => ObsoleteStops
  <2> SUFFICES ASSUME TypeOK, UnderWayInv, NEW j \in Jobs PROVE inflight[j] >= 0
    BY DEF ObsoleteStops
  <2>1. Cardinality(Sending(j)) \in Nat /\ inflight[j] \in Int
    BY SendingFinite, ConstantsAssumption DEF TypeOK
  <2> QED BY <2>1 DEF UnderWayInv
<1> QED BY <1>1, <1>2, <1>3, TypeCorrect, PTL DEF Spec

-----------------------------------------------------------------------------
(* The outbox implements the abstract delivery.                            *)

CancelInv == \A j \in Jobs : rows[j].status = "CANCELLED" => Kind[j] = "deadline"

LEMMA CancelStep ==
  ASSUME ConstantsAssumption, ReceivedInv, CancelInv, Next
  PROVE  CancelInv'
<1> SUFFICES ASSUME NEW j \in Jobs, rows'[j].status = "CANCELLED" PROVE Kind[j] = "deadline"
  BY DEF CancelInv
<1>1. rows'[j] = rows[j] \/ RowMove(j)
  BY RowMoves DEF ReceivedInv, OneMoves
<1> QED BY <1>1 DEF CancelInv, RowMove, Born, Shown, Taken, Struck, Progress, Finished, Closed, Timed,
                    Revived, Waiting

(* What each move does to the abstract state. *)
LEMMA StateMove ==
  ASSUME ConstantsAssumption, ReceivedInv, CancelInv, NEW j \in Jobs, RowMove(j)
  PROVE  \/ DeliveryState(j)' = DeliveryState(j)
         \/ DeliveryState(j) = "none" /\ DeliveryState(j)' = "queued"
         \/ DeliveryState(j) = "queued" /\ DeliveryState(j)' = "SENT" /\ HasAll(j)
         \/ DeliveryState(j) = "queued" /\ DeliveryState(j)' = "FAILED"
         \/ Kind[j] = "deadline" /\ DeliveryState(j) = "queued" /\ DeliveryState(j)' = "CANCELLED"
         \/ Kind[j] \in {"answer", "invite"} /\ DeliveryState(j) = "FAILED" /\ DeliveryState(j)' = "queued"
         \/ /\ ~Fenced(j) /\ DeliveryState(j) \in {"SENT", "FAILED"}
            /\ DeliveryState(j)' \in {"queued", "FAILED"}
<1>0. rows[j].status \in Statuses
  BY DEF ReceivedInv, TypeOK, Row
<1>1. CASE rows'[j] = rows[j]
  BY <1>1 DEF DeliveryState, Open
<1>2. CASE Born(j) \/ Shown(j)
  BY <1>2 DEF Born, Shown, DeliveryState, Open, Waiting
<1>3. CASE Taken(j) \/ Progress(j) \/ Timed(j)
  BY <1>3 DEF Taken, Claimable, Expired, Progress, Timed, DeliveryState, Open, Waiting
<1>4. CASE Finished(j)
  BY <1>4 DEF Finished, DeliveryState, Open, Waiting
<1>5. CASE Closed(j)
  BY <1>5 DEF Closed, DeliveryState, Open, Waiting
<1>6. CASE Revived(j)
  BY <1>6 DEF Revived, DeliveryState, Open, Waiting
<1>7. CASE Struck(j)
  <2>1. rows[j].status \in {"SENDING", "PENDING", "DEFERRED", "SENT", "FAILED"}
    BY <1>0, <1>7 DEF Struck, Visible, CancelInv, Statuses, Waiting, Done
  <2>2. ~Fenced(j) /\ rows'[j].status \in {"FAILED", "PENDING"}
    BY <1>7 DEF Struck, Fenced
  <2> QED BY <2>1, <2>2 DEF DeliveryState, Open, Waiting
<1> QED BY <1>1, <1>2, <1>3, <1>4, <1>5, <1>6, <1>7 DEF RowMove

LEMMA RowsOrGot ==
  ASSUME ConstantsAssumption, TypeOK, Next
  PROVE  rows' = rows \/ got' = got
<1>1. ASSUME NEW w \in Workers, WorkerStep(w) \/ WorkerFault(w)
      PROVE  rows' = rows \/ got' = got
  BY <1>1 DEF WorkerStep, WorkerFault, Read, Judge, Unguard, Check, Send, Refuse, Save, Complete, End,
       ReadFails, UnguardFails, SendLost, SaveLost, CompleteLost, EndLost, Crash, Reads, history
<1>2. ASSUME NEW j \in Jobs,
             \/ \E w \in Workers : Claim(w, j) \/ ClaimLost(w, j)
             \/ Program(j) \/ Tick(j) \/ Lapse(j)
      PROVE  got' = got
  BY <1>2 DEF Claim, ClaimLost, Program, Insert, Commit, Obsolete, Clock, Resend, Rate, Tick,
              Lapse, history
<1> QED BY <1>1, <1>2 DEF Next

(* A step that moves a row. *)
LEMMA RowRefines ==
  ASSUME ConstantsAssumption, ReceivedInv, CancelInv, NEW j \in Jobs, OneMoves(j), got' = got
  PROVE  (\E i \in Jobs : Dlv!Step(i)) \/ UNCHANGED <<DeliveryStates, DeliveryGivens>>
<1>1. DeliveryGivens' = DeliveryGivens
  BY DEF DeliveryGivens, DeliveryGiven
<1>2. \A i \in Jobs \ {j} : DeliveryState(i)' = DeliveryState(i)
  BY DEF OneMoves, DeliveryState, Open
<1>3. DeliveryStates' = [DeliveryStates EXCEPT ![j] = DeliveryState(j)']
  BY <1>2 DEF DeliveryStates
<1>4. DeliveryStates[j] = DeliveryState(j)
  BY DEF DeliveryStates
<1>5. CASE DeliveryState(j)' = DeliveryState(j)
  BY <1>1, <1>2, <1>5 DEF DeliveryStates
<1>6. CASE DeliveryState(j) = "none" /\ DeliveryState(j)' = "queued"
  <2>1. Dlv!Queue(j)
    BY <1>1, <1>3, <1>4, <1>6 DEF Dlv!Queue, Dlv!Move
  <2> QED BY <2>1 DEF Dlv!Step
<1>7. CASE DeliveryState(j) = "queued" /\ DeliveryState(j)' = "SENT" /\ HasAll(j)
  <2>1. DeliveryGivens[j] = 1..Parts[j]
    BY <1>7 DEF DeliveryGivens, DeliveryGiven, HasAll, Has
  <2>2. Dlv!Finish(j)
    BY <1>1, <1>3, <1>4, <1>7, <2>1 DEF Dlv!Finish, Dlv!Move
  <2> QED BY <2>2 DEF Dlv!Step
<1>8. CASE DeliveryState(j) = "queued" /\ DeliveryState(j)' = "FAILED"
  <2>1. Dlv!Abandon(j)
    BY <1>1, <1>3, <1>4, <1>8 DEF Dlv!Abandon, Dlv!Move
  <2> QED BY <2>1 DEF Dlv!Step
<1>9. CASE Kind[j] = "deadline" /\ DeliveryState(j) = "queued" /\ DeliveryState(j)' = "CANCELLED"
  <2>1. Dlv!Cancel(j)
    BY <1>1, <1>3, <1>4, <1>9 DEF Dlv!Cancel, Dlv!Move
  <2> QED BY <2>1 DEF Dlv!Step
<1>10. CASE Kind[j] \in {"answer", "invite"} /\ DeliveryState(j) = "FAILED" /\ DeliveryState(j)' = "queued"
  <2>1. Dlv!Resume(j)
    BY <1>1, <1>3, <1>4, <1>10 DEF Dlv!Resume, Dlv!Move, Resumable
  <2> QED BY <2>1 DEF Dlv!Step
<1>11. CASE /\ ~Fenced(j) /\ DeliveryState(j) \in {"SENT", "FAILED"}
            /\ DeliveryState(j)' \in {"queued", "FAILED"}
  <2>1. Dlv!Disturb(j)
    BY <1>1, <1>3, <1>4, <1>11 DEF Dlv!Disturb, Dlv!Move, Unfenced
  <2> QED BY <2>1 DEF Dlv!Step
<1>12. RowMove(j)
  BY DEF OneMoves
<1> QED BY <1>5, <1>6, <1>7, <1>8, <1>9, <1>10, <1>11, <1>12, StateMove

(* A step in which MAX receives a part. *)
LEMMA PartRefines ==
  ASSUME ConstantsAssumption, ReceivedInv, NEW w \in Workers, Receives(w), rows' = rows
  PROVE  \E i \in Jobs : Dlv!Step(i)
<1> DEFINE n == att[w].parts + 1
<1> PICK j \in Jobs : j = Job(w)
  BY DEF Receives
<1>1. DeliveryStates' = DeliveryStates
  BY DEF DeliveryStates, DeliveryState, Open
<1>2. got' = [got EXCEPT ![<<j, n>>] = got[<<j, n>>] + 1] /\ got \in [Slots -> Nat]
  BY DEF Receives, ReceivedInv, TypeOK
<1>3. Parts[j] \in Nat /\ n \in 1..Parts[j] /\ <<j, n>> \in Slots
  <2>1. Parts[j] \in Nat /\ n \in 1..Parts[j]
    BY DEF Receives, ConstantsAssumption
  <2> QED BY <2>1, SlotOf
<1>4. 1..(n - 1) \subseteq DeliveryGiven(j)
  <2> SUFFICES ASSUME NEW k \in 1..(n - 1) PROVE k \in 1..Parts[j] /\ Has(j, k)
    BY DEF DeliveryGiven, Has
  <2>1. k \in 1..Parts[j] /\ k <= att[w].parts
    BY <1>3 DEF Receives
  <2> QED BY <2>1 DEF Receives, ReceivedInv, PlacedInv, Placed
<1>5. DeliveryState(j) # "none"
  <2>1. Visible(j) /\ rows[j].status \in Statuses
    BY DEF Receives, ReceivedInv, PlacedInv, Placed, TypeOK, Row
  <2> QED BY <2>1 DEF DeliveryState, Visible, Statuses, Waiting, Done
<1> HIDE DEF n
<1>6. \A i \in Jobs \ {j} : DeliveryGiven(i)' = DeliveryGiven(i)
  <2> SUFFICES ASSUME NEW i \in Jobs \ {j}, NEW k \in 1..Parts[i]
               PROVE  got'[<<i, k>>] = got[<<i, k>>]
    BY DEF DeliveryGiven
  <2>1. <<i, k>> \in Slots /\ <<i, k>> # <<j, n>>
    BY SlotOf
  <2> QED BY <1>2, <2>1
<1>7. DeliveryGiven(j)' = DeliveryGiven(j) \cup {n}
  <2>1. ASSUME NEW k \in 1..Parts[j], k # n PROVE got'[<<j, k>>] = got[<<j, k>>]
    <3>1. <<j, k>> \in Slots /\ <<j, k>> # <<j, n>>
      BY <2>1, SlotOf
    <3> QED BY <1>2, <3>1
  <2>2. got'[<<j, n>>] > 0
    BY <1>2, <1>3
  <2> QED BY <1>3, <2>1, <2>2 DEF DeliveryGiven
<1>8. DeliveryGivens' = [DeliveryGivens EXCEPT ![j] = DeliveryGivens[j] \cup {n}]
  BY <1>6, <1>7 DEF DeliveryGivens
<1>9. Dlv!Give(j)
  <2>1. DeliveryGivens[j] = DeliveryGiven(j) /\ DeliveryStates[j] = DeliveryState(j)
    BY DEF DeliveryGivens, DeliveryStates
  <2>2. DeliveryStates[j] # "none"
    BY <1>5, <2>1
  <2>3. 1..(n - 1) \subseteq DeliveryGivens[j]
    BY <1>4, <2>1
  <2>4. \E k \in 1..Parts[j] :
          /\ 1..(k - 1) \subseteq DeliveryGivens[j]
          /\ DeliveryGivens' = [DeliveryGivens EXCEPT ![j] = DeliveryGivens[j] \cup {k}]
    BY <1>3, <1>8, <2>3, Zenon
  <2> QED BY <1>1, <2>2, <2>4, Zenon DEF Dlv!Give
<1> QED BY <1>9 DEF Dlv!Step

(* Every behaviour of the outbox is one of the abstract delivery.          *)
THEOREM OutboxImplementsDelivery == Spec => ImplementsDelivery
<1>1. Init => Dlv!Init
  <2> SUFFICES ASSUME Init PROVE Dlv!Init
    OBVIOUS
  <2>1. \A j \in Jobs : DeliveryState(j) = "none"
    <3>1. \A j \in Jobs : rows[j].status = "ABSENT"
      BY DEF Init, NoRow
    <3>2. ASSUME NEW j \in Jobs PROVE DeliveryState(j) = "none"
      <4>1. rows[j].status \in {"ABSENT", "INSERTED"} /\ ~Open(j)
        BY <3>1 DEF Open, Waiting
      <4> QED BY <4>1 DEF DeliveryState
    <3> QED BY <3>2
  <2>2. \A j \in Jobs : DeliveryGiven(j) = {}
    <3>1. \A j \in Jobs : \A k \in 1..Parts[j] : got[<<j, k>>] = 0
      BY SlotOf DEF Init
    <3> QED BY <3>1 DEF DeliveryGiven
  <2> QED BY <2>1, <2>2 DEF Dlv!Init, DeliveryStates, DeliveryGivens
<1>2. Init => CancelInv
  BY DEF Init, NoRow, CancelInv
<1>3. ReceivedInv /\ CancelInv /\ [Next]_vars => CancelInv'
  <2> SUFFICES ASSUME ReceivedInv, CancelInv, [Next]_vars PROVE CancelInv'
    OBVIOUS
  <2>1. CASE Next
    BY <2>1, CancelStep, ConstantsAssumption
  <2>2. CASE UNCHANGED vars
    BY <2>2 DEF vars, CancelInv
  <2> QED BY <2>1, <2>2
<1>4. ReceivedInv /\ CancelInv /\ [Next]_vars
        => (\E i \in Jobs : Dlv!Step(i)) \/ UNCHANGED <<DeliveryStates, DeliveryGivens>>
  <2> SUFFICES ASSUME ReceivedInv, CancelInv, [Next]_vars
               PROVE  (\E i \in Jobs : Dlv!Step(i)) \/ UNCHANGED <<DeliveryStates, DeliveryGivens>>
    OBVIOUS
  <2>1. CASE rows' = rows /\ got' = got
    BY <2>1 DEF DeliveryStates, DeliveryGivens, DeliveryState, DeliveryGiven, Open
  <2>2. CASE Next /\ rows' # rows
    <3>1. got' = got
      BY <2>2, RowsOrGot, ConstantsAssumption DEF ReceivedInv
    <3>2. PICK j \in Jobs : OneMoves(j)
      BY <2>2, RowMoves, ConstantsAssumption DEF ReceivedInv
    <3> QED BY <3>1, <3>2, RowRefines, ConstantsAssumption
  <2>3. CASE Next /\ got' # got
    <3>1. rows' = rows
      BY <2>3, RowsOrGot, ConstantsAssumption DEF ReceivedInv
    <3>2. PICK w \in Workers : Receives(w)
      BY <2>3, GotMoves, ConstantsAssumption DEF ReceivedInv
    <3> QED BY <3>1, <3>2, PartRefines, ConstantsAssumption
  <2> QED BY <2>1, <2>2, <2>3 DEF vars, history
<1>5. ReceivedInv /\ CancelInv /\ [Next]_vars => [Dlv!Next]_(Dlv!vars)
  BY <1>4 DEF Dlv!Next, Dlv!vars
<1> QED BY <1>1, <1>2, <1>3, <1>5, ReceivedAlways, PTL DEF Spec, ImplementsDelivery, Dlv!Spec

-----------------------------------------------------------------------------
(* Extra copies are accounted for.                                         *)

(* A worker that is at home on the row: it will find itself its owner.     *)
Covers(w, j) == Job(w) = j /\ (att[w].at = "claimed" \/ Owns(w))

(* The row can be claimed, now or after the waits in line: it is not over, *)
(* and if it is being sent, its lease has run out or nobody covers it.     *)
Free(j) ==
  \/ rows[j].status \in {"ABSENT", "INSERTED", "PENDING", "DEFERRED", "FAILED"}
  \/ /\ rows[j].status = "SENDING"
     /\ ~(rows[j].live /\ \E w \in Workers : Covers(w, j))
Owed(j, k) == rows[j].parts < k /\ Free(j)

(* A worker that may send the part once more, or have it sent.             *)
MaySend(w, j, k) ==
  /\ Job(w) = j
  /\ \/ att[w].at = "claimed" /\ rows[j].parts < k
     \/ att[w].at \in {"read", "check", "send", "retire", "hold"} /\ att[w].parts < k
     \/ att[w].at = "save" /\ att[w].parts + 1 < k
     \/ att[w].at \in Ending /\ Owns(w) /\ att[w].parts < k
Senders(j, k) == {w \in Workers : MaySend(w, j, k)}

One(b) == IF b THEN 1 ELSE 0
Trouble == faults + crashes + lapses

(* The copies there are, the copies on their way and the one a new claim   *)
(* would begin are paid for by what went wrong.                            *)
CopiesInv ==
  \A j \in Jobs : \A k \in 1..Parts[j] :
    got[<<j, k>>] + Cardinality(Senders(j, k)) + One(Owed(j, k)) <= 1 + Trouble

(* What a worker knows of the saved parts.                                 *)
Knows(w) ==
  att[w].at # "idle" =>
    /\ att[w].parts <= rows[Job(w)].parts
    /\ att[w].at # "claimed" /\ Owns(w) => att[w].parts = rows[Job(w)].parts
KnowsInv == \A w \in Workers : Knows(w)

LedgerInv == ReceivedInv /\ KnowsInv

(* A lease is kept with its stamp and progress, or gets a stamp that no    *)
(* worker on the row remembers.                                            *)
LockMove(j) ==
  rows'[j].status = "SENDING" =>
    \/ /\ rows[j].status = "SENDING" /\ rows'[j].lock = rows[j].lock
       /\ rows'[j].attempts = rows[j].attempts /\ rows'[j].parts = rows[j].parts
    \/ rows'[j].lock \notin Remembered(j)

(* Every step moves a lease in that way.                                   *)
LEMMA LockMoves ==
  ASSUME ConstantsAssumption, TypeOK, Next, NEW j \in Jobs
  PROVE  LockMove(j)
<1>0. rows \in [Jobs -> Row] /\ rows[j] \in Row
  BY DEF TypeOK
<1>1. ASSUME NEW w \in Workers, NEW i \in Jobs, Claim(w, i) \/ ClaimLost(w, i) PROVE LockMove(j)
  <2>1. PICK l \in Locks : Now(i, l) /\ rows' = [rows EXCEPT ![i] = Claimed(rows[i], l)]
    BY <1>1 DEF Claim, ClaimLost
  <2>2. CASE i = j
    <3>1. rows'[j].lock = l
      BY <1>0, <2>1, <2>2 DEF Claimed, Row
    <3> QED BY <2>1, <2>2, <3>1 DEF LockMove, Now
  <2>3. CASE i # j
    BY <1>0, <2>1, <2>3 DEF LockMove
  <2> QED BY <2>2, <2>3
<1>2. ASSUME NEW w \in Workers, WorkerStep(w) \/ WorkerFault(w) PROVE LockMove(j)
  <2>1. CASE rows' = rows
    BY <2>1 DEF LockMove
  <2>2. ASSUME att[w].at # "idle", NEW r, r.status # "SENDING", rows' = [rows EXCEPT ![Job(w)] = r] PROVE LockMove(j)
    BY <1>0, <2>2 DEF LockMove
  <2>3. CASE Unguard(w) \/ UnguardFails(w)
    <3>1. att[w].at \in {"retire", "hold"} /\ rows[Job(w)] \in Row
      BY <2>3, Working DEF Unguard, UnguardFails, TypeOK
    <3>2. Unguarded(w).status # "SENDING"
      BY <3>1 DEF Unguarded, Retired, Paused, Row
    <3> QED BY <2>1, <2>2, <2>3, <3>1, <3>2 DEF Unguard, UnguardFails
  <2>4. CASE Save(w) \/ SaveLost(w)
    <3>1. att[w].at = "save" /\ Job(w) \in Jobs /\ rows[Job(w)] \in Row
      BY <2>4, Working DEF Save, SaveLost, TypeOK
    <3>2. rows' = rows \/ \E l \in Locks : Now(Job(w), l) /\ rows' = [rows EXCEPT ![Job(w)] = Renewed(rows[Job(w)], l)]
      BY <2>4 DEF Save, SaveLost
    <3>3. ASSUME NEW l \in Locks, Now(Job(w), l), rows' = [rows EXCEPT ![Job(w)] = Renewed(rows[Job(w)], l)]
          PROVE  LockMove(j)
      <4>1. CASE Job(w) = j
        <5>1. rows'[j].lock = l
          BY <1>0, <3>3, <4>1 DEF Renewed, Row
        <5> QED BY <3>3, <4>1, <5>1 DEF LockMove, Now
      <4>2. CASE Job(w) # j
        BY <1>0, <3>3, <4>2 DEF LockMove
      <4> QED BY <4>1, <4>2
    <3> QED BY <2>1, <3>2, <3>3
  <2>5. CASE Complete(w) \/ CompleteLost(w)
    <3>1. att[w].at = "complete" /\ rows[Job(w)] \in Row
      BY <2>5, Working DEF Complete, CompleteLost, TypeOK
    <3>2. Completed(rows[Job(w)], Job(w)).status # "SENDING"
      BY <3>1 DEF Completed, Row
    <3> QED BY <2>1, <2>2, <2>5, <3>1, <3>2 DEF Complete, CompleteLost, CompleteRow
  <2>6. CASE End(w) \/ EndLost(w)
    <3>1. att[w].at # "idle" /\ rows[Job(w)] \in Row
      BY <2>6, Working DEF End, EndLost, TypeOK, Ending
    <3>2. Ended(w).status # "SENDING"
      <4> DEFINE r == [rows[Job(w)] EXCEPT !.lock = 0, !.due = FALSE]
      <4>1. "status" \in DOMAIN r
        BY <3>1 DEF Row
      <4>2. Ended(w) = CASE att[w].at = "cancel" -> [r EXCEPT !.status = "CANCELLED", !.applied = FALSE]
        [] att[w].at = "defer"  -> [r EXCEPT !.status = "DEFERRED", !.attempts = r.attempts - 1]
        [] att[w].at \in {"fail", "stale"} /\ Final(w) -> [r EXCEPT !.status = "FAILED"]
        [] OTHER -> [r EXCEPT !.status = IF Kind[Job(w)] = "deadline" THEN "DEFERRED" ELSE "PENDING"]
        BY DEF Ended
      <4> HIDE DEF r
      <4> QED BY <4>1, <4>2
    <3> QED BY <2>1, <2>2, <2>6, <3>1, <3>2 DEF End, EndLost
  <2> QED BY <1>2, <2>1, <2>3, <2>4, <2>5, <2>6
       DEF WorkerStep, WorkerFault, Read, Judge, Check, Send, Refuse, ReadFails, SendLost, Crash, Reads
<1>3. ASSUME NEW i \in Jobs, Program(i) \/ Tick(i) \/ Lapse(i) PROVE LockMove(j)
  <2>0. rows[i] \in Row
    BY <1>0
  <2>1. CASE rows' = rows
    BY <2>1 DEF LockMove
  <2>2. ASSUME NEW r, r.status # "SENDING", rows' = [rows EXCEPT ![i] = r] PROVE LockMove(j)
    BY <1>0, <2>2 DEF LockMove
  <2>3. CASE Insert(i)
    BY <2>0, <2>2, <2>3 DEF Insert, Row
  <2>4. CASE Commit(i)
    BY <2>0, <2>2, <2>4 DEF Commit, Row
  <2>5. CASE Rearm(i)
    BY <2>0, <2>2, <2>5 DEF Rearm, Rearmed, Row
  <2>6. CASE Tick(i)
    BY <2>0, <2>2, <2>6 DEF Tick, Row, Waiting
  <2>7. CASE Lapse(i)
    <3>1. rows' = [rows EXCEPT ![i] = [rows[i] EXCEPT !.live = FALSE]] /\ rows[i].status = "SENDING"
      BY <2>7 DEF Lapse
    <3> QED BY <1>0, <2>0, <3>1 DEF LockMove, Row
  <2>8. CASE Obsolete(i) \/ Clock(i) \/ Resend(i) \/ Rate(i)
    BY <2>1, <2>5, <2>8 DEF Obsolete, Clock, Resend, Rate
  <2> QED BY <1>3, <2>3, <2>4, <2>6, <2>7, <2>8 DEF Program
<1> QED BY <1>1, <1>2, <1>3 DEF Next

(* A worker that keeps its job, its attempt, its stamp and its progress.   *)
SameHold(w) ==
  /\ att'[w].job = att[w].job /\ att'[w].attempts = att[w].attempts
  /\ att'[w].lock = att[w].lock /\ att'[w].parts = att[w].parts

(* Going on to another step changes nothing else.                          *)
LEMMA HoldOf ==
  ASSUME ConstantsAssumption, TypeOK, NEW w \in Workers, att[w].at # "idle", NEW step,
         Goto(w, step)
  PROVE  /\ SameHold(w) /\ att'[w].at = step
         /\ \A v \in Workers \ {w} : att'[v] = att[v]
<1>1. att[w] \in Attempt /\ att \in [Workers -> Attempt \cup {Idle}]
  BY Working DEF TypeOK
<1>2. att'[w] = [att[w] EXCEPT !.at = step] /\ \A v \in Workers \ {w} : att'[v] = att[v]
  BY <1>1 DEF Goto
<1> QED BY <1>1, <1>2 DEF Attempt, SameHold

(* Ownership is not gained, and while it lasts the progress stays.         *)
LEMMA OwnershipKept ==
  ASSUME ConstantsAssumption, TypeOK, Next, NEW w \in Workers, att[w].at # "idle", SameHold(w),
         Owns(w)'
  PROVE  Owns(w) /\ rows'[Job(w)].parts = rows[Job(w)].parts
<1>1. Job(w) \in Jobs /\ Job(w)' = Job(w)
  BY Working DEF SameHold, Job
<1>2. LockMove(Job(w))
  BY <1>1, LockMoves
<1>3. /\ rows'[Job(w)].status = "SENDING" /\ rows'[Job(w)].attempts = att[w].attempts
      /\ rows'[Job(w)].lock = att[w].lock
  BY <1>1 DEF Owns, SameHold, Job
<1>4. att[w].lock \in Remembered(Job(w))
  BY DEF Remembered, Job
<1> QED BY <1>2, <1>3, <1>4 DEF LockMove, Owns

(* Saved parts are never forgotten.                                        *)
LEMMA PartsGrow ==
  ASSUME ConstantsAssumption, ReceivedInv, Next, NEW j \in Jobs
  PROVE  rows[j].parts \in Nat /\ rows'[j].parts \in Nat /\ rows[j].parts <= rows'[j].parts
<1>1. rows[j].parts \in Nat
  BY DEF ReceivedInv, TypeOK, Row
<1>2. rows'[j] = rows[j] \/ RowMove(j)
  BY RowMoves DEF ReceivedInv, OneMoves
<1>3. rows'[j].parts = rows[j].parts \/ rows'[j].parts = rows[j].parts + 1
  BY <1>2 DEF RowMove, Born, Shown, Taken, Struck, Progress, Finished, Closed, Timed, Revived, Keeps
<1> QED BY <1>1, <1>3

(* A part is numbered by a natural number.                                 *)
LEMMA NatOf ==
  ASSUME ConstantsAssumption, NEW j \in Jobs, NEW k \in 1..Parts[j]
  PROVE  k \in Nat
BY DEF ConstantsAssumption

(* Of a part, nobody becomes a sender but the worker that moves.           *)
LEMMA OthersKeep ==
  ASSUME ConstantsAssumption, ReceivedInv, Next, NEW w,
         \A v \in Workers \ {w} : att'[v] = att[v], NEW j \in Jobs, NEW k \in Nat
  PROVE  Senders(j, k)' \subseteq Senders(j, k) \cup {w}
<1> SUFFICES ASSUME NEW v \in Workers \ {w}, MaySend(v, j, k)' PROVE MaySend(v, j, k)
  BY DEF Senders
<1>1. att'[v] = att[v] /\ SameHold(v) /\ Job(v) = j /\ Job(v)' = j
  BY DEF SameHold, MaySend, Job
<1>2. rows[j].parts \in Nat /\ rows'[j].parts \in Nat /\ rows[j].parts <= rows'[j].parts
  BY PartsGrow
<1>3. rows'[j].parts < k => rows[j].parts < k
  BY <1>2
<1>4. att[v].at \in Ending /\ Owns(v)' => Owns(v)
  <2>1. att[v].at \in Ending => att[v].at # "idle"
    BY DEF Ending
  <2> QED BY <1>1, <2>1, OwnershipKept DEF ReceivedInv
<1> QED BY <1>1, <1>3, <1>4 DEF MaySend

(* Sums.                                                                   *)
LEMMA SendersFinite ==
  ASSUME ConstantsAssumption, NEW j, NEW k
  PROVE  IsFiniteSet(Senders(j, k)) /\ Cardinality(Senders(j, k)) \in Nat
<1>1. Senders(j, k) \subseteq Workers
  BY DEF Senders
<1> QED BY <1>1, FS_Subset, FS_CardinalityType DEF ConstantsAssumption

(* A set that gains at most one element grows by at most that one.         *)
LEMMA OneMore ==
  ASSUME NEW S, NEW T, IsFiniteSet(S), NEW w, T \subseteq S \cup {w}
  PROVE  /\ Cardinality(S) \in Nat /\ Cardinality(T) \in Nat
         /\ Cardinality(T) + One(w \in S) <= Cardinality(S) + One(w \in T)
<1>1. IsFiniteSet(S \cup {w}) /\ IsFiniteSet(T)
  BY FS_AddElement, FS_Subset
<1>2. IsFiniteSet(S \ {w}) /\ IsFiniteSet(T \ {w})
  BY <1>1, FS_Subset
<1>3. T \ {w} \subseteq S \ {w}
  OBVIOUS
<1>4. Cardinality(T \ {w}) <= Cardinality(S \ {w})
  BY <1>2, <1>3, FS_Subset
<1>5. Cardinality(S \ {w}) = Cardinality(S) - One(w \in S)
  BY FS_RemoveElement, FS_CardinalityType DEF One
<1>6. Cardinality(T \ {w}) = Cardinality(T) - One(w \in T)
  BY <1>1, FS_RemoveElement, FS_CardinalityType DEF One
<1>7. Cardinality(S) \in Nat /\ Cardinality(T) \in Nat
  BY <1>1, FS_CardinalityType
<1> QED BY <1>4, <1>5, <1>6, <1>7 DEF One

(* What a step of w (or of nobody) does to the account of a part.          *)
Even(w, j, k) ==
  /\ Senders(j, k)' \subseteq Senders(j, k) \cup {w}
  /\ got'[<<j, k>>] + One(w \in Senders(j, k)') + One(Owed(j, k)') + Trouble
       <= got[<<j, k>>] + One(w \in Senders(j, k)) + One(Owed(j, k)) + Trouble'

(* An account that a step leaves even is not overdrawn by it.              *)
LEMMA EvenKeeps ==
  ASSUME ConstantsAssumption, TypeOK, TypeOK', CopiesInv, NEW w, NEW j \in Jobs,
         NEW k \in 1..Parts[j], Even(w, j, k)
  PROVE  got'[<<j, k>>] + Cardinality(Senders(j, k)') + One(Owed(j, k)') <= 1 + Trouble'
<1>1. /\ got[<<j, k>>] \in Nat /\ got'[<<j, k>>] \in Nat
      /\ Trouble \in Nat /\ Trouble' \in Nat
  <2>1. got[<<j, k>>] \in Nat /\ got'[<<j, k>>] \in Nat
    BY SlotOf DEF TypeOK
  <2>2. faults \in Nat /\ crashes \in Nat /\ lapses \in Nat
    BY DEF TypeOK
  <2>3. faults' \in Nat /\ crashes' \in Nat /\ lapses' \in Nat
    BY DEF TypeOK
  <2>4. Trouble \in Nat
    BY <2>2 DEF Trouble
  <2>5. Trouble' = faults' + crashes' + lapses'
    BY DEF Trouble
  <2>7. \A a, b, c \in Nat : a + b + c \in Nat
    OBVIOUS
  <2>6. Trouble' \in Nat
    BY <2>3, <2>5, <2>7
  <2> QED BY <2>1, <2>4, <2>6
<1>2. /\ Cardinality(Senders(j, k)) \in Nat /\ Cardinality(Senders(j, k)') \in Nat
      /\ Cardinality(Senders(j, k)') + One(w \in Senders(j, k))
           <= Cardinality(Senders(j, k)) + One(w \in Senders(j, k)')
  BY SendersFinite, OneMore DEF Even
<1>3. /\ One(w \in Senders(j, k)) \in Nat /\ One(w \in Senders(j, k)') \in Nat
      /\ One(Owed(j, k)) \in Nat /\ One(Owed(j, k)') \in Nat
  BY DEF One
<1>4. got[<<j, k>>] + Cardinality(Senders(j, k)) + One(Owed(j, k)) <= 1 + Trouble
  BY DEF CopiesInv
<1>5. got'[<<j, k>>] + One(w \in Senders(j, k)') + One(Owed(j, k)') + Trouble
       <= got[<<j, k>>] + One(w \in Senders(j, k)) + One(Owed(j, k)) + Trouble'
  BY DEF Even
<1> QED BY <1>1, <1>2, <1>3, <1>4, <1>5

(* Who covers a row that is not written.                                   *)
LEMMA CoverKept ==
  ASSUME NEW j, NEW k, NEW w, rows'[j] = rows[j],
         \A v \in Workers \ {w} : att'[v] = att[v], Covers(w, j) => Covers(w, j)'
  PROVE  Owed(j, k)' => Owed(j, k)
<1>1. ASSUME NEW v \in Workers, Covers(v, j) PROVE Covers(v, j)'
  BY <1>1 DEF Covers, Owns, Job
<1> QED BY <1>1 DEF Owed, Free

(* What is spent is paid for.                                              *)
Calm == UNCHANGED budgets
Paid ==
  /\ lapses' = lapses
  /\ (faults' = faults + 1 /\ crashes' = crashes) \/ (faults' = faults /\ crashes' = crashes + 1)

(* What a step adds to the trouble there was.                              *)
LEMMA Payments ==
  ASSUME TypeOK
  PROVE  /\ Trouble \in Nat
         /\ Calm => Trouble' = Trouble
         /\ Paid => Trouble' = Trouble + 1
<1>1. faults \in Nat /\ crashes \in Nat /\ lapses \in Nat
  BY DEF TypeOK
<1> QED BY <1>1 DEF Trouble, Calm, Paid, budgets

(* Only the failures of a worker are paid for, and each of them is.        *)
LEMMA Paying ==
  ASSUME NEW w \in Workers
  PROVE  /\ WorkerStep(w) => Calm
         /\ WorkerFault(w) => Paid
<1>1. WorkerStep(w) => Calm
  BY DEF WorkerStep, Read, Judge, Unguard, Check, Send, Refuse, Save, Complete, End, Calm
<1>2. WorkerFault(w) => Paid
  BY DEF WorkerFault, ReadFails, UnguardFails, SendLost, SaveLost, CompleteLost, EndLost, Crash,
         Fault, Paid
<1> QED BY <1>1, <1>2

(* The other messages of a step.                                           *)
LEMMA Elsewhere ==
  ASSUME ConstantsAssumption, ReceivedInv, Next, NEW w \in Workers, NEW j \in Jobs,
         NEW k \in 1..Parts[j], \A v \in Workers \ {w} : att'[v] = att[v],
         att[w].job # j, att'[w].job # j, rows'[j] = rows[j], got'[<<j, k>>] = got[<<j, k>>],
         Calm \/ Paid
  PROVE  Even(w, j, k)
<1>1. Senders(j, k)' \subseteq Senders(j, k) \cup {w}
  BY NatOf, OthersKeep
<1>2. w \notin Senders(j, k) /\ w \notin Senders(j, k)'
  BY DEF Senders, MaySend, Job
<1>3. Owed(j, k)' => Owed(j, k)
  BY CoverKept DEF Covers, Job
<1>4. got[<<j, k>>] \in Nat
  BY SlotOf DEF ReceivedInv, TypeOK
<1>5. Trouble \in Nat /\ (Trouble' = Trouble \/ Trouble' = Trouble + 1)
  BY Payments DEF ReceivedInv
<1> QED BY <1>1, <1>2, <1>3, <1>4, <1>5 DEF Even, One

(* A step of a worker that writes nothing.                                 *)
LEMMA LookOn ==
  ASSUME ConstantsAssumption, TypeOK, NEW w \in Workers, att[w].at \notin {"idle", "claimed"},
         NEW step, Goto(w, step), rows' = rows, NEW j, Job(w) = j, NEW k
  PROVE  /\ Owns(w)' <=> Owns(w)
         /\ Owed(j, k)' => Owed(j, k)
<1>1. SameHold(w) /\ \A v \in Workers \ {w} : att'[v] = att[v]
  BY HoldOf
<1>2. Job(w)' = Job(w) /\ (Owns(w)' <=> Owns(w))
  BY <1>1 DEF SameHold, Owns, Job
<1>3. Covers(w, j) => Covers(w, j)'
  BY <1>1, <1>2 DEF Covers
<1>4. Owed(j, k)' => Owed(j, k)
  BY <1>1, <1>3, CoverKept
<1> QED BY <1>2, <1>4

(* The ways an account stays even.                                         *)
LEMMA Settling ==
  ASSUME ConstantsAssumption, ReceivedInv, Next, NEW w \in Workers, NEW j \in Jobs,
         NEW k \in 1..Parts[j], \A v \in Workers \ {w} : att'[v] = att[v], NEW g \in {0, 1},
         got'[<<j, k>>] = got[<<j, k>>] + g,
         \/ /\ Calm
            /\ \/ /\ g = 0 /\ (Owed(j, k)' => Owed(j, k))
                  /\ MaySend(w, j, k)' => MaySend(w, j, k)
               \/ /\ g = 1 /\ (Owed(j, k)' => Owed(j, k))
                  /\ MaySend(w, j, k) /\ ~MaySend(w, j, k)'
               \/ g = 0 /\ ~MaySend(w, j, k)' /\ (Owed(j, k)' => MaySend(w, j, k))
               \/ g = 0 /\ ~Owed(j, k)' /\ (MaySend(w, j, k)' => Owed(j, k))
         \/ /\ Paid
            /\ \/ g = 0 /\ (MaySend(w, j, k)' => MaySend(w, j, k))
               \/ g = 0 /\ (Owed(j, k)' => Owed(j, k))
               \/ (MaySend(w, j, k)' => MaySend(w, j, k)) /\ (Owed(j, k)' => Owed(j, k))
  PROVE  Even(w, j, k)
<1>1. Senders(j, k)' \subseteq Senders(j, k) \cup {w}
  BY NatOf, OthersKeep
<1>2. (w \in Senders(j, k) <=> MaySend(w, j, k)) /\ (w \in Senders(j, k)' <=> MaySend(w, j, k)')
  BY DEF Senders
<1>3. got[<<j, k>>] \in Nat
  BY SlotOf DEF ReceivedInv, TypeOK
<1>4. Trouble \in Nat /\ (Calm => Trouble' = Trouble) /\ (Paid => Trouble' = Trouble + 1)
  BY Payments DEF ReceivedInv
<1>5. got'[<<j, k>>] + One(w \in Senders(j, k)') + One(Owed(j, k)') + Trouble
       <= got[<<j, k>>] + One(w \in Senders(j, k)) + One(Owed(j, k)) + Trouble'
  <2> DEFINE a == w \in Senders(j, k)'
             b == w \in Senders(j, k)
             c == Owed(j, k)'
             d == Owed(j, k)
  <2>1. \/ /\ Calm
           /\ \/ g = 0 /\ (c => d) /\ (a => b)
              \/ g = 1 /\ (c => d) /\ b /\ ~a
              \/ g = 0 /\ ~a /\ (c => b)
              \/ g = 0 /\ ~c /\ (a => d)
        \/ Paid /\ ((g = 0 /\ (a => b)) \/ (g = 0 /\ (c => d)) \/ ((a => b) /\ (c => d)))
    BY <1>2
  <2> HIDE DEF a, b, c, d
  <2>2. got'[<<j, k>>] + One(a) + One(c) + Trouble <= got[<<j, k>>] + One(b) + One(d) + Trouble'
    <3>1. One(a) \in {0, 1} /\ One(b) \in {0, 1} /\ One(c) \in {0, 1} /\ One(d) \in {0, 1}
          /\ (a <=> One(a) = 1) /\ (b <=> One(b) = 1) /\ (c <=> One(c) = 1) /\ (d <=> One(d) = 1)
      BY DEF One
    <3> QED BY <1>3, <1>4, <2>1, <3>1
  <2> QED BY <2>2 DEF a, b, c, d
<1> QED BY <1>1, <1>5 DEF Even

(* A worker at work moves nobody else, and keeps its job until it leaves.  *)
LEMMA Alone ==
  ASSUME ConstantsAssumption, TypeOK, NEW w \in Workers, WorkerStep(w) \/ WorkerFault(w)
  PROVE  /\ att[w].at # "idle" /\ att[w] \in Attempt /\ Job(w) \in Jobs
         /\ \A v \in Workers \ {w} : att'[v] = att[v]
         /\ att'[w] = Idle \/ att'[w].job = att[w].job
<1>0. att \in [Workers -> Attempt \cup {Idle}]
  BY DEF TypeOK
<1>1. att[w].at # "idle"
  BY DEF WorkerStep, WorkerFault, Read, Judge, Unguard, Check, Send, Refuse, Save, Complete, End,
         ReadFails, UnguardFails, SendLost, SaveLost, CompleteLost, EndLost, Crash, Ending, Idle,
         TypeOK, Attempt, Steps
<1>2. att[w] \in Attempt /\ Job(w) \in Jobs
  BY <1>1, Working
<1>3. \E a : att' = [att EXCEPT ![w] = a] /\ (a = Idle \/ a.job = att[w].job)
  <2>1. CASE Quit(w)
    BY <2>1 DEF Quit
  <2>2. ASSUME NEW step, Goto(w, step)
        PROVE  \E a : att' = [att EXCEPT ![w] = a] /\ (a = Idle \/ a.job = att[w].job)
    <3>1. [att[w] EXCEPT !.at = step].job = att[w].job
      BY <1>2 DEF Attempt
    <3> QED BY <2>2, <3>1 DEF Goto
  <2>3. CASE Read(w)
    <3> DEFINE a == [att[w] EXCEPT !.at = "read", !.attempts = rows[Job(w)].attempts,
                                   !.lock = rows[Job(w)].lock, !.parts = rows[Job(w)].parts]
    <3>1. att' = [att EXCEPT ![w] = a]
      BY <2>3 DEF Read
    <3>2. a.job = att[w].job
      BY <1>2 DEF Attempt
    <3> QED BY <3>1, <3>2
  <2>4. CASE Save(w)
    <3>1. ASSUME NEW l, att' = [att EXCEPT ![w] =
                   [att[w] EXCEPT !.at = Onward(Job(w), att[w].parts + 1), !.parts = att[w].parts + 1, !.lock = l]]
          PROVE  \E a : att' = [att EXCEPT ![w] = a] /\ (a = Idle \/ a.job = att[w].job)
      <4> DEFINE a == [att[w] EXCEPT !.at = Onward(Job(w), att[w].parts + 1), !.parts = att[w].parts + 1, !.lock = l]
      <4>1. a.job = att[w].job
        BY <1>2 DEF Attempt
      <4>2. att' = [att EXCEPT ![w] = a]
        BY <3>1
      <4> QED BY <4>1, <4>2
    <3> QED BY <2>2, <2>4, <3>1 DEF Save
  <2> QED BY <2>1, <2>2, <2>3, <2>4
       DEF WorkerStep, WorkerFault, Judge, Unguard, Check, Send, Refuse, Complete, End,
           ReadFails, UnguardFails, SendLost, SaveLost, CompleteLost, EndLost, Crash
<1> QED BY <1>0, <1>1, <1>2, <1>3

(* Steps that only look, or get nothing from MAX.                          *)
LEMMA LookEven ==
  ASSUME ConstantsAssumption, LedgerInv, Next, NEW w \in Workers, NEW j \in Jobs, Job(w) = j,
         NEW k \in 1..Parts[j], Read(w) \/ Judge(w) \/ Check(w) \/ Refuse(w)
  PROVE  Even(w, j, k)
<1>1. /\ att[w].at # "idle" /\ att[w] \in Attempt /\ \A v \in Workers \ {w} : att'[v] = att[v]
      /\ got' = got /\ rows' = rows /\ Calm
  <2>1. WorkerStep(w)
    BY DEF WorkerStep
  <2> QED BY <2>1, Alone, Paying DEF LedgerInv, ReceivedInv, Read, Judge, Check, Refuse, Reads, history
<1>2. got[<<j, k>>] \in Nat /\ got'[<<j, k>>] = got[<<j, k>>] + 0
  BY <1>1, SlotOf DEF LedgerInv, ReceivedInv, TypeOK
<1>3. CASE Read(w)
  <2>1. /\ att[w].at = "claimed" /\ att'[w].at = "read" /\ att'[w].job = att[w].job
        /\ att'[w].parts = rows[j].parts /\ att'[w].attempts = rows[j].attempts
        /\ att'[w].lock = rows[j].lock
    BY <1>1, <1>3 DEF Read, Attempt, LedgerInv, ReceivedInv, TypeOK
  <2>2. Owed(j, k)' => Owed(j, k)
    <3> SUFFICES ASSUME Owed(j, k)' PROVE Owed(j, k)
      OBVIOUS
    <3>1. CASE rows[j].status = "SENDING"
      <4>1. Covers(w, j)'
        BY <1>1, <2>1, <3>1 DEF Covers, Owns, Job
      <4> QED BY <1>1, <3>1, <4>1 DEF Owed, Free
    <3>2. CASE rows[j].status # "SENDING"
      BY <1>1, <3>2 DEF Owed, Free
    <3> QED BY <3>1, <3>2
  <2>3. MaySend(w, j, k)' => MaySend(w, j, k)
    BY <2>1 DEF MaySend, Job, Ending
  <2> QED BY <1>1, <1>2, <2>2, <2>3, Settling DEF LedgerInv
<1>4. ASSUME NEW step \in Steps, Goto(w, step), att[w].at \in {"read", "check", "send"},
             step \in {"check", "complete", "retire", "hold", "send"} \cup Ending,
             step \in {"check", "send"} => att[w].parts < Parts[j]
      PROVE  Even(w, j, k)
  <2>1. (Owns(w)' <=> Owns(w)) /\ (Owed(j, k)' => Owed(j, k))
    BY <1>1, <1>4, LookOn DEF LedgerInv, ReceivedInv
  <2>2. SameHold(w) /\ att'[w].at = step
    BY <1>1, <1>4, HoldOf DEF LedgerInv, ReceivedInv
  <2>3. MaySend(w, j, k)' => MaySend(w, j, k)
    BY <1>4, <2>2 DEF MaySend, SameHold, Job, Ending
  <2> QED BY <1>1, <1>2, <2>1, <2>3, Settling DEF LedgerInv
<1>5. Onward(j, att[w].parts) \in {"check", "complete"}
      /\ (Onward(j, att[w].parts) = "check" => att[w].parts < Parts[j])
  BY DEF Onward
<1>6. att[w].at \in {"check", "send"} => att[w].parts < Parts[j]
  BY <1>1 DEF LedgerInv, ReceivedInv, PlacedInv, Placed
<1>7. CASE Judge(w)
  <2>1. att[w].at = "read" /\ Goto(w, Judged(w))
    BY <1>7 DEF Judge
  <2>2. Judged(w) \in {"check", "complete", "retire", "hold", "stale", "cancel", "defer"}
        /\ (Judged(w) = "check" => att[w].parts < Parts[j])
    BY <1>5 DEF Judged
  <2> QED BY <1>4, <2>1, <2>2 DEF Ending, Steps
<1>8. CASE Check(w)
  <2>1. att[w].at = "check" /\ Goto(w, Checked(w)) /\ Checked(w) \in {"stale", "cancel", "defer", "send"}
    BY <1>8 DEF Check, Checked
  <2> QED BY <1>4, <1>6, <2>1 DEF Ending, Steps
<1>9. CASE Refuse(w)
  <2>1. att[w].at = "send" /\ Goto(w, "fail")
    BY <1>9 DEF Refuse
  <2> QED BY <1>4, <2>1 DEF Ending, Steps
<1> QED BY <1>3, <1>7, <1>8, <1>9

(* A request that arrives adds a copy, and its sender is no longer one.    *)
LEMMA SendEven ==
  ASSUME ConstantsAssumption, LedgerInv, Next, NEW w \in Workers, NEW j \in Jobs, Job(w) = j,
         NEW k \in 1..Parts[j], Send(w) \/ SendLost(w)
  PROVE  Even(w, j, k)
<1>1. /\ att[w] \in Attempt /\ \A v \in Workers \ {w} : att'[v] = att[v]
      /\ rows' = rows /\ att[w].at = "send" /\ (Send(w) => Calm) /\ (SendLost(w) => Paid)
  <2>1. (Send(w) => WorkerStep(w)) /\ (SendLost(w) => WorkerFault(w))
    BY DEF WorkerStep, WorkerFault
  <2> QED BY <2>1, Alone, Paying DEF LedgerInv, ReceivedInv, Send, SendLost
<1>2. att[w].parts \in Nat /\ att[w].parts < Parts[j] /\ k \in Nat /\ got \in [Slots -> Nat]
      /\ <<j, k>> \in Slots
  BY <1>1, NatOf, SlotOf DEF Attempt, LedgerInv, ReceivedInv, PlacedInv, Placed, TypeOK
<1>3. ASSUME Receive(w)
      PROVE  got'[<<j, k>>] = got[<<j, k>>] + (IF k = att[w].parts + 1 THEN 1 ELSE 0)
  <2> DEFINE x == <<j, att[w].parts + 1>>
  <2>1. got' = [got EXCEPT ![x] = got[x] + 1]
    BY <1>3 DEF Receive
  <2>2. <<j, k>> = x <=> k = att[w].parts + 1
    OBVIOUS
  <2> HIDE DEF x
  <2>3. got'[<<j, k>>] = IF <<j, k>> = x THEN got[<<j, k>>] + 1 ELSE got[<<j, k>>]
    BY <1>2, <2>1
  <2> QED BY <1>2, <2>2, <2>3
<1>4. ASSUME NEW step, Goto(w, step)
      PROVE  /\ (Owns(w)' <=> Owns(w)) /\ (Owed(j, k)' => Owed(j, k))
             /\ SameHold(w) /\ att'[w].at = step
  BY <1>1, <1>4, LookOn, HoldOf DEF LedgerInv, ReceivedInv
<1>7. CASE Send(w)
  <2>0. PICK step \in {"save", "complete"} : Goto(w, step)
    BY <1>7 DEF Send
  <2>1. Receive(w) /\ Calm
    BY <1>1, <1>7 DEF Send
  <2>4. (Owed(j, k)' => Owed(j, k)) /\ SameHold(w) /\ att'[w].at = step
    BY <1>4, <2>0
  <2>2. CASE k = att[w].parts + 1
    <3>1. got'[<<j, k>>] = got[<<j, k>>] + 1
      BY <1>3, <2>1, <2>2
    <3>2. MaySend(w, j, k)
      BY <1>1, <1>2, <2>2 DEF MaySend
    <3>3. ~MaySend(w, j, k)'
      BY <1>2, <2>4, <2>2 DEF MaySend, SameHold, Ending
    <3> QED BY <1>1, <2>4, <2>1, <3>1, <3>2, <3>3, Settling DEF LedgerInv
  <2>3. CASE k # att[w].parts + 1
    <3>1. got'[<<j, k>>] = got[<<j, k>>] + 0
      BY <1>3, <2>1, <2>3
    <3>2. MaySend(w, j, k)' => MaySend(w, j, k)
      BY <1>1, <1>2, <2>4, <2>3 DEF MaySend, SameHold, Ending, Job
    <3> QED BY <1>1, <2>4, <2>1, <3>1, <3>2, Settling DEF LedgerInv
  <2> QED BY <2>2, <2>3
<1>8. CASE SendLost(w)
  <2>0. PICK step \in {"check", "fail", "stale"} : Goto(w, step)
    BY <1>8 DEF SendLost
  <2>5. (Owns(w)' <=> Owns(w)) /\ (Owed(j, k)' => Owed(j, k)) /\ SameHold(w) /\ att'[w].at = step
    BY <1>4, <2>0
  <2>1. got'[<<j, k>>] = got[<<j, k>>] + 0 \/ got'[<<j, k>>] = got[<<j, k>>] + 1
    BY <1>2, <1>3, <1>8 DEF SendLost
  <2>2. MaySend(w, j, k)' => MaySend(w, j, k)
    BY <1>1, <2>5 DEF MaySend, SameHold, Ending, Job
  <2>3. Paid
    BY <1>1, <1>8
  <2>4. ASSUME NEW g \in {0, 1}, got'[<<j, k>>] = got[<<j, k>>] + g PROVE Even(w, j, k)
    BY <1>1, <2>5, <2>2, <2>3, <2>4, Settling DEF LedgerInv
  <2> QED BY <2>1, <2>4
<1> QED BY <1>7, <1>8

(* A worker that has left sends nothing.                                   *)
LEMMA QuitSends ==
  ASSUME ConstantsAssumption, TypeOK, NEW w \in Workers, Quit(w), NEW j \in Jobs, NEW k
  PROVE  ~MaySend(w, j, k)'
<1>1. att'[w] = Idle
  BY DEF Quit, TypeOK
<1> QED BY <1>1 DEF MaySend, Job, Idle, ConstantsAssumption

(* A saved part is no longer owed, and the worker goes on as the owner.    *)
LEMMA SaveEven ==
  ASSUME ConstantsAssumption, LedgerInv, Next, NEW w \in Workers, NEW j \in Jobs, Job(w) = j,
         NEW k \in 1..Parts[j], Save(w) \/ SaveLost(w)
  PROVE  Even(w, j, k)
<1>1. /\ att[w] \in Attempt /\ \A v \in Workers \ {w} : att'[v] = att[v]
      /\ got' = got /\ att[w].at = "save" /\ (Save(w) => Calm) /\ (SaveLost(w) => Paid)
  <2>1. (Save(w) => WorkerStep(w)) /\ (SaveLost(w) => WorkerFault(w))
    BY DEF WorkerStep, WorkerFault
  <2> QED BY <2>1, Alone, Paying DEF LedgerInv, ReceivedInv, Save, SaveLost, history
<1>2. /\ att[w].parts \in Nat /\ att[w].parts < Parts[j] /\ k \in Nat /\ rows \in [Jobs -> Row]
      /\ got[<<j, k>>] \in Nat /\ got'[<<j, k>>] = got[<<j, k>>] + 0 /\ att \in [Workers -> Attempt \cup {Idle}]
  BY <1>1, NatOf, SlotOf DEF Attempt, LedgerInv, ReceivedInv, PlacedInv, Placed, TypeOK
<1>3. ASSUME NEW step, Goto(w, step)
      PROVE  SameHold(w) /\ att'[w].at = step
  BY <1>1, <1>3, HoldOf DEF LedgerInv, ReceivedInv
<1>4. ASSUME NEW step, Goto(w, step), rows' = rows
      PROVE  (Owns(w)' <=> Owns(w)) /\ (Owed(j, k)' => Owed(j, k))
  BY <1>1, <1>4, LookOn DEF LedgerInv, ReceivedInv
<1>5. ASSUME NEW l \in Locks, Now(j, l), rows' = [rows EXCEPT ![j] = Renewed(rows[j], l)]
      PROVE  /\ rows'[j].lock = l /\ rows'[j].live /\ rows'[j].status = rows[j].status
             /\ rows'[j].attempts = rows[j].attempts /\ l # att[w].lock
  <2>1. rows'[j] = Renewed(rows[j], l) /\ rows[j] \in Row
    BY <1>2, <1>5
  <2>2. att[w].lock \in Remembered(j)
    BY DEF Remembered, Job
  <2>3. l # att[w].lock
    BY <1>5, <2>2 DEF Now
  <2> QED BY <2>1, <2>3 DEF Renewed, Row
<1>6. CASE Save(w)
  <2>1. ASSUME NEW l \in Locks, Owns(w), Now(j, l), rows' = [rows EXCEPT ![j] = Renewed(rows[j], l)],
               att' = [att EXCEPT ![w] = [att[w] EXCEPT !.at = Onward(j, att[w].parts + 1),
                                          !.parts = att[w].parts + 1, !.lock = l]]
        PROVE  Even(w, j, k)
    <3> DEFINE a == [att[w] EXCEPT !.at = Onward(j, att[w].parts + 1), !.parts = att[w].parts + 1, !.lock = l]
    <3>1. att'[w] = a
      BY <1>2, <2>1
    <3>2. /\ a.at = Onward(j, att[w].parts + 1) /\ a.parts = att[w].parts + 1 /\ a.lock = l
          /\ a.job = att[w].job /\ a.attempts = att[w].attempts
      BY <1>1 DEF Attempt
    <3> HIDE DEF a
    <3>3. Owns(w)' /\ Job(w)' = j
      BY <1>5, <2>1, <3>1, <3>2 DEF Owns, Job
    <3>4. rows'[j].status = "SENDING" /\ rows'[j].live
      BY <1>5, <2>1 DEF Owns
    <3>5. ~Owed(j, k)'
      BY <3>3, <3>4 DEF Owed, Free, Covers
    <3>6. a.at \in {"check", "complete"}
      BY <3>2 DEF Onward
    <3>7. MaySend(w, j, k)' => MaySend(w, j, k)
      BY <1>1, <1>2, <3>1, <3>2, <3>6 DEF MaySend, Ending
    <3> QED BY <1>1, <1>2, <1>6, <3>5, <3>7, Settling DEF LedgerInv
  <2>2. ASSUME ~(Owns(w) /\ rows[j].parts = att[w].parts), Goto(w, "stale"), rows' = rows
        PROVE  Even(w, j, k)
    <3>1. ~Owns(w)
      BY <1>1, <2>2 DEF LedgerInv, KnowsInv, Knows
    <3>2. ~MaySend(w, j, k)'
      BY <1>3, <1>4, <2>2, <3>1 DEF MaySend
    <3> QED BY <1>1, <1>2, <1>4, <1>6, <2>2, <3>2, Settling DEF LedgerInv
  <2> QED BY <1>6, <2>1, <2>2 DEF Save
<1>7. CASE SaveLost(w)
  <2>0. Goto(w, "fail") /\ Paid
    BY <1>1, <1>7 DEF SaveLost
  <2>1. CASE rows' = rows
    BY <1>1, <1>2, <1>4, <2>0, <2>1, Settling DEF LedgerInv
  <2>2. ASSUME NEW l \in Locks, Now(j, l), rows' = [rows EXCEPT ![j] = Renewed(rows[j], l)]
        PROVE  Even(w, j, k)
    <3>1. ~Owns(w)'
      BY <1>3, <1>5, <2>0, <2>2 DEF Owns, SameHold, Job
    <3>2. ~MaySend(w, j, k)'
      BY <1>3, <2>0, <3>1 DEF MaySend
    <3> QED BY <1>1, <1>2, <2>0, <3>2, Settling DEF LedgerInv
  <2> QED BY <1>7, <2>1, <2>2 DEF SaveLost
<1> QED BY <1>6, <1>7

(* A row that is SENT owes nothing.                                        *)
LEMMA CompleteEven ==
  ASSUME ConstantsAssumption, LedgerInv, Next, NEW w \in Workers, NEW j \in Jobs, Job(w) = j,
         NEW k \in 1..Parts[j], Complete(w) \/ CompleteLost(w)
  PROVE  Even(w, j, k)
<1>1. /\ att[w] \in Attempt /\ \A v \in Workers \ {w} : att'[v] = att[v]
      /\ got' = got /\ att[w].at = "complete" /\ (Complete(w) => Calm) /\ (CompleteLost(w) => Paid)
  <2>1. (Complete(w) => WorkerStep(w)) /\ (CompleteLost(w) => WorkerFault(w))
    BY DEF WorkerStep, WorkerFault
  <2> QED BY <2>1, Alone, Paying DEF LedgerInv, ReceivedInv, Complete, CompleteLost, history
<1>2. /\ rows \in [Jobs -> Row] /\ got[<<j, k>>] \in Nat /\ got'[<<j, k>>] = got[<<j, k>>] + 0
  BY <1>1, SlotOf DEF LedgerInv, ReceivedInv, TypeOK
<1>3. CompleteRow(w) => ~Owed(j, k)'
  BY <1>2 DEF CompleteRow, Completed, Row, Owed, Free
<1>4. ASSUME NEW step, Goto(w, step), rows' = rows
      PROVE  (Owns(w)' <=> Owns(w)) /\ (Owed(j, k)' => Owed(j, k)) /\ att'[w].at = step
  BY <1>1, <1>4, LookOn, HoldOf DEF LedgerInv, ReceivedInv
<1>5. CASE Complete(w)
  <2>1. CASE Owns(w)
    <3>1. Quit(w) /\ CompleteRow(w)
      BY <1>5, <2>1 DEF Complete
    <3> QED BY <1>1, <1>2, <1>3, <1>5, <3>1, QuitSends, Settling DEF LedgerInv, ReceivedInv
  <2>2. CASE ~Owns(w)
    <3>1. Goto(w, "stale") /\ rows' = rows
      BY <1>5, <2>2 DEF Complete
    <3>2. ~MaySend(w, j, k)'
      BY <1>4, <2>2, <3>1 DEF MaySend
    <3> QED BY <1>1, <1>2, <1>4, <1>5, <3>1, <3>2, Settling DEF LedgerInv
  <2> QED BY <2>1, <2>2
<1>6. CASE CompleteLost(w)
  <2>1. Goto(w, "fail") /\ Paid /\ (CompleteRow(w) \/ rows' = rows)
    BY <1>1, <1>6 DEF CompleteLost
  <2>2. Owed(j, k)' => Owed(j, k)
    BY <1>3, <1>4, <2>1
  <2> QED BY <1>1, <1>2, <2>1, <2>2, Settling DEF LedgerInv
<1> QED BY <1>5, <1>6

(* The other ends of an attempt: the worker's share becomes the row's.     *)
LEMMA EndEven ==
  ASSUME ConstantsAssumption, LedgerInv, Next, NEW w \in Workers, NEW j \in Jobs, Job(w) = j,
         NEW k \in 1..Parts[j], Unguard(w) \/ End(w)
  PROVE  Even(w, j, k)
<1>1. /\ att[w] \in Attempt /\ \A v \in Workers \ {w} : att'[v] = att[v]
      /\ got' = got /\ Calm /\ Quit(w)
  <2>1. WorkerStep(w)
    BY DEF WorkerStep
  <2> QED BY <2>1, Alone, Paying DEF LedgerInv, ReceivedInv, Unguard, End, history
<1>2. /\ rows \in [Jobs -> Row] /\ got[<<j, k>>] \in Nat /\ got'[<<j, k>>] = got[<<j, k>>] + 0
      /\ att[w].parts \in Nat /\ rows[j].parts \in Nat /\ k \in Nat
  BY <1>1, NatOf, SlotOf DEF LedgerInv, ReceivedInv, TypeOK, Row, Attempt
<1>3. ~MaySend(w, j, k)'
  BY <1>1, QuitSends DEF LedgerInv, ReceivedInv
<1>4. att[w].at # "idle" /\ Knows(w)
  BY <1>1, Working DEF LedgerInv, KnowsInv, Attempt, Steps
<1>5. CASE Unguard(w)
  <2>1. rows'[j].parts = rows[j].parts /\ att[w].at \in {"retire", "hold"}
    BY <1>2, <1>5 DEF Unguard, Unguarded, Retired, Paused, Row
  <2>2. Owed(j, k)' => MaySend(w, j, k)
    BY <1>2, <1>4, <2>1 DEF Owed, MaySend, Knows
  <2> QED BY <1>1, <1>2, <1>3, <2>2, Settling DEF LedgerInv
<1>6. CASE End(w) /\ Owns(w)
  <2>1. rows'[j].parts = rows[j].parts
    <3>1. rows' = [rows EXCEPT ![j] = Ended(w)]
      BY <1>6 DEF End
    <3>2. Ended(w).parts = rows[j].parts
      <4> DEFINE r == [rows[j] EXCEPT !.lock = 0, !.due = FALSE]
      <4>1. "parts" \in DOMAIN r /\ r.parts = rows[j].parts
        BY <1>2 DEF Row
      <4>2. Ended(w) = CASE att[w].at = "cancel" -> [r EXCEPT !.status = "CANCELLED", !.applied = FALSE]
        [] att[w].at = "defer"  -> [r EXCEPT !.status = "DEFERRED", !.attempts = r.attempts - 1]
        [] att[w].at \in {"fail", "stale"} /\ Final(w) -> [r EXCEPT !.status = "FAILED"]
        [] OTHER -> [r EXCEPT !.status = IF Kind[j] = "deadline" THEN "DEFERRED" ELSE "PENDING"]
        BY DEF Ended
      <4> HIDE DEF r
      <4> QED BY <4>1, <4>2
    <3> QED BY <1>2, <3>1, <3>2
  <2>2. att[w].at \in Ending /\ att[w].at # "claimed"
    BY <1>6 DEF End, Ending
  <2>3. Owed(j, k)' => MaySend(w, j, k)
    BY <1>2, <1>4, <1>6, <2>1, <2>2 DEF Owed, MaySend, Knows
  <2> QED BY <1>1, <1>2, <1>3, <2>3, Settling DEF LedgerInv
<1>7. CASE End(w) /\ ~Owns(w)
  <2>1. rows' = rows /\ att[w].at # "claimed"
    BY <1>7 DEF End, Ending
  <2>2. Owed(j, k)' => Owed(j, k)
    <3>1. ~Covers(w, j)
      BY <1>7, <2>1 DEF Covers
    <3>2. rows'[j] = rows[j]
      BY <2>1
    <3> QED BY <1>1, <3>1, <3>2, CoverKept
  <2> QED BY <1>1, <1>2, <1>3, <2>2, Settling DEF LedgerInv
<1> QED BY <1>5, <1>6, <1>7

(* A call that fails, a worker that dies: paid for at once.                *)
LEMMA FaultEven ==
  ASSUME ConstantsAssumption, LedgerInv, Next, NEW w \in Workers, NEW j \in Jobs, Job(w) = j,
         NEW k \in 1..Parts[j], ReadFails(w) \/ UnguardFails(w) \/ EndLost(w) \/ Crash(w)
  PROVE  Even(w, j, k)
<1>1. /\ att[w] \in Attempt /\ att[w].at # "idle" /\ \A v \in Workers \ {w} : att'[v] = att[v]
      /\ got' = got /\ Paid
  <2>1. WorkerFault(w)
    BY DEF WorkerFault
  <2> QED BY <2>1, Alone, Paying
       DEF LedgerInv, ReceivedInv, ReadFails, UnguardFails, EndLost, Crash, Reads, history
<1>2. got[<<j, k>>] \in Nat /\ got'[<<j, k>>] = got[<<j, k>>] + 0
  BY <1>1, SlotOf DEF LedgerInv, ReceivedInv, TypeOK
<1>3. MaySend(w, j, k)' => MaySend(w, j, k)
  <2>1. CASE Quit(w)
    BY <2>1, QuitSends DEF LedgerInv, ReceivedInv
  <2>2. CASE Goto(w, "fail") /\ att[w].at \in {"read", "check", "hold"}
    <3>1. SameHold(w) /\ att'[w].at = "fail"
      BY <1>1, <2>2, HoldOf DEF LedgerInv, ReceivedInv
    <3> QED BY <2>2, <3>1 DEF MaySend, SameHold, Job
  <2> QED BY <2>1, <2>2 DEF ReadFails, UnguardFails, EndLost, Crash
<1> QED BY <1>1, <1>2, <1>3, Settling DEF LedgerInv

(* A claim takes up what the row owed.                                     *)
LEMMA ClaimEven ==
  ASSUME ConstantsAssumption, LedgerInv, Next, NEW w \in Workers, NEW j \in Jobs,
         NEW k \in 1..Parts[j], Claim(w, j) \/ ClaimLost(w, j)
  PROVE  Even(w, j, k)
<1>1. /\ att[w] = Idle /\ Claimable(j) /\ rows \in [Jobs -> Row] /\ rows[j] \in Row
      /\ att \in [Workers -> Attempt \cup {Idle}] /\ got' = got
  BY DEF Claim, ClaimLost, LedgerInv, ReceivedInv, TypeOK
<1>2. got'[<<j, k>>] = got[<<j, k>>] + 0 /\ \A v \in Workers \ {w} : att'[v] = att[v]
  <2>1. got[<<j, k>>] \in Nat
    BY SlotOf DEF LedgerInv, ReceivedInv, TypeOK
  <2> QED BY <1>1, <2>1 DEF Claim, ClaimLost
<1>3. rows'[j].status = "SENDING" /\ rows'[j].live /\ rows'[j].parts = rows[j].parts
  <2>1. PICK l \in Locks : rows' = [rows EXCEPT ![j] = Claimed(rows[j], l)]
    BY DEF Claim, ClaimLost
  <2> QED BY <1>1, <2>1 DEF Claimed, Row
<1>4. ~MaySend(w, j, k)
  BY <1>1 DEF MaySend, Job, Idle, ConstantsAssumption
<1>5. rows[j].parts < k => Owed(j, k)
  BY <1>1 DEF Owed, Free, Claimable, Waiting, Expired
<1>6. CASE Claim(w, j)
  <2>1. att'[w] = [at |-> "claimed", job |-> j, attempts |-> 0, lock |-> 0, parts |-> 0] /\ Calm
    BY <1>1, <1>6 DEF Claim, Calm
  <2>2. ~Owed(j, k)'
    BY <1>3, <2>1 DEF Owed, Free, Covers, Job
  <2>3. MaySend(w, j, k)' => Owed(j, k)
    BY <1>3, <1>5, <2>1 DEF MaySend, Ending
  <2> QED BY <1>2, <2>1, <2>2, <2>3, Settling DEF LedgerInv
<1>7. CASE ClaimLost(w, j)
  <2>1. att'[w] = Idle /\ Paid
    BY <1>1, <1>7 DEF ClaimLost, Fault, Paid
  <2>2. ~MaySend(w, j, k)'
    BY <2>1 DEF MaySend, Job, Idle, ConstantsAssumption
  <2> QED BY <1>2, <2>1, <2>2, Settling DEF LedgerInv
<1> QED BY <1>6, <1>7

(* What the rest of the program does to a row makes no sender, and a claim *)
(* to come only where a lease runs out under a worker, which is counted.   *)
LEMMA ProgramEven ==
  ASSUME ConstantsAssumption, LedgerInv, Next, NEW i \in Jobs, Program(i) \/ Tick(i) \/ Lapse(i),
         NEW w, NEW j \in Jobs, NEW k \in 1..Parts[j]
  PROVE  Even(w, j, k)
<1>1. att' = att /\ got' = got /\ rows \in [Jobs -> Row] /\ rows[j] \in Row
  BY DEF Program, Insert, Commit, Obsolete, Clock, Resend, Rate, Tick, Lapse, history,
         LedgerInv, ReceivedInv, TypeOK
<1>2. Senders(j, k)' \subseteq Senders(j, k)
  <2>1. Senders(j, k)' \subseteq Senders(j, k) \cup {0} /\ Senders(j, k)' \subseteq Senders(j, k) \cup {1}
    BY <1>1, NatOf, OthersKeep DEF LedgerInv
  <2> QED BY <2>1
<1>3. got[<<j, k>>] \in Nat /\ faults \in Nat /\ crashes \in Nat /\ lapses \in Nat
  BY SlotOf DEF LedgerInv, ReceivedInv, TypeOK
<1>4. Trouble \in Nat /\ (UNCHANGED <<faults, crashes, lapses>> => Trouble' = Trouble)
      /\ (UNCHANGED <<faults, crashes>> /\ lapses' = lapses + 1 => Trouble' = Trouble + 1)
  BY <1>3 DEF Trouble
<1>5. \/ Trouble' = Trouble /\ (Owed(j, k)' => Owed(j, k))
      \/ Trouble' = Trouble + 1
  <2>1. CASE rows'[j] = rows[j] /\ ~Lapse(i)
    <3>1. Owed(j, k)' => Owed(j, k)
      BY <1>1, <2>1, CoverKept DEF Covers, Owns, Job
    <3>2. Trouble' = Trouble
      BY <1>4, <2>1 DEF Program, Insert, Commit, Obsolete, Clock, Resend, Rate, Tick, budgets
    <3> QED BY <3>1, <3>2
  <2>2. CASE rows'[j] # rows[j] /\ ~Lapse(i)
    <3>1. Trouble' = Trouble
      BY <1>4, <2>2 DEF Program, Insert, Commit, Obsolete, Clock, Resend, Rate, Tick, budgets
    <3>2. /\ rows[j].status \in {"ABSENT", "INSERTED", "PENDING", "DEFERRED", "FAILED"}
          /\ rows'[j].parts = rows[j].parts
      <4>0. ASSUME NEW r, rows' = [rows EXCEPT ![i] = r], r.parts = rows[i].parts,
                   rows[i].status \in {"ABSENT", "INSERTED", "PENDING", "DEFERRED", "FAILED"}
            PROVE  /\ rows[j].status \in {"ABSENT", "INSERTED", "PENDING", "DEFERRED", "FAILED"}
                   /\ rows'[j].parts = rows[j].parts
        BY <1>1, <2>2, <4>0
      <4> DEFINE r == rows[i]
      <4>r. r \in Row
        BY <1>1
      <4>1. CASE Insert(i)
        <5>1. [r EXCEPT !.status = "INSERTED", !.seq = lastSeq + 1].parts = r.parts
          BY <4>r DEF Row
        <5> QED BY <4>0, <4>1, <5>1 DEF Insert
      <4>4. CASE Commit(i)
        <5>1. [r EXCEPT !.status = "PENDING", !.due = TRUE].parts = r.parts
          BY <4>r DEF Row
        <5> QED BY <4>0, <4>4, <5>1 DEF Commit
      <4>5. CASE Tick(i)
        <5>1. [r EXCEPT !.due = TRUE].parts = r.parts
          BY <4>r DEF Row
        <5> QED BY <4>0, <4>5, <5>1 DEF Tick, Waiting
      <4>2. CASE Resend(i) \/ Rate(i)
        <5>1. Rearmed(r).parts = r.parts
          BY <4>r DEF Rearmed, Row
        <5>2. rows' = [rows EXCEPT ![i] = Rearmed(r)] /\ r.status \in {"PENDING", "FAILED"}
          BY <2>2, <4>2 DEF Resend, Rate, Rearm
        <5> QED BY <4>0, <5>1, <5>2
      <4>3. CASE Obsolete(i) \/ Clock(i)
        BY <2>2, <4>3 DEF Obsolete, Clock
      <4> QED BY <2>2, <4>1, <4>2, <4>3, <4>4, <4>5 DEF Program
    <3> QED BY <3>1, <3>2 DEF Owed, Free
  <2>3. CASE Lapse(i)
    <3>1. /\ rows' = [rows EXCEPT ![i] = [rows[i] EXCEPT !.live = FALSE]] /\ rows[i].status = "SENDING"
          /\ UNCHANGED <<faults, crashes>>
          /\ IF Worked(i) THEN lapses' = lapses + 1 ELSE lapses' = lapses
      BY <2>3 DEF Lapse
    <3>2. CASE Worked(i)
      BY <1>4, <3>1, <3>2
    <3>3. CASE ~Worked(i)
      <4>1. Trouble' = Trouble
        BY <1>4, <3>1, <3>3
      <4>2. CASE i = j
        <5>1. \A v \in Workers : ~Covers(v, j)
          BY <3>3, <4>2 DEF Worked, Covers, Job, Idle, ConstantsAssumption
        <5>2. rows'[j].parts = rows[j].parts
          BY <1>1, <3>1, <4>2 DEF Row
        <5> QED BY <3>1, <4>1, <4>2, <5>1, <5>2 DEF Owed, Free
      <4>3. CASE i # j
        <5>1. rows'[j] = rows[j]
          BY <1>1, <3>1, <4>3
        <5>2. Owed(j, k)' => Owed(j, k)
          BY <1>1, <5>1, CoverKept DEF Covers, Owns, Job
        <5> QED BY <4>1, <5>2
      <4> QED BY <4>2, <4>3
    <3> QED BY <3>2, <3>3
  <2> QED BY <2>1, <2>2, <2>3
<1>6. got'[<<j, k>>] + One(w \in Senders(j, k)') + One(Owed(j, k)') + Trouble
       <= got[<<j, k>>] + One(w \in Senders(j, k)) + One(Owed(j, k)) + Trouble'
  <2> DEFINE a == w \in Senders(j, k)'
             b == w \in Senders(j, k)
             c == Owed(j, k)'
             d == Owed(j, k)
  <2>1. (a => b) /\ ((Trouble' = Trouble /\ (c => d)) \/ Trouble' = Trouble + 1)
    BY <1>2, <1>5
  <2> HIDE DEF a, b, c, d
  <2>2. One(a) \in {0, 1} /\ One(b) \in {0, 1} /\ One(c) \in {0, 1} /\ One(d) \in {0, 1}
        /\ (a <=> One(a) = 1) /\ (b <=> One(b) = 1) /\ (c <=> One(c) = 1) /\ (d <=> One(d) = 1)
    BY DEF One
  <2>3. got'[<<j, k>>] + One(a) + One(c) + Trouble <= got[<<j, k>>] + One(b) + One(d) + Trouble'
    BY <1>1, <1>3, <1>4, <2>1, <2>2
  <2> QED BY <2>3 DEF a, b, c, d
<1> QED BY <1>2, <1>6 DEF Even

(* The step of a worker, whatever its message.                             *)
LEMMA WorkerEven ==
  ASSUME ConstantsAssumption, LedgerInv, Next, NEW w \in Workers, WorkerStep(w) \/ WorkerFault(w),
         NEW j \in Jobs, NEW k \in 1..Parts[j]
  PROVE  Even(w, j, k)
<1>1. /\ att[w] \in Attempt /\ Job(w) \in Jobs /\ \A v \in Workers \ {w} : att'[v] = att[v]
      /\ att'[w] = Idle \/ att'[w].job = att[w].job
  BY Alone DEF LedgerInv, ReceivedInv
<1>2. CASE Job(w) = j
  BY <1>2, LookEven, SendEven, SaveEven, CompleteEven, EndEven, FaultEven DEF WorkerStep, WorkerFault
<1>3. CASE Job(w) # j
  <2>1. att[w].job # j /\ att'[w].job # j
    BY <1>1, <1>3 DEF Job, Idle, ConstantsAssumption
  <2>2. rows'[j] = rows[j]
    <3>1. rows' = rows \/ OneMoves(Job(w))
      BY WorkerMoves DEF LedgerInv, ReceivedInv, PlacedInv
    <3> QED BY <1>3, <3>1 DEF OneMoves
  <2>3. got'[<<j, k>>] = got[<<j, k>>]
    <3>1. CASE Receive(w)
      <4> DEFINE x == <<Job(w), att[w].parts + 1>>
      <4>1. got' = [got EXCEPT ![x] = got[x] + 1]
        BY <3>1 DEF Receive
      <4>2. x # <<j, k>>
        BY <1>3
      <4>3. got \in [Slots -> Nat] /\ <<j, k>> \in Slots
        BY SlotOf DEF LedgerInv, ReceivedInv, TypeOK
      <4> HIDE DEF x
      <4> QED BY <4>1, <4>2, <4>3
    <3>2. CASE got' = got
      BY <3>2
    <3>3. got' = got \/ Receive(w)
      BY DEF WorkerStep, WorkerFault, Read, Judge, Unguard, Check, Send, Refuse, Save, Complete, End,
             ReadFails, UnguardFails, SendLost, SaveLost, CompleteLost, EndLost, Crash, Reads, history
    <3> QED BY <3>1, <3>2, <3>3
  <2>4. Calm \/ Paid
    BY Paying
  <2> QED BY <1>1, <2>1, <2>2, <2>3, <2>4, Elsewhere DEF LedgerInv
<1> QED BY <1>2, <1>3

(* Every step keeps every account.                                         *)
LEMMA CopiesStep ==
  ASSUME ConstantsAssumption, LedgerInv, CopiesInv, Next, TypeOK'
  PROVE  CopiesInv'
<1> SUFFICES ASSUME NEW j \in Jobs, NEW k \in 1..Parts[j]
             PROVE  got'[<<j, k>>] + Cardinality(Senders(j, k)') + One(Owed(j, k)') <= 1 + Trouble'
  BY DEF CopiesInv
<1>1. \E w : Even(w, j, k)
  <2>1. ASSUME NEW w \in Workers, WorkerStep(w) \/ WorkerFault(w) PROVE Even(w, j, k)
    BY <2>1, WorkerEven
  <2>2. ASSUME NEW w \in Workers, NEW i \in Jobs, Claim(w, i) \/ ClaimLost(w, i) PROVE Even(w, j, k)
    <3>1. CASE i = j
      BY <2>2, <3>1, ClaimEven
    <3>2. CASE i # j
      <4>1. PICK l \in Locks : rows' = [rows EXCEPT ![i] = Claimed(rows[i], l)]
        BY <2>2 DEF Claim, ClaimLost
      <4>2. rows'[j] = rows[j] /\ got' = got /\ att[w] = Idle
        BY <2>2, <3>2, <4>1 DEF Claim, ClaimLost, LedgerInv, ReceivedInv, TypeOK
      <4>3. /\ \A v \in Workers \ {w} : att'[v] = att[v]
            /\ att'[w] = Idle \/ att'[w].job = i
        BY <2>2, <4>2 DEF Claim, ClaimLost, LedgerInv, ReceivedInv, TypeOK
      <4>4. att[w].job # j /\ att'[w].job # j
        BY <3>2, <4>2, <4>3 DEF Idle, ConstantsAssumption
      <4>5. Calm \/ Paid
        BY <2>2 DEF Claim, ClaimLost, Fault, Calm, Paid
      <4> QED BY <4>2, <4>3, <4>4, <4>5, Elsewhere DEF LedgerInv
    <3> QED BY <3>1, <3>2
  <2>3. ASSUME NEW i \in Jobs, Program(i) \/ Tick(i) \/ Lapse(i) PROVE Even(0, j, k)
    BY <2>3, ProgramEven
  <2> QED BY <2>1, <2>2, <2>3 DEF Next
<1>2. PICK w : Even(w, j, k)
  BY <1>1
<1> QED BY <1>2, EvenKeeps DEF LedgerInv, ReceivedInv

(* A worker's count of the saved parts is right while it owns the row and  *)
(* never ahead of the row.                                                 *)
LEMMA KnowsStep ==
  ASSUME ConstantsAssumption, LedgerInv, Next
  PROVE  KnowsInv'
<1> SUFFICES ASSUME NEW w \in Workers, att'[w].at # "idle" PROVE Knows(w)'
  BY DEF KnowsInv, Knows
<1>0. /\ TypeOK /\ Knows(w) /\ rows \in [Jobs -> Row]
      /\ att \in [Workers -> Attempt \cup {Idle}]
  BY DEF LedgerInv, KnowsInv, ReceivedInv, TypeOK
<1>1. ASSUME SameHold(w), att[w].at # "idle", att[w].at = "claimed" => att'[w].at = "claimed"
      PROVE  Knows(w)'
  <2>1. Job(w) \in Jobs /\ Job(w)' = Job(w) /\ att'[w].parts = att[w].parts /\ att[w].parts \in Nat
    BY <1>0, <1>1, Working DEF SameHold, Job, Attempt
  <2>2. /\ rows[Job(w)].parts \in Nat /\ rows'[Job(w)].parts \in Nat
        /\ rows[Job(w)].parts <= rows'[Job(w)].parts
    BY <2>1, PartsGrow DEF LedgerInv
  <2>3. att[w].parts <= rows'[Job(w)].parts
    BY <1>0, <1>1, <2>1, <2>2 DEF Knows
  <2>4. Owns(w)' => Owns(w) /\ rows'[Job(w)].parts = rows[Job(w)].parts
    BY <1>0, <1>1, OwnershipKept
  <2> QED BY <1>0, <1>1, <2>1, <2>3, <2>4 DEF Knows
<1>2. ASSUME att'[w] = att[w] PROVE Knows(w)'
  BY <1>1, <1>2 DEF SameHold
<1>3. ASSUME NEW step, Goto(w, step), att[w].at \notin {"idle", "claimed"} PROVE Knows(w)'
  BY <1>0, <1>1, <1>3, HoldOf
<1>4. ASSUME Quit(w) PROVE Knows(w)'
  <2>1. att'[w] = Idle
    BY <1>0, <1>4 DEF Quit
  <2> QED BY <2>1 DEF Idle
<1>5. CASE Read(w)
  <2>1. /\ att'[w].parts = rows[Job(w)].parts /\ att'[w].job = att[w].job /\ rows' = rows
        /\ rows[Job(w)].parts \in Nat
    BY <1>0, <1>5, Working DEF Read, Reads, Attempt, Job, Row
  <2> QED BY <2>1 DEF Knows, Job
<1>6. CASE Save(w)
  <2>1. CASE Goto(w, "stale")
    BY <1>3, <1>6, <2>1 DEF Save
  <2>2. ASSUME NEW l \in Locks, Owns(w), rows[Job(w)].parts = att[w].parts,
               rows' = [rows EXCEPT ![Job(w)] = Renewed(rows[Job(w)], l)],
               att' = [att EXCEPT ![w] = [att[w] EXCEPT !.at = Onward(Job(w), att[w].parts + 1),
                                          !.parts = att[w].parts + 1, !.lock = l]]
        PROVE  Knows(w)'
    <3>1. att[w] \in Attempt /\ Job(w) \in Jobs /\ rows[Job(w)] \in Row
      BY <1>0, <1>6, Working DEF Save
    <3>2. att'[w].parts = att[w].parts + 1 /\ att'[w].job = att[w].job /\ att[w].parts \in Nat
      BY <1>0, <2>2, <3>1 DEF Attempt
    <3>3. rows'[Job(w)].parts = rows[Job(w)].parts + 1
      BY <1>0, <2>2, <3>1 DEF Renewed, Row
    <3> QED BY <2>2, <3>2, <3>3 DEF Knows, Job
  <2> QED BY <1>6, <2>1, <2>2 DEF Save
<1>7. ASSUME NEW v \in Workers, WorkerStep(v) \/ WorkerFault(v) PROVE Knows(w)'
  <2>1. CASE v # w
    <3>1. att'[w] = att[w]
      BY <1>0, <1>7, <2>1, Alone
    <3> QED BY <1>2, <3>1
  <2>2. CASE v = w
    <3>1. CASE \E step : Goto(w, step) /\ att[w].at \notin {"idle", "claimed"}
      BY <1>3, <3>1
    <3>2. \/ Read(w) \/ Save(w) \/ Quit(w)
          \/ \E step : Goto(w, step) /\ att[w].at \notin {"idle", "claimed"}
      BY <1>7, <2>2 DEF WorkerStep, WorkerFault, Judge, Unguard, Check, Send, Refuse, Complete, End,
           ReadFails, UnguardFails, SendLost, SaveLost, CompleteLost, EndLost, Crash
    <3> QED BY <1>4, <1>5, <1>6, <3>1, <3>2
  <2> QED BY <2>1, <2>2
<1>8. ASSUME NEW v \in Workers, NEW i \in Jobs, Claim(v, i) \/ ClaimLost(v, i) PROVE Knows(w)'
  <2>1. CASE att'[w] = att[w]
    BY <1>2, <2>1
  <2>2. CASE att'[w] = [at |-> "claimed", job |-> i, attempts |-> 0, lock |-> 0, parts |-> 0]
    <3>1. rows'[i].parts \in Nat
      BY <1>8, PartsGrow DEF LedgerInv
    <3> QED BY <2>2, <3>1 DEF Knows, Job
  <2> QED BY <1>0, <1>8, <2>1, <2>2 DEF Claim, ClaimLost
<1>9. ASSUME NEW i \in Jobs, Program(i) \/ Tick(i) \/ Lapse(i) PROVE Knows(w)'
  BY <1>2, <1>9 DEF Program, Insert, Commit, Obsolete, Clock, Resend, Rate, Tick, Lapse
<1> QED BY <1>7, <1>8, <1>9 DEF Next

(* At the start nobody sends, and one copy of every part is owed.          *)
LEMMA CopiesStart == ASSUME ConstantsAssumption, Init PROVE KnowsInv /\ CopiesInv
<1>1. KnowsInv
  BY DEF Init, KnowsInv, Knows, Idle
<1>2. ASSUME NEW j \in Jobs, NEW k \in 1..Parts[j]
      PROVE  got[<<j, k>>] + Cardinality(Senders(j, k)) + One(Owed(j, k)) <= 1 + Trouble
  <2>1. Senders(j, k) = {}
    BY <1>2 DEF Init, Senders, MaySend, Job, Idle, Ending
  <2>2. Cardinality(Senders(j, k)) = 0
    BY <2>1, FS_EmptySet
  <2>3. got[<<j, k>>] = 0
    BY SlotOf DEF Init
  <2>4. Trouble = 0 /\ One(Owed(j, k)) \in {0, 1}
    BY DEF Init, Trouble, One
  <2> QED BY <2>2, <2>3, <2>4
<1> QED BY <1>1, <1>2 DEF CopiesInv

(* Both hold always.                                                       *)
LEMMA CopiesAlways == Spec => [](KnowsInv /\ CopiesInv)
<1>1. Init => KnowsInv /\ CopiesInv
  BY CopiesStart, ConstantsAssumption
<1>2. ReceivedInv /\ ReceivedInv' /\ KnowsInv /\ CopiesInv /\ [Next]_vars => (KnowsInv /\ CopiesInv)'
  <2> SUFFICES ASSUME ReceivedInv, ReceivedInv', KnowsInv, CopiesInv, [Next]_vars
               PROVE  (KnowsInv /\ CopiesInv)'
    OBVIOUS
  <2>1. CASE Next
    BY <2>1, CopiesStep, KnowsStep, ConstantsAssumption DEF LedgerInv, ReceivedInv
  <2>2. CASE UNCHANGED vars
    <3>1. UNCHANGED <<rows, att, got, faults, crashes, lapses>>
      BY <2>2 DEF vars, history, budgets
    <3>2. KnowsInv'
      BY <3>1 DEF KnowsInv, Knows, Owns, Job
    <3>3. CopiesInv'
      <4>1. \A j, k : Senders(j, k)' = Senders(j, k)
        BY <3>1 DEF Senders, MaySend, Owns, Job
      <4>2. \A j, k : Owed(j, k)' = Owed(j, k)
        BY <3>1 DEF Owed, Free, Covers, Owns, Job
      <4>3. Trouble' = Trouble
        BY <3>1 DEF Trouble
      <4> QED BY <3>1, <4>1, <4>2, <4>3 DEF CopiesInv
    <3> QED BY <3>2, <3>3
  <2> QED BY <2>1, <2>2
<1> QED BY <1>1, <1>2, ReceivedAlways, PTL DEF Spec

(* A part is received twice only because something went wrong: each extra  *)
(* copy has a failed call, a crash or a lapsed lease of its own, whatever  *)
(* the number of workers, retries and resends.                             *)
THEOREM CopiesAccounted == Spec => []DuplicatesAccounted
<1>1. TypeOK /\ CopiesInv => DuplicatesAccounted
  <2> SUFFICES ASSUME TypeOK, CopiesInv, NEW j \in Jobs, NEW k \in 1..Parts[j]
               PROVE  got[<<j, k>>] <= 1 + faults + crashes + lapses
    BY DEF DuplicatesAccounted
  <2>1. got[<<j, k>>] \in Nat /\ faults \in Nat /\ crashes \in Nat /\ lapses \in Nat
    BY SlotOf DEF TypeOK
  <2>2. Cardinality(Senders(j, k)) \in Nat /\ One(Owed(j, k)) \in Nat
    BY SendersFinite, ConstantsAssumption DEF One
  <2>3. got[<<j, k>>] + Cardinality(Senders(j, k)) + One(Owed(j, k)) <= 1 + (faults + crashes + lapses)
    BY DEF CopiesInv, Trouble
  <2> QED BY <2>1, <2>2, <2>3
<1> QED BY <1>1, TypeCorrect, CopiesAlways, PTL
=============================================================================
