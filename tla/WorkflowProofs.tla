--------------------------- MODULE WorkflowProofs ---------------------------
(* Proofs about Workflow, for every number of incidents, employees, groups, *)
(* answers and reservations.                                                *)
EXTENDS Workflow, SequenceTheorems, TLAPS

-----------------------------------------------------------------------------
(* What the helpers return. *)

\* Reservations stay reservations.
LEMMA LockUpdates ==
  ASSUME NEW n \in Nat, NEW l \in Lock(n), NEW u \in Staff
  PROVE  /\ Freed(l) \in Lock(n)
         /\ [l EXCEPT !.live = FALSE] \in Lock(n)
         /\ l.term < n => Granted(l, u) \in Lock(n)
<1>1. Freed(l) \in Lock(n) /\ [l EXCEPT !.live = FALSE] \in Lock(n)
  BY DEF Lock, Freed
<1>2. ASSUME l.term < n PROVE Granted(l, u) \in Lock(n)
  <2>1. l.term + 1 \in 0..n
    BY <1>2 DEF Lock
  <2> QED BY <2>1 DEF Lock, Granted
<1> QED BY <1>1, <1>2

\* The fields of reservations after each change.
LEMMA LockFields ==
  ASSUME NEW n \in Nat, NEW l \in Lock(n), NEW u \in Staff
  PROVE  /\ l.by \in Staff \cup {NoOne} /\ l.term \in Nat /\ l.live \in BOOLEAN
         /\ Freed(l).by = NoOne /\ ~Freed(l).live /\ Freed(l).term = l.term
         /\ Granted(l, u).by = u /\ Granted(l, u).live /\ Granted(l, u).term = l.term + 1
         /\ [l EXCEPT !.live = FALSE].by = l.by /\ ~[l EXCEPT !.live = FALSE].live
         /\ [l EXCEPT !.live = FALSE].term = l.term
BY DEF Lock, Freed, Granted

\* What each kind of frame holds.
LEMMA FrameShape ==
  ASSUME TypeOK, NEW u \in Staff
  PROVE  /\ frame[u].op = "submit" =>
              frame[u].inc \in Incidents /\ frame[u].group \in Groups
              /\ frame[u].round \in 0..MaxRounds
         /\ frame[u].op \in {"approve", "revise", "reopen"} =>
              frame[u].inc \in Incidents /\ frame[u].answer \in 1..MaxAnswers
         /\ frame[u].op = "reopen" =>
              frame[u].row \in {"card", "post"} /\ frame[u].status \in {"WAITING_REVIEW", "RESOLVED"}
<1>1. frame[u] \in Frames
  BY DEF TypeOK
<1> QED BY <1>1 DEF Frames, Idle

\* One version of one incident is written.
LEMMA AnswerWritten ==
  ASSUME TypeOK, NEW i \in Incidents, NEW v \in DOMAIN answers[i], NEW a \in Answers,
         answers' = [answers EXCEPT ![i][v] = a]
  PROVE  /\ answers' \in [Incidents -> Seq(Answers)]
         /\ Len(answers'[i]) = Len(answers[i]) /\ DOMAIN answers'[i] = DOMAIN answers[i]
         /\ answers'[i][v] = a
         /\ \A w \in DOMAIN answers[i] : w # v => answers'[i][w] = answers[i][w]
         /\ \A j \in Incidents : j # i => answers'[j] = answers[j]
<1> DEFINE s == [answers[i] EXCEPT ![v] = a]
<1>1. answers[i] \in Seq(Answers) /\ v \in 1..Len(answers[i])
  BY DEF TypeOK
<1>2. /\ s \in Seq(Answers) /\ Len(s) = Len(answers[i])
      /\ \A w \in 1..Len(answers[i]) : s[w] = IF w = v THEN a ELSE answers[i][w]
  BY <1>1, ExceptSeq
<1>3. answers' = [answers EXCEPT ![i] = s]
  OBVIOUS
<1> HIDE DEF s
<1> QED BY <1>1, <1>2, <1>3 DEF TypeOK

\* A version is added.
LEMMA AnswerAdded ==
  ASSUME TypeOK, NEW i \in Incidents, NEW a \in Answers,
         answers' = [answers EXCEPT ![i] = Append(@, a)]
  PROVE  /\ answers' \in [Incidents -> Seq(Answers)]
         /\ Len(answers'[i]) = Len(answers[i]) + 1
         /\ answers'[i][Len(answers'[i])] = a
         /\ \A w \in DOMAIN answers[i] : w \in DOMAIN answers'[i] /\ answers'[i][w] = answers[i][w]
         /\ DOMAIN answers'[i] = DOMAIN answers[i] \cup {Len(answers'[i])}
         /\ \A j \in Incidents : j # i => answers'[j] = answers[j]
<1> DEFINE s == Append(answers[i], a)
<1>1. answers[i] \in Seq(Answers) /\ Len(answers[i]) \in Nat
  BY DEF TypeOK
<1>2. /\ s \in Seq(Answers) /\ Len(s) = Len(answers[i]) + 1
      /\ \A w \in 1..Len(answers[i]) : s[w] = answers[i][w]
      /\ s[Len(answers[i]) + 1] = a
  BY <1>1, AppendProperties
<1>3. answers' = [answers EXCEPT ![i] = s]
  OBVIOUS
<1> HIDE DEF s
<1>4. answers'[i] = s /\ answers' \in [Incidents -> Seq(Answers)]
  BY <1>2, <1>3 DEF TypeOK
<1>5. DOMAIN s = 1..Len(s) /\ DOMAIN answers[i] = 1..Len(answers[i])
  BY <1>1, <1>2
<1> QED BY <1>1, <1>2, <1>3, <1>4, <1>5 DEF TypeOK

\* Fields of versions.
LEMMA VersionUpdates ==
  ASSUME NEW a \in Answers, NEW u \in Staff \cup {NoOne}
  PROVE  /\ \A s \in {"WAITING_REVIEW", "APPROVED"}, c \in CardStates, p \in PostStates :
              Version(s, u, c, p) \in Answers
         /\ \A c \in CardStates : [a EXCEPT !.card = c] \in Answers
         /\ \A p \in PostStates : [a EXCEPT !.post = p] \in Answers
         /\ [a EXCEPT !.state = "REVISION_REQUIRED"] \in Answers
         /\ [a EXCEPT !.state = "APPROVED", !.by = u, !.post = "QUEUED"] \in Answers
         /\ [a EXCEPT !.delivered = TRUE, !.post = "SENT"] \in Answers
         /\ [a EXCEPT !.state = "REVISION_REQUIRED", !.card = "FENCED"] \in Answers
         /\ [a EXCEPT !.state = "REVISION_REQUIRED", !.post = "FENCED"] \in Answers
         /\ [a EXCEPT !.card = "NONE", !.post = "NONE"] \in Answers
BY DEF Answers, Version, CardStates, PostStates

-----------------------------------------------------------------------------
(* Type correctness: one step per action. *)

\* The facts a step of the proof needs about the incident it is about.
LEMMA LocksOf ==
  ASSUME TypeOK, NEW i \in Incidents
  PROVE  /\ claim[i] \in Lock(MaxClaims) /\ lease[i] \in Lock(MaxLeases)
         /\ review[i] \in Lock(MaxReviews)
         /\ Freed(claim[i]) \in Lock(MaxClaims) /\ Freed(lease[i]) \in Lock(MaxLeases)
         /\ Freed(review[i]) \in Lock(MaxReviews)
         /\ [claim[i] EXCEPT !.live = FALSE] \in Lock(MaxClaims)
         /\ [lease[i] EXCEPT !.live = FALSE] \in Lock(MaxLeases)
         /\ [review[i] EXCEPT !.live = FALSE] \in Lock(MaxReviews)
         /\ \A u \in Staff :
              /\ claim[i].term < MaxClaims => Granted(claim[i], u) \in Lock(MaxClaims)
              /\ lease[i].term < MaxLeases => Granted(lease[i], u) \in Lock(MaxLeases)
              /\ review[i].term < MaxReviews => Granted(review[i], u) \in Lock(MaxReviews)
<1>1. claim[i] \in Lock(MaxClaims) /\ lease[i] \in Lock(MaxLeases) /\ review[i] \in Lock(MaxReviews)
  BY DEF TypeOK
<1>2. MaxClaims \in Nat /\ MaxLeases \in Nat /\ MaxReviews \in Nat
  BY BoundsAssumption
<1>3. CASE Staff = {}
  BY <1>1, <1>2, <1>3 DEF Lock, Freed
<1>4. CASE Staff # {}
  BY <1>1, <1>2, <1>4, LockUpdates
<1> QED BY <1>3, <1>4

DraftSet == [by : Staff \cup {NoOne}, answer : 0..MaxAnswers, term : 0..MaxReviews]

LEMMA NoDraftOK == NoDraft \in DraftSet
BY BoundsAssumption DEF NoDraft, DraftSet

LEMMA TypesDistribute ==
  ASSUME IInv, NEW i \in Incidents, Distribute(i)
  PROVE  TypeOK'
<1> USE DEF row, locks
<1>0. TypeOK
  BY DEF IInv
<1>1. CASE Register(i)
  BY <1>0, <1>1 DEF TypeOK, Register, Statuses, Workable
<1>2. CASE ClaimExpires(i)
  BY <1>0, <1>2, LocksOf DEF TypeOK, ClaimExpires
<1>3. ASSUME NEW u \in Staff, Claim(u, i) PROVE TypeOK'
  BY <1>0, <1>3, LocksOf DEF TypeOK, Claim
<1>4. ASSUME NEW u \in Staff, ReleaseClaim(u, i) PROVE TypeOK'
  BY <1>0, <1>4, LocksOf DEF TypeOK, ReleaseClaim
<1>5. ASSUME NEW u \in Staff, Reject(u, i) PROVE TypeOK'
  <2> DEFINE s == [v \in DOMAIN answers[i] |-> [answers[i][v] EXCEPT !.card = "NONE", !.post = "NONE"]]
  <2>1. answers[i] \in Seq(Answers) /\ Len(answers[i]) \in Nat /\ DOMAIN answers[i] = 1..Len(answers[i])
    BY <1>0 DEF TypeOK
  <2>2. \A v \in DOMAIN answers[i] : [answers[i][v] EXCEPT !.card = "NONE", !.post = "NONE"] \in Answers
    <3> SUFFICES ASSUME NEW v \in DOMAIN answers[i]
                 PROVE  [answers[i][v] EXCEPT !.card = "NONE", !.post = "NONE"] \in Answers
      OBVIOUS
    <3>1. answers[i][v] \in Answers
      BY <2>1
    <3> QED BY <3>1 DEF Answers, CardStates, PostStates
  <2>3. s \in Seq(Answers) /\ Len(s) = Len(answers[i])
    <3>1. s \in [1..Len(answers[i]) -> Answers]
      BY <2>1, <2>2
    <3> HIDE DEF s
    <3> QED BY <2>1, <3>1
  <2>4. answers' = [answers EXCEPT ![i] = s]
    BY <1>5 DEF Reject
  <2>5. Closed(cycle[i]) \in {"NONE", "OPEN", "ENDED"}
    BY <1>0 DEF TypeOK, Closed
  <2> HIDE DEF s
  <2>6. answers' \in [Incidents -> Seq(Answers)] /\ \A j \in Incidents : Len(answers'[j]) <= MaxAnswers
    BY <1>0, <2>3, <2>4 DEF TypeOK
  <2>7. draft' \in [Incidents -> DraftSet]
    BY <1>0, <1>5, NoDraftOK DEF TypeOK, Reject, DraftSet
  <2> QED BY <1>0, <1>5, <2>5, <2>6, <2>7, LocksOf DEF TypeOK, Reject, Statuses, DraftSet
<1>6. ASSUME NEW u \in Staff, NEW g \in Groups, Assign(u, i, g) PROVE TypeOK'
  BY <1>0, <1>6, LocksOf DEF TypeOK, Assign, Statuses, Workable
<1> QED BY <1>1, <1>2, <1>3, <1>4, <1>5, <1>6 DEF Distribute

\* A reviewer dropped from an incident leaves locks and drafts of the right kind.
LEMMA DroppedTypes ==
  ASSUME TypeOK, NEW i \in Incidents, DropReviewer(i)
  PROVE  review' \in [Incidents -> Lock(MaxReviews)] /\ draft' \in [Incidents -> DraftSet]
BY LocksOf, NoDraftOK DEF TypeOK, DropReviewer, DraftSet

LEMMA WaitingWorkable ==
  ASSUME NEW i \in Incidents PROVE Waiting(i) \in Workable
BY DEF Waiting, Workable

LEMMA PutBackTypes ==
  ASSUME TypeOK, NEW i \in Incidents, PutBack(i)
  PROVE  /\ status' \in [Incidents -> Statuses \cup {"NONE"}]
         /\ responder' \in [Incidents -> Staff \cup {NoOne}]
         /\ lease' \in [Incidents -> Lock(MaxLeases)]
         /\ review' \in [Incidents -> Lock(MaxReviews)] /\ draft' \in [Incidents -> DraftSet]
BY LocksOf, WaitingWorkable, DroppedTypes DEF TypeOK, PutBack, Statuses

LEMMA TypesWork ==
  ASSUME IInv, NEW i \in Incidents, Work(i)
  PROVE  TypeOK'
<1> USE DEF row, locks
<1>0. TypeOK /\ RowFits
  BY DEF IInv
<1>1. CASE LeaseExpires(i)
  BY <1>0, <1>1, LocksOf DEF TypeOK, LeaseExpires
<1>2. CASE SweepRead(i)
  BY <1>0, <1>2, LocksOf DEF TypeOK, SweepRead, Lock
<1>3. CASE SweepLease(i)
  <2>1. 0 \in 0..MaxLeases
    BY BoundsAssumption
  <2>2. CASE PutBack(i)
    BY <1>0, <1>3, <2>1, <2>2, PutBackTypes DEF TypeOK, SweepLease, DraftSet
  <2>3. CASE ~PutBack(i)
    BY <1>0, <1>3, <2>1, <2>3, LocksOf DEF TypeOK, SweepLease
  <2> QED BY <2>2, <2>3
<1>4. ASSUME NEW u \in Staff, TakeInWork(u, i) PROVE TypeOK'
  <2>1. review' \in [Incidents -> Lock(MaxReviews)] /\ draft' \in [Incidents -> DraftSet]
    BY <1>0, <1>4, DroppedTypes DEF TakeInWork
  <2> QED BY <1>0, <1>4, <2>1, LocksOf DEF TypeOK, TakeInWork, Statuses, Workable, DraftSet
<1>5. ASSUME NEW u \in Staff, ReleaseLease(u, i) PROVE TypeOK'
  BY <1>0, <1>5, PutBackTypes DEF TypeOK, ReleaseLease, DraftSet
<1>6. ASSUME NEW u \in Staff, ReturnToDistribution(u, i) PROVE TypeOK'
  <2>1. Closed(cycle[i]) \in {"NONE", "OPEN", "ENDED"}
    BY <1>0 DEF TypeOK, Closed
  <2>2. round[i] + 1 \in 0..MaxRounds
    BY <1>0, <1>6, BoundsAssumption DEF TypeOK, ReturnToDistribution
  <2>3. review' \in [Incidents -> Lock(MaxReviews)] /\ draft' \in [Incidents -> DraftSet]
    BY <1>0, <1>6, DroppedTypes DEF ReturnToDistribution
  <2> QED BY <1>0, <1>6, <2>1, <2>2, <2>3, LocksOf
          DEF TypeOK, ReturnToDistribution, Statuses, DraftSet
<1>7. ASSUME NEW u \in Staff, BeginSubmit(u, i) PROVE TypeOK'
  <2>1. group[i] \in Groups /\ round[i] \in 0..MaxRounds
    BY <1>0, <1>7 DEF TypeOK, RowFits, BeginSubmit, Workable
  <2>2. [op |-> "submit", inc |-> i, group |-> group[i], round |-> round[i]] \in Frames
    BY <2>1 DEF Frames
  <2> QED BY <1>0, <1>7, <2>2 DEF TypeOK, BeginSubmit
<1> QED BY <1>1, <1>2, <1>3, <1>4, <1>5, <1>6, <1>7 DEF Work

\* The latest version of an incident in review or resolved.
LEMMA LatestOf ==
  ASSUME IInv, NEW i \in Incidents
  PROVE  /\ answers[i] \in Seq(Answers) /\ Latest(i) \in 0..MaxAnswers
         /\ DOMAIN answers[i] = 1..Latest(i)
         /\ \A v \in DOMAIN answers[i] : answers[i][v] \in Answers
         /\ status[i] \in {"WAITING_REVIEW", "RESOLVED"} =>
              Latest(i) \in 1..MaxAnswers /\ Latest(i) \in DOMAIN answers[i]
<1>1. answers[i] \in Seq(Answers) /\ Len(answers[i]) <= MaxAnswers /\ Len(answers[i]) \in Nat
  BY DEF IInv, TypeOK
<1>2. DOMAIN answers[i] = 1..Len(answers[i]) /\ \A v \in DOMAIN answers[i] : answers[i][v] \in Answers
  BY <1>1
<1> QED BY <1>1, <1>2, BoundsAssumption DEF IInv, RowFits, Latest

LEMMA TypesReview ==
  ASSUME IInv, NEW i \in Incidents, Review(i)
  PROVE  TypeOK'
<1> USE DEF row, locks
<1>0. TypeOK /\ RowFits
  BY DEF IInv
<1>1. CASE ReviewExpires(i)
  BY <1>0, <1>1, LocksOf DEF TypeOK, ReviewExpires
<1>2. CASE StaffRefresh(i)
  BY <1>0, <1>2, DroppedTypes DEF TypeOK, StaffRefresh, DraftSet
<1>3. ASSUME NEW u \in Staff, ClaimReview(u, i) PROVE TypeOK'
  BY <1>0, <1>3, LocksOf DEF TypeOK, ClaimReview
<1>4. ASSUME NEW u \in Staff, ReleaseReview(u, i) PROVE TypeOK'
  BY <1>0, <1>4, LocksOf, NoDraftOK DEF TypeOK, ReleaseReview, DraftSet
<1>5. ASSUME NEW u \in Staff, StartEdit(u, i) PROVE TypeOK'
  <2>1. review[i].term \in 0..MaxReviews
    BY <1>0, LocksOf DEF Lock
  <2>2. [by |-> u, answer |-> Latest(i), term |-> review[i].term] \in DraftSet
    BY <2>1, LatestOf DEF DraftSet
  <2> QED BY <1>0, <1>5, <2>2 DEF TypeOK, StartEdit, DraftSet
<1>6. ASSUME NEW u \in Staff, CancelEdit(u, i) PROVE TypeOK'
  BY <1>0, <1>6, NoDraftOK DEF TypeOK, CancelEdit, DraftSet
<1>7. ASSUME NEW u \in Staff, SaveCorrection(u, i) PROVE TypeOK'
  <2> DEFINE a == Version("WAITING_REVIEW", NoOne, "QUEUED", "NONE")
  <2>1. a \in Answers
    BY DEF Version, Answers, CardStates, PostStates
  <2>2. answers' = [answers EXCEPT ![i] = Append(@, a)]
    BY <1>7 DEF SaveCorrection
  <2> HIDE DEF a
  <2>3. answers' \in [Incidents -> Seq(Answers)] /\ \A j \in Incidents : Len(answers'[j]) <= MaxAnswers
    <3>1. Latest(i) + 1 <= MaxAnswers
      BY <1>7, LatestOf, BoundsAssumption DEF SaveCorrection
    <3> QED BY <1>0, <2>1, <2>2, <3>1, AnswerAdded DEF TypeOK, Latest
  <2> QED BY <1>0, <1>7, <2>3, NoDraftOK DEF TypeOK, SaveCorrection, DraftSet
<1>8. ASSUME NEW u \in Staff, NEW op \in {"approve", "revise"}, BeginDecision(u, i, op) PROVE TypeOK'
  <2>1. [op |-> op, inc |-> i, answer |-> Latest(i)] \in Frames
    BY <1>8, LatestOf DEF BeginDecision, Frames
  <2> QED BY <1>0, <1>8, <2>1 DEF TypeOK, BeginDecision
<1>9. ASSUME NEW u \in Staff, NEW r \in {"card", "post"}, BeginReopen(u, i, r) PROVE TypeOK'
  <2>1. [op |-> "reopen", inc |-> i, answer |-> Latest(i), row |-> r, status |-> status[i]] \in Frames
    BY <1>9, LatestOf DEF BeginReopen, Frames
  <2> QED BY <1>0, <1>9, <2>1 DEF TypeOK, BeginReopen
<1> QED BY <1>1, <1>2, <1>3, <1>4, <1>5, <1>6, <1>7, <1>8, <1>9 DEF Review

\* What each step of the outbox writes.
LEMMA OutgoingWritten ==
  ASSUME IInv, NEW i \in Incidents, NEW v \in DOMAIN answers[i],
         CardFails(i, v) \/ PostFails(i, v) \/ PostStale(i, v) \/ Deliver(i, v) \/ Resend(i, v)
  PROVE  \E a \in Answers :
           /\ answers' = [answers EXCEPT ![i][v] = a]
           /\ a.state = answers[i][v].state /\ a.by = answers[i][v].by
           /\ ~Deliver(i, v) => a.delivered = answers[i][v].delivered
<1> DEFINE b == answers[i][v]
<1>1. b \in Answers
  BY LatestOf
<1>2. CASE CardFails(i, v)
  <2> DEFINE a == [b EXCEPT !.card = "FAILED"]
  <2>1. answers' = [answers EXCEPT ![i][v] = a]
    BY <1>2 DEF CardFails
  <2>2. a \in Answers /\ a.state = b.state /\ a.by = b.by /\ a.delivered = b.delivered
    BY <1>1 DEF Answers, CardStates, PostStates
  <2> HIDE DEF a
  <2> QED BY <1>2, <2>1, <2>2
<1>3. CASE PostFails(i, v)
  <2> DEFINE a == [b EXCEPT !.post = "FAILED"]
  <2>1. answers' = [answers EXCEPT ![i][v] = a]
    BY <1>3 DEF PostFails
  <2>2. a \in Answers /\ a.state = b.state /\ a.by = b.by /\ a.delivered = b.delivered
    BY <1>1 DEF Answers, CardStates, PostStates
  <2> HIDE DEF a
  <2> QED BY <1>3, <2>1, <2>2
<1>4. CASE PostStale(i, v)
  <2> DEFINE a == [b EXCEPT !.post = "STALE"]
  <2>1. answers' = [answers EXCEPT ![i][v] = a]
    BY <1>4 DEF PostStale
  <2>2. a \in Answers /\ a.state = b.state /\ a.by = b.by /\ a.delivered = b.delivered
    BY <1>1 DEF Answers, CardStates, PostStates
  <2> HIDE DEF a
  <2> QED BY <1>4, <2>1, <2>2
<1>5. CASE Deliver(i, v)
  <2> DEFINE a == [b EXCEPT !.delivered = TRUE, !.post = "SENT"]
  <2>1. answers' = [answers EXCEPT ![i][v] = a]
    BY <1>5 DEF Deliver
  <2>2. a \in Answers /\ a.state = b.state /\ a.by = b.by
    BY <1>1 DEF Answers, CardStates, PostStates
  <2> HIDE DEF a
  <2> QED BY <1>5, <2>1, <2>2
<1>6. CASE Resend(i, v)
  <2> DEFINE a == [b EXCEPT !.post = "QUEUED"]
  <2>1. answers' = [answers EXCEPT ![i][v] = a]
    BY <1>6 DEF Resend
  <2>2. a \in Answers /\ a.state = b.state /\ a.by = b.by /\ a.delivered = b.delivered
    BY <1>1 DEF Answers, CardStates, PostStates
  <2> HIDE DEF a
  <2> QED BY <1>6, <2>1, <2>2
<1> QED BY <1>2, <1>3, <1>4, <1>5, <1>6

LEMMA TypesOutgoing ==
  ASSUME IInv, NEW i \in Incidents, Outgoing(i)
  PROVE  TypeOK'
<1> USE DEF row, locks
<1>0. TypeOK
  BY DEF IInv
<1>1. PICK v \in DOMAIN answers[i] :
        CardFails(i, v) \/ PostFails(i, v) \/ PostStale(i, v) \/ Deliver(i, v) \/ Resend(i, v)
  BY DEF Outgoing
<1>3. PICK a \in Answers : answers' = [answers EXCEPT ![i][v] = a]
  BY <1>1, OutgoingWritten
<1>4. answers' \in [Incidents -> Seq(Answers)] /\ \A j \in Incidents : Len(answers'[j]) <= MaxAnswers
  BY <1>0, <1>3, AnswerWritten DEF TypeOK
<1>5. cycle' \in [Incidents -> {"NONE", "OPEN", "ENDED"}]
  BY <1>0, <1>1 DEF TypeOK, CardFails, PostFails, PostStale, Deliver, Resend, Closed
<1>6. UNCHANGED <<status, group, responder, rework, round, claim, lease, frame, swept, torn>>
  BY <1>1 DEF CardFails, PostFails, PostStale, Deliver, Resend
<1>7. DropReviewer(i) \/ UNCHANGED <<review, draft>>
  BY <1>1 DEF CardFails, PostFails, PostStale, Deliver, Resend
<1>8. review' \in [Incidents -> Lock(MaxReviews)] /\ draft' \in [Incidents -> DraftSet]
  BY <1>0, <1>7, DroppedTypes DEF TypeOK, DraftSet
<1> QED BY <1>0, <1>4, <1>5, <1>6, <1>8 DEF TypeOK, DraftSet

\* An answer that may be decided is the latest of an incident in review.
LEMMA Decides ==
  ASSUME IInv, NEW u \in Staff, MayDecide(u, frame[u].inc), frame[u].op \in {"approve", "revise"}
  PROVE  LET i == frame[u].inc IN
         /\ i \in Incidents /\ status[i] = "WAITING_REVIEW" /\ frame[u].answer = Latest(i)
         /\ Latest(i) \in DOMAIN answers[i] /\ answers[i][Latest(i)] \in Answers
<1>1. frame[u].inc \in Incidents
  BY FrameShape DEF IInv
<1> QED BY <1>1, LatestOf DEF MayDecide, SeenIsLatest

\* A reopening finds the version it has read.
LEMMA Reopens ==
  ASSUME IInv, NEW u \in Staff, frame[u].op = "reopen"
  PROVE  LET i == frame[u].inc IN
         /\ i \in Incidents /\ frame[u].answer \in DOMAIN answers[i]
         /\ answers[i][frame[u].answer] \in Answers
         /\ status[i] \in {"WAITING_REVIEW", "RESOLVED", "REVISION_REQUIRED"}
<1>1. frame[u].inc \in Incidents /\ frame[u].answer \in 1..MaxAnswers
  BY FrameShape DEF IInv
<1>2. frame[u].answer <= Latest(frame[u].inc) /\ status[frame[u].inc] \in {"WAITING_REVIEW", "RESOLVED", "REVISION_REQUIRED"}
  BY DEF IInv, FrameFits
<1>3. frame[u].answer \in DOMAIN answers[frame[u].inc]
  BY <1>1, <1>2, LatestOf, BoundsAssumption
<1> QED BY <1>1, <1>2, <1>3, LatestOf

\* What each deciding handler writes.
LEMMA DecisionWritten ==
  ASSUME IInv, NEW u \in Staff, Approve(u) \/ RequestRevision(u) \/ Reopen(u)
  PROVE  LET i == frame[u].inc v == frame[u].answer IN
         \E a \in Answers :
            /\ answers' = [answers EXCEPT ![i][v] = a]
            /\ i \in Incidents /\ v \in DOMAIN answers[i]
            /\ a.delivered = answers[i][v].delivered
            /\ Approve(u) => a.state = "APPROVED" /\ a.by = u
            /\ ~Approve(u) => a.state = "REVISION_REQUIRED" /\ a.by = answers[i][v].by
<1> DEFINE i == frame[u].inc v == frame[u].answer b == answers[i][v]
<1>1. CASE Approve(u)
  <2>1. i \in Incidents /\ v \in DOMAIN answers[i] /\ b \in Answers
    BY <1>1, Decides DEF Approve, MayDecide, SeenIsLatest
  <2> DEFINE a == [b EXCEPT !.state = "APPROVED", !.by = u, !.post = "QUEUED"]
  <2>2. answers' = [answers EXCEPT ![i][v] = a]
    BY <1>1 DEF Approve
  <2>3. a \in Answers /\ a.delivered = b.delivered /\ a.state = "APPROVED" /\ a.by = u
    BY <2>1 DEF Answers, PostStates
  <2> HIDE DEF a
  <2> QED BY <1>1, <2>1, <2>2, <2>3
<1>2. CASE RequestRevision(u) /\ ~Approve(u)
  <2>1. i \in Incidents /\ v \in DOMAIN answers[i] /\ b \in Answers
    BY <1>2, Decides DEF RequestRevision, MayDecide, SeenIsLatest
  <2> DEFINE a == [b EXCEPT !.state = "REVISION_REQUIRED"]
  <2>2. answers' = [answers EXCEPT ![i][v] = a]
    BY <1>2 DEF RequestRevision
  <2>3. a \in Answers /\ a.delivered = b.delivered /\ a.state = "REVISION_REQUIRED" /\ a.by = b.by
    BY <2>1 DEF Answers
  <2> HIDE DEF a
  <2> QED BY <1>2, <2>1, <2>2, <2>3
<1>3. CASE Reopen(u) /\ ~Approve(u)
  <2>1. i \in Incidents /\ v \in DOMAIN answers[i] /\ b \in Answers
    BY <1>3, Reopens DEF Reopen
  <2>2. CASE frame[u].row = "card"
    <3> DEFINE a == [b EXCEPT !.state = "REVISION_REQUIRED", !.card = "FENCED"]
    <3>1. answers' = [answers EXCEPT ![i][v] = a]
      BY <1>3, <2>2 DEF Reopen
    <3>2. a \in Answers /\ a.delivered = b.delivered /\ a.state = "REVISION_REQUIRED" /\ a.by = b.by
      BY <2>1 DEF Answers, CardStates
    <3> HIDE DEF a
    <3> QED BY <1>3, <2>1, <3>1, <3>2
  <2>3. CASE frame[u].row # "card"
    <3> DEFINE a == [b EXCEPT !.state = "REVISION_REQUIRED", !.post = "FENCED"]
    <3>1. answers' = [answers EXCEPT ![i][v] = a]
      BY <1>3, <2>3 DEF Reopen
    <3>2. a \in Answers /\ a.delivered = b.delivered /\ a.state = "REVISION_REQUIRED" /\ a.by = b.by
      BY <2>1 DEF Answers, PostStates
    <3> HIDE DEF a
    <3> QED BY <1>3, <2>1, <3>1, <3>2
  <2> QED BY <2>2, <2>3
<1> QED BY <1>1, <1>2, <1>3

\* What a submission adds.
LEMMA SubmitWritten ==
  ASSUME IInv, NEW u \in Staff, Submit(u)
  PROVE  LET i == frame[u].inc IN
         \E a \in Answers :
            /\ answers' = [answers EXCEPT ![i] = Append(@, a)]
            /\ i \in Incidents /\ Latest(i) + 1 <= MaxAnswers
            /\ ~a.delivered
            /\ a.state = IF Direct(u) THEN "APPROVED" ELSE "WAITING_REVIEW"
<1> DEFINE i == frame[u].inc
<1>1. i \in Incidents /\ Latest(i) + 1 <= MaxAnswers
  BY FrameShape, LatestOf, BoundsAssumption DEF IInv, Submit
<1>2. CASE Direct(u)
  <2> DEFINE a == Version("APPROVED", NoOne, "NONE", "QUEUED")
  <2>1. answers' = [answers EXCEPT ![i] = Append(@, a)]
    BY <1>2 DEF Submit
  <2>2. a \in Answers /\ ~a.delivered /\ a.state = "APPROVED"
    BY DEF Version, Answers, CardStates, PostStates
  <2> HIDE DEF a
  <2> QED BY <1>1, <1>2, <2>1, <2>2
<1>3. CASE ~Direct(u)
  <2> DEFINE a == Version("WAITING_REVIEW", NoOne, "QUEUED", "NONE")
  <2>1. answers' = [answers EXCEPT ![i] = Append(@, a)]
    BY <1>3 DEF Submit
  <2>2. a \in Answers /\ ~a.delivered /\ a.state = "WAITING_REVIEW"
    BY DEF Version, Answers, CardStates, PostStates
  <2> HIDE DEF a
  <2> QED BY <1>1, <1>3, <2>1, <2>2
<1> QED BY <1>2, <1>3

LEMMA TypesFinish ==
  ASSUME IInv, NEW u \in Staff, Finish(u)
  PROVE  TypeOK'
<1> USE DEF row, locks
<1>0. TypeOK
  BY DEF IInv
<1>1. frame' \in [Staff -> Frames]
  <2>1. Idle \in Frames
    BY DEF Frames
  <2>2. frame' = [frame EXCEPT ![u] = Idle]
    BY DEF Finish, Submit, Approve, RequestRevision, Reopen, Abandon
  <2> QED BY <1>0, <2>1, <2>2 DEF TypeOK
<1>2. CASE Abandon(u)
  BY <1>0, <1>1, <1>2 DEF TypeOK, Abandon
<1>3. CASE Submit(u)
  <2>1. frame[u].inc \in Incidents
    BY <1>0, <1>3, FrameShape DEF Submit
  <2>2. PICK i \in Incidents, a \in Answers :
          /\ i = frame[u].inc /\ answers' = [answers EXCEPT ![i] = Append(@, a)]
          /\ Latest(i) + 1 <= MaxAnswers
    BY <1>3, <2>1, SubmitWritten
  <2>3. answers' \in [Incidents -> Seq(Answers)] /\ \A j \in Incidents : Len(answers'[j]) <= MaxAnswers
    <3>1. /\ answers' \in [Incidents -> Seq(Answers)] /\ Len(answers'[i]) = Len(answers[i]) + 1
          /\ \A j \in Incidents : j # i => answers'[j] = answers[j]
      BY <1>0, <2>2, AnswerAdded
    <3> QED BY <1>0, <2>2, <3>1 DEF TypeOK, Latest
  <2>4. DropReviewer(i) \/ UNCHANGED <<review, draft>>
    BY <1>3, <2>2 DEF Submit
  <2>5. review' \in [Incidents -> Lock(MaxReviews)] /\ draft' \in [Incidents -> DraftSet]
    BY <1>0, <2>4, DroppedTypes DEF TypeOK, DraftSet
  <2> QED BY <1>0, <1>1, <1>3, <2>1, <2>3, <2>5, LocksOf DEF TypeOK, Submit, Statuses, DraftSet
<1>4. CASE Approve(u) \/ RequestRevision(u) \/ Reopen(u)
  <2>1. PICK a \in Answers :
          /\ answers' = [answers EXCEPT ![frame[u].inc][frame[u].answer] = a]
          /\ frame[u].inc \in Incidents /\ frame[u].answer \in DOMAIN answers[frame[u].inc]
    BY <1>4, DecisionWritten
  <2>2. answers' \in [Incidents -> Seq(Answers)] /\ \A j \in Incidents : Len(answers'[j]) <= MaxAnswers
    BY <1>0, <2>1, AnswerWritten DEF TypeOK
  <2>3. status' \in [Incidents -> Statuses \cup {"NONE"}] /\ rework' \in [Incidents -> BOOLEAN]
        /\ torn' \subseteq Incidents
    BY <1>0, <1>4, <2>1 DEF TypeOK, Approve, RequestRevision, Reopen, Statuses, Workable
  <2>4. UNCHANGED <<group, responder, round, cycle, claim, lease, swept>>
    BY <1>4 DEF Approve, RequestRevision, Reopen
  <2>5. DropReviewer(frame[u].inc) \/ UNCHANGED <<review, draft>>
    BY <1>4 DEF Approve, RequestRevision, Reopen
  <2>6. review' \in [Incidents -> Lock(MaxReviews)] /\ draft' \in [Incidents -> DraftSet]
    BY <1>0, <2>1, <2>5, DroppedTypes DEF TypeOK, DraftSet
  <2> QED BY <1>0, <1>1, <2>2, <2>3, <2>4, <2>6 DEF TypeOK, DraftSet
<1> QED BY <1>2, <1>3, <1>4 DEF Finish

LEMMA TypesSweep ==
  ASSUME IInv, SweepClaims \/ SweepReviews
  PROVE  TypeOK'
<1> USE DEF row, locks
<1>0. TypeOK
  BY DEF IInv
<1>1. CASE SweepClaims
  BY <1>0, <1>1, LocksOf DEF TypeOK, SweepClaims
<1>2. CASE SweepReviews
  BY <1>0, <1>2, LocksOf, NoDraftOK DEF TypeOK, SweepReviews, Kept, DraftSet
<1> QED BY <1>1, <1>2

LEMMA TypesStep == ASSUME IInv, Next PROVE TypeOK'
BY TypesDistribute, TypesWork, TypesReview, TypesOutgoing, TypesFinish, TypesSweep DEF Next

-----------------------------------------------------------------------------
(* Reservations: what the invariant says of the locks of one incident. *)

LockRow(j) ==
  /\ status[j] # "DISTRIBUTION" => claim[j].by = NoOne
  /\ claim[j].live => claim[j].by # NoOne
  /\ (status[j] = "IN_PROGRESS") <=> (lease[j].by # NoOne)
  /\ lease[j].by # NoOne => responder[j] = lease[j].by
  /\ swept[j] <= lease[j].term
  /\ swept[j] # 0 /\ swept[j] = lease[j].term => ~lease[j].live

LEMMA LockRows ==
  (\A j \in Incidents : LockRow(j)) <=> (ClaimsQueued /\ LiveHeld /\ InProgressHeld /\ SweptExpired)
BY DEF LockRow, ClaimsQueued, LiveHeld, InProgressHeld, SweptExpired

\* What is used of one incident before a step.
LEMMA LockFacts ==
  ASSUME IInv, NEW j \in Incidents
  PROVE  /\ LockRow(j)
         /\ status[j] \in Statuses \cup {"NONE"} /\ swept[j] \in Nat
         /\ claim[j].by \in Staff \cup {NoOne} /\ lease[j].by \in Staff \cup {NoOne}
         /\ lease[j].term \in Nat
         /\ Freed(claim[j]).by = NoOne /\ ~Freed(claim[j]).live
         /\ Freed(lease[j]).by = NoOne /\ ~Freed(lease[j]).live /\ Freed(lease[j]).term = lease[j].term
         /\ [claim[j] EXCEPT !.live = FALSE].by = claim[j].by /\ ~[claim[j] EXCEPT !.live = FALSE].live
         /\ [lease[j] EXCEPT !.live = FALSE].by = lease[j].by /\ ~[lease[j] EXCEPT !.live = FALSE].live
         /\ [lease[j] EXCEPT !.live = FALSE].term = lease[j].term
         /\ \A u \in Staff :
              /\ Granted(claim[j], u).by = u /\ Granted(claim[j], u).live
              /\ Granted(lease[j], u).by = u /\ Granted(lease[j], u).live
              /\ Granted(lease[j], u).term = lease[j].term + 1
<1>1. LockRow(j)
  BY LockRows DEF IInv
<1>2. claim[j] \in Lock(MaxClaims) /\ lease[j] \in Lock(MaxLeases)
  BY DEF IInv, TypeOK
<1>3. status[j] \in Statuses \cup {"NONE"} /\ swept[j] \in Nat
  BY BoundsAssumption DEF IInv, TypeOK
<1>4. claim[j].by \in Staff \cup {NoOne} /\ lease[j].by \in Staff \cup {NoOne} /\ lease[j].term \in Nat
  BY <1>2, BoundsAssumption DEF Lock
<1>5. /\ Freed(claim[j]).by = NoOne /\ ~Freed(claim[j]).live
      /\ Freed(lease[j]).by = NoOne /\ ~Freed(lease[j]).live /\ Freed(lease[j]).term = lease[j].term
  BY <1>2 DEF Lock, Freed
<1>6. /\ [claim[j] EXCEPT !.live = FALSE].by = claim[j].by /\ ~[claim[j] EXCEPT !.live = FALSE].live
      /\ [lease[j] EXCEPT !.live = FALSE].by = lease[j].by /\ ~[lease[j] EXCEPT !.live = FALSE].live
      /\ [lease[j] EXCEPT !.live = FALSE].term = lease[j].term
  BY <1>2 DEF Lock
<1>7. \A u \in Staff :
         /\ Granted(claim[j], u).by = u /\ Granted(claim[j], u).live
         /\ Granted(lease[j], u).by = u /\ Granted(lease[j], u).live
         /\ Granted(lease[j], u).term = lease[j].term + 1
  BY DEF Granted
<1> QED BY <1>1, <1>3, <1>4, <1>5, <1>6, <1>7

LEMMA LocksDistribute ==
  ASSUME IInv, NEW i \in Incidents, Distribute(i), NEW j \in Incidents
  PROVE  LockRow(j)'
<1> USE DEF row, locks
<1>0. TypeOK
  BY DEF IInv
<1>1. CASE Register(i)
  BY <1>0, <1>1, LockFacts DEF TypeOK, LockRow, Register
<1>2. CASE ClaimExpires(i)
  BY <1>0, <1>2, LockFacts DEF TypeOK, LockRow, ClaimExpires
<1>3. ASSUME NEW u \in Staff, Claim(u, i) PROVE LockRow(j)'
  BY <1>0, <1>3, LockFacts, StaffAssumption DEF TypeOK, LockRow, Claim
<1>4. ASSUME NEW u \in Staff, ReleaseClaim(u, i) PROVE LockRow(j)'
  BY <1>0, <1>4, LockFacts DEF TypeOK, LockRow, ReleaseClaim
<1>5. ASSUME NEW u \in Staff, Reject(u, i) PROVE LockRow(j)'
  BY <1>0, <1>5, LockFacts DEF TypeOK, LockRow, Reject
<1>6. ASSUME NEW u \in Staff, NEW g \in Groups, Assign(u, i, g) PROVE LockRow(j)'
  BY <1>0, <1>6, LockFacts DEF TypeOK, LockRow, Assign
<1> QED BY <1>1, <1>2, <1>3, <1>4, <1>5, <1>6 DEF Distribute

\* Nobody works on an incident that was put back.
LEMMA LocksPutBack ==
  ASSUME IInv, NEW i \in Incidents, PutBack(i), status[i] \in Workable, claim' = claim,
         swept'[i] \in {0, swept[i]}, \A j \in Incidents \ {i} : swept'[j] = swept[j],
         NEW j \in Incidents
  PROVE  LockRow(j)'
<1>1. TypeOK
  BY DEF IInv
<1>2. Waiting(i) \in {"REVISION_REQUIRED", "ASSIGNED"}
  BY DEF Waiting
<1>3. status[i] # "DISTRIBUTION"
  BY DEF Workable
<1> QED BY <1>1, <1>2, <1>3, LockFacts DEF TypeOK, PutBack, LockRow

\* The sweep finds the reservation it has read only while it is on record, and
\* then somebody works on the incident.
LEMMA SweepFrees ==
  ASSUME IInv, NEW i \in Incidents, SweepLease(i)
  PROVE  \/ status[i] \in Workable /\ PutBack(i) /\ SameLease(i)
         \/ UNCHANGED <<status, responder, lease>>
<1>1. SameLease(i) => status[i] \in Workable
  BY LockFacts DEF SameLease, LockRow, Workable
<1>2. [lease EXCEPT ![i] = lease[i]] = lease
  BY DEF IInv, TypeOK
<1> QED BY <1>1, <1>2 DEF SweepLease

LEMMA LocksWork ==
  ASSUME IInv, NEW i \in Incidents, Work(i), NEW j \in Incidents
  PROVE  LockRow(j)'
<1> USE DEF row, locks
<1>0. TypeOK
  BY DEF IInv
<1>1. CASE LeaseExpires(i)
  BY <1>0, <1>1, LockFacts DEF TypeOK, LockRow, LeaseExpires
<1>2. CASE SweepRead(i)
  BY <1>0, <1>2, LockFacts DEF TypeOK, LockRow, SweepRead, Expired
<1>3. CASE SweepLease(i)
  <2>1. claim' = claim /\ swept'[i] = 0 /\ \A k \in Incidents \ {i} : swept'[k] = swept[k]
    BY <1>0, <1>3 DEF SweepLease, TypeOK
  <2>2. CASE UNCHANGED <<status, responder, lease>>
    BY <2>1, <2>2, LockFacts DEF LockRow
  <2>3. CASE status[i] \in Workable /\ PutBack(i)
    BY <2>1, <2>3, LocksPutBack
  <2> QED BY <1>3, <2>2, <2>3, SweepFrees
<1>4. ASSUME NEW u \in Staff, TakeInWork(u, i) PROVE LockRow(j)'
  BY <1>0, <1>4, LockFacts, StaffAssumption DEF TypeOK, LockRow, TakeInWork, Takeable, Workable
<1>5. ASSUME NEW u \in Staff, ReleaseLease(u, i) PROVE LockRow(j)'
  BY <1>5, LocksPutBack DEF ReleaseLease
<1>6. ASSUME NEW u \in Staff, ReturnToDistribution(u, i) PROVE LockRow(j)'
  BY <1>0, <1>6, LockFacts DEF TypeOK, LockRow, ReturnToDistribution
<1>7. ASSUME NEW u \in Staff, BeginSubmit(u, i) PROVE LockRow(j)'
  BY <1>7, LockFacts DEF LockRow, BeginSubmit
<1> QED BY <1>1, <1>2, <1>3, <1>4, <1>5, <1>6, <1>7 DEF Work

LEMMA LocksOther ==
  ASSUME IInv, NEW j \in Incidents,
         \/ SweepClaims \/ SweepReviews
         \/ \E i \in Incidents : Review(i) \/ Outgoing(i)
         \/ \E u \in Staff : Finish(u)
  PROVE  LockRow(j)'
<1> USE DEF row, locks
<1>0. TypeOK
  BY DEF IInv
<1>1. CASE SweepClaims
  BY <1>0, <1>1, LockFacts DEF TypeOK, LockRow, SweepClaims
<1>2. CASE UNCHANGED <<status, responder, claim, lease, swept>>
  BY <1>2, LockFacts DEF LockRow
<1>3. ASSUME NEW u \in Staff, Submit(u) PROVE LockRow(j)'
  <2>1. frame[u].inc \in Incidents
    BY <1>0, <1>3, FrameShape DEF Submit
  <2>2. PICK i \in Incidents : i = frame[u].inc
    BY <2>1
  <2>3. PICK s \in {"RESOLVED", "WAITING_REVIEW"} : status' = [status EXCEPT ![i] = s]
    BY <1>3, <2>2 DEF Submit
  <2>4. /\ status[i] \in Workable /\ responder' = [responder EXCEPT ![i] = u]
        /\ lease' = [lease EXCEPT ![i] = Freed(@)] /\ UNCHANGED <<claim, swept>>
    BY <1>3, <2>2 DEF Submit
  <2> QED BY <1>0, <2>3, <2>4, LockFacts DEF TypeOK, LockRow, Workable
<1>4. ASSUME NEW u \in Staff, Approve(u) \/ RequestRevision(u) PROVE LockRow(j)'
  <2>1. frame[u].inc \in Incidents /\ status[frame[u].inc] = "WAITING_REVIEW"
    BY <1>4, Decides DEF Approve, RequestRevision
  <2>2. PICK i \in Incidents : i = frame[u].inc /\ status[i] = "WAITING_REVIEW"
    BY <2>1
  <2>3. PICK s \in {"RESOLVED", "REVISION_REQUIRED"} : status' = [status EXCEPT ![i] = s]
    BY <1>4, <2>2 DEF Approve, RequestRevision
  <2>4. UNCHANGED <<responder, claim, lease, swept>>
    BY <1>4 DEF Approve, RequestRevision
  <2> QED BY <1>0, <2>2, <2>3, <2>4, LockFacts DEF TypeOK, LockRow
<1>5. ASSUME NEW u \in Staff, Reopen(u) PROVE LockRow(j)'
  <2>1. frame[u].inc \in Incidents
        /\ status[frame[u].inc] \in {"WAITING_REVIEW", "RESOLVED", "REVISION_REQUIRED"}
    BY <1>5, Reopens DEF Reopen
  <2> QED BY <1>0, <1>5, <2>1, LockFacts DEF TypeOK, LockRow, Reopen
<1>6. CASE SweepReviews
  BY <1>2, <1>6 DEF SweepReviews
<1>7. ASSUME NEW i \in Incidents, Review(i) PROVE LockRow(j)'
  BY <1>2, <1>7 DEF Review, ReviewExpires, StaffRefresh, ClaimReview, ReleaseReview, StartEdit,
       CancelEdit, SaveCorrection, BeginDecision, BeginReopen
<1>8. ASSUME NEW i \in Incidents, Outgoing(i) PROVE LockRow(j)'
  BY <1>2, <1>8 DEF Outgoing, CardFails, PostFails, PostStale, Deliver, Resend
<1>9. ASSUME NEW u \in Staff, Abandon(u) PROVE LockRow(j)'
  BY <1>2, <1>9 DEF Abandon
<1> QED BY <1>1, <1>3, <1>4, <1>5, <1>6, <1>7, <1>8, <1>9 DEF Finish

LEMMA LocksStep ==
  ASSUME IInv, Next
  PROVE  (ClaimsQueued /\ LiveHeld /\ InProgressHeld /\ SweptExpired)'
<1>1. \A j \in Incidents : LockRow(j)'
  BY LocksDistribute, LocksWork, LocksOther DEF Next
<1> QED BY <1>1 DEF LockRow, ClaimsQueued, LiveHeld, InProgressHeld, SweptExpired

-----------------------------------------------------------------------------
(* One claim for each operator: only Claim gives one. *)

Old(j) ==
  status'[j] = "DISTRIBUTION" /\ claim'[j].live =>
    status[j] = "DISTRIBUTION" /\ claim[j].live /\ claim'[j].by = claim[j].by

LEMMA ClaimsOld ==
  ASSUME IInv, Next, NEW j \in Incidents
  PROVE  Old(j) \/ \E u \in Staff : Claim(u, j)
<1> USE DEF row, locks
<1>0. TypeOK
  BY DEF IInv
<1>1. ASSUME NEW i \in Incidents, Register(i) PROVE Old(j)
  BY <1>0, <1>1, LockFacts DEF TypeOK, LockRow, Old, Register
<1>2. ASSUME NEW i \in Incidents, ClaimExpires(i) PROVE Old(j)
  BY <1>0, <1>2, LockFacts DEF TypeOK, Old, ClaimExpires
<1>3. ASSUME NEW i \in Incidents, NEW u \in Staff, Claim(u, i) PROVE Old(j) \/ Claim(u, j)
  <2>1. j # i => claim'[j] = claim[j] /\ status' = status
    BY <1>0, <1>3 DEF TypeOK, Claim
  <2> QED BY <1>3, <2>1 DEF Old
<1>4. ASSUME NEW i \in Incidents, NEW u \in Staff, ReleaseClaim(u, i) \/ Reject(u, i) PROVE Old(j)
  <2>1. \/ j # i /\ claim'[j] = claim[j] /\ status'[j] = status[j]
        \/ claim'[j] = Freed(claim[j])
    BY <1>0, <1>4 DEF TypeOK, ReleaseClaim, Reject
  <2> QED BY <2>1, LockFacts DEF Old
<1>5. ASSUME NEW i \in Incidents, NEW u \in Staff, NEW g \in Groups, Assign(u, i, g) PROVE Old(j)
  BY <1>0, <1>5, LockFacts DEF TypeOK, Old, Assign
<1>6. CASE SweepClaims
  BY <1>0, <1>6, LockFacts DEF TypeOK, Old, SweepClaims
<1>7. ASSUME NEW i \in Incidents, NEW u \in Staff, ReturnToDistribution(u, i) PROVE Old(j)
  BY <1>0, <1>7, LockFacts DEF TypeOK, Old, ReturnToDistribution
<1>8. ASSUME NEW i \in Incidents, PutBack(i), claim' = claim PROVE Old(j)
  BY <1>0, <1>8, WaitingWorkable DEF TypeOK, Old, PutBack, Workable
<1>9. ASSUME UNCHANGED <<status, claim>> PROVE Old(j)
  BY <1>9 DEF Old
<1>10. ASSUME NEW i \in Incidents, SweepLease(i) PROVE Old(j)
  <2>1. claim' = claim
    BY <1>10 DEF SweepLease
  <2>2. PutBack(i) \/ status' = status
    BY <1>10, SweepFrees
  <2> QED BY <1>8, <1>9, <2>1, <2>2
<1>11. ASSUME NEW i \in Incidents, NEW u \in Staff, TakeInWork(u, i) \/ ReleaseLease(u, i) PROVE Old(j)
  <2>1. CASE TakeInWork(u, i)
    BY <1>0, <2>1 DEF TypeOK, Old, TakeInWork
  <2>2. CASE ReleaseLease(u, i)
    BY <1>8, <2>2 DEF ReleaseLease
  <2> QED BY <1>11, <2>1, <2>2
<1>12. ASSUME NEW u \in Staff, Submit(u) \/ Approve(u) \/ RequestRevision(u) \/ Reopen(u) PROVE Old(j)
  <2>1. claim' = claim
    BY <1>12 DEF Submit, Approve, RequestRevision, Reopen
  <2>2. status'[j] # "DISTRIBUTION" \/ status'[j] = status[j]
    BY <1>0, <1>12 DEF TypeOK, Submit, Approve, RequestRevision, Reopen
  <2> QED BY <2>1, <2>2 DEF Old
<1>13. ASSUME NEW i \in Incidents, Distribute(i) PROVE Old(j) \/ \E u \in Staff : Claim(u, j)
  BY <1>1, <1>2, <1>3, <1>4, <1>5, <1>13 DEF Distribute
<1>14. ASSUME NEW i \in Incidents, Work(i) PROVE Old(j)
  <2>1. ASSUME NEW u \in Staff, BeginSubmit(u, i) PROVE UNCHANGED <<status, claim>>
    BY <2>1 DEF BeginSubmit
  <2>2. CASE LeaseExpires(i) \/ SweepRead(i)
    BY <1>9, <2>2 DEF LeaseExpires, SweepRead
  <2> QED BY <1>7, <1>9, <1>10, <1>11, <1>14, <2>1, <2>2 DEF Work
<1>15. ASSUME NEW i \in Incidents, Review(i) \/ Outgoing(i) PROVE UNCHANGED <<status, claim>>
  BY <1>15 DEF Review, ReviewExpires, StaffRefresh, ClaimReview, ReleaseReview, StartEdit,
       CancelEdit, SaveCorrection, BeginDecision, BeginReopen,
       Outgoing, CardFails, PostFails, PostStale, Deliver, Resend
<1>16. CASE SweepReviews
  BY <1>9, <1>16 DEF SweepReviews
<1>17. ASSUME NEW u \in Staff, Finish(u) PROVE Old(j)
  <2>1. CASE Abandon(u)
    BY <1>9, <2>1 DEF Abandon
  <2> QED BY <1>12, <1>17, <2>1 DEF Finish
<1> QED BY <1>6, <1>9, <1>13, <1>14, <1>15, <1>16, <1>17 DEF Next

LEMMA ClaimStep ==
  ASSUME IInv, Next
  PROVE  OneClaimEach'
<1> SUFFICES ASSUME NEW u \in Staff, NEW j \in Incidents, NEW k \in Incidents,
                    status'[j] = "DISTRIBUTION", claim'[j].by = u, claim'[j].live,
                    status'[k] = "DISTRIBUTION", claim'[k].by = u, claim'[k].live
             PROVE  j = k
  BY DEF OneClaimEach, OwnClaims
<1>0. TypeOK /\ OneClaimEach
  BY DEF IInv
<1>1. ASSUME NEW w \in Staff, NEW i \in Incidents, Claim(w, i), u # w
      PROVE  \A m \in {j, k} : Old(m)
  <2>1. \A m \in Incidents : m # i => claim'[m] = claim[m]
    BY <1>0, <1>1 DEF TypeOK, Claim
  <2>2. claim'[i].by = w /\ status' = status
    BY <1>0, <1>1, LockFacts DEF TypeOK, Claim, row
  <2> QED BY <1>1, <2>1, <2>2 DEF Old
<1>2. ASSUME NEW i \in Incidents, Claim(u, i) PROVE j = i /\ k = i
  <2>1. status' = status /\ \A m \in Incidents : m # i => claim'[m] = claim[m]
    BY <1>0, <1>2 DEF TypeOK, Claim, row
  <2>2. \A m \in Incidents : m \notin OwnClaims(u)
    BY <1>2 DEF Claim
  <2> QED BY <2>1, <2>2 DEF OwnClaims
<1>3. CASE \A i \in Incidents : ~Claim(u, i)
  <2>1. Old(j) /\ Old(k)
    BY <1>1, <1>3, ClaimsOld
  <2>2. j \in OwnClaims(u) /\ k \in OwnClaims(u)
    BY <2>1 DEF Old, OwnClaims
  <2> QED BY <1>0, <2>2 DEF OneClaimEach
<1> QED BY <1>2, <1>3

-----------------------------------------------------------------------------
(* While a reopening is under way nobody but reviewers, the outbox and      *)
(* itself changes the incident's status.                                    *)

Reopenable == {"WAITING_REVIEW", "RESOLVED", "REVISION_REQUIRED"}

\* Which steps move an incident whose answer lock is taken.
LEMMA UnderReopening ==
  ASSUME IInv, Next, NEW j \in Incidents, ~AnswerLockFree(j)
  PROVE  status'[j] \in Reopenable /\ Len(answers'[j]) >= Len(answers[j])
<1> USE DEF row, locks
<1>0. TypeOK /\ status[j] \in Reopenable /\ Len(answers[j]) \in Nat
  BY LatestOf DEF IInv, FrameFits, AnswerLockFree, Reopenable, TypeOK
<1>1. CASE UNCHANGED <<status, answers>>
  BY <1>0, <1>1
<1>2. ASSUME NEW i \in Incidents, Distribute(i)
      PROVE  status'[j] = status[j] /\ answers'[j] = answers[j]
  BY <1>0, <1>2 DEF Distribute, Register, ClaimExpires, Claim, ReleaseClaim, Reject, Assign, TypeOK, Reopenable
<1>3. ASSUME NEW i \in Incidents, Work(i)
      PROVE  status'[j] = status[j] /\ answers'[j] = answers[j]
  BY <1>0, <1>3 DEF Work, LeaseExpires, SweepRead, SweepLease, TakeInWork, ReleaseLease,
       ReturnToDistribution, BeginSubmit, PutBack, TypeOK
<1>4. ASSUME NEW i \in Incidents, Review(i)
      PROVE  status' = status /\ Len(answers'[j]) >= Len(answers[j])
  <2>1. ASSUME NEW u \in Staff, SaveCorrection(u, i)
        PROVE  status' = status /\ Len(answers'[j]) >= Len(answers[j])
    <3> DEFINE a == Version("WAITING_REVIEW", NoOne, "QUEUED", "NONE")
    <3>1. a \in Answers
      BY DEF Version, Answers, CardStates, PostStates
    <3>2. answers' = [answers EXCEPT ![i] = Append(@, a)] /\ status' = status
      BY <2>1 DEF SaveCorrection
    <3> HIDE DEF a
    <3>3. Len(answers'[i]) = Len(answers[i]) + 1 /\ (j # i => answers'[j] = answers[j])
      BY <1>0, <3>1, <3>2, AnswerAdded
    <3> QED BY <1>0, <3>2, <3>3
  <2>2. CASE UNCHANGED <<status, answers>>
    BY <1>0, <2>2
  <2> QED BY <1>4, <2>1, <2>2 DEF Review, ReviewExpires, StaffRefresh, ClaimReview, ReleaseReview, StartEdit,
       CancelEdit, BeginDecision, BeginReopen
<1>5. ASSUME NEW i \in Incidents, Outgoing(i)
      PROVE  status' = status /\ Len(answers'[j]) = Len(answers[j])
  <2>1. PICK v \in DOMAIN answers[i] :
        CardFails(i, v) \/ PostFails(i, v) \/ PostStale(i, v) \/ Deliver(i, v) \/ Resend(i, v)
    BY <1>5 DEF Outgoing
  <2>2. status' = status
    BY <2>1 DEF CardFails, PostFails, PostStale, Deliver, Resend
  <2>3. PICK a \in Answers : answers' = [answers EXCEPT ![i][v] = a]
    BY <2>1, OutgoingWritten
  <2>4. Len(answers'[i]) = Len(answers[i]) /\ (j # i => answers'[j] = answers[j])
    BY <1>0, <2>3, AnswerWritten
  <2> QED BY <2>2, <2>4
<1>6. ASSUME NEW u \in Staff, Finish(u)
      PROVE  status'[j] \in Reopenable /\ Len(answers'[j]) >= Len(answers[j])
  <2>1. CASE Submit(u)
    <3>1. frame[u].inc # j
      BY <2>1 DEF Submit
    <3> QED BY <1>0, <2>1, <3>1 DEF Submit, TypeOK
  <2>2. CASE Approve(u) \/ RequestRevision(u) \/ Reopen(u)
    <3> DEFINE i == frame[u].inc v == frame[u].answer
    <3>1. PICK a \in Answers :
            answers' = [answers EXCEPT ![i][v] = a] /\ i \in Incidents /\ v \in DOMAIN answers[i]
      BY <2>2, DecisionWritten
    <3> HIDE DEF i, v
    <3>2. Len(answers'[i]) = Len(answers[i]) /\ (j # i => answers'[j] = answers[j])
      BY <1>0, <3>1, AnswerWritten
    <3>3. status'[j] \in Reopenable
      BY <1>0, <2>2 DEF Approve, RequestRevision, Reopen, TypeOK, Reopenable
    <3> QED BY <1>0, <3>2, <3>3
  <2>3. CASE Abandon(u)
    BY <1>0, <2>3 DEF Abandon
  <2> QED BY <1>6, <2>1, <2>2, <2>3 DEF Finish
<1>7. CASE SweepClaims \/ SweepReviews
  BY <1>1, <1>7 DEF SweepClaims, SweepReviews
<1> QED BY <1>0, <1>2, <1>3, <1>4, <1>5, <1>6, <1>7 DEF Next

\* A frame is made by its owner's own step.
LEMMA FrameMoves ==
  ASSUME TypeOK, Next, NEW u \in Staff
  PROVE  \/ frame'[u] = frame[u]
         \/ frame'[u].op # "reopen"
         \/ \E i \in Incidents, r \in {"card", "post"} : BeginReopen(u, i, r)
<1> USE DEF row, locks
<1>1. ASSUME NEW i \in Incidents, Distribute(i) PROVE frame' = frame
  BY <1>1 DEF Distribute, Register, ClaimExpires, Claim, ReleaseClaim, Reject, Assign
<1>2. ASSUME NEW i \in Incidents, Work(i) PROVE frame'[u] = frame[u] \/ frame'[u].op # "reopen"
  <2>1. ASSUME NEW w \in Staff, BeginSubmit(w, i) PROVE frame'[u] = frame[u] \/ frame'[u].op # "reopen"
    BY <2>1 DEF BeginSubmit, TypeOK
  <2> QED BY <1>2, <2>1 DEF Work, LeaseExpires, SweepRead, SweepLease, TakeInWork, ReleaseLease,
       ReturnToDistribution
<1>3. ASSUME NEW i \in Incidents, Review(i)
      PROVE  \/ frame'[u] = frame[u] \/ frame'[u].op # "reopen"
             \/ \E r \in {"card", "post"} : BeginReopen(u, i, r)
  <2>1. ASSUME NEW w \in Staff, NEW op \in {"approve", "revise"}, BeginDecision(w, i, op)
        PROVE  frame'[u] = frame[u] \/ frame'[u].op # "reopen"
    BY <2>1 DEF BeginDecision, TypeOK
  <2>2. ASSUME NEW w \in Staff, NEW r \in {"card", "post"}, BeginReopen(w, i, r)
        PROVE  frame'[u] = frame[u] \/ BeginReopen(u, i, r)
    BY <2>2 DEF BeginReopen, TypeOK
  <2> QED BY <1>3, <2>1, <2>2 DEF Review, ReviewExpires, StaffRefresh, ClaimReview, ReleaseReview, StartEdit,
       CancelEdit, SaveCorrection
<1>4. ASSUME NEW i \in Incidents, Outgoing(i) PROVE frame' = frame
  BY <1>4 DEF Outgoing, CardFails, PostFails, PostStale, Deliver, Resend
<1>5. ASSUME NEW w \in Staff, Finish(w) PROVE frame'[u] = frame[u] \/ frame'[u].op # "reopen"
  BY <1>5 DEF Finish, Submit, Approve, RequestRevision, Reopen, Abandon, TypeOK, Idle
<1>6. CASE SweepClaims \/ SweepReviews
  BY <1>6 DEF SweepClaims, SweepReviews
<1> QED BY <1>1, <1>2, <1>3, <1>4, <1>5, <1>6 DEF Next

LEMMA FrameStep ==
  ASSUME IInv, Next
  PROVE  FrameFits'
<1> SUFFICES ASSUME NEW u \in Staff, frame'[u].op = "reopen"
             PROVE  /\ status'[frame'[u].inc] \in Reopenable
                    /\ frame'[u].answer <= Len(answers'[frame'[u].inc])
  BY DEF FrameFits, Reopenable, Latest
<1>0. TypeOK
  BY DEF IInv
<1>1. CASE frame'[u] = frame[u]
  <2>1. PICK j \in Incidents : j = frame[u].inc
    BY <1>0, <1>1, FrameShape
  <2>2. ~AnswerLockFree(j)
    BY <1>1, <2>1 DEF AnswerLockFree
  <2>3. status'[j] \in Reopenable /\ Len(answers'[j]) >= Len(answers[j])
    BY <2>2, UnderReopening
  <2>4. frame[u].answer <= Len(answers[j]) /\ frame[u].answer \in Nat /\ Len(answers[j]) \in Nat
    <3>1. frame[u].answer \in 1..MaxAnswers /\ frame[u].answer <= Latest(j)
      BY <1>0, <1>1, <2>1, FrameShape DEF IInv, FrameFits
    <3> QED BY <3>1, LatestOf, BoundsAssumption DEF Latest
  <2>5. Len(answers'[j]) \in Nat
    BY TypesStep DEF TypeOK
  <2> QED BY <1>1, <2>1, <2>3, <2>4, <2>5
<1>2. ASSUME NEW i \in Incidents, NEW r \in {"card", "post"}, BeginReopen(u, i, r)
      PROVE  /\ status'[frame'[u].inc] \in Reopenable
             /\ frame'[u].answer <= Len(answers'[frame'[u].inc])
  <2>1. frame'[u].inc = i /\ frame'[u].answer = Latest(i) /\ UNCHANGED <<status, answers>>
    BY <1>0, <1>2 DEF BeginReopen, TypeOK, row
  <2>2. Latest(i) \in Nat /\ status[i] \in Reopenable
    BY <1>2, LatestOf, BoundsAssumption DEF BeginReopen, Reopenable
  <2> QED BY <2>1, <2>2 DEF Latest
<1> QED BY <1>0, <1>1, <1>2, FrameMoves

-----------------------------------------------------------------------------
(* Answers: what the invariant says of the versions of one incident.  A     *)
(* step leaves an incident alone, or does one of the changes below to it.   *)

Off == {"NONE", "DISTRIBUTION", "REJECTED"}
Fits(s, state) ==
  /\ s = "WAITING_REVIEW" => state = "WAITING_REVIEW"
  /\ s = "RESOLVED" => state = "APPROVED"
  /\ s \in Workable \cup Off => state = "REVISION_REQUIRED"

AnswerRow(j) ==
  LET n == Latest(j) IN
  /\ (group[j] = NoGroup) <=> (status[j] \in Off)
  /\ status[j] \in {"WAITING_REVIEW", "RESOLVED"} => n > 0
  /\ status[j] = "RESOLVED" => answers[j][n].by # NoOne \/ group[j] \in Bypass
  /\ j \notin torn =>
       /\ (cycle[j] = "OPEN") <=> Owed(j)
       /\ n > 0 => Fits(status[j], answers[j][n].state)
       /\ \A v \in DOMAIN answers[j] : answers[j][v].delivered => status[j] = "RESOLVED" /\ v = n

LEMMA AnswerRows ==
  ASSUME RowFits, NoUnreviewed, CycleFits, AnswerFits, DeliveredStays, NEW j \in Incidents
  PROVE  AnswerRow(j)
BY DEF AnswerRow, RowFits, NoUnreviewed, CycleFits, AnswerFits, DeliveredStays, Fits, Off

LEMMA AnswerFacts ==
  ASSUME IInv, NEW j \in Incidents
  PROVE  /\ AnswerRow(j) /\ Latest(j) \in Nat /\ DOMAIN answers[j] = 1..Latest(j)
         /\ status[j] \in Statuses \cup {"NONE"}
BY AnswerRows, LatestOf, BoundsAssumption DEF IInv, TypeOK

\* The versions are the same, but for their rows in the outbox.
Alike(j) ==
  /\ Len(answers'[j]) = Len(answers[j]) /\ DOMAIN answers'[j] = DOMAIN answers[j]
  /\ \A v \in DOMAIN answers[j] :
       /\ answers'[j][v].state = answers[j][v].state /\ answers'[j][v].by = answers[j][v].by
       /\ answers'[j][v].delivered = answers[j][v].delivered
SameTorn(j) == (j \in torn') <=> (j \in torn)
Steady(j) ==
  status'[j] = status[j] /\ group'[j] = group[j] /\ cycle'[j] = cycle[j] /\ Alike(j) /\ SameTorn(j)

LEMMA AnswerSteady ==
  ASSUME IInv, NEW j \in Incidents, Steady(j)
  PROVE  AnswerRow(j)'
<1> DEFINE n == Latest(j)
<1>1. Latest(j)' = n /\ n \in Nat /\ (n > 0 => n \in DOMAIN answers[j])
  BY AnswerFacts DEF Steady, Alike, Latest
<1>2. n > 0 => /\ answers'[j][n].state = answers[j][n].state
               /\ answers'[j][n].by = answers[j][n].by
               /\ answers'[j][n].delivered = answers[j][n].delivered
  BY <1>1 DEF Steady, Alike
<1>3. AnswerRow(j)
  BY AnswerFacts
<1> HIDE DEF n
<1>4. Owed(j)' <=> Owed(j)
  BY <1>1, <1>2, <1>3 DEF Steady, Owed, AnswerRow, n
<1> QED BY <1>1, <1>2, <1>3, <1>4 DEF AnswerRow, Steady, Alike, SameTorn, n

\* The incident changes its status without an answer.
Moved(j) ==
  /\ Alike(j) /\ SameTorn(j)
  /\ \/ status[j] = "NONE" /\ status'[j] = "DISTRIBUTION" /\ group'[j] = group[j] /\ cycle'[j] = cycle[j]
     \/ status[j] = "DISTRIBUTION" /\ status'[j] = "ASSIGNED" /\ group'[j] \in Groups /\ cycle'[j] = "OPEN"
     \/ /\ status[j] = "DISTRIBUTION" /\ status'[j] = "REJECTED" /\ group'[j] = group[j]
        /\ cycle'[j] # "OPEN"
     \/ /\ status[j] \in Workable /\ status'[j] \in Workable /\ group'[j] = group[j]
        /\ cycle'[j] = cycle[j]
     \/ /\ status[j] \in Workable /\ status'[j] = "DISTRIBUTION" /\ group'[j] = NoGroup
        /\ cycle'[j] # "OPEN"

LEMMA AnswerMoved ==
  ASSUME IInv, NEW j \in Incidents, Moved(j)
  PROVE  AnswerRow(j)'
<1> DEFINE n == Latest(j)
<1>1. Latest(j)' = n /\ n \in Nat /\ (n > 0 => n \in DOMAIN answers[j])
  BY AnswerFacts DEF Moved, Alike, Latest
<1>2. n > 0 => answers'[j][n].state = answers[j][n].state
  BY <1>1 DEF Moved, Alike
<1>3. AnswerRow(j)
  BY AnswerFacts
<1>4. /\ status[j] \in Workable \cup Off /\ status'[j] \in Workable \cup Off
      /\ (group'[j] = NoGroup) <=> (status'[j] \in Off)
  BY <1>3, GroupsAssumption DEF Moved, AnswerRow, Workable, Off
<1>5. j \notin torn => ((cycle'[j] = "OPEN") <=> (status'[j] \in Workable))
  BY <1>3 DEF Moved, AnswerRow, Owed, Workable
<1>6. j \notin torn => \A v \in DOMAIN answers[j] : ~answers'[j][v].delivered
  BY <1>3, <1>4 DEF Moved, Alike, AnswerRow, Workable, Off
<1>7. Owed(j)' <=> status'[j] \in Workable
  BY <1>4 DEF Owed, Workable, Off
<1>8. DOMAIN answers'[j] = DOMAIN answers[j] /\ SameTorn(j)
  BY DEF Moved, Alike
<1>9. status'[j] \notin {"WAITING_REVIEW", "RESOLVED"}
  BY <1>4 DEF Workable, Off
<1>10. j \notin torn /\ n > 0 => Fits(status'[j], answers'[j][n].state)
  BY <1>2, <1>3, <1>4, <1>9 DEF AnswerRow, Fits
<1> QED BY <1>1, <1>4, <1>5, <1>6, <1>7, <1>8, <1>9, <1>10 DEF AnswerRow, SameTorn

\* A version is added, by a responder or by a reviewer.
Added(j) ==
  /\ Len(answers'[j]) = Latest(j) + 1
  /\ DOMAIN answers'[j] = DOMAIN answers[j] \cup {Len(answers'[j])}
  /\ \A v \in DOMAIN answers[j] : answers'[j][v] = answers[j][v]
  /\ group'[j] = group[j] /\ cycle'[j] = cycle[j] /\ SameTorn(j)
  /\ ~answers'[j][Latest(j) + 1].delivered
  /\ status[j] \in Workable \cup {"WAITING_REVIEW"}
  /\ LET a == answers'[j][Latest(j) + 1] IN
     \/ status'[j] = "WAITING_REVIEW" /\ a.state = "WAITING_REVIEW"
     \/ status'[j] = "RESOLVED" /\ a.state = "APPROVED" /\ group[j] \in Bypass

LEMMA AnswerNew ==
  ASSUME IInv, NEW j \in Incidents, Added(j)
  PROVE  AnswerRow(j)'
<1> DEFINE n == Latest(j)
<1>1. Latest(j)' = n + 1 /\ n + 1 > 0
  BY AnswerFacts DEF Added, Latest
<1>2. AnswerRow(j)
  BY AnswerFacts
<1>3. status[j] \notin Off /\ status[j] # "RESOLVED" /\ status'[j] \in {"WAITING_REVIEW", "RESOLVED"}
  BY DEF Added, Workable, Off
<1>4. j \notin torn => \A v \in DOMAIN answers'[j] : ~answers'[j][v].delivered
  BY <1>2, <1>3 DEF Added, AnswerRow, Latest
<1>5. Owed(j)'
  BY <1>1, <1>3 DEF Owed, Added
<1>6. j \notin torn => cycle[j] = "OPEN"
  BY <1>2 DEF Added, AnswerRow, Owed
<1>7. Fits(status'[j], answers'[j][n + 1].state)
  BY DEF Added, Fits, Workable, Off
<1>8. status'[j] = "RESOLVED" => group'[j] \in Bypass
  BY DEF Added
<1>9. group'[j] # NoGroup /\ status'[j] \notin Off
  BY <1>2, <1>3 DEF Added, AnswerRow, Off
<1>10. cycle'[j] = cycle[j] /\ SameTorn(j)
  BY DEF Added
<1> HIDE DEF n
<1> QED BY <1>1, <1>3, <1>4, <1>5, <1>6, <1>7, <1>8, <1>9, <1>10 DEF AnswerRow, SameTorn

\* The latest version is decided, or reopened; unless a reopening was overtaken.
Decided(j) ==
  LET n == Latest(j) IN
  /\ n \in DOMAIN answers[j]
  /\ Len(answers'[j]) = Len(answers[j]) /\ DOMAIN answers'[j] = DOMAIN answers[j]
  /\ \A v \in DOMAIN answers[j] : answers'[j][v].delivered = answers[j][v].delivered
  /\ group'[j] = group[j] /\ cycle'[j] = cycle[j] /\ SameTorn(j)
  /\ status[j] = "WAITING_REVIEW" \/ (status[j] = "RESOLVED" /\ ~answers[j][n].delivered)
  /\ \/ status'[j] = "RESOLVED" /\ answers'[j][n].state = "APPROVED" /\ answers'[j][n].by # NoOne
     \/ status'[j] = "REVISION_REQUIRED" /\ answers'[j][n].state = "REVISION_REQUIRED"

LEMMA AnswerDecided ==
  ASSUME IInv, NEW j \in Incidents, Decided(j)
  PROVE  AnswerRow(j)'
<1> DEFINE n == Latest(j)
<1>1. Latest(j)' = n /\ n \in Nat /\ n > 0 /\ n \in DOMAIN answers[j]
  BY AnswerFacts DEF Decided, Latest
<1>2. AnswerRow(j)
  BY AnswerFacts
<1>3. status[j] \in {"WAITING_REVIEW", "RESOLVED"} /\ status'[j] \in {"RESOLVED", "REVISION_REQUIRED"}
  BY DEF Decided
<1>4. j \notin torn => \A v \in DOMAIN answers[j] : ~answers'[j][v].delivered
  BY <1>1, <1>2 DEF Decided, AnswerRow
<1>5. j \notin torn => Owed(j)'
  BY <1>1, <1>3, <1>4 DEF Owed, Workable
<1>6. j \notin torn => cycle[j] = "OPEN"
  BY <1>2 DEF Decided, AnswerRow, Owed
<1>7. Fits(status'[j], answers'[j][n].state)
  BY DEF Decided, Fits, Workable, Off
<1>8. status'[j] = "RESOLVED" => answers'[j][n].by # NoOne
  BY DEF Decided
<1>9. group'[j] # NoGroup /\ status'[j] \notin Off
  BY <1>2, <1>3 DEF Decided, AnswerRow, Off
<1>10. cycle'[j] = cycle[j] /\ SameTorn(j) /\ DOMAIN answers'[j] = DOMAIN answers[j]
  BY DEF Decided
<1> HIDE DEF n
<1> QED BY <1>1, <1>3, <1>4, <1>5, <1>6, <1>7, <1>8, <1>9, <1>10 DEF AnswerRow, SameTorn

\* The outbox delivers the current version.
Arrived(j) ==
  LET n == Latest(j) IN
  /\ status[j] = "RESOLVED" /\ status'[j] = "RESOLVED"
  /\ Len(answers'[j]) = Len(answers[j]) /\ DOMAIN answers'[j] = DOMAIN answers[j]
  /\ \A v \in DOMAIN answers[j] :
       /\ answers'[j][v].state = answers[j][v].state /\ answers'[j][v].by = answers[j][v].by
       /\ answers'[j][v].delivered = (answers[j][v].delivered \/ v = n)
  /\ group'[j] = group[j] /\ cycle'[j] # "OPEN" /\ SameTorn(j)

LEMMA AnswerArrived ==
  ASSUME IInv, NEW j \in Incidents, Arrived(j)
  PROVE  AnswerRow(j)'
<1> DEFINE n == Latest(j)
<1>1. AnswerRow(j) /\ status[j] = "RESOLVED" /\ status'[j] = "RESOLVED"
  BY AnswerFacts DEF Arrived
<1>2. Latest(j)' = n /\ n \in Nat /\ n > 0 /\ n \in DOMAIN answers[j]
  BY <1>1, AnswerFacts DEF Arrived, Latest, AnswerRow
<1>3. answers'[j][n].state = answers[j][n].state /\ answers'[j][n].by = answers[j][n].by
      /\ answers'[j][n].delivered
  BY <1>2 DEF Arrived
<1>4. ~Owed(j)' /\ cycle'[j] # "OPEN"
  BY <1>1, <1>2, <1>3 DEF Owed, Arrived, Workable
<1>5. j \notin torn => \A v \in DOMAIN answers'[j] : answers'[j][v].delivered => v = n
  BY <1>1 DEF Arrived, AnswerRow
<1>6. group'[j] = group[j] /\ SameTorn(j)
  BY DEF Arrived
<1> HIDE DEF n
<1> QED BY <1>1, <1>2, <1>3, <1>4, <1>5, <1>6 DEF AnswerRow, SameTorn, n

\* A reopening that was overtaken.
Overwritten(j) ==
  /\ status[j] \in Reopenable /\ status'[j] = "REVISION_REQUIRED" /\ group'[j] = group[j] /\ j \in torn'

LEMMA AnswerOverwritten ==
  ASSUME IInv, NEW j \in Incidents, Overwritten(j)
  PROVE  AnswerRow(j)'
<1>1. group[j] # NoGroup
  BY AnswerFacts DEF AnswerRow, Overwritten, Reopenable, Off
<1> QED BY <1>1 DEF AnswerRow, Overwritten, Off

\* Every step leaves an incident alone or does one of these changes to it.
LEMMA RowSteady ==
  ASSUME TypeOK, NEW j \in Incidents, status'[j] = status[j], group'[j] = group[j],
         cycle'[j] = cycle[j], answers'[j] = answers[j], torn' = torn
  PROVE  Steady(j)
BY DEF Steady, Alike, SameTorn

\* A version is rewritten with the same state, author and delivery.
LEMMA RewrittenAlike ==
  ASSUME TypeOK, NEW i \in Incidents, NEW v \in DOMAIN answers[i], NEW a \in Answers,
         answers' = [answers EXCEPT ![i][v] = a],
         a.state = answers[i][v].state, a.by = answers[i][v].by, a.delivered = answers[i][v].delivered,
         NEW j \in Incidents
  PROVE  Alike(j)
<1>1. CASE j = i
  <2>1. /\ Len(answers'[i]) = Len(answers[i]) /\ DOMAIN answers'[i] = DOMAIN answers[i]
        /\ answers'[i][v] = a
        /\ \A w \in DOMAIN answers[i] : w # v => answers'[i][w] = answers[i][w]
    BY AnswerWritten
  <2> QED BY <1>1, <2>1 DEF Alike
<1>2. CASE j # i
  BY <1>2, AnswerWritten DEF Alike
<1> QED BY <1>1, <1>2

LEMMA AnswersDistribute ==
  ASSUME IInv, NEW i \in Incidents, Distribute(i), NEW j \in Incidents
  PROVE  AnswerRow(j)'
<1> USE DEF row, locks
<1>0. TypeOK /\ torn' = torn
  BY DEF IInv, Distribute, Register, ClaimExpires, Claim, ReleaseClaim, Reject, Assign
<1>1. CASE UNCHANGED <<status, group, cycle, answers>>
  BY <1>0, <1>1, RowSteady, AnswerSteady
<1>2. CASE j # i
  <2>1. status'[j] = status[j] /\ group'[j] = group[j] /\ cycle'[j] = cycle[j] /\ answers'[j] = answers[j]
    BY <1>0, <1>2 DEF Distribute, Register, ClaimExpires, Claim, ReleaseClaim, Reject, Assign, TypeOK
  <2> QED BY <1>0, <2>1, RowSteady, AnswerSteady
<1>3. ASSUME j = i, Register(i) PROVE AnswerRow(j)'
  <2>1. Alike(j) /\ SameTorn(j)
    BY <1>0, <1>3 DEF Register, Alike, SameTorn
  <2> QED BY <1>0, <1>3, <2>1, AnswerMoved DEF Register, Moved, TypeOK
<1>4. ASSUME j = i, NEW u \in Staff, NEW g \in Groups, Assign(u, i, g) PROVE AnswerRow(j)'
  <2>1. Alike(j) /\ SameTorn(j)
    BY <1>0, <1>4 DEF Assign, Alike, SameTorn
  <2> QED BY <1>0, <1>4, <2>1, AnswerMoved DEF Assign, Moved, TypeOK
<1>5. ASSUME j = i, NEW u \in Staff, Reject(u, i) PROVE AnswerRow(j)'
  <2>1. answers'[i] = [v \in DOMAIN answers[i] |-> [answers[i][v] EXCEPT !.card = "NONE", !.post = "NONE"]]
    BY <1>0, <1>5 DEF Reject, TypeOK
  <2>2. ASSUME NEW v \in DOMAIN answers[i]
        PROVE  /\ answers'[i][v].state = answers[i][v].state /\ answers'[i][v].by = answers[i][v].by
               /\ answers'[i][v].delivered = answers[i][v].delivered
    <3>1. answers[i][v] \in Answers
      BY LatestOf
    <3>2. answers'[i][v] = [answers[i][v] EXCEPT !.card = "NONE", !.post = "NONE"]
      BY <2>1
    <3> QED BY <3>1, <3>2 DEF Answers
  <2>3. DOMAIN answers'[i] = DOMAIN answers[i]
    BY <2>1
  <2>4. Len(answers'[i]) = Len(answers[i])
    <3>1. answers[i] \in Seq(Answers) /\ answers'[i] \in Seq(Answers)
      BY TypesDistribute, LatestOf DEF TypeOK
    <3> QED BY <2>3, <3>1, LenProperties
  <2>5. Alike(j) /\ SameTorn(j)
    BY <1>0, <1>5, <2>2, <2>3, <2>4 DEF Alike, SameTorn
  <2>6. Closed(cycle[i]) # "OPEN"
    BY DEF Closed
  <2> QED BY <1>0, <1>5, <2>5, <2>6, AnswerMoved DEF Reject, Moved, TypeOK
<1>6. CASE ClaimExpires(i) \/ \E u \in Staff : Claim(u, i) \/ ReleaseClaim(u, i)
  BY <1>1, <1>6 DEF ClaimExpires, Claim, ReleaseClaim
<1> QED BY <1>2, <1>3, <1>4, <1>5, <1>6 DEF Distribute

LEMMA AnswersPutBack ==
  ASSUME IInv, NEW i \in Incidents, PutBack(i), status[i] \in Workable,
         UNCHANGED <<group, cycle, answers, torn>>, NEW j \in Incidents
  PROVE  AnswerRow(j)'
<1>0. TypeOK /\ Waiting(i) \in Workable
  BY WaitingWorkable DEF IInv
<1>1. CASE j # i
  BY <1>0, <1>1, RowSteady, AnswerSteady DEF PutBack, TypeOK
<1>2. CASE j = i
  <2>1. Alike(j) /\ SameTorn(j)
    BY DEF Alike, SameTorn
  <2> QED BY <1>0, <1>2, <2>1, AnswerMoved DEF PutBack, Moved, TypeOK
<1> QED BY <1>1, <1>2

LEMMA AnswersWork ==
  ASSUME IInv, NEW i \in Incidents, Work(i), NEW j \in Incidents
  PROVE  AnswerRow(j)'
<1> USE DEF row, locks
<1>0. TypeOK
  BY DEF IInv
<1>1. ASSUME UNCHANGED <<status, group, cycle, answers, torn>> PROVE AnswerRow(j)'
  BY <1>0, <1>1, RowSteady, AnswerSteady
<1>2. CASE LeaseExpires(i) \/ SweepRead(i)
  BY <1>1, <1>2 DEF LeaseExpires, SweepRead
<1>3. CASE SweepLease(i)
  <2>1. UNCHANGED <<group, cycle, answers, torn>>
    BY <1>3 DEF SweepLease
  <2> QED BY <1>1, <1>3, <2>1, SweepFrees, AnswersPutBack
<1>4. ASSUME NEW u \in Staff, TakeInWork(u, i) PROVE AnswerRow(j)'
  <2>1. CASE j # i
    BY <1>0, <1>4, <2>1, RowSteady, AnswerSteady DEF TakeInWork, TypeOK
  <2>2. CASE j = i
    <3>1. Alike(j) /\ SameTorn(j)
      BY <1>4 DEF TakeInWork, Alike, SameTorn
    <3>2. status[i] \in Workable /\ status'[i] \in Workable
      BY <1>0, <1>4 DEF TakeInWork, Takeable, TypeOK, Workable
    <3> QED BY <1>4, <2>2, <3>1, <3>2, AnswerMoved DEF TakeInWork, Moved
  <2> QED BY <2>1, <2>2
<1>5. ASSUME NEW u \in Staff, ReleaseLease(u, i) PROVE AnswerRow(j)'
  BY <1>5, AnswersPutBack DEF ReleaseLease
<1>6. ASSUME NEW u \in Staff, ReturnToDistribution(u, i) PROVE AnswerRow(j)'
  <2>1. CASE j # i
    BY <1>0, <1>6, <2>1, RowSteady, AnswerSteady DEF ReturnToDistribution, TypeOK
  <2>2. CASE j = i
    <3>1. Alike(j) /\ SameTorn(j)
      BY <1>6 DEF ReturnToDistribution, Alike, SameTorn
    <3>2. Closed(cycle[i]) # "OPEN"
      BY DEF Closed
    <3> QED BY <1>0, <1>6, <2>2, <3>1, <3>2, AnswerMoved DEF ReturnToDistribution, Moved, TypeOK
  <2> QED BY <2>1, <2>2
<1>7. ASSUME NEW u \in Staff, BeginSubmit(u, i) PROVE AnswerRow(j)'
  BY <1>1, <1>7 DEF BeginSubmit
<1> QED BY <1>2, <1>3, <1>4, <1>5, <1>6, <1>7 DEF Work

LEMMA AnswersReview ==
  ASSUME IInv, NEW i \in Incidents, Review(i), NEW j \in Incidents
  PROVE  AnswerRow(j)'
<1> USE DEF row, locks
<1>0. TypeOK
  BY DEF IInv
<1>1. CASE UNCHANGED <<status, group, cycle, answers, torn>>
  BY <1>0, <1>1, RowSteady, AnswerSteady
<1>2. ASSUME NEW u \in Staff, SaveCorrection(u, i) PROVE AnswerRow(j)'
  <2> DEFINE a == Version("WAITING_REVIEW", NoOne, "QUEUED", "NONE")
  <2>1. a \in Answers /\ ~a.delivered /\ a.state = "WAITING_REVIEW"
    BY DEF Version, Answers, CardStates, PostStates
  <2>2. answers' = [answers EXCEPT ![i] = Append(@, a)]
        /\ UNCHANGED <<status, group, cycle, torn>> /\ status[i] = "WAITING_REVIEW"
    BY <1>2 DEF SaveCorrection, EditStands
  <2> HIDE DEF a
  <2>3. /\ Len(answers'[i]) = Len(answers[i]) + 1 /\ answers'[i][Len(answers'[i])] = a
        /\ \A w \in DOMAIN answers[i] : answers'[i][w] = answers[i][w]
        /\ DOMAIN answers'[i] = DOMAIN answers[i] \cup {Len(answers'[i])}
        /\ \A k \in Incidents : k # i => answers'[k] = answers[k]
    BY <1>0, <2>1, <2>2, AnswerAdded
  <2>4. CASE j # i
    BY <1>0, <2>2, <2>3, <2>4, RowSteady, AnswerSteady
  <2>5. CASE j = i
    <3>1. Added(i)
      BY <2>1, <2>2, <2>3 DEF Added, SameTorn, Latest
    <3> QED BY <2>5, <3>1, AnswerNew
  <2> QED BY <2>4, <2>5
<1> QED BY <1>1, <1>2 DEF Review, ReviewExpires, StaffRefresh, ClaimReview, ReleaseReview, StartEdit,
       CancelEdit, BeginDecision, BeginReopen

LEMMA AnswersOutgoing ==
  ASSUME IInv, NEW i \in Incidents, Outgoing(i), NEW j \in Incidents
  PROVE  AnswerRow(j)'
<1> USE DEF row, locks
<1>0. TypeOK
  BY DEF IInv
<1>1. PICK v \in DOMAIN answers[i] :
        CardFails(i, v) \/ PostFails(i, v) \/ PostStale(i, v) \/ Deliver(i, v) \/ Resend(i, v)
  BY DEF Outgoing
<1>2. UNCHANGED <<status, group, torn>>
  BY <1>1 DEF CardFails, PostFails, PostStale, Deliver, Resend
<1>3. CASE ~Deliver(i, v)
  <2>1. cycle' = cycle
    BY <1>1, <1>3 DEF CardFails, PostFails, PostStale, Resend
  <2>2. Alike(j)
    <3>1. PICK a \in Answers :
            /\ answers' = [answers EXCEPT ![i][v] = a]
            /\ a.state = answers[i][v].state /\ a.by = answers[i][v].by
            /\ a.delivered = answers[i][v].delivered
      BY <1>1, <1>3, OutgoingWritten
    <3> QED BY <1>0, <3>1, RewrittenAlike
  <2> QED BY <1>2, <2>1, <2>2, AnswerSteady DEF Steady, SameTorn
<1>4. CASE Deliver(i, v)
  <2> DEFINE a == [answers[i][v] EXCEPT !.delivered = TRUE, !.post = "SENT"]
  <2>1. answers[i][v] \in Answers
    BY LatestOf
  <2>2. a \in Answers /\ a.delivered /\ a.state = answers[i][v].state /\ a.by = answers[i][v].by
    BY <2>1 DEF Answers, PostStates
  <2>3. answers' = [answers EXCEPT ![i][v] = a] /\ status[i] = "RESOLVED" /\ v = Latest(i)
    BY <1>4 DEF Deliver, CurrentAnswer
  <2>4. /\ \A k \in Incidents : k # i => cycle'[k] = cycle[k]
        /\ cycle'[i] # "OPEN"
    BY <1>0, <1>4 DEF Deliver, Closed, TypeOK
  <2> HIDE DEF a
  <2>5. /\ Len(answers'[i]) = Len(answers[i]) /\ DOMAIN answers'[i] = DOMAIN answers[i]
        /\ answers'[i][v] = a
        /\ \A w \in DOMAIN answers[i] : w # v => answers'[i][w] = answers[i][w]
        /\ \A k \in Incidents : k # i => answers'[k] = answers[k]
    BY <1>0, <2>2, <2>3, AnswerWritten
  <2>6. CASE j # i
    BY <1>0, <1>2, <2>4, <2>5, <2>6, RowSteady, AnswerSteady
  <2>7. CASE j = i
    <3>1. \A w \in DOMAIN answers[i] :
            /\ answers'[i][w].state = answers[i][w].state /\ answers'[i][w].by = answers[i][w].by
            /\ answers'[i][w].delivered = (answers[i][w].delivered \/ w = v)
      <4>1. ASSUME NEW w \in DOMAIN answers[i] PROVE answers[i][w].delivered \in BOOLEAN
        BY LatestOf DEF Answers
      <4>2. a.delivered = TRUE
        BY <2>2 DEF Answers
      <4> QED BY <2>2, <2>5, <4>1, <4>2
    <3>2. Arrived(i)
      BY <1>2, <2>3, <2>4, <2>5, <3>1 DEF Arrived, SameTorn
    <3> QED BY <2>7, <3>2, AnswerArrived
  <2> QED BY <2>6, <2>7
<1> QED BY <1>3, <1>4

LEMMA AnswersFinish ==
  ASSUME IInv, NEW u \in Staff, Finish(u), NEW j \in Incidents
  PROVE  AnswerRow(j)'
<1> USE DEF row, locks
<1>0. TypeOK
  BY DEF IInv
<1>1. CASE Abandon(u)
  BY <1>0, <1>1, RowSteady, AnswerSteady DEF Abandon
<1>2. CASE Submit(u)
  <2>1. PICK i \in Incidents : i = frame[u].inc
    BY <1>2, SubmitWritten
  <2>2. PICK a \in Answers : /\ answers' = [answers EXCEPT ![i] = Append(@, a)]
                             /\ ~a.delivered
                             /\ a.state = IF Direct(u) THEN "APPROVED" ELSE "WAITING_REVIEW"
    BY <1>2, <2>1, SubmitWritten
  <2>3. /\ status' = [status EXCEPT ![i] = IF Direct(u) THEN "RESOLVED" ELSE "WAITING_REVIEW"]
        /\ status[i] \in Workable /\ UNCHANGED <<group, cycle, torn>>
    BY <1>2, <2>1 DEF Submit
  <2>4. Direct(u) => group[i] \in Bypass
    BY <1>2, <2>1 DEF Submit, SameAssignment, Direct
  <2>5. /\ Len(answers'[i]) = Len(answers[i]) + 1 /\ answers'[i][Len(answers'[i])] = a
        /\ \A w \in DOMAIN answers[i] : answers'[i][w] = answers[i][w]
        /\ DOMAIN answers'[i] = DOMAIN answers[i] \cup {Len(answers'[i])}
        /\ \A k \in Incidents : k # i => answers'[k] = answers[k]
    BY <1>0, <2>2, AnswerAdded
  <2>6. CASE j # i
    BY <1>0, <2>3, <2>5, <2>6, RowSteady, AnswerSteady DEF TypeOK
  <2>7. CASE j = i
    <3>1. status'[i] = IF Direct(u) THEN "RESOLVED" ELSE "WAITING_REVIEW"
      BY <1>0, <2>3 DEF TypeOK
    <3>2. Added(i)
      BY <2>2, <2>3, <2>4, <2>5, <3>1 DEF Added, SameTorn, Latest
    <3> QED BY <2>7, <3>2, AnswerNew
  <2> QED BY <2>6, <2>7
<1>3. CASE Approve(u) \/ RequestRevision(u) \/ Reopen(u)
  <2> DEFINE i == frame[u].inc v == frame[u].answer
  <2>1. PICK a \in Answers :
          /\ answers' = [answers EXCEPT ![i][v] = a]
          /\ i \in Incidents /\ v \in DOMAIN answers[i]
          /\ a.delivered = answers[i][v].delivered
          /\ Approve(u) => a.state = "APPROVED" /\ a.by = u
          /\ ~Approve(u) => a.state = "REVISION_REQUIRED"
    BY <1>3, DecisionWritten
  <2>2. /\ \A k \in Incidents : k # i => status'[k] = status[k] /\ (k \in torn' <=> k \in torn)
        /\ UNCHANGED <<group, cycle>>
    BY <1>0, <1>3, <2>1 DEF Approve, RequestRevision, Reopen, TypeOK
  <2>3. Approve(u) \/ RequestRevision(u) => status[i] = "WAITING_REVIEW" /\ v = Latest(i) /\ torn' = torn
    BY <1>3, Decides DEF Approve, RequestRevision
  <2>4. /\ Approve(u) => status'[i] = "RESOLVED"
        /\ RequestRevision(u) \/ Reopen(u) => status'[i] = "REVISION_REQUIRED"
    BY <1>0, <2>1 DEF Approve, RequestRevision, Reopen, TypeOK
  <2>5. Reopen(u) => \/ i \in torn' /\ status[i] \in Reopenable
                     \/ /\ torn' = torn /\ status[i] \in {"WAITING_REVIEW", "RESOLVED"}
                        /\ v = Latest(i) /\ ~answers[i][v].delivered
    <3> SUFFICES ASSUME Reopen(u)
                 PROVE  \/ i \in torn' /\ status[i] \in Reopenable
                        \/ /\ torn' = torn /\ status[i] \in {"WAITING_REVIEW", "RESOLVED"}
                           /\ v = Latest(i) /\ ~answers[i][v].delivered
      OBVIOUS
    <3>1. status[i] \in Reopenable
      BY Reopens DEF Reopen, Reopenable
    <3>2. frame[u].status \in {"WAITING_REVIEW", "RESOLVED"}
      BY <1>0, FrameShape DEF Reopen
    <3>3. CASE Overtaken(u, i)
      BY <3>1, <3>3 DEF Reopen
    <3>4. CASE ~Overtaken(u, i)
      BY <3>2, <3>4 DEF Reopen, Overtaken
    <3> QED BY <3>3, <3>4
  <2>6. Approve(u) => u # NoOne
    BY StaffAssumption
  <2> HIDE DEF i, v
  <2>7. /\ Len(answers'[i]) = Len(answers[i]) /\ DOMAIN answers'[i] = DOMAIN answers[i]
        /\ answers'[i][v] = a
        /\ \A w \in DOMAIN answers[i] : w # v => answers'[i][w] = answers[i][w]
        /\ \A k \in Incidents : k # i => answers'[k] = answers[k]
    BY <1>0, <2>1, AnswerWritten
  <2>8. CASE j # i
    BY <1>0, <2>2, <2>7, <2>8, AnswerSteady DEF Steady, Alike, SameTorn
  <2>9. CASE j = i /\ i \in torn' /\ Reopen(u) /\ status[i] \in Reopenable
    <3>1. Overwritten(i)
      BY <2>2, <2>4, <2>9 DEF Overwritten
    <3> QED BY <2>1, <2>9, <3>1, AnswerOverwritten
  <2>10. CASE j = i /\ ~(i \in torn' /\ Reopen(u) /\ status[i] \in Reopenable)
    <3>1. /\ torn' = torn /\ v = Latest(i)
          /\ status[i] = "WAITING_REVIEW" \/ (status[i] = "RESOLVED" /\ ~answers[i][v].delivered)
      BY <1>3, <2>3, <2>5, <2>10
    <3>2. \A w \in DOMAIN answers[i] : answers'[i][w].delivered = answers[i][w].delivered
      BY <2>1, <2>7
    <3>3. Decided(i)
      BY <1>3, <2>1, <2>2, <2>4, <2>6, <2>7, <3>1, <3>2 DEF Decided, SameTorn
    <3> QED BY <2>1, <2>10, <3>3, AnswerDecided
  <2> QED BY <2>8, <2>9, <2>10
<1> QED BY <1>1, <1>2, <1>3 DEF Finish

LEMMA AnswersStep ==
  ASSUME IInv, Next
  PROVE  (RowFits /\ NoUnreviewed /\ CycleFits /\ AnswerFits /\ DeliveredStays)'
<1>0. TypeOK
  BY DEF IInv
<1>1. ASSUME NEW j \in Incidents PROVE AnswerRow(j)'
  <2>1. CASE SweepClaims \/ SweepReviews
    BY <1>0, <2>1, RowSteady, AnswerSteady DEF SweepClaims, SweepReviews, row
  <2> QED BY <2>1, AnswersDistribute, AnswersWork, AnswersReview, AnswersOutgoing, AnswersFinish DEF Next
<1>2. \A j \in Incidents : Latest(j)' \in Nat
  BY TypesStep DEF TypeOK, Latest
<1>3. (RowFits /\ NoUnreviewed /\ CycleFits /\ DeliveredStays)'
  BY <1>1 DEF AnswerRow, RowFits, NoUnreviewed, CycleFits, DeliveredStays, Off
<1>4. AnswerFits'
  BY <1>1, <1>2 DEF AnswerRow, AnswerFits, Fits, Off
<1> QED BY <1>3, <1>4

-----------------------------------------------------------------------------
(* The theorems. *)

LEMMA Start == Init => IInv
<1> SUFFICES ASSUME Init PROVE IInv
  OBVIOUS
<1>1. Free \in Lock(MaxClaims) /\ Free \in Lock(MaxLeases) /\ Free \in Lock(MaxReviews)
  BY BoundsAssumption DEF Free, Lock
<1>2. NoDraft \in DraftSet
  BY NoDraftOK
<1>3. << >> \in Seq(Answers) /\ Len(<< >>) = 0 /\ DOMAIN << >> = {}
  BY EmptySeq
<1>4. 0 \in 0..MaxRounds /\ 0 \in 0..MaxLeases /\ 0 <= MaxAnswers
  BY BoundsAssumption
<1>5. Idle \in Frames
  BY DEF Frames
<1>6. TypeOK
  BY <1>1, <1>2, <1>3, <1>4, <1>5 DEF Init, TypeOK, DraftSet
<1>7. RowFits /\ NoUnreviewed /\ CycleFits /\ AnswerFits /\ DeliveredStays
  BY <1>3 DEF Init, RowFits, NoUnreviewed, CycleFits, AnswerFits, DeliveredStays, Owed, Workable, Latest
<1>8. ClaimsQueued /\ LiveHeld /\ InProgressHeld /\ SweptExpired
  BY DEF Init, ClaimsQueued, LiveHeld, InProgressHeld, SweptExpired, Free
<1>9. FrameFits /\ OneClaimEach
  BY DEF Init, FrameFits, OneClaimEach, OwnClaims, Idle
<1> QED BY <1>6, <1>7, <1>8, <1>9 DEF IInv

\* Nothing the invariant speaks of changes in a stuttering step.
LEMMA Stutter == ASSUME IInv, UNCHANGED vars PROVE IInv'
BY DEF IInv, vars, TypeOK, RowFits, ClaimsQueued, LiveHeld, FrameFits, SweptExpired, OneClaimEach,
       OwnClaims, InProgressHeld, NoUnreviewed, CycleFits, Owed, AnswerFits, DeliveredStays, Latest

\* The inductive invariant of the workflow: types, claims, reservations,
\* cycles and answers fit each other in every reachable state.
THEOREM WorkflowInvariant == Spec => []IInv
<1>1. IInv /\ [Next]_vars => IInv'
  <2> SUFFICES ASSUME IInv, [Next]_vars PROVE IInv'
    OBVIOUS
  <2>1. CASE Next
    BY <2>1, TypesStep, LocksStep, ClaimStep, FrameStep, AnswersStep DEF IInv
  <2>2. CASE UNCHANGED vars
    BY <2>2, Stutter
  <2> QED BY <2>1, <2>2
<1> QED BY <1>1, Start, PTL DEF Spec

\* Every variable stays in its domain.
THEOREM WorkflowTypes == Spec => []TypeOK
BY WorkflowInvariant, PTL DEF IInv

\* An operator never holds two incidents of the queue.
THEOREM OneClaim == Spec => []OneClaimEach
BY WorkflowInvariant, PTL DEF IInv

\* An incident is in work exactly while its responder's reservation is on record.
THEOREM WorkIsHeld == Spec => []InProgressHeld
BY WorkflowInvariant, PTL DEF IInv

\* No answer goes out unreviewed but for a group that needs no review.
THEOREM AlwaysReviewed == Spec => []NoUnreviewed
BY WorkflowInvariant, PTL DEF IInv

\* The assignment cycle is open exactly while an answer is owed.
THEOREM CycleConsistent == Spec => []CycleFits
BY WorkflowInvariant, PTL DEF IInv

\* The latest version is in the state its incident's status calls for.
THEOREM AnswerConsistent == Spec => []AnswerFits
BY WorkflowInvariant, PTL DEF IInv

\* What was delivered stays settled unless a reopening was overtaken.
THEOREM DeliveredSettled == Spec => []DeliveredStays
BY WorkflowInvariant, PTL DEF IInv

-----------------------------------------------------------------------------
(* What a step may never do. *)

\* Who may change a status.
LEMMA StatusMoves ==
  ASSUME IInv, Next, NEW i \in Incidents, status'[i] # status[i]
  PROVE  \/ status[i] = "NONE"
         \/ status[i] = "DISTRIBUTION" /\ status'[i] \in {"ASSIGNED", "REJECTED"}
         \/ status[i] = "IN_PROGRESS" /\ status'[i] \in {"ASSIGNED", "REVISION_REQUIRED"}
         \/ status[i] \in Workable /\ status'[i] \in {"IN_PROGRESS", "DISTRIBUTION"}
         \/ \E u \in Staff : /\ frame[u].inc = i
                             /\ Submit(u) \/ Approve(u) \/ RequestRevision(u) \/ Reopen(u)
<1> USE DEF row, locks
<1>0. TypeOK
  BY DEF IInv
<1>1. ASSUME NEW k \in Incidents, Distribute(k)
      PROVE  \/ status[i] = "NONE"
             \/ status[i] = "DISTRIBUTION" /\ status'[i] \in {"ASSIGNED", "REJECTED"}
  BY <1>0, <1>1 DEF Distribute, Register, ClaimExpires, Claim, ReleaseClaim, Reject, Assign, TypeOK
<1>2. ASSUME NEW k \in Incidents, PutBack(k), lease[k].by # NoOne
      PROVE  status[i] = "IN_PROGRESS" /\ status'[i] \in {"ASSIGNED", "REVISION_REQUIRED"}
  <2>1. status[k] = "IN_PROGRESS"
    BY <1>2 DEF IInv, InProgressHeld
  <2>2. status'[k] \in {"ASSIGNED", "REVISION_REQUIRED"} /\ (i # k => status'[i] = status[i])
    BY <1>0, <1>2 DEF PutBack, Waiting, TypeOK
  <2> QED BY <2>1, <2>2
<1>3. ASSUME NEW k \in Incidents, Work(k)
      PROVE  \/ status[i] = "IN_PROGRESS" /\ status'[i] \in {"ASSIGNED", "REVISION_REQUIRED"}
             \/ status[i] \in Workable /\ status'[i] \in {"IN_PROGRESS", "DISTRIBUTION"}
  <2>1. CASE SweepLease(k)
    BY <1>2, <2>1, SweepFrees DEF SameLease
  <2>2. ASSUME NEW u \in Staff, ReleaseLease(u, k)
        PROVE  status[i] = "IN_PROGRESS" /\ status'[i] \in {"ASSIGNED", "REVISION_REQUIRED"}
    BY <1>2, <2>2, StaffAssumption DEF ReleaseLease
  <2>3. ASSUME NEW u \in Staff, TakeInWork(u, k) \/ ReturnToDistribution(u, k)
        PROVE  status[i] \in Workable /\ status'[i] \in {"IN_PROGRESS", "DISTRIBUTION"}
    BY <1>0, <2>3 DEF TakeInWork, Takeable, ReturnToDistribution, TypeOK
  <2> QED BY <1>3, <2>1, <2>2, <2>3 DEF Work, LeaseExpires, SweepRead, BeginSubmit
<1>4. ASSUME NEW k \in Incidents, Review(k) \/ Outgoing(k) PROVE FALSE
  BY <1>4 DEF Review, ReviewExpires, StaffRefresh, ClaimReview, ReleaseReview, StartEdit,
       CancelEdit, SaveCorrection, BeginDecision, BeginReopen,
       Outgoing, CardFails, PostFails, PostStale, Deliver, Resend
<1>5. ~SweepClaims /\ ~SweepReviews
  BY DEF SweepClaims, SweepReviews
<1>6. ASSUME NEW u \in Staff, Finish(u)
      PROVE  /\ frame[u].inc = i
             /\ Submit(u) \/ Approve(u) \/ RequestRevision(u) \/ Reopen(u)
  <2>1. ~Abandon(u)
    BY DEF Abandon
  <2>2. frame[u].inc = i
    BY <1>0, <1>6, <2>1 DEF Finish, Submit, Approve, RequestRevision, Reopen, TypeOK
  <2> QED BY <1>6, <2>1, <2>2 DEF Finish
<1> QED BY <1>1, <1>3, <1>4, <1>5, <1>6 DEF Next

LEMMA AllowedRows ==
  /\ {"ASSIGNED", "REJECTED"} \subseteq Allowed("DISTRIBUTION")
  /\ {"ASSIGNED", "REVISION_REQUIRED"} \subseteq Allowed("IN_PROGRESS")
  /\ \A s \in Workable : {"DISTRIBUTION", "WAITING_REVIEW", "RESOLVED"} \subseteq Allowed(s)
  /\ "IN_PROGRESS" \in Allowed("ASSIGNED") /\ "IN_PROGRESS" \in Allowed("REVISION_REQUIRED")
  /\ {"RESOLVED", "REVISION_REQUIRED"} \subseteq Allowed("WAITING_REVIEW")
BY DEF Allowed, Workable

\* Every change of status is legal, but for a reopening.
THEOREM OnlyLegalChanges == Spec => LegalChanges
<1>1. IInv /\ [Next]_vars => [\A i \in Incidents :
         status[i] # "NONE" /\ status'[i] # status[i] =>
           \/ status'[i] \in Allowed(status[i])
           \/ \E u \in Staff : frame[u].op = "reopen" /\ frame[u].inc = i /\ frame'[u] = Idle]_vars
  <2> SUFFICES ASSUME IInv, Next, NEW i \in Incidents, status[i] # "NONE", status'[i] # status[i]
               PROVE  \/ status'[i] \in Allowed(status[i])
                      \/ \E u \in Staff : frame[u].op = "reopen" /\ frame[u].inc = i /\ frame'[u] = Idle
    BY DEF vars, row, locks
  <2>0. TypeOK
    BY DEF IInv
  <2>1. CASE status[i] = "DISTRIBUTION" /\ status'[i] \in {"ASSIGNED", "REJECTED"}
    BY <2>1, AllowedRows
  <2>2. CASE status[i] = "IN_PROGRESS" /\ status'[i] \in {"ASSIGNED", "REVISION_REQUIRED"}
    BY <2>2, AllowedRows
  <2>3. CASE status[i] \in Workable /\ status'[i] \in {"IN_PROGRESS", "DISTRIBUTION"}
    BY <2>3, AllowedRows DEF Workable
  <2>4. ASSUME NEW u \in Staff, frame[u].inc = i, Submit(u) PROVE status'[i] \in Allowed(status[i])
    <3>1. status[i] \in Workable /\ status'[i] \in {"WAITING_REVIEW", "RESOLVED"}
      BY <2>0, <2>4 DEF Submit, TypeOK
    <3> QED BY <3>1, AllowedRows
  <2>5. ASSUME NEW u \in Staff, frame[u].inc = i, Approve(u) \/ RequestRevision(u)
        PROVE  status'[i] \in Allowed(status[i])
    <3>1. status[i] = "WAITING_REVIEW" /\ status'[i] \in {"RESOLVED", "REVISION_REQUIRED"}
      BY <2>0, <2>5 DEF Approve, RequestRevision, MayDecide, TypeOK
    <3> QED BY <3>1, AllowedRows
  <2>6. ASSUME NEW u \in Staff, frame[u].inc = i, Reopen(u)
        PROVE  frame[u].op = "reopen" /\ frame[u].inc = i /\ frame'[u] = Idle
    BY <2>0, <2>6 DEF Reopen, TypeOK
  <2> QED BY <2>1, <2>2, <2>3, <2>4, <2>5, <2>6, StatusMoves
<1> QED BY <1>1, WorkflowInvariant, PTL DEF Spec, LegalChanges

\* A reviewer approves the version that was shown, and over nobody's reservation.
THEOREM ApprovalIsSeen == Spec => ApprovedAsSeen
<1>1. IInv /\ [Next]_vars => [\A i \in Incidents :
         status[i] = "WAITING_REVIEW" /\ status'[i] = "RESOLVED" =>
           \E u \in Staff : /\ frame[u].op = "approve" /\ frame[u].inc = i
                           /\ frame[u].answer = Latest(i) /\ Latest(i) = Len(answers'[i])
                           /\ answers'[i][Latest(i)].by = u
                           /\ ~HeldByOther(review[i], u)]_vars
  <2> SUFFICES ASSUME IInv, Next, NEW i \in Incidents,
                      status[i] = "WAITING_REVIEW", status'[i] = "RESOLVED"
               PROVE  \E u \in Staff : /\ frame[u].op = "approve" /\ frame[u].inc = i
                           /\ frame[u].answer = Latest(i) /\ Latest(i) = Len(answers'[i])
                           /\ answers'[i][Latest(i)].by = u
                           /\ ~HeldByOther(review[i], u)
    BY DEF vars, row, locks
  <2>0. TypeOK
    BY DEF IInv
  <2>1. PICK u \in Staff : frame[u].inc = i /\ (Submit(u) \/ Approve(u) \/ RequestRevision(u) \/ Reopen(u))
    BY StatusMoves DEF Workable
  <2>2. Approve(u)
    BY <2>0, <2>1 DEF Submit, RequestRevision, Reopen, Workable, TypeOK
  <2>3. /\ frame[u].op = "approve" /\ frame[u].answer = Latest(i)
        /\ ~HeldByOther(review[i], u)
    BY <2>1, <2>2 DEF Approve, MayDecide, SeenIsLatest
  <2>4. PICK v \in DOMAIN answers[i], a \in Answers :
          v = Latest(i) /\ answers' = [answers EXCEPT ![i][v] = a] /\ a.by = u
    BY <2>1, <2>2, <2>3, DecisionWritten
  <2>5. Len(answers'[i]) = Len(answers[i]) /\ answers'[i][v] = a
    BY <2>0, <2>4, AnswerWritten
  <2> QED BY <2>1, <2>3, <2>4, <2>5 DEF Latest
<1> QED BY <1>1, WorkflowInvariant, PTL DEF Spec, ApprovedAsSeen

\* The sweep never takes a running reservation away.
THEOREM RunningIsKept == Spec => RunningKept
<1>1. IInv /\ [Next]_vars => [\A i \in Incidents :
         lease[i].live /\ swept'[i] # swept[i] =>
           lease'[i] = lease[i] /\ status'[i] = status[i] /\ responder'[i] = responder[i]]_vars
  <2> SUFFICES ASSUME IInv, Next, NEW i \in Incidents, lease[i].live, swept'[i] # swept[i]
               PROVE  lease'[i] = lease[i] /\ status'[i] = status[i] /\ responder'[i] = responder[i]
    BY DEF vars, row, locks
  <2> USE DEF row, locks
  <2>0. TypeOK /\ SweptExpired
    BY DEF IInv
  <2>1. ASSUME NEW k \in Incidents, Distribute(k) \/ Review(k) \/ Outgoing(k) PROVE FALSE
    <3>1. ~Distribute(k)
      BY DEF Distribute, Register, ClaimExpires, Claim, ReleaseClaim, Reject, Assign
    <3>2. ~Review(k)
      BY DEF Review, ReviewExpires, StaffRefresh, ClaimReview, ReleaseReview, StartEdit,
         CancelEdit, SaveCorrection, BeginDecision, BeginReopen
    <3>3. ~Outgoing(k)
      BY DEF Outgoing, CardFails, PostFails, PostStale, Deliver, Resend
    <3> QED BY <2>1, <3>1, <3>2, <3>3
  <2>2. \A u \in Staff : ~Finish(u)
    BY DEF Finish, Submit, Approve, RequestRevision, Reopen, Abandon
  <2>3. ~SweepClaims /\ ~SweepReviews
    BY DEF SweepClaims, SweepReviews
  <2>4. PICK k \in Incidents : SweepRead(k) \/ SweepLease(k)
    BY <2>1, <2>2, <2>3 DEF Next, Work, LeaseExpires, TakeInWork, ReleaseLease, ReturnToDistribution, BeginSubmit
  <2>5. k = i
    BY <2>0, <2>4 DEF SweepRead, SweepLease, TypeOK
  <2>6. ~SweepRead(i)
    BY DEF SweepRead, Expired
  <2>7. ~SameLease(i) /\ SweepLease(i)
    BY <2>0, <2>4, <2>5, <2>6 DEF SameLease, SweptExpired, SweepLease
  <2> QED BY <2>7, SweepFrees
<1> QED BY <1>1, WorkflowInvariant, PTL DEF Spec, RunningKept

\* A version is saved only under the assignment its author began it for.
THEOREM AnswersAreRightful == Spec => AnswerRightful
<1>1. IInv /\ [Next]_vars => [\A i \in Incidents :
         Latest(i) < Len(answers'[i]) /\ status[i] # "WAITING_REVIEW" =>
           \E u \in Staff : /\ frame[u].op = "submit" /\ frame[u].inc = i
                           /\ frame[u].round = round[i] /\ frame[u].group = group[i]
                           /\ responder'[i] = u /\ ~HeldByOther(lease[i], u)]_vars
  <2> SUFFICES ASSUME IInv, Next, NEW i \in Incidents,
                      Latest(i) < Len(answers'[i]), status[i] # "WAITING_REVIEW"
               PROVE  \E u \in Staff : /\ frame[u].op = "submit" /\ frame[u].inc = i
                           /\ frame[u].round = round[i] /\ frame[u].group = group[i]
                           /\ responder'[i] = u /\ ~HeldByOther(lease[i], u)
    BY DEF vars, row, locks
  <2> USE DEF row, locks
  <2>0. TypeOK /\ Latest(i) \in Nat
    BY LatestOf, BoundsAssumption DEF IInv
  <2>1. Len(answers'[i]) # Len(answers[i])
    BY <2>0 DEF Latest
  <2>2. ASSUME NEW k \in Incidents, Outgoing(k) PROVE FALSE
    <3>1. PICK v \in DOMAIN answers[k] :
            CardFails(k, v) \/ PostFails(k, v) \/ PostStale(k, v) \/ Deliver(k, v) \/ Resend(k, v)
      BY <2>2 DEF Outgoing
    <3>2. PICK a \in Answers : answers' = [answers EXCEPT ![k][v] = a]
      BY <3>1, OutgoingWritten
    <3>3. Len(answers'[k]) = Len(answers[k]) /\ (i # k => answers'[i] = answers[i])
      BY <2>0, <3>2, AnswerWritten
    <3> QED BY <2>1, <3>3
  <2>3. ASSUME NEW u \in Staff, Approve(u) \/ RequestRevision(u) \/ Reopen(u) PROVE FALSE
    <3> DEFINE k == frame[u].inc v == frame[u].answer
    <3>1. PICK a \in Answers :
            answers' = [answers EXCEPT ![k][v] = a] /\ k \in Incidents /\ v \in DOMAIN answers[k]
      BY <2>3, DecisionWritten
    <3> HIDE DEF k, v
    <3>2. Len(answers'[k]) = Len(answers[k]) /\ (i # k => answers'[i] = answers[i])
      BY <2>0, <3>1, AnswerWritten
    <3> QED BY <2>1, <3>2
  <2>4. ASSUME NEW k \in Incidents, Distribute(k) PROVE FALSE
    <3>1. \A u \in Staff : Reject(u, k) => Len(answers'[i]) = Len(answers[i])
      <4> SUFFICES ASSUME NEW u \in Staff, Reject(u, k) PROVE Len(answers'[i]) = Len(answers[i])
        OBVIOUS
      <4>1. DOMAIN answers'[i] = DOMAIN answers[i]
        BY <2>0 DEF Reject, TypeOK
      <4>2. answers[i] \in Seq(Answers) /\ answers'[i] \in Seq(Answers)
        BY <2>4, TypesDistribute, LatestOf DEF TypeOK
      <4> QED BY <4>1, <4>2, LenProperties
    <3> QED BY <2>1, <2>4, <3>1 DEF Distribute, Register, ClaimExpires, Claim, ReleaseClaim, Assign
  <2>5. ASSUME NEW k \in Incidents, Work(k) PROVE FALSE
    BY <2>1, <2>5 DEF Work, LeaseExpires, SweepRead, SweepLease, TakeInWork, ReleaseLease,
       ReturnToDistribution, BeginSubmit
  <2>6. ASSUME NEW k \in Incidents, Review(k) PROVE FALSE
    <3>1. ASSUME NEW u \in Staff, SaveCorrection(u, k) PROVE answers'[i] = answers[i]
      BY <2>0, <3>1 DEF SaveCorrection, EditStands, TypeOK
    <3> QED BY <2>1, <2>6, <3>1 DEF Review, ReviewExpires, StaffRefresh, ClaimReview, ReleaseReview, StartEdit,
       CancelEdit, BeginDecision, BeginReopen
  <2>7. ~SweepClaims /\ ~SweepReviews
    BY <2>1 DEF SweepClaims, SweepReviews
  <2>8. PICK u \in Staff : Submit(u)
    <3>1. \A u \in Staff : ~Abandon(u)
      BY <2>1 DEF Abandon
    <3> QED BY <2>2, <2>3, <2>4, <2>5, <2>6, <2>7, <3>1 DEF Next, Finish
  <2>9. frame[u].inc = i
    BY <2>0, <2>1, <2>8 DEF Submit, TypeOK
  <2> QED BY <2>0, <2>8, <2>9 DEF Submit, SameAssignment, TypeOK
<1> QED BY <1>1, WorkflowInvariant, PTL DEF Spec, AnswerRightful
=============================================================================
