------------------------------ MODULE Workflow ------------------------------
(* The life of an incident: registration, distribution, work in a sector,   *)
(* answers, review, delivery to the resident, and the reservations staff    *)
(* hold on the way.  src/distribution, src/sector, src/answers, src/review, *)
(* src/work-queues, src/incidents, src/sla/policy.ts.                       *)
(*                                                                          *)
(* One action is one database transaction.  Transactions that take the same *)
(* advisory lock are serialized; where a handler reads before its           *)
(* transaction, or where a transaction that shares no lock with another may *)
(* be overtaken between its reads and its unguarded writes, the read is an  *)
(* action of its own and what it saw is kept in "frame".  A handler that is *)
(* refused, fails or crashes leaves no trace but its lost frame.            *)
EXTENDS Naturals, Sequences, FiniteSets

CONSTANTS
  Incidents,  \* incidents that can be registered
  Staff,      \* employees; each may act as operator, responder and reviewer
  Groups,     \* responsible groups
  Bypass,     \* groups whose answers go out without review
  NoOne,      \* nobody holds a reservation
  NoGroup,    \* no group assigned
  MaxAnswers, \* bound: answer versions of one incident
  MaxRounds,  \* bound: returns to distribution of one incident
  MaxClaims,  \* bound: distribution claims granted on one incident
  MaxLeases,  \* bound: sector reservations granted on one incident
  MaxReviews  \* bound: review reservations granted on one incident

ASSUME GroupsAssumption == Bypass \subseteq Groups /\ NoGroup \notin Groups
ASSUME StaffAssumption == NoOne \notin Staff
ASSUME BoundsAssumption == {MaxAnswers, MaxRounds, MaxClaims, MaxLeases, MaxReviews} \subseteq Nat

VARIABLES
  status,    \* Incident.status; "NONE" before registration
  group,     \* Incident.assignedGroupId
  responder, \* Incident.currentResponderId
  rework,    \* Incident.revisionReason is set
  round,     \* how many REDISTRIBUTION_REQUESTED entries the history has
  cycle,     \* the last assignment cycle: "NONE", "OPEN" or "ENDED"
  claim,     \* Incident.distributionClaimedBy, distributionClaimUntil
  lease,     \* the "sector-queue" ActionLock
  review,    \* the "review-queue" ActionLock
  draft,     \* the operator session of an unsaved reviewer's correction
  answers,   \* the versions, each with its two outbox rows
  frame,     \* what an employee's running handler has read
  swept,     \* the expired sector reservation the work-queue sweep has read
  torn       \* history: a reopening overwrote a decision it had not seen

vars == <<status, group, responder, rework, round, cycle, claim, lease, review,
          draft, answers, frame, swept, torn>>
row == <<status, group, responder, rework, round, cycle>>
locks == <<claim, lease, review, draft>>

Workable == {"ASSIGNED", "IN_PROGRESS", "REVISION_REQUIRED"}
Statuses == Workable \cup {"DISTRIBUTION", "WAITING_REVIEW", "REJECTED", "RESOLVED"}

\* IncidentStateService: the table of legal status changes.
Allowed(from) ==
  CASE from = "NEW" -> {"DISTRIBUTION"}
    [] from = "DISTRIBUTION" -> {"ASSIGNED", "REJECTED"}
    [] from = "ASSIGNED" -> {"DISTRIBUTION", "IN_PROGRESS", "WAITING_REVIEW", "RESOLVED"}
    [] from = "IN_PROGRESS" -> {"ASSIGNED", "REVISION_REQUIRED", "DISTRIBUTION",
                                "WAITING_REVIEW", "RESOLVED"}
    [] from = "WAITING_REVIEW" -> {"RESOLVED", "REVISION_REQUIRED"}
    [] from = "REVISION_REQUIRED" -> {"DISTRIBUTION", "IN_PROGRESS", "WAITING_REVIEW",
                                      "RESOLVED"}
    [] OTHER -> {}

Lock(n) == [by : Staff \cup {NoOne}, term : 0..n, live : BOOLEAN]
Free == [by |-> NoOne, term |-> 0, live |-> FALSE]
Lapsed(l) == [l EXCEPT !.live = FALSE]   \* left to run out
Freed(l) == [l EXCEPT !.by = NoOne, !.live = FALSE]
Expired(l) == l.by # NoOne /\ ~l.live
HeldByOther(l, u) == l.live /\ l.by # u

\* A new term stands for a new lockedUntil: no two of one key are the same.
Granted(l, u) == [by |-> u, term |-> l.term + 1, live |-> TRUE]

Latest(i) == Len(answers[i])
Idle == [op |-> "idle"]
NoDraft == [by |-> NoOne, answer |-> 0, term |-> 0]

\* What a responder's, a reviewer's and a reopening handler has read.
Frames ==
  {Idle}
  \cup [op : {"submit"}, inc : Incidents, group : Groups, round : 0..MaxRounds]
  \cup [op : {"approve", "revise"}, inc : Incidents, answer : 1..MaxAnswers]
  \cup [op : {"reopen"}, inc : Incidents, answer : 1..MaxAnswers,
        row : {"card", "post"}, status : {"WAITING_REVIEW", "RESOLVED"}]

CardStates == {"NONE", "QUEUED", "FAILED", "FENCED"}
PostStates == {"NONE", "QUEUED", "FAILED", "FENCED", "STALE", "SENT"}
Answers == [state : {"WAITING_REVIEW", "APPROVED", "REVISION_REQUIRED"},
            by : Staff \cup {NoOne}, delivered : BOOLEAN,
            card : CardStates, post : PostStates]

Init ==
  /\ status = [i \in Incidents |-> "NONE"]
  /\ group = [i \in Incidents |-> NoGroup]
  /\ responder = [i \in Incidents |-> NoOne]
  /\ rework = [i \in Incidents |-> FALSE]
  /\ round = [i \in Incidents |-> 0]
  /\ cycle = [i \in Incidents |-> "NONE"]
  /\ claim = [i \in Incidents |-> Free]
  /\ lease = [i \in Incidents |-> Free]
  /\ review = [i \in Incidents |-> Free]
  /\ draft = [i \in Incidents |-> NoDraft]
  /\ answers = [i \in Incidents |-> << >>]
  /\ frame = [u \in Staff |-> Idle]
  /\ swept = [i \in Incidents |-> 0]
  /\ torn = {}

-----------------------------------------------------------------------------
(* Registration and distribution: every writer holds CLAIM_LOCK. *)

Register(i) ==
  /\ status[i] = "NONE"
  /\ status' = [status EXCEPT ![i] = "DISTRIBUTION"]
  /\ UNCHANGED <<group, responder, rework, round, cycle, locks, answers, frame, swept, torn>>

OwnClaims(u) == {i \in Incidents : status[i] = "DISTRIBUTION" /\ claim[i].by = u /\ claim[i].live}

\* An operator takes an incident; one already taken is only shown again.
Claim(u, i) ==
  /\ OwnClaims(u) = {}
  /\ status[i] = "DISTRIBUTION"
  /\ ~HeldByOther(claim[i], u)
  /\ claim[i].term < MaxClaims
  /\ claim' = [claim EXCEPT ![i] = Granted(@, u)]
  /\ UNCHANGED <<row, lease, review, draft, answers, frame, swept, torn>>

ReleaseClaim(u, i) ==
  /\ status[i] = "DISTRIBUTION" /\ claim[i].by = u
  /\ claim' = [claim EXCEPT ![i] = Freed(@)]
  /\ UNCHANGED <<row, lease, review, draft, answers, frame, swept, torn>>

ClaimExpires(i) ==
  /\ claim[i].live
  /\ claim' = [claim EXCEPT ![i].live = FALSE]
  /\ UNCHANGED <<row, lease, review, draft, answers, frame, swept, torn>>

SweepClaims ==
  LET old == {i \in Incidents : status[i] = "DISTRIBUTION" /\ Expired(claim[i])} IN
  /\ old # {}
  /\ claim' = [i \in Incidents |-> IF i \in old THEN Freed(claim[i]) ELSE claim[i]]
  /\ UNCHANGED <<row, lease, review, draft, answers, frame, swept, torn>>

\* finishAssignment
ClosedNever(c) == c
Closed(c) == IF c = "OPEN" THEN "ENDED" ELSE c

\* startAssignment throws when the previous cycle is still open.
Assign(u, i, g) ==
  /\ status[i] = "DISTRIBUTION"
  /\ ~HeldByOther(claim[i], u)
  /\ cycle[i] # "OPEN"
  /\ status' = [status EXCEPT ![i] = "ASSIGNED"]
  /\ group' = [group EXCEPT ![i] = g]
  /\ cycle' = [cycle EXCEPT ![i] = "OPEN"]
  /\ claim' = [claim EXCEPT ![i] = Freed(@)]
  /\ UNCHANGED <<responder, rework, round, lease, review, draft, answers, frame, swept, torn>>

\* Rejection also deletes the incident's outbox rows and input sessions.
Reject(u, i) ==
  /\ status[i] = "DISTRIBUTION"
  /\ ~HeldByOther(claim[i], u)
  /\ status' = [status EXCEPT ![i] = "REJECTED"]
  /\ cycle' = [cycle EXCEPT ![i] = Closed(@)]
  /\ claim' = [claim EXCEPT ![i] = Freed(@)]
  /\ draft' = [draft EXCEPT ![i] = NoDraft]
  /\ answers' = [answers EXCEPT ![i] =
       [v \in DOMAIN @ |-> [@[v] EXCEPT !.card = "NONE", !.post = "NONE"]]]
  /\ UNCHANGED <<group, responder, rework, round, lease, review, frame, swept, torn>>

-----------------------------------------------------------------------------
(* The sector: every writer holds the incident's answer lock. *)

\* queueStaffRefresh: an incident that is not in review keeps no reviewer.
DropReviewer(i) ==
  /\ review' = [review EXCEPT ![i] = Freed(@)]
  /\ draft' = [draft EXCEPT ![i] = NoDraft]

\* A reopening holds it from its reads to its writes.
AnswerLockFree(i) == \A u \in Staff : frame[u].op = "reopen" => frame[u].inc # i

\* The status in which an incident is given to a responder.
Takeable(i) == status[i] \in Workable
TakeInWork(u, i) ==
  /\ AnswerLockFree(i)
  /\ Takeable(i)
  /\ ~lease[i].live
  /\ lease[i].term < MaxLeases
  /\ lease' = [lease EXCEPT ![i] = Granted(@, u)]
  /\ status' = [status EXCEPT ![i] = "IN_PROGRESS"]
  /\ responder' = [responder EXCEPT ![i] = u]
  /\ DropReviewer(i)
  /\ UNCHANGED <<group, rework, round, cycle, claim, answers, frame, swept, torn>>

\* The status an incident falls back to when nobody works on it.
Waiting(i) == IF rework[i] THEN "REVISION_REQUIRED" ELSE "ASSIGNED"
PutBack(i) ==
  /\ status' = [status EXCEPT ![i] = Waiting(i)]
  /\ responder' = [responder EXCEPT ![i] = NoOne]
  /\ lease' = [lease EXCEPT ![i] = Freed(@)]
  /\ DropReviewer(i)

ReleaseLease(u, i) ==
  /\ AnswerLockFree(i)
  /\ status[i] \in Workable /\ lease[i].by = u
  /\ PutBack(i)
  /\ UNCHANGED <<group, rework, round, cycle, claim, answers, frame, swept, torn>>

LeaseExpires(i) ==
  /\ lease[i].live
  /\ lease' = [lease EXCEPT ![i].live = FALSE]
  /\ UNCHANGED <<row, claim, review, draft, answers, frame, swept, torn>>

\* The sweep reads the expired reservations before it takes any lock.
SweepRead(i) ==
  /\ swept[i] = 0 /\ Expired(lease[i])
  /\ swept' = [swept EXCEPT ![i] = lease[i].term]
  /\ UNCHANGED <<row, locks, answers, frame, torn>>

\* It removes the reservation it has read, and no later one.
AnyLease(i) == lease[i].by # NoOne   \* by key alone
SameLease(i) == lease[i].by # NoOne /\ lease[i].term = swept[i]
SweepLease(i) ==
  /\ AnswerLockFree(i)
  /\ swept[i] # 0
  /\ swept' = [swept EXCEPT ![i] = 0]
  /\ IF SameLease(i) /\ status[i] \in Workable THEN PutBack(i)
     ELSE /\ lease' = [lease EXCEPT ![i] = IF SameLease(i) THEN Freed(@) ELSE @]
          /\ UNCHANGED <<status, responder, review, draft>>
  /\ UNCHANGED <<group, rework, round, cycle, claim, answers, frame, torn>>

\* Both locks are held.  Every reservation and session of the incident goes.
ReturnToDistribution(u, i) ==
  /\ AnswerLockFree(i)
  /\ status[i] \in Workable
  /\ ~HeldByOther(lease[i], u)
  /\ round[i] < MaxRounds
  /\ cycle' = [cycle EXCEPT ![i] = Closed(@)]
  /\ status' = [status EXCEPT ![i] = "DISTRIBUTION"]
  /\ group' = [group EXCEPT ![i] = NoGroup]
  /\ responder' = [responder EXCEPT ![i] = NoOne]
  /\ rework' = [rework EXCEPT ![i] = FALSE]
  /\ round' = [round EXCEPT ![i] = @ + 1]
  /\ claim' = [claim EXCEPT ![i] = Freed(@)]
  /\ lease' = [lease EXCEPT ![i] = Freed(@)]
  /\ DropReviewer(i)
  /\ UNCHANGED <<answers, frame, swept, torn>>

-----------------------------------------------------------------------------
(* Answers. *)

Version(s, by, card, post) ==
  [state |-> s, by |-> by, delivered |-> FALSE, card |-> card, post |-> post]

\* submit() reads the incident, then stores the attached files for some time.
BeginSubmit(u, i) ==
  /\ frame[u] = Idle
  /\ status[i] \in Workable
  /\ frame' = [frame EXCEPT ![u] =
       [op |-> "submit", inc |-> i, group |-> group[i], round |-> round[i]]]
  /\ UNCHANGED <<row, locks, answers, swept, torn>>

\* Whether the answer goes out unreviewed was decided by the first read.
\* The assignment must be the one that was read.
AnyAssignment(u, i) == status[i] \in Workable   \* whosever it is by now
SameGroup(u, i) == group[i] = frame[u].group   \* an earlier round counts too
SameAssignment(u, i) == group[i] = frame[u].group /\ round[i] = frame[u].round
Direct(u) == frame[u].group \in Bypass
Submit(u) ==
  LET i == frame[u].inc IN
  /\ frame[u].op = "submit"
  /\ AnswerLockFree(i)
  /\ status[i] \in Workable
  /\ ~HeldByOther(lease[i], u)
  /\ SameAssignment(u, i)
  /\ cycle[i] = "OPEN"
  /\ Latest(i) < MaxAnswers
  /\ answers' = [answers EXCEPT ![i] = Append(@,
       IF Direct(u) THEN Version("APPROVED", NoOne, "NONE", "QUEUED")
       ELSE Version("WAITING_REVIEW", NoOne, "QUEUED", "NONE"))]
  /\ status' = [status EXCEPT ![i] = IF Direct(u) THEN "RESOLVED" ELSE "WAITING_REVIEW"]
  /\ responder' = [responder EXCEPT ![i] = u]
  /\ lease' = [lease EXCEPT ![i] = Freed(@)]
  /\ IF Direct(u) THEN DropReviewer(i) ELSE UNCHANGED <<review, draft>>
  /\ frame' = [frame EXCEPT ![u] = Idle]
  /\ UNCHANGED <<group, rework, round, cycle, claim, swept, torn>>

\* A handler that is refused, throws or crashes.
Abandon(u) ==
  /\ frame[u] # Idle
  /\ frame' = [frame EXCEPT ![u] = Idle]
  /\ UNCHANGED <<row, locks, answers, swept, torn>>

-----------------------------------------------------------------------------
(* Review: every writer holds REVIEW_LOCK. *)

OwnReviews(u) == {i \in Incidents : status[i] = "WAITING_REVIEW" /\ review[i].by = u /\ review[i].live}

ClaimReview(u, i) ==
  /\ OwnReviews(u) = {}
  /\ status[i] = "WAITING_REVIEW"
  /\ ~review[i].live
  /\ review[i].term < MaxReviews
  /\ review' = [review EXCEPT ![i] = Granted(@, u)]
  /\ UNCHANGED <<row, claim, lease, draft, answers, frame, swept, torn>>

ReleaseReview(u, i) ==
  /\ status[i] = "WAITING_REVIEW" /\ review[i].by = u
  /\ review' = [review EXCEPT ![i] = Freed(@)]
  /\ draft' = [draft EXCEPT ![i] = IF @.by = u THEN NoDraft ELSE @]
  /\ UNCHANGED <<row, claim, lease, answers, frame, swept, torn>>

ReviewExpires(i) ==
  /\ review[i].live
  /\ review' = [review EXCEPT ![i].live = FALSE]
  /\ UNCHANGED <<row, claim, lease, draft, answers, frame, swept, torn>>

Kept(i, d) == IF status[i] = "WAITING_REVIEW" THEN d ELSE NoDraft
SweepReviews ==
  LET old == {i \in Incidents : Expired(review[i])} IN
  /\ old # {}
  /\ review' = [i \in Incidents |-> IF i \in old THEN Freed(review[i]) ELSE review[i]]
  /\ draft' = [i \in Incidents |-> IF i \in old THEN Kept(i, draft[i]) ELSE draft[i]]
  /\ UNCHANGED <<row, claim, lease, answers, frame, swept, torn>>

\* The outbox completes a staff card of the incident, at any later time.
StaffRefresh(i) ==
  /\ status[i] \in Statuses \ {"WAITING_REVIEW"}
  /\ review[i].by # NoOne \/ draft[i] # NoDraft
  /\ DropReviewer(i)
  /\ UNCHANGED <<row, claim, lease, answers, frame, swept, torn>>

\* A correction is bound to the version shown and to the reservation's term.
StartEdit(u, i) ==
  /\ status[i] = "WAITING_REVIEW"
  /\ review[i].by = u /\ review[i].live
  /\ answers[i][Latest(i)].state = "WAITING_REVIEW"
  /\ draft' = [draft EXCEPT ![i] = [by |-> u, answer |-> Latest(i), term |-> review[i].term]]
  /\ UNCHANGED <<row, claim, lease, review, answers, frame, swept, torn>>

Editing(u, i) == draft[i].by = u /\ review[i].by = u /\ review[i].live
                 /\ draft[i].term = review[i].term
EditStands(u, i) ==
  /\ Editing(u, i)
  /\ status[i] = "WAITING_REVIEW"
  /\ draft[i].answer = Latest(i)
  /\ answers[i][Latest(i)].state = "WAITING_REVIEW"

CancelEdit(u, i) ==
  /\ EditStands(u, i)
  /\ draft' = [draft EXCEPT ![i] = NoDraft]
  /\ UNCHANGED <<row, claim, lease, review, answers, frame, swept, torn>>

SaveCorrection(u, i) ==
  /\ EditStands(u, i)
  /\ Latest(i) < MaxAnswers
  /\ answers' = [answers EXCEPT ![i] =
       Append(@, Version("WAITING_REVIEW", NoOne, "QUEUED", "NONE"))]
  /\ draft' = [draft EXCEPT ![i] = NoDraft]
  /\ UNCHANGED <<row, claim, lease, review, frame, swept, torn>>

\* approve() and requestRevision() read the version on the reviewer's card.
BeginDecision(u, i, op) ==
  /\ frame[u] = Idle
  /\ status[i] = "WAITING_REVIEW"
  /\ frame' = [frame EXCEPT ![u] = [op |-> op, inc |-> i, answer |-> Latest(i)]]
  /\ UNCHANGED <<row, locks, answers, swept, torn>>

SeenInReview(u, i) == answers[i][Latest(i)].state = "WAITING_REVIEW"   \* any version
SeenIsLatest(u, i) ==
  Latest(i) = frame[u].answer /\ answers[i][Latest(i)].state = "WAITING_REVIEW"
MayDecide(u, i) ==
  /\ ~HeldByOther(review[i], u)
  /\ ~Editing(u, i)
  /\ status[i] = "WAITING_REVIEW"
  /\ SeenIsLatest(u, i)

Approve(u) ==
  LET i == frame[u].inc IN
  /\ frame[u].op = "approve"
  /\ MayDecide(u, i)
  /\ status' = [status EXCEPT ![i] = "RESOLVED"]
  /\ answers' = [answers EXCEPT ![i][frame[u].answer] =
       [@ EXCEPT !.state = "APPROVED", !.by = u, !.post = "QUEUED"]]
  /\ DropReviewer(i)
  /\ frame' = [frame EXCEPT ![u] = Idle]
  /\ UNCHANGED <<group, responder, rework, round, cycle, claim, lease, swept, torn>>

RequestRevision(u) ==
  LET i == frame[u].inc IN
  /\ frame[u].op = "revise"
  /\ MayDecide(u, i)
  /\ status' = [status EXCEPT ![i] = "REVISION_REQUIRED"]
  /\ rework' = [rework EXCEPT ![i] = TRUE]
  /\ answers' = [answers EXCEPT ![i][frame[u].answer].state = "REVISION_REQUIRED"]
  /\ DropReviewer(i)
  /\ frame' = [frame EXCEPT ![u] = Idle]
  /\ UNCHANGED <<group, responder, round, cycle, claim, lease, swept, torn>>

-----------------------------------------------------------------------------
(* The outbox, as far as the workflow depends on it. *)

\* A photograph is not available in MAX: the row fails for good and the
\* sector is offered to replace it.
CardFails(i, v) ==
  /\ answers[i][v].card = "QUEUED"
  /\ answers' = [answers EXCEPT ![i][v].card = "FAILED"]
  /\ UNCHANGED <<row, locks, frame, swept, torn>>
PostFails(i, v) ==
  /\ answers[i][v].post = "QUEUED"
  /\ answers' = [answers EXCEPT ![i][v].post = "FAILED"]
  /\ UNCHANGED <<row, locks, frame, swept, torn>>

\* assertCurrentAnswer
NewestAnswer(i, v) == v = Latest(i) /\ ~answers[i][v].delivered   \* approved or not
CurrentAnswer(i, v) ==
  status[i] = "RESOLVED" /\ v = Latest(i) /\ answers[i][v].state = "APPROVED"
  /\ ~answers[i][v].delivered
PostStale(i, v) ==
  /\ answers[i][v].post = "QUEUED" /\ ~CurrentAnswer(i, v)
  /\ answers' = [answers EXCEPT ![i][v].post = "STALE"]
  /\ UNCHANGED <<row, locks, frame, swept, torn>>

\* complete(): under the incident's row lock.
Deliver(i, v) ==
  /\ answers[i][v].post = "QUEUED" /\ CurrentAnswer(i, v)
  /\ answers' = [answers EXCEPT ![i][v] = [@ EXCEPT !.delivered = TRUE, !.post = "SENT"]]
  /\ cycle' = [cycle EXCEPT ![i] = Closed(@)]
  /\ DropReviewer(i)
  /\ UNCHANGED <<status, group, responder, rework, round, claim, lease, frame, swept, torn>>

\* /resend
Resend(i, v) ==
  /\ answers[i][v].post = "FAILED" /\ CurrentAnswer(i, v)
  /\ answers' = [answers EXCEPT ![i][v].post = "QUEUED"]
  /\ UNCHANGED <<row, locks, frame, swept, torn>>

-----------------------------------------------------------------------------
(* reopenForPhotoReplacement holds the answer lock, which decisions do not  *)
(* take: what it has read may change before it writes.                      *)

RowState(a, r) == IF r = "card" THEN a.card ELSE a.post
BeginReopen(u, i, r) ==
  /\ frame[u] = Idle
  /\ AnswerLockFree(i)
  /\ status[i] \in {"WAITING_REVIEW", "RESOLVED"}
  /\ RowState(answers[i][Latest(i)], r) = "FAILED"
  /\ ~answers[i][Latest(i)].delivered
  /\ frame' = [frame EXCEPT ![u] = [op |-> "reopen", inc |-> i, answer |-> Latest(i),
                                    row |-> r, status |-> status[i]]]
  /\ UNCHANGED <<row, locks, answers, swept, torn>>

\* Only the failed row is checked again; the incident and the answer are
\* written whatever has become of them.  A review reservation that commits at
\* the same time escapes: neither transaction sees the other's.
Overtaken(u, i) ==
  \/ status[i] # frame[u].status
  \/ Latest(i) # frame[u].answer
  \/ answers[i][frame[u].answer].delivered
Reopen(u) ==
  LET i == frame[u].inc v == frame[u].answer IN
  /\ frame[u].op = "reopen"
  /\ RowState(answers[i][v], frame[u].row) = "FAILED"
  /\ status' = [status EXCEPT ![i] = "REVISION_REQUIRED"]
  /\ rework' = [rework EXCEPT ![i] = TRUE]
  /\ answers' = [answers EXCEPT ![i][v] =
       IF frame[u].row = "card" THEN [@ EXCEPT !.state = "REVISION_REQUIRED", !.card = "FENCED"]
       ELSE [@ EXCEPT !.state = "REVISION_REQUIRED", !.post = "FENCED"]]
  /\ frame' = [frame EXCEPT ![u] = Idle]
  /\ torn' = IF Overtaken(u, i) THEN torn \cup {i} ELSE torn
  /\ DropReviewer(i) \/ UNCHANGED <<review, draft>>
  /\ UNCHANGED <<group, responder, round, cycle, claim, lease, swept>>

-----------------------------------------------------------------------------
Distribute(i) ==
  \/ Register(i) \/ ClaimExpires(i)
  \/ \E u \in Staff : Claim(u, i) \/ ReleaseClaim(u, i) \/ Reject(u, i)
  \/ \E u \in Staff, g \in Groups : Assign(u, i, g)
Work(i) ==
  \/ LeaseExpires(i) \/ SweepRead(i) \/ SweepLease(i)
  \/ \E u \in Staff : TakeInWork(u, i) \/ ReleaseLease(u, i) \/ ReturnToDistribution(u, i)
                     \/ BeginSubmit(u, i)
Review(i) ==
  \/ ReviewExpires(i) \/ StaffRefresh(i)
  \/ \E u \in Staff : ClaimReview(u, i) \/ ReleaseReview(u, i)
                     \/ StartEdit(u, i) \/ CancelEdit(u, i) \/ SaveCorrection(u, i)
  \/ \E u \in Staff, op \in {"approve", "revise"} : BeginDecision(u, i, op)
  \/ \E u \in Staff, r \in {"card", "post"} : BeginReopen(u, i, r)
Outgoing(i) ==
  \E v \in DOMAIN answers[i] :
    CardFails(i, v) \/ PostFails(i, v) \/ PostStale(i, v) \/ Deliver(i, v) \/ Resend(i, v)
Finish(u) == Submit(u) \/ Approve(u) \/ RequestRevision(u) \/ Reopen(u) \/ Abandon(u)

Next ==
  \/ SweepClaims \/ SweepReviews
  \/ \E i \in Incidents : Distribute(i) \/ Work(i) \/ Review(i) \/ Outgoing(i)
  \/ \E u \in Staff : Finish(u)

Spec == Init /\ [][Next]_vars

-----------------------------------------------------------------------------
(* Properties. *)

\* Every variable holds what its column or structure may hold.
TypeOK ==
  /\ status \in [Incidents -> Statuses \cup {"NONE"}]
  /\ group \in [Incidents -> Groups \cup {NoGroup}]
  /\ responder \in [Incidents -> Staff \cup {NoOne}]
  /\ rework \in [Incidents -> BOOLEAN]
  /\ round \in [Incidents -> 0..MaxRounds]
  /\ cycle \in [Incidents -> {"NONE", "OPEN", "ENDED"}]
  /\ claim \in [Incidents -> Lock(MaxClaims)]
  /\ lease \in [Incidents -> Lock(MaxLeases)]
  /\ review \in [Incidents -> Lock(MaxReviews)]
  /\ draft \in [Incidents -> [by : Staff \cup {NoOne}, answer : 0..MaxAnswers, term : 0..MaxReviews]]
  /\ answers \in [Incidents -> Seq(Answers)]
  /\ \A i \in Incidents : Len(answers[i]) <= MaxAnswers
  /\ frame \in [Staff -> Frames]
  /\ swept \in [Incidents -> 0..MaxLeases]
  /\ torn \subseteq Incidents

\* An operator holds at most one incident of the distribution queue at a
\* time, however claims, expiries, releases and returns interleave.
OneClaimEach ==
  \A u \in Staff : \A i, j \in OwnClaims(u) : i = j

\* An incident is in work exactly when somebody's reservation is on record,
\* and the responder is its holder: no incident is left in work with nobody
\* the sweep could free it from.
InProgressHeld ==
  \A i \in Incidents :
    /\ (status[i] = "IN_PROGRESS") <=> (lease[i].by # NoOne)
    /\ lease[i].by # NoOne => responder[i] = lease[i].by

\* A resolved incident was approved by a reviewer, or belongs to a group
\* that needs none: an answer prepared for such a group never goes out
\* unreviewed in the name of another.
NoUnreviewed ==
  \A i \in Incidents : status[i] = "RESOLVED" =>
    answers[i][Latest(i)].by # NoOne \/ group[i] \in Bypass

\* The assignment cycle is open exactly while an answer is owed: startAssignment
\* and recordPreparation never find the history inconsistent, unless a
\* reopening was overtaken.
Owed(i) ==
  \/ status[i] \in Workable \cup {"WAITING_REVIEW"}
  \/ status[i] = "RESOLVED" /\ ~answers[i][Latest(i)].delivered
CycleFits ==
  \A i \in Incidents \ torn : (cycle[i] = "OPEN") <=> Owed(i)

\* The latest version is in the state its incident's status calls for, unless
\* a reopening was overtaken.
AnswerFits ==
  \A i \in Incidents \ torn :
    LET n == Latest(i) IN
    /\ status[i] = "WAITING_REVIEW" => n > 0 /\ answers[i][n].state = "WAITING_REVIEW"
    /\ status[i] = "RESOLVED" => n > 0 /\ answers[i][n].state = "APPROVED"
    /\ status[i] \in Workable \cup {"NONE", "DISTRIBUTION", "REJECTED"} =>
         n = 0 \/ answers[i][n].state = "REVISION_REQUIRED"

\* What has been delivered is settled: the incident stays resolved, and no
\* other version was or will be delivered.  answer.service.ts refuses to
\* reopen a delivered answer (line 62), in vain when it is overtaken.
DeliveredFinal ==
  \A i \in Incidents : \A v \in DOMAIN answers[i] :
    answers[i][v].delivered => status[i] = "RESOLVED" /\ v = Latest(i)
\* The same, but for the incidents on which a reopening was overtaken.
DeliveredStays ==
  \A i \in Incidents \ torn : \A v \in DOMAIN answers[i] :
    answers[i][v].delivered => status[i] = "RESOLVED" /\ v = Latest(i)

\* A group is on record exactly while the incident is out of the queue, and
\* whoever waits for a review or is resolved has an answer.
RowFits ==
  \A i \in Incidents :
    /\ (group[i] = NoGroup) <=> (status[i] \in {"NONE", "DISTRIBUTION", "REJECTED"})
    /\ status[i] \in {"WAITING_REVIEW", "RESOLVED"} => Latest(i) > 0
\* A claim exists only on incidents in the distribution queue.
ClaimsQueued ==
  \A i \in Incidents : status[i] # "DISTRIBUTION" => claim[i].by = NoOne
\* A claim that runs has an owner.
LiveHeld ==
  \A i \in Incidents : claim[i].live => claim[i].by # NoOne

\* While a reopening is under way only reviewers and the outbox move the incident.
FrameFits ==
  \A u \in Staff : frame[u].op = "reopen" =>
    /\ status[frame[u].inc] \in {"WAITING_REVIEW", "RESOLVED", "REVISION_REQUIRED"}
    /\ frame[u].answer <= Latest(frame[u].inc)

\* What the sweep has read had run out then and is granted at most once, so a
\* reservation it still finds unchanged is not running.
SweptExpired ==
  \A i \in Incidents :
    /\ swept[i] <= lease[i].term
    /\ swept[i] # 0 /\ swept[i] = lease[i].term => ~lease[i].live

\* The inductive invariant, checked here and proved in WorkflowProofs.
IInv ==
  TypeOK /\ RowFits /\ ClaimsQueued /\ LiveHeld /\ FrameFits /\ SweptExpired
  /\ OneClaimEach /\ InProgressHeld /\ NoUnreviewed /\ CycleFits /\ AnswerFits /\ DeliveredStays

\* A reviewer resolves an incident with the very version on the card that was
\* pressed, and never over a colleague's reservation.
ApprovedAsSeen ==
  [][\A i \in Incidents :
       status[i] = "WAITING_REVIEW" /\ status'[i] = "RESOLVED" =>
         \E u \in Staff : /\ frame[u].op = "approve" /\ frame[u].inc = i
                         /\ frame[u].answer = Latest(i) /\ Latest(i) = Len(answers'[i])
                         /\ answers'[i][Latest(i)].by = u
                         /\ ~HeldByOther(review[i], u)]_vars

\* A responder's version belongs to the assignment under which its author
\* began it, even if the incident went to another group and back meanwhile,
\* and is not saved over a colleague's reservation.
AnswerRightful ==
  [][\A i \in Incidents :
       Latest(i) < Len(answers'[i]) /\ status[i] # "WAITING_REVIEW" =>
         \E u \in Staff : /\ frame[u].op = "submit" /\ frame[u].inc = i
                         /\ frame[u].round = round[i] /\ frame[u].group = group[i]
                         /\ responder'[i] = u /\ ~HeldByOther(lease[i], u)]_vars

\* The sweep frees only what has run out: the responder who took an incident
\* over between the sweep's read and its transaction keeps it.
RunningKept ==
  [][\A i \in Incidents :
       lease[i].live /\ swept'[i] # swept[i] =>
         lease'[i] = lease[i] /\ status'[i] = status[i] /\ responder'[i] = responder[i]]_vars

\* Every change of status is one the table of IncidentStateService allows;
\* the only exception is a reopening.
LegalChanges ==
  [][\A i \in Incidents :
       status[i] # "NONE" /\ status'[i] # status[i] =>
         \/ status'[i] \in Allowed(status[i])
         \/ \E u \in Staff : frame[u].op = "reopen" /\ frame[u].inc = i
                             /\ frame'[u] = Idle]_vars
=============================================================================
