------------------------------- MODULE Outbox -------------------------------
(***************************************************************************)
(* The durable outbox: the delivery attempts of max/max-message.service.ts *)
(* against the OutboundMessage table.                                      *)
(*                                                                         *)
(* A job is a row; its parts are the MAX messages it is split into.  A     *)
(* worker claims a row (status SENDING, an attempt number, lockedAt as the *)
(* lease), reads it back, checks before every request that it still owns   *)
(* the row and that the message is still wanted, sends one part at a time, *)
(* saves the confirmed part under a compare-and-set that also renews the   *)
(* lease, and completes the row.  Workers are processes: a deployment may  *)
(* run two on one database.  A worker is one lane of a process, that is,   *)
(* what it does for one recipient at a time.                               *)
(*                                                                         *)
(* Database calls and MAX requests may fail after or before they took      *)
(* effect, a worker may die between any two steps, and a lease may run out *)
(* while its owner still works.                                            *)
(***************************************************************************)
EXTENDS Integers, FiniteSets

CONSTANTS
  Jobs,         \* outbound messages, by dedupe key
  Targets,      \* recipients (targetType:targetId)
  Target,       \* Target[j]: the recipient of j
  Kind,         \* Kind[j]: which rules apply to j, see Kinds
  Parts,        \* Parts[j]: how many MAX messages j is split into
  Workers,      \* concurrent lanes of the processes on this database
  Orders,       \* bound: sequences in which jobs are queued
  Locks,        \* the lockedAt values a claim or a renewal may draw
  None,         \* null
  MaxAttempts,  \* OUTBOX_MAX_ATTEMPTS
  MaxTroubles,  \* bound: calls that fail and workers that die
  MaxLapses,    \* bound: leases that run out under a working owner
  MaxResends    \* bound: /resend commands

(* plain: sent whatever happens.  answer: the approved answer to a         *)
(* resident.  card: a sector card, tied to one assignment.  invite: an     *)
(* invitation queued by an older release, held back until the answer is    *)
(* rated.  deadline: a working-deadline notice, deferred outside working   *)
(* hours and cancelled when it has lost its point.  A job that only        *)
(* refreshes cards is plain with no parts.                                 *)
Kinds == {"plain", "answer", "card", "invite", "deadline"}

ASSUME ConstantsAssumption ==
  /\ IsFiniteSet(Workers)
  /\ Target \in [Jobs -> Targets]
  /\ Kind \in [Jobs -> Kinds]
  /\ Parts \in [Jobs -> Nat]
  /\ \A j \in Jobs : Kind[j] = "deadline" => Parts[j] = 1
  /\ Locks \subseteq Nat \ {0} /\ None \notin Jobs
  /\ MaxAttempts \in Nat \ {0}
  /\ MaxTroubles \in Nat /\ MaxLapses \in Nat /\ MaxResends \in Nat

VARIABLES
  rows,       \* OutboundMessage, by job
  lastSeq,    \* the sequence column's generator
  att,        \* what each worker is doing
  valid,      \* the incident still wants the message (current answer, ...)
  held,       \* the business condition the message waits for does not hold
  delivered,  \* IncidentAnswer.deliveredAt is set
  got,        \* history: how often MAX received each part
  tried,      \* history: the jobs that were ever claimed
  late,       \* history: pairs <<i, j>>: i was queued after j's first claim
  inflight,   \* history: requests under way when j became obsolete, less
              \*   the parts received since
  faults, crashes, lapses, resends   \* budgets spent

business == <<valid, held, delivered>>
history  == <<got, tried, late, inflight>>
budgets  == <<faults, crashes, lapses, resends>>
vars == <<rows, lastSeq, att, business, history, budgets>>

Done     == {"SENT", "FAILED", "CANCELLED"}
Waiting  == {"PENDING", "DEFERRED"}
Statuses == {"ABSENT", "INSERTED", "SENDING"} \cup Waiting \cup Done

(* lock is lockedAt, 0 for null; live: that lease has not run out; due:    *)
(* nextAttemptAt has come; parts: how many mids are saved.                 *)
Row == [status: Statuses, seq: Nat, attempts: Int, lock: Locks \cup {0}, live: BOOLEAN,
        due: BOOLEAN, parts: Nat, applied: BOOLEAN]
NoRow == [status |-> "ABSENT", seq |-> 0, attempts |-> 0, lock |-> 0,
          live |-> FALSE, due |-> FALSE, parts |-> 0, applied |-> FALSE]

Steps == {"claimed", "read", "check", "send", "save", "complete",
          "fail", "stale", "retire", "hold", "cancel", "defer"}
Attempt == [at: Steps, job: Jobs, attempts: Int, lock: Locks \cup {0}, parts: Nat]
Idle == [at |-> "idle", job |-> None, attempts |-> 0, lock |-> 0, parts |-> 0]

(* The parts of all jobs. *)
Slots == UNION {{j} \X (1..Parts[j]) : j \in Jobs}

Init ==
  /\ rows = [j \in Jobs |-> NoRow]
  /\ lastSeq = 0
  /\ att = [w \in Workers |-> Idle]
  /\ valid = [j \in Jobs |-> TRUE]
  /\ held = [j \in Jobs |-> Kind[j] = "invite"]
  /\ delivered = [j \in Jobs |-> FALSE]
  /\ got = [s \in Slots |-> 0]
  /\ tried = {} /\ late = {}
  /\ inflight = [j \in Jobs |-> 0]
  /\ faults = 0 /\ crashes = 0 /\ lapses = 0 /\ resends = 0

Fault == faults + crashes < MaxTroubles /\ faults' = faults + 1

-----------------------------------------------------------------------------
(* Queueing.  The sequence is drawn by the INSERT and the row is seen by   *)
(* others only when its transaction commits.                               *)

Before(i, j) == i # j /\ Target[i] = Target[j] /\ rows[i].seq < rows[j].seq

Open(j) == rows[j].status \in Waiting \cup {"SENDING"}

Planned(j) ==
  \E p \in Orders :
    /\ lastSeq + 1 \in DOMAIN p /\ p[lastSeq + 1] = j
    /\ \A n \in 1..lastSeq : rows[p[n]].seq = n

Insert(j) ==
  /\ rows[j].status = "ABSENT" /\ Planned(j)
  /\ lastSeq' = lastSeq + 1
  /\ rows' = [rows EXCEPT ![j] = [@ EXCEPT !.status = "INSERTED", !.seq = lastSeq + 1]]
  /\ UNCHANGED <<att, business, history, budgets>>

Overtaken(i) == {<<i, j>> : j \in {k \in tried : Before(i, k)}}

Commit(j) ==
  /\ rows[j].status = "INSERTED"
  /\ rows' = [rows EXCEPT ![j] = [@ EXCEPT !.status = "PENDING", !.due = TRUE]]
  /\ late' = late \cup Overtaken(j)
  /\ UNCHANGED <<lastSeq, att, business, got, tried, inflight, budgets>>

-----------------------------------------------------------------------------
(* The claim: one transaction under an advisory lock on the recipient.     *)

(* A message that was tried keeps its place while it waits to be retried.  *)
InLineDue(i) == rows[i].due   \* without its backoff
InLine(i) == rows[i].due \/ rows[i].attempts > 0

Blocks(i, j) ==
  \/ /\ rows[i].status = "SENDING" /\ i # j /\ Target[i] = Target[j]
     /\ Before(i, j) \/ rows[i].live
  \/ Before(i, j) /\ rows[i].status = "PENDING" /\ InLine(i)
  \/ Before(i, j) /\ rows[i].status = "DEFERRED" /\ rows[i].due

ExpiredAny(j)   == rows[j].status = "SENDING"   \* the lease is not compared
ExpiredNever(j) == FALSE                        \* no reclaim
Expired(j) == rows[j].status = "SENDING" /\ ~rows[j].live

Claimable(j) ==
  /\ (rows[j].status \in Waiting /\ rows[j].due) \/ Expired(j)
  /\ \A i \in Jobs : ~Blocks(i, j)

(* The time now.  Stamps are only compared for equality, so the least one  *)
(* that nobody remembers for this row stands for it.                       *)
Remembered(j) == {rows[j].lock} \cup {att[w].lock : w \in {v \in Workers : att[v].job = j}}
Now(j, l) == l \in Locks \ Remembered(j) /\ \A m \in Locks \ Remembered(j) : l <= m

Claimed(r, l) == [r EXCEPT !.status = "SENDING", !.attempts = r.attempts + 1,
                           !.lock = l, !.live = TRUE]

Claim(w, j) ==
  /\ att[w] = Idle
  /\ Claimable(j)
  /\ \E l \in Locks : Now(j, l) /\ rows' = [rows EXCEPT ![j] = Claimed(rows[j], l)]
  /\ tried' = tried \cup {j}
  /\ att' = [att EXCEPT ![w] = [at |-> "claimed", job |-> j, attempts |-> 0,
                                lock |-> 0, parts |-> 0]]
  /\ UNCHANGED <<lastSeq, business, got, late, inflight, budgets>>

(* The commit's acknowledgement is lost: nobody works on the row.          *)
ClaimLost(w, j) ==
  /\ att[w] = Idle
  /\ Claimable(j)
  /\ Fault
  /\ \E l \in Locks : Now(j, l) /\ rows' = [rows EXCEPT ![j] = Claimed(rows[j], l)]
  /\ tried' = tried \cup {j}
  /\ UNCHANGED <<lastSeq, att, business, got, late, inflight, crashes, lapses, resends>>

Goto(w, step) == att' = [att EXCEPT ![w] = [@ EXCEPT !.at = step]]
Quit(w)       == att' = [att EXCEPT ![w] = Idle]
Job(w)        == att[w].job
Reads == <<rows, lastSeq, business, history>>

(* The row is read again after the claim, whoever holds it by now.         *)
Read(w) ==
  /\ att[w].at = "claimed"
  /\ LET r == rows[Job(w)] IN
     att' = [att EXCEPT ![w] = [@ EXCEPT !.at = "read", !.attempts = r.attempts,
                                         !.lock = r.lock, !.parts = r.parts]]
  /\ UNCHANGED <<Reads, budgets>>

Saves(j) == Kind[j] # "deadline"

OnwardEarly(j, parts) == IF parts + 1 < Parts[j] THEN "check" ELSE "complete"
Onward(j, parts) == IF parts < Parts[j] THEN "check" ELSE "complete"

(* assertCurrentAnswer() and currentSectorPublication(). *)
StaleDelivered(j) == Kind[j] = "answer" /\ delivered[j]   \* the version is not compared
Stale(j) ==
  \/ Kind[j] \in {"card", "answer"} /\ ~valid[j]
  \/ Kind[j] = "answer" /\ delivered[j]

(* Is the message still wanted now?  Read before the first request.        *)
Judged(w) ==
  LET j == Job(w) IN
  CASE Stale(j) -> IF Kind[j] = "card" THEN "retire" ELSE "stale"
    [] Kind[j] = "deadline" /\ ~valid[j] -> "cancel"
    [] Kind[j] = "deadline" /\ valid[j] /\ held[j] -> "defer"
    [] Kind[j] = "invite" /\ held[j] -> "hold"
    [] OTHER -> Onward(j, att[w].parts)

Judge(w) ==
  /\ att[w].at = "read"
  /\ Goto(w, Judged(w))
  /\ UNCHANGED <<Reads, budgets>>

(* A read fails: inside the try block the attempt fails, before it the     *)
(* attempt is abandoned and the row keeps its lease.                       *)
ReadFails(w) ==
  /\ att[w].at \in {"claimed", "read", "check"}
  /\ Fault
  /\ IF att[w].at = "claimed" \/ (att[w].at = "read" /\ Kind[Job(w)] = "card")
     THEN Quit(w) ELSE Goto(w, "fail")
  /\ UNCHANGED <<Reads, crashes, lapses, resends>>

-----------------------------------------------------------------------------
(* Writes that name only the row.                                          *)

Retired(r) == [r EXCEPT !.status = "FAILED", !.applied = FALSE, !.lock = 0]
Paused(r)  == [r EXCEPT !.status = "PENDING", !.attempts = r.attempts - 1,
                        !.due = FALSE, !.lock = 0]

Unguarded(w) == IF att[w].at = "retire" THEN Retired(rows[Job(w)]) ELSE Paused(rows[Job(w)])

Unguard(w) ==
  /\ att[w].at \in {"retire", "hold"}
  /\ rows' = [rows EXCEPT ![Job(w)] = Unguarded(w)]
  /\ Quit(w)
  /\ UNCHANGED <<lastSeq, business, history, budgets>>

UnguardFails(w) ==
  /\ att[w].at \in {"retire", "hold"}
  /\ Fault
  /\ \/ rows' = [rows EXCEPT ![Job(w)] = Unguarded(w)]
     \/ UNCHANGED rows
  /\ IF att[w].at = "retire" THEN Quit(w) ELSE Goto(w, "fail")
  /\ UNCHANGED <<lastSeq, business, history, crashes, lapses, resends>>

-----------------------------------------------------------------------------
(* One part.  beforeImmediateSend() runs before every request, also before *)
(* the client's own retries; it compares the attempt number only.          *)

Owner(w) ==
  LET r == rows[Job(w)] IN
  /\ r.status = "SENDING" /\ r.attempts = att[w].attempts
  /\ Kind[Job(w)] = "deadline" => r.lock = att[w].lock

Checked(w) ==
  LET j == Job(w) IN
  CASE ~Owner(w) \/ Stale(j) -> "stale"
    [] Owner(w) /\ Kind[j] = "deadline" /\ ~valid[j] -> "cancel"
    [] Owner(w) /\ Kind[j] = "deadline" /\ valid[j] /\ held[j] -> "defer"
    [] OTHER -> "send"

Check(w) ==
  /\ att[w].at = "check"
  /\ Goto(w, Checked(w))
  /\ UNCHANGED <<Reads, budgets>>

Receive(w) ==
  LET j == Job(w) IN
  /\ got' = [got EXCEPT ![<<j, att[w].parts + 1>>] = @ + 1]
  /\ inflight' = IF valid[j] THEN inflight ELSE [inflight EXCEPT ![j] = @ - 1]

Send(w) ==
  /\ att[w].at = "send"
  /\ Receive(w)
  /\ Goto(w, IF Saves(Job(w)) THEN "save" ELSE "complete")
  /\ UNCHANGED <<rows, lastSeq, business, tried, late, budgets>>

(* MAX does not take the message, after the client's own retries.          *)
Refuse(w) ==
  /\ att[w].at = "send"
  /\ Goto(w, "fail")
  /\ UNCHANGED <<Reads, budgets>>

(* The request or its answer is lost.  The client may ask again, after the *)
(* check; MAX may also refuse the content for good.                        *)
SendLost(w) ==
  /\ att[w].at = "send"
  /\ Fault
  /\ Receive(w) \/ UNCHANGED <<got, inflight>>
  /\ \E step \in {"check", "fail", "stale"} : Goto(w, step)
  /\ UNCHANGED <<rows, lastSeq, business, tried, late, crashes, lapses, resends>>

OwnsAttempt(w) == rows[Job(w)].attempts = att[w].attempts   \* neither state nor lease
Owns(w) ==
  LET r == rows[Job(w)] IN
  r.status = "SENDING" /\ r.attempts = att[w].attempts /\ r.lock = att[w].lock

Renewed(r, l) == [r EXCEPT !.parts = r.parts + 1, !.lock = l, !.live = TRUE]

Save(w) ==
  /\ att[w].at = "save"
  /\ IF Owns(w) /\ rows[Job(w)].parts = att[w].parts
     THEN \E l \in Locks :
          /\ Now(Job(w), l)
          /\ rows' = [rows EXCEPT ![Job(w)] = Renewed(rows[Job(w)], l)]
          /\ att' = [att EXCEPT ![w] =
               [@ EXCEPT !.at = Onward(Job(w), att[w].parts + 1),
                         !.parts = att[w].parts + 1, !.lock = l]]
     ELSE Goto(w, "stale") /\ UNCHANGED rows
  /\ UNCHANGED <<lastSeq, business, history, budgets>>

SaveLost(w) ==
  /\ att[w].at = "save"
  /\ Fault
  /\ \/ /\ Owns(w) /\ rows[Job(w)].parts = att[w].parts
        /\ \E l \in Locks : /\ Now(Job(w), l)
                           /\ rows' = [rows EXCEPT ![Job(w)] = Renewed(rows[Job(w)], l)]
     \/ UNCHANGED rows
  /\ Goto(w, "fail")
  /\ UNCHANGED <<lastSeq, business, history, crashes, lapses, resends>>

-----------------------------------------------------------------------------
(* The end of an attempt.                                                  *)

(* complete(): SENT, and an answer that is no longer current is not        *)
(* recorded as delivered.                                                  *)
Counts(j) == Kind[j] \in {"answer", "card"} => valid[j] /\ ~delivered[j]

CompletedApplied(r, j) == [r EXCEPT !.status = "SENT", !.applied = TRUE, !.lock = 0]
Completed(r, j) == [r EXCEPT !.status = "SENT", !.applied = Counts(j), !.lock = 0]

CompleteRow(w) ==
  LET j == Job(w) IN
  /\ rows' = [rows EXCEPT ![j] = Completed(rows[j], j)]
  /\ delivered' = [delivered EXCEPT ![j] = @ \/ (Kind[j] = "answer" /\ Counts(j))]

Complete(w) ==
  /\ att[w].at = "complete"
  /\ IF Owns(w) THEN CompleteRow(w) /\ Quit(w)
                ELSE Goto(w, "stale") /\ UNCHANGED <<rows, delivered>>
  /\ UNCHANGED <<lastSeq, valid, held, history, budgets>>

CompleteLost(w) ==
  /\ att[w].at = "complete"
  /\ Fault
  /\ (Owns(w) /\ CompleteRow(w)) \/ UNCHANGED <<rows, delivered>>
  /\ Goto(w, "fail")
  /\ UNCHANGED <<lastSeq, valid, held, history, crashes, lapses, resends>>

Final(w) == att[w].at = "stale" \/ rows[Job(w)].attempts >= MaxAttempts

(* The catch block.  A stale attempt and the last allowed attempt are      *)
(* final; the others are tried again after a delay.                        *)
Ended(w) ==
  LET r == [rows[Job(w)] EXCEPT !.lock = 0, !.due = FALSE] IN
  CASE att[w].at = "cancel" -> [r EXCEPT !.status = "CANCELLED", !.applied = FALSE]
    [] att[w].at = "defer"  -> [r EXCEPT !.status = "DEFERRED", !.attempts = r.attempts - 1]
    [] att[w].at \in {"fail", "stale"} /\ Final(w) -> [r EXCEPT !.status = "FAILED"]
    [] OTHER -> [r EXCEPT !.status = IF Kind[Job(w)] = "deadline" THEN "DEFERRED" ELSE "PENDING"]

Ending == {"fail", "stale", "cancel", "defer"}

End(w) ==
  /\ att[w].at \in Ending
  /\ rows' = IF Owns(w) THEN [rows EXCEPT ![Job(w)] = Ended(w)] ELSE rows
  /\ Quit(w)
  /\ UNCHANGED <<lastSeq, business, history, budgets>>

EndLost(w) ==
  /\ att[w].at \in Ending
  /\ Fault
  /\ \/ Owns(w) /\ rows' = [rows EXCEPT ![Job(w)] = Ended(w)]
     \/ UNCHANGED rows
  /\ Quit(w)
  /\ UNCHANGED <<lastSeq, business, history, crashes, lapses, resends>>

-----------------------------------------------------------------------------
(* Time, crashes, and what the rest of the program does.                   *)

Tick(j) ==
  /\ rows[j].status \in Waiting /\ ~rows[j].due
  /\ rows' = [rows EXCEPT ![j] = [@ EXCEPT !.due = TRUE]]
  /\ UNCHANGED <<lastSeq, att, business, history, budgets>>

Worked(j) == \E w \in Workers : att[w] # Idle /\ Job(w) = j

(* A lease runs out: of an abandoned row sooner or later, of a row         *)
(* somebody works on only when the work is slow.                           *)
Lapse(j) ==
  /\ rows[j].status = "SENDING" /\ rows[j].live
  /\ rows' = [rows EXCEPT ![j] = [@ EXCEPT !.live = FALSE]]
  /\ IF Worked(j) THEN lapses < MaxLapses /\ lapses' = lapses + 1
                  ELSE UNCHANGED lapses
  /\ UNCHANGED <<lastSeq, att, business, history, faults, crashes, resends>>

Crash(w) ==
  /\ att[w] # Idle
  /\ faults + crashes < MaxTroubles /\ crashes' = crashes + 1
  /\ Quit(w)
  /\ UNCHANGED <<Reads, faults, lapses, resends>>

(* The answer is revised, the sector reassigned, the deadline answered:    *)
(* what happens to an incident after it had the message queued.            *)
Sending(j) == {w \in Workers : att[w].at = "send" /\ Job(w) = j}

Obsolete(j) ==
  /\ rows[j].status # "ABSENT"
  /\ valid[j] /\ Kind[j] \in {"answer", "card", "deadline"}
  /\ valid' = [valid EXCEPT ![j] = FALSE]
  /\ inflight' = [inflight EXCEPT ![j] = Cardinality(Sending(j))]
  /\ UNCHANGED <<rows, lastSeq, att, held, delivered, got, tried, late, budgets>>

(* Working hours begin or end. *)
Clock(j) ==
  /\ Kind[j] = "deadline"
  /\ held' = [held EXCEPT ![j] = ~@]
  /\ UNCHANGED <<rows, lastSeq, att, valid, delivered, history, budgets>>

(* A row is put back in line with a fresh budget of attempts. *)
Rearmed(r) == [r EXCEPT !.status = "PENDING", !.attempts = 0, !.due = TRUE, !.lock = 0]

Rearm(j) ==
  /\ rows' = [rows EXCEPT ![j] = Rearmed(rows[j])]
  /\ late' = late \cup Overtaken(j)

(* retryFailedAnswer(): /resend of a failed answer that is still current.  *)
Resend(j) ==
  /\ Kind[j] = "answer" /\ rows[j].status = "FAILED"
  /\ valid[j] /\ ~delivered[j]
  /\ resends < MaxResends /\ resends' = resends + 1
  /\ Rearm(j)
  /\ UNCHANGED <<lastSeq, att, business, got, tried, inflight, faults, crashes, lapses>>

(* rateAnswer(): the rating releases the invitation (queueSubscriptionInvite). *)
Rate(j) ==
  /\ Kind[j] = "invite"
  /\ held[j] /\ held' = [held EXCEPT ![j] = FALSE]
  /\ IF rows[j].status \in {"PENDING", "FAILED"} THEN Rearm(j) ELSE UNCHANGED <<rows, late>>
  /\ UNCHANGED <<lastSeq, att, valid, delivered, got, tried, inflight, budgets>>

-----------------------------------------------------------------------------
WorkerStep(w) ==
  \/ Read(w) \/ Judge(w) \/ Unguard(w) \/ Check(w) \/ Send(w) \/ Refuse(w)
  \/ Save(w) \/ Complete(w) \/ End(w)

WorkerFault(w) ==
  \/ ReadFails(w) \/ UnguardFails(w) \/ SendLost(w) \/ SaveLost(w)
  \/ CompleteLost(w) \/ EndLost(w) \/ Crash(w)

Program(j) ==
  Insert(j) \/ Commit(j) \/ Obsolete(j) \/ Clock(j) \/ Resend(j) \/ Rate(j)

Next ==
  \/ \E w \in Workers : WorkerStep(w) \/ WorkerFault(w)
  \/ \E w \in Workers, j \in Jobs : Claim(w, j) \/ ClaimLost(w, j)
  \/ \E j \in Jobs : Program(j) \/ Tick(j) \/ Lapse(j)

Spec == Init /\ [][Next]_vars

(* A worker's calls return; the five-second sweep finds what is due, also  *)
(* while an earlier deadline notice is put off for hours again and again   *)
(* (hence SF); backoff and abandoned leases run out; transactions end.     *)
(* Nothing is assumed of MAX, of faults, crashes or slow owners.           *)
Fairness ==
  /\ \A w \in Workers : WF_vars(WorkerStep(w))
  /\ \A j \in Jobs :
       /\ SF_vars(\E w \in Workers : Claim(w, j))
       /\ WF_vars(Tick(j))
       /\ WF_vars(~Worked(j) /\ Lapse(j))
       /\ WF_vars(Commit(j))

FairSpec == Spec /\ Fairness

-----------------------------------------------------------------------------
(* Properties.                                                             *)

(* Every variable stays in its domain. *)
TypeOK ==
  /\ rows \in [Jobs -> Row]
  /\ lastSeq \in Nat
  /\ att \in [Workers -> Attempt \cup {Idle}]
  /\ valid \in [Jobs -> BOOLEAN] /\ held \in [Jobs -> BOOLEAN]
  /\ delivered \in [Jobs -> BOOLEAN]
  /\ got \in [Slots -> Nat]
  /\ tried \subseteq Jobs /\ late \subseteq Jobs \X Jobs
  /\ inflight \in [Jobs -> Int]
  /\ faults \in Nat /\ crashes \in Nat /\ lapses \in Nat /\ resends \in Nat

(* What the table says was delivered was received: a saved part, and every *)
(* part of a row that is SENT.  MAX receives the parts in order.           *)
SavedReceived ==
  \A j \in Jobs : \A k \in 1..Parts[j] :
    /\ (k <= rows[j].parts \/ rows[j].status = "SENT") => got[<<j, k>>] > 0
    /\ got[<<j, k>>] > 0 => \A m \in 1..k : got[<<j, m>>] > 0

(* A part is received twice only because something went wrong: each extra  *)
(* copy has a failed call, a crash or a lapsed lease of its own, whatever  *)
(* the number of workers, retries and resends.                             *)
DuplicatesAccounted ==
  \A j \in Jobs : \A k \in 1..Parts[j] : got[<<j, k>>] <= 1 + faults + crashes + lapses

(* Work on a message begins only when the earlier ordinary messages to the *)
(* recipient are over, in backoff and under retry included; the exception  *)
(* are messages that became visible, or were put back, after it began.     *)
Ordinary(j) == Kind[j] \in {"plain", "answer", "card"}

NoOvertake ==
  \A i, j \in Jobs :
    Before(i, j) /\ Open(i) /\ Ordinary(i) /\ j \in tried => <<i, j>> \in late

(* deliveredAt is set exactly for an answer whose row is SENT and counted: *)
(* a stale completion, a lost one or a resend never separates the two.     *)
DeliveredHonest ==
  \A j \in Jobs : Kind[j] = "answer" =>
    (delivered[j] <=> (rows[j].status = "SENT" /\ rows[j].applied))

(* Once a message is obsolete only the requests already under way can      *)
(* still reach MAX; no retry, reclaim or resend adds another.              *)
ObsoleteStops == \A j \in Jobs : inflight[j] >= 0

(* The attempts are exhausted even if MAX refuses for ever: only a crash,  *)
(* a lapse or a failed write can add a claim beyond the limit.             *)
AttemptBound ==
  \A j \in Jobs : rows[j].attempts <= MaxAttempts + crashes + lapses + faults

(* The kinds all of whose writes compare the owner. *)
Fenced(j) == Kind[j] \notin {"card", "invite"}

(* A settled row is never touched again and progress is never undone, by   *)
(* whichever stale worker wakes up.                                        *)
SettledFinal ==
  [][\A j \in Jobs : Fenced(j) =>
       /\ rows[j].status \in {"SENT", "CANCELLED"} => rows'[j] = rows[j]
       /\ rows'[j].parts >= rows[j].parts]_vars

(* Every queued message is eventually sent, failed or cancelled, even if   *)
(* MAX refuses everything, workers die and acknowledgements are lost.  A   *)
(* deadline notice may be put off, until working hours; an invitation      *)
(* waits for the resident's rating, which may never come.  A waiting       *)
(* invitation lets the others pass, unless a worker died with its attempt: *)
(* the hold gives one attempt back, so it keeps a place in line.           *)
Settled(j) ==
  rows[j].status \in Done \/ (Kind[j] = "deadline" /\ rows[j].status = "DEFERRED")
Unrated(j) == Kind[j] = "invite" /\ held[j]
Behind(j)  == \E i \in Jobs : Unrated(i) /\ rows[i].attempts > 0 /\ Before(i, j)

EventuallySettled ==
  \A j \in Jobs :
    rows[j].status = "INSERTED" \/ Open(j) ~> Settled(j) \/ Unrated(j) \/ Behind(j)

(* The abstract state of a message, and the parts that MAX has of it.      *)
DeliveryState(j) ==
  CASE rows[j].status \in {"ABSENT", "INSERTED"} -> "none"
    [] Open(j) -> "queued"
    [] OTHER -> rows[j].status
DeliveryGiven(j) == {k \in 1..Parts[j] : got[<<j, k>>] > 0}

DeliveryStates == [j \in Jobs |-> DeliveryState(j)]
DeliveryGivens == [j \in Jobs |-> DeliveryGiven(j)]
Resumable == {j \in Jobs : Kind[j] \in {"answer", "invite"}}
Unfenced == {j \in Jobs : ~Fenced(j)}

(* Every behaviour is one of the abstract delivery. *)
Dlv == INSTANCE Delivery WITH
  state <- DeliveryStates, given <- DeliveryGivens, Again <- Resumable, Unsure <- Unfenced
ImplementsDelivery == Dlv!Spec

(* max-message.service.ts:492: "the SENDING lease then owns the            *)
(* recipient": no two messages to one recipient are under live leases.     *)
OwnsRecipient ==
  \A i, j \in Jobs :
    /\ Target[i] = Target[j]
    /\ rows[i].status = "SENDING" /\ rows[i].live
    /\ rows[j].status = "SENDING" /\ rows[j].live
    => i = j

(* docs/delivery-reliability.md:12: an obsolete card gets FAILED before it *)
(* is sent; a card that was sent stays SENT.                               *)
CardSentStays ==
  [][\A j \in Jobs : Kind[j] = "card" /\ rows[j].status = "SENT"
                        => rows'[j].status = "SENT"]_vars
=============================================================================
