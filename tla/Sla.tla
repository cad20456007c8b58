-------------------------------- MODULE Sla --------------------------------
(* Deadlines and reminders.  src/sla, src/utils/work-calendar.ts and the    *)
(* part of src/max/max-message.service.ts that sends the two service        *)
(* notices.                                                                 *)
(*                                                                          *)
(* An incident keeps the policy it was registered under.  A sweep raises    *)
(* the overdue flag and queues notices, one mark and its outbox rows in one *)
(* transaction; a worker checks again before it sends.  Time is a number of *)
(* instants; a day, a week and the working window are constants.            *)
EXTENDS Naturals, FiniteSetsExt

CONSTANTS
  Incidents, Sweeps, \* sweeps that may overlap: the first one, the timer's
  Chats,             \* workingDeadlineTargets
  Day, Week,         \* instants in a day, days in a week
  Weekend,           \* days of the week nobody works
  Open, Close,       \* the policy's working window
  WorkStart, WorkEnd,\* the configured working window of the older policy
  Budget, Workdays,  \* the two policies' terms: working instants, working days
  Horizon,           \* bound: time stops here, in working hours
  LastArrival,       \* bound: nothing is registered later
  MaxLag,            \* bound: no sweep takes longer
  MaxAttempts,       \* OUTBOX_MAX_ATTEMPTS
  MaxTroubles        \* bound: crashes, failed or unknown sends, photos MAX refuses

VARIABLES
  now,
  policy, status,    \* "NONE" before registration
  created, deadline,
  overdue,           \* Incident.isOverdue
  queued,            \* Incident.workingDeadlineQueuedAt is set
  reminded,          \* Incident.slaReminder24SentAt is set
  delivered,         \* Incident.slaDeliveredAt, or Never
  answer,            \* the latest version: with a review card or without, or delivered
  reopening,         \* the failed row a reopening has read, until it writes
  sweep,             \* the running sweeps
  notice,            \* outbox rows of the deadline notices, by incident and chat
  reminder,          \* outbox rows of the 24 hour reminders
  troubles

incident == <<policy, status, created, deadline, overdue, delivered, answer>>
marks == <<queued, reminded>>
rows == <<notice, reminder>>
vars == <<now, incident, reopening, marks, sweep, rows, troubles>>

Never == Horizon + 1
Later(t) == IF t > Horizon THEN Never ELSE t   \* past the bound all is one

ASSUME CalendarAssumption ==
  /\ {Day, Week, Open, Close, WorkStart, WorkEnd, Budget, Workdays, MaxAttempts} \subseteq Nat
  /\ {Horizon, LastArrival, MaxLag, MaxTroubles} \subseteq Nat
  /\ Open < Close /\ Close <= Day /\ WorkStart < WorkEnd /\ WorkEnd <= Day
  /\ Weekend \subseteq 0..(Week - 1) /\ Weekend # 0..(Week - 1)
  /\ Workdays > 0 /\ Budget > 0 /\ MaxAttempts > 0

-----------------------------------------------------------------------------
(* working-time.ts and work-calendar.ts *)

DayOf(t) == t \div Day
Weekday(d) == d % Week \notin Weekend
Timeline == 0..(Horizon + (Budget + 1) * Week * Day)
OpenOf(d) == d * Day + Open
CloseOf(d) == d * Day + Close

NextFrom[x \in Nat \X Nat] ==
  LET t == x[1]
      d == x[2]
  IN  IF Weekday(d) /\ t < CloseOf(d) THEN Max({t, OpenOf(d)}) ELSE NextFrom[<<t, d + 1>>]
NextWorking == [t \in Timeline |-> NextFrom[<<t, DayOf(t)>>]]
PolicyHours(t) == NextWorking[t] = t

Spent(left, day) == left <= day
Elapse[x \in Nat \X Nat] ==
  LET from  == x[1]
      left  == x[2]
      close == CloseOf(DayOf(from))
  IN  IF Spent(left, close - from)
      THEN from + left
      ELSE Elapse[<<NextWorking[close], left - (close - from)>>]
AddWorking(t, n) == IF n = 0 THEN t ELSE Elapse[<<NextWorking[t], n>>]

WorkingTime(from, to) ==
  LET within(d) == LET lo == Max({from, OpenOf(d)})
                       hi == Min({to, CloseOf(d)})
                   IN  IF Weekday(d) /\ lo < hi THEN hi - lo ELSE 0
  IN  IF to <= from THEN 0 ELSE MapThenSumSet(within, DayOf(from)..DayOf(to))

WorkingHours(t) ==
  LET d == DayOf(t)
  IN  Weekday(d) /\ d * Day + WorkStart <= t /\ t < d * Day + WorkEnd

WeekdayFrom[d \in Nat] == IF Weekday(d) THEN d ELSE WeekdayFrom[d + 1]
Ordinal[x \in Nat \X Nat] ==   \* the n-th weekday from d on
  IF x[2] = 1 THEN WeekdayFrom[x[1]] ELSE Ordinal[<<WeekdayFrom[x[1]] + 1, x[2] - 1>>]
IncidentWorkday(t, n) ==
  LET d == DayOf(t)
  IN  Ordinal[<<IF t >= d * Day + WorkEnd THEN d + 1 ELSE d, n>>]
ComputeDeadline(t) == IncidentWorkday(t, Workdays) * Day + WorkEnd

-----------------------------------------------------------------------------
(* The incident, as far as deadlines depend on it *)

\* bare: inserted without the incident's id.
NoRow == [state |-> "NONE", at |-> 0, tries |-> 0, saw |-> "-", bare |-> FALSE]
New == [NoRow EXCEPT !.state = "PENDING", !.at = now]
Ended(r, state) == [NoRow EXCEPT !.state = state, !.bare = r.bare]
Asleep == [stage |-> "idle", at |-> 0, due |-> {}, send |-> {}]

Init ==
  /\ now = 0
  /\ policy = [i \in Incidents |-> "LEGACY"]
  /\ status = [i \in Incidents |-> "NONE"]
  /\ created = [i \in Incidents |-> 0]
  /\ deadline = [i \in Incidents |-> 0]
  /\ overdue = [i \in Incidents |-> FALSE]
  /\ delivered = [i \in Incidents |-> Never]
  /\ answer = [i \in Incidents |-> "NONE"]
  /\ reopening = [i \in Incidents |-> "NONE"]
  /\ queued = [i \in Incidents |-> FALSE]
  /\ reminded = [i \in Incidents |-> FALSE]
  /\ sweep = [s \in Sweeps |-> Asleep]
  /\ notice = [x \in Incidents \X Chats |-> NoRow]
  /\ reminder = [i \in Incidents |-> NoRow]
  /\ troubles = 0

Trouble == troubles < MaxTroubles /\ troubles' = troubles + 1

Tick ==
  /\ now < Horizon
  /\ \A s \in Sweeps : sweep[s].stage = "idle" \/ now < sweep[s].at + MaxLag
  /\ now' = now + 1
  /\ UNCHANGED <<incident, reopening, marks, sweep, rows, troubles>>

Register(i, p) ==
  /\ status[i] = "NONE" /\ now <= LastArrival
  /\ status' = [status EXCEPT ![i] = "OPEN"]
  /\ policy' = [policy EXCEPT ![i] = p]
  /\ created' = [created EXCEPT ![i] = now]
  /\ deadline' = [deadline EXCEPT ![i] =
                    IF p = "LEGACY" THEN ComputeDeadline(now) ELSE AddWorking(now, Budget)]
  /\ UNCHANGED <<now, overdue, delivered, answer, reopening, marks, sweep, rows, troubles>>

\* OPEN stands for every status before there is an answer to review.
Move(i, from, to) ==
  /\ status[i] = from
  /\ status' = [status EXCEPT ![i] = to]
  /\ UNCHANGED <<now, policy, created, deadline, overdue, delivered, reopening, queued,
                 reminded, sweep, notice, troubles>>

\* The outbox rows of the incident are deleted, the deadline notices excepted.
Reject(i) ==
  /\ reopening[i] = "NONE" /\ Move(i, "OPEN", "REJECTED")
  /\ reminder' = [reminder EXCEPT ![i] = IF @.bare THEN @ ELSE NoRow]
  /\ UNCHANGED answer

\* A new version; without a review when the group bypasses it.
Submit(i, direct) ==
  /\ reopening[i] = "NONE" /\ Move(i, "OPEN", IF direct THEN "RESOLVED" ELSE "REVIEW")
  /\ answer' = [answer EXCEPT ![i] = IF direct THEN "DIRECT" ELSE "REVIEWED"]
  /\ UNCHANGED reminder
Approve(i) == Move(i, "REVIEW", "RESOLVED") /\ UNCHANGED <<answer, reminder>>
RequestRevision(i) == Move(i, "REVIEW", "OPEN") /\ UNCHANGED <<answer, reminder>>

\* reopenForPhotoReplacement reads under a lock that keeps out submissions and
\* returns, not reviewers and deliveries; then it writes by id.
Delivered(i) == answer[i] = "DELIVERED"
BeginReopen(i, failed) ==
  /\ \/ failed = "CARD" /\ status[i] \in {"REVIEW", "RESOLVED"} /\ answer[i] = "REVIEWED"
     \/ failed = "POST" /\ status[i] = "RESOLVED" /\ ~Delivered(i)
  /\ reopening[i] = "NONE" /\ Trouble
  /\ reopening' = [reopening EXCEPT ![i] = failed]
  /\ UNCHANGED <<now, incident, marks, sweep, rows>>
Reopen(i) ==
  /\ reopening[i] # "NONE" /\ (reopening[i] = "POST" => ~Delivered(i))   \* the row is still FAILED
  /\ reopening' = [reopening EXCEPT ![i] = "NONE"]
  /\ status' = [status EXCEPT ![i] = "OPEN"]
  /\ overdue' = [overdue EXCEPT ![i] = deadline[i] <= now]
  /\ UNCHANGED <<now, policy, created, deadline, delivered, answer, marks, sweep, rows,
                 troubles>>
AbandonReopen(i) ==   \* the failed row is being sent again
  /\ reopening[i] # "NONE" /\ reopening' = [reopening EXCEPT ![i] = "NONE"]
  /\ UNCHANGED <<now, incident, marks, sweep, rows, troubles>>

CalendarLateness(i) == IF now <= deadline[i] THEN 0 ELSE now - deadline[i]   \* nights and weekends count
Lateness(i) == WorkingTime(deadline[i], now)
RecordDelivery(i) ==
  /\ status[i] = "RESOLVED" /\ ~Delivered(i)
  /\ answer' = [answer EXCEPT ![i] = "DELIVERED"]
  /\ IF policy[i] = "WORKING"
     THEN /\ delivered' = [delivered EXCEPT ![i] = now]
          /\ overdue' = [overdue EXCEPT ![i] = Lateness(i) > 0]
     ELSE UNCHANGED <<delivered, overdue>>
  /\ UNCHANGED <<now, policy, status, created, deadline, reopening, marks, sweep, rows, troubles>>

Undelivered(i) == delivered[i] = Never
WorkingOpen(i) == policy[i] = "WORKING" /\ status[i] \notin {"NONE", "REJECTED"} /\ Undelivered(i)
LegacyOpen(i) == policy[i] = "LEGACY" /\ status[i] \notin {"NONE", "RESOLVED", "REJECTED"}

-----------------------------------------------------------------------------
(* SlaService.sweepNow.  "now" is read once, when the sweep begins. *)

Step(s, f) == sweep' = [sweep EXCEPT ![s] = f]

BeginSweep(s) ==
  /\ sweep[s].stage = "idle"
  /\ Step(s, [stage |-> "flag", at |-> now, due |-> {}, send |-> {}])
  /\ UNCHANGED <<now, incident, reopening, marks, rows, troubles>>

FlagOverdue(s) ==
  /\ sweep[s].stage = "flag"
  /\ overdue' = [i \in Incidents |->
                   overdue[i] \/ ((LegacyOpen(i) \/ WorkingOpen(i)) /\ deadline[i] <= sweep[s].at)]
  /\ Step(s, [sweep[s] EXCEPT !.stage = IF PolicyHours(sweep[s].at) THEN "due" ELSE "list"])
  /\ UNCHANGED <<now, policy, status, created, deadline, delivered, answer, reopening, marks,
                 rows, troubles>>

ExpiredUnflagged(i, at) == WorkingOpen(i) /\ deadline[i] <= at /\ ~overdue[i]
Expired(i, at) == WorkingOpen(i) /\ deadline[i] <= at /\ ~queued[i]
Due(s) ==
  /\ sweep[s].stage = "due"
  /\ Step(s, [sweep[s] EXCEPT !.stage = "deadline",
                              !.due = {i \in Incidents : Expired(i, sweep[s].at)}])
  /\ UNCHANGED <<now, incident, reopening, marks, rows, troubles>>

\* The mark and a row for every chat: one transaction, its condition read again.
QueueWorkingDeadline(s, i) ==
  /\ sweep[s].stage = "deadline" /\ i \in sweep[s].due
  /\ Step(s, [sweep[s] EXCEPT !.due = @ \ {i}])
  /\ IF Expired(i, sweep[s].at)
     THEN /\ queued' = [queued EXCEPT ![i] = TRUE]
          /\ notice' = [x \in DOMAIN notice |->
                          IF x[1] = i /\ notice[x].state = "NONE" THEN New ELSE notice[x]]
     ELSE UNCHANGED <<queued, notice>>
  /\ UNCHANGED <<now, incident, reopening, reminded, reminder, troubles>>

\* slaStage: the older marks of an upgraded system are left out.
SlaStage(i, at) == LegacyOpen(i) /\ at >= created[i] + Day

List(s) ==
  /\ sweep[s].stage \in {"deadline", "list"} /\ sweep[s].due = {}
  /\ IF WorkingHours(sweep[s].at)
     THEN Step(s, [sweep[s] EXCEPT !.stage = "warn",
                   !.due = {i \in Incidents : SlaStage(i, sweep[s].at) /\ ~reminded[i]}])
     ELSE Step(s, Asleep)
  /\ UNCHANGED <<now, incident, reopening, marks, rows, troubles>>

\* An insert that a row with this key makes void.
Insert(i, r) == reminder' = [reminder EXCEPT ![i] = IF @.state = "NONE" THEN r ELSE @]

\* The mark and the row, in one transaction that reads its condition again.
QueueWarning(s, i) ==
  /\ sweep[s].stage = "warn" /\ sweep[s].send = {} /\ i \in sweep[s].due
  /\ IF LegacyOpen(i) /\ ~reminded[i]
     THEN /\ reminded' = [reminded EXCEPT ![i] = TRUE]
          /\ Insert(i, New)
          /\ Step(s, [sweep[s] EXCEPT !.due = @ \ {i}, !.send = {i}])
     ELSE /\ UNCHANGED <<reminded, reminder>>
          /\ Step(s, [sweep[s] EXCEPT !.due = @ \ {i}])
  /\ UNCHANGED <<now, incident, reopening, queued, notice, troubles>>

\* messages.send, after the commit: a row that has gone meanwhile is inserted anew.
SendWarning(s, i) ==
  /\ sweep[s].send = {i}
  /\ Step(s, [sweep[s] EXCEPT !.send = {}])
  /\ Insert(i, [New EXCEPT !.bare = TRUE])
  /\ UNCHANGED <<now, incident, reopening, marks, notice, troubles>>

EndSweep(s) ==
  /\ sweep[s].stage = "warn" /\ sweep[s].due = {} /\ sweep[s].send = {}
  /\ Step(s, Asleep)
  /\ UNCHANGED <<now, incident, reopening, marks, rows, troubles>>

-----------------------------------------------------------------------------
(* The worker: MaxMessageService.attempt for the two kinds of notice.       *)
(* SENDING: claimed.  READ: the text is made.  CHECKED: the request is out. *)

InHand == {"SENDING", "READ", "CHECKED"}
Claimed(r) == [r EXCEPT !.state = "SENDING", !.tries = @ + 1]
Claimable(r) == (r.state \in {"PENDING", "DEFERRED"} /\ r.at <= now) \/ r.state = "STALE"

SetNotice(x, r) ==
  /\ notice' = [notice EXCEPT ![x] = r]
  /\ UNCHANGED <<now, incident, reopening, marks, sweep, reminder>>

ClaimNotice(x) ==
  /\ Claimable(notice[x])
  /\ SetNotice(x, Claimed(notice[x])) /\ UNCHANGED troubles

Retried(r, kept, at) ==
  IF r.tries >= MaxAttempts
  THEN Ended(r, "FAILED")
  ELSE [r EXCEPT !.state = kept, !.at = Later(at), !.saw = "-"]
Deferred(r) == [r EXCEPT !.state = "DEFERRED", !.tries = @ - 1, !.at = Later(NextWorking[now]),
                         !.saw = "-"]

\* policyDeliveryState: what the notice says of the incident.
DeliveryState(i) == status[i]
Void(i) == status[i] = "REJECTED" \/ ~Undelivered(i)
Cancelled(r) == Ended(r, "CANCELLED")

\* deliverWorkingDeadline reads twice: for the text, and after the rate limit.
ReadNotice(x) ==
  LET i == x[1]
      r == notice[x]
  IN  /\ r.state \in {"SENDING", "READ"} /\ UNCHANGED troubles
      /\ IF Void(i) THEN SetNotice(x, Cancelled(r))
         ELSE IF ~PolicyHours(now) THEN SetNotice(x, Deferred(r))
         ELSE IF r.state = "SENDING"
         THEN SetNotice(x, [r EXCEPT !.state = "READ", !.saw = DeliveryState(i)])
         ELSE IF r.saw # DeliveryState(i)
         THEN SetNotice(x, Retried(r, "DEFERRED", NextWorking[now + 1]))
         ELSE SetNotice(x, [r EXCEPT !.state = "CHECKED", !.saw = "-"])

NoticeSent(x) ==
  /\ notice[x].state = "CHECKED" /\ UNCHANGED troubles
  /\ SetNotice(x, Ended(notice[x], "SENT"))

NoticeFails(x) ==
  /\ notice[x].state = "CHECKED" /\ Trouble
  /\ SetNotice(x, Retried(notice[x], "DEFERRED", NextWorking[now + 1]))

SetReminder(i, r) ==
  /\ reminder' = [reminder EXCEPT ![i] = r]
  /\ UNCHANGED <<now, incident, reopening, queued, sweep, notice>>

ClaimReminder(i) ==
  /\ Claimable(reminder[i])
  /\ SetReminder(i, Claimed(reminder[i])) /\ UNCHANGED <<reminded, troubles>>

\* Outside working hours the reminder is handed back to the next sweep.
KeptMark(i) == reminded   \* the row goes, the mark stays
RearmedMark(i) == [reminded EXCEPT ![i] = FALSE]
Rearm(i) ==
  /\ reminder[i].state = "SENDING" /\ ~WorkingHours(now)
  /\ reminded' = RearmedMark(i)
  /\ SetReminder(i, NoRow) /\ UNCHANGED troubles

ReadReminder(i) ==
  /\ reminder[i].state = "SENDING" /\ WorkingHours(now)
  /\ SetReminder(i, IF SlaStage(i, now) THEN [reminder[i] EXCEPT !.state = "CHECKED"]
                    ELSE Ended(reminder[i], "SENT"))   \* no longer due: nothing is sent
  /\ UNCHANGED <<reminded, troubles>>

ReminderSent(i) ==
  /\ reminder[i].state = "CHECKED"
  /\ SetReminder(i, Ended(reminder[i], "SENT")) /\ UNCHANGED <<reminded, troubles>>

ReminderFails(i) ==
  /\ reminder[i].state = "CHECKED" /\ Trouble
  /\ SetReminder(i, Retried(reminder[i], "PENDING", now + 1)) /\ UNCHANGED reminded

\* A crash leaves SENDING rows until their lease runs out, and ends the sweeps
\* and what a reopening has begun.
Left(r) == IF r.state \in InHand THEN [r EXCEPT !.state = "STALE", !.saw = "-"] ELSE r
Crash ==
  /\ Trouble
  /\ notice' = [x \in DOMAIN notice |-> Left(notice[x])]
  /\ reminder' = [i \in Incidents |-> Left(reminder[i])]
  /\ sweep' = [s \in Sweeps |-> Asleep]
  /\ reopening' = [i \in Incidents |-> "NONE"]
  /\ UNCHANGED <<now, incident, marks>>

-----------------------------------------------------------------------------

Life(i) ==
  \/ \E p \in {"LEGACY", "WORKING"} : Register(i, p)
  \/ \E direct \in BOOLEAN : Submit(i, direct)
  \/ Reject(i) \/ Approve(i) \/ RequestRevision(i) \/ RecordDelivery(i)
  \/ \E failed \in {"CARD", "POST"} : BeginReopen(i, failed)
  \/ Reopen(i) \/ AbandonReopen(i)

Sweeping(s) ==
  \/ FlagOverdue(s) \/ Due(s) \/ List(s) \/ EndSweep(s)
  \/ \E i \in Incidents : QueueWorkingDeadline(s, i) \/ QueueWarning(s, i) \/ SendWarning(s, i)

SendNotice(x) == ClaimNotice(x) \/ ReadNotice(x) \/ NoticeSent(x)
SendReminder(i) == ClaimReminder(i) \/ Rearm(i) \/ ReadReminder(i) \/ ReminderSent(i)

Next ==
  \/ Tick \/ Crash
  \/ \E i \in Incidents : Life(i) \/ SendReminder(i) \/ ReminderFails(i)
  \/ \E s \in Sweeps : BeginSweep(s) \/ Sweeping(s)
  \/ \E x \in Incidents \X Chats : SendNotice(x) \/ NoticeFails(x)

\* Time passes, the timer fires, a started sweep and the outbox go on.
Fairness ==
  /\ WF_vars(Tick)
  /\ \A s \in Sweeps : WF_vars(BeginSweep(s) \/ Sweeping(s))
  /\ \A x \in Incidents \X Chats : WF_vars(SendNotice(x))
  /\ \A i \in Incidents : WF_vars(SendReminder(i))

Spec == Init /\ [][Next]_vars /\ Fairness

-----------------------------------------------------------------------------
(* Properties *)

\* Counted instant by instant, day by day: what the calendar functions compute.
Worked(from, to) ==
  Cardinality({t \in from..(to - 1) : Weekday(DayOf(t)) /\ t % Day \in Open..(Close - 1)})
DaysEnded(from, to) ==
  Cardinality({d \in DayOf(from)..DayOf(to) :
                 Weekday(d) /\ from < d * Day + WorkEnd /\ d * Day + WorkEnd <= to})

\* The calendar functions count what they should: the deadline is the instant
\* at which the term has been worked, and lateness is working time beyond it.
CalendarExact ==
  \A t \in 0..Horizon :
    /\ AddWorking(t, Budget) \in Nat /\ ComputeDeadline(t) \in Nat
    /\ \A to \in 0..Horizon :
         /\ WorkingTime(AddWorking(t, Budget), to) > 0 <=> Worked(t, to) > Budget
         /\ AddWorking(t, Budget) <= to => Worked(t, to) >= Budget
         /\ ComputeDeadline(t) <= to => DaysEnded(t, to) >= Workdays

\* The overdue flag tells the truth although sweeps with an old clock, the
\* delivery and a reopening all write it: while an incident is resolved by an
\* answer that was delivered it is late exactly when more working time passed
\* than the policy grants, and no flag is raised before its term has passed
\* (sla.service.ts:86-89, policy.ts:36-41, answer.service.ts:67-68).
LateAsDelivered(i) == overdue[i] <=> Worked(created[i], delivered[i]) > Budget
OverdueExact ==
  \A i \in Incidents : status[i] # "NONE" =>
    /\ policy[i] = "WORKING" /\ status[i] = "RESOLVED" /\ Delivered(i) => LateAsDelivered(i)
    /\ overdue[i] => IF policy[i] = "LEGACY" THEN DaysEnded(created[i], now) >= Workdays
                     ELSE Worked(created[i], now) >= Budget

\* docs/working-hour-policy.md: the violation is the working time after the
\* term, none if only free hours passed between the term and the delivery.
\* A reopening that was overtaken by the delivery still writes its own flag.
DeliveredFlagStands == \A i \in Incidents : ~Undelivered(i) => LateAsDelivered(i)

\* No notice is lost: a mark that keeps the next sweep silent always has its
\* outbox rows, but for a reminder of a rejected incident, and a notice is
\* cancelled only when nothing can make it due again (sla.service.ts:117-133,
\* 136-157, max-message.service.ts:576-585, 680-697,
\* distribution.service.ts:296-300).
NoNoticeLost ==
  \A i \in Incidents :
    /\ reminded[i] => reminder[i].state # "NONE" \/ status[i] = "REJECTED"
    /\ \A c \in Chats :
         /\ queued[i] <=> notice[<<i, c>>].state # "NONE"
         /\ notice[<<i, c>>].state = "CANCELLED" => status[i] = "REJECTED" \/ ~Undelivered(i)

\* An incident that stays open is noticed: the deadline notice reaches every
\* chat, the reminder reaches staff, or its attempts are used up, or its retry
\* falls behind the horizon (sla.service.ts:74-115).
Settled(r) == r.state \in {"SENT", "FAILED", "CANCELLED"} \/ r.at = Never
Noticed ==
  \A i \in Incidents :
    /\ \A c \in Chats :
         WorkingOpen(i) /\ deadline[i] <= now ~> ~WorkingOpen(i) \/ Settled(notice[<<i, c>>])
    /\ SlaStage(i, now) ~> ~LegacyOpen(i) \/ Settled(reminder[i])
=============================================================================
