----------------------------- MODULE SlaProofs -----------------------------
(* Proofs about Sla: the marks and the rows of the notices, for any number  *)
(* of incidents, sweeps and chats and any calendar.                         *)
EXTENDS Sla, TLAPS

Statuses == {"NONE", "OPEN", "REVIEW", "RESOLVED", "REJECTED"}

(* What the marks depend on keeps its domain; nothing that is being        *)
(* reopened was rejected.                                                  *)
MarkTypes ==
  /\ now \in 0..Horizon
  /\ status \in [Incidents -> Statuses]
  /\ reopening \in [Incidents -> {"NONE", "CARD", "POST"}]
  /\ \A i \in Incidents : reopening[i] # "NONE" => status[i] \notin {"NONE", "REJECTED"}
  /\ delivered \in [Incidents -> 0..Never]
  /\ queued \in [Incidents -> BOOLEAN] /\ reminded \in [Incidents -> BOOLEAN]

(* Every row has a state. *)
RowTypes ==
  /\ notice = [x \in Incidents \X Chats |-> notice[x]]
  /\ reminder = [i \in Incidents |-> reminder[i]]
  /\ \A x \in Incidents \X Chats : "state" \in DOMAIN notice[x]
  /\ \A i \in Incidents : "state" \in DOMAIN reminder[i]

MarkInv == MarkTypes /\ RowTypes /\ NoNoticeLost

(* The horizon is a number, and what is never delivered comes after it. *)
LEMMA HorizonNat == Horizon \in Nat /\ Never \in Nat /\ Never \notin 0..Horizon
BY CalendarAssumption DEF Never

(* A step that touches neither the marks nor the rows, and takes no final  *)
(* word back, loses no notice.                                             *)
Final(i) == status[i] = "REJECTED" \/ ~Undelivered(i)

LEMMA MarksKept ==
  ASSUME MarkInv, UNCHANGED <<marks, rows>>, MarkTypes',
         \A i \in Incidents : Final(i) => Final(i)',
         \A i \in Incidents : status[i] = "REJECTED" => status'[i] = "REJECTED"
  PROVE  MarkInv'
<1>1. RowTypes'
  BY DEF MarkInv, RowTypes, rows
<1>2. NoNoticeLost'
  <2>1. ASSUME NEW i \in Incidents, NEW c \in Chats, notice'[<<i, c>>].state = "CANCELLED"
        PROVE  (status[i] = "REJECTED" \/ ~Undelivered(i))'
    BY <2>1 DEF MarkInv, NoNoticeLost, rows, Final
  <2> QED BY <2>1 DEF MarkInv, NoNoticeLost, marks, rows
<1> QED BY <1>1, <1>2 DEF MarkInv

(* A row that is there stays there, whatever becomes of it.                *)
LEMMA NoticeKept ==
  ASSUME MarkInv, NEW x \in Incidents \X Chats, NEW r, SetNotice(x, r),
         notice[x].state # "NONE", "state" \in DOMAIN r, r.state # "NONE",
         r.state = "CANCELLED" => Final(x[1])
  PROVE  MarkInv'
<1>1. notice' = [notice EXCEPT ![x] = r] /\ UNCHANGED <<now, incident, reopening, marks, reminder>>
  BY DEF SetNotice
<1>2. \A y \in Incidents \X Chats : notice'[y] = IF y = x THEN r ELSE notice[y]
  BY <1>1 DEF MarkInv, RowTypes
<1>3. notice' = [y \in Incidents \X Chats |-> notice'[y]]
  BY <1>1 DEF MarkInv, RowTypes
<1>4. RowTypes'
  BY <1>1, <1>2, <1>3 DEF MarkInv, RowTypes
<1>5. MarkTypes'
  BY <1>1 DEF MarkInv, MarkTypes, incident, marks
<1>6. \A i \in Incidents : Undelivered(i)' = Undelivered(i) /\ status'[i] = status[i]
  BY <1>1 DEF Undelivered, incident
<1>7. ASSUME NEW i \in Incidents, NEW c \in Chats
      PROVE  /\ queued'[i] <=> notice'[<<i, c>>].state # "NONE"
             /\ notice'[<<i, c>>].state = "CANCELLED" => status'[i] = "REJECTED" \/ ~Undelivered(i)'
  <2>1. <<i, c>> \in Incidents \X Chats /\ <<i, c>>[1] = i
    OBVIOUS
  <2>2. /\ queued[i] <=> notice[<<i, c>>].state # "NONE"
        /\ notice[<<i, c>>].state = "CANCELLED" => status[i] = "REJECTED" \/ ~Undelivered(i)
    BY DEF MarkInv, NoNoticeLost
  <2>3. queued'[i] = queued[i]
    BY <1>1 DEF marks
  <2> QED BY <1>2, <1>6, <2>1, <2>2, <2>3 DEF Final
<1>8. NoNoticeLost'
  BY <1>1, <1>6, <1>7 DEF MarkInv, NoNoticeLost, marks
<1> QED BY <1>4, <1>5, <1>8 DEF MarkInv

(* The same of a reminder. *)
LEMMA ReminderKept ==
  ASSUME MarkInv, NEW i \in Incidents, NEW r, SetReminder(i, r), UNCHANGED reminded,
         reminder[i].state # "NONE", "state" \in DOMAIN r, r.state # "NONE"
  PROVE  MarkInv'
<1>1. reminder' = [reminder EXCEPT ![i] = r] /\ UNCHANGED <<now, incident, reopening, queued, notice, reminded>>
  BY DEF SetReminder
<1>2. \A j \in Incidents : reminder'[j] = IF j = i THEN r ELSE reminder[j]
  BY <1>1 DEF MarkInv, RowTypes
<1>3. reminder' = [j \in Incidents |-> reminder'[j]]
  BY <1>1 DEF MarkInv, RowTypes
<1>4. RowTypes'
  BY <1>1, <1>2, <1>3 DEF MarkInv, RowTypes
<1>5. MarkTypes'
  BY <1>1 DEF MarkInv, MarkTypes, incident
<1>6. \A j \in Incidents : Undelivered(j)' = Undelivered(j) /\ status'[j] = status[j]
  BY <1>1 DEF Undelivered, incident
<1>7. \A j \in Incidents : reminded'[j] => reminder'[j].state # "NONE" \/ status'[j] = "REJECTED"
  BY <1>1, <1>2, <1>6 DEF MarkInv, NoNoticeLost
<1>8. NoNoticeLost'
  BY <1>1, <1>6, <1>7 DEF MarkInv, NoNoticeLost
<1> QED BY <1>4, <1>5, <1>8 DEF MarkInv

(* The forms of a row the worker writes. *)
LEMMA RowForms ==
  ASSUME NEW r, "state" \in DOMAIN r, NEW kept, NEW at
  PROVE  /\ "state" \in DOMAIN Claimed(r) /\ Claimed(r).state = "SENDING"
         /\ "state" \in DOMAIN Deferred(r) /\ Deferred(r).state = "DEFERRED"
         /\ \A v : "state" \in DOMAIN Ended(r, v) /\ Ended(r, v).state = v
         /\ "state" \in DOMAIN Cancelled(r) /\ Cancelled(r).state = "CANCELLED"
         /\ \A v : "state" \in DOMAIN [New EXCEPT !.bare = v] /\ [New EXCEPT !.bare = v].state = "PENDING"
         /\ "state" \in DOMAIN New /\ New.state = "PENDING"
         /\ "state" \in DOMAIN Retried(r, kept, at) /\ Retried(r, kept, at).state \in {"FAILED", kept}
         /\ "state" \in DOMAIN Left(r) /\ Left(r).state \in {r.state, "STALE"}
         /\ "state" \in DOMAIN NoRow /\ NoRow.state = "NONE"
BY DEF Claimed, Deferred, Cancelled, Ended, Retried, Left, NoRow, New


-----------------------------------------------------------------------------
(* The incident and the sweeps. *)

LEMMA LifeKeepsMarks ==
  ASSUME MarkInv, NEW i \in Incidents, Life(i), ~Reject(i)
  PROVE  MarkInv'
<1> USE HorizonNat DEF MarkInv
<1>1. UNCHANGED <<now, marks, rows>>
  BY DEF Life, Register, Submit, Approve, RequestRevision, Move, BeginReopen, Reopen, AbandonReopen,
    RecordDelivery, marks, rows
<1>2. status' \in [Incidents -> Statuses] /\ reopening' \in [Incidents -> {"NONE", "CARD", "POST"}]
  BY DEF Life, Register, Submit, Approve, RequestRevision, Move, BeginReopen, Reopen, AbandonReopen,
    RecordDelivery, incident, MarkTypes, Statuses
<1>3. delivered' \in [Incidents -> 0..Never]
  <2>1. now \in 0..Never
    BY DEF MarkTypes, Never
  <2> QED BY <2>1 DEF Life, Register, Submit, Approve, RequestRevision, Move, BeginReopen, Reopen,
        AbandonReopen, RecordDelivery, incident, MarkTypes
<1>4. ASSUME NEW j \in Incidents
      PROVE  /\ reopening'[j] # "NONE" => status'[j] \notin {"NONE", "REJECTED"}
             /\ status[j] = "REJECTED" => status'[j] = "REJECTED"
  BY DEF Life, Register, Submit, Approve, RequestRevision, Move, BeginReopen, Reopen, AbandonReopen,
    RecordDelivery, incident, MarkTypes, Statuses
<1>5. MarkTypes'
  BY <1>1, <1>2, <1>3, <1>4 DEF MarkTypes, marks
<1>6. ASSUME NEW j \in Incidents, Final(j) PROVE Final(j)'
  <2>1. CASE delivered' = delivered
    BY <1>4, <1>6, <2>1 DEF Final, Undelivered
  <2>2. CASE delivered' = [delivered EXCEPT ![i] = now]
    <3>1. delivered'[j] = IF j = i THEN now ELSE delivered[j]
      BY <2>2 DEF MarkTypes
    <3> QED BY <1>4, <1>6, <3>1 DEF Final, Undelivered, MarkTypes
  <2>3. delivered' = delivered \/ delivered' = [delivered EXCEPT ![i] = now]
    BY DEF Life, Register, Submit, Approve, RequestRevision, Move, BeginReopen, Reopen, AbandonReopen,
      RecordDelivery, incident
  <2> QED BY <2>1, <2>2, <2>3
<1> QED BY <1>1, <1>4, <1>5, <1>6, MarksKept

(* A rejection deletes the reminder and keeps its mark. *)
LEMMA RejectKeepsMarks ==
  ASSUME MarkInv, NEW i \in Incidents, Reject(i)
  PROVE  MarkInv'
<1>1. /\ UNCHANGED <<now, delivered, reopening, queued, reminded, notice>>
      /\ reopening[i] = "NONE" /\ status' = [status EXCEPT ![i] = "REJECTED"]
      /\ reminder' = [reminder EXCEPT ![i] = IF @.bare THEN @ ELSE NoRow]
  BY DEF Reject, Move
<1>2. \A j \in Incidents : /\ status'[j] = IF j = i THEN "REJECTED" ELSE status[j]
                          /\ Undelivered(j)' = Undelivered(j)
  BY <1>1 DEF MarkInv, MarkTypes, Undelivered
<1>3. /\ reminder' = [j \in Incidents |-> reminder'[j]]
      /\ \A j \in Incidents : j # i => reminder'[j] = reminder[j]
      /\ reminder'[i] \in {reminder[i], NoRow}
  BY <1>1 DEF MarkInv, RowTypes
<1>4. "state" \in DOMAIN NoRow
  BY DEF NoRow
<1>5. RowTypes'
  BY <1>1, <1>3, <1>4 DEF MarkInv, RowTypes
<1>6. MarkTypes'
  BY <1>1, <1>2 DEF MarkInv, MarkTypes, Statuses
<1>7. NoNoticeLost'
  BY <1>1, <1>2, <1>3 DEF MarkInv, NoNoticeLost
<1> QED BY <1>5, <1>6, <1>7 DEF MarkInv

(* A sweep that queues the deadline notice marks the incident in the same  *)
(* transaction, and gives every chat its row.                              *)
LEMMA QueueWorkingDeadlineStep ==
  ASSUME MarkInv, NEW s \in Sweeps, NEW i \in Incidents, QueueWorkingDeadline(s, i)
  PROVE  MarkInv'
<1>1. UNCHANGED <<now, incident, reopening, reminded, reminder>>
  BY DEF QueueWorkingDeadline
<1>2. CASE ~Expired(i, sweep[s].at)
  <2>1. UNCHANGED <<marks, rows>>
    BY <1>1, <1>2 DEF QueueWorkingDeadline, marks, rows
  <2>2. MarkTypes'
    BY <1>1, <2>1 DEF MarkInv, MarkTypes, marks, incident
  <2>3. \A j \in Incidents : (Final(j) => Final(j)') /\ status'[j] = status[j]
    BY <1>1 DEF Final, Undelivered, incident
  <2> QED BY <2>1, <2>2, <2>3, MarksKept
<1>3. CASE Expired(i, sweep[s].at)
  <2> DEFINE r == New
  <2>1. "state" \in DOMAIN r /\ r.state = "PENDING"
    BY DEF NoRow, New
  <2>2. /\ queued' = [queued EXCEPT ![i] = TRUE]
        /\ notice' = [x \in DOMAIN notice |->
                        IF x[1] = i /\ notice[x].state = "NONE" THEN r ELSE notice[x]]
    BY <1>3 DEF QueueWorkingDeadline
  <2> HIDE DEF r
  <2>3. DOMAIN notice = Incidents \X Chats
    BY DEF MarkInv, RowTypes
  <2>4. \A x \in Incidents \X Chats : notice'[x] = IF x[1] = i /\ notice[x].state = "NONE" THEN r ELSE notice[x]
    BY <2>2, <2>3
  <2>5. RowTypes'
    <3>1. notice' = [x \in Incidents \X Chats |-> notice'[x]]
      BY <2>2, <2>3
    <3>2. \A x \in Incidents \X Chats : "state" \in DOMAIN notice'[x]
      BY <2>1, <2>4 DEF MarkInv, RowTypes
    <3> QED BY <1>1, <3>1, <3>2 DEF MarkInv, RowTypes
  <2>6. queued' \in [Incidents -> BOOLEAN] /\ \A j \in Incidents : queued'[j] = IF j = i THEN TRUE ELSE queued[j]
    BY <2>2 DEF MarkInv, MarkTypes
  <2>7. MarkTypes'
    BY <1>1, <2>6 DEF MarkInv, MarkTypes, incident
  <2>8. ASSUME NEW j \in Incidents, NEW c \in Chats
        PROVE  /\ queued'[j] <=> notice'[<<j, c>>].state # "NONE"
               /\ notice'[<<j, c>>].state = "CANCELLED" => status'[j] = "REJECTED" \/ ~Undelivered(j)'
    <3>1. notice'[<<j, c>>] = IF j = i /\ notice[<<j, c>>].state = "NONE" THEN r ELSE notice[<<j, c>>]
      BY <2>4
    <3>2. /\ queued[j] <=> notice[<<j, c>>].state # "NONE"
          /\ notice[<<j, c>>].state = "CANCELLED" => status[j] = "REJECTED" \/ ~Undelivered(j)
      BY DEF MarkInv, NoNoticeLost
    <3>3. status'[j] = status[j] /\ Undelivered(j)' = Undelivered(j)
      BY <1>1 DEF incident, Undelivered
    <3> QED BY <2>1, <2>6, <3>1, <3>2, <3>3
  <2>9. NoNoticeLost'
    BY <1>1, <2>8 DEF MarkInv, NoNoticeLost, incident
  <2> QED BY <2>5, <2>7, <2>9 DEF MarkInv
<1> QED BY <1>2, <1>3

(* The same of the reminder; sending it inserts the row once more if it has *)
(* gone.                                                                   *)
LEMMA WarningStep ==
  ASSUME MarkInv, NEW s \in Sweeps, NEW i \in Incidents, QueueWarning(s, i) \/ SendWarning(s, i)
  PROVE  MarkInv'
<1>1. UNCHANGED <<now, incident, reopening, queued, notice>>
  BY DEF QueueWarning, SendWarning, marks
<1>2. \A j \in Incidents : status'[j] = status[j] /\ Undelivered(j)' = Undelivered(j)
  BY <1>1 DEF incident, Undelivered
<1>3. CASE UNCHANGED <<reminded, reminder>>
  <2>1. MarkTypes'
    BY <1>1, <1>3 DEF MarkInv, MarkTypes, incident
  <2> QED BY <1>1, <1>2, <1>3, <2>1, MarksKept DEF marks, rows, Final
<1>4. ASSUME NEW r, "state" \in DOMAIN r, r.state = "PENDING", Insert(i, r),
             reminded' = [reminded EXCEPT ![i] = TRUE] \/ reminded' = reminded
      PROVE  MarkInv'
  <2>1. /\ reminder' = [j \in Incidents |-> reminder'[j]]
        /\ \A j \in Incidents : reminder'[j] = IF j = i /\ reminder[j].state = "NONE" THEN r ELSE reminder[j]
    BY <1>4 DEF MarkInv, RowTypes, Insert
  <2>2. reminded' \in [Incidents -> BOOLEAN] /\ \A j \in Incidents : j # i => reminded'[j] = reminded[j]
    BY <1>4 DEF MarkInv, MarkTypes
  <2>3. RowTypes'
    BY <1>1, <1>4, <2>1 DEF MarkInv, RowTypes
  <2>4. MarkTypes'
    BY <1>1, <2>2 DEF MarkInv, MarkTypes, incident
  <2>5. NoNoticeLost'
    BY <1>1, <1>2, <1>4, <2>1, <2>2 DEF MarkInv, NoNoticeLost
  <2> QED BY <2>3, <2>4, <2>5 DEF MarkInv
<1>5. CASE QueueWarning(s, i)
  <2>1. \/ UNCHANGED <<reminded, reminder>>
        \/ Insert(i, New) /\ reminded' = [reminded EXCEPT ![i] = TRUE]
    BY <1>5 DEF QueueWarning
  <2>2. "state" \in DOMAIN New /\ New.state = "PENDING"
    BY DEF New, NoRow
  <2> QED BY <1>3, <1>4, <2>1, <2>2
<1>6. CASE SendWarning(s, i)
  <2>1. Insert(i, [New EXCEPT !.bare = TRUE]) /\ reminded' = reminded
    BY <1>6 DEF SendWarning, marks
  <2>2. "state" \in DOMAIN [New EXCEPT !.bare = TRUE] /\ [New EXCEPT !.bare = TRUE].state = "PENDING"
    BY DEF New, NoRow
  <2> QED BY <1>4, <2>1, <2>2
<1> QED BY <1>5, <1>6

-----------------------------------------------------------------------------
(* The worker. *)

LEMMA SendNoticeStep ==
  ASSUME MarkInv, NEW x \in Incidents \X Chats, SendNotice(x) \/ NoticeFails(x)
  PROVE  MarkInv'
<1>0. "state" \in DOMAIN notice[x]
  BY DEF MarkInv, RowTypes
<1>1. CASE ClaimNotice(x)
  BY <1>0, <1>1, RowForms, NoticeKept DEF ClaimNotice, Claimable
<1>2. CASE ReadNotice(x)
  <2> DEFINE r == notice[x]
             i == x[1]
  <2>1. r.state \in {"SENDING", "READ"}
    BY <1>2 DEF ReadNotice
  <2>2. CASE Void(i)
    <3>1. SetNotice(x, Cancelled(r)) /\ Final(i)
      BY <1>2, <2>2 DEF ReadNotice, Void, Final
    <3> QED BY <1>0, <2>1, <3>1, RowForms, NoticeKept
  <2>3. CASE ~Void(i)
    <3>1. \/ SetNotice(x, Deferred(r))
          \/ SetNotice(x, [r EXCEPT !.state = "READ", !.saw = DeliveryState(i)])
          \/ SetNotice(x, Retried(r, "DEFERRED", NextWorking[now + 1]))
          \/ SetNotice(x, [r EXCEPT !.state = "CHECKED", !.saw = "-"])
      BY <1>2, <2>3 DEF ReadNotice
    <3>2. ASSUME NEW v \in {"READ", "CHECKED"}, NEW w, NEW n, n = [r EXCEPT !.state = v, !.saw = w],
                 SetNotice(x, n)
          PROVE  MarkInv'
      <4>1. "state" \in DOMAIN n /\ n.state = v
        BY <1>0, <3>2
      <4> QED BY <2>1, <3>2, <4>1, NoticeKept
    <3>3. ASSUME NEW n \in {Deferred(r), Retried(r, "DEFERRED", NextWorking[now + 1])}, SetNotice(x, n)
          PROVE  MarkInv'
      <4>1. "state" \in DOMAIN n /\ n.state \in {"DEFERRED", "FAILED"}
        BY <1>0, <3>3, RowForms
      <4> QED BY <2>1, <3>3, <4>1, NoticeKept
    <3> QED BY <3>1, <3>2, <3>3
  <2> QED BY <2>2, <2>3
<1>3. CASE NoticeSent(x)
  BY <1>0, <1>3, RowForms, NoticeKept DEF NoticeSent
<1>4. CASE NoticeFails(x)
  BY <1>0, <1>4, RowForms, NoticeKept DEF NoticeFails
<1> QED BY <1>1, <1>2, <1>3, <1>4 DEF SendNotice

LEMMA SendReminderStep ==
  ASSUME MarkInv, NEW i \in Incidents, SendReminder(i) \/ ReminderFails(i)
  PROVE  MarkInv'
<1>0. "state" \in DOMAIN reminder[i]
  BY DEF MarkInv, RowTypes
<1>1. CASE ClaimReminder(i)
  BY <1>0, <1>1, RowForms, ReminderKept DEF ClaimReminder, Claimable
<1>2. CASE Rearm(i)
  <2>1. /\ UNCHANGED <<now, incident, reopening, queued, notice>>
        /\ reminder' = [reminder EXCEPT ![i] = NoRow] /\ reminded' = [reminded EXCEPT ![i] = FALSE]
    BY <1>2 DEF Rearm, SetReminder, RearmedMark
  <2>2. /\ reminder' = [j \in Incidents |-> reminder'[j]]
        /\ \A j \in Incidents : reminder'[j] = IF j = i THEN NoRow ELSE reminder[j]
    BY <2>1 DEF MarkInv, RowTypes
  <2>3. reminded' \in [Incidents -> BOOLEAN] /\ \A j \in Incidents : reminded'[j] = IF j = i THEN FALSE ELSE reminded[j]
    BY <2>1 DEF MarkInv, MarkTypes
  <2>4. "state" \in DOMAIN NoRow /\ NoRow.state = "NONE"
    BY DEF NoRow
  <2>5. \A j \in Incidents : status'[j] = status[j] /\ Undelivered(j)' = Undelivered(j)
    BY <2>1 DEF incident, Undelivered
  <2>6. RowTypes'
    BY <2>1, <2>2, <2>4 DEF MarkInv, RowTypes
  <2>7. MarkTypes'
    BY <2>1, <2>3 DEF MarkInv, MarkTypes, incident
  <2>8. NoNoticeLost'
    BY <2>1, <2>2, <2>3, <2>4, <2>5 DEF MarkInv, NoNoticeLost
  <2> QED BY <2>6, <2>7, <2>8 DEF MarkInv
<1>3. CASE ReadReminder(i)
  <2>1. LET n == [reminder[i] EXCEPT !.state = "CHECKED"] IN "state" \in DOMAIN n /\ n.state = "CHECKED"
    BY <1>0
  <2>2. LET n == Ended(reminder[i], "SENT") IN "state" \in DOMAIN n /\ n.state = "SENT"
    BY <1>0, RowForms
  <2>3. reminder[i].state = "SENDING" /\ UNCHANGED reminded
    BY <1>3 DEF ReadReminder
  <2>4. SetReminder(i, [reminder[i] EXCEPT !.state = "CHECKED"]) \/ SetReminder(i, Ended(reminder[i], "SENT"))
    BY <1>3 DEF ReadReminder
  <2> QED BY <2>1, <2>2, <2>3, <2>4, ReminderKept
<1>4. CASE ReminderSent(i)
  BY <1>0, <1>4, RowForms, ReminderKept DEF ReminderSent
<1>5. CASE ReminderFails(i)
  BY <1>0, <1>5, RowForms, ReminderKept DEF ReminderFails
<1> QED BY <1>1, <1>2, <1>3, <1>4, <1>5 DEF SendReminder

(* A crash changes the rows in hand, and no mark. *)
LEMMA CrashStep ==
  ASSUME MarkInv, Crash
  PROVE  MarkInv'
<1>1. /\ notice' = [x \in DOMAIN notice |-> Left(notice[x])]
      /\ reminder' = [i \in Incidents |-> Left(reminder[i])]
      /\ reopening' = [i \in Incidents |-> "NONE"]
      /\ UNCHANGED <<now, incident, marks>>
  BY DEF Crash
<1>2. DOMAIN notice = Incidents \X Chats
  BY DEF MarkInv, RowTypes
<1>3. \A x \in Incidents \X Chats : "state" \in DOMAIN notice[x] /\ notice'[x] = Left(notice[x])
  BY <1>1, <1>2 DEF MarkInv, RowTypes
<1>4. \A x \in Incidents \X Chats :
        "state" \in DOMAIN notice'[x] /\ notice'[x].state \in {notice[x].state, "STALE"}
        /\ (notice[x].state = "NONE" <=> notice'[x].state = "NONE")
  BY <1>3 DEF Left, InHand
<1>5. \A i \in Incidents :
        "state" \in DOMAIN reminder'[i] /\ (reminder[i].state = "NONE" <=> reminder'[i].state = "NONE")
  BY <1>1 DEF MarkInv, RowTypes, Left, InHand
<1>6. RowTypes'
  <2>1. notice' = [x \in Incidents \X Chats |-> notice'[x]] /\ reminder' = [i \in Incidents |-> reminder'[i]]
    BY <1>1, <1>2
  <2> QED BY <1>4, <1>5, <2>1 DEF RowTypes
<1>7. MarkTypes'
  BY <1>1 DEF MarkInv, MarkTypes, incident, marks
<1>8. \A i \in Incidents : status'[i] = status[i] /\ Undelivered(i)' = Undelivered(i)
  BY <1>1 DEF incident, Undelivered
<1>9. ASSUME NEW i \in Incidents, NEW c \in Chats
      PROVE  /\ queued'[i] <=> notice'[<<i, c>>].state # "NONE"
             /\ notice'[<<i, c>>].state = "CANCELLED" => status'[i] = "REJECTED" \/ ~Undelivered(i)'
  <2>1. <<i, c>> \in Incidents \X Chats
    OBVIOUS
  <2>2. /\ queued[i] <=> notice[<<i, c>>].state # "NONE"
        /\ notice[<<i, c>>].state = "CANCELLED" => status[i] = "REJECTED" \/ ~Undelivered(i)
    BY DEF MarkInv, NoNoticeLost
  <2> QED BY <1>1, <1>4, <1>8, <2>1, <2>2 DEF marks
<1>10. NoNoticeLost'
  BY <1>1, <1>5, <1>8, <1>9 DEF MarkInv, NoNoticeLost, marks
<1> QED BY <1>6, <1>7, <1>10 DEF MarkInv

(* Steps that only read: the sweep's queries, and time. *)
LEMMA ReadingStep ==
  ASSUME MarkInv,
         \/ Tick \/ UNCHANGED vars
         \/ \E s \in Sweeps : BeginSweep(s) \/ FlagOverdue(s) \/ Due(s) \/ List(s) \/ EndSweep(s)
  PROVE  MarkInv'
<1>1. UNCHANGED <<status, delivered, reopening, marks, rows>>
  BY DEF Tick, vars, incident, BeginSweep, FlagOverdue, Due, List, EndSweep
<1>2. now' \in 0..Horizon
  <2>1. now' = now \/ (now < Horizon /\ now' = now + 1)
    BY DEF Tick, vars, BeginSweep, FlagOverdue, Due, List, EndSweep
  <2> QED BY <2>1, HorizonNat DEF MarkInv, MarkTypes
<1>3. MarkTypes'
  BY <1>1, <1>2 DEF MarkInv, MarkTypes, marks
<1>4. \A i \in Incidents : (Final(i) => Final(i)') /\ status'[i] = status[i]
  BY <1>1 DEF Final, Undelivered
<1> QED BY <1>1, <1>3, <1>4, MarksKept

-----------------------------------------------------------------------------
(* The invariant. *)

LEMMA InitMarks ==
  ASSUME Init
  PROVE  MarkInv
<1>1. MarkTypes
  BY HorizonNat DEF Init, MarkTypes, Statuses
<1>2. RowTypes
  BY DEF Init, RowTypes, NoRow
<1>3. NoNoticeLost
  BY DEF Init, NoNoticeLost, NoRow
<1> QED BY <1>1, <1>2, <1>3 DEF MarkInv

LEMMA MarkStep ==
  ASSUME MarkInv, [Next]_vars
  PROVE  MarkInv'
BY LifeKeepsMarks, RejectKeepsMarks, QueueWorkingDeadlineStep, WarningStep, SendNoticeStep, SendReminderStep,
   CrashStep, ReadingStep
DEF Next, Life, Sweeping

(* The marks, the rows they stand for and what is final about an incident  *)
(* keep in step, a rejection that deletes the reminder included.           *)
THEOREM MarkInvariant == Spec => []MarkInv
<1>1. Init => MarkInv
  BY InitMarks
<1>2. MarkInv /\ [Next]_vars => MarkInv'
  BY MarkStep
<1> QED BY <1>1, <1>2, PTL DEF Spec

(* No notice is lost: a mark that keeps the next sweep silent has its      *)
(* outbox rows, but for the reminder of a rejected incident, and a notice  *)
(* is cancelled only when nothing can make it due again.                   *)
THEOREM NoticesAreKept == Spec => []NoNoticeLost
<1>1. MarkInv => NoNoticeLost
  BY DEF MarkInv
<1> QED BY <1>1, MarkInvariant, PTL


-----------------------------------------------------------------------------
(* The overdue flag.  What the calendar functions compute is a hypothesis, *)
(* CalendarExact, which TLC checks on its instance; everything that writes *)
(* the flag, in whatever order, is below.                                  *)

LEMMA NowGrows ==
  ASSUME MarkTypes, [Next]_vars
  PROVE  now' = now \/ now' = now + 1
BY DEF Next, vars, Life, Register, Reject, Submit, Approve, RequestRevision, Move,
  BeginReopen, Reopen, AbandonReopen, RecordDelivery, incident, Tick, Crash,
  SendReminder, ClaimReminder, Rearm, ReadReminder, ReminderSent, ReminderFails, SetReminder,
  BeginSweep, Sweeping, FlagOverdue, Due, List, EndSweep, QueueWorkingDeadline, QueueWarning, SendWarning,
  SendNotice, ClaimNotice, ReadNotice, NoticeSent, NoticeFails, SetNotice

DeadlineOf(i) == IF policy[i] = "LEGACY" THEN ComputeDeadline(created[i]) ELSE AddWorking(created[i], Budget)

FlagTypes ==
  /\ policy \in [Incidents -> {"LEGACY", "WORKING"}]
  /\ created \in [Incidents -> 0..Horizon]
  /\ overdue \in [Incidents -> BOOLEAN]
  /\ deadline \in [Incidents -> Nat]
  /\ answer \in [Incidents -> {"NONE", "DIRECT", "REVIEWED", "DELIVERED"}]

(* A sweep works with a clock that is not ahead of the others. *)
ClockBehind ==
  /\ sweep = [s \in Sweeps |-> sweep[s]]
  /\ \A s \in Sweeps : DOMAIN sweep[s] = {"stage", "at", "due", "send"} /\ sweep[s].at \in 0..now

(* The flag of an incident is raised after its deadline, and stands as the *)
(* delivery left it while the incident is resolved by what was delivered.  *)
FlagRight(i) ==
  /\ status[i] = "NONE" => ~overdue[i]
  /\ status[i] # "NONE" => /\ created[i] <= now /\ deadline[i] = DeadlineOf(i)
                           /\ overdue[i] => deadline[i] <= now
  /\ status[i] = "REVIEW" => ~Delivered(i)
  /\ policy[i] = "WORKING" /\ status[i] = "RESOLVED" /\ Delivered(i) =>
       /\ delivered[i] <= now
       /\ overdue[i] <=> WorkingTime(deadline[i], delivered[i]) > 0

FlagInv == MarkTypes /\ FlagTypes /\ ClockBehind /\ \A i \in Incidents : FlagRight(i)

(* A step that leaves an incident as it is keeps its flag right. *)
LEMMA FlagKept ==
  ASSUME FlagInv, now' \in {now, now + 1}, NEW i \in Incidents,
         /\ status'[i] = status[i] /\ policy'[i] = policy[i] /\ created'[i] = created[i]
         /\ deadline'[i] = deadline[i] /\ overdue'[i] = overdue[i] /\ delivered'[i] = delivered[i]
         /\ answer'[i] = answer[i]
  PROVE  FlagRight(i)'
<1>1. now \in Nat /\ created[i] \in Nat /\ deadline[i] \in Nat /\ delivered[i] \in Nat
  BY HorizonNat DEF FlagInv, MarkTypes, FlagTypes
<1>2. FlagRight(i)
  BY DEF FlagInv
<1>3. Delivered(i)' = Delivered(i) /\ DeadlineOf(i)' = DeadlineOf(i)
  BY DEF Delivered, DeadlineOf
<1>4. \A n \in Nat : n <= now => n <= now'
  BY <1>1
<1> QED BY <1>1, <1>2, <1>3, <1>4 DEF FlagRight

(* Registration fixes the term; nothing has been late yet. *)
LEMMA RegisterFlags ==
  ASSUME FlagInv, CalendarExact, NEW i \in Incidents, NEW p \in {"LEGACY", "WORKING"}, Register(i, p)
  PROVE  FlagTypes' /\ \A j \in Incidents : FlagRight(j)'
<1>1. /\ status[i] = "NONE" /\ status' = [status EXCEPT ![i] = "OPEN"]
      /\ policy' = [policy EXCEPT ![i] = p] /\ created' = [created EXCEPT ![i] = now]
      /\ UNCHANGED <<now, overdue, delivered, answer>>
  BY DEF Register
<1> DEFINE term == IF p = "LEGACY" THEN ComputeDeadline(now) ELSE AddWorking(now, Budget)
<1>2. deadline' = [deadline EXCEPT ![i] = term]
  BY DEF Register
<1>3. term \in Nat /\ now \in 0..Horizon
  BY DEF CalendarExact, FlagInv, MarkTypes
<1>4. term = IF p = "LEGACY" THEN ComputeDeadline(now) ELSE AddWorking(now, Budget)
  OBVIOUS
<1> HIDE DEF term
<1>5. FlagTypes'
  BY <1>1, <1>2, <1>3 DEF FlagInv, FlagTypes
<1>6. /\ status'[i] = "OPEN" /\ policy'[i] = p /\ created'[i] = now /\ deadline'[i] = term
      /\ \A j \in Incidents : j # i =>
           /\ status'[j] = status[j] /\ policy'[j] = policy[j] /\ created'[j] = created[j]
           /\ deadline'[j] = deadline[j]
  BY <1>1, <1>2 DEF FlagInv, FlagTypes, MarkTypes
<1>7. FlagRight(i)'
  <2>1. ~overdue[i]
    BY <1>1 DEF FlagInv, FlagRight
  <2>2. ~overdue'[i]
    BY <1>1, <2>1
  <2>3. deadline'[i] = DeadlineOf(i)'
    BY <1>4, <1>6 DEF DeadlineOf
  <2>4. created'[i] <= now'
    BY <1>1, <1>3, <1>6
  <2> QED BY <1>6, <2>2, <2>3, <2>4 DEF FlagRight
<1>8. ASSUME NEW j \in Incidents, j # i PROVE FlagRight(j)'
  BY <1>1, <1>6, <1>8, FlagKept
<1> QED BY <1>5, <1>7, <1>8

(* Whatever moves the incident away from the delivered answer. *)
LEMMA MoveFlags ==
  ASSUME FlagInv, NEW i \in Incidents,
         \/ Reject(i) \/ (\E direct \in BOOLEAN : Submit(i, direct)) \/ Approve(i)
         \/ RequestRevision(i) \/ Reopen(i)
  PROVE  FlagTypes' /\ \A j \in Incidents : FlagRight(j)'
<1>1. UNCHANGED <<now, policy, created, deadline, delivered>> /\ status[i] # "NONE"
  BY DEF Reject, Submit, Approve, RequestRevision, Move, Reopen, FlagInv, MarkTypes
<1>2. now \in Nat /\ deadline[i] \in Nat /\ FlagRight(i)
  BY HorizonNat DEF FlagInv, MarkTypes, FlagTypes
<1>3. DeadlineOf(i)' = DeadlineOf(i)
  BY <1>1 DEF DeadlineOf
<1>4. /\ answer' \in [Incidents -> {"NONE", "DIRECT", "REVIEWED", "DELIVERED"}]
      /\ overdue' \in [Incidents -> BOOLEAN]
  <2>1. (deadline[i] <= now) \in BOOLEAN
    OBVIOUS
  <2> QED BY <2>1 DEF Reject, Submit, Approve, RequestRevision, Move, Reopen, FlagInv, FlagTypes
<1>5. FlagTypes'
  BY <1>1, <1>4 DEF FlagInv, FlagTypes
<1>6. ASSUME NEW j \in Incidents, j # i PROVE FlagRight(j)'
  <2>1. status'[j] = status[j] /\ overdue'[j] = overdue[j] /\ answer'[j] = answer[j]
    BY <1>6 DEF Reject, Submit, Approve, RequestRevision, Move, Reopen, FlagInv, MarkTypes, FlagTypes
  <2> QED BY <1>1, <2>1, FlagKept
<1>7. /\ overdue'[i] => overdue[i] \/ deadline[i] <= now
      /\ status'[i] \in {"REVIEW", "RESOLVED"} => ~Delivered(i)'
      /\ status'[i] # "NONE"
  <2>1. CASE Reject(i) \/ RequestRevision(i)
    BY <2>1 DEF Reject, RequestRevision, Move, FlagInv, MarkTypes
  <2>2. CASE Reopen(i)
    BY <2>2 DEF Reopen, FlagInv, MarkTypes, FlagTypes
  <2>3. CASE Approve(i)
    BY <1>2, <2>3 DEF Approve, Move, FlagInv, MarkTypes, FlagRight, Delivered
  <2>4. ASSUME NEW direct \in BOOLEAN, Submit(i, direct)
        PROVE  /\ overdue'[i] = overdue[i] /\ ~Delivered(i)' /\ status'[i] # "NONE"
    BY <2>4 DEF Submit, Move, FlagInv, MarkTypes, FlagTypes, Delivered
  <2> QED BY <2>1, <2>2, <2>3, <2>4
<1>8. FlagRight(i)'
  BY <1>1, <1>2, <1>3, <1>7 DEF FlagRight
<1> QED BY <1>5, <1>6, <1>8

(* The delivery records the flag, whatever a reopening or a sweep wrote.   *)
LEMMA DeliveryFlags ==
  ASSUME FlagInv, NEW i \in Incidents, RecordDelivery(i)
  PROVE  FlagTypes' /\ \A j \in Incidents : FlagRight(j)'
<1>1. /\ UNCHANGED <<now, policy, created, deadline, status>> /\ status[i] = "RESOLVED"
      /\ answer' = [answer EXCEPT ![i] = "DELIVERED"]
  BY DEF RecordDelivery
<1>2. now \in 0..Horizon /\ now \in Nat /\ deadline[i] \in Nat /\ FlagRight(i)
  BY HorizonNat DEF FlagInv, MarkTypes, FlagTypes
<1>3. DeadlineOf(i)' = DeadlineOf(i)
  BY <1>1 DEF DeadlineOf
<1>4. ASSUME NEW j \in Incidents, j # i PROVE FlagRight(j)'
  <2>1. overdue'[j] = overdue[j] /\ delivered'[j] = delivered[j] /\ answer'[j] = answer[j]
    BY <1>4 DEF RecordDelivery, FlagInv, MarkTypes, FlagTypes
  <2> QED BY <1>1, <2>1, FlagKept
<1>5. CASE policy[i] = "WORKING"
  <2>1. /\ delivered' = [delivered EXCEPT ![i] = now]
        /\ overdue' = [overdue EXCEPT ![i] = WorkingTime(deadline[i], now) > 0]
    BY <1>5 DEF RecordDelivery, Lateness
  <2>2. (WorkingTime(deadline[i], now) > 0) \in BOOLEAN
    OBVIOUS
  <2>3. FlagTypes'
    BY <1>1, <2>1, <2>2 DEF FlagInv, FlagTypes
  <2>4. delivered'[i] = now /\ overdue'[i] = (WorkingTime(deadline[i], now) > 0)
    BY <2>1 DEF FlagInv, MarkTypes, FlagTypes
  <2>5. WorkingTime(deadline[i], now) > 0 => deadline[i] <= now
    <3>1. CASE now <= deadline[i]
      <4>1. WorkingTime(deadline[i], now) = 0
        BY <3>1 DEF WorkingTime
      <4> QED BY <4>1
    <3> QED BY <1>2, <3>1
  <2>6. now' = now /\ deadline'[i] = deadline[i] /\ created'[i] = created[i] /\ status'[i] = "RESOLVED"
    BY <1>1
  <2>7. created'[i] <= now' /\ deadline'[i] = DeadlineOf(i)' /\ (overdue'[i] => deadline'[i] <= now')
    BY <1>1, <1>2, <1>3, <2>4, <2>5, <2>6 DEF FlagRight
  <2>8. delivered'[i] <= now' /\ (overdue'[i] <=> WorkingTime(deadline'[i], delivered'[i]) > 0)
    <3>1. WorkingTime(deadline'[i], delivered'[i]) = WorkingTime(deadline[i], now)
      BY <2>4, <2>6
    <3>2. now <= now'
      BY <1>2, <2>6
    <3> QED BY <2>4, <3>1, <3>2
  <2>9. FlagRight(i)'
    BY <2>6, <2>7, <2>8 DEF FlagRight
  <2> QED BY <1>4, <2>3, <2>9
<1>6. CASE policy[i] # "WORKING"
  <2>1. UNCHANGED <<delivered, overdue>>
    BY <1>6 DEF RecordDelivery
  <2>2. FlagTypes'
    BY <1>1, <2>1 DEF FlagInv, FlagTypes
  <2>3. FlagRight(i)'
    BY <1>1, <1>2, <1>3, <1>6, <2>1 DEF FlagRight
  <2> QED BY <1>4, <2>2, <2>3
<1> QED BY <1>5, <1>6

(* A sweep raises the flag with the clock it read when it began: of open   *)
(* incidents only, and after their deadline.                               *)
LEMMA SweepFlags ==
  ASSUME FlagInv, NEW s \in Sweeps, FlagOverdue(s)
  PROVE  FlagTypes' /\ \A j \in Incidents : FlagRight(j)'
<1>1. /\ UNCHANGED <<now, policy, status, created, deadline, delivered, answer>>
      /\ overdue' = [i \in Incidents |->
                      overdue[i] \/ ((LegacyOpen(i) \/ WorkingOpen(i)) /\ deadline[i] <= sweep[s].at)]
  BY DEF FlagOverdue
<1>2. FlagTypes'
  BY <1>1 DEF FlagInv, FlagTypes
<1>3. ASSUME NEW i \in Incidents PROVE FlagRight(i)'
  <2>1. now \in Nat /\ deadline[i] \in Nat /\ FlagRight(i) /\ sweep[s].at \in 0..now
    BY HorizonNat DEF FlagInv, MarkTypes, FlagTypes, ClockBehind
  <2>2. overdue'[i] = (overdue[i] \/ ((LegacyOpen(i) \/ WorkingOpen(i)) /\ deadline[i] <= sweep[s].at))
    BY <1>1
  <2>3. Delivered(i)' = Delivered(i) /\ DeadlineOf(i)' = DeadlineOf(i)
    BY <1>1 DEF Delivered, DeadlineOf
  <2>4. overdue'[i] /\ ~overdue[i] =>
          /\ deadline[i] <= now /\ status[i] # "NONE"
          /\ ~(policy[i] = "WORKING" /\ status[i] = "RESOLVED" /\ Delivered(i))
    <3>1. LegacyOpen(i) => status[i] # "NONE" /\ policy[i] = "LEGACY"
      BY DEF LegacyOpen
    <3>2. WorkingOpen(i) => status[i] # "NONE" /\ delivered[i] = Never /\ ~(delivered[i] <= now)
      <4>1. now \in 0..Horizon /\ Never = Horizon + 1 /\ Horizon \in Nat
        BY HorizonNat DEF FlagInv, MarkTypes, Never
      <4> QED BY <4>1 DEF WorkingOpen, Undelivered
    <3>3. deadline[i] <= sweep[s].at => deadline[i] <= now
      BY <2>1
    <3>4. overdue'[i] /\ ~overdue[i] => (LegacyOpen(i) \/ WorkingOpen(i)) /\ deadline[i] <= sweep[s].at
      BY <2>2
    <3> QED BY <2>1, <3>1, <3>2, <3>3, <3>4 DEF FlagRight
  <2>5. overdue[i] => overdue'[i]
    BY <2>2
  <2>6. overdue[i] \in BOOLEAN /\ overdue'[i] \in BOOLEAN
    BY <1>2 DEF FlagInv, FlagTypes
  <2> QED BY <1>1, <2>1, <2>3, <2>4, <2>5, <2>6 DEF FlagRight
<1> QED BY <1>2, <1>3

(* No other step touches the incident. *)
LEMMA ElsewhereFlags ==
  ASSUME FlagInv, now' \in {now, now + 1},
         UNCHANGED <<policy, status, created, deadline, overdue, delivered, answer>>
  PROVE  FlagTypes' /\ \A j \in Incidents : FlagRight(j)'
<1>1. FlagTypes'
  BY DEF FlagInv, FlagTypes
<1> QED BY <1>1, FlagKept

LEMMA OverdueMove ==
  ASSUME [Next]_vars
  PROVE  \/ \E i \in Incidents, p \in {"LEGACY", "WORKING"} : Register(i, p)
         \/ \E i \in Incidents :
              \/ Reject(i) \/ (\E direct \in BOOLEAN : Submit(i, direct)) \/ Approve(i)
              \/ RequestRevision(i) \/ Reopen(i)
         \/ \E i \in Incidents : RecordDelivery(i)
         \/ \E s \in Sweeps : FlagOverdue(s)
         \/ UNCHANGED <<policy, status, created, deadline, overdue, delivered, answer>>
<1>1. ASSUME NEW i \in Incidents, BeginReopen(i, "CARD") \/ BeginReopen(i, "POST") \/ AbandonReopen(i)
      PROVE  UNCHANGED <<policy, status, created, deadline, overdue, delivered, answer>>
  BY <1>1 DEF BeginReopen, AbandonReopen, incident
<1>2. ASSUME NEW i \in Incidents, SendReminder(i) \/ ReminderFails(i)
      PROVE  UNCHANGED <<policy, status, created, deadline, overdue, delivered, answer>>
  BY <1>2 DEF SendReminder, ClaimReminder, Rearm, ReadReminder, ReminderSent, ReminderFails,
    SetReminder, incident
<1>3. ASSUME NEW x \in Incidents \X Chats, SendNotice(x) \/ NoticeFails(x)
      PROVE  UNCHANGED <<policy, status, created, deadline, overdue, delivered, answer>>
  BY <1>3 DEF SendNotice, ClaimNotice, ReadNotice, NoticeSent, NoticeFails, SetNotice, incident
<1>4. ASSUME NEW s \in Sweeps, BeginSweep(s) \/ Due(s) \/ List(s) \/ EndSweep(s)
                               \/ \E i \in Incidents : \/ QueueWorkingDeadline(s, i)
                                                       \/ QueueWarning(s, i) \/ SendWarning(s, i)
      PROVE  UNCHANGED <<policy, status, created, deadline, overdue, delivered, answer>>
  BY <1>4 DEF BeginSweep, Due, List, EndSweep, QueueWorkingDeadline, QueueWarning, SendWarning, incident
<1>5. ASSUME Tick \/ Crash \/ UNCHANGED vars
      PROVE  UNCHANGED <<policy, status, created, deadline, overdue, delivered, answer>>
  BY <1>5 DEF Tick, Crash, vars, incident
<1> QED BY <1>1, <1>2, <1>3, <1>4, <1>5 DEF Next, Life, Sweeping

(* Sweeps keep the clock they read. *)
LEMMA ClockStep ==
  ASSUME MarkTypes, ClockBehind, now' \in {now, now + 1}, [Next]_vars
  PROVE  ClockBehind'
<1>0. now \in Nat /\ 0..now \subseteq 0..now'
  BY HorizonNat DEF MarkTypes
<1>1. ASSUME NEW s \in Sweeps, NEW f, Step(s, f), DOMAIN f = {"stage", "at", "due", "send"}, f.at \in 0..now
      PROVE  ClockBehind'
  <2>1. sweep' = [sweep EXCEPT ![s] = f]
    BY <1>1 DEF Step
  <2>2. \A t \in Sweeps : sweep'[t] = IF t = s THEN f ELSE sweep[t]
    BY <2>1 DEF ClockBehind
  <2>3. sweep' = [t \in Sweeps |-> sweep'[t]]
    BY <2>1 DEF ClockBehind
  <2>4. \A t \in Sweeps : sweep'[t].at \in 0..now
    BY <1>1, <2>2 DEF ClockBehind
  <2> QED BY <1>0, <1>1, <2>2, <2>3, <2>4 DEF ClockBehind
<1>2. ASSUME NEW s \in Sweeps, BeginSweep(s) PROVE ClockBehind'
  <2> DEFINE f == [stage |-> "flag", at |-> now, due |-> {}, send |-> {}]
  <2>1. Step(s, f) /\ DOMAIN f = {"stage", "at", "due", "send"} /\ f.at \in 0..now
    BY <1>0, <1>2 DEF BeginSweep
  <2> HIDE DEF f
  <2> QED BY <1>1, <2>1
<1>3. ASSUME NEW s \in Sweeps, \/ FlagOverdue(s) \/ Due(s) \/ List(s) \/ EndSweep(s)
                               \/ \E i \in Incidents : \/ QueueWorkingDeadline(s, i)
                                                       \/ QueueWarning(s, i) \/ SendWarning(s, i)
      PROVE  ClockBehind'
  <2>1. PICK f : Step(s, f) /\ DOMAIN f = {"stage", "at", "due", "send"} /\ f.at \in {sweep[s].at, 0}
    <3>1. DOMAIN sweep[s] = {"stage", "at", "due", "send"}
      BY DEF ClockBehind
    <3>2. ASSUME NEW x, NEW y, NEW g,
                 g = [sweep[s] EXCEPT !.stage = x] \/ g = [sweep[s] EXCEPT !.due = y]
                 \/ g = [sweep[s] EXCEPT !.stage = x, !.due = y] \/ g = Asleep
                 \/ g = [sweep[s] EXCEPT !.due = x, !.send = y] \/ g = [sweep[s] EXCEPT !.send = x]
          PROVE  DOMAIN g = {"stage", "at", "due", "send"} /\ g.at \in {sweep[s].at, 0}
      <4>1. CASE g = [sweep[s] EXCEPT !.stage = x]
        BY <3>1, <4>1
      <4>2. CASE g = [sweep[s] EXCEPT !.due = y]
        BY <3>1, <4>2
      <4>3. CASE g = [sweep[s] EXCEPT !.stage = x, !.due = y]
        BY <3>1, <4>3
      <4>4. CASE g = Asleep
        <5>1. DOMAIN Asleep = {"stage", "at", "due", "send"} /\ Asleep.at = 0
          BY DEF Asleep
        <5> QED BY <4>4, <5>1
      <4>5. CASE g = [sweep[s] EXCEPT !.due = x, !.send = y]
        BY <3>1, <4>5
      <4>6. CASE g = [sweep[s] EXCEPT !.send = x]
        BY <3>1, <4>6
      <4> QED BY <3>2, <4>1, <4>2, <4>3, <4>4, <4>5, <4>6
    <3>3. \E x, y, g : /\ Step(s, g)
                       /\ \/ g = [sweep[s] EXCEPT !.stage = x] \/ g = [sweep[s] EXCEPT !.due = y]
                          \/ g = [sweep[s] EXCEPT !.stage = x, !.due = y] \/ g = Asleep
                          \/ g = [sweep[s] EXCEPT !.due = x, !.send = y] \/ g = [sweep[s] EXCEPT !.send = x]
      BY <1>3 DEF FlagOverdue, Due, List, EndSweep, QueueWorkingDeadline, QueueWarning, SendWarning
    <3> QED BY <3>2, <3>3
  <2>2. f.at \in 0..now
    BY <1>0, <2>1 DEF ClockBehind
  <2> QED BY <1>1, <2>1, <2>2
<1>4. ASSUME Crash PROVE ClockBehind'
  <2>1. sweep' = [s \in Sweeps |-> Asleep]
    BY <1>4 DEF Crash
  <2>2. DOMAIN Asleep = {"stage", "at", "due", "send"} /\ Asleep.at = 0
    BY DEF Asleep
  <2> QED BY <1>0, <2>1, <2>2 DEF ClockBehind
<1>5. ASSUME sweep' = sweep PROVE ClockBehind'
  BY <1>0, <1>5 DEF ClockBehind
<1>6. \/ Crash \/ sweep' = sweep \/ \E s \in Sweeps : BeginSweep(s) \/ Sweeping(s)
  BY DEF Next, vars, Life, Register, Reject, Submit, Approve, RequestRevision, Move,
  BeginReopen, Reopen, AbandonReopen, RecordDelivery, incident, Tick,
    SendReminder, ClaimReminder, Rearm, ReadReminder, ReminderSent, ReminderFails, SetReminder,
    SendNotice, ClaimNotice, ReadNotice, NoticeSent, NoticeFails, SetNotice
<1> QED BY <1>2, <1>3, <1>4, <1>5, <1>6 DEF Sweeping

LEMMA FlagStep ==
  ASSUME CalendarExact, FlagInv, MarkTypes', [Next]_vars
  PROVE  FlagInv'
<1>1. now' \in {now, now + 1}
  BY NowGrows DEF FlagInv
<1>2. ClockBehind'
  BY <1>1, ClockStep DEF FlagInv
<1>3. FlagTypes' /\ \A i \in Incidents : FlagRight(i)'
  BY <1>1, OverdueMove, RegisterFlags, MoveFlags, DeliveryFlags, SweepFlags, ElsewhereFlags
<1> QED BY <1>2, <1>3 DEF FlagInv

LEMMA InitFlags ==
  ASSUME Init
  PROVE  FlagInv
<1>1. MarkTypes
  BY HorizonNat DEF Init, MarkTypes, Statuses
<1>2. FlagTypes
  BY HorizonNat DEF Init, FlagTypes
<1>3. ClockBehind
  <2>1. DOMAIN Asleep = {"stage", "at", "due", "send"} /\ Asleep.at = 0
    BY DEF Asleep
  <2> QED BY <2>1 DEF Init, ClockBehind
<1>4. \A i \in Incidents : FlagRight(i)
  BY DEF Init, FlagRight
<1> QED BY <1>1, <1>2, <1>3, <1>4 DEF FlagInv

(* If the calendar functions count right, the overdue flag tells the truth *)
(* whatever sweeps with an old clock, deliveries and reopenings write: of  *)
(* every incident that stands resolved by a delivered answer exactly.      *)
THEOREM OverdueIsExact ==
  ASSUME CalendarExact
  PROVE  Spec => []OverdueExact
<1>1. Init => FlagInv
  BY InitFlags
<1>2. MarkInv => MarkTypes
  BY DEF MarkInv
<1>3. FlagInv /\ MarkTypes' /\ [Next]_vars => FlagInv'
  BY FlagStep
<1>4. FlagInv => OverdueExact
  <2>1. ASSUME FlagInv, NEW i \in Incidents, status[i] # "NONE"
        PROVE  /\ policy[i] = "WORKING" /\ status[i] = "RESOLVED" /\ Delivered(i) => LateAsDelivered(i)
               /\ overdue[i] => IF policy[i] = "LEGACY" THEN DaysEnded(created[i], now) >= Workdays
                                ELSE Worked(created[i], now) >= Budget
    <3>1. created[i] \in 0..Horizon /\ now \in 0..Horizon /\ FlagRight(i)
      BY <2>1 DEF FlagInv, MarkTypes, FlagTypes
    <3>2. deadline[i] = DeadlineOf(i) /\ (overdue[i] => deadline[i] <= now)
      BY <2>1, <3>1 DEF FlagRight
    <3>3. ASSUME policy[i] = "WORKING", status[i] = "RESOLVED", Delivered(i)
          PROVE  LateAsDelivered(i)
      <4>1. /\ delivered[i] <= now
            /\ overdue[i] <=> WorkingTime(deadline[i], delivered[i]) > 0
        BY <3>1, <3>3 DEF FlagRight
      <4>2. delivered[i] \in 0..Horizon
        <5>1. delivered[i] \in 0..Never /\ Never = Horizon + 1 /\ Horizon \in Nat
          BY <2>1, HorizonNat DEF FlagInv, MarkTypes, Never
        <5> QED BY <3>1, <4>1, <5>1
      <4>3. deadline[i] = AddWorking(created[i], Budget)
        BY <3>2, <3>3 DEF DeadlineOf
      <4> QED BY <3>1, <4>1, <4>2, <4>3 DEF CalendarExact, LateAsDelivered
    <3>4. overdue[i] => IF policy[i] = "LEGACY" THEN DaysEnded(created[i], now) >= Workdays
                        ELSE Worked(created[i], now) >= Budget
      BY <2>1, <3>1, <3>2 DEF CalendarExact, DeadlineOf
    <3> QED BY <3>3, <3>4
  <2> QED BY <2>1 DEF OverdueExact
<1> QED BY <1>1, <1>2, <1>3, <1>4, MarkInvariant, PTL DEF Spec

=============================================================================
