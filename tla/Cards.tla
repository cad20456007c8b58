------------------------------- MODULE Cards -------------------------------
(* The cards of one incident in the working chats, and the jobs that keep   *)
(* them true.  The publications and refreshes of                            *)
(* src/max/max-message.service.ts, src/delivery/workflow-outbox.ts and      *)
(* src/delivery/delivery-status.ts.                                         *)
(*                                                                          *)
(* A change of the incident queues, in its own transaction, a publication   *)
(* or a refresh in the lane of a chat.  Lanes run side by side, one job at  *)
(* a time each.  A publication brings the content it was queued with; a     *)
(* refresh reads the incident when it runs and edits the cards one by one.  *)
(* A card may be edited from two lanes, and by a handler that has committed *)
(* its change.  What a card shows is the stage its text and buttons are of. *)
(* A message is on the screen before its id is saved: what is lost between  *)
(* the two leaves a copy nobody knows of.  Who decides what, and the        *)
(* leases of a job, are Workflow and Outbox.                                *)
EXTENDS Naturals, Sequences

CONSTANTS
  Groups,        \* responsible groups, each with its chat
  LongAnswers,   \* versions whose review card is sent in two messages
  MaxVersions,   \* bound: answers
  MaxReturns,    \* bound: returns to distribution
  MaxJobs,       \* bound: jobs a chat has outstanding when a change is made
  MaxExtras      \* bound: claims, takes, copies, corrections, reopenings, failures, crashes

VARIABLES
  watched,       \* the chats looked at: what happens in the others does not matter
  stage, group, round, version,
  revised,       \* Incident.revisionReason is set
  revisions,     \* Incident.revisionCount
  approved,      \* the latest answer is APPROVED
  delivered,     \* the latest answer's deliveredAt is set
  claim,         \* the claim in force, 0: none
  named,         \* Incident.distributionMessageId, sectorMessageId, reviewMessageId
  row,           \* publications, by card: OutboundMessage
  screen,        \* what MAX shows, by card whose message id is saved
  strays,        \* cards of which MAX has a copy whose id was never saved
  lane,          \* jobs outstanding, by chat
  work,          \* the attempt running, by chat
  direct,        \* edits committed handlers have still to make
  opening,       \* a copy whose incident has been read
  reopening,     \* a photograph's replacement whose incident has been read
  crossed,       \* a return came between the check of the card of record and its naming
  extras         \* the bounded events so far; also numbers claims and copies

incident == <<stage, group, round, version, revised, revisions, approved, delivered, claim>>
jobs == <<lane, work>>
asides == <<strays, reopening, crossed>>
vars == <<watched, incident, named, row, screen, jobs, direct, opening, asides, extras>>

None == "none"
NoCard == << >>
Distribution == "distribution chat"
Review == "review chat"
Chats == {Distribution, Review} \cup Groups

ASSUME CardsAssumption ==
  /\ {Distribution, Review, None} \cap Groups = {}
  /\ LongAnswers \subseteq 1..MaxVersions
  /\ {MaxVersions, MaxReturns, MaxJobs, MaxExtras} \subseteq Nat

Working == {"ASSIGNED", "IN_PROGRESS", "REVISION_REQUIRED"}

\* Cards: the dedupe keys of their publications.
Card(kind, n) == <<kind, n>>
KindOf(c) == c[1]
DistributionKinds == {"original", "claim", "notice"}
ReviewKinds == {"review", "review copy"}
PartsOf(v) == IF v \in LongAnswers THEN 2 ELSE 1
Parts(c) == IF KindOf(c) \in ReviewKinds THEN PartsOf(row[c].version) ELSE 1
Original == Card("original", 0)

Row(chat, content) ==
  [chat |-> chat, content |-> content, round |-> round', version |-> version',
   sent |-> 0, state |-> "PENDING"]

Publish(c) == [op |-> "publish", card |-> c]
Staff == [op |-> "staff-refresh"]
Sector == [op |-> "sector-refresh"]
Refresh(active) == [op |-> "distribution-refresh", active |-> active, cards |-> {}]
DeliveryCard(card, v) == [op |-> "delivery-card", card |-> card, version |-> v]

Idle == [pc |-> "idle"]
NoCopy == << >>
NoReopening == << >>

Init ==
  /\ watched \in {{Distribution}, {Review} \cup Groups}
  /\ stage = "DISTRIBUTION" /\ group = None /\ round = 0 /\ version = 0
  /\ revised = FALSE /\ revisions = 0 /\ approved = FALSE /\ delivered = FALSE /\ claim = 0
  /\ named = [distribution |-> NoCard, sector |-> NoCard, review |-> NoCard]
  /\ row = [c \in {Original} |-> [chat |-> Distribution, content |-> "open", round |-> 0,
                                 version |-> 0, sent |-> 0, state |-> "PENDING"]]
  /\ screen = << >>
  /\ lane = [ch \in Chats |-> IF ch \in watched \cap {Distribution} THEN <<Publish(Original)>> ELSE << >>]
  /\ work = [ch \in Chats |-> Idle]
  /\ direct = {} /\ opening = NoCopy /\ extras = 0
  /\ strays = {} /\ reopening = NoReopening /\ crossed = FALSE

-----------------------------------------------------------------------------
(* What a card ought to show: the views a refresh renders. *)

\* refreshDistributionCards: the original, the copy of the claim in force
\* and the notice of the last return stay actionable.
InForce(c) ==
  \/ KindOf(c) = "original"
  \/ KindOf(c) = "claim" /\ c[2] = claim
  \/ KindOf(c) = "notice" /\ c[2] = round
DistributionView(c) == IF stage = "DISTRIBUTION" /\ InForce(c) THEN "open" ELSE "closed"

ReviewView(r) ==
  IF r.version # version THEN "closed"
  ELSE IF stage = "WAITING_REVIEW" THEN "review"
  ELSE IF ~approved THEN "closed"
  ELSE IF delivered THEN "delivered" ELSE "approved"

\* refreshStaffCards: oldSector, and the cards of the assignment.
OldSector(r) == r.chat # group \/ r.round # round
SectorView(c, r) ==
  IF OldSector(r) THEN "returned"
  ELSE IF KindOf(c) # "revision" THEN stage
  ELSE IF stage = "REVISION_REQUIRED" /\ c[2] = version THEN "REVISION_REQUIRED" ELSE "closed"

View(c) ==
  IF KindOf(c) \in DistributionKinds THEN DistributionView(c)
  ELSE IF KindOf(c) \in ReviewKinds THEN ReviewView(row[c])
  ELSE SectorView(c, row[c])

\* currentSectorPublication
CurrentGroup(c) == row[c].chat = group   \* whichever assignment to it
CurrentSector(c) == row[c].chat = group /\ row[c].round = round

\* A row whose last part, the one with the buttons, has been acknowledged.
Known(c) == row[c].sent = Parts(c)
StaffCards == {c \in DOMAIN row : KindOf(c) \notin DistributionKinds /\ Known(c)}

-----------------------------------------------------------------------------
(* Queueing: rows inserted by the transaction that changes the incident. *)

\* Lanes do not wait for one another, and no handler waits for a lane: a
\* chat can be looked at without the jobs of another.
Add(ls, chat, job) == IF chat \in watched THEN [ls EXCEPT ![chat] = Append(@, job)] ELSE ls
Issue(c, r) == row' = [x \in DOMAIN row \cup {c} |-> IF x = c THEN r ELSE row[x]]

\* queueStaffRefresh, queueSectorRefresh, queueDistributionRefresh
StaffRefresh(ls) == Add(ls, Review, Staff)
SectorRefresh(ls) ==
  IF group' = None \/ named'.sector = NoCard THEN StaffRefresh(ls)
  ELSE Add(StaffRefresh(ls), group', Sector)
DistributionRefresh(ls, active) == Add(ls, Distribution, Refresh(active))

\* queueDeliveryStatus
DeliveryStatus(ls) ==
  LET one == SectorRefresh(ls)
      two == IF named.review = NoCard THEN one ELSE Add(one, Review, DeliveryCard("review", version))
  IN  IF named.distribution = NoCard \/ ~delivered' THEN two
      ELSE Add(two, Distribution, DeliveryCard("distribution", version))

\* What was read before this change has been overtaken by it.
Overtaken(w) == IF w.pc = "edit" THEN [w EXCEPT !.old = TRUE] ELSE w
Overtakes == work' = [ch \in Chats |-> Overtaken(work[ch])]
Aged == {[e EXCEPT !.old = TRUE] : e \in direct}

Room == \A ch \in Chats : Len(lane[ch]) <= MaxJobs
\* Claims and reservations are seen in the chats they are made in only.
SeenIn(chat) == chat \in watched
Extra == extras < MaxExtras /\ extras' = extras + 1

-----------------------------------------------------------------------------
(* The changes of an incident and what each queues. *)

\* DistributionQueueService.claim; a copy is issued when asked for.
Claim(show) ==
  /\ Room /\ stage = "DISTRIBUTION" /\ claim = 0 /\ SeenIn(Distribution) /\ Extra
  /\ claim' = extras'
  /\ UNCHANGED <<watched, stage, group, round, version, revised, revisions, approved,
                 delivered, named, screen, opening, asides>>
  /\ LET c == Card("claim", claim') IN
       IF show THEN Issue(c, Row(Distribution, "open")) ELSE UNCHANGED row
  /\ lane' = LET ls == IF show THEN Add(lane, Distribution, Publish(Card("claim", claim'))) ELSE lane
             IN  DistributionRefresh(ls, TRUE)
  /\ Overtakes /\ direct' = Aged

\* DistributionQueueService.release, and sweepNow once the claim has run out.
Unclaim ==
  /\ Room /\ stage = "DISTRIBUTION" /\ claim # 0
  /\ claim' = 0
  /\ lane' = DistributionRefresh(lane, TRUE)
  /\ UNCHANGED <<watched, stage, group, round, version, revised, revisions, approved,
                 delivered, named, row, screen, opening, asides, extras>>
  /\ Overtakes /\ direct' = Aged

\* DistributionService.assign: after the transaction the handler closes the
\* original itself.
Assign(g) ==
  /\ Room /\ stage = "DISTRIBUTION"
  /\ stage' = "ASSIGNED" /\ group' = g /\ claim' = 0
  /\ UNCHANGED <<watched, round, version, revised, revisions, approved, delivered, named,
                 screen, opening, asides, extras>>
  /\ LET c == Card("sector", round) IN
       /\ Issue(c, Row(g, "ASSIGNED"))
       /\ lane' = DistributionRefresh(Add(lane, g, Publish(c)), FALSE)
  /\ Overtakes
  /\ direct' = Aged \cup (IF named.distribution = NoCard THEN {} ELSE
                          {[card |-> Original, content |-> "closed", old |-> FALSE]})

\* A reopening holds the lock the sector's transactions take.
Unlocked == reopening = NoReopening

\* SectorService.takeInWork
TakeInWork ==
  /\ Room /\ Unlocked /\ stage \in Working \ {"IN_PROGRESS"} /\ SeenIn(Review) /\ Extra
  /\ stage' = "IN_PROGRESS"
  /\ UNCHANGED <<watched, group, round, version, revised, revisions, approved, delivered,
                 claim, named, row, screen, opening, asides>>
  /\ lane' = SectorRefresh(lane)
  /\ Overtakes /\ direct' = Aged

\* SectorService.release, and WorkQueueService.sweep of a lapsed reservation.
PutBack ==
  /\ Room /\ Unlocked /\ stage = "IN_PROGRESS"
  /\ stage' = IF revised THEN "REVISION_REQUIRED" ELSE "ASSIGNED"
  /\ UNCHANGED <<watched, group, round, version, revised, revisions, approved, delivered,
                 claim, named, row, screen, opening, asides, extras>>
  /\ lane' = SectorRefresh(lane)
  /\ Overtakes /\ direct' = Aged

\* AnswerService.submit
Submit ==
  /\ Room /\ Unlocked /\ stage \in Working /\ version < MaxVersions
  /\ stage' = "WAITING_REVIEW" /\ version' = version + 1
  /\ approved' = FALSE /\ delivered' = FALSE
  /\ named' = [named EXCEPT !.review = NoCard]
  /\ UNCHANGED <<watched, group, round, revised, revisions, claim, screen, opening, asides, extras>>
  /\ LET c == Card("review", version') IN
       /\ Issue(c, Row(Review, "review"))
       /\ lane' = SectorRefresh(Add(lane, Review, Publish(c)))
  /\ Overtakes /\ direct' = Aged

\* ReviewService.saveCorrection
SaveCorrection ==
  /\ Room /\ stage = "WAITING_REVIEW" /\ version < MaxVersions /\ SeenIn(Review) /\ Extra
  /\ version' = version + 1
  /\ UNCHANGED <<watched, stage, group, round, revised, revisions, approved, delivered,
                 claim, named, screen, opening, asides>>
  /\ LET c == Card("review", version') IN
       /\ Issue(c, Row(Review, "review"))
       /\ lane' = StaffRefresh(Add(lane, Review, Publish(c)))
  /\ Overtakes /\ direct' = Aged

\* queueRevision: a card of that number is published once.
QueueRevision(n) ==
  LET c == Card("revision", n) IN
    IF c \in DOMAIN row THEN UNCHANGED row /\ lane' = SectorRefresh(lane)
    ELSE /\ Issue(c, Row(group, "REVISION_REQUIRED"))
         /\ lane' = SectorRefresh(Add(lane, group, Publish(c)))

\* ReviewService.requestRevision, whose card has the version's number: the
\* handler closes the review card itself, unless it is in several parts.
RequestRevision ==
  /\ Room /\ stage = "WAITING_REVIEW"
  /\ stage' = "REVISION_REQUIRED" /\ revised' = TRUE /\ revisions' = revisions + 1
  /\ UNCHANGED <<watched, group, round, version, approved, delivered, claim, named, screen,
                 opening, asides, extras>>
  /\ QueueRevision(version)
  /\ Overtakes
  /\ direct' = Aged \cup (IF named.review = NoCard \/ Parts(named.review) > 1 THEN {} ELSE
                          {[card |-> named.review, content |-> "closed", old |-> FALSE]})

\* ReviewService.approve
Approve ==
  /\ Room /\ stage = "WAITING_REVIEW"
  /\ stage' = "RESOLVED" /\ approved' = TRUE
  /\ UNCHANGED <<watched, group, round, version, revised, revisions, delivered, claim,
                 named, row, screen, opening, asides, extras>>
  /\ lane' = DeliveryStatus(lane)
  /\ Overtakes /\ direct' = Aged

\* A reopening has forbidden the answer's row.
Superseded == ~Unlocked /\ reopening.failed = "answer"

\* complete() of the answer's delivery, if its row may still be sent; markWorked,
\* when the approving handler saw it delivered.
Delivered(seen) ==
  /\ Room /\ stage = "RESOLVED" /\ ~delivered
  /\ ~Superseded
  /\ delivered' = TRUE
  /\ UNCHANGED <<watched, stage, group, round, version, revised, revisions, approved,
                 claim, named, row, screen, opening, asides, extras>>
  /\ lane' = DeliveryStatus(lane)
  /\ Overtakes
  /\ direct' = Aged \cup (IF ~seen \/ named.distribution = NoCard THEN {} ELSE
                          {[card |-> Original, content |-> "closed", old |-> FALSE]})

\* AnswerService.reopenForPhotoReplacement: the answer or its review card
\* failed on a photograph.  The incident is read, then written by id alone.
BeginReopen(failed) ==
  /\ Unlocked /\ ~delivered
  /\ reopening' = [failed |-> failed, version |-> version, revision |-> revisions + 1]
  /\ \/ failed = "answer" /\ stage = "RESOLVED" /\ Extra
     \/ /\ failed = "review card" /\ stage \in {"WAITING_REVIEW", "RESOLVED"} /\ UNCHANGED extras
        /\ row[Card("review", version)].state = "GIVEN_UP"
  /\ UNCHANGED <<watched, incident, named, row, screen, jobs, direct, opening, strays, crossed>>
Reopen ==
  /\ Room /\ ~Unlocked
  /\ stage' = "REVISION_REQUIRED" /\ revised' = TRUE /\ revisions' = revisions + 1
  /\ approved' = (approved /\ version # reopening.version)
  /\ reopening' = NoReopening
  /\ UNCHANGED <<watched, group, round, version, delivered, claim, named, screen, opening,
                 strays, crossed, extras>>
  /\ QueueRevision(reopening.revision)
  /\ Overtakes /\ direct' = Aged

\* SectorService.returnToDistribution
Crossed(w) == IF w.pc = "checked" THEN [w EXCEPT !.old = TRUE] ELSE Overtaken(w)
ReturnToDistribution ==
  /\ Room /\ Unlocked /\ stage \in Working /\ round < MaxReturns
  /\ stage' = "DISTRIBUTION" /\ group' = None /\ round' = round + 1
  /\ revised' = FALSE /\ claim' = 0
  /\ named' = [named EXCEPT !.sector = NoCard, !.review = NoCard] /\ crossed' = FALSE
  /\ UNCHANGED <<watched, version, revisions, approved, delivered, screen, opening, strays,
                 reopening, extras>>
  /\ LET c == Card("notice", round') IN
       /\ Issue(c, Row(Distribution, "open"))
       /\ lane' = Add(StaffRefresh(DistributionRefresh(lane, TRUE)), Distribution, Publish(c))
  /\ work' = [ch \in Chats |-> Crossed(work[ch])] /\ direct' = Aged

\* The part to come is the one with the buttons.
LastPart(c) == row[c].sent + 1 = Parts(c)

\* DistributionService.reject: the rows of the incident are erased, the jobs
\* not yet done among them; one refresh keeps the ids known of the cards.  A
\* message on its way to MAX arrives; its id is not saved.
Detached(w) ==
  CASE w.pc = "edit" -> [w EXCEPT !.old = TRUE, !.gone = TRUE]
    [] w.pc = "posting" /\ LastPart(w.card) -> [pc |-> "orphaned", card |-> w.card]
    [] w.pc = "withdrawn" -> w
    [] OTHER -> Idle
Closing == [Refresh(TRUE) EXCEPT !.cards = {c \in DOMAIN row : KindOf(c) \in DistributionKinds /\ Known(c)}]
\* Copies at MAX whose id nobody has saved yet.
Loose(chats) ==
  {work[ch].card : ch \in {x \in chats : work[x].pc = "arrived" /\ LastPart(work[x].card)}}
Reject ==
  /\ Room /\ stage = "DISTRIBUTION"
  /\ \A ch \in Chats : work[ch].pc # "checked"    \* a completion holds its row
  /\ stage' = "REJECTED" /\ claim' = 0
  /\ UNCHANGED <<watched, group, round, version, revised, revisions, approved, delivered,
                 named, screen, opening,
                 reopening, crossed, extras>>
  /\ row' = << >> /\ strays' = strays \cup Loose(Chats)
  /\ lane' = [ch \in Chats |-> IF ch \in watched \cap {Distribution} THEN <<Closing>> ELSE << >>]
  /\ work' = [ch \in Chats |-> Detached(work[ch])]
  /\ direct' = Aged \cup (IF named.distribution = NoCard THEN {} ELSE
                          {[card |-> Original, content |-> "closed", old |-> FALSE]})

\* WorkQueueService.open: the incident is read, then the copy is queued.
OpenCopy(kind) ==
  /\ Room /\ opening = NoCopy /\ SeenIn(Review) /\ Extra
  /\ \/ kind = "work copy" /\ stage \in Working
     \/ kind = "review copy" /\ stage = "WAITING_REVIEW"
  /\ opening' = <<Card(kind, extras'),
                  [chat |-> IF kind = "work copy" THEN group ELSE Review,
                   content |-> IF kind = "work copy" THEN stage ELSE "review",
                   round |-> round, version |-> version, sent |-> 0, state |-> "PENDING"]>>
  /\ UNCHANGED <<watched, incident, named, row, screen, jobs, direct, asides>>
QueueCopy ==
  /\ Room /\ opening # NoCopy
  /\ Issue(opening[1], opening[2])
  /\ lane' = Add(lane, opening[2].chat, Publish(opening[1]))
  /\ opening' = NoCopy
  /\ UNCHANGED <<watched, incident, named, screen, work, direct, asides, extras>>

-----------------------------------------------------------------------------
(* Publications: attemptInOrder, deliverLogical, complete. *)

Running(ch, op) == work[ch] = Idle /\ lane[ch] # << >> /\ Head(lane[ch]).op = op
Current(ch) == work[ch].card
Lane(ch, w) == work' = [work EXCEPT ![ch] = w]
Popped(ch) == [lane EXCEPT ![ch] = Tail(@)]

\* Not sent, or not sent further: the check before the job and before each part.
Stale(c) ==
  \/ KindOf(c) = "sector" /\ ~CurrentSector(c)
  \/ /\ KindOf(c) \in ReviewKinds /\ row[c].sent \in 1..(Parts(c) - 1)
     /\ stage # "WAITING_REVIEW" \/ row[c].version # version

Settle(c, state) == row' = [row EXCEPT ![c].state = state]

\* FAILED for good; another transaction retires the parts there are.
Withdraw(ch, c) ==
  /\ Settle(c, "STALE") /\ lane' = Popped(ch)
  /\ Lane(ch, IF row[c].sent > 0 THEN [pc |-> "withdrawn", card |-> c] ELSE Idle)
  /\ UNCHANGED <<watched, incident, named, screen, direct, opening, asides, extras>>
Retire(ch) ==
  /\ work[ch].pc = "withdrawn"
  /\ lane' = StaffRefresh(lane) /\ Lane(ch, Idle)
  /\ UNCHANGED <<watched, incident, named, row, screen, direct, opening, asides, extras>>

Proceed(ch, c) ==
  /\ Lane(ch, [pc |-> IF Known(c) THEN "sent" ELSE "posting", card |-> c])
  /\ UNCHANGED <<watched, incident, named, row, screen, lane, direct, opening, asides, extras>>

Start(ch) ==
  /\ Running(ch, "publish")
  /\ LET c == Head(lane[ch]).card IN IF Stale(c) THEN Withdraw(ch, c) ELSE Proceed(ch, c)

\* The request is made, and the part is on the screen ...
Post(ch) ==
  /\ work[ch].pc = "posting"
  /\ Lane(ch, [pc |-> "arrived", card |-> Current(ch)])
  /\ UNCHANGED <<watched, incident, named, row, screen, lane, direct, opening, asides, extras>>

\* ... and its id is saved.  The last part has the buttons the card was
\* queued with.
Save(ch) ==
  /\ work[ch].pc = "arrived"
  /\ LET c == Current(ch) IN
       /\ row' = [row EXCEPT ![c].sent = @ + 1]
       /\ screen' = IF ~LastPart(c) THEN screen ELSE
            [x \in DOMAIN screen \cup {c} |->
               IF x = c THEN [content |-> row[c].content, late |-> FALSE] ELSE screen[x]]
       /\ Lane(ch, [pc |-> IF LastPart(c) THEN "sent" ELSE "next", card |-> c])
  /\ UNCHANGED <<watched, incident, named, lane, direct, opening, asides, extras>>

\* A request under way when the incident was rejected.
Orphan(ch) ==
  /\ work[ch].pc = "orphaned"
  /\ strays' = strays \cup {Current(ch)} /\ Lane(ch, Idle)
  /\ UNCHANGED <<watched, incident, named, row, screen, lane, direct, opening, reopening,
                 crossed, extras>>

NextPart(ch) ==
  /\ work[ch].pc = "next"
  /\ LET c == Current(ch) IN IF Stale(c) THEN Withdraw(ch, c) ELSE Proceed(ch, c)

\* complete() reads the incident for a sector card; what it then writes asks
\* only that no card is named yet.
Check(ch) ==
  /\ work[ch].pc = "sent"
  /\ LET c == Current(ch) IN
       /\ KindOf(c) = "sector" /\ CurrentSector(c)
       /\ Lane(ch, [pc |-> "checked", card |-> c, old |-> FALSE])
  /\ UNCHANGED <<watched, incident, named, row, screen, lane, direct, opening, asides, extras>>

\* What complete() records of the card, and the refresh a publication that
\* took its time needs.
Name(c) ==
  CASE KindOf(c) = "review" ->
         named' = IF row[c].version = version THEN [named EXCEPT !.review = c] ELSE named
    [] KindOf(c) = "original" ->
         named' = IF named.distribution = NoCard THEN [named EXCEPT !.distribution = c] ELSE named
    [] OTHER -> UNCHANGED named
NameSector(ch) ==
  IF named.sector # NoCard THEN UNCHANGED <<named, crossed>>
  ELSE named' = [named EXCEPT !.sector = Current(ch)] /\ crossed' = work[ch].old

FollowUpNone(c, ls) == ls
FollowUp(c, ls) ==
  CASE KindOf(c) \in {"claim", "notice"} -> DistributionRefresh(ls, TRUE)
    [] KindOf(c) = "original" -> IF named' = named THEN ls ELSE DistributionRefresh(ls, TRUE)
    [] KindOf(c) = "sector" -> IF named' = named THEN StaffRefresh(ls) ELSE SectorRefresh(StaffRefresh(ls))
    [] OTHER -> StaffRefresh(ls)

Complete(ch) ==
  /\ work[ch].pc \in {"sent", "checked"}
  /\ LET c == Current(ch) IN
       /\ UNCHANGED <<watched, incident, screen, direct, opening, strays, reopening, extras>>
       /\ IF work[ch].pc = "checked" THEN NameSector(ch)
          ELSE ~(KindOf(c) = "sector" /\ CurrentSector(c)) /\ Name(c) /\ UNCHANGED crossed
       /\ Settle(c, "SENT")
       /\ lane' = FollowUp(c, Popped(ch))
       /\ Lane(ch, Idle)

-----------------------------------------------------------------------------
(* Refreshes. *)

Plan(cards) == {[card |-> c, content |-> View(c)] : c \in cards}

\* refreshStaffCards
StaffPlan == Plan(StaffCards)

\* refreshSectorCard
SectorPlan ==
  IF named.sector = NoCard \/ group = None THEN {} ELSE {[card |-> named.sector, content |-> stage]}

\* refreshDistributionCards
DistributionCards(job) ==
  {c \in DOMAIN row : KindOf(c) \in {"claim", "notice"} /\ Known(c)}
    \cup ({named.distribution} \ {NoCard}) \cup job.cards
DistributionPlan(job) ==
  {e \in Plan(DistributionCards(job)) : e.content = "open" => job.active}

\* refreshDeliveryCard
DeliveryPlan(job) ==
  IF job.version # version THEN {}
  ELSE IF job.card = "distribution"
    THEN IF delivered THEN DistributionPlan(Refresh(FALSE)) ELSE {}
    ELSE IF named.review = NoCard THEN {} ELSE StaffPlan

PlanOf(job) ==
  CASE job.op = "staff-refresh" -> StaffPlan
    [] job.op = "sector-refresh" -> SectorPlan
    [] job.op = "distribution-refresh" -> DistributionPlan(job)
    [] job.op = "delivery-card" -> DeliveryPlan(job)

Refreshes == {"staff-refresh", "sector-refresh", "distribution-refresh", "delivery-card"}

Read(ch) ==
  /\ \E op \in Refreshes : Running(ch, op)
  /\ Lane(ch, [pc |-> "edit", todo |-> PlanOf(Head(lane[ch])), old |-> FALSE, gone |-> FALSE])
  /\ UNCHANGED <<watched, incident, named, row, screen, lane, direct, opening, asides, extras>>

\* editCardWithKeyboard: a card that already shows it is left alone, which is
\* no different from being edited at the moment it was looked at.
Edit(ch) ==
  /\ work[ch].pc = "edit" /\ work[ch].todo # {}
  /\ LET e == CHOOSE x \in work[ch].todo : TRUE   \* in the order of the query
         late == work[ch].old /\ ch \in Groups
     IN  /\ screen' = [screen EXCEPT ![e.card] =
              [content |-> e.content, late |-> late /\ (@.content # e.content \/ @.late)]]
         /\ Lane(ch, [work[ch] EXCEPT !.todo = @ \ {e}])
  /\ UNCHANGED <<watched, incident, named, row, lane, direct, opening, asides, extras>>

Finish(ch) ==
  /\ work[ch].pc = "edit" /\ work[ch].todo = {}
  /\ lane' = IF work[ch].gone THEN lane ELSE Popped(ch)
  /\ Lane(ch, Idle)
  /\ UNCHANGED <<watched, incident, named, row, screen, direct, opening, asides, extras>>

\* finalizeCard, finalizeStaffCard: once, and a failure is only logged.
DirectEdit(e) ==
  /\ e \in direct /\ direct' = direct \ {e}
  /\ screen' = [screen EXCEPT ![e.card] = [content |-> e.content, late |-> e.old]]
  /\ UNCHANGED <<watched, incident, named, row, jobs, opening, asides, extras>>
DirectFails(e) ==
  /\ e \in direct /\ direct' = direct \ {e} /\ Extra
  /\ UNCHANGED <<watched, incident, named, row, screen, jobs, opening, asides>>

-----------------------------------------------------------------------------
(* An attempt that fails is made again, twelve times; a restart ends        *)
(* whatever was running.                                                    *)

\* What a lost attempt leaves behind: a copy without an id, or a card that
\* was to be retired.
Astray(cards) ==
  [c \in DOMAIN screen |-> IF c \in cards THEN [screen[c] EXCEPT !.late = TRUE] ELSE screen[c]]
Unretired(chats) == {work[ch].card : ch \in {x \in chats : work[x].pc = "withdrawn"}}
Lose(chats) ==
  /\ strays' = strays \cup Loose(chats)
  /\ screen' = Astray(Unretired(chats))

Fail(ch) ==
  /\ work[ch] # Idle /\ Extra /\ Lane(ch, Idle)
  /\ Lose({ch})
  /\ UNCHANGED <<watched, incident, named, row, lane, direct, opening, reopening, crossed>>

Crash ==
  /\ Extra
  /\ work' = [ch \in Chats |-> Idle] /\ direct' = {} /\ opening' = NoCopy /\ reopening' = NoReopening
  /\ Lose(Chats)
  /\ UNCHANGED <<watched, incident, named, row, lane, crossed>>

Publishing == {"posting", "arrived", "next", "sent", "checked"}

\* FAILED after twelve attempts, or on a photograph MAX no longer has: no
\* refresh follows.
GiveUpCard(ch) ==
  /\ work[ch].pc \in Publishing /\ Extra
  /\ Settle(Current(ch), "GIVEN_UP")
  /\ screen' = Astray({Current(ch)}) /\ strays' = strays \cup Loose({ch})
  /\ lane' = Popped(ch) /\ Lane(ch, Idle)
  /\ UNCHANGED <<watched, incident, named, direct, opening, reopening, crossed>>

\* queuePhotoRecovery: the card goes out again without its photograph.
Recover(ch) ==
  /\ work[ch].pc = "posting" /\ KindOf(Current(ch)) \in {"original", "sector"} /\ Extra
  /\ lane' = [lane EXCEPT ![ch] = Append(Tail(@), Head(@))] /\ Lane(ch, Idle)
  /\ UNCHANGED <<watched, incident, named, row, screen, direct, opening, asides>>

\* A refresh FAILED after twelve attempts: the cards it had still to put
\* right stay as they are.
Missed(ch) ==
  LET right == {e \in work[ch].todo : e.content = View(e.card)}
  IN  IF ch \in Groups THEN {} ELSE {e.card : e \in {x \in right : screen[x.card].content # x.content}}
GiveUpRefresh(ch) ==
  /\ work[ch].pc = "edit" /\ ~work[ch].gone /\ Extra
  /\ screen' = Astray(Missed(ch))
  /\ lane' = Popped(ch) /\ Lane(ch, Idle)
  /\ UNCHANGED <<watched, incident, named, row, direct, opening, asides>>

DecideDistribution ==
  \/ \E show \in BOOLEAN : Claim(show)
  \/ Unclaim
  \/ \E g \in Groups : Assign(g)
  \/ Reject
DecideSector == TakeInWork \/ PutBack \/ Submit \/ ReturnToDistribution
DecideReview ==
  \/ SaveCorrection \/ RequestRevision \/ Approve
  \/ \E seen \in BOOLEAN : Delivered(seen)
DecideReopening == (\E failed \in {"answer", "review card"} : BeginReopen(failed)) \/ Reopen
Copy == (\E kind \in {"work copy", "review copy"} : OpenCopy(kind)) \/ QueueCopy
Deliver(ch) ==
  \/ Start(ch) \/ Post(ch) \/ Save(ch) \/ Orphan(ch) \/ NextPart(ch)
  \/ Check(ch) \/ Complete(ch) \/ Retire(ch)
Update(ch) == Read(ch) \/ Edit(ch) \/ Finish(ch)
Trouble(ch) == Fail(ch) \/ GiveUpCard(ch) \/ Recover(ch) \/ GiveUpRefresh(ch)
Aside == \E e \in direct : DirectEdit(e) \/ DirectFails(e)

Next ==
  \/ DecideDistribution \/ DecideSector \/ DecideReview \/ DecideReopening \/ Copy
  \/ \E ch \in watched : Deliver(ch) \/ Update(ch) \/ Trouble(ch)
  \/ Aside \/ Crash

Spec == Init /\ [][Next]_vars

-----------------------------------------------------------------------------
(* Properties. *)

Done(ch) == work[ch] = Idle /\ lane[ch] = << >>
Quiet == (\A ch \in Chats : Done(ch)) /\ direct = {}

\* A job of the lane has yet to bring the card to what it ought to show: it
\* has not begun, or the edit it prepared is still the right one.
Ahead(c, ch, Serves(_)) ==
  \E n \in 1..Len(lane[ch]) :
    /\ Serves(lane[ch][n])
    /\ n > 1 \/ work[ch].pc # "edit" \/ work[ch].gone
         \/ [card |-> c, content |-> View(c)] \in work[ch].todo

StaffServes(job) == job.op = "staff-refresh"
Closes(job) == job.op = "distribution-refresh"
Opens(job) == Closes(job) /\ job.active

\* The card's own publication is not over: its end queues a refresh.
Unfinished(c) == \E ch \in Chats : \E n \in 1..Len(lane[ch]) : lane[ch][n] = Publish(c)

Retiring(c) == \E ch \in Chats : work[ch] = [pc |-> "withdrawn", card |-> c]

Owed(c) ==
  \/ Unfinished(c)
  \/ Retiring(c)
  \/ KindOf(c) \notin DistributionKinds /\ Ahead(c, Review, StaffServes)
  \/ KindOf(c) \in DistributionKinds /\
       IF View(c) = "open" THEN Ahead(c, Distribution, Opens) ELSE Ahead(c, Distribution, Closes)

\* Every card on the screens of the chats shows the incident as it is, or a
\* refresh that will put it right is on its way, however publications,
\* refreshes, failures and changes overlap.  Excepted are cards the code loses:
\* `late`, last edited outside the lane that refreshes them from what a change
\* has overtaken, or whose publication, retirement or refresh was given up or
\* lost with a restart; the card named after its assignment had ended; the
\* cards of an assignment once the incident is rejected; and strays.
CardsSettle ==
  \A c \in DOMAIN screen :
    \/ stage = "REJECTED" /\ KindOf(c) \notin DistributionKinds
    \/ screen[c].content = View(c)
    \/ screen[c].late
    \/ crossed /\ c = named.sector
    \/ Owed(c)

\* While the incident is with a group, the card the bot replies to and edits
\* is the card of this assignment, or that card is still to be published, or
\* its publication was given up: a late publication of an earlier assignment
\* does not take its place, and the card of the present one is never
\* withdrawn.  Excepted is the one gap of complete(): a return that comes
\* between its check and its write.
CardOfAssignment ==
  group \in watched /\ ~crossed =>
    LET c == Card("sector", round) IN
      IF named.sector = NoCard THEN Unfinished(c) \/ row[c].state = "GIVEN_UP"
      ELSE named.sector = c /\ row[c].chat = group

\* docs/delivery-reliability.md: a card whose assignment changed while it was
\* being sent does not become the card of the new one.
NotOfTheNewAssignment ==
  group # None /\ named.sector # NoCard => named.sector[2] = round

\* docs/delivery-reliability.md: what MAX confirmed is kept and brought to what
\* the card ought to show, although the incident changed during the request.
\* Of an instance in which no answer of MAX is lost.
ArrivalsAreKept == strays = {}

\* README.md: old cards and late deliveries do not bring old buttons back.
OldCardsStayClosed ==
  Quiet => \A c \in DOMAIN screen :
             KindOf(c) = "sector" /\ c[2] < round => screen[c].content \notin Working
=============================================================================
