# Verification of the incident-management bot

The program is a MAX-messenger bot with a PostgreSQL database: residents file
incidents, employees distribute, answer and review them, and the bot delivers
the result.  It runs as one Node.js process; its concurrency is the event loop
(any `await` may be followed by another handler), several timers, and, in a
deployment overlap, a second process on the same database.  Almost every rule
is kept by compare-and-set updates and by advisory or row locks, and almost
every failure is answered by a later sweep.  That is what this project is about.

Paths below are relative to the application sources (`src/src`).

## The system

| Component | State it keeps | Operations | What makes it correct |
|---|---|---|---|
| Durable inbox (`server/update-dispatcher.ts`) | `InboundUpdate` rows; in memory the drain, its tasks, the settlements map, the reservation chains | `reserve`, `start`, `kick`/`drain`, `processClaimed`, `settleFailures`, `stop`, `pauseProcessing`, purge | an accepted update is handled at most once and eventually settled, in order within a user; personal data is gone from settled rows |
| Ingress and life cycle (`server/webhook.server.ts`, `server/polling.runner.ts`, `server/shutdown.ts`, `maintenance/runtime-maintenance.ts`, `index.ts`) | the polling marker, the shutdown flag | webhook POST, poll, shutdown, maintenance pause | MAX gets 200 only for a stored update; nothing runs during maintenance; shutdown waits for what runs |
| Durable outbox (`max/max-message.service.ts`, `delivery/workflow-outbox.ts`) | `OutboundMessage` rows with lease, attempts and confirmed parts; in memory the active targets and the drain | `enqueue`, `attempt`, `deliverLogical`, `complete`, `retryFailedAnswer`, `drain`, `wake` | per-recipient order; a confirmed part is never sent twice; a lost lease writes nothing; every job ends SENT, FAILED or CANCELLED |
| Answer workflow (`incidents/*`, `answers/*`, `review/*`) | `Incident.status`, `IncidentAnswer` versions and flags, history | create, submit, approve, request revision, save correction, resend, rate, reopen | only allowed transitions; one current answer; an obsolete answer is never delivered as current |
| Distribution and sector (`distribution/*`, `sector/*`) | claims with lease, assigned group, assignment cycles | claim, release, sweep, change topic, assign, reject, take, return | one owner at a time; only the owner of a live claim decides |
| Work queues (`work-queues/*`, `actions/*`) | leases, private workspaces, action guard rows | claim, renew, release, sweep, begin/finish action | an expired lease confers nothing; an action runs once |
| Delivery follow-up (`delivery/*`) | status notices, alerts, problem records | queue status, alert, retry | a notice matches the state it reports |
| SLA (`sla/*`) | deadlines, assignment cycles, the overdue flag, reminder marks | sweep, queue a notice or reminder, record delivery | the flag tells the truth; each mark is set once and keeps its notice (nothing starts a pause of older incidents any more) |
| Retention, files, cleanup (`retention/*`, `maintenance/*`) | the deletion journal, the due jobs | plan, delete, journal files, run cleanup | a file is deleted only after its last reference; a crash loses no file |
| Drafts and screens (`bot/draft-screen*.ts`, `sessions/*`) | session rows with tokens, screen identity | edit draft, deliver screen, recover | input binds to the screen it was typed on; a newer screen is not overwritten |
| Staff dialogues (`bot/callbacks/*`, `bot/handlers/*`, `work-queues/private-workspace.ts`) | sessions per employee and chat, the live distribution screen, private work items | open, fill, confirm, cancel, take, resume | a press does what its card showed; a decision fits what the card was about |
| Cards (`delivery/workflow-outbox.ts`, `max/max-message.service.ts`) | the publications of an incident and the message ids it names | publish, refresh, close | every card in a chat is true or about to be corrected |
| MAX client (`max/max-client.ts`, `max/api-rate-gate.ts`, `max/pinned-panel.service.ts`) | rate windows, panel identity | call with retry, gate, pin | at most the allowed rate; a panel is not duplicated |
| Everything else | catalogues, settings, wording | | not about ordering or failure |

Interactions: the webhook reserves in the inbox and kicks it; the inbox calls
the bot handlers (`max.dispatch`), which call the workflow services; those
commit business changes together with outbox rows and then `wake()` the
outbox; the outbox sends through the MAX client and, in `complete`, writes back
into the incident (delivery time, card identity).  Maintenance pauses the inbox
and stops the workers; shutdown stops ingress first, messages last.

Hard behaviour: crashes at any `await`; database calls whose acknowledgement is
lost; MAX calls whose answer is lost; redelivery by MAX; overlapping sweeps and
passes over shared maps; leases that run out while their holder still works;
state read before an `await` and used after it.

## Plan

Done, in this order:

1. `Inbox` with the abstract `Mailbox` it implements, and its proofs.
2. `Outbox`: claims and leases of several workers, per-recipient order,
   multi-part progress, completion; the abstract `Delivery`; proofs.
3. `Workflow`: incident status, answer versions, claims and reservations,
   assignment cycles; proofs of the life cycle.
4. `Files` (storage, references, retention, the fence) and `Upkeep` (the manual
   cleanup on top of it).
5. `Sla`: the calendars, the sweeps, their marks and notices.
6. `Resident`: the draft of a message, its screens and their delivery.
7. `Staff` (the employees' dialogues in the chats) and `Workspace` (the private
   dialogue on top of it).
8. `Cards`: publications and refreshes of an incident's cards.

`Upkeep` extends `Files` and `Workspace` extends `Staff`: the larger module
composes the smaller one's actions with its own.  `Staff` leans on `Inbox`
(`LaneSerial`: the updates of one user are handled one after another) and on
`Workflow` (which has the transactions in full); `Cards` leans on `Outbox` for
the attempts of a job.  These are stated where they are used.

Every component has its proofs in a module of its own (`InboxProofs` to
`CardsProofs`; `UpkeepProofs` covers `Files` too, `StaffProofs` covers
`Workspace`).  Left: what the prover cannot do, at the end of this file.  Not
planned: the rate gate and panels, the polling marker, pure text functions.

## Inbox

`Inbox.tla` models `UpdateDispatcher` whole, with its callers.  One variable is
the database table (`rows`); `chain`, `drain`, `task`, `held` and `sweep` are
process memory (`reservations`, `drainPromise`, the frames of `processClaimed`,
`settlements`, the frames of `settleFailures`) and vanish in a `Crash`.  One
action is the code between two `await`s.  `Claim` folds the eligibility read
and the claiming update together: within one process nothing can touch the row
between them.  `Eligible` is evaluated in the claim again because the drain
selected earlier.

A database call may fail (`Fault`) after or before it took effect: every
`...Uncertain` or `...Fails` action offers both.  What a fault cannot do in the
model is take effect later than the next call on the same row.

`Legacy` is the old deduplication table.  `Contact` are the updates whose
payload carries a telephone number; `kept` says whether the row still has it.
`due` abstracts `nextAttemptAt`; `aged` remembers purged keys, and MAX is
assumed not to redeliver an update thirty days old.

`Mailbox.tla` is the promise: one waiting line per user, entered at the end, of
which only the first is given out, once.

| Run | Instance | Shows |
|---|---|---|
| `inbox` | two updates of one user, one with a phone number; three deliveries, three faults, one crash, one stop or pause, the purge; two slots; fairness | at most once; in arrival order; at most three claims; no phone number in a settled row; everything is settled; `Inbox` implements `Mailbox` |

Bounds: order is a matter of two updates in a lane, and lanes share only the
slots and the map of settlements; the proofs are for any number of both.  Two
faults spend two claims and a third loses the settlement of the last.  Five
locks exceed the number that can be named at once.

Fairness (`Fairness`): the event loop runs what is ready, timers fire, handlers
return because each of their calls has a timeout, the supervisor restarts a
dead process.  Nothing is assumed of MAX, of faults, crashes or stops.

### Findings

* A stranded claim.  `settleFailures` (263-285) is run by each failed task and by
  the drain over one map.  `settlements.delete(id)` removes whatever the key
  holds when the pass resumes.  A slow pass can thus delete the settlement of a
  later claim of the same row; the row stays PROCESSING and blocks its user
  until a restart.  The comment at 267 promises the next sweep retries it.  It
  takes two users and four failing calls: TLC shows `NoStrandedClaim` violated
  with `Updates <- PairUpdates`, `Lane <- PairLane` and `MaxFaults = 4`.
  `EventuallySettled` excepts the updates of such a user.

### Proved

`InboxProofs.tla`, for every number of updates, users and locks and every
bound, from `ConstantsAssumption` alone.  `SafetyInv` is the inductive
invariant.  `AtMostOnce` is not inductive: what matters is that a row which may
still be claimed never reached the handlers (`RetryableFresh`), which in turn
needs that a lock whose task may still start work is not named by any
settlement or pass (`LockUnsettled`).  `LaneSerial` and `InLaneOrder` need that
a claimed row is the first open row of its lane (`ClaimedFirst`, `Numbered`)
and stays claimed while its handler runs (`BusinessOwns`).  To keep the case
analysis readable, `RowMove` and `MemoryMove` first reduce all actions to a few
forms a step can take, and each part of the invariant is proved for the forms.

| Theorem | States |
|---|---|
| `TypeCorrect` | `TypeOK` always |
| `Safety` | `SafetyInv` always |
| `NeverReplayed` | `AtMostOnce` always |
| `OnePerLane` | `LaneSerial` always |
| `InOrder` | `InLaneOrder` |
| `InboxImplementsMailbox` | `ImplementsMailbox` |
| `RowInvariant` | `RowInv` always |
| `KeepsArrivalOrder` | `ArrivalOrder` always |
| `ClaimsBounded` | `ClaimBudget` always |
| `ContactsScrubbed` | `ContactScrubbed` always |

`RowInv` is a second inductive invariant on top of `SafetyInv`.  The order of
arrival is decided before there is a row: the calls that wait in a `chain` are
in the order of their arrival and later than every row of their user
(`WaitingOrder`), so an insert cannot fall behind.  A row that waits always has
a claim left (`ClaimsLeft`), because the last attempt settles it.  And a phone
number goes with whatever settles its row, which holds of the map of settlements
and of the private copy of every pass over it (`WillScrub`), since a slow pass
may be the one that writes.  The proof distinguishes what a step does to a row
(`Stays`, `Claims`, `Settles`, `Vanishes`, `Enters`) and to a chain.

Only model-checked: liveness, which the prover cannot do.

## Outbox

`Outbox.tla` models what `MaxMessageService.attempt` does with the
`OutboundMessage` table, for any number of workers.  A worker is one lane of a
process, so the module covers the lanes of one process and the two processes of
a deployment overlap alike.  `rows` is the table (`lock` is `lockedAt`, `parts`
the length of `deliveryProgress.mids`, `due` abstracts `nextAttemptAt`, `live`
says that the 120 s lease has not run out); `att` is the frame of an `attempt`:
what it read (`attempts`, `lock`, `parts`) and where it stands.  `valid`, `held`
and `delivered` are the business state the attempt consults and writes:
the answer is current, the rating or the working hours are awaited,
`IncidentAnswer.deliveredAt`.  `got`, `tried`, `late`, `inflight` are history.

| Action | Code |
|---|---|
| `Insert`, `Commit` | the INSERT draws `sequence`; the row is visible at the commit of its transaction |
| `Claim`, `ClaimLost` | the transaction under the advisory lock: `Blocks` is `predecessor`, `Expired` the reclaim |
| `Read`, `Judge` | the read-back (527) and the checks before the first request, one kind of message at a time |
| `Unguard` | the two updates that name only the id: a stale card (539), a held invitation (603) |
| `Check`, `Send`, `Refuse`, `Save` | `beforeImmediateSend`, one request, the compare-and-set of the progress that renews the lease |
| `Complete` | `complete`: SENT and the delivery time in one transaction |
| `End` | the catch block: FAILED, PENDING with backoff, DEFERRED or CANCELLED |
| `...Fails`, `...Lost`, `Crash`, `Lapse`, `Tick` | a call that fails before or after its effect, a worker that dies, a lease that runs out, a backoff that ends |
| `Obsolete`, `Clock`, `Resend`, `Rate` | a new answer version or assignment, working hours, `/resend`, the rating |

The five kinds stand for the rules a message can be under.  `lockedAt` stamps
are only compared for equality, so `Now` gives a row the least stamp nobody
remembers for it; this keeps the states finite without a bound on time.  The
retry inside the MAX client is in `SendLost` (the check runs again before it).

`Delivery.tla` is the promise: a message is queued, its parts reach the
recipient in order, it is SENT only when all have.  `Disturb` is what the
promise must concede to the two kinds with unfenced updates.

| Run | Instance (messages to one recipient) | Shows |
|---|---|---|
| `outbox_answers` | a two-part answer and a card refresh in either order, two workers; one fault or crash, one lapse, one resend | saved means received, the delivery time agrees with the row, obsolete answers stop, duplicates are accounted for, nothing overtakes, settled rows stay; `Outbox` implements `Delivery` |
| `outbox_live` | an invitation before a sector card, or a deadline notice before an invitation, one worker; one fault or crash; fairness | every message ends SENT, FAILED or CANCELLED; a notice may wait for working hours, an invitation for the rating |

Bounds: all rules relate two messages of one recipient, and other recipients
share nothing but the sequence.  `Orders` names the sequences in which messages
may be queued.  Two workers are an owner and an intruder; without lapses there
is no intruder, so the live run needs one.  Two attempts of
`OUTBOX_MAX_ATTEMPTS` are a retry and a last one.  One lapse already gives a
stale owner, and one fault a lost acknowledgement.

Fairness: database calls return, every MAX call has a timeout (so a worker's
step happens), the five-second sweep finds what is due (strongly fair, because
an earlier deadline notice may be put off for hours again and again), a backoff
and an abandoned lease run out.  MAX may refuse for ever, which is why the property is
"settled" and not "sent".

### Findings

* Two owners.  Saving a part renews a lease that has run out without looking at
  the recipient again (342); meanwhile another message to the recipient may have
  been claimed.  The comment at 492 says the lease owns the recipient.  TLC shows
  `OwnsRecipient` violated with two plain messages and one lapse.
* A sent card fails.  The unfenced update of a stale card (539) turns a SENT row
  into FAILED; `docs/delivery-reliability.md:12` has cards fail before they are
  sent.  TLC shows `CardSentStays` violated with a card and one lapse.
* A held invitation in the way.  The hold of an unrated invitation gives back
  one attempt (601).  If a worker died with an earlier claim the count stays
  above zero, so the predecessor test (497-502) keeps the recipient's later
  messages waiting until the resident rates, which may be never.  The comment at
  1143 says a business hold must let later ready messages pass.  Without
  `Behind` in `EventuallySettled` the live run shows it.

### Proved

`OutboxProofs.tla`, for every set of messages, recipients, workers and stamps,
every number of parts and every bound, from `ConstantsAssumption` alone.

| Theorem | States |
|---|---|
| `TypeCorrect` | `TypeOK` always |
| `SavedMeansReceived` | `SavedReceived` always |
| `DeliveredTogether` | `DeliveredHonest` always |
| `Ordered` | `NoOvertake` always |
| `ObsoleteStop` | `ObsoleteStops` always |
| `CopiesAccounted` | `DuplicatesAccounted` always |
| `SettledStays` | `SettledFinal` |
| `OutboxImplementsDelivery` | `ImplementsDelivery` |

A step changes at most one row and at most one frame; `RowMoves` and `AttMoves`
reduce all actions to a dozen forms (`Born`, `Taken`, `Progress`, `Finished`,
...), and each invariant is proved for the forms.  `ReceivedInv` adds to
`SavedReceived` where a frame can be (`Placed`): what it believes to be saved
was received, and it completes only when all parts were.  `BacklogInv` gives
`NoOvertake`: an earlier message that was tried stays in the way until it is
over, and `Late` pairs are exactly those whose order arose afterwards.
`UnderWayInv` says that `inflight` is the number of frames at `send` or more, so
none can be added after `Obsolete`.  The refinement also needs that only
deadlines are cancelled (`CancelInv`).

`DuplicatesAccounted` needs an account for every part (`CopiesInv`): the copies
MAX has received, the workers that may still send one (`Senders`) and the one a
new claim would begin (`Owed`) are together at most one more than what went
wrong.  A worker leaves the account only by sending, or by handing its share
back to the row; a claim takes over what the row owed; a lost call, a crash or a
lease that lapses under a worker may leave a second share behind, and is what
pays for it.  A row that is being sent under a live lease owes nothing as long as
a worker will find itself its owner (`Covers`).  This rests on two facts: what a
worker knows of the saved parts is exact while it owns the row and never ahead of
it (`KnowsInv`), and a lease never gets a stamp that a worker still remembers
(`LockMove`), so that ownership once lost does not come back.

Only model-checked: the liveness property.  `AttemptBound`, `OwnsRecipient` and `CardSentStays`
are stated for the reader; no run checks them.

Not modelled: the SLA reminders with the status skip of their own, the legacy
signature upgrade (`prepareRequesterSignature`), a saved plan that no longer
matches, the superseded notices, the purge of old SENT rows.  Card and panel
refreshes are `plain` messages with no parts: their edits are module `Cards`,
the staging of their files module `Files`.

## Workflow

`Workflow.tla` models the life of incidents: `IncidentService.create`, the
distribution queue, the sector, `AnswerService`, `ReviewService`, the work
queues and the assignment cycles of the working-hours policy.

| State | Code |
|---|---|
| `status`, `group`, `responder`, `rework` | `Incident.status`, `assignedGroupId`, `currentResponderId`, whether `revisionReason` is set |
| `round` | the number of REDISTRIBUTION_REQUESTED entries; `submit` compares the last one (159) |
| `cycle` | the last `IncidentAssignmentCycle` |
| `claim`, `lease`, `review` | `distributionClaimedBy/Until`, the `sector-queue` and `review-queue` rows of `ActionLock`; `term` stands for `lockedUntil`, which is compared for equality, `live` says it is in the future |
| `draft` | the session of an unsaved correction, bound to a version and a term |
| `answers` | `IncidentAnswer` versions, with the state of the outbox rows of their review card and of the message to the resident |
| `frame` | what an employee's handler has read before its transaction |
| `swept` | the expired reservation the sweep has read |
| `torn` | history: incidents on which a reopening was overtaken |

An action is a transaction: transactions on one advisory lock are serialized,
and the status changes that share no lock are guarded updates of the incident
row.  Where the code reads first and writes later the read is an action:
`BeginSubmit` (before the files are stored), `BeginDecision`, `SweepRead`.
`reopenForPhotoReplacement` reads inside its transaction, but holds a lock that
approval and delivery do not take and writes by id; so it is `BeginReopen` and
`Reopen`, and in between `AnswerLockFree` keeps the sector's transactions out,
and nothing else.  `Abandon` is any refusal, exception or crash in between.

`DropReviewer` is `queueStaffRefresh`: the review reservation and the correction
go when the incident is not in review.  Nearly every transaction ends with it.
A reservation that commits at the same moment as a reopening escapes it, which
is the second alternative of `Reopen`; `StaffRefresh` is the later refresh by
the outbox, here possible at any time.

Left out: `assertNavigationClaim` and the token of the rejection draft, which
only make the guards of `Assign` and `Reject` stronger; rights and chats;
`activeClarificationId`, which no code sets any more; incidents under the legacy
policy, which have no cycle and are otherwise the same.

| Run | Instance | Shows |
|---|---|---|
| `workflow` | one incident, two employees, one group with review and one without; two answers, one return, one claim, two sector reservations, one review reservation | work has a holder; nothing goes out unreviewed; an answer is saved only under its assignment; the sweep frees nothing that runs; what is approved was seen; versions, cycles and deliveries agree with the status |

Bounds: incidents share nothing but `OwnClaims` and `OwnReviews`, so one is
enough for every property but `OneClaimEach`, which the run does not exercise
and which is proved for any number.  Two employees are an owner and a colleague.
One return gives a second assignment, to the same group or another; two
reservations one that ran out and one taken anew; two versions an old and a new
one.  No fairness: people need not act, and nothing here has to happen.
Deadlock is not checked because finished incidents stop.

### Findings

* An overtaken reopening.  A review card that failed for its photograph offers to
  replace it, and still does after the answer is approved.  The reopening checks
  once that the answer is not delivered (`answers/answer.service.ts:57`); if the
  delivery completes before it writes (67-69), a delivered incident goes back to
  work.  Its assignment cycle has ended, so every later submission throws
  `SLA_ASSIGNMENT_CYCLE_MISSING`.  `DeliveredStays`, `CycleFits` and
  `AnswerFits` say what holds when no reopening was overtaken; TLC shows
  `DeliveredFinal` violated with the run's constants.

### Proved

`WorkflowProofs.tla`, for every set of incidents, employees and groups and every
bound, from `GroupsAssumption`, `StaffAssumption` and `BoundsAssumption`.

| Theorem | States |
|---|---|
| `WorkflowInvariant`, `WorkflowTypes` | `IInv`, `TypeOK` always |
| `OneClaim` | `OneClaimEach` always |
| `WorkIsHeld`, `AlwaysReviewed` | `InProgressHeld`, `NoUnreviewed` always |
| `CycleConsistent`, `AnswerConsistent`, `DeliveredSettled` | `CycleFits`, `AnswerFits`, `DeliveredStays` always |
| `OnlyLegalChanges`, `ApprovalIsSeen`, `RunningIsKept`, `AnswersAreRightful` | `LegalChanges`, `ApprovedAsSeen`, `RunningKept`, `AnswerRightful` |

`IInv` adds to the properties what they lean on: who has a group (`RowFits`),
that claims exist only in the queue (`ClaimsQueued`, `LiveHeld`), in which
statuses an incident can be while a reopening is under way (`FrameFits`: nobody
can take it, so `InProgressHeld` survives the unguarded write), and that what
the sweep has read had run out (`SweptExpired`).  `AnswerFits`, `CycleFits` and
`DeliveredStays` support each other: only the latest approved version of a
resolved incident can be delivered, and delivery ends the cycle.  The proof
takes one incident at a time: `LockRow` and `AnswerRow` collect what `IInv` says
of it, and a step changes its answers in one of six forms (`Steady`, `Moved`,
`Added`, `Decided`, `Arrived`, `Overwritten`).  The action properties follow
from `IInv` and the shape of the action that can make the change.

`LegalChanges` is stated and proved; no run checks it, because every transition
in it is the guard of one action.

## Files and Upkeep

`Files.tla` is the storage and all that refers to it: the answer files
(`media/media.service.ts`, `AnswerService.submit`), the files staged for an
outbox row (`enqueue`), the retention sweep (`retention/retention.service.ts`,
`retention/file-deletions.ts`) and the trigger of the migration
`20261006230000_storage_deletion_fence`.  `Upkeep.tla` extends it with the
manual cleanup (`maintenance/cleanup.service.ts`) and the pause around it.

| State | Code |
|---|---|
| `stored`, `late` | objects in the storage; removals that timed out and still run there |
| `attached`, `outbox` | the rows that name a key: `AnswerAttachment`, `OutboundMessage` and its status |
| `landing` | an INSERT whose result nobody knows and which may still be committed |
| `fence`, `journal`, `progress` | `StorageDeletionFence`, the `PendingFileDeletion` entries and their state records |
| `writer`, `sweep`, `lock` | transactions of the bot, retention processes, `maintenance.incident-retention` |
| `plan`, `confirm`, `worker`, `paused` | the setting `maintenance.manual-cleanup`, the handlers and the worker that read it, the pause |

| Action | Code |
|---|---|
| `SaveFile`, `SubmitAnswer`, `SubmitFails` | `ingest`, the transaction that names the file, the discard after it failed |
| `Insert`, `InsertRefused`, `Lands`, `Reconcile` | staging and INSERT in `enqueue`; only a certain refusal removes the files |
| `SendRow` | `complete`, then `cleanupAttachments` |
| `ReadNames`, `CopyNames`, `CommitCopy` | a transaction that copies an answer's files to another row, and the trigger in it |
| `StartSweep` ... `EndSweep` | the retention sweep: one transaction per incident, then the journal entry by entry |
| `Begin`, `Fence`, `Remove`, `Finish`, `EntryFails` | one entry: the attempt is spent, the key fenced under its lock, the object removed with a timer, the entry deleted |
| `Preview`, `Confirm`, `ConfirmClaim`, `Pause`, `Work`, `Erase`, `RemoveFiles`, `Resume` | the count, its confirmation, and the worker |
| `LockStale`, `LateRemoval`, `WriterDies`, `SweeperDies`, `BotDies` | two hours pass; a removal completes late; crashes |

| Run | Instance | Shows |
|---|---|---|
| `upkeep` | an incident with one answer file, a staged file, one transaction, one retention process, one administrator; two counts, two attempts, one trouble | no file a row names is ever removed, also not by a removal that completes late; no file a row named is forgotten; an erasure is what was shown and confirmed |

Bounds: keys are random and never reused, so the rules about one key do not
depend on another.  One trouble is a lost acknowledgement, a timeout, a crash or
a reopening; what two in one life of a key would add is the same branch again.

### Proved

`UpkeepProofs.tla`, for every set of keys, incidents, writers, sweeps and
administrators and every bound.

| Theorem | States |
|---|---|
| `FilesStayWithRows` | `FilesKept` always, for the specification of `Files` |
| `UpkeepInvariant` | `IInv` always |
| `FilesAreKept`, `NoFileIsLost` | `FilesKept`, `NoFileLost` always |
| `ErasureAsShown` | `ErasedAsShown` |

The fence is the heart of it (`FenceInv`): a fenced key is named by no row, none
can come to name it, since the trigger looks at the fence in the transaction
that would, and only fenced keys are removed, now or later.  `WritersInv` says
what a running transaction holds: its own new file, which nobody else names, or
a file another row names; between the copy and its commit the key is not fenced.
`NamesInv` relates rows, journal and incidents: an answer file is named as long
as its incident exists.  The manual cleanup removes without a fence; `PlanInv`
says why it may: the incidents of the plan are gone, and with the bot paused no
transaction still reads their files.  `CleanupInv` ties the confirmation, the
plan and the worker's copy of it together, which gives `ErasedAsShown`.

Not modelled: the text of the count, the purge of profiles, the cleanup of users.
One bot process is assumed: `removeFiles` is not fenced and the pause is per
process, so during a deployment overlap the other process could refer to a file
that is being removed.

## Sla

`Sla.tla` models `sla/sla.service.ts`, `sla/policy.ts`, the two calendars
(`utils/work-calendar.ts`, `sla/working-time.ts`) and the part of
`MaxMessageService` that sends deadline notices and 24-hour reminders, with what
the workflow writes that they depend on.  Time is a number of instants; the
day, the week and both working windows are constants.

| State | Code |
|---|---|
| `policy`, `created`, `deadline`, `overdue`, `delivered` | fields of `Incident` |
| `status` | `OPEN` stands for every status before an answer, `REVIEW` for `WAITING_REVIEW` |
| `answer` | the latest answer: one with a review card, a direct one without, or one that was delivered |
| `queued`, `reminded` | `workingDeadlineQueuedAt`, `slaReminder24SentAt` |
| `reopening` | what `reopenForPhotoReplacement` has read and not yet written |
| `sweep` | a run of `sweepNow` with the clock it read at its beginning; `send` is the reminder it has marked and still passes to `messages.send` |
| `notice`, `reminder` | the outbox rows, with what the first check saw (`saw`); `bare` is a reminder's row without the prefix that a rejection spares |

| Action | Code |
|---|---|
| `BeginSweep`, `FlagOverdue`, `Due`, `QueueWorkingDeadline`, `List`, `QueueWarning`, `SendWarning`, `EndSweep` | `sweepNow`; each mark and its rows in one transaction that reads its condition again; the reminder is inserted a second time, without effect if the row is there |
| `Register`, `Submit`, `Approve`, `RequestRevision`, `RecordDelivery` | what the workflow writes that deadlines depend on |
| `Reject` | `distribution.service.ts:281-304`: the incident's rows are deleted, the reminder's with them (not one that `messages.send` inserted anew), while its mark stays; deadline notices are spared |
| `BeginReopen`, `Reopen`, `AbandonReopen` | `reopenForPhotoReplacement`: it reads that the answer was not delivered, then writes the status and `isOverdue` by id, or gives up when the failed row is being sent again.  The lock it holds keeps out submissions and rejections, not reviewers and not deliveries |
| `ClaimNotice`, `ReadNotice`, `NoticeSent`, `NoticeFails` | `deliverWorkingDeadline` with its two reads |
| `ClaimReminder`, `Rearm`, `ReadReminder`, `ReminderSent`, `ReminderFails` | the reminder: outside working hours the row and the mark go |
| `Tick`, `Crash` | the clock; a crash leaves SENDING rows to their lease and ends sweeps and reopenings |

| Run | Instance | Shows |
|---|---|---|
| `sla` | one incident of either policy, two overlapping sweeps, one chat; a day of two instants, the first of them worked, a week of three days, the last of them free, a term of one working instant or two working days; six instants, two attempts, one trouble; fairness | while an incident is resolved by a delivered answer its flag is exact, and none is raised before its term; a mark always has its rows, the reminder of a rejected incident excepted; an open incident is noticed |

Bounds: six instants are three days, so a term crosses a night and some the
weekend; registrations fall into, before and after working hours.  A trouble is
a crash, a failed send, or the refused photograph that lets a reopening begin.
The calendar functions are compared with counts instant by instant.  A sweep
lags at most one instant (`MaxLag`): the clock waits for it.  The two invariants
were also checked without the liveness property, with days of three instants,
ten instants in all and two troubles.

Fairness: time passes, the timer fires, a sweep that runs goes on, the outbox
takes what is due.  `Noticed` accepts a notice whose attempts are used up or
whose retry lies behind the horizon.

### Finding

Told here and not run; with `INVARIANT DeliveredFlagStands` TLC shows it violated
at the run's constants.  A reopening for a refused photograph checks
`deliveredAt` (`answer.service.ts:57`) and then writes `isOverdue` by id (`67`),
by the calendar.  A delivery that commits in between had computed the flag in
working time, and `docs/working-hour-policy.md:22` counts free hours as none.
The trace: the review card fails on its photograph, the answer is approved from
another card, the reopening reads, the answer is delivered with no working time
after its term (flag down), the reopening writes (flag up, incident under
revision, `slaDeliveredAt` set).  `OverdueExact` therefore speaks of incidents
that stand `RESOLVED`.

### Proved

`SlaProofs.tla`, for every set of incidents, chats and sweeps, every calendar
and every bound.

| Theorem | States |
|---|---|
| `MarkInvariant` | `MarkInv` always |
| `NoticesAreKept` | `NoNoticeLost` always |
| `OverdueIsExact` | `OverdueExact` always, if `CalendarExact` |

`NoNoticeLost` is inductive with the types and with what a reopening knows
(`MarkTypes`): an answer it has read is still there in a status a rejection
does not start from, so that an incident once rejected stays rejected.  Mark and
rows are written in one transaction, and a deadline notice is dropped only when
the incident is rejected or delivered, which is not taken back.  For
`OverdueExact`, `FlagInv` adds that no sweep has a clock ahead of the present
(`ClockBehind`), that a raised flag means a passed deadline, and that an
incident resolved by a delivered answer keeps the flag its delivery computed:
only a reopening could overwrite it, and that takes the incident out of
`RESOLVED` in the same write.  The deadline and the working time between two
instants are recursive functions, and what they compute for every input is out
of the prover's reach (it is induction over data); the theorem therefore assumes
`CalendarExact`, their agreement with a count of working instants, which `MCSla`
has TLC evaluate for its calendar, and over its whole horizon.

Not modelled: the marks of the older version of the reminders; the assignment
cycles and the stages before an answer are in `Workflow`.

## Resident

`Resident.tla` models the draft of a message and its screens:
`bot/draft-screen.ts`, `draft-screen-delivery.ts`, `requester-draft.ts`,
`callbacks/user.callbacks.ts`, `handlers/requester.handler.ts`,
`sessions/operator-session.service.ts` and the transaction of
`IncidentService.create`.

| State | Code |
|---|---|
| `session` | the `OperatorSession` row; it is only replaced by compare-and-swap over its contents (`start` is an upsert) |
| `messages` | what MAX shows, and which messages still have buttons |
| `due` | `draftScreenDelivery.nextAttemptAt` has passed |
| `lock` | `resident-draft:<user>:<chat>`: released by its key, whoever holds it |
| `thread` | a handler or a recovery pass between two awaits |

| Action | Code |
|---|---|
| `Press`, `consumeDraftButton`, `Decide` | `consumeDraftButton`, `dispatchUserCallback` |
| `Type`, `Receive` | the binding of a text to its screen on arrival, `dispatchRequesterMessage` |
| `Menu`, `start`, `Clear` | `new`, `/start`; `sessions.start`; cancel and reset |
| `Reread`, `Write`, `sendDraftScreen` | `saveDraftStep`, `sendDraftScreen` |
| `create`, `CreateFails`, `Retract` | the registration; the removal of a preview or of a screen that came too late |
| `Claim`, `Check`, `Post`, `Sent`, `Record`, `Failed`, `PhotoGone` | `deliverSavedScreen` |
| `Tidy`, `Retire` | `retirePreviousScreens`: what is old by the row it reads, then the edits and the write |
| `Sweep`, `Picked` | `DraftScreenRecovery` |
| `LockRunsOut`, `DueAgain`, `Expire`, `Ban`, `Crash` | time and failures |

| Run | Instance | Shows |
|---|---|---|
| `resident` | one handler and the recovery sweep, one draft, two deliveries of a screen, four tokens, one trouble; fairness | every saved screen is delivered, replaced or given up |
| `resident_slow` | two handlers, a lock that lapses under one of them, three tokens | an incident holds what its confirmed preview showed; a draft ends once; the current screen shows what the row says and, unless a lock has lapsed, has its buttons |

Bounds: the second initial state is a draft with two previews, so a confirmation
and an old button are near.  The lapse of a lock and a crash do not occur in one
run; two handlers are a slow one and the next.  Any message ever sent may be
pressed, late and repeatedly.  Deadlock is not checked: the tokens run out.

Fairness: a handler that runs goes on because each of its calls has a timeout;
the sweep is a timer; leases and back-offs run out.  Nothing is assumed of MAX.

### Findings

* A screen without buttons.  `saveDraftStep` (`bot/draft-screen.ts:63-70`) reads
  the row again, but writes what an earlier read gave it, under a comparison with
  the later one.  A handler that outlived its 120 s lock thus puts back a row
  that names a screen whose buttons were meanwhile taken away; if the process
  dies before `sendDraftScreen`, the current screen cannot be used, and the
  resident has to open the menu anew.  Hence the condition `lapses = 0` in
  `CurrentScreenUsable`; without it `resident_slow` with one crash shows this.

### Proved

`ResidentProofs.tla`, for every number of handlers and recovery passes, every set
of inputs and every bound.

| Theorem | States |
|---|---|
| `ResidentInvariant` | `Inv` always |
| `ConfirmedIsShown`, `DraftsEndOnce`, `CurrentScreenIsUsable` | `ConfirmedAsShown`, `DraftEndsOnce`, `CurrentScreenUsable` always |

Nothing in the invariant speaks of the lock except `Alone` and `Usable`: what is
registered is right even when handlers outlive it.  `RowsOk` is about all rows
there are, the saved one and those in the hands of any handler: a preview that
can be confirmed is bound to its own token (`RowIn`), rows that await a
confirmation under one token have the same contents (`Agree`), and so has the
message whose button confirms it (`ShownBy`).  `ThreadOk` says what each handler
carries: a confirmation names a message that was shown (`Carries`), a new preview's
token is known to nobody else before it is saved (`Secret`), a message not yet
recorded is named by no row (`Private`), and only messages that are not the
current one lose their buttons (`Retired`).  The proof takes one handler at a
time, and shows that what holds of the others survives its step.

Not modelled: presses that are refused, too many photos, the legacy contact
sessions, the debounce of callbacks (`actionLease`), the length of a back-off.

## Staff

`Staff.tla` models the dialogues in which employees decide in the chats:
`bot/callbacks/*` for distribution, sector and review, `bot/handlers/*`,
`bot/handlers/session-guard.ts`,
`sessions/*`, `bot/callbacks/distribution-navigation.ts`.  Everybody in
a chat sees every card and may press it, late and repeatedly.  Of the incident
it keeps the desk, the returns, the last answer and one reservation; that there
is one at a time, and what the transactions do in full, is `Workflow`.

| State | Code |
|---|---|
| `desk`, `round`, `answer`, `hold` | the stage, the `assignmentCycle`, the last version, the reservation |
| `sess` | `OperatorSession` by employee and chat, with the token (`tok`) of its card |
| `screen` | the live distribution screen of an employee (`navigationKey`) |
| `cards` | the cards shown; their buttons stay |
| `frame` | what a running handler has read |

| Action | Code |
|---|---|
| `Read`, `Open`, `OpenPicker` | a button opens a dialogue: read, then reserve and store |
| `Fill`, `Say`, `ChooseReason`, `Pick`, `Back`, `Edit`, `Continue` | text, reason, group, and the ways back |
| `Confirm`, `Apply`, `Finish` | the checks of the handler, the transaction, the deletion of the session |
| `Discard`, `SessionExpires`, `Cancel` | `discardObsoleteSession`, the time limit, a cancel button |
| `Take`, `Release`, `HoldExpires`, `Sweep` | reservations |
| `Abandon` | a refusal, an exception or a crash in between |

| Run | Instance | Shows |
|---|---|---|
| `staff` | one incident at any desk, two employees, every kind of dialogue; three cards, two reservations, one return, two answers | what is decided was on the card pressed; a decision fits what its card was about; a confirmation is not replaced by another dialogue |

Bounds: three cards are a choice, its preview and a later one, or the previews of
two employees.  One employee's handlers run one after another, which is
`LaneSerial` of `Inbox`; those of two employees interleave.  No fairness: nobody
has to press anything.  Deadlock is not checked.

### Proved

`StaffProofs.tla` covers `Staff` and `Workspace`, for every number of employees,
incidents and cards and every bound.

| Theorem | States |
|---|---|
| `StaffInvariant` | `IInv` always |
| `DecisionsAreShown`, `DecisionsAreInTime` | `DecidedAsShown`, `DecidedInTime` |
| `ConfirmationsAreKept` | `ConfirmationKept` |
| `WorkInvariant` | `WorkInv` always, for the specification of `Workspace` |
| `WordsAreShown`, `WorkIsInTime` | `WordsAsShown`, `WorkInTime` |

A session fits the card whose token it has, and no reservation of another desk
has its term (`Fits`, `Dated` in `SessionInv`); a handler that has passed its
checks still holds such a session (`ApplyInv`).  The properties are about the
moment of the decision, so they follow from the invariant before the step.  With
the private dialogue a session may come from a copy and a text from a draft:
`ItemInv` says that copies fit cards of the same employee, incident and desk,
though not always of the same kind (the first finding below), and that the button
of a draft was shown with its words and for the version of the item.  `TakeInv`
keeps what `take` read until its reservation runs out.

Not modelled: the direct answers of groups without review, bans, the report
period, clarifications of the older version, the change of a topic, the wording
of templates; the membership check of a chat always succeeds.  A cancel button
carries no token: it ends whatever is open in the chat.  A `return` is bound to
the group only, not to the assignment.

## Workspace

`Workspace.tla` extends `Staff` with the private dialogue
(`work-queues/private-workspace.ts`), in which the same decisions are prepared
away from the chats.  `item` is `PrivateWorkItem.data`: a copy of the session
(`snap`), a draft or a pending approval, and the version it is for (`cycle`).

| Action | Code |
|---|---|
| `Enter`, `Adopt`, `Reserve`, `Restore` | `personalHome`; `take`: reserve and read, then put the copy back |
| `Start`, `Started`, `Press` | the card's buttons pressed privately, and the copy after them (`snapshot`) |
| `SaveDraft`, `SaveText`, `Back_` | `receivePersonalText`, `back` |
| `Approve`, `ConfirmWork`, `Applied`, `Finished` | the second question for an approval, `confirm`, and what the decision leaves of the items |
| `CancelWork`, `ReleaseWork` | `cancel`, `release` |

| Run | Instance | Shows |
|---|---|---|
| `workspace` | an employee with the private dialogue and a colleague in the chats, one incident, two cards, two reservations | the words of a decision were shown with the button pressed; unless they are from an early draft, it is taken in the state and the round they were prepared for |
| `workspace_draft` | the same | the finding below |

Not modelled: assigning from the private dialogue (the screens of `Staff`), the
link to the bot, the warning of `sweepPersonalWork`, read-only views.

### Findings

* The wrong action.  An employee saves the draft of an answer privately, opens
  "return" for the same incident in the group (`ensureFreeSession` lets a text
  step be replaced, `bot/handlers/session-guard.ts:68`), releases the work privately
  (the copy becomes the return, `private-workspace.ts:104-119`, 345) and takes it
  up again (170-178).  The button of the draft, still labelled as the answer's,
  now carries out the return with the answer's text: the confirmation (369)
  compares the type of the session with that of the copy, and by now both are
  the return's; nor is the round looked at, which a return does not compare.  The repository's `README.md:940` says every text passes a preview; `DecidedAsShown`
  is violated.
* A draft without a version.  An item gets its version (`cycle`) only when it is
  taken, cancelled or finished.  If another incident's dialogue is open in the
  chat, `take` is refused at the end (`private-workspace.ts:170`) and the item
  stays without one; `release` still copies the session (345), and
  `receivePersonalText` (400-412) saves a draft.  Lines 157 and 165 compare
  versions only when there is one, so this draft is taken up even after the
  incident was returned and assigned anew, while the messages there and at 302
  promise that an old draft is not sent.  `WorkInTime` excepts such drafts (cards
  with step `early`); without the exception the run shows it.
* `take` puts the older copy in the place of a confirmation that waits in the
  group, so `ConfirmationKept` holds of `Staff` and not of `Workspace`.

## Cards

`Cards.tla` models the cards of one incident in the distribution chat, the
review chat and the groups' chats, and the jobs that keep them true
(`delivery/workflow-outbox.ts`, `delivery/delivery-status.ts`, the publications
and refreshes of `max/max-message.service.ts`).  The attempts of one job, their
leases and the twelve tries are `Outbox`; here a job is a publication or a
refresh, and lanes of different chats run side by side.  A refresh reads the
incident and then edits card by card; a handler may edit a card too, after its
commit.

| State | Code |
|---|---|
| `stage` ... `claim`, `named` | the incident, and the message ids it names |
| `row` | publications: `OutboundMessage` with its dedupe key, content, confirmed parts and what became of it (`STALE` and `GIVEN_UP` are both `FAILED`) |
| `screen` | what MAX shows of the cards whose id is saved; `late` marks a card the code loses (below) |
| `strays` | cards that arrived at MAX and whose id was never saved |
| `lane`, `work` | outstanding jobs of a chat and the one that runs |
| `direct`, `opening` | edits a committed handler has yet to make; a copy being issued |
| `reopening` | what `reopenForPhotoReplacement` has read and not yet written |
| `crossed` | a return came between a completion's check of the assignment and its write |

| Action | Code |
|---|---|
| `Claim`, `Unclaim`, `Assign`, `TakeInWork`, `PutBack`, `Submit`, `ReturnToDistribution`, `SaveCorrection`, `RequestRevision`, `Approve`, `Delivered` | each change with the jobs it queues |
| `BeginReopen`, `Reopen` | `reopenForPhotoReplacement`: read under a lock that reviewers and deliveries do not take, then written by id; the revision card is queued once per number |
| `Reject` | `distribution.service.ts:230-341`: the rows and jobs of the incident are erased, one refresh of the distribution cards known by then is queued.  A request under way goes on without its row: an arrival is a stray (`Orphan`) |
| `OpenCopy`, `QueueCopy` | `WorkQueueService.open` |
| `Start`, `Post`, `Save`, `NextPart` | a publication: the check before every part, the request at MAX, and the saving of the id, each a step |
| `Check`, `Complete` | `complete()`: for a sector card the assignment is read and compared (`max-message.service.ts:797-798`), then the card is named where none is named (810-813); other kinds in one step |
| `Withdraw`, `Retire` | a stale publication is `FAILED` (539, 703), and its parts are refreshed by a transaction of their own (540, 714-716) |
| `Read`, `Edit`, `Finish` | a refresh |
| `DirectEdit`, `DirectFails` | edits by handlers |
| `Fail`, `Crash` | attempts that are made again, a restart; what had arrived and was not saved is a stray |
| `GiveUpCard`, `GiveUpRefresh`, `Recover` | the twelfth attempt of a publication or a refresh, or a photograph MAX no longer has; the card that goes out again without it |

| Run | Instance | Shows |
|---|---|---|
| `cards` | one group, two answers of which the second has a card in two parts, one return, one extra; at most one job outstanding in a chat when a change is made | each card on a screen is true, or a job that makes it so is to come, or the code loses it in one of the ways below; the card the bot edits is the one of this assignment |

Bounds: an extra is a claim, a take, a copy, a correction, a reopening or a
trouble of any kind.  `MaxJobs` is met when a change is made, so a lane grows to
three or four: a running job, one that waits, and what the change adds.  A run
looks at the distribution chat, or at the others, because no lane waits for
another (`watched`).  Deadlock is not checked: with its bounds used up an
incident stops.  Two more instances, in which both properties hold as
well, were checked while the model was written: no answers and three extras (failures, restarts and
jobs given up on top of one another), and one answer, no return and two extras
(a review and a reopening that overlaps it).

What `CardsSettle` excepts, because the code loses it.  Each is a state of its
own in the model and not a gap of it:

* `late`: a card last edited by a group's lane, or by a handler, with what a
  change had overtaken; a card whose publication was given up, or whose
  retirement was lost between `FAILED` and its refresh; a card a refresh had not
  yet put right when it was given up.
* the card named after its assignment had ended (`crossed`);
* the cards of an assignment once the incident is rejected;
* strays, of which nobody has the id.

Not modelled: the reservation's text in a card, trailing photographs, the legacy
review card, direct answers and groups without review, sector cards in several
parts, the employee who sends a `FAILED` row again by hand.  An edit takes
effect, if at all, before its call returns.  Putting a card out again without
its photograph and failing the row are two statements in the code and one step
here.

### Proved

`CardsProofs.tla`, for every set of groups and every bound.

| Theorem | States |
|---|---|
| `CardInvariant` | `CardInv` always |
| `CardIsOfAssignment` | `CardOfAssignment` always |

`CardInv` adds to `CardOfAssignment` that the incident is with a group exactly in
the stages of one (`WithGroup`), that sector publications are those of the
rounds and the present round has one (`SectorRows`), that a publication in a
lane has its row and an attempt runs the head of its lane (`LaneInv`), and that
a completion that has passed its check still holds the present card unless it
is marked as overtaken by a return (`old`), which `NameSector` passes on to
`crossed`.  A lane only grows at its end, loses its head, or has its head moved
to its end (`Recover`).  So the publication of the present card stays in its
lane until an attempt reaches it; that attempt does not find it stale
(`PresentIsNotStale`), and its completion names it unless the publication is
given up.  An attempt for an earlier assignment finds its card stale, or
completes without naming it, but in the gap `crossed` marks.  A rejection, which
empties lanes, takes the incident from the group as well.

### Findings

Told here and not run; with each as an `INVARIANT` TLC shows it violated for one
group, no answers, one return, one job and no extras.

* `NotOfTheNewAssignment`.  `complete()` compares the publication with the
  assignment and then writes `sectorMessageId` where it is null
  (`max/max-message.service.ts:797-813`); a return in between, which takes no
  lock of it, makes the card of the ended assignment the card of record, and the
  next assignment's completion finds the field taken.
  `docs/delivery-reliability.md:15-16` says that such a card does not become the
  card of the new assignment.  `CardOfAssignment` excepts this gap, and only it,
  by `crossed`.
* `OldCardsStayClosed`.  A rejection deletes the outstanding jobs of the incident
  (`distribution/distribution.service.ts:300`), among them the staff refresh a
  return has queued, and refreshes the distribution cards only; the card of the
  ended assignment keeps its buttons, against the repository's `README.md:893-894`
  and `docs/delivery-reliability.md:16-17`.  The same happens when a sector
  refresh that has read the incident before a return
  (`max/max-message.service.ts:1003-1012`) edits the old card after the staff
  refresh has closed it; `late` marks that card in `CardsSettle`.
* `ArrivalsAreKept`.  A rejection erases the row of a card whose request is under
  way; the card arrives, its id is nowhere, and its buttons stay.
  `docs/delivery-reliability.md:192-194` says that a confirmed result is kept and
  brought to the present state.  (With extras an answer of MAX may be lost, which
  leaves a stray as well.)
* `assign` closes the original card after its transaction; if a return comes in
  between, the original that should be open again is closed.

## Not modelled

* Pinned panels (`max/pinned-panel.service.ts`), the wire format and the rate
  gate of the MAX client: their outcomes only, as taken, refused or unknown.
* The polling marker: the batch is repeated after a crash, which `Inbox` sees as
  a second delivery.
* Downloads and conversions of media, reports and monitoring, catalogues,
  settings, bans, legal acceptance: rows written by one transaction each.
* Infrastructure, scripts, one-off migrations of data, wording and layout.
* Compositions wider than the ones named under Plan: the modules meet in the
  facts each states about itself.

Every invariant and action property of a passing run is proved for all values of
the constants, with these exceptions, which are model-checked only: liveness
(`EventuallySettled` of `Inbox` and `Outbox`, `Noticed`, `ScreenSettles`), which
the prover cannot do, and `OverdueExact` in so far as it rests on
`CalendarExact`.
