------------------------------- MODULE Inbox -------------------------------
(***************************************************************************)
(* The durable webhook inbox: server/update-dispatcher.ts, with the parts  *)
(* of server/webhook.server.ts, maintenance/runtime-maintenance.ts and     *)
(* index.ts that call it.                                                  *)
(*                                                                         *)
(* MAX delivers an update any number of times.  A reservation commits one  *)
(* row per update key before MAX gets its 200; a single drain then claims  *)
(* rows lane by lane (one lane per user), hands the payload to the         *)
(* business handlers and settles the row.  Database calls may fail before  *)
(* or after taking effect, the process may crash between any two steps,    *)
(* and failed settlements are kept in memory and retried by later sweeps.  *)
(*                                                                         *)
(* Durable state is rows; everything else but the history and the budgets  *)
(* is process memory and is lost in a crash.                               *)
(***************************************************************************)
EXTENDS Naturals, Sequences, FiniteSets

CONSTANTS
  Updates,      \* external update keys (buildUpdateKey)
  Lanes,        \* partition keys
  Lane,         \* Lane[u]: updatePartition(u)
  Contact,      \* updates whose minimised payload carries a phone number
  Legacy,       \* updates recorded as done in the old ProcessedUpdate table
  Locks,        \* the (lockedAt, processingToken) pairs a claim may draw
  Concurrency,  \* INBOX_CONCURRENCY
  Drain,        \* the drain itself, as the owner of a settleFailures() pass
  None,         \* null
  MaxCalls,     \* bound: deliveries by MAX
  MaxFaults,    \* bound: database calls that fail
  MaxCrashes,   \* bound: crashes
  MaxStops      \* bound: graceful stops and maintenance pauses

ASSUME ConstantsAssumption ==
  /\ IsFiniteSet(Updates)
  /\ Lane \in [Updates -> Lanes]
  /\ Contact \subseteq Updates /\ Legacy \subseteq Updates
  /\ Concurrency \in 1..32
  /\ Drain \notin Updates
  /\ None \notin Updates \cup Locks
  /\ MaxCalls \in Nat /\ MaxFaults \in Nat /\ MaxCrashes \in Nat /\ MaxStops \in Nat

(* A claim error is returned to PENDING only below this many claims. *)
ClaimLimit == 3

VARIABLES
  rows,      \* InboundUpdate, by external key
  lastSeq,   \* the sequence column's generator
  clock,     \* receivedAt of the last delivery
  chain,     \* per lane, the reservations in progress, oldest first
  proc,      \* "down", "up", or "stopping" (stop() was called)
  paused,    \* maintenance holds processing
  drain,     \* where the single drain() is
  task,      \* processClaimed() of each row: where it is, and its lock
  held,      \* the settlements map: what could not be written yet
  sweep,     \* the settleFailures() pass of each task and of the drain
  starts,    \* history: how often the business handlers got each update
  aged,      \* history: updates older than the purge cutoff
  calls, faults, crashes, stops   \* budgets spent

memory  == <<chain, drain, task, held, sweep>>
budgets == <<calls, faults, crashes, stops>>
vars == <<rows, lastSeq, clock, memory, proc, paused, starts, aged, budgets>>

Agents   == Updates \cup {Drain}
Settled  == {"PROCESSED", "FAILED"}
Statuses == {"ABSENT", "PENDING", "PROCESSING"} \cup Settled

Row == [status: Statuses, seq: Nat, received: Nat, attempts: Nat,
        due: BOOLEAN, lock: Locks \cup {None}, kept: BOOLEAN]
Receipt    == [update: Updates, at: Nat]
Task       == [at: {"none", "chosen", "read", "business", "settle"},
               lock: Locks \cup {None}]
Settlement == [ord: Nat, lock: Locks, before: BOOLEAN, contact: BOOLEAN]
Pass       == [step: {"off", "write", "delete"}, pos: Nat,
               row: Updates \cup {None}, lock: Locks \cup {None},
               before: BOOLEAN, contact: BOOLEAN]

NoRow  == [status |-> "ABSENT", seq |-> 0, received |-> 0, attempts |-> 0,
           due |-> FALSE, lock |-> None, kept |-> FALSE]
NoTask == [at |-> "none", lock |-> None]
NoPass == [step |-> "off", pos |-> 0, row |-> None, lock |-> None,
           before |-> FALSE, contact |-> FALSE]

Init ==
  /\ rows = [u \in Updates |-> NoRow]
  /\ lastSeq = 0 /\ clock = 0
  /\ chain = [l \in Lanes |-> <<>>]
  /\ proc = "down" /\ paused = FALSE
  /\ drain = "off"
  /\ task = [u \in Updates |-> NoTask]
  /\ held = [u \in Updates |-> None]
  /\ sweep = [a \in Agents |-> NoPass]
  /\ starts = [u \in Updates |-> 0]
  /\ aged = {}
  /\ calls = 0 /\ faults = 0 /\ crashes = 0 /\ stops = 0

Fault == faults < MaxFaults /\ faults' = faults + 1

-----------------------------------------------------------------------------
(* Reservation: reserve() chains the calls of one lane in arrival order.   *)

(* Each call waits for the previous one of its lane. *)
ChainedFirst(l, r) == <<r>> \o chain[l]   \* not waiting
Chained(l, r) == Append(chain[l], r)

(* MAX delivers u, for the first time or again; receivedAt is fixed here.  *)
Deliver(u) ==
  /\ proc # "down" /\ u \notin aged
  /\ calls < MaxCalls /\ calls' = calls + 1
  /\ clock' = clock + 1
  /\ chain' = [chain EXCEPT ![Lane[u]] = Chained(Lane[u], [update |-> u, at |-> clock + 1])]
  /\ UNCHANGED <<rows, lastSeq, drain, task, held, sweep, proc, paused, starts,
                 aged, faults, crashes, stops>>

(* reserveNow() at the head of the lane's chain.  A key known to the old   *)
(* table or to this one changes nothing; stopping answers 503.             *)
Reserve(l) ==
  /\ proc # "down" /\ chain[l] # <<>>
  /\ chain' = [chain EXCEPT ![l] = Tail(@)]
  /\ LET u == Head(chain[l]).update IN
     IF proc = "up" /\ u \notin Legacy /\ rows[u].status = "ABSENT"
       THEN /\ lastSeq' = lastSeq + 1
            /\ rows' = [rows EXCEPT ![u] =
                 [status |-> "PENDING", seq |-> lastSeq + 1, received |-> Head(chain[l]).at,
                  attempts |-> 0, due |-> TRUE, lock |-> None, kept |-> TRUE]]
       ELSE UNCHANGED <<rows, lastSeq>>
  /\ UNCHANGED <<clock, drain, task, held, sweep, proc, paused, starts, aged, budgets>>

(* The lookup or the insert fails: 503, and MAX may deliver again.         *)
ReserveFails(l) ==
  /\ proc = "up" /\ chain[l] # <<>> /\ Fault
  /\ chain' = [chain EXCEPT ![l] = Tail(@)]
  /\ UNCHANGED <<rows, lastSeq, clock, drain, task, held, sweep, proc, paused,
                 starts, aged, calls, crashes, stops>>

-----------------------------------------------------------------------------
(* The drain: a settlement pass, then lanes are filled up to Concurrency   *)
(* until a query finds nothing; it looks again only when a task ends.      *)

Active == {u \in Updates : task[u].at # "none"}

Earlier(v, u) == Lane[v] = Lane[u] /\ rows[v].seq < rows[u].seq

OpenDue(u) == rows[u].status = "PROCESSING" \/ (rows[u].status = "PENDING" /\ rows[u].due)
Open(u) == rows[u].status \in {"PENDING", "PROCESSING"}

(* A future retry or an active claim is still the head of its lane. *)
Eligible(u) ==
  /\ rows[u].status = "PENDING" /\ rows[u].due
  /\ ~ \E v \in Updates : Open(v) /\ Earlier(v, u)

Candidate(u) == Eligible(u) /\ \A v \in Active : Lane[v] # Lane[u]

Running == proc = "up" /\ ~paused

(* Where a pass over the settlements map h goes next: the entry inserted   *)
(* first after position pos, captured as it is now.                        *)
Visit(h, pos) ==
  LET ahead == {u \in Updates : h[u] # None /\ h[u].ord > pos} IN
  IF ahead = {} THEN NoPass
  ELSE LET u == CHOOSE u \in ahead : \A v \in ahead : h[u].ord <= h[v].ord
       IN [step |-> "write", pos |-> h[u].ord, row |-> u, lock |-> h[u].lock,
           before |-> h[u].before, contact |-> h[u].contact]

Kick ==
  /\ Running /\ drain = "off"
  /\ sweep' = [sweep EXCEPT ![Drain] = Visit(held, 0)]
  /\ drain' = IF Visit(held, 0) = NoPass THEN "pick" ELSE "sweep"
  /\ UNCHANGED <<rows, lastSeq, clock, chain, task, held, proc, paused, starts,
                 aged, budgets>>

(* Lowest sequence first among the lanes that are free. *)
Pick(u) ==
  /\ drain = "pick" /\ Running
  /\ Cardinality(Active) < Concurrency
  /\ Candidate(u)
  /\ \A v \in Updates : Candidate(v) => rows[u].seq <= rows[v].seq
  /\ task' = [task EXCEPT ![u].at = "chosen"]
  /\ UNCHANGED <<rows, lastSeq, clock, chain, drain, held, sweep, proc, paused,
                 starts, aged, budgets>>

(* The inner loop ends: wait for a task, or finish when none is active. *)
PickNone ==
  /\ drain = "pick"
  /\ \/ ~Running
     \/ Cardinality(Active) >= Concurrency
     \/ \A u \in Updates : ~Candidate(u)
  /\ drain' = IF Active = {} THEN "off" ELSE "wait"
  /\ UNCHANGED <<rows, lastSeq, clock, chain, task, held, sweep, proc, paused,
                 starts, aged, budgets>>

(* After a failure drain() only waits for its tasks, then rejects. *)
DrainRejects ==
  /\ drain = "closing" /\ Active = {}
  /\ drain' = "off"
  /\ UNCHANGED <<rows, lastSeq, clock, chain, task, held, sweep, proc, paused,
                 starts, aged, budgets>>

AfterTaskAsleep(ok) == IF ~ok THEN "closing" ELSE drain   \* loses the wake-up
AfterTask(ok) ==
  IF ~ok THEN "closing" ELSE IF drain = "wait" THEN "pick" ELSE drain

-----------------------------------------------------------------------------
(* One claimed row.                                                        *)

(* Every lock that is still named somewhere. *)
UsedLocks == {rows[u].lock : u \in Updates} \cup {task[u].lock : u \in Updates}
             \cup {held[u].lock : u \in {v \in Updates : held[v] # None}}
             \cup {sweep[a].lock : a \in Agents}

(* A random token nobody holds: any of them is as good as another. *)
CanLock   == Locks \ UsedLocks # {}
FreshLock == CHOOSE k \in Locks \ UsedLocks : TRUE

EndTask(u, ok) ==
  /\ task' = [task EXCEPT ![u] = NoTask]
  /\ drain' = AfterTask(ok)

(* processById() of a chosen row stops before claiming when the process    *)
(* is stopping or paused; a failed eligibility read rejects the drain.     *)
Abandon(u) ==
  /\ task[u].at = "chosen"
  /\ \/ /\ ~Running /\ EndTask(u, TRUE) /\ UNCHANGED faults
     \/ /\ Running /\ Fault /\ EndTask(u, FALSE)
  /\ UNCHANGED <<rows, lastSeq, clock, chain, held, sweep, proc, paused, starts,
                 aged, calls, crashes, stops>>

Claimed(u, k) ==
  [rows EXCEPT ![u] = [@ EXCEPT !.status = "PROCESSING", !.lock = k,
                                !.attempts = rows[u].attempts + 1]]

(* The claim: a compare-and-set from PENDING.  Nothing in this process can *)
(* have touched the row since it was chosen; the re-read changes nothing.  *)
Claim(u) ==
  /\ task[u].at = "chosen" /\ Running /\ CanLock
  /\ IF Eligible(u)
       THEN /\ rows' = Claimed(u, FreshLock)
            /\ task' = [task EXCEPT ![u] = [at |-> "read", lock |-> FreshLock]]
            /\ UNCHANGED drain
       ELSE /\ EndTask(u, TRUE)
            /\ UNCHANGED rows
  /\ UNCHANGED <<lastSeq, clock, chain, held, sweep, proc, paused, starts,
                 aged, budgets>>

(* Map.set: a key already present keeps its place in iteration order. *)
NewOrd == LET taken == {held[u].ord : u \in {v \in Updates : held[v] # None}}
                       \cup {sweep[a].pos : a \in Agents}
          IN 1 + CHOOSE n \in taken : \A m \in taken : m <= n

(* The catch blocks: remember the settlement and start a pass over the map *)
(* without giving way to another task.                                     *)
Settle(u, k, before, contact) ==
  LET h == [held EXCEPT ![u] =
             [ord |-> IF held[u] = None THEN NewOrd ELSE held[u].ord,
              lock |-> k, before |-> before, contact |-> contact]]
  IN /\ held' = h
     /\ sweep' = [sweep EXCEPT ![u] = Visit(h, 0)]
     /\ task' = [task EXCEPT ![u] = [at |-> "settle", lock |-> k]]

(* The claim call errs, whether or not the row took it. *)
ClaimUncertain(u) ==
  /\ task[u].at = "chosen" /\ Running /\ Eligible(u) /\ CanLock /\ Fault
  /\ rows' \in {rows, Claimed(u, FreshLock)}
  /\ Settle(u, FreshLock, TRUE, FALSE)
  /\ UNCHANGED <<lastSeq, clock, chain, drain, proc, paused, starts, aged,
                 calls, crashes, stops>>

(* The row is re-read under its lock and handed to the business handlers.  *)
Dispatch(u) ==
  /\ task[u].at = "read"
  /\ IF rows[u].status = "PROCESSING" /\ rows[u].lock = task[u].lock
       THEN /\ starts' = [starts EXCEPT ![u] = @ + 1]
            /\ task' = [task EXCEPT ![u].at = "business"]
            /\ UNCHANGED drain
       ELSE EndTask(u, TRUE) /\ UNCHANGED starts
  /\ UNCHANGED <<rows, lastSeq, clock, chain, held, sweep, proc, paused, aged, budgets>>

ReadFails(u) ==
  /\ task[u].at = "read" /\ Fault
  /\ Settle(u, task[u].lock, TRUE, FALSE)
  /\ UNCHANGED <<rows, lastSeq, clock, chain, drain, proc, paused, starts, aged,
                 calls, crashes, stops>>

(* max.dispatch() throws: what it did is unknown and is not retried.       *)
BusinessThrows(u) ==
  /\ task[u].at = "business"
  /\ Settle(u, task[u].lock, FALSE, u \in Contact)
  /\ UNCHANGED <<rows, lastSeq, clock, chain, drain, proc, paused, starts, aged, budgets>>

Owned(u, k) == rows[u].status = "PROCESSING" /\ rows[u].lock = k

Processed(u, k) ==
  IF Owned(u, k)
    THEN [rows EXCEPT ![u] = [@ EXCEPT !.status = "PROCESSED", !.lock = None, !.kept = FALSE]]
    ELSE rows

(* max.dispatch() returns and the row is marked. *)
MarkProcessed(u) ==
  /\ task[u].at = "business"
  /\ rows' = Processed(u, task[u].lock)
  /\ EndTask(u, TRUE)
  /\ UNCHANGED <<lastSeq, clock, chain, held, sweep, proc, paused, starts, aged, budgets>>

MarkUncertain(u) ==
  /\ task[u].at = "business" /\ Fault
  /\ rows' \in {rows, Processed(u, task[u].lock)}
  /\ Settle(u, task[u].lock, FALSE, u \in Contact)
  /\ UNCHANGED <<lastSeq, clock, chain, drain, proc, paused, starts, aged,
                 calls, crashes, stops>>

-----------------------------------------------------------------------------
(* settleFailures(): iterate the map, write each settlement, delete its    *)
(* key.  Every running task that failed has a pass of its own over the     *)
(* same map, and so has the drain before it picks.                         *)

EndPass(a, ok) ==
  /\ sweep' = [sweep EXCEPT ![a] = NoPass]
  /\ IF a = Drain
       THEN drain' = (IF ok THEN "pick" ELSE "off") /\ UNCHANGED task
       ELSE EndTask(a, ok)

MayRetryAny(p)  == rows[p.row].attempts < ClaimLimit       \* forgets that business began
MayRetryOnce(p) == p.before /\ rows[p.row].attempts <= ClaimLimit
MayRetry(p)     == p.before /\ rows[p.row].attempts < ClaimLimit

(* The three guarded updates.  The first that matches clears the lock, so  *)
(* at most one does: retry below the limit, scrub a contact, fail.         *)
SettledRows(p) ==
  LET u == p.row IN
  CASE ~Owned(u, p.lock) -> rows
    [] Owned(u, p.lock) /\ MayRetry(p) ->
         [rows EXCEPT ![u] = [@ EXCEPT !.status = "PENDING", !.lock = None, !.due = FALSE]]
    [] OTHER ->
         [rows EXCEPT ![u] = [@ EXCEPT !.status = "FAILED", !.lock = None,
                        !.kept = rows[u].kept /\ ~p.contact /\ ~(p.before /\ u \in Contact)]]

PassWrite(a) ==
  /\ sweep[a].step = "write"
  /\ rows' = SettledRows(sweep[a])
  /\ sweep' = [sweep EXCEPT ![a].step = "delete"]
  /\ UNCHANGED <<lastSeq, clock, chain, drain, task, held, proc, paused, starts,
                 aged, budgets>>

(* A failed write leaves the key for the next sweep. *)
PassFails(a) ==
  /\ sweep[a].step = "write" /\ Fault
  /\ rows' \in {rows, SettledRows(sweep[a])}
  /\ EndPass(a, FALSE)
  /\ UNCHANGED <<lastSeq, clock, chain, held, proc, paused, starts, aged,
                 calls, crashes, stops>>

(* settlements.delete(id) drops whatever the key holds by now, and the     *)
(* iteration goes on.                                                      *)
PassDelete(a) ==
  /\ sweep[a].step = "delete"
  /\ LET h == [held EXCEPT ![sweep[a].row] = None]
         p == Visit(h, sweep[a].pos)
     IN /\ held' = h
        /\ IF p = NoPass
             THEN EndPass(a, TRUE)
             ELSE sweep' = [sweep EXCEPT ![a] = p] /\ UNCHANGED <<drain, task>>
  /\ UNCHANGED <<rows, lastSeq, clock, chain, proc, paused, starts, aged, budgets>>

(* The five seconds before the retry pass. *)
RetryDue(u) ==
  /\ rows[u].status = "PENDING" /\ ~rows[u].due
  /\ rows' = [rows EXCEPT ![u] = [@ EXCEPT !.due = TRUE]]
  /\ UNCHANGED <<lastSeq, clock, memory, proc, paused, starts, aged, budgets>>

-----------------------------------------------------------------------------
(* Process life cycle.                                                     *)

RecoveredKept(r, u) ==                                     \* keeps the phone number
  IF r.status = "PROCESSING" THEN [r EXCEPT !.status = "FAILED", !.lock = None] ELSE r
Recovered(r, u) ==
  IF r.status = "PROCESSING"
    THEN [r EXCEPT !.status = "FAILED", !.lock = None, !.kept = @ /\ u \notin Contact]
    ELSE IF r.status = "FAILED" /\ u \in Contact THEN [r EXCEPT !.kept = FALSE] ELSE r

(* start(): interrupted claims fail without a replay, interrupted contacts *)
(* are scrubbed, rows settled more than thirty days ago are deleted.  MAX  *)
(* is assumed not to redeliver an update that old.                         *)
Start ==
  /\ proc = "down"
  /\ proc' = "up" /\ paused' = FALSE
  /\ \E old \in SUBSET {u \in Updates : Recovered(rows[u], u).status \in Settled} :
       /\ aged' = aged \cup old
       /\ rows' = [u \in Updates |->
                    IF u \in old THEN NoRow ELSE Recovered(rows[u], u)]
  /\ UNCHANGED <<lastSeq, clock, memory, starts, budgets>>

ForgetMemory ==
  /\ chain' = [l \in Lanes |-> <<>>]
  /\ drain' = "off"
  /\ task' = [u \in Updates |-> NoTask]
  /\ held' = [u \in Updates |-> None]
  /\ sweep' = [a \in Agents |-> NoPass]

Crash ==
  /\ proc # "down" /\ crashes < MaxCrashes /\ crashes' = crashes + 1
  /\ proc' = "down"
  /\ ForgetMemory
  /\ UNCHANGED <<rows, lastSeq, clock, paused, starts, aged, calls, faults, stops>>

Stop ==
  /\ proc = "up" /\ stops < MaxStops /\ stops' = stops + 1
  /\ proc' = "stopping"
  /\ UNCHANGED <<rows, lastSeq, clock, memory, paused, starts, aged, calls, faults, crashes>>

(* The process exits once waitForIdle() resolves. *)
Exit ==
  /\ proc = "stopping" /\ drain = "off" /\ Active = {}
  /\ \A l \in Lanes : chain[l] = <<>>
  /\ proc' = "down"
  /\ ForgetMemory
  /\ UNCHANGED <<rows, lastSeq, clock, paused, starts, aged, budgets>>

(* withRuntimePaused(): reservations continue, processing resumes once the *)
(* dispatcher was idle.                                                    *)
Pause ==
  /\ Running /\ stops < MaxStops /\ stops' = stops + 1
  /\ paused' = TRUE
  /\ UNCHANGED <<rows, lastSeq, clock, memory, proc, starts, aged, calls, faults, crashes>>

Resume ==
  /\ proc = "up" /\ paused /\ drain = "off" /\ Active = {}
  /\ paused' = FALSE
  /\ UNCHANGED <<rows, lastSeq, clock, memory, proc, starts, aged, budgets>>

-----------------------------------------------------------------------------
TaskStep(u) ==
  \/ Abandon(u) \/ Claim(u) \/ ClaimUncertain(u)
  \/ Dispatch(u) \/ ReadFails(u)
  \/ BusinessThrows(u) \/ MarkProcessed(u) \/ MarkUncertain(u)

PassStep(a) == PassWrite(a) \/ PassFails(a) \/ PassDelete(a)

DrainStep == Kick \/ (\E u \in Updates : Pick(u)) \/ PickNone \/ DrainRejects

Next ==
  \/ \E u \in Updates : Deliver(u) \/ TaskStep(u) \/ RetryDue(u)
  \/ \E l \in Lanes : Reserve(l) \/ ReserveFails(l)
  \/ \E a \in Agents : PassStep(a)
  \/ DrainStep
  \/ Start \/ Crash \/ Stop \/ Exit \/ Pause \/ Resume

Spec == Init /\ [][Next]_vars

(* The event loop runs what is ready, timers fire, handlers end (every     *)
(* call they make has a timeout), a stopped process exits and a dead one   *)
(* is restarted by its supervisor, maintenance ends.                       *)
Fairness ==
  /\ \A l \in Lanes : WF_vars(Reserve(l))
  /\ WF_vars(DrainStep)
  /\ \A a \in Agents : WF_vars(PassStep(a))
  /\ \A u \in Updates :
       WF_vars(TaskStep(u)) /\ WF_vars(RetryDue(u))
  /\ WF_vars(Start) /\ WF_vars(Exit) /\ WF_vars(Resume)

FairSpec == Spec /\ Fairness

-----------------------------------------------------------------------------
(* What has to hold.                                                       *)

(* Every variable stays in its domain.                                     *)
TypeOK ==
  /\ rows \in [Updates -> Row]
  /\ lastSeq \in Nat /\ clock \in Nat
  /\ chain \in [Lanes -> Seq(Receipt)]
  /\ proc \in {"down", "up", "stopping"} /\ paused \in BOOLEAN
  /\ drain \in {"off", "sweep", "pick", "wait", "closing"}
  /\ task \in [Updates -> Task]
  /\ held \in [Updates -> Settlement \cup {None}]
  /\ sweep \in [Agents -> Pass]
  /\ starts \in [Updates -> Nat]
  /\ aged \in SUBSET Updates
  /\ calls \in Nat /\ faults \in Nat /\ crashes \in Nat /\ stops \in Nat

(* An update reaches the business handlers at most once, whatever is       *)
(* redelivered, fails, crashes or restarts: "business work is never        *)
(* replayed" (update-dispatcher.ts:34, 141-286).                           *)
AtMostOnce == \A u \in Updates : starts[u] <= 1

(* Two updates of one user are never in processing together.               *)
LaneSerial ==
  \A u, v \in Updates : u # v /\ Lane[u] = Lane[v] =>
    /\ ~(rows[u].status = "PROCESSING" /\ rows[v].status = "PROCESSING")
    /\ ~(task[u].at = "business" /\ task[v].at = "business")

(* Business work begins for an update only when every earlier accepted     *)
(* update of the same user is settled, retries and restarts included.      *)
InLaneOrder ==
  [][\A u \in Updates : starts'[u] > starts[u] =>
       \A v \in Updates : rows[v].status # "ABSENT" /\ Earlier(v, u)
                             => rows[v].status \in Settled]_vars

(* Within a lane rows are numbered in the order MAX delivered them, even   *)
(* when an earlier insert is slow or fails (reserve(), 46-54).             *)
ArrivalOrder ==
  \A u, v \in Updates :
    /\ Lane[u] = Lane[v]
    /\ rows[u].status # "ABSENT" /\ rows[v].status # "ABSENT"
    => (rows[u].seq < rows[v].seq <=> rows[u].received < rows[v].received)

(* A row is claimed at most three times.                                   *)
ClaimBudget == \A u \in Updates : rows[u].attempts <= ClaimLimit

(* No settled row still carries a phone number, whichever path settled it. *)
ContactScrubbed ==
  \A u \in Contact : rows[u].status \in Settled => ~rows[u].kept

(* While the process runs, a claimed row is in the hands of a task, of the *)
(* settlements map or of a pass: otherwise nothing but a restart would     *)
(* ever move it, and its lane is blocked until then.                       *)
Handled(u) ==
  \/ task[u].at \in {"read", "business"} /\ task[u].lock = rows[u].lock
  \/ held[u] # None /\ held[u].lock = rows[u].lock
  \/ \E a \in Agents : sweep[a].step = "write" /\ sweep[a].row = u /\ sweep[a].lock = rows[u].lock

Stranded(u) == proc # "down" /\ rows[u].status = "PROCESSING" /\ ~Handled(u)

NoStrandedClaim == \A u \in Updates : ~Stranded(u)

(* Every accepted update is eventually settled, unless a claim of its user *)
(* is stranded, which takes four failing calls.                            *)
EventuallySettled ==
  \A u \in Updates :
    rows[u].status = "PENDING" ~>
      \/ rows[u].status \in Settled \cup {"ABSENT"}
      \/ \E v \in Updates : Lane[v] = Lane[u] /\ Stranded(v)

-----------------------------------------------------------------------------
(* The inbox implements the mailbox: what is open waits, in sequence order.*)
MailboxPlace == [u \in Updates |-> IF Open(u) THEN rows[u].seq ELSE 0]
MailboxAccepted == {u \in Updates : rows[u].status # "ABSENT"} \cup aged

Mail == INSTANCE Mailbox WITH
          accepted <- MailboxAccepted, place <- MailboxPlace, given <- starts

(* Crashes, retries and settlement passes included, the inbox behaves as   *)
(* one waiting line per user whose head is given out at most once.         *)
ImplementsMailbox == Mail!Spec

-----------------------------------------------------------------------------
(* The inductive invariant behind the safety properties.                   *)

(* Rows are numbered once, in insertion order. *)
Numbered ==
  /\ \A u \in Updates :
       rows[u].status # "ABSENT" => rows[u].seq > 0 /\ rows[u].seq <= lastSeq
  /\ \A u, v \in Updates :
       u # v /\ rows[u].status # "ABSENT" /\ rows[v].status # "ABSENT"
         => rows[u].seq # rows[v].seq

(* A claimed row is the first open row of its lane. *)
ClaimedFirst ==
  \A u, v \in Updates :
    rows[u].status = "PROCESSING" /\ Open(v) => ~Earlier(v, u)

(* Only a claimed row carries a lock. *)
LockedIffClaimed ==
  \A u \in Updates : rows[u].status = "PROCESSING" <=> rows[u].lock # None

(* A lock whose task may still start business work is not to be settled.   *)
LockUnsettled ==
  \A u \in Updates : task[u].at \in {"read", "business"} =>
    /\ task[u].lock # None
    /\ \A v \in Updates : v # u => task[v].lock # task[u].lock
    /\ \A v \in Updates : held[v] # None => held[v].lock # task[u].lock
    /\ \A a \in Agents : sweep[a].lock # task[u].lock

(* What may still return to PENDING never reached the business handlers.   *)
Fresh(u) == starts[u] = 0

RetryableFresh ==
  \A u \in Updates :
    /\ starts[u] <= 1
    /\ rows[u].status = "PENDING" => Fresh(u)
    /\ rows[u].status = "ABSENT" /\ u \notin aged => Fresh(u)
    /\ rows[u].status = "PROCESSING" =>
         /\ task[u].at = "read" /\ task[u].lock = rows[u].lock => Fresh(u)
         /\ held[u] # None /\ held[u].before /\ held[u].lock = rows[u].lock => Fresh(u)
         /\ \A a \in Agents : sweep[a].row = u /\ sweep[a].before
                               /\ sweep[a].lock = rows[u].lock => Fresh(u)

(* The purge spares whatever MAX may still deliver. *)
AgedGone ==
  /\ \A u \in aged : rows[u].status = "ABSENT"
  /\ \A l \in Lanes : \A i \in 1..Len(chain[l]) :
       chain[l][i].update \notin aged
  /\ proc = "down" => \A l \in Lanes : chain[l] = <<>>

(* Business work runs under the claim of its row, and never between lives. *)
BusinessOwns ==
  /\ \A u \in Updates : task[u].at = "business" => Owned(u, task[u].lock)
  /\ proc = "down" => Active = {}

(* A pass under way names a row and the lock it settles. *)
PassNamed ==
  \A a \in Agents : sweep[a].step # "off" => sweep[a].row \in Updates /\ sweep[a].lock # None

(* What waits in a lane is of the lane, in the order of delivery, and came *)
(* after everything the lane has in the table.                             *)
WaitingOrder ==
  /\ \A u \in Updates : rows[u].status # "ABSENT" => rows[u].received <= clock
  /\ \A l \in Lanes : \A i \in 1..Len(chain[l]) :
       /\ Lane[chain[l][i].update] = l /\ chain[l][i].at <= clock
       /\ \A j \in 1..Len(chain[l]) : j < i => chain[l][j].at < chain[l][i].at
       /\ \A u \in Updates : Lane[u] = l /\ rows[u].status # "ABSENT"
                             => rows[u].received < chain[l][i].at

(* A row that waits may be claimed once more. *)
ClaimsLeft == \A u \in Updates : rows[u].status = "PENDING" => rows[u].attempts < ClaimLimit

(* A settlement of an update with a phone number will scrub it. *)
WillScrub ==
  /\ \A u \in Contact : held[u] # None => held[u].before \/ held[u].contact
  /\ \A a \in Agents : sweep[a].step # "off" /\ sweep[a].row \in Contact
                         => sweep[a].before \/ sweep[a].contact

RowInv ==
  ArrivalOrder /\ WaitingOrder /\ ClaimBudget /\ ClaimsLeft /\ ContactScrubbed /\ WillScrub

SafetyInv ==
  TypeOK /\ Numbered /\ ClaimedFirst /\ LockedIffClaimed /\ LockUnsettled
  /\ RetryableFresh /\ AgedGone /\ BusinessOwns /\ PassNamed

=============================================================================
