------------------------------- MODULE Upkeep -------------------------------
(***************************************************************************)
(* The manual cleanup of maintenance/cleanup.service.ts beside the bot and *)
(* the retention process of Files, with the pause of                       *)
(* maintenance/runtime-maintenance.ts around it.                           *)
(*                                                                         *)
(* An administrator asks for a count, is shown it with a token, and        *)
(* confirms that token.  A worker then stops the bot's handlers and        *)
(* senders, waits for what runs, checks that nothing changed since the     *)
(* count, erases in one transaction, removes the files (again later, for   *)
(* those that fail) and lets the bot go on.  One bot process; the          *)
(* retention process is not stopped.                                       *)
(***************************************************************************)
EXTENDS Files, FiniteSets

CONSTANTS
  Admins,       \* administrators of the system chat
  MaxPreviews   \* bound: counts asked for

VARIABLES
  plan,       \* the SystemSetting maintenance.manual-cleanup
  confirm,    \* confirmations being handled: the row they read
  worker,     \* the cleanup worker: the row it read
  paused,     \* the bot's handlers and senders are stopped
  rights,     \* who is an administrator now
  issued,     \* tokens issued
  agreed      \* history: the confirmed plan's author, and the graph shown to that person

cleanup == <<plan, confirm, worker, paused, rights, issued, agreed>>
upkeepVars == <<vars, cleanup>>

(* graph is the fingerprint of what would be erased. *)
Graph == <<incident, attached>>
NoPlan == [status |-> "none", token |-> 0, actor |-> Null, graph |-> <<>>,
           expired |-> FALSE, files |-> {}]
At(step) == [at |-> step, row |-> NoPlan]
Resting == At("idle")

UpkeepInit ==
  /\ Init
  /\ plan = NoPlan /\ issued = 0 /\ agreed = NoPlan
  /\ confirm = [a \in Admins |-> Resting] /\ worker = Resting
  /\ paused = FALSE /\ rights = Admins

(* preview: the table lock keeps it apart from any other change of a plan. *)
Preview(a) ==
  /\ ~paused /\ a \in rights /\ issued < MaxPreviews
  /\ plan.status \notin {"queued", "files"}
  /\ issued' = issued + 1
  /\ plan' = [status |-> "preview", token |-> issued', actor |-> a, graph |-> Graph,
              expired |-> FALSE, files |-> {}]
  /\ UNCHANGED <<vars, confirm, worker, paused, rights, agreed>>

(* confirm reads the plan and compares kind, token, author and time ...    *)
Confirm(a) ==
  /\ ~paused /\ a \in rights /\ confirm[a].at = "idle"
  /\ plan.status = "preview" /\ plan.actor = a /\ ~plan.expired
  /\ confirm' = [confirm EXCEPT ![a] = [at |-> "claim", row |-> plan]]
  /\ UNCHANGED <<vars, plan, worker, paused, rights, issued, agreed>>

Unmoved(row) == plan = row

(* ... and queues the plan if it is still the row that was read. *)
ConfirmClaim(a) ==
  /\ confirm[a].at = "claim"
  /\ IF Unmoved(confirm[a].row)
     THEN /\ plan' = [plan EXCEPT !.status = "queued"]
          /\ agreed' = confirm[a].row
     ELSE UNCHANGED <<plan, agreed>>
  /\ confirm' = [confirm EXCEPT ![a] = Resting]
  /\ UNCHANGED <<vars, worker, paused, rights, issued>>

Cancel(a) ==
  /\ ~paused /\ a \in rights /\ plan.actor = a /\ plan.status = "preview"
  /\ plan' = NoPlan
  /\ UNCHANGED <<vars, confirm, worker, paused, rights, issued, agreed>>

(* Ten minutes pass; the author of the plan is an administrator no more. *)
Expire ==
  /\ plan.status \in {"preview", "queued"} /\ ~plan.expired
  /\ plan' = [plan EXCEPT !.expired = TRUE]
  /\ UNCHANGED <<vars, confirm, worker, paused, rights, issued, agreed>>

Demote(a) ==
  /\ a \in rights /\ rights' = rights \ {a}
  /\ plan.actor = a /\ plan.status \in {"preview", "queued"}
  /\ UNCHANGED <<vars, plan, confirm, worker, paused, issued, agreed>>

(* runPending, withRuntimePaused: nothing new starts from here on. *)
Pause ==
  /\ worker.at = "idle" /\ plan.status \in {"queued", "files"}
  /\ paused' = TRUE /\ worker' = [at |-> "waiting", row |-> plan]
  /\ UNCHANGED <<vars, plan, confirm, rights, issued, agreed>>

BotIdle == (\A w \in Writers : writer[w].at = "idle") /\ (\A a \in Admins : confirm[a].at = "idle")
HandlersIdle == \A a \in Admins : confirm[a].at = "idle"
Drained == BotIdle

Work ==
  /\ worker.at = "waiting" /\ Drained
  /\ worker' = IF worker.row.status = "queued" THEN [worker EXCEPT !.at = "execute"] ELSE At("files")
  /\ UNCHANGED <<vars, plan, confirm, paused, rights, issued, agreed>>

SameExceptTime == plan.status = "queued" /\ plan.actor \in rights /\ ~plan.expired /\ ~lock.fresh
(* What execute checks inside the transaction, under the table locks. *)
MayErase ==
  /\ plan = worker.row /\ plan.actor \in rights /\ ~plan.expired
  /\ ~lock.fresh
  /\ Graph = plan.graph

Doomed == {i \in Incidents : incident[i] # "gone"}
RowFiles == {k \in Keys : (k \in AnswerKeys /\ Of[k] \in Doomed /\ Referenced(k))}
(* Files that a row outside the erased graph still names stay. *)
Unshared(files) == {k \in files : ~(k \in StagedKeys /\ outbox[k] # "none")}

Erase ==
  /\ worker.at = "execute" /\ MayErase
  /\ incident' = [i \in Incidents |-> "gone"]
  /\ attached' = {}
  /\ outbox' = [k \in Keys |-> IF k \in AnswerKeys /\ Of[k] \in Doomed THEN "none" ELSE outbox[k]]
  /\ plan' = [plan EXCEPT !.status = "files", !.files = Unshared(RowFiles)]
  /\ \/ worker' = At("files") /\ NoFault
     \/ worker' = At("resume") /\ Fault
  /\ agreed' = NoPlan
  /\ UNCHANGED <<writer, landing, used, owned, store, entries, sweep, lock,
                 confirm, paused, rights, issued>>

Ended(status) == [NoPlan EXCEPT !.status = status]

(* The catch block: a plan still queued has failed, and nothing is erased. *)
NotErased ==
  /\ worker.at = "execute"
  /\ (~MayErase /\ NoFault) \/ Fault
  /\ plan' = IF plan.token = worker.row.token /\ plan.status = "queued"
             THEN Ended("failed") ELSE plan
  /\ worker' = At("resume") /\ agreed' = NoPlan
  /\ UNCHANGED <<incident, bot, store, entries, sweep, lock, confirm, paused, rights, issued>>

(* removeFiles: what cannot be removed now is tried again later. *)
RemoveFiles ==
  /\ worker.at = "files"
  /\ \/ /\ plan' = Ended("done")
        /\ stored' = stored \ plan.files /\ NoFault
     \/ /\ plan.files # {} /\ Fault
        /\ \E left \in SUBSET plan.files :
             plan' = [plan EXCEPT !.files = left] /\ stored' = stored \ (plan.files \ left)
  /\ worker' = At("resume")
  /\ UNCHANGED <<incident, bot, late, entries, sweep, lock, confirm, paused, rights, issued, agreed>>

Resume ==
  /\ worker.at = "resume"
  /\ paused' = FALSE /\ worker' = Resting
  /\ UNCHANGED <<vars, plan, confirm, rights, issued, agreed>>

(* The bot process dies and is started again: what it was doing is gone.   *)
BotDies ==
  /\ Fault
  /\ writer' = [w \in Writers |-> IdleWriter]
  /\ confirm' = [a \in Admins |-> Resting] /\ worker' = Resting /\ paused' = FALSE
  /\ UNCHANGED <<incident, attached, outbox, landing, used, owned, store, entries, sweep, lock,
                 plan, rights, issued, agreed>>

(* While the bot is paused its transactions may finish, but none starts;   *)
(* an INSERT whose result nobody knows may still be committed.             *)
Bot ==
  \/ \E k \in Keys : Lands(k)
  \/ /\ Writing \/ (\E i \in Incidents : Age(i) \/ Reopen(i))
     /\ paused => /\ \A w \in Writers : writer[w].at = "idle" => writer'[w].at = "idle"
                  /\ worker.at # "waiting" => UNCHANGED <<incident, outbox>>

Cleaning ==
  \/ \E a \in Admins : Preview(a) \/ Confirm(a) \/ ConfirmClaim(a) \/ Cancel(a) \/ Demote(a)
  \/ Expire \/ Pause \/ Work \/ Erase \/ NotErased \/ RemoveFiles \/ Resume \/ BotDies

UpkeepNext ==
  \/ (Bot \/ Sweeping \/ LockStale) /\ UNCHANGED cleanup
  \/ Cleaning

UpkeepSpec == UpkeepInit /\ [][UpkeepNext]_upkeepVars

-----------------------------------------------------------------------------
(* No answer file is forgotten: once a row named it, it is gone from the   *)
(* storage, still named by a row, or listed for deletion in the journal or *)
(* in the plan, whichever of the two cleanups erased its incident.         *)
NoFileLost ==
  \A k \in owned \cap AnswerKeys :
    k \notin stored \/ Referenced(k) \/ k \in journal
      \/ (plan.status = "files" /\ k \in plan.files)

(* A manual erasure erases exactly what an administrator was shown and     *)
(* confirmed, while that person still is one and no transaction of the bot *)
(* and no retention sweep with a valid lock is under way.                  *)
ErasedAsShown ==
  [][(plan.status = "queued" /\ plan'.status = "files") =>
       /\ agreed.actor = plan.actor /\ agreed.graph = Graph /\ plan.actor \in rights
       /\ \A w \in Writers : writer[w].at = "idle"
       /\ ~lock.fresh]_upkeepVars
=============================================================================
