-------------------------------- MODULE Files --------------------------------
(***************************************************************************)
(* Files in the storage, the rows that refer to them, and the retention    *)
(* sweep that deletes both: media/media.service.ts,                        *)
(* retention/retention.service.ts, retention/file-deletions.ts, the        *)
(* staging in max/max-message.service.ts and the trigger of the migration  *)
(* 20261006230000_storage_deletion_fence.                                  *)
(*                                                                         *)
(* An answer file is saved first and named by an AnswerAttachment row      *)
(* later; other transactions copy the name into outbox rows.  A staged     *)
(* file belongs to one outbox row and is removed when the row is sent.     *)
(* The sweep, a process of its own, deletes an old incident with its rows  *)
(* and leaves a journal entry for each file; the journal is worked off     *)
(* outside any transaction.  Before a removal the key is fenced for ever:  *)
(* the trigger refuses every later reference, so a removal that timed out  *)
(* may complete whenever it likes.                                         *)
(***************************************************************************)
EXTENDS Integers

CONSTANTS
  Incidents,
  AnswerKeys,   \* keys of files that answers carry
  StagedKeys,   \* keys outbox/<id>/<index> of files staged for one row
  Of,           \* Of[k]: the incident an answer key belongs to
  Writers,      \* transactions of the bot that are under way
  Sweepers,     \* retention processes
  Null,
  MaxAttempts,  \* MAX_ATTEMPTS of file-deletions.ts
  MaxTroubles   \* bound: calls that fail, processes that die, reopenings

Keys == AnswerKeys \cup StagedKeys

ASSUME FilesAssumption ==
  /\ AnswerKeys \cap StagedKeys = {} /\ Null \notin Keys \cup Sweepers
  /\ Of \in [AnswerKeys -> Incidents]
  /\ MaxAttempts \in Nat \ {0}
  /\ MaxTroubles \in Nat

VARIABLES
  incident,   \* live, ended (terminal, and past the retention window) or gone
  attached,   \* keys named by an AnswerAttachment row
  outbox,     \* status of the outbox row that names the key
  stored,     \* keys present in the storage
  fence,      \* fenced keys
  journal,    \* keys with a deletion entry
  progress,   \* the state record of a deletion entry
  writer,     \* the bot's transactions
  sweep,      \* the retention processes
  lock,       \* maintenance.incident-retention: owner, not yet stale
  late,       \* removals that timed out and still run in the storage
  landing,    \* inserts of unknown result that may still be committed
  used,       \* history: keys ever saved (keys are random UUIDs)
  owned,      \* history: keys a row ever named
  troubles    \* budget spent

bot     == <<attached, outbox, writer, landing, used, owned>>
store   == <<stored, late>>
entries == <<fence, journal, progress>>
vars == <<incident, bot, store, entries, sweep, lock, troubles>>

IdleWriter  == [at |-> "idle", key |-> Null]
IdleSweeper == [at |-> "idle", key |-> Null, attempts |-> 0]
(* due: nextAttemptAt has come. *)
Fresh == [attempts |-> 0, status |-> "pending", due |-> TRUE]

Init ==
  /\ incident = [i \in Incidents |-> "live"]
  /\ attached = {} /\ stored = {} /\ fence = {} /\ journal = {} /\ late = {}
  /\ landing = {} /\ used = {} /\ owned = {}
  /\ outbox = [k \in Keys |-> "none"]
  /\ progress = [k \in Keys |-> Fresh]
  /\ writer = [w \in Writers |-> IdleWriter]
  /\ sweep = [s \in Sweepers |-> IdleSweeper]
  /\ lock = [owner |-> Null, fresh |-> FALSE]
  /\ troubles = 0

Fault   == troubles < MaxTroubles /\ troubles' = troubles + 1
NoFault == UNCHANGED troubles

WriterTo(w, at, k) == writer' = [writer EXCEPT ![w] = [at |-> at, key |-> k]]
Rest(w) == writer' = [writer EXCEPT ![w] = IdleWriter]

(* Some committed row names the key. *)
Referenced(k) == k \in attached \/ outbox[k] # "none"

-----------------------------------------------------------------------------
(* The bot's transactions. *)

(* ingest, or the staging loop of enqueue: the file is in the storage      *)
(* before any row names it.  When the save fails its key is removed.       *)
SaveFile(w, k) ==
  /\ writer[w].at = "idle" /\ k \notin used
  /\ k \in AnswerKeys => incident[Of[k]] = "live"
  /\ used' = used \cup {k}
  /\ \/ /\ stored' = stored \cup {k}
        /\ WriterTo(w, IF k \in AnswerKeys THEN "answer" ELSE "staged", k)
        /\ NoFault
     \/ Fault /\ UNCHANGED <<stored, writer>>
  /\ UNCHANGED <<incident, attached, outbox, landing, owned, late, entries, sweep, lock>>

(* submitAnswer: the transaction commits, or its COMMIT has an unknown     *)
(* result; the files are kept in either case.                              *)
SubmitAnswer(w) ==
  LET k == writer[w].key IN
  /\ writer[w].at = "answer" /\ incident[Of[k]] = "live"
  /\ \/ /\ attached' = attached \cup {k} /\ outbox' = [outbox EXCEPT ![k] = "open"]
        /\ owned' = owned \cup {k}
        /\ NoFault \/ Fault
     \/ Fault /\ UNCHANGED <<attached, outbox, owned>>
  /\ Rest(w)
  /\ UNCHANGED <<incident, landing, used, store, entries, sweep, lock>>

(* The body of the transaction failed, so nothing was committed: the files *)
(* are discarded, unless the absence of the answer cannot be confirmed.    *)
SubmitFails(w) ==
  /\ writer[w].at = "answer"
  /\ stored' = stored \ {writer[w].key} \/ stored' = stored
  /\ Fault /\ Rest(w)
  /\ UNCHANGED <<incident, attached, outbox, landing, used, owned, late, entries, sweep, lock>>

(* enqueue: the INSERT of the row.  Its result may be unknown, and then it *)
(* may be committed later (landing); a unique violation is a certain       *)
(* refusal, and only then, or before the INSERT, the files are removed.    *)
Insert(w) ==
  LET k == writer[w].key IN
  /\ writer[w].at = "staged"
  /\ \/ /\ outbox' = [outbox EXCEPT ![k] = "open"] /\ owned' = owned \cup {k}
        /\ UNCHANGED landing /\ Rest(w) /\ NoFault
     \/ /\ landing' = landing \cup {k} /\ WriterTo(w, "doubt", k)
        /\ Fault /\ UNCHANGED <<outbox, owned>>
  /\ UNCHANGED <<incident, attached, used, store, entries, sweep, lock>>

InsertRefused(w) ==
  /\ writer[w].at = "staged"
  /\ stored' = stored \ {writer[w].key}
  /\ Fault /\ Rest(w)
  /\ UNCHANGED <<incident, attached, outbox, landing, used, owned, late, entries, sweep, lock>>

(* What an INSERT of unknown result comes to.                              *)
Lands(k) ==
  /\ k \in landing
  /\ landing' = landing \ {k}
  /\ \/ outbox' = [outbox EXCEPT ![k] = "open"] /\ owned' = owned \cup {k}
     \/ UNCHANGED <<outbox, owned>>
  /\ UNCHANGED <<incident, attached, writer, used, store, entries, sweep, lock, troubles>>

AbsenceDeletes(w) == stored' = stored \ (IF outbox[writer[w].key] = "none"
                                         THEN {writer[w].key} ELSE {})
(* The read that reconciles it authorizes no removal, whatever it finds.   *)
Reconciled(w) == UNCHANGED stored

Reconcile(w) ==
  /\ writer[w].at = "doubt"
  /\ Reconciled(w) /\ Rest(w)
  /\ UNCHANGED <<incident, attached, outbox, landing, used, owned, late, entries, sweep, lock, troubles>>

(* complete, then cleanupAttachments: the staged file of a sent row goes.  *)
(* The process may die in between, and the file stays.                     *)
SendRow(k) ==
  /\ outbox[k] = "open"
  /\ outbox' = [outbox EXCEPT ![k] = "sent"]
  /\ \/ stored' = stored \ ({k} \cap StagedKeys) /\ NoFault
     \/ k \in StagedKeys /\ Fault /\ UNCHANGED stored
  /\ UNCHANGED <<incident, attached, writer, landing, used, owned, late, entries, sweep, lock>>

(* A transaction that copies the answer's files into a new row (approval,  *)
(* correction, resend) first reads their names ...                         *)
ReadNames(w, k) ==
  /\ writer[w].at = "idle" /\ k \in attached
  /\ WriterTo(w, "names", k)
  /\ UNCHANGED <<incident, attached, outbox, landing, used, owned, store, entries, sweep, lock, troubles>>

(* ... then inserts the row.  guard_retired_storage_reference takes the    *)
(* key's lock, held until the commit, and refuses a fenced key.            *)
Admitted(k) == k \notin fence

CopyNames(w) ==
  /\ writer[w].at = "names"
  /\ IF Admitted(writer[w].key) THEN WriterTo(w, "copied", writer[w].key) ELSE Rest(w)
  /\ UNCHANGED <<incident, attached, outbox, landing, used, owned, store, entries, sweep, lock, troubles>>

(* OutboundMessage has no foreign key: the incident may be gone by now.    *)
CommitCopy(w) ==
  /\ writer[w].at = "copied"
  /\ \/ outbox' = [outbox EXCEPT ![writer[w].key] = "open"] /\ NoFault
     \/ Fault /\ UNCHANGED outbox
  /\ Rest(w)
  /\ UNCHANGED <<incident, attached, landing, used, owned, store, entries, sweep, lock>>

(* A transaction of the bot ends with its process. *)
WriterDies(w) ==
  /\ writer[w].at # "idle" /\ Fault
  /\ Rest(w)
  /\ UNCHANGED <<incident, attached, outbox, landing, used, owned, store, entries, sweep, lock>>

(* The incident is completed and its 90 days pass; a resident or a         *)
(* reviewer may reopen it.                                                 *)
Age(i) ==
  /\ incident[i] = "live"
  /\ incident' = [incident EXCEPT ![i] = "ended"]
  /\ UNCHANGED <<bot, store, entries, sweep, lock, troubles>>

Reopen(i) ==
  /\ incident[i] = "ended" /\ Fault
  /\ incident' = [incident EXCEPT ![i] = "live"]
  /\ UNCHANGED <<bot, store, entries, sweep, lock>>

-----------------------------------------------------------------------------
(* The retention sweep. *)

SweepTo(s, at, k, n) ==
  sweep' = [sweep EXCEPT ![s] = [at |-> at, key |-> k, attempts |-> n]]

(* acquireLock: the lock is free, or older than two hours. *)
StartSweep(s) ==
  /\ sweep[s].at = "idle" /\ ~lock.fresh
  /\ lock' = [owner |-> s, fresh |-> TRUE]
  /\ SweepTo(s, "incidents", Null, 0)
  /\ UNCHANGED <<incident, bot, store, entries, troubles>>

(* releaseLock deletes the lock only if it is still this sweep's. *)
Unlock(s) == lock' = IF lock.owner = s THEN [owner |-> Null, fresh |-> FALSE] ELSE lock

LockStale ==
  /\ lock.fresh /\ lock' = [lock EXCEPT !.fresh = FALSE]
  /\ UNCHANGED <<incident, bot, store, entries, sweep, troubles>>

(* One transaction: the row lock, eligibility again, the dependent rows,   *)
(* the incident, the journal entries.                                      *)
Eligible(i) == incident[i] = "ended"
SentFilesOf(i) == {k \in attached : Of[k] = i /\ outbox[k] = "sent"}
FilesOf(i) == {k \in attached : Of[k] = i}

Delete(i) ==
  /\ incident' = [incident EXCEPT ![i] = "gone"]
  /\ attached' = {k \in attached : Of[k] # i}
  /\ outbox' = [k \in Keys |-> IF k \in AnswerKeys /\ Of[k] = i THEN "none" ELSE outbox[k]]
  /\ journal' = journal \cup FilesOf(i)

DeleteIncident(s, i) ==
  /\ sweep[s].at = "incidents" /\ Eligible(i) /\ Delete(i)
  /\ NoFault \/ Fault     \* the acknowledgement may be lost; nothing depends on it
  /\ UNCHANGED <<writer, landing, used, owned, store, fence, progress, sweep, lock>>

DrainJournal(s) ==
  /\ sweep[s].at = "incidents"
  /\ SweepTo(s, "drain", Null, 0)
  /\ UNCHANGED <<incident, bot, store, entries, lock, troubles>>

(* drainFileDeletions reads the state of an entry ... *)
Examine(s, k) ==
  /\ sweep[s].at = "drain" /\ k \in journal
  /\ progress[k].status = "pending" /\ progress[k].due
  /\ SweepTo(s, "examined", k, progress[k].attempts)
  /\ UNCHANGED <<incident, bot, store, entries, lock, troubles>>

Saved(k, n, status) ==
  progress' = [progress EXCEPT ![k] = [attempts |-> n, status |-> status, due |-> FALSE]]

(* ... and spends an attempt before it does anything, so that a crash      *)
(* cannot win it back.                                                     *)
Begin(s) ==
  LET n == sweep[s].attempts + 1  k == sweep[s].key IN
  /\ sweep[s].at = "examined"
  /\ IF n > MaxAttempts
     THEN Saved(k, MaxAttempts, "exhausted") /\ SweepTo(s, "drain", Null, 0)
     ELSE Saved(k, n, "pending") /\ SweepTo(s, "fence", k, n)
  /\ UNCHANGED <<incident, bot, store, fence, journal, lock, troubles>>

Outcome(n) == IF n >= MaxAttempts THEN "exhausted" ELSE "pending"

KeyLocked(k) == \E w \in Writers : writer[w] = [at |-> "copied", key |-> k]
(* Under the key's lock: the entry is still there and no row names the key *)
(* (in any of the seven tables).                                           *)
MayFence(k) == k \in journal /\ ~Referenced(k)

Fence(s) ==
  LET k == sweep[s].key  n == sweep[s].attempts IN
  /\ sweep[s].at = "fence" /\ ~KeyLocked(k)
  /\ IF MayFence(k)
     THEN fence' = fence \cup {k} /\ SweepTo(s, "remove", k, n) /\ UNCHANGED progress
     ELSE Saved(k, n, Outcome(n)) /\ SweepTo(s, "drain", Null, 0) /\ UNCHANGED fence
  /\ UNCHANGED <<incident, bot, store, journal, lock, troubles>>

(* The catch block, also reached when the wait for the key's lock exceeds  *)
(* two seconds.  What failed may have taken effect.  If the state cannot   *)
(* be saved either, the sweep ends.                                        *)
EntryFails(s) ==
  LET n == sweep[s].attempts  k == sweep[s].key IN
  /\ \/ sweep[s].at = "fence" /\ KeyLocked(k) /\ NoFault /\ UNCHANGED <<fence, journal, stored>>
     \/ /\ sweep[s].at = "fence" /\ Fault /\ UNCHANGED <<journal, stored>>
        /\ fence' = fence \/ (~KeyLocked(k) /\ MayFence(k) /\ fence' = fence \cup {k})
     \/ /\ sweep[s].at = "remove" /\ Fault /\ UNCHANGED <<fence, journal>>
        /\ stored' \in {stored, stored \ {k}}
     \/ /\ sweep[s].at = "finish" /\ Fault /\ UNCHANGED <<fence, stored>>
        /\ journal' \in {journal, journal \ {k}}
  /\ \/ Saved(k, n, Outcome(n)) /\ SweepTo(s, "drain", Null, 0) /\ UNCHANGED lock
     \/ UNCHANGED progress /\ SweepTo(s, "idle", Null, 0) /\ Unlock(s)
  /\ UNCHANGED <<incident, bot, late>>

(* storage.remove raced with a timer. *)
Remove(s) ==
  LET k == sweep[s].key  n == sweep[s].attempts IN
  /\ sweep[s].at = "remove"
  /\ \/ stored' = stored \ {k} /\ SweepTo(s, "finish", k, n) /\ NoFault /\ UNCHANGED <<late, progress>>
     \/ late' = late \cup {k} /\ Saved(k, n, "unknown") /\ SweepTo(s, "drain", Null, 0)
        /\ Fault /\ UNCHANGED stored
  /\ UNCHANGED <<incident, bot, fence, journal, lock>>

LateRemoval(k) ==
  /\ k \in late /\ late' = late \ {k} /\ stored' = stored \ {k}
  /\ UNCHANGED <<incident, bot, entries, sweep, lock, troubles>>

Finish(s) ==
  LET k == sweep[s].key IN
  /\ sweep[s].at = "finish"
  /\ journal' = journal \ {k} /\ progress' = [progress EXCEPT ![k] = Fresh]
  /\ SweepTo(s, "drain", Null, 0)
  /\ UNCHANGED <<incident, bot, store, fence, lock, troubles>>

EndSweep(s) ==
  /\ sweep[s].at = "drain"
  /\ \A k \in journal : progress[k].status # "pending" \/ ~progress[k].due
  /\ SweepTo(s, "idle", Null, 0)
  /\ Unlock(s)
  /\ UNCHANGED <<incident, bot, store, entries, troubles>>

(* A removal under way when the process dies may still be carried out.     *)
SweeperDies(s) ==
  /\ sweep[s].at # "idle" /\ Fault
  /\ late' = late \cup (IF sweep[s].at = "remove" THEN {sweep[s].key} ELSE {})
  /\ SweepTo(s, "idle", Null, 0)
  /\ UNCHANGED <<incident, bot, stored, entries, lock>>

EntryDue(k) ==
  /\ k \in journal /\ ~progress[k].due
  /\ progress' = [progress EXCEPT ![k].due = TRUE]
  /\ UNCHANGED <<incident, bot, store, fence, journal, sweep, lock, troubles>>

Writing ==
  \/ \E w \in Writers :
       \/ SubmitAnswer(w) \/ SubmitFails(w) \/ Insert(w) \/ InsertRefused(w)
       \/ Reconcile(w) \/ CopyNames(w) \/ CommitCopy(w) \/ WriterDies(w)
       \/ \E k \in Keys : SaveFile(w, k) \/ ReadNames(w, k)
  \/ \E k \in Keys : Lands(k) \/ SendRow(k)

Sweeping ==
  \/ \E s \in Sweepers :
       \/ StartSweep(s) \/ DrainJournal(s) \/ Begin(s) \/ Fence(s) \/ EntryFails(s)
       \/ Remove(s) \/ Finish(s) \/ EndSweep(s) \/ SweeperDies(s)
       \/ \E i \in Incidents : DeleteIncident(s, i)
       \/ \E k \in Keys : Examine(s, k)
  \/ \E k \in Keys : LateRemoval(k) \/ EntryDue(k)

Next ==
  \/ Writing \/ Sweeping \/ LockStale
  \/ \E i \in Incidents : Age(i) \/ Reopen(i)

Spec == Init /\ [][Next]_vars

-----------------------------------------------------------------------------
TypeOK ==
  /\ incident \in [Incidents -> {"live", "ended", "gone"}]
  /\ attached \subseteq AnswerKeys
  /\ outbox \in [Keys -> {"none", "open", "sent"}]
  /\ stored \subseteq Keys /\ fence \subseteq AnswerKeys /\ journal \subseteq AnswerKeys
  /\ late \subseteq AnswerKeys /\ landing \subseteq StagedKeys
  /\ used \subseteq Keys /\ owned \subseteq Keys
  /\ progress \in [Keys -> [attempts : 0..MaxAttempts, due : BOOLEAN,
                            status : {"pending", "exhausted", "unknown"}]]
  /\ writer \in [Writers -> [at : {"idle", "answer", "names", "copied", "staged", "doubt"},
                            key : Keys \cup {Null}]]
  /\ sweep \in [Sweepers -> [at : {"idle", "incidents", "drain", "examined", "fence", "remove",
                                   "finish"},
                             key : Keys \cup {Null}, attempts : Nat]]
  /\ \A w \in Writers :
       \/ writer[w] = IdleWriter
       \/ writer[w].at \in {"answer", "names", "copied"} /\ writer[w].key \in AnswerKeys
       \/ writer[w].at \in {"staged", "doubt"} /\ writer[w].key \in StagedKeys
  /\ \A s \in Sweepers :
       \/ sweep[s].at \in {"idle", "incidents", "drain"} /\ sweep[s].key = Null
       \/ /\ sweep[s].at \in {"examined", "fence", "remove", "finish"}
          /\ sweep[s].key \in AnswerKeys /\ sweep[s].attempts \in 0..MaxAttempts
  /\ lock \in [owner : Sweepers \cup {Null}, fresh : BOOLEAN]

(* A file named by an attachment or by an outbox row that has still to be  *)
(* sent is in the storage: whatever failed while it was stored, and        *)
(* however late a removal completes.                                       *)
FilesKept == attached \cup {k \in Keys : outbox[k] = "open"} \subseteq stored

(* No answer file is forgotten: once a row named it, it is gone from the   *)
(* storage, still named by a row, or in the deletion journal.              *)
NothingForgotten ==
  \A k \in owned \cap AnswerKeys : k \notin stored \/ Referenced(k) \/ k \in journal
=============================================================================
