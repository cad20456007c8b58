---------------------------- MODULE UpkeepProofs ----------------------------
(***************************************************************************)
(* Proofs about Files and Upkeep, for every number of incidents, files,    *)
(* transactions, retention processes and administrators and every bound.   *)
(***************************************************************************)
EXTENDS Upkeep, TLAPS

(* What a transaction of the bot holds: a file of its own that nothing     *)
(* names yet, or the name of a file that had a row when it was read.       *)
Own(w) == writer[w].at \in {"answer", "staged"}
Borrows(w) == writer[w].at \in {"names", "copied"}

WritersInv ==
  /\ \A w \in Writers :
       /\ Own(w) => writer[w].key \in stored \ (owned \cup landing)
       /\ Borrows(w) => writer[w].key \in owned
       /\ writer[w].at = "names" => writer[w].key \in stored \cup fence
       /\ writer[w].at = "copied" => writer[w].key \in stored \ fence
  /\ \A v, w \in Writers : v # w /\ Own(v) /\ Own(w) => writer[v].key # writer[w].key

(* Where names come from and go to. *)
NamesInv ==
  /\ stored \cup owned \subseteq used
  /\ landing \subseteq stored \ owned
  /\ \A k \in Keys : Referenced(k) => k \in owned
  /\ journal \subseteq owned
  /\ \A k \in owned \cap AnswerKeys : k \in attached <=> incident[Of[k]] # "gone"

(* What is fenced may go: no row names it, and none can any more. *)
FenceInv ==
  /\ fence \subseteq owned
  /\ \A k \in fence : ~Referenced(k)
  /\ late \subseteq fence
  /\ \A s \in Sweepers :
       /\ sweep[s].at \in {"remove", "finish"} => sweep[s].key \in fence
       /\ sweep[s].at = "finish" => sweep[s].key \notin stored

(* The manual cleanup: the plan, who holds it, and what it agreed on. *)
Graphs == ([Incidents -> {"live", "ended", "gone"}] \X SUBSET AnswerKeys) \cup {<<>>}
Plans == [status : {"none", "preview", "queued", "files", "failed", "done"}, token : Nat,
          actor : Admins \cup {Null}, graph : Graphs, expired : BOOLEAN, files : SUBSET AnswerKeys]

CleanupTypes ==
  /\ plan \in Plans /\ agreed \in Plans
  /\ issued \in Nat /\ paused \in BOOLEAN /\ rights \subseteq Admins
  /\ confirm \in [Admins -> [at : {"idle", "claim"}, row : Plans]]
  /\ worker \in [at : {"idle", "waiting", "execute", "files", "resume"}, row : Plans]

CleanupInv ==
  /\ \A a \in Admins : confirm[a].at = "claim" => confirm[a].row.status = "preview"
  /\ plan.status = "queued" => agreed.actor = plan.actor /\ agreed.graph = plan.graph
  /\ worker.at # "idle" => paused
  /\ worker.at = "waiting" => worker.row.status \in {"queued", "files"}
  /\ worker.at = "waiting" /\ worker.row.status = "files" => plan.status = "files"
  /\ worker.at \in {"waiting", "execute"} /\ worker.row.status = "queued" =>
       plan.status = "queued" /\ plan.token = worker.row.token
  /\ worker.at = "execute" => worker.row.status = "queued"
  /\ worker.at = "files" => plan.status = "files"
  /\ worker.at \in {"execute", "files"} => \A w \in Writers : writer[w].at = "idle"

(* What the manual cleanup has yet to remove nobody can name any more. *)
PlanInv ==
  plan.status = "files" =>
    \A k \in plan.files :
      /\ k \in owned /\ incident[Of[k]] = "gone" /\ outbox[k] = "none"
      /\ \A w \in Writers : Borrows(w) => writer[w].key # k

FInv == TypeOK /\ WritersInv /\ NamesInv /\ FenceInv /\ FilesKept
IInv == FInv /\ CleanupTypes /\ CleanupInv /\ PlanInv /\ NoFileLost

(* The parts of the types that a step can disturb. *)
StoreTypes ==
  /\ incident \in [Incidents -> {"live", "ended", "gone"}]
  /\ attached \subseteq AnswerKeys
  /\ outbox \in [Keys -> {"none", "open", "sent"}]
  /\ stored \subseteq Keys /\ fence \subseteq AnswerKeys /\ journal \subseteq AnswerKeys
  /\ late \subseteq AnswerKeys /\ landing \subseteq StagedKeys
  /\ used \subseteq Keys /\ owned \subseteq Keys
  /\ lock \in [owner : Sweepers \cup {Null}, fresh : BOOLEAN]

ProgressTypes ==
  progress \in [Keys -> [attempts : 0..MaxAttempts, due : BOOLEAN,
                         status : {"pending", "exhausted", "unknown"}]]

WriterAts == {"idle", "answer", "names", "copied", "staged", "doubt"}
Written(r) ==
  \/ r = IdleWriter
  \/ r.at \in {"answer", "names", "copied"} /\ r.key \in AnswerKeys
  \/ r.at \in {"staged", "doubt"} /\ r.key \in StagedKeys
WriterTypes ==
  /\ writer \in [Writers -> [at : WriterAts, key : Keys \cup {Null}]]
  /\ \A w \in Writers : Written(writer[w])

SweepAts == {"idle", "incidents", "drain", "examined", "fence", "remove", "finish"}
Swept(r) ==
  \/ r.at \in {"idle", "incidents", "drain"} /\ r.key = Null
  \/ /\ r.at \in {"examined", "fence", "remove", "finish"}
     /\ r.key \in AnswerKeys /\ r.attempts \in 0..MaxAttempts
SweepTypes ==
  /\ sweep \in [Sweepers -> [at : SweepAts, key : Keys \cup {Null}, attempts : Nat]]
  /\ \A s \in Sweepers : Swept(sweep[s])

(* Together they are the types. *)
LEMMA TypeParts ==
  TypeOK <=> StoreTypes /\ ProgressTypes /\ WriterTypes /\ SweepTypes
BY DEF TypeOK, StoreTypes, ProgressTypes, WriterTypes, SweepTypes, WriterAts, Written, SweepAts, Swept

(* The same after a step. *)
LEMMA TypePartsNext ==
  StoreTypes' /\ ProgressTypes' /\ WriterTypes' /\ SweepTypes' => TypeOK'
BY DEF TypeOK, StoreTypes, ProgressTypes, WriterTypes, SweepTypes, WriterAts, Written, SweepAts, Swept

(* A transaction moves on; the others stay where they are. *)
LEMMA WriterMoves ==
  ASSUME WriterTypes, NEW w \in Writers, NEW at \in WriterAts, NEW k \in Keys \cup {Null},
         WriterTo(w, at, k), Written([at |-> at, key |-> k])
  PROVE  /\ WriterTypes'
         /\ writer'[w] = [at |-> at, key |-> k]
         /\ \A v \in Writers : v # w => writer'[v] = writer[v]
BY DEF WriterTypes, WriterTo

(* A retention process moves on; the others stay where they are. *)
LEMMA SweepMoves ==
  ASSUME SweepTypes, NEW s \in Sweepers, NEW at \in SweepAts, NEW k \in Keys \cup {Null},
         NEW n \in Nat, SweepTo(s, at, k, n), Swept([at |-> at, key |-> k, attempts |-> n])
  PROVE  /\ SweepTypes'
         /\ sweep'[s] = [at |-> at, key |-> k, attempts |-> n]
         /\ \A r \in Sweepers : r # s => sweep'[r] = sweep[r]
BY DEF SweepTypes, SweepTo

(* The state of an entry is saved. *)
LEMMA SavedTypes ==
  ASSUME ProgressTypes, NEW k \in Keys, NEW n \in 0..MaxAttempts,
         NEW status \in {"pending", "exhausted", "unknown"}, Saved(k, n, status)
  PROVE  ProgressTypes'
BY DEF ProgressTypes, Saved

(* What the code decides after a failure is a status. *)
LEMMA OutcomeStatus ==
  ASSUME NEW n \in Nat
  PROVE  Outcome(n) \in {"pending", "exhausted", "unknown"}
BY DEF Outcome

(* The file a retention process works on. *)
LEMMA SweepKey ==
  ASSUME TypeOK, NEW s \in Sweepers, sweep[s].at \in {"examined", "fence", "remove", "finish"}
  PROVE  sweep[s].key \in AnswerKeys /\ sweep[s].key \in Keys /\ sweep[s].attempts \in 0..MaxAttempts
BY FilesAssumption DEF TypeOK, Keys

(* Every step of Files keeps the types. *)
LEMMA TypesStep ==
  ASSUME TypeOK, Next
  PROVE  TypeOK'
<1>1. ASSUME NEW w \in Writers, SubmitAnswer(w) PROVE TypeOK'
  BY <1>1, FilesAssumption DEF SubmitAnswer, NoFault, Fault, Rest, store, entries,
     IdleWriter, Keys, TypeOK
<1>2. ASSUME NEW w \in Writers, SubmitFails(w) PROVE TypeOK'
  BY <1>2, FilesAssumption DEF SubmitFails, Fault, Rest, entries, IdleWriter, Keys, TypeOK
<1>3. ASSUME NEW w \in Writers, Insert(w) PROVE TypeOK'
  <2> DEFINE k == writer[w].key
  <2>1. k \in StagedKeys /\ StoreTypes /\ ProgressTypes /\ WriterTypes /\ SweepTypes
    BY <1>3, TypeParts DEF Insert, WriterTypes, Written, IdleWriter
  <2>2. WriterTypes'
    <3>1. CASE Rest(w)
      BY <2>1, <3>1 DEF Rest, WriterTypes, WriterAts, Written, IdleWriter
    <3>2. CASE WriterTo(w, "doubt", k)
      BY <2>1, <3>2, WriterMoves DEF WriterAts, Written, Keys
    <3> QED BY <1>3, <3>1, <3>2 DEF Insert
  <2>3. StoreTypes'
    BY <1>3, <2>1, FilesAssumption DEF Insert, store, entries, StoreTypes, Keys
  <2>4. ProgressTypes' /\ SweepTypes'
    BY <1>3, <2>1 DEF Insert, entries, ProgressTypes, SweepTypes
  <2> QED BY <2>2, <2>3, <2>4, TypePartsNext
<1>4. ASSUME NEW w \in Writers, InsertRefused(w) PROVE TypeOK'
  BY <1>4, FilesAssumption DEF InsertRefused, Fault, Rest, entries, IdleWriter, Keys, TypeOK
<1>5. ASSUME NEW w \in Writers, Reconcile(w) PROVE TypeOK'
  BY <1>5, FilesAssumption DEF Reconcile, Reconciled, Rest, entries, IdleWriter, Keys,
     TypeOK
<1>6. ASSUME NEW w \in Writers, CopyNames(w) PROVE TypeOK'
  <2> DEFINE k == writer[w].key
  <2>1. k \in AnswerKeys /\ StoreTypes /\ ProgressTypes /\ WriterTypes /\ SweepTypes
    BY <1>6, TypeParts DEF CopyNames, WriterTypes, Written, IdleWriter
  <2>2. WriterTypes'
    <3>1. CASE Rest(w)
      BY <2>1, <3>1 DEF Rest, WriterTypes, WriterAts, Written, IdleWriter
    <3>2. CASE WriterTo(w, "copied", k)
      BY <2>1, <3>2, WriterMoves DEF WriterAts, Written, Keys
    <3> QED BY <1>6, <3>1, <3>2 DEF CopyNames
  <2>3. StoreTypes' /\ ProgressTypes' /\ SweepTypes'
    BY <1>6, <2>1 DEF CopyNames, store, entries, StoreTypes, ProgressTypes, SweepTypes
  <2> QED BY <2>2, <2>3, TypePartsNext
<1>7. ASSUME NEW w \in Writers, CommitCopy(w) PROVE TypeOK'
  <2> DEFINE k == writer[w].key
  <2>1. k \in AnswerKeys /\ StoreTypes /\ ProgressTypes /\ WriterTypes /\ SweepTypes
    BY <1>7, TypeParts DEF CommitCopy, WriterTypes, Written, IdleWriter
  <2>2. WriterTypes'
    BY <1>7, <2>1 DEF CommitCopy, Rest, WriterTypes, WriterAts, Written, IdleWriter
  <2>3. StoreTypes'
    BY <1>7, <2>1, FilesAssumption DEF CommitCopy, store, entries, StoreTypes, Keys
  <2>4. ProgressTypes' /\ SweepTypes'
    BY <1>7, <2>1 DEF CommitCopy, entries, ProgressTypes, SweepTypes
  <2> QED BY <2>2, <2>3, <2>4, TypePartsNext
<1>8. ASSUME NEW w \in Writers, WriterDies(w) PROVE TypeOK'
  BY <1>8, FilesAssumption DEF WriterDies, Fault, Rest, store, entries, IdleWriter, Keys,
     TypeOK
<1>9. ASSUME NEW w \in Writers, NEW k \in Keys, SaveFile(w, k) PROVE TypeOK'
  <2>1. StoreTypes /\ ProgressTypes /\ WriterTypes /\ SweepTypes
    BY TypeParts
  <2>2. WriterTypes'
    <3>1. CASE k \in AnswerKeys /\ WriterTo(w, "answer", k)
      BY <2>1, <3>1, WriterMoves DEF WriterAts, Written, Keys
    <3>2. CASE k \in StagedKeys /\ WriterTo(w, "staged", k)
      BY <2>1, <3>2, WriterMoves DEF WriterAts, Written, Keys
    <3>3. CASE UNCHANGED writer
      BY <2>1, <3>3 DEF WriterTypes
    <3> QED BY <1>9, <3>1, <3>2, <3>3 DEF SaveFile, Keys
  <2>3. StoreTypes' /\ ProgressTypes' /\ SweepTypes'
    BY <1>9, <2>1 DEF SaveFile, entries, StoreTypes, ProgressTypes, SweepTypes
  <2> QED BY <2>2, <2>3, TypePartsNext
<1>10. ASSUME NEW w \in Writers, NEW k \in Keys, ReadNames(w, k) PROVE TypeOK'
  BY <1>10, FilesAssumption DEF ReadNames, WriterTo, store, entries, Keys, TypeOK
<1>11. ASSUME NEW k \in Keys, Lands(k) PROVE TypeOK'
  <2>1. StoreTypes /\ ProgressTypes /\ WriterTypes /\ SweepTypes
    BY TypeParts
  <2>2. StoreTypes'
    BY <1>11, <2>1 DEF Lands, store, entries, StoreTypes
  <2>3. ProgressTypes' /\ WriterTypes' /\ SweepTypes'
    BY <1>11, <2>1 DEF Lands, entries, ProgressTypes, WriterTypes, SweepTypes
  <2> QED BY <2>2, <2>3, TypePartsNext
<1>12. ASSUME NEW k \in Keys, SendRow(k) PROVE TypeOK'
  BY <1>12, FilesAssumption DEF SendRow, NoFault, Fault, entries, Keys, TypeOK
<1>13. ASSUME NEW s \in Sweepers, StartSweep(s) PROVE TypeOK'
  BY <1>13, FilesAssumption DEF StartSweep, SweepTo, bot, store, entries, Keys, TypeOK
<1>14. ASSUME NEW s \in Sweepers, DrainJournal(s) PROVE TypeOK'
  BY <1>14, FilesAssumption DEF DrainJournal, SweepTo, bot, store, entries, Keys, TypeOK
<1>15. ASSUME NEW s \in Sweepers, Begin(s) PROVE TypeOK'
  <2> DEFINE k == sweep[s].key  n == sweep[s].attempts
  <2>1. /\ k \in AnswerKeys /\ k \in Keys /\ n \in 0..MaxAttempts /\ n \in Nat
        /\ StoreTypes /\ ProgressTypes /\ WriterTypes /\ SweepTypes
    BY <1>15, SweepKey, TypeParts, FilesAssumption DEF Begin
  <2>2. ProgressTypes' /\ SweepTypes'
    <3>1. CASE n + 1 > MaxAttempts
      <4>1. Saved(k, MaxAttempts, "exhausted") /\ SweepTo(s, "drain", Null, 0)
        BY <1>15, <3>1 DEF Begin
      <4>2. MaxAttempts \in 0..MaxAttempts
        BY FilesAssumption
      <4> QED BY <2>1, <4>1, <4>2, SavedTypes, SweepMoves DEF SweepAts, Swept
    <3>2. CASE ~(n + 1 > MaxAttempts)
      <4>1. Saved(k, n + 1, "pending") /\ SweepTo(s, "fence", k, n + 1)
        BY <1>15, <3>2 DEF Begin
      <4>2. n + 1 \in 0..MaxAttempts /\ n + 1 \in Nat
        BY <2>1, <3>2, FilesAssumption
      <4> HIDE DEF k, n
      <4> QED BY <2>1, <4>1, <4>2, SavedTypes, SweepMoves DEF SweepAts, Swept
    <3> QED BY <3>1, <3>2
  <2>3. StoreTypes' /\ WriterTypes'
    BY <1>15, <2>1 DEF Begin, bot, store, StoreTypes, WriterTypes
  <2> QED BY <2>2, <2>3, TypePartsNext
<1>16. ASSUME NEW s \in Sweepers, Fence(s) PROVE TypeOK'
  <2> DEFINE k == sweep[s].key  n == sweep[s].attempts
  <2>1. /\ k \in AnswerKeys /\ k \in Keys /\ n \in 0..MaxAttempts /\ n \in Nat
        /\ StoreTypes /\ ProgressTypes /\ WriterTypes /\ SweepTypes
    BY <1>16, SweepKey, TypeParts, FilesAssumption DEF Fence
  <2>2. ProgressTypes' /\ SweepTypes'
    <3>1. CASE SweepTo(s, "remove", k, n) /\ UNCHANGED progress
      <4>1. ProgressTypes'
        BY <2>1, <3>1 DEF ProgressTypes
      <4> HIDE DEF k, n
      <4> QED BY <2>1, <3>1, <4>1, SweepMoves DEF SweepAts, Swept
    <3>2. CASE Saved(k, n, Outcome(n)) /\ SweepTo(s, "drain", Null, 0)
      <4> HIDE DEF k, n
      <4> QED BY <2>1, <3>2, SavedTypes, OutcomeStatus, SweepMoves DEF SweepAts, Swept
    <3> QED BY <1>16, <3>1, <3>2 DEF Fence
  <2>3. StoreTypes' /\ WriterTypes'
    BY <1>16, <2>1 DEF Fence, bot, store, StoreTypes, WriterTypes
  <2> QED BY <2>2, <2>3, TypePartsNext
<1>17. ASSUME NEW s \in Sweepers, EntryFails(s) PROVE TypeOK'
  <2> DEFINE k == sweep[s].key  n == sweep[s].attempts
  <2>1. /\ k \in AnswerKeys /\ k \in Keys /\ n \in 0..MaxAttempts /\ n \in Nat
        /\ StoreTypes /\ ProgressTypes /\ WriterTypes /\ SweepTypes
    BY <1>17, SweepKey, TypeParts, FilesAssumption DEF EntryFails
  <2>2. ProgressTypes' /\ SweepTypes'
    <3>1. CASE UNCHANGED progress /\ SweepTo(s, "idle", Null, 0)
      <4>1. ProgressTypes'
        BY <2>1, <3>1 DEF ProgressTypes
      <4> QED BY <2>1, <3>1, <4>1, SweepMoves DEF SweepAts, Swept
    <3>2. CASE Saved(k, n, Outcome(n)) /\ SweepTo(s, "drain", Null, 0)
      <4> HIDE DEF k, n
      <4> QED BY <2>1, <3>2, SavedTypes, OutcomeStatus, SweepMoves DEF SweepAts, Swept
    <3> QED BY <1>17, <3>1, <3>2 DEF EntryFails
  <2>3. lock' \in [owner : Sweepers \cup {Null}, fresh : BOOLEAN]
    <3>1. lock' = lock \/ lock' = [owner |-> Null, fresh |-> FALSE]
      BY <1>17 DEF EntryFails, Unlock
    <3>2. lock \in [owner : Sweepers \cup {Null}, fresh : BOOLEAN]
      BY <2>1 DEF StoreTypes
    <3>3. [owner |-> Null, fresh |-> FALSE] \in [owner : Sweepers \cup {Null}, fresh : BOOLEAN]
      OBVIOUS
    <3> QED BY <3>1, <3>2, <3>3
  <2>4. fence' \subseteq AnswerKeys /\ journal' \subseteq AnswerKeys /\ stored' \subseteq Keys
    BY <1>17, <2>1 DEF EntryFails, StoreTypes
  <2>5. StoreTypes' /\ WriterTypes'
    BY <1>17, <2>1, <2>3, <2>4 DEF EntryFails, bot, StoreTypes, WriterTypes
  <2> QED BY <2>2, <2>5, TypePartsNext
<1>18. ASSUME NEW s \in Sweepers, Remove(s) PROVE TypeOK'
  <2> DEFINE k == sweep[s].key  n == sweep[s].attempts
  <2>1. /\ k \in AnswerKeys /\ k \in Keys /\ n \in 0..MaxAttempts /\ n \in Nat
        /\ StoreTypes /\ ProgressTypes /\ WriterTypes /\ SweepTypes
    BY <1>18, SweepKey, TypeParts, FilesAssumption DEF Remove
  <2>2. ProgressTypes' /\ SweepTypes'
    <3>1. CASE SweepTo(s, "finish", k, n) /\ UNCHANGED progress
      <4>1. ProgressTypes'
        BY <2>1, <3>1 DEF ProgressTypes
      <4> HIDE DEF k, n
      <4> QED BY <2>1, <3>1, <4>1, SweepMoves DEF SweepAts, Swept
    <3>2. CASE Saved(k, n, "unknown") /\ SweepTo(s, "drain", Null, 0)
      <4> HIDE DEF k, n
      <4> QED BY <2>1, <3>2, SavedTypes, SweepMoves DEF SweepAts, Swept
    <3> QED BY <1>18, <3>1, <3>2 DEF Remove
  <2>3. StoreTypes' /\ WriterTypes'
    BY <1>18, <2>1 DEF Remove, bot, StoreTypes, WriterTypes
  <2> QED BY <2>2, <2>3, TypePartsNext
<1>19. ASSUME NEW s \in Sweepers, Finish(s) PROVE TypeOK'
  BY <1>19, FilesAssumption DEF Finish, Fresh, SweepTo, bot, store, Keys, TypeOK
<1>20. ASSUME NEW s \in Sweepers, EndSweep(s) PROVE TypeOK'
  BY <1>20, FilesAssumption DEF EndSweep, SweepTo, Unlock, bot, store, entries, Keys, TypeOK
<1>21. ASSUME NEW s \in Sweepers, SweeperDies(s) PROVE TypeOK'
  BY <1>21, FilesAssumption DEF SweeperDies, Fault, SweepTo, bot, entries, Keys, TypeOK
<1>22. ASSUME NEW s \in Sweepers, NEW i \in Incidents, DeleteIncident(s, i) PROVE TypeOK'
  BY <1>22, FilesAssumption DEF DeleteIncident, Eligible, Delete, NoFault, Fault, store,
     Keys, FilesOf, TypeOK
<1>23. ASSUME NEW s \in Sweepers, NEW k \in Keys, Examine(s, k) PROVE TypeOK'
  BY <1>23, FilesAssumption DEF Examine, SweepTo, bot, store, entries, Keys, TypeOK
<1>24. ASSUME NEW k \in Keys, LateRemoval(k) PROVE TypeOK'
  BY <1>24, FilesAssumption DEF LateRemoval, bot, entries, Keys, TypeOK
<1>25. ASSUME NEW k \in Keys, EntryDue(k) PROVE TypeOK'
  <2>1. StoreTypes /\ ProgressTypes /\ WriterTypes /\ SweepTypes
    BY TypeParts
  <2>2. ProgressTypes'
    BY <1>25, <2>1 DEF EntryDue, ProgressTypes
  <2>3. StoreTypes' /\ WriterTypes' /\ SweepTypes'
    BY <1>25, <2>1 DEF EntryDue, bot, store, StoreTypes, WriterTypes, SweepTypes
  <2> QED BY <2>2, <2>3, TypePartsNext
<1>26. ASSUME NEW i \in Incidents, Age(i) PROVE TypeOK'
  BY <1>26, FilesAssumption DEF Age, bot, store, entries, Keys, TypeOK
<1>27. ASSUME NEW i \in Incidents, Reopen(i) PROVE TypeOK'
  BY <1>27, FilesAssumption DEF Reopen, Fault, bot, store, entries, Keys, TypeOK
<1>28. ASSUME LockStale PROVE TypeOK'
  BY <1>28, FilesAssumption DEF LockStale, bot, store, entries, Keys, TypeOK
<1> QED BY <1>1, <1>2, <1>3, <1>4, <1>5, <1>6, <1>7, <1>8, <1>9, <1>10, <1>11, <1>12, <1>13, <1>14, <1>15, <1>16, <1>17, <1>18, <1>19, <1>20, <1>21, <1>22, <1>23, <1>24, <1>25, <1>26, <1>27, <1>28
  DEF Next, Writing, Sweeping

(* What the transactions hold stays theirs: nobody removes a file of another's,
   and a copied name keeps its key out of the fence. *)
LEMMA WritersStep ==
  ASSUME FInv, Next
  PROVE  WritersInv'
<1>1. ASSUME NEW w \in Writers, SubmitAnswer(w) PROVE WritersInv'
  BY <1>1, FilesAssumption DEF SubmitAnswer, NoFault, Fault, Rest, store, entries,
     IdleWriter, Keys, FInv, TypeOK, WritersInv, NamesInv, FenceInv, FilesKept, Own,
     Borrows, Referenced
<1>2. ASSUME NEW w \in Writers, SubmitFails(w) PROVE WritersInv'
  BY <1>2, FilesAssumption DEF SubmitFails, Fault, Rest, entries, IdleWriter, Keys, FInv,
     TypeOK, WritersInv, NamesInv, FenceInv, FilesKept, Own, Borrows, Referenced
<1>3. ASSUME NEW w \in Writers, Insert(w) PROVE WritersInv'
  <2> DEFINE k == writer[w].key
  <2>1. k \in StagedKeys /\ k \in Keys /\ WriterTypes
    BY <1>3, TypeParts DEF Insert, WriterTypes, Written, IdleWriter, FInv, Keys
  <2>2. CASE owned' = owned \cup {k} /\ UNCHANGED landing /\ Rest(w)
    BY <1>3, <2>1, <2>2 DEF Insert, Rest, store, entries, IdleWriter, FInv, WritersInv, WriterTypes, Own, Borrows
  <2>3. CASE landing' = landing \cup {k} /\ WriterTo(w, "doubt", k) /\ UNCHANGED owned
    BY <1>3, <2>1, <2>3 DEF Insert, WriterTo, store, entries, FInv, WritersInv, WriterTypes, Own, Borrows
  <2> QED BY <1>3, <2>2, <2>3 DEF Insert
<1>4. ASSUME NEW w \in Writers, InsertRefused(w) PROVE WritersInv'
  BY <1>4, FilesAssumption DEF InsertRefused, Fault, Rest, entries, IdleWriter, Keys, FInv,
     TypeOK, WritersInv, NamesInv, FenceInv, FilesKept, Own, Borrows, Referenced
<1>5. ASSUME NEW w \in Writers, Reconcile(w) PROVE WritersInv'
  BY <1>5, FilesAssumption DEF Reconcile, Reconciled, Rest, entries, IdleWriter, Keys, FInv,
     TypeOK, WritersInv, NamesInv, FenceInv, FilesKept, Own, Borrows, Referenced
<1>6. ASSUME NEW w \in Writers, CopyNames(w) PROVE WritersInv'
  <2> DEFINE k == writer[w].key
  <2>1. k \in AnswerKeys /\ k \in Keys /\ WriterTypes
    BY <1>6, TypeParts DEF CopyNames, WriterTypes, Written, IdleWriter, FInv, Keys
  <2>2. CASE k \notin fence /\ WriterTo(w, "copied", k)
    BY <1>6, <2>1, <2>2 DEF CopyNames, WriterTo, store, entries, FInv, WritersInv, WriterTypes, Own, Borrows
  <2>3. CASE Rest(w)
    BY <1>6, <2>1, <2>3 DEF CopyNames, Rest, store, entries, IdleWriter, FInv, WritersInv, WriterTypes, Own, Borrows
  <2> QED BY <1>6, <2>2, <2>3 DEF CopyNames, Admitted
<1>7. ASSUME NEW w \in Writers, CommitCopy(w) PROVE WritersInv'
  BY <1>7, FilesAssumption DEF CommitCopy, NoFault, Fault, Rest, store, entries, IdleWriter,
     Keys, FInv, TypeOK, WritersInv, NamesInv, FenceInv, FilesKept, Own, Borrows, Referenced
<1>8. ASSUME NEW w \in Writers, WriterDies(w) PROVE WritersInv'
  BY <1>8, FilesAssumption DEF WriterDies, Fault, Rest, store, entries, IdleWriter, Keys,
     FInv, TypeOK, WritersInv, NamesInv, FenceInv, FilesKept, Own, Borrows, Referenced
<1>9. ASSUME NEW w \in Writers, NEW k \in Keys, SaveFile(w, k) PROVE WritersInv'
  <2>1. WriterTypes /\ k \notin used /\ stored \cup owned \subseteq used /\ landing \subseteq stored
    BY <1>9, TypeParts DEF SaveFile, FInv, NamesInv
  <2>2. \A v \in Writers : Own(v) => writer[v].key # k
    BY <2>1 DEF FInv, WritersInv
  <2>3. CASE UNCHANGED <<stored, writer>>
    BY <1>9, <2>3 DEF SaveFile, entries, FInv, WritersInv, Own, Borrows
  <2>4. ASSUME NEW at \in {"answer", "staged"}, WriterTo(w, at, k), stored' = stored \cup {k}
        PROVE  WritersInv'
    BY <1>9, <2>1, <2>2, <2>4
    DEF SaveFile, WriterTo, entries, FInv, WritersInv, WriterTypes, Own, Borrows
  <2> QED BY <1>9, <2>3, <2>4 DEF SaveFile
<1>10. ASSUME NEW w \in Writers, NEW k \in Keys, ReadNames(w, k) PROVE WritersInv'
  BY <1>10, FilesAssumption DEF ReadNames, WriterTo, store, entries, Keys, FInv, TypeOK,
     WritersInv, NamesInv, FenceInv, FilesKept, Own, Borrows, Referenced
<1>11. ASSUME NEW k \in Keys, Lands(k) PROVE WritersInv'
  BY <1>11, FilesAssumption DEF Lands, store, entries, Keys, FInv, TypeOK, WritersInv,
     NamesInv, FenceInv, FilesKept, Own, Borrows, Referenced
<1>12. ASSUME NEW k \in Keys, SendRow(k) PROVE WritersInv'
  <2>1. k \in owned /\ ({k} \cap StagedKeys # {} => k \notin AnswerKeys)
    BY <1>12, FilesAssumption DEF SendRow, FInv, NamesInv, Referenced
  <2>2. \A v \in Writers : Own(v) => writer[v].key # k
    BY <2>1 DEF FInv, WritersInv
  <2>3. \A v \in Writers : Borrows(v) => writer[v].key \in AnswerKeys
    BY TypeParts DEF FInv, WriterTypes, Written, IdleWriter, Borrows
  <2>4. UNCHANGED <<writer, landing, owned, fence>> /\ stored' \in {stored, stored \ ({k} \cap StagedKeys)}
    BY <1>12 DEF SendRow, entries
  <2> QED BY <2>1, <2>2, <2>3, <2>4 DEF FInv, WritersInv, Own, Borrows
<1>13. ASSUME NEW s \in Sweepers, StartSweep(s) PROVE WritersInv'
  BY <1>13, FilesAssumption DEF StartSweep, SweepTo, bot, store, entries, Keys, FInv,
     TypeOK, WritersInv, NamesInv, FenceInv, FilesKept, Own, Borrows, Referenced
<1>14. ASSUME NEW s \in Sweepers, DrainJournal(s) PROVE WritersInv'
  BY <1>14, FilesAssumption DEF DrainJournal, SweepTo, bot, store, entries, Keys, FInv,
     TypeOK, WritersInv, NamesInv, FenceInv, FilesKept, Own, Borrows, Referenced
<1>15. ASSUME NEW s \in Sweepers, Begin(s) PROVE WritersInv'
  BY <1>15, FilesAssumption DEF Begin, Saved, SweepTo, bot, store, Keys, FInv, TypeOK,
     WritersInv, NamesInv, FenceInv, FilesKept, Own, Borrows, Referenced
<1>16. ASSUME NEW s \in Sweepers, Fence(s) PROVE WritersInv'
  BY <1>16, FilesAssumption DEF Fence, KeyLocked, MayFence, SweepTo, Saved, Outcome, bot,
     store, Referenced, Keys, FInv, TypeOK, WritersInv, NamesInv, FenceInv, FilesKept, Own,
     Borrows
<1>17. ASSUME NEW s \in Sweepers, EntryFails(s) PROVE WritersInv'
  BY <1>17, FilesAssumption DEF EntryFails, KeyLocked, NoFault, Fault, MayFence, Saved,
     Outcome, SweepTo, Unlock, bot, Referenced, Keys, FInv, TypeOK, WritersInv, NamesInv,
     FenceInv, FilesKept, Own, Borrows
<1>18. ASSUME NEW s \in Sweepers, Remove(s) PROVE WritersInv'
  BY <1>18, FilesAssumption DEF Remove, SweepTo, NoFault, Saved, Fault, bot, Keys, FInv,
     TypeOK, WritersInv, NamesInv, FenceInv, FilesKept, Own, Borrows, Referenced
<1>19. ASSUME NEW s \in Sweepers, Finish(s) PROVE WritersInv'
  BY <1>19, FilesAssumption DEF Finish, Fresh, SweepTo, bot, store, Keys, FInv, TypeOK,
     WritersInv, NamesInv, FenceInv, FilesKept, Own, Borrows, Referenced
<1>20. ASSUME NEW s \in Sweepers, EndSweep(s) PROVE WritersInv'
  BY <1>20, FilesAssumption DEF EndSweep, SweepTo, Unlock, bot, store, entries, Keys, FInv,
     TypeOK, WritersInv, NamesInv, FenceInv, FilesKept, Own, Borrows, Referenced
<1>21. ASSUME NEW s \in Sweepers, SweeperDies(s) PROVE WritersInv'
  BY <1>21, FilesAssumption DEF SweeperDies, Fault, SweepTo, bot, entries, Keys, FInv,
     TypeOK, WritersInv, NamesInv, FenceInv, FilesKept, Own, Borrows, Referenced
<1>22. ASSUME NEW s \in Sweepers, NEW i \in Incidents, DeleteIncident(s, i) PROVE WritersInv'
  BY <1>22, FilesAssumption DEF DeleteIncident, Eligible, Delete, NoFault, Fault, store,
     Keys, FilesOf, FInv, TypeOK, WritersInv, NamesInv, FenceInv, FilesKept, Own, Borrows,
     Referenced
<1>23. ASSUME NEW s \in Sweepers, NEW k \in Keys, Examine(s, k) PROVE WritersInv'
  BY <1>23, FilesAssumption DEF Examine, SweepTo, bot, store, entries, Keys, FInv, TypeOK,
     WritersInv, NamesInv, FenceInv, FilesKept, Own, Borrows, Referenced
<1>24. ASSUME NEW k \in Keys, LateRemoval(k) PROVE WritersInv'
  BY <1>24, FilesAssumption DEF LateRemoval, bot, entries, Keys, FInv, TypeOK, WritersInv,
     NamesInv, FenceInv, FilesKept, Own, Borrows, Referenced
<1>25. ASSUME NEW k \in Keys, EntryDue(k) PROVE WritersInv'
  BY <1>25, FilesAssumption DEF EntryDue, bot, store, Keys, FInv, TypeOK, WritersInv,
     NamesInv, FenceInv, FilesKept, Own, Borrows, Referenced
<1>26. ASSUME NEW i \in Incidents, Age(i) PROVE WritersInv'
  BY <1>26, FilesAssumption DEF Age, bot, store, entries, Keys, FInv, TypeOK, WritersInv,
     NamesInv, FenceInv, FilesKept, Own, Borrows, Referenced
<1>27. ASSUME NEW i \in Incidents, Reopen(i) PROVE WritersInv'
  BY <1>27, FilesAssumption DEF Reopen, Fault, bot, store, entries, Keys, FInv, TypeOK,
     WritersInv, NamesInv, FenceInv, FilesKept, Own, Borrows, Referenced
<1>28. ASSUME LockStale PROVE WritersInv'
  BY <1>28, FilesAssumption DEF LockStale, bot, store, entries, Keys, FInv, TypeOK,
     WritersInv, NamesInv, FenceInv, FilesKept, Own, Borrows, Referenced
<1> QED BY <1>1, <1>2, <1>3, <1>4, <1>5, <1>6, <1>7, <1>8, <1>9, <1>10, <1>11, <1>12, <1>13, <1>14, <1>15, <1>16, <1>17, <1>18, <1>19, <1>20, <1>21, <1>22, <1>23, <1>24, <1>25, <1>26, <1>27, <1>28
  DEF Next, Writing, Sweeping

(* Names come from saved files and go with their incident. *)
LEMMA NamesStep ==
  ASSUME FInv, Next
  PROVE  NamesInv'
<1>1. ASSUME NEW w \in Writers, SubmitAnswer(w) PROVE NamesInv'
  BY <1>1, FilesAssumption DEF SubmitAnswer, NoFault, Fault, Rest, store, entries,
     IdleWriter, Keys, FInv, TypeOK, WritersInv, NamesInv, FenceInv, FilesKept, Own,
     Borrows, Referenced
<1>2. ASSUME NEW w \in Writers, SubmitFails(w) PROVE NamesInv'
  BY <1>2, FilesAssumption DEF SubmitFails, Fault, Rest, entries, IdleWriter, Keys, FInv,
     TypeOK, WritersInv, NamesInv, FenceInv, FilesKept, Own, Borrows, Referenced
<1>3. ASSUME NEW w \in Writers, Insert(w) PROVE NamesInv'
  BY <1>3, FilesAssumption DEF Insert, Rest, NoFault, WriterTo, Fault, store, entries,
     IdleWriter, Keys, FInv, TypeOK, WritersInv, NamesInv, FenceInv, FilesKept, Own,
     Borrows, Referenced
<1>4. ASSUME NEW w \in Writers, InsertRefused(w) PROVE NamesInv'
  BY <1>4, FilesAssumption DEF InsertRefused, Fault, Rest, entries, IdleWriter, Keys, FInv,
     TypeOK, WritersInv, NamesInv, FenceInv, FilesKept, Own, Borrows, Referenced
<1>5. ASSUME NEW w \in Writers, Reconcile(w) PROVE NamesInv'
  BY <1>5, FilesAssumption DEF Reconcile, Reconciled, Rest, entries, IdleWriter, Keys, FInv,
     TypeOK, WritersInv, NamesInv, FenceInv, FilesKept, Own, Borrows, Referenced
<1>6. ASSUME NEW w \in Writers, CopyNames(w) PROVE NamesInv'
  BY <1>6, FilesAssumption DEF CopyNames, Admitted, WriterTo, Rest, store, entries,
     IdleWriter, Keys, FInv, TypeOK, WritersInv, NamesInv, FenceInv, FilesKept, Own,
     Borrows, Referenced
<1>7. ASSUME NEW w \in Writers, CommitCopy(w) PROVE NamesInv'
  BY <1>7, FilesAssumption DEF CommitCopy, NoFault, Fault, Rest, store, entries, IdleWriter,
     Keys, FInv, TypeOK, WritersInv, NamesInv, FenceInv, FilesKept, Own, Borrows, Referenced
<1>8. ASSUME NEW w \in Writers, WriterDies(w) PROVE NamesInv'
  BY <1>8, FilesAssumption DEF WriterDies, Fault, Rest, store, entries, IdleWriter, Keys,
     FInv, TypeOK, WritersInv, NamesInv, FenceInv, FilesKept, Own, Borrows, Referenced
<1>9. ASSUME NEW w \in Writers, NEW k \in Keys, SaveFile(w, k) PROVE NamesInv'
  BY <1>9, FilesAssumption DEF SaveFile, WriterTo, NoFault, Fault, entries, Keys, FInv,
     TypeOK, WritersInv, NamesInv, FenceInv, FilesKept, Own, Borrows, Referenced
<1>10. ASSUME NEW w \in Writers, NEW k \in Keys, ReadNames(w, k) PROVE NamesInv'
  BY <1>10, FilesAssumption DEF ReadNames, WriterTo, store, entries, Keys, FInv, TypeOK,
     WritersInv, NamesInv, FenceInv, FilesKept, Own, Borrows, Referenced
<1>11. ASSUME NEW k \in Keys, Lands(k) PROVE NamesInv'
  BY <1>11, FilesAssumption DEF Lands, store, entries, Keys, FInv, TypeOK, WritersInv,
     NamesInv, FenceInv, FilesKept, Own, Borrows, Referenced
<1>12. ASSUME NEW k \in Keys, SendRow(k) PROVE NamesInv'
  BY <1>12, FilesAssumption DEF SendRow, NoFault, Fault, entries, Keys, FInv, TypeOK,
     WritersInv, NamesInv, FenceInv, FilesKept, Own, Borrows, Referenced
<1>13. ASSUME NEW s \in Sweepers, StartSweep(s) PROVE NamesInv'
  BY <1>13, FilesAssumption DEF StartSweep, SweepTo, bot, store, entries, Keys, FInv,
     TypeOK, WritersInv, NamesInv, FenceInv, FilesKept, Own, Borrows, Referenced
<1>14. ASSUME NEW s \in Sweepers, DrainJournal(s) PROVE NamesInv'
  BY <1>14, FilesAssumption DEF DrainJournal, SweepTo, bot, store, entries, Keys, FInv,
     TypeOK, WritersInv, NamesInv, FenceInv, FilesKept, Own, Borrows, Referenced
<1>15. ASSUME NEW s \in Sweepers, Begin(s) PROVE NamesInv'
  BY <1>15, FilesAssumption DEF Begin, Saved, SweepTo, bot, store, Keys, FInv, TypeOK,
     WritersInv, NamesInv, FenceInv, FilesKept, Own, Borrows, Referenced
<1>16. ASSUME NEW s \in Sweepers, Fence(s) PROVE NamesInv'
  BY <1>16, FilesAssumption DEF Fence, KeyLocked, MayFence, SweepTo, Saved, Outcome, bot,
     store, Referenced, Keys, FInv, TypeOK, WritersInv, NamesInv, FenceInv, FilesKept, Own,
     Borrows
<1>17. ASSUME NEW s \in Sweepers, EntryFails(s) PROVE NamesInv'
  BY <1>17, FilesAssumption DEF EntryFails, KeyLocked, NoFault, Fault, MayFence, Saved,
     Outcome, SweepTo, Unlock, bot, Referenced, Keys, FInv, TypeOK, WritersInv, NamesInv,
     FenceInv, FilesKept, Own, Borrows
<1>18. ASSUME NEW s \in Sweepers, Remove(s) PROVE NamesInv'
  BY <1>18, FilesAssumption DEF Remove, SweepTo, NoFault, Saved, Fault, bot, Keys, FInv,
     TypeOK, WritersInv, NamesInv, FenceInv, FilesKept, Own, Borrows, Referenced
<1>19. ASSUME NEW s \in Sweepers, Finish(s) PROVE NamesInv'
  BY <1>19, FilesAssumption DEF Finish, Fresh, SweepTo, bot, store, Keys, FInv, TypeOK,
     WritersInv, NamesInv, FenceInv, FilesKept, Own, Borrows, Referenced
<1>20. ASSUME NEW s \in Sweepers, EndSweep(s) PROVE NamesInv'
  BY <1>20, FilesAssumption DEF EndSweep, SweepTo, Unlock, bot, store, entries, Keys, FInv,
     TypeOK, WritersInv, NamesInv, FenceInv, FilesKept, Own, Borrows, Referenced
<1>21. ASSUME NEW s \in Sweepers, SweeperDies(s) PROVE NamesInv'
  BY <1>21, FilesAssumption DEF SweeperDies, Fault, SweepTo, bot, entries, Keys, FInv,
     TypeOK, WritersInv, NamesInv, FenceInv, FilesKept, Own, Borrows, Referenced
<1>22. ASSUME NEW s \in Sweepers, NEW i \in Incidents, DeleteIncident(s, i) PROVE NamesInv'
  BY <1>22, FilesAssumption DEF DeleteIncident, Eligible, Delete, NoFault, Fault, store,
     Keys, FilesOf, FInv, TypeOK, WritersInv, NamesInv, FenceInv, FilesKept, Own, Borrows,
     Referenced
<1>23. ASSUME NEW s \in Sweepers, NEW k \in Keys, Examine(s, k) PROVE NamesInv'
  BY <1>23, FilesAssumption DEF Examine, SweepTo, bot, store, entries, Keys, FInv, TypeOK,
     WritersInv, NamesInv, FenceInv, FilesKept, Own, Borrows, Referenced
<1>24. ASSUME NEW k \in Keys, LateRemoval(k) PROVE NamesInv'
  BY <1>24, FilesAssumption DEF LateRemoval, bot, entries, Keys, FInv, TypeOK, WritersInv,
     NamesInv, FenceInv, FilesKept, Own, Borrows, Referenced
<1>25. ASSUME NEW k \in Keys, EntryDue(k) PROVE NamesInv'
  BY <1>25, FilesAssumption DEF EntryDue, bot, store, Keys, FInv, TypeOK, WritersInv,
     NamesInv, FenceInv, FilesKept, Own, Borrows, Referenced
<1>26. ASSUME NEW i \in Incidents, Age(i) PROVE NamesInv'
  BY <1>26, FilesAssumption DEF Age, bot, store, entries, Keys, FInv, TypeOK, WritersInv,
     NamesInv, FenceInv, FilesKept, Own, Borrows, Referenced
<1>27. ASSUME NEW i \in Incidents, Reopen(i) PROVE NamesInv'
  BY <1>27, FilesAssumption DEF Reopen, Fault, bot, store, entries, Keys, FInv, TypeOK,
     WritersInv, NamesInv, FenceInv, FilesKept, Own, Borrows, Referenced
<1>28. ASSUME LockStale PROVE NamesInv'
  BY <1>28, FilesAssumption DEF LockStale, bot, store, entries, Keys, FInv, TypeOK,
     WritersInv, NamesInv, FenceInv, FilesKept, Own, Borrows, Referenced
<1> QED BY <1>1, <1>2, <1>3, <1>4, <1>5, <1>6, <1>7, <1>8, <1>9, <1>10, <1>11, <1>12, <1>13, <1>14, <1>15, <1>16, <1>17, <1>18, <1>19, <1>20, <1>21, <1>22, <1>23, <1>24, <1>25, <1>26, <1>27, <1>28
  DEF Next, Writing, Sweeping

(* A fenced file is and stays without a name. *)
LEMMA FenceStep ==
  ASSUME FInv, Next
  PROVE  FenceInv'
<1>1. ASSUME NEW w \in Writers, SubmitAnswer(w) PROVE FenceInv'
  BY <1>1, FilesAssumption DEF SubmitAnswer, NoFault, Fault, Rest, store, entries,
     IdleWriter, Keys, FInv, TypeOK, WritersInv, NamesInv, FenceInv, FilesKept, Own,
     Borrows, Referenced
<1>2. ASSUME NEW w \in Writers, SubmitFails(w) PROVE FenceInv'
  BY <1>2, FilesAssumption DEF SubmitFails, Fault, Rest, entries, IdleWriter, Keys, FInv,
     TypeOK, WritersInv, NamesInv, FenceInv, FilesKept, Own, Borrows, Referenced
<1>3. ASSUME NEW w \in Writers, Insert(w) PROVE FenceInv'
  BY <1>3, FilesAssumption DEF Insert, Rest, NoFault, WriterTo, Fault, store, entries,
     IdleWriter, Keys, FInv, TypeOK, WritersInv, NamesInv, FenceInv, FilesKept, Own,
     Borrows, Referenced
<1>4. ASSUME NEW w \in Writers, InsertRefused(w) PROVE FenceInv'
  BY <1>4, FilesAssumption DEF InsertRefused, Fault, Rest, entries, IdleWriter, Keys, FInv,
     TypeOK, WritersInv, NamesInv, FenceInv, FilesKept, Own, Borrows, Referenced
<1>5. ASSUME NEW w \in Writers, Reconcile(w) PROVE FenceInv'
  BY <1>5, FilesAssumption DEF Reconcile, Reconciled, Rest, entries, IdleWriter, Keys, FInv,
     TypeOK, WritersInv, NamesInv, FenceInv, FilesKept, Own, Borrows, Referenced
<1>6. ASSUME NEW w \in Writers, CopyNames(w) PROVE FenceInv'
  BY <1>6, FilesAssumption DEF CopyNames, Admitted, WriterTo, Rest, store, entries,
     IdleWriter, Keys, FInv, TypeOK, WritersInv, NamesInv, FenceInv, FilesKept, Own,
     Borrows, Referenced
<1>7. ASSUME NEW w \in Writers, CommitCopy(w) PROVE FenceInv'
  BY <1>7, FilesAssumption DEF CommitCopy, NoFault, Fault, Rest, store, entries, IdleWriter,
     Keys, FInv, TypeOK, WritersInv, NamesInv, FenceInv, FilesKept, Own, Borrows, Referenced
<1>8. ASSUME NEW w \in Writers, WriterDies(w) PROVE FenceInv'
  BY <1>8, FilesAssumption DEF WriterDies, Fault, Rest, store, entries, IdleWriter, Keys,
     FInv, TypeOK, WritersInv, NamesInv, FenceInv, FilesKept, Own, Borrows, Referenced
<1>9. ASSUME NEW w \in Writers, NEW k \in Keys, SaveFile(w, k) PROVE FenceInv'
  BY <1>9, FilesAssumption DEF SaveFile, WriterTo, NoFault, Fault, entries, Keys, FInv,
     TypeOK, WritersInv, NamesInv, FenceInv, FilesKept, Own, Borrows, Referenced
<1>10. ASSUME NEW w \in Writers, NEW k \in Keys, ReadNames(w, k) PROVE FenceInv'
  BY <1>10, FilesAssumption DEF ReadNames, WriterTo, store, entries, Keys, FInv, TypeOK,
     WritersInv, NamesInv, FenceInv, FilesKept, Own, Borrows, Referenced
<1>11. ASSUME NEW k \in Keys, Lands(k) PROVE FenceInv'
  BY <1>11, FilesAssumption DEF Lands, store, entries, Keys, FInv, TypeOK, WritersInv,
     NamesInv, FenceInv, FilesKept, Own, Borrows, Referenced
<1>12. ASSUME NEW k \in Keys, SendRow(k) PROVE FenceInv'
  BY <1>12, FilesAssumption DEF SendRow, NoFault, Fault, entries, Keys, FInv, TypeOK,
     WritersInv, NamesInv, FenceInv, FilesKept, Own, Borrows, Referenced
<1>13. ASSUME NEW s \in Sweepers, StartSweep(s) PROVE FenceInv'
  BY <1>13, FilesAssumption DEF StartSweep, SweepTo, bot, store, entries, Keys, FInv,
     TypeOK, WritersInv, NamesInv, FenceInv, FilesKept, Own, Borrows, Referenced
<1>14. ASSUME NEW s \in Sweepers, DrainJournal(s) PROVE FenceInv'
  BY <1>14, FilesAssumption DEF DrainJournal, SweepTo, bot, store, entries, Keys, FInv,
     TypeOK, WritersInv, NamesInv, FenceInv, FilesKept, Own, Borrows, Referenced
<1>15. ASSUME NEW s \in Sweepers, Begin(s) PROVE FenceInv'
  <2>1. SweepTypes
    BY TypeParts DEF FInv
  <2>2. \A r \in Sweepers : sweep'[r] # sweep[r] => sweep'[r].at \in {"drain", "fence"}
    BY <1>15, <2>1 DEF Begin, SweepTo, SweepTypes
  <2> QED BY <1>15, <2>2 DEF Begin, bot, store, FInv, FenceInv, Referenced
<1>16. ASSUME NEW s \in Sweepers, Fence(s) PROVE FenceInv'
  <2> DEFINE k == sweep[s].key  n == sweep[s].attempts
  <2>1. /\ k \in AnswerKeys /\ k \in Keys /\ n \in 0..MaxAttempts /\ n \in Nat
        /\ StoreTypes /\ ProgressTypes /\ WriterTypes /\ SweepTypes
    BY <1>16, SweepKey, TypesStep, TypeParts, FilesAssumption DEF Fence, FInv
  <2> HIDE DEF k, n
  <2>2. CASE MayFence(k) /\ fence' = fence \cup {k} /\ SweepTo(s, "remove", k, n)
    <3>1. sweep'[s] = [at |-> "remove", key |-> k, attempts |-> n] /\ (\A r \in Sweepers : r # s => sweep'[r] = sweep[r])
      BY <2>1, <2>2, SweepMoves DEF SweepAts, Swept
    <3> QED BY <1>16, <2>1, <2>2, <3>1 DEF Fence, MayFence, bot, store, FInv, NamesInv, FenceInv, Referenced
  <2>3. CASE SweepTo(s, "drain", Null, 0) /\ UNCHANGED fence
    <3>1. sweep'[s] = [at |-> "drain", key |-> Null, attempts |-> 0] /\ (\A r \in Sweepers : r # s => sweep'[r] = sweep[r])
      BY <2>1, <2>3, SweepMoves DEF SweepAts, Swept
    <3> QED BY <1>16, <2>1, <2>3, <3>1 DEF Fence, bot, store, FInv, FenceInv, Referenced
  <2> QED BY <1>16, <2>2, <2>3 DEF Fence, k, n
<1>17. ASSUME NEW s \in Sweepers, EntryFails(s) PROVE FenceInv'
  <2> DEFINE k == sweep[s].key  n == sweep[s].attempts
  <2>1. /\ k \in AnswerKeys /\ k \in Keys /\ n \in 0..MaxAttempts /\ n \in Nat
        /\ StoreTypes /\ ProgressTypes /\ WriterTypes /\ SweepTypes
    BY <1>17, SweepKey, TypesStep, TypeParts, FilesAssumption DEF EntryFails, FInv
  <2>2. \A r \in Sweepers : sweep'[r] = sweep[r] \/ sweep'[r].at \in {"drain", "idle"}
    BY <1>17, <2>1 DEF EntryFails, SweepTo, SweepTypes
  <2>3. fence' = fence \/ (fence' = fence \cup {k} /\ k \in journal /\ ~Referenced(k))
    BY <1>17 DEF EntryFails, MayFence
  <2>4. stored' \subseteq stored /\ UNCHANGED <<bot, late>>
    BY <1>17 DEF EntryFails
  <2>5. \A r \in Sweepers : sweep'[r].at \in {"remove", "finish"} => sweep'[r] = sweep[r]
    BY <2>2
  <2> HIDE DEF k, n
  <2> QED BY <2>1, <2>3, <2>4, <2>5 DEF bot, FInv, NamesInv, FenceInv, Referenced
<1>18. ASSUME NEW s \in Sweepers, Remove(s) PROVE FenceInv'
  <2> DEFINE k == sweep[s].key  n == sweep[s].attempts
  <2>1. /\ k \in AnswerKeys /\ k \in Keys /\ n \in 0..MaxAttempts /\ n \in Nat
        /\ StoreTypes /\ ProgressTypes /\ WriterTypes /\ SweepTypes
    BY <1>18, SweepKey, TypesStep, TypeParts, FilesAssumption DEF Remove, FInv
  <2> HIDE DEF k, n
  <2>2. k \in fence /\ k \in fence'
    BY <1>18 DEF Remove, k, FInv, FenceInv
  <2>3. CASE stored' = stored \ {k} /\ SweepTo(s, "finish", k, n) /\ UNCHANGED late
    <3>1. sweep'[s] = [at |-> "finish", key |-> k, attempts |-> n] /\ (\A r \in Sweepers : r # s => sweep'[r] = sweep[r])
      BY <2>1, <2>3, SweepMoves DEF SweepAts, Swept
    <3> QED BY <1>18, <2>2, <2>3, <3>1 DEF Remove, bot, FInv, FenceInv, Referenced
  <2>4. CASE late' = late \cup {k} /\ SweepTo(s, "drain", Null, 0) /\ UNCHANGED stored
    <3>1. sweep'[s] = [at |-> "drain", key |-> Null, attempts |-> 0] /\ (\A r \in Sweepers : r # s => sweep'[r] = sweep[r])
      BY <2>1, <2>4, SweepMoves DEF SweepAts, Swept
    <3> QED BY <1>18, <2>2, <2>4, <3>1 DEF Remove, bot, FInv, FenceInv, Referenced
  <2> QED BY <1>18, <2>3, <2>4 DEF Remove, k, n
<1>19. ASSUME NEW s \in Sweepers, Finish(s) PROVE FenceInv'
  BY <1>19, FilesAssumption DEF Finish, Fresh, SweepTo, bot, store, Keys, FInv, TypeOK,
     WritersInv, NamesInv, FenceInv, FilesKept, Own, Borrows, Referenced
<1>20. ASSUME NEW s \in Sweepers, EndSweep(s) PROVE FenceInv'
  BY <1>20, FilesAssumption DEF EndSweep, SweepTo, Unlock, bot, store, entries, Keys, FInv,
     TypeOK, WritersInv, NamesInv, FenceInv, FilesKept, Own, Borrows, Referenced
<1>21. ASSUME NEW s \in Sweepers, SweeperDies(s) PROVE FenceInv'
  BY <1>21, FilesAssumption DEF SweeperDies, Fault, SweepTo, bot, entries, Keys, FInv,
     TypeOK, WritersInv, NamesInv, FenceInv, FilesKept, Own, Borrows, Referenced
<1>22. ASSUME NEW s \in Sweepers, NEW i \in Incidents, DeleteIncident(s, i) PROVE FenceInv'
  BY <1>22, FilesAssumption DEF DeleteIncident, Eligible, Delete, NoFault, Fault, store,
     Keys, FilesOf, FInv, TypeOK, WritersInv, NamesInv, FenceInv, FilesKept, Own, Borrows,
     Referenced
<1>23. ASSUME NEW s \in Sweepers, NEW k \in Keys, Examine(s, k) PROVE FenceInv'
  BY <1>23, FilesAssumption DEF Examine, SweepTo, bot, store, entries, Keys, FInv, TypeOK,
     WritersInv, NamesInv, FenceInv, FilesKept, Own, Borrows, Referenced
<1>24. ASSUME NEW k \in Keys, LateRemoval(k) PROVE FenceInv'
  BY <1>24, FilesAssumption DEF LateRemoval, bot, entries, Keys, FInv, TypeOK, WritersInv,
     NamesInv, FenceInv, FilesKept, Own, Borrows, Referenced
<1>25. ASSUME NEW k \in Keys, EntryDue(k) PROVE FenceInv'
  BY <1>25, FilesAssumption DEF EntryDue, bot, store, Keys, FInv, TypeOK, WritersInv,
     NamesInv, FenceInv, FilesKept, Own, Borrows, Referenced
<1>26. ASSUME NEW i \in Incidents, Age(i) PROVE FenceInv'
  BY <1>26, FilesAssumption DEF Age, bot, store, entries, Keys, FInv, TypeOK, WritersInv,
     NamesInv, FenceInv, FilesKept, Own, Borrows, Referenced
<1>27. ASSUME NEW i \in Incidents, Reopen(i) PROVE FenceInv'
  BY <1>27, FilesAssumption DEF Reopen, Fault, bot, store, entries, Keys, FInv, TypeOK,
     WritersInv, NamesInv, FenceInv, FilesKept, Own, Borrows, Referenced
<1>28. ASSUME LockStale PROVE FenceInv'
  BY <1>28, FilesAssumption DEF LockStale, bot, store, entries, Keys, FInv, TypeOK,
     WritersInv, NamesInv, FenceInv, FilesKept, Own, Borrows, Referenced
<1> QED BY <1>1, <1>2, <1>3, <1>4, <1>5, <1>6, <1>7, <1>8, <1>9, <1>10, <1>11, <1>12, <1>13, <1>14, <1>15, <1>16, <1>17, <1>18, <1>19, <1>20, <1>21, <1>22, <1>23, <1>24, <1>25, <1>26, <1>27, <1>28
  DEF Next, Writing, Sweeping

(* No step removes a file that a row needs. *)
LEMMA KeptStep ==
  ASSUME FInv, Next
  PROVE  FilesKept'
<1>1. ASSUME NEW w \in Writers, SubmitAnswer(w) PROVE FilesKept'
  BY <1>1, FilesAssumption DEF SubmitAnswer, NoFault, Fault, Rest, store, entries,
     IdleWriter, Keys, FInv, TypeOK, WritersInv, NamesInv, FenceInv, FilesKept, Own,
     Borrows, Referenced
<1>2. ASSUME NEW w \in Writers, SubmitFails(w) PROVE FilesKept'
  BY <1>2, FilesAssumption DEF SubmitFails, Fault, Rest, entries, IdleWriter, Keys, FInv,
     TypeOK, WritersInv, NamesInv, FenceInv, FilesKept, Own, Borrows, Referenced
<1>3. ASSUME NEW w \in Writers, Insert(w) PROVE FilesKept'
  BY <1>3, FilesAssumption DEF Insert, Rest, NoFault, WriterTo, Fault, store, entries,
     IdleWriter, Keys, FInv, TypeOK, WritersInv, NamesInv, FenceInv, FilesKept, Own,
     Borrows, Referenced
<1>4. ASSUME NEW w \in Writers, InsertRefused(w) PROVE FilesKept'
  BY <1>4, FilesAssumption DEF InsertRefused, Fault, Rest, entries, IdleWriter, Keys, FInv,
     TypeOK, WritersInv, NamesInv, FenceInv, FilesKept, Own, Borrows, Referenced
<1>5. ASSUME NEW w \in Writers, Reconcile(w) PROVE FilesKept'
  BY <1>5, FilesAssumption DEF Reconcile, Reconciled, Rest, entries, IdleWriter, Keys, FInv,
     TypeOK, WritersInv, NamesInv, FenceInv, FilesKept, Own, Borrows, Referenced
<1>6. ASSUME NEW w \in Writers, CopyNames(w) PROVE FilesKept'
  BY <1>6, FilesAssumption DEF CopyNames, Admitted, WriterTo, Rest, store, entries,
     IdleWriter, Keys, FInv, TypeOK, WritersInv, NamesInv, FenceInv, FilesKept, Own,
     Borrows, Referenced
<1>7. ASSUME NEW w \in Writers, CommitCopy(w) PROVE FilesKept'
  BY <1>7, FilesAssumption DEF CommitCopy, NoFault, Fault, Rest, store, entries, IdleWriter,
     Keys, FInv, TypeOK, WritersInv, NamesInv, FenceInv, FilesKept, Own, Borrows, Referenced
<1>8. ASSUME NEW w \in Writers, WriterDies(w) PROVE FilesKept'
  BY <1>8, FilesAssumption DEF WriterDies, Fault, Rest, store, entries, IdleWriter, Keys,
     FInv, TypeOK, WritersInv, NamesInv, FenceInv, FilesKept, Own, Borrows, Referenced
<1>9. ASSUME NEW w \in Writers, NEW k \in Keys, SaveFile(w, k) PROVE FilesKept'
  BY <1>9, FilesAssumption DEF SaveFile, WriterTo, NoFault, Fault, entries, Keys, FInv,
     TypeOK, WritersInv, NamesInv, FenceInv, FilesKept, Own, Borrows, Referenced
<1>10. ASSUME NEW w \in Writers, NEW k \in Keys, ReadNames(w, k) PROVE FilesKept'
  BY <1>10, FilesAssumption DEF ReadNames, WriterTo, store, entries, Keys, FInv, TypeOK,
     WritersInv, NamesInv, FenceInv, FilesKept, Own, Borrows, Referenced
<1>11. ASSUME NEW k \in Keys, Lands(k) PROVE FilesKept'
  BY <1>11, FilesAssumption DEF Lands, store, entries, Keys, FInv, TypeOK, WritersInv,
     NamesInv, FenceInv, FilesKept, Own, Borrows, Referenced
<1>12. ASSUME NEW k \in Keys, SendRow(k) PROVE FilesKept'
  BY <1>12, FilesAssumption DEF SendRow, NoFault, Fault, entries, Keys, FInv, TypeOK,
     WritersInv, NamesInv, FenceInv, FilesKept, Own, Borrows, Referenced
<1>13. ASSUME NEW s \in Sweepers, StartSweep(s) PROVE FilesKept'
  BY <1>13, FilesAssumption DEF StartSweep, SweepTo, bot, store, entries, Keys, FInv,
     TypeOK, WritersInv, NamesInv, FenceInv, FilesKept, Own, Borrows, Referenced
<1>14. ASSUME NEW s \in Sweepers, DrainJournal(s) PROVE FilesKept'
  BY <1>14, FilesAssumption DEF DrainJournal, SweepTo, bot, store, entries, Keys, FInv,
     TypeOK, WritersInv, NamesInv, FenceInv, FilesKept, Own, Borrows, Referenced
<1>15. ASSUME NEW s \in Sweepers, Begin(s) PROVE FilesKept'
  BY <1>15, FilesAssumption DEF Begin, Saved, SweepTo, bot, store, Keys, FInv, TypeOK,
     WritersInv, NamesInv, FenceInv, FilesKept, Own, Borrows, Referenced
<1>16. ASSUME NEW s \in Sweepers, Fence(s) PROVE FilesKept'
  BY <1>16, FilesAssumption DEF Fence, KeyLocked, MayFence, SweepTo, Saved, Outcome, bot,
     store, Referenced, Keys, FInv, TypeOK, WritersInv, NamesInv, FenceInv, FilesKept, Own,
     Borrows
<1>17. ASSUME NEW s \in Sweepers, EntryFails(s) PROVE FilesKept'
  BY <1>17, FilesAssumption DEF EntryFails, KeyLocked, NoFault, Fault, MayFence, Saved,
     Outcome, SweepTo, Unlock, bot, Referenced, Keys, FInv, TypeOK, WritersInv, NamesInv,
     FenceInv, FilesKept, Own, Borrows
<1>18. ASSUME NEW s \in Sweepers, Remove(s) PROVE FilesKept'
  BY <1>18, FilesAssumption DEF Remove, SweepTo, NoFault, Saved, Fault, bot, Keys, FInv,
     TypeOK, WritersInv, NamesInv, FenceInv, FilesKept, Own, Borrows, Referenced
<1>19. ASSUME NEW s \in Sweepers, Finish(s) PROVE FilesKept'
  BY <1>19, FilesAssumption DEF Finish, Fresh, SweepTo, bot, store, Keys, FInv, TypeOK,
     WritersInv, NamesInv, FenceInv, FilesKept, Own, Borrows, Referenced
<1>20. ASSUME NEW s \in Sweepers, EndSweep(s) PROVE FilesKept'
  BY <1>20, FilesAssumption DEF EndSweep, SweepTo, Unlock, bot, store, entries, Keys, FInv,
     TypeOK, WritersInv, NamesInv, FenceInv, FilesKept, Own, Borrows, Referenced
<1>21. ASSUME NEW s \in Sweepers, SweeperDies(s) PROVE FilesKept'
  BY <1>21, FilesAssumption DEF SweeperDies, Fault, SweepTo, bot, entries, Keys, FInv,
     TypeOK, WritersInv, NamesInv, FenceInv, FilesKept, Own, Borrows, Referenced
<1>22. ASSUME NEW s \in Sweepers, NEW i \in Incidents, DeleteIncident(s, i) PROVE FilesKept'
  BY <1>22, FilesAssumption DEF DeleteIncident, Eligible, Delete, NoFault, Fault, store,
     Keys, FilesOf, FInv, TypeOK, WritersInv, NamesInv, FenceInv, FilesKept, Own, Borrows,
     Referenced
<1>23. ASSUME NEW s \in Sweepers, NEW k \in Keys, Examine(s, k) PROVE FilesKept'
  BY <1>23, FilesAssumption DEF Examine, SweepTo, bot, store, entries, Keys, FInv, TypeOK,
     WritersInv, NamesInv, FenceInv, FilesKept, Own, Borrows, Referenced
<1>24. ASSUME NEW k \in Keys, LateRemoval(k) PROVE FilesKept'
  BY <1>24, FilesAssumption DEF LateRemoval, bot, entries, Keys, FInv, TypeOK, WritersInv,
     NamesInv, FenceInv, FilesKept, Own, Borrows, Referenced
<1>25. ASSUME NEW k \in Keys, EntryDue(k) PROVE FilesKept'
  BY <1>25, FilesAssumption DEF EntryDue, bot, store, Keys, FInv, TypeOK, WritersInv,
     NamesInv, FenceInv, FilesKept, Own, Borrows, Referenced
<1>26. ASSUME NEW i \in Incidents, Age(i) PROVE FilesKept'
  BY <1>26, FilesAssumption DEF Age, bot, store, entries, Keys, FInv, TypeOK, WritersInv,
     NamesInv, FenceInv, FilesKept, Own, Borrows, Referenced
<1>27. ASSUME NEW i \in Incidents, Reopen(i) PROVE FilesKept'
  BY <1>27, FilesAssumption DEF Reopen, Fault, bot, store, entries, Keys, FInv, TypeOK,
     WritersInv, NamesInv, FenceInv, FilesKept, Own, Borrows, Referenced
<1>28. ASSUME LockStale PROVE FilesKept'
  BY <1>28, FilesAssumption DEF LockStale, bot, store, entries, Keys, FInv, TypeOK,
     WritersInv, NamesInv, FenceInv, FilesKept, Own, Borrows, Referenced
<1> QED BY <1>1, <1>2, <1>3, <1>4, <1>5, <1>6, <1>7, <1>8, <1>9, <1>10, <1>11, <1>12, <1>13, <1>14, <1>15, <1>16, <1>17, <1>18, <1>19, <1>20, <1>21, <1>22, <1>23, <1>24, <1>25, <1>26, <1>27, <1>28
  DEF Next, Writing, Sweeping



(* A state of Files starts well. *)
LEMMA FilesStart == Init => FInv
BY FilesAssumption
DEF Init, FInv, TypeOK, WritersInv, NamesInv, FenceInv, FilesKept, Own, Borrows, Referenced,
    IdleWriter, IdleSweeper, Fresh, Keys

(* Every step of Files, and every step that leaves its variables alone,    *)
(* keeps the invariant of Files.                                           *)
LEMMA FilesStep ==
  ASSUME FInv, [Next]_vars
  PROVE  FInv'
<1>1. CASE Next
  BY <1>1, TypesStep, WritersStep, NamesStep, FenceStep, KeptStep DEF FInv
<1>2. CASE UNCHANGED vars
  BY <1>2
  DEF vars, bot, store, entries, FInv, TypeOK, WritersInv, NamesInv, FenceInv, FilesKept,
      Own, Borrows, Referenced
<1> QED BY <1>1, <1>2

(* The bot and the retention process beside the cleanup do what they do    *)
(* alone.                                                                  *)
LEMMA BesideIsNext == Bot \/ Sweeping \/ LockStale => Next
BY DEF Bot, Next, Writing

-----------------------------------------------------------------------------
(* The cleanup and the invariant of Files. *)

(* An erased incident takes its names along; nobody is writing. *)
LEMMA EraseKeepsFiles ==
  ASSUME FInv, CleanupInv, Erase
  PROVE  FInv'
<1>1. /\ incident' = [i \in Incidents |-> "gone"] /\ attached' = {}
      /\ outbox' \in [Keys -> {"none", "open", "sent"}]
      /\ \A k \in Keys : outbox'[k] # "none" => outbox'[k] = outbox[k]
      /\ UNCHANGED <<writer, landing, used, owned, stored, late, fence, journal, progress, sweep, lock>>
  BY DEF Erase, store, entries, FInv, TypeOK
<1>2. \A w \in Writers : writer[w].at = "idle"
  BY DEF Erase, CleanupInv
<1>3. TypeOK'
  BY <1>1 DEF FInv, TypeOK
<1>4. WritersInv'
  BY <1>1, <1>2 DEF WritersInv, Own, Borrows
<1>5. \A k \in Keys : Referenced(k)' => Referenced(k)
  BY <1>1 DEF Referenced
<1>6. NamesInv'
  <2>1. \A k \in AnswerKeys : Of[k] \in Incidents
    BY FilesAssumption
  <2> QED BY <1>1, <1>5, <2>1 DEF FInv, NamesInv
<1>7. FenceInv'
  <2>1. fence \subseteq Keys
    BY DEF FInv, TypeOK, Keys
  <2> QED BY <1>1, <1>5, <2>1 DEF FInv, FenceInv
<1>8. FilesKept'
  BY <1>1 DEF FInv, FilesKept
<1> QED BY <1>3, <1>4, <1>6, <1>7, <1>8 DEF FInv

(* The files a cleanup removes are named by nobody: nothing is missed.     *)
LEMMA RemoveKeepsFiles ==
  ASSUME FInv, CleanupTypes, CleanupInv, PlanInv, RemoveFiles
  PROVE  FInv'
<1>1. PICK gone \in SUBSET plan.files : stored' = stored \ gone
  <2>1. CASE stored' = stored \ plan.files
    BY <2>1
  <2>2. CASE \E left \in SUBSET plan.files : stored' = stored \ (plan.files \ left)
    BY <2>2
  <2> QED BY <2>1, <2>2 DEF RemoveFiles
<1>2. UNCHANGED <<incident, attached, outbox, writer, landing, used, owned, late, fence,
                  journal, progress, sweep, lock>>
  BY DEF RemoveFiles, bot, entries
<1>3. plan.files \subseteq AnswerKeys /\ \A w \in Writers : writer[w].at = "idle"
  BY DEF RemoveFiles, CleanupInv, CleanupTypes, Plans
<1>4. \A k \in gone : k \in owned /\ k \notin attached /\ outbox[k] = "none"
  BY <1>3 DEF RemoveFiles, CleanupInv, PlanInv, FInv, NamesInv
<1>5. TypeOK'
  BY <1>1, <1>2 DEF FInv, TypeOK
<1>6. WritersInv'
  BY <1>2, <1>3 DEF WritersInv, Own, Borrows
<1>7. NamesInv'
  BY <1>1, <1>2, <1>4 DEF FInv, NamesInv, Referenced
<1>8. FenceInv'
  BY <1>1, <1>2 DEF FInv, FenceInv, Referenced
<1>9. FilesKept'
  BY <1>1, <1>2, <1>4 DEF FInv, FilesKept
<1> QED BY <1>5, <1>6, <1>7, <1>8, <1>9 DEF FInv

(* A restart of the bot ends its transactions. *)
LEMMA RestartKeepsFiles ==
  ASSUME FInv, BotDies
  PROVE  FInv'
<1>1. /\ UNCHANGED <<incident, attached, outbox, stored, landing, used, owned, late, fence,
                     journal, progress, sweep, lock>>
      /\ writer' = [w \in Writers |-> IdleWriter]
  BY DEF BotDies, store, entries
<1>2. TypeOK'
  BY <1>1 DEF FInv, TypeOK, IdleWriter
<1>3. WritersInv'
  BY <1>1 DEF WritersInv, Own, Borrows, IdleWriter
<1>4. NamesInv' /\ FenceInv' /\ FilesKept'
  BY <1>1 DEF FInv, NamesInv, FenceInv, FilesKept, Referenced
<1> QED BY <1>2, <1>3, <1>4 DEF FInv

(* What the others do around the cleanup keeps the invariant of Files.     *)
LEMMA UpkeepFilesStep ==
  ASSUME IInv, [UpkeepNext]_upkeepVars
  PROVE  FInv'
<1>1. CASE Erase
  BY <1>1, EraseKeepsFiles DEF IInv
<1>2. CASE RemoveFiles
  BY <1>2, RemoveKeepsFiles DEF IInv
<1>3. CASE BotDies
  BY <1>3, RestartKeepsFiles DEF IInv
<1>4. CASE NotErased
  <2>1. UNCHANGED <<incident, bot, store, entries, sweep, lock>>
    BY <1>4 DEF NotErased
  <2> QED BY <2>1
    DEF bot, store, entries, IInv, FInv, TypeOK, WritersInv, NamesInv, FenceInv, FilesKept,
        Own, Borrows, Referenced
<1>5. CASE [Next]_vars
  BY <1>5, FilesStep DEF IInv
<1>6. CASE UNCHANGED vars
  BY <1>6, FilesStep DEF IInv
<1>7. ASSUME NEW a \in Admins,
             Preview(a) \/ Confirm(a) \/ ConfirmClaim(a) \/ Cancel(a) \/ Demote(a)
      PROVE  UNCHANGED vars
  BY <1>7 DEF Preview, Confirm, ConfirmClaim, Cancel, Demote
<1>8. ASSUME Expire \/ Pause \/ Work \/ Resume
      PROVE  UNCHANGED vars
  BY <1>8 DEF Expire, Pause, Work, Resume
<1>9. ASSUME Bot \/ Sweeping \/ LockStale
      PROVE  Next
  BY <1>9, BesideIsNext
<1>10. ASSUME UNCHANGED upkeepVars
       PROVE  UNCHANGED vars
  BY <1>10 DEF upkeepVars
<1> QED BY <1>1, <1>2, <1>3, <1>4, <1>5, <1>6, <1>7, <1>8, <1>9, <1>10
  DEF UpkeepNext, Cleaning

-----------------------------------------------------------------------------
(* The plan. *)

(* What the code writes into a plan is a plan. *)
LEMMA PlanValues ==
  /\ NoPlan \in Plans
  /\ \A status \in {"none", "failed", "done"} : Ended(status) \in Plans
  /\ \A p \in Plans : [p EXCEPT !.status = "queued"] \in Plans
  /\ \A p \in Plans : [p EXCEPT !.expired = TRUE] \in Plans
  /\ \A p \in Plans : \A f \in SUBSET AnswerKeys :
       [p EXCEPT !.files = f] \in Plans /\ [p EXCEPT !.status = "files", !.files = f] \in Plans
BY DEF NoPlan, Ended, Plans, Graphs

(* Every step keeps the types of the cleanup. *)
LEMMA CleanupTypesStep ==
  ASSUME IInv, [UpkeepNext]_upkeepVars
  PROVE  CleanupTypes'
<1> USE DEF IInv
<1>1. CASE UNCHANGED cleanup
  BY <1>1 DEF cleanup, CleanupTypes
<1>2. ASSUME NEW a \in Admins, Preview(a) PROVE CleanupTypes'
  <2>1. Graph \in Graphs
    BY DEF Graph, Graphs, FInv, TypeOK
  <2>2. issued' \in Nat /\ plan' \in Plans
    BY <1>2, <2>1 DEF Preview, CleanupTypes, Plans
  <2> QED BY <1>2, <2>2 DEF Preview, CleanupTypes
<1>3. ASSUME NEW a \in Admins, Confirm(a) PROVE CleanupTypes'
  BY <1>3 DEF Confirm, CleanupTypes
<1>4. ASSUME NEW a \in Admins, ConfirmClaim(a) PROVE CleanupTypes'
  <2>1. confirm[a].row \in Plans /\ plan' \in Plans /\ agreed' \in Plans
    <3>1. confirm[a].row \in Plans /\ plan \in Plans /\ agreed \in Plans
      BY DEF CleanupTypes
    <3>2. [plan EXCEPT !.status = "queued"] \in Plans
      BY <3>1, PlanValues
    <3> QED BY <1>4, <3>1, <3>2 DEF ConfirmClaim
  <2>2. Resting \in [at : {"idle", "claim"}, row : Plans]
    BY PlanValues DEF Resting, At
  <2> QED BY <1>4, <2>1, <2>2 DEF ConfirmClaim, CleanupTypes
<1>5. ASSUME NEW a \in Admins, Cancel(a) PROVE CleanupTypes'
  BY <1>5, PlanValues DEF Cancel, CleanupTypes
<1>6. ASSUME NEW a \in Admins, Demote(a) PROVE CleanupTypes'
  BY <1>6 DEF Demote, CleanupTypes
<1>7. CASE Expire
  BY <1>7, PlanValues DEF Expire, CleanupTypes
<1>8. CASE Pause
  BY <1>8 DEF Pause, CleanupTypes
<1>9. CASE Work
  <2>1. At("files") \in [at : {"idle", "waiting", "execute", "files", "resume"}, row : Plans]
    BY PlanValues DEF At
  <2> QED BY <1>9, <2>1 DEF Work, CleanupTypes
<1>10. \A at \in {"idle", "files", "resume"} :
         At(at) \in [at : {"idle", "waiting", "execute", "files", "resume"}, row : Plans]
  BY PlanValues DEF At
<1>11. CASE Erase
  <2>1. Unshared(RowFiles) \in SUBSET AnswerKeys
    BY DEF Unshared, RowFiles
  <2>2. plan' \in Plans /\ agreed' \in Plans
    BY <1>11, <2>1, PlanValues DEF Erase, CleanupTypes
  <2>3. worker' \in [at : {"idle", "waiting", "execute", "files", "resume"}, row : Plans]
    BY <1>11, <1>10 DEF Erase
  <2> QED BY <1>11, <2>2, <2>3 DEF Erase, CleanupTypes
<1>12. CASE NotErased
  <2>1. plan' \in Plans /\ agreed' \in Plans
    BY <1>12, PlanValues DEF NotErased, CleanupTypes
  <2> QED BY <1>12, <2>1, <1>10 DEF NotErased, CleanupTypes
<1>13. CASE RemoveFiles
  <2>1. plan.files \in SUBSET AnswerKeys
    BY DEF CleanupTypes, Plans
  <2>2. plan' \in Plans
    <3>1. plan \in Plans
      BY DEF CleanupTypes
    <3>2. CASE plan' = Ended("done")
      BY <3>2, PlanValues
    <3>3. CASE \E left \in SUBSET plan.files : plan' = [plan EXCEPT !.files = left]
      <4>1. PICK left \in SUBSET plan.files : plan' = [plan EXCEPT !.files = left]
        BY <3>3
      <4>2. left \in SUBSET AnswerKeys
        BY <2>1
      <4> QED BY <3>1, <4>1, <4>2, PlanValues
    <3> QED BY <1>13, <3>2, <3>3 DEF RemoveFiles
  <2> QED BY <1>13, <2>2, <1>10 DEF RemoveFiles, CleanupTypes
<1>14. CASE Resume
  BY <1>14, <1>10 DEF Resume, Resting, CleanupTypes
<1>15. CASE BotDies
  <2>1. Resting \in [at : {"idle", "claim"}, row : Plans]
    BY PlanValues DEF Resting, At
  <2> QED BY <1>15, <2>1, <1>10 DEF BotDies, Resting, CleanupTypes
<1> QED BY <1>1, <1>2, <1>3, <1>4, <1>5, <1>6, <1>7, <1>8, <1>9, <1>11, <1>12, <1>13, <1>14, <1>15
  DEF UpkeepNext, Cleaning, upkeepVars

(* While the cleanup works nothing of the bot starts. *)
LEMMA WritersStayIdle ==
  ASSUME CleanupInv, Bot \/ Sweeping \/ LockStale, UNCHANGED cleanup,
         worker.at \in {"execute", "files"}
  PROVE  \A w \in Writers : writer'[w].at = "idle"
<1>1. paused /\ \A w \in Writers : writer[w].at = "idle"
  BY DEF CleanupInv
<1>2. CASE Bot
  BY <1>1, <1>2 DEF Bot, Lands
<1>3. CASE Sweeping \/ LockStale
  BY <1>1, <1>3
  DEF Sweeping, LockStale, StartSweep, DrainJournal, Begin, Fence, EntryFails, Remove, Finish,
      EndSweep, SweeperDies, DeleteIncident, Examine, LateRemoval, EntryDue, bot
<1> QED BY <1>2, <1>3

(* Every step keeps what the cleanup relies on. *)
LEMMA CleanupStep ==
  ASSUME IInv, [UpkeepNext]_upkeepVars
  PROVE  CleanupInv'
<1> USE DEF IInv
<1>1. CASE (Bot \/ Sweeping \/ LockStale) /\ UNCHANGED cleanup
  <2>1. worker.at \in {"execute", "files"} => \A w \in Writers : writer'[w].at = "idle"
    BY <1>1, WritersStayIdle
  <2> QED BY <1>1, <2>1 DEF cleanup, CleanupInv
<1>2. ASSUME NEW a \in Admins, Preview(a) PROVE CleanupInv'
  BY <1>2 DEF Preview, CleanupInv, vars, bot
<1>3. ASSUME NEW a \in Admins, Confirm(a) PROVE CleanupInv'
  <2>1. \A b \in Admins : confirm'[b] = IF b = a THEN [at |-> "claim", row |-> plan] ELSE confirm[b]
    BY <1>3 DEF Confirm, CleanupTypes
  <2> QED BY <1>3, <2>1 DEF Confirm, CleanupInv, vars, bot
<1>4. ASSUME NEW a \in Admins, ConfirmClaim(a) PROVE CleanupInv'
  <2>1. \A b \in Admins : confirm'[b] = IF b = a THEN Resting ELSE confirm[b]
    BY <1>4 DEF ConfirmClaim, CleanupTypes
  <2>2. CASE plan = confirm[a].row /\ plan' = [plan EXCEPT !.status = "queued"] /\ agreed' = plan
    <3>1. plan.status = "preview"
      BY <1>4, <2>2 DEF ConfirmClaim, CleanupInv
    <3>2. plan'.status = "queued" /\ plan'.actor = plan.actor /\ plan'.graph = plan.graph
      BY <2>2 DEF CleanupTypes, Plans
    <3> QED BY <1>4, <2>1, <2>2, <3>1, <3>2 DEF ConfirmClaim, CleanupInv, Resting, At, vars, bot
  <2>3. CASE UNCHANGED <<plan, agreed>>
    BY <1>4, <2>1, <2>3 DEF ConfirmClaim, CleanupInv, Resting, At, vars, bot
  <2> QED BY <1>4, <2>2, <2>3 DEF ConfirmClaim, Unmoved
<1>5. ASSUME NEW a \in Admins, Cancel(a) PROVE CleanupInv'
  BY <1>5 DEF Cancel, CleanupInv, NoPlan, vars, bot
<1>6. ASSUME NEW a \in Admins, Demote(a) PROVE CleanupInv'
  BY <1>6 DEF Demote, CleanupInv, vars, bot
<1>7. CASE Expire
  <2>1. /\ plan'.status = plan.status /\ plan'.actor = plan.actor
        /\ plan'.graph = plan.graph /\ plan'.token = plan.token
    BY <1>7 DEF Expire, CleanupTypes, Plans
  <2> QED BY <1>7, <2>1 DEF Expire, CleanupInv, vars, bot
<1>8. CASE Pause
  BY <1>8 DEF Pause, CleanupInv, vars, bot
<1>9. CASE Work
  <2>1. \/ /\ worker.row.status = "queued" /\ worker'.row = worker.row /\ worker'.at = "execute"
        \/ worker.row.status # "queued" /\ worker'.at = "files"
    BY <1>9 DEF Work, At, CleanupTypes
  <2> QED BY <1>9, <2>1 DEF Work, Drained, BotIdle, CleanupInv, vars, bot
<1>10. CASE Erase
  <2>1. plan'.status = "files" /\ worker'.at \in {"files", "resume"} /\ worker.at = "execute"
    BY <1>10 DEF Erase, At, CleanupTypes, Plans
  <2> QED BY <1>10, <2>1 DEF Erase, CleanupInv
<1>11. CASE NotErased
  BY <1>11 DEF NotErased, At, Ended, NoPlan, CleanupInv, bot
<1>12. CASE RemoveFiles
  <2>1. plan'.status # "queued" /\ worker'.at = "resume" /\ worker.at = "files"
    BY <1>12 DEF RemoveFiles, At, Ended, NoPlan, CleanupTypes, CleanupInv, Plans
  <2> QED BY <1>12, <2>1 DEF RemoveFiles, CleanupInv, bot
<1>13. CASE Resume
  BY <1>13 DEF Resume, Resting, At, CleanupInv, vars, bot
<1>14. CASE BotDies
  BY <1>14 DEF BotDies, Resting, At, IdleWriter, CleanupInv
<1>15. CASE UNCHANGED upkeepVars
  BY <1>15 DEF upkeepVars, vars, bot, cleanup, CleanupInv
<1> QED BY <1>1, <1>2, <1>3, <1>4, <1>5, <1>6, <1>7, <1>8, <1>9, <1>10, <1>11, <1>12, <1>13, <1>14, <1>15
  DEF UpkeepNext, Cleaning

-----------------------------------------------------------------------------
(* The files of an erased plan, and the files of every incident. *)

(* Beside the cleanup nobody gives a name to a file of an erased incident. *)
LEMMA PlanBeside ==
  ASSUME IInv, Next, UNCHANGED plan
  PROVE  PlanInv'
<1> SUFFICES ASSUME plan.status = "files", NEW k \in plan.files
             PROVE  /\ k \in owned' /\ incident'[Of[k]] = "gone" /\ outbox'[k] = "none"
                    /\ \A w \in Writers : Borrows(w)' => writer'[w].key # k
  BY DEF PlanInv
<1> DEFINE Kept == /\ k \in owned' /\ incident'[Of[k]] = "gone" /\ outbox'[k] = "none"
                   /\ \A w \in Writers : Borrows(w)' => writer'[w].key # k
<1>1. /\ k \in owned /\ incident[Of[k]] = "gone" /\ outbox[k] = "none"
      /\ \A w \in Writers : Borrows(w) => writer[w].key # k
  BY DEF IInv, PlanInv
<1>2. k \in AnswerKeys /\ k \in Keys /\ k \notin StagedKeys /\ Of[k] \in Incidents
  BY FilesAssumption DEF IInv, CleanupTypes, Plans, Keys
<1>3. k \notin attached /\ \A w \in Writers : Own(w) => writer[w].key # k
  BY <1>1, <1>2 DEF IInv, FInv, WritersInv, NamesInv
<1>4. TypeOK /\ landing \subseteq StagedKeys
  BY DEF IInv, FInv, TypeOK
<1> USE <1>1, <1>2, <1>3, <1>4
<1>5. ASSUME NEW w \in Writers, SubmitAnswer(w) PROVE Kept
  BY <1>5 DEF SubmitAnswer, NoFault, Fault, Rest, store, entries, IdleWriter, Borrows, Own,
     TypeOK
<1>6. ASSUME NEW w \in Writers, SubmitFails(w) PROVE Kept
  BY <1>6 DEF SubmitFails, Fault, Rest, entries, IdleWriter, Borrows, Own, TypeOK
<1>7. ASSUME NEW w \in Writers, Insert(w) PROVE Kept
  BY <1>7 DEF Insert, Rest, NoFault, WriterTo, Fault, store, entries, IdleWriter, Borrows,
     Own, TypeOK
<1>8. ASSUME NEW w \in Writers, InsertRefused(w) PROVE Kept
  BY <1>8 DEF InsertRefused, Fault, Rest, entries, IdleWriter, Borrows, Own, TypeOK
<1>9. ASSUME NEW w \in Writers, Reconcile(w) PROVE Kept
  BY <1>9 DEF Reconcile, Reconciled, Rest, entries, IdleWriter, Borrows, Own, TypeOK
<1>10. ASSUME NEW w \in Writers, CopyNames(w) PROVE Kept
  BY <1>10 DEF CopyNames, Admitted, WriterTo, Rest, store, entries, IdleWriter, Borrows,
     Own, TypeOK
<1>11. ASSUME NEW w \in Writers, CommitCopy(w) PROVE Kept
  BY <1>11 DEF CommitCopy, NoFault, Fault, Rest, store, entries, IdleWriter, Borrows, Own,
     TypeOK
<1>12. ASSUME NEW w \in Writers, WriterDies(w) PROVE Kept
  BY <1>12 DEF WriterDies, Fault, Rest, store, entries, IdleWriter, Borrows, Own, TypeOK
<1>13. ASSUME NEW w \in Writers, NEW j \in Keys, SaveFile(w, j) PROVE Kept
  BY <1>13 DEF SaveFile, WriterTo, NoFault, Fault, entries, Borrows, Own, TypeOK
<1>14. ASSUME NEW w \in Writers, NEW j \in Keys, ReadNames(w, j) PROVE Kept
  BY <1>14 DEF ReadNames, WriterTo, store, entries, Borrows, Own, TypeOK
<1>15. ASSUME NEW j \in Keys, Lands(j) PROVE Kept
  BY <1>15 DEF Lands, store, entries, Borrows, Own, TypeOK
<1>16. ASSUME NEW j \in Keys, SendRow(j) PROVE Kept
  BY <1>16 DEF SendRow, NoFault, Fault, entries, Borrows, Own, TypeOK
<1>17. ASSUME NEW s \in Sweepers, StartSweep(s) PROVE Kept
  BY <1>17 DEF StartSweep, SweepTo, bot, store, entries, Borrows, Own, TypeOK
<1>18. ASSUME NEW s \in Sweepers, DrainJournal(s) PROVE Kept
  BY <1>18 DEF DrainJournal, SweepTo, bot, store, entries, Borrows, Own, TypeOK
<1>19. ASSUME NEW s \in Sweepers, Begin(s) PROVE Kept
  BY <1>19 DEF Begin, Saved, SweepTo, bot, store, Borrows, Own, TypeOK
<1>20. ASSUME NEW s \in Sweepers, Fence(s) PROVE Kept
  BY <1>20 DEF Fence, KeyLocked, MayFence, SweepTo, Saved, Outcome, bot, store, Referenced,
     Borrows, Own, TypeOK
<1>21. ASSUME NEW s \in Sweepers, EntryFails(s) PROVE Kept
  BY <1>21 DEF EntryFails, KeyLocked, NoFault, Fault, MayFence, Saved, Outcome, SweepTo,
     Unlock, bot, Referenced, Borrows, Own, TypeOK
<1>22. ASSUME NEW s \in Sweepers, Remove(s) PROVE Kept
  BY <1>22 DEF Remove, SweepTo, NoFault, Saved, Fault, bot, Borrows, Own, TypeOK
<1>23. ASSUME NEW s \in Sweepers, Finish(s) PROVE Kept
  BY <1>23 DEF Finish, Fresh, SweepTo, bot, store, Borrows, Own, TypeOK
<1>24. ASSUME NEW s \in Sweepers, EndSweep(s) PROVE Kept
  BY <1>24 DEF EndSweep, SweepTo, Unlock, bot, store, entries, Borrows, Own, TypeOK
<1>25. ASSUME NEW s \in Sweepers, SweeperDies(s) PROVE Kept
  BY <1>25 DEF SweeperDies, Fault, SweepTo, bot, entries, Borrows, Own, TypeOK
<1>26. ASSUME NEW s \in Sweepers, NEW i \in Incidents, DeleteIncident(s, i) PROVE Kept
  BY <1>26 DEF DeleteIncident, Eligible, Delete, NoFault, Fault, store, Keys, FilesOf,
     Borrows, Own, TypeOK
<1>27. ASSUME NEW s \in Sweepers, NEW j \in Keys, Examine(s, j) PROVE Kept
  BY <1>27 DEF Examine, SweepTo, bot, store, entries, Borrows, Own, TypeOK
<1>28. ASSUME NEW j \in Keys, LateRemoval(j) PROVE Kept
  BY <1>28 DEF LateRemoval, bot, entries, Borrows, Own, TypeOK
<1>29. ASSUME NEW j \in Keys, EntryDue(j) PROVE Kept
  BY <1>29 DEF EntryDue, bot, store, Borrows, Own, TypeOK
<1>30. ASSUME NEW i \in Incidents, Age(i) PROVE Kept
  BY <1>30 DEF Age, bot, store, entries, Borrows, Own, TypeOK
<1>31. ASSUME NEW i \in Incidents, Reopen(i) PROVE Kept
  BY <1>31 DEF Reopen, Fault, bot, store, entries, Borrows, Own, TypeOK
<1>32. ASSUME LockStale PROVE Kept
  BY <1>32 DEF LockStale, bot, store, entries, Borrows, Own, TypeOK
<1> QED
  BY <1>5, <1>6, <1>7, <1>8, <1>9, <1>10, <1>11, <1>12, <1>13, <1>14, <1>15, <1>16,
     <1>17, <1>18, <1>19, <1>20, <1>21, <1>22, <1>23, <1>24, <1>25, <1>26, <1>27, <1>28,
     <1>29, <1>30, <1>31, <1>32
  DEF Next, Writing, Sweeping

(* Beside the cleanup nothing is forgotten either. *)
LEMMA LostBeside ==
  ASSUME IInv, Next, UNCHANGED plan
  PROVE  NoFileLost'
<1> DEFINE Found(k) == plan.status = "files" /\ k \in plan.files
<1> SUFFICES ASSUME NEW k \in AnswerKeys, k \in owned', k \in stored', ~Referenced(k)', k \notin journal'
             PROVE  Found(k)
  BY DEF NoFileLost
<1>1. k \in owned => k \notin stored \/ Referenced(k) \/ k \in journal \/ Found(k)
  BY DEF IInv, NoFileLost
<1>2. k \in Keys /\ k \notin StagedKeys /\ Of[k] \in Incidents
  BY FilesAssumption DEF Keys
<1>3. /\ stored \cup owned \subseteq used
      /\ Referenced(k) => k \in owned
      /\ k \in owned /\ incident[Of[k]] # "gone" => k \in attached
      /\ \A s \in Sweepers : sweep[s].at = "finish" => sweep[s].key \notin stored
  BY <1>2 DEF IInv, FInv, NamesInv, FenceInv
<1>4. TypeOK /\ landing \subseteq StagedKeys
  BY DEF IInv, FInv, TypeOK
<1> HIDE DEF Found
<1> USE <1>1, <1>2, <1>3, <1>4
<1>5. ASSUME NEW w \in Writers, SubmitAnswer(w) PROVE Found(k)
  BY <1>5 DEF SubmitAnswer, NoFault, Fault, Rest, store, entries, IdleWriter, Referenced,
     TypeOK
<1>6. ASSUME NEW w \in Writers, SubmitFails(w) PROVE Found(k)
  BY <1>6 DEF SubmitFails, Fault, Rest, entries, IdleWriter, Referenced, TypeOK
<1>7. ASSUME NEW w \in Writers, Insert(w) PROVE Found(k)
  BY <1>7 DEF Insert, Rest, NoFault, WriterTo, Fault, store, entries, IdleWriter,
     Referenced, TypeOK
<1>8. ASSUME NEW w \in Writers, InsertRefused(w) PROVE Found(k)
  BY <1>8 DEF InsertRefused, Fault, Rest, entries, IdleWriter, Referenced, TypeOK
<1>9. ASSUME NEW w \in Writers, Reconcile(w) PROVE Found(k)
  BY <1>9 DEF Reconcile, Reconciled, Rest, entries, IdleWriter, Referenced, TypeOK
<1>10. ASSUME NEW w \in Writers, CopyNames(w) PROVE Found(k)
  BY <1>10 DEF CopyNames, Admitted, WriterTo, Rest, store, entries, IdleWriter, Referenced,
     TypeOK
<1>11. ASSUME NEW w \in Writers, CommitCopy(w) PROVE Found(k)
  BY <1>11 DEF CommitCopy, NoFault, Fault, Rest, store, entries, IdleWriter, Referenced,
     TypeOK
<1>12. ASSUME NEW w \in Writers, WriterDies(w) PROVE Found(k)
  BY <1>12 DEF WriterDies, Fault, Rest, store, entries, IdleWriter, Referenced, TypeOK
<1>13. ASSUME NEW w \in Writers, NEW j \in Keys, SaveFile(w, j) PROVE Found(k)
  BY <1>13 DEF SaveFile, WriterTo, NoFault, Fault, entries, Referenced, TypeOK
<1>14. ASSUME NEW w \in Writers, NEW j \in Keys, ReadNames(w, j) PROVE Found(k)
  BY <1>14 DEF ReadNames, WriterTo, store, entries, Referenced, TypeOK
<1>15. ASSUME NEW j \in Keys, Lands(j) PROVE Found(k)
  BY <1>15 DEF Lands, store, entries, Referenced, TypeOK
<1>16. ASSUME NEW j \in Keys, SendRow(j) PROVE Found(k)
  BY <1>16 DEF SendRow, NoFault, Fault, entries, Referenced, TypeOK
<1>17. ASSUME NEW s \in Sweepers, StartSweep(s) PROVE Found(k)
  BY <1>17 DEF StartSweep, SweepTo, bot, store, entries, Referenced, TypeOK
<1>18. ASSUME NEW s \in Sweepers, DrainJournal(s) PROVE Found(k)
  BY <1>18 DEF DrainJournal, SweepTo, bot, store, entries, Referenced, TypeOK
<1>19. ASSUME NEW s \in Sweepers, Begin(s) PROVE Found(k)
  BY <1>19 DEF Begin, Saved, SweepTo, bot, store, Referenced, TypeOK
<1>20. ASSUME NEW s \in Sweepers, Fence(s) PROVE Found(k)
  BY <1>20 DEF Fence, KeyLocked, MayFence, SweepTo, Saved, Outcome, bot, store, Referenced,
     TypeOK
<1>21. ASSUME NEW s \in Sweepers, EntryFails(s) PROVE Found(k)
  BY <1>21 DEF EntryFails, KeyLocked, NoFault, Fault, MayFence, Saved, Outcome, SweepTo,
     Unlock, bot, Referenced, TypeOK
<1>22. ASSUME NEW s \in Sweepers, Remove(s) PROVE Found(k)
  BY <1>22 DEF Remove, SweepTo, NoFault, Saved, Fault, bot, Referenced, TypeOK
<1>23. ASSUME NEW s \in Sweepers, Finish(s) PROVE Found(k)
  BY <1>23 DEF Finish, Fresh, SweepTo, bot, store, Referenced, TypeOK
<1>24. ASSUME NEW s \in Sweepers, EndSweep(s) PROVE Found(k)
  BY <1>24 DEF EndSweep, SweepTo, Unlock, bot, store, entries, Referenced, TypeOK
<1>25. ASSUME NEW s \in Sweepers, SweeperDies(s) PROVE Found(k)
  BY <1>25 DEF SweeperDies, Fault, SweepTo, bot, entries, Referenced, TypeOK
<1>26. ASSUME NEW s \in Sweepers, NEW i \in Incidents, DeleteIncident(s, i) PROVE Found(k)
  BY <1>26 DEF DeleteIncident, Eligible, Delete, NoFault, Fault, store, Keys, FilesOf,
     Referenced, TypeOK
<1>27. ASSUME NEW s \in Sweepers, NEW j \in Keys, Examine(s, j) PROVE Found(k)
  BY <1>27 DEF Examine, SweepTo, bot, store, entries, Referenced, TypeOK
<1>28. ASSUME NEW j \in Keys, LateRemoval(j) PROVE Found(k)
  BY <1>28 DEF LateRemoval, bot, entries, Referenced, TypeOK
<1>29. ASSUME NEW j \in Keys, EntryDue(j) PROVE Found(k)
  BY <1>29 DEF EntryDue, bot, store, Referenced, TypeOK
<1>30. ASSUME NEW i \in Incidents, Age(i) PROVE Found(k)
  BY <1>30 DEF Age, bot, store, entries, Referenced, TypeOK
<1>31. ASSUME NEW i \in Incidents, Reopen(i) PROVE Found(k)
  BY <1>31 DEF Reopen, Fault, bot, store, entries, Referenced, TypeOK
<1>32. ASSUME LockStale PROVE Found(k)
  BY <1>32 DEF LockStale, bot, store, entries, Referenced, TypeOK
<1> QED
  BY <1>5, <1>6, <1>7, <1>8, <1>9, <1>10, <1>11, <1>12, <1>13, <1>14, <1>15, <1>16,
     <1>17, <1>18, <1>19, <1>20, <1>21, <1>22, <1>23, <1>24, <1>25, <1>26, <1>27, <1>28,
     <1>29, <1>30, <1>31, <1>32
  DEF Next, Writing, Sweeping

(* Every step keeps the files of an erased plan nameless. *)
LEMMA PlanStep ==
  ASSUME IInv, [UpkeepNext]_upkeepVars
  PROVE  PlanInv'
<1>1. CASE (Bot \/ Sweeping \/ LockStale) /\ UNCHANGED cleanup
  BY <1>1, BesideIsNext, PlanBeside DEF cleanup
<1>2. CASE Erase
  <2>1. /\ plan'.files \subseteq RowFiles /\ incident' = [i \in Incidents |-> "gone"]
        /\ \A k \in RowFiles : outbox'[k] = "none"
        /\ UNCHANGED <<owned, writer>>
    <3>1. plan'.files = Unshared(RowFiles)
      BY <1>2 DEF Erase, IInv, CleanupTypes, Plans
    <3> QED BY <1>2, <3>1 DEF Erase, Unshared, RowFiles
  <2>2. \A k \in RowFiles : k \in owned /\ Of[k] \in Incidents
    BY FilesAssumption DEF RowFiles, Doomed, IInv, FInv, NamesInv
  <2>3. \A w \in Writers : ~Borrows(w)'
    BY <1>2, <2>1 DEF Erase, IInv, CleanupInv, Borrows
  <2> QED BY <2>1, <2>2, <2>3 DEF PlanInv
<1>3. CASE RemoveFiles
  <2>1. plan'.status = "files" => plan'.files \subseteq plan.files
    BY <1>3 DEF RemoveFiles, Ended, NoPlan, IInv, CleanupTypes, Plans
  <2>2. UNCHANGED <<owned, incident, outbox, writer>>
    BY <1>3 DEF RemoveFiles, bot
  <2>3. plan.status = "files"
    BY <1>3 DEF RemoveFiles, IInv, CleanupInv
  <2> QED BY <2>1, <2>2, <2>3 DEF PlanInv, IInv, Borrows
<1>4. ASSUME plan'.status = "files" => plan' = plan,
             UNCHANGED <<owned, incident, outbox>>,
             \A w \in Writers : writer'[w] = writer[w] \/ writer'[w] = IdleWriter
      PROVE  PlanInv'
  BY <1>4 DEF PlanInv, IInv, Borrows, IdleWriter
<1>5. ASSUME UNCHANGED vars, plan'.status = "files" => plan' = plan
      PROVE  PlanInv'
  BY <1>4, <1>5 DEF vars, bot
<1>6. ASSUME NEW a \in Admins,
             Preview(a) \/ Confirm(a) \/ ConfirmClaim(a) \/ Cancel(a) \/ Demote(a)
      PROVE  UNCHANGED vars /\ (plan'.status = "files" => plan' = plan)
  BY <1>6
  DEF Preview, Confirm, ConfirmClaim, Cancel, Demote, NoPlan, IInv, CleanupTypes, Plans
<1>7. ASSUME Expire \/ Pause \/ Work \/ Resume \/ UNCHANGED upkeepVars
      PROVE  UNCHANGED vars /\ (plan'.status = "files" => plan' = plan)
  BY <1>7 DEF Expire, Pause, Work, Resume, upkeepVars, cleanup, IInv, CleanupTypes, Plans
<1>8. CASE NotErased
  BY <1>4, <1>8 DEF NotErased, bot, Ended, NoPlan
<1>9. CASE BotDies
  BY <1>4, <1>9 DEF BotDies
<1> QED BY <1>1, <1>2, <1>3, <1>5, <1>6, <1>7, <1>8, <1>9
  DEF UpkeepNext, Cleaning

(* Every step keeps track of every file. *)
LEMMA LostStep ==
  ASSUME IInv, [UpkeepNext]_upkeepVars
  PROVE  NoFileLost'
<1>1. CASE (Bot \/ Sweeping \/ LockStale) /\ UNCHANGED cleanup
  BY <1>1, BesideIsNext, LostBeside DEF cleanup
<1>2. CASE Erase
  <2>1. /\ plan.status # "files" /\ plan'.status = "files" /\ plan'.files = Unshared(RowFiles)
        /\ UNCHANGED <<owned, stored, journal>>
        /\ outbox' = [k \in Keys |-> IF k \in AnswerKeys /\ Of[k] \in Doomed THEN "none" ELSE outbox[k]]
    BY <1>2 DEF Erase, MayErase, IInv, CleanupInv, CleanupTypes, Plans, store, entries
  <2> SUFFICES ASSUME NEW k \in owned \cap AnswerKeys, k \in stored, k \notin journal,
                      ~Referenced(k)'
               PROVE  k \in Unshared(RowFiles)
    BY <2>1 DEF NoFileLost
  <2>2. Referenced(k) /\ k \in Keys /\ k \notin StagedKeys /\ Of[k] \in Incidents
    BY <2>1, FilesAssumption DEF IInv, NoFileLost, Keys
  <2>3. Of[k] \in Doomed
    <3>1. CASE k \in attached
      BY <2>2, <3>1 DEF Doomed, IInv, FInv, NamesInv
    <3>2. CASE k \notin attached
      BY <2>1, <2>2, <3>2 DEF Referenced
    <3> QED BY <3>1, <3>2
  <2> QED BY <2>2, <2>3 DEF Unshared, RowFiles
<1>3. CASE RemoveFiles
  <2>1. UNCHANGED <<owned, attached, outbox, journal>>
    BY <1>3 DEF RemoveFiles, bot, entries
  <2>2. stored' = stored \ plan.files
          \/ (plan'.status = plan.status /\ stored' = stored \ (plan.files \ plan'.files))
    BY <1>3 DEF RemoveFiles, IInv, CleanupTypes, Plans
  <2> QED BY <2>1, <2>2 DEF NoFileLost, Referenced, IInv
<1>4. ASSUME plan.status = "files" => plan' = plan,
             UNCHANGED <<owned, stored, attached, outbox, journal>>
      PROVE  NoFileLost'
  BY <1>4 DEF NoFileLost, Referenced, IInv
<1>5. ASSUME UNCHANGED vars, plan.status = "files" => plan' = plan
      PROVE  NoFileLost'
  BY <1>4, <1>5 DEF vars, bot, store, entries
<1>6. ASSUME NEW a \in Admins,
             Preview(a) \/ Confirm(a) \/ ConfirmClaim(a) \/ Cancel(a) \/ Demote(a)
      PROVE  UNCHANGED vars /\ (plan.status = "files" => plan' = plan)
  <2>1. CASE ConfirmClaim(a)
    BY <2>1 DEF ConfirmClaim, Unmoved, IInv, CleanupInv
  <2> QED BY <1>6, <2>1 DEF Preview, Confirm, Cancel, Demote
<1>7. ASSUME Expire \/ Pause \/ Work \/ Resume \/ UNCHANGED upkeepVars
      PROVE  UNCHANGED vars /\ (plan.status = "files" => plan' = plan)
  BY <1>7 DEF Expire, Pause, Work, Resume, upkeepVars, cleanup
<1>8. CASE NotErased
  BY <1>4, <1>8 DEF NotErased, bot, store, entries
<1>9. CASE BotDies
  BY <1>4, <1>9 DEF BotDies, store, entries
<1> QED BY <1>1, <1>2, <1>3, <1>5, <1>6, <1>7, <1>8, <1>9
  DEF UpkeepNext, Cleaning

-----------------------------------------------------------------------------
(* Files alone: a file that a row needs is in the storage, whoever dies    *)
(* and however late a removal completes.                                   *)
THEOREM FilesStayWithRows == Spec => []FilesKept
<1>1. FInv /\ [Next]_vars => FInv'
  BY FilesStep
<1>2. FInv => FilesKept
  BY DEF FInv
<1> QED BY FilesStart, <1>1, <1>2, PTL DEF Spec

(* The start of the whole. *)
LEMMA UpkeepStart == UpkeepInit => IInv
<1> SUFFICES ASSUME UpkeepInit PROVE IInv
  OBVIOUS
<1>1. FInv
  BY FilesStart DEF UpkeepInit
<1>2. CleanupTypes
  BY PlanValues DEF UpkeepInit, CleanupTypes, Resting, At
<1>3. CleanupInv /\ PlanInv
  BY DEF UpkeepInit, CleanupInv, PlanInv, Resting, At, NoPlan
<1>4. NoFileLost
  BY DEF UpkeepInit, Init, NoFileLost
<1> QED BY <1>1, <1>2, <1>3, <1>4 DEF IInv

(* The inductive invariant of the files and both cleanups. *)
THEOREM UpkeepInvariant == UpkeepSpec => []IInv
<1>1. IInv /\ [UpkeepNext]_upkeepVars => IInv'
  BY UpkeepFilesStep, CleanupTypesStep, CleanupStep, PlanStep, LostStep DEF IInv
<1> QED BY UpkeepStart, <1>1, PTL DEF UpkeepSpec

(* With the manual cleanup beside the bot and the retention process, too,  *)
(* a file that an attachment or an unsent row names is in the storage.     *)
THEOREM FilesAreKept == UpkeepSpec => []FilesKept
<1>1. IInv => FilesKept
  BY DEF IInv, FInv
<1> QED BY UpkeepInvariant, <1>1, PTL

(* Whichever cleanup erased its incident, a stored answer file that once   *)
(* had a name still has one, or is listed for deletion.                    *)
THEOREM NoFileIsLost == UpkeepSpec => []NoFileLost
<1>1. IInv => NoFileLost
  BY DEF IInv
<1> QED BY UpkeepInvariant, <1>1, PTL

(* What a manual cleanup erases is what an administrator, who still is     *)
(* one, was shown and confirmed, and nobody else is at work on it.         *)
THEOREM ErasureAsShown == UpkeepSpec => ErasedAsShown
<1> DEFINE A == (plan.status = "queued" /\ plan'.status = "files") =>
       /\ agreed.actor = plan.actor /\ agreed.graph = Graph /\ plan.actor \in rights
       /\ \A w \in Writers : writer[w].at = "idle"
       /\ ~lock.fresh
<1>1. IInv /\ [UpkeepNext]_upkeepVars => [A]_upkeepVars
  <2> SUFFICES ASSUME IInv, UpkeepNext, plan.status = "queued", plan'.status = "files"
               PROVE  A
    BY DEF upkeepVars
  <2>1. plan' # plan /\ ~UNCHANGED cleanup
    BY DEF cleanup
  <2>2. Erase
    <3>1. ASSUME NEW a \in Admins,
                 Preview(a) \/ Confirm(a) \/ ConfirmClaim(a) \/ Cancel(a) \/ Demote(a)
          PROVE  FALSE
      BY <3>1, <2>1
      DEF Preview, Confirm, ConfirmClaim, Cancel, Demote, NoPlan, IInv, CleanupTypes, Plans
    <3>2. ~(Expire \/ Pause \/ Work \/ Resume \/ BotDies)
      BY <2>1 DEF Expire, Pause, Work, Resume, BotDies, IInv, CleanupTypes, Plans
    <3>3. ~NotErased
      BY <2>1 DEF NotErased, Ended, NoPlan
    <3>4. ~RemoveFiles
      BY DEF RemoveFiles, IInv, CleanupInv
    <3> QED BY <2>1, <3>1, <3>2, <3>3, <3>4 DEF UpkeepNext, Cleaning
  <2> QED BY <2>2 DEF Erase, MayErase, IInv, CleanupInv
<1> QED BY UpkeepInvariant, <1>1, PTL DEF UpkeepSpec, ErasedAsShown
=============================================================================
