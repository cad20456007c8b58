---------------------------- MODULE InboxProofs ----------------------------
(***************************************************************************)
(* Proofs about Inbox, for every number of users, updates and locks and    *)
(* every bound.                                                            *)
(***************************************************************************)
EXTENDS Inbox, FiniteSetTheorems, SequenceTheorems, TLAPS

(* A finite nonempty set of naturals has a least and a greatest element.   *)
LEMMA Extremes ==
  ASSUME NEW S, S \subseteq Nat, IsFiniteSet(S), S # {}
  PROVE  /\ \E n \in S : \A m \in S : m <= n
         /\ \E n \in S : \A m \in S : n <= m
<1> DEFINE Up(n)   == {m \in S : n <= m}
           Down(n) == {m \in S : m <= n}
<1>1. IsWellFoundedOn(StrictSubsetOrdering(S), FiniteSubsetsOf(S))
  BY FS_StrictSubsetOrderingWellFounded
<1>2. FiniteSubsetsOf(S) = SUBSET S
  BY FS_FiniteSubsetsOfFinite
<1>3. \E n \in S : \A m \in S : m <= n
  <2> DEFINE T == {Up(n) : n \in S}
  <2>1. T \subseteq FiniteSubsetsOf(S) /\ T # {}
    <3>1. T \subseteq SUBSET S
      OBVIOUS
    <3>2. T # {}
      BY S # {}
    <3> QED BY <3>1, <3>2, <1>2
  <2>2. PICK X \in T : \A Y \in T : ~ (<<Y, X>> \in StrictSubsetOrdering(S))
    <3> HIDE DEF T
    <3> QED BY <1>1, <2>1, WFMin
  <2>3. PICK n \in S : X = Up(n)
    OBVIOUS
  <2>4. ASSUME NEW m \in S, ~(m <= n) PROVE FALSE
    <3>1. Up(m) \subseteq Up(n) /\ Up(m) # Up(n) /\ Up(m) \in SUBSET S /\ Up(n) \in SUBSET S
      <4>1. n < m
        BY <2>4
      <4>2. n \in Up(n) /\ n \notin Up(m)
        BY <4>1
      <4>3. ASSUME NEW k \in Up(m) PROVE k \in Up(n)
        BY <4>1
      <4> QED BY <4>2, <4>3
    <3>2. <<Up(m), Up(n)>> \in StrictSubsetOrdering(S)
      BY <3>1 DEF StrictSubsetOrdering
    <3> QED BY <3>2, <2>2, <2>3
  <2> QED BY <2>4
<1>4. \E n \in S : \A m \in S : n <= m
  <2> DEFINE T == {Down(n) : n \in S}
  <2>1. T \subseteq FiniteSubsetsOf(S) /\ T # {}
    <3>1. T \subseteq SUBSET S
      OBVIOUS
    <3>2. T # {}
      BY S # {}
    <3> QED BY <3>1, <3>2, <1>2
  <2>2. PICK X \in T : \A Y \in T : ~ (<<Y, X>> \in StrictSubsetOrdering(S))
    <3> HIDE DEF T
    <3> QED BY <1>1, <2>1, WFMin
  <2>3. PICK n \in S : X = Down(n)
    OBVIOUS
  <2>4. ASSUME NEW m \in S, ~(n <= m) PROVE FALSE
    <3>1. Down(m) \subseteq Down(n) /\ Down(m) # Down(n) /\ Down(m) \in SUBSET S /\ Down(n) \in SUBSET S
      <4>1. m < n
        BY <2>4
      <4>2. n \in Down(n) /\ n \notin Down(m)
        BY <4>1
      <4>3. ASSUME NEW k \in Down(m) PROVE k \in Down(n)
        BY <4>1
      <4> QED BY <4>2, <4>3
    <3>2. <<Down(m), Down(n)>> \in StrictSubsetOrdering(S)
      BY <3>1 DEF StrictSubsetOrdering
    <3> QED BY <3>2, <2>2, <2>3
  <2> QED BY <2>4
<1> QED BY <1>3, <1>4

(* The values a function takes on a finite set are finitely many.          *)
LEMMA FiniteImage ==
  ASSUME NEW S, IsFiniteSet(S), NEW f \in [S -> Nat]
  PROVE  IsFiniteSet({f[x] : x \in S})
<1> DEFINE T == {f[x] : x \in S}
<1>1. f \in Surjection(S, T)
  BY DEF Surjection
<1> QED BY <1>1, FS_Surjection

(* A pass that visits the map either ends or holds one of its entries.     *)
LEMMA VisitEntry ==
  ASSUME NEW h \in [Updates -> Settlement \cup {None}], NEW pos \in Nat
  PROVE  \/ Visit(h, pos) = NoPass
         \/ \E u \in Updates :
              /\ h[u] # None
              /\ Visit(h, pos) = [step |-> "write", pos |-> h[u].ord, row |-> u,
                                  lock |-> h[u].lock, before |-> h[u].before,
                                  contact |-> h[u].contact]
<1> DEFINE ahead == {u \in Updates : h[u] # None /\ h[u].ord > pos}
<1>1. CASE ahead = {}
  BY <1>1 DEF Visit
<1>2. CASE ahead # {}
  <2> DEFINE f == [u \in ahead |-> h[u].ord]
  <2>1. IsFiniteSet(ahead) /\ f \in [ahead -> Nat]
    <3>1. ahead \in SUBSET Updates
      OBVIOUS
    <3>2. \A u \in ahead : h[u].ord \in Nat
      BY DEF Settlement
    <3> QED BY <3>1, <3>2, FS_Subset, ConstantsAssumption
  <2>2. IsFiniteSet({f[u] : u \in ahead})
    <3> HIDE DEF f, ahead
    <3> QED BY <2>1, FiniteImage
  <2>3. {f[u] : u \in ahead} \subseteq Nat /\ {f[u] : u \in ahead} # {}
    BY <2>1, <1>2
  <2>4. \E n \in {f[u] : u \in ahead} : \A m \in {f[u] : u \in ahead} : n <= m
    <3> HIDE DEF f, ahead
    <3> QED BY <2>2, <2>3, Extremes
  <2>5. \E u \in ahead : \A v \in ahead : h[u].ord <= h[v].ord
    BY <2>4
  <2> DEFINE u == CHOOSE u \in ahead : \A v \in ahead : h[u].ord <= h[v].ord
  <2>6. u \in ahead
    BY <2>5
  <2>7. Visit(h, pos) = [step |-> "write", pos |-> h[u].ord, row |-> u, lock |-> h[u].lock,
                         before |-> h[u].before, contact |-> h[u].contact]
    BY <1>2 DEF Visit
  <2> QED BY <2>6, <2>7
<1> QED BY <1>1, <1>2

(* A new entry of the settlements map has a natural position.              *)
LEMMA NewOrdType ==
  ASSUME TypeOK
  PROVE  NewOrd \in Nat
<1> DEFINE some  == {v \in Updates : held[v] # None}
           f     == [u \in some |-> held[u].ord]
           g     == [a \in Agents |-> sweep[a].pos]
           taken == {held[u].ord : u \in some} \cup {sweep[a].pos : a \in Agents}
<1>1. f \in [some -> Nat] /\ g \in [Agents -> Nat]
  BY DEF TypeOK, Settlement, Pass
<1>2. IsFiniteSet(some) /\ IsFiniteSet(Agents)
  <2>1. some \in SUBSET Updates
    OBVIOUS
  <2> QED BY <2>1, FS_Subset, FS_AddElement, ConstantsAssumption DEF Agents
<1>3. IsFiniteSet({f[u] : u \in some}) /\ IsFiniteSet({g[a] : a \in Agents})
  <2> HIDE DEF f, g, some
  <2> QED BY <1>1, <1>2, FiniteImage
<1>4. taken = {f[u] : u \in some} \cup {g[a] : a \in Agents}
  OBVIOUS
<1>5. IsFiniteSet(taken)
  <2> DEFINE F == {f[u] : u \in some}
             G == {g[a] : a \in Agents}
  <2>1. IsFiniteSet(F) /\ IsFiniteSet(G) /\ taken = F \cup G
    BY <1>3, <1>4
  <2> HIDE DEF taken, F, G
  <2> QED BY <2>1, FS_Union
<1>6. taken \subseteq Nat /\ taken # {}
  <2>1. sweep[Drain].pos \in taken
    BY DEF Agents
  <2>2. \A u \in some : held[u].ord \in Nat
    BY DEF TypeOK, Settlement
  <2>3. \A a \in Agents : sweep[a].pos \in Nat
    BY DEF TypeOK, Pass
  <2> QED BY <2>1, <2>2, <2>3
<1>7. \E n \in taken : \A m \in taken : m <= n
  <2> HIDE DEF taken
  <2> QED BY <1>5, <1>6, Extremes
<1>8. NewOrd = 1 + CHOOSE n \in taken : \A m \in taken : m <= n
  BY DEF NewOrd
<1>9. (CHOOSE n \in taken : \A m \in taken : m <= n) \in Nat
  <2> HIDE DEF taken
  <2> QED BY <1>6, <1>7
<1> QED BY <1>8, <1>9

-----------------------------------------------------------------------------
(* Type correctness.                                                       *)

(* A drawn lock is one of Locks, and nothing else names it.                *)
LEMMA FreshLockFresh ==
  ASSUME CanLock
  PROVE  FreshLock \in Locks /\ FreshLock \notin UsedLocks
<1> FreshLock \in Locks \ UsedLocks
  BY DEF CanLock, FreshLock
<1> QED OBVIOUS

LEMMA ClaimedType ==
  ASSUME TypeOK, NEW u \in Updates, NEW k \in Locks
  PROVE  Claimed(u, k) \in [Updates -> Row]
<1>1. rows[u] \in Row
  BY DEF TypeOK
<1>2. [rows[u] EXCEPT !.status = "PROCESSING", !.lock = k, !.attempts = rows[u].attempts + 1] \in Row
  <2> DEFINE n == rows[u].attempts + 1
  <2>1. n \in Nat
    BY <1>1 DEF Row
  <2> HIDE DEF n
  <2>2. [rows[u] EXCEPT !.status = "PROCESSING", !.lock = k, !.attempts = n] \in Row
    BY <1>1, <2>1 DEF Row, Statuses, Settled
  <2> QED BY <2>2 DEF n
<1> QED BY <1>2 DEF TypeOK, Claimed

LEMMA ProcessedType ==
  ASSUME TypeOK, NEW u \in Updates, NEW k
  PROVE  Processed(u, k) \in [Updates -> Row]
<1>1. rows[u] \in Row
  BY DEF TypeOK
<1>2. [rows[u] EXCEPT !.status = "PROCESSED", !.lock = None, !.kept = FALSE] \in Row
  BY <1>1 DEF Row, Statuses, Settled
<1> QED BY <1>2 DEF TypeOK, Processed

LEMMA SettledRowsType ==
  ASSUME TypeOK, NEW a \in Agents, sweep[a].row \in Updates
  PROVE  SettledRows(sweep[a]) \in [Updates -> Row]
<1> DEFINE p == sweep[a]
           u == p.row
<1>0. rows[u] \in Row
  BY DEF TypeOK
<1>1. CASE ~Owned(u, p.lock)
  BY <1>1 DEF TypeOK, SettledRows
<1>2. CASE Owned(u, p.lock) /\ MayRetry(p)
  <2>1. [rows[u] EXCEPT !.status = "PENDING", !.lock = None, !.due = FALSE] \in Row
    BY <1>0 DEF Row, Statuses
  <2> QED BY <1>2, <2>1 DEF TypeOK, SettledRows
<1>3. CASE Owned(u, p.lock) /\ ~MayRetry(p)
  <2> DEFINE keep == rows[u].kept /\ ~p.contact /\ ~(p.before /\ u \in Contact)
  <2>1. [rows[u] EXCEPT !.status = "FAILED", !.lock = None, !.kept = keep] \in Row
    <3>1. keep \in BOOLEAN
      OBVIOUS
    <3> HIDE DEF keep
    <3> QED BY <1>0, <3>1 DEF Row, Statuses, Settled
  <2>2. SettledRows(p) = [rows EXCEPT ![u] =
          [rows[u] EXCEPT !.status = "FAILED", !.lock = None, !.kept = keep]]
    BY <1>3 DEF SettledRows
  <2> QED BY <2>1, <2>2 DEF TypeOK
<1> QED BY <1>1, <1>2, <1>3

LEMMA RecoveredType ==
  ASSUME NEW r \in Row, NEW u
  PROVE  Recovered(r, u) \in Row
BY DEF Recovered, Row, Statuses, Settled

LEMMA NoRowType == NoRow \in Row
BY DEF NoRow, Row, Statuses

LEMMA NoPassType == NoPass \in Pass
BY DEF NoPass, Pass

LEMMA VisitType ==
  ASSUME NEW h \in [Updates -> Settlement \cup {None}], NEW pos \in Nat
  PROVE  Visit(h, pos) \in Pass
<1>1. CASE Visit(h, pos) = NoPass
  BY <1>1, NoPassType
<1>2. ASSUME NEW u \in Updates, h[u] # None,
             Visit(h, pos) = [step |-> "write", pos |-> h[u].ord, row |-> u,
                              lock |-> h[u].lock, before |-> h[u].before,
                              contact |-> h[u].contact]
      PROVE  Visit(h, pos) \in Pass
  <2>1. h[u] \in Settlement
    BY <1>2
  <2> QED BY <1>2, <2>1 DEF Settlement, Pass
<1> QED BY <1>1, <1>2, VisitEntry

LEMMA FaultType ==
  ASSUME TypeOK, Fault
  PROVE  faults' \in Nat
BY DEF TypeOK, Fault

LEMMA EndTaskType ==
  ASSUME TypeOK, NEW u \in Updates, NEW ok, EndTask(u, ok)
  PROVE  /\ task' \in [Updates -> Task]
         /\ drain' \in {"off", "sweep", "pick", "wait", "closing"}
BY DEF TypeOK, EndTask, AfterTask, NoTask, Task

(* The settlements map that Settle leaves behind. *)
HeldWith(u, k, before, contact) ==
  [held EXCEPT ![u] = [ord |-> IF held[u] = None THEN NewOrd ELSE held[u].ord,
                       lock |-> k, before |-> before, contact |-> contact]]

LEMMA HeldWithType ==
  ASSUME TypeOK, NEW u \in Updates, NEW k \in Locks,
         NEW before \in BOOLEAN, NEW contact \in BOOLEAN
  PROVE  HeldWith(u, k, before, contact) \in [Updates -> Settlement \cup {None}]
<1>1. (IF held[u] = None THEN NewOrd ELSE held[u].ord) \in Nat
  BY NewOrdType DEF TypeOK, Settlement
<1> QED BY <1>1 DEF HeldWith, TypeOK, Settlement

LEMMA SettleType ==
  ASSUME TypeOK, NEW u \in Updates, NEW k \in Locks,
         NEW before \in BOOLEAN, NEW contact \in BOOLEAN,
         Settle(u, k, before, contact)
  PROVE  /\ held' = HeldWith(u, k, before, contact)
         /\ held' \in [Updates -> Settlement \cup {None}]
         /\ sweep' = [sweep EXCEPT ![u] = Visit(held', 0)]
         /\ sweep' \in [Agents -> Pass]
         /\ task' = [task EXCEPT ![u] = [at |-> "settle", lock |-> k]]
         /\ task' \in [Updates -> Task]
<1>1. held' = HeldWith(u, k, before, contact)
  BY DEF Settle, HeldWith
<1>2. held' \in [Updates -> Settlement \cup {None}]
  BY <1>1, HeldWithType
<1>3. sweep' = [sweep EXCEPT ![u] = Visit(held', 0)]
  BY DEF Settle
<1>4. sweep' \in [Agents -> Pass]
  BY <1>2, <1>3, VisitType DEF TypeOK
<1>5. task' = [task EXCEPT ![u] = [at |-> "settle", lock |-> k]]
  BY DEF Settle
<1>6. task' \in [Updates -> Task]
  BY <1>5 DEF TypeOK, Task
<1> QED BY <1>1, <1>2, <1>3, <1>4, <1>5, <1>6

(* Nothing the process does takes a variable out of its domain.            *)
LEMMA TypeStep ==
  ASSUME TypeOK, PassNamed, LockUnsettled, [Next]_vars
  PROVE  TypeOK'
<1>1. ASSUME NEW u \in Updates, Deliver(u) PROVE TypeOK'
  <2>1. [update |-> u, at |-> clock + 1] \in Receipt
    BY DEF TypeOK, Receipt
  <2>2. chain' \in [Lanes -> Seq(Receipt)]
    <3>1. Lane[u] \in Lanes /\ chain[Lane[u]] \in Seq(Receipt)
      BY ConstantsAssumption DEF TypeOK
    <3>2. Append(chain[Lane[u]], [update |-> u, at |-> clock + 1]) \in Seq(Receipt)
      BY <2>1, <3>1
    <3> QED BY <1>1, <3>2 DEF Deliver, Chained, TypeOK
  <2> QED BY <1>1, <2>2 DEF TypeOK, Deliver
<1>2. ASSUME NEW l \in Lanes, Reserve(l) PROVE TypeOK'
  <2> DEFINE u == Head(chain[l]).update
  <2>1. chain' \in [Lanes -> Seq(Receipt)] /\ Head(chain[l]) \in Receipt
    BY <1>2, HeadTailProperties DEF Reserve, TypeOK
  <2>2. u \in Updates /\ Head(chain[l]).at \in Nat
    BY <2>1 DEF Receipt
  <2>3. rows' \in [Updates -> Row] /\ lastSeq' \in Nat
    <3> DEFINE r == [status |-> "PENDING", seq |-> lastSeq + 1,
                     received |-> Head(chain[l]).at, attempts |-> 0,
                     due |-> TRUE, lock |-> None, kept |-> TRUE]
    <3>1. r \in Row /\ lastSeq + 1 \in Nat
      <4>1. lastSeq + 1 \in Nat
        BY DEF TypeOK
      <4> QED BY <2>2, <4>1 DEF Row, Statuses
    <3>2. (rows' = [rows EXCEPT ![u] = r] /\ lastSeq' = lastSeq + 1)
          \/ (rows' = rows /\ lastSeq' = lastSeq)
      BY <1>2 DEF Reserve
    <3> HIDE DEF r
    <3> QED BY <3>1, <3>2, <2>2 DEF TypeOK
  <2> QED BY <1>2, <2>1, <2>3 DEF TypeOK, Reserve, budgets
<1>3. ASSUME NEW l \in Lanes, ReserveFails(l) PROVE TypeOK'
  <2>1. chain' \in [Lanes -> Seq(Receipt)]
    BY <1>3, HeadTailProperties DEF ReserveFails, TypeOK
  <2> QED BY <1>3, <2>1 DEF TypeOK, ReserveFails, Fault
<1>4. ASSUME Kick PROVE TypeOK'
  <2>1. Visit(held, 0) \in Pass
    BY VisitType DEF TypeOK
  <2> QED BY <1>4, <2>1 DEF TypeOK, Kick, budgets
<1>5. ASSUME NEW u \in Updates, Pick(u) PROVE TypeOK'
  BY <1>5 DEF TypeOK, Pick, budgets, Task
<1>6. ASSUME PickNone \/ DrainRejects PROVE TypeOK'
  BY <1>6 DEF TypeOK, PickNone, DrainRejects, budgets
<1>7. ASSUME NEW u \in Updates, Abandon(u) PROVE TypeOK'
  <2>1. EndTask(u, TRUE) \/ EndTask(u, FALSE)
    BY <1>7 DEF Abandon
  <2>2. faults' \in Nat
    <3>1. faults' = faults \/ Fault
      BY <1>7 DEF Abandon
    <3> QED BY <3>1, FaultType DEF TypeOK
  <2> QED BY <1>7, <2>1, <2>2, EndTaskType DEF TypeOK, Abandon
<1>8. ASSUME NEW u \in Updates, Claim(u) PROVE TypeOK'
  <2>1. FreshLock \in Locks
    BY <1>8, FreshLockFresh DEF Claim
  <2>2. CASE Eligible(u)
    <3>1. rows' \in [Updates -> Row]
      BY <1>8, <2>1, <2>2, ClaimedType DEF Claim
    <3>2. task' \in [Updates -> Task]
      <4>1. [at |-> "read", lock |-> FreshLock] \in Task
        BY <2>1 DEF Task
      <4>2. task' = [task EXCEPT ![u] = [at |-> "read", lock |-> FreshLock]]
        BY <1>8, <2>2 DEF Claim
      <4> QED BY <4>1, <4>2 DEF TypeOK
    <3> QED BY <1>8, <2>2, <3>1, <3>2 DEF TypeOK, Claim, budgets
  <2>3. CASE ~Eligible(u)
    BY <1>8, <2>3, EndTaskType DEF TypeOK, Claim, budgets
  <2> QED BY <2>2, <2>3
<1>9. ASSUME NEW u \in Updates, ClaimUncertain(u) PROVE TypeOK'
  <2>1. FreshLock \in Locks
    BY <1>9, FreshLockFresh DEF ClaimUncertain
  <2>2. rows' \in [Updates -> Row]
    BY <1>9, <2>1, ClaimedType DEF ClaimUncertain, TypeOK
  <2>3. Settle(u, FreshLock, TRUE, FALSE)
    BY <1>9 DEF ClaimUncertain
  <2>4. faults' \in Nat
    BY <1>9, FaultType DEF ClaimUncertain
  <2> QED BY <1>9, <2>1, <2>2, <2>3, <2>4, SettleType DEF TypeOK, ClaimUncertain
<1>10. ASSUME NEW u \in Updates, Dispatch(u) PROVE TypeOK'
  <2>1. CASE Owned(u, task[u].lock)
    <3>1. /\ starts' = [starts EXCEPT ![u] = @ + 1]
          /\ task' = [task EXCEPT ![u].at = "business"]
          /\ UNCHANGED drain
      BY <1>10, <2>1 DEF Dispatch, Owned
    <3>2. starts' \in [Updates -> Nat]
      BY <3>1 DEF TypeOK
    <3>3. task' \in [Updates -> Task]
      BY <3>1 DEF TypeOK, Task
    <3> QED BY <1>10, <3>1, <3>2, <3>3 DEF TypeOK, Dispatch, budgets
  <2>2. CASE ~Owned(u, task[u].lock)
    BY <1>10, <2>2, EndTaskType DEF TypeOK, Dispatch, Owned, budgets
  <2> QED BY <2>1, <2>2
<1>11. ASSUME NEW u \in Updates,
              ReadFails(u) \/ BusinessThrows(u) \/ MarkUncertain(u)
       PROVE  TypeOK'
  <2>0. task[u].lock \in Locks
    BY <1>11 DEF LockUnsettled, TypeOK, Task, ReadFails, BusinessThrows, MarkUncertain
  <2>1. PICK before \in BOOLEAN, contact \in BOOLEAN : Settle(u, task[u].lock, before, contact)
    <3>1. \/ Settle(u, task[u].lock, TRUE, FALSE)
          \/ Settle(u, task[u].lock, FALSE, u \in Contact)
      BY <1>11 DEF ReadFails, BusinessThrows, MarkUncertain
    <3>2. (u \in Contact) \in BOOLEAN
      OBVIOUS
    <3> QED BY <3>1, <3>2
  <2>2. rows' \in [Updates -> Row]
    <3>1. rows' = rows \/ rows' = Processed(u, task[u].lock)
      BY <1>11 DEF ReadFails, BusinessThrows, MarkUncertain
    <3> QED BY <3>1, ProcessedType DEF TypeOK
  <2>3. faults' \in Nat
    <3>1. faults' = faults \/ Fault
      BY <1>11 DEF ReadFails, BusinessThrows, MarkUncertain, budgets
    <3> QED BY <3>1, FaultType DEF TypeOK
  <2>4. UNCHANGED <<lastSeq, clock, chain, drain, proc, paused, starts, aged, calls, crashes, stops>>
    BY <1>11 DEF ReadFails, BusinessThrows, MarkUncertain, budgets
  <2> QED BY <2>0, <2>1, <2>2, <2>3, <2>4, SettleType DEF TypeOK
<1>12. ASSUME NEW u \in Updates, MarkProcessed(u) PROVE TypeOK'
  <2>1. rows' \in [Updates -> Row]
    BY <1>12, ProcessedType DEF MarkProcessed
  <2> QED BY <1>12, <2>1, EndTaskType DEF TypeOK, MarkProcessed, budgets
<1>13. ASSUME NEW a \in Agents, PassWrite(a) PROVE TypeOK'
  <2>1. sweep[a].row \in Updates
    BY <1>13 DEF PassWrite, PassNamed
  <2>2. rows' \in [Updates -> Row]
    BY <1>13, <2>1, SettledRowsType DEF PassWrite
  <2>3. sweep' \in [Agents -> Pass]
    BY <1>13 DEF PassWrite, TypeOK, Pass
  <2> QED BY <1>13, <2>2, <2>3 DEF TypeOK, PassWrite, budgets
<1>14. ASSUME NEW a \in Agents, NEW ok \in BOOLEAN, EndPass(a, ok)
       PROVE  /\ sweep' \in [Agents -> Pass]
              /\ task' \in [Updates -> Task]
              /\ drain' \in {"off", "sweep", "pick", "wait", "closing"}
  <2>1. sweep' \in [Agents -> Pass]
    BY <1>14, NoPassType DEF EndPass, TypeOK
  <2>2. CASE a = Drain
    BY <1>14, <2>1, <2>2 DEF EndPass, TypeOK
  <2>3. CASE a # Drain
    BY <1>14, <2>1, <2>3, EndTaskType DEF EndPass, Agents
  <2> QED BY <2>2, <2>3
<1>15. ASSUME NEW a \in Agents, PassFails(a) PROVE TypeOK'
  <2>1. sweep[a].row \in Updates
    BY <1>15 DEF PassFails, PassNamed
  <2>2. rows' \in [Updates -> Row]
    BY <1>15, <2>1, SettledRowsType DEF PassFails, TypeOK
  <2>3. EndPass(a, FALSE)
    BY <1>15 DEF PassFails
  <2>4. faults' \in Nat
    BY <1>15, FaultType DEF PassFails
  <2> QED BY <1>14, <1>15, <2>2, <2>3, <2>4 DEF TypeOK, PassFails
<1>16. ASSUME NEW a \in Agents, PassDelete(a) PROVE TypeOK'
  <2> DEFINE h == [held EXCEPT ![sweep[a].row] = None]
             p == Visit(h, sweep[a].pos)
  <2>1. h \in [Updates -> Settlement \cup {None}] /\ held' = h
    BY <1>16 DEF PassDelete, TypeOK
  <2>2. p \in Pass
    <3>1. sweep[a].pos \in Nat
      BY DEF TypeOK, Pass
    <3> HIDE DEF h
    <3> QED BY <2>1, <3>1, VisitType
  <2>3. CASE p = NoPass
    <3>1. EndPass(a, TRUE)
      BY <1>16, <2>3 DEF PassDelete
    <3> QED BY <1>14, <1>16, <2>1, <3>1 DEF TypeOK, PassDelete, budgets
  <2>4. CASE p # NoPass
    <3>1. sweep' = [sweep EXCEPT ![a] = p] /\ UNCHANGED <<drain, task>>
      BY <1>16, <2>4 DEF PassDelete
    <3> HIDE DEF p
    <3> QED BY <1>16, <2>1, <2>2, <3>1 DEF TypeOK, PassDelete, budgets
  <2> QED BY <2>3, <2>4
<1>17. ASSUME NEW u \in Updates, RetryDue(u) PROVE TypeOK'
  <2>1. [rows[u] EXCEPT !.due = TRUE] \in Row
    BY DEF TypeOK, Row
  <2> QED BY <1>17, <2>1 DEF TypeOK, RetryDue, memory, budgets
<1>18. ASSUME Start PROVE TypeOK'
  <2>1. PICK old \in SUBSET Updates :
          /\ aged' = aged \cup old
          /\ rows' = [u \in Updates |-> IF u \in old THEN NoRow ELSE Recovered(rows[u], u)]
    BY <1>18 DEF Start
  <2>2. rows' \in [Updates -> Row]
    BY <2>1, RecoveredType, NoRowType DEF TypeOK
  <2> QED BY <1>18, <2>1, <2>2 DEF TypeOK, Start, memory, budgets
<1>19. ASSUME ForgetMemory
       PROVE  /\ chain' \in [Lanes -> Seq(Receipt)]
              /\ drain' \in {"off", "sweep", "pick", "wait", "closing"}
              /\ task' \in [Updates -> Task]
              /\ held' \in [Updates -> Settlement \cup {None}]
              /\ sweep' \in [Agents -> Pass]
  <2>1. NoTask \in Task /\ << >> \in Seq(Receipt)
    BY DEF NoTask, Task
  <2> QED BY <1>19, <2>1, NoPassType DEF ForgetMemory
<1>20. ASSUME Crash \/ Exit PROVE TypeOK'
  BY <1>19, <1>20 DEF TypeOK, Crash, Exit, budgets
<1>21. ASSUME Stop \/ Pause \/ Resume PROVE TypeOK'
  <2>1. CASE Stop
    BY <2>1 DEF TypeOK, Stop, memory, budgets
  <2>2. CASE Pause
    BY <2>2 DEF TypeOK, Pause, memory, budgets
  <2>3. CASE Resume
    BY <2>3 DEF TypeOK, Resume, memory, budgets
  <2> QED BY <1>21, <2>1, <2>2, <2>3
<1>22. CASE UNCHANGED vars
  BY <1>22 DEF TypeOK, vars, memory, budgets
<1>23. CASE Next
  BY <1>1, <1>2, <1>3, <1>4, <1>5, <1>6, <1>7, <1>8, <1>9, <1>10, <1>11, <1>12, <1>13,
     <1>15, <1>16, <1>17, <1>18, <1>20, <1>21, <1>23
  DEF Next, TaskStep, PassStep, DrainStep
<1> QED BY <1>22, <1>23

-----------------------------------------------------------------------------
(* How a step may change the table: everything about order and claims      *)
(* follows from these six forms.                                           *)
Inserted(u) ==
  /\ rows[u].status = "ABSENT"
  /\ lastSeq' = lastSeq + 1
  /\ \E r \in Row : /\ rows' = [rows EXCEPT ![u] = r]
                    /\ r.status = "PENDING" /\ r.seq = lastSeq + 1 /\ r.lock = None

Released(u) ==
  /\ rows[u].status = "PROCESSING"
  /\ lastSeq' = lastSeq
  /\ \E r \in Row : /\ rows' = [rows EXCEPT ![u] = r]
                    /\ r.status \in {"PENDING", "PROCESSED", "FAILED"}
                    /\ r.seq = rows[u].seq /\ r.lock = None

Restarted ==
  /\ lastSeq' = lastSeq
  /\ \E old \in SUBSET {u \in Updates : Recovered(rows[u], u).status \in Settled} :
       /\ aged' = aged \cup old
       /\ rows' = [u \in Updates |-> IF u \in old THEN NoRow ELSE Recovered(rows[u], u)]

RowMoves ==
  \/ rows' = rows /\ lastSeq' = lastSeq
  \/ \E u \in Updates : Inserted(u)
  \/ \E u \in Updates : \E k \in Locks :
       Eligible(u) /\ rows' = Claimed(u, k) /\ lastSeq' = lastSeq
  \/ \E u \in Updates : Released(u)
  \/ \E u \in Updates : RetryDue(u)
  \/ Restarted

LEMMA ProcessedReleases ==
  ASSUME TypeOK, NEW u \in Updates, NEW k, rows' = Processed(u, k), lastSeq' = lastSeq
  PROVE  rows' = rows \/ Released(u)
<1>1. CASE ~Owned(u, k)
  BY <1>1 DEF Processed
<1>2. CASE Owned(u, k)
  <2> DEFINE r == [rows[u] EXCEPT !.status = "PROCESSED", !.lock = None, !.kept = FALSE]
  <2>1. rows[u] \in Row
    BY DEF TypeOK
  <2>2. r \in Row /\ r.status = "PROCESSED" /\ r.seq = rows[u].seq /\ r.lock = None
    BY <2>1 DEF Row, Statuses, Settled
  <2>3. rows' = [rows EXCEPT ![u] = r]
    BY <1>2 DEF Processed
  <2> HIDE DEF r
  <2> QED BY <1>2, <2>2, <2>3 DEF Released, Owned
<1> QED BY <1>1, <1>2

LEMMA SettledRowsRelease ==
  ASSUME TypeOK, NEW a \in Agents, sweep[a].row \in Updates,
         rows' = SettledRows(sweep[a]), lastSeq' = lastSeq
  PROVE  rows' = rows \/ (Released(sweep[a].row) /\ Owned(sweep[a].row, sweep[a].lock))
<1> DEFINE p == sweep[a]
           u == p.row
<1>0. rows[u] \in Row
  BY DEF TypeOK
<1>1. CASE ~Owned(u, p.lock)
  BY <1>1 DEF SettledRows
<1>2. CASE Owned(u, p.lock) /\ MayRetry(p)
  <2> DEFINE r == [rows[u] EXCEPT !.status = "PENDING", !.lock = None, !.due = FALSE]
  <2>1. r \in Row /\ r.status = "PENDING" /\ r.seq = rows[u].seq /\ r.lock = None
    BY <1>0 DEF Row, Statuses, Settled
  <2>2. rows' = [rows EXCEPT ![u] = r]
    BY <1>2 DEF SettledRows
  <2> HIDE DEF r
  <2> QED BY <1>2, <2>1, <2>2 DEF Released, Owned
<1>3. CASE Owned(u, p.lock) /\ ~MayRetry(p)
  <2> DEFINE keep == rows[u].kept /\ ~p.contact /\ ~(p.before /\ u \in Contact)
             r == [rows[u] EXCEPT !.status = "FAILED", !.lock = None, !.kept = keep]
  <2>1. r \in Row /\ r.status = "FAILED" /\ r.seq = rows[u].seq /\ r.lock = None
    <3>1. keep \in BOOLEAN
      OBVIOUS
    <3> HIDE DEF keep
    <3> QED BY <1>0, <3>1 DEF Row, Statuses, Settled
  <2>2. rows' = [rows EXCEPT ![u] = r]
    BY <1>3 DEF SettledRows
  <2> HIDE DEF r
  <2> QED BY <1>3, <2>1, <2>2 DEF Released, Owned
<1> QED BY <1>1, <1>2, <1>3

LEMMA RowMove ==
  ASSUME TypeOK, PassNamed, [Next]_vars
  PROVE  RowMoves
<1>1. ASSUME NEW l \in Lanes, Reserve(l) PROVE RowMoves
  <2> DEFINE u == Head(chain[l]).update
             r == [status |-> "PENDING", seq |-> lastSeq + 1,
                   received |-> Head(chain[l]).at, attempts |-> 0,
                   due |-> TRUE, lock |-> None, kept |-> TRUE]
  <2>1. Head(chain[l]) \in Receipt
    BY <1>1, HeadTailProperties DEF Reserve, TypeOK
  <2>2. u \in Updates /\ r \in Row
    <3>1. lastSeq + 1 \in Nat
      BY DEF TypeOK
    <3> QED BY <2>1, <3>1 DEF Receipt, Row, Statuses
  <2>3. \/ rows' = rows /\ lastSeq' = lastSeq
        \/ rows[u].status = "ABSENT" /\ rows' = [rows EXCEPT ![u] = r] /\ lastSeq' = lastSeq + 1
    BY <1>1 DEF Reserve
  <2>4. r.status = "PENDING" /\ r.seq = lastSeq + 1 /\ r.lock = None
    OBVIOUS
  <2> HIDE DEF r
  <2> QED BY <2>2, <2>3, <2>4 DEF RowMoves, Inserted
<1>2. ASSUME NEW u \in Updates, Claim(u) \/ ClaimUncertain(u) PROVE RowMoves
  <2>1. FreshLock \in Locks
    BY <1>2, FreshLockFresh DEF Claim, ClaimUncertain
  <2>2. \/ rows' = rows /\ lastSeq' = lastSeq
        \/ Eligible(u) /\ rows' = Claimed(u, FreshLock) /\ lastSeq' = lastSeq
    BY <1>2 DEF Claim, ClaimUncertain
  <2> QED BY <2>1, <2>2 DEF RowMoves
<1>3. ASSUME NEW u \in Updates, MarkProcessed(u) \/ MarkUncertain(u) PROVE RowMoves
  <2>1. lastSeq' = lastSeq /\ (rows' = rows \/ rows' = Processed(u, task[u].lock))
    BY <1>3 DEF MarkProcessed, MarkUncertain
  <2> QED BY <2>1, ProcessedReleases DEF RowMoves
<1>4. ASSUME NEW a \in Agents, PassWrite(a) \/ PassFails(a) PROVE RowMoves
  <2>1. sweep[a].row \in Updates
    BY <1>4 DEF PassWrite, PassFails, PassNamed
  <2>2. lastSeq' = lastSeq /\ (rows' = rows \/ rows' = SettledRows(sweep[a]))
    BY <1>4 DEF PassWrite, PassFails
  <2> QED BY <2>1, <2>2, SettledRowsRelease DEF RowMoves
<1>5. CASE Start
  BY <1>5 DEF Start, RowMoves, Restarted
<1>6. CASE UNCHANGED vars
  BY <1>6 DEF vars, RowMoves
<1>7. ASSUME NEW u \in Updates,
             \/ Deliver(u) \/ Pick(u) \/ Abandon(u) \/ Dispatch(u)
             \/ ReadFails(u) \/ BusinessThrows(u)
      PROVE  RowMoves
  BY <1>7 DEF Deliver, Pick, Abandon, Dispatch, ReadFails, BusinessThrows, RowMoves
<1>8. ASSUME NEW l \in Lanes, ReserveFails(l) PROVE RowMoves
  BY <1>8 DEF ReserveFails, RowMoves
<1>9. ASSUME NEW a \in Agents, PassDelete(a) PROVE RowMoves
  BY <1>9 DEF PassDelete, RowMoves
<1>10. CASE Kick \/ PickNone \/ DrainRejects \/ Crash \/ Stop \/ Exit \/ Pause \/ Resume
  BY <1>10 DEF Kick, PickNone, DrainRejects, Crash, Stop, Exit, Pause, Resume, RowMoves
<1>11. CASE Next
  BY <1>1, <1>2, <1>3, <1>4, <1>5, <1>7, <1>8, <1>9, <1>10, <1>11
  DEF Next, TaskStep, PassStep, DrainStep, RowMoves
<1> QED BY <1>6, <1>11

LEMMA RecoveredFields ==
  ASSUME NEW r \in Row, NEW u
  PROVE  /\ Recovered(r, u).seq = r.seq
         /\ Recovered(r, u).status = IF r.status = "PROCESSING" THEN "FAILED" ELSE r.status
         /\ Recovered(r, u).lock = IF r.status = "PROCESSING" THEN None ELSE r.lock
BY DEF Recovered, Row

LEMMA ClaimedFields ==
  ASSUME TypeOK, NEW u \in Updates, NEW k \in Locks, NEW v \in Updates
  PROVE  /\ Claimed(u, k)[v].seq = rows[v].seq
         /\ Claimed(u, k)[v].status = IF v = u THEN "PROCESSING" ELSE rows[v].status
         /\ Claimed(u, k)[v].lock = IF v = u THEN k ELSE rows[v].lock
BY DEF TypeOK, Claimed, Row

(* Table order, head of lane and lock discipline are kept by every form.   *)
TableInv == Numbered /\ ClaimedFirst /\ LockedIffClaimed

LEMMA TableStep ==
  ASSUME TypeOK, TableInv, RowMoves
  PROVE  TableInv'
<1> USE DEF TableInv
<1>1. CASE rows' = rows /\ lastSeq' = lastSeq
  BY <1>1 DEF Numbered, ClaimedFirst, LockedIffClaimed, Open, Earlier
<1>2. ASSUME NEW u \in Updates, Inserted(u) PROVE TableInv'
  <2>1. PICK r \in Row : rows' = [rows EXCEPT ![u] = r] /\ r.status = "PENDING"
                         /\ r.seq = lastSeq + 1 /\ r.lock = None
    BY <1>2 DEF Inserted
  <2>2. \A v \in Updates : rows'[v] = IF v = u THEN r ELSE rows[v]
    BY <2>1 DEF TypeOK
  <2>3. \A v \in Updates : rows[v].seq \in Nat
    BY DEF TypeOK, Row
  <2>4. Numbered'
    <3>1. lastSeq' = lastSeq + 1 /\ lastSeq \in Nat
      BY <1>2 DEF Inserted, TypeOK
    <3>2. \A v \in Updates : rows[v].status # "ABSENT" => rows[v].seq > 0 /\ rows[v].seq <= lastSeq
      BY DEF Numbered
    <3>3. \A v \in Updates :
            rows'[v].status # "ABSENT" => rows'[v].seq > 0 /\ rows'[v].seq <= lastSeq'
      BY <2>1, <2>2, <2>3, <3>1, <3>2
    <3>4. \A v, w \in Updates :
            v # w /\ rows'[v].status # "ABSENT" /\ rows'[w].status # "ABSENT"
              => rows'[v].seq # rows'[w].seq
      BY <2>1, <2>2, <2>3, <3>1, <3>2 DEF Numbered
    <3> QED BY <3>3, <3>4 DEF Numbered
  <2>5. ClaimedFirst'
    BY <1>2, <2>1, <2>2, <2>3 DEF Numbered, ClaimedFirst, Open, Earlier, TypeOK
  <2>6. LockedIffClaimed'
    BY <2>1, <2>2 DEF LockedIffClaimed
  <2> QED BY <2>4, <2>5, <2>6
<1>3. ASSUME NEW u \in Updates, NEW k \in Locks,
             Eligible(u), rows' = Claimed(u, k), lastSeq' = lastSeq
      PROVE  TableInv'
  <2>1. \A v \in Updates :
          /\ rows'[v].seq = rows[v].seq
          /\ rows'[v].status = IF v = u THEN "PROCESSING" ELSE rows[v].status
          /\ rows'[v].lock = IF v = u THEN k ELSE rows[v].lock
    BY <1>3, ClaimedFields
  <2>2. rows[u].status = "PENDING" /\ \A v \in Updates : Open(v) => ~Earlier(v, u)
    BY <1>3 DEF Eligible
  <2>3. Numbered'
    BY <1>3, <2>1, <2>2 DEF Numbered
  <2>4. ClaimedFirst'
    <3>1. \A v \in Updates : Open(v)' => Open(v)
      BY <2>1, <2>2 DEF Open
    <3>2. \A v, w \in Updates : Earlier(v, w)' <=> Earlier(v, w)
      BY <2>1 DEF Earlier
    <3> QED BY <2>1, <2>2, <3>1, <3>2 DEF ClaimedFirst
  <2>5. LockedIffClaimed'
    BY <2>1, ConstantsAssumption DEF LockedIffClaimed
  <2> QED BY <2>3, <2>4, <2>5
<1>4. ASSUME NEW u \in Updates, Released(u) PROVE TableInv'
  <2>1. PICK r \in Row : /\ rows' = [rows EXCEPT ![u] = r]
                         /\ r.status \in {"PENDING", "PROCESSED", "FAILED"}
                         /\ r.seq = rows[u].seq /\ r.lock = None
    BY <1>4 DEF Released
  <2>2. \A v \in Updates : rows'[v] = IF v = u THEN r ELSE rows[v]
    BY <2>1 DEF TypeOK
  <2>3. rows[u].status = "PROCESSING" /\ lastSeq' = lastSeq
    BY <1>4 DEF Released
  <2>4. Numbered'
    BY <2>1, <2>2, <2>3 DEF Numbered
  <2>5. ClaimedFirst'
    BY <2>1, <2>2, <2>3 DEF ClaimedFirst, Open, Earlier
  <2>6. LockedIffClaimed'
    BY <2>1, <2>2 DEF LockedIffClaimed
  <2> QED BY <2>4, <2>5, <2>6
<1>5. ASSUME NEW u \in Updates, RetryDue(u) PROVE TableInv'
  <2>1. \A v \in Updates : /\ rows'[v].seq = rows[v].seq
                           /\ rows'[v].status = rows[v].status
                           /\ rows'[v].lock = rows[v].lock
    BY <1>5 DEF RetryDue, TypeOK, Row
  <2>2. lastSeq' = lastSeq
    BY <1>5 DEF RetryDue
  <2> QED BY <2>1, <2>2 DEF Numbered, ClaimedFirst, LockedIffClaimed, Open, Earlier
<1>6. ASSUME Restarted PROVE TableInv'
  <2>1. PICK old \in SUBSET Updates :
          rows' = [u \in Updates |-> IF u \in old THEN NoRow ELSE Recovered(rows[u], u)]
    BY <1>6 DEF Restarted
  <2>2. \A v \in Updates :
          \/ rows'[v].status = "ABSENT" /\ rows'[v].lock = None /\ rows'[v].seq = 0
          \/ /\ rows'[v].seq = rows[v].seq
             /\ rows'[v].status = IF rows[v].status = "PROCESSING" THEN "FAILED" ELSE rows[v].status
             /\ rows'[v].lock = IF rows[v].status = "PROCESSING" THEN None ELSE rows[v].lock
    BY <2>1, RecoveredFields DEF NoRow, TypeOK
  <2>3. lastSeq' = lastSeq
    BY <1>6 DEF Restarted
  <2>4. \A v \in Updates : rows[v].seq \in Nat
    BY DEF TypeOK, Row
  <2>5. Numbered'
    BY <2>2, <2>3, <2>4 DEF Numbered
  <2>6. ClaimedFirst'
    BY <2>2 DEF ClaimedFirst
  <2>7. LockedIffClaimed'
    BY <2>2 DEF LockedIffClaimed
  <2> QED BY <2>5, <2>6, <2>7
<1> QED BY <1>1, <1>2, <1>3, <1>4, <1>5, <1>6 DEF RowMoves

-----------------------------------------------------------------------------
(* How a step may change tasks, the settlements map and the passes over it.*)

(* A pass that starts or moves on takes over an entry of the map.          *)
PassFrom(p, h) ==
  \/ p = NoPass
  \/ \E u \in Updates : /\ h[u] # None
                        /\ p.row = u /\ p.lock = h[u].lock /\ p.before = h[u].before
                        /\ p.contact = h[u].contact

PassKept(a) ==
  /\ sweep'[a].row = sweep[a].row /\ sweep'[a].lock = sweep[a].lock
  /\ sweep'[a].before = sweep[a].before /\ sweep'[a].contact = sweep[a].contact
  /\ sweep'[a].step # "off" => sweep[a].step # "off"

Live(u) == task[u].at \in {"read", "business"}

(* No lock is drawn and none is put up for settlement. *)
Quiet ==
  /\ \A v \in Updates :
       /\ task'[v].lock \in {task[v].lock, None}
       /\ Live(v)' => Live(v) /\ task'[v].lock = task[v].lock
       /\ task'[v].at = "read" => task[v].at = "read"
  /\ \A v \in Updates : held'[v] \in {held[v], None}
  /\ \A a \in Agents : PassKept(a) \/ PassFrom(sweep'[a], held')

Claiming(u) ==
  \E k \in Locks :
    /\ k \notin UsedLocks /\ Eligible(u) /\ rows' = Claimed(u, k)
    /\ task' = [task EXCEPT ![u] = [at |-> "read", lock |-> k]]
    /\ UNCHANGED <<held, sweep>>

Settling(u) ==
  \E k \in Locks, before \in BOOLEAN, contact \in BOOLEAN :
    /\ Settle(u, k, before, contact)
    /\ \/ k \notin UsedLocks /\ Eligible(u)
       \/ Live(u) /\ k = task[u].lock /\ (before => task[u].at = "read")
    /\ u \in Contact => before \/ contact

MemoryMoves == Quiet \/ \E u \in Updates : Claiming(u) \/ Settling(u)

LEMMA VisitFrom ==
  ASSUME NEW h \in [Updates -> Settlement \cup {None}], NEW pos \in Nat
  PROVE  PassFrom(Visit(h, pos), h)
<1>1. CASE Visit(h, pos) = NoPass
  BY <1>1 DEF PassFrom
<1>2. ASSUME NEW u \in Updates, h[u] # None,
             Visit(h, pos) = [step |-> "write", pos |-> h[u].ord, row |-> u,
                              lock |-> h[u].lock, before |-> h[u].before,
                              contact |-> h[u].contact]
      PROVE  PassFrom(Visit(h, pos), h)
  BY <1>2 DEF PassFrom
<1> QED BY <1>1, <1>2, VisitEntry

LEMMA EndTaskQuiet ==
  ASSUME TypeOK, NEW u \in Updates, NEW ok, EndTask(u, ok),
         UNCHANGED <<held, sweep>>
  PROVE  Quiet
<1>1. \A v \in Updates : task'[v] = IF v = u THEN NoTask ELSE task[v]
  BY DEF EndTask, TypeOK
<1>2. \A v \in Updates : /\ task'[v].lock \in {task[v].lock, None}
                         /\ Live(v)' => Live(v) /\ task'[v].lock = task[v].lock
                         /\ task'[v].at = "read" => task[v].at = "read"
  BY <1>1 DEF NoTask, Live
<1> QED BY <1>2 DEF Quiet, PassKept

LEMMA EndPassQuiet ==
  ASSUME TypeOK, NEW a \in Agents, NEW ok, EndPass(a, ok),
         \A v \in Updates : held'[v] \in {held[v], None}
  PROVE  Quiet
<1>1. \A b \in Agents : PassKept(b) \/ PassFrom(sweep'[b], held')
  <2>1. \A b \in Agents : sweep'[b] = IF b = a THEN NoPass ELSE sweep[b]
    BY DEF EndPass, TypeOK
  <2> QED BY <2>1 DEF PassKept, PassFrom
<1>2. \A v \in Updates : task'[v] = task[v] \/ task'[v] = NoTask
  <2>1. task' = task \/ task' = [task EXCEPT ![a] = NoTask]
    BY DEF EndPass, EndTask
  <2> QED BY <2>1 DEF TypeOK
<1>3. \A v \in Updates : /\ task'[v].lock \in {task[v].lock, None}
                         /\ Live(v)' => Live(v) /\ task'[v].lock = task[v].lock
                         /\ task'[v].at = "read" => task[v].at = "read"
  BY <1>2 DEF NoTask, Live
<1> QED BY <1>1, <1>3 DEF Quiet

LEMMA MemoryMove ==
  ASSUME TypeOK, PassNamed, LockUnsettled, [Next]_vars
  PROVE  MemoryMoves
<1>1. ASSUME UNCHANGED <<task, held, sweep>> PROVE Quiet
  BY <1>1 DEF Quiet, PassKept, Live
<1>2. CASE UNCHANGED vars
  BY <1>1, <1>2 DEF vars, memory, MemoryMoves
<1>3. ASSUME \/ \E u \in Updates : Deliver(u) \/ RetryDue(u)
             \/ \E l \in Lanes : Reserve(l) \/ ReserveFails(l)
             \/ PickNone \/ DrainRejects \/ Start \/ Stop \/ Pause \/ Resume
      PROVE  Quiet
  BY <1>1, <1>3 DEF Deliver, RetryDue, Reserve, ReserveFails, PickNone, DrainRejects,
                    Start, Stop, Pause, Resume, memory
<1>4. ASSUME Kick PROVE Quiet
  <2>1. UNCHANGED <<task, held>> /\ sweep' = [sweep EXCEPT ![Drain] = Visit(held, 0)]
    BY <1>4 DEF Kick
  <2>2. PassFrom(Visit(held, 0), held)
    BY VisitFrom DEF TypeOK
  <2>3. \A b \in Agents : PassKept(b) \/ PassFrom(sweep'[b], held')
    BY <2>1, <2>2 DEF PassKept, TypeOK
  <2> QED BY <2>1, <2>3 DEF Quiet, Live
<1>5. ASSUME NEW u \in Updates, Pick(u) PROVE Quiet
  <2>1. task' = [task EXCEPT ![u].at = "chosen"] /\ UNCHANGED <<held, sweep>>
    BY <1>5 DEF Pick
  <2>2. \A v \in Updates : task'[v] = IF v = u THEN [task[u] EXCEPT !.at = "chosen"] ELSE task[v]
    BY <2>1 DEF TypeOK
  <2>3. \A v \in Updates : /\ task'[v].lock = task[v].lock
                           /\ Live(v)' => Live(v)
                           /\ task'[v].at = "read" => task[v].at = "read"
    BY <2>2 DEF TypeOK, Task, Live
  <2> QED BY <2>1, <2>3 DEF Quiet, PassKept
<1>6. ASSUME NEW u \in Updates, Abandon(u) \/ MarkProcessed(u) PROVE Quiet
  <2>1. (EndTask(u, TRUE) \/ EndTask(u, FALSE)) /\ UNCHANGED <<held, sweep>>
    BY <1>6 DEF Abandon, MarkProcessed
  <2> QED BY <2>1, EndTaskQuiet
<1>7. ASSUME NEW u \in Updates, Claim(u) PROVE MemoryMoves
  <2>1. CASE Eligible(u)
    <3>1. Claiming(u)
      BY <1>7, <2>1, FreshLockFresh DEF Claim, Claiming
    <3> QED BY <3>1 DEF MemoryMoves
  <2>2. CASE ~Eligible(u)
    <3>1. EndTask(u, TRUE) /\ UNCHANGED <<held, sweep>>
      BY <1>7, <2>2 DEF Claim
    <3> QED BY <3>1, EndTaskQuiet DEF MemoryMoves
  <2> QED BY <2>1, <2>2
<1>8. ASSUME NEW u \in Updates, ClaimUncertain(u) PROVE Settling(u)
  <2>1. FreshLock \in Locks /\ FreshLock \notin UsedLocks
    BY <1>8, FreshLockFresh DEF ClaimUncertain
  <2>2. Settle(u, FreshLock, TRUE, FALSE) /\ Eligible(u)
    BY <1>8 DEF ClaimUncertain
  <2> QED BY <2>1, <2>2 DEF Settling
<1>9. ASSUME NEW u \in Updates, Dispatch(u) PROVE Quiet
  <2>1. CASE Owned(u, task[u].lock)
    <3>1. /\ task' = [task EXCEPT ![u].at = "business"]
          /\ UNCHANGED <<held, sweep>> /\ task[u].at = "read"
      BY <1>9, <2>1 DEF Dispatch, Owned
    <3>2. \A v \in Updates : task'[v] = IF v = u THEN [task[u] EXCEPT !.at = "business"] ELSE task[v]
      BY <3>1 DEF TypeOK
    <3>3. \A v \in Updates : /\ task'[v].lock = task[v].lock
                             /\ Live(v)' => Live(v)
                             /\ task'[v].at = "read" => task[v].at = "read"
      BY <3>1, <3>2 DEF TypeOK, Task, Live
    <3> QED BY <3>1, <3>3 DEF Quiet, PassKept
  <2>2. CASE ~Owned(u, task[u].lock)
    BY <1>9, <2>2, EndTaskQuiet DEF Dispatch, Owned
  <2> QED BY <2>1, <2>2
<1>10. ASSUME NEW u \in Updates, ReadFails(u) \/ BusinessThrows(u) \/ MarkUncertain(u)
       PROVE  Settling(u)
  <2>1. Live(u) /\ task[u].lock \in Locks
    BY <1>10 DEF Live, LockUnsettled, TypeOK, Task, ReadFails, BusinessThrows, MarkUncertain
  <2>2. \/ task[u].at = "read" /\ Settle(u, task[u].lock, TRUE, FALSE)
        \/ Settle(u, task[u].lock, FALSE, u \in Contact)
    BY <1>10 DEF ReadFails, BusinessThrows, MarkUncertain
  <2>3. PICK before \in BOOLEAN, contact \in BOOLEAN :
          /\ Settle(u, task[u].lock, before, contact) /\ (before => task[u].at = "read")
          /\ u \in Contact => before \/ contact
    <3>1. (u \in Contact) \in BOOLEAN
      OBVIOUS
    <3> QED BY <2>2, <3>1
  <2> QED BY <2>1, <2>3 DEF Settling
<1>11. ASSUME NEW a \in Agents, PassWrite(a) PROVE Quiet
  <2>1. UNCHANGED <<task, held>> /\ sweep' = [sweep EXCEPT ![a].step = "delete"]
        /\ sweep[a].step = "write"
    BY <1>11 DEF PassWrite
  <2>2. \A b \in Agents : sweep'[b] = IF b = a THEN [sweep[a] EXCEPT !.step = "delete"] ELSE sweep[b]
    BY <2>1 DEF TypeOK
  <2>3. \A b \in Agents : PassKept(b)
    BY <2>1, <2>2 DEF TypeOK, Pass, PassKept
  <2> QED BY <2>1, <2>3 DEF Quiet, Live
<1>12. ASSUME NEW a \in Agents, PassFails(a) PROVE Quiet
  BY <1>12, EndPassQuiet DEF PassFails
<1>13. ASSUME NEW a \in Agents, PassDelete(a) PROVE Quiet
  <2> DEFINE h == [held EXCEPT ![sweep[a].row] = None]
             p == Visit(h, sweep[a].pos)
  <2>1. h \in [Updates -> Settlement \cup {None}] /\ held' = h
    BY <1>13 DEF PassDelete, TypeOK
  <2>2. \A v \in Updates : held'[v] \in {held[v], None}
    BY <2>1 DEF TypeOK
  <2>3. CASE p = NoPass
    <3>1. EndPass(a, TRUE)
      BY <1>13, <2>3 DEF PassDelete
    <3> QED BY <2>2, <3>1, EndPassQuiet
  <2>4. CASE p # NoPass
    <3>1. sweep' = [sweep EXCEPT ![a] = p] /\ UNCHANGED task
      BY <1>13, <2>4 DEF PassDelete
    <3>2. PassFrom(p, held')
      <4>1. sweep[a].pos \in Nat
        BY DEF TypeOK, Pass
      <4> HIDE DEF h
      <4> QED BY <2>1, <4>1, VisitFrom
    <3>3. \A b \in Agents : PassKept(b) \/ PassFrom(sweep'[b], held')
      <4> HIDE DEF p
      <4> QED BY <3>1, <3>2 DEF PassKept, TypeOK
    <3> QED BY <2>2, <3>1, <3>3 DEF Quiet, Live
  <2> QED BY <2>3, <2>4
<1>14. ASSUME Crash \/ Exit PROVE Quiet
  <2>1. ForgetMemory
    BY <1>14 DEF Crash, Exit
  <2>2. \A v \in Updates : task'[v] = NoTask /\ held'[v] = None
    BY <2>1 DEF ForgetMemory
  <2>3. \A a \in Agents : sweep'[a] = NoPass
    BY <2>1 DEF ForgetMemory
  <2> QED BY <2>2, <2>3 DEF Quiet, PassFrom, NoTask, Live
<1>15. CASE Next
  BY <1>3, <1>4, <1>5, <1>6, <1>7, <1>8, <1>9, <1>10, <1>11, <1>12, <1>13, <1>14, <1>15
  DEF Next, TaskStep, PassStep, DrainStep, MemoryMoves
<1> QED BY <1>2, <1>15

-----------------------------------------------------------------------------
(* A lock that may still start work is named by nothing that settles.      *)

LEMMA PassNamedStep ==
  ASSUME TypeOK, TypeOK', PassNamed, MemoryMoves
  PROVE  PassNamed'
<1>1. \A p : PassFrom(p, held') /\ p.step # "off" => p.row \in Updates /\ p.lock # None
  <2>1. \A u \in Updates : held'[u] # None => held'[u].lock # None
    BY ConstantsAssumption DEF TypeOK, Settlement
  <2> QED BY <2>1 DEF PassFrom, NoPass
<1>2. CASE Quiet
  <2>1. ASSUME NEW a \in Agents, sweep'[a].step # "off"
        PROVE  sweep'[a].row \in Updates /\ sweep'[a].lock # None
    <3>1. PassKept(a) \/ PassFrom(sweep'[a], held')
      BY <1>2 DEF Quiet
    <3> QED BY <1>1, <2>1, <3>1 DEF PassKept, PassNamed
  <2> QED BY <2>1 DEF PassNamed
<1>3. ASSUME NEW u \in Updates, Claiming(u) PROVE PassNamed'
  BY <1>3 DEF Claiming, PassNamed
<1>4. ASSUME NEW u \in Updates, Settling(u) PROVE PassNamed'
  <2>1. sweep' = [sweep EXCEPT ![u] = Visit(held', 0)]
    BY <1>4, SettleType DEF Settling
  <2>2. PassFrom(Visit(held', 0), held')
    BY VisitFrom DEF TypeOK
  <2>3. \A a \in Agents : sweep'[a] = IF a = u THEN Visit(held', 0) ELSE sweep[a]
    BY <2>1 DEF TypeOK
  <2> QED BY <1>1, <2>2, <2>3 DEF PassNamed
<1> QED BY <1>2, <1>3, <1>4 DEF MemoryMoves

LEMMA LockUnsettledStep ==
  ASSUME TypeOK, TypeOK', LockUnsettled, MemoryMoves
  PROVE  LockUnsettled'
<1>1. CASE Quiet
  <2>1. ASSUME NEW u \in Updates, Live(u)'
        PROVE  /\ task'[u].lock # None
               /\ \A v \in Updates : v # u => task'[v].lock # task'[u].lock
               /\ \A v \in Updates : held'[v] # None => held'[v].lock # task'[u].lock
               /\ \A a \in Agents : sweep'[a].lock # task'[u].lock
    <3>1. Live(u) /\ task'[u].lock = task[u].lock
      BY <1>1, <2>1 DEF Quiet
    <3>2. /\ task[u].lock # None
          /\ \A v \in Updates : v # u => task[v].lock # task[u].lock
          /\ \A v \in Updates : held[v] # None => held[v].lock # task[u].lock
          /\ \A a \in Agents : sweep[a].lock # task[u].lock
      BY <3>1 DEF LockUnsettled, Live
    <3>3. \A v \in Updates : task'[v].lock \in {task[v].lock, None}
      BY <1>1 DEF Quiet
    <3>4. \A v \in Updates : held'[v] # None => held'[v].lock # task'[u].lock
      BY <1>1, <3>1, <3>2 DEF Quiet
    <3>5. ASSUME NEW a \in Agents PROVE sweep'[a].lock # task'[u].lock
      <4>1. CASE PassKept(a)
        BY <3>1, <3>2, <4>1 DEF PassKept
      <4>2. CASE PassFrom(sweep'[a], held')
        BY <3>1, <3>2, <3>4, <4>2 DEF PassFrom, NoPass
      <4> QED BY <1>1, <4>1, <4>2 DEF Quiet
    <3> QED BY <3>1, <3>2, <3>3, <3>4, <3>5
  <2> QED BY <2>1 DEF LockUnsettled, Live
<1>2. ASSUME NEW u \in Updates, Claiming(u) PROVE LockUnsettled'
  <2>1. PICK k \in Locks : /\ k \notin UsedLocks
                          /\ task' = [task EXCEPT ![u] = [at |-> "read", lock |-> k]]
                          /\ UNCHANGED <<held, sweep>>
    BY <1>2 DEF Claiming
  <2>2. \A v \in Updates : task'[v] = IF v = u THEN [at |-> "read", lock |-> k] ELSE task[v]
    BY <2>1 DEF TypeOK
  <2>3. /\ k # None
        /\ \A v \in Updates : task[v].lock # k
        /\ \A v \in Updates : held[v] # None => held[v].lock # k
        /\ \A a \in Agents : sweep[a].lock # k
    BY <2>1, ConstantsAssumption DEF UsedLocks
  <2> QED BY <2>1, <2>2, <2>3 DEF LockUnsettled
<1>3. ASSUME NEW u \in Updates, Settling(u) PROVE LockUnsettled'
  <2>1. PICK k \in Locks, before \in BOOLEAN, contact \in BOOLEAN :
          /\ Settle(u, k, before, contact)
          /\ k \notin UsedLocks \/ (Live(u) /\ k = task[u].lock)
    BY <1>3 DEF Settling
  <2>2. /\ held' = HeldWith(u, k, before, contact)
        /\ sweep' = [sweep EXCEPT ![u] = Visit(held', 0)]
        /\ task' = [task EXCEPT ![u] = [at |-> "settle", lock |-> k]]
    BY <2>1, SettleType
  <2>3. \A v \in Updates : task'[v] = IF v = u THEN [at |-> "settle", lock |-> k] ELSE task[v]
    BY <2>2 DEF TypeOK
  <2>4. \A v \in Updates : held'[v].lock = IF v = u THEN k ELSE held[v].lock
    BY <2>2 DEF HeldWith, TypeOK
  <2>4a. \A v \in Updates : v # u => held'[v] = held[v]
    BY <2>2 DEF HeldWith, TypeOK
  <2>5. PassFrom(Visit(held', 0), held')
    BY VisitFrom DEF TypeOK
  <2>6. \A a \in Agents : sweep'[a] = IF a = u THEN Visit(held', 0) ELSE sweep[a]
    BY <2>2 DEF TypeOK
  <2>7. ASSUME NEW w \in Updates, Live(w)'
        PROVE  /\ task'[w].lock # None
               /\ \A v \in Updates : v # w => task'[v].lock # task'[w].lock
               /\ \A v \in Updates : held'[v] # None => held'[v].lock # task'[w].lock
               /\ \A a \in Agents : sweep'[a].lock # task'[w].lock
    <3>1. w # u /\ task'[w] = task[w] /\ Live(w)
      BY <2>3, <2>7 DEF Live
    <3>2. /\ task[w].lock # None
          /\ \A v \in Updates : v # w => task[v].lock # task[w].lock
          /\ \A v \in Updates : held[v] # None => held[v].lock # task[w].lock
          /\ \A a \in Agents : sweep[a].lock # task[w].lock
      BY <3>1 DEF LockUnsettled, Live
    <3>3. k # task[w].lock
      <4>1. CASE k \notin UsedLocks
        BY <4>1 DEF UsedLocks
      <4>2. CASE k = task[u].lock
        BY <3>1, <3>2, <4>2
      <4> QED BY <2>1, <4>1, <4>2
    <3>4. \A v \in Updates : held'[v] # None => held'[v].lock # task'[w].lock
      BY <2>4, <2>4a, <3>1, <3>2, <3>3
    <3>5. Visit(held', 0).lock # task'[w].lock
      BY <2>5, <3>1, <3>2, <3>4 DEF PassFrom, NoPass
    <3> QED BY <2>3, <2>6, <3>1, <3>2, <3>3, <3>4, <3>5
  <2> QED BY <2>7 DEF LockUnsettled, Live
<1> QED BY <1>1, <1>2, <1>3 DEF MemoryMoves

-----------------------------------------------------------------------------
(* A row that may still be claimed never reached the business handlers.    *)

(* Where an open or a missing row comes from.                              *)
Origin(v) ==
  /\ rows'[v].status = "PENDING" =>
       \/ rows[v].status = "PENDING"
       \/ rows[v].status = "ABSENT" /\ v \notin aged
       \/ /\ rows[v].status = "PROCESSING"
          /\ \E a \in Agents : sweep[a].row = v /\ sweep[a].before /\ sweep[a].lock = rows[v].lock
  /\ rows'[v].status = "ABSENT" /\ v \notin aged' => rows[v].status = "ABSENT" /\ v \notin aged
  /\ rows'[v].status = "PROCESSING" =>
       \/ rows[v].status = "PENDING"
       \/ rows[v].status = "PROCESSING" /\ rows'[v].lock = rows[v].lock
  /\ v \in aged /\ rows[v].status = "ABSENT" => rows'[v].status = "ABSENT"

LEMMA ProcessedOrigin ==
  ASSUME TypeOK, NEW u \in Updates, NEW k, rows' = Processed(u, k), UNCHANGED aged,
         NEW v \in Updates
  PROVE  Origin(v)
<1>1. CASE rows' = rows
  BY <1>1 DEF Origin
<1>2. CASE Owned(u, k)
  <2>1. rows'[v] = IF v = u THEN [rows[u] EXCEPT !.status = "PROCESSED", !.lock = None, !.kept = FALSE]
                   ELSE rows[v]
    BY <1>2 DEF Processed, TypeOK
  <2>2. v = u => rows'[v].status = "PROCESSED"
    BY <2>1 DEF TypeOK, Row
  <2> QED BY <1>2, <2>1, <2>2 DEF Origin, Owned
<1> QED BY <1>1, <1>2 DEF Processed

LEMMA SettledRowsOrigin ==
  ASSUME TypeOK, NEW a \in Agents, sweep[a].row \in Updates,
         rows' = SettledRows(sweep[a]), UNCHANGED aged, NEW v \in Updates
  PROVE  Origin(v)
<1> DEFINE p == sweep[a]
           u == p.row
           keep == rows[u].kept /\ ~p.contact /\ ~(p.before /\ u \in Contact)
<1>0. rows[u] \in Row
  BY DEF TypeOK
<1>1. CASE ~Owned(u, p.lock)
  BY <1>1 DEF SettledRows, Origin
<1>2. CASE Owned(u, p.lock) /\ MayRetry(p)
  <2>1. rows'[v] = IF v = u THEN [rows[u] EXCEPT !.status = "PENDING", !.lock = None, !.due = FALSE]
                   ELSE rows[v]
    BY <1>2 DEF SettledRows, TypeOK
  <2>2. v = u => rows'[v].status = "PENDING"
    BY <1>0, <2>1 DEF Row
  <2> QED BY <1>2, <2>1, <2>2 DEF Origin, Owned, MayRetry
<1>3. CASE Owned(u, p.lock) /\ ~MayRetry(p)
  <2>1. rows'[v] = IF v = u THEN [rows[u] EXCEPT !.status = "FAILED", !.lock = None, !.kept = keep]
                   ELSE rows[v]
    <3>1. rows' = [rows EXCEPT ![u] = [rows[u] EXCEPT !.status = "FAILED", !.lock = None, !.kept = keep]]
      BY <1>3 DEF SettledRows
    <3> QED BY <3>1 DEF TypeOK
  <2>2. v = u => rows'[v].status = "FAILED"
    <3> HIDE DEF keep
    <3> QED BY <1>0, <2>1 DEF Row
  <2> QED BY <1>3, <2>1, <2>2 DEF Origin, Owned
<1> QED BY <1>1, <1>2, <1>3

LEMMA EveryOrigin ==
  ASSUME TypeOK, PassNamed, AgedGone, [Next]_vars, NEW v \in Updates
  PROVE  Origin(v)
<1>1. ASSUME NEW l \in Lanes, Reserve(l) PROVE Origin(v)
  <2> DEFINE u == Head(chain[l]).update
             r == [status |-> "PENDING", seq |-> lastSeq + 1,
                   received |-> Head(chain[l]).at, attempts |-> 0,
                   due |-> TRUE, lock |-> None, kept |-> TRUE]
  <2>1. u \notin aged
    <3>1. Len(chain[l]) \in Nat /\ Len(chain[l]) >= 1 /\ Head(chain[l]) = chain[l][1]
      BY <1>1 DEF TypeOK, Reserve
    <3> QED BY <3>1 DEF AgedGone
  <2>2. \/ rows' = rows
        \/ rows[u].status = "ABSENT" /\ rows' = [rows EXCEPT ![u] = r]
    BY <1>1 DEF Reserve
  <2>3. rows'[v] = rows[v] \/ (v = u /\ rows[v].status = "ABSENT" /\ rows'[v] = r)
    <3> HIDE DEF r
    <3> QED BY <2>2 DEF TypeOK
  <2>4. UNCHANGED aged
    BY <1>1 DEF Reserve
  <2> QED BY <2>1, <2>3, <2>4 DEF Origin
<1>2. ASSUME NEW u \in Updates, Claim(u) \/ ClaimUncertain(u) PROVE Origin(v)
  <2>1. FreshLock \in Locks
    BY <1>2, FreshLockFresh DEF Claim, ClaimUncertain
  <2>2. aged' = aged /\ (rows' = rows \/ (Eligible(u) /\ rows' = Claimed(u, FreshLock)))
    <3>1. CASE Claim(u)
      <4>1. aged' = aged
        BY <3>1 DEF Claim, EndTask, budgets
      <4>2. rows' = rows \/ (Eligible(u) /\ rows' = Claimed(u, FreshLock))
        BY <3>1 DEF Claim
      <4> QED BY <4>1, <4>2
    <3>2. CASE ClaimUncertain(u)
      <4>1. aged' = aged
        BY <3>2 DEF ClaimUncertain
      <4>2. Eligible(u) /\ rows' \in {rows, Claimed(u, FreshLock)}
        BY <3>2 DEF ClaimUncertain
      <4> QED BY <4>1, <4>2
    <3> QED BY <1>2, <3>1, <3>2
  <2>3. \/ rows'[v] = rows[v]
        \/ v = u /\ rows[v].status = "PENDING" /\ rows'[v].status = "PROCESSING"
    <3>1. CASE rows' = rows
      BY <3>1
    <3>2. CASE Eligible(u) /\ rows' = Claimed(u, FreshLock)
      <4>1. rows[u].status = "PENDING"
        BY <3>2 DEF Eligible
      <4>2. v # u => rows'[v] = rows[v]
        BY <3>2 DEF Claimed, TypeOK
      <4>3. v = u => rows'[v].status = "PROCESSING"
        BY <2>1, <3>2, ClaimedFields
      <4> QED BY <4>1, <4>2, <4>3
    <3> QED BY <2>2, <3>1, <3>2
  <2> QED BY <2>2, <2>3 DEF Origin
<1>3. ASSUME NEW u \in Updates, MarkProcessed(u) \/ MarkUncertain(u) PROVE Origin(v)
  <2>1. UNCHANGED aged /\ (rows' = rows \/ rows' = Processed(u, task[u].lock))
    BY <1>3 DEF MarkProcessed, MarkUncertain
  <2>2. CASE rows' = rows
    BY <2>1, <2>2 DEF Origin
  <2> QED BY <2>1, <2>2, ProcessedOrigin
<1>4. ASSUME NEW a \in Agents, PassWrite(a) \/ PassFails(a) PROVE Origin(v)
  <2>1. sweep[a].row \in Updates
    BY <1>4 DEF PassWrite, PassFails, PassNamed
  <2>2. UNCHANGED aged /\ (rows' = rows \/ rows' = SettledRows(sweep[a]))
    BY <1>4 DEF PassWrite, PassFails
  <2>3. CASE rows' = rows
    BY <2>2, <2>3 DEF Origin
  <2> QED BY <2>1, <2>2, <2>3, SettledRowsOrigin
<1>5. ASSUME NEW u \in Updates, RetryDue(u) PROVE Origin(v)
  <2>1. UNCHANGED aged /\ rows' = [rows EXCEPT ![u] = [rows[u] EXCEPT !.due = TRUE]]
    BY <1>5 DEF RetryDue
  <2>2. rows'[v].status = rows[v].status /\ rows'[v].lock = rows[v].lock
    BY <2>1 DEF TypeOK, Row
  <2> QED BY <2>1, <2>2 DEF Origin
<1>6. ASSUME Start PROVE Origin(v)
  <2>1. PICK old \in SUBSET Updates :
          /\ aged' = aged \cup old
          /\ rows' = [u \in Updates |-> IF u \in old THEN NoRow ELSE Recovered(rows[u], u)]
    BY <1>6 DEF Start
  <2>2. rows[v] \in Row
    BY DEF TypeOK
  <2>3. CASE v \in old
    BY <2>1, <2>3 DEF Origin, NoRow
  <2>4. CASE v \notin old
    BY <2>1, <2>2, <2>4, RecoveredFields DEF Origin
  <2> QED BY <2>3, <2>4
<1>7. ASSUME UNCHANGED <<rows, aged>> PROVE Origin(v)
  BY <1>7 DEF Origin
<1>8. CASE UNCHANGED vars
  BY <1>7, <1>8 DEF vars
<1>9. ASSUME \/ \E u \in Updates :
                  \/ Deliver(u) \/ Pick(u) \/ Abandon(u) \/ Dispatch(u)
                  \/ ReadFails(u) \/ BusinessThrows(u)
             \/ \E l \in Lanes : ReserveFails(l)
             \/ \E a \in Agents : PassDelete(a)
             \/ Kick \/ PickNone \/ DrainRejects \/ Crash \/ Stop \/ Exit \/ Pause \/ Resume
      PROVE  Origin(v)
  BY <1>7, <1>9 DEF Deliver, Pick, Abandon, Dispatch, ReadFails, BusinessThrows, ReserveFails,
    PassDelete, Kick, PickNone, DrainRejects, Crash, Stop, Exit, Pause, Resume
<1>10. CASE Next
  BY <1>1, <1>2, <1>3, <1>4, <1>5, <1>6, <1>9, <1>10 DEF Next, TaskStep, PassStep, DrainStep
<1> QED BY <1>8, <1>10

LEMMA AgedGoneStep ==
  ASSUME TypeOK, PassNamed, AgedGone, [Next]_vars
  PROVE  AgedGone'
<1>1. ASSUME NEW v \in aged' PROVE rows'[v].status = "ABSENT"
  <2>1. ASSUME Start PROVE rows'[v].status = "ABSENT"
    <3>1. PICK old \in SUBSET Updates :
            /\ aged' = aged \cup old
            /\ rows' = [u \in Updates |-> IF u \in old THEN NoRow ELSE Recovered(rows[u], u)]
      BY <2>1 DEF Start
    <3>2. v \in Updates
      BY <1>1, <3>1 DEF TypeOK
    <3>3. CASE v \in old
      BY <3>1, <3>2, <3>3 DEF NoRow
    <3>4. CASE v \notin old
      BY <1>1, <3>1, <3>2, <3>4, EveryOrigin DEF Origin, AgedGone
    <3> QED BY <3>3, <3>4
  <2>2. CASE aged' = aged
    <3>1. v \in Updates /\ v \in aged /\ rows[v].status = "ABSENT"
      BY <1>1, <2>2 DEF TypeOK, AgedGone
    <3> QED BY <3>1, EveryOrigin DEF Origin
  <2>3. Start \/ aged' = aged
    BY DEF Next, vars, memory, budgets, TaskStep, PassStep, DrainStep, Deliver, RetryDue,
      Reserve, ReserveFails, Kick, Pick, PickNone, DrainRejects, Abandon, Claim, ClaimUncertain,
      Dispatch, ReadFails, BusinessThrows, MarkProcessed, MarkUncertain, PassWrite, PassFails,
      PassDelete, Crash, Stop, Exit, Pause, Resume
  <2> QED BY <2>1, <2>2, <2>3
<1> DEFINE Chains == \A l \in Lanes : \A i \in 1..Len(chain[l]) : chain[l][i].update \notin aged
           Idle   == proc = "down" => \A l \in Lanes : chain[l] = <<>>
<1>2. Chains /\ Idle
  BY DEF AgedGone
<1>3. ASSUME NEW u \in Updates, Deliver(u) PROVE (Chains /\ Idle)'
  <2> DEFINE r == [update |-> u, at |-> clock + 1]
  <2>1. /\ chain' = [chain EXCEPT ![Lane[u]] = Append(chain[Lane[u]], r)]
        /\ u \notin aged /\ proc # "down" /\ UNCHANGED <<aged, proc>>
    BY <1>3 DEF Deliver, Chained
  <2>2. r.update = u
    OBVIOUS
  <2> HIDE DEF r
  <2>3. ASSUME NEW l \in Lanes, NEW i \in 1..Len(chain'[l]) PROVE chain'[l][i].update \notin aged
    <3>1. CASE l # Lane[u]
      BY <1>2, <2>1, <2>3, <3>1 DEF TypeOK
    <3>2. CASE l = Lane[u]
      <4>1. chain'[l] = Append(chain[l], r) /\ chain[l] \in Seq(Receipt)
        BY <2>1, <3>2 DEF TypeOK
      <4>2. i \in 1..Len(chain[l]) \/ i = Len(chain[l]) + 1
        BY <2>3, <4>1
      <4>3. chain'[l][i] = IF i \in 1..Len(chain[l]) THEN chain[l][i] ELSE r
        BY <4>1, <4>2
      <4> QED BY <1>2, <2>1, <2>2, <4>3
    <3> QED BY <3>1, <3>2
  <2> QED BY <2>1, <2>3
<1>4. ASSUME NEW l \in Lanes, Reserve(l) \/ ReserveFails(l) PROVE (Chains /\ Idle)'
  <2>1. /\ chain[l] # <<>> /\ chain' = [chain EXCEPT ![l] = Tail(chain[l])]
        /\ proc # "down" /\ UNCHANGED <<aged, proc>>
    BY <1>4 DEF Reserve, ReserveFails
  <2>2. ASSUME NEW m \in Lanes, NEW i \in 1..Len(chain'[m]) PROVE chain'[m][i].update \notin aged
    <3>1. CASE m # l
      BY <1>2, <2>1, <2>2, <3>1 DEF TypeOK
    <3>2. CASE m = l
      <4>1. chain'[m] = Tail(chain[m]) /\ chain[m] \in Seq(Receipt) /\ chain[m] # <<>>
        BY <2>1, <3>2 DEF TypeOK
      <4>2. chain'[m][i] = chain[m][i + 1] /\ i + 1 \in 1..Len(chain[m])
        BY <2>2, <4>1, HeadTailProperties
      <4> QED BY <1>2, <4>2
    <3> QED BY <3>1, <3>2
  <2> QED BY <2>1, <2>2
<1>5. ASSUME Start PROVE (Chains /\ Idle)'
  <2>1. \A l \in Lanes : chain'[l] = <<>>
    BY <1>2, <1>5 DEF Start, memory
  <2> QED BY <2>1
<1>6. ASSUME Crash \/ Exit PROVE (Chains /\ Idle)'
  <2>1. \A l \in Lanes : chain'[l] = <<>>
    BY <1>6 DEF Crash, Exit, ForgetMemory
  <2> QED BY <2>1
<1>7. ASSUME UNCHANGED <<chain, aged>>, proc' # "down" \/ proc' = proc PROVE (Chains /\ Idle)'
  BY <1>2, <1>7
<1>8. ASSUME \/ \E u \in Updates : Pick(u) \/ TaskStep(u) \/ RetryDue(u)
             \/ \E a \in Agents : PassStep(a)
             \/ Kick \/ PickNone \/ DrainRejects \/ Stop \/ Pause \/ Resume
      PROVE  (Chains /\ Idle)'
  <2> HIDE DEF Chains, Idle
  <2>1. UNCHANGED <<chain, aged>> /\ (proc' # "down" \/ proc' = proc)
    BY <1>8 DEF memory, budgets, TaskStep, PassStep, RetryDue, Kick, Pick, PickNone, DrainRejects,
      Abandon, Claim, ClaimUncertain, Dispatch, ReadFails, BusinessThrows, MarkProcessed,
      MarkUncertain, PassWrite, PassFails, PassDelete, Stop, Pause, Resume
  <2> QED BY <1>7, <2>1
<1>9. (Chains /\ Idle)'
  <2>1. CASE UNCHANGED vars
    BY <1>7, <2>1 DEF vars, memory
  <2> HIDE DEF Chains, Idle
  <2>2. CASE Next
    BY <1>3, <1>4, <1>5, <1>6, <1>8, <2>2 DEF Next, DrainStep
  <2> QED BY <2>1, <2>2
<1>10. aged' \in SUBSET Updates
  <2>1. CASE Start
    BY <2>1 DEF Start, TypeOK
  <2>2. CASE aged' = aged
    BY <2>2 DEF TypeOK
  <2>3. Start \/ aged' = aged
    BY DEF Next, vars, memory, budgets, TaskStep, PassStep, DrainStep, Deliver, RetryDue,
      Reserve, ReserveFails, Kick, Pick, PickNone, DrainRejects, Abandon, Claim, ClaimUncertain,
      Dispatch, ReadFails, BusinessThrows, MarkProcessed, MarkUncertain, PassWrite, PassFails,
      PassDelete, Crash, Stop, Exit, Pause, Resume
  <2> QED BY <2>1, <2>2, <2>3
<1> QED BY <1>1, <1>9 DEF AgedGone

(* Freshness survives every step. *)
LEMMA RetryableFreshStep ==
  ASSUME TypeOK, TypeOK', PassNamed, LockUnsettled, AgedGone, LockedIffClaimed,
         RetryableFresh, [Next]_vars, NEW u \in Updates
  PROVE  /\ starts'[u] <= 1
         /\ rows'[u].status = "PENDING" => Fresh(u)'
         /\ rows'[u].status = "ABSENT" /\ u \notin aged' => Fresh(u)'
         /\ rows'[u].status = "PROCESSING" =>
              /\ task'[u].at = "read" /\ task'[u].lock = rows'[u].lock => Fresh(u)'
              /\ held'[u] # None /\ held'[u].before /\ held'[u].lock = rows'[u].lock => Fresh(u)'
              /\ \A a \in Agents : sweep'[a].row = u /\ sweep'[a].before
                                    /\ sweep'[a].lock = rows'[u].lock => Fresh(u)'
<1>1. \A v \in Updates : starts[v] \in Nat
  BY DEF TypeOK
<1>2. Origin(u)
  BY EveryOrigin
<1>3. CASE Dispatch(u) /\ starts'[u] # starts[u]
  <2>1. /\ task[u].at = "read" /\ rows[u].status = "PROCESSING" /\ rows[u].lock = task[u].lock
        /\ starts' = [starts EXCEPT ![u] = starts[u] + 1]
        /\ task' = [task EXCEPT ![u].at = "business"]
        /\ UNCHANGED <<rows, held, sweep, aged>>
    BY <1>3 DEF Dispatch, EndTask
  <2>2. starts[u] = 0
    BY <2>1 DEF RetryableFresh, Fresh
  <2>3. starts'[u] = 1
    BY <2>1, <2>2 DEF TypeOK
  <2>4. task'[u].at = "business"
    BY <2>1 DEF TypeOK, Task
  <2>5. /\ held[u] # None => held[u].lock # rows[u].lock
        /\ \A a \in Agents : sweep[a].lock # rows[u].lock
    BY <2>1 DEF LockUnsettled
  <2> QED BY <2>1, <2>3, <2>4, <2>5
<1>4. CASE starts'[u] = starts[u]
  <2>1. Fresh(u)' <=> Fresh(u)
    BY <1>4 DEF Fresh
  <2>2. starts'[u] <= 1
    BY <1>4 DEF RetryableFresh
  <2>3. rows'[u].status = "PENDING" => Fresh(u)
    BY <1>2 DEF Origin, RetryableFresh
  <2>4. rows'[u].status = "ABSENT" /\ u \notin aged' => Fresh(u)
    BY <1>2 DEF Origin, RetryableFresh
  <2>5. ASSUME rows'[u].status = "PROCESSING", rows[u].status = "PENDING" PROVE Fresh(u)
    BY <2>5 DEF RetryableFresh
  <2>6. ASSUME rows[u].status = "PROCESSING", rows'[u].status = "PROCESSING",
               rows'[u].lock = rows[u].lock
        PROVE  /\ task'[u].at = "read" /\ task'[u].lock = rows'[u].lock => Fresh(u)
               /\ held'[u] # None /\ held'[u].before /\ held'[u].lock = rows'[u].lock => Fresh(u)
               /\ \A a \in Agents : sweep'[a].row = u /\ sweep'[a].before
                                     /\ sweep'[a].lock = rows'[u].lock => Fresh(u)
    <3>0. rows[u].lock # None
      BY <2>6 DEF LockedIffClaimed
    <3>1. /\ task[u].at = "read" /\ task[u].lock = rows[u].lock => Fresh(u)
          /\ held[u] # None /\ held[u].before /\ held[u].lock = rows[u].lock => Fresh(u)
          /\ \A a \in Agents : sweep[a].row = u /\ sweep[a].before
                                /\ sweep[a].lock = rows[u].lock => Fresh(u)
      BY <2>6 DEF RetryableFresh
    <3>2. ASSUME held'[u] # None /\ held'[u].before /\ held'[u].lock = rows[u].lock => Fresh(u),
                 NEW p, PassFrom(p, held'), p.row = u, p.before, p.lock = rows[u].lock
          PROVE  Fresh(u)
      <4>1. p # NoPass
        BY <3>0, <3>2 DEF NoPass
      <4>2. held'[u] # None /\ p.lock = held'[u].lock /\ p.before = held'[u].before
        BY <3>2, <4>1 DEF PassFrom
      <4>3. held'[u].before
        BY <3>2, <4>2
      <4> QED BY <3>2, <4>2, <4>3
    <3>3. CASE Quiet
      <4>1. held'[u] # None /\ held'[u].before /\ held'[u].lock = rows[u].lock => Fresh(u)
        BY <3>1, <3>3 DEF Quiet
      <4>2. ASSUME NEW a \in Agents, sweep'[a].row = u, sweep'[a].before, sweep'[a].lock = rows[u].lock
            PROVE  Fresh(u)
        <5>1. CASE PassKept(a)
          BY <3>1, <4>2, <5>1 DEF PassKept
        <5>2. CASE PassFrom(sweep'[a], held')
          BY <3>2, <4>1, <4>2, <5>2
        <5> QED BY <3>3, <5>1, <5>2 DEF Quiet
      <4>3. task'[u].at = "read" /\ task'[u].lock = rows[u].lock => Fresh(u)
        BY <3>1, <3>3 DEF Quiet, Live
      <4> QED BY <2>6, <4>1, <4>2, <4>3
    <3>4. ASSUME NEW w \in Updates, Claiming(w) PROVE w # u
      BY <2>6, <3>4 DEF Claiming, Eligible
    <3>5. ASSUME NEW w \in Updates, Claiming(w)
          PROVE  UNCHANGED <<held, sweep>> /\ task'[u] = task[u]
      BY <3>4, <3>5 DEF Claiming, TypeOK
    <3>6. ASSUME NEW w \in Updates, Settling(w)
          PROVE  /\ task'[u].at = "read" /\ task'[u].lock = rows[u].lock => Fresh(u)
                 /\ held'[u] # None /\ held'[u].before /\ held'[u].lock = rows[u].lock => Fresh(u)
                 /\ \A a \in Agents : sweep'[a].row = u /\ sweep'[a].before
                                       /\ sweep'[a].lock = rows[u].lock => Fresh(u)
      <4>1. PICK k \in Locks, before \in BOOLEAN, contact \in BOOLEAN :
              /\ Settle(w, k, before, contact)
              /\ \/ k \notin UsedLocks
                 \/ Live(w) /\ k = task[w].lock /\ (before => task[w].at = "read")
        BY <3>6 DEF Settling
      <4>2. /\ held' = HeldWith(w, k, before, contact)
            /\ sweep' = [sweep EXCEPT ![w] = Visit(held', 0)]
            /\ task' = [task EXCEPT ![w] = [at |-> "settle", lock |-> k]]
        BY <4>1, SettleType
      <4>3. w # u => held'[u] = held[u]
        BY <4>2 DEF HeldWith, TypeOK
      <4>4. w = u => held'[u].lock = k /\ held'[u].before = before
        BY <4>2 DEF HeldWith, TypeOK
      <4>5. ASSUME k \notin UsedLocks PROVE k # rows[u].lock
        BY <4>5 DEF UsedLocks
      <4>6. held'[u] # None /\ held'[u].before /\ held'[u].lock = rows[u].lock => Fresh(u)
        <5>1. CASE w # u
          BY <3>1, <4>3, <5>1
        <5>2. CASE w = u
          BY <3>1, <4>1, <4>4, <4>5, <5>2
        <5> QED BY <5>1, <5>2
      <4>7. task'[u].at = "read" /\ task'[u].lock = rows[u].lock => Fresh(u)
        BY <3>1, <4>2 DEF TypeOK
      <4>8. PassFrom(Visit(held', 0), held')
        BY VisitFrom DEF TypeOK
      <4>9. \A a \in Agents : sweep'[a] = IF a = w THEN Visit(held', 0) ELSE sweep[a]
        BY <4>2 DEF TypeOK
      <4>10. \A a \in Agents : sweep'[a].row = u /\ sweep'[a].before
                               /\ sweep'[a].lock = rows[u].lock => Fresh(u)
        BY <3>1, <3>2, <4>6, <4>8, <4>9
      <4> QED BY <4>6, <4>7, <4>10
    <3> QED BY <2>6, <3>1, <3>3, <3>5, <3>6, MemoryMove DEF MemoryMoves
  <2> QED BY <1>2, <2>1, <2>2, <2>3, <2>4, <2>5, <2>6 DEF Origin
<1>5. starts'[u] = starts[u] \/ Dispatch(u)
  <2>1. starts' = starts \/ \E v \in Updates : Dispatch(v)
    BY DEF Next, vars, memory, budgets, TaskStep, PassStep, DrainStep, Deliver, RetryDue,
      Reserve, ReserveFails, Kick, Pick, PickNone, DrainRejects, Abandon, Claim, ClaimUncertain,
      ReadFails, BusinessThrows, MarkProcessed, MarkUncertain, PassWrite, PassFails,
      PassDelete, Start, Crash, Stop, Exit, Pause, Resume
  <2>2. ASSUME NEW v \in Updates, v # u, Dispatch(v) PROVE starts'[u] = starts[u]
    BY <2>2 DEF Dispatch, EndTask, TypeOK
  <2> QED BY <2>1, <2>2
<1> QED BY <1>3, <1>4, <1>5

-----------------------------------------------------------------------------
(* A row stays claimed for as long as its handler runs.                    *)

LEMMA BusinessStep ==
  ASSUME TypeOK, PassNamed, LockUnsettled, BusinessOwns, [Next]_vars,
         NEW u \in Updates, task'[u].at = "business"
  PROVE  Owned(u, task[u].lock)'
<1>1. ASSUME task'[u] = task[u], rows'[u].status = rows[u].status, rows'[u].lock = rows[u].lock
      PROVE  Owned(u, task[u].lock)'
  BY <1>1 DEF BusinessOwns, Owned
<1>2. ASSUME UNCHANGED <<rows, task>> PROVE Owned(u, task[u].lock)'
  BY <1>1, <1>2
<1>3. ASSUME NEW l \in Lanes, Reserve(l) PROVE Owned(u, task[u].lock)'
  <2> DEFINE w == Head(chain[l]).update
             r == [status |-> "PENDING", seq |-> lastSeq + 1,
                   received |-> Head(chain[l]).at, attempts |-> 0,
                   due |-> TRUE, lock |-> None, kept |-> TRUE]
  <2>1. UNCHANGED task /\ (rows' = rows \/ (rows[w].status = "ABSENT" /\ rows' = [rows EXCEPT ![w] = r]))
    BY <1>3 DEF Reserve
  <2>2. rows[u].status = "PROCESSING"
    BY <2>1 DEF BusinessOwns, Owned
  <2>3. rows'[u] = rows[u]
    <3> HIDE DEF r
    <3> QED BY <2>1, <2>2 DEF TypeOK
  <2> QED BY <1>1, <2>1, <2>3
<1>4. ASSUME NEW w \in Updates, RetryDue(w) PROVE Owned(u, task[u].lock)'
  <2>1. rows'[u].status = rows[u].status /\ rows'[u].lock = rows[u].lock /\ UNCHANGED task
    BY <1>4 DEF RetryDue, memory, TypeOK, Row
  <2> QED BY <1>1, <2>1
<1>5. ASSUME NEW w \in Updates, Pick(w) PROVE Owned(u, task[u].lock)'
  <2>1. UNCHANGED rows /\ task' = [task EXCEPT ![w].at = "chosen"]
    BY <1>5 DEF Pick
  <2>2. w # u
    BY <2>1 DEF TypeOK, Task
  <2>3. task'[u] = task[u]
    BY <2>1, <2>2 DEF TypeOK
  <2> QED BY <1>1, <2>1, <2>3
<1>6. ASSUME NEW w \in Updates, NEW t, task' = [task EXCEPT ![w] = t], t.at # "business"
      PROVE  w # u /\ task'[u] = task[u]
  BY <1>6 DEF TypeOK
<1>7. ASSUME NEW w \in Updates, NEW k, NEW b, NEW c, Settle(w, k, b, c)
      PROVE  w # u /\ task'[u] = task[u]
  <2> DEFINE t == [at |-> "settle", lock |-> k]
  <2>1. task' = [task EXCEPT ![w] = t] /\ t.at # "business"
    BY <1>7 DEF Settle
  <2> HIDE DEF t
  <2> QED BY <1>6, <2>1
<1>8. ASSUME NEW w \in Updates, NEW ok, EndTask(w, ok)
      PROVE  w # u /\ task'[u] = task[u]
  <2>1. task' = [task EXCEPT ![w] = NoTask] /\ NoTask.at # "business"
    BY <1>8 DEF EndTask, NoTask
  <2> QED BY <1>6, <2>1
<1>9. ASSUME NEW w \in Updates, w # u, NEW k
      PROVE  Claimed(w, k)[u] = rows[u] /\ Processed(w, k)[u] = rows[u]
  <2>1. \A r : [rows EXCEPT ![w] = r][u] = rows[u]
    BY <1>9 DEF TypeOK
  <2>2. Claimed(w, k)[u] = rows[u]
    BY <2>1 DEF Claimed
  <2>3. Processed(w, k)[u] = rows[u]
    BY <2>1 DEF Processed
  <2> QED BY <2>2, <2>3
<1>10. ASSUME NEW w \in Updates, TaskStep(w) PROVE Owned(u, task[u].lock)'
  <2>1. CASE Abandon(w)
    BY <1>1, <1>8, <2>1 DEF Abandon
  <2>2. CASE Claim(w)
    <3>1. CASE Eligible(w)
      <4> DEFINE t == [at |-> "read", lock |-> FreshLock]
      <4>1. task' = [task EXCEPT ![w] = t] /\ t.at # "business" /\ rows' = Claimed(w, FreshLock)
        BY <2>2, <3>1 DEF Claim
      <4> HIDE DEF t
      <4>2. w # u /\ task'[u] = task[u]
        BY <1>6, <4>1
      <4>3. rows'[u] = rows[u]
        BY <1>9, <4>1, <4>2
      <4> QED BY <1>1, <4>2, <4>3
    <3>2. CASE ~Eligible(w)
      BY <1>1, <1>8, <2>2, <3>2 DEF Claim
    <3> QED BY <3>1, <3>2
  <2>3. CASE ClaimUncertain(w)
    <3>1. rows' \in {rows, Claimed(w, FreshLock)} /\ Settle(w, FreshLock, TRUE, FALSE)
      BY <2>3 DEF ClaimUncertain
    <3>2. w # u /\ task'[u] = task[u]
      BY <1>7, <3>1
    <3>3. rows'[u] = rows[u]
      BY <1>9, <3>1, <3>2
    <3> QED BY <1>1, <3>2, <3>3
  <2>4. CASE Dispatch(w)
    <3>1. CASE Owned(w, task[w].lock)
      <4>1. UNCHANGED rows /\ task' = [task EXCEPT ![w].at = "business"]
        BY <2>4, <3>1 DEF Dispatch, Owned
      <4>2. CASE w = u
        <5>1. task'[u].lock = task[u].lock
          BY <4>1 DEF TypeOK, Task
        <5> QED BY <3>1, <4>1, <4>2, <5>1 DEF Owned
      <4>3. CASE w # u
        <5>1. task'[u] = task[u]
          BY <4>1, <4>3 DEF TypeOK
        <5> QED BY <1>1, <4>1, <5>1
      <4> QED BY <4>2, <4>3
    <3>2. CASE ~Owned(w, task[w].lock)
      <4>1. UNCHANGED rows /\ EndTask(w, TRUE)
        BY <2>4, <3>2 DEF Dispatch, Owned
      <4> QED BY <1>1, <1>8, <4>1
    <3> QED BY <3>1, <3>2
  <2>5. CASE ReadFails(w) \/ BusinessThrows(w)
    BY <1>1, <1>7, <2>5 DEF ReadFails, BusinessThrows
  <2>6. CASE MarkProcessed(w)
    <3>1. rows' = Processed(w, task[w].lock) /\ EndTask(w, TRUE)
      BY <2>6 DEF MarkProcessed
    <3>2. w # u /\ task'[u] = task[u]
      BY <1>8, <3>1
    <3>3. rows'[u] = rows[u]
      BY <1>9, <3>1, <3>2
    <3> QED BY <1>1, <3>2, <3>3
  <2>7. CASE MarkUncertain(w)
    <3>1. rows' \in {rows, Processed(w, task[w].lock)} /\ Settle(w, task[w].lock, FALSE, w \in Contact)
      BY <2>7 DEF MarkUncertain
    <3>2. w # u /\ task'[u] = task[u]
      BY <1>7, <3>1
    <3>3. rows'[u] = rows[u]
      BY <1>9, <3>1, <3>2
    <3> QED BY <1>1, <3>2, <3>3
  <2> QED BY <1>10, <2>1, <2>2, <2>3, <2>4, <2>5, <2>6, <2>7 DEF TaskStep
<1>11. ASSUME NEW a \in Agents, PassStep(a) PROVE Owned(u, task[u].lock)'
  <2>1. task'[u] = task[u]
    <3>1. UNCHANGED task \/ \E ok \in BOOLEAN : EndPass(a, ok)
      BY <1>11 DEF PassStep, PassWrite, PassFails, PassDelete
    <3> QED BY <1>8, <3>1 DEF EndPass, Agents
  <2>2. CASE rows' = rows
    BY <1>1, <2>1, <2>2
  <2>3. CASE rows' = SettledRows(sweep[a]) /\ sweep[a].step = "write"
    <3> DEFINE p == sweep[a]
    <3>1. p.row \in Updates /\ p.lock # task[u].lock
      BY <2>1, <2>3 DEF PassNamed, LockUnsettled
    <3>2. Owned(u, task[u].lock)
      BY <2>1 DEF BusinessOwns
    <3>3. CASE p.row = u
      <4>1. ~Owned(p.row, p.lock)
        BY <3>1, <3>2, <3>3 DEF Owned
      <4>2. rows' = rows
        BY <2>3, <4>1 DEF SettledRows
      <4> QED BY <2>2, <4>2
    <3>4. CASE p.row # u
      <4>1. rows'[u] = rows[u]
        BY <2>3, <3>4 DEF SettledRows, TypeOK
      <4> QED BY <1>1, <2>1, <4>1
    <3> QED BY <3>3, <3>4
  <2> QED BY <1>11, <2>2, <2>3 DEF PassStep, PassWrite, PassFails, PassDelete
<1>12. ASSUME Start PROVE FALSE
  BY <1>12 DEF Start, memory, BusinessOwns, Active
<1>13. ASSUME Crash \/ Exit PROVE FALSE
  BY <1>13 DEF Crash, Exit, ForgetMemory, NoTask
<1>14. ASSUME \/ \E w \in Updates : Deliver(w)
              \/ \E l \in Lanes : ReserveFails(l)
              \/ Kick \/ PickNone \/ DrainRejects \/ Stop \/ Pause \/ Resume
       PROVE  Owned(u, task[u].lock)'
  BY <1>2, <1>14 DEF Deliver, ReserveFails, Kick, PickNone, DrainRejects, Stop, Pause, Resume, memory
<1>15. CASE UNCHANGED vars
  BY <1>2, <1>15 DEF vars, memory
<1>16. CASE Next
  BY <1>3, <1>4, <1>5, <1>10, <1>11, <1>12, <1>13, <1>14, <1>16 DEF Next, DrainStep
<1> QED BY <1>15, <1>16

LEMMA BusinessOwnsStep ==
  ASSUME TypeOK, PassNamed, LockUnsettled, BusinessOwns, [Next]_vars
  PROVE  BusinessOwns'
<1>1. \A u \in Updates : task'[u].at = "business" => Owned(u, task[u].lock)'
  BY BusinessStep
<1>2. CASE Crash \/ Exit
  <2>1. Active' = {}
    BY <1>2 DEF Crash, Exit, ForgetMemory, NoTask, Active
  <2> QED BY <1>1, <2>1 DEF BusinessOwns
<1>3. ASSUME proc' = "down", proc = "down", \A u \in Updates : task'[u] \in {task[u], NoTask}
      PROVE  BusinessOwns'
  <2>1. Active' = {}
    BY <1>3 DEF BusinessOwns, Active, NoTask
  <2> QED BY <1>1, <2>1 DEF BusinessOwns
<1>4. ASSUME proc' # "down" PROVE BusinessOwns'
  BY <1>1, <1>4 DEF BusinessOwns
<1>5. ASSUME NEW u \in Updates, TaskStep(u) PROVE BusinessOwns'
  <2>1. u \in Active /\ proc' = proc
    BY <1>5 DEF TaskStep, Abandon, Claim, ClaimUncertain, Dispatch, ReadFails, BusinessThrows,
                MarkProcessed, MarkUncertain, Active
  <2> QED BY <1>4, <2>1 DEF BusinessOwns
<1>6. ASSUME NEW a \in Agents, PassStep(a) PROVE BusinessOwns'
  <2>1. proc' = proc /\ (UNCHANGED task \/ task' = [task EXCEPT ![a] = NoTask])
    BY <1>6 DEF PassStep, PassWrite, PassFails, PassDelete, EndPass, EndTask
  <2>2. \A v \in Updates : task'[v] \in {task[v], NoTask}
    BY <2>1 DEF TypeOK
  <2> QED BY <1>3, <1>4, <2>1, <2>2
<1>7. ASSUME UNCHANGED <<task, proc>> PROVE BusinessOwns'
  BY <1>3, <1>4, <1>7
<1>8. ASSUME \/ \E u \in Updates : Deliver(u) \/ RetryDue(u)
             \/ \E l \in Lanes : Reserve(l) \/ ReserveFails(l)
             \/ Kick \/ PickNone \/ DrainRejects \/ Pause \/ Resume \/ UNCHANGED vars
      PROVE  BusinessOwns'
  BY <1>7, <1>8 DEF Deliver, RetryDue, Reserve, ReserveFails, Kick, PickNone, DrainRejects, Pause,
                    Resume, memory, vars
<1>9. ASSUME Start \/ Stop \/ \E u \in Updates : Pick(u) PROVE BusinessOwns'
  <2>1. proc' # "down"
    BY <1>9 DEF Start, Stop, Pick, Running
  <2> QED BY <1>4, <2>1
<1> QED BY <1>2, <1>5, <1>6, <1>8, <1>9 DEF Next, DrainStep

-----------------------------------------------------------------------------
(* The inductive invariant, and what follows from it.                      *)

LEMMA InitSafe ==
  ASSUME Init
  PROVE  SafetyInv
<1>1. TypeOK
  <2>1. NoRow \in Row /\ NoTask \in Task /\ NoPass \in Pass
    BY NoRowType, NoPassType DEF NoTask, Task
  <2>2. rows \in [Updates -> Row] /\ task \in [Updates -> Task] /\ sweep \in [Agents -> Pass]
    BY <2>1 DEF Init
  <2>3. chain \in [Lanes -> Seq(Receipt)] /\ held \in [Updates -> Settlement \cup {None}]
    BY DEF Init
  <2> QED BY <2>2, <2>3 DEF Init, TypeOK
<1>2. \A u \in Updates : rows[u].status = "ABSENT" /\ rows[u].lock = None
  BY DEF Init, NoRow
<1>3. \A u \in Updates : task[u].at = "none" /\ held[u] = None /\ starts[u] = 0
  BY DEF Init, NoTask
<1>4. \A a \in Agents : sweep[a].step = "off" /\ sweep[a].lock = None
  BY DEF Init, NoPass
<1>5. Numbered /\ ClaimedFirst /\ LockedIffClaimed
  BY <1>2 DEF Numbered, ClaimedFirst, LockedIffClaimed
<1>6. LockUnsettled /\ PassNamed
  BY <1>3, <1>4 DEF LockUnsettled, PassNamed
<1>7. RetryableFresh
  BY <1>2, <1>3 DEF RetryableFresh, Fresh
<1>8. AgedGone
  BY DEF Init, AgedGone
<1>9. BusinessOwns
  BY <1>3 DEF BusinessOwns, Active
<1> QED BY <1>1, <1>5, <1>6, <1>7, <1>8, <1>9 DEF SafetyInv

LEMMA SafetyStep ==
  ASSUME SafetyInv, [Next]_vars
  PROVE  SafetyInv'
<1> USE DEF SafetyInv
<1>1. TypeOK'
  BY TypeStep
<1>2. (Numbered /\ ClaimedFirst /\ LockedIffClaimed)'
  BY RowMove, TableStep DEF TableInv
<1>3. LockUnsettled' /\ PassNamed'
  BY <1>1, MemoryMove, LockUnsettledStep, PassNamedStep
<1>4. RetryableFresh'
  BY <1>1, RetryableFreshStep DEF RetryableFresh
<1>5. AgedGone' /\ BusinessOwns'
  BY AgedGoneStep, BusinessOwnsStep
<1> QED BY <1>1, <1>2, <1>3, <1>4, <1>5

(* Whatever is delivered, fails, crashes or stops, the table stays ordered,*)
(* a claim stays at the head of its lane, and a row that may be claimed    *)
(* never reached the business handlers.                                    *)
THEOREM Safety == Spec => []SafetyInv
<1>1. Init => SafetyInv
  BY InitSafe
<1>2. SafetyInv /\ [Next]_vars => SafetyInv'
  BY SafetyStep
<1> QED BY <1>1, <1>2, PTL DEF Spec

(* Every variable stays in its domain.                                     *)
THEOREM TypeCorrect == Spec => []TypeOK
<1>1. SafetyInv => TypeOK
  BY DEF SafetyInv
<1> QED BY <1>1, Safety, PTL

(* The business handlers get an update at most once.                       *)
THEOREM NeverReplayed == Spec => []AtMostOnce
<1>1. SafetyInv => AtMostOnce
  BY DEF SafetyInv, RetryableFresh, AtMostOnce
<1> QED BY <1>1, Safety, PTL

(* Two updates of one user are never in processing together.               *)
THEOREM OnePerLane == Spec => []LaneSerial
<1>1. ASSUME SafetyInv, NEW u \in Updates, NEW v \in Updates, u # v, Lane[u] = Lane[v]
      PROVE  ~(rows[u].status = "PROCESSING" /\ rows[v].status = "PROCESSING")
  <2> SUFFICES ASSUME rows[u].status = "PROCESSING", rows[v].status = "PROCESSING"
               PROVE  FALSE
    OBVIOUS
  <2>1. ~Earlier(u, v) /\ ~Earlier(v, u)
    BY <1>1 DEF SafetyInv, ClaimedFirst, Open
  <2>2. rows[u].seq # rows[v].seq
    BY <1>1 DEF SafetyInv, Numbered
  <2>3. rows[u].seq \in Nat /\ rows[v].seq \in Nat
    BY <1>1 DEF SafetyInv, TypeOK, Row
  <2> QED BY <1>1, <2>1, <2>2, <2>3 DEF Earlier
<1>2. SafetyInv => LaneSerial
  BY <1>1 DEF SafetyInv, BusinessOwns, Owned, LaneSerial
<1> QED BY <1>2, Safety, PTL

LEMMA StartsMove ==
  ASSUME [Next]_vars
  PROVE  \/ UNCHANGED starts
         \/ \E u \in Updates : /\ Owned(u, task[u].lock) /\ task[u].at = "read"
                               /\ starts' = [starts EXCEPT ![u] = starts[u] + 1]
                               /\ UNCHANGED <<rows, aged>>
<1>1. ASSUME NEW u \in Updates, Dispatch(u)
      PROVE  \/ UNCHANGED starts
             \/ /\ Owned(u, task[u].lock) /\ task[u].at = "read"
                /\ starts' = [starts EXCEPT ![u] = starts[u] + 1]
                /\ UNCHANGED <<rows, aged>>
  BY <1>1 DEF Dispatch, Owned
<1>2. UNCHANGED starts \/ \E u \in Updates : Dispatch(u)
  BY DEF Next, vars, memory, budgets, TaskStep, PassStep, DrainStep, Deliver, RetryDue,
    Reserve, ReserveFails, Kick, Pick, PickNone, DrainRejects, Abandon, Claim, ClaimUncertain,
    ReadFails, BusinessThrows, MarkProcessed, MarkUncertain, PassWrite, PassFails,
    PassDelete, Start, Crash, Stop, Exit, Pause, Resume
<1> QED BY <1>1, <1>2

(* Business work begins in the order a user's updates were accepted.       *)
THEOREM InOrder == Spec => InLaneOrder
<1> DEFINE A == \A u \in Updates : starts'[u] > starts[u] =>
                  \A v \in Updates : rows[v].status # "ABSENT" /\ Earlier(v, u)
                                        => rows[v].status \in Settled
<1>1. ASSUME SafetyInv, [Next]_vars, NEW u \in Updates, starts'[u] > starts[u],
             NEW v \in Updates, rows[v].status # "ABSENT", Earlier(v, u)
      PROVE  rows[v].status \in Settled
  <2>1. starts[u] \in Nat /\ rows[v] \in Row
    BY <1>1 DEF SafetyInv, TypeOK
  <2>2. rows[u].status = "PROCESSING"
    <3>1. PICK w \in Updates : Owned(w, task[w].lock) /\ starts' = [starts EXCEPT ![w] = starts[w] + 1]
      BY <1>1, <2>1, StartsMove
    <3>2. w = u
      BY <1>1, <2>1, <3>1 DEF SafetyInv, TypeOK
    <3> QED BY <3>1, <3>2 DEF Owned
  <2>3. ~Open(v)
    BY <1>1, <2>2 DEF SafetyInv, ClaimedFirst
  <2> QED BY <1>1, <2>1, <2>3 DEF Open, Row, Statuses
<1>2. SafetyInv /\ [Next]_vars => A
  BY <1>1
<1>3. SafetyInv /\ [Next]_vars => [A]_vars
  BY <1>2
<1> HIDE DEF A
<1>4. Spec => [][A]_vars
  BY <1>3, Safety, PTL DEF Spec
<1> QED BY <1>4 DEF A, InLaneOrder

-----------------------------------------------------------------------------
(* Order, claims and phone numbers, row by row.                            *)

(* What a step may do to one row, as far as order, claims and phone        *)
(* numbers go.                                                             *)
Stays(v) ==
  /\ rows'[v].status = rows[v].status /\ rows'[v].seq = rows[v].seq
  /\ rows'[v].received = rows[v].received
  /\ rows'[v].attempts = rows[v].attempts /\ rows'[v].kept = rows[v].kept

Claims(v) ==
  /\ rows[v].status = "PENDING" /\ rows'[v].status = "PROCESSING"
  /\ rows'[v].seq = rows[v].seq /\ rows'[v].received = rows[v].received
  /\ rows'[v].attempts = rows[v].attempts + 1

Settles(v) ==
  /\ rows[v].status # "ABSENT"
  /\ rows'[v].seq = rows[v].seq /\ rows'[v].received = rows[v].received
  /\ rows'[v].attempts = rows[v].attempts
  /\ rows'[v].status = "PENDING" => rows[v].attempts < ClaimLimit
  /\ v \in Contact /\ rows'[v].status \in Settled => ~rows'[v].kept

Vanishes(v) == rows'[v] = NoRow

Enters(v) == rows[v].status = "ABSENT" /\ rows'[v].status = "PENDING" /\ rows'[v].attempts = 0

RowForm(v) == Stays(v) \/ Claims(v) \/ Settles(v) \/ Vanishes(v)

RowForms == \A v \in Updates : RowForm(v)

(* A claim takes a row that waits. *)
LEMMA ClaimedForms ==
  ASSUME TypeOK, NEW u \in Updates, NEW k \in Locks, rows[u].status = "PENDING", rows' = Claimed(u, k)
  PROVE  RowForms
<1>1. rows \in [Updates -> Row]
  BY DEF TypeOK
<1>2. \A v \in Updates : v # u => rows'[v] = rows[v]
  BY <1>1 DEF Claimed
<1>3. Claims(u)
  <2> DEFINE n == rows[u].attempts + 1
  <2>1. rows'[u] = [rows[u] EXCEPT !.status = "PROCESSING", !.lock = k, !.attempts = n]
    BY <1>1 DEF Claimed
  <2> HIDE DEF n
  <2>2. /\ rows'[u].status = "PROCESSING" /\ rows'[u].seq = rows[u].seq
        /\ rows'[u].received = rows[u].received /\ rows'[u].attempts = n
    BY <1>1, <2>1 DEF Row
  <2> QED BY <2>2 DEF Claims, n
<1> QED BY <1>2, <1>3 DEF RowForms, RowForm, Stays

(* Marking a row processed drops its payload. *)
LEMMA ProcessedForms ==
  ASSUME TypeOK, NEW u \in Updates, NEW k, rows' = Processed(u, k)
  PROVE  RowForms
<1>1. rows \in [Updates -> Row]
  BY DEF TypeOK
<1>2. CASE ~Owned(u, k)
  BY <1>2 DEF Processed, RowForms, RowForm, Stays
<1>3. CASE Owned(u, k)
  <2>1. \A v \in Updates : v # u => rows'[v] = rows[v]
    BY <1>1, <1>3 DEF Processed
  <2>2. rows'[u] = [rows[u] EXCEPT !.status = "PROCESSED", !.lock = None, !.kept = FALSE]
    BY <1>1, <1>3 DEF Processed
  <2>3. /\ rows'[u].seq = rows[u].seq /\ rows'[u].received = rows[u].received
        /\ rows'[u].attempts = rows[u].attempts
        /\ rows'[u].status = "PROCESSED" /\ rows'[u].kept = FALSE
    BY <1>1, <2>2 DEF Row
  <2> QED BY <1>3, <2>1, <2>3 DEF RowForms, RowForm, Stays, Settles, Owned
<1> QED BY <1>2, <1>3

(* A settlement retries only below the limit, and fails with the phone     *)
(* number scrubbed.                                                        *)
LEMMA SettledForms ==
  ASSUME TypeOK, WillScrub, NEW a \in Agents, sweep[a].step # "off", sweep[a].row \in Updates,
         rows' = SettledRows(sweep[a])
  PROVE  RowForms
<1> DEFINE p == sweep[a]
           u == p.row
           keep == rows[u].kept /\ ~p.contact /\ ~(p.before /\ u \in Contact)
<1>1. rows \in [Updates -> Row]
  BY DEF TypeOK
<1>2. CASE ~Owned(u, p.lock)
  BY <1>2 DEF SettledRows, RowForms, RowForm, Stays
<1>3. CASE Owned(u, p.lock) /\ MayRetry(p)
  <2>1. rows' = [rows EXCEPT ![u] = [rows[u] EXCEPT !.status = "PENDING", !.lock = None, !.due = FALSE]]
    BY <1>3 DEF SettledRows
  <2>2. \A v \in Updates : v # u => rows'[v] = rows[v]
    BY <1>1, <2>1
  <2>3. rows'[u] = [rows[u] EXCEPT !.status = "PENDING", !.lock = None, !.due = FALSE]
    BY <1>1, <2>1
  <2>4. /\ rows'[u].status = "PENDING" /\ rows'[u].seq = rows[u].seq
        /\ rows'[u].received = rows[u].received /\ rows'[u].attempts = rows[u].attempts
        /\ rows'[u].kept = rows[u].kept
    BY <1>1, <2>3 DEF Row
  <2>5. rows[u].attempts < ClaimLimit
    BY <1>3 DEF MayRetry
  <2> QED BY <1>3, <2>2, <2>4, <2>5 DEF RowForms, RowForm, Stays, Settles, Owned, Settled
<1>4. CASE Owned(u, p.lock) /\ ~MayRetry(p)
  <2>1. rows' = [rows EXCEPT ![u] = [rows[u] EXCEPT !.status = "FAILED", !.lock = None, !.kept = keep]]
    BY <1>4 DEF SettledRows
  <2>2. u \in Contact => ~keep
    BY DEF WillScrub
  <2> HIDE DEF keep
  <2>3. \A v \in Updates : v # u => rows'[v] = rows[v]
    BY <1>1, <2>1
  <2>4. rows'[u] = [rows[u] EXCEPT !.status = "FAILED", !.lock = None, !.kept = keep]
    BY <1>1, <2>1
  <2>5. /\ rows'[u].status = "FAILED" /\ rows'[u].seq = rows[u].seq
        /\ rows'[u].received = rows[u].received /\ rows'[u].attempts = rows[u].attempts
        /\ rows'[u].kept = keep
    BY <1>1, <2>4 DEF Row
  <2> QED BY <1>4, <2>2, <2>3, <2>5 DEF RowForms, RowForm, Stays, Settles, Owned
<1> QED BY <1>2, <1>3, <1>4


(* A restart fails what was claimed, scrubs what had failed, or deletes.   *)
LEMMA RestartForms ==
  ASSUME TypeOK, Start
  PROVE  RowForms
<1>1. PICK old \in SUBSET Updates :
        rows' = [u \in Updates |-> IF u \in old THEN NoRow ELSE Recovered(rows[u], u)]
  BY DEF Start
<1>2. SUFFICES ASSUME NEW v \in Updates PROVE RowForm(v)
  BY DEF RowForms
<1>3. rows[v] \in Row
  BY DEF TypeOK
<1>4. CASE v \in old
  BY <1>1, <1>4 DEF RowForm, Vanishes
<1>5. CASE v \notin old
  <2>1. rows'[v] = Recovered(rows[v], v)
    BY <1>1, <1>5
  <2>2. /\ rows'[v].seq = rows[v].seq /\ rows'[v].received = rows[v].received
        /\ rows'[v].attempts = rows[v].attempts
        /\ rows'[v].status = IF rows[v].status = "PROCESSING" THEN "FAILED" ELSE rows[v].status
    BY <1>3, <2>1 DEF Recovered, Row
  <2>3. CASE rows[v].status = "PROCESSING"
    <3>1. v \in Contact => ~rows'[v].kept
      BY <1>3, <2>1, <2>3 DEF Recovered, Row
    <3> QED BY <2>2, <2>3, <3>1 DEF RowForm, Settles
  <2>4. CASE rows[v].status = "FAILED" /\ v \in Contact
    <3>1. ~rows'[v].kept
      BY <1>3, <2>1, <2>4 DEF Recovered, Row
    <3> QED BY <2>2, <2>4, <3>1 DEF RowForm, Settles
  <2>5. CASE rows[v].status # "PROCESSING" /\ ~(rows[v].status = "FAILED" /\ v \in Contact)
    <3>1. rows'[v] = rows[v]
      BY <2>1, <2>5 DEF Recovered
    <3> QED BY <3>1 DEF RowForm, Stays
  <2> QED BY <2>3, <2>4, <2>5
<1> QED BY <1>4, <1>5

(* A retry that becomes due changes nothing else. *)
LEMMA RetryForms ==
  ASSUME TypeOK, NEW u \in Updates, RetryDue(u)
  PROVE  RowForms
<1>1. rows \in [Updates -> Row]
  BY DEF TypeOK
<1>2. rows' = [rows EXCEPT ![u] = [rows[u] EXCEPT !.due = TRUE]]
  BY DEF RetryDue
<1>3. \A v \in Updates : v # u => rows'[v] = rows[v]
  BY <1>1, <1>2
<1>4. rows'[u] = [rows[u] EXCEPT !.due = TRUE]
  BY <1>1, <1>2
<1>5. Stays(u)
  BY <1>1, <1>4 DEF Row, Stays
<1> QED BY <1>3, <1>5 DEF RowForms, RowForm, Stays

(* Every step but a reservation gives every row one of these forms.        *)
LEMMA FormsStep ==
  ASSUME TypeOK, PassNamed, WillScrub, [Next]_vars
  PROVE  RowForms \/ \E l \in Lanes : Reserve(l)
<1>0. ASSUME rows' = rows PROVE RowForms
  BY <1>0 DEF RowForms, RowForm, Stays
<1>1. ASSUME NEW u \in Updates, Claim(u) \/ ClaimUncertain(u) PROVE RowForms
  <2>1. FreshLock \in Locks
    BY <1>1, FreshLockFresh DEF Claim, ClaimUncertain
  <2>2. rows' = rows \/ (rows[u].status = "PENDING" /\ rows' = Claimed(u, FreshLock))
    BY <1>1 DEF Claim, ClaimUncertain, Eligible
  <2> QED BY <1>0, <2>1, <2>2, ClaimedForms
<1>2. ASSUME NEW u \in Updates, MarkProcessed(u) \/ MarkUncertain(u) PROVE RowForms
  <2>1. rows' = rows \/ rows' = Processed(u, task[u].lock)
    BY <1>2 DEF MarkProcessed, MarkUncertain
  <2> QED BY <1>0, <2>1, ProcessedForms
<1>3. ASSUME NEW a \in Agents, PassWrite(a) \/ PassFails(a) PROVE RowForms
  <2>1. sweep[a].row \in Updates /\ sweep[a].step # "off"
    BY <1>3 DEF PassWrite, PassFails, PassNamed
  <2>2. rows' = rows \/ rows' = SettledRows(sweep[a])
    BY <1>3 DEF PassWrite, PassFails
  <2> QED BY <1>0, <2>1, <2>2, SettledForms
<1>4. ASSUME NEW u \in Updates,
             \/ Deliver(u) \/ Pick(u) \/ Abandon(u) \/ Dispatch(u)
             \/ ReadFails(u) \/ BusinessThrows(u)
      PROVE  RowForms
  BY <1>0, <1>4 DEF Deliver, Pick, Abandon, Dispatch, ReadFails, BusinessThrows
<1>5. ASSUME NEW l \in Lanes, ReserveFails(l) PROVE RowForms
  BY <1>0, <1>5 DEF ReserveFails
<1>6. ASSUME NEW a \in Agents, PassDelete(a) PROVE RowForms
  BY <1>0, <1>6 DEF PassDelete
<1>7. ASSUME \/ Kick \/ PickNone \/ DrainRejects \/ Crash \/ Stop \/ Exit \/ Pause \/ Resume
             \/ UNCHANGED vars
      PROVE  RowForms
  BY <1>0, <1>7 DEF Kick, PickNone, DrainRejects, Crash, Stop, Exit, Pause, Resume, vars
<1> QED BY <1>1, <1>2, <1>3, <1>4, <1>5, <1>6, <1>7, RestartForms, RetryForms
     DEF Next, TaskStep, PassStep, DrainStep

(* A reservation inserts the head of the chain, or changes no row. *)
LEMMA ReserveForms ==
  ASSUME TypeOK, NEW l \in Lanes, Reserve(l)
  PROVE  \/ rows' = rows
         \/ /\ Head(chain[l]).update \in Updates /\ Head(chain[l]).at \in Nat
            /\ Enters(Head(chain[l]).update)
            /\ rows'[Head(chain[l]).update].seq = lastSeq + 1
            /\ rows'[Head(chain[l]).update].received = Head(chain[l]).at
            /\ \A v \in Updates : v # Head(chain[l]).update => rows'[v] = rows[v]
<1> DEFINE u == Head(chain[l]).update
           r == [status |-> "PENDING", seq |-> lastSeq + 1, received |-> Head(chain[l]).at,
                 attempts |-> 0, due |-> TRUE, lock |-> None, kept |-> TRUE]
<1>1. Head(chain[l]) \in Receipt
  BY HeadTailProperties DEF Reserve, TypeOK
<1>2. u \in Updates /\ Head(chain[l]).at \in Nat
  BY <1>1 DEF Receipt
<1>3. rows' = rows \/ (rows[u].status = "ABSENT" /\ rows' = [rows EXCEPT ![u] = r])
  BY DEF Reserve
<1>4. /\ r.status = "PENDING" /\ r.seq = lastSeq + 1 /\ r.attempts = 0
      /\ r.received = Head(chain[l]).at
  OBVIOUS
<1> HIDE DEF r
<1>5. CASE rows[u].status = "ABSENT" /\ rows' = [rows EXCEPT ![u] = r]
  <2>1. \A v \in Updates : rows'[v] = IF v = u THEN r ELSE rows[v]
    BY <1>5 DEF TypeOK
  <2> QED BY <1>2, <1>4, <1>5, <2>1 DEF Enters
<1> QED BY <1>3, <1>5

-----------------------------------------------------------------------------
(* Claims, and what is left of a phone number.                             *)

(* Every step keeps to the claims and scrubs what it settles. *)
LEMMA ClaimsStep ==
  ASSUME TypeOK, PassNamed, WillScrub, ClaimBudget, ClaimsLeft, ContactScrubbed, [Next]_vars
  PROVE  (ClaimBudget /\ ClaimsLeft /\ ContactScrubbed)'
<1>1. \A v \in Updates : RowForm(v) \/ Enters(v)
  <2>1. CASE RowForms
    BY <2>1 DEF RowForms
  <2>2. ASSUME NEW l \in Lanes, Reserve(l) PROVE \A v \in Updates : RowForm(v) \/ Enters(v)
    BY <2>2, ReserveForms DEF RowForm, Stays
  <2> QED BY <2>1, <2>2, FormsStep
<1>2. ASSUME NEW v \in Updates
      PROVE  /\ rows'[v].attempts <= ClaimLimit
             /\ rows'[v].status = "PENDING" => rows'[v].attempts < ClaimLimit
             /\ v \in Contact /\ rows'[v].status \in Settled => ~rows'[v].kept
  <2>1. rows[v].attempts \in Nat
    BY DEF TypeOK, Row
  <2>2. /\ rows[v].attempts <= ClaimLimit
        /\ rows[v].status = "PENDING" => rows[v].attempts < ClaimLimit
        /\ v \in Contact /\ rows[v].status \in Settled => ~rows[v].kept
    BY DEF ClaimBudget, ClaimsLeft, ContactScrubbed
  <2>3. CASE Stays(v)
    BY <2>2, <2>3 DEF Stays
  <2>4. CASE Claims(v)
    BY <2>1, <2>2, <2>4 DEF Claims, ClaimLimit, Settled
  <2>5. CASE Settles(v)
    BY <2>1, <2>2, <2>5 DEF Settles
  <2>6. CASE Vanishes(v)
    BY <2>6 DEF Vanishes, NoRow, ClaimLimit, Settled
  <2>7. CASE Enters(v)
    BY <2>7 DEF Enters, ClaimLimit, Settled
  <2> QED BY <1>1, <2>3, <2>4, <2>5, <2>6, <2>7 DEF RowForm
<1>3. Contact \subseteq Updates
  BY ConstantsAssumption
<1> QED BY <1>2, <1>3 DEF ClaimBudget, ClaimsLeft, ContactScrubbed

(* A settlement is taken over with its phone number mark. *)
LEMMA WillScrubStep ==
  ASSUME TypeOK, TypeOK', WillScrub, MemoryMoves
  PROVE  WillScrub'
<1>0. Contact \subseteq Updates
  BY ConstantsAssumption
<1>1. ASSUME \A u \in Contact : held'[u] # None => held'[u].before \/ held'[u].contact,
             NEW p, PassFrom(p, held'), p.step # "off", p.row \in Contact
      PROVE  p.before \/ p.contact
  BY <1>1 DEF PassFrom, NoPass
<1>2. CASE Quiet
  <2>1. \A u \in Contact : held'[u] # None => held'[u].before \/ held'[u].contact
    <3>1. \A u \in Contact : held'[u] \in {held[u], None}
      BY <1>0, <1>2 DEF Quiet
    <3> QED BY <3>1 DEF WillScrub
  <2>2. ASSUME NEW a \in Agents, sweep'[a].step # "off", sweep'[a].row \in Contact
        PROVE  sweep'[a].before \/ sweep'[a].contact
    <3>1. CASE PassKept(a)
      BY <2>2, <3>1 DEF PassKept, WillScrub
    <3>2. CASE PassFrom(sweep'[a], held')
      BY <1>1, <2>1, <2>2, <3>2
    <3> QED BY <1>2, <3>1, <3>2 DEF Quiet
  <2> QED BY <2>1, <2>2 DEF WillScrub
<1>3. ASSUME NEW u \in Updates, Claiming(u) PROVE WillScrub'
  BY <1>3 DEF Claiming, WillScrub
<1>4. ASSUME NEW u \in Updates, Settling(u) PROVE WillScrub'
  <2>1. PICK k \in Locks, before \in BOOLEAN, contact \in BOOLEAN :
          Settle(u, k, before, contact) /\ (u \in Contact => before \/ contact)
    BY <1>4 DEF Settling
  <2>2. held' = HeldWith(u, k, before, contact) /\ sweep' = [sweep EXCEPT ![u] = Visit(held', 0)]
    BY <2>1, SettleType
  <2>3. /\ held'[u].before = before /\ held'[u].contact = contact
        /\ \A v \in Updates : v # u => held'[v] = held[v]
    BY <2>2 DEF HeldWith, TypeOK
  <2>4. \A v \in Contact : held'[v] # None => held'[v].before \/ held'[v].contact
    BY <1>0, <2>1, <2>3 DEF WillScrub
  <2>5. PassFrom(Visit(held', 0), held')
    BY VisitFrom DEF TypeOK
  <2>6. \A a \in Agents : sweep'[a] = IF a = u THEN Visit(held', 0) ELSE sweep[a]
    BY <2>2 DEF TypeOK
  <2>7. ASSUME NEW a \in Agents, sweep'[a].step # "off", sweep'[a].row \in Contact
        PROVE  sweep'[a].before \/ sweep'[a].contact
    <3>1. CASE a = u
      BY <1>1, <2>4, <2>5, <2>6, <2>7, <3>1
    <3>2. CASE a # u
      BY <2>6, <2>7, <3>2 DEF WillScrub
    <3> QED BY <3>1, <3>2
  <2> QED BY <2>4, <2>7 DEF WillScrub
<1> QED BY <1>2, <1>3, <1>4 DEF MemoryMoves


-----------------------------------------------------------------------------
(* The order of delivery.                                                  *)

(* A lane's chain loses nothing but its oldest calls, or gets one more.    *)
Shortened(l) ==
  \E d \in Nat : /\ Len(chain[l]) >= Len(chain'[l]) + d
                 /\ \A i \in 1..Len(chain'[l]) : chain'[l][i] = chain[l][i + d]

Lengthened(l) ==
  \E r \in Receipt : /\ chain'[l] = Append(chain[l], r)
                     /\ Lane[r.update] = l /\ r.at = clock + 1 /\ clock' = clock + 1

(* A row of the table keeps its place in it. *)
PlacesKept ==
  \A v \in Updates : rows'[v].status # "ABSENT" =>
    rows[v].status # "ABSENT" /\ rows'[v].seq = rows[v].seq /\ rows'[v].received = rows[v].received

(* No row but a new one gets a place in the table. *)
LEMMA FormsKeepPlaces ==
  ASSUME RowForms
  PROVE  PlacesKept
BY DEF RowForms, RowForm, Stays, Claims, Settles, Vanishes, NoRow, PlacesKept

(* A lane left alone keeps its calls. *)
LEMMA SameShortened ==
  ASSUME TypeOK, NEW l \in Lanes, chain'[l] = chain[l]
  PROVE  Shortened(l)
<1>1. Len(chain[l]) \in Nat /\ Len(chain[l]) >= Len(chain'[l]) + 0
  BY DEF TypeOK
<1>2. \A i \in 1..Len(chain'[l]) : chain'[l][i] = chain[l][i + 0]
  BY <1>1
<1> QED BY <1>1, <1>2 DEF Shortened

(* A call that is served leaves its lane's chain. *)
LEMMA TailShortens ==
  ASSUME TypeOK, NEW l \in Lanes, chain[l] # <<>>, chain' = [chain EXCEPT ![l] = Tail(@)]
  PROVE  /\ Len(chain'[l]) = Len(chain[l]) - 1
         /\ \A i \in 1..Len(chain'[l]) : chain'[l][i] = chain[l][i + 1]
         /\ \A m \in Lanes : m # l => chain'[m] = chain[m]
         /\ \A m \in Lanes : Shortened(m)
<1>1. chain[l] \in Seq(Receipt) /\ chain'[l] = Tail(chain[l]) /\ \A m \in Lanes : m # l => chain'[m] = chain[m]
  BY DEF TypeOK
<1>2. /\ Len(Tail(chain[l])) = Len(chain[l]) - 1
      /\ \A i \in 1..Len(Tail(chain[l])) : Tail(chain[l])[i] = chain[l][i + 1]
  BY <1>1, HeadTailProperties
<1>3. Len(chain[l]) \in Nat
  BY <1>1
<1>4. Shortened(l)
  BY <1>1, <1>2, <1>3 DEF Shortened
<1> QED BY <1>1, <1>2, <1>4, SameShortened

(* How a step may change the chains, and the time of delivery. *)
LEMMA ChainMove ==
  ASSUME TypeOK, [Next]_vars
  PROVE  /\ \A l \in Lanes : Shortened(l) \/ Lengthened(l)
         /\ clock' \in {clock, clock + 1}
<1>0. \A l \in Lanes : Len(chain[l]) \in Nat
  BY DEF TypeOK
<1>1. ASSUME chain' = chain PROVE \A l \in Lanes : Shortened(l)
  BY <1>1, SameShortened
<1>2. ASSUME NEW u \in Updates, Deliver(u) PROVE \A l \in Lanes : Shortened(l) \/ Lengthened(l)
  <2> DEFINE r == [update |-> u, at |-> clock + 1]
  <2>1. r \in Receipt /\ r.update = u /\ r.at = clock + 1
    BY DEF TypeOK, Receipt
  <2>2. chain' = [chain EXCEPT ![Lane[u]] = Append(chain[Lane[u]], r)] /\ clock' = clock + 1
    BY <1>2 DEF Deliver, Chained
  <2> HIDE DEF r
  <2>3. chain'[Lane[u]] = Append(chain[Lane[u]], r)
    BY <2>2, ConstantsAssumption DEF TypeOK
  <2>4. \A l \in Lanes : l # Lane[u] => chain'[l] = chain[l]
    BY <2>2 DEF TypeOK
  <2>5. Lengthened(Lane[u])
    BY <2>1, <2>2, <2>3 DEF Lengthened
  <2> QED BY <2>4, <2>5, SameShortened
<1>3. ASSUME NEW l \in Lanes, Reserve(l) \/ ReserveFails(l) PROVE \A m \in Lanes : Shortened(m)
  BY <1>3, TailShortens DEF Reserve, ReserveFails
<1>4. ASSUME ForgetMemory PROVE \A l \in Lanes : Shortened(l)
  <2>1. \A l \in Lanes : Len(chain'[l]) = 0
    BY <1>4 DEF ForgetMemory
  <2> QED BY <1>0, <2>1 DEF Shortened
<1>5. \/ chain' = chain
      \/ \E u \in Updates : Deliver(u)
      \/ \E l \in Lanes : Reserve(l) \/ ReserveFails(l)
      \/ ForgetMemory
  BY DEF Next, vars, memory, TaskStep, PassStep, DrainStep, RetryDue,
    Kick, Pick, PickNone, DrainRejects, Abandon, Claim, ClaimUncertain, Dispatch,
    ReadFails, BusinessThrows, MarkProcessed, MarkUncertain, PassWrite, PassFails,
    PassDelete, Start, Crash, Stop, Exit, Pause, Resume
<1>6. clock' = clock \/ \E u \in Updates : Deliver(u)
  BY DEF Next, vars, memory, TaskStep, PassStep, DrainStep, RetryDue, Reserve, ReserveFails,
    Kick, Pick, PickNone, DrainRejects, Abandon, Claim, ClaimUncertain, Dispatch,
    ReadFails, BusinessThrows, MarkProcessed, MarkUncertain, PassWrite, PassFails,
    PassDelete, Start, Crash, Stop, Exit, Pause, Resume
<1>7. clock' \in {clock, clock + 1}
  BY <1>6 DEF Deliver
<1> QED BY <1>1, <1>2, <1>3, <1>4, <1>5, <1>7

(* Where no row is inserted, rows and waiting calls keep their order. *)
LEMMA OrderKept ==
  ASSUME TypeOK, TypeOK', ArrivalOrder, WaitingOrder, PlacesKept, [Next]_vars
  PROVE  (ArrivalOrder /\ WaitingOrder)'
<1>0. \A v \in Updates : rows[v].received \in Nat /\ rows[v].seq \in Nat
  BY DEF TypeOK, Row
<1>1. ArrivalOrder'
  BY DEF ArrivalOrder, PlacesKept
<1>2. clock \in Nat /\ clock' \in {clock, clock + 1}
  BY ChainMove DEF TypeOK
<1>3. ASSUME NEW u \in Updates, rows'[u].status # "ABSENT"
      PROVE  rows'[u].received <= clock' /\ rows'[u].received <= clock
             /\ rows'[u].received = rows[u].received /\ rows[u].status # "ABSENT"
  BY <1>0, <1>2, <1>3 DEF PlacesKept, WaitingOrder
<1>4. ASSUME NEW l \in Lanes, NEW i \in 1..Len(chain'[l])
      PROVE  /\ Lane[chain'[l][i].update] = l /\ chain'[l][i].at <= clock'
             /\ \A j \in 1..Len(chain'[l]) : j < i => chain'[l][j].at < chain'[l][i].at
             /\ \A u \in Updates : Lane[u] = l /\ rows'[u].status # "ABSENT"
                                   => rows'[u].received < chain'[l][i].at
  <2>0. /\ chain[l] \in Seq(Receipt) /\ Len(chain[l]) \in Nat
        /\ chain'[l] \in Seq(Receipt) /\ Len(chain'[l]) \in Nat
    BY DEF TypeOK
  <2>1. ASSUME NEW n \in 1..Len(chain[l])
        PROVE  /\ Lane[chain[l][n].update] = l /\ chain[l][n].at <= clock
               /\ chain[l][n].at \in Nat
               /\ \A m \in 1..Len(chain[l]) : m < n => chain[l][m].at < chain[l][n].at
               /\ \A u \in Updates : Lane[u] = l /\ rows[u].status # "ABSENT"
                                     => rows[u].received < chain[l][n].at
    <3>1. chain[l][n] \in Receipt
      BY <2>0
    <3> QED BY <3>1 DEF WaitingOrder, Receipt
  <2>2. CASE Shortened(l)
    <3>1. PICK d \in Nat : /\ Len(chain[l]) >= Len(chain'[l]) + d
                           /\ \A k \in 1..Len(chain'[l]) : chain'[l][k] = chain[l][k + d]
      BY <2>2 DEF Shortened
    <3>2. \A k \in 1..Len(chain'[l]) : k + d \in 1..Len(chain[l])
      BY <2>0, <3>1
    <3>3. i + d \in 1..Len(chain[l]) /\ chain'[l][i] = chain[l][i + d]
      BY <3>1, <3>2
    <3>4. Lane[chain'[l][i].update] = l /\ chain'[l][i].at <= clock'
      BY <1>2, <2>1, <3>3
    <3>5. ASSUME NEW j \in 1..Len(chain'[l]), j < i PROVE chain'[l][j].at < chain'[l][i].at
      <4>1. j + d \in 1..Len(chain[l]) /\ chain'[l][j] = chain[l][j + d] /\ j + d < i + d
        BY <2>0, <3>1, <3>2, <3>5
      <4> QED BY <2>1, <3>3, <4>1
    <3>6. \A u \in Updates : Lane[u] = l /\ rows'[u].status # "ABSENT"
                              => rows'[u].received < chain'[l][i].at
      BY <1>3, <2>1, <3>3
    <3> QED BY <3>4, <3>5, <3>6
  <2>3. CASE Lengthened(l)
    <3>1. PICK r \in Receipt : /\ chain'[l] = Append(chain[l], r)
                               /\ Lane[r.update] = l /\ r.at = clock + 1 /\ clock' = clock + 1
      BY <2>3 DEF Lengthened
    <3>2. Len(chain'[l]) = Len(chain[l]) + 1
      BY <2>0, <3>1
    <3>3. \A k \in 1..Len(chain[l]) : chain'[l][k] = chain[l][k]
      BY <2>0, <3>1
    <3>4. chain'[l][Len(chain[l]) + 1] = r
      BY <2>0, <3>1
    <3>5. CASE i \in 1..Len(chain[l])
      <4>1. \A j \in 1..Len(chain'[l]) : j < i => j \in 1..Len(chain[l])
        BY <2>0, <3>5
      <4> QED BY <1>2, <1>3, <2>1, <3>1, <3>3, <3>5, <4>1
    <3>6. CASE i = Len(chain[l]) + 1
      <4>1. chain'[l][i] = r
        BY <3>4, <3>6
      <4>2. \A j \in 1..Len(chain'[l]) : j < i => j \in 1..Len(chain[l])
        BY <2>0, <3>6
      <4>3. \A j \in 1..Len(chain[l]) : chain[l][j].at < clock + 1
        BY <1>2, <2>1
      <4>4. \A u \in Updates : rows'[u].status # "ABSENT" => rows'[u].received < clock + 1
        <5>1. \A u \in Updates : rows'[u].status # "ABSENT" => rows[u].received \in Nat
          BY <1>0
        <5> QED BY <1>2, <1>3, <5>1
      <4>5. r.at <= clock'
        BY <1>2, <3>1
      <4> QED BY <3>1, <3>3, <4>1, <4>2, <4>3, <4>4, <4>5
    <3> QED BY <2>0, <3>2, <3>5, <3>6
  <2> QED BY <2>2, <2>3, ChainMove
<1> QED BY <1>1, <1>3, <1>4 DEF WaitingOrder

(* A reservation that inserts takes the oldest call of the lane, so its    *)
(* row comes after every row of the lane and before every call behind it.  *)
LEMMA OrderReserved ==
  ASSUME TypeOK, TypeOK', Numbered, ArrivalOrder, WaitingOrder, NEW l \in Lanes, Reserve(l), rows' # rows
  PROVE  (ArrivalOrder /\ WaitingOrder)'
<1> DEFINE r == Head(chain[l])
           w == r.update
<1>1. /\ w \in Updates /\ r.at \in Nat
      /\ rows[w].status = "ABSENT" /\ rows'[w].status # "ABSENT"
      /\ rows'[w].seq = lastSeq + 1 /\ rows'[w].received = r.at
      /\ \A v \in Updates : v # w => rows'[v] = rows[v]
  BY ReserveForms DEF Enters
<1>2. /\ chain[l] \in Seq(Receipt) /\ Len(chain[l]) \in Nat \ {0} /\ r = chain[l][1]
      /\ clock' = clock /\ clock \in Nat /\ lastSeq \in Nat
  BY HeadTailProperties DEF Reserve, TypeOK
<1>3. \A v \in Updates : rows[v].seq \in Nat /\ rows[v].received \in Nat
  BY DEF TypeOK, Row
<1>4. /\ Lane[w] = l /\ r.at <= clock
      /\ \A u \in Updates : Lane[u] = l /\ rows[u].status # "ABSENT" => rows[u].received < r.at
  BY <1>2 DEF WaitingOrder
<1>5. \A v \in Updates : rows[v].status # "ABSENT" => rows[v].seq <= lastSeq
  BY DEF Numbered
<1> HIDE DEF r, w
<1>6. ArrivalOrder'
  <2> SUFFICES ASSUME NEW u \in Updates, NEW v \in Updates, Lane[u] = Lane[v],
                      rows'[u].status # "ABSENT", rows'[v].status # "ABSENT"
               PROVE  rows'[u].seq < rows'[v].seq <=> rows'[u].received < rows'[v].received
    BY DEF ArrivalOrder
  <2>1. CASE u # w /\ v # w
    BY <1>1, <2>1 DEF ArrivalOrder
  <2>2. CASE u = w /\ v = w
    BY <1>1, <1>2, <2>2
  <2>3. CASE u = w /\ v # w
    BY <1>1, <1>2, <1>3, <1>4, <1>5, <2>3
  <2>4. CASE u # w /\ v = w
    BY <1>1, <1>2, <1>3, <1>4, <1>5, <2>4
  <2> QED BY <2>1, <2>2, <2>3, <2>4
<1>7. \A u \in Updates : rows'[u].status # "ABSENT" => rows'[u].received <= clock'
  BY <1>1, <1>2, <1>4 DEF WaitingOrder
<1>8. ASSUME NEW m \in Lanes, NEW i \in 1..Len(chain'[m])
      PROVE  /\ Lane[chain'[m][i].update] = m /\ chain'[m][i].at <= clock'
             /\ \A j \in 1..Len(chain'[m]) : j < i => chain'[m][j].at < chain'[m][i].at
             /\ \A u \in Updates : Lane[u] = m /\ rows'[u].status # "ABSENT"
                                   => rows'[u].received < chain'[m][i].at
  <2>1. /\ Len(chain'[l]) = Len(chain[l]) - 1
        /\ \A k \in 1..Len(chain'[l]) : chain'[l][k] = chain[l][k + 1]
        /\ \A n \in Lanes : n # l => chain'[n] = chain[n]
    BY TailShortens DEF Reserve
  <2>2. CASE m # l
    <3>1. chain'[m] = chain[m]
      BY <2>1, <2>2
    <3>2. \A u \in Updates : Lane[u] = m => rows'[u] = rows[u]
      BY <1>1, <1>4, <2>2
    <3>3. /\ Lane[chain[m][i].update] = m /\ chain[m][i].at <= clock
          /\ \A j \in 1..Len(chain[m]) : j < i => chain[m][j].at < chain[m][i].at
          /\ \A u \in Updates : Lane[u] = m /\ rows[u].status # "ABSENT"
                                => rows[u].received < chain[m][i].at
      BY <3>1 DEF WaitingOrder
    <3> QED BY <1>2, <3>1, <3>2, <3>3
  <2>3. CASE m = l
    <3>1. i + 1 \in 1..Len(chain[l]) /\ 1 \in 1..Len(chain[l]) /\ 1 < i + 1
      BY <1>2, <2>1, <2>3
    <3>2. /\ Lane[chain[l][i + 1].update] = l /\ chain[l][i + 1].at <= clock
          /\ \A j \in 1..Len(chain[l]) : j < i + 1 => chain[l][j].at < chain[l][i + 1].at
          /\ \A u \in Updates : Lane[u] = l /\ rows[u].status # "ABSENT"
                                => rows[u].received < chain[l][i + 1].at
      BY <3>1 DEF WaitingOrder
    <3>3. chain'[l][i] = chain[l][i + 1]
      BY <2>1, <2>3
    <3>4. ASSUME NEW j \in 1..Len(chain'[l]), j < i PROVE chain'[l][j].at < chain'[l][i].at
      <4>1. j + 1 \in 1..Len(chain[l]) /\ j + 1 < i + 1 /\ chain'[l][j] = chain[l][j + 1]
        BY <1>2, <2>1, <2>3, <3>4
      <4> QED BY <3>2, <3>3, <4>1
    <3>5. r.at < chain[l][i + 1].at
      BY <1>2, <3>1, <3>2
    <3>6. \A u \in Updates : Lane[u] = l /\ rows'[u].status # "ABSENT"
                              => rows'[u].received < chain'[l][i].at
      BY <1>1, <3>2, <3>3, <3>5
    <3> QED BY <1>2, <2>3, <3>2, <3>3, <3>4, <3>6
  <2> QED BY <2>2, <2>3
<1> QED BY <1>6, <1>7, <1>8 DEF WaitingOrder

-----------------------------------------------------------------------------
(* The second inductive invariant, and what follows from it.               *)

(* Every step keeps the second invariant, given the first. *)
LEMMA RowStep ==
  ASSUME SafetyInv, SafetyInv', RowInv, [Next]_vars
  PROVE  RowInv'
<1> USE DEF SafetyInv, RowInv
<1>1. (ClaimBudget /\ ClaimsLeft /\ ContactScrubbed)'
  BY ClaimsStep
<1>2. WillScrub'
  BY MemoryMove, WillScrubStep
<1>3. (ArrivalOrder /\ WaitingOrder)'
  <2>1. CASE RowForms
    BY <2>1, FormsKeepPlaces, OrderKept
  <2>2. CASE rows' = rows
    <3>1. PlacesKept
      BY <2>2 DEF PlacesKept
    <3> QED BY <3>1, OrderKept
  <2>3. CASE rows' # rows /\ \E l \in Lanes : Reserve(l)
    BY <2>3, OrderReserved
  <2> QED BY <2>1, <2>2, <2>3, FormsStep
<1> QED BY <1>1, <1>2, <1>3

(* An empty table is in order. *)
LEMMA InitRows ==
  ASSUME Init
  PROVE  RowInv
<1>1. Contact \subseteq Updates
  BY ConstantsAssumption
<1>2. \A u \in Updates : rows[u].status = "ABSENT" /\ rows[u].attempts = 0 /\ held[u] = None
  BY DEF Init, NoRow
<1>3. \A a \in Agents : sweep[a].step = "off"
  BY DEF Init, NoPass
<1>4. \A l \in Lanes : Len(chain[l]) = 0
  BY DEF Init
<1>5. ArrivalOrder /\ ClaimBudget /\ ClaimsLeft /\ ContactScrubbed /\ WillScrub
  BY <1>1, <1>2, <1>3
  DEF ArrivalOrder, ClaimBudget, ClaimsLeft, ContactScrubbed, WillScrub, ClaimLimit, Settled
<1>6. WaitingOrder
  BY <1>2, <1>4 DEF WaitingOrder
<1> QED BY <1>5, <1>6 DEF RowInv

(* Every row keeps its place, its claims left and its phone number in step *)
(* with what memory still means to do to it.                               *)
THEOREM RowInvariant == Spec => []RowInv
<1>1. Init => RowInv
  BY InitRows
<1>2. SafetyInv /\ SafetyInv' /\ RowInv /\ [Next]_vars => RowInv'
  BY RowStep
<1> QED BY <1>1, <1>2, Safety, PTL DEF Spec

(* A user's rows are numbered in the order MAX delivered them, even when   *)
(* an earlier insert is slow or fails.                                     *)
THEOREM KeepsArrivalOrder == Spec => []ArrivalOrder
<1>1. RowInv => ArrivalOrder
  BY DEF RowInv
<1> QED BY <1>1, RowInvariant, PTL

(* A row is claimed at most three times.                                   *)
THEOREM ClaimsBounded == Spec => []ClaimBudget
<1>1. RowInv => ClaimBudget
  BY DEF RowInv
<1> QED BY <1>1, RowInvariant, PTL

(* No settled row still carries a phone number.                            *)
THEOREM ContactsScrubbed == Spec => []ContactScrubbed
<1>1. RowInv => ContactScrubbed
  BY DEF RowInv
<1> QED BY <1>1, RowInvariant, PTL

-----------------------------------------------------------------------------
(* The inbox implements the mailbox.                                       *)

LEMMA AgedMove ==
  ASSUME [Next]_vars
  PROVE  aged' = aged \/ Restarted
<1>1. ASSUME Start PROVE Restarted
  BY <1>1 DEF Start, Restarted
<1>2. Start \/ aged' = aged
  BY DEF Next, vars, memory, budgets, TaskStep, PassStep, DrainStep, Deliver, RetryDue,
    Reserve, ReserveFails, Kick, Pick, PickNone, DrainRejects, Abandon, Claim, ClaimUncertain,
    Dispatch, ReadFails, BusinessThrows, MarkProcessed, MarkUncertain, PassWrite, PassFails,
    PassDelete, Crash, Stop, Exit, Pause, Resume
<1> QED BY <1>1, <1>2

(* A claimed row is the first of its line. *)
LEMMA ClaimedIsFirst ==
  ASSUME SafetyInv, NEW u \in Updates, rows[u].status = "PROCESSING"
  PROVE  Mail!First(u)
<1>1. \A v \in Updates : rows[v].seq \in Nat
  BY DEF SafetyInv, TypeOK, Row
<1>2. \A v \in Updates : MailboxPlace[v] = IF Open(v) THEN rows[v].seq ELSE 0
  BY DEF MailboxPlace
<1>3. u \in Mail!Waiting
  BY <1>2 DEF SafetyInv, Numbered, Open, Mail!Waiting
<1>4. ASSUME NEW v \in Mail!Waiting, Lane[v] = Lane[u]
      PROVE  MailboxPlace[u] <= MailboxPlace[v]
  <2>1. v \in Updates /\ Open(v)
    BY <1>2, <1>4 DEF Mail!Waiting
  <2>2. ~(rows[v].seq < rows[u].seq)
    BY <1>4, <2>1 DEF SafetyInv, ClaimedFirst, Earlier
  <2> QED BY <1>1, <1>2, <2>1, <2>2 DEF Open
<1> QED BY <1>3, <1>4 DEF Mail!First

LEMMA MailStep ==
  ASSUME SafetyInv, SafetyInv', [Next]_vars
  PROVE  [Mail!Next]_(Mail!vars)
<1>0. RowMoves
  BY RowMove DEF SafetyInv
<1>1. \A v \in Updates : MailboxPlace[v] = IF Open(v) THEN rows[v].seq ELSE 0
  BY DEF MailboxPlace
<1>2. \A v \in Updates : MailboxPlace'[v] = IF Open(v)' THEN rows'[v].seq ELSE 0
  BY DEF MailboxPlace
<1>3. ASSUME \A v \in Updates : rows'[v].seq = rows[v].seq /\ (Open(v)' <=> Open(v))
      PROVE  MailboxPlace' = MailboxPlace
  BY <1>3 DEF MailboxPlace
<1>4. ASSUME aged' = aged, \A v \in Updates : rows'[v].status = "ABSENT" <=> rows[v].status = "ABSENT"
      PROVE  MailboxAccepted' = MailboxAccepted
  BY <1>4 DEF MailboxAccepted
<1>5. ASSUME UNCHANGED starts, MailboxAccepted' = MailboxAccepted,
             \A v \in Updates : MailboxPlace'[v] # MailboxPlace[v] =>
                                 rows[v].status = "PROCESSING" /\ MailboxPlace'[v] = 0
      PROVE  Mail!Leave
  <2>1. \A v \in Updates : MailboxPlace'[v] # MailboxPlace[v] => Mail!First(v) /\ MailboxPlace'[v] = 0
    BY <1>5, ClaimedIsFirst
  <2>2. MailboxPlace' = [v \in Updates |-> MailboxPlace'[v]]
    BY DEF MailboxPlace
  <2> QED BY <1>5, <2>1, <2>2 DEF Mail!Leave
<1>6. ASSUME NEW u \in Updates, Owned(u, task[u].lock), task[u].at = "read",
             starts' = [starts EXCEPT ![u] = starts[u] + 1], UNCHANGED <<rows, aged>>
      PROVE  Mail!Give(u)
  <2>1. Mail!First(u)
    BY <1>6, ClaimedIsFirst DEF Owned
  <2>2. starts[u] = 0
    BY <1>6 DEF SafetyInv, RetryableFresh, Fresh, Owned
  <2>3. starts' = [starts EXCEPT ![u] = 1]
    BY <1>6, <2>2
  <2>4. MailboxPlace' = MailboxPlace /\ MailboxAccepted' = MailboxAccepted
    BY <1>6, <1>3, <1>4 DEF Open
  <2> QED BY <2>1, <2>2, <2>3, <2>4 DEF Mail!Give
<1>7. ASSUME UNCHANGED starts, rows' = rows, aged' = aged PROVE UNCHANGED Mail!vars
  BY <1>3, <1>4, <1>7 DEF Open, Mail!vars
<1>8. ASSUME UNCHANGED starts, aged' = aged, NEW u \in Updates, Inserted(u) PROVE Mail!Accept(u)
  <2>1. PICK r \in Row : rows' = [rows EXCEPT ![u] = r] /\ r.status = "PENDING" /\ r.seq = lastSeq + 1
    BY <1>8 DEF Inserted
  <2>2. \A v \in Updates : rows'[v] = IF v = u THEN r ELSE rows[v]
    BY <2>1 DEF SafetyInv, TypeOK
  <2>3. rows[u].status = "ABSENT" /\ lastSeq \in Nat
    BY <1>8 DEF Inserted, SafetyInv, TypeOK
  <2>4. u \notin aged
    BY <1>8, <2>1, <2>2 DEF SafetyInv, AgedGone
  <2>5. u \notin MailboxAccepted /\ MailboxAccepted' = MailboxAccepted \cup {u}
    BY <1>8, <2>1, <2>2, <2>3, <2>4 DEF MailboxAccepted
  <2>6. MailboxPlace'[u] = lastSeq + 1
    BY <1>2, <2>1, <2>2 DEF Open
  <2>7. \A v \in Updates : v # u => MailboxPlace'[v] = MailboxPlace[v]
    BY <1>1, <1>2, <2>2 DEF Open
  <2>8. \A v \in Updates : MailboxPlace[v] \in Nat /\ MailboxPlace[v] <= lastSeq
    <3>1. \A v \in Updates : Open(v) => rows[v].seq \in Nat /\ rows[v].seq <= lastSeq
      BY DEF SafetyInv, Numbered, Open, TypeOK, Row
    <3> QED BY <1>1, <2>3, <3>1
  <2>9. MailboxPlace' = [MailboxPlace EXCEPT ![u] = MailboxPlace'[u]]
    BY <2>7 DEF MailboxPlace
  <2>10. MailboxPlace'[u] \in Nat /\ MailboxPlace'[u] > 0
    BY <2>3, <2>6
  <2>11. \A v \in Updates : Lane[v] = Lane[u] => MailboxPlace[v] < MailboxPlace'[u]
    BY <2>3, <2>6, <2>8
  <2> QED BY <1>8, <2>5, <2>9, <2>10, <2>11 DEF Mail!Accept
<1>9. ASSUME UNCHANGED starts, aged' = aged, NEW u \in Updates, NEW k \in Locks,
             Eligible(u), rows' = Claimed(u, k)
      PROVE  UNCHANGED Mail!vars
  <2>1. \A v \in Updates : /\ rows'[v].seq = rows[v].seq
                           /\ rows'[v].status = IF v = u THEN "PROCESSING" ELSE rows[v].status
    BY <1>9, ClaimedFields DEF SafetyInv
  <2>2. rows[u].status = "PENDING"
    BY <1>9 DEF Eligible
  <2>3. MailboxPlace' = MailboxPlace
    BY <1>3, <2>1, <2>2 DEF Open
  <2>4. MailboxAccepted' = MailboxAccepted
    BY <1>4, <1>9, <2>1, <2>2
  <2> QED BY <1>9, <2>3, <2>4 DEF Mail!vars
<1>10. ASSUME UNCHANGED starts, aged' = aged, NEW u \in Updates, Released(u) PROVE Mail!Leave
  <2>1. PICK r \in Row : /\ rows' = [rows EXCEPT ![u] = r]
                         /\ r.status \in {"PENDING", "PROCESSED", "FAILED"} /\ r.seq = rows[u].seq
    BY <1>10 DEF Released
  <2>2. \A v \in Updates : rows'[v] = IF v = u THEN r ELSE rows[v]
    BY <2>1 DEF SafetyInv, TypeOK
  <2>3. rows[u].status = "PROCESSING"
    BY <1>10 DEF Released
  <2>4. MailboxAccepted' = MailboxAccepted
    BY <1>4, <1>10, <2>1, <2>2, <2>3
  <2>5. \A v \in Updates : MailboxPlace'[v] # MailboxPlace[v] => v = u /\ MailboxPlace'[v] = 0
    BY <1>1, <1>2, <2>1, <2>2, <2>3 DEF Open
  <2> QED BY <1>5, <1>10, <2>3, <2>4, <2>5
<1>11. ASSUME UNCHANGED starts, aged' = aged, NEW u \in Updates, RetryDue(u) PROVE UNCHANGED Mail!vars
  <2>1. \A v \in Updates : rows'[v].seq = rows[v].seq /\ rows'[v].status = rows[v].status
    <3>1. rows \in [Updates -> Row]
      BY DEF SafetyInv, TypeOK
    <3>2. rows' = [rows EXCEPT ![u] = [rows[u] EXCEPT !.due = TRUE]]
      BY <1>11 DEF RetryDue
    <3>3. LET r == [rows[u] EXCEPT !.due = TRUE] IN r.seq = rows[u].seq /\ r.status = rows[u].status
      BY <3>1 DEF Row
    <3> QED BY <3>1, <3>2, <3>3
  <2> QED BY <1>3, <1>4, <1>11, <2>1 DEF Open, Mail!vars
<1>12. ASSUME UNCHANGED starts, Restarted PROVE Mail!Leave
  <2>1. PICK old \in SUBSET {u \in Updates : Recovered(rows[u], u).status \in Settled} :
          /\ aged' = aged \cup old
          /\ rows' = [u \in Updates |-> IF u \in old THEN NoRow ELSE Recovered(rows[u], u)]
    BY <1>12 DEF Restarted
  <2>2. \A v \in Updates : rows[v] \in Row
    BY DEF SafetyInv, TypeOK
  <2>3. \A v \in Updates : v \in old =>
          rows'[v].status = "ABSENT" /\ rows[v].status \in {"PROCESSING", "PROCESSED", "FAILED"}
    BY <2>1, <2>2, RecoveredFields DEF NoRow, Settled
  <2>4. \A v \in Updates : v \notin old =>
          /\ rows'[v].seq = rows[v].seq
          /\ rows'[v].status = IF rows[v].status = "PROCESSING" THEN "FAILED" ELSE rows[v].status
    BY <2>1, <2>2, RecoveredFields
  <2>5. MailboxAccepted' = MailboxAccepted
    BY <2>1, <2>3, <2>4 DEF MailboxAccepted
  <2>6. ASSUME NEW v \in Updates, MailboxPlace'[v] # MailboxPlace[v]
        PROVE  rows[v].status = "PROCESSING" /\ MailboxPlace'[v] = 0
    <3>1. CASE v \in old
      BY <1>1, <1>2, <2>3, <2>6, <3>1 DEF Open
    <3>2. CASE v \notin old
      BY <1>1, <1>2, <2>4, <2>6, <3>2 DEF Open
    <3> QED BY <3>1, <3>2
  <2> QED BY <1>5, <1>12, <2>5, <2>6
<1>13. CASE Restarted /\ UNCHANGED starts
  BY <1>12, <1>13 DEF Mail!Next
<1>14. CASE ~Restarted /\ UNCHANGED starts
  <2>1. aged' = aged
    BY <1>14, AgedMove
  <2> QED BY <1>0, <1>7, <1>8, <1>9, <1>10, <1>11, <1>14, <2>1 DEF RowMoves, Mail!Next
<1>15. CASE ~(UNCHANGED starts)
  BY <1>6, <1>15, StartsMove DEF Mail!Next
<1> QED BY <1>13, <1>14, <1>15

(* Crashes, retries and settlement passes included, the inbox behaves as   *)
(* one waiting line per user whose head is given out at most once.         *)
THEOREM InboxImplementsMailbox == Spec => ImplementsMailbox
<1>1. Init => Mail!Init
  <2>1. ASSUME Init PROVE MailboxAccepted = {}
    BY <2>1 DEF Init, NoRow, MailboxAccepted
  <2>2. ASSUME Init PROVE MailboxPlace = [u \in Updates |-> 0]
    BY <2>2 DEF Init, NoRow, MailboxPlace, Open
  <2>3. ASSUME Init PROVE starts = [u \in Updates |-> 0]
    BY <2>3 DEF Init
  <2> QED BY <2>1, <2>2, <2>3 DEF Mail!Init
<1>2. SafetyInv /\ SafetyInv' /\ [Next]_vars => [Mail!Next]_(Mail!vars)
  BY MailStep
<1> QED BY <1>1, <1>2, Safety, PTL DEF Spec, ImplementsMailbox, Mail!Spec

=============================================================================
