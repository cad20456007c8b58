---------------------------- MODULE StaffProofs ----------------------------
(***************************************************************************)
(* Proofs about Staff and Workspace, for every number of employees,        *)
(* incidents, cards and desks an incident may start at.                    *)
(***************************************************************************)
EXTENDS Workspace, SequenceTheorems, TLAPS

(* Cards, and what a running handler may have read. *)
CardSteps == {"choose", "text", "preview", "draft", "early", "pending"}
CardRecords ==
  [by : People, inc : Incidents, kind : AllKinds, arg : Args \cup {NoArg},
   answer : 0..MaxAnswers, round : 0..MaxRounds, step : CardSteps,
   nav : BOOLEAN]
Opens == [op : {"open"}, kind : AllKinds, inc : Incidents, round : 0..MaxRounds,
          answer : 0..MaxAnswers, private : BOOLEAN]
Cycles == (0..MaxRounds) \X (0..MaxAnswers)
Takes == [op : {"take"}, inc : Incidents, desk : AllDesks, term : 0..MaxTerms, cycle : Cycles]
Applies == [op : {"apply", "finish"}, card : Nat, s : Sessions, round : 0..MaxRounds]

ScreenTypes ==
  screen \in [People -> {NoScreen} \cup [tok : 1..MaxCards, inc : Incidents, term : 0..MaxTerms]]

Types ==
  /\ TypeOK /\ ScreenTypes
  /\ cards \in Seq(CardRecords) /\ Len(cards) <= MaxCards
  /\ frame \in [People -> {Idle} \cup Opens \cup Takes \cup Applies]

(* Card n of cs was shown to u with what the session s holds. *)
ShownIn(cs, u, n, s) ==
  /\ n \in DOMAIN cs
  /\ cs[n].by = u /\ cs[n].inc = s.inc /\ cs[n].kind = s.kind /\ cs[n].arg = s.arg
  /\ cs[n].answer = s.answer /\ cs[n].round = s.round
Shows(u, n, s) == ShownIn(cards, u, n, s)

(* A session is of its chat, and its card shows what it holds. *)
Fits(u, d, s) == Desk(s.kind) = d /\ (s.tok # 0 => Shows(u, s.tok, s))

(* It is no younger than the incident, and the reservation it was opened   *)
(* under is one at its desk.                                               *)
Dated(s) ==
  /\ s.term <= hold[s.inc].term /\ s.round <= round[s.inc] /\ s.answer <= answer[s.inc]
  /\ hold[s.inc].live /\ hold[s.inc].term = s.term => desk[s.inc] = Desk(s.kind)

SessionInv ==
  \A u \in People, d \in AllDesks :
    sess[u][d] # NoSession => Fits(u, d, sess[u][d]) /\ Dated(sess[u][d])

OpenInv ==
  \A u \in People : frame[u].op = "open" =>
    /\ frame[u].round <= round[frame[u].inc] /\ frame[u].answer <= answer[frame[u].inc]
    /\ FreeFor(u, frame[u].kind, frame[u].inc)

ApplyInv ==
  \A u \in People : frame[u].op \in {"apply", "finish"} =>
    /\ Shows(u, frame[u].card, frame[u].s)
    /\ frame[u].s.kind = "answer" => frame[u].round = frame[u].s.round

IInv == Types /\ SessionInv /\ OpenInv /\ ApplyInv

(* The steps of the chats, whichever dialogue they belong to. *)
ChatNext ==
  \/ \E i \in Incidents : HoldExpires(i) \/ Sweep(i)
  \/ \E u \in People, i \in Incidents : Take(u, i) \/ Release(u, i)
  \/ \E u \in People : \E k \in Kinds[u], i \in Incidents, p \in BOOLEAN : Read(u, k, i, p)
  \/ \E u \in People : Handler(u)
  \/ \E u \in People, d \in AllDesks : Discard(u, d) \/ SessionExpires(u, d) \/ Cancel(u, d)
  \/ \E u \in People, d \in AllDesks, x \in Args : Fill(u, d, x)
  \/ \E u \in People : \E n \in DOMAIN cards : Back(u, n)
  \/ \E u \in People : \E n \in DOMAIN cards, p \in BOOLEAN : Edit(u, n, p) \/ Confirm(u, n, p)
  \/ \E u \in People : \E n \in DOMAIN cards, x \in Args : Pick(u, n, x) \/ ChooseReason(u, n, x)

(* They are all the steps there are. *)
LEMMA NextInChats == Next => ChatNext
BY DEF Next, OnIncident, InChat, OnCard, Say, ChatNext

(* A dialogue belongs to one chat. *)
LEMMA KindChat ==
  ASSUME NEW k \in AllKinds
  PROVE  Desk(k) \in AllDesks
BY DEF AllKinds, AllDesks, Desk

(* What an open session holds. *)
LEMMA SessionType ==
  ASSUME Types, NEW u \in People, NEW d \in AllDesks, sess[u][d] # NoSession
  PROVE  /\ sess[u][d] \in Sessions
         /\ sess[u][d].inc \in Incidents /\ sess[u][d].kind \in AllKinds
         /\ sess[u][d].term \in 0..MaxTerms /\ sess[u][d].round \in 0..MaxRounds
         /\ sess[u][d].answer \in 0..MaxAnswers /\ sess[u][d].tok \in 0..MaxCards
         /\ sess[u][d].arg \in Args \cup {NoArg}
BY DEF Types, TypeOK, Sessions

(* What a handler under way holds. *)
LEMMA FrameType ==
  ASSUME Types, NEW u \in People
  PROVE  /\ frame[u].op = "open" => frame[u] \in Opens
         /\ frame[u].op \in {"apply", "finish"} => frame[u] \in Applies
         /\ frame[u].op = "take" => frame[u] \in Takes
BY DEF Types, Idle, Opens, Takes, Applies

(* The bounds are numbers. *)
LEMMA Bounds ==
  MaxCards \in Nat /\ MaxTerms \in Nat /\ MaxRounds \in Nat /\ MaxAnswers \in Nat
BY StaffBounds

(* A reservation is one. *)
HoldRecords == [by : People \cup {NoOne}, term : 0..MaxTerms, live : BOOLEAN]

(* Granting and freeing give reservations, and a new one a new number. *)
LEMMA GrantType ==
  ASSUME Types, NEW u \in People, NEW i \in Incidents, MayHold(u, i)
  PROVE  /\ Grant(u, i) \in HoldRecords
         /\ Grant(u, i).live /\ Grant(u, i).by = u
         /\ Grant(u, i) = hold[i] \/ Grant(u, i).term = hold[i].term + 1
         /\ Grant(u, i).term \in 0..MaxTerms /\ hold[i].term <= Grant(u, i).term
<1>1. hold[i] \in HoldRecords /\ hold[i].term \in 0..MaxTerms
  BY DEF Types, TypeOK, HoldRecords
<1>2. CASE Holds(u, i)
  BY <1>1, <1>2 DEF Grant, Holds, HoldRecords
<1>3. CASE ~Holds(u, i)
  <2>1. hold[i].term + 1 \in 0..MaxTerms
    BY <1>1, <1>3, Bounds DEF MayHold
  <2> QED BY <1>1, <1>3, <2>1 DEF Grant, HoldRecords
<1> QED BY <1>2, <1>3

(* Freeing keeps the number. *)
LEMMA FreedType ==
  ASSUME NEW h \in HoldRecords
  PROVE  Freed(h) \in HoldRecords /\ ~Freed(h).live /\ Freed(h).term = h.term
BY DEF Freed, HoldRecords

-----------------------------------------------------------------------------
(* How incidents and cards go on. *)

(* Numbers only grow, and a reservation that is still running has not      *)
(* changed, nor has the desk, unless it is a new one.                      *)
Progress(i) ==
  /\ round[i] <= round'[i] /\ answer[i] <= answer'[i] /\ hold[i].term <= hold'[i].term
  /\ hold'[i].live => \/ hold'[i] = hold[i] /\ desk'[i] = desk[i]
                      \/ hold[i].term < hold'[i].term

IncidentTypes ==
  /\ desk \in [Incidents -> AllDesks \cup {"done"}]
  /\ round \in [Incidents -> 0..MaxRounds]
  /\ answer \in [Incidents -> 0..MaxAnswers]
  /\ hold \in [Incidents -> HoldRecords]

(* Every step of the chats is a progress of every incident. *)
LEMMA ProgressStep ==
  ASSUME Types, ChatNext
  PROVE  IncidentTypes' /\ \A j \in Incidents : Progress(j)
<1> DEFINE Goal == IncidentTypes' /\ \A j \in Incidents : Progress(j)
<1>1. ASSUME NEW i \in Incidents, HoldExpires(i)
      PROVE  Goal
  <2>1. hold \in [Incidents -> HoldRecords] /\ \A j \in Incidents : hold[j].term \in Nat
    BY DEF Types, TypeOK, HoldRecords
  <2>2. /\ hold' \in [Incidents -> HoldRecords]
        /\ \A j \in Incidents : hold'[j].term = hold[j].term /\ (hold'[j].live => hold'[j] = hold[j])
    BY <1>1, <2>1 DEF HoldExpires, HoldRecords
  <2>3. UNCHANGED <<desk, round, answer>>
    BY <1>1 DEF HoldExpires
  <2> QED BY <2>1, <2>2, <2>3 DEF Types, TypeOK, IncidentTypes, Progress
<1>2. ASSUME NEW i \in Incidents, Sweep(i)
      PROVE  Goal
  BY <1>2, FreedType DEF Sweep, Types, TypeOK, IncidentTypes, Progress, HoldRecords
<1>3. ASSUME NEW u \in People, NEW i \in Incidents, Take(u, i)
      PROVE  Goal
  <2>1. MayHold(u, i) /\ i \in Incidents /\ hold' = [hold EXCEPT ![i] = Grant(u, i)]
        /\ UNCHANGED <<desk, round, answer>>
    BY <1>3 DEF Take, Opens
  <2>2. /\ Grant(u, i) \in HoldRecords /\ hold[i].term <= Grant(u, i).term
        /\ Grant(u, i) = hold[i] \/ hold[i].term < Grant(u, i).term
    BY <2>1, GrantType DEF Types, TypeOK
  <2> QED BY <2>1, <2>2 DEF Types, TypeOK, IncidentTypes, Progress, HoldRecords
<1>4. ASSUME NEW u \in People, NEW i \in Incidents, Release(u, i)
      PROVE  Goal
  BY <1>4, FreedType DEF Release, Types, TypeOK, IncidentTypes, Progress, HoldRecords
<1>5. ASSUME NEW u \in People, Open(u)
      PROVE  Goal
  <2>1. MayHold(u, frame[u].inc) /\ frame[u].inc \in Incidents /\ hold' = [hold EXCEPT ![frame[u].inc] = Grant(u, frame[u].inc)]
        /\ UNCHANGED <<desk, round, answer>>
    BY <1>5, FrameType DEF Open, Opens
  <2>2. /\ Grant(u, frame[u].inc) \in HoldRecords /\ hold[frame[u].inc].term <= Grant(u, frame[u].inc).term
        /\ Grant(u, frame[u].inc) = hold[frame[u].inc] \/ hold[frame[u].inc].term < Grant(u, frame[u].inc).term
    BY <2>1, GrantType DEF Types, TypeOK
  <2> QED BY <2>1, <2>2 DEF Types, TypeOK, IncidentTypes, Progress, HoldRecords
<1>6. ASSUME NEW u \in People, OpenPicker(u)
      PROVE  Goal
  <2>1. MayHold(u, frame[u].inc) /\ frame[u].inc \in Incidents /\ hold' = [hold EXCEPT ![frame[u].inc] = Grant(u, frame[u].inc)]
        /\ UNCHANGED <<desk, round, answer>>
    BY <1>6, FrameType DEF OpenPicker, Opens
  <2>2. /\ Grant(u, frame[u].inc) \in HoldRecords /\ hold[frame[u].inc].term <= Grant(u, frame[u].inc).term
        /\ Grant(u, frame[u].inc) = hold[frame[u].inc] \/ hold[frame[u].inc].term < Grant(u, frame[u].inc).term
    BY <2>1, GrantType DEF Types, TypeOK
  <2> QED BY <2>1, <2>2 DEF Types, TypeOK, IncidentTypes, Progress, HoldRecords
<1>7. ASSUME NEW u \in People, Apply(u)
      PROVE  Goal
  <2> DEFINE s == frame[u].s  j == s.inc
  <2>1. s \in Sessions /\ j \in Incidents /\ s.kind \in AllKinds
    BY <1>7, FrameType DEF Apply, Applies, Sessions
  <2>2. /\ desk' = [desk EXCEPT ![j] = After(s.kind)]
        /\ round' = [round EXCEPT ![j] = IF s.kind = "return" THEN @ + 1 ELSE @]
        /\ answer' = [answer EXCEPT ![j] = IF s.kind \in {"answer", "edit"} THEN @ + 1 ELSE @]
        /\ hold' = [hold EXCEPT ![j] = IF s.kind = "edit" THEN @ ELSE Freed(@)]
        /\ s.kind = "return" => round[j] < MaxRounds
        /\ s.kind \in {"answer", "edit"} => answer[j] < MaxAnswers
        /\ desk[j] = Desk(s.kind)
    BY <1>7 DEF Apply, Stands
  <2> HIDE DEF s, j
  <2>3. After(s.kind) \in AllDesks \cup {"done"} /\ (s.kind = "edit" => After(s.kind) = desk[j])
    BY <2>1, <2>2 DEF After, AllKinds, AllDesks, Desk
  <2>4. /\ round[j] \in 0..MaxRounds /\ answer[j] \in 0..MaxAnswers /\ hold[j] \in HoldRecords
        /\ IncidentTypes
    BY <2>1 DEF Types, TypeOK, HoldRecords, IncidentTypes
  <2>5. round' \in [Incidents -> 0..MaxRounds] /\ \A l \in Incidents : round[l] <= round'[l]
    BY <2>1, <2>2, <2>4, Bounds DEF IncidentTypes
  <2>6. answer' \in [Incidents -> 0..MaxAnswers] /\ \A l \in Incidents : answer[l] <= answer'[l]
    BY <2>1, <2>2, <2>4, Bounds DEF IncidentTypes
  <2>7. desk' \in [Incidents -> AllDesks \cup {"done"}]
        /\ \A l \in Incidents : l # j \/ s.kind = "edit" => desk'[l] = desk[l]
    BY <2>1, <2>2, <2>3, <2>4 DEF IncidentTypes
  <2>8. /\ hold' \in [Incidents -> HoldRecords]
        /\ \A l \in Incidents : IF l # j \/ s.kind = "edit" THEN hold'[l] = hold[l]
                                ELSE ~hold'[l].live /\ hold'[l].term = hold[l].term
    BY <2>1, <2>2, <2>4, FreedType DEF IncidentTypes
  <2>9. \A l \in Incidents : hold[l].term \in Nat
    BY <2>4 DEF IncidentTypes, HoldRecords
  <2> QED BY <2>5, <2>6, <2>7, <2>8, <2>9 DEF IncidentTypes, Progress
<1>8. ASSUME UNCHANGED incident
      PROVE  Goal
  <2>1. \A j \in Incidents : round[j] \in Nat /\ answer[j] \in Nat /\ hold[j].term \in Nat
    BY DEF Types, TypeOK
  <2> QED BY <1>8, <2>1 DEF incident, Types, TypeOK, IncidentTypes, Progress, HoldRecords
<1> QED
  BY <1>1, <1>2, <1>3, <1>4, <1>5, <1>6, <1>7, <1>8 DEF ChatNext, Handler, Read, Continue,
     Finish, Abandon, Discard, SessionExpires, Cancel, Fill, Back, Edit, Confirm, Pick,
     ChooseReason


(* Cards are only added; a card keeps what it shows. *)
SameCard(c, e) ==
  /\ e.by = c.by /\ e.inc = c.inc /\ e.kind = c.kind /\ e.arg = c.arg
  /\ e.answer = c.answer /\ e.round = c.round /\ e.step = c.step
CardsGrow ==
  /\ cards' \in Seq(CardRecords) /\ Len(cards') <= MaxCards
  /\ \A n \in DOMAIN cards : n \in DOMAIN cards' /\ SameCard(cards[n], cards'[n])

(* Unchanged cards. *)
LEMMA CardsSame ==
  ASSUME Types, UNCHANGED cards
  PROVE  CardsGrow
BY DEF Types, CardsGrow, SameCard

(* One card more, numbered as its session says. *)
LEMMA CardShown ==
  ASSUME Types, NEW u \in People, NEW s, NEW nav \in BOOLEAN, Show(u, s, nav),
         s.inc \in Incidents, s.kind \in AllKinds, s.arg \in Args \cup {NoArg},
         s.answer \in 0..MaxAnswers, s.round \in 0..MaxRounds,
         s.step \in CardSteps, Len(cards) < MaxCards
  PROVE  /\ CardsGrow /\ ShownIn(cards', u, Next1, s) /\ Next1 \in 1..MaxCards
         /\ Next1 \notin DOMAIN cards
<1> DEFINE c == [by |-> u, inc |-> s.inc, kind |-> s.kind, arg |-> s.arg,
                 answer |-> s.answer, round |-> s.round, step |-> s.step, nav |-> nav]
<1>1. c \in CardRecords
  BY DEF CardRecords, CardSteps
<1>2. cards' = Append(cards, c) /\ cards \in Seq(CardRecords) /\ Len(cards) \in Nat
  BY DEF Show, Types
<1> HIDE DEF c
<1>3. /\ cards' \in Seq(CardRecords) /\ Len(cards') = Next1 /\ cards'[Next1] = c
      /\ \A n \in DOMAIN cards : n \in DOMAIN cards' /\ cards'[n] = cards[n]
      /\ Next1 \in DOMAIN cards' /\ Next1 \notin DOMAIN cards
  BY <1>1, <1>2 DEF Next1
<1>4. Next1 \in 1..MaxCards
  BY <1>2, Bounds DEF Next1
<1>5. CardsGrow
  BY <1>3, <1>4, Bounds DEF CardsGrow, SameCard
<1>6. c.by = u /\ c.inc = s.inc /\ c.kind = s.kind /\ c.arg = s.arg /\ c.answer = s.answer /\ c.round = s.round
  BY DEF c
<1> QED BY <1>3, <1>4, <1>5, <1>6 DEF ShownIn

-----------------------------------------------------------------------------
(* The dialogues a step stores. *)

(* What the button that opens a dialogue stores. *)
LEMMA OpenedType ==
  ASSUME Types, NEW u \in People, Open(u)
  PROVE  /\ frame[u] \in Opens /\ Opened(frame[u], u) \in Sessions
         /\ Opened(frame[u], u).step \in CardSteps
         /\ Opened(frame[u], u).tok # 0 => Opened(frame[u], u).tok = Next1 /\ Len(cards) < MaxCards
<1> DEFINE f == frame[u]  s == Opened(f, u)
<1>1. f \in Opens /\ f.inc \in Incidents /\ f.kind \in AllKinds /\ f.round \in 0..MaxRounds
      /\ f.answer \in 0..MaxAnswers /\ f.private \in BOOLEAN /\ MayHold(u, f.inc)
      /\ (s.tok # 0 => Len(cards) < MaxCards)
  BY FrameType DEF Open, Opens
<1>2. Grant(u, f.inc).term \in 0..MaxTerms
  BY <1>1, GrantType
<1>3. Len(cards) \in Nat /\ Len(cards) <= MaxCards
  BY DEF Types
<1>4. s.tok \in 0..MaxCards /\ (s.tok # 0 => s.tok = Next1)
  BY <1>1, <1>3, Bounds DEF Opened, Next1
<1>5. /\ s = [kind |-> f.kind, inc |-> f.inc, term |-> Grant(u, f.inc).term, round |-> f.round,
              answer |-> f.answer, arg |-> NoArg, private |-> f.private,
              step |-> s.step, tok |-> s.tok]
      /\ s.step \in {"choose", "text", "preview"}
  BY DEF Opened
<1> HIDE DEF f, s
<1> QED BY <1>1, <1>2, <1>4, <1>5 DEF Sessions, CardSteps, f, s


(* What a step may put in the place of a dialogue: anything, when it is    *)
(* over or no confirmation; the same one to be typed anew, otherwise.      *)
Confirmation(s) == s.step = "preview" /\ s.kind \in Inputs \cup Buttons
MayReplace(u, old, s) ==
  \/ old = NoSession \/ Obsolete(u, old) \/ ~Confirmation(old)
  \/ s = [old EXCEPT !.step = "text", !.tok = 0]

Stored(u, d, s) ==
  /\ s \in Sessions /\ Desk(s.kind) = d
  /\ sess' = [sess EXCEPT ![u][d] = s]
  /\ s.tok # 0 => ShownIn(cards', u, s.tok, s)
  /\ s.term <= hold'[s.inc].term /\ s.round <= round'[s.inc] /\ s.answer <= answer'[s.inc]
  /\ hold'[s.inc].live /\ hold'[s.inc].term = s.term => desk'[s.inc] = Desk(s.kind)
  /\ frame'[u] = Idle
Wrote(u, d, s) == Stored(u, d, s) /\ MayReplace(u, sess[u][d], s)

Removes ==
  /\ sess' \in [People -> [AllDesks -> Sessions \cup {NoSession}]]
  /\ \A u \in People, d \in AllDesks : sess'[u][d] \in {sess[u][d], NoSession}

(* Opening a dialogue. *)
LEMMA OpenWrites ==
  ASSUME Types, SessionInv, OpenInv, NEW u \in People, Open(u)
  PROVE  CardsGrow /\ \E d, s : d \in AllDesks /\ Wrote(u, d, s)
<1> DEFINE f == frame[u]  s == Opened(f, u)  d == Desk(f.kind)
<1>1. /\ f \in Opens /\ s \in Sessions /\ s.step \in CardSteps
      /\ s.tok # 0 => s.tok = Next1 /\ Len(cards) < MaxCards
  BY OpenedType
<1>2. /\ s.kind = f.kind /\ s.inc = f.inc /\ s.round = f.round /\ s.answer = f.answer
      /\ s.term = Grant(u, f.inc).term
  BY DEF Opened
<1>3. f.kind \in AllKinds /\ f.inc \in Incidents /\ d \in AllDesks
  BY <1>1, KindChat DEF Opens
<1>4. /\ desk[f.inc] = d /\ MayHold(u, f.inc)
      /\ hold' = [hold EXCEPT ![f.inc] = Grant(u, f.inc)]
      /\ sess' = [sess EXCEPT ![u][d] = s]
      /\ IF s.tok # 0 THEN Show(u, s, FALSE) ELSE UNCHANGED cards
      /\ frame' = [frame EXCEPT ![u] = Idle] /\ f.op = "open"
      /\ UNCHANGED <<desk, round, answer>>
  BY DEF Open
<1>5. f.round <= round[f.inc] /\ f.answer <= answer[f.inc] /\ FreeFor(u, f.kind, f.inc)
  BY <1>4 DEF OpenInv
<1>6. s.term <= hold'[f.inc].term
  <2>1. hold'[f.inc] = Grant(u, f.inc) /\ Grant(u, f.inc).term \in 0..MaxTerms
    BY <1>3, <1>4, GrantType DEF Types, TypeOK
  <2> QED BY <1>2, <2>1, Bounds
<1>7. frame'[u] = Idle
  BY <1>4 DEF Types
<1>8. MayReplace(u, sess[u][d], s)
  BY <1>5 DEF FreeFor, MayReplace, Confirmation
<1>9. CardsGrow /\ (s.tok # 0 => ShownIn(cards', u, s.tok, s))
  <2>1. CASE s.tok # 0
    <3>1. /\ s.inc \in Incidents /\ s.kind \in AllKinds /\ s.arg \in Args \cup {NoArg}
          /\ s.answer \in 0..MaxAnswers /\ s.round \in 0..MaxRounds
      BY <1>1 DEF Sessions
    <3> HIDE DEF s
    <3> QED BY <1>1, <1>4, <2>1, <3>1, CardShown
  <2>2. CASE s.tok = 0
    BY <1>4, <2>2, CardsSame
  <2> QED BY <2>1, <2>2
<1> HIDE DEF f, s, d
<1>10. Wrote(u, d, s)
  BY <1>1, <1>2, <1>3, <1>4, <1>5, <1>6, <1>7, <1>8, <1>9 DEF Wrote, Stored, d
<1> QED BY <1>3, <1>9, <1>10

(* The text or choice a dialogue waits for; and a choice that is "other".  *)
LEMMA FillWrites ==
  ASSUME Types, SessionInv, NEW u \in People, NEW d \in AllDesks, NEW x \in Args,
         sess[u][d] # NoSession, ~Confirmation(sess[u][d]), Len(cards) < MaxCards,
         UNCHANGED <<incident, frame>>, frame[u] = Idle,
         NEW t, t = [sess[u][d] EXCEPT !.step = "preview", !.arg = x, !.tok = Next1],
         sess' = [sess EXCEPT ![u][d] = t], Show(u, t, FALSE)
  PROVE  CardsGrow /\ Wrote(u, d, t)
<1> DEFINE s == sess[u][d]
<1>1. s \in Sessions /\ Desk(s.kind) = d /\ Dated(s)
  BY SessionType DEF SessionInv, Fits
<1>2. Next1 \in 0..MaxCards
  BY Bounds DEF Types, Next1
<1>3. /\ t \in Sessions /\ t.step = "preview" /\ t.kind = s.kind /\ t.inc = s.inc
      /\ t.round = s.round /\ t.answer = s.answer /\ t.term = s.term /\ t.tok = Next1
      /\ t.inc \in Incidents /\ t.kind \in AllKinds /\ t.arg \in Args \cup {NoArg}
      /\ t.answer \in 0..MaxAnswers /\ t.round \in 0..MaxRounds
  BY <1>1, <1>2 DEF Sessions
<1>4. CardsGrow /\ ShownIn(cards', u, Next1, t)
  BY <1>3, CardShown DEF CardSteps
<1>5. MayReplace(u, s, t)
  BY DEF MayReplace
<1> HIDE DEF s
<1> QED BY <1>1, <1>3, <1>4, <1>5 DEF Wrote, Stored, Dated, incident, s

(* Back to typing: the card is no longer the session's. *)
LEMMA RetypeWrites ==
  ASSUME Types, SessionInv, NEW u \in People, NEW d \in AllDesks,
         sess[u][d] # NoSession, UNCHANGED <<incident, cards, frame>>, frame[u] = Idle,
         sess' = [sess EXCEPT ![u][d] = [sess[u][d] EXCEPT !.step = "text", !.tok = 0]]
  PROVE  CardsGrow /\ \E s : Wrote(u, d, s)
<1> DEFINE s == sess[u][d]  t == [s EXCEPT !.step = "text", !.tok = 0]
<1>1. s \in Sessions /\ Desk(s.kind) = d /\ Dated(s)
  BY SessionType DEF SessionInv, Fits
<1>2. /\ t \in Sessions /\ t.kind = s.kind /\ t.inc = s.inc /\ t.tok = 0
      /\ t.round = s.round /\ t.answer = s.answer /\ t.term = s.term
  <2> HIDE DEF s
  <2>1. 0 \in 0..MaxCards
    BY Bounds
  <2> QED BY <1>1, <2>1 DEF Sessions
<1>3. MayReplace(u, s, t) /\ sess' = [sess EXCEPT ![u][d] = t]
  BY DEF MayReplace
<1> HIDE DEF s, t
<1>4. Wrote(u, d, t)
  BY <1>1, <1>2, <1>3 DEF Wrote, Stored, Dated, incident, s
<1> QED BY <1>4, CardsSame

(* The choice on a distribution screen. *)
LEMMA PickWrites ==
  ASSUME Types, SessionInv, NEW u \in People, NEW n \in DOMAIN cards, NEW x \in Args, Pick(u, n, x)
  PROVE  CardsGrow /\ Wrote(u, "distribution", Picked(u, screen[u].inc, x))
<1> DEFINE j == screen[u].inc  s == Picked(u, j, x)
<1>0. j \in Incidents
  BY DEF Pick, OnScreen, Types, ScreenTypes, NoScreen
<1>1. /\ Len(cards) < MaxCards /\ FreeFor(u, "assign", j) /\ frame[u] = Idle
      /\ desk[j] = "distribution" /\ Show(u, s, TRUE) /\ UNCHANGED <<incident, frame>>
      /\ sess' = [sess EXCEPT ![u]["distribution"] = s]
  BY DEF Pick, OnScreen
<1>2. hold[j].term \in 0..MaxTerms /\ round[j] \in 0..MaxRounds /\ answer[j] \in 0..MaxAnswers
  BY <1>0 DEF Types, TypeOK
<1>3. Next1 \in 0..MaxCards
  BY <1>1, Bounds DEF Types, Next1
<1>4. /\ s.kind = "assign" /\ s.inc = j /\ s.term = hold[j].term /\ s.round = round[j]
      /\ s.answer = answer[j] /\ s.step = "preview" /\ s.arg = x /\ s.tok = Next1
      /\ s = [kind |-> "assign", inc |-> j, term |-> hold[j].term, round |-> round[j],
              answer |-> answer[j], step |-> "preview", arg |-> x, tok |-> Next1, private |-> FALSE]
  BY DEF Picked
<1>5. s \in Sessions
  BY <1>0, <1>2, <1>3, <1>4 DEF Sessions, AllKinds
<1>6. MayReplace(u, sess[u]["distribution"], s)
  BY <1>1 DEF FreeFor, Desk, Buttons, MayReplace
<1> HIDE DEF j, s
<1>7. CardsGrow /\ ShownIn(cards', u, Next1, s)
  BY <1>0, <1>1, <1>2, <1>4, CardShown DEF CardSteps, AllKinds, j
<1>8. Desk(s.kind) = "distribution" /\ "distribution" \in AllDesks
  BY <1>4 DEF Desk, AllDesks
<1> QED BY <1>0, <1>1, <1>2, <1>4, <1>5, <1>6, <1>7, <1>8, Bounds DEF Wrote, Stored, incident, s, j


(* A card is one. *)
LEMMA CardType ==
  ASSUME Types, NEW n \in DOMAIN cards
  PROVE  cards[n] \in CardRecords /\ cards[n].inc \in Incidents /\ cards[n].kind \in AllKinds /\ n \in 1..MaxCards
<1>1. cards[n] \in CardRecords /\ n \in 1..MaxCards
  BY Bounds DEF Types
<1> QED BY <1>1 DEF CardRecords

(* What a step of the chats does to dialogues and cards. *)
LEMMA StoreStep ==
  ASSUME Types, SessionInv, OpenInv, ChatNext
  PROVE  CardsGrow /\ (Removes \/ \E u, d, s : u \in People /\ d \in AllDesks /\ Wrote(u, d, s))
<1> DEFINE Goal == CardsGrow /\ (Removes \/ \E v, e, s : v \in People /\ e \in AllDesks /\ Wrote(v, e, s))
<1>1. ASSUME NEW i \in Incidents, HoldExpires(i)
      PROVE  Goal
  <2>1. Removes
    BY <1>1 DEF HoldExpires, Removes, Types, TypeOK
  <2>2. CardsGrow
    BY <1>1, CardsSame DEF HoldExpires
  <2> QED BY <2>1, <2>2
<1>2. ASSUME NEW i \in Incidents, Sweep(i)
      PROVE  Goal
  <2>1. Removes
    BY <1>2 DEF Sweep, Removes, Types, TypeOK, DropAll
  <2>2. CardsGrow
    BY <1>2, CardsSame DEF Sweep
  <2> QED BY <2>1, <2>2
<1>3. ASSUME NEW u \in People, NEW i \in Incidents, Take(u, i)
      PROVE  Goal
  <2>1. Removes
    BY <1>3 DEF Take, Removes, Types, TypeOK
  <2>2. CardsGrow
    BY <1>3, CardsSame DEF Take
  <2> QED BY <2>1, <2>2
<1>4. ASSUME NEW u \in People, NEW i \in Incidents, Release(u, i)
      PROVE  Goal
  <2>1. Removes
    BY <1>4 DEF Release, Removes, Types, TypeOK, DropAll
  <2>2. CardsGrow
    BY <1>4, CardsSame DEF Release
  <2> QED BY <2>1, <2>2
<1>5. ASSUME NEW u \in People, NEW k \in Kinds[u], NEW i \in Incidents, NEW p \in BOOLEAN, Read(u, k, i, p)
      PROVE  Goal
  <2>1. Removes
    BY <1>5 DEF Read, Removes, Types, TypeOK
  <2>2. CardsGrow
    BY <1>5, CardsSame DEF Read
  <2> QED BY <2>1, <2>2
<1>6. ASSUME NEW u \in People, Open(u)
      PROVE  Goal
  BY <1>6, OpenWrites
<1>7. ASSUME NEW u \in People, OpenPicker(u)
      PROVE  Goal
  <2>1. Removes
    BY <1>7 DEF OpenPicker, Removes, Types, TypeOK, AllDesks
  <2>2. CardsGrow
    <3> DEFINE f == frame[u]
    <3>1. f \in Opens /\ Len(cards) < MaxCards /\ Show(u, Picker(f), TRUE)
      BY <1>7, FrameType DEF OpenPicker
    <3>2. /\ Picker(f).inc \in Incidents /\ Picker(f).kind \in AllKinds
          /\ Picker(f).arg \in Args \cup {NoArg} /\ Picker(f).answer \in 0..MaxAnswers
          /\ Picker(f).round \in 0..MaxRounds /\ Picker(f).step \in CardSteps
      BY <3>1 DEF Picker, Opens, AllKinds, CardSteps
    <3> HIDE DEF f
    <3> QED BY <3>1, <3>2, CardShown
  <2> QED BY <2>1, <2>2
<1>8. ASSUME NEW u \in People, Continue(u)
      PROVE  Goal
  <2> DEFINE m == sess[u]["distribution"].tok
  <2>1. cards' = [cards EXCEPT ![m].nav = FALSE] /\ UNCHANGED sess
    BY <1>8 DEF Continue
  <2>2. Removes
    BY <2>1 DEF Removes, Types, TypeOK
  <2>3. CardsGrow
    <3> HIDE DEF m
    <3>1. cards \in Seq(CardRecords) /\ Len(cards) <= MaxCards
      BY DEF Types
    <3>2. \A c \in CardRecords : [c EXCEPT !.nav = FALSE] \in CardRecords /\ SameCard(c, [c EXCEPT !.nav = FALSE])
      BY DEF CardRecords, SameCard
    <3>3. DOMAIN cards' = DOMAIN cards /\ Len(cards') = Len(cards) /\ cards' \in Seq(CardRecords)
      <4>1. CASE m \in 1..Len(cards)
        <5>1. cards[m] \in CardRecords
          BY <3>1, <4>1
        <5>2. [cards[m] EXCEPT !.nav = FALSE] \in CardRecords
          BY <3>2, <5>1
        <5>3. cards' = [cards EXCEPT ![m] = [cards[m] EXCEPT !.nav = FALSE]]
          BY <2>1
        <5> QED BY <3>1, <4>1, <5>2, <5>3, ExceptSeq
      <4>2. CASE m \notin 1..Len(cards)
        <5>1. cards' = cards
          BY <2>1, <3>1, <4>2
        <5> QED BY <3>1, <5>1
      <4> QED BY <4>1, <4>2
    <3>4. \A n \in DOMAIN cards : SameCard(cards[n], cards'[n])
      BY <2>1, <3>1, <3>2 DEF SameCard
    <3> QED BY <3>1, <3>3, <3>4 DEF CardsGrow
  <2> QED BY <2>2, <2>3
<1>9. ASSUME NEW u \in People, Apply(u)
      PROVE  Goal
  <2>1. Removes
    BY <1>9 DEF Apply, Removes, Types, TypeOK, DropAll
  <2>2. CardsGrow
    BY <1>9, CardsSame DEF Apply
  <2> QED BY <2>1, <2>2
<1>10. ASSUME NEW u \in People, Finish(u)
       PROVE  Goal
  <2>1. frame[u].s.kind \in AllKinds
    BY <1>10, FrameType DEF Finish, Applies, Sessions
  <2>2. Desk(frame[u].s.kind) \in AllDesks
    BY <2>1, KindChat
  <2>3. Removes
    BY <1>10, <2>2 DEF Finish, Removes, Types, TypeOK
  <2> QED BY <1>10, <2>3, CardsSame DEF Finish
<1>11. ASSUME NEW u \in People, Abandon(u)
       PROVE  Goal
  <2>1. Removes
    BY <1>11 DEF Abandon, Removes, Types, TypeOK
  <2>2. CardsGrow
    BY <1>11, CardsSame DEF Abandon
  <2> QED BY <2>1, <2>2
<1>12. ASSUME NEW u \in People, NEW d \in AllDesks, Discard(u, d)
       PROVE  Goal
  <2>1. Removes
    BY <1>12 DEF Discard, Removes, Types, TypeOK
  <2>2. CardsGrow
    BY <1>12, CardsSame DEF Discard
  <2> QED BY <2>1, <2>2
<1>13. ASSUME NEW u \in People, NEW d \in AllDesks, SessionExpires(u, d)
       PROVE  Goal
  <2>1. Removes
    BY <1>13 DEF SessionExpires, Removes, Types, TypeOK
  <2>2. CardsGrow
    BY <1>13, CardsSame DEF SessionExpires
  <2> QED BY <2>1, <2>2
<1>14. ASSUME NEW u \in People, NEW d \in AllDesks, Cancel(u, d)
       PROVE  Goal
  <2>1. Removes
    BY <1>14 DEF Cancel, Removes, Types, TypeOK
  <2>2. CardsGrow
    BY <1>14, CardsSame DEF Cancel
  <2> QED BY <2>1, <2>2
<1>15. ASSUME NEW u \in People, NEW d \in AllDesks, NEW x \in Args, Fill(u, d, x)
       PROVE  Goal
  <2>1. sess[u][d] # NoSession /\ ~Confirmation(sess[u][d]) /\ Len(cards) < MaxCards /\ frame[u] = Idle
    BY <1>15 DEF Fill, Confirmation
  <2> QED BY <1>15, <2>1, FillWrites DEF Fill
<1>16. ASSUME NEW u \in People, NEW n \in DOMAIN cards, Back(u, n)
       PROVE  Goal
  <2>1. Removes
    BY <1>16 DEF Back, Removes, Types, TypeOK, AllDesks
  <2>2. CardsGrow
    <3> DEFINE f == cards[n]
    <3>1. f \in CardRecords /\ Len(cards) < MaxCards /\ Show(u, Picker(f), TRUE)
      BY <1>16, CardType DEF Back
    <3>2. /\ Picker(f).inc \in Incidents /\ Picker(f).kind \in AllKinds
          /\ Picker(f).arg \in Args \cup {NoArg} /\ Picker(f).answer \in 0..MaxAnswers
          /\ Picker(f).round \in 0..MaxRounds /\ Picker(f).step \in CardSteps
      BY <3>1 DEF Picker, CardRecords, AllKinds, CardSteps
    <3> HIDE DEF f
    <3> QED BY <3>1, <3>2, CardShown
  <2> QED BY <2>1, <2>2
<1>17. ASSUME NEW u \in People, NEW n \in DOMAIN cards, NEW p \in BOOLEAN, Edit(u, n, p)
       PROVE  Goal
  <2> DEFINE e == Desk(cards[n].kind)
  <2>1. e \in AllDesks
    BY KindChat, CardType
  <2>2. /\ sess[u][e] # NoSession /\ frame[u] = Idle /\ UNCHANGED <<incident, cards, frame>>
        /\ sess' = [sess EXCEPT ![u][e] = [sess[u][e] EXCEPT !.step = "text", !.tok = 0]]
    BY <1>17 DEF Edit, Matches
  <2> HIDE DEF e
  <2> QED BY <2>1, <2>2, RetypeWrites
<1>18. ASSUME NEW u \in People, NEW n \in DOMAIN cards, NEW p \in BOOLEAN, Confirm(u, n, p)
       PROVE  Goal
  <2>1. Removes
    BY <1>18 DEF Confirm, Removes, Types, TypeOK
  <2>2. CardsGrow
    BY <1>18, CardsSame DEF Confirm
  <2> QED BY <2>1, <2>2
<1>19. ASSUME NEW u \in People, NEW n \in DOMAIN cards, NEW x \in Args, Pick(u, n, x)
       PROVE  Goal
  <2>1. "distribution" \in AllDesks
    BY DEF AllDesks
  <2> QED BY <1>19, <2>1, PickWrites
<1>20. ASSUME NEW u \in People, NEW n \in DOMAIN cards, NEW x \in Args, ChooseReason(u, n, x)
       PROVE  Goal
  <2> DEFINE s == sess[u]["distribution"]
  <2>1. s # NoSession /\ ~Confirmation(s) /\ frame[u] = Idle /\ UNCHANGED <<incident, frame>>
    BY <1>20 DEF ChooseReason, Matches, Confirmation, Desk
  <2>2. "distribution" \in AllDesks
    BY DEF AllDesks
  <2>3. CASE Len(cards) < MaxCards /\ sess' = [sess EXCEPT ![u]["distribution"] = [s EXCEPT !.step = "preview", !.arg = x, !.tok = Next1]]
             /\ Show(u, [s EXCEPT !.step = "preview", !.arg = x, !.tok = Next1], FALSE)
    BY <2>1, <2>2, <2>3, FillWrites
  <2>4. CASE sess' = [sess EXCEPT ![u]["distribution"] = [s EXCEPT !.step = "text", !.tok = 0]] /\ UNCHANGED cards
    BY <2>1, <2>2, <2>4, RetypeWrites
  <2> QED BY <1>20, <2>3, <2>4 DEF ChooseReason
<1> QED
  BY <1>1, <1>2, <1>3, <1>4, <1>5, <1>6, <1>7, <1>8, <1>9, <1>10, <1>11, <1>12, <1>13,
     <1>14, <1>15, <1>16, <1>17, <1>18, <1>19, <1>20
  DEF ChatNext, Handler

(* Handlers and screens keep their types. *)
LEMMA FrameStep ==
  ASSUME Types, ChatNext
  PROVE  frame' \in [People -> {Idle} \cup Opens \cup Takes \cup Applies] /\ ScreenTypes'
<1> DEFINE Goal == frame' \in [People -> {Idle} \cup Opens \cup Takes \cup Applies] /\ ScreenTypes'
<1>1. ASSUME NEW u \in People, NEW k \in Kinds[u], NEW i \in Incidents, NEW p \in BOOLEAN, Read(u, k, i, p)
      PROVE  Goal
  <2>1. k \in AllKinds /\ round[i] \in 0..MaxRounds /\ answer[i] \in 0..MaxAnswers
    BY KindsAssumption DEF Types, TypeOK
  <2>2. [op |-> "open", kind |-> k, inc |-> i, round |-> round[i], answer |-> answer[i], private |-> p] \in Opens
    BY <2>1 DEF Opens
  <2> QED BY <1>1, <2>2 DEF Read, Types, ScreenTypes
<1>2. ASSUME NEW u \in People, Open(u)
      PROVE  Goal
  BY <1>2 DEF Open, Types, ScreenTypes
<1>3. ASSUME NEW u \in People, OpenPicker(u)
      PROVE  Goal
  <2>1. frame[u] \in Opens /\ frame[u].inc \in Incidents /\ MayHold(u, frame[u].inc)
    BY <1>3, FrameType DEF OpenPicker, Opens
  <2>2. [tok |-> Next1, inc |-> frame[u].inc, term |-> Grant(u, frame[u].inc).term]
          \in [tok : 1..MaxCards, inc : Incidents, term : 0..MaxTerms]
    <3>1. Next1 \in 1..MaxCards
      BY <1>3, Bounds DEF OpenPicker, Types, Next1
    <3> QED BY <2>1, <3>1, GrantType
  <2> QED BY <1>3, <2>2 DEF OpenPicker, Types, ScreenTypes
<1>4. ASSUME NEW u \in People, Apply(u)
      PROVE  Goal
  <2>1. frame[u] \in Applies
    BY <1>4, FrameType DEF Apply
  <2>2. [frame[u] EXCEPT !.op = "finish"] \in Applies
    BY <2>1 DEF Applies
  <2>3. frame' = [frame EXCEPT ![u] = [frame[u] EXCEPT !.op = "finish"]] /\ UNCHANGED screen
    BY <1>4 DEF Apply
  <2> QED BY <2>2, <2>3 DEF Types, ScreenTypes
<1>5. ASSUME NEW u \in People, Finish(u)
      PROVE  Goal
  BY <1>5 DEF Finish, Types, ScreenTypes
<1>6. ASSUME NEW u \in People, Abandon(u)
      PROVE  Goal
  BY <1>6 DEF Abandon, Types, ScreenTypes
<1>7. ASSUME NEW u \in People, NEW n \in DOMAIN cards, Back(u, n)
      PROVE  Goal
  <2>1. Next1 \in 1..MaxCards /\ screen[u].tok = n /\ n \in 1..MaxCards
    BY <1>7, CardType, Bounds DEF Back, OnScreen, Types, Next1
  <2>2. screen[u] \in [tok : 1..MaxCards, inc : Incidents, term : 0..MaxTerms]
    BY <2>1, Bounds DEF Types, ScreenTypes, NoScreen
  <2>3. screen' = [screen EXCEPT ![u].tok = Next1] /\ UNCHANGED frame
    BY <1>7 DEF Back
  <2>4. [screen[u] EXCEPT !.tok = Next1] \in [tok : 1..MaxCards, inc : Incidents, term : 0..MaxTerms]
    BY <2>1, <2>2
  <2>5. ScreenTypes'
    BY <2>3, <2>4 DEF Types, ScreenTypes, NoScreen
  <2> QED BY <2>3, <2>5 DEF Types
<1>8. ASSUME NEW u \in People, NEW n \in DOMAIN cards, NEW p \in BOOLEAN, Confirm(u, n, p)
      PROVE  Goal
  <2> DEFINE e == Desk(cards[n].kind)  s == sess[u][e]
  <2>1. e \in AllDesks /\ n \in Nat
    BY KindChat, CardType, Bounds
  <2>2. s \in Sessions /\ round[s.inc] \in 0..MaxRounds
    <3>1. s # NoSession
      BY <1>8 DEF Confirm, Matches
    <3> HIDE DEF e
    <3> QED BY <2>1, <3>1, SessionType DEF Types, TypeOK
  <2>3. [op |-> "apply", card |-> n, s |-> s, round |-> round[s.inc]] \in Applies
    BY <2>1, <2>2 DEF Applies
  <2>4. /\ frame' = [frame EXCEPT ![u] = [op |-> "apply", card |-> n, s |-> s, round |-> round[s.inc]]]
        /\ screen' = [screen EXCEPT ![u] = IF cards[n].nav THEN NoScreen ELSE @]
    BY <1>8 DEF Confirm
  <2> HIDE DEF s, e
  <2> QED BY <2>3, <2>4 DEF Types, ScreenTypes
<1>9. ASSUME NEW u \in People, NEW n \in DOMAIN cards, NEW x \in Args, Pick(u, n, x)
      PROVE  Goal
  <2>1. Next1 \in 1..MaxCards /\ screen[u].tok = n /\ n \in 1..MaxCards
    BY <1>9, CardType, Bounds DEF Pick, OnScreen, Types, Next1
  <2>2. screen[u] \in [tok : 1..MaxCards, inc : Incidents, term : 0..MaxTerms]
    BY <2>1, Bounds DEF Types, ScreenTypes, NoScreen
  <2>3. screen' = [screen EXCEPT ![u].tok = Next1] /\ UNCHANGED frame
    BY <1>9 DEF Pick
  <2>4. [screen[u] EXCEPT !.tok = Next1] \in [tok : 1..MaxCards, inc : Incidents, term : 0..MaxTerms]
    BY <2>1, <2>2
  <2>5. ScreenTypes'
    BY <2>3, <2>4 DEF Types, ScreenTypes, NoScreen
  <2> QED BY <2>3, <2>5 DEF Types
<1>10. ASSUME UNCHANGED <<frame, screen>>
       PROVE  Goal
  BY <1>10 DEF Types, ScreenTypes
<1> QED
  BY <1>1, <1>2, <1>3, <1>4, <1>5, <1>6, <1>7, <1>8, <1>9, <1>10 DEF ChatNext, Handler,
     HoldExpires, Sweep, Take, Release, Continue, Discard, SessionExpires, Cancel, Fill,
     Edit, ChooseReason

(* What a step does to incidents, cards and dialogues. *)
Moves ==
  /\ IncidentTypes' /\ (\A j \in Incidents : Progress(j)) /\ CardsGrow
  /\ Removes \/ \E u, d, s : u \in People /\ d \in AllDesks /\ Stored(u, d, s)

(* A step of the chats does that. *)
LEMMA ChatMoves ==
  ASSUME Types, SessionInv, OpenInv, ChatNext
  PROVE  Moves
BY ProgressStep, StoreStep DEF Moves, Wrote

(* The types, together. *)
LEMMA TypesStep ==
  ASSUME Types, Moves, ScreenTypes', frame' \in [People -> {Idle} \cup Opens \cup Takes \cup Applies]
  PROVE  Types'
<1>1. sess' \in [People -> [AllDesks -> Sessions \cup {NoSession}]]
  <2>1. CASE Removes
    BY <2>1 DEF Removes
  <2>2. CASE \E u, d, s : u \in People /\ d \in AllDesks /\ Stored(u, d, s)
    BY <2>2 DEF Stored, Types, TypeOK
  <2> QED BY <2>1, <2>2 DEF Moves
<1> QED BY <1>1 DEF Moves, Types, TypeOK, IncidentTypes, HoldRecords, CardsGrow

-----------------------------------------------------------------------------
(* Sessions. *)

(* What a card shows it goes on showing. *)
LEMMA ShowsOn ==
  ASSUME CardsGrow, NEW u, NEW n, NEW s, Shows(u, n, s)
  PROVE  ShownIn(cards', u, n, s)
BY DEF CardsGrow, SameCard, Shows, ShownIn

(* Time goes by for a session that stays. *)
LEMMA DatedOn ==
  ASSUME Types, NEW s \in Sessions, Dated(s), Progress(s.inc), IncidentTypes'
  PROVE  /\ s.term <= hold'[s.inc].term /\ s.round <= round'[s.inc] /\ s.answer <= answer'[s.inc]
         /\ hold'[s.inc].live /\ hold'[s.inc].term = s.term => desk'[s.inc] = Desk(s.kind)
<1> DEFINE j == s.inc
<1>1. /\ j \in Incidents /\ s.term \in Nat /\ s.round \in Nat /\ s.answer \in Nat
      /\ hold[j].term \in Nat /\ round[j] \in Nat /\ answer[j] \in Nat
      /\ hold'[j].term \in Nat /\ round'[j] \in Nat /\ answer'[j] \in Nat
  BY DEF Sessions, Types, TypeOK, IncidentTypes, HoldRecords
<1> HIDE DEF j
<1> QED BY <1>1 DEF Dated, Progress, j

(* A session that is over stays over. *)
LEMMA ObsoleteOn ==
  ASSUME Types, NEW u \in People, NEW s \in Sessions, Dated(s), Progress(s.inc), IncidentTypes',
         Obsolete(u, s)
  PROVE  \/ desk'[s.inc] # Desk(s.kind)
         \/ ~(hold'[s.inc].live /\ hold'[s.inc].by = u) \/ hold'[s.inc].term # s.term
         \/ Desk(s.kind) = "review" /\ answer'[s.inc] # s.answer
         \/ Desk(s.kind) = "sector" /\ round'[s.inc] # s.round
<1> DEFINE j == s.inc
<1>1. /\ j \in Incidents /\ s.term \in Nat /\ s.round \in Nat /\ s.answer \in Nat
      /\ hold[j].term \in Nat /\ round[j] \in Nat /\ answer[j] \in Nat
      /\ hold'[j].term \in Nat /\ round'[j] \in Nat /\ answer'[j] \in Nat
  BY DEF Sessions, Types, TypeOK, IncidentTypes, HoldRecords
<1> HIDE DEF j
<1> QED BY <1>1 DEF Dated, Progress, Obsolete, Holds, j

(* Every step keeps what sessions are. *)
LEMMA SessionStep ==
  ASSUME Types, SessionInv, Moves
  PROVE  SessionInv'
<1> SUFFICES ASSUME NEW u \in People, NEW d \in AllDesks, sess'[u][d] # NoSession
             PROVE  Fits(u, d, sess[u][d])' /\ Dated(sess[u][d])'
  BY DEF SessionInv
<1>1. IncidentTypes' /\ (\A j \in Incidents : Progress(j)) /\ CardsGrow
  BY DEF Moves
<1>2. CASE sess'[u][d] = sess[u][d]
  <2>1. Fits(u, d, sess[u][d]) /\ Dated(sess[u][d]) /\ sess[u][d] \in Sessions /\ sess[u][d].inc \in Incidents
    BY <1>2, SessionType DEF SessionInv
  <2>2. sess[u][d].tok # 0 => ShownIn(cards', u, sess[u][d].tok, sess[u][d])
    BY <1>1, <2>1, ShowsOn DEF Fits
  <2>3. /\ sess[u][d].term <= hold'[sess[u][d].inc].term
        /\ sess[u][d].round <= round'[sess[u][d].inc] /\ sess[u][d].answer <= answer'[sess[u][d].inc]
        /\ hold'[sess[u][d].inc].live /\ hold'[sess[u][d].inc].term = sess[u][d].term
             => desk'[sess[u][d].inc] = Desk(sess[u][d].kind)
    BY <1>1, <2>1, DatedOn
  <2> QED BY <1>2, <2>1, <2>2, <2>3 DEF Fits, Dated, Shows
<1>3. CASE sess'[u][d] # sess[u][d]
  <2>1. PICK v, e, s : v \in People /\ e \in AllDesks /\ Stored(v, e, s)
    BY <1>3 DEF Moves, Removes
  <2>2. u = v /\ d = e /\ sess'[u][d] = s
    BY <1>3, <2>1 DEF Stored, Types, TypeOK
  <2> QED BY <2>1, <2>2 DEF Stored, Fits, Shows, Dated
<1> QED BY <1>2, <1>3


-----------------------------------------------------------------------------
(* Handlers under way. *)

(* Where a handler that has read or is to decide comes from. *)
LEMMA FrameMoves ==
  ASSUME Types, ChatNext, NEW v \in People
  PROVE  /\ frame'[v].op = "take" => frame'[v] = frame[v]
         /\ frame'[v].op = "open" => frame'[v] = frame[v] \/ \E k \in AllKinds, i \in Incidents, p \in BOOLEAN : Read(v, k, i, p)
         /\ frame'[v].op \in {"apply", "finish"} =>
              \/ frame'[v] = frame[v] \/ Apply(v)
              \/ \E n \in DOMAIN cards, p \in BOOLEAN : Confirm(v, n, p)
<1> DEFINE Goal ==
         /\ frame'[v].op = "take" => frame'[v] = frame[v]
         /\ frame'[v].op = "open" => frame'[v] = frame[v] \/ \E k \in AllKinds, i \in Incidents, p \in BOOLEAN : Read(v, k, i, p)
         /\ frame'[v].op \in {"apply", "finish"} =>
              \/ frame'[v] = frame[v] \/ Apply(v)
              \/ \E n \in DOMAIN cards, p \in BOOLEAN : Confirm(v, n, p)
<1>1. ASSUME NEW u \in People, NEW k \in Kinds[u], NEW i \in Incidents, NEW p \in BOOLEAN, Read(u, k, i, p)
      PROVE  Goal
  BY <1>1, KindsAssumption DEF Read, Types
<1>2. ASSUME NEW u \in People, Open(u)
      PROVE  Goal
  BY <1>2 DEF Open, Idle, Types
<1>3. ASSUME NEW u \in People, OpenPicker(u)
      PROVE  Goal
  BY <1>3 DEF OpenPicker, Idle, Types
<1>4. ASSUME NEW u \in People, Apply(u)
      PROVE  Goal
  <2>1. frame[u] \in Applies /\ frame' = [frame EXCEPT ![u].op = "finish"]
    BY <1>4, FrameType DEF Apply
  <2>2. frame'[u].op = "finish" /\ \A w \in People : w # u => frame'[w] = frame[w]
    BY <2>1 DEF Types, Applies
  <2> QED BY <1>4, <2>2
<1>5. ASSUME NEW u \in People, Finish(u)
      PROVE  Goal
  BY <1>5 DEF Finish, Idle, Types
<1>6. ASSUME NEW u \in People, Abandon(u)
      PROVE  Goal
  BY <1>6 DEF Abandon, Idle, Types
<1>7. ASSUME NEW u \in People, NEW n \in DOMAIN cards, NEW p \in BOOLEAN, Confirm(u, n, p)
      PROVE  Goal
  BY <1>7 DEF Confirm, Types
<1>8. ASSUME UNCHANGED frame
      PROVE  Goal
  BY <1>8
<1> QED
  BY <1>1, <1>2, <1>3, <1>4, <1>5, <1>6, <1>7, <1>8 DEF ChatNext, Handler, HoldExpires,
     Sweep, Take, Release, Continue, Discard, SessionExpires, Cancel, Fill, Back, Edit,
     Pick, ChooseReason

(* A handler that opens a dialogue finds the place as free as when it read. *)
LEMMA OpenStep ==
  ASSUME Types, SessionInv, OpenInv, Moves,
         \A v \in People : frame'[v].op = "open" =>
           frame'[v] = frame[v] \/ \E k \in AllKinds, i \in Incidents, p \in BOOLEAN : Read(v, k, i, p)
  PROVE  OpenInv'
<1> SUFFICES ASSUME NEW u \in People, frame'[u].op = "open"
             PROVE  /\ frame'[u].round <= round'[frame'[u].inc]
                    /\ frame'[u].answer <= answer'[frame'[u].inc]
                    /\ FreeFor(u, frame[u].kind, frame[u].inc)'
  BY DEF OpenInv
<1>1. IncidentTypes' /\ (\A j \in Incidents : Progress(j)) /\ CardsGrow
  BY DEF Moves
<1>2. CASE \E k \in AllKinds, i \in Incidents, p \in BOOLEAN : Read(u, k, i, p)
  <2>1. PICK k \in AllKinds, i \in Incidents, p \in BOOLEAN : Read(u, k, i, p)
    BY <1>2
  <2>2. /\ frame'[u].kind = k /\ frame'[u].inc = i /\ frame'[u].round = round[i]
        /\ frame'[u].answer = answer[i] /\ FreeFor(u, k, i) /\ UNCHANGED <<incident, sess>>
    BY <2>1 DEF Read, Types
  <2>3. round[i] \in Nat /\ answer[i] \in Nat
    BY DEF Types, TypeOK
  <2>4. FreeFor(u, frame[u].kind, frame[u].inc)'
    BY <2>2 DEF FreeFor, Obsolete, Holds, incident
  <2> QED BY <2>2, <2>3, <2>4 DEF incident
<1>3. CASE frame'[u] = frame[u]
  <2> DEFINE f == frame[u]  d == Desk(f.kind)
  <2>1. f \in Opens /\ f.inc \in Incidents /\ f.kind \in AllKinds /\ d \in AllDesks
    BY <1>3, FrameType, KindChat DEF Opens
  <2>2. f.round <= round[f.inc] /\ f.answer <= answer[f.inc] /\ FreeFor(u, f.kind, f.inc)
    BY <1>3 DEF OpenInv
  <2>3. f.round <= round'[f.inc] /\ f.answer <= answer'[f.inc]
    <3>1. /\ f.round \in Nat /\ f.answer \in Nat /\ round[f.inc] \in Nat /\ answer[f.inc] \in Nat
          /\ round'[f.inc] \in Nat /\ answer'[f.inc] \in Nat
      BY <1>1, <2>1 DEF Opens, Types, TypeOK, IncidentTypes
    <3> QED BY <1>1, <2>1, <2>2, <3>1 DEF Progress
  <2>4. sess'[u][d] \in {sess[u][d], NoSession}
    <3>1. CASE Removes
      BY <2>1, <3>1 DEF Removes
    <3>2. CASE \E v, e, s : v \in People /\ e \in AllDesks /\ Stored(v, e, s)
      <4>1. PICK v, e, s : v \in People /\ e \in AllDesks /\ Stored(v, e, s)
        BY <3>2
      <4>2. v # u
        BY <1>3, <4>1 DEF Stored, Idle
      <4> QED BY <4>1, <4>2 DEF Stored, Types, TypeOK
    <3> QED BY <3>1, <3>2 DEF Moves
  <2>5. CASE sess'[u][d] = NoSession
    BY <1>3, <2>3, <2>5 DEF FreeFor
  <2>6. CASE sess'[u][d] = sess[u][d] /\ sess[u][d] # NoSession
    <3> DEFINE s == sess[u][d]
    <3>1. s \in Sessions /\ s.inc \in Incidents /\ Dated(s)
      BY <2>1, <2>6, SessionType DEF SessionInv
    <3>2. CASE Obsolete(u, s)
      <4>1. \/ desk'[s.inc] # Desk(s.kind)
            \/ ~(hold'[s.inc].live /\ hold'[s.inc].by = u) \/ hold'[s.inc].term # s.term
            \/ Desk(s.kind) = "review" /\ answer'[s.inc] # s.answer
            \/ Desk(s.kind) = "sector" /\ round'[s.inc] # s.round
        BY <1>1, <3>1, <3>2, ObsoleteOn
      <4> HIDE DEF s
      <4>2. sess'[u][Desk(frame'[u].kind)] = s
        BY <1>3, <2>6 DEF s
      <4> QED BY <1>3, <2>3, <4>1, <4>2 DEF FreeFor, Obsolete, Holds
    <3>3. CASE ~Obsolete(u, s)
      BY <1>3, <2>2, <2>3, <2>6, <3>3 DEF FreeFor
    <3> QED BY <3>2, <3>3
  <2> QED BY <2>4, <2>5, <2>6
<1> QED BY <1>2, <1>3

(* A handler that decides goes by a card that shows what it decides. *)
LEMMA ApplyStep ==
  ASSUME Types, SessionInv, OpenInv, ApplyInv, ChatNext
  PROVE  ApplyInv'
<1> SUFFICES ASSUME NEW u \in People, frame'[u].op \in {"apply", "finish"}
             PROVE  /\ ShownIn(cards', u, frame'[u].card, frame'[u].s)
                    /\ frame'[u].s.kind = "answer" => frame'[u].round = frame'[u].s.round
  BY DEF ApplyInv, Shows
<1>1. CardsGrow
  BY StoreStep
<1>2. ASSUME frame[u].op \in {"apply", "finish"}, frame'[u].card = frame[u].card,
             frame'[u].s = frame[u].s, frame'[u].round = frame[u].round
      PROVE  /\ ShownIn(cards', u, frame'[u].card, frame'[u].s)
             /\ frame'[u].s.kind = "answer" => frame'[u].round = frame'[u].s.round
  BY <1>1, <1>2, ShowsOn DEF ApplyInv
<1>3. CASE frame'[u] = frame[u]
  BY <1>2, <1>3
<1>4. CASE Apply(u)
  <2>1. frame[u] \in Applies /\ frame[u].op = "apply" /\ frame' = [frame EXCEPT ![u].op = "finish"]
    BY <1>4, FrameType DEF Apply
  <2>2. frame'[u] = [frame[u] EXCEPT !.op = "finish"]
    BY <2>1 DEF Types
  <2> QED BY <1>2, <2>1, <2>2 DEF Applies
<1>5. ASSUME NEW n \in DOMAIN cards, NEW p \in BOOLEAN, Confirm(u, n, p)
      PROVE  /\ ShownIn(cards', u, frame'[u].card, frame'[u].s)
             /\ frame'[u].s.kind = "answer" => frame'[u].round = frame'[u].s.round
  <2> DEFINE d == Desk(cards[n].kind)  s == sess[u][d]
  <2>1. d \in AllDesks /\ n # 0
    BY CardType, KindChat, Bounds
  <2>2. /\ frame'[u] = [op |-> "apply", card |-> n, s |-> s, round |-> round[s.inc]]
        /\ s # NoSession /\ s.tok = n /\ ~Obsolete(u, s)
    BY <1>5 DEF Confirm, Matches, Types
  <2>3. Fits(u, d, s)
    BY <2>1, <2>2 DEF SessionInv
  <2>4. ShownIn(cards', u, n, s)
    BY <1>1, <2>1, <2>2, <2>3, ShowsOn DEF Fits
  <2>5. s.kind = "answer" => round[s.inc] = s.round
    BY <2>2 DEF Obsolete, Desk
  <2> QED BY <2>2, <2>4, <2>5
<1> QED BY <1>3, <1>4, <1>5, FrameMoves

-----------------------------------------------------------------------------
(* The theorems. *)

(* The start. *)
LEMMA StaffStart == Init => IInv
<1> SUFFICES ASSUME Init PROVE IInv
  OBVIOUS
<1>1. TypeOK
  <2>1. desk \in [Incidents -> AllDesks \cup {"done"}]
    BY KindsAssumption DEF Init
  <2>2. answer \in [Incidents -> 0..MaxAnswers]
    BY Bounds, StaffBounds, KindsAssumption DEF Init
  <2>3. round \in [Incidents -> 0..MaxRounds]
    BY Bounds DEF Init
  <2>4. Free \in HoldRecords
    BY Bounds DEF Free, HoldRecords
  <2>5. hold \in [Incidents -> HoldRecords]
    BY <2>4 DEF Init
  <2>6. sess \in [People -> [AllDesks -> Sessions \cup {NoSession}]]
    BY DEF Init
  <2> QED BY <2>1, <2>2, <2>3, <2>5, <2>6 DEF TypeOK, HoldRecords
<1>2. ScreenTypes /\ cards \in Seq(CardRecords) /\ Len(cards) <= MaxCards
  BY Bounds DEF Init, ScreenTypes
<1>3. frame \in [People -> {Idle}]
  BY DEF Init
<1>4. SessionInv /\ OpenInv /\ ApplyInv
  BY DEF Init, SessionInv, OpenInv, ApplyInv, Idle
<1> QED BY <1>1, <1>2, <1>3, <1>4 DEF IInv, Types

(* Nothing happens. *)
LEMMA StaffStutters ==
  ASSUME IInv, UNCHANGED vars
  PROVE  IInv'
BY DEF vars, incident, IInv, Types, TypeOK, ScreenTypes, SessionInv, OpenInv, ApplyInv, Fits, Shows,
       Dated, FreeFor, Obsolete, Holds

(* The inductive invariant of the dialogues: what sessions, cards and      *)
(* handlers under way hold fits together.                                  *)
THEOREM StaffInvariant == Spec => []IInv
<1>1. IInv /\ Next => IInv'
  <2> SUFFICES ASSUME IInv, Next PROVE IInv'
    OBVIOUS
  <2>1. ChatNext /\ Moves
    BY NextInChats, ChatMoves DEF IInv
  <2> QED BY <2>1, FrameStep, FrameMoves, TypesStep, SessionStep, OpenStep, ApplyStep DEF IInv
<1>2. IInv /\ [Next]_vars => IInv'
  BY <1>1, StaffStutters
<1> QED BY StaffStart, <1>2, PTL DEF Spec

(* Only the handler's own transaction decides. *)
LEMMA Decides ==
  ASSUME Types, ChatNext, NEW u \in People, Deciding(u)
  PROVE  /\ Apply(u) /\ frame[u] \in Applies /\ frame[u].s \in Sessions
         /\ frame[u].s.inc \in Incidents /\ frame[u].s.kind \in AllKinds
<1>1. frame'[u] # frame[u] /\ frame[u].op = "apply" /\ frame'[u].op = "finish"
  BY DEF Deciding
<1>2. ~\E n \in DOMAIN cards, p \in BOOLEAN : Confirm(u, n, p)
  BY <1>1 DEF Confirm, Idle
<1> QED BY <1>1, <1>2, FrameMoves, FrameType DEF Applies, Sessions

(* A press decides what the card pressed shows, and only the employee it   *)
(* was shown to decides with it.                                           *)
THEOREM DecisionsAreShown == Spec => DecidedAsShown
<1> DEFINE A == \A u \in People : Deciding(u) =>
       /\ Pressed(u).by = u /\ Pressed(u).inc = frame[u].s.inc
       /\ Pressed(u).kind = frame[u].s.kind /\ Pressed(u).arg = frame[u].s.arg
<1>1. IInv /\ [Next]_vars => [A]_vars
  <2> SUFFICES ASSUME IInv, Next, NEW u \in People, Deciding(u)
               PROVE  /\ Pressed(u).by = u /\ Pressed(u).inc = frame[u].s.inc
                      /\ Pressed(u).kind = frame[u].s.kind /\ Pressed(u).arg = frame[u].s.arg
    OBVIOUS
  <2>1. frame[u].op = "apply"
    BY DEF Deciding
  <2> QED BY <2>1 DEF IInv, ApplyInv, Shows, ShownIn, Pressed
<1> QED BY StaffInvariant, <1>1, PTL DEF Spec, DecidedAsShown

(* A decision fits the stage, the assignment and the answer its card was   *)
(* about, and no colleague holds the incident.                             *)
THEOREM DecisionsAreInTime == Spec => DecidedInTime
<1> DEFINE A == \A u \in People : Deciding(u) =>
       LET i == frame[u].s.inc IN
       /\ desk[i] = Desk(Pressed(u).kind) /\ ~HeldByOther(i, u)
       /\ Pressed(u).kind = "answer" => Pressed(u).round = round[i]
       /\ Desk(Pressed(u).kind) = "review" => Pressed(u).answer = answer[i]
<1>1. IInv /\ [Next]_vars => [A]_vars
  <2> SUFFICES ASSUME IInv, Next, NEW u \in People, Deciding(u)
               PROVE  LET i == frame[u].s.inc IN
                      /\ desk[i] = Desk(Pressed(u).kind) /\ ~HeldByOther(i, u)
                      /\ Pressed(u).kind = "answer" => Pressed(u).round = round[i]
                      /\ Desk(Pressed(u).kind) = "review" => Pressed(u).answer = answer[i]
    OBVIOUS
  <2> DEFINE s == frame[u].s  i == s.inc
  <2>1. Apply(u) /\ s \in Sessions /\ s.kind \in AllKinds
    BY NextInChats, Decides DEF IInv
  <2>2. Stands(u, s, frame[u].round) /\ frame[u].op = "apply"
    BY <2>1 DEF Apply
  <2>3. /\ Pressed(u).kind = s.kind /\ Pressed(u).round = s.round /\ Pressed(u).answer = s.answer
        /\ s.kind = "answer" => frame[u].round = s.round
    BY <2>2 DEF IInv, ApplyInv, Shows, ShownIn, Pressed
  <2> HIDE DEF s
  <2>4. desk[i] = Desk(s.kind)
    BY <2>2 DEF Stands
  <2>5. ~HeldByOther(i, u)
    BY <2>1, <2>2 DEF Stands, HeldByOther, Holds, Obsolete
  <2>6. s.kind = "answer" => s.round = round[i]
    BY <2>2, <2>3 DEF Stands
  <2>7. Desk(s.kind) = "review" => s.answer = answer[i]
    BY <2>1, <2>2 DEF Stands, Obsolete, Desk, AllKinds
  <2> QED BY <2>3, <2>4, <2>5, <2>6, <2>7 DEF s
<1> QED BY StaffInvariant, <1>1, PTL DEF Spec, DecidedInTime

(* A confirmation that can still be given is not replaced. *)
THEOREM ConfirmationsAreKept == Spec => ConfirmationKept
<1> DEFINE A == \A u \in People, d \in AllDesks :
       LET s == sess[u][d] IN
       s # NoSession /\ s.step = "preview" /\ s.kind \in Inputs \cup Buttons /\ ~Obsolete(u, s) =>
         \/ sess'[u][d] = s \/ sess'[u][d] = NoSession
         \/ sess'[u][d] = [s EXCEPT !.step = "text", !.tok = 0]
<1>1. IInv /\ [Next]_vars => [A]_vars
  <2> SUFFICES ASSUME IInv, Next, NEW u \in People, NEW d \in AllDesks,
                      sess[u][d] # NoSession, Confirmation(sess[u][d]), ~Obsolete(u, sess[u][d])
               PROVE  \/ sess'[u][d] = sess[u][d] \/ sess'[u][d] = NoSession
                      \/ sess'[u][d] = [sess[u][d] EXCEPT !.step = "text", !.tok = 0]
    BY DEF Confirmation
  <2>1. CASE Removes
    BY <2>1 DEF Removes
  <2>2. CASE \E v, e, s : v \in People /\ e \in AllDesks /\ Wrote(v, e, s)
    <3>1. PICK v, e, s : v \in People /\ e \in AllDesks /\ Wrote(v, e, s)
      BY <2>2
    <3>2. sess'[u][d] = IF u = v /\ d = e THEN s ELSE sess[u][d]
      BY <3>1 DEF Wrote, Stored, IInv, Types, TypeOK
    <3> QED BY <3>1, <3>2 DEF Wrote, Stored, MayReplace
  <2> QED BY <2>1, <2>2, NextInChats, StoreStep DEF IInv
<1> QED BY StaffInvariant, <1>1, PTL DEF Spec, ConfirmationKept

-----------------------------------------------------------------------------
(* The private dialogue: items, and what is restored from them. *)

Items ==
  [on : BOOLEAN, cycle : {Unset} \cup Cycles, snap : Sessions \cup {NoSession},
   draft : [arg : Args \cup {NoArg}, nonce : 0..MaxCards],
   pend : [answer : 0..MaxAnswers, nonce : 0..MaxCards]]
ItemTypes == item \in [Private -> [Incidents -> [AllDesks -> Items]]]

(* A copy is a session of the chat about the incident, as its card shows.  *)
CopyIn(cs, h, r, a, u, i, d, s) ==
  s # NoSession =>
    /\ s.inc = i /\ Desk(s.kind) = d /\ (s.tok # 0 => ShownIn(cs, u, s.tok, s))
    /\ s.term <= h[i].term /\ s.round <= r[i] /\ s.answer <= a[i]

(* A draft's button was shown under it, for the version the item is for.   *)
DraftIn(cs, u, i, d, draft, cycle) ==
  draft.nonce # 0 =>
    LET c == cs[draft.nonce] IN
    /\ draft.nonce \in DOMAIN cs
    /\ c.by = u /\ c.inc = i /\ Desk(c.kind) = d /\ c.arg = draft.arg /\ c.step \in Drafts
    /\ c.step = "draft" => cycle = <<c.round, c.answer>>

(* An approval is asked for with an answer at least as new as its own.     *)
PendingIn(cs, a, u, i, d, p) ==
  p.nonce # 0 =>
    LET c == cs[p.nonce] IN
    /\ d = "review" /\ p.nonce \in DOMAIN cs
    /\ c.by = u /\ c.inc = i /\ c.kind = "approve" /\ c.arg = NoArg
    /\ p.answer <= c.answer /\ c.answer <= a[i]

ItemInv ==
  \A u \in Private, i \in Incidents, d \in AllDesks :
    LET w == item[u][i][d] IN
    /\ CopyIn(cards, hold, round, answer, u, i, d, w.snap)
    /\ DraftIn(cards, u, i, d, w.draft, w.cycle)
    /\ PendingIn(cards, answer, u, i, d, w.pend)

(* What take has reserved is, while it lasts, at the desk it was read at.  *)
TakeInv ==
  \A u \in People : frame[u].op = "take" =>
    /\ frame[u].term <= hold[frame[u].inc].term
    /\ hold[frame[u].inc].live /\ hold[frame[u].inc].term = frame[u].term =>
         desk[frame[u].inc] = frame[u].desk

(* A decision under way has the words of the card pressed, and, unless the *)
(* draft was an early one, is for the version on the card.                 *)
Decided(a, u, c, f) ==
  /\ c.by = u /\ c.inc = f.s.inc /\ Desk(c.kind) = Desk(f.s.kind) /\ c.arg = f.s.arg
  /\ c.step # "early" =>
       /\ f.s.kind = "answer" => c.round = f.round
       /\ Desk(f.s.kind) = "review" =>
            c.answer = f.s.answer \/ (f.s.answer <= c.answer /\ c.answer <= a[f.s.inc])
DecisionInv ==
  \A u \in People : frame[u].op \in {"apply", "finish"} =>
    frame[u].card \in DOMAIN cards /\ Decided(answer, u, cards[frame[u].card], frame[u])

WorkInv == Types /\ SessionInv /\ OpenInv /\ ItemTypes /\ ItemInv /\ TakeInv /\ DecisionInv

(* The steps of the private dialogue that are none of the chats.           *)
CopyText(u, i, d, x) ==
  LET w == item[u][i][d]
      s == [w.snap EXCEPT !.step = "preview", !.arg = x, !.tok = Next1] IN
  /\ w.snap # NoSession /\ frame[u] = Idle /\ Len(cards) < MaxCards
  /\ Keep(u, i, d, [w EXCEPT !.snap = s])
  /\ Show(u, s, FALSE)
  /\ UNCHANGED <<incident, sess, screen, frame>>
OwnNext ==
  \/ \E u \in Private, i \in Incidents : Adopt(u, i) \/ Reserve(u, i)
  \/ \E u \in Private, i \in Incidents : \E v \in 1..answer[i] : Approve(u, i, v)
  \/ \E u \in Private : Restore(u)
  \/ \E u \in Private, i \in Incidents, d \in AllDesks : Enter(u, i, d) \/ Back_(u, i, d) \/ CancelWork(u, i, d)
  \/ \E u \in Private, i \in Incidents, d \in AllDesks, x \in Args :
       SaveDraft(u, i, d, x) \/ CopyText(u, i, d, x)
  \/ \E u \in Private : \E n \in DOMAIN cards : ConfirmWork(u, n)

(* There are no others. *)
LEMMA WorkSteps == WorkNext => ChatNext \/ OwnNext
<1> SUFFICES ASSUME WorkNext PROVE ChatNext \/ OwnNext
  OBVIOUS
<1> USE PrivateAssumption
<1>1. CASE Chats
  BY <1>1 DEF Chats, OnIncident, InChat, OnCard, Say, ChatNext, Handler
<1>2. ASSUME NEW u \in People, Applied(u) \/ Finished(u)
      PROVE  ChatNext
  BY <1>2 DEF Applied, Finished, ChatNext, Handler
<1>3. ASSUME NEW u \in Private, Restore(u) \/ Started(u)
      PROVE  ChatNext \/ OwnNext
  BY <1>3 DEF Started, ChatNext, Handler, OwnNext
<1>4. ASSUME NEW u \in Private, NEW i \in Incidents, OnWork(u, i)
      PROVE  ChatNext \/ OwnNext
  BY <1>4 DEF OnWork, Start, ChatNext, OwnNext
<1>5. ASSUME NEW u \in Private, NEW i \in Incidents, NEW d \in AllDesks, NEW x \in Args, SaveText(u, i, d, x)
      PROVE  ChatNext \/ OwnNext
  <2>1. CASE Fill(u, d, x)
    BY <2>1 DEF ChatNext
  <2>2. CASE CopyText(u, i, d, x)
    BY <2>2 DEF OwnNext
  <2> QED BY <1>5, <2>1, <2>2 DEF SaveText, CopyText
<1>6. ASSUME NEW u \in Private, NEW i \in Incidents, NEW d \in AllDesks, OnItem(u, i, d)
      PROVE  ChatNext \/ OwnNext
  BY <1>5, <1>6 DEF OnItem, ReleaseWork, ChatNext, OwnNext
<1>7. ASSUME NEW u \in Private, NEW n \in DOMAIN cards, Press(u, n) \/ ConfirmWork(u, n)
      PROVE  ChatNext \/ OwnNext
  BY <1>7 DEF Press, ChatNext, OwnNext
<1> QED BY <1>1, <1>2, <1>3, <1>4, <1>6, <1>7 DEF WorkNext

(* An employee in the private dialogue is an employee. *)
LEMMA PrivateOnes == Private \subseteq People
BY PrivateAssumption

(* What an item holds. *)
LEMMA ItemType ==
  ASSUME ItemTypes, NEW u \in Private, NEW i \in Incidents, NEW d \in AllDesks
  PROVE  item[u][i][d] \in Items
BY DEF ItemTypes

(* Incidents that nothing happens to. *)
LEMMA IncidentsStay ==
  ASSUME Types, UNCHANGED incident
  PROVE  IncidentTypes' /\ \A j \in Incidents : Progress(j)
<1>1. \A j \in Incidents : round[j] \in Nat /\ answer[j] \in Nat /\ hold[j].term \in Nat
  BY DEF Types, TypeOK
<1> QED BY <1>1 DEF incident, Types, TypeOK, IncidentTypes, Progress, HoldRecords

(* What a step of the private dialogue does, seen from the chats.          *)
FrameTypes == frame \in [People -> {Idle} \cup Opens \cup Takes \cup Applies]
NoNewRead == \A v \in People : frame'[v].op = "open" => frame'[v] = frame[v]
OwnMoves == Moves /\ FrameTypes' /\ ScreenTypes' /\ NoNewRead

(* Nothing but cards, or not even that.                                    *)
LEMMA OnlyCards ==
  ASSUME Types, CardsGrow, UNCHANGED <<incident, sess, screen, frame>>
  PROVE  OwnMoves
<1>1. Removes
  BY DEF Removes, Types, TypeOK
<1> QED BY <1>1, IncidentsStay DEF OwnMoves, Moves, Types, FrameTypes, ScreenTypes, NoNewRead

(* Taking work up: the reservation.                                        *)
LEMMA ReserveMoves ==
  ASSUME Types, NEW u \in People, NEW i \in Incidents, Reserve(u, i)
  PROVE  OwnMoves
<1>1. /\ MayHold(u, i) /\ hold' = [hold EXCEPT ![i] = Grant(u, i)]
      /\ UNCHANGED <<desk, round, answer, sess, screen, cards>>
      /\ desk[i] # "done"
      /\ frame' = [frame EXCEPT ![u] = [op |-> "take", inc |-> i, desk |-> desk[i],
                                   term |-> Grant(u, i).term, cycle |-> cycleOf(i)]]
  BY DEF Reserve
<1>2. /\ Grant(u, i) \in HoldRecords /\ hold[i].term <= Grant(u, i).term
      /\ Grant(u, i).term \in 0..MaxTerms
      /\ Grant(u, i) = hold[i] \/ hold[i].term < Grant(u, i).term
  BY <1>1, GrantType DEF Types, TypeOK
<1>3. IncidentTypes' /\ \A j \in Incidents : Progress(j)
  BY <1>1, <1>2 DEF Types, TypeOK, IncidentTypes, Progress, HoldRecords
<1>4. Removes /\ CardsGrow
  BY <1>1, CardsSame DEF Removes, Types, TypeOK
<1>5. cycleOf(i) \in Cycles
  BY DEF cycleOf, Cycles, Types, TypeOK
<1>6. desk[i] \in AllDesks
  BY <1>1 DEF Types, TypeOK
<1>7. [op |-> "take", inc |-> i, desk |-> desk[i], term |-> Grant(u, i).term, cycle |-> cycleOf(i)] \in Takes
  BY <1>2, <1>5, <1>6 DEF Takes
<1>8. FrameTypes' /\ NoNewRead
  BY <1>1, <1>7 DEF FrameTypes, NoNewRead, Types
<1> QED BY <1>1, <1>3, <1>4, <1>8 DEF OwnMoves, Moves, Types, ScreenTypes

(* Taking work up: the session that is put back, if there is one.          *)
Back1(u) ==
  IF item[u][frame[u].inc][frame[u].desk].snap # NoSession
  THEN item[u][frame[u].inc][frame[u].desk].snap ELSE sess[u][frame[u].desk]
PutBack(u) == [Back1(u) EXCEPT !.term = frame[u].term, !.private = TRUE]
LEMMA RestoreStores ==
  ASSUME Types, SessionInv, ItemTypes, ItemInv, TakeInv, NEW u \in Private, Restore(u), Back1(u) # NoSession
  PROVE  /\ Stored(u, frame[u].desk, PutBack(u)) /\ UNCHANGED <<incident, screen, cards>>
         /\ CopyIn(cards, hold, round, answer, u, frame[u].inc, frame[u].desk, PutBack(u))
<1> DEFINE f == frame[u]  w == item[u][f.inc][f.desk]  old == Back1(u)  s == PutBack(u)
<1>0. u \in People
  BY PrivateOnes
<1>1. /\ f.op = "take" /\ frame' = [frame EXCEPT ![u] = Idle] /\ UNCHANGED <<incident, screen, cards>>
      /\ sess' = [sess EXCEPT ![u][f.desk] = s]
      /\ sess[u][f.desk] # NoSession => sess[u][f.desk].inc = f.inc
  BY DEF Restore, Back1, PutBack
<1>2. f \in Takes /\ f.inc \in Incidents /\ f.desk \in AllDesks /\ f.term \in 0..MaxTerms
  BY <1>0, <1>1, FrameType DEF Takes
<1>3. w \in Items
  BY <1>2, ItemType
<1>4. old \in Sessions
  BY <1>0, <1>2, <1>3, SessionType DEF Back1, Items
<1>5. /\ old.inc = f.inc /\ Desk(old.kind) = f.desk /\ (old.tok # 0 => ShownIn(cards, u, old.tok, old))
      /\ old.round <= round[f.inc] /\ old.answer <= answer[f.inc]
  <2>1. CASE w.snap # NoSession
    BY <1>2, <2>1 DEF ItemInv, CopyIn, Back1
  <2>2. CASE w.snap = NoSession
    BY <1>0, <1>1, <1>2, <2>2 DEF SessionInv, Fits, Dated, Shows, Back1
  <2> QED BY <2>1, <2>2
<1>6. /\ f.term <= hold[f.inc].term
      /\ hold[f.inc].live /\ hold[f.inc].term = f.term => desk[f.inc] = f.desk
  BY <1>0, <1>1 DEF TakeInv
<1> HIDE DEF old
<1>7. /\ s \in Sessions /\ s.kind = old.kind /\ s.inc = old.inc /\ s.tok = old.tok /\ s.arg = old.arg
      /\ s.round = old.round /\ s.answer = old.answer /\ s.term = f.term
  BY <1>2, <1>4 DEF Sessions, PutBack, old
<1>8. frame'[u] = Idle
  BY <1>0, <1>1 DEF Types
<1> HIDE DEF s, f
<1>9. s.tok # 0 => ShownIn(cards, u, s.tok, s)
  BY <1>5, <1>7 DEF ShownIn
<1>10. Stored(u, f.desk, s)
  BY <1>1, <1>5, <1>6, <1>7, <1>8, <1>9 DEF Stored, incident
<1>11. CopyIn(cards, hold, round, answer, u, f.inc, f.desk, s)
  BY <1>5, <1>6, <1>7, <1>9 DEF CopyIn
<1> QED BY <1>1, <1>10, <1>11 DEF s, f

(* Taking work up: the rest.                                               *)
LEMMA RestoreMoves ==
  ASSUME Types, SessionInv, ItemTypes, ItemInv, TakeInv, NEW u \in Private, Restore(u)
  PROVE  OwnMoves
<1>0. u \in People
  BY PrivateOnes
<1>1. frame' = [frame EXCEPT ![u] = Idle] /\ UNCHANGED <<incident, screen, cards>>
  BY DEF Restore
<1>2. FrameTypes' /\ ScreenTypes' /\ NoNewRead /\ CardsGrow
  BY <1>1, CardsSame DEF FrameTypes, NoNewRead, Types, ScreenTypes, Idle
<1>3. Removes \/ \E v, d, s : v \in People /\ d \in AllDesks /\ Stored(v, d, s)
  <2>1. CASE Back1(u) = NoSession
    <3>1. UNCHANGED sess
      BY <2>1 DEF Restore, Back1
    <3> QED BY <3>1 DEF Removes, Types, TypeOK
  <2>2. CASE Back1(u) # NoSession
    <3>1. frame[u].desk \in AllDesks
      BY <1>0, FrameType DEF Restore, Takes
    <3> QED BY <1>0, <2>2, <3>1, RestoreStores
  <2> QED BY <2>1, <2>2
<1> QED BY <1>1, <1>2, <1>3, IncidentsStay DEF OwnMoves, Moves

(* A card the private dialogue shows.                                      *)
DraftCard(u, i, d, x) ==
  LET w == item[u][i][d]
      for == IF w.cycle = Unset THEN <<w.snap.round, w.snap.answer>> ELSE w.cycle IN
  [kind |-> w.snap.kind, inc |-> i, arg |-> x, answer |-> for[2],
   round |-> for[1], step |-> IF w.cycle = Unset THEN "early" ELSE "draft"]
LEMMA DraftShows ==
  ASSUME Types, ItemTypes, ItemInv, NEW u \in Private, NEW i \in Incidents, NEW d \in AllDesks,
         NEW x \in Args, SaveDraft(u, i, d, x)
  PROVE  /\ CardsGrow /\ Next1 \in 1..MaxCards /\ ShownIn(cards', u, Next1, DraftCard(u, i, d, x))
         /\ cards'[Next1].step = DraftCard(u, i, d, x).step
         /\ Desk(DraftCard(u, i, d, x).kind) = d
<1> DEFINE w == item[u][i][d]  c == DraftCard(u, i, d, x)
<1>1. Show(u, c, FALSE) /\ Len(cards) < MaxCards /\ w.snap # NoSession
  BY DEF SaveDraft, DraftCard
<1>2. w \in Items /\ w.snap \in Sessions
  BY <1>1, ItemType DEF Items
<1>3. /\ c.inc = i /\ c.arg = x /\ c.kind = w.snap.kind /\ c.step \in {"early", "draft"}
      /\ IF w.cycle = Unset THEN c.answer = w.snap.answer /\ c.round = w.snap.round
         ELSE c.answer = w.cycle[2] /\ c.round = w.cycle[1]
  BY DEF DraftCard
<1>4. w.cycle # Unset => w.cycle[1] \in 0..MaxRounds /\ w.cycle[2] \in 0..MaxAnswers
  BY <1>2 DEF Items, Cycles
<1>5. /\ w.snap.kind \in AllKinds /\ w.snap.round \in 0..MaxRounds /\ w.snap.answer \in 0..MaxAnswers
  BY <1>2 DEF Sessions
<1>6. Desk(w.snap.kind) = d
  BY <1>1 DEF ItemInv, CopyIn
<1> HIDE DEF c, w
<1>7. /\ c.inc \in Incidents /\ c.kind \in AllKinds /\ c.arg \in Args \cup {NoArg}
      /\ c.answer \in 0..MaxAnswers /\ c.round \in 0..MaxRounds /\ c.step \in CardSteps
  BY <1>3, <1>4, <1>5 DEF CardSteps
<1>8. CardsGrow /\ ShownIn(cards', u, Next1, c) /\ Next1 \in 1..MaxCards
  BY <1>1, <1>7, CardShown, PrivateOnes
<1>9. cards'[Next1].step = c.step
  BY <1>1 DEF Show, Next1, Types
<1> QED BY <1>3, <1>6, <1>8, <1>9 DEF c

(* The text that goes to the copy alone.                                   *)
CopyOf(u, i, d, x) == [item[u][i][d].snap EXCEPT !.step = "preview", !.arg = x, !.tok = Next1]
LEMMA TextShows ==
  ASSUME Types, ItemTypes, ItemInv, NEW u \in Private, NEW i \in Incidents, NEW d \in AllDesks,
         NEW x \in Args, CopyText(u, i, d, x)
  PROVE  /\ CardsGrow /\ CopyOf(u, i, d, x) \in Sessions
         /\ CopyIn(cards', hold, round, answer, u, i, d, CopyOf(u, i, d, x))
<1> DEFINE o == item[u][i][d].snap  s == CopyOf(u, i, d, x)
<1>1. Show(u, s, FALSE) /\ Len(cards) < MaxCards /\ o # NoSession
  BY DEF CopyText, CopyOf
<1>2. o \in Sessions
  BY <1>1, ItemType DEF Items
<1>3. Next1 \in 0..MaxCards
  BY <1>1, Bounds DEF Types, Next1
<1>4. CopyIn(cards, hold, round, answer, u, i, d, o)
  BY DEF ItemInv
<1> HIDE DEF o
<1>5. /\ s \in Sessions /\ s.kind = o.kind /\ s.inc = o.inc /\ s.tok = Next1 /\ s.arg = x
      /\ s.round = o.round /\ s.answer = o.answer /\ s.term = o.term /\ s.step = "preview"
  BY <1>2, <1>3 DEF Sessions, CopyOf, o
<1> HIDE DEF s
<1>6. /\ s.inc \in Incidents /\ s.kind \in AllKinds /\ s.arg \in Args \cup {NoArg}
      /\ s.answer \in 0..MaxAnswers /\ s.round \in 0..MaxRounds /\ s.step \in CardSteps
  BY <1>5 DEF Sessions, CardSteps
<1>7. CardsGrow /\ ShownIn(cards', u, Next1, s)
  BY <1>1, <1>6, CardShown, PrivateOnes
<1> QED BY <1>1, <1>4, <1>5, <1>7 DEF CopyIn, s

(* The second question before an approval.                                 *)
LEMMA ApproveShows ==
  ASSUME Types, NEW u \in Private, NEW i \in Incidents, NEW v \in 1..answer[i], Approve(u, i, v)
  PROVE  /\ CardsGrow /\ Next1 \in 1..MaxCards /\ v \in 0..MaxAnswers
         /\ PendingIn(cards', answer, u, i, "review", [answer |-> v, nonce |-> Next1])
<1> DEFINE c == [kind |-> "approve", inc |-> i, arg |-> NoArg, answer |-> answer[i],
              round |-> round[i], step |-> "pending"]
<1>1. Show(u, c, FALSE) /\ Len(cards) < MaxCards
  BY DEF Approve
<1>2. answer[i] \in 0..MaxAnswers /\ round[i] \in 0..MaxRounds
  BY DEF Types, TypeOK
<1>3. v \in 0..MaxAnswers /\ v <= answer[i]
  BY <1>2, Bounds
<1>4. /\ c.inc \in Incidents /\ c.kind \in AllKinds /\ c.arg \in Args \cup {NoArg}
      /\ c.answer \in 0..MaxAnswers /\ c.round \in 0..MaxRounds /\ c.step \in CardSteps
  BY <1>2 DEF AllKinds, CardSteps
<1>5. c.inc = i /\ c.kind = "approve" /\ c.arg = NoArg /\ c.answer = answer[i]
  OBVIOUS
<1> HIDE DEF c
<1>6. CardsGrow /\ ShownIn(cards', u, Next1, c) /\ Next1 \in 1..MaxCards
  BY <1>1, <1>4, CardShown, PrivateOnes
<1>7. answer[i] <= answer[i]
  BY <1>2
<1> QED BY <1>3, <1>5, <1>6, <1>7 DEF PendingIn, ShownIn

(* Giving up removes a session.                                            *)
LEMMA CancelMoves ==
  ASSUME Types, NEW u \in Private, NEW i \in Incidents, NEW d \in AllDesks, CancelWork(u, i, d)
  PROVE  OwnMoves
<1>1. Removes
  BY PrivateOnes DEF CancelWork, Removes, Types, TypeOK
<1>2. ScreenTypes'
  BY PrivateOnes DEF CancelWork, ScreenTypes, Types
<1>3. UNCHANGED <<incident, cards, frame>>
  BY DEF CancelWork
<1> QED BY <1>1, <1>2, <1>3, IncidentsStay, CardsSame DEF OwnMoves, Moves, FrameTypes, NoNewRead, Types

(* A private confirmation hands over a decision that is what the card says. *)
LEMMA ConfirmDecides ==
  ASSUME Types, SessionInv, ItemTypes, ItemInv, NEW u \in Private, NEW n \in DOMAIN cards, ConfirmWork(u, n)
  PROVE  /\ frame'[u] \in Applies /\ frame'[u].op = "apply" /\ frame'[u].card = n
         /\ frame' = [frame EXCEPT ![u] = frame'[u]]
         /\ Decided(answer, u, cards[n], frame'[u])
         /\ UNCHANGED <<incident, sess, screen, cards, item, selected>>
<1> DEFINE c == cards[n]  i == c.inc  d == Desk(c.kind)  w == item[u][i][d]  live == sess[u][d]
           f(s) == [op |-> "apply", card |-> n, s |-> s, round |-> round[i]]
           p == [kind |-> "approve", inc |-> i, term |-> hold[i].term, round |-> round[i],
                 answer |-> w.pend.answer, step |-> "preview", arg |-> NoArg,
                 tok |-> n, private |-> TRUE]
           l == [live EXCEPT !.arg = w.draft.arg]
<1>0. u \in People
  BY PrivateOnes
<1>1. /\ c \in CardRecords /\ i \in Incidents /\ c.kind \in AllKinds /\ n \in 1..MaxCards
      /\ d \in AllDesks
  BY CardType, KindChat
<1>2. w \in Items /\ round[i] \in 0..MaxRounds /\ answer[i] \in 0..MaxAnswers /\ hold[i].term \in 0..MaxTerms
  BY <1>1, ItemType DEF Types, TypeOK
<1>3. UNCHANGED <<incident, sess, screen, cards, item, selected>> /\ SameCycle(u, i, d)
  BY DEF ConfirmWork, Owns
<1>4. /\ DraftIn(cards, u, i, d, w.draft, w.cycle) /\ PendingIn(cards, answer, u, i, d, w.pend)
      /\ w.cycle = <<round[i], answer[i]>>
  BY <1>1, <1>3 DEF ItemInv, SameCycle, cycleOf
<1>5. n # 0 /\ n \in Nat
  BY <1>1, Bounds
<1>6. CASE w.pend.nonce = n /\ frame' = [frame EXCEPT ![u] = f(p)]
  <2>1. p \in Sessions
    BY <1>1, <1>2 DEF Sessions, AllKinds, Items
  <2>2. /\ c.by = u /\ c.kind = "approve" /\ c.arg = NoArg
        /\ w.pend.answer <= c.answer /\ c.answer <= answer[i]
    BY <1>4, <1>5, <1>6 DEF PendingIn
  <2>3. p.kind = "approve" /\ p.inc = i /\ p.arg = NoArg /\ p.answer = w.pend.answer
    OBVIOUS
  <2> HIDE DEF p
  <2>4. f(p) \in Applies
    BY <1>2, <1>5, <2>1 DEF Applies
  <2>5. Decided(answer, u, c, f(p))
    BY <2>2, <2>3 DEF Decided
  <2>6. frame'[u] = f(p) /\ f(p).card = n /\ f(p).op = "apply"
    BY <1>0, <1>6 DEF Types
  <2> HIDE DEF f, c
  <2> QED BY <1>3, <1>6, <2>4, <2>5, <2>6 DEF c
<1>7. CASE /\ DraftShown(w, n) /\ live # NoSession /\ live.inc = i /\ ~Obsolete(u, live)
           /\ frame' = [frame EXCEPT ![u] = f(l)]
  <2>1. live \in Sessions /\ Desk(live.kind) = d
    BY <1>0, <1>1, <1>7, SessionType DEF SessionInv, Fits
  <2>2. /\ c.by = u /\ c.arg = w.draft.arg
        /\ c.step = "draft" => c.round = round[i] /\ c.answer = answer[i]
        /\ c.step \in Drafts
    <3>1. w.draft.nonce = n /\ DraftIn(cards, u, i, d, w.draft, w.cycle)
      BY <1>4, <1>7 DEF DraftShown
    <3>2. c.by = u /\ c.arg = w.draft.arg /\ c.step \in Drafts
      BY <1>5, <3>1 DEF DraftIn
    <3>3. c.step = "draft" => w.cycle = <<c.round, c.answer>>
      BY <1>5, <3>1 DEF DraftIn
    <3>4. c.step = "draft" => <<c.round, c.answer>> = <<round[i], answer[i]>>
      BY <1>4, <3>3
    <3> HIDE DEF c, w, i
    <3> QED BY <3>2, <3>4
  <2>3. w.draft.arg \in Args \cup {NoArg}
    BY <1>2 DEF Items
  <2>4. Desk(live.kind) = "review" => live.answer = answer[i]
    BY <1>7 DEF Obsolete
  <2> HIDE DEF live
  <2>5. /\ l \in Sessions /\ l.kind = live.kind /\ l.inc = i /\ l.arg = w.draft.arg
        /\ l.answer = live.answer
    BY <1>7, <2>1, <2>3 DEF Sessions
  <2> HIDE DEF l
  <2>6. f(l) \in Applies
    BY <1>2, <1>5, <2>5 DEF Applies
  <2>7. Decided(answer, u, c, f(l))
    BY <2>1, <2>2, <2>4, <2>5 DEF Decided, Drafts
  <2>8. frame'[u] = f(l) /\ f(l).card = n /\ f(l).op = "apply"
    BY <1>0, <1>7 DEF Types
  <2> HIDE DEF f, c
  <2> QED BY <1>3, <1>7, <2>6, <2>7, <2>8 DEF c
<1> QED BY <1>6, <1>7 DEF ConfirmWork

(* All of them.                                                            *)
LEMMA OwnStep ==
  ASSUME Types, SessionInv, ItemTypes, ItemInv, TakeInv, OwnNext
  PROVE  OwnMoves
<1>1. ASSUME NEW u \in Private, NEW i \in Incidents, Adopt(u, i)
      PROVE  OwnMoves
  BY <1>1, OnlyCards, CardsSame DEF Adopt, vars
<1>2. ASSUME NEW u \in Private, NEW i \in Incidents, Reserve(u, i)
      PROVE  OwnMoves
  BY <1>2, ReserveMoves, PrivateOnes
<1>3. ASSUME NEW u \in Private, NEW i \in Incidents, NEW v \in 1..answer[i], Approve(u, i, v)
      PROVE  OwnMoves
  BY <1>3, ApproveShows, OnlyCards DEF Approve
<1>4. ASSUME NEW u \in Private, NEW i \in Incidents, NEW d \in AllDesks, Enter(u, i, d) \/ Back_(u, i, d)
      PROVE  OwnMoves
  BY <1>4, OnlyCards, CardsSame DEF Enter, Back_, vars
<1>5. ASSUME NEW u \in Private, NEW i \in Incidents, NEW d \in AllDesks, NEW x \in Args, SaveDraft(u, i, d, x)
      PROVE  OwnMoves
  BY <1>5, DraftShows, OnlyCards DEF SaveDraft
<1>6. ASSUME NEW u \in Private, NEW i \in Incidents, NEW d \in AllDesks, NEW x \in Args, CopyText(u, i, d, x)
      PROVE  OwnMoves
  BY <1>6, TextShows, OnlyCards DEF CopyText
<1>7. ASSUME NEW u \in Private, NEW n \in DOMAIN cards, ConfirmWork(u, n)
      PROVE  OwnMoves
  <2>1. /\ UNCHANGED <<incident, sess, screen, cards>> /\ frame'[u] \in Applies
        /\ frame' = [frame EXCEPT ![u] = frame'[u]] /\ frame'[u].op = "apply"
    BY <1>7, ConfirmDecides
  <2>2. Removes /\ CardsGrow /\ ScreenTypes'
    BY <2>1, CardsSame DEF Removes, Types, TypeOK, ScreenTypes
  <2>3. FrameTypes' /\ NoNewRead
    BY <2>1, PrivateOnes DEF FrameTypes, NoNewRead, Types
  <2> QED BY <2>1, <2>2, <2>3, IncidentsStay DEF OwnMoves, Moves
<1> QED BY <1>1, <1>2, <1>3, <1>4, <1>5, <1>6, <1>7, RestoreMoves, CancelMoves DEF OwnNext

-----------------------------------------------------------------------------
(* The parts of the invariant. *)

(* What take reads stays true, and it reads it when it reserves.           *)
LEMMA TakeStep ==
  ASSUME Types, Moves, TakeInv, FrameTypes',
         \A v \in People : frame'[v].op = "take" =>
           frame'[v] = frame[v] \/ \E i \in Incidents : Reserve(v, i)
  PROVE  TakeInv'
<1> SUFFICES ASSUME NEW u \in People, frame'[u].op = "take"
             PROVE  /\ frame'[u].term <= hold'[frame'[u].inc].term
                    /\ hold'[frame'[u].inc].live /\ hold'[frame'[u].inc].term = frame'[u].term =>
                         desk'[frame'[u].inc] = frame'[u].desk
  BY DEF TakeInv
<1>1. CASE frame'[u] = frame[u]
  <2> DEFINE f == frame[u]  j == f.inc
  <2>1. f \in Takes /\ j \in Incidents /\ f.term \in Nat
    BY <1>1, FrameType DEF Takes
  <2>2. hold[j].term \in Nat /\ hold'[j].term \in Nat /\ Progress(j)
    BY <2>1 DEF Moves, IncidentTypes, HoldRecords, Types, TypeOK
  <2>3. /\ f.term <= hold[j].term
        /\ hold[j].live /\ hold[j].term = f.term => desk[j] = f.desk
    BY <1>1 DEF TakeInv
  <2> HIDE DEF f, j
  <2>4. /\ f.term <= hold'[j].term
        /\ hold'[j].live /\ hold'[j].term = f.term => desk'[j] = f.desk
    BY <2>1, <2>2, <2>3 DEF Progress
  <2> QED BY <1>1, <2>4 DEF f, j
<1>2. CASE \E i \in Incidents : Reserve(u, i)
  <2>1. PICK i \in Incidents : Reserve(u, i)
    BY <1>2
  <2>2. /\ MayHold(u, i) /\ hold' = [hold EXCEPT ![i] = Grant(u, i)] /\ UNCHANGED desk
        /\ frame' = [frame EXCEPT ![u] = [op |-> "take", inc |-> i, desk |-> desk[i],
                                     term |-> Grant(u, i).term, cycle |-> cycleOf(i)]]
    BY <2>1 DEF Reserve
  <2>3. /\ frame'[u].inc = i /\ frame'[u].desk = desk[i] /\ frame'[u].term = Grant(u, i).term
        /\ hold'[i] = Grant(u, i)
    BY <2>2 DEF Types, TypeOK
  <2>4. Grant(u, i).term \in Nat
    BY <2>2, GrantType, Bounds
  <2> QED BY <2>2, <2>3, <2>4
<1> QED BY <1>1, <1>2

(* A decision under way stays what it is; a confirmation makes a new one.  *)
LEMMA DecisionStep ==
  ASSUME Types, SessionInv, Moves, DecisionInv,
         \A v \in People : frame'[v].op \in {"apply", "finish"} =>
           \/ frame'[v] = frame[v] \/ Apply(v)
           \/ \E n \in DOMAIN cards, p \in BOOLEAN : Confirm(v, n, p)
           \/ \E n \in DOMAIN cards : Decided(answer, v, cards[n], frame'[v]) /\ frame'[v].card = n
                                      /\ UNCHANGED <<cards, answer>>
  PROVE  DecisionInv'
<1> SUFFICES ASSUME NEW u \in People, frame'[u].op \in {"apply", "finish"}
             PROVE  frame'[u].card \in DOMAIN cards' /\ Decided(answer', u, cards'[frame'[u].card], frame'[u])
  BY DEF DecisionInv, Decided
<1>1. CardsGrow /\ IncidentTypes' /\ \A j \in Incidents : Progress(j)
  BY DEF Moves
<1>2. ASSUME frame[u].op \in {"apply", "finish"}, frame'[u].card = frame[u].card,
             frame'[u].s = frame[u].s, frame'[u].round = frame[u].round
      PROVE  frame'[u].card \in DOMAIN cards' /\ Decided(answer', u, cards'[frame'[u].card], frame'[u])
  <2> DEFINE n == frame[u].card  j == frame[u].s.inc
  <2>1. n \in DOMAIN cards /\ Decided(answer, u, cards[n], frame[u])
    BY <1>2 DEF DecisionInv
  <2>2. n \in DOMAIN cards' /\ SameCard(cards[n], cards'[n]) /\ cards[n] \in CardRecords
    BY <1>1, <2>1, CardType DEF CardsGrow
  <2>3. j \in Incidents /\ frame[u].s.answer \in Nat /\ cards[n].answer \in Nat
    BY <1>2, <2>2, FrameType DEF Applies, Sessions, CardRecords
  <2>4. answer[j] \in Nat /\ answer'[j] \in Nat /\ answer[j] <= answer'[j]
    BY <1>1, <2>3 DEF Types, TypeOK, IncidentTypes, Progress
  <2> QED BY <1>2, <2>1, <2>2, <2>3, <2>4 DEF Decided, SameCard
<1>3. CASE frame'[u] = frame[u]
  BY <1>2, <1>3
<1>4. CASE Apply(u)
  <2>1. frame[u] \in Applies /\ frame[u].op = "apply" /\ frame' = [frame EXCEPT ![u].op = "finish"]
    BY <1>4, FrameType DEF Apply
  <2>2. frame'[u] = [frame[u] EXCEPT !.op = "finish"]
    BY <2>1 DEF Types
  <2> QED BY <1>2, <2>1, <2>2 DEF Applies
<1>5. ASSUME NEW n \in DOMAIN cards, NEW p \in BOOLEAN, Confirm(u, n, p)
      PROVE  frame'[u].card \in DOMAIN cards' /\ Decided(answer', u, cards'[frame'[u].card], frame'[u])
  <2> DEFINE d == Desk(cards[n].kind)  s == sess[u][d]
  <2>1. d \in AllDesks /\ n # 0
    BY CardType, KindChat, Bounds
  <2>2. /\ frame'[u] = [op |-> "apply", card |-> n, s |-> s, round |-> round[s.inc]]
        /\ s # NoSession /\ s.tok = n /\ ~Obsolete(u, s)
    BY <1>5 DEF Confirm, Matches, Types
  <2>3. Fits(u, d, s)
    BY <2>1, <2>2 DEF SessionInv
  <2>4. ShownIn(cards', u, n, s)
    BY <1>1, <2>1, <2>2, <2>3, ShowsOn DEF Fits
  <2>5. s.kind = "answer" => round[s.inc] = s.round
    BY <2>2 DEF Obsolete, Desk
  <2> QED BY <2>2, <2>4, <2>5 DEF ShownIn, Decided
<1>6. ASSUME NEW n \in DOMAIN cards, Decided(answer, u, cards[n], frame'[u]), frame'[u].card = n,
             UNCHANGED <<cards, answer>>
      PROVE  frame'[u].card \in DOMAIN cards' /\ Decided(answer', u, cards'[frame'[u].card], frame'[u])
  BY <1>6
<1> QED BY <1>3, <1>4, <1>5, <1>6

(* What may become of an item.                                             *)
ItemMoves(u, i, d) ==
  LET w == item[u][i][d] v == item'[u][i][d] IN
  /\ v.snap \in {w.snap, NoSession} \/ CopyIn(cards', hold', round', answer', u, i, d, v.snap)
  /\ \/ v.draft = w.draft /\ (v.cycle = w.cycle \/ w.cycle = Unset)
     \/ v.draft.nonce = 0 \/ DraftIn(cards', u, i, d, v.draft, v.cycle)
  /\ v.pend = w.pend \/ v.pend.nonce = 0 \/ PendingIn(cards', answer', u, i, d, v.pend)

(* An item that makes no other moves goes on fitting.                      *)
LEMMA ItemStep ==
  ASSUME Types, Moves, ItemTypes, ItemInv,
         \A u \in Private, i \in Incidents, d \in AllDesks : ItemMoves(u, i, d)
  PROVE  ItemInv'
<1> SUFFICES ASSUME NEW u \in Private, NEW i \in Incidents, NEW d \in AllDesks
             PROVE  /\ CopyIn(cards', hold', round', answer', u, i, d, item'[u][i][d].snap)
                    /\ DraftIn(cards', u, i, d, item'[u][i][d].draft, item'[u][i][d].cycle)
                    /\ PendingIn(cards', answer', u, i, d, item'[u][i][d].pend)
  BY DEF ItemInv
<1> DEFINE w == item[u][i][d]  v == item'[u][i][d]
<1>1. /\ CopyIn(cards, hold, round, answer, u, i, d, w.snap)
      /\ DraftIn(cards, u, i, d, w.draft, w.cycle) /\ PendingIn(cards, answer, u, i, d, w.pend)
  BY DEF ItemInv
<1>2. w \in Items /\ CardsGrow /\ IncidentTypes' /\ Progress(i)
  BY ItemType DEF Moves
<1>3. /\ hold[i].term \in Nat /\ round[i] \in Nat /\ answer[i] \in Nat
      /\ hold'[i].term \in Nat /\ round'[i] \in Nat /\ answer'[i] \in Nat
      /\ hold[i].term <= hold'[i].term /\ round[i] <= round'[i] /\ answer[i] <= answer'[i]
  BY <1>2 DEF Types, TypeOK, IncidentTypes, HoldRecords, Progress
<1>4. ItemMoves(u, i, d)
  OBVIOUS
<1>5. /\ v.snap \in {w.snap, NoSession} \/ CopyIn(cards', hold', round', answer', u, i, d, v.snap)
      /\ \/ v.draft = w.draft /\ (v.cycle = w.cycle \/ w.cycle = Unset)
         \/ v.draft.nonce = 0 \/ DraftIn(cards', u, i, d, v.draft, v.cycle)
      /\ v.pend = w.pend \/ v.pend.nonce = 0 \/ PendingIn(cards', answer', u, i, d, v.pend)
  BY <1>4 DEF ItemMoves
<1> HIDE DEF w, v
<1>6. CopyIn(cards', hold', round', answer', u, i, d, v.snap)
  <2>1. CASE v.snap = w.snap /\ w.snap # NoSession
    <3>1. w.snap \in Sessions
      BY <1>2, <2>1 DEF Items
    <3>2. w.snap.term \in Nat /\ w.snap.round \in Nat /\ w.snap.answer \in Nat
      BY <3>1 DEF Sessions
    <3>3. w.snap.tok # 0 => ShownIn(cards', u, w.snap.tok, w.snap)
      BY <1>1, <1>2, <2>1, ShowsOn DEF CopyIn, Shows
    <3> QED BY <1>1, <1>3, <2>1, <3>2, <3>3 DEF CopyIn
  <2>2. CASE v.snap = NoSession
    BY <2>2 DEF CopyIn
  <2> QED BY <1>5, <2>1, <2>2
<1>7. DraftIn(cards', u, i, d, v.draft, v.cycle)
  <2>1. CASE v.draft = w.draft /\ w.draft.nonce # 0 /\ (v.cycle = w.cycle \/ w.cycle = Unset)
    <3> DEFINE n == w.draft.nonce
    <3>1. /\ n \in DOMAIN cards /\ cards[n].by = u /\ cards[n].inc = i /\ Desk(cards[n].kind) = d
          /\ cards[n].arg = w.draft.arg /\ cards[n].step \in Drafts
          /\ cards[n].step = "draft" => w.cycle = <<cards[n].round, cards[n].answer>>
      BY <1>1, <2>1 DEF DraftIn
    <3>2. n \in DOMAIN cards' /\ SameCard(cards[n], cards'[n])
      BY <1>2, <3>1 DEF CardsGrow
    <3>3. cards[n].step = "draft" => v.cycle = <<cards[n].round, cards[n].answer>>
      <4>1. <<cards[n].round, cards[n].answer>> # Unset
        BY DEF Unset
      <4> QED BY <2>1, <3>1, <4>1
    <3> QED BY <2>1, <3>1, <3>2, <3>3 DEF DraftIn, SameCard
  <2>2. CASE v.draft.nonce = 0
    BY <2>2 DEF DraftIn
  <2> QED BY <1>5, <2>1, <2>2
<1>8. PendingIn(cards', answer', u, i, d, v.pend)
  <2>1. CASE v.pend = w.pend /\ w.pend.nonce # 0
    <3> DEFINE n == w.pend.nonce
    <3>1. /\ d = "review" /\ n \in DOMAIN cards /\ cards[n].by = u /\ cards[n].inc = i
          /\ cards[n].kind = "approve" /\ cards[n].arg = NoArg
          /\ w.pend.answer <= cards[n].answer /\ cards[n].answer <= answer[i]
      BY <1>1, <2>1 DEF PendingIn
    <3>2. n \in DOMAIN cards' /\ SameCard(cards[n], cards'[n]) /\ cards[n].answer \in Nat
      BY <1>2, <3>1, CardType DEF CardsGrow, CardRecords
    <3> QED BY <1>3, <2>1, <3>1, <3>2 DEF PendingIn, SameCard
  <2>2. CASE v.pend.nonce = 0
    BY <2>2 DEF PendingIn
  <2> QED BY <1>5, <2>1, <2>2
<1> QED BY <1>6, <1>7, <1>8 DEF v

(* One item is written.                                                    *)
LEMMA OneItem ==
  ASSUME ItemTypes, NEW u \in Private, NEW i \in Incidents, NEW d \in AllDesks, NEW w \in Items,
         item' = [item EXCEPT ![u][i][d] = w],
         \/ w.snap \in {item[u][i][d].snap, NoSession}
         \/ CopyIn(cards', hold', round', answer', u, i, d, w.snap),
         \/ w.draft = item[u][i][d].draft /\ (w.cycle = item[u][i][d].cycle \/ item[u][i][d].cycle = Unset)
         \/ w.draft.nonce = 0 \/ DraftIn(cards', u, i, d, w.draft, w.cycle),
         \/ w.pend = item[u][i][d].pend \/ w.pend.nonce = 0 \/ PendingIn(cards', answer', u, i, d, w.pend)
  PROVE  ItemTypes' /\ \A v \in Private, j \in Incidents, e \in AllDesks : ItemMoves(v, j, e)
<1>1. ItemTypes'
  BY DEF ItemTypes
<1>2. \A v \in Private, j \in Incidents, e \in AllDesks :
        item'[v][j][e] = IF v = u /\ j = i /\ e = d THEN w ELSE item[v][j][e]
  BY DEF ItemTypes
<1>3. ASSUME NEW v \in Private, NEW j \in Incidents, NEW e \in AllDesks
      PROVE  ItemMoves(v, j, e)
  <2>1. CASE v = u /\ j = i /\ e = d
    <3>1. item'[u][i][d] = w
      BY <1>2
    <3> QED BY <2>1, <3>1 DEF ItemMoves
  <2>2. CASE ~(v = u /\ j = i /\ e = d)
    BY <1>2, <2>2 DEF ItemMoves
  <2> QED BY <2>1, <2>2
<1> QED BY <1>1, <1>3

(* None is.                                                                *)
LEMMA NoItem ==
  ASSUME ItemTypes, UNCHANGED item
  PROVE  ItemTypes' /\ \A v \in Private, j \in Incidents, e \in AllDesks : ItemMoves(v, j, e)
BY DEF ItemTypes, ItemMoves

(* Items that start afresh.                                                *)
LEMMA BlankType ==
  ASSUME NEW c \in {Unset} \cup Cycles
  PROVE  /\ Blank(c) \in Items /\ Blank(c).snap = NoSession /\ Blank(c).draft.nonce = 0
         /\ Blank(c).pend.nonce = 0 /\ Blank(c).cycle = c
         /\ Absent \in Items /\ Absent.snap = NoSession /\ Absent.draft.nonce = 0 /\ Absent.pend.nonce = 0
<1>1. NoDraft \in [arg : Args \cup {NoArg}, nonce : 0..MaxCards] /\ NoDraft.nonce = 0
      /\ NoPending \in [answer : 0..MaxAnswers, nonce : 0..MaxCards] /\ NoPending.nonce = 0
  BY Bounds DEF NoDraft, NoPending
<1>2. \A e \in {Unset} \cup Cycles :
        /\ Blank(e) \in Items /\ Blank(e).snap = NoSession /\ Blank(e).draft = NoDraft
        /\ Blank(e).pend = NoPending /\ Blank(e).cycle = e
  BY <1>1 DEF Blank, Items
<1>3. Absent \in Items /\ Absent.snap = NoSession /\ Absent.draft = NoDraft /\ Absent.pend = NoPending
  <2>1. Blank(Unset) \in Items /\ Blank(Unset).snap = NoSession /\ Blank(Unset).draft = NoDraft
        /\ Blank(Unset).pend = NoPending
    BY <1>2
  <2> QED BY <2>1 DEF Absent, Items
<1> QED BY <1>1, <1>2, <1>3

(* A session is copied.                                                    *)
LEMMA CopyStep ==
  ASSUME ItemTypes, Types', SessionInv', NEW u \in Private, NEW i \in Incidents, NEW d \in AllDesks,
         Copied(u, i, d) \/ UNCHANGED item
  PROVE  ItemTypes' /\ \A v \in Private, j \in Incidents, e \in AllDesks : ItemMoves(v, j, e)
<1> DEFINE s == sess'[u][d]  w == item[u][i][d]
<1>1. CASE s # NoSession /\ s.inc = i /\ item' = [item EXCEPT ![u][i][d].snap = s]
  <2>1. s \in Sessions
    BY <1>1, PrivateOnes DEF Types, TypeOK
  <2>2. (Fits(u, d, sess[u][d]) /\ Dated(sess[u][d]))'
    BY <1>1, PrivateOnes DEF SessionInv
  <2>3. CopyIn(cards', hold', round', answer', u, i, d, s)
    BY <1>1, <2>2 DEF Fits, Dated, Shows, CopyIn
  <2> HIDE DEF s
  <2>4. w \in Items /\ item' = [item EXCEPT ![u][i][d] = [w EXCEPT !.snap = s]]
    BY <1>1, ItemType
  <2>5. [w EXCEPT !.snap = s] \in Items /\ [w EXCEPT !.snap = s].snap = s
        /\ [w EXCEPT !.snap = s].draft = w.draft /\ [w EXCEPT !.snap = s].cycle = w.cycle
        /\ [w EXCEPT !.snap = s].pend = w.pend
    BY <2>1, <2>4 DEF Items
  <2> QED BY <2>3, <2>4, <2>5, OneItem
<1>2. CASE UNCHANGED item
  BY <1>2, NoItem
<1> QED BY <1>1, <1>2 DEF Copied

(* What each step does to the items.                                       *)
LEMMA ItemsOfWork ==
  ASSUME Types, SessionInv, ItemTypes, ItemInv, TakeInv, Moves, Types', SessionInv', WorkNext
  PROVE  ItemTypes' /\ \A v \in Private, j \in Incidents, e \in AllDesks : ItemMoves(v, j, e)
<1> DEFINE Goal == ItemTypes' /\ \A v \in Private, j \in Incidents, e \in AllDesks : ItemMoves(v, j, e)
<1>1. CASE UNCHANGED item
  BY <1>1, NoItem
<1>2. ASSUME NEW u \in People, Applied(u)
      PROVE  Goal
  <2> DEFINE s == frame[u].s  c == <<round[s.inc], answer[s.inc] + 1>>
  <2>1. s \in Sessions /\ s.inc \in Incidents /\ s.kind \in AllKinds
    BY <1>2, FrameType DEF Applied, Apply, Applies, Sessions
  <2>2. s.kind = "edit" => c \in Cycles
    <3>1. s.kind = "edit" => answer[s.inc] < MaxAnswers
      BY <1>2 DEF Applied, Apply
    <3> HIDE DEF s
    <3>2. answer[s.inc] \in 0..MaxAnswers /\ round[s.inc] \in 0..MaxRounds
      BY <2>1 DEF Types, TypeOK
    <3> QED BY <3>1, <3>2, Bounds DEF Cycles
  <2>3. CASE s.kind = "reject"
    <3>1. item' = [v \in Private |-> [item[v] EXCEPT ![s.inc] = [d \in AllDesks |-> Absent]]]
      BY <1>2, <2>3 DEF Applied
    <3> HIDE DEF s
    <3>2. Absent \in Items /\ Absent.snap = NoSession /\ Absent.draft.nonce = 0 /\ Absent.pend.nonce = 0
      BY BlankType
    <3>3. \A v \in Private, j \in Incidents, e \in AllDesks :
            item'[v][j][e] = IF j = s.inc THEN Absent ELSE item[v][j][e]
      BY <2>1, <3>1 DEF ItemTypes
    <3>4. ItemTypes'
      BY <2>1, <3>1, <3>2 DEF ItemTypes
    <3>5. ASSUME NEW v \in Private, NEW j \in Incidents, NEW e \in AllDesks
          PROVE  ItemMoves(v, j, e)
      <4>1. CASE j = s.inc
        BY <3>2, <3>3, <4>1 DEF ItemMoves
      <4>2. CASE j # s.inc
        BY <3>3, <4>2 DEF ItemMoves
      <4> QED BY <4>1, <4>2
    <3> QED BY <3>4, <3>5
  <2>4. CASE s.kind = "edit" /\ s.private /\ u \in Private
    <3>1. item' = [item EXCEPT ![u][s.inc]["review"] = IF @.on THEN Blank(c) ELSE @]
      BY <1>2, <2>4 DEF Applied
    <3> HIDE DEF s, c
    <3>2. "review" \in AllDesks
      BY DEF AllDesks
    <3>3. item[u][s.inc]["review"] \in Items
      BY <2>1, <2>4, <3>2, ItemType
    <3>4. CASE item[u][s.inc]["review"].on
      <4>1. item' = [item EXCEPT ![u][s.inc]["review"] = Blank(c)]
        BY <3>1, <3>4
      <4>2. Blank(c) \in Items /\ Blank(c).snap = NoSession /\ Blank(c).draft.nonce = 0 /\ Blank(c).pend.nonce = 0
        BY <2>2, <2>4, BlankType
      <4> QED BY <2>1, <2>4, <3>2, <4>1, <4>2, OneItem
    <3>5. CASE ~item[u][s.inc]["review"].on
      <4>1. item' = item
        BY <2>1, <2>4, <3>1, <3>2, <3>5 DEF ItemTypes
      <4> QED BY <1>1, <4>1
    <3> QED BY <3>4, <3>5
  <2>5. CASE s.kind # "reject" /\ ~(s.kind = "edit" /\ s.private /\ u \in Private)
    <3>1. item' = item
      BY <1>2, <2>5 DEF Applied
    <3> QED BY <1>1, <3>1
  <2> QED BY <2>3, <2>4, <2>5
<1>3. ASSUME NEW u \in People, Finished(u)
      PROVE  Goal
  <2> DEFINE f == frame[u]  i == f.s.inc  d == Desk(f.s.kind)  w == item[u][i][d]
  <2>1. i \in Incidents /\ d \in AllDesks
    <3>1. f.s \in Sessions
      BY <1>3, FrameType DEF Finished, Finish, Applies
    <3>2. i \in Incidents /\ f.s.kind \in AllKinds
      BY <3>1 DEF Sessions
    <3> QED BY <3>2, KindChat
  <2>2. CASE u \in Private /\ cards[f.card].step \in Drafts
    <3>1. item' = [item EXCEPT ![u][i][d] = IF w.on THEN Blank(w.cycle) ELSE w]
      BY <1>3, <2>2 DEF Finished, Drafts
    <3>2. w \in Items
      BY <2>1, <2>2, ItemType
    <3> HIDE DEF f, i, d, w
    <3>3. w.cycle \in {Unset} \cup Cycles
      BY <3>2 DEF Items
    <3>4. Blank(w.cycle) \in Items /\ Blank(w.cycle).snap = NoSession
          /\ Blank(w.cycle).draft.nonce = 0 /\ Blank(w.cycle).pend.nonce = 0
      BY <3>3, BlankType
    <3> DEFINE v == IF w.on THEN Blank(w.cycle) ELSE w
    <3>5. /\ v \in Items /\ v.snap \in {w.snap, NoSession}
          /\ (v.draft = w.draft /\ v.cycle = w.cycle) \/ v.draft.nonce = 0
          /\ v.pend = w.pend \/ v.pend.nonce = 0
      BY <3>2, <3>4
    <3> HIDE DEF v
    <3>6. item' = [item EXCEPT ![u][i][d] = v]
      BY <3>1 DEF v
    <3> QED BY <2>1, <2>2, <3>5, <3>6, OneItem DEF w
  <2>3. CASE u \in Private /\ cards[f.card].step = "pending"
    <3>1. item' = [item EXCEPT ![u][i][d].pend = NoPending]
      BY <1>3, <2>3 DEF Finished, Drafts
    <3>2. w \in Items
      BY <2>1, <2>3, ItemType
    <3> HIDE DEF f, i, d
    <3> DEFINE v == [w EXCEPT !.pend = NoPending]
    <3>3. item' = [item EXCEPT ![u][i][d] = v]
      BY <3>1
    <3> HIDE DEF w
    <3>4. v \in Items /\ v.snap = w.snap /\ v.draft = w.draft /\ v.cycle = w.cycle /\ v.pend.nonce = 0
      BY <3>2, Bounds DEF Items, NoPending
    <3> HIDE DEF v
    <3> QED BY <2>1, <2>3, <3>3, <3>4, OneItem DEF w
  <2>4. CASE u \notin Private \/ cards[f.card].step \notin Drafts \cup {"pending"}
    <3>1. item' = item
      BY <1>3, <2>4 DEF Finished
    <3> QED BY <1>1, <3>1
  <2> QED BY <2>2, <2>3, <2>4
<1>4. ASSUME NEW u \in Private, Restore(u)
      PROVE  Goal
  <2> DEFINE f == frame[u]  i == f.inc  d == f.desk  w == item[u][i][d]
  <2>1. f \in Takes /\ i \in Incidents /\ d \in AllDesks /\ f.cycle \in Cycles
    <3>1. f \in Takes
      BY <1>4, FrameType, PrivateOnes DEF Restore
    <3> HIDE DEF f
    <3> QED BY <3>1 DEF Takes
  <2>2. w \in Items /\ ~Outdated(w, f.cycle)
    BY <1>4, <2>1, ItemType DEF Restore
  <2>3. w.draft # NoDraft => w.cycle \in {Unset, f.cycle}
    BY <2>2 DEF Outdated
  <2>4. w.draft.nonce # 0 => w.draft # NoDraft
    BY DEF NoDraft
  <2>5. CASE Back1(u) = NoSession
    <3> DEFINE v == [w EXCEPT !.cycle = f.cycle]
    <3>1. item' = [item EXCEPT ![u][i][d] = v]
      BY <1>4, <2>5 DEF Restore, Back1, Keep
    <3> HIDE DEF w, f, i, d
    <3>2. v \in Items /\ v.snap = w.snap /\ v.draft = w.draft /\ v.cycle = f.cycle /\ v.pend = w.pend
      BY <2>1, <2>2 DEF Items
    <3> HIDE DEF v
    <3>3. (v.draft = w.draft /\ (v.cycle = w.cycle \/ w.cycle = Unset)) \/ v.draft.nonce = 0
      BY <2>3, <2>4, <3>2
    <3> QED BY <2>1, <3>1, <3>2, <3>3, OneItem DEF w
  <2>6. CASE Back1(u) # NoSession
    <3> DEFINE s == PutBack(u)  v == [w EXCEPT !.cycle = f.cycle, !.snap = s]
    <3>1. item' = [item EXCEPT ![u][i][d] = v]
      BY <1>4, <2>6 DEF Restore, Back1, PutBack, Keep
    <3>2. Stored(u, d, s) /\ UNCHANGED <<incident, cards>> /\ CopyIn(cards, hold, round, answer, u, i, d, s)
      BY <1>4, <2>6, RestoreStores
    <3>3. s \in Sessions /\ CopyIn(cards', hold', round', answer', u, i, d, s)
      <4> HIDE DEF s, f, i, d
      <4> QED BY <3>2 DEF Stored, incident
    <3> HIDE DEF w, f, i, d, s
    <3>4. v \in Items /\ v.snap = s /\ v.draft = w.draft /\ v.cycle = f.cycle /\ v.pend = w.pend
      BY <2>1, <2>2, <3>3 DEF Items
    <3> HIDE DEF v
    <3>5. (v.draft = w.draft /\ (v.cycle = w.cycle \/ w.cycle = Unset)) \/ v.draft.nonce = 0
      BY <2>3, <2>4, <3>4
    <3> QED BY <2>1, <3>1, <3>3, <3>4, <3>5, OneItem DEF w
  <2> QED BY <2>5, <2>6
<1>5. ASSUME NEW u \in Private, Started(u)
      PROVE  Goal
  <2>1. frame[u].inc \in Incidents /\ Desk(frame[u].kind) \in AllDesks
    BY <1>5, FrameType, KindChat, PrivateOnes DEF Started, Opens
  <2> QED BY <1>5, <2>1, CopyStep DEF Started
<1>6. ASSUME NEW u \in Private, NEW i \in Incidents, OnWork(u, i)
      PROVE  Goal
  <2>1. CASE Adopt(u, i) \/ (Reserve(u, i) /\ item' # item)
    <3>1. item' = [item EXCEPT ![u][i][desk[i]] = Blank(Unset)] /\ desk[i] # "done"
      BY <2>1 DEF Adopt, Reserve, Keep
    <3>2. desk[i] \in AllDesks
      BY <3>1 DEF Types, TypeOK
    <3>3. Blank(Unset) \in Items /\ Blank(Unset).snap = NoSession /\ Blank(Unset).draft.nonce = 0 /\ Blank(Unset).pend.nonce = 0
      BY BlankType
    <3> QED BY <3>1, <3>2, <3>3, OneItem
  <2>2. ASSUME NEW x \in 1..answer[i], Approve(u, i, x)
        PROVE  Goal
    <3> DEFINE w == item[u][i]["review"]  v == [w EXCEPT !.pend = [answer |-> x, nonce |-> Next1]]
    <3>1. item' = [item EXCEPT ![u][i]["review"] = v] /\ UNCHANGED answer
      BY <2>2 DEF Approve, Keep, incident
    <3>2. "review" \in AllDesks /\ w \in Items
      BY ItemType DEF AllDesks
    <3>3. /\ Next1 \in 1..MaxCards /\ x \in 0..MaxAnswers
          /\ PendingIn(cards', answer, u, i, "review", [answer |-> x, nonce |-> Next1])
      BY <2>2, ApproveShows
    <3>4. [answer |-> x, nonce |-> Next1] \in [answer : 0..MaxAnswers, nonce : 0..MaxCards]
      BY <3>3, Bounds
    <3> HIDE DEF w
    <3>5. v \in Items /\ v.snap = w.snap /\ v.draft = w.draft /\ v.cycle = w.cycle
          /\ v.pend = [answer |-> x, nonce |-> Next1]
      BY <3>2, <3>4 DEF Items
    <3> HIDE DEF v
    <3>6. PendingIn(cards', answer', u, i, "review", v.pend)
      BY <3>1, <3>3, <3>5
    <3> QED BY <3>1, <3>2, <3>5, <3>6, OneItem DEF w
  <2> QED BY <1>1, <1>6, <2>1, <2>2 DEF OnWork, Start
<1>7. ASSUME NEW u \in Private, NEW i \in Incidents, NEW d \in AllDesks, OnItem(u, i, d)
      PROVE  Goal
  <2> DEFINE w == item[u][i][d]
  <2>0. w \in Items
    BY ItemType
  <2>1. CASE Back_(u, i, d)
    <3>1. CASE item' = [item EXCEPT ![u][i][d] = [w EXCEPT !.pend = NoPending]]
      <4> DEFINE v == [w EXCEPT !.pend = NoPending]
      <4>1. item' = [item EXCEPT ![u][i][d] = v]
        BY <3>1
      <4> HIDE DEF w
      <4>2. v \in Items /\ v.snap = w.snap /\ v.draft = w.draft /\ v.cycle = w.cycle /\ v.pend.nonce = 0
        BY <2>0, Bounds DEF Items, NoPending
      <4> HIDE DEF v
      <4> QED BY <4>1, <4>2, OneItem DEF w
    <3>2. CASE item' = [item EXCEPT ![u][i][d] = [w EXCEPT !.draft.nonce = 0]]
      <4> DEFINE v == [w EXCEPT !.draft.nonce = 0]
      <4>1. item' = [item EXCEPT ![u][i][d] = v]
        BY <3>2
      <4> HIDE DEF w
      <4>2. v \in Items /\ v.snap = w.snap /\ v.draft.nonce = 0 /\ v.cycle = w.cycle /\ v.pend = w.pend
        BY <2>0, Bounds DEF Items
      <4> HIDE DEF v
      <4> QED BY <4>1, <4>2, OneItem DEF w
    <3> QED BY <2>1, <3>1, <3>2 DEF Back_, Keep
  <2>2. CASE CancelWork(u, i, d)
    <3>1. item' = [item EXCEPT ![u][i][d] = Blank(cycleOf(i))]
      BY <2>2 DEF CancelWork, Keep
    <3>2. cycleOf(i) \in Cycles
      BY DEF cycleOf, Cycles, Types, TypeOK
    <3>3. /\ Blank(cycleOf(i)) \in Items /\ Blank(cycleOf(i)).snap = NoSession
          /\ Blank(cycleOf(i)).draft.nonce = 0 /\ Blank(cycleOf(i)).pend.nonce = 0
      BY <3>2, BlankType
    <3> QED BY <3>1, <3>3, OneItem
  <2>3. CASE ReleaseWork(u, i, d)
    <3> DEFINE s == sess[u][d]  v == [w EXCEPT !.snap = s]
    <3>1. CASE s # NoSession /\ s.inc = i
      <4>1. item' = [item EXCEPT ![u][i][d] = v]
        BY <2>3, <3>1 DEF ReleaseWork
      <4>2. s \in Sessions /\ Desk(s.kind) = d /\ Dated(s) /\ Fits(u, d, s)
        BY <3>1, SessionType, PrivateOnes DEF SessionInv, Fits
      <4>3. CardsGrow /\ IncidentTypes' /\ Progress(i)
        BY DEF Moves
      <4>4. /\ hold[i].term \in Nat /\ round[i] \in Nat /\ answer[i] \in Nat
            /\ hold'[i].term \in Nat /\ round'[i] \in Nat /\ answer'[i] \in Nat
            /\ hold[i].term <= hold'[i].term /\ round[i] <= round'[i] /\ answer[i] <= answer'[i]
        BY <4>3 DEF Types, TypeOK, IncidentTypes, HoldRecords, Progress
      <4> HIDE DEF s, w
      <4>5. s.tok # 0 => ShownIn(cards', u, s.tok, s)
        BY <4>2, <4>3, ShowsOn DEF Fits
      <4>6. s.term \in Nat /\ s.round \in Nat /\ s.answer \in Nat
        BY <4>2 DEF Sessions
      <4>7. CopyIn(cards', hold', round', answer', u, i, d, s)
        BY <3>1, <4>2, <4>4, <4>5, <4>6 DEF CopyIn, Dated
      <4>8. v \in Items /\ v.snap = s /\ v.draft = w.draft /\ v.cycle = w.cycle /\ v.pend = w.pend
        BY <2>0, <4>2 DEF Items
      <4> HIDE DEF v
      <4> QED BY <4>1, <4>7, <4>8, OneItem DEF w
    <3>2. CASE ~(s # NoSession /\ s.inc = i)
      BY <1>1, <2>3, <3>2 DEF ReleaseWork
    <3> QED BY <3>1, <3>2
  <2>4. ASSUME NEW x \in Args, SaveDraft(u, i, d, x)
        PROVE  Goal
    <3> DEFINE g == [arg |-> x, nonce |-> Next1]  v == [w EXCEPT !.draft = g]  c == DraftCard(u, i, d, x)
    <3>1. item' = [item EXCEPT ![u][i][d] = v]
      BY <2>4 DEF SaveDraft, Keep
    <3>2. /\ Next1 \in 1..MaxCards /\ ShownIn(cards', u, Next1, c)
          /\ cards'[Next1].step = c.step /\ Desk(c.kind) = d
      BY <2>4, DraftShows
    <3>3. /\ c.inc = i /\ c.arg = x /\ c.step \in Drafts
          /\ c.step = "draft" => w.cycle # Unset /\ c.answer = w.cycle[2] /\ c.round = w.cycle[1]
      BY DEF DraftCard, Drafts
    <3>4. g \in [arg : Args \cup {NoArg}, nonce : 0..MaxCards] /\ g.arg = x /\ g.nonce = Next1
      BY <3>2, Bounds
    <3> HIDE DEF w, g, c
    <3>5. v \in Items /\ v.snap = w.snap /\ v.draft = g /\ v.cycle = w.cycle /\ v.pend = w.pend
      BY <2>0, <3>4 DEF Items
    <3>6. c.step = "draft" => w.cycle = <<c.round, c.answer>>
      BY <2>0, <3>3 DEF Items, Cycles
    <3>7. DraftIn(cards', u, i, d, g, w.cycle)
      BY <3>2, <3>3, <3>4, <3>6 DEF DraftIn, ShownIn
    <3> HIDE DEF v
    <3> QED BY <3>1, <3>5, <3>7, OneItem DEF w
  <2>5. ASSUME NEW x \in Args, SaveText(u, i, d, x)
        PROVE  Goal
    <3>1. CASE Copied(u, i, d)
      BY <3>1, CopyStep
    <3>2. CASE CopyText(u, i, d, x)
      <4> DEFINE s == CopyOf(u, i, d, x)  v == [w EXCEPT !.snap = s]
      <4>1. item' = [item EXCEPT ![u][i][d] = v] /\ UNCHANGED <<hold, round, answer>>
        BY <3>2 DEF CopyText, CopyOf, Keep, incident
      <4>2. s \in Sessions /\ CopyIn(cards', hold', round', answer', u, i, d, s)
        BY <3>2, <4>1, TextShows
      <4> HIDE DEF s, w
      <4>3. v \in Items /\ v.snap = s /\ v.draft = w.draft /\ v.cycle = w.cycle /\ v.pend = w.pend
        BY <2>0, <4>2 DEF Items
      <4> HIDE DEF v
      <4> QED BY <4>1, <4>2, <4>3, OneItem DEF w
    <3> QED BY <2>5, <3>1, <3>2 DEF SaveText, CopyText
  <2> QED BY <1>1, <1>7, <2>1, <2>2, <2>3, <2>4, <2>5 DEF OnItem, Enter
<1>8. ASSUME NEW u \in Private, NEW n \in DOMAIN cards, Press(u, n) \/ ConfirmWork(u, n)
      PROVE  Goal
  <2>1. cards[n].inc \in Incidents /\ Desk(cards[n].kind) \in AllDesks
    BY CardType, KindChat
  <2>2. Copied(u, cards[n].inc, Desk(cards[n].kind)) \/ UNCHANGED item
    BY <1>8 DEF Press, ConfirmWork
  <2> QED BY <2>1, <2>2, CopyStep
<1> QED BY <1>1, <1>2, <1>3, <1>4, <1>5, <1>6, <1>7, <1>8 DEF WorkNext

-----------------------------------------------------------------------------
(* The theorems about the private dialogue. *)

(* The start. *)
LEMMA WorkStart == WorkInit => WorkInv
<1> SUFFICES ASSUME WorkInit PROVE WorkInv
  OBVIOUS
<1>1. IInv /\ \A u \in People : frame[u] = Idle
  BY StaffStart DEF WorkInit, Init
<1>2. Absent \in Items /\ Absent.snap = NoSession /\ Absent.draft.nonce = 0 /\ Absent.pend.nonce = 0
  BY BlankType
<1>3. item = [u \in Private |-> [i \in Incidents |-> [d \in AllDesks |-> Absent]]]
  BY DEF WorkInit
<1>4. ItemTypes
  BY <1>2, <1>3 DEF ItemTypes
<1>5. ItemInv
  BY <1>2, <1>3 DEF ItemInv, CopyIn, DraftIn, PendingIn
<1>6. TakeInv /\ DecisionInv
  BY <1>1 DEF TakeInv, DecisionInv, Idle
<1> QED BY <1>1, <1>4, <1>5, <1>6 DEF WorkInv, IInv

(* Nothing happens. *)
LEMMA WorkStutters ==
  ASSUME WorkInv, UNCHANGED workVars
  PROVE  WorkInv'
<1>0. UNCHANGED <<desk, round, answer, hold, sess, screen, cards, frame>>
  BY DEF workVars, vars, incident
<1>1. Types' /\ SessionInv' /\ OpenInv'
  <2>1. Types'
    BY <1>0 DEF WorkInv, Types, TypeOK, ScreenTypes
  <2>2. SessionInv'
    BY <1>0 DEF WorkInv, SessionInv, Fits, Shows, Dated
  <2>3. OpenInv'
    BY <1>0 DEF WorkInv, OpenInv, FreeFor, Obsolete, Holds
  <2> QED BY <2>1, <2>2, <2>3
<1>2. ItemTypes' /\ ItemInv' /\ TakeInv' /\ DecisionInv'
  BY DEF workVars, vars, incident, WorkInv, ItemTypes, ItemInv, TakeInv, DecisionInv
<1> QED BY <1>1, <1>2 DEF WorkInv

(* The actions that only write the employee's items leave the frames alone. *)
LEMMA FrameKept ==
  ASSUME OwnNext
  PROVE  \/ frame' = frame
         \/ \E u \in Private, i \in Incidents : Reserve(u, i)
         \/ \E u \in Private : Restore(u)
         \/ \E u \in Private : \E n \in DOMAIN cards : ConfirmWork(u, n)
<1>1. ASSUME NEW u, NEW i, Adopt(u, i) PROVE frame' = frame
  BY <1>1 DEF Adopt, vars
<1>2. ASSUME NEW u, NEW i, NEW v, Approve(u, i, v) PROVE frame' = frame
  BY <1>2 DEF Approve
<1>3. ASSUME NEW u, NEW i, NEW d, Enter(u, i, d) \/ Back_(u, i, d) \/ CancelWork(u, i, d)
      PROVE  frame' = frame
  BY <1>3 DEF Enter, Back_, CancelWork, vars
<1>4. ASSUME NEW u, NEW i, NEW d, NEW x, SaveDraft(u, i, d, x) \/ CopyText(u, i, d, x)
      PROVE  frame' = frame
  BY <1>4 DEF SaveDraft, CopyText
<1> QED BY <1>1, <1>2, <1>3, <1>4 DEF OwnNext

(* Where a handler's frame comes from. *)
LEMMA WorkFrames ==
  ASSUME Types, SessionInv, ItemTypes, ItemInv, ChatNext \/ OwnNext, NEW v \in People
  PROVE  /\ frame'[v].op = "take" => frame'[v] = frame[v] \/ \E i \in Incidents : Reserve(v, i)
         /\ frame'[v].op \in {"apply", "finish"} =>
              \/ frame'[v] = frame[v] \/ Apply(v)
              \/ \E n \in DOMAIN cards, p \in BOOLEAN : Confirm(v, n, p)
              \/ \E n \in DOMAIN cards : Decided(answer, v, cards[n], frame'[v]) /\ frame'[v].card = n
                                         /\ UNCHANGED <<cards, answer>>
<1> DEFINE Goal ==
         /\ frame'[v].op = "take" => frame'[v] = frame[v] \/ \E i \in Incidents : Reserve(v, i)
         /\ frame'[v].op \in {"apply", "finish"} =>
              \/ frame'[v] = frame[v] \/ Apply(v)
              \/ \E n \in DOMAIN cards, p \in BOOLEAN : Confirm(v, n, p)
              \/ \E n \in DOMAIN cards : Decided(answer, v, cards[n], frame'[v]) /\ frame'[v].card = n
                                         /\ UNCHANGED <<cards, answer>>
<1>1. ASSUME ChatNext PROVE Goal
  BY <1>1, FrameMoves
<1>2. ASSUME frame' = frame PROVE Goal
  BY <1>2
<1>3. ASSUME NEW u \in Private, NEW i \in Incidents, Reserve(u, i)
      PROVE  Goal
  BY <1>3, PrivateOnes DEF Reserve, Types
<1>4. ASSUME NEW u \in Private, Restore(u)
      PROVE  Goal
  BY <1>4, PrivateOnes DEF Restore, Types, Idle
<1>5. ASSUME NEW u \in Private, NEW n \in DOMAIN cards, ConfirmWork(u, n)
      PROVE  Goal
  <2>1. /\ frame'[u] \in Applies /\ frame'[u].op = "apply" /\ frame'[u].card = n
        /\ frame' = [frame EXCEPT ![u] = frame'[u]]
        /\ Decided(answer, u, cards[n], frame'[u]) /\ UNCHANGED <<incident, cards>>
    BY <1>5, ConfirmDecides
  <2>2. v # u => frame'[v] = frame[v]
    BY <2>1 DEF Types
  <2> QED BY <2>1, <2>2 DEF incident
<1> HIDE DEF Goal
<1>6. ASSUME OwnNext PROVE Goal
  BY <1>2, <1>3, <1>4, <1>5, <1>6, FrameKept
<1>7. Goal
  BY <1>1, <1>6
<1> QED BY <1>7 DEF Goal

(* The inductive invariant of the private dialogue: what its items keep    *)
(* fits the cards shown, the incident and the version they are for.        *)
THEOREM WorkInvariant == WorkSpec => []WorkInv
<1>1. WorkInv /\ WorkNext => WorkInv'
  <2> SUFFICES ASSUME WorkInv, WorkNext PROVE WorkInv'
    OBVIOUS
  <2> USE DEF WorkInv
  <2>1. Moves /\ FrameTypes' /\ ScreenTypes'
    BY WorkSteps, ChatMoves, FrameStep, OwnStep DEF OwnMoves, FrameTypes
  <2>2. Types'
    BY <2>1, TypesStep DEF FrameTypes
  <2>3. \A v \in People : frame'[v].op = "open" =>
          frame'[v] = frame[v] \/ \E k \in AllKinds, i \in Incidents, p \in BOOLEAN : Read(v, k, i, p)
    BY WorkSteps, FrameMoves, OwnStep DEF OwnMoves, NoNewRead
  <2>4. SessionInv' /\ OpenInv'
    BY <2>1, <2>3, SessionStep, OpenStep
  <2>5. TakeInv' /\ DecisionInv'
    BY <2>1, WorkSteps, WorkFrames, TakeStep, DecisionStep
  <2>6. ItemTypes' /\ ItemInv'
    BY <2>1, <2>2, <2>4, ItemsOfWork, ItemStep
  <2> QED BY <2>2, <2>4, <2>5, <2>6
<1>2. WorkInv /\ [WorkNext]_workVars => WorkInv'
  BY <1>1, WorkStutters
<1> QED BY WorkStart, <1>2, PTL DEF WorkSpec

(* Only a transaction decides. *)
LEMMA WorkDecides ==
  ASSUME WorkInv, WorkNext, NEW u \in People, Deciding(u)
  PROVE  /\ Apply(u) /\ frame[u] \in Applies /\ frame[u].s \in Sessions
         /\ frame[u].s.inc \in Incidents /\ frame[u].s.kind \in AllKinds
<1>1. frame'[u] # frame[u] /\ frame[u].op = "apply" /\ frame'[u].op = "finish"
  BY DEF Deciding
<1>2. CASE ChatNext
  BY <1>2, Decides DEF WorkInv
<1>3. CASE OwnNext
  <2>1. ASSUME NEW v \in Private, NEW n \in DOMAIN cards, ConfirmWork(v, n)
        PROVE  FALSE
    <3>1. frame'[v].op = "apply" /\ frame' = [frame EXCEPT ![v] = frame'[v]]
      BY <2>1, ConfirmDecides DEF WorkInv
    <3>2. CASE u = v
      BY <1>1, <3>1, <3>2
    <3>3. CASE u # v
      BY <1>1, <3>1, <3>3 DEF WorkInv, Types
    <3> QED BY <3>2, <3>3
  <2>2. ASSUME NEW v \in Private, Restore(v)
        PROVE  FALSE
    BY <1>1, <2>2, PrivateOnes DEF Restore, WorkInv, Types, Idle
  <2>3. ASSUME NEW v \in Private, NEW i \in Incidents, Reserve(v, i)
        PROVE  FALSE
    BY <1>1, <2>3, PrivateOnes DEF Reserve, WorkInv, Types
  <2> QED BY <1>1, <1>3, <2>1, <2>2, <2>3, FrameKept
<1> QED BY <1>2, <1>3, WorkSteps

(* A decision has the words shown with the button pressed, to the employee *)
(* who presses it, for the incident and in the chat shown.                 *)
THEOREM WordsAreShown == WorkSpec => WordsAsShown
<1> DEFINE A == \A u \in People : Deciding(u) =>
       /\ Pressed(u).by = u /\ Pressed(u).inc = frame[u].s.inc
       /\ Desk(Pressed(u).kind) = Desk(frame[u].s.kind)
       /\ Pressed(u).arg = frame[u].s.arg
<1>1. WorkInv /\ [WorkNext]_workVars => [A]_workVars
  <2> SUFFICES ASSUME WorkInv, NEW u \in People, Deciding(u)
               PROVE  /\ Pressed(u).by = u /\ Pressed(u).inc = frame[u].s.inc
                      /\ Desk(Pressed(u).kind) = Desk(frame[u].s.kind)
                      /\ Pressed(u).arg = frame[u].s.arg
    OBVIOUS
  <2>1. frame[u].op = "apply"
    BY DEF Deciding
  <2> QED BY <2>1 DEF WorkInv, DecisionInv, Decided, Pressed
<1> QED BY WorkInvariant, <1>1, PTL DEF WorkSpec, WordsAsShown

(* Work taken up again is carried out at its stage, against no colleague,  *)
(* and for the version it was prepared for.                                *)
THEOREM WorkIsInTime == WorkSpec => WorkInTime
<1> DEFINE A == \A u \in People : Deciding(u) =>
       LET i == frame[u].s.inc k == frame[u].s.kind IN
       /\ desk[i] = Desk(k) /\ ~HeldByOther(i, u)
       /\ k = "answer" /\ Pressed(u).step # "early" => Pressed(u).round = round[i]
       /\ Desk(k) = "review" /\ Pressed(u).step # "early" => Pressed(u).answer = answer[i]
<1>1. WorkInv /\ [WorkNext]_workVars => [A]_workVars
  <2> SUFFICES ASSUME WorkInv, WorkNext, NEW u \in People, Deciding(u)
               PROVE  LET i == frame[u].s.inc k == frame[u].s.kind IN
                      /\ desk[i] = Desk(k) /\ ~HeldByOther(i, u)
                      /\ k = "answer" /\ Pressed(u).step # "early" => Pressed(u).round = round[i]
                      /\ Desk(k) = "review" /\ Pressed(u).step # "early" => Pressed(u).answer = answer[i]
    BY DEF Deciding, workVars, vars
  <2> DEFINE s == frame[u].s  i == s.inc
  <2>1. Apply(u) /\ s \in Sessions /\ s.kind \in AllKinds /\ i \in Incidents
    BY WorkDecides
  <2>2. Stands(u, s, frame[u].round) /\ frame[u].op = "apply"
    BY <2>1 DEF Apply
  <2>3. frame[u].card \in DOMAIN cards /\ Decided(answer, u, Pressed(u), frame[u])
    BY <2>2 DEF WorkInv, DecisionInv, Pressed
  <2>4. s.answer \in Nat /\ answer[i] \in Nat /\ Pressed(u).answer \in Nat
    <3>1. \A z \in Sessions : z.answer \in Nat
      BY DEF Sessions
    <3>2. \A z \in Incidents : answer[z] \in Nat
      BY DEF WorkInv, Types, TypeOK
    <3>3. \A n \in DOMAIN cards : cards[n].answer \in Nat
      BY CardType DEF WorkInv, CardRecords
    <3> QED BY <2>1, <2>3, <3>1, <3>2, <3>3 DEF Pressed
  <2>5. Pressed(u).step # "early" =>
          /\ s.kind = "answer" => Pressed(u).round = frame[u].round
          /\ Desk(s.kind) = "review" =>
               Pressed(u).answer = s.answer \/ (s.answer <= Pressed(u).answer /\ Pressed(u).answer <= answer[i])
    BY <2>3 DEF Decided
  <2> HIDE DEF s
  <2>6. desk[i] = Desk(s.kind)
    BY <2>2 DEF Stands
  <2>7. ~HeldByOther(i, u)
    BY <2>1, <2>2 DEF Stands, HeldByOther, Holds, Obsolete
  <2>8. s.kind = "answer" => frame[u].round = round[i]
    BY <2>2 DEF Stands
  <2>9. Desk(s.kind) = "review" => s.answer = answer[i]
    BY <2>1, <2>2 DEF Stands, Obsolete, Desk, AllKinds
  <2>10. Desk(s.kind) = "review" /\ Pressed(u).step # "early" => Pressed(u).answer = answer[i]
    BY <2>4, <2>5, <2>9
  <2> QED BY <2>5, <2>6, <2>7, <2>8, <2>10 DEF s
<1> QED BY WorkInvariant, <1>1, PTL DEF WorkSpec, WorkInTime
=============================================================================
