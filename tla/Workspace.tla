----------------------------- MODULE Workspace -----------------------------
(* The private dialogue of an employee with the bot, in which the same      *)
(* decisions are prepared away from the chats.                              *)
(* src/work-queues/private-workspace.ts.                                    *)
(*                                                                          *)
(* A PrivateWorkItem belongs to one employee, incident and chat.  It keeps a *)
(* copy of the session, a draft or a pending action across the end of the   *)
(* session and of the reservation, so that work can be resumed, and the     *)
(* version of the incident it was prepared for.  Text a private message     *)
(* brings goes to the item selected.                                        *)
EXTENDS Staff

CONSTANT Private  \* employees who use the private dialogue
ASSUME PrivateAssumption == Private \subseteq People

VARIABLES
  item,     \* PrivateWorkItem.data of each employee, incident and chat
  selected  \* the item whose dialogue is open, by employee

workVars == <<vars, item, selected>>

\* The assignment and the answer that work is prepared for (cycleOf).
cycleOf(i) == <<round[i], answer[i]>>
Unset == << >>
NoDraft == [arg |-> NoArg, nonce |-> 0]      \* nonce 0: to be corrected
NoPending == [answer |-> 0, nonce |-> 0]     \* an approval not yet confirmed
Blank(c) == [on |-> TRUE, cycle |-> c, snap |-> NoSession, draft |-> NoDraft, pend |-> NoPending]
Absent == [Blank(Unset) EXCEPT !.on = FALSE]
Nothing == << >>

WorkInit ==
  /\ Init
  /\ item = [u \in Private |-> [i \in Incidents |-> [d \in AllDesks |-> Absent]]]
  /\ selected = [u \in Private |-> Nothing]

Item(u) == item[u][selected[u][1]][selected[u][2]]
\* The employee looks at this item, and it is at its stage.
At(u, i, d) == selected[u] = <<i, d>> /\ item[u][i][d].on
Keep(u, i, d, w) == item' = [item EXCEPT ![u][i][d] = w]

\* requireOwnLease
Same(u, i, d) == TRUE   \* the reservation is looked at, the version is not
SameCycle(u, i, d) == item[u][i][d].cycle = cycleOf(i)
Owns(u, i, d) == At(u, i, d) /\ desk[i] = d /\ Holds(u, i) /\ SameCycle(u, i, d)

\* snapshot, after a handler: the session is copied to the item.
Copied(u, i, d) ==
  LET s == sess'[u][d] IN
  item' = IF s # NoSession /\ s.inc = i THEN [item EXCEPT ![u][i][d].snap = s] ELSE item

-----------------------------------------------------------------------------
(* Opening work. *)

\* Leaving for the resident's menu only means that none of this happens.
Enter(u, i, d) ==
  /\ frame[u] = Idle
  /\ item[u][i][d].on /\ selected[u] # <<i, d>>
  /\ selected' = [selected EXCEPT ![u] = <<i, d>>]
  /\ UNCHANGED <<vars, item>>

\* personalHome lists what the employee has reserved in the chats.
Adopt(u, i) ==
  /\ frame[u] = Idle
  /\ desk[i] # "done" /\ Holds(u, i) /\ ~item[u][i][desk[i]].on
  /\ Keep(u, i, desk[i], Blank(Unset))
  /\ UNCHANGED <<vars, selected>>

\* take, first half: work prepared for another answer or assignment is not
\* taken up again, a colleague's reservation is respected.
Outdated(w, c) == w.cycle \notin {Unset, c} /\ (w.draft # NoDraft \/ w.snap # NoSession)
Reserve(u, i) ==
  LET d == desk[i] w == item[u][i][d] IN
  /\ frame[u] = Idle
  /\ d # "done" /\ ~Outdated(w, cycleOf(i)) /\ MayHold(u, i)
  /\ hold' = [hold EXCEPT ![i] = Grant(u, i)]
  /\ IF w.on THEN UNCHANGED item ELSE Keep(u, i, d, Blank(Unset))
  /\ frame' = [frame EXCEPT ![u] = [op |-> "take", inc |-> i, desk |-> d,
                                   term |-> Grant(u, i).term, cycle |-> cycleOf(i)]]
  /\ UNCHANGED <<desk, round, answer, sess, screen, cards, selected>>

\* take, second half: the copy, or else the session of the chat, goes on under
\* the new reservation.  Another incident's session stands in the way.
Restore(u) ==
  LET f == frame[u]
      w == item[u][f.inc][f.desk]
      live == sess[u][f.desk]
      old == IF w.snap # NoSession THEN w.snap ELSE live
      s == [old EXCEPT !.term = f.term, !.private = TRUE] IN
  /\ f.op = "take"
  /\ w.on /\ ~Outdated(w, f.cycle)
  /\ live # NoSession => live.inc = f.inc
  /\ IF old = NoSession
     THEN Keep(u, f.inc, f.desk, [w EXCEPT !.cycle = f.cycle]) /\ UNCHANGED sess
     ELSE /\ Keep(u, f.inc, f.desk, [w EXCEPT !.cycle = f.cycle, !.snap = s])
          /\ sess' = [sess EXCEPT ![u][f.desk] = s]
  /\ frame' = [frame EXCEPT ![u] = Idle]
  /\ UNCHANGED <<incident, screen, cards, selected>>

-----------------------------------------------------------------------------
(* Working: the buttons of the chat's cards, pressed privately (run). *)

Start(u, k, i) ==
  /\ Owns(u, i, Desk(k)) /\ item[u][i][Desk(k)].draft = NoDraft
  /\ k \notin {"assign", "approve"}
  /\ Read(u, k, i, TRUE)
  /\ UNCHANGED <<item, selected>>

\* A crash may come before the copy.
Started(u) ==
  LET f == frame[u] IN
  /\ f.op = "open" /\ f.private
  /\ Open(u)
  /\ Copied(u, f.inc, Desk(f.kind)) \/ UNCHANGED item
  /\ UNCHANGED selected

Press(u, n) ==
  LET i == cards[n].inc d == Desk(cards[n].kind) IN
  /\ Owns(u, i, d)
  /\ item[u][i][d].draft = NoDraft \/ cards[n].kind = "reject"
  /\ \/ Edit(u, n, TRUE) /\ Copied(u, i, d)
     \/ \E x \in Args : ChooseReason(u, n, x) /\ Copied(u, i, d)
     \/ Confirm(u, n, TRUE) /\ UNCHANGED item
  /\ UNCHANGED selected

\* An approval is asked for once more, with the answer as it is now; v is the
\* version of the button.
Approve(u, i, v) ==
  LET w == item[u][i]["review"] IN
  /\ frame[u] = Idle
  /\ Owns(u, i, "review") /\ (w.snap # NoSession => w.snap.kind # "edit")
  /\ Len(cards) < MaxCards
  /\ Keep(u, i, "review", [w EXCEPT !.pend = [answer |-> v, nonce |-> Next1]])
  /\ Show(u, [kind |-> "approve", inc |-> i, arg |-> NoArg, answer |-> answer[i],
              round |-> round[i], step |-> "pending"], FALSE)
  /\ UNCHANGED <<incident, sess, screen, frame, selected>>

\* "Back" drops an approval, or asks for a draft's text again.
Back_(u, i, d) ==
  LET w == item[u][i][d] IN
  /\ frame[u] = Idle
  /\ Owns(u, i, d)
  /\ \/ w.pend # NoPending /\ Keep(u, i, d, [w EXCEPT !.pend = NoPending])
     \/ w.pend = NoPending /\ w.draft.nonce # 0 /\ Keep(u, i, d, [w EXCEPT !.draft.nonce = 0])
  /\ UNCHANGED <<vars, selected>>

-----------------------------------------------------------------------------
(* receivePersonalText *)

\* The text of an answer, a return or a revision is kept as a draft, whether
\* or not the incident is still reserved.  "early": before the item was taken
\* for the first time, so that it has no version yet.
Drafts == {"draft", "early"}
SaveDraft(u, i, d, x) ==
  LET w == item[u][i][d]
      for == IF w.cycle = Unset THEN <<w.snap.round, w.snap.answer>> ELSE w.cycle IN
  /\ frame[u] = Idle
  /\ At(u, i, d) /\ desk[i] = d
  /\ w.snap # NoSession /\ w.snap.kind \in Inputs /\ w.snap.step # "preview"
  /\ Len(cards) < MaxCards
  /\ Keep(u, i, d, [w EXCEPT !.draft = [arg |-> x, nonce |-> Next1]])
  /\ Show(u, [kind |-> w.snap.kind, inc |-> i, arg |-> x, answer |-> for[2],
              round |-> for[1], step |-> IF w.cycle = Unset THEN "early" ELSE "draft"], FALSE)
  /\ UNCHANGED <<incident, sess, screen, frame, selected>>

\* A correction or a reason goes to the live session; to the copy alone when
\* the reservation has run out.
SaveText(u, i, d, x) ==
  LET w == item[u][i][d] IN
  /\ At(u, i, d) /\ desk[i] = d
  /\ w.snap # NoSession /\ w.snap.kind \in {"edit", "reject"} /\ w.snap.step = "text"
  /\ \/ /\ Owns(u, i, d)
        /\ w.snap.kind = "edit" => sess[u][d] # NoSession /\ sess[u][d].inc = i /\ sess[u][d].private
        /\ Fill(u, d, x) /\ Copied(u, i, d)
     \/ LET s == [w.snap EXCEPT !.step = "preview", !.arg = x, !.tok = Next1] IN
        /\ ~Holds(u, i) /\ frame[u] = Idle
        /\ Len(cards) < MaxCards
        /\ Keep(u, i, d, [w EXCEPT !.snap = s])
        /\ Show(u, s, FALSE)
        /\ UNCHANGED <<incident, sess, screen, frame>>
  /\ UNCHANGED selected

-----------------------------------------------------------------------------
(* Deciding. *)

\* The button of the draft shown last.
AnyDraft(w, n) == w.draft.nonce # 0
DraftShown(w, n) == w.draft.nonce = n

ConfirmWork(u, n) ==
  LET c == cards[n] i == c.inc d == Desk(c.kind) w == item[u][i][d] live == sess[u][d]
      decide(s) == frame' = [frame EXCEPT ![u] = [op |-> "apply", card |-> n, s |-> s, round |-> round[i]]]
  IN
  /\ frame[u] = Idle
  /\ c.step \in Drafts \cup {"pending"} /\ Owns(u, i, d)
  /\ \/ /\ w.pend.nonce = n
        /\ decide([kind |-> "approve", inc |-> i, term |-> hold[i].term, round |-> round[i],
                   answer |-> w.pend.answer, step |-> "preview", arg |-> NoArg,
                   tok |-> n, private |-> TRUE])
     \/ /\ w.pend.nonce # n /\ DraftShown(w, n) /\ w.snap # NoSession
        /\ live # NoSession /\ live.inc = i /\ live.kind = w.snap.kind /\ live.private
        /\ ~Obsolete(u, live)
        /\ decide([live EXCEPT !.arg = w.draft.arg])
  /\ UNCHANGED <<incident, sess, screen, cards, item, selected>>

\* Rejecting removes every colleague's work on the incident; a saved
\* correction starts the reviewer's afresh.  The rest of an item stays.
Applied(u) ==
  LET s == frame[u].s IN
  /\ frame[u].op = "apply" /\ Apply(u)
  /\ item' = CASE s.kind = "reject" ->
                    [v \in Private |-> [item[v] EXCEPT ![s.inc] = [d \in AllDesks |-> Absent]]]
               [] s.kind = "edit" /\ s.private /\ u \in Private ->
                    [item EXCEPT ![u][s.inc]["review"] =
                       IF @.on THEN Blank(<<round[s.inc], answer[s.inc] + 1>>) ELSE @]
               [] OTHER -> item
  /\ selected' = [v \in Private |->
                    IF s.kind = "reject" /\ selected[v] # Nothing /\ selected[v][1] = s.inc
                    THEN Nothing ELSE selected[v]]

\* personalAction's confirm, once the decision stands.
Finished(u) ==
  LET f == frame[u] IN
  /\ f.op = "finish" /\ Finish(u)
  /\ item' = IF u \notin Private THEN item
             ELSE LET i == f.s.inc d == Desk(f.s.kind) w == item[u][i][d] IN
                  CASE cards[f.card].step \in Drafts ->
                         [item EXCEPT ![u][i][d] = IF w.on THEN Blank(w.cycle) ELSE w]
                    [] cards[f.card].step = "pending" -> [item EXCEPT ![u][i][d].pend = NoPending]
                    [] OTHER -> item
  /\ UNCHANGED selected

-----------------------------------------------------------------------------
(* Giving up. *)

\* The session goes, and all the item held; no reservation is asked for.
CancelWork(u, i, d) ==
  LET w == item[u][i][d] IN
  /\ frame[u] = Idle /\ At(u, i, d)
  /\ w # Blank(cycleOf(i))
  /\ sess' = [sess EXCEPT ![u][d] = IF @ # NoSession /\ @.inc = i THEN NoSession ELSE @]
  /\ screen' = IF d = "distribution" THEN [screen EXCEPT ![u] = NoScreen] ELSE screen
  /\ Keep(u, i, d, Blank(cycleOf(i)))
  /\ UNCHANGED <<incident, cards, frame, selected>>

\* The copy is brought up to date before the session goes.
ReleaseWork(u, i, d) ==
  /\ At(u, i, d) /\ desk[i] = d
  /\ Release(u, i)
  /\ item' = IF sess[u][d] # NoSession /\ sess[u][d].inc = i
             THEN [item EXCEPT ![u][i][d].snap = sess[u][d]] ELSE item
  /\ UNCHANGED selected

-----------------------------------------------------------------------------
\* What happens in the chats, and in time.
Chats ==
  \/ \E i \in Incidents : OnIncident(i)
  \/ \E u \in People, d \in AllDesks : InChat(u, d)
  \/ \E u \in People : \E n \in DOMAIN cards : OnCard(u, n)
  \/ \E u \in People : OpenPicker(u) \/ Continue(u) \/ Abandon(u)
  \/ \E u \in People : frame[u].op = "open" /\ ~frame[u].private /\ Open(u)

OnWork(u, i) ==
  \/ Adopt(u, i) \/ Reserve(u, i)
  \/ \E k \in Kinds[u] : Start(u, k, i)
  \/ \E v \in 1..answer[i] : Approve(u, i, v)
OnItem(u, i, d) ==
  \/ Enter(u, i, d) \/ Back_(u, i, d) \/ CancelWork(u, i, d) \/ ReleaseWork(u, i, d)
  \/ \E x \in Args : SaveDraft(u, i, d, x) \/ SaveText(u, i, d, x)

WorkNext ==
  \/ Chats /\ UNCHANGED <<item, selected>>
  \/ \E u \in People : Applied(u) \/ Finished(u)
  \/ \E u \in Private : Restore(u) \/ Started(u)
  \/ \E u \in Private, i \in Incidents : OnWork(u, i)
  \/ \E u \in Private, i \in Incidents, d \in AllDesks : OnItem(u, i, d)
  \/ \E u \in Private : \E n \in DOMAIN cards : Press(u, n) \/ ConfirmWork(u, n)

WorkSpec == WorkInit /\ [][WorkNext]_workVars

-----------------------------------------------------------------------------
(* Properties. *)

\* The words an employee's press decides with are those shown with the button
\* pressed, for the incident and in the chat shown, to that employee: a
\* corrected draft, or one of other work, is never sent by an older button.
WordsAsShown ==
  [][\A u \in People : Deciding(u) =>
       /\ Pressed(u).by = u /\ Pressed(u).inc = frame[u].s.inc
       /\ Desk(Pressed(u).kind) = Desk(frame[u].s.kind)
       /\ Pressed(u).arg = frame[u].s.arg]_workVars

\* Work that was put away and taken up again, privately or in the chat, is
\* carried out at the stage it was prepared at, against no colleague, and an
\* answer, a remark or an approval only for the assignment and the answer it
\* was prepared for.  (An early draft is not bound to any version.)
WorkInTime ==
  [][\A u \in People : Deciding(u) =>
       LET i == frame[u].s.inc k == frame[u].s.kind IN
       /\ desk[i] = Desk(k) /\ ~HeldByOther(i, u)
       /\ k = "answer" /\ Pressed(u).step # "early" => Pressed(u).round = round[i]
       /\ Desk(k) = "review" /\ Pressed(u).step # "early" => Pressed(u).answer = answer[i]]_workVars
=============================================================================
