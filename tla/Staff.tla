------------------------------- MODULE Staff -------------------------------
(* The dialogues in which employees decide: a button opens one, a typed     *)
(* text or a choice fills it, a card shows what is about to happen, and a   *)
(* button on that card does it.  src/bot/callbacks, src/bot/handlers,       *)
(* src/sessions.                                                            *)
(*                                                                          *)
(* An employee has one session in each working chat, and everybody in the   *)
(* chat sees every card and may press it, at any later time and repeatedly. *)
(* The handlers of one employee run one after another (Inbox!LaneSerial);   *)
(* those of different employees, the sweeps and the clock interleave.  A    *)
(* handler that reads and then writes in a transaction is two actions, with *)
(* what it read in "frame".  Of an incident only the desk it is at, the     *)
(* returns, the last answer and the reservation are kept: module Workflow   *)
(* has the transactions in full, and shows that an incident is reserved at  *)
(* no other desk than its own.                                              *)
EXTENDS Naturals, Sequences

CONSTANTS
  Incidents,  \* incidents under way
  People,     \* employees, members of every chat
  Kinds,      \* the kinds of dialogue each employee opens
  Args,       \* what can be typed or chosen
  Desks,      \* where incidents start
  NoOne,      \* nobody
  NoArg,      \* nothing typed or chosen
  MaxCards,   \* bound: cards shown
  MaxTerms,   \* bound: reservations granted on one incident
  MaxRounds,  \* bound: returns to distribution
  MaxAnswers  \* bound: answer versions

AllKinds == {"assign", "reject", "answer", "return", "approve", "revise", "edit"}
AllDesks == {"distribution", "sector", "review"}
ASSUME KindsAssumption == Kinds \in [People -> SUBSET AllKinds] /\ Desks \subseteq AllDesks
ASSUME NamesAssumption == NoOne \notin People /\ NoArg \notin Args
ASSUME StaffBounds ==
  /\ {MaxCards, MaxTerms, MaxRounds, MaxAnswers} \subseteq Nat
  /\ "review" \in Desks => MaxAnswers > 0   \* an incident there has an answer

VARIABLES
  desk,    \* the stage of the incident: the chat that works on it, or "done"
  round,   \* REDISTRIBUTION_REQUESTED entries: the assignmentCycle
  answer,  \* the latest version
  hold,    \* the reservation at this desk: by whom, which one, still running
  sess,    \* OperatorSession of each employee in each chat
  screen,  \* the live distribution screen of each employee
  cards,   \* the cards shown, with their buttons
  frame    \* what an employee's running handler has read

incident == <<desk, round, answer, hold>>
vars == <<incident, sess, screen, cards, frame>>

\* The chat a dialogue takes place in, and the stage it is about.
Desk(k) == CASE k \in {"assign", "reject"} -> "distribution"
             [] k \in {"answer", "return"} -> "sector"
             [] OTHER -> "review"
Inputs == {"answer", "return", "revise"}   \* typed, then confirmed
Buttons == {"assign", "approve"}           \* a button, then confirmed

\* tok is the card whose buttons belong to the session, 0 for none.
Sessions == [kind : AllKinds, inc : Incidents, term : 0..MaxTerms, round : 0..MaxRounds,
             answer : 0..MaxAnswers, step : {"choose", "text", "preview"},
             arg : Args \cup {NoArg}, tok : 0..MaxCards, private : BOOLEAN]
NoSession == [kind |-> "none"]
NoScreen == [tok |-> 0]
Idle == [op |-> "idle"]
Free == [by |-> NoOne, term |-> 0, live |-> FALSE]
Freed(h) == [h EXCEPT !.by = NoOne, !.live = FALSE]
HeldByOther(i, u) == hold[i].live /\ hold[i].by # u
Holds(u, i) == hold[i].live /\ hold[i].by = u

Init ==
  /\ desk \in [Incidents -> Desks]
  /\ round = [i \in Incidents |-> 0]
  /\ answer = [i \in Incidents |-> IF desk[i] = "review" THEN 1 ELSE 0]
  /\ hold = [i \in Incidents |-> Free]
  /\ sess = [u \in People |-> [d \in AllDesks |-> NoSession]]
  /\ screen = [u \in People |-> NoScreen]
  /\ cards = << >>
  /\ frame = [u \in People |-> Idle]

\* Removing rows of OperatorSession, named by employee and chat.
About(i) == {x \in People \X AllDesks : sess[x[1]][x[2]] # NoSession /\ sess[x[1]][x[2]].inc = i}
DropAll(gone) ==
  sess' = [u \in People |-> [d \in AllDesks |->
             IF <<u, d>> \in gone THEN NoSession ELSE sess[u][d]]]

-----------------------------------------------------------------------------
(* Sessions. *)

\* discardObsoleteSession: the stage, the reservation, the version and the
\* assignment the dialogue was opened under.
ObsoleteStage(u, s) == desk[s.inc] # Desk(s.kind)   \* whoever works there now
Obsolete(u, s) ==
  \/ desk[s.inc] # Desk(s.kind)
  \/ ~Holds(u, s.inc) \/ hold[s.inc].term # s.term
  \/ Desk(s.kind) = "review" /\ answer[s.inc] # s.answer
  \/ Desk(s.kind) = "sector" /\ round[s.inc] # s.round

Discard(u, d) ==
  /\ frame[u] = Idle
  /\ sess[u][d] # NoSession /\ Obsolete(u, sess[u][d])
  /\ sess' = [sess EXCEPT ![u][d] = NoSession]
  /\ UNCHANGED <<incident, screen, cards, frame>>

\* SESSION_TTL_MINUTES; also a dialogue nobody goes on with.
SessionExpires(u, d) ==
  /\ sess[u][d] # NoSession
  /\ sess' = [sess EXCEPT ![u][d] = NoSession]
  /\ UNCHANGED <<incident, screen, cards, frame>>

\* A cancel button of any earlier prompt ends whatever is open in the chat.
Cancel(u, d) ==
  /\ frame[u] = Idle
  /\ sess[u][d] # NoSession
  /\ sess' = [sess EXCEPT ![u][d] = NoSession]
  /\ UNCHANGED <<incident, screen, cards, frame>>

\* ensureFreeSession: only the same incident's dialogue may be started over,
\* and not while it waits for a confirmation.  A rejection or a correction
\* under way is shown again instead.
FreeForSame(u, k, i) ==   \* a waiting confirmation counts for nothing
  LET s == sess[u][Desk(k)] IN
  s # NoSession => Obsolete(u, s) \/ s.inc = i
FreeFor(u, k, i) ==
  LET s == sess[u][Desk(k)] IN
  s # NoSession =>
  \/ Obsolete(u, s)
  \/ /\ k \notin Buttons \cup {"edit"}
     /\ s.inc = i
     /\ s.kind = "edit" => k # "revise"
     /\ s.kind = "reject" => k # "reject"
     /\ s.kind \in Inputs \cup Buttons => s.step # "preview"

-----------------------------------------------------------------------------
(* Reservations. *)

\* A colleague's running reservation is respected; at two of the desks an
\* employee has one incident at a time.
MayHold(u, i) ==
  \/ Holds(u, i)
  \/ /\ ~hold[i].live /\ hold[i].term < MaxTerms
     /\ desk[i] # "sector" => \A j \in Incidents : desk[j] = desk[i] => ~Holds(u, j)
Grant(u, i) ==
  IF Holds(u, i) THEN hold[i] ELSE [by |-> u, term |-> hold[i].term + 1, live |-> TRUE]

Take(u, i) ==
  /\ frame[u] = Idle
  /\ desk[i] # "done" /\ ~Holds(u, i) /\ MayHold(u, i)
  /\ hold' = [hold EXCEPT ![i] = Grant(u, i)]
  /\ UNCHANGED <<desk, round, answer, sess, screen, cards, frame>>

\* The holder's dialogues about the incident end with the reservation; an
\* expired reviewer's stay until somebody meets them.
Release(u, i) ==
  /\ frame[u] = Idle
  /\ desk[i] # "done" /\ hold[i].by = u
  /\ hold' = [hold EXCEPT ![i] = Freed(@)]
  /\ DropAll(About(i) \cap {<<u, desk[i]>>})
  /\ UNCHANGED <<desk, round, answer, screen, cards, frame>>

HoldExpires(i) ==
  /\ hold[i].live
  /\ hold' = [hold EXCEPT ![i].live = FALSE]
  /\ UNCHANGED <<desk, round, answer, sess, screen, cards, frame>>

Sweep(i) ==
  /\ hold[i].by # NoOne /\ ~hold[i].live
  /\ hold' = [hold EXCEPT ![i] = Freed(@)]
  /\ DropAll({x \in About(i) : x = <<hold[i].by, desk[i]>> /\ desk[i] # "review"})
  /\ UNCHANGED <<desk, round, answer, screen, cards, frame>>

-----------------------------------------------------------------------------
(* Opening a dialogue. *)

Next1 == Len(cards) + 1
Show(u, s, nav) ==
  cards' = Append(cards, [by |-> u, inc |-> s.inc, kind |-> s.kind, arg |-> s.arg,
                          answer |-> s.answer, round |-> s.round, step |-> s.step, nav |-> nav])

\* The handler reads the incident its button names.  p tells the private
\* dialogue with the bot (module Workspace) from the chat.
Read(u, k, i, p) ==
  /\ frame[u] = Idle
  /\ desk[i] = Desk(k)
  /\ FreeFor(u, k, i)
  /\ frame' = [frame EXCEPT ![u] = [op |-> "open", kind |-> k, inc |-> i, round |-> round[i],
                                   answer |-> answer[i], private |-> p]]
  /\ UNCHANGED <<incident, sess, screen, cards>>

Opened(f, u) ==
  [kind |-> f.kind, inc |-> f.inc, term |-> Grant(u, f.inc).term, round |-> f.round,
   answer |-> f.answer, arg |-> NoArg, private |-> f.private,
   step |-> CASE f.kind = "approve" -> "preview" [] f.kind = "reject" -> "choose" [] OTHER -> "text",
   tok |-> IF f.kind \in {"approve", "reject"} THEN Next1 ELSE 0]

\* It takes the reservation and stores the session.  A new correction is
\* checked once more against the incident.
Open(u) ==
  LET f == frame[u] s == Opened(f, u) IN
  /\ f.op = "open" /\ f.kind # "assign"
  /\ desk[f.inc] = Desk(f.kind) /\ MayHold(u, f.inc)
  /\ f.kind = "edit" => f.answer = answer[f.inc]
  /\ s.tok # 0 => Len(cards) < MaxCards
  /\ hold' = [hold EXCEPT ![f.inc] = Grant(u, f.inc)]
  /\ sess' = [sess EXCEPT ![u][Desk(f.kind)] = s]
  /\ IF s.tok # 0 THEN Show(u, s, FALSE) ELSE UNCHANGED cards
  /\ frame' = [frame EXCEPT ![u] = Idle]
  /\ UNCHANGED <<desk, round, answer, screen>>

-----------------------------------------------------------------------------
(* Distribution screens: one live screen per employee, named by the card. *)

Picker(f) == [kind |-> "assign", inc |-> f.inc, arg |-> NoArg, answer |-> f.answer,
              round |-> f.round, step |-> "choose"]
Picked(u, i, x) ==
  [kind |-> "assign", inc |-> i, term |-> hold[i].term, round |-> round[i], answer |-> answer[i],
   step |-> "preview", arg |-> x, tok |-> Next1, private |-> FALSE]

OpenPicker(u) ==
  LET f == frame[u] IN
  /\ f.op = "open" /\ f.kind = "assign"
  /\ desk[f.inc] = "distribution" /\ MayHold(u, f.inc)
  /\ Len(cards) < MaxCards
  /\ hold' = [hold EXCEPT ![f.inc] = Grant(u, f.inc)]
  /\ sess' = [sess EXCEPT ![u]["distribution"] = NoSession]
  /\ screen' = [screen EXCEPT ![u] = [tok |-> Next1, inc |-> f.inc, term |-> Grant(u, f.inc).term]]
  /\ Show(u, Picker(f), TRUE)
  /\ frame' = [frame EXCEPT ![u] = Idle]
  /\ UNCHANGED <<desk, round, answer>>

\* assertNavigationClaim, on the employee's current screen only.
OnScreen(u, n) ==
  /\ screen[u].tok = n
  /\ desk[screen[u].inc] = "distribution"
  /\ Holds(u, screen[u].inc) /\ hold[screen[u].inc].term = screen[u].term

Pick(u, n, x) ==
  LET i == screen[u].inc IN
  /\ frame[u] = Idle
  /\ cards[n].step = "choose" /\ cards[n].kind = "assign" /\ OnScreen(u, n)
  /\ FreeFor(u, "assign", i)
  /\ Len(cards) < MaxCards
  /\ sess' = [sess EXCEPT ![u]["distribution"] = Picked(u, i, x)]
  /\ Show(u, Picked(u, i, x), TRUE)
  /\ screen' = [screen EXCEPT ![u].tok = Next1]
  /\ UNCHANGED <<incident, frame>>

\* Pressing the button of a session's current card, in the chat of the session.
MatchesIncident(u, n) ==   \* the token is not looked at
  LET s == sess[u][Desk(cards[n].kind)] IN
  s # NoSession /\ s.inc = cards[n].inc /\ s.kind = cards[n].kind /\ s.step = cards[n].step
Matches(u, n) ==
  LET s == sess[u][Desk(cards[n].kind)] IN
  s # NoSession /\ s.inc = cards[n].inc /\ s.tok = n

Back(u, n) ==
  /\ frame[u] = Idle
  /\ cards[n].kind = "assign" /\ cards[n].nav /\ cards[n].step = "preview"
  /\ OnScreen(u, n) /\ Matches(u, n)
  /\ Len(cards) < MaxCards
  /\ sess' = [sess EXCEPT ![u]["distribution"] = NoSession]
  /\ Show(u, Picker(cards[n]), TRUE)
  /\ screen' = [screen EXCEPT ![u].tok = Next1]
  /\ UNCHANGED <<incident, frame>>

\* session:continue shows a waiting confirmation again, outside the screens.
Continue(u) ==
  LET s == sess[u]["distribution"] IN
  /\ frame[u] = Idle
  /\ s # NoSession /\ s.kind = "assign" /\ ~Obsolete(u, s) /\ cards[s.tok].nav
  /\ cards' = [cards EXCEPT ![s.tok].nav = FALSE]
  /\ UNCHANGED <<incident, sess, screen, frame>>

-----------------------------------------------------------------------------
(* Filling a dialogue. *)

\* A reason of the rules leads to the preview, "other" to a typed text.
ChooseReason(u, n, x) ==
  LET s == sess[u]["distribution"]
      t == [s EXCEPT !.step = "preview", !.arg = x, !.tok = Next1] IN
  /\ frame[u] = Idle
  /\ cards[n].kind = "reject" /\ Matches(u, n) /\ s.step = "choose" /\ ~Obsolete(u, s)
  /\ \/ /\ Len(cards) < MaxCards
        /\ sess' = [sess EXCEPT ![u]["distribution"] = t]
        /\ Show(u, t, FALSE)
     \/ /\ sess' = [sess EXCEPT ![u]["distribution"] = [s EXCEPT !.step = "text", !.tok = 0]]
        /\ UNCHANGED cards
  /\ UNCHANGED <<incident, screen, frame>>

\* A message in the chat goes to the session the employee has there.
Fill(u, d, x) ==
  LET s == sess[u][d]
      t == [s EXCEPT !.step = "preview", !.arg = x, !.tok = Next1] IN
  /\ frame[u] = Idle
  /\ s # NoSession /\ s.step = "text" /\ ~Obsolete(u, s)
  /\ Len(cards) < MaxCards
  /\ sess' = [sess EXCEPT ![u][d] = t]
  /\ Show(u, t, FALSE)
  /\ UNCHANGED <<incident, screen, frame>>

\* What belongs to the private dialogue is not served from the group.
Say(u, d, x) ==
  /\ sess[u][d] # NoSession => ~sess[u][d].private
  /\ Fill(u, d, x)

\* A confirmation of the private dialogue (p) is not given in the group; the
\* buttons of a rejection or a correction go by their token alone.
Reachable(s, p) == s.private /\ s.kind \notin {"reject", "edit"} => p

\* "Edit" retires the preview and waits for the whole text again.
Edit(u, n, p) ==
  LET d == Desk(cards[n].kind) s == sess[u][d] IN
  /\ frame[u] = Idle
  /\ cards[n].kind \notin Buttons /\ Matches(u, n) /\ Reachable(s, p)
  /\ s.step = "preview" /\ ~Obsolete(u, s)
  /\ sess' = [sess EXCEPT ![u][d] = [s EXCEPT !.step = "text", !.tok = 0]]
  /\ UNCHANGED <<incident, screen, cards, frame>>

-----------------------------------------------------------------------------
(* Deciding. *)

\* handleStaffConfirmation and its siblings check the session and hand it on.
\* A card of the distribution screens works through the screen, once.
Confirm(u, n, p) ==
  LET s == sess[u][Desk(cards[n].kind)] IN
  /\ frame[u] = Idle
  /\ Matches(u, n) /\ Reachable(s, p) /\ s.step = "preview" /\ ~Obsolete(u, s)
  /\ cards[n].nav => OnScreen(u, n)
  /\ screen' = [screen EXCEPT ![u] = IF cards[n].nav THEN NoScreen ELSE @]
  /\ frame' = [frame EXCEPT ![u] = [op |-> "apply", card |-> n, s |-> s, round |-> round[s.inc]]]
  /\ UNCHANGED <<incident, sess, cards>>

\* What the transaction of each decision checks again.
Stands(u, s, r) ==
  /\ desk[s.inc] = Desk(s.kind)
  /\ CASE s.kind = "assign" -> Holds(u, s.inc) /\ hold[s.inc].term = s.term
       [] s.kind \in {"reject", "edit"} ->
            sess[u][Desk(s.kind)] = s /\ ~Obsolete(u, s)
       [] s.kind = "answer" -> ~HeldByOther(s.inc, u) /\ round[s.inc] = r
       [] s.kind = "return" -> ~HeldByOther(s.inc, u)
       [] OTHER -> ~HeldByOther(s.inc, u) /\ answer[s.inc] = s.answer

After(k) == CASE k \in {"assign", "revise"} -> "sector"
              [] k = "return" -> "distribution"
              [] k \in {"answer", "edit"} -> "review"
              [] OTHER -> "done"

\* The sessions the transaction removes: all of the incident's, or those whose
\* stage it has left.
Ends(k, u, v, s) ==
  CASE k \in {"reject", "return"} -> TRUE
    [] k = "edit" -> v = u /\ s.kind = "edit"
    [] k = "assign" -> FALSE
    [] OTHER -> s.kind # "return" /\ Desk(s.kind) \in {"sector", "review"} \ {After(k)}

Apply(u) ==
  LET f == frame[u] s == f.s i == s.inc k == s.kind IN
  /\ f.op = "apply"
  /\ Stands(u, s, f.round)
  /\ k = "return" => round[i] < MaxRounds
  /\ k \in {"answer", "edit"} => answer[i] < MaxAnswers
  /\ desk' = [desk EXCEPT ![i] = After(k)]
  /\ round' = [round EXCEPT ![i] = IF k = "return" THEN @ + 1 ELSE @]
  /\ answer' = [answer EXCEPT ![i] = IF k \in {"answer", "edit"} THEN @ + 1 ELSE @]
  /\ hold' = [hold EXCEPT ![i] = IF k = "edit" THEN @ ELSE Freed(@)]
  /\ DropAll({x \in About(i) : Ends(k, u, x[1], sess[x[1]][x[2]])})
  /\ frame' = [frame EXCEPT ![u].op = "finish"]
  /\ UNCHANGED <<screen, cards>>

\* The row of (employee, chat) is deleted once the decision stands.
Finish(u) ==
  /\ frame[u].op = "finish"
  /\ sess' = [sess EXCEPT ![u][Desk(frame[u].s.kind)] = NoSession]
  /\ frame' = [frame EXCEPT ![u] = Idle]
  /\ UNCHANGED <<incident, screen, cards>>

\* A handler that is refused, fails or crashes.
Abandon(u) ==
  /\ frame[u] # Idle
  /\ frame' = [frame EXCEPT ![u] = Idle]
  /\ UNCHANGED <<incident, sess, screen, cards>>

-----------------------------------------------------------------------------
OnIncident(i) ==
  \/ HoldExpires(i) \/ Sweep(i)
  \/ \E u \in People : Take(u, i) \/ Release(u, i)
  \/ \E u \in People : \E k \in Kinds[u] : Read(u, k, i, FALSE)
InChat(u, d) == Discard(u, d) \/ SessionExpires(u, d) \/ Cancel(u, d)
                \/ \E x \in Args : Say(u, d, x)
OnCard(u, n) == Back(u, n) \/ Edit(u, n, FALSE) \/ Confirm(u, n, FALSE)
                \/ \E x \in Args : Pick(u, n, x) \/ ChooseReason(u, n, x)
Handler(u) == Open(u) \/ OpenPicker(u) \/ Continue(u) \/ Apply(u) \/ Finish(u) \/ Abandon(u)

Next ==
  \/ \E i \in Incidents : OnIncident(i)
  \/ \E u \in People : Handler(u)
  \/ \E u \in People, d \in AllDesks : InChat(u, d)
  \/ \E u \in People : \E n \in DOMAIN cards : OnCard(u, n)

Spec == Init /\ [][Next]_vars

-----------------------------------------------------------------------------
(* Properties. *)

\* Every variable holds what its column may hold.
TypeOK ==
  /\ desk \in [Incidents -> AllDesks \cup {"done"}]
  /\ round \in [Incidents -> 0..MaxRounds]
  /\ answer \in [Incidents -> 0..MaxAnswers]
  /\ hold \in [Incidents -> [by : People \cup {NoOne}, term : 0..MaxTerms, live : BOOLEAN]]
  /\ sess \in [People -> [AllDesks -> Sessions \cup {NoSession}]]

Deciding(u) == frame[u].op = "apply" /\ frame'[u] # frame[u] /\ frame'[u].op = "finish"
Pressed(u) == cards[frame[u].card]

\* Whatever an employee's press decides was on the very card pressed: the same
\* incident, action and text or choice, shown to that employee and to nobody
\* else, however many cards of the chat are pressed late, twice or by others.
DecidedAsShown ==
  [][\A u \in People : Deciding(u) =>
       /\ Pressed(u).by = u /\ Pressed(u).inc = frame[u].s.inc
       /\ Pressed(u).kind = frame[u].s.kind /\ Pressed(u).arg = frame[u].s.arg]_vars

\* A decision still fits what its card was about: the incident is at that
\* stage, in the assignment and with the answer shown there, and no colleague
\* holds it.  (A return is only bound to the group it returns from.)
DecidedInTime ==
  [][\A u \in People : Deciding(u) =>
       LET i == frame[u].s.inc IN
       /\ desk[i] = Desk(Pressed(u).kind) /\ ~HeldByOther(i, u)
       /\ Pressed(u).kind = "answer" => Pressed(u).round = round[i]
       /\ Desk(Pressed(u).kind) = "review" => Pressed(u).answer = answer[i]]_vars

\* A confirmation an employee can still give is never replaced by another
\* dialogue: it is given, edited or cancelled by the employee, or runs out.
ConfirmationKept ==
  [][\A u \in People, d \in AllDesks :
       LET s == sess[u][d] IN
       s # NoSession /\ s.step = "preview" /\ s.kind \in Inputs \cup Buttons /\ ~Obsolete(u, s) =>
         \/ sess'[u][d] = s \/ sess'[u][d] = NoSession
         \/ sess'[u][d] = [s EXCEPT !.step = "text", !.tok = 0]]_vars
=============================================================================
