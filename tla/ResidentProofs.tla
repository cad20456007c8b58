--------------------------- MODULE ResidentProofs ---------------------------
(* Proofs about Resident: what is registered is what was confirmed, a draft *)
(* ends once, and the current screen of a draft can be used.                *)
EXTENDS Resident, TLAPS

-----------------------------------------------------------------------------
(* Types.  Texts are those of the inputs. *)

Texts == {"unset"} \cup {x.text : x \in Inputs}
Bodies ==
  [topic : {"none", "topic"}, place : {"unset"} \cup Places, text : Texts,
   photo : {"none", "photo", "broken"}, phone : {"none", "phone"}]
Jobs == [status : {"none", "pending", "sending", "exhausted"}, tries : Nat]
Kinds == {"none", "category", "municipality", "locality", "prompt", "edit", "photos", "retry",
          "phone", "offer"}
ScreenStages == {"category", "municipality", "locality"}
DraftTypes == {"none", "SELECTION", "TEXT", "CUSTOM_LOCALITY", "CONFIRMATION", "EDIT_SELECTION", "EDIT_VALUE"}
Fields == {"none", "category", "location", "text", "photo", "photo-retry", "phone"}
Sessions ==
  [draft : Nat, type : DraftTypes, body : Bodies, field : Fields, stage : ScreenStages,
   screen : Nat, kind : Kinds \cup {"preview"}, used : BOOLEAN, preview : Nat, bound : Nat,
   pending : BOOLEAN, job : Jobs, shown : Nat, card : Nat, old : SUBSET Nat, tidies : Nat]
Buttons ==
  {"topic", "no-topic", "gone-topic", "page", "city", "district", "location-page", "village", "skip",
   "other", "draft-confirm", "draft-edit", "draft-cancel", "draft-phone-enter", "edit-category",
   "edit-location", "edit-text", "edit-photo", "draft-edit-back", "draft-phone-remove", "replace",
   "remove", "draft-phone-back", "draft-resume", "draft-reset"}
Messages == [screen : Nat, buttons : SUBSET Buttons, body : Bodies, live : BOOLEAN]
Registrations == [draft : Nat, body : Bodies, seen : Bodies, last : Bodies]

\* A step of an update that has the row in hand.
Working == {"decide", "reread", "write", "bind", "start", "clear", "create", "consume"}
Delivers == {"deliver", "send", "post", "sent", "record", "failed", "refused", "gone", "tidy", "retire"}
Locked == Working \cup Delivers \cup {"retract"}
Unlocked == {"idle", "typed", "picked"}
ThreadStates ==
  [stage : Locked \cup Unlocked, act : Buttons \cup {"none", "new", "text", "phone"}, token : Nat,
   seen : Bodies, row : Sessions, snap : Sessions, kind : Kinds \cup {"deliver", "tidy"}, msg : Nat]

Types ==
  /\ session \in Sessions /\ messages \in Seq(Messages)
  /\ thread \in [Threads -> ThreadStates]
  /\ lock \in {"free", "held", "lapsed", "dead"}
  /\ incidents \in Seq(Registrations) /\ ended \in SUBSET Nat
  /\ tokens \in Nat /\ drafts \in Nat /\ lapses \in Nat

-----------------------------------------------------------------------------
(* The rows in hand: what is saved, what a thread has read and would save.  *)

Row(p) == thread[p].row
Snap(p) == thread[p].snap
Writes(p) == thread[p].stage \in {"reread", "write", "record"}

\* A preview whose buttons work.
Confirmable(s) == s.kind = "preview" /\ ~s.used

\* What holds of every row, saved or in hand, in a dialog of k tokens, d drafts
\* and the messages m.  A preview that can be confirmed is bound to its own
\* token; a screen that was used is not delivered again; a row whose newest
\* screen is delivered names the message that shows it.
RowIn(s, k, d, m) ==
  /\ s.screen <= k /\ s.preview <= k /\ s.bound <= k /\ s.draft <= d
  /\ s.shown <= Len(m) /\ s.card <= Len(m)
  /\ s.draft = 0 => s.type # "CONFIRMATION" /\ s.shown = 0 /\ s.card = 0
  /\ Confirmable(s) =>
       s.type = "CONFIRMATION" /\ s.screen # 0 /\ s.preview = s.screen /\ s.bound = s.screen
  /\ s.used => s.job = NoJob
  /\ Delivered(s) => s.shown # 0 /\ m[s.shown].screen = s.screen
RowOk(s) == RowIn(s, tokens, drafts, messages)

\* Two rows that await a confirmation under the same token are of one draft
\* and have the same contents; the messages of two drafts are different.
Agree(r, s) ==
  /\ r.type = "CONFIRMATION" /\ s.type = "CONFIRMATION" /\ r.preview = s.preview =>
       r.body = s.body /\ r.draft = s.draft
  /\ r.draft # s.draft => r.card = 0 \/ (r.card # s.shown /\ r.card # s.card)

\* A message with a button that confirms shows the contents under its token.
Asks(m) == "draft-confirm" \in m.buttons
ShownBy(m, s) == Asks(m) /\ s.type = "CONFIRMATION" /\ s.preview = m.screen => m.body = s.body

Held == {session} \cup {Row(p) : p \in Threads} \cup {Snap(p) : p \in Threads}
RowsOk ==
  /\ \A r \in Held : RowOk(r)
  /\ \A r, s \in Held : Agree(r, s)
  /\ \A n \in DOMAIN messages : messages[n].screen <= tokens /\ \A r \in Held : ShownBy(messages[n], r)

\* The token of a preview that has not been saved yet is known to nobody else.
Secret(p, k) ==
  /\ session.preview # k /\ session.bound # k
  /\ \A q \in Threads : thread[q].token # k
  /\ \A q \in Threads \ {p} : Row(q).preview # k /\ Row(q).bound # k

\* A message not yet recorded is named by no row; nobody else has it in hand.
Private(p) ==
  LET n == thread[p].msg IN
  /\ n \in DOMAIN messages /\ messages[n].screen = Snap(p).screen
  /\ session.shown # n /\ session.card # n
  /\ \A q \in Threads : Snap(q).shown # n /\ Snap(q).card # n
  /\ \A q \in Threads \ {p} : Row(q).shown # n /\ Row(q).card # n /\ thread[q].msg # n

\* A message about to lose its buttons is not the current one of a draft.
Retired(p) ==
  LET n == thread[p].msg IN
  n # 0 =>
    /\ n \in DOMAIN messages
    /\ session.shown # n
    /\ \A q \in Threads : Writes(q) /\ Row(q).shown = n => Row(q).draft \in ended

\* What the update carries along: the press names a message that was shown.
Carries(p) ==
  LET t == thread[p] IN
  /\ t.token <= tokens /\ t.msg <= Len(messages)
  /\ t.act = "draft-confirm" =>
       \E n \in DOMAIN messages :
         Asks(messages[n]) /\ messages[n].screen = t.token /\ messages[n].body = t.seen
\* A press has used its screen; a confirmation holds the row it was read from;
\* what comes next is known.
Decides(p) ==
  LET t == thread[p] IN
  /\ t.stage = "picked" => t.kind \in {"deliver", "tidy"}
  /\ t.stage \in {"reread", "write", "start", "bind"} => t.kind \in Kinds
  /\ t.stage = "decide" /\ t.act # "new" => ~(Confirmable(session) /\ session.screen = t.token)
  /\ t.stage = "create" =>
       t.act = "draft-confirm" /\ t.row.type = "CONFIRMATION" /\ t.row.preview = t.token
\* A row about to be saved is of the draft it was made from.
Saves(p) ==
  LET t == thread[p] IN
  /\ t.stage \in {"reread", "write"} =>
       t.row.draft # 0 /\ (Confirmable(t.row) => Secret(p, t.row.screen))
  /\ t.stage = "write" => t.row.draft = t.snap.draft
Sends(p) ==
  LET t == thread[p] IN
  /\ t.stage \in {"send", "post"} => t.snap.job.status = "sending"
  /\ t.stage \in {"sent", "record"} => Private(p)
  /\ t.stage = "record" => t.row = Recorded(t.snap, t.msg)
  /\ t.stage = "retract" => Retired(p)
ThreadOk(p) == Carries(p) /\ Decides(p) /\ Saves(p) /\ Sends(p)

\* Drafts end once.
DraftInv ==
  /\ session.draft \notin ended /\ ended \subseteq 1..drafts
  /\ \A i \in DOMAIN incidents : incidents[i].draft \in ended
  /\ \A i, j \in DOMAIN incidents : incidents[i].draft = incidents[j].draft => i = j

\* While no holder outlives its lock, one thread at a time has it ...
Alone == lapses = 0 =>
  \A p \in Threads : thread[p].stage \in Locked =>
    lock = "held" /\ \A q \in Threads : thread[q].stage \in Locked => p = q
\* ... and the current message of every row it may save has its buttons.
LiveIn(s, m) == Delivered(s) => m[s.shown].live
Ready(t, s, m) ==
  /\ t.stage \in {"reread", "write"} => LiveIn(t.row, m)
  /\ t.stage \in {"sent", "record"} => m[t.msg].live
  /\ t.stage = "retire" => s.draft = 0 \/ s.shown \notin Old(t.snap)
Usable == lapses = 0 =>
  /\ LiveIn(session, messages)
  /\ \A p \in Threads : Ready(thread[p], session, messages)

Inv ==
  /\ Types /\ RowsOk /\ (\A p \in Threads : ThreadOk(p))
  /\ DraftInv /\ ConfirmedAsShown /\ Alone /\ Usable

-----------------------------------------------------------------------------
(* Rows made from rows. *)

\* The draft and its messages; the contents only under the same token, or
\* under a new one.
SameDraftRow(r, s) == r.draft = s.draft /\ r.shown = s.shown /\ r.card = s.card
Like(r, s) ==
  /\ SameDraftRow(r, s)
  /\ r.preview \in {s.preview, tokens + 1} /\ r.bound \in {s.bound, s.preview, tokens + 1}
  /\ r.type = "CONFIRMATION" =>
       r.preview = tokens + 1 \/ (s.type = "CONFIRMATION" /\ r.preview = s.preview /\ r.body = s.body)
\* What an update makes of the row it has read: the next screen, or the same
\* screen a step further.
NextScreen(r, s) ==
  /\ Like(r, s)
  /\ r.screen = tokens + 1 /\ ~r.used /\ r.job # NoJob
  /\ r.kind = "preview" => r.type = "CONFIRMATION" /\ r.preview = tokens + 1 /\ r.bound = tokens + 1
SameScreen(r, s) ==
  /\ Like(r, s)
  /\ r.screen = s.screen /\ r.kind = s.kind /\ r.used = s.used /\ r.job = s.job /\ r.bound = s.bound
  /\ r.type # "CONFIRMATION" /\ ~Confirmable(s)
NewRow(r, s) == r \in Sessions /\ (NextScreen(r, s) \/ SameScreen(r, s))

\* The rows of the model are well formed.
LEMMA Blanks == NoJob \in Jobs /\ Blank \in Bodies /\ NoSession \in Sessions /\ Idle \in ThreadStates
<1>1. NoJob \in Jobs /\ Blank \in Bodies
  BY DEF NoJob, Jobs, Blank, Bodies, Texts
<1>2. NoSession \in Sessions
  BY <1>1 DEF NoSession, Sessions, DraftTypes, Fields, ScreenStages, Kinds
<1>3. Idle \in ThreadStates
  BY <1>1, <1>2 DEF Idle, ThreadStates, Unlocked, Kinds
<1> QED BY <1>1, <1>2, <1>3

\* The inputs are well formed.
LEMMA InputTypes == \A x \in Inputs : x.text \in Texts /\ x.photo \in {"none", "photo", "broken"}
  BY ResidentAssumption DEF Texts

\* A new screen of a row.
LEMMA ScreenNew ==
  ASSUME tokens \in Nat, NEW s \in Sessions, NEW r \in Sessions, SameDraftRow(r, s),
         r.preview \in {s.preview, tokens + 1},
         r.type = "CONFIRMATION" =>
           r.preview = tokens + 1 \/ (s.type = "CONFIRMATION" /\ r.preview = s.preview /\ r.body = s.body),
         NEW k \in Kinds
  PROVE  NewRow(bindDraftKeyboard(r, k), s) /\ bindDraftKeyboard(r, k).kind = k
<1> DEFINE b == bindDraftKeyboard(r, k)
<1>1. b = [r EXCEPT !.screen = tokens + 1, !.kind = k, !.used = FALSE, !.bound = r.preview,
            !.job = [status |-> "pending", tries |-> 0]]
  BY DEF bindDraftKeyboard
<1>2. b \in Sessions
  <2>1. tokens + 1 \in Nat /\ r.preview \in Nat /\ [status |-> "pending", tries |-> 0] \in Jobs
        /\ k \in Kinds \cup {"preview"} /\ FALSE \in BOOLEAN
    BY DEF Sessions, Jobs
  <2> QED BY <1>1, <2>1 DEF Sessions
<1>3. /\ b.draft = r.draft /\ b.shown = r.shown /\ b.card = r.card /\ b.preview = r.preview
      /\ b.type = r.type /\ b.body = r.body /\ b.bound = r.preview
      /\ b.screen = tokens + 1 /\ b.used = FALSE /\ b.job = [status |-> "pending", tries |-> 0] /\ b.kind = k
  BY <1>1 DEF Sessions
<1>4. b.job # NoJob /\ k # "preview"
  BY <1>3 DEF NoJob, Kinds
<1> HIDE DEF b
<1>5. NextScreen(b, s)
  BY <1>3, <1>4 DEF NextScreen, Like, SameDraftRow
<1> QED BY <1>2, <1>3, <1>5 DEF NewRow, b

\* A preview is a new screen.
LEMMA PreviewNew ==
  ASSUME tokens \in Nat, NEW s \in Sessions, NEW r \in Sessions, SameDraftRow(r, s)
  PROVE  NewRow(Preview(r), s) /\ Preview(r).screen = tokens + 1
<1> DEFINE clean == [r EXCEPT !.field = "none", !.preview = tokens + 1]
           other == [clean EXCEPT !.body.photo = "none", !.field = "photo-retry", !.pending = FALSE,
                                  !.type = "EDIT_VALUE"]
           ask == [clean EXCEPT !.pending = TRUE, !.type = "CONFIRMATION"]
<1>1. clean \in Sessions /\ SameDraftRow(clean, s) /\ clean.preview = tokens + 1
  <2>1. tokens + 1 \in Nat /\ "none" \in Fields
    BY DEF Fields
  <2>2. clean \in Sessions
    BY <2>1 DEF Sessions
  <2>3. clean.draft = r.draft /\ clean.shown = r.shown /\ clean.card = r.card /\ clean.preview = tokens + 1
    BY DEF Sessions
  <2> QED BY <2>2, <2>3 DEF SameDraftRow
<1>2. CASE r.body.photo = "broken"
  <2>1. [clean.body EXCEPT !.photo = "none"] \in Bodies
    BY <1>1 DEF Sessions, Bodies
  <2>2. other \in Sessions /\ SameDraftRow(other, s) /\ other.preview = tokens + 1 /\ other.type = "EDIT_VALUE"
    BY <1>1, <2>1 DEF Sessions, SameDraftRow, Fields, DraftTypes
  <2>3. Preview(r) = bindDraftKeyboard(other, "retry") /\ "retry" \in Kinds
    BY <1>2 DEF Preview, Kinds
  <2>4. Preview(r).screen = tokens + 1
    BY <2>2, <2>3 DEF bindDraftKeyboard, Sessions
  <2> HIDE DEF other
  <2> QED BY <2>2, <2>3, <2>4, ScreenNew
<1>3. CASE r.body.photo # "broken"
  <2>1. ask \in Sessions /\ SameDraftRow(ask, s) /\ ask.preview = tokens + 1 /\ ask.type = "CONFIRMATION"
    BY <1>1 DEF Sessions, SameDraftRow, DraftTypes
  <2>2. Preview(r) = bindDraftKeyboard(ask, "preview")
    BY <1>3 DEF Preview
  <2> HIDE DEF ask
  <2> DEFINE b == Preview(r)
  <2>3. b = [ask EXCEPT !.screen = tokens + 1, !.kind = "preview", !.used = FALSE, !.bound = ask.preview,
              !.job = [status |-> "pending", tries |-> 0]]
    BY <2>2 DEF bindDraftKeyboard
  <2>4. b \in Sessions
    <3>1. tokens + 1 \in Nat /\ ask.preview \in Nat /\ [status |-> "pending", tries |-> 0] \in Jobs
          /\ "preview" \in Kinds \cup {"preview"} /\ FALSE \in BOOLEAN
      BY <2>1 DEF Sessions, Jobs
    <3> QED BY <2>1, <2>3, <3>1 DEF Sessions
  <2>5. /\ b.draft = ask.draft /\ b.shown = ask.shown /\ b.card = ask.card /\ b.preview = tokens + 1
        /\ b.type = "CONFIRMATION" /\ b.bound = tokens + 1 /\ b.kind = "preview"
        /\ b.screen = tokens + 1 /\ b.used = FALSE /\ b.job = [status |-> "pending", tries |-> 0]
    BY <2>1, <2>3 DEF Sessions
  <2>6. b.job # NoJob
    BY <2>5 DEF NoJob
  <2> HIDE DEF b
  <2>7. NextScreen(b, s)
    BY <2>1, <2>5, <2>6 DEF NextScreen, Like, SameDraftRow
  <2> QED BY <2>4, <2>5, <2>7 DEF NewRow, b
<1> QED BY <1>2, <1>3

-----------------------------------------------------------------------------
(* What an update decides. *)

Thens == {"release", "bind", "reread", "write", "create", "clear", "start"}
PlanOk(pl, s, a, k) ==
  /\ pl.then \in Thens /\ pl.row \in Sessions /\ pl.kind \in Kinds
  /\ pl.then \in {"reread", "write"} => s.draft # 0 /\ NewRow(pl.row, s)
  /\ pl.then = "create" =>
       pl.row = s /\ a = "draft-confirm" /\ s.type = "CONFIRMATION" /\ s.preview = k
  /\ pl.then = "clear" => pl.row = s
  /\ pl.then \in {"release", "bind", "start"} => pl.row = NoSession

\* The row with other contents, on the same screen.
Variant(r, s) ==
  /\ r \in Sessions /\ SameDraftRow(r, s)
  /\ r.preview \in {s.preview, tokens + 1} /\ r.bound = s.bound
  /\ r.screen = s.screen /\ r.kind = s.kind /\ r.used = s.used /\ r.job = s.job

\* Steps that save a variant, and those that only show.
LEMMA VariantPlans ==
  ASSUME tokens \in Nat, NEW s \in Sessions, NEW r, Variant(r, s), s.draft # 0, NEW a, NEW k
  PROVE  /\ PlanOk(Show(r), s, a, k) /\ PlanOk(ShowThis(r), s, a, k)
         /\ r.type # "CONFIRMATION" /\ ~Confirmable(s) =>
              \A x \in Kinds : PlanOk(Save(r, x), s, a, k) /\ PlanOk(SaveThis(r, x), s, a, k)
<1>1. NewRow(Preview(r), s)
  BY PreviewNew DEF Variant
<1>2. PlanOk(Show(r), s, a, k) /\ PlanOk(ShowThis(r), s, a, k)
  BY <1>1 DEF PlanOk, Show, ShowThis, Thens, NewRow, Kinds
<1>3. ASSUME r.type # "CONFIRMATION", ~Confirmable(s), NEW x \in Kinds
      PROVE  PlanOk(Save(r, x), s, a, k) /\ PlanOk(SaveThis(r, x), s, a, k)
  <2>1. NewRow(r, s)
    BY <1>3 DEF Variant, NewRow, SameScreen, Like
  <2> QED BY <1>3, <2>1 DEF PlanOk, Save, SaveThis, Thens, NewRow
<1> QED BY <1>2, <1>3

\* The plans that save nothing.
LEMMA ShortPlans ==
  ASSUME NEW s, NEW a, NEW k
  PROVE  PlanOk(Stop, s, a, k) /\ \A x \in Kinds : PlanOk(Screen(x), s, a, k)
  BY Blanks DEF PlanOk, Stop, Screen, Thens, Kinds

\* The row with one field of its contents changed.
LEMMA BodyVariants ==
  ASSUME NEW s \in Sessions
  PROVE  /\ Variant(s, s)
         /\ \A x \in Places : Variant([s EXCEPT !.body.place = x], s) /\ [s EXCEPT !.body.place = x].type = s.type
         /\ \A x \in {"none", "topic"} :
              Variant([s EXCEPT !.body.topic = x], s) /\ [s EXCEPT !.body.topic = x].type = s.type
         /\ \A x \in {"none", "photo", "broken"} : Variant([s EXCEPT !.body.photo = x], s)
         /\ \A x \in {"none", "phone"} : Variant([s EXCEPT !.body.phone = x], s)
         /\ \A x \in Texts : Variant([s EXCEPT !.body.text = x], s)
         /\ \A x \in Texts, y \in {"none", "photo", "broken"} :
              Variant([s EXCEPT !.body.text = x, !.body.photo = y], s)
<1> DEFINE With(b) == [s EXCEPT !.body = b]
<1>1. \A b \in Bodies : Variant(With(b), s) /\ With(b).type = s.type /\ With(b).body = b
  <2> SUFFICES ASSUME NEW b \in Bodies PROVE Variant(With(b), s) /\ With(b).type = s.type /\ With(b).body = b
    OBVIOUS
  <2>1. With(b) \in Sessions
    BY DEF Sessions
  <2>2. /\ With(b).draft = s.draft /\ With(b).shown = s.shown /\ With(b).card = s.card
        /\ With(b).preview = s.preview /\ With(b).bound = s.bound /\ With(b).screen = s.screen
        /\ With(b).kind = s.kind /\ With(b).used = s.used /\ With(b).job = s.job /\ With(b).type = s.type
        /\ With(b).body = b
    BY DEF Sessions
  <2> HIDE DEF With
  <2> QED BY <2>1, <2>2 DEF Variant, SameDraftRow
<1>2. s.body \in Bodies /\ Variant(s, s)
  BY DEF Sessions, Variant, SameDraftRow
<1>3. \A x \in Places : [s.body EXCEPT !.place = x] \in Bodies /\ [s EXCEPT !.body.place = x] = With([s.body EXCEPT !.place = x])
  BY <1>2 DEF Bodies
<1>4. \A x \in {"none", "topic"} : [s.body EXCEPT !.topic = x] \in Bodies /\ [s EXCEPT !.body.topic = x] = With([s.body EXCEPT !.topic = x])
  BY <1>2 DEF Bodies
<1>5. \A x \in {"none", "photo", "broken"} : [s.body EXCEPT !.photo = x] \in Bodies /\ [s EXCEPT !.body.photo = x] = With([s.body EXCEPT !.photo = x])
  BY <1>2 DEF Bodies
<1>6. \A x \in {"none", "phone"} : [s.body EXCEPT !.phone = x] \in Bodies /\ [s EXCEPT !.body.phone = x] = With([s.body EXCEPT !.phone = x])
  BY <1>2 DEF Bodies
<1>7. \A x \in Texts : [s.body EXCEPT !.text = x] \in Bodies /\ [s EXCEPT !.body.text = x] = With([s.body EXCEPT !.text = x])
  BY <1>2 DEF Bodies
<1>8. \A x \in Texts, y \in {"none", "photo", "broken"} :
        /\ [s.body EXCEPT !.text = x, !.photo = y] \in Bodies
        /\ [s EXCEPT !.body.text = x, !.body.photo = y] = With([s.body EXCEPT !.text = x, !.photo = y])
  <2> SUFFICES ASSUME NEW x \in Texts, NEW y \in {"none", "photo", "broken"}
               PROVE  /\ [s.body EXCEPT !.text = x, !.photo = y] \in Bodies
                      /\ [s EXCEPT !.body.text = x, !.body.photo = y] = With([s.body EXCEPT !.text = x, !.photo = y])
    OBVIOUS
  <2>1. [s.body EXCEPT !.text = x, !.photo = y] \in Bodies
    BY <1>2 DEF Bodies
  <2>2. [s EXCEPT !.body.text = x].body = [s.body EXCEPT !.text = x]
    BY DEF Sessions
  <2>3. [s EXCEPT !.body.text = x, !.body.photo = y] = [s EXCEPT !.body = [s.body EXCEPT !.text = x, !.photo = y]]
    BY <2>2 DEF Sessions
  <2> QED BY <2>1, <2>3
<1> HIDE DEF With
<1>9. \A x \in Places : Variant([s EXCEPT !.body.place = x], s) /\ [s EXCEPT !.body.place = x].type = s.type
  <2> SUFFICES ASSUME NEW x \in Places
               PROVE  Variant([s EXCEPT !.body.place = x], s) /\ [s EXCEPT !.body.place = x].type = s.type
    OBVIOUS
  <2> DEFINE b == [s.body EXCEPT !.place = x]
  <2>1. b \in Bodies /\ [s EXCEPT !.body.place = x] = With(b)
    BY <1>3
  <2> HIDE DEF b
  <2> QED BY <2>1, <1>1
<1>10. \A x \in {"none", "topic"} :
         Variant([s EXCEPT !.body.topic = x], s) /\ [s EXCEPT !.body.topic = x].type = s.type
  BY <1>1, <1>4
<1>11. \A x \in {"none", "photo", "broken"} : Variant([s EXCEPT !.body.photo = x], s)
  BY <1>1, <1>5
<1>12. \A x \in {"none", "phone"} : Variant([s EXCEPT !.body.phone = x], s)
  BY <1>1, <1>6
<1>13. \A x \in Texts : Variant([s EXCEPT !.body.text = x], s)
  BY <1>1, <1>7
<1>14. \A x \in Texts, y \in {"none", "photo", "broken"} :
         Variant([s EXCEPT !.body.text = x, !.body.photo = y], s)
  <2> SUFFICES ASSUME NEW x \in Texts, NEW y \in {"none", "photo", "broken"}
               PROVE  Variant([s EXCEPT !.body.text = x, !.body.photo = y], s)
    OBVIOUS
  <2> DEFINE b == [s.body EXCEPT !.text = x, !.photo = y]
  <2>1. b \in Bodies /\ [s EXCEPT !.body.text = x, !.body.photo = y] = With(b)
    BY <1>8
  <2> HIDE DEF b
  <2> QED BY <2>1, <1>1
<1> QED BY <1>2, <1>9, <1>10, <1>11, <1>12, <1>13, <1>14

\* A variant at another step.
Step(r, x, f, y, n) == [r EXCEPT !.type = x, !.field = f, !.stage = y, !.preview = n]

\* It is a variant still.
LEMMA StepVariant ==
  ASSUME tokens \in Nat, NEW s, NEW r, Variant(r, s), NEW x \in DraftTypes, NEW f \in Fields,
         NEW y \in ScreenStages, NEW n \in {r.preview, tokens + 1}, n = s.preview \/ n = tokens + 1
  PROVE  Variant(Step(r, x, f, y, n), s) /\ Step(r, x, f, y, n).type = x
<1> DEFINE b == Step(r, x, f, y, n)
<1>1. r \in Sessions /\ n \in Nat
  BY DEF Variant, Sessions
<1>2. b \in Sessions
  BY <1>1 DEF Sessions, Step
<1>3. /\ b.draft = r.draft /\ b.shown = r.shown /\ b.card = r.card /\ b.preview = n /\ b.bound = r.bound
      /\ b.screen = r.screen /\ b.kind = r.kind /\ b.used = r.used /\ b.job = r.job /\ b.type = x
  BY <1>1 DEF Sessions, Step
<1> HIDE DEF b
<1> QED BY <1>2, <1>3 DEF Variant, SameDraftRow, b

\* The row with only some of them changed.
LEMMA Steps ==
  ASSUME NEW r \in Sessions
  PROVE  /\ r.type \in DraftTypes /\ r.field \in Fields /\ r.stage \in ScreenStages
         /\ \A x : [r EXCEPT !.type = x] = Step(r, x, r.field, r.stage, r.preview)
         /\ \A y : [r EXCEPT !.stage = y] = Step(r, r.type, r.field, y, r.preview)
         /\ \A x, y : [r EXCEPT !.type = x, !.stage = y] = Step(r, x, r.field, y, r.preview)
         /\ \A x, f, y : [r EXCEPT !.type = x, !.field = f, !.stage = y] = Step(r, x, f, y, r.preview)
         /\ \A x, f : [r EXCEPT !.type = x, !.field = f] = Step(r, x, f, r.stage, r.preview)
         /\ \A x, f, n : [r EXCEPT !.type = x, !.field = f, !.preview = n] = Step(r, x, f, r.stage, n)
         /\ \A x, n : [r EXCEPT !.type = x, !.preview = n] = Step(r, x, r.field, r.stage, n)
  BY DEF Sessions, Step

\* The pickers.
LEMMA PickerPlans ==
  ASSUME tokens \in Nat, NEW s \in Sessions, s.draft # 0, s.type \in {"SELECTION", "CUSTOM_LOCALITY"},
         ~Confirmable(s), NEW a, NEW k
  PROVE  /\ \A x \in Places : PlanOk(TextStep(Placed(s, x)), s, a, k)
         /\ a \in {"topic", "no-topic", "gone-topic", "page", "location-page", "city", "district",
                   "village", "skip", "other"} => PlanOk(Picker(s, a), s, a, k)
<1>1. ASSUME NEW x \in Places PROVE PlanOk(TextStep(Placed(s, x)), s, a, k)
  <2> DEFINE r == Placed(s, x)
  <2>1. Variant(r, s) /\ r \in Sessions
    BY BodyVariants DEF Placed, Variant
  <2> HIDE DEF r
  <2>2. [r EXCEPT !.type = "TEXT"] = Step(r, "TEXT", r.field, r.stage, r.preview)
    BY <2>1, Steps
  <2>3. Variant(Step(r, "TEXT", r.field, r.stage, r.preview), s)
        /\ Step(r, "TEXT", r.field, r.stage, r.preview).type = "TEXT"
    <3>1. /\ r.field \in Fields /\ r.stage \in ScreenStages /\ (r.preview = s.preview \/ r.preview = tokens + 1)
          /\ "TEXT" \in DraftTypes
      BY <2>1, Steps DEF Variant, DraftTypes
    <3> QED BY <2>1, <3>1, StepVariant
  <2>4. TextStep(r) = IF r.field = "location" THEN Show(r) ELSE Save(Step(r, "TEXT", r.field, r.stage, r.preview), "prompt")
    BY <2>2 DEF TextStep
  <2> QED BY <2>1, <2>3, <2>4, VariantPlans DEF Kinds, r
<1>2. ASSUME NEW x \in {"none", "topic"} PROVE PlanOk(TopicStep(s, x), s, a, k)
  <2> DEFINE r == [s EXCEPT !.body.topic = x]
  <2>1. Variant(r, s) /\ r.type = s.type /\ r \in Sessions
    BY BodyVariants DEF Variant
  <2>2. TopicStep(s, x) = IF s.field = "category" THEN Show(r) ELSE Save([r EXCEPT !.stage = "municipality"], "municipality")
    BY DEF TopicStep
  <2> HIDE DEF r
  <2>3. [r EXCEPT !.stage = "municipality"] = Step(r, r.type, r.field, "municipality", r.preview)
    BY <2>1, Steps
  <2>4. Variant(Step(r, r.type, r.field, "municipality", r.preview), s)
        /\ Step(r, r.type, r.field, "municipality", r.preview).type = r.type
    <3>1. /\ r.type \in DraftTypes /\ r.field \in Fields /\ (r.preview = s.preview \/ r.preview = tokens + 1)
          /\ "municipality" \in ScreenStages
      BY <2>1, Steps DEF Variant, ScreenStages
    <3> QED BY <2>1, <3>1, StepVariant
  <2> QED BY <2>1, <2>2, <2>3, <2>4, VariantPlans DEF Kinds
<1>3. PlanOk(Save([Placed(s, "district") EXCEPT !.stage = "locality"], "locality"), s, a, k)
  <2> DEFINE r == Placed(s, "district")
  <2>1. Variant(r, s) /\ r.type = s.type /\ r \in Sessions
    BY BodyVariants DEF Placed, Places, Variant
  <2> HIDE DEF r
  <2>2. [r EXCEPT !.stage = "locality"] = Step(r, r.type, r.field, "locality", r.preview)
    BY <2>1, Steps
  <2>3. Variant(Step(r, r.type, r.field, "locality", r.preview), s)
        /\ Step(r, r.type, r.field, "locality", r.preview).type = r.type
    <3>1. /\ r.type \in DraftTypes /\ r.field \in Fields /\ (r.preview = s.preview \/ r.preview = tokens + 1)
          /\ "locality" \in ScreenStages
      BY <2>1, Steps DEF Variant, ScreenStages
    <3> QED BY <2>1, <3>1, StepVariant
  <2> QED BY <2>1, <2>2, <2>3, VariantPlans DEF Kinds, r
<1>4. PlanOk(Save([s EXCEPT !.type = "CUSTOM_LOCALITY", !.stage = "locality"], "prompt"), s, a, k)
  <2> DEFINE r == Step(s, "CUSTOM_LOCALITY", s.field, "locality", s.preview)
  <2>1. [s EXCEPT !.type = "CUSTOM_LOCALITY", !.stage = "locality"] = r
    BY Steps
  <2>2. Variant(r, s) /\ r.type = "CUSTOM_LOCALITY"
    <3>1. s.field \in Fields /\ "CUSTOM_LOCALITY" \in DraftTypes /\ "locality" \in ScreenStages /\ Variant(s, s)
      BY Steps, BodyVariants DEF DraftTypes, ScreenStages
    <3> QED BY <3>1, StepVariant
  <2> HIDE DEF r
  <2> QED BY <2>1, <2>2, VariantPlans DEF Kinds
<1>5. PlanOk(Screen("category"), s, a, k) /\ PlanOk(Screen("municipality"), s, a, k)
  BY ShortPlans DEF Kinds
<1> QED BY <1>1, <1>2, <1>3, <1>4, <1>5 DEF Picker, Places

\* Editing: a preview that can be confirmed is left only by its own button,
\* which has used it.
LEMMA EditingPlans ==
  ASSUME tokens \in Nat, NEW s \in Sessions, s.draft # 0, NEW a, NEW k,
         Confirmable(s) => s.type = "CONFIRMATION" /\ s.preview = s.screen /\ s.screen # k
  PROVE  PlanOk(Editing(s, a, k), s, a, k)
<1>1. Variant(s, s) /\ s.field \in Fields /\ s.stage \in ScreenStages /\ s.type \in DraftTypes
  BY BodyVariants, Steps
<1>2. PlanOk(Stop, s, a, k) /\ \A x \in Kinds : PlanOk(Screen(x), s, a, k)
  BY ShortPlans
<1>3. \A x \in DraftTypes \ {"CONFIRMATION"}, f \in Fields, y \in ScreenStages, n \in {s.preview, tokens + 1}, z \in Kinds :
        ~Confirmable(s) => PlanOk(Save(Step(s, x, f, y, n), z), s, a, k) /\ PlanOk(SaveThis(Step(s, x, f, y, n), z), s, a, k)
  <2> SUFFICES ASSUME NEW x \in DraftTypes \ {"CONFIRMATION"}, NEW f \in Fields, NEW y \in ScreenStages,
                      NEW n \in {s.preview, tokens + 1}, NEW z \in Kinds, ~Confirmable(s)
               PROVE  PlanOk(Save(Step(s, x, f, y, n), z), s, a, k) /\ PlanOk(SaveThis(Step(s, x, f, y, n), z), s, a, k)
    OBVIOUS
  <2>1. Variant(Step(s, x, f, y, n), s) /\ Step(s, x, f, y, n).type # "CONFIRMATION"
    BY <1>1, StepVariant
  <2> QED BY <2>1, VariantPlans
<1>4. PlanOk(Show(s), s, a, k) /\ PlanOk(ShowThis(s), s, a, k)
  BY <1>1, VariantPlans
<1>5. CASE a = "draft-phone-enter"
  <2>1. [s EXCEPT !.type = "EDIT_VALUE", !.field = "phone", !.preview = tokens + 1] =
          Step(s, "EDIT_VALUE", "phone", s.stage, tokens + 1)
    BY DEF Sessions, Step
  <2>2. "EDIT_VALUE" \in DraftTypes \ {"CONFIRMATION"} /\ "phone" \in Fields /\ "phone" \in Kinds
    BY DEF DraftTypes, Fields, Kinds
  <2>3. assertPreviewToken(s, k) => ~Confirmable(s)
    BY DEF assertPreviewToken
  <2>4. ~Confirmable(s) => PlanOk(SaveThis(Step(s, "EDIT_VALUE", "phone", s.stage, tokens + 1), "phone"), s, a, k)
    BY <1>1, <1>3, <2>2
  <2> QED BY <1>2, <1>5, <2>1, <2>3, <2>4 DEF Editing
<1>6. CASE a = "draft-phone-back"
  BY <1>2, <1>4, <1>6 DEF Editing
<1>7. CASE a = "draft-phone-remove"
  <2>1. PlanOk(ShowThis([s EXCEPT !.body.phone = "none"]), s, a, k)
    BY BodyVariants, VariantPlans
  <2> QED BY <1>2, <1>7, <2>1 DEF Editing
<1>8. CASE a = "draft-edit"
  <2>1. [s EXCEPT !.type = "EDIT_SELECTION", !.preview = tokens + 1] =
          Step(s, "EDIT_SELECTION", s.field, s.stage, tokens + 1)
    BY DEF Sessions, Step
  <2>2. "EDIT_SELECTION" \in DraftTypes \ {"CONFIRMATION"} /\ "edit" \in Kinds
    BY DEF DraftTypes, Kinds
  <2>3. s.type = "EDIT_SELECTION" \/ assertPreviewToken(s, k) => ~Confirmable(s)
    BY DEF assertPreviewToken
  <2>4. ~Confirmable(s) => PlanOk(Save(Step(s, "EDIT_SELECTION", s.field, s.stage, tokens + 1), "edit"), s, a, k)
    BY <1>1, <1>3, <2>2
  <2> QED BY <1>2, <1>8, <2>1, <2>3, <2>4 DEF Editing
<1>9. CASE a = "draft-edit-back"
  BY <1>2, <1>4, <1>9 DEF Editing
<1>10. CASE a \in {"edit-category", "edit-location"}
  <2> DEFINE c == Step(s, "SELECTION", "category", "category", s.preview)
             l == Step(s, "SELECTION", "location", "municipality", s.preview)
  <2>1. /\ [s EXCEPT !.type = "SELECTION", !.field = "category", !.stage = "category"] = c
        /\ [s EXCEPT !.type = "SELECTION", !.field = "location", !.stage = "municipality"] = l
    BY DEF Sessions, Step
  <2>2. /\ "SELECTION" \in DraftTypes \ {"CONFIRMATION"} /\ {"category", "location"} \subseteq Fields
        /\ {"category", "municipality"} \subseteq Kinds /\ {"category", "municipality"} \subseteq ScreenStages
    BY DEF DraftTypes, Fields, Kinds, ScreenStages
  <2>3. ~Confirmable(s) => PlanOk(Save(c, "category"), s, a, k) /\ PlanOk(Save(l, "municipality"), s, a, k)
    BY <1>1, <1>3, <2>2
  <2> HIDE DEF c, l
  <2> QED BY <1>2, <1>10, <2>1, <2>3 DEF Editing
<1>11. CASE a \in {"edit-text", "replace"}
  <2> DEFINE t == Step(s, "EDIT_VALUE", "text", s.stage, s.preview)
             h == Step(s, "EDIT_VALUE", "photo", s.stage, s.preview)
  <2>1. /\ [s EXCEPT !.type = "EDIT_VALUE", !.field = "text"] = t
        /\ [s EXCEPT !.type = "EDIT_VALUE", !.field = "photo"] = h
    BY Steps
  <2>2. "EDIT_VALUE" \in DraftTypes \ {"CONFIRMATION"} /\ {"text", "photo"} \subseteq Fields /\ "prompt" \in Kinds
    BY DEF DraftTypes, Fields, Kinds
  <2>3. ~Confirmable(s) => PlanOk(Save(t, "prompt"), s, a, k) /\ PlanOk(Save(h, "prompt"), s, a, k)
    BY <1>1, <1>3, <2>2
  <2> HIDE DEF t, h
  <2> QED BY <1>2, <1>11, <2>1, <2>3 DEF Editing
<1>12. CASE a = "edit-photo"
  BY <1>2, <1>12 DEF Editing, Kinds
<1>13. CASE a = "remove"
  <2>1. PlanOk(Show([s EXCEPT !.body.photo = "none"]), s, a, k)
    BY BodyVariants, VariantPlans
  <2> QED BY <1>2, <1>13, <2>1 DEF Editing
<1> QED BY <1>2, <1>5, <1>6, <1>7, <1>8, <1>9, <1>10, <1>11, <1>12, <1>13 DEF Editing

\* A text.
LEMMA AnsweringPlans ==
  ASSUME tokens \in Nat, NEW s \in Sessions, s.draft # 0, NEW x \in Inputs, NEW a, NEW k,
         Confirmable(s) => s.type = "CONFIRMATION"
  PROVE  PlanOk(Answering(s, x), s, a, k)
<1>1. PlanOk(Stop, s, a, k)
  BY ShortPlans
<1>2. x.text \in Texts /\ x.photo \in {"none", "photo", "broken"}
  BY InputTypes
<1>3. PlanOk(ShowThis([s EXCEPT !.body.text = x.text, !.body.photo = x.photo]), s, a, k)
  BY <1>2, BodyVariants, VariantPlans
<1>4. PlanOk(ShowThis([s EXCEPT !.body.text = x.text]), s, a, k)
  BY <1>2, BodyVariants, VariantPlans
<1>5. PlanOk(ShowThis([s EXCEPT !.body.photo = x.photo]), s, a, k)
  BY <1>2, BodyVariants, VariantPlans
<1>6. PlanOk(ShowThis(Placed(s, "village")), s, a, k) /\ PlanOk(ShowThis(s), s, a, k)
  BY BodyVariants, VariantPlans DEF Placed, Places
<1>7. s.type = "CUSTOM_LOCALITY" => PlanOk(TextStep(Placed(s, "village")), s, a, k)
  BY PickerPlans DEF Places
<1> QED BY <1>1, <1>3, <1>4, <1>5, <1>6, <1>7 DEF Answering

\* A telephone number.
LEMMA CallingPlans ==
  ASSUME tokens \in Nat, NEW s \in Sessions, s.draft # 0, NEW a, NEW k, NEW pl \in Calling(s)
  PROVE  PlanOk(pl, s, a, k)
<1>1. PlanOk(Stop, s, a, k) /\ PlanOk(Screen("phone"), s, a, k)
  BY ShortPlans DEF Kinds
<1>2. PlanOk(ShowThis([s EXCEPT !.body.phone = "phone"]), s, a, k)
  BY BodyVariants, VariantPlans
<1> QED BY <1>1, <1>2 DEF Calling

\* A button, or the menu.
LEMMA DecisionPlans ==
  ASSUME Types, NEW p \in Threads,
         Confirmable(session) => session.type = "CONFIRMATION" /\ session.preview = session.screen,
         thread[p].act # "new" => ~(Confirmable(session) /\ session.screen = thread[p].token)
  PROVE  PlanOk(Decision(p), session, thread[p].act, thread[p].token)
<1> DEFINE s == session  a == thread[p].act  k == thread[p].token  Ok(pl) == PlanOk(pl, s, a, k)
<1>1. s \in Sessions /\ tokens \in Nat
  BY DEF Types
<1>2. Ok(Stop) /\ \A x \in Kinds : Ok(Screen(x))
  BY ShortPlans
<1>3. a = "new" => Ok(Beginning(s))
  <2>1. Ok([then |-> "start", row |-> NoSession, kind |-> "category"])
    BY Blanks DEF PlanOk, Thens, Kinds
  <2> HIDE DEF Ok
  <2> QED BY <1>2, <2>1 DEF Beginning, Kinds
<1>4. s.draft # 0 => Ok(resumeResidentDraft(s))
  <2>1. s.draft # 0 => Ok(ShowThis(s))
    BY <1>1, BodyVariants, VariantPlans
  <2>2. s.stage \in Kinds /\ "prompt" \in Kinds
    BY <1>1 DEF Sessions, ScreenStages, Kinds
  <2> HIDE DEF Ok
  <2> QED BY <1>2, <2>1, <2>2 DEF resumeResidentDraft
<1>5. Ok(Clearing(s, a, k))
  <2>1. Ok([then |-> "clear", row |-> s, kind |-> "none"])
    BY <1>1 DEF PlanOk, Thens, Kinds
  <2> HIDE DEF Ok
  <2> QED BY <1>2, <2>1 DEF Clearing
<1>6. a = "draft-confirm" => Ok(Confirming(s, k))
  <2>1. a = "draft-confirm" /\ s.type = "CONFIRMATION" /\ s.preview = k =>
          Ok([then |-> "create", row |-> s, kind |-> "none"])
    BY <1>1 DEF PlanOk, Thens, Kinds
  <2> HIDE DEF Ok
  <2> QED BY <1>2, <2>1 DEF Confirming, assertPreviewToken
<1>7. s.draft # 0 /\ s.type = "SELECTION" /\
      a \in {"topic", "no-topic", "gone-topic", "page", "location-page", "city", "district",
             "village", "skip", "other"} => Ok(Picker(s, a))
  BY <1>1, PickerPlans
<1>8. s.draft # 0 /\ a # "new" => Ok(Editing(s, a, k))
  BY <1>1, EditingPlans
<1> HIDE DEF Ok
<1>9. Ok(Decision(p))
  <2> DEFINE pick == {"topic", "no-topic", "gone-topic", "page", "location-page", "city", "district",
                      "village", "skip", "other"}
  <2>1. CASE banned \/ a = "new" \/ s.draft = 0
    BY <1>2, <1>3, <2>1 DEF Decision, isResidentDraft
  <2>2. CASE ~banned /\ a # "new" /\ s.draft # 0 /\ a \in {"draft-resume", "draft-cancel", "draft-reset", "draft-confirm"}
    BY <1>4, <1>5, <1>6, <2>2 DEF Decision, isResidentDraft
  <2>3. CASE ~banned /\ a # "new" /\ s.draft # 0 /\ a \in pick
    <3>1. Decision(p) = IF s.type = "SELECTION" THEN Picker(s, a) ELSE Stop
      BY <2>3 DEF Decision, isResidentDraft
    <3> QED BY <1>2, <1>7, <2>3, <3>1
  <2>4. CASE ~banned /\ a # "new" /\ s.draft # 0 /\ a \notin pick \cup {"draft-resume", "draft-cancel", "draft-reset", "draft-confirm"}
    <3>1. Decision(p) = Editing(s, a, k)
      BY <2>4 DEF Decision, isResidentDraft
    <3> QED BY <1>8, <2>4, <3>1
  <2> QED BY <2>1, <2>2, <2>3, <2>4
<1> QED BY <1>9 DEF Ok

-----------------------------------------------------------------------------
(* What every step keeps. *)

\* Counters and messages grow; a message keeps what it shows.
Grow ==
  /\ tokens' \in Nat /\ tokens <= tokens' /\ drafts' \in Nat /\ drafts <= drafts'
  /\ messages' \in Seq(Messages) /\ Len(messages) <= Len(messages')
  /\ \A n \in DOMAIN messages :
       /\ messages'[n].screen = messages[n].screen /\ messages'[n].buttons = messages[n].buttons
       /\ messages'[n].body = messages[n].body
  /\ ended \subseteq ended'

\* A row that names no message and asks for nothing.
Plain(r) == r.type # "CONFIRMATION" /\ r.shown = 0 /\ r.card = 0

\* The rows in hand are typed.
LEMMA HeldTypes == ASSUME Types PROVE \A x \in Held : x \in Sessions
  BY DEF Types, Held, Row, Snap, ThreadStates

\* The messages are typed.
LEMMA MessageTypes ==
  ASSUME Types
  PROVE  \A n \in DOMAIN messages : messages[n] \in Messages /\ messages[n].screen \in Nat /\ n \in 1..Len(messages)
<1>1. \A n \in DOMAIN messages : messages[n] \in Messages /\ n \in 1..Len(messages)
  BY DEF Types
<1>2. \A m \in Messages : m.screen \in Nat
  BY DEF Messages
<1> QED BY <1>1, <1>2

\* The rows in hand after a thread has moved.
LEMMA HeldNext ==
  ASSUME Types, NEW p \in Threads, NEW t, thread' = [thread EXCEPT ![p] = t]
  PROVE  \A x \in Held' : x \in {session', t.row, t.snap}
                          \/ \E q \in Threads \ {p} : x = Row(q) \/ x = Snap(q)
<1>1. thread'[p] = t /\ \A q \in Threads \ {p} : thread'[q] = thread[q]
  BY DEF Types
<1>2. \A x \in Held' : x = session' \/ \E q \in Threads : x = thread'[q].row \/ x = thread'[q].snap
  BY DEF Held, Row, Snap
<1> QED BY <1>1, <1>2 DEF Row, Snap

\* A row in hand stays well formed.
LEMMA RowGrows ==
  ASSUME Types, Grow, NEW s \in Sessions, RowOk(s)
  PROVE  RowIn(s, tokens', drafts', messages')
<1>1. /\ s.screen \in Nat /\ s.preview \in Nat /\ s.bound \in Nat /\ s.draft \in Nat
      /\ s.shown \in Nat /\ s.card \in Nat
  BY DEF Sessions
<1>2. tokens \in Nat /\ drafts \in Nat /\ Len(messages) \in Nat /\ Len(messages') \in Nat
      /\ DOMAIN messages = 1..Len(messages)
  BY DEF Types, Grow
<1>3. /\ s.screen <= tokens' /\ s.preview <= tokens' /\ s.bound <= tokens' /\ s.draft <= drafts'
      /\ s.shown <= Len(messages') /\ s.card <= Len(messages')
  <2>1. /\ s.screen <= tokens /\ s.preview <= tokens /\ s.bound <= tokens /\ s.draft <= drafts
        /\ s.shown <= Len(messages) /\ s.card <= Len(messages)
    BY DEF RowOk, RowIn
  <2>2. tokens <= tokens' /\ drafts <= drafts' /\ Len(messages) <= Len(messages')
        /\ tokens' \in Nat /\ drafts' \in Nat
    BY DEF Grow
  <2>3. \A a, b, c \in Nat : a <= b /\ b <= c => a <= c
    OBVIOUS
  <2>4. s.screen <= tokens' /\ s.preview <= tokens' /\ s.bound <= tokens'
    BY <1>1, <1>2, <2>1, <2>2, <2>3
  <2>5. s.draft <= drafts'
    BY <1>1, <1>2, <2>1, <2>2, <2>3
  <2>6. s.shown <= Len(messages') /\ s.card <= Len(messages')
    BY <1>1, <1>2, <2>1, <2>2, <2>3
  <2> QED BY <2>4, <2>5, <2>6
<1>4. Delivered(s) => s.shown # 0 /\ messages'[s.shown].screen = s.screen
  BY <1>1, <1>2 DEF Grow, RowOk, RowIn
<1> QED BY <1>3, <1>4 DEF RowOk, RowIn

\* A row with nothing in it.
LEMMA BlankRow ==
  /\ \A k, d \in Nat, m \in Seq(Messages) : RowIn(NoSession, k, d, m)
  /\ Plain(NoSession) /\ NoSession.draft = 0 /\ ~Delivered(NoSession) /\ ~Confirmable(NoSession)
  BY DEF RowIn, NoSession, Plain, Delivered, Confirmable, NoJob

\* A plain row agrees with all rows in hand.
LEMMA PlainAgrees ==
  ASSUME Types, RowsOk, NEW r, Plain(r)
  PROVE  /\ \A x \in Held : Agree(r, x) /\ Agree(x, r)
         /\ \A m : ShownBy(m, r)
  BY DEF Plain, Agree, ShownBy

\* A row made from one in hand agrees with all of those.
LEMMA LikeAgrees ==
  ASSUME Types, RowsOk, NEW s \in Held, NEW r, Like(r, s)
  PROVE  /\ \A x \in Held : Agree(r, x) /\ Agree(x, r)
         /\ \A n \in DOMAIN messages : ShownBy(messages[n], r)
<1>1. tokens \in Nat /\ \A x \in Held : x.preview \in Nat /\ x.preview <= tokens
  <2>1. \A x \in Held : x.preview <= tokens
    BY DEF RowsOk, RowOk, RowIn
  <2>2. \A x \in Held : x.preview \in Nat
    BY HeldTypes DEF Sessions
  <2> QED BY <2>1, <2>2 DEF Types
<1>2. \A n \in DOMAIN messages : messages[n].screen \in Nat /\ messages[n].screen <= tokens
  BY MessageTypes DEF RowsOk
<1>3. \A x \in Held : Agree(s, x) /\ Agree(x, s)
  BY DEF RowsOk
<1>4. \A x \in Held : Agree(r, x) /\ Agree(x, r)
  <2> SUFFICES ASSUME NEW x \in Held PROVE Agree(r, x) /\ Agree(x, r)
    OBVIOUS
  <2>1. x.preview # tokens + 1
    BY <1>1
  <2>2. Agree(s, x) /\ Agree(x, s)
    BY <1>3
  <2> QED BY <2>1, <2>2 DEF Agree, Like, SameDraftRow
<1>5. \A n \in DOMAIN messages : ShownBy(messages[n], r)
  <2> SUFFICES ASSUME NEW n \in DOMAIN messages PROVE ShownBy(messages[n], r)
    OBVIOUS
  <2>1. messages[n].screen # tokens + 1 /\ ShownBy(messages[n], s)
    <3>1. messages[n].screen # tokens + 1
      BY <1>1, <1>2
    <3>2. ShownBy(messages[n], s)
      BY DEF RowsOk
    <3> QED BY <3>1, <3>2
  <2> QED BY <2>1 DEF ShownBy, Like
<1> QED BY <1>4, <1>5

\* One new row, and no contradiction to the old ones.
LEMMA RowsStep ==
  ASSUME Types, RowsOk, Grow, NEW r, RowIn(r, tokens', drafts', messages'),
         \A n \in DOMAIN messages : ShownBy(messages[n], r),
         \A x \in Held' : x = r \/ x = NoSession \/ (x \in Held /\ Agree(r, x) /\ Agree(x, r)),
         \A n \in DOMAIN messages' \ DOMAIN messages :
           messages'[n].screen <= tokens' /\ \A x \in Held' : ShownBy(messages'[n], x)
  PROVE  RowsOk'
<1>1. \A x \in Held' : RowIn(x, tokens', drafts', messages')
  <2>1. RowIn(NoSession, tokens', drafts', messages')
    BY BlankRow DEF Grow
  <2>2. \A x \in Held : RowIn(x, tokens', drafts', messages')
    BY HeldTypes, RowGrows DEF RowsOk
  <2> QED BY <2>1, <2>2
<1>2. \A x, y \in Held' : Agree(x, y)
  <2>1. Agree(r, r)
    BY DEF Agree
  <2>2. \A x : Agree(NoSession, x) /\ Agree(x, NoSession)
    BY DEF Agree, NoSession
  <2>3. \A x, y \in Held : Agree(x, y)
    BY DEF RowsOk
  <2> QED BY <2>1, <2>2, <2>3
<1>3. \A n \in DOMAIN messages' : messages'[n].screen <= tokens' /\ \A x \in Held' : ShownBy(messages'[n], x)
  <2> SUFFICES ASSUME NEW n \in DOMAIN messages
               PROVE  messages'[n].screen <= tokens' /\ \A x \in Held' : ShownBy(messages'[n], x)
    OBVIOUS
  <2>1. messages'[n].screen <= tokens'
    <3>1. messages[n].screen \in Nat /\ messages[n].screen <= tokens /\ tokens \in Nat
      BY MessageTypes DEF Types, RowsOk
    <3> QED BY <3>1 DEF Grow
  <2>2. ASSUME NEW x, ShownBy(messages[n], x) PROVE ShownBy(messages'[n], x)
    BY <2>2 DEF Grow, ShownBy, Asks
  <2>3. ShownBy(messages[n], NoSession) /\ ShownBy(messages[n], r)
    BY DEF ShownBy, NoSession
  <2>4. \A x \in Held : ShownBy(messages[n], x)
    BY DEF RowsOk
  <2> QED BY <2>1, <2>2, <2>3, <2>4
<1>4. \A x \in Held' : RowOk(x)'
  BY <1>1 DEF RowOk
<1> QED BY <1>2, <1>3, <1>4 DEF RowsOk

\* A thread moves, and at most one row is new.
LEMMA OneNewRow ==
  ASSUME Types, RowsOk, Grow, NEW p \in Threads, NEW t, thread' = [thread EXCEPT ![p] = t],
         Len(messages') = Len(messages), NEW r, RowIn(r, tokens', drafts', messages'),
         Plain(r) \/ \E s \in Held : Like(r, s),
         {session', t.row, t.snap} \subseteq {session, Row(p), Snap(p), NoSession, r}
  PROVE  RowsOk'
<1>1. (\A x \in Held : Agree(r, x) /\ Agree(x, r)) /\ \A n \in DOMAIN messages : ShownBy(messages[n], r)
  BY PlainAgrees, LikeAgrees
<1>2. \A x \in Held' : x = r \/ x = NoSession \/ x \in Held
  <2>1. session \in Held /\ \A q \in Threads : Row(q) \in Held /\ Snap(q) \in Held
    BY DEF Held
  <2>2. \A x \in Held' : x \in {session', t.row, t.snap} \/ \E q \in Threads \ {p} : x = Row(q) \/ x = Snap(q)
    BY HeldNext
  <2>3. \A x \in {session', t.row, t.snap} : x = r \/ x = NoSession \/ x \in Held
    BY <2>1
  <2> QED BY <2>1, <2>2, <2>3
<1>3. DOMAIN messages' = DOMAIN messages
  BY DEF Types, Grow
<1> QED BY <1>1, <1>2, <1>3, RowsStep

\* The tokens and the messages a thread and the row know.
Tokens(p) ==
  {0, tokens + 1, session.preview, session.bound, Row(p).preview, Row(p).bound, thread[p].token}
Numbers(p) ==
  {0, Len(messages) + 1, session.shown, session.card, Snap(p).shown, Snap(p).card,
   Row(p).shown, Row(p).card, thread[p].msg}

\* A thread moves; the others keep what they know.
LEMMA OthersStep ==
  ASSUME Types, RowsOk, \A q \in Threads : ThreadOk(q), DraftInv, Grow,
         NEW p \in Threads, NEW t, thread' = [thread EXCEPT ![p] = t],
         {session'.preview, session'.bound, t.row.preview, t.row.bound, t.token} \subseteq Tokens(p),
         {session'.shown, session'.card, t.row.shown, t.row.card, t.snap.shown, t.snap.card, t.msg}
           \subseteq Numbers(p),
         Confirmable(session') =>
           \/ Confirmable(session) /\ session'.screen = session.screen
           \/ thread[p].stage = "write" /\ session' = Row(p),
         \/ session'.shown \in {0, session.shown}
         \/ Writes(p) /\ session'.shown = Row(p).shown /\ Row(p).draft = session.draft,
         t.stage \in {"reread", "write", "record"} =>
           \/ t.row.shown \in {0, session.shown}
           \/ Writes(p) /\ t.row.shown = Row(p).shown /\ t.row.draft = Row(p).draft
           \/ thread[p].stage = "sent" /\ t.row.shown = thread[p].msg
  PROVE  \A q \in Threads \ {p} : ThreadOk(q)'
<1> SUFFICES ASSUME NEW q \in Threads \ {p} PROVE ThreadOk(q)'
  OBVIOUS
<1>1. /\ thread'[p] = t /\ thread'[q] = thread[q] /\ ThreadOk(q) /\ ThreadOk(p)
      /\ \A o \in Threads \ {p} : thread'[o] = thread[o]
  BY DEF Types
<1>2. /\ tokens \in Nat /\ Len(messages) \in Nat /\ thread[q].token \in Nat /\ thread[q].msg \in Nat
      /\ thread[q] \in ThreadStates
  BY DEF Types, ThreadStates
<1>3. Carries(q)'
  <2>1. thread[q].token <= tokens' /\ thread[q].msg <= Len(messages')
    BY <1>1, <1>2 DEF ThreadOk, Carries, Grow
  <2>2. \A n \in DOMAIN messages : n \in DOMAIN messages' /\ (Asks(messages[n]) => Asks(messages'[n]))
    BY <1>2 DEF Types, Grow, Asks
  <2>3. thread[q].act = "draft-confirm" =>
          \E n \in DOMAIN messages' :
            Asks(messages'[n]) /\ messages'[n].screen = thread[q].token /\ messages'[n].body = thread[q].seen
    BY <1>1, <2>2 DEF ThreadOk, Carries, Grow
  <2> QED BY <1>1, <2>1, <2>3 DEF Carries, Asks
<1>4. Decides(q)'
  <2>1. thread[q].stage = "decide" /\ thread[q].act # "new" =>
          ~(Confirmable(session') /\ session'.screen = thread[q].token)
    <3>1. CASE Confirmable(session) /\ session'.screen = session.screen
      BY <1>1, <3>1 DEF ThreadOk, Decides
    <3>2. CASE thread[p].stage = "write" /\ session' = Row(p)
      <4>1. Confirmable(Row(p)) => Secret(p, Row(p).screen)
        BY <1>1, <3>2 DEF ThreadOk, Saves, Row
      <4> QED BY <3>2, <4>1 DEF Secret
    <3> QED BY <3>1, <3>2
  <2> QED BY <1>1, <2>1 DEF ThreadOk, Decides, Confirmable
<1>5. Saves(q)'
  <2> DEFINE k == Row(q).screen
  <2>1. thread[q].stage \in {"reread", "write"} /\ Confirmable(Row(q)) =>
          /\ session'.preview # k /\ session'.bound # k
          /\ \A o \in Threads : thread'[o].token # k
          /\ \A o \in Threads \ {q} : thread'[o].row.preview # k /\ thread'[o].row.bound # k
    <3> SUFFICES ASSUME thread[q].stage \in {"reread", "write"}, Confirmable(Row(q))
                 PROVE  /\ session'.preview # k /\ session'.bound # k
                        /\ \A o \in Threads : thread'[o].token # k
                        /\ \A o \in Threads \ {q} : thread'[o].row.preview # k /\ thread'[o].row.bound # k
      OBVIOUS
    <3>1. Secret(q, k)
      BY <1>1 DEF ThreadOk, Saves, Row
    <3>2. k # 0 /\ k # tokens + 1
      <4>1. RowOk(Row(q)) /\ k \in Nat
        BY <1>2 DEF RowsOk, Held, ThreadStates, Sessions, Row
      <4>2. k # 0 /\ k <= tokens
        BY <4>1 DEF RowOk, RowIn
      <4> QED BY <1>2, <4>1, <4>2
    <3> HIDE DEF k
    <3>3. k \notin Tokens(p)
      BY <3>1, <3>2 DEF Tokens, Secret
    <3> QED BY <1>1, <3>1, <3>3 DEF Secret, Row
  <2> QED BY <1>1, <2>1 DEF ThreadOk, Saves, Secret, Row, Confirmable
<1>6. thread[q].stage \in {"sent", "record"} => Private(q)'
  <2> SUFFICES ASSUME thread[q].stage \in {"sent", "record"} PROVE Private(q)'
    OBVIOUS
  <2> DEFINE n == thread[q].msg
  <2>1. Private(q)
    BY <1>1 DEF ThreadOk, Sends
  <2>2. n \notin Numbers(p)
    <3>1. n # 0 /\ n # Len(messages) + 1
      BY <1>2, <2>1 DEF Types, Private
    <3>2. n \notin {session.shown, session.card, Snap(p).shown, Snap(p).card, Row(p).shown, Row(p).card, thread[p].msg}
      BY <2>1 DEF Private
    <3> QED BY <3>1, <3>2 DEF Numbers
  <2>3. n \in DOMAIN messages' /\ messages'[n].screen = Snap(q).screen
    BY <1>2, <2>1 DEF Types, Grow, Private
  <2> QED BY <1>1, <2>1, <2>2, <2>3 DEF Private, Row, Snap
<1>7. thread[q].stage = "retract" => Retired(q)'
  <2> SUFFICES ASSUME thread[q].stage = "retract", thread[q].msg # 0 PROVE Retired(q)'
    BY <1>1 DEF Retired
  <2> DEFINE n == thread[q].msg
  <2>1. /\ n \in DOMAIN messages /\ session.shown # n
        /\ \A o \in Threads : Writes(o) /\ Row(o).shown = n => Row(o).draft \in ended
    BY <1>1 DEF ThreadOk, Sends, Retired
  <2>2. n \in DOMAIN messages'
    BY <2>1 DEF Types, Grow
  <2>3. session'.shown # n
    BY <2>1 DEF DraftInv
  <2>4. t.stage \in {"reread", "write", "record"} /\ t.row.shown = n => t.row.draft \in ended
    <3>1. thread[p].stage = "sent" => thread[p].msg # n
      BY <1>1 DEF ThreadOk, Sends, Private
    <3> QED BY <2>1, <3>1
  <2>5. \A o \in Threads : thread'[o].stage \in {"reread", "write", "record"} /\ thread'[o].row.shown = n
          => thread'[o].row.draft \in ended'
    BY <1>1, <2>1, <2>4 DEF Grow, Writes, Row
  <2> QED BY <1>1, <2>2, <2>3, <2>5 DEF Retired, Writes, Row
<1>8. Sends(q)'
  <2>1. thread[q].stage = "record" => thread[q].row = Recorded(thread[q].snap, thread[q].msg)
    BY <1>1 DEF ThreadOk, Sends
  <2>2. thread[q].stage \in {"send", "post"} => thread[q].snap.job.status = "sending"
    BY <1>1 DEF ThreadOk, Sends
  <2> QED BY <1>1, <1>6, <1>7, <2>1, <2>2 DEF Sends, Recorded, Screens
<1> QED BY <1>3, <1>4, <1>5, <1>8 DEF ThreadOk

\* A thread that moves holds the lock, takes it, or does without it.
Holds(p, t) == thread[p].stage \in Locked /\ (t.stage \in Locked => lock' = lock)
Takes(p, t) == Acquirable /\ (t.stage \in Locked => lock' = "held")
Waits(p, t) == thread[p].stage \notin Locked /\ t.stage \notin Locked /\ lock' = lock

\* Two threads do not meet, and the current message keeps its buttons.
LEMMA LockStep ==
  ASSUME Types, Alone, Usable, NEW p \in Threads, NEW t \in ThreadStates, thread' = [thread EXCEPT ![p] = t],
         lapses' = lapses,
         \/ /\ Holds(p, t) \/ Takes(p, t)
            /\ lapses = 0 => LiveIn(session', messages') /\ Ready(t, session', messages')
         \/ Waits(p, t) /\ session' = session /\ messages' = messages
  PROVE  Alone' /\ Usable'
<1> SUFFICES ASSUME lapses = 0
             PROVE  /\ \A q \in Threads : thread'[q].stage \in Locked =>
                         lock' = "held" /\ \A o \in Threads : thread'[o].stage \in Locked => q = o
                    /\ LiveIn(session', messages')
                    /\ \A q \in Threads : Ready(thread'[q], session', messages')
  BY DEF Alone, Usable, LiveIn, Ready
<1>1. thread'[p] = t /\ \A q \in Threads \ {p} : thread'[q] = thread[q]
  BY DEF Types
<1>2. \A q \in Threads : thread[q].stage \in Locked =>
        lock = "held" /\ \A o \in Threads : thread[o].stage \in Locked => q = o
  BY DEF Alone
<1>3. \A q \in Threads : LiveIn(session, messages) /\ Ready(thread[q], session, messages)
  BY DEF Usable
<1>4. CASE (Holds(p, t) \/ Takes(p, t)) /\ LiveIn(session', messages') /\ Ready(t, session', messages')
  <2>1. LiveIn(session', messages') /\ Ready(t, session', messages')
    BY <1>4
  <2>2. \A q \in Threads \ {p} : thread[q].stage \notin Locked
    BY <1>2, <1>4 DEF Holds, Takes, Acquirable
  <2>3. t.stage \in Locked => lock' = "held"
    BY <1>2, <1>4 DEF Holds, Takes
  <2>4. \A q \in Threads \ {p} : Ready(thread[q], session', messages')
    BY <2>2 DEF Ready, Locked, Working, Delivers
  <2> QED BY <1>1, <2>1, <2>2, <2>3, <2>4
<1>5. CASE Waits(p, t) /\ session' = session /\ messages' = messages
  <2>1. Waits(p, t) /\ session' = session /\ messages' = messages
    BY <1>5
  <2>2. Ready(t, session, messages)
    BY <2>1 DEF Waits, Ready, Locked, Working, Delivers
  <2> QED BY <1>1, <1>2, <1>3, <2>1, <2>2 DEF Waits
<1> QED BY <1>4, <1>5

\* What a thread carries along.
LEMMA CarriesOn ==
  ASSUME Types, Grow, NEW p \in Threads, Carries(p), NEW t, thread' = [thread EXCEPT ![p] = t],
         t.token = thread[p].token, t.act = thread[p].act, t.seen = thread[p].seen,
         t.msg <= Len(messages')
  PROVE  Carries(p)'
<1>1. thread'[p] = t /\ thread[p].token \in Nat /\ tokens \in Nat
  BY DEF Types, ThreadStates
<1>2. t.token <= tokens'
  BY <1>1 DEF Carries, Grow
<1>3. \A n \in DOMAIN messages : n \in DOMAIN messages' /\ (Asks(messages[n]) => Asks(messages'[n]))
  BY DEF Types, Grow, Asks
<1>4. t.act = "draft-confirm" =>
        \E n \in DOMAIN messages' :
          Asks(messages'[n]) /\ messages'[n].screen = t.token /\ messages'[n].body = t.seen
  BY <1>3 DEF Carries, Grow
<1> QED BY <1>1, <1>2, <1>4 DEF Carries, Asks

\* A step of one thread that sends nothing.
LEMMA Moves ==
  ASSUME Inv, NEW p \in Threads, NEW t \in ThreadStates, thread' = [thread EXCEPT ![p] = t],
         Grow, Len(messages') = Len(messages), session' \in Sessions, lapses' = lapses,
         lock' \in {"free", "held", "lapsed", "dead"}, incidents' \in Seq(Registrations), ended' \in SUBSET Nat,
         NEW r, RowIn(r, tokens', drafts', messages'), Plain(r) \/ \E s \in Held : Like(r, s),
         {session', t.row, t.snap} \subseteq {session, Row(p), Snap(p), NoSession, r},
         {session'.preview, session'.bound, t.row.preview, t.row.bound, t.token} \subseteq Tokens(p),
         {session'.shown, session'.card, t.row.shown, t.row.card, t.snap.shown, t.snap.card, t.msg}
           \subseteq Numbers(p),
         Confirmable(session') =>
           \/ Confirmable(session) /\ session'.screen = session.screen
           \/ thread[p].stage = "write" /\ session' = Row(p),
         \/ session'.shown \in {0, session.shown}
         \/ Writes(p) /\ session'.shown = Row(p).shown /\ Row(p).draft = session.draft,
         t.stage \in {"reread", "write", "record"} =>
           \/ t.row.shown \in {0, session.shown}
           \/ Writes(p) /\ t.row.shown = Row(p).shown /\ t.row.draft = Row(p).draft
           \/ thread[p].stage = "sent" /\ t.row.shown = thread[p].msg,
         ThreadOk(p)', DraftInv', ConfirmedAsShown',
         \/ /\ Holds(p, t) \/ Takes(p, t)
            /\ lapses = 0 => LiveIn(session', messages') /\ Ready(t, session', messages')
         \/ Waits(p, t) /\ session' = session /\ messages' = messages
  PROVE  Inv'
<1>1. Types'
  BY DEF Inv, Types, Grow
<1>2. RowsOk'
  BY OneNewRow DEF Inv
<1>3. \A q \in Threads \ {p} : ThreadOk(q)'
  BY OthersStep DEF Inv
<1>4. Alone' /\ Usable'
  BY LockStep DEF Inv
<1> QED BY <1>1, <1>2, <1>3, <1>4 DEF Inv

\* A step that leaves the dialog alone.
LEMMA Quiet ==
  ASSUME Inv, NEW p \in Threads, NEW t \in ThreadStates, thread' = [thread EXCEPT ![p] = t],
         UNCHANGED <<session, messages, incidents, ended, drafts, lapses>>,
         tokens' \in {tokens, tokens + 1}, lock' \in {"free", "held", "lapsed", "dead"},
         NEW r, RowIn(r, tokens', drafts, messages), Plain(r) \/ Like(r, session),
         t.row \in {NoSession, Row(p), r}, t.snap \in {NoSession, Snap(p), session},
         t.token \in {0, session.bound, thread[p].token}, t.msg \in {0, thread[p].msg},
         r.preview \in Tokens(p), r.bound \in Tokens(p),
         t.stage \in {"reread", "write"} => t.row = r \/ (Writes(p) /\ t.row = Row(p)),
         t.stage = "record" => thread[p].stage = "record" /\ t.row = Row(p),
         ThreadOk(p)',
         ((Holds(p, t) \/ Takes(p, t)) /\ (lapses = 0 => Ready(t, session, messages))) \/ Waits(p, t)
  PROVE  Inv'
<1>1. Types /\ session \in Sessions /\ tokens \in Nat /\ drafts \in Nat
  BY DEF Inv, Types
<1>2. Grow
  BY DEF Inv, Types, Grow
<1>3. DraftInv' /\ ConfirmedAsShown'
  BY DEF Inv, DraftInv, ConfirmedAsShown
<1>4. /\ r.shown \in {0, session.shown} /\ r.card \in {0, session.card}
  BY DEF Plain, Like, SameDraftRow
<1>5. /\ NoSession.preview = 0 /\ NoSession.bound = 0 /\ NoSession.shown = 0 /\ NoSession.card = 0
  BY DEF NoSession
<1>6. {session'.preview, session'.bound, t.row.preview, t.row.bound, t.token} \subseteq Tokens(p)
  BY <1>5 DEF Tokens
<1>7. {session'.shown, session'.card, t.row.shown, t.row.card, t.snap.shown, t.snap.card, t.msg} \subseteq Numbers(p)
  BY <1>4, <1>5 DEF Numbers
<1>8. Plain(r) \/ \E s \in Held : Like(r, s)
  BY DEF Held
<1>9. lapses = 0 => LiveIn(session, messages)
  BY DEF Inv, Usable
<1>10. t.stage \in {"reread", "write", "record"} =>
         \/ t.row.shown \in {0, session.shown}
         \/ Writes(p) /\ t.row.shown = Row(p).shown /\ t.row.draft = Row(p).draft
  BY <1>4 DEF Writes
<1>11. incidents \in Seq(Registrations) /\ ended \in SUBSET Nat
  BY DEF Inv, Types
<1> QED BY <1>1, <1>2, <1>3, <1>6, <1>7, <1>8, <1>9, <1>10, <1>11, Moves

\* The end of an update.
LEMMA Releases ==
  ASSUME Inv, NEW p \in Threads, thread' = [thread EXCEPT ![p] = Idle],
         UNCHANGED <<session, messages, incidents, ended, tokens, drafts, lapses>>,
         lock' \in {"free", "held", "lapsed", "dead"},
         Holds(p, Idle) \/ Takes(p, Idle) \/ Waits(p, Idle)
  PROVE  Inv'
<1>1. Types /\ thread'[p] = Idle
  BY DEF Inv, Types
<1>2. /\ Idle.stage = "idle" /\ Idle.act = "none" /\ Idle.token = 0 /\ Idle.msg = 0 /\ Idle.row = NoSession
      /\ Idle.snap = NoSession
  BY DEF Idle
<1>3. /\ tokens \in Nat /\ drafts \in Nat /\ messages \in Seq(Messages) /\ Len(messages) \in Nat
      /\ tokens' = tokens /\ messages' = messages
  BY <1>1 DEF Types
<1>4. ThreadOk(p)'
  <2>1. Carries(p)'
    BY <1>1, <1>2, <1>3 DEF Carries
  <2>2. Decides(p)' /\ Saves(p)' /\ Sends(p)'
    BY <1>1, <1>2 DEF Decides, Saves, Sends
  <2> QED BY <2>1, <2>2 DEF ThreadOk
<1>5. Ready(Idle, session, messages)
  BY <1>2 DEF Ready
<1>6. Idle \in ThreadStates
  BY Blanks
<1>7. RowIn(NoSession, tokens, drafts, messages) /\ Plain(NoSession)
  BY <1>3, BlankRow
<1>8. NoSession.preview \in Tokens(p) /\ NoSession.bound \in Tokens(p)
  BY DEF NoSession, Tokens
<1> HIDE DEF Idle
<1> QED BY <1>2, <1>3, <1>4, <1>5, <1>6, <1>7, <1>8, Quiet

-----------------------------------------------------------------------------
(* Steps that leave the dialog alone. *)

\* The parts of the invariant at one thread.
LEMMA Facts ==
  ASSUME Inv, NEW p \in Threads
  PROVE  /\ Types /\ RowsOk /\ ThreadOk(p) /\ Carries(p) /\ Decides(p) /\ Saves(p) /\ Sends(p)
         /\ thread[p] \in ThreadStates /\ session \in Sessions /\ Row(p) \in Sessions /\ Snap(p) \in Sessions
         /\ session \in Held /\ Row(p) \in Held /\ Snap(p) \in Held
         /\ RowOk(session) /\ RowOk(Row(p)) /\ RowOk(Snap(p))
         /\ tokens \in Nat /\ drafts \in Nat /\ messages \in Seq(Messages) /\ Len(messages) \in Nat
         /\ DOMAIN messages = 1..Len(messages)
         /\ thread[p].msg \in Nat /\ thread[p].token \in Nat
<1>1. Types /\ RowsOk /\ ThreadOk(p) /\ Carries(p) /\ Decides(p) /\ Saves(p) /\ Sends(p)
  BY DEF Inv, ThreadOk
<1>2. thread[p] \in ThreadStates /\ session \in Sessions /\ tokens \in Nat /\ drafts \in Nat
      /\ messages \in Seq(Messages) /\ Len(messages) \in Nat /\ DOMAIN messages = 1..Len(messages)
  BY <1>1 DEF Types
<1>3. Row(p) \in Sessions /\ Snap(p) \in Sessions /\ thread[p].msg \in Nat /\ thread[p].token \in Nat
  BY <1>2 DEF Row, Snap, ThreadStates
<1>4. session \in Held /\ Row(p) \in Held /\ Snap(p) \in Held
  BY DEF Held
<1> QED BY <1>1, <1>2, <1>3, <1>4 DEF RowsOk

\* A confirmation is asked for by previews alone.
LEMMA Keyboards ==
  ASSUME NEW s
  PROVE  Keyboard(s) \subseteq Buttons /\ ("draft-confirm" \in Keyboard(s) => s.kind = "preview")
<1>1. CASE s.kind = "category"
  BY <1>1 DEF Keyboard, Buttons
<1>2. CASE s.kind = "municipality"
  BY <1>2 DEF Keyboard, Buttons
<1>3. CASE s.kind = "locality"
  BY <1>3 DEF Keyboard, Buttons
<1>4. CASE s.kind = "preview"
  BY <1>4 DEF Keyboard, Buttons
<1>5. CASE s.kind = "edit"
  BY <1>5 DEF Keyboard, Buttons
<1>6. CASE s.kind = "photos"
  BY <1>6 DEF Keyboard, Buttons
<1>7. CASE s.kind \in {"retry", "phone", "offer"}
  BY <1>7 DEF Keyboard, Buttons
<1>8. CASE s.kind \notin {"category", "municipality", "locality", "preview", "edit", "photos", "retry", "phone", "offer"}
  BY <1>8 DEF Keyboard, Buttons
<1> QED BY <1>1, <1>2, <1>3, <1>4, <1>5, <1>6, <1>7, <1>8

\* A thread that starts or goes on without a row to save: it keeps its row or
\* has none, and has read the row that is there, one it had read, or none.
LEMMA QuietStage ==
  ASSUME Inv, NEW p \in Threads, NEW t \in ThreadStates, thread' = [thread EXCEPT ![p] = t],
         UNCHANGED <<session, messages, incidents, ended, tokens, drafts, lapses>>,
         lock' \in {"free", "held", "lapsed", "dead"},
         t.row \in {NoSession, Row(p)}, t.snap \in {NoSession, Snap(p), session},
         t.token \in {0, session.bound, thread[p].token}, t.msg \in {0, thread[p].msg},
         t.stage \in {"reread", "write"} => Writes(p) /\ t.row = Row(p),
         t.stage = "record" => thread[p].stage = "record" /\ t.row = Row(p),
         ThreadOk(p)',
         ((Holds(p, t) \/ Takes(p, t)) /\ (lapses = 0 => Ready(t, session, messages))) \/ Waits(p, t)
  PROVE  Inv'
<1>1. /\ RowIn(NoSession, tokens, drafts, messages) /\ Plain(NoSession)
      /\ NoSession.preview \in Tokens(p) /\ NoSession.bound \in Tokens(p)
  <2>1. tokens \in Nat /\ drafts \in Nat /\ messages \in Seq(Messages)
    BY Facts
  <2>2. NoSession.preview \in Tokens(p) /\ NoSession.bound \in Tokens(p)
    BY DEF NoSession, Tokens
  <2> QED BY <2>1, <2>2, BlankRow
<1>2. tokens' = tokens
  OBVIOUS
<1> QED BY <1>1, <1>2, Quiet

\* A press.
LEMMA PressKeeps ==
  ASSUME Inv, NEW p \in Threads, NEW n \in DOMAIN messages, NEW a \in messages[n].buttons, Press(p, n, a)
  PROVE  Inv'
<1> DEFINE m == messages[n]
           t == [Idle EXCEPT !.stage = "consume", !.act = a, !.token = session.bound, !.seen = m.body, !.snap = session]
<1>1. /\ thread' = [thread EXCEPT ![p] = t] /\ Acquirable /\ lock' = "held"
      /\ UNCHANGED <<session, messages, incidents, ended, tokens, drafts, lapses>>
      /\ m.screen = session.screen /\ a \in screenActions(session)
  BY DEF Press, acquire, dialog, counts, Pressable
<1>2. m \in Messages /\ a \in Buttons /\ m.body \in Bodies
  <2>1. m \in Messages
    BY Facts, MessageTypes
  <2> QED BY <2>1 DEF Messages
<1>3. /\ t.stage = "consume" /\ t.act = a /\ t.token = session.bound /\ t.seen = m.body
      /\ t.snap = session /\ t.row = NoSession /\ t.msg = 0
  BY DEF Idle
<1>4. t \in ThreadStates
  <2>1. Idle \in ThreadStates /\ session \in Sessions /\ session.bound \in Nat
    BY Facts, Blanks DEF Sessions
  <2> QED BY <2>1, <1>2 DEF ThreadStates, Locked, Working
<1> HIDE DEF t
<1>5. ThreadOk(p)'
  <2>1. thread'[p] = t
    BY <1>1, Facts DEF Types
  <2>2. session.bound <= tokens /\ 0 <= Len(messages)
    BY Facts DEF RowOk, RowIn
  <2>3. a = "draft-confirm" => Asks(m) /\ m.screen = session.bound
    <3>1. a = "draft-confirm" => Confirmable(session)
      BY <1>1, Keyboards DEF screenActions, Confirmable
    <3> QED BY <1>1, <3>1, Facts DEF RowOk, RowIn, Asks
  <2>4. Carries(p)'
    BY <1>1, <1>3, <2>1, <2>2, <2>3 DEF Carries, Asks
  <2> QED BY <1>3, <2>1, <2>4 DEF ThreadOk, Decides, Saves, Sends
<1>6. Takes(p, t) /\ Ready(t, session, messages)
  BY <1>1, <1>3 DEF Takes, Ready
<1>7. lock' \in {"free", "held", "lapsed", "dead"} /\ ~(t.stage \in {"reread", "write"}) /\ t.stage # "record"
  BY <1>1, <1>3
<1> QED BY <1>1, <1>3, <1>4, <1>5, <1>6, <1>7, QuietStage

\* The menu is opened.
LEMMA MenuKeeps ==
  ASSUME Inv, NEW p \in Threads, Menu(p)
  PROVE  Inv'
<1> DEFINE t == [Idle EXCEPT !.stage = "decide", !.act = "new"]
<1>1. /\ thread' = [thread EXCEPT ![p] = t] /\ Acquirable /\ lock' = "held"
      /\ UNCHANGED <<session, messages, incidents, ended, tokens, drafts, lapses>>
  BY DEF Menu, acquire, dialog, counts
<1>2. /\ t.stage = "decide" /\ t.act = "new" /\ t.token = 0 /\ t.snap = NoSession /\ t.row = NoSession /\ t.msg = 0
  BY DEF Idle
<1>3. t \in ThreadStates
  BY Blanks DEF ThreadStates, Locked, Working
<1> HIDE DEF t
<1>4. ThreadOk(p)'
  <2>1. thread'[p] = t
    BY <1>1, Facts DEF Types
  <2>2. Carries(p)'
    BY <1>1, <1>2, <2>1, Facts DEF Carries
  <2> QED BY <1>2, <2>1, <2>2 DEF ThreadOk, Decides, Saves, Sends
<1>5. Takes(p, t) /\ Ready(t, session, messages)
  BY <1>1, <1>2 DEF Takes, Ready
<1>6. lock' \in {"free", "held", "lapsed", "dead"} /\ ~(t.stage \in {"reread", "write"}) /\ t.stage # "record"
  BY <1>1, <1>2
<1> QED BY <1>1, <1>2, <1>3, <1>4, <1>5, <1>6, QuietStage

\* An unlocked thread with a row it has read.
LEMMA UnlockedKeeps ==
  ASSUME Inv, NEW p \in Threads, NEW t \in ThreadStates, thread' = [thread EXCEPT ![p] = t],
         UNCHANGED <<session, messages, lock, incidents, ended, tokens, drafts, lapses>>,
         thread[p].stage \in Unlocked, t.stage \in Unlocked, t.act # "draft-confirm", t.token = 0, t.msg = 0,
         t.row = NoSession, t.snap = session, t.stage = "picked" => t.kind \in {"deliver", "tidy"}
  PROVE  Inv'
<1>1. ThreadOk(p)'
  <2>1. thread'[p] = t
    BY Facts DEF Types
  <2>2. Carries(p)'
    BY <2>1, Facts DEF Carries
  <2> QED BY <2>1, <2>2 DEF ThreadOk, Decides, Saves, Sends, Unlocked
<1>2. Waits(p, t)
  BY DEF Waits, Unlocked, Locked, Working, Delivers
<1>3. lock' \in {"free", "held", "lapsed", "dead"} /\ ~(t.stage \in {"reread", "write"}) /\ t.stage # "record"
  BY Facts DEF Unlocked, Types
<1> QED BY <1>1, <1>2, <1>3, QuietStage

\* A text or a number is typed.
LEMMA TypeKeeps ==
  ASSUME Inv, NEW p \in Threads, NEW phone \in BOOLEAN, Type(p, phone)
  PROVE  Inv'
<1> DEFINE t == [Idle EXCEPT !.stage = "typed", !.act = IF phone THEN "phone" ELSE "text", !.snap = session]
<1>1. /\ thread' = [thread EXCEPT ![p] = t] /\ thread[p].stage = "idle"
      /\ UNCHANGED <<session, messages, lock, incidents, ended, tokens, drafts, lapses>>
  BY DEF Type, At, dialog, counts
<1>2. /\ t.stage = "typed" /\ t.act \in {"phone", "text"} /\ t.token = 0 /\ t.snap = session /\ t.row = NoSession
      /\ t.msg = 0
  BY DEF Idle
<1>3. t \in ThreadStates
  BY Blanks, Facts DEF ThreadStates, Unlocked
<1> HIDE DEF t
<1>4. thread[p].stage \in Unlocked /\ t.stage \in Unlocked
  BY <1>1, <1>2 DEF Unlocked
<1> QED BY <1>1, <1>2, <1>3, <1>4, UnlockedKeeps

\* The sweep looks for work, and asks for the lock.
LEMMA SweepKeeps ==
  ASSUME Inv, NEW p \in Threads, Sweep(p)
  PROVE  Inv'
<1> SUFFICES ASSUME NEW k \in {"deliver", "tidy"},
                    thread' = [thread EXCEPT ![p] = [Idle EXCEPT !.stage = "picked", !.kind = k, !.snap = session]]
             PROVE  Inv'
  BY DEF Sweep
<1> DEFINE t == [Idle EXCEPT !.stage = "picked", !.kind = k, !.snap = session]
<1>1. /\ thread' = [thread EXCEPT ![p] = t] /\ thread[p].stage = "idle"
      /\ UNCHANGED <<session, messages, lock, incidents, ended, tokens, drafts, lapses>>
  BY DEF Sweep, At, dialog, counts
<1>2. /\ t.stage = "picked" /\ t.act = "none" /\ t.token = 0 /\ t.snap = session /\ t.row = NoSession /\ t.msg = 0
      /\ t.kind = k
  BY DEF Idle
<1>3. t \in ThreadStates
  BY Blanks, Facts DEF ThreadStates, Unlocked
<1> HIDE DEF t
<1>4. thread[p].stage \in Unlocked /\ t.stage \in Unlocked
  BY <1>1, <1>2 DEF Unlocked
<1> QED BY <1>1, <1>2, <1>3, <1>4, UnlockedKeeps

\* A thread whose step changes only where it stands.
LEMMA StageKeeps ==
  ASSUME Inv, NEW p \in Threads, NEW t \in ThreadStates, thread' = [thread EXCEPT ![p] = t],
         UNCHANGED <<session, messages, incidents, ended, tokens, drafts, lapses>>,
         lock' \in {"free", "held", "lapsed", "dead"},
         t.act = thread[p].act, t.token = thread[p].token, t.seen = thread[p].seen, t.row = Row(p),
         t.snap \in {Snap(p), session}, t.msg = thread[p].msg,
         \/ t.stage \in {"deliver", "tidy", "bind", "gone", "failed", "refused"}
         \/ t.stage = "post" /\ Snap(p).job.status = "sending" /\ t.snap = Snap(p)
         \/ t.stage = "retire" /\ t.snap = session
         \/ t.stage = "retract" /\ thread[p].stage \in {"sent", "record"},
         t.stage = "bind" => t.kind \in Kinds,
         Holds(p, t) \/ Takes(p, t)
  PROVE  Inv'
<1>1. thread'[p] = t /\ t.msg <= Len(messages')
  BY Facts DEF Types, Carries
<1>2. Grow
  BY Facts DEF Types, Grow
<1>3. Carries(p)'
  BY <1>1, <1>2, Facts, CarriesOn
<1>4. t.stage = "retract" => Retired(p)'
  <2> SUFFICES ASSUME t.stage = "retract" PROVE Retired(p)'
    OBVIOUS
  <2>1. Private(p)
    BY Facts DEF Sends
  <2>2. \A q \in Threads \ {p} : thread'[q] = thread[q] /\ Row(q).shown # t.msg
    BY <2>1, Facts DEF Types, Private
  <2> QED BY <1>1, <2>1, <2>2 DEF Retired, Private, Writes, Row
<1>5. ThreadOk(p)'
  BY <1>1, <1>3, <1>4 DEF ThreadOk, Decides, Saves, Sends, Snap
<1>6. Ready(t, session, messages)
  BY DEF Ready, Old
<1>7. ~(t.stage \in {"reread", "write"}) /\ t.stage # "record"
  OBVIOUS
<1> QED BY <1>5, <1>6, <1>7, QuietStage

\* The sweep has asked for the lock.
LEMMA PickedKeeps ==
  ASSUME Inv, NEW p \in Threads, Picked(p)
  PROVE  Inv'
<1>1. /\ UNCHANGED <<session, messages, incidents, ended, tokens, drafts, lapses>>
      /\ thread[p].stage = "picked" /\ thread[p].kind \in {"deliver", "tidy"}
  BY Facts DEF Picked, At, dialog, counts, Decides
<1>2. CASE Acquirable
  <2> DEFINE t == [thread[p] EXCEPT !.stage = thread[p].kind, !.kind = "none"]
  <2>1. thread' = [thread EXCEPT ![p] = t] /\ lock' = "held"
    BY <1>2 DEF Picked, acquire
  <2>2. /\ t.act = thread[p].act /\ t.token = thread[p].token /\ t.seen = thread[p].seen /\ t.row = Row(p)
        /\ t.snap = Snap(p) /\ t.msg = thread[p].msg /\ t.stage = thread[p].kind
    BY Facts DEF ThreadStates, Row, Snap
  <2>3. t \in ThreadStates
    BY <1>1, Facts DEF ThreadStates, Locked, Delivers, Kinds
  <2> HIDE DEF t
  <2>4. Takes(p, t)
    BY <1>2, <2>1 DEF Takes
  <2> QED BY <1>1, <2>1, <2>2, <2>3, <2>4, StageKeeps
<1>3. CASE ~Acquirable
  <2>1. thread' = [thread EXCEPT ![p] = Idle] /\ lock' = lock
    BY <1>3 DEF Picked
  <2>2. Waits(p, Idle) /\ lock' \in {"free", "held", "lapsed", "dead"}
    BY <1>1, <2>1, Facts DEF Waits, Locked, Working, Delivers, Idle, Types
  <2> QED BY <1>1, <2>1, <2>2, Releases
<1> QED BY <1>2, <1>3

\* The last check before a request; the answer to a request that came too late.
LEMMA CheckKeeps ==
  ASSUME Inv, NEW p \in Threads, Check(p)
  PROVE  Inv'
<1>1. /\ UNCHANGED <<session, messages, incidents, ended, tokens, drafts, lapses>>
      /\ thread[p].stage = "send" /\ Snap(p).job.status = "sending" /\ thread[p].stage \in Locked
  BY Facts DEF Check, At, dialog, counts, Sends, Snap, Locked, Delivers
<1>2. CASE matches(p)
  <2> DEFINE t == [thread[p] EXCEPT !.stage = "post"]
  <2>1. thread' = [thread EXCEPT ![p] = t] /\ lock' = lock
    BY <1>2 DEF Check, Go
  <2>2. /\ t.act = thread[p].act /\ t.token = thread[p].token /\ t.seen = thread[p].seen /\ t.row = Row(p)
        /\ t.snap = Snap(p) /\ t.msg = thread[p].msg /\ t.stage = "post"
    BY Facts DEF ThreadStates, Row, Snap
  <2>3. t \in ThreadStates
    BY Facts DEF ThreadStates, Locked, Delivers
  <2> HIDE DEF t
  <2>4. Holds(p, t) /\ lock' \in {"free", "held", "lapsed", "dead"}
    BY <1>1, <2>1, Facts DEF Holds, Types
  <2> QED BY <1>1, <2>1, <2>2, <2>3, <2>4, StageKeeps
<1>3. CASE ~matches(p)
  <2>1. thread' = [thread EXCEPT ![p] = Idle] /\ lock' = "free"
    BY <1>3 DEF Check, release
  <2>2. Holds(p, Idle)
    BY <1>1 DEF Holds, Idle, Locked, Working, Delivers
  <2> QED BY <1>1, <2>1, <2>2, Releases
<1> QED BY <1>2, <1>3

\* The screens to retire are read.
LEMMA TidyKeeps ==
  ASSUME Inv, NEW p \in Threads, Tidy(p)
  PROVE  Inv'
<1>1. /\ UNCHANGED <<session, messages, incidents, ended, tokens, drafts, lapses>> /\ thread[p].stage \in Locked
  BY DEF Tidy, At, dialog, counts, Locked, Delivers
<1> DEFINE t == [thread[p] EXCEPT !.stage = "retire", !.snap = session]
<1>2. \/ thread' = [thread EXCEPT ![p] = t] /\ lock' = lock
      \/ thread' = [thread EXCEPT ![p] = Idle] /\ lock' = "free"
  BY DEF Tidy, release
<1>3. CASE thread' = [thread EXCEPT ![p] = t] /\ lock' = lock
  <2>1. /\ t.act = thread[p].act /\ t.token = thread[p].token /\ t.seen = thread[p].seen /\ t.row = Row(p)
        /\ t.snap = session /\ t.msg = thread[p].msg /\ t.stage = "retire"
    BY Facts DEF ThreadStates, Row
  <2>2. t \in ThreadStates
    BY Facts DEF ThreadStates, Locked, Delivers
  <2> HIDE DEF t
  <2>3. Holds(p, t) /\ lock' \in {"free", "held", "lapsed", "dead"}
    BY <1>1, <1>3, Facts DEF Holds, Types
  <2> QED BY <1>1, <1>3, <2>1, <2>2, <2>3, StageKeeps
<1>4. CASE thread' = [thread EXCEPT ![p] = Idle] /\ lock' = "free"
  <2>1. Holds(p, Idle)
    BY <1>1 DEF Holds, Idle, Locked, Working, Delivers
  <2> QED BY <1>1, <1>4, <2>1, Releases
<1> QED BY <1>2, <1>3, <1>4

\* A screen is chosen after a refusal.
LEMMA SayKeeps ==
  ASSUME Inv, NEW p \in Threads, thread[p].stage = "create", NEW k \in Kinds, Say(p, k),
         UNCHANGED <<session, messages, incidents, ended, tokens, drafts, lapses>>
  PROVE  Inv'
<1> DEFINE t == [thread[p] EXCEPT !.stage = "bind", !.kind = k]
<1>1. thread' = [thread EXCEPT ![p] = t] /\ lock' = lock
  BY DEF Say
<1>2. /\ t.act = thread[p].act /\ t.token = thread[p].token /\ t.seen = thread[p].seen /\ t.row = Row(p)
      /\ t.snap = Snap(p) /\ t.msg = thread[p].msg /\ t.stage = "bind" /\ t.kind = k
  BY Facts DEF ThreadStates, Row, Snap
<1>3. t \in ThreadStates
  BY Facts DEF ThreadStates, Locked, Working
<1> HIDE DEF t
<1>4. Holds(p, t) /\ lock' \in {"free", "held", "lapsed", "dead"}
  BY <1>1, Facts DEF Holds, Types, Locked, Working
<1> QED BY <1>1, <1>2, <1>3, <1>4, StageKeeps

\* A row made from the row that was read.
LEMMA NewRowFits ==
  ASSUME Inv, NEW p \in Threads, NEW r, NewRow(r, session), session.draft # 0, NEW k \in {tokens, tokens + 1},
         tokens + 1 \in {r.screen, r.preview} => k = tokens + 1
  PROVE  /\ r \in Sessions /\ Like(r, session) /\ r.draft = session.draft
         /\ RowIn(r, k, drafts, messages)
         /\ r.preview \in Tokens(p) /\ r.bound \in Tokens(p)
         /\ lapses = 0 => LiveIn(r, messages)
         /\ Confirmable(r) => r.screen = tokens + 1
<1>1. r \in Sessions /\ Like(r, session) /\ (NextScreen(r, session) \/ SameScreen(r, session))
  BY DEF NewRow, NextScreen, SameScreen
<1>2. /\ r.draft = session.draft /\ r.shown = session.shown /\ r.card = session.card
      /\ r.preview \in {session.preview, tokens + 1}
      /\ r.bound \in {session.bound, session.preview, tokens + 1}
  BY <1>1 DEF Like, SameDraftRow
<1>3. /\ session.screen <= k /\ session.preview <= k /\ session.bound <= k /\ session.draft <= drafts
      /\ session.shown <= Len(messages) /\ session.card <= Len(messages)
  <2>1. /\ session.screen <= tokens /\ session.preview <= tokens /\ session.bound <= tokens
        /\ session.draft <= drafts /\ session.shown <= Len(messages) /\ session.card <= Len(messages)
    BY Facts DEF RowOk, RowIn
  <2>2. session.screen \in Nat /\ session.preview \in Nat /\ session.bound \in Nat /\ tokens \in Nat
    BY Facts DEF Sessions
  <2> QED BY <2>1, <2>2
<1>4. r.preview <= k
  BY <1>2, <1>3, Facts
<1>5. r.screen <= k /\ r.bound <= k
  <2>1. CASE NextScreen(r, session)
    BY <1>2, <1>3, <2>1, Facts DEF NextScreen
  <2>2. CASE SameScreen(r, session)
    BY <1>3, <2>2 DEF SameScreen
  <2> QED BY <1>1, <2>1, <2>2
<1>6. Confirmable(r) => /\ r.screen = tokens + 1 /\ r.type = "CONFIRMATION" /\ r.screen # 0
                        /\ r.preview = r.screen /\ r.bound = r.screen
  <2>1. CASE NextScreen(r, session)
    BY <2>1, Facts DEF NextScreen, Confirmable
  <2>2. CASE SameScreen(r, session)
    BY <2>2 DEF SameScreen, Confirmable
  <2> QED BY <1>1, <2>1, <2>2
<1>7. (r.used => r.job = NoJob) /\ (Delivered(r) => Delivered(session) /\ r.screen = session.screen)
  <2>1. CASE NextScreen(r, session)
    BY <2>1 DEF NextScreen, Delivered
  <2>2. CASE SameScreen(r, session)
    BY <1>2, <2>2, Facts DEF SameScreen, Delivered, RowOk, RowIn
  <2> QED BY <1>1, <2>1, <2>2
<1>8. Delivered(r) => r.shown # 0 /\ messages[r.shown].screen = r.screen
  BY <1>2, <1>7, Facts DEF RowOk, RowIn
<1>9. RowIn(r, k, drafts, messages)
  BY <1>2, <1>3, <1>4, <1>5, <1>6, <1>7, <1>8 DEF RowIn
<1>10. lapses = 0 => LiveIn(r, messages)
  BY <1>2, <1>7 DEF Inv, Usable, LiveIn
<1> QED BY <1>1, <1>2, <1>6, <1>9, <1>10 DEF Tokens

\* A token nobody has used.
LEMMA SecretNew ==
  ASSUME Inv, NEW p \in Threads, NEW t, thread' = [thread EXCEPT ![p] = t], session' = session,
         t.token = thread[p].token, NEW k, k = tokens + 1
  PROVE  /\ session'.preview # k /\ session'.bound # k
         /\ \A q \in Threads : thread'[q].token # k
         /\ \A q \in Threads \ {p} : thread'[q].row.preview # k /\ thread'[q].row.bound # k
<1>1. thread'[p] = t /\ \A q \in Threads \ {p} : thread'[q] = thread[q]
  BY Facts DEF Types
<1>2. session.preview # k /\ session.bound # k
  <2>1. session.preview <= tokens /\ session.bound <= tokens
    BY Facts DEF RowOk, RowIn
  <2>2. session.preview \in Nat /\ session.bound \in Nat /\ tokens \in Nat
    BY Facts DEF Sessions
  <2> QED BY <2>1, <2>2
<1>3. ASSUME NEW q \in Threads PROVE thread[q].token # k /\ thread[q].row.preview # k /\ thread[q].row.bound # k
  <2>1. thread[q].token <= tokens /\ thread[q].token \in Nat /\ tokens \in Nat
    BY Facts DEF Carries
  <2>2. thread[q].row \in Sessions /\ RowIn(thread[q].row, tokens, drafts, messages)
    BY Facts DEF Row, RowOk
  <2>3. thread[q].row.preview \in Nat /\ thread[q].row.preview <= tokens
        /\ thread[q].row.bound \in Nat /\ thread[q].row.bound <= tokens
    BY <2>2 DEF Sessions, RowIn
  <2> QED BY <2>1, <2>3
<1> QED BY <1>1, <1>2, <1>3

\* A row with a screen of its own is taken in hand.
LEMMA TakesRow ==
  ASSUME Inv, NEW p \in Threads, NEW t \in ThreadStates, thread' = [thread EXCEPT ![p] = t],
         UNCHANGED <<session, messages, incidents, ended, drafts, lapses>>,
         lock' \in {"free", "held", "lapsed", "dead"}, NEW r, NewRow(r, session), session.draft # 0, Spend(r),
         t.act = thread[p].act, t.token = thread[p].token, t.seen = thread[p].seen, t.msg = thread[p].msg,
         t.row = r, t.snap = session, t.kind \in Kinds, t.stage \in {"reread", "write"},
         Holds(p, t) \/ Takes(p, t)
  PROVE  Inv'
<1>1. tokens' \in {tokens, tokens + 1} /\ (tokens + 1 \in {r.screen, r.preview} => tokens' = tokens + 1)
  BY Facts DEF Spend
<1>2. /\ r \in Sessions /\ Like(r, session) /\ r.draft = session.draft
      /\ RowIn(r, tokens', drafts, messages)
      /\ r.preview \in Tokens(p) /\ r.bound \in Tokens(p)
      /\ lapses = 0 => LiveIn(r, messages)
      /\ Confirmable(r) => r.screen = tokens + 1
  BY <1>1, NewRowFits
<1>3. thread'[p] = t
  BY Facts DEF Types
<1>4. Grow
  BY <1>1, Facts DEF Types, Grow
<1>5. Carries(p)'
  <2>1. t.msg <= Len(messages')
    BY Facts DEF Carries
  <2> QED BY <1>4, <2>1, Facts, CarriesOn
<1>6. Saves(p)'
  <2>1. Confirmable(r) => /\ session'.preview # r.screen /\ session'.bound # r.screen
                          /\ \A q \in Threads : thread'[q].token # r.screen
                          /\ \A q \in Threads \ {p} : thread'[q].row.preview # r.screen
                                                      /\ thread'[q].row.bound # r.screen
    BY <1>2, SecretNew
  <2> QED BY <1>2, <1>3, <2>1 DEF Saves, Secret, Row, Confirmable
<1>7. ThreadOk(p)'
  BY <1>3, <1>5, <1>6 DEF ThreadOk, Decides, Sends
<1>8. lapses = 0 => Ready(t, session, messages)
  BY <1>2 DEF Ready
<1>9. t.stage # "record" /\ t.row \in {NoSession, Row(p), r} /\ t.snap \in {NoSession, Snap(p), session}
      /\ t.token \in {0, session.bound, thread[p].token} /\ t.msg \in {0, thread[p].msg}
  OBVIOUS
<1>10. tokens' \in {tokens, tokens + 1} /\ (Plain(r) \/ Like(r, session))
       /\ (((Holds(p, t) \/ Takes(p, t)) /\ (lapses = 0 => Ready(t, session, messages))) \/ Waits(p, t))
  BY <1>1, <1>2, <1>8
<1> QED BY <1>2, <1>7, <1>9, <1>10, Quiet

\* What a plan leads to.
LEMMA FollowKeeps ==
  ASSUME Inv, NEW p \in Threads, NEW plan, PlanOk(plan, session, thread[p].act, thread[p].token),
         Follow(p, plan), UNCHANGED <<session, messages, incidents, ended, drafts, lapses>>,
         thread[p].stage = "decide" \/ (thread[p].stage = "typed" /\ Acquirable)
  PROVE  Inv'
<1> DEFINE t == [thread[p] EXCEPT !.stage = plan.then, !.kind = plan.kind, !.snap = session,
                                  !.row = IF plan.then = "start" THEN thread[p].row ELSE plan.row]
<1>1. plan.then \in Thens /\ plan.row \in Sessions /\ plan.kind \in Kinds
  BY DEF PlanOk
<1>2. plan.then # "release" => t \in ThreadStates
  <2>1. plan.then # "release" => plan.then \in Locked \cup Unlocked
    BY <1>1 DEF Thens, Locked, Working
  <2>2. (IF plan.then = "start" THEN thread[p].row ELSE plan.row) \in Sessions
    BY <1>1, Facts DEF Row
  <2> QED BY <1>1, <2>1, <2>2, Facts DEF ThreadStates
<1>3. /\ t.stage = plan.then /\ t.kind = plan.kind /\ t.snap = session
      /\ t.row = (IF plan.then = "start" THEN Row(p) ELSE plan.row)
      /\ t.act = thread[p].act /\ t.token = thread[p].token /\ t.seen = thread[p].seen /\ t.msg = thread[p].msg
  BY Facts DEF ThreadStates, Row
<1>4. CASE plan.then = "release"
  <2>1. thread' = [thread EXCEPT ![p] = Idle] /\ lock' = "free"
    BY <1>4 DEF Follow, release
  <2>2. tokens' = tokens
    BY <1>4, Facts DEF Follow, Spend, PlanOk, NoSession
  <2>3. Holds(p, Idle) \/ Takes(p, Idle)
    BY DEF Holds, Takes, Idle, Locked, Working, Delivers
  <2> QED BY <2>1, <2>2, <2>3, Releases
<1>5. ASSUME plan.then # "release"
      PROVE  /\ thread' = [thread EXCEPT ![p] = t]
             /\ lock' = IF At(p, "typed") THEN "held" ELSE lock
  BY <1>5 DEF Follow
<1>6. ASSUME plan.then # "release"
      PROVE  (Holds(p, t) \/ Takes(p, t)) /\ lock' \in {"free", "held", "lapsed", "dead"}
  BY <1>5, <1>6, Facts DEF Holds, Takes, At, Locked, Working, Types
<1> HIDE DEF t
<1>7. CASE plan.then \in {"reread", "write"}
  <2>1. session.draft # 0 /\ NewRow(plan.row, session) /\ Spend(plan.row) /\ t.row = plan.row
        /\ t.kind \in Kinds /\ t.stage \in {"reread", "write"}
    BY <1>1, <1>3, <1>7 DEF PlanOk, Follow
  <2> QED BY <1>2, <1>3, <1>5, <1>6, <1>7, <2>1, TakesRow
<1>8. CASE plan.then \in {"bind", "create", "clear", "start"}
  <2>1. plan.row \in {NoSession, session}
    BY <1>8 DEF PlanOk
  <2>2. tokens' = tokens
    <3>1. tokens + 1 \notin {session.screen, session.preview}
      <4>1. session.screen <= tokens /\ session.preview <= tokens
        BY Facts DEF RowOk, RowIn
      <4>2. session.screen \in Nat /\ session.preview \in Nat /\ tokens \in Nat
        BY Facts DEF Sessions
      <4> QED BY <4>1, <4>2
    <3>2. tokens + 1 \notin {NoSession.screen, NoSession.preview}
      BY Facts DEF NoSession
    <3> QED BY <2>1, <3>1, <3>2, Facts DEF Follow, Spend
  <2>3. thread'[p] = t
    BY <1>5, <1>8, Facts DEF Types
  <2>4. Grow
    BY <2>2, Facts DEF Types, Grow
  <2>5. Carries(p)'
    <3>1. t.msg <= Len(messages')
      BY <1>3, Facts DEF Carries
    <3> QED BY <1>3, <1>5, <1>8, <2>4, <3>1, Facts, CarriesOn
  <2>6. Decides(p)'
    <3>1. t.stage = "create" => t.act = "draft-confirm" /\ t.row.type = "CONFIRMATION" /\ t.row.preview = t.token
      BY <1>3 DEF PlanOk
    <3> QED BY <1>1, <1>3, <1>8, <2>3, <3>1 DEF Decides
  <2>7. ThreadOk(p)'
    BY <1>3, <1>8, <2>3, <2>5, <2>6 DEF ThreadOk, Saves, Sends
  <2>8. Ready(t, session, messages)
    BY <1>3, <1>8 DEF Ready
  <2>9. session \in Held /\ Like(session, session) /\ session.preview \in Tokens(p) /\ session.bound \in Tokens(p)
        /\ RowIn(session, tokens', drafts, messages)
    BY <2>2, Facts DEF Like, SameDraftRow, Tokens, RowOk
  <2>10. t.row \in {NoSession, Row(p), session} /\ t.stage # "record" /\ ~(t.stage \in {"reread", "write"})
    BY <1>3, <1>8, <2>1
  <2> QED BY <1>2, <1>3, <1>5, <1>6, <1>8, <2>2, <2>7, <2>8, <2>9, <2>10, Quiet
<1> QED BY <1>1, <1>4, <1>7, <1>8 DEF Thens

\* An update decides.
LEMMA DecideKeeps ==
  ASSUME Inv, NEW p \in Threads, Decide(p)
  PROVE  Inv'
<1>1. thread[p].stage = "decide" /\ Follow(p, Decision(p))
      /\ UNCHANGED <<session, messages, incidents, ended, drafts, lapses>>
  BY DEF Decide, At, dialog
<1>2. Confirmable(session) => session.type = "CONFIRMATION" /\ session.preview = session.screen
  BY Facts DEF RowOk, RowIn
<1>3. thread[p].act # "new" => ~(Confirmable(session) /\ session.screen = thread[p].token)
  BY <1>1, Facts DEF Decides
<1>4. PlanOk(Decision(p), session, thread[p].act, thread[p].token)
  BY <1>2, <1>3, Facts, DecisionPlans
<1> QED BY <1>1, <1>4, FollowKeeps

\* A text is received.
LEMMA ReceiveKeeps ==
  ASSUME Inv, NEW p \in Threads, Receive(p)
  PROVE  Inv'
<1>1. thread[p].stage = "typed" /\ UNCHANGED <<session, messages, incidents, ended, drafts, lapses>>
  BY DEF Receive, At, dialog
<1>2. CASE ~Acquirable
  <2>1. thread' = [thread EXCEPT ![p] = Idle] /\ lock' = lock /\ tokens' = tokens
    BY <1>2 DEF Receive
  <2>2. Waits(p, Idle) /\ lock' \in {"free", "held", "lapsed", "dead"}
    BY <1>1, <2>1, Facts DEF Waits, Locked, Working, Delivers, Idle, Types
  <2> QED BY <1>1, <2>1, <2>2, Releases
<1>3. ASSUME Acquirable, release(p), tokens' = tokens PROVE Inv'
  <2>1. thread' = [thread EXCEPT ![p] = Idle] /\ lock' = "free"
    BY <1>3 DEF release
  <2>2. Takes(p, Idle)
    BY <1>3 DEF Takes, Idle, Locked, Working, Delivers
  <2> QED BY <1>1, <1>3, <2>1, <2>2, Releases
<1>4. ASSUME Acquirable, session.draft # 0, NEW plan \in Calling(session), Follow(p, plan) PROVE Inv'
  BY <1>1, <1>4, Facts, CallingPlans, FollowKeeps
<1>5. ASSUME Acquirable, session.draft # 0, NEW x \in Inputs, Follow(p, Answering(session, x)) PROVE Inv'
  <2>1. Confirmable(session) => session.type = "CONFIRMATION"
    BY Facts DEF RowOk, RowIn
  <2>2. PlanOk(Answering(session, x), session, thread[p].act, thread[p].token)
    BY <1>5, <2>1, Facts, AnsweringPlans
  <2> QED BY <1>1, <1>5, <2>2, FollowKeeps
<1>6. CASE Acquirable
  BY <1>3, <1>4, <1>5, <1>6 DEF Receive, isResidentDraft
<1> QED BY <1>2, <1>6

\* The row is read again before it is saved.
LEMMA RereadKeeps ==
  ASSUME Inv, NEW p \in Threads, Reread(p)
  PROVE  Inv'
<1>1. /\ thread[p].stage = "reread" /\ thread[p].stage \in Locked
      /\ UNCHANGED <<session, messages, incidents, ended, tokens, drafts, lapses>>
  BY DEF Reread, At, dialog, counts, Locked, Working
<1>2. CASE session.draft = thread[p].row.draft
  <2> DEFINE t == [thread[p] EXCEPT !.stage = "write", !.snap = session]
  <2>1. thread' = [thread EXCEPT ![p] = t] /\ lock' = lock
    BY <1>2 DEF Reread
  <2>2. /\ t.act = thread[p].act /\ t.token = thread[p].token /\ t.seen = thread[p].seen /\ t.row = Row(p)
        /\ t.snap = session /\ t.msg = thread[p].msg /\ t.stage = "write" /\ t.kind = thread[p].kind
    BY Facts DEF ThreadStates, Row
  <2>3. t \in ThreadStates
    BY Facts DEF ThreadStates, Locked, Working
  <2> HIDE DEF t
  <2>4. Holds(p, t) /\ lock' \in {"free", "held", "lapsed", "dead"}
    BY <1>1, <2>1, Facts DEF Holds, Types
  <2>5. thread'[p] = t /\ \A q \in Threads \ {p} : thread'[q] = thread[q]
    BY <2>1, Facts DEF Types
  <2>6. Grow
    BY <1>1, Facts DEF Types, Grow
  <2>7. Carries(p)'
    <3>1. t.msg <= Len(messages')
      BY <1>1, <2>2, Facts DEF Carries
    <3> QED BY <2>1, <2>2, <2>6, <3>1, Facts, CarriesOn
  <2>8. Saves(p)'
    <3>1. Row(p).draft # 0 /\ (Confirmable(Row(p)) => Secret(p, Row(p).screen))
      BY <1>1, Facts DEF Saves, Row
    <3>2. Confirmable(Row(p)) => /\ session'.preview # t.row.screen /\ session'.bound # t.row.screen
                                 /\ \A q \in Threads : thread'[q].token # t.row.screen
                                 /\ \A q \in Threads \ {p} : thread'[q].row.preview # t.row.screen
                                                             /\ thread'[q].row.bound # t.row.screen
      BY <1>1, <2>2, <2>5, <3>1 DEF Secret, Row
    <3> QED BY <1>2, <2>2, <2>5, <3>1, <3>2 DEF Saves, Secret, Row, Confirmable
  <2>9. ThreadOk(p)'
    <3>1. thread[p].kind \in Kinds
      BY <1>1, Facts DEF Decides
    <3> QED BY <2>2, <2>5, <2>7, <2>8, <3>1 DEF ThreadOk, Decides, Sends
  <2>10. lapses = 0 => Ready(t, session, messages)
    BY <1>1, <2>2 DEF Inv, Usable, Ready, Row
  <2>11. Writes(p) /\ t.stage # "record"
    BY <1>1, <2>2 DEF Writes
  <2> QED BY <1>1, <2>1, <2>2, <2>3, <2>4, <2>9, <2>10, <2>11, QuietStage
<1>3. CASE session.draft # thread[p].row.draft
  <2>1. thread' = [thread EXCEPT ![p] = Idle] /\ lock' = "free"
    BY <1>3 DEF Reread, release
  <2>2. Holds(p, Idle)
    BY <1>1 DEF Holds, Idle, Locked, Working, Delivers
  <2> QED BY <1>1, <2>1, <2>2, Releases
<1> QED BY <1>2, <1>3

\* A screen is bound to the draft that is there.
LEMMA BindKeeps ==
  ASSUME Inv, NEW p \in Threads, sendDraftScreen(p)
  PROVE  Inv'
<1>1. /\ thread[p].stage = "bind" /\ thread[p].stage \in Locked /\ thread[p].kind \in Kinds
      /\ UNCHANGED <<session, messages, incidents, ended, drafts, lapses>>
  BY Facts DEF sendDraftScreen, At, dialog, Locked, Working, Decides
<1>2. CASE session.draft # 0
  <2> DEFINE r == bindDraftKeyboard(session, thread[p].kind)
             t == [thread[p] EXCEPT !.stage = "write", !.kind = "none", !.row = r, !.snap = session]
  <2>1. thread' = [thread EXCEPT ![p] = t] /\ lock' = lock /\ Spend(r)
    BY <1>2 DEF sendDraftScreen, isResidentDraft
  <2>2. NewRow(r, session)
    <3>1. SameDraftRow(session, session)
      BY DEF SameDraftRow
    <3> QED BY <1>1, <3>1, Facts, ScreenNew
  <2>3. r \in Sessions
    BY <2>2 DEF NewRow
  <2> HIDE DEF r
  <2>4. /\ t.act = thread[p].act /\ t.token = thread[p].token /\ t.seen = thread[p].seen /\ t.row = r
        /\ t.snap = session /\ t.msg = thread[p].msg /\ t.stage = "write" /\ t.kind = "none"
    BY Facts DEF ThreadStates
  <2>5. t \in ThreadStates /\ t.kind \in Kinds
    BY <2>3, Facts DEF ThreadStates, Locked, Working, Kinds
  <2> HIDE DEF t
  <2>6. Holds(p, t) /\ lock' \in {"free", "held", "lapsed", "dead"} /\ t.stage \in {"reread", "write"}
    BY <1>1, <2>1, <2>4, Facts DEF Holds, Types
  <2> QED BY <1>1, <1>2, <2>1, <2>2, <2>4, <2>5, <2>6, TakesRow
<1>3. CASE session.draft = 0
  <2>1. thread' = [thread EXCEPT ![p] = Idle] /\ lock' = "free" /\ tokens' = tokens
    BY <1>3 DEF sendDraftScreen, release, isResidentDraft
  <2>2. Holds(p, Idle)
    BY <1>1 DEF Holds, Idle, Locked, Working, Delivers
  <2> QED BY <1>1, <2>1, <2>2, Releases
<1> QED BY <1>2, <1>3

-----------------------------------------------------------------------------
(* Steps that change what is shown. *)

\* A registration fails, and the resident is told.
LEMMA CreateFailsKeeps ==
  ASSUME Inv, NEW p \in Threads, CreateFails(p)
  PROVE  Inv'
<1>1. /\ thread[p].stage = "create" /\ Say(p, "prompt") /\ "prompt" \in Kinds
      /\ UNCHANGED <<session, messages, incidents, ended, tokens, drafts, lapses>>
  BY DEF CreateFails, At, dialog, Kinds
<1> QED BY <1>1, SayKeeps

\* A message loses its buttons.
LEMMA RetractKeeps ==
  ASSUME Inv, NEW p \in Threads, Retract(p)
  PROVE  Inv'
<1>1. /\ thread[p].stage = "retract" /\ thread' = [thread EXCEPT ![p] = Idle] /\ lock' = "free"
      /\ UNCHANGED <<session, incidents, ended, tokens, drafts, lapses>>
      /\ \/ thread[p].msg # 0 /\ messages' = [messages EXCEPT ![thread[p].msg].live = FALSE]
         \/ messages' = messages
  BY DEF Retract, At, release, counts
<1>2. CASE messages' = messages
  <2>1. Holds(p, Idle)
    BY <1>1 DEF Holds, Idle, Locked, Working, Delivers
  <2> QED BY <1>1, <1>2, <2>1, Releases
<1>3. CASE thread[p].msg # 0 /\ messages' = [messages EXCEPT ![thread[p].msg].live = FALSE]
  <2> DEFINE n == thread[p].msg
  <2>1. n \in DOMAIN messages /\ session.shown # n
    BY <1>1, <1>3, Facts DEF Sends, Retired
  <2>2. messages[n] \in Messages /\ [messages[n] EXCEPT !.live = FALSE] \in Messages
    BY <2>1, Facts, MessageTypes DEF Messages
  <2>3. /\ messages' \in Seq(Messages) /\ Len(messages') = Len(messages)
        /\ \A i \in DOMAIN messages : i # n => messages'[i] = messages[i]
        /\ messages'[n] = [messages[n] EXCEPT !.live = FALSE]
    BY <1>3, <2>1, <2>2, Facts
  <2>4. \A i \in DOMAIN messages :
          /\ messages'[i].screen = messages[i].screen /\ messages'[i].buttons = messages[i].buttons
          /\ messages'[i].body = messages[i].body
    <3>1. messages'[n].screen = messages[n].screen /\ messages'[n].buttons = messages[n].buttons
          /\ messages'[n].body = messages[n].body
      BY <2>2, <2>3 DEF Messages
    <3> QED BY <2>3, <3>1
  <2>5. Grow
    BY <1>1, <2>3, <2>4, Facts DEF Grow
  <2>6. Idle \in ThreadStates /\ Idle.row = NoSession /\ Idle.snap = NoSession /\ Idle.token = 0 /\ Idle.msg = 0
        /\ Idle.stage = "idle" /\ Idle.act = "none"
    BY Blanks DEF Idle
  <2>7. /\ NoSession.preview = 0 /\ NoSession.bound = 0 /\ NoSession.shown = 0 /\ NoSession.card = 0
    BY DEF NoSession
  <2>8. RowIn(NoSession, tokens', drafts', messages') /\ Plain(NoSession)
    BY <2>5, BlankRow DEF Grow
  <2>9. ThreadOk(p)'
    <3>1. thread'[p] = Idle
      BY <1>1, Facts DEF Types
    <3>2. Carries(p)'
      BY <1>1, <2>3, <2>6, <3>1, Facts DEF Carries
    <3> QED BY <2>6, <3>1, <3>2 DEF ThreadOk, Decides, Saves, Sends
  <2>10. DraftInv' /\ ConfirmedAsShown'
    BY <1>1 DEF Inv, DraftInv, ConfirmedAsShown
  <2>11. Holds(p, Idle) /\ Ready(Idle, session', messages')
    BY <1>1, <2>6 DEF Holds, Ready, Locked, Working, Delivers
  <2>12. lapses = 0 => LiveIn(session', messages')
    <3>1. lapses = 0 => LiveIn(session, messages)
      BY DEF Inv, Usable
    <3>2. Delivered(session) => session.shown \in DOMAIN messages
      <4>1. Delivered(session) => session.shown # 0
        BY Facts DEF RowOk, RowIn
      <4>2. session.shown \in Nat /\ session.shown <= Len(messages)
        BY Facts DEF RowOk, RowIn, Sessions
      <4> QED BY <4>1, <4>2, Facts
    <3> QED BY <1>1, <2>1, <2>3, <3>1, <3>2 DEF LiveIn
  <2> HIDE DEF n, Idle
  <2>13. /\ {session', Idle.row, Idle.snap} \subseteq {session, Row(p), Snap(p), NoSession, NoSession}
         /\ {session'.preview, session'.bound, Idle.row.preview, Idle.row.bound, Idle.token} \subseteq Tokens(p)
         /\ {session'.shown, session'.card, Idle.row.shown, Idle.row.card, Idle.snap.shown, Idle.snap.card, Idle.msg}
              \subseteq Numbers(p)
    BY <1>1, <2>6, <2>7 DEF Tokens, Numbers
  <2>14. /\ session' \in Sessions /\ lapses' = lapses /\ lock' \in {"free", "held", "lapsed", "dead"}
         /\ incidents' \in Seq(Registrations) /\ ended' \in SUBSET Nat
         /\ Confirmable(session') => Confirmable(session) /\ session'.screen = session.screen
         /\ session'.shown = session.shown /\ ~(Idle.stage \in {"reread", "write", "record"})
    BY <1>1, <2>6, Facts DEF Types
  <2> QED BY <1>1, <2>3, <2>5, <2>6, <2>8, <2>9, <2>10, <2>11, <2>12, <2>13, <2>14, Moves
<1> QED BY <1>1, <1>2, <1>3

\* A message is sent.
LEMMA SentTypes ==
  ASSUME Inv, NEW p \in Threads
  PROVE  /\ Post_(Snap(p)) \in Messages
         /\ Append(messages, Post_(Snap(p))) \in Seq(Messages)
         /\ Len(Append(messages, Post_(Snap(p)))) = Len(messages) + 1
         /\ \A n \in DOMAIN messages : Append(messages, Post_(Snap(p)))[n] = messages[n]
         /\ Append(messages, Post_(Snap(p)))[Len(messages) + 1] = Post_(Snap(p))
<1>1. Post_(Snap(p)) \in Messages
  <2>1. Snap(p).screen \in Nat /\ Snap(p).body \in Bodies
    BY Facts DEF Sessions
  <2> QED BY <2>1, Keyboards DEF Post_, Messages
<1>2. messages \in Seq(Messages) /\ DOMAIN messages = 1..Len(messages)
  BY Facts
<1> HIDE DEF Post_
<1> QED BY <1>1, <1>2

\* A screen is sent, and may be shown although the sending failed.
LEMMA PostKeeps ==
  ASSUME Inv, NEW p \in Threads, Post(p)
  PROVE  Inv'
<1> DEFINE n == Len(messages) + 1
           sent == Append(messages, Post_(Snap(p)))
           ok == [thread[p] EXCEPT !.stage = "sent", !.msg = n]
           lost == [thread[p] EXCEPT !.stage = "failed"]
           no == [thread[p] EXCEPT !.stage = "refused"]
           gone == [thread[p] EXCEPT !.stage = "gone"]
<1>1. /\ thread[p].stage = "post" /\ thread[p].stage \in Locked /\ lock' = lock
      /\ UNCHANGED <<session, incidents, ended, tokens, drafts, lapses>>
  BY DEF Post, At, Locked, Delivers
<1>2. \/ messages' = sent /\ thread' = [thread EXCEPT ![p] = ok]
      \/ messages' = sent /\ thread' = [thread EXCEPT ![p] = lost]
      \/ messages' = messages /\ thread' = [thread EXCEPT ![p] = lost]
      \/ messages' = messages /\ thread' = [thread EXCEPT ![p] = no]
      \/ messages' = messages /\ thread' = [thread EXCEPT ![p] = gone]
  BY SentTypes DEF Post, Snap
<1>3. ASSUME messages' = messages, NEW s \in {"failed", "refused", "gone"},
             thread' = [thread EXCEPT ![p] = [thread[p] EXCEPT !.stage = s]]
      PROVE  Inv'
  <2> DEFINE t == [thread[p] EXCEPT !.stage = s]
  <2>1. /\ t.act = thread[p].act /\ t.token = thread[p].token /\ t.seen = thread[p].seen /\ t.row = Row(p)
        /\ t.snap = Snap(p) /\ t.msg = thread[p].msg /\ t.stage = s
    BY Facts DEF ThreadStates, Row, Snap
  <2>2. t \in ThreadStates
    BY Facts DEF ThreadStates, Locked, Delivers
  <2> HIDE DEF t
  <2>3. Holds(p, t) /\ lock' \in {"free", "held", "lapsed", "dead"}
    BY <1>1, Facts DEF Holds, Types
  <2>4. thread' = [thread EXCEPT ![p] = t]
    BY <1>3 DEF t
  <2> QED BY <1>1, <1>3, <2>1, <2>2, <2>3, <2>4, StageKeeps
<1>4. /\ ok.act = thread[p].act /\ ok.token = thread[p].token /\ ok.seen = thread[p].seen /\ ok.row = Row(p)
      /\ ok.snap = Snap(p) /\ ok \in ThreadStates /\ ok.stage = "sent" /\ ok.msg = n
  <2>1. n \in Nat
    BY Facts
  <2> HIDE DEF n
  <2> QED BY <2>1, Facts DEF ThreadStates, Row, Snap, Locked, Delivers
<1>5. /\ lost.act = thread[p].act /\ lost.token = thread[p].token /\ lost.seen = thread[p].seen
      /\ lost.row = Row(p) /\ lost.snap = Snap(p) /\ lost \in ThreadStates
      /\ lost.stage = "failed" /\ lost.msg = thread[p].msg
  BY Facts DEF ThreadStates, Row, Snap, Locked, Delivers
<1>6. ASSUME messages' = sent, NEW t \in {ok, lost}, thread' = [thread EXCEPT ![p] = t]
      PROVE  Inv'
  <2> HIDE DEF ok, lost
  <2>1. /\ t.act = thread[p].act /\ t.token = thread[p].token /\ t.seen = thread[p].seen /\ t.row = Row(p)
        /\ t.snap = Snap(p) /\ t \in ThreadStates
        /\ (t.stage = "sent" /\ t.msg = n) \/ (t.stage = "failed" /\ t.msg = thread[p].msg)
    BY <1>4, <1>5, <1>6
  <2>2. /\ messages' \in Seq(Messages) /\ Len(messages') = n /\ messages'[n] = Post_(Snap(p))
        /\ \A i \in DOMAIN messages : messages'[i] = messages[i]
        /\ DOMAIN messages' = DOMAIN messages \cup {n}
    <3>1. messages' \in Seq(Messages) /\ Len(messages') = n /\ messages'[n] = Post_(Snap(p))
          /\ \A i \in DOMAIN messages : messages'[i] = messages[i]
      BY <1>6, SentTypes
    <3>2. DOMAIN messages' = 1..n /\ DOMAIN messages = 1..Len(messages) /\ Len(messages) \in Nat
      BY <3>1, Facts
    <3> QED BY <3>1, <3>2
  <2>3. /\ messages'[n].screen = Snap(p).screen /\ messages'[n].buttons = Keyboard(Snap(p))
        /\ messages'[n].body = Snap(p).body /\ messages'[n].live = TRUE
    BY <2>2 DEF Post_
  <2>4. Len(messages) <= Len(messages') /\ n \notin DOMAIN messages /\ n # 0
    BY <2>2, Facts
  <2>5. Grow
    BY <1>1, <2>2, <2>4, Facts DEF Grow
  <2>6. thread'[p] = t /\ \A q \in Threads \ {p} : thread'[q] = thread[q]
    BY <1>6, Facts DEF Types
  <2> HIDE DEF n
  <2>7. RowsOk'
    <3>1. \A x \in Held' : x \in Held
      <4>1. session \in Held /\ \A q \in Threads : Row(q) \in Held /\ Snap(q) \in Held
        BY DEF Held
      <4>2. \A x \in Held' : x \in {session', t.row, t.snap} \/ \E q \in Threads \ {p} : x = Row(q) \/ x = Snap(q)
        BY <1>6, Facts, HeldNext
      <4> QED BY <1>1, <2>1, <4>1, <4>2
    <3>2. messages'[n].screen <= tokens'
      BY <1>1, <2>3, Facts DEF RowOk, RowIn
    <3>3. \A x \in Held : ShownBy(messages'[n], x)
      <4> SUFFICES ASSUME NEW x \in Held, Asks(messages'[n]), x.type = "CONFIRMATION",
                          x.preview = messages'[n].screen
                   PROVE  messages'[n].body = x.body
        BY DEF ShownBy
      <4>1. Snap(p).kind = "preview"
        BY <2>3, Keyboards DEF Asks
      <4>2. ~Snap(p).used
        <5>1. Snap(p).job.status = "sending"
          BY <1>1, Facts DEF Sends, Snap
        <5>2. Snap(p).job # NoJob
          BY <5>1 DEF NoJob
        <5> QED BY <5>2, Facts DEF RowOk, RowIn
      <4>3. Snap(p).type = "CONFIRMATION" /\ Snap(p).preview = Snap(p).screen
        BY <4>1, <4>2, Facts DEF RowOk, RowIn, Confirmable
      <4>4. Agree(Snap(p), x)
        BY Facts DEF RowsOk
      <4> QED BY <2>3, <4>3, <4>4 DEF Agree
    <3>4. RowIn(NoSession, tokens', drafts', messages')
      BY <2>5, BlankRow DEF Grow
    <3>5. \A i \in DOMAIN messages : ShownBy(messages[i], NoSession)
      BY DEF ShownBy, NoSession
    <3>6. \A x : Agree(NoSession, x) /\ Agree(x, NoSession)
      BY DEF Agree, NoSession
    <3>7. \A i \in DOMAIN messages' \ DOMAIN messages :
            messages'[i].screen <= tokens' /\ \A x \in Held' : ShownBy(messages'[i], x)
      BY <2>2, <3>1, <3>2, <3>3
    <3> QED BY <2>5, <3>1, <3>4, <3>5, <3>6, <3>7, Facts, RowsStep
  <2>8. \A q \in Threads \ {p} : ThreadOk(q)'
    <3>1. {session'.preview, session'.bound, t.row.preview, t.row.bound, t.token} \subseteq Tokens(p)
      BY <1>1, <2>1 DEF Tokens
    <3>2. {session'.shown, session'.card, t.row.shown, t.row.card, t.snap.shown, t.snap.card, t.msg}
            \subseteq Numbers(p)
      BY <1>1, <2>1 DEF Numbers, n
    <3>3. (Confirmable(session') => Confirmable(session) /\ session'.screen = session.screen)
          /\ session'.shown \in {0, session.shown} /\ ~(t.stage \in {"reread", "write", "record"})
      BY <1>1, <2>1
    <3>4. Types /\ RowsOk /\ (\A q \in Threads : ThreadOk(q)) /\ DraftInv
      BY DEF Inv
    <3> QED BY <1>6, <2>5, <3>1, <3>2, <3>3, <3>4, OthersStep
  <2>9. ThreadOk(p)'
    <3>1. Carries(p)'
      <4>1. t.msg <= Len(messages')
        <5>1. thread[p].msg <= Len(messages) /\ thread[p].msg \in Nat /\ n \in Nat
          BY Facts DEF Carries, n
        <5> QED BY <2>1, <2>2, <2>4, <5>1, Facts
      <4> QED BY <1>6, <2>1, <2>5, <4>1, Facts, CarriesOn
    <3>2. \A x \in Held : x.shown # n /\ x.card # n
      <4> SUFFICES ASSUME NEW x \in Held PROVE x.shown # n /\ x.card # n
        OBVIOUS
      <4>1. x.shown \in Nat /\ x.card \in Nat
        BY Facts, HeldTypes DEF Sessions
      <4>2. x.shown <= Len(messages) /\ x.card <= Len(messages)
        BY Facts DEF RowsOk, RowOk, RowIn
      <4> QED BY <4>1, <4>2, Facts DEF n
    <3>3. \A q \in Threads : thread[q].msg # n
      <4> SUFFICES ASSUME NEW q \in Threads PROVE thread[q].msg # n
        OBVIOUS
      <4>1. thread[q].msg \in Nat /\ thread[q].msg <= Len(messages)
        BY Facts DEF Carries
      <4> QED BY <4>1, Facts DEF n
    <3>4. session \in Held /\ \A q \in Threads : Row(q) \in Held /\ Snap(q) \in Held
      BY DEF Held
    <3>5. t.stage = "sent" => Private(p)'
      BY <1>1, <2>1, <2>2, <2>3, <2>6, <3>2, <3>3, <3>4 DEF Private, Row, Snap
    <3> QED BY <2>1, <2>6, <3>1, <3>5 DEF ThreadOk, Decides, Saves, Sends
  <2>10. Alone' /\ Usable'
    <3>1. Holds(p, t)
      BY <1>1 DEF Holds
    <3>2. lapses = 0 => LiveIn(session', messages')
      <4>1. lapses = 0 => LiveIn(session, messages)
        BY DEF Inv, Usable
      <4>2. Delivered(session) => session.shown \in DOMAIN messages
        <5>1. Delivered(session) => session.shown # 0
          BY Facts DEF RowOk, RowIn
        <5>2. session.shown \in Nat /\ session.shown <= Len(messages)
          BY Facts DEF RowOk, RowIn, Sessions
        <5> QED BY <5>1, <5>2, Facts
      <4> QED BY <1>1, <2>2, <4>1, <4>2 DEF LiveIn
    <3>3. Ready(t, session', messages')
      BY <2>1, <2>3 DEF Ready
    <3>4. Types /\ Alone /\ Usable
      BY DEF Inv
    <3> QED BY <1>1, <1>6, <2>1, <3>1, <3>2, <3>3, <3>4, LockStep
  <2>11. Types'
    BY <1>1, <1>6, <2>1, <2>2, Facts DEF Types
  <2>12. DraftInv' /\ ConfirmedAsShown'
    BY <1>1 DEF Inv, DraftInv, ConfirmedAsShown
  <2> QED BY <2>6, <2>7, <2>8, <2>9, <2>10, <2>11, <2>12 DEF Inv
<1> QED BY <1>2, <1>3, <1>6

\* The answer has arrived.
LEMMA SentKeeps ==
  ASSUME Inv, NEW p \in Threads, Sent(p)
  PROVE  Inv'
<1> DEFINE n == thread[p].msg
           r == Recorded(session, n)
           rec == [thread[p] EXCEPT !.stage = "record", !.snap = session, !.row = r]
           late == [thread[p] EXCEPT !.stage = "retract"]
<1>1. /\ thread[p].stage = "sent" /\ thread[p].stage \in Locked /\ lock' = lock
      /\ UNCHANGED <<session, messages, incidents, ended, tokens, drafts, lapses>>
  BY DEF Sent, At, Locked, Delivers, dialog, counts
<1>2. CASE ~matches(p)
  <2>1. thread' = [thread EXCEPT ![p] = late]
    BY <1>2 DEF Sent
  <2>2. /\ late.act = thread[p].act /\ late.token = thread[p].token /\ late.seen = thread[p].seen
        /\ late.row = Row(p) /\ late.snap = Snap(p) /\ late.msg = thread[p].msg /\ late.stage = "retract"
    BY Facts DEF ThreadStates, Row, Snap
  <2>3. late \in ThreadStates
    BY Facts DEF ThreadStates, Locked, Delivers
  <2> HIDE DEF late
  <2>4. Holds(p, late) /\ lock' \in {"free", "held", "lapsed", "dead"}
    BY <1>1, Facts DEF Holds, Types
  <2> QED BY <1>1, <2>1, <2>2, <2>3, <2>4, StageKeeps
<1>3. CASE matches(p)
  <2>1. thread' = [thread EXCEPT ![p] = rec]
    BY <1>3 DEF Sent
  <2>2. /\ session.draft # 0 /\ session.screen = Snap(p).screen
    BY <1>3 DEF matches, isResidentDraft, Snap
  <2>3. Private(p)
    BY <1>1, Facts DEF Sends
  <2>4. n \in Nat /\ n # 0 /\ n <= Len(messages) /\ messages[n].screen = session.screen
    BY <2>2, <2>3, Facts DEF Private
  <2>5. /\ r.draft = session.draft /\ r.type = session.type /\ r.body = session.body /\ r.kind = session.kind
        /\ r.used = session.used /\ r.screen = session.screen /\ r.preview = session.preview
        /\ r.bound = session.bound /\ r.job = NoJob /\ r.shown = n /\ r.card \in {0, n}
        /\ r \in Sessions
    <3> DEFINE c == IF session.kind = "preview" THEN n ELSE 0
               o == Screens(session) \ {n}
               d == IF session.kind = "preview" THEN FALSE ELSE session.pending
    <3>1. c \in {0, n} /\ c \in Nat /\ o \in SUBSET Nat /\ d \in BOOLEAN /\ NoJob \in Jobs
      <4>1. session.shown \in Nat /\ session.card \in Nat /\ session.old \in SUBSET Nat /\ session.pending \in BOOLEAN
        BY Facts DEF Sessions
      <4> QED BY <2>4, <4>1, Blanks DEF Screens
    <3>2. r = [session EXCEPT !.job = NoJob, !.shown = n, !.tidies = 0, !.old = o, !.card = c, !.pending = d]
      BY DEF Recorded
    <3> HIDE DEF c, o, d, r, n
    <3> QED BY <2>4, <3>1, <3>2, Facts DEF Sessions
  <2> HIDE DEF r
  <2>6. /\ rec.act = thread[p].act /\ rec.token = thread[p].token /\ rec.seen = thread[p].seen
        /\ rec.row = r /\ rec.snap = session /\ rec.msg = n /\ rec.stage = "record" /\ rec \in ThreadStates
    BY <2>5, Facts DEF ThreadStates, Locked, Delivers
  <2> HIDE DEF rec
  <2>7. Grow
    BY <1>1, Facts DEF Types, Grow
  <2>8. thread'[p] = rec /\ \A q \in Threads \ {p} : thread'[q] = thread[q]
    BY <2>1, Facts DEF Types
  <2>9. ThreadOk(p)'
    <3>1. Carries(p)'
      <4>1. rec.msg <= Len(messages')
        BY <1>1, <2>4, <2>6
      <4> QED BY <2>1, <2>6, <2>7, <4>1, Facts, CarriesOn
    <3>2. Private(p)'
      BY <1>1, <2>3, <2>4, <2>6, <2>8, Facts DEF Private, Row, Snap
    <3>3. rec.row = Recorded(rec.snap, rec.msg)
      BY <2>6 DEF r
    <3>5. Sends(p)'
      BY <2>6, <2>8, <3>2, <3>3 DEF Sends, Recorded, Screens
    <3> QED BY <2>6, <2>8, <3>1, <3>5 DEF ThreadOk, Decides, Saves
  <2>10. RowsOk'
    <3>1. RowIn(r, tokens', drafts', messages')
      <4>1. RowIn(session, tokens, drafts, messages)
        BY Facts DEF RowOk
      <4> QED BY <1>1, <2>2, <2>4, <2>5, <4>1 DEF RowIn, Confirmable, Delivered
    <3>2. \A i \in DOMAIN messages : ShownBy(messages[i], r)
      <4> SUFFICES ASSUME NEW i \in DOMAIN messages PROVE ShownBy(messages[i], r)
        OBVIOUS
      <4>1. ShownBy(messages[i], session)
        BY Facts DEF RowsOk
      <4> QED BY <2>5, <4>1 DEF ShownBy
    <3>3. \A x \in Held' : x = r \/ (x \in Held /\ x.shown # n /\ x.card # n)
      <4>1. session \in Held /\ session.shown # n /\ session.card # n
            /\ \A q \in Threads \ {p} : /\ Row(q) \in Held /\ Row(q).shown # n /\ Row(q).card # n
                                        /\ Snap(q) \in Held /\ Snap(q).shown # n /\ Snap(q).card # n
        BY <2>3 DEF Held, Private
      <4>2. \A x \in Held' : x \in {session', rec.row, rec.snap} \/ \E q \in Threads \ {p} : x = Row(q) \/ x = Snap(q)
        BY <2>1, Facts, HeldNext
      <4> QED BY <1>1, <2>6, <4>1, <4>2
    <3>4. \A x \in Held : x.shown # n /\ x.card # n => Agree(r, x) /\ Agree(x, r)
      <4> SUFFICES ASSUME NEW x \in Held, x.shown # n, x.card # n PROVE Agree(r, x) /\ Agree(x, r)
        OBVIOUS
      <4>1. Agree(session, x) /\ Agree(x, session)
        BY Facts DEF RowsOk
      <4> QED BY <2>5, <4>1 DEF Agree
    <3>5. DOMAIN messages' \ DOMAIN messages = {}
      BY <1>1
    <3> QED BY <2>7, <3>1, <3>2, <3>3, <3>4, <3>5, Facts, RowsStep
  <2>11. \A q \in Threads \ {p} : ThreadOk(q)'
    <3>1. {session'.preview, session'.bound, rec.row.preview, rec.row.bound, rec.token} \subseteq Tokens(p)
      BY <1>1, <2>5, <2>6 DEF Tokens
    <3>2. {session'.shown, session'.card, rec.row.shown, rec.row.card, rec.snap.shown, rec.snap.card, rec.msg}
            \subseteq Numbers(p)
      BY <1>1, <2>5, <2>6 DEF Numbers
    <3>3. (Confirmable(session') => Confirmable(session) /\ session'.screen = session.screen)
          /\ session'.shown \in {0, session.shown} /\ rec.row.shown = thread[p].msg
      BY <1>1, <2>5, <2>6
    <3>4. Types /\ RowsOk /\ (\A q \in Threads : ThreadOk(q)) /\ DraftInv
      BY DEF Inv
    <3> QED BY <1>1, <2>1, <2>7, <3>1, <3>2, <3>3, <3>4, OthersStep
  <2>12. Alone' /\ Usable'
    <3>1. Holds(p, rec)
      BY <1>1 DEF Holds
    <3>2. lapses = 0 => LiveIn(session', messages')
      BY <1>1 DEF Inv, Usable
    <3>3. lapses = 0 => Ready(rec, session', messages')
      <4>1. lapses = 0 => messages[n].live
        BY <1>1 DEF Inv, Usable, Ready
      <4> QED BY <1>1, <2>6, <4>1 DEF Ready
    <3>4. Types /\ Alone /\ Usable
      BY DEF Inv
    <3> QED BY <1>1, <2>1, <2>6, <3>1, <3>2, <3>3, <3>4, LockStep
  <2>13. Types'
    BY <1>1, <2>1, <2>6, Facts DEF Types
  <2>14. DraftInv' /\ ConfirmedAsShown'
    BY <1>1 DEF Inv, DraftInv, ConfirmedAsShown
  <2> QED BY <2>8, <2>9, <2>10, <2>11, <2>12, <2>13, <2>14 DEF Inv
<1> QED BY <1>2, <1>3

-----------------------------------------------------------------------------
(* Steps that write the row. *)

\* The row with its screen used, its delivery a step further, or its old
\* screens forgotten.
Touched(r) ==
  /\ r \in Sessions /\ SameDraftRow(r, session) /\ r.type = session.type /\ r.body = session.body
  /\ r.screen = session.screen /\ r.kind = session.kind /\ r.preview = session.preview /\ r.bound = session.bound
  /\ session.used => r.used
  /\ r.used => r.job = NoJob
  /\ Delivered(r) => Delivered(session)

\* An update that has ended has nothing in hand.
LEMMA IdleOk ==
  ASSUME Types, Grow, NEW p \in Threads, thread' = [thread EXCEPT ![p] = Idle]
  PROVE  ThreadOk(p)' /\ \A s, m : Ready(Idle, s, m)
<1>1. Idle.token = 0 /\ Idle.msg = 0 /\ Idle.stage = "idle" /\ Idle.act = "none"
  BY DEF Idle
<1>2. thread'[p] = Idle
  BY DEF Types
<1>3. 0 <= tokens' /\ 0 <= Len(messages')
  BY DEF Grow
<1> HIDE DEF Idle
<1>4. Carries(p)'
  BY <1>1, <1>2, <1>3 DEF Carries
<1> QED BY <1>1, <1>2, <1>4 DEF ThreadOk, Decides, Saves, Sends, Ready

\* A step that does no more to the row than to touch it keeps the invariant.
LEMMA TouchKeeps ==
  ASSUME Inv, NEW p \in Threads, thread[p].stage \in Locked, NEW t \in ThreadStates,
         thread' = [thread EXCEPT ![p] = t], Touched(session'),
         Grow, Len(messages') = Len(messages), UNCHANGED <<incidents, ended, tokens, drafts, lapses>>,
         lock' \in {"free", "held", "lapsed", "dead"}, t.stage \in Locked => lock' = lock,
         t.row \in {NoSession, Row(p)}, t.snap \in {NoSession, Snap(p), session'},
         t.token \in {0, thread[p].token}, t.msg \in {0, thread[p].msg},
         ~(t.stage \in {"reread", "write", "record"}), ThreadOk(p)',
         lapses = 0 => LiveIn(session', messages') /\ Ready(t, session', messages')
  PROVE  Inv'
<1> DEFINE r == session'
<1>1. /\ r \in Sessions /\ r.draft = session.draft /\ r.shown = session.shown /\ r.card = session.card
      /\ r.type = session.type /\ r.body = session.body
      /\ r.screen = session.screen /\ r.kind = session.kind /\ r.preview = session.preview /\ r.bound = session.bound
      /\ session.used => r.used
      /\ r.used => r.job = NoJob
      /\ Delivered(r) => Delivered(session)
  BY DEF Touched, SameDraftRow
<1>2. Like(r, session)
  BY <1>1 DEF Like, SameDraftRow
<1>3. RowIn(r, tokens', drafts', messages')
  <2>1. RowIn(session, tokens', drafts', messages')
    BY Facts, RowGrows
  <2> QED BY <1>1, <2>1 DEF RowIn, Confirmable
<1>4. Confirmable(r) => Confirmable(session) /\ r.screen = session.screen
  BY <1>1 DEF Confirmable
<1>5. NoSession.preview = 0 /\ NoSession.bound = 0 /\ NoSession.shown = 0 /\ NoSession.card = 0
  BY DEF NoSession
<1>6. DraftInv' /\ ConfirmedAsShown'
  BY <1>1 DEF Inv, DraftInv, ConfirmedAsShown
<1>7. Holds(p, t)
  BY DEF Holds
<1> HIDE DEF r
<1>8. {r.preview, r.bound, t.row.preview, t.row.bound, t.token} \subseteq Tokens(p)
  BY <1>1, <1>5 DEF Tokens
<1>9. {r.shown, r.card, t.row.shown, t.row.card, t.snap.shown, t.snap.card, t.msg} \subseteq Numbers(p)
  BY <1>1, <1>5 DEF Numbers, r
<1>10. {r, t.row, t.snap} \subseteq {session, Row(p), Snap(p), NoSession, r} /\ \E s \in Held : Like(r, s)
  BY <1>2, Facts DEF r
<1>11. incidents' \in Seq(Registrations) /\ ended' \in SUBSET Nat /\ lapses' = lapses
  BY Facts DEF Types
<1>12. r.shown \in {0, session.shown}
  BY <1>1
<1> QED BY <1>1, <1>3, <1>4, <1>6, <1>7, <1>8, <1>9, <1>10, <1>11, <1>12, Moves DEF r

\* The dialog stands still.
LEMMA Still ==
  ASSUME Inv, UNCHANGED <<messages, tokens, drafts>>, ended \subseteq ended'
  PROVE  Grow /\ Len(messages') = Len(messages)
<1>1. tokens \in Nat /\ drafts \in Nat /\ messages \in Seq(Messages)
  BY DEF Inv, Types
<1> QED BY <1>1 DEF Grow

\* A press uses the screen.
LEMMA ConsumeKeeps ==
  ASSUME Inv, NEW p \in Threads, consumeDraftButton(p)
  PROVE  Inv'
<1>1. /\ thread[p].stage = "consume" /\ thread[p].stage \in Locked
      /\ UNCHANGED <<messages, incidents, ended, tokens, drafts, lapses>>
  BY DEF consumeDraftButton, At, counts, Locked, Working
<1>2. CASE ~Current(p)
  <2>1. thread' = [thread EXCEPT ![p] = Idle] /\ lock' = "free" /\ session' = session
    BY <1>2 DEF consumeDraftButton, release
  <2>2. Holds(p, Idle)
    BY <1>1 DEF Holds, Idle, Locked, Working, Delivers
  <2> QED BY <1>1, <2>1, <2>2, Releases
<1>3. CASE Current(p)
  <2> DEFINE r == [session EXCEPT !.used = TRUE, !.job = NoJob]
             t == [thread[p] EXCEPT !.stage = "decide"]
  <2>1. session' = r /\ thread' = [thread EXCEPT ![p] = t] /\ lock' = lock
    BY <1>3 DEF consumeDraftButton, Save_, Go
  <2>2. /\ r \in Sessions /\ r.draft = session.draft /\ r.shown = session.shown /\ r.card = session.card
        /\ r.type = session.type /\ r.body = session.body
        /\ r.screen = session.screen /\ r.kind = session.kind /\ r.preview = session.preview
        /\ r.bound = session.bound /\ r.used = TRUE /\ r.job = NoJob
    BY Facts, Blanks DEF Sessions
  <2>3. /\ t.act = thread[p].act /\ t.token = thread[p].token /\ t.seen = thread[p].seen /\ t.row = Row(p)
        /\ t.snap = Snap(p) /\ t.msg = thread[p].msg /\ t.stage = "decide"
    BY Facts DEF ThreadStates, Row, Snap
  <2>4. t \in ThreadStates
    BY Facts DEF ThreadStates, Locked, Working
  <2> HIDE DEF r, t
  <2>5. Touched(session') /\ ~Delivered(session') /\ ~Confirmable(session')
    BY <2>1, <2>2 DEF Touched, SameDraftRow, Delivered, Confirmable
  <2>6. Grow /\ Len(messages') = Len(messages)
    BY <1>1, Still
  <2>7. thread'[p] = t
    BY <2>1, Facts DEF Types
  <2>8. Carries(p)'
    <3>1. t.msg <= Len(messages')
      BY <1>1, <2>3, Facts DEF Carries
    <3> QED BY <2>1, <2>3, <2>6, <3>1, Facts, CarriesOn
  <2>9. ThreadOk(p)'
    BY <2>3, <2>5, <2>7, <2>8 DEF ThreadOk, Decides, Saves, Sends, Confirmable
  <2>10. LiveIn(session', messages') /\ Ready(t, session', messages')
    BY <2>3, <2>5 DEF LiveIn, Ready
  <2>11. lock' \in {"free", "held", "lapsed", "dead"} /\ ~(t.stage \in {"reread", "write", "record"})
    BY <2>1, <2>3, Facts DEF Types
  <2> QED BY <1>1, <2>1, <2>3, <2>4, <2>5, <2>6, <2>9, <2>10, <2>11, TouchKeeps
<1> QED BY <1>2, <1>3

\* A delivery is claimed, or given up.
LEMMA ClaimKeeps ==
  ASSUME Inv, NEW p \in Threads, Claim(p)
  PROVE  Inv'
<1>1. /\ thread[p].stage = "deliver" /\ thread[p].stage \in Locked
      /\ UNCHANGED <<messages, incidents, ended, tokens, drafts, lapses>>
      /\ lock' = "free" \/ lock' = lock
  BY DEF Claim, At, counts, Locked, Delivers, release
<1>2. ASSUME NEW j \in Jobs, j.status # "none", session.job # NoJob, NEW r, r = [session EXCEPT !.job = j]
      PROVE  /\ Touched(r) /\ ~Delivered(r) /\ r \in Sessions /\ r.job = j
             /\ r.shown = session.shown /\ r.card = session.card
  <2>1. /\ r \in Sessions /\ r.draft = session.draft /\ r.shown = session.shown /\ r.card = session.card
        /\ r.type = session.type /\ r.body = session.body
        /\ r.screen = session.screen /\ r.kind = session.kind /\ r.preview = session.preview
        /\ r.bound = session.bound /\ r.used = session.used /\ r.job = j
    BY <1>2, Facts DEF Sessions
  <2>2. j # NoJob
    BY <1>2 DEF NoJob
  <2>3. ~session.used
    BY <1>2, Facts DEF RowOk, RowIn
  <2> QED BY <2>1, <2>2, <2>3 DEF Touched, SameDraftRow, Delivered
<1>3. session.job \in Jobs
  BY Facts DEF Sessions
<1>4. CASE thread' = [thread EXCEPT ![p] = Idle] /\ session' = session /\ lock' = "free"
  <2>1. Holds(p, Idle)
    BY <1>1 DEF Holds, Idle, Locked, Working, Delivers
  <2> QED BY <1>1, <1>4, <2>1, Releases
<1>5. ASSUME matches(p), session' = Exhausted(session), thread' = [thread EXCEPT ![p] = Idle], lock' = "free"
      PROVE  Inv'
  <2> DEFINE j == [session.job EXCEPT !.status = "exhausted"]
  <2>1. session' = [session EXCEPT !.job = j] /\ session.job # NoJob
    BY <1>5, Facts DEF Exhausted, matches, Sessions
  <2>2. j \in Jobs /\ j.status # "none"
    BY <1>3 DEF Jobs
  <2> HIDE DEF j
  <2>3. Touched(session') /\ ~Delivered(session')
    BY <1>2, <2>1, <2>2
  <2>4. Grow /\ Len(messages') = Len(messages)
    BY <1>1, Still
  <2>5. ThreadOk(p)' /\ Ready(Idle, session', messages') /\ Idle \in ThreadStates
    BY <1>5, <2>4, IdleOk, Facts, Blanks
  <2>6. LiveIn(session', messages')
    BY <2>3 DEF LiveIn
  <2>7. /\ Idle.token = 0 /\ Idle.msg = 0 /\ Idle.stage \notin Locked /\ Idle.row = NoSession /\ Idle.snap = NoSession
        /\ ~(Idle.stage \in {"reread", "write", "record"})
    BY DEF Idle, Locked, Working, Delivers
  <2> QED BY <1>1, <1>5, <2>3, <2>4, <2>5, <2>6, <2>7, TouchKeeps
<1>6. ASSUME matches(p), session' = Claimed(session), lock' = lock,
             thread' = [thread EXCEPT ![p].stage = "send", ![p].snap = Claimed(session)]
      PROVE  Inv'
  <2> DEFINE j == [status |-> "sending", tries |-> session.job.tries + 1]
             t == [thread[p] EXCEPT !.stage = "send", !.snap = session']
  <2>1. session' = [session EXCEPT !.job = j] /\ session.job # NoJob /\ thread' = [thread EXCEPT ![p] = t]
    BY <1>6 DEF Claimed, matches
  <2>2. j \in Jobs /\ j.status = "sending" /\ j.status # "none"
    BY <1>3 DEF Jobs
  <2> HIDE DEF j
  <2>3. Touched(session') /\ ~Delivered(session') /\ session' \in Sessions /\ session'.job = j
    BY <1>2, <2>1, <2>2
  <2>4. /\ t.act = thread[p].act /\ t.token = thread[p].token /\ t.seen = thread[p].seen /\ t.row = Row(p)
        /\ t.snap = session' /\ t.msg = thread[p].msg /\ t.stage = "send"
    BY Facts DEF ThreadStates, Row
  <2>5. t \in ThreadStates
    BY <2>3, Facts DEF ThreadStates, Locked, Delivers
  <2> HIDE DEF t
  <2>6. Grow /\ Len(messages') = Len(messages)
    BY <1>1, Still
  <2>7. thread'[p] = t
    BY <2>1, Facts DEF Types
  <2>8. Carries(p)'
    <3>1. t.msg <= Len(messages')
      BY <1>1, <2>4, Facts DEF Carries
    <3> QED BY <2>1, <2>4, <2>6, <3>1, Facts, CarriesOn
  <2>9. ThreadOk(p)'
    BY <2>2, <2>3, <2>4, <2>7, <2>8 DEF ThreadOk, Decides, Saves, Sends
  <2>10. LiveIn(session', messages') /\ Ready(t, session', messages')
    BY <2>3, <2>4 DEF LiveIn, Ready
  <2>11. lock' \in {"free", "held", "lapsed", "dead"} /\ ~(t.stage \in {"reread", "write", "record"})
    BY <1>6, <2>4, Facts DEF Types
  <2> QED BY <1>1, <1>6, <2>1, <2>3, <2>4, <2>5, <2>6, <2>9, <2>10, <2>11, TouchKeeps
<1> QED BY <1>4, <1>5, <1>6 DEF Claim, release

\* A delivery has failed: it is tried again later, or given up.
LEMMA FailedKeeps ==
  ASSUME Inv, NEW p \in Threads, Failed(p)
  PROVE  Inv'
<1>1. /\ thread[p].stage \in Locked /\ thread' = [thread EXCEPT ![p] = Idle] /\ lock' = "free"
      /\ UNCHANGED <<messages, incidents, ended, tokens, drafts, lapses>>
  BY DEF Failed, At, counts, Locked, Delivers, release
<1>2. CASE ~matches(p)
  <2>1. session' = session
    BY <1>2 DEF Failed
  <2>2. Holds(p, Idle)
    BY <1>1 DEF Holds, Idle, Locked, Working, Delivers
  <2> QED BY <1>1, <2>1, <2>2, Releases
<1>3. CASE matches(p)
  <2> DEFINE c == IF At(p, "refused") \/ session.job.tries >= MaxAttempts THEN "exhausted" ELSE "pending"
             j == [session.job EXCEPT !.status = c]
  <2>1. session' = [session EXCEPT !.job.status = c] /\ session.job # NoJob
    BY <1>3 DEF Failed, matches
  <2>2. session.job \in Jobs /\ c \in {"exhausted", "pending"}
    BY Facts DEF Sessions
  <2> HIDE DEF c
  <2>3. session' = [session EXCEPT !.job = j]
    BY <2>1, Facts DEF Sessions
  <2>4. j \in Jobs /\ j # NoJob
    BY <2>2 DEF Jobs, NoJob
  <2> HIDE DEF j
  <2>5. ~session.used
    BY <2>1, Facts DEF RowOk, RowIn
  <2>6. /\ session' \in Sessions /\ SameDraftRow(session', session)
        /\ session'.type = session.type /\ session'.body = session.body
        /\ session'.screen = session.screen /\ session'.kind = session.kind /\ session'.preview = session.preview
        /\ session'.bound = session.bound /\ session'.used = session.used /\ session'.job = j
    BY <2>3, <2>4, Facts DEF Sessions, SameDraftRow
  <2>7. Touched(session') /\ ~Delivered(session')
    BY <2>4, <2>5, <2>6 DEF Touched, Delivered
  <2>8. Grow /\ Len(messages') = Len(messages)
    BY <1>1, Still
  <2>9. ThreadOk(p)' /\ Ready(Idle, session', messages') /\ Idle \in ThreadStates
    BY <1>1, <2>8, IdleOk, Facts, Blanks
  <2>10. LiveIn(session', messages')
    BY <2>7 DEF LiveIn
  <2>11. /\ Idle.token = 0 /\ Idle.msg = 0 /\ Idle.stage \notin Locked /\ Idle.row = NoSession /\ Idle.snap = NoSession
         /\ ~(Idle.stage \in {"reread", "write", "record"})
    BY DEF Idle, Locked, Working, Delivers
  <2> QED BY <1>1, <2>7, <2>8, <2>9, <2>10, <2>11, TouchKeeps
<1> QED BY <1>2, <1>3

\* Old screens lose their buttons, and the row forgets them.
LEMMA RetireKeeps ==
  ASSUME Inv, NEW p \in Threads, Retire(p)
  PROVE  Inv'
<1> PICK gone \in {Old(Snap(p)), {}} :
       /\ messages' = [n \in DOMAIN messages |->
            IF n \in gone THEN [messages[n] EXCEPT !.live = FALSE] ELSE messages[n]]
       /\ session' = IF Current(p) THEN [session EXCEPT !.old = @ \ gone, !.tidies = @ + 1] ELSE session
  BY DEF Retire, Snap
<1>1. /\ thread[p].stage = "retire" /\ thread[p].stage \in Locked /\ thread' = [thread EXCEPT ![p] = Idle] /\ lock' = "free"
      /\ UNCHANGED <<incidents, ended, tokens, drafts, lapses>>
  BY DEF Retire, At, counts, Locked, Delivers, release
<1>2. \A n \in DOMAIN messages :
        /\ messages'[n] \in Messages /\ messages'[n].screen = messages[n].screen
        /\ messages'[n].buttons = messages[n].buttons /\ messages'[n].body = messages[n].body
  <2> SUFFICES ASSUME NEW n \in DOMAIN messages
               PROVE  /\ messages'[n] \in Messages /\ messages'[n].screen = messages[n].screen
                      /\ messages'[n].buttons = messages[n].buttons /\ messages'[n].body = messages[n].body
    OBVIOUS
  <2>1. messages[n] \in Messages
    BY Facts, MessageTypes
  <2>2. messages'[n] = IF n \in gone THEN [messages[n] EXCEPT !.live = FALSE] ELSE messages[n]
    OBVIOUS
  <2> QED BY <2>1, <2>2 DEF Messages
<1>3. messages' \in Seq(Messages) /\ Len(messages') = Len(messages)
  <2>1. DOMAIN messages' = 1..Len(messages) /\ Len(messages) \in Nat /\ DOMAIN messages = 1..Len(messages)
    BY Facts
  <2>2. messages' = [n \in 1..Len(messages) |-> messages'[n]]
    BY <2>1
  <2>3. messages' \in [1..Len(messages) -> Messages]
    BY <1>2, <2>1, <2>2
  <2> QED BY <2>1, <2>3
<1>4. Grow
  BY <1>1, <1>2, <1>3, Facts DEF Grow
<1>5. Touched(session')
  <2> DEFINE o == session.old \ gone
             k == session.tidies + 1
  <2>1. o \in SUBSET Nat /\ k \in Nat
    <3>1. session.old \in SUBSET Nat /\ session.tidies \in Nat
      BY Facts DEF Sessions
    <3> QED BY <3>1
  <2>2. session' = session \/ session' = [session EXCEPT !.old = o, !.tidies = k]
    OBVIOUS
  <2> HIDE DEF o, k
  <2>3. session.used => session.job = NoJob
    BY Facts DEF RowOk, RowIn
  <2>4. /\ session' \in Sessions /\ SameDraftRow(session', session)
        /\ session'.type = session.type /\ session'.body = session.body
        /\ session'.screen = session.screen /\ session'.kind = session.kind /\ session'.preview = session.preview
        /\ session'.bound = session.bound /\ session'.used = session.used /\ session'.job = session.job
    BY <2>1, <2>2, Facts DEF Sessions, SameDraftRow
  <2> QED BY <2>3, <2>4 DEF Touched, Delivered, SameDraftRow
<1>6. ThreadOk(p)' /\ Ready(Idle, session', messages') /\ Idle \in ThreadStates
  BY <1>1, <1>4, IdleOk, Facts, Blanks
<1>7. lapses = 0 => LiveIn(session', messages')
  <2> SUFFICES ASSUME lapses = 0, Delivered(session') PROVE messages'[session'.shown].live
    BY DEF LiveIn
  <2>1. Delivered(session) /\ session'.shown = session.shown
    BY <1>5 DEF Touched, SameDraftRow
  <2>2. session.draft # 0 /\ session.shown \notin gone
    <3>1. session.draft = 0 \/ session.shown \notin Old(Snap(p))
      BY <1>1 DEF Inv, Usable, Ready, Snap
    <3> QED BY <2>1, <3>1 DEF Delivered
  <2>3. session.shown \in DOMAIN messages /\ messages[session.shown].live
    <3>1. session.shown # 0 /\ session.shown <= Len(messages)
      BY <2>1, Facts DEF RowOk, RowIn
    <3>2. session.shown \in Nat
      BY Facts DEF Sessions
    <3>3. messages[session.shown].live
      BY <2>1 DEF Inv, Usable, LiveIn
    <3> QED BY <3>1, <3>2, <3>3, Facts
  <2> QED BY <2>1, <2>2, <2>3
<1>8. /\ Idle.token = 0 /\ Idle.msg = 0 /\ Idle.stage \notin Locked /\ Idle.row = NoSession /\ Idle.snap = NoSession
      /\ ~(Idle.stage \in {"reread", "write", "record"})
  BY DEF Idle, Locked, Working, Delivers
<1> QED BY <1>1, <1>3, <1>4, <1>5, <1>6, <1>7, <1>8, TouchKeeps

\* The row is saved.
LEMMA WriteKeeps ==
  ASSUME Inv, NEW p \in Threads, Write(p)
  PROVE  Inv'
<1>1. /\ thread[p].stage = "write" /\ thread[p].stage \in Locked
      /\ UNCHANGED <<messages, incidents, ended, tokens, drafts, lapses>>
  BY DEF Write, At, counts, Locked, Working
<1>2. CASE ~Current(p)
  <2>1. thread' = [thread EXCEPT ![p] = Idle] /\ lock' = "free" /\ session' = session
    BY <1>2 DEF Write, release
  <2>2. Holds(p, Idle)
    BY <1>1 DEF Holds, Idle, Locked, Working, Delivers
  <2> QED BY <1>1, <2>1, <2>2, Releases
<1>3. CASE Current(p)
  <2> DEFINE y == IF thread[p].kind = "none" THEN "deliver" ELSE "bind"
             t == [thread[p] EXCEPT !.stage = y, !.snap = Row(p), !.row = NoSession]
  <2>1. session' = Row(p) /\ thread' = [thread EXCEPT ![p] = t] /\ lock' = lock /\ session = Snap(p)
    BY <1>3 DEF Write, Save_, Row, Snap, Current
  <2>2. y \in {"deliver", "bind"}
    OBVIOUS
  <2> HIDE DEF y
  <2>3. /\ t.act = thread[p].act /\ t.token = thread[p].token /\ t.seen = thread[p].seen /\ t.row = NoSession
        /\ t.snap = Row(p) /\ t.msg = thread[p].msg /\ t.stage = y /\ t.kind = thread[p].kind
    BY Facts DEF ThreadStates
  <2>4. t \in ThreadStates
    BY <2>2, Facts, Blanks DEF ThreadStates, Locked, Working, Delivers
  <2> HIDE DEF t
  <2>5. Grow /\ Len(messages') = Len(messages)
    BY <1>1, Still
  <2>6. thread'[p] = t
    BY <2>1, Facts DEF Types
  <2>7. Carries(p)'
    <3>1. t.msg <= Len(messages')
      BY <1>1, <2>3, Facts DEF Carries
    <3> QED BY <2>1, <2>3, <2>5, <3>1, Facts, CarriesOn
  <2>8. ThreadOk(p)'
    <3>1. thread[p].kind \in Kinds
      BY <1>1, Facts DEF Decides
    <3> QED BY <2>2, <2>3, <2>6, <2>7, <3>1 DEF ThreadOk, Decides, Saves, Sends
  <2>9. Row(p).draft = session.draft
    BY <1>1, <2>1, Facts DEF Saves, Row, Snap
  <2>10. DraftInv' /\ ConfirmedAsShown'
    BY <1>1, <2>1, <2>9 DEF Inv, DraftInv, ConfirmedAsShown
  <2>11. lapses = 0 => LiveIn(session', messages') /\ Ready(t, session', messages')
    <3>1. lapses = 0 => LiveIn(Row(p), messages)
      BY <1>1 DEF Inv, Usable, Ready, Row
    <3> QED BY <1>1, <2>1, <2>2, <2>3, <3>1 DEF Ready
  <2>12. NoSession.preview = 0 /\ NoSession.bound = 0 /\ NoSession.shown = 0 /\ NoSession.card = 0
    BY DEF NoSession
  <2>13. RowIn(NoSession, tokens', drafts', messages') /\ Plain(NoSession)
    BY <2>5, BlankRow DEF Grow
  <2>14. /\ {session'.preview, session'.bound, t.row.preview, t.row.bound, t.token} \subseteq Tokens(p)
         /\ {session'.shown, session'.card, t.row.shown, t.row.card, t.snap.shown, t.snap.card, t.msg}
              \subseteq Numbers(p)
    BY <2>1, <2>3, <2>12 DEF Tokens, Numbers
  <2>15. /\ session' \in Sessions /\ lapses' = lapses /\ lock' \in {"free", "held", "lapsed", "dead"}
         /\ incidents' \in Seq(Registrations) /\ ended' \in SUBSET Nat
         /\ {session', t.row, t.snap} \subseteq {session, Row(p), Snap(p), NoSession, NoSession}
    BY <1>1, <2>1, <2>3, Facts DEF Types
  <2>16. /\ Writes(p) /\ session'.shown = Row(p).shown /\ Row(p).draft = session.draft
         /\ ~(t.stage \in {"reread", "write", "record"}) /\ Holds(p, t)
    BY <1>1, <2>1, <2>2, <2>3, <2>9 DEF Writes, Holds
  <2> QED BY <1>1, <2>1, <2>4, <2>5, <2>8, <2>10, <2>11, <2>13, <2>14, <2>15, <2>16, Moves
<1> QED BY <1>2, <1>3

\* The delivery is recorded.
LEMMA RecordKeeps ==
  ASSUME Inv, NEW p \in Threads, Record(p)
  PROVE  Inv'
<1>1. /\ thread[p].stage = "record" /\ thread[p].stage \in Locked /\ lock' = lock
      /\ UNCHANGED <<messages, incidents, ended, tokens, drafts, lapses>>
  BY DEF Record, At, counts, Locked, Delivers, Go
<1> DEFINE t(y) == [thread[p] EXCEPT !.stage = y]
<1>2. \A y \in {"tidy", "retract"} :
        /\ t(y).act = thread[p].act /\ t(y).token = thread[p].token /\ t(y).seen = thread[p].seen
        /\ t(y).row = Row(p) /\ t(y).snap = Snap(p) /\ t(y).msg = thread[p].msg /\ t(y).stage = y
        /\ t(y) \in ThreadStates
  BY Facts DEF ThreadStates, Row, Snap, Locked, Delivers
<1>3. CASE ~Current(p)
  <2>1. thread' = [thread EXCEPT ![p] = t("retract")] /\ session' = session
    BY <1>3 DEF Record, Go
  <2> HIDE DEF t
  <2>2. Holds(p, t("retract")) /\ lock' \in {"free", "held", "lapsed", "dead"}
    BY <1>1, Facts DEF Holds, Types
  <2> QED BY <1>1, <1>2, <2>1, <2>2, StageKeeps
<1>4. CASE Current(p)
  <2> DEFINE u == t("tidy")
  <2>1. session' = Row(p) /\ thread' = [thread EXCEPT ![p] = u] /\ session = Snap(p)
    BY <1>4 DEF Record, Save_, Go, Row, Snap, Current
  <2>2. /\ u.act = thread[p].act /\ u.token = thread[p].token /\ u.seen = thread[p].seen
        /\ u.row = Row(p) /\ u.snap = Snap(p) /\ u.msg = thread[p].msg /\ u.stage = "tidy" /\ u \in ThreadStates
    BY <1>2
  <2> HIDE DEF u
  <2>3. /\ Row(p).draft = session.draft /\ Row(p).kind = session.kind /\ Row(p).used = session.used
        /\ Row(p).screen = session.screen /\ Row(p).shown = thread[p].msg
    <3>1. Row(p) = Recorded(session, thread[p].msg)
      BY <1>1, <2>1, Facts DEF Sends, Row, Snap
    <3> QED BY <3>1, Facts DEF Recorded, Sessions
  <2>4. Grow /\ Len(messages') = Len(messages)
    BY <1>1, Still
  <2>5. thread'[p] = u
    BY <2>1, Facts DEF Types
  <2>6. Carries(p)'
    <3>1. u.msg <= Len(messages')
      BY <1>1, <2>2, Facts DEF Carries
    <3> QED BY <2>1, <2>2, <2>4, <3>1, Facts, CarriesOn
  <2>7. ThreadOk(p)'
    BY <2>2, <2>5, <2>6 DEF ThreadOk, Decides, Saves, Sends
  <2>8. DraftInv' /\ ConfirmedAsShown'
    BY <1>1, <2>1, <2>3 DEF Inv, DraftInv, ConfirmedAsShown
  <2>9. lapses = 0 => LiveIn(session', messages') /\ Ready(u, session', messages')
    <3>1. lapses = 0 => messages[thread[p].msg].live
      BY <1>1 DEF Inv, Usable, Ready
    <3> QED BY <1>1, <2>1, <2>2, <2>3, <3>1 DEF Ready, LiveIn
  <2>10. RowIn(NoSession, tokens', drafts', messages') /\ Plain(NoSession)
    BY <2>4, BlankRow DEF Grow
  <2>11. /\ {session'.preview, session'.bound, u.row.preview, u.row.bound, u.token} \subseteq Tokens(p)
         /\ {session'.shown, session'.card, u.row.shown, u.row.card, u.snap.shown, u.snap.card, u.msg}
              \subseteq Numbers(p)
    BY <2>1, <2>2 DEF Tokens, Numbers
  <2>12. /\ session' \in Sessions /\ lapses' = lapses /\ lock' \in {"free", "held", "lapsed", "dead"}
         /\ incidents' \in Seq(Registrations) /\ ended' \in SUBSET Nat
         /\ {session', u.row, u.snap} \subseteq {session, Row(p), Snap(p), NoSession, NoSession}
    BY <1>1, <2>1, <2>2, Facts DEF Types
  <2>13. /\ Writes(p) /\ session'.shown = Row(p).shown /\ Row(p).draft = session.draft
         /\ ~(u.stage \in {"reread", "write", "record"}) /\ Holds(p, u)
         /\ Confirmable(session') => Confirmable(session) /\ session'.screen = session.screen
    BY <1>1, <2>1, <2>2, <2>3 DEF Writes, Holds, Confirmable
  <2> QED BY <1>1, <2>1, <2>2, <2>4, <2>7, <2>8, <2>9, <2>10, <2>11, <2>12, <2>13, Moves
<1> QED BY <1>3, <1>4

\* The messages of a draft that ends are those of no other draft.
LEMMA EndedCard ==
  ASSUME Inv, NEW p \in Threads, NEW s \in Held, s.draft = session.draft,
         NEW t, thread' = [thread EXCEPT ![p] = t],
         t.stage = "retract", t.msg = s.card, Grow, End(session.draft), session' = NoSession
  PROVE  Retired(p)'
<1> SUFFICES ASSUME s.card # 0 PROVE Retired(p)'
  <2>1. thread'[p] = t
    BY Facts DEF Types
  <2> QED BY <2>1 DEF Retired
<1>1. thread'[p] = t /\ \A q \in Threads \ {p} : thread'[q] = thread[q]
  BY Facts DEF Types
<1>2. s.card \in DOMAIN messages' /\ session.draft # 0
  <2>1. s.card \in Nat /\ s.card <= Len(messages) /\ (s.draft = 0 => s.card = 0)
    BY Facts, HeldTypes DEF RowsOk, RowOk, RowIn, Sessions
  <2>2. Len(messages) \in Nat /\ Len(messages) <= Len(messages') /\ messages' \in Seq(Messages)
    BY Facts DEF Grow
  <2>3. s.card <= Len(messages')
    BY <2>1, <2>2
  <2> QED BY <2>1, <2>2, <2>3
<1>3. session.draft \in ended'
  BY <1>2 DEF End
<1>4. session'.shown # s.card
  BY DEF NoSession
<1>5. \A q \in Threads \ {p} : Row(q).shown = s.card => Row(q).draft = session.draft
  <2>1. \A q \in Threads : Agree(s, Row(q))
    BY Facts DEF RowsOk, Held
  <2> QED BY <2>1 DEF Agree
<1> QED BY <1>1, <1>2, <1>3, <1>4, <1>5 DEF Retired, Writes, Row

\* A draft ends, and no later one is it.
LEMMA EndedGrows ==
  ASSUME Inv, End(session.draft), drafts' \in Nat, drafts <= drafts', session'.draft \notin 1..drafts
  PROVE  /\ ended \subseteq ended' /\ ended' \subseteq 1..drafts' /\ ended' \in SUBSET Nat
         /\ session'.draft \notin ended'
<1>1. session.draft \in Nat /\ session.draft <= drafts /\ drafts \in Nat
  <2>1. session \in Sessions /\ drafts \in Nat /\ RowOk(session)
    BY DEF Inv, Types, RowsOk, Held
  <2> QED BY <2>1 DEF Sessions, RowOk, RowIn
<1>2. ended \subseteq ended' /\ ended' \subseteq ended \cup ({session.draft} \ {0})
  BY DEF End
<1>3. ended' \subseteq 1..drafts
  <2>1. ended \subseteq 1..drafts
    BY DEF Inv, DraftInv
  <2>2. {session.draft} \ {0} \subseteq 1..drafts
    BY <1>1
  <2> QED BY <1>2, <2>1, <2>2
<1>4. 1..drafts \subseteq 1..drafts' /\ 1..drafts \subseteq Nat
  BY <1>1
<1> QED BY <1>2, <1>3, <1>4

\* A draft ends without being registered.
LEMMA EndsOnce ==
  ASSUME Inv, End(session.draft), drafts' \in Nat, drafts <= drafts', session'.draft \notin 1..drafts,
         incidents' = incidents
  PROVE  DraftInv' /\ ConfirmedAsShown' /\ ended' \in SUBSET Nat /\ ended \subseteq ended'
<1>1. /\ ended \subseteq ended' /\ ended' \subseteq 1..drafts' /\ ended' \in SUBSET Nat
      /\ session'.draft \notin ended'
  BY EndedGrows
<1>2. DraftInv /\ ConfirmedAsShown
  BY DEF Inv
<1>3. DraftInv'
  BY <1>1, <1>2 DEF DraftInv
<1>4. ConfirmedAsShown'
  BY <1>2 DEF ConfirmedAsShown
<1> QED BY <1>1, <1>3, <1>4

\* A draft is cancelled or reset.
LEMMA ClearKeeps ==
  ASSUME Inv, NEW p \in Threads, Clear(p)
  PROVE  Inv'
<1>1. /\ thread[p].stage = "clear" /\ thread[p].stage \in Locked
      /\ UNCHANGED <<messages, incidents, tokens, drafts, lapses>>
  BY DEF Clear, At, counts, Locked, Working
<1>2. CASE ~Current(p)
  <2>1. thread' = [thread EXCEPT ![p] = Idle] /\ lock' = "free" /\ session' = session /\ ended' = ended
    BY <1>2 DEF Clear, release
  <2>2. Holds(p, Idle)
    BY <1>1 DEF Holds, Idle, Locked, Working, Delivers
  <2> QED BY <1>1, <2>1, <2>2, Releases
<1>3. CASE Current(p)
  <2>1. session' = NoSession /\ End(session.draft) /\ lock' = lock
    BY <1>3 DEF Clear, Save_
  <2>2. session'.draft = 0 /\ ~Delivered(session') /\ ~Confirmable(session')
    BY <2>1, BlankRow
  <2>3. DraftInv' /\ ConfirmedAsShown' /\ ended' \in SUBSET Nat /\ ended \subseteq ended'
    <3>1. drafts' \in Nat /\ drafts <= drafts' /\ session'.draft \notin 1..drafts
      BY <1>1, <2>2, Facts
    <3> QED BY <1>1, <2>1, <3>1, EndsOnce
  <2>4. Grow /\ Len(messages') = Len(messages)
    BY <1>1, <2>3, Still
  <2>5. NoSession.preview = 0 /\ NoSession.bound = 0 /\ NoSession.shown = 0 /\ NoSession.card = 0
    BY DEF NoSession
  <2>6. RowIn(NoSession, tokens', drafts', messages') /\ Plain(NoSession)
    BY <2>4, BlankRow DEF Grow
  <2>7. /\ session' \in Sessions /\ lapses' = lapses /\ lock' \in {"free", "held", "lapsed", "dead"}
        /\ incidents' \in Seq(Registrations) /\ LiveIn(session', messages')
    BY <1>1, <2>1, <2>2, Facts, Blanks DEF Types, LiveIn
  <2>8. CASE thread[p].act = "draft-reset"
    <3> DEFINE o == Screens(session)
               r == [NoSession EXCEPT !.old = o]
               t == [thread[p] EXCEPT !.stage = "decide", !.act = "new", !.row = r]
    <3>1. thread' = [thread EXCEPT ![p] = t]
      BY <1>3, <2>8 DEF Clear
    <3>2. o \in SUBSET Nat
      <4>1. session.shown \in Nat /\ session.card \in Nat /\ session.old \in SUBSET Nat
        BY Facts DEF Sessions
      <4> QED BY <4>1 DEF Screens
    <3> HIDE DEF o
    <3>3. /\ r \in Sessions /\ r.preview = 0 /\ r.bound = 0 /\ r.shown = 0 /\ r.card = 0 /\ r.screen = 0 /\ r.draft = 0
          /\ r.type = "none" /\ r.kind = "none" /\ r.used = FALSE
      BY <3>2, Blanks DEF Sessions, NoSession
    <3> HIDE DEF r
    <3>4. /\ t.act = "new" /\ t.token = thread[p].token /\ t.row = r
          /\ t.snap = Snap(p) /\ t.msg = thread[p].msg /\ t.stage = "decide" /\ t \in ThreadStates
      BY <3>3, Facts DEF ThreadStates, Snap, Locked, Working
    <3> HIDE DEF t
    <3>5. RowIn(r, tokens', drafts', messages') /\ Plain(r)
      BY <1>1, <3>3, Facts DEF RowIn, Plain, Confirmable, Delivered
    <3>6. ThreadOk(p)'
      <4>1. thread'[p] = t
        BY <3>1, Facts DEF Types
      <4>2. Carries(p)'
        BY <1>1, <3>4, <4>1, Facts DEF Carries
      <4> QED BY <3>4, <4>1, <4>2 DEF ThreadOk, Decides, Saves, Sends
    <3>7. /\ {session'.preview, session'.bound, t.row.preview, t.row.bound, t.token} \subseteq Tokens(p)
          /\ {session'.shown, session'.card, t.row.shown, t.row.card, t.snap.shown, t.snap.card, t.msg}
               \subseteq Numbers(p)
          /\ {session', t.row, t.snap} \subseteq {session, Row(p), Snap(p), NoSession, r}
          /\ session'.shown = 0
      BY <2>1, <2>5, <3>3, <3>4 DEF Tokens, Numbers
    <3>8. Holds(p, t) /\ Ready(t, session', messages') /\ ~(t.stage \in {"reread", "write", "record"})
      BY <1>1, <2>1, <3>4 DEF Holds, Ready
    <3> QED BY <2>2, <2>3, <2>4, <2>7, <3>1, <3>4, <3>5, <3>6, <3>7, <3>8, Moves
  <2>9. CASE thread[p].act # "draft-reset"
    <3> DEFINE t == [thread[p] EXCEPT !.stage = "retract", !.msg = session.card]
    <3>1. thread' = [thread EXCEPT ![p] = t]
      BY <1>3, <2>9 DEF Clear
    <3>2. session.card \in Nat /\ session.card <= Len(messages)
      BY Facts DEF RowOk, RowIn, Sessions
    <3>3. /\ t.act = thread[p].act /\ t.token = thread[p].token /\ t.seen = thread[p].seen /\ t.row = Row(p)
          /\ t.snap = Snap(p) /\ t.msg = session.card /\ t.stage = "retract" /\ t \in ThreadStates
      BY <3>2, Facts DEF ThreadStates, Row, Snap, Locked
    <3> HIDE DEF t
    <3>4. ThreadOk(p)'
      <4>1. thread'[p] = t
        BY <3>1, Facts DEF Types
      <4>2. Carries(p)'
        <5>1. t.msg <= Len(messages')
          BY <1>1, <3>2, <3>3
        <5> QED BY <2>4, <3>1, <3>3, <5>1, Facts, CarriesOn
      <4>3. Retired(p)'
        BY <2>1, <2>4, <3>1, <3>3, Facts, EndedCard
      <4> QED BY <3>3, <4>1, <4>2, <4>3 DEF ThreadOk, Decides, Saves, Sends
    <3>5. /\ {session'.preview, session'.bound, t.row.preview, t.row.bound, t.token} \subseteq Tokens(p)
          /\ {session'.shown, session'.card, t.row.shown, t.row.card, t.snap.shown, t.snap.card, t.msg}
               \subseteq Numbers(p)
          /\ {session', t.row, t.snap} \subseteq {session, Row(p), Snap(p), NoSession, NoSession}
          /\ session'.shown = 0
      BY <2>1, <2>5, <3>3 DEF Tokens, Numbers
    <3>6. Holds(p, t) /\ Ready(t, session', messages') /\ ~(t.stage \in {"reread", "write", "record"})
      BY <1>1, <2>1, <3>3 DEF Holds, Ready
    <3> QED BY <2>2, <2>3, <2>4, <2>6, <2>7, <3>1, <3>3, <3>4, <3>5, <3>6, Moves
  <2> QED BY <2>8, <2>9
<1> QED BY <1>2, <1>3

\* A new draft replaces what there was.
LEMMA StartKeeps ==
  ASSUME Inv, NEW p \in Threads, start(p)
  PROVE  Inv'
<1> DEFINE o == Row(p).old
           r == [NoSession EXCEPT !.draft = drafts + 1, !.type = "SELECTION", !.old = o]
           t == [thread[p] EXCEPT !.stage = "bind"]
<1>1. /\ thread[p].stage = "start" /\ thread[p].stage \in Locked
      /\ session' = r /\ thread' = [thread EXCEPT ![p] = t] /\ lock' = lock
      /\ drafts' = drafts + 1 /\ End(session.draft)
      /\ UNCHANGED <<messages, incidents, tokens, lapses>>
  BY DEF start, At, Save_, Go, Row, Locked, Working
<1>2. /\ r \in Sessions /\ r.preview = 0 /\ r.bound = 0 /\ r.shown = 0 /\ r.card = 0 /\ r.screen = 0
      /\ r.draft = drafts + 1 /\ r.type = "SELECTION" /\ r.kind = "none" /\ r.used = FALSE
  <2>1. o \in SUBSET Nat /\ drafts + 1 \in Nat /\ "SELECTION" \in DraftTypes
    <3>1. Row(p) \in Sessions /\ drafts \in Nat
      BY Facts
    <3>2. o \in SUBSET Nat
      BY <3>1 DEF Sessions
    <3>3. drafts + 1 \in Nat /\ "SELECTION" \in DraftTypes
      BY <3>1 DEF DraftTypes
    <3> QED BY <3>2, <3>3
  <2> HIDE DEF o
  <2>2. r \in Sessions
    BY <2>1, Blanks DEF Sessions
  <2> QED BY <2>2 DEF NoSession
<1> HIDE DEF r
<1>3. /\ t.act = thread[p].act /\ t.token = thread[p].token /\ t.seen = thread[p].seen /\ t.row = Row(p)
      /\ t.snap = Snap(p) /\ t.msg = thread[p].msg /\ t.kind = thread[p].kind /\ t.stage = "bind"
  BY Facts DEF ThreadStates, Row, Snap
<1>4. t \in ThreadStates
  BY Facts DEF ThreadStates, Locked, Working
<1> HIDE DEF t
<1>5. drafts' \in Nat /\ drafts <= drafts' /\ session'.draft \notin 1..drafts
  BY <1>1, <1>2, Facts
<1>6. DraftInv' /\ ConfirmedAsShown' /\ ended' \in SUBSET Nat /\ ended \subseteq ended'
  BY <1>1, <1>5, EndsOnce
<1>7. Grow /\ Len(messages') = Len(messages)
  BY <1>1, <1>5, <1>6, Facts DEF Grow
<1>8. Plain(r) /\ RowIn(r, tokens', drafts', messages') /\ ~Delivered(r) /\ ~Confirmable(r)
  <2>1. Plain(r) /\ ~Delivered(r) /\ ~Confirmable(r)
    BY <1>2 DEF Plain, Delivered, Confirmable
  <2>2. r.draft <= drafts' /\ r.draft # 0
    BY <1>1, <1>2, Facts
  <2>3. 0 <= tokens' /\ 0 <= Len(messages')
    BY <1>1, Facts
  <2> QED BY <1>2, <2>1, <2>2, <2>3 DEF RowIn
<1>9. ThreadOk(p)'
  <2>1. thread'[p] = t /\ thread[p].kind \in Kinds
    BY <1>1, Facts DEF Types, Decides
  <2>2. Carries(p)'
    <3>1. t.msg <= Len(messages')
      BY <1>1, <1>3, Facts DEF Carries
    <3> QED BY <1>1, <1>3, <1>7, <3>1, Facts, CarriesOn
  <2> QED BY <1>3, <2>1, <2>2 DEF ThreadOk, Decides, Saves, Sends
<1>10. /\ {session'.preview, session'.bound, t.row.preview, t.row.bound, t.token} \subseteq Tokens(p)
       /\ {session'.shown, session'.card, t.row.shown, t.row.card, t.snap.shown, t.snap.card, t.msg}
            \subseteq Numbers(p)
       /\ {session', t.row, t.snap} \subseteq {session, Row(p), Snap(p), NoSession, r}
       /\ session'.shown = 0
  BY <1>1, <1>2, <1>3 DEF Tokens, Numbers
<1>11. Holds(p, t) /\ Ready(t, session', messages') /\ ~(t.stage \in {"reread", "write", "record"})
  BY <1>1, <1>3 DEF Holds, Ready
<1>12. /\ session' \in Sessions /\ lapses' = lapses /\ lock' \in {"free", "held", "lapsed", "dead"}
       /\ incidents' \in Seq(Registrations) /\ LiveIn(session', messages') /\ ~Confirmable(session')
  BY <1>1, <1>2, <1>8, Facts DEF Types, LiveIn
<1> QED BY <1>1, <1>4, <1>6, <1>7, <1>8, <1>9, <1>10, <1>11, <1>12, Moves

\* What a confirmation registers is what was shown under its button.
LEMMA RegistersShown ==
  ASSUME Inv, NEW p \in Threads, thread[p].stage = "create", Consumable(p)
  PROVE  /\ session.draft # 0 /\ session.draft \in Nat /\ Row(p).draft = session.draft
         /\ Registered(p) \in Registrations /\ Registered(p).draft = session.draft
         /\ Registered(p).body = Registered(p).seen /\ Registered(p).body = Registered(p).last
<1>1. /\ thread[p].act = "draft-confirm" /\ Row(p).type = "CONFIRMATION" /\ Row(p).preview = thread[p].token
      /\ session.type = "CONFIRMATION" /\ session.preview = Row(p).preview
  BY Facts DEF Decides, Consumable, Row
<1>2. Row(p).body = session.body /\ Row(p).draft = session.draft
  <2>1. Agree(session, Row(p))
    BY Facts DEF RowsOk
  <2> QED BY <1>1, <2>1 DEF Agree
<1>3. thread[p].seen = session.body
  <2>1. PICK n \in DOMAIN messages :
          Asks(messages[n]) /\ messages[n].screen = thread[p].token /\ messages[n].body = thread[p].seen
    BY <1>1, Facts DEF Carries
  <2>2. ShownBy(messages[n], session)
    BY Facts DEF RowsOk
  <2> QED BY <1>1, <2>1, <2>2 DEF ShownBy
<1>4. session.draft # 0 /\ session.draft \in Nat /\ session.body \in Bodies
  BY <1>1, Facts DEF RowOk, RowIn, Sessions
<1>5. [Row(p).body EXCEPT !.phone = session.body.phone] = session.body
  <2>1. [session.body EXCEPT !.phone = session.body.phone] = session.body
    BY <1>4 DEF Bodies
  <2> QED BY <1>2, <2>1
<1>6. Registered(p) = [draft |-> session.draft, body |-> session.body, seen |-> session.body, last |-> session.body]
  BY <1>3, <1>5 DEF Registered, Row
<1> QED BY <1>2, <1>4, <1>6 DEF Registrations

\* A draft is registered.
LEMMA CreateKeeps ==
  ASSUME Inv, NEW p \in Threads, create(p)
  PROVE  Inv'
<1>1. /\ thread[p].stage = "create" /\ thread[p].stage \in Locked
      /\ UNCHANGED <<messages, tokens, drafts, lapses>>
  BY DEF create, At, counts, Locked, Working
<1>2. CASE banned \/ ~Consumable(p) \/ Len(incidents) >= Limit
  <2>1. (Say(p, "prompt") \/ Say(p, "offer")) /\ UNCHANGED <<session, incidents, ended>>
    BY <1>2 DEF create
  <2>2. "prompt" \in Kinds /\ "offer" \in Kinds
    BY DEF Kinds
  <2> QED BY <1>1, <2>1, <2>2, SayKeeps
<1>3. ASSUME ~banned, Consumable(p), ~(Len(incidents) >= Limit) PROVE Inv'
  <2> DEFINE i == Registered(p)
             t == [thread[p] EXCEPT !.stage = "retract", !.msg = Row(p).card]
  <2>1. /\ session' = NoSession /\ End(session.draft) /\ incidents' = Append(incidents, i)
        /\ thread' = [thread EXCEPT ![p] = t] /\ lock' = lock
    BY <1>3 DEF create, Save_, Row
  <2>2. /\ session.draft # 0 /\ session.draft \in Nat /\ Row(p).draft = session.draft
        /\ i \in Registrations /\ i.draft = session.draft /\ i.body = i.seen /\ i.body = i.last
    BY <1>1, <1>3, RegistersShown
  <2> HIDE DEF i
  <2>3. session'.draft = 0 /\ ~Delivered(session') /\ ~Confirmable(session')
    BY <2>1, BlankRow
  <2>4. /\ ended \subseteq ended' /\ ended' \subseteq 1..drafts' /\ ended' \in SUBSET Nat
        /\ session'.draft \notin ended' /\ session.draft \in ended'
    <3>1. drafts' \in Nat /\ drafts <= drafts' /\ session'.draft \notin 1..drafts
      BY <1>1, <2>3, Facts
    <3>2. session.draft \in ended'
      BY <2>1, <2>2 DEF End
    <3> QED BY <2>1, <3>1, <3>2, EndedGrows
  <2>5. /\ incidents' \in Seq(Registrations)
        /\ \A k \in DOMAIN incidents' : (k \in DOMAIN incidents /\ incidents'[k] = incidents[k])
                                       \/ (k = Len(incidents) + 1 /\ incidents'[k] = i)
    <3>1. incidents \in Seq(Registrations)
      BY Facts DEF Types
    <3> QED BY <2>1, <2>2, <3>1
  <2>6. ConfirmedAsShown'
    <3>1. \A k \in DOMAIN incidents : incidents[k].body = incidents[k].seen /\ incidents[k].body = incidents[k].last
      BY DEF Inv, ConfirmedAsShown
    <3>2. \A k \in DOMAIN incidents' : incidents'[k].body = incidents'[k].seen /\ incidents'[k].body = incidents'[k].last
      BY <2>2, <2>5, <3>1
    <3> QED BY <3>2 DEF ConfirmedAsShown
  <2>7. DraftInv'
    <3>1. /\ session.draft \notin ended /\ \A k \in DOMAIN incidents : incidents[k].draft \in ended
          /\ \A k, l \in DOMAIN incidents : incidents[k].draft = incidents[l].draft => k = l
      BY DEF Inv, DraftInv
    <3>2. \A k \in DOMAIN incidents' : incidents'[k].draft \in ended'
      BY <2>2, <2>4, <2>5, <3>1
    <3>3. \A k, l \in DOMAIN incidents' : incidents'[k].draft = incidents'[l].draft => k = l
      BY <2>2, <2>5, <3>1
    <3> QED BY <2>4, <3>2, <3>3 DEF DraftInv
  <2>8. Grow /\ Len(messages') = Len(messages)
    BY <1>1, <2>4, Still
  <2>9. NoSession.preview = 0 /\ NoSession.bound = 0 /\ NoSession.shown = 0 /\ NoSession.card = 0
    BY DEF NoSession
  <2>10. RowIn(NoSession, tokens', drafts', messages') /\ Plain(NoSession)
    BY <2>8, BlankRow DEF Grow
  <2>11. Row(p).card \in Nat /\ Row(p).card <= Len(messages)
    BY Facts DEF RowOk, RowIn, Sessions
  <2>12. /\ t.act = thread[p].act /\ t.token = thread[p].token /\ t.seen = thread[p].seen /\ t.row = Row(p)
         /\ t.snap = Snap(p) /\ t.msg = Row(p).card /\ t.stage = "retract" /\ t \in ThreadStates
    BY <2>11, Facts DEF ThreadStates, Row, Snap, Locked
  <2> HIDE DEF t
  <2>13. ThreadOk(p)'
    <3>1. thread'[p] = t
      BY <2>1, Facts DEF Types
    <3>2. Carries(p)'
      <4>1. t.msg <= Len(messages')
        BY <1>1, <2>11, <2>12
      <4> QED BY <2>1, <2>8, <2>12, <4>1, Facts, CarriesOn
    <3>3. Retired(p)'
      BY <2>1, <2>2, <2>8, <2>12, Facts, EndedCard
    <3> QED BY <2>12, <3>1, <3>2, <3>3 DEF ThreadOk, Decides, Saves, Sends
  <2>14. /\ {session'.preview, session'.bound, t.row.preview, t.row.bound, t.token} \subseteq Tokens(p)
         /\ {session'.shown, session'.card, t.row.shown, t.row.card, t.snap.shown, t.snap.card, t.msg}
              \subseteq Numbers(p)
         /\ {session', t.row, t.snap} \subseteq {session, Row(p), Snap(p), NoSession, NoSession}
         /\ session'.shown = 0
    BY <2>1, <2>9, <2>12 DEF Tokens, Numbers
  <2>15. Holds(p, t) /\ Ready(t, session', messages') /\ ~(t.stage \in {"reread", "write", "record"})
    BY <1>1, <2>1, <2>12 DEF Holds, Ready
  <2>16. /\ session' \in Sessions /\ lapses' = lapses /\ lock' \in {"free", "held", "lapsed", "dead"}
         /\ LiveIn(session', messages')
    BY <1>1, <2>1, <2>3, Facts, Blanks DEF Types, LiveIn
  <2> QED BY <2>1, <2>3, <2>4, <2>5, <2>6, <2>7, <2>8, <2>10, <2>12, <2>13, <2>14, <2>15, <2>16, Moves
<1> QED BY <1>2, <1>3

\* The file of a preview is gone: the screen that asks for another is saved.
LEMMA PhotoGoneKeeps ==
  ASSUME Inv, NEW p \in Threads, PhotoGone(p)
  PROVE  Inv'
<1> DEFINE s == [session EXCEPT !.type = "EDIT_VALUE", !.body.photo = "none", !.field = "photo-retry",
                                !.pending = FALSE]
           r == bindDraftKeyboard(s, "retry")
           t == [thread[p] EXCEPT !.stage = "deliver", !.snap = r]
<1>1. /\ thread[p].stage = "gone" /\ thread[p].stage \in Locked
      /\ UNCHANGED <<messages, incidents, ended, drafts, lapses>>
  BY DEF PhotoGone, At, Locked, Delivers
<1>2. CASE ~matches(p)
  <2>1. thread' = [thread EXCEPT ![p] = Idle] /\ lock' = "free" /\ session' = session /\ tokens' = tokens
    BY <1>2 DEF PhotoGone, release
  <2>2. Holds(p, Idle)
    BY <1>1 DEF Holds, Idle, Locked, Working, Delivers
  <2> QED BY <1>1, <2>1, <2>2, Releases
<1>3. CASE matches(p)
  <2>1. session' = r /\ Spend(r) /\ thread' = [thread EXCEPT ![p] = t] /\ lock' = lock /\ session.draft # 0
    BY <1>3 DEF PhotoGone, Save_, matches, isResidentDraft
  <2>2. s \in Sessions /\ SameDraftRow(s, session) /\ s.preview = session.preview /\ s.type # "CONFIRMATION"
    <3>1. [session.body EXCEPT !.photo = "none"] \in Bodies
      BY Facts DEF Sessions, Bodies
    <3>2. s = [session EXCEPT !.type = "EDIT_VALUE", !.body = [session.body EXCEPT !.photo = "none"],
                              !.field = "photo-retry", !.pending = FALSE]
      BY Facts DEF Sessions
    <3> QED BY <3>1, <3>2, Facts DEF Sessions, SameDraftRow, Fields, DraftTypes
  <2> HIDE DEF s
  <2>3. NewRow(r, session) /\ r.kind = "retry"
    BY <2>2, Facts, ScreenNew DEF Kinds
  <2> HIDE DEF r
  <2>4. tokens' \in {tokens, tokens + 1} /\ (tokens + 1 \in {r.screen, r.preview} => tokens' = tokens + 1)
    BY <2>1, Facts DEF Spend
  <2>5. /\ r \in Sessions /\ Like(r, session) /\ r.draft = session.draft
        /\ RowIn(r, tokens', drafts, messages)
        /\ r.preview \in Tokens(p) /\ r.bound \in Tokens(p)
        /\ lapses = 0 => LiveIn(r, messages)
    BY <2>1, <2>3, <2>4, NewRowFits
  <2>6. r.shown = session.shown /\ r.card = session.card /\ ~Confirmable(r)
    BY <2>3, <2>5 DEF Like, SameDraftRow, Confirmable
  <2>7. /\ t.act = thread[p].act /\ t.token = thread[p].token /\ t.seen = thread[p].seen /\ t.row = Row(p)
        /\ t.snap = r /\ t.msg = thread[p].msg /\ t.stage = "deliver"
    BY Facts DEF ThreadStates, Row
  <2>8. t \in ThreadStates
    BY <2>5, Facts DEF ThreadStates, Locked, Delivers
  <2> HIDE DEF t
  <2>9. Grow /\ Len(messages') = Len(messages)
    BY <1>1, <2>4, Facts DEF Grow
  <2>10. ThreadOk(p)'
    <3>1. thread'[p] = t
      BY <2>1, Facts DEF Types
    <3>2. Carries(p)'
      <4>1. t.msg <= Len(messages')
        BY <1>1, <2>7, Facts DEF Carries
      <4> QED BY <2>1, <2>7, <2>9, <4>1, Facts, CarriesOn
    <3> QED BY <2>7, <3>1, <3>2 DEF ThreadOk, Decides, Saves, Sends
  <2>11. DraftInv' /\ ConfirmedAsShown'
    BY <1>1, <2>1, <2>5 DEF Inv, DraftInv, ConfirmedAsShown
  <2>12. /\ {session'.preview, session'.bound, t.row.preview, t.row.bound, t.token} \subseteq Tokens(p)
         /\ {session'.shown, session'.card, t.row.shown, t.row.card, t.snap.shown, t.snap.card, t.msg}
              \subseteq Numbers(p)
         /\ {session', t.row, t.snap} \subseteq {session, Row(p), Snap(p), NoSession, r}
         /\ session'.shown = session.shown /\ ~Confirmable(session')
    BY <2>1, <2>5, <2>6, <2>7 DEF Tokens, Numbers
  <2>13. Holds(p, t) /\ Ready(t, session', messages') /\ ~(t.stage \in {"reread", "write", "record"})
    BY <1>1, <2>1, <2>7 DEF Holds, Ready
  <2>14. /\ session' \in Sessions /\ lapses' = lapses /\ lock' \in {"free", "held", "lapsed", "dead"}
         /\ incidents' \in Seq(Registrations) /\ ended' \in SUBSET Nat
         /\ lapses = 0 => LiveIn(session', messages')
    BY <1>1, <2>1, <2>5, Facts DEF Types
  <2>15. RowIn(r, tokens', drafts', messages') /\ \E x \in Held : Like(r, x)
    BY <1>1, <2>5, Facts
  <2> QED BY <2>1, <2>8, <2>9, <2>10, <2>11, <2>12, <2>13, <2>14, <2>15, Moves
<1> QED BY <1>2, <1>3

-----------------------------------------------------------------------------
(* Time, failures and the environment. *)

\* The dialog and the threads stay as they are.
LEMMA NothingSaid ==
  ASSUME Inv, UNCHANGED <<session, messages, thread, incidents, ended, tokens, drafts>>,
         lock' \in {"free", "held", "lapsed", "dead"}, lapses' \in Nat, lapses' = 0 => lapses = 0
  PROVE  /\ Types' /\ RowsOk' /\ (\A p \in Threads : ThreadOk(p)')
         /\ DraftInv' /\ ConfirmedAsShown' /\ Usable'
<1>1. Types'
  BY DEF Inv, Types
<1>2. Held' = Held
  BY DEF Held, Row, Snap
<1>3. RowsOk'
  BY <1>2 DEF Inv, RowsOk, RowOk
<1>4. DraftInv' /\ ConfirmedAsShown'
  BY DEF Inv, DraftInv, ConfirmedAsShown
<1>5. ASSUME NEW p \in Threads PROVE ThreadOk(p)'
  <2>1. Carries(p) /\ Decides(p) /\ Saves(p) /\ Sends(p)
    BY Facts
  <2>2. Carries(p)' /\ Decides(p)'
    BY <2>1 DEF Carries, Decides
  <2>3. Saves(p)'
    BY <2>1 DEF Saves, Secret, Row
  <2>4. Sends(p)'
    BY <2>1 DEF Sends, Private, Retired, Writes, Row, Snap
  <2> QED BY <2>2, <2>3, <2>4 DEF ThreadOk
<1>6. Usable'
  BY DEF Inv, Usable
<1> QED BY <1>1, <1>3, <1>4, <1>5, <1>6

\* A step that changes nothing the invariant speaks of.
LEMMA SameDialog ==
  ASSUME Inv, UNCHANGED <<session, messages, thread, lock, incidents, ended, tokens, drafts, lapses>>
  PROVE  Inv'
<1>1. lock' \in {"free", "held", "lapsed", "dead"} /\ lapses' \in Nat
  BY DEF Inv, Types
<1>2. Alone'
  BY DEF Inv, Alone
<1> QED BY <1>1, <1>2, NothingSaid DEF Inv

\* A lock runs out: its holder is dead, or counted as one that outlived it.
LEMMA LockRunsOutKeeps ==
  ASSUME Inv, LockRunsOut
  PROVE  Inv'
<1>1. UNCHANGED <<session, messages, thread, incidents, ended, tokens, drafts>> /\ lock' = "lapsed"
  BY DEF LockRunsOut, dialog
<1>2. lapses \in Nat /\ ((lock = "dead" /\ lapses' = lapses) \/ lapses' = lapses + 1)
  BY DEF LockRunsOut, Inv, Types
<1>3. lapses' \in Nat /\ (lapses' = 0 => lapses = 0 /\ lock = "dead")
  BY <1>2
<1>4. Alone'
  <2>1. lapses' = 0 => \A p \in Threads : thread[p].stage \notin Locked
    BY <1>3 DEF Inv, Alone
  <2> QED BY <1>1, <2>1 DEF Alone
<1> QED BY <1>1, <1>3, <1>4, NothingSaid DEF Inv

\* The row of the draft expires.
LEMMA ExpireKeeps ==
  ASSUME Inv, Expire
  PROVE  Inv'
<1>1. /\ session' = NoSession /\ End(session.draft)
      /\ UNCHANGED <<messages, thread, lock, incidents, tokens, drafts, lapses>>
  BY DEF Expire
<1>2. session'.draft = 0 /\ ~Delivered(session') /\ ~Confirmable(session') /\ Plain(NoSession)
  BY <1>1, BlankRow
<1>3. /\ Types /\ RowsOk /\ tokens \in Nat /\ drafts \in Nat /\ messages \in Seq(Messages)
  BY DEF Inv, Types
<1>4. DraftInv' /\ ConfirmedAsShown' /\ ended' \in SUBSET Nat /\ ended \subseteq ended'
  <2>1. drafts' \in Nat /\ drafts <= drafts' /\ session'.draft \notin 1..drafts
    BY <1>1, <1>2, <1>3
  <2> QED BY <1>1, <2>1, EndsOnce
<1>5. Grow /\ Len(messages') = Len(messages)
  BY <1>1, <1>4, Still
<1>6. Types'
  BY <1>1, <1>3, <1>4, Blanks DEF Types
<1>7. RowsOk'
  <2>1. \A x \in Held' : x = NoSession \/ x \in Held
    BY <1>1 DEF Held, Row, Snap
  <2>2. RowIn(NoSession, tokens', drafts', messages')
    BY <1>5, BlankRow DEF Grow
  <2>3. /\ \A x \in Held : Agree(NoSession, x) /\ Agree(x, NoSession)
        /\ \A m : ShownBy(m, NoSession)
    BY <1>2, <1>3, PlainAgrees
  <2> QED BY <1>1, <1>3, <1>5, <2>1, <2>2, <2>3, RowsStep
<1>8. ASSUME NEW p \in Threads PROVE ThreadOk(p)'
  <2>1. Carries(p) /\ Decides(p) /\ Saves(p) /\ Sends(p)
    BY Facts
  <2>2. Carries(p)' /\ Decides(p)'
    BY <1>1, <1>2, <2>1 DEF Carries, Decides
  <2>3. Confirmable(Row(p)) => Row(p).screen # 0
    BY Facts DEF RowOk, RowIn
  <2>4. NoSession.preview = 0 /\ NoSession.bound = 0 /\ NoSession.shown = 0 /\ NoSession.card = 0
    BY DEF NoSession
  <2>5. Saves(p)'
    BY <1>1, <2>1, <2>3, <2>4 DEF Saves, Secret, Row, Confirmable
  <2>6. Private(p) => Private(p)'
    <3>1. Private(p) => thread[p].msg # 0
      BY Facts DEF Private
    <3> QED BY <1>1, <2>4, <3>1 DEF Private, Row, Snap
  <2>7. Retired(p) => Retired(p)'
    BY <1>1, <1>4, <2>4 DEF Retired, Writes, Row
  <2>8. Sends(p)'
    BY <1>1, <2>1, <2>6, <2>7 DEF Sends
  <2> QED BY <2>2, <2>5, <2>8 DEF ThreadOk
<1>9. Alone'
  BY <1>1 DEF Inv, Alone
<1>10. Usable'
  BY <1>1, <1>2 DEF Inv, Usable, LiveIn, Ready
<1> QED BY <1>4, <1>6, <1>7, <1>8, <1>9, <1>10 DEF Inv

\* The process dies: what the threads had in hand is lost.
LEMMA CrashKeeps ==
  ASSUME Inv, Crash
  PROVE  Inv'
<1>1. /\ thread' = [p \in Threads |-> Idle] /\ lock' \in {lock, "dead"}
      /\ UNCHANGED <<session, messages, incidents, ended, tokens, drafts, lapses>>
  BY DEF Crash, dialog
<1>2. /\ Types /\ RowsOk /\ tokens \in Nat /\ drafts \in Nat /\ messages \in Seq(Messages)
  BY DEF Inv, Types
<1>3. DraftInv' /\ ConfirmedAsShown'
  BY <1>1 DEF Inv, DraftInv, ConfirmedAsShown
<1>4. Grow /\ Len(messages') = Len(messages)
  BY <1>1, Still
<1>5. Types'
  BY <1>1, <1>2, Blanks DEF Types
<1>6. /\ Idle.token = 0 /\ Idle.msg = 0 /\ Idle.stage = "idle" /\ Idle.act = "none"
      /\ Idle.row = NoSession /\ Idle.snap = NoSession
  BY DEF Idle
<1>7. \A p \in Threads : thread'[p] = Idle
  BY <1>1
<1> HIDE DEF Idle
<1>8. RowsOk'
  <2>1. \A x \in Held' : x = NoSession \/ x \in Held
    BY <1>1, <1>6, <1>7 DEF Held, Row, Snap
  <2>2. RowIn(NoSession, tokens', drafts', messages') /\ Plain(NoSession)
    BY <1>4, BlankRow DEF Grow
  <2>3. /\ \A x \in Held : Agree(NoSession, x) /\ Agree(x, NoSession)
        /\ \A m : ShownBy(m, NoSession)
    BY <1>2, <2>2, PlainAgrees
  <2> QED BY <1>1, <1>2, <1>4, <2>1, <2>2, <2>3, RowsStep
<1>9. ASSUME NEW p \in Threads PROVE ThreadOk(p)'
  <2>1. 0 <= tokens' /\ 0 <= Len(messages') /\ thread'[p] = Idle
    BY <1>4, <1>7 DEF Grow
  <2>2. Carries(p)'
    BY <1>6, <2>1 DEF Carries
  <2> QED BY <1>6, <2>1, <2>2 DEF ThreadOk, Decides, Saves, Sends
<1>10. Alone'
  BY <1>6, <1>7 DEF Alone, Locked, Working, Delivers
<1>11. Usable'
  <2>1. \A p \in Threads : Ready(thread'[p], session', messages')
    BY <1>6, <1>7 DEF Ready
  <2> QED BY <1>1, <2>1 DEF Inv, Usable
<1> QED BY <1>3, <1>5, <1>8, <1>9, <1>10, <1>11 DEF Inv

-----------------------------------------------------------------------------
(* The beginning, and every step. *)

\* A preview and its message.
Begun(s, n) ==
  /\ s \in Sessions /\ Post_(s) \in Messages
  /\ s.draft = 1 /\ s.type = "CONFIRMATION" /\ s.kind = "preview" /\ s.screen = n /\ s.preview = n
  /\ s.bound = n /\ s.shown = n /\ s.card = n /\ s.used = FALSE /\ s.job = NoJob
  /\ Post_(s).screen = n /\ Post_(s).body = s.body /\ Post_(s).live = TRUE

\* The first preview of a draft is well formed.
LEMMA PreviewTypes ==
  ASSUME NEW n \in Nat, NEW x \in Inputs
  PROVE  Begun(PreviewOf(n, x), n)
<1> DEFINE b == [Blank EXCEPT !.place = "city", !.text = x.text]
           o == 1..(n - 1)
           s == PreviewOf(n, x)
<1>1. b \in Bodies
  BY InputTypes, Blanks DEF Bodies, Places
<1>2. o \in SUBSET Nat /\ MaxTidies \in Nat /\ 1 \in Nat
  BY ResidentAssumption
<1>3. s = [NoSession EXCEPT !.draft = 1, !.type = "CONFIRMATION", !.kind = "preview", !.screen = n, !.preview = n,
             !.bound = n, !.shown = n, !.card = n, !.old = o, !.tidies = MaxTidies, !.body = b]
  BY DEF PreviewOf
<1> HIDE DEF b, o
<1>4. s \in Sessions
  <2>1. "CONFIRMATION" \in DraftTypes /\ "preview" \in Kinds \cup {"preview"}
    BY DEF DraftTypes
  <2> DEFINE u == [NoSession EXCEPT !.draft = 1, !.type = "CONFIRMATION", !.kind = "preview", !.screen = n,
                    !.preview = n]
  <2>2. u \in Sessions
    BY <1>2, <2>1, Blanks DEF Sessions
  <2>3. s = [u EXCEPT !.bound = n, !.shown = n, !.card = n, !.old = o, !.tidies = MaxTidies, !.body = b]
    BY <1>3
  <2> HIDE DEF u
  <2> QED BY <1>1, <1>2, <2>2, <2>3 DEF Sessions
<1>5. /\ s.draft = 1 /\ s.type = "CONFIRMATION" /\ s.kind = "preview" /\ s.screen = n /\ s.preview = n
      /\ s.bound = n /\ s.shown = n /\ s.card = n /\ s.used = FALSE /\ s.job = NoJob
  BY <1>3 DEF NoSession
<1> HIDE DEF s
<1>6. Keyboard(s) \subseteq Buttons /\ s.body \in Bodies
  BY <1>4, Keyboards DEF Sessions
<1>7. Post_(s) \in Messages
  BY <1>5, <1>6 DEF Post_, Messages
<1> QED BY <1>4, <1>5, <1>7 DEF Post_, Begun, s

\* The dialog begins empty, or with a draft on its preview.
LEMMA InitHolds ==
  ASSUME Init
  PROVE  Inv
<1>1. /\ thread = [p \in Threads |-> Idle] /\ lock = "free" /\ incidents = <<>> /\ ended = {} /\ lapses = 0
  BY DEF Init
<1>2. /\ Idle.token = 0 /\ Idle.msg = 0 /\ Idle.stage = "idle" /\ Idle.act = "none"
      /\ Idle.row = NoSession /\ Idle.snap = NoSession /\ Idle \in ThreadStates
  BY Blanks DEF Idle
<1>3. \A p \in Threads : thread[p] = Idle
  BY <1>1
<1> HIDE DEF Idle
<1>4. Held \subseteq {session, NoSession}
  BY <1>2, <1>3 DEF Held, Row, Snap
<1> DEFINE Begins ==
      /\ session \in Sessions /\ messages \in Seq(Messages) /\ tokens \in Nat /\ drafts \in Nat
      /\ RowOk(session) /\ session.draft \in Nat /\ LiveIn(session, messages)
      /\ \A n \in DOMAIN messages : messages[n].screen <= tokens /\ ShownBy(messages[n], session)
<1>5. Begins
  <2>1. CASE session = NoSession /\ messages = <<>> /\ tokens = 0 /\ drafts = 0
    <3>1. messages \in Seq(Messages) /\ DOMAIN messages = {}
      BY <2>1
    <3>2. RowIn(NoSession, tokens, drafts, messages)
      <4>1. tokens \in Nat /\ drafts \in Nat
        BY <2>1
      <4> QED BY <3>1, <4>1, BlankRow
    <3>3. RowOk(session) /\ session \in Sessions
      BY <2>1, <3>2, Blanks DEF RowOk
    <3>4. session.draft = 0 /\ ~Delivered(session)
      BY <2>1, BlankRow
    <3> QED BY <2>1, <3>1, <3>3, <3>4 DEF LiveIn
  <2>2. ASSUME NEW x \in Inputs, NEW y \in Inputs, session = PreviewOf(2, y),
               messages = <<Post_(PreviewOf(1, x)), Post_(PreviewOf(2, y))>>, tokens = 2, drafts = 1
        PROVE  Begins
    <3> DEFINE u == PreviewOf(1, x)
    <3>1. /\ session \in Sessions /\ session.draft = 1 /\ session.type = "CONFIRMATION"
          /\ session.screen = 2 /\ session.preview = 2
          /\ session.bound = 2 /\ session.shown = 2 /\ session.card = 2 /\ session.used = FALSE
          /\ Post_(session) \in Messages /\ Post_(session).screen = 2 /\ Post_(session).body = session.body
          /\ Post_(session).live = TRUE
      <4>1. Begun(PreviewOf(2, y), 2)
        BY PreviewTypes
      <4> QED BY <2>2, <4>1 DEF Begun
    <3>6. Post_(u) \in Messages /\ Post_(u).screen = 1
      <4>1. Begun(PreviewOf(1, x), 1)
        BY PreviewTypes
      <4> QED BY <4>1 DEF Begun
    <3>7. messages = <<Post_(u), Post_(session)>>
      BY <2>2
    <3> HIDE DEF u
    <3>2. /\ messages \in Seq(Messages) /\ Len(messages) = 2 /\ DOMAIN messages = {1, 2}
          /\ messages[1].screen = 1 /\ messages[2].screen = 2 /\ messages[2].body = session.body
          /\ messages[2].live = TRUE
      BY <3>1, <3>6, <3>7
    <3>3. RowOk(session)
      BY <2>2, <3>1, <3>2 DEF RowOk, RowIn, Confirmable
    <3>4. LiveIn(session, messages)
      BY <3>1, <3>2 DEF LiveIn
    <3>5. \A n \in DOMAIN messages : messages[n].screen <= tokens /\ ShownBy(messages[n], session)
      BY <2>2, <3>1, <3>2 DEF ShownBy
    <3> QED BY <2>2, <3>1, <3>2, <3>3, <3>4, <3>5
  <2> QED BY <2>1, <2>2 DEF Init
<1>6. Types
  BY <1>1, <1>2, <1>5 DEF Types
<1>7. RowsOk
  <2>1. RowOk(NoSession)
    BY <1>5, BlankRow DEF RowOk
  <2>2. \A x : Agree(NoSession, x) /\ Agree(x, NoSession)
    BY DEF Agree, NoSession
  <2>3. Agree(session, session) /\ \A m : ShownBy(m, NoSession)
    BY DEF Agree, ShownBy, NoSession
  <2> QED BY <1>4, <1>5, <2>1, <2>2, <2>3 DEF RowsOk
<1>8. ASSUME NEW p \in Threads PROVE ThreadOk(p)
  <2>1. Carries(p)
    BY <1>2, <1>3, <1>5 DEF Carries
  <2> QED BY <1>2, <1>3, <2>1 DEF ThreadOk, Decides, Saves, Sends
<1>9. DraftInv /\ ConfirmedAsShown
  BY <1>1, <1>5 DEF DraftInv, ConfirmedAsShown
<1>10. Alone
  BY <1>2, <1>3 DEF Alone, Locked, Working, Delivers
<1>11. Usable
  BY <1>2, <1>3, <1>5 DEF Usable, Ready
<1> QED BY <1>6, <1>7, <1>8, <1>9, <1>10, <1>11 DEF Inv

\* Every step keeps the invariant.
LEMMA NextKeeps ==
  ASSUME Inv, [Next]_vars
  PROVE  Inv'
<1>1. Handlers \subseteq Threads /\ Sweepers \subseteq Threads
  BY DEF Threads
<1>2. ASSUME NEW p \in Threads, Arrival(p) PROVE Inv'
  BY <1>2, PressKeeps, MenuKeeps, TypeKeeps DEF Arrival
<1>3. ASSUME NEW p \in Threads, Handling(p) PROVE Inv'
  BY <1>3, ConsumeKeeps, DecideKeeps, ReceiveKeeps, RereadKeeps, WriteKeeps, BindKeeps, StartKeeps,
     ClearKeeps, CreateKeeps, RetractKeeps DEF Handling
<1>4. ASSUME NEW p \in Threads, CreateFails(p) PROVE Inv'
  BY <1>4, CreateFailsKeeps
<1>5. ASSUME NEW p \in Threads, Delivery(p) PROVE Inv'
  BY <1>5, ClaimKeeps, CheckKeeps, PostKeeps, SentKeeps, RecordKeeps, FailedKeeps, PhotoGoneKeeps,
     TidyKeeps, RetireKeeps DEF Delivery
<1>6. ASSUME NEW p \in Threads, Sweep(p) \/ Picked(p) \/ Retract(p) PROVE Inv'
  BY <1>6, SweepKeeps, PickedKeeps, RetractKeeps
<1>7. CASE LockRunsOut
  BY <1>7, LockRunsOutKeeps
<1>8. CASE DueAgain \/ Ban
  BY <1>8, SameDialog DEF DueAgain, Ban, dialog
<1>9. CASE Expire
  BY <1>9, ExpireKeeps
<1>10. CASE Crash
  BY <1>10, CrashKeeps
<1>11. CASE UNCHANGED vars
  BY <1>11, SameDialog DEF vars, dialog, counts
<1> QED BY <1>1, <1>2, <1>3, <1>4, <1>5, <1>6, <1>7, <1>8, <1>9, <1>10, <1>11 DEF Next

-----------------------------------------------------------------------------
(* The theorems. *)

\* The dialog is typed and consistent: every row, saved or in hand, is of a
\* draft and a screen that exist, two rows that await the same confirmation
\* have the same contents, and a message says what it asks to confirm.
THEOREM ResidentInvariant == Spec => []Inv
<1>1. Init => Inv
  BY InitHolds
<1>2. Inv /\ [Next]_vars => Inv'
  BY NextKeeps
<1> QED BY <1>1, <1>2, PTL DEF Spec

\* What is registered is what the resident saw under the button he pressed,
\* and what the row held then, whatever was pressed, typed or delivered in
\* between (incident.service.ts:179-186, user.callbacks.ts:167-206).
THEOREM ConfirmedIsShown == Spec => []ConfirmedAsShown
<1>1. Inv => ConfirmedAsShown
  BY DEF Inv
<1> QED BY <1>1, ResidentInvariant, PTL

\* A draft that was registered, cancelled, reset or has expired never comes
\* back, and is registered at most once (draft-screen.ts:63-69,
\* operator-session.service.ts:143-161).
THEOREM DraftsEndOnce == Spec => []DraftEndsOnce
<1>1. Inv => DraftEndsOnce
  BY DEF Inv, DraftInv, DraftEndsOnce
<1> QED BY <1>1, ResidentInvariant, PTL

\* The message a draft calls its current one shows its newest screen once that
\* is delivered, and has its buttons unless a handler outlived its lock
\* (draft-screen-delivery.ts:65-75, 98-115, 149-176).
THEOREM CurrentScreenIsUsable == Spec => []CurrentScreenUsable
<1>1. Inv => CurrentScreenUsable
  BY DEF Inv, RowsOk, Held, RowOk, RowIn, Usable, LiveIn, CurrentScreenUsable
<1> QED BY <1>1, ResidentInvariant, PTL
=============================================================================
