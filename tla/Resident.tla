------------------------------ MODULE Resident ------------------------------
(* A resident fills in a message to the administration.                     *)
(* src/bot/draft-screen.ts, draft-screen-delivery.ts, requester-draft.ts,   *)
(* callbacks/user.callbacks.ts, handlers/requester.handler.ts,              *)
(* sessions/operator-session.service.ts and IncidentService.create.         *)
(*                                                                          *)
(* The draft is one session row, replaced only by compare and swap over its *)
(* whole contents.  Every screen gets a token; a button is a token and an   *)
(* index into the actions stored in the row.  A screen is saved before it   *)
(* is sent, and a sweep delivers the ones that stayed behind.  Handlers and *)
(* the sweep hold an action lock that runs out and is released by its key.  *)
EXTENDS Naturals, Sequences, FiniteSets

CONSTANTS
  Handlers,     \* updates of this resident handled at once
  Sweepers,     \* DraftScreenRecovery
  Inputs,       \* what the resident types: [text, photo]
  Limit,        \* DAILY_INCIDENT_LIMIT
  MaxAttempts,  \* deliveries of one screen (4 in the code)
  MaxTidies,    \* rounds of retiring old screens (4 in the code)
  MaxTokens, MaxDrafts,  \* bounds: no new update is handled after these
  MaxTroubles,  \* bound: crashes, failed sends, leases that run out, a ban, an expiry
  MaxLapses     \* bound: handlers that outlive their lock (120 and 300 seconds)

VARIABLES
  session,      \* the OperatorSession row of the dialog, or NoSession
  messages,     \* what MAX shows in the dialog, in the order of sending
  due,          \* draftScreenDelivery.nextAttemptAt has passed
  thread,       \* handlers and sweepers, between two awaits
  lock,         \* ActionLock "resident-draft:<user>:<chat>": free, held, lapsed, or held by the dead
  incidents,    \* registered incidents, in order
  ended,        \* drafts that were registered, cancelled, reset or expired
  banned, tokens, drafts, troubles, lapses

dialog == <<session, messages, due>>
counts == <<tokens, drafts, troubles, lapses>>
vars == <<dialog, thread, lock, incidents, ended, banned, counts>>

Threads == Handlers \cup Sweepers
Places == {"city", "district", "village"}   \* without localities; with; one of them

ASSUME ResidentAssumption ==
  /\ Inputs # {} /\ Inputs \subseteq [text : STRING, photo : {"none", "photo", "broken"}]
  /\ {Limit, MaxAttempts, MaxTidies, MaxTokens, MaxDrafts, MaxTroubles, MaxLapses} \subseteq Nat
  /\ Handlers \cap Sweepers = {}

-----------------------------------------------------------------------------
(* The session row *)

Blank == [topic |-> "none", place |-> "unset", text |-> "unset", photo |-> "none", phone |-> "none"]
NoJob == [status |-> "none", tries |-> 0]
NoSession ==
  [draft |-> 0, type |-> "none", body |-> Blank, field |-> "none", stage |-> "category",
   screen |-> 0, kind |-> "none", used |-> FALSE,   \* screenToken, screenActions
   preview |-> 0, bound |-> 0,                      \* previewToken, and as bound to the buttons
   pending |-> FALSE, job |-> NoJob,                \* previewDeliveryPending, draftScreenDelivery
   shown |-> 0, card |-> 0, old |-> {}, tidies |-> 0] \* screenMessageId, previewMessageId, screenRetireIds

isResidentDraft(s) == s.draft # 0
requireCompleteIncidentDraft(s) == s.body.place # "unset" /\ s.body.text # "unset"

\* What each screen lets the resident press.
Keyboard(s) ==
  CASE s.kind = "category"     -> {"topic", "no-topic", "gone-topic", "page"}
    [] s.kind = "municipality" -> {"city", "district", "location-page"}
    [] s.kind = "locality"     -> {"village", "skip", "other"}
    [] s.kind = "preview"      -> {"draft-confirm", "draft-edit", "draft-cancel"}
                                  \cup (IF s.body.phone = "none" THEN {"draft-phone-enter"} ELSE {})
    [] s.kind = "edit"         -> {"edit-category", "edit-location", "edit-text", "edit-photo",
                                   "draft-phone-enter", "draft-edit-back"}
                                  \cup (IF s.body.phone = "none" THEN {} ELSE {"draft-phone-remove"})
    [] s.kind = "photos"       -> {"replace", "draft-edit"}
                                  \cup (IF s.body.photo = "none" THEN {} ELSE {"remove"})
    [] s.kind = "retry"        -> {"remove"}
    [] s.kind = "phone"        -> {"draft-phone-back", "draft-cancel"}
    [] s.kind = "offer"        -> {"draft-resume", "draft-reset"}
    [] OTHER                   -> {}
screenActions(s) == IF s.used THEN {} ELSE Keyboard(s)

\* bindDraftKeyboard and prepareScreenDelivery: a new token, a new job.
bindDraftKeyboard(s, kind) ==
  [s EXCEPT !.screen = tokens + 1, !.kind = kind, !.used = FALSE, !.bound = s.preview,
            !.job = [status |-> "pending", tries |-> 0]]

\* showIncidentDraftPreview, without its saving and sending: a broken photo is
\* found before the screen is saved.
Preview(s) ==
  LET clean == [s EXCEPT !.field = "none", !.preview = tokens + 1]
  IN  IF s.body.photo = "broken"
      THEN bindDraftKeyboard([clean EXCEPT !.body.photo = "none", !.field = "photo-retry",
                                           !.pending = FALSE, !.type = "EDIT_VALUE"], "retry")
      ELSE bindDraftKeyboard([clean EXCEPT !.pending = TRUE, !.type = "CONFIRMATION"], "preview")

-----------------------------------------------------------------------------
(* What a handler decides once it has read the row: the row it wants to     *)
(* save, whether it reads the row again first, and the screen that follows. *)

Stop == [then |-> "release", row |-> NoSession, kind |-> "none"]
Screen(kind) == [then |-> "bind", row |-> NoSession, kind |-> kind]
Save(s, kind) == [then |-> "reread", row |-> s, kind |-> kind]        \* saveDraftStep, sendDraftScreen
SaveThis(s, kind) == [then |-> "write", row |-> s, kind |-> kind]     \* against the row just read
Show(s) == [then |-> "reread", row |-> Preview(s), kind |-> "none"]
ShowThis(s) == [then |-> "write", row |-> Preview(s), kind |-> "none"]

Placed(s, place) == [s EXCEPT !.body.place = place]
TextStep(s) ==   \* startIncidentTextSession, or back to the preview
  IF s.field = "location" THEN Show(s) ELSE Save([s EXCEPT !.type = "TEXT"], "prompt")
TopicStep(s, topic) ==
  LET chosen == [s EXCEPT !.body.topic = topic]
  IN  IF s.field = "category" THEN Show(chosen)
      ELSE Save([chosen EXCEPT !.stage = "municipality"], "municipality")

Picker(s, a) ==   \* category, page, municipality, location-page, locality
  CASE a = "topic"         -> TopicStep(s, "topic")
    [] a = "no-topic"      -> TopicStep(s, "none")
    [] a \in {"gone-topic", "page"} -> Screen("category")
    [] a = "location-page" -> Screen("municipality")
    [] a = "city"          -> TextStep(Placed(s, "city"))
    [] a = "district"      -> Save([Placed(s, "district") EXCEPT !.stage = "locality"], "locality")
    [] a = "other"         -> Save([s EXCEPT !.type = "CUSTOM_LOCALITY", !.stage = "locality"], "prompt")
    [] a = "village"       -> TextStep(Placed(s, "village"))
    [] a = "skip"          -> TextStep(Placed(s, "district"))

resumeResidentDraft(s) ==
  IF requireCompleteIncidentDraft(s) THEN ShowThis(s)
  ELSE Screen(IF s.type \in {"TEXT", "CUSTOM_LOCALITY"} THEN "prompt" ELSE s.stage)

assertPreviewToken(s, token) == s.preview # 0 /\ token = s.preview

Editing(s, a, token) ==
  LET selected == s.type = "EDIT_SELECTION"
      retrying == s.type = "EDIT_VALUE" /\ s.field = "photo-retry"
  IN
  CASE a = "draft-phone-enter" ->
         IF assertPreviewToken(s, token) /\ s.type \in {"CONFIRMATION", "EDIT_SELECTION"} /\ ~s.pending
         THEN SaveThis([s EXCEPT !.type = "EDIT_VALUE", !.field = "phone", !.preview = tokens + 1], "phone")
         ELSE Stop
    [] a = "draft-phone-back" ->
         IF assertPreviewToken(s, token) /\ s.type = "EDIT_VALUE" /\ s.field = "phone"
         THEN ShowThis(s) ELSE Stop
    [] a = "draft-phone-remove" ->
         IF assertPreviewToken(s, token) /\ selected
         THEN ShowThis([s EXCEPT !.body.phone = "none"]) ELSE Stop
    [] a = "draft-edit" ->
         IF selected \/ (s.type = "CONFIRMATION" /\ assertPreviewToken(s, token))
         THEN Save([s EXCEPT !.type = "EDIT_SELECTION", !.preview = tokens + 1], "edit")
         ELSE Stop
    [] a = "draft-edit-back" -> IF selected THEN Show(s) ELSE Stop
    [] a = "edit-category" /\ selected ->
         Save([s EXCEPT !.type = "SELECTION", !.field = "category", !.stage = "category"], "category")
    [] a = "edit-location" /\ selected ->
         Save([s EXCEPT !.type = "SELECTION", !.field = "location", !.stage = "municipality"], "municipality")
    [] a = "edit-text" /\ selected ->
         Save([s EXCEPT !.type = "EDIT_VALUE", !.field = "text"], "prompt")
    [] a = "edit-photo" /\ selected -> Screen("photos")
    [] a = "remove" /\ (selected \/ retrying) -> Show([s EXCEPT !.body.photo = "none"])
    [] a = "replace" /\ (selected \/ retrying) ->
         Save([s EXCEPT !.type = "EDIT_VALUE", !.field = "photo"], "prompt")
    [] OTHER -> Stop

\* draft-confirm reads what it will register; create() reads the row again.
Confirming(s, token) ==
  IF s.type = "CONFIRMATION" /\ requireCompleteIncidentDraft(s) /\ assertPreviewToken(s, token) /\ ~s.pending
  THEN [then |-> "create", row |-> s, kind |-> "none"]
  ELSE Stop

Clearing(s, a, token) ==
  IF a = "draft-reset" \/ assertPreviewToken(s, token)
  THEN [then |-> "clear", row |-> s, kind |-> "none"]
  ELSE Stop

\* beginNewIncident and the menu: an unfinished draft is offered first.
Beginning(s) ==
  IF isResidentDraft(s) THEN Screen("offer")
  ELSE IF Len(incidents) >= Limit THEN Stop
  ELSE [then |-> "start", row |-> NoSession, kind |-> "category"]

Answering(s, x) ==   \* dispatchRequesterMessage
  IF s.kind = "offer" /\ ~s.used THEN Stop ELSE
  CASE s.type = "TEXT" -> ShowThis([s EXCEPT !.body.text = x.text, !.body.photo = x.photo])
    [] s.type = "EDIT_VALUE" /\ s.field = "text" /\ x.photo = "none" ->
         ShowThis([s EXCEPT !.body.text = x.text])
    [] s.type = "EDIT_VALUE" /\ s.field \in {"photo", "photo-retry"} /\ x.photo # "none" ->
         ShowThis([s EXCEPT !.body.photo = x.photo])
    [] s.type = "CUSTOM_LOCALITY" /\ x.photo = "none" ->
         IF s.field = "location" THEN ShowThis(Placed(s, "village")) ELSE TextStep(Placed(s, "village"))
    [] s.type = "CONFIRMATION" /\ s.pending -> ShowThis(s)
    [] OTHER -> Stop
Calling(s) ==   \* a number, bound to the step that asked for it
  IF s.type = "EDIT_VALUE" /\ s.field = "phone" THEN {ShowThis([s EXCEPT !.body.phone = "phone"]), Screen("phone")}
  ELSE {Stop}

-----------------------------------------------------------------------------
(* Threads and the lock *)

Idle == [stage |-> "idle", act |-> "none", token |-> 0, seen |-> Blank,
         row |-> NoSession, snap |-> NoSession, kind |-> "none", msg |-> 0]
Acquirable == lock \in {"free", "lapsed"}
acquire == Acquirable /\ lock' = "held"
release(p) == lock' = "free" /\ thread' = [thread EXCEPT ![p] = Idle]  \* by key: whoever holds it
Go(p, stage) == thread' = [thread EXCEPT ![p].stage = stage] /\ UNCHANGED lock
At(p, stage) == thread[p].stage = stage
Trouble == troubles < MaxTroubles /\ troubles' = troubles + 1
Room == tokens < MaxTokens

\* replaceCurrent and clearCurrent: nothing happens unless the row is the one read.
Upserted(p) == TRUE   \* no compare
Current(p) == session = thread[p].snap
Save_(s) == session' = s /\ due' = IF s.screen # session.screen THEN TRUE ELSE due
End(d) == ended' = ended \cup ({d} \ {0})
Spend(s) == tokens' = tokens + (IF tokens + 1 \in {s.screen, s.preview} THEN 1 ELSE 0)

\* A draft on its preview, above an older preview that kept its buttons.
PreviewOf(n, x) ==
  [NoSession EXCEPT !.draft = 1, !.type = "CONFIRMATION", !.kind = "preview", !.screen = n, !.preview = n,
     !.bound = n, !.shown = n, !.card = n, !.old = 1..(n - 1), !.tidies = MaxTidies,
     !.body = [Blank EXCEPT !.place = "city", !.text = x.text]]
Post_(s) == [screen |-> s.screen, buttons |-> Keyboard(s), body |-> s.body, live |-> TRUE]

Init ==
  /\ \/ session = NoSession /\ messages = <<>> /\ tokens = 0 /\ drafts = 0
     \/ \E x, y \in Inputs :
          /\ session = PreviewOf(2, y)
          /\ messages = <<Post_(PreviewOf(1, x)), Post_(PreviewOf(2, y))>>
          /\ tokens = 2 /\ drafts = 1
  /\ due = FALSE
  /\ thread = [p \in Threads |-> Idle]
  /\ lock = "free"
  /\ incidents = <<>> /\ ended = {} /\ banned = FALSE /\ troubles = 0 /\ lapses = 0

-----------------------------------------------------------------------------
(* An update arrives *)

AnyScreen(m) == TRUE
Pressable(m) == m.screen = session.screen
\* consumeDraftButton, up to its compare and swap.  Any message ever sent can
\* be pressed, late or twice; a refused press changes nothing.
Press(p, n, a) ==
  LET m == messages[n] IN
  /\ At(p, "idle") /\ Room
  /\ Pressable(m) /\ a \in m.buttons \cap screenActions(session)
  /\ ~(a = "draft-confirm" /\ session.pending)
  /\ acquire
  /\ thread' = [thread EXCEPT ![p] =
       [Idle EXCEPT !.stage = "consume", !.act = a, !.token = session.bound, !.seen = m.body, !.snap = session]]
  /\ UNCHANGED <<dialog, incidents, ended, banned, counts>>

consumeDraftButton(p) ==
  /\ At(p, "consume")
  /\ IF Current(p) THEN /\ Save_([session EXCEPT !.used = TRUE, !.job = NoJob])
                        /\ Go(p, "decide")
                   ELSE release(p) /\ UNCHANGED <<session, due>>
  /\ UNCHANGED <<messages, incidents, ended, banned, counts>>

\* "new", /start and bot_started, where they do more than answer.
Menu(p) ==
  /\ At(p, "idle") /\ Room /\ ~banned
  /\ isResidentDraft(session) \/ (drafts < MaxDrafts /\ Len(incidents) < Limit)
  /\ acquire
  /\ thread' = [thread EXCEPT ![p] = [Idle EXCEPT !.stage = "decide", !.act = "new"]]
  /\ UNCHANGED <<dialog, incidents, ended, banned, counts>>

\* minimiseInbound binds a text to the screen it was typed on; it is handled later.
Type(p, phone) ==
  /\ At(p, "idle") /\ Room /\ isResidentDraft(session)
  /\ session.kind \in {"prompt", "retry", "phone"} \/ session.pending   \* elsewhere it changes nothing
  /\ thread' = [thread EXCEPT ![p] =
       [Idle EXCEPT !.stage = "typed", !.act = IF phone THEN "phone" ELSE "text", !.snap = session]]
  /\ UNCHANGED <<dialog, lock, incidents, ended, banned, counts>>

\* What a plan leads to.
Follow(p, plan) ==
  /\ Spend(plan.row)
  /\ IF plan.then = "release" THEN release(p)
     ELSE /\ thread' = [thread EXCEPT ![p] = [@ EXCEPT !.stage = plan.then, !.kind = plan.kind, !.snap = session,
                          !.row = IF plan.then = "start" THEN thread[p].row ELSE plan.row]]
          /\ lock' = IF At(p, "typed") THEN "held" ELSE lock

SameBinding(s, b) == s.draft = b.draft /\ s.screen = b.screen
Receive(p) ==
  /\ At(p, "typed")
  /\ IF ~Acquirable
     THEN thread' = [thread EXCEPT ![p] = Idle] /\ UNCHANGED <<lock, tokens>>     \* DRAFT_BUSY
     ELSE IF banned \/ ~isResidentDraft(session) \/ ~SameBinding(session, thread[p].snap)
     THEN release(p) /\ UNCHANGED tokens
     ELSE IF thread[p].act = "phone"
     THEN IF session.preview # thread[p].snap.preview THEN release(p) /\ UNCHANGED tokens
          ELSE \E plan \in Calling(session) : Follow(p, plan)
     ELSE \E x \in Inputs : Follow(p, Answering(session, x))
  /\ UNCHANGED <<dialog, incidents, ended, banned, drafts, troubles, lapses>>

\* dispatchUserCallback reads the row again.
Decision(p) ==
  LET a == thread[p].act
      token == thread[p].token
  IN
  IF banned THEN Stop
  ELSE IF a = "new" THEN Beginning(session)
  ELSE IF ~isResidentDraft(session) THEN Stop ELSE
  CASE a = "draft-resume" -> resumeResidentDraft(session)
    [] a \in {"draft-cancel", "draft-reset"} -> Clearing(session, a, token)
    [] a = "draft-confirm" -> Confirming(session, token)
    [] a \in {"topic", "no-topic", "gone-topic", "page", "location-page", "city", "district",
              "village", "skip", "other"} ->
         IF session.type = "SELECTION" THEN Picker(session, a) ELSE Stop
    [] OTHER -> Editing(session, a, token)
Decide(p) ==
  /\ At(p, "decide")
  /\ Follow(p, Decision(p))
  /\ UNCHANGED <<dialog, incidents, ended, banned, drafts, troubles, lapses>>

-----------------------------------------------------------------------------
(* Its side effects *)

\* saveDraftStep and a preview without a known row: read again, same draft.
Reread(p) ==
  /\ At(p, "reread")
  /\ IF session.draft = thread[p].row.draft
     THEN thread' = [thread EXCEPT ![p].stage = "write", ![p].snap = session] /\ UNCHANGED lock
     ELSE release(p)
  /\ UNCHANGED <<dialog, incidents, ended, banned, counts>>

Write(p) ==
  /\ At(p, "write")
  /\ IF Current(p)
     THEN /\ Save_(thread[p].row)
          /\ thread' = [thread EXCEPT ![p].stage = IF thread[p].kind = "none" THEN "deliver" ELSE "bind",
                                      ![p].snap = thread[p].row, ![p].row = NoSession]
          /\ UNCHANGED lock
     ELSE release(p) /\ UNCHANGED <<session, due>>
  /\ UNCHANGED <<messages, incidents, ended, banned, counts>>

\* sendDraftScreen: binds the screen to whatever draft there is.
sendDraftScreen(p) ==
  /\ At(p, "bind")
  /\ LET bound == bindDraftKeyboard(session, thread[p].kind) IN
     IF isResidentDraft(session)
     THEN /\ thread' = [thread EXCEPT ![p] = [@ EXCEPT !.stage = "write", !.kind = "none",
                                                       !.row = bound, !.snap = session]]
          /\ Spend(bound) /\ UNCHANGED lock
     ELSE release(p) /\ UNCHANGED tokens
  /\ UNCHANGED <<dialog, incidents, ended, banned, drafts, troubles, lapses>>

\* sessions.start is an upsert: it replaces what it finds.
start(p) ==
  /\ At(p, "start")
  /\ Save_([NoSession EXCEPT !.draft = drafts + 1, !.type = "SELECTION", !.old = thread[p].row.old])
  /\ drafts' = drafts + 1
  /\ End(session.draft)
  /\ Go(p, "bind")
  /\ UNCHANGED <<messages, incidents, banned, tokens, troubles, lapses>>

Screens(s) == (s.old \cup {s.shown, s.card}) \ {0}
Clear(p) ==   \* draft-cancel, draft-reset
  /\ At(p, "clear")
  /\ IF ~Current(p) THEN release(p) /\ UNCHANGED <<session, due, ended>>
     ELSE /\ Save_(NoSession) /\ End(session.draft)
          /\ UNCHANGED lock
          /\ thread' = [thread EXCEPT ![p] = IF @.act = "draft-reset"
               THEN [@ EXCEPT !.stage = "decide", !.act = "new", !.row = [NoSession EXCEPT !.old = Screens(session)]]
               ELSE [@ EXCEPT !.stage = "retract", !.msg = session.card]]
  /\ UNCHANGED <<messages, incidents, banned, counts>>

\* IncidentService.create: one transaction consumes the draft and registers it.
Consumable(p) ==
  session.type = "CONFIRMATION" /\ session.preview = thread[p].row.preview /\ ~session.pending
Registered(p) ==
  [draft |-> session.draft, body |-> [thread[p].row.body EXCEPT !.phone = session.body.phone],
   seen |-> thread[p].seen, last |-> session.body]
Say(p, kind) == thread' = [thread EXCEPT ![p].stage = "bind", ![p].kind = kind] /\ UNCHANGED lock
create(p) ==
  /\ At(p, "create")
  /\ IF banned \/ ~Consumable(p)
     THEN Say(p, "prompt") /\ UNCHANGED <<session, due, incidents, ended>>
     ELSE IF Len(incidents) >= Limit
     THEN Say(p, "offer") /\ UNCHANGED <<session, due, incidents, ended>>   \* RateLimitError, rolled back
     ELSE /\ Save_(NoSession) /\ End(session.draft)
          /\ incidents' = Append(incidents, Registered(p))
          /\ thread' = [thread EXCEPT ![p].stage = "retract", ![p].msg = thread[p].row.card]
          /\ UNCHANGED lock
  /\ UNCHANGED <<messages, banned, counts>>
CreateFails(p) ==
  /\ At(p, "create") /\ Trouble /\ Say(p, "prompt")
  /\ UNCHANGED <<dialog, incidents, ended, banned, tokens, drafts, lapses>>

\* retireIncidentDraftPreview, and retire of a screen that came too late: best effort.
Retract(p) ==
  /\ At(p, "retract")
  /\ \/ thread[p].msg # 0 /\ messages' = [messages EXCEPT ![thread[p].msg].live = FALSE]
     \/ UNCHANGED messages
  /\ release(p)
  /\ UNCHANGED <<session, due, incidents, ended, banned, counts>>

-----------------------------------------------------------------------------
(* deliverSavedScreen *)

SameDraft(p) == isResidentDraft(session) /\ session.draft = thread[p].snap.draft /\ session.job # NoJob
matches(p) ==
  LET wanted == thread[p].snap IN
  /\ isResidentDraft(session) /\ session.draft = wanted.draft /\ session.type = wanted.type
  /\ session.screen = wanted.screen /\ session.job # NoJob
  /\ wanted.job.status = "sending" => session.job = wanted.job

Claimed(s) == [s EXCEPT !.job = [status |-> "sending", tries |-> s.job.tries + 1]]
Exhausted(s) == [s EXCEPT !.job.status = "exhausted"]
Claim(p) ==
  /\ At(p, "deliver")
  /\ IF ~matches(p) \/ session.job.status = "exhausted" \/ ~due
     THEN release(p) /\ UNCHANGED <<session, due>>
     ELSE IF session.job.tries >= MaxAttempts
     THEN session' = Exhausted(session) /\ due' = FALSE /\ release(p)
     ELSE /\ session' = Claimed(session) /\ due' = FALSE
          /\ thread' = [thread EXCEPT ![p].stage = "send", ![p].snap = Claimed(session)]
          /\ UNCHANGED lock
  /\ UNCHANGED <<messages, incidents, ended, banned, counts>>

Check(p) ==   \* the last check before the request
  /\ At(p, "send")
  /\ IF matches(p) THEN Go(p, "post") ELSE release(p)
  /\ UNCHANGED <<dialog, incidents, ended, banned, counts>>

Post(p) ==
  LET sent == Append(messages, Post_(thread[p].snap))
      withPhoto == thread[p].snap.kind = "preview" /\ thread[p].snap.body.photo = "photo"
  IN
  /\ At(p, "post")
  /\ UNCHANGED lock
  /\ \/ /\ messages' = sent /\ UNCHANGED troubles
        /\ thread' = [thread EXCEPT ![p].stage = "sent", ![p].msg = Len(sent)]
     \/ /\ Trouble /\ messages' \in {messages, sent}   \* failed, or the answer was lost
        /\ thread' = [thread EXCEPT ![p].stage = "failed"]
     \/ /\ Trouble /\ UNCHANGED messages
        /\ \/ thread' = [thread EXCEPT ![p].stage = "refused"]
           \/ withPhoto /\ thread' = [thread EXCEPT ![p].stage = "gone"]
  /\ UNCHANGED <<session, due, incidents, ended, banned, tokens, drafts, lapses>>

Recorded(s, n) ==
  [s EXCEPT !.job = NoJob, !.shown = n, !.tidies = 0, !.old = Screens(s) \ {n},
            !.card = IF s.kind = "preview" THEN n ELSE 0,
            !.pending = IF s.kind = "preview" THEN FALSE ELSE @]
Sent(p) ==   \* the answer arrived: is the screen still wanted?
  /\ At(p, "sent")
  /\ thread' = [thread EXCEPT ![p] = IF matches(p)
       THEN [@ EXCEPT !.stage = "record", !.snap = session, !.row = Recorded(session, thread[p].msg)]
       ELSE [@ EXCEPT !.stage = "retract"]]
  /\ UNCHANGED <<dialog, lock, incidents, ended, banned, counts>>
Record(p) ==
  /\ At(p, "record")
  /\ IF Current(p) THEN Save_(thread[p].row) /\ Go(p, "tidy")
                   ELSE Go(p, "retract") /\ UNCHANGED <<session, due>>
  /\ UNCHANGED <<messages, incidents, ended, banned, counts>>

Failed(p) ==
  /\ \/ At(p, "failed") \/ At(p, "refused")
  /\ IF matches(p)
     THEN session' = [session EXCEPT !.job.status =
            IF At(p, "refused") \/ session.job.tries >= MaxAttempts THEN "exhausted" ELSE "pending"]
     ELSE UNCHANGED session
  /\ release(p)
  /\ UNCHANGED <<messages, due, incidents, ended, banned, counts>>

PhotoGone(p) ==   \* the replacement screen is saved before anything is sent
  LET replacement == bindDraftKeyboard([session EXCEPT !.type = "EDIT_VALUE", !.body.photo = "none",
                       !.field = "photo-retry", !.pending = FALSE], "retry")
  IN
  /\ At(p, "gone")
  /\ IF matches(p)
     THEN /\ Save_(replacement) /\ Spend(replacement)
          /\ thread' = [thread EXCEPT ![p].stage = "deliver", ![p].snap = replacement]
          /\ UNCHANGED lock
     ELSE release(p) /\ UNCHANGED <<session, due, tokens>>
  /\ UNCHANGED <<messages, incidents, ended, banned, drafts, troubles, lapses>>

\* retirePreviousScreens: takes the buttons off older screens it knows.
Old(s) == s.old \ {s.shown}
Tidy(p) ==
  /\ At(p, "tidy")
  /\ IF isResidentDraft(session) /\ session.draft = thread[p].snap.draft /\ Old(session) # {} /\ session.tidies < MaxTidies
     THEN thread' = [thread EXCEPT ![p].stage = "retire", ![p].snap = session] /\ UNCHANGED lock
     ELSE release(p)
  /\ UNCHANGED <<dialog, incidents, ended, banned, counts>>
Retire(p) ==
  LET tidied(gone) == [session EXCEPT !.old = @ \ gone, !.tidies = @ + 1] IN
  /\ At(p, "retire")
  /\ \E gone \in {Old(thread[p].snap), {}} :
       /\ messages' = [n \in DOMAIN messages |->
            IF n \in gone THEN [messages[n] EXCEPT !.live = FALSE] ELSE messages[n]]
       /\ session' = IF Current(p) THEN tidied(gone) ELSE session
  /\ release(p)
  /\ UNCHANGED <<due, incidents, ended, banned, counts>>

-----------------------------------------------------------------------------
(* DraftScreenRecovery, time and failures *)

Waiting == session.job.status = "pending" /\ due
Recoverable == session.job.status \in {"pending", "sending"} /\ due
Untidy == session.old # {} /\ session.tidies < MaxTidies
Sweep(p) ==   \* the row is read before the lock is taken
  /\ At(p, "idle")
  /\ \/ Recoverable /\ thread' = [thread EXCEPT ![p] = [Idle EXCEPT !.stage = "picked", !.kind = "deliver", !.snap = session]]
     \/ Untidy /\ thread' = [thread EXCEPT ![p] = [Idle EXCEPT !.stage = "picked", !.kind = "tidy", !.snap = session]]
  /\ UNCHANGED <<dialog, lock, incidents, ended, banned, counts>>
Picked(p) ==
  /\ At(p, "picked")
  /\ IF Acquirable
     THEN /\ acquire
          /\ thread' = [thread EXCEPT ![p].stage = thread[p].kind, ![p].kind = "none"]
     ELSE thread' = [thread EXCEPT ![p] = Idle] /\ UNCHANGED lock
  /\ UNCHANGED <<dialog, incidents, ended, banned, counts>>

Delivering == \E p \in Threads : thread[p].stage \in {"send", "post", "sent", "record", "failed", "refused", "gone"}
LockRunsOut ==   \* of a dead holder, or of one that is slow
  /\ \/ lock = "dead" /\ UNCHANGED lapses
     \/ lock = "held" /\ lapses < MaxLapses /\ lapses' = lapses + 1
  /\ lock' = "lapsed"
  /\ UNCHANGED <<dialog, thread, incidents, ended, banned, tokens, drafts, troubles>>
DueAgain ==      \* the back-off or the lease ends
  /\ session.job.status \in {"pending", "sending"} /\ ~due
  /\ IF Delivering THEN Trouble ELSE UNCHANGED troubles
  /\ due' = TRUE
  /\ UNCHANGED <<session, messages, thread, lock, incidents, ended, banned, tokens, drafts, lapses>>

Expire ==        \* 24 hours without an action: any reader, or the purge, deletes the row
  /\ isResidentDraft(session) /\ Trouble
  /\ session' = NoSession /\ End(session.draft)
  /\ UNCHANGED <<messages, due, thread, lock, incidents, banned, tokens, drafts, lapses>>
Ban ==
  /\ ~banned /\ Trouble /\ banned' = TRUE
  /\ UNCHANGED <<dialog, thread, lock, incidents, ended, tokens, drafts, lapses>>
Crash ==         \* the process dies, its locks stay until they run out
  /\ \E p \in Threads : ~At(p, "idle")
  /\ Trouble
  /\ thread' = [p \in Threads |-> Idle]
  /\ lock' = IF lock = "held" THEN "dead" ELSE lock
  /\ UNCHANGED <<dialog, incidents, ended, banned, tokens, drafts, lapses>>

-----------------------------------------------------------------------------
(* The specification *)

Handling(p) ==
  \/ consumeDraftButton(p) \/ Decide(p) \/ Receive(p) \/ Reread(p) \/ Write(p)
  \/ sendDraftScreen(p) \/ start(p) \/ Clear(p) \/ create(p) \/ Retract(p)
Delivery(p) ==
  \/ Claim(p) \/ Check(p) \/ Post(p) \/ Sent(p) \/ Record(p) \/ Failed(p) \/ PhotoGone(p)
  \/ Tidy(p) \/ Retire(p)
Arrival(p) ==
  \/ \E n \in DOMAIN messages : \E a \in messages[n].buttons : Press(p, n, a)
  \/ Menu(p) \/ \E phone \in BOOLEAN : Type(p, phone)

Next ==
  \/ \E p \in Handlers : Arrival(p) \/ Handling(p) \/ CreateFails(p)
  \/ \E p \in Threads : Delivery(p)
  \/ \E p \in Sweepers : Sweep(p) \/ Picked(p) \/ Retract(p)
  \/ LockRunsOut \/ DueAgain \/ Expire \/ Ban \/ Crash

\* Handlers that run go on, the sweep comes back, and time passes.
Fairness ==
  /\ \A p \in Threads : WF_vars(Delivery(p) \/ Handling(p))
  /\ \A p \in Sweepers : WF_vars(Sweep(p) \/ Picked(p))
  /\ WF_vars(LockRunsOut /\ lock = "dead")
  /\ WF_vars(DueAgain /\ ~Delivering)

Spec == Init /\ [][Next]_vars /\ Fairness

-----------------------------------------------------------------------------
(* Properties *)

\* What is registered is what the resident saw under the button he pressed,
\* and no other handler had changed the draft behind that preview, however
\* late the press is handled (incident.service.ts:179-186,
\* user.callbacks.ts:167-206).
ConfirmedAsShown ==
  \A i \in DOMAIN incidents :
    LET r == incidents[i] IN r.body = r.seen /\ r.body = r.last

\* A draft ends once: one that was registered, cancelled, reset or has expired
\* never comes back, and it is registered at most once
\* (draft-screen.ts:63-69, operator-session.service.ts:143-161).
DraftEndsOnce ==
  /\ session.draft \notin ended
  /\ \A i, j \in DOMAIN incidents : incidents[i].draft = incidents[j].draft => i = j

\* A draft whose newest screen is delivered can be continued where the bot
\* says it can: the message the row calls current shows that screen, though
\* deliveries overlap, answers come late and rows are written back; and it has
\* kept its buttons when old screens were retired, unless a handler outlived
\* its lock (draft-screen-delivery.ts:65-75, 98-115, 149-176).
Delivered(s) == s.draft # 0 /\ s.job = NoJob /\ ~s.used /\ s.screen # 0
CurrentScreenUsable ==
  Delivered(session) =>
    /\ session.shown # 0 /\ messages[session.shown].screen = session.screen
    /\ lapses = 0 => messages[session.shown].live

\* A saved screen does not stay behind: it is delivered, replaced or given up
\* after its attempts, although the process died while sending it
\* (draft-screen-delivery.ts:120-238).
ScreenSettles ==
  session.job.status \in {"pending", "sending"} ~> session.job.status \in {"none", "exhausted"}
=============================================================================
