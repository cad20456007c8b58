---------------------------- MODULE CardsProofs ----------------------------
(* Proofs about Cards: the card of the assignment, and that every card      *)
(* settles, for any number of groups and any bounds.                        *)
EXTENDS Cards, SequenceTheorems, TLAPS

Kinds == {"original", "claim", "notice", "review", "review copy", "work copy", "sector", "revision"}
CardSet == Kinds \X Nat
Stages == {"DISTRIBUTION", "ASSIGNED", "IN_PROGRESS", "REVISION_REQUIRED", "WAITING_REVIEW",
           "RESOLVED", "REJECTED"}
RowSet == [chat : Chats, content : Stages \cup {"open", "review"}, round : Nat, version : Nat,
           sent : Nat, state : {"PENDING", "SENT", "STALE", "GIVEN_UP"}]
JobSet == [op : {"publish"}, card : CardSet]
          \cup [op : {"staff-refresh", "sector-refresh"}]
          \cup [op : {"distribution-refresh"}, active : BOOLEAN, cards : SUBSET CardSet]
          \cup [op : {"delivery-card"}, card : {"review", "distribution"}, version : Nat]
Names == CardSet \cup {NoCard}

(* The numbers, the incident and what it names. *)
IncidentTypes ==
  /\ watched \subseteq Chats
  /\ stage \in Stages /\ group \in Groups \cup {None}
  /\ round \in Nat /\ version \in Nat /\ claim \in Nat /\ extras \in Nat /\ revisions \in Nat
  /\ named \in [distribution : Names, sector : Names, review : Names]
  /\ opening = NoCopy \/ opening \in ({"work copy", "review copy"} \X Nat) \X RowSet
  /\ reopening # NoReopening => reopening.revision \in Nat

(* The publications. *)
RowTypes ==
  /\ row = [c \in DOMAIN row |-> row[c]]
  /\ DOMAIN row \subseteq CardSet
  /\ \A c \in DOMAIN row : row[c] \in RowSet

LaneTypes == lane \in [Chats -> Seq(JobSet)]

(* What is said of a running attempt. *)
WorkForm(w) ==
  /\ "pc" \in DOMAIN w
  /\ w.pc = "edit" => "gone" \in DOMAIN w
  /\ w.pc = "checked" => {"old", "card"} \subseteq DOMAIN w
WorkTypes ==
  /\ work = [ch \in Chats |-> work[ch]]
  /\ \A ch \in Chats : WorkForm(work[ch])

CardTypes == IncidentTypes /\ RowTypes /\ LaneTypes /\ WorkTypes

(* The incident is with a group except before it is distributed and after  *)
(* it is rejected; then no card is the group's, but for one named late.     *)
WithGroup ==
  /\ group = None <=> stage \in {"DISTRIBUTION", "REJECTED"}
  /\ group = None => named.sector = NoCard \/ crossed
  /\ group = None => Unlocked

(* The publications of sector cards are those of the assignments, each of  *)
(* its own round; the present assignment has one, in the group's chat.     *)
SectorRows ==
  /\ \A c \in DOMAIN row : KindOf(c) = "sector" => c = Card("sector", row[c].round)
  /\ group # None => /\ Card("sector", round) \in DOMAIN row
                     /\ row[Card("sector", round)].chat = group

(* Every publication that a lane still has to make has its row. *)
PublishedIn(q, C) == \A n \in 1..Len(q) : q[n].op = "publish" => q[n].card \in C
Published(ch) == PublishedIn(lane[ch], DOMAIN row)

(* An attempt runs the job at the head of its lane. *)
HeadOf(w, q) ==
  /\ w.pc \in Publishing => q # << >> /\ q[1] = Publish(w.card)
  /\ w.pc = "edit" /\ ~w.gone => q # << >> /\ q[1].op # "publish"
AtHead(ch) == HeadOf(work[ch], lane[ch])

(* One of the lanes has the publication of the card to make. *)
Waits(a, c) == \E ch \in Chats : \E n \in 1..Len(a[ch]) : a[ch][n] = Publish(c)

LaneInv == \A ch \in Chats : Published(ch) /\ AtHead(ch)

(* What a completion has read of the assignment is so, or a return came. *)
CheckedRight(w) == w.pc = "checked" => KindOf(w.card) = "sector" /\ (w.old \/ CurrentSector(w.card))
AllChecked == \A ch \in Chats : CheckedRight(work[ch])

CardInv == CardTypes /\ WithGroup /\ SectorRows /\ LaneInv /\ AllChecked /\ CardOfAssignment

-----------------------------------------------------------------------------
(* Names and numbers. *)

(* None is no chat; the two shared chats are no groups. *)
LEMMA GroupNames ==
  /\ None \notin Groups /\ Distribution \notin Groups /\ Review \notin Groups
  /\ None \notin Chats /\ Groups \subseteq Chats /\ Distribution \in Chats /\ Review \in Chats
BY CardsAssumption DEF Chats, None, Distribution, Review

(* Card and KindOf take a card apart and put it together. *)
LEMMA CardNames ==
  /\ \A k \in Kinds, n \in Nat : Card(k, n) \in CardSet /\ KindOf(Card(k, n)) = k /\ Card(k, n) # NoCard
  /\ \A c \in CardSet : c = Card(c[1], c[2]) /\ c[1] \in Kinds /\ c[2] \in Nat
  /\ NoCard \notin CardSet
BY DEF Card, KindOf, CardSet, NoCard

(* Every job a transaction queues is a job of the lanes. *)
LEMMA JobTypes ==
  /\ \A c \in CardSet : Publish(c) \in JobSet
  /\ Staff \in JobSet /\ Sector \in JobSet
  /\ \A a \in BOOLEAN : Refresh(a) \in JobSet
  /\ \A k \in {"review", "distribution"}, v \in Nat : DeliveryCard(k, v) \in JobSet
BY DEF Publish, Staff, Sector, Refresh, DeliveryCard, JobSet

(* Only Publish makes a publication, and it names its card. *)
LEMMA JobOps ==
  /\ \A c : Publish(c).op = "publish" /\ Publish(c).card = c
  /\ Staff.op # "publish" /\ Sector.op # "publish"
  /\ \A a : Refresh(a).op # "publish"
  /\ \A k, v : DeliveryCard(k, v).op # "publish"
  /\ \A j \in JobSet : j.op = "publish" => j = Publish(j.card) /\ j.card \in CardSet
BY DEF Publish, Staff, Sector, Refresh, DeliveryCard, JobSet

-----------------------------------------------------------------------------
(* Lanes grow at their end. *)

Lanes == [Chats -> Seq(JobSet)]

(* b is a with jobs added, publications of cards in C only. *)
Grown(a, b, C) ==
  /\ b \in Lanes
  /\ \A ch \in Chats :
       /\ Len(a[ch]) <= Len(b[ch])
       /\ \A n \in 1..Len(a[ch]) : b[ch][n] = a[ch][n]
       /\ \A n \in 1..Len(b[ch]) : n > Len(a[ch]) /\ b[ch][n].op = "publish" => b[ch][n].card \in C

(* Lanes left alone. *)
LEMMA GrownSame ==
  ASSUME NEW a \in Lanes, NEW C
  PROVE  Grown(a, a, C)
<1>1. \A ch \in Chats : Len(a[ch]) \in Nat
  BY DEF Lanes
<1> QED BY <1>1 DEF Grown

(* Adding twice is adding. *)
LEMMA GrownTwice ==
  ASSUME NEW a \in Lanes, NEW b, NEW c, NEW C, Grown(a, b, C), Grown(b, c, C)
  PROVE  Grown(a, c, C)
<1>1. \A ch \in Chats : Len(a[ch]) \in Nat /\ Len(b[ch]) \in Nat /\ Len(c[ch]) \in Nat
  BY DEF Lanes, Grown
<1>2. c \in Lanes
  BY DEF Grown
<1>3. ASSUME NEW ch \in Chats
      PROVE  /\ Len(a[ch]) <= Len(c[ch])
             /\ \A n \in 1..Len(a[ch]) : c[ch][n] = a[ch][n]
             /\ \A n \in 1..Len(c[ch]) : n > Len(a[ch]) /\ c[ch][n].op = "publish" => c[ch][n].card \in C
  <2>1. Len(a[ch]) <= Len(b[ch]) /\ Len(b[ch]) <= Len(c[ch])
    BY DEF Grown
  <2>2. 1..Len(a[ch]) \subseteq 1..Len(b[ch])
    BY <1>1, <2>1
  <2>3. \A n \in 1..Len(a[ch]) : c[ch][n] = a[ch][n]
    BY <2>2 DEF Grown
  <2>4. ASSUME NEW n \in 1..Len(c[ch]), n > Len(a[ch]), c[ch][n].op = "publish" PROVE c[ch][n].card \in C
    <3>1. CASE n > Len(b[ch])
      BY <2>4, <3>1 DEF Grown
    <3>2. CASE n <= Len(b[ch])
      <4>1. n \in 1..Len(b[ch]) /\ c[ch][n] = b[ch][n]
        BY <1>1, <3>2 DEF Grown
      <4> QED BY <2>4, <4>1 DEF Grown
    <3> QED BY <1>1, <3>1, <3>2
  <2> QED BY <1>1, <2>1, <2>3, <2>4
<1> QED BY <1>2, <1>3 DEF Grown

(* Add puts one job at the end of one lane, if the chat is looked at. *)
LEMMA AddGrows ==
  ASSUME NEW ls \in Lanes, NEW chat \in Chats, NEW job \in JobSet, NEW C,
         job.op = "publish" => job.card \in C
  PROVE  /\ Grown(ls, Add(ls, chat, job), C)
         /\ chat \in watched => Add(ls, chat, job)[chat] = Append(ls[chat], job)
<1>1. CASE chat \notin watched
  BY <1>1, GrownSame DEF Add
<1>2. CASE chat \in watched
  <2>1. Add(ls, chat, job) = [ls EXCEPT ![chat] = Append(ls[chat], job)]
    BY <1>2 DEF Add
  <2>2. ls[chat] \in Seq(JobSet) /\ Len(ls[chat]) \in Nat
    BY DEF Lanes
  <2>3. Append(ls[chat], job) \in Seq(JobSet)
    BY <2>2
  <2>4. Add(ls, chat, job) \in Lanes
    BY <2>1, <2>3 DEF Lanes
  <2>5. \A ch \in Chats : Add(ls, chat, job)[ch] = IF ch = chat THEN Append(ls[chat], job) ELSE ls[ch]
    BY <2>1 DEF Lanes
  <2>6. /\ Len(Append(ls[chat], job)) = Len(ls[chat]) + 1
        /\ \A n \in 1..Len(ls[chat]) : Append(ls[chat], job)[n] = ls[chat][n]
        /\ Append(ls[chat], job)[Len(ls[chat]) + 1] = job
    BY <2>2
  <2>7. \A n \in 1..(Len(ls[chat]) + 1) : n > Len(ls[chat]) => n = Len(ls[chat]) + 1
    BY <2>2
  <2>8. \A ch \in Chats : Len(ls[ch]) \in Nat
    BY DEF Lanes
  <2> HIDE DEF Grown
  <2>9. ASSUME NEW ch \in Chats
        PROVE  /\ Len(ls[ch]) <= Len(Add(ls, chat, job)[ch])
               /\ \A n \in 1..Len(ls[ch]) : Add(ls, chat, job)[ch][n] = ls[ch][n]
               /\ \A n \in 1..Len(Add(ls, chat, job)[ch]) :
                    n > Len(ls[ch]) /\ Add(ls, chat, job)[ch][n].op = "publish"
                      => Add(ls, chat, job)[ch][n].card \in C
    <3>1. CASE ch = chat
      <4>1. Add(ls, chat, job)[ch] = Append(ls[chat], job)
        BY <2>5, <3>1
      <4>2. Len(ls[chat]) <= Len(Append(ls[chat], job))
        BY <2>2, <2>6
      <4>3. \A n \in 1..Len(Append(ls[chat], job)) :
              n > Len(ls[chat]) => Append(ls[chat], job)[n] = job
        BY <2>6, <2>7
      <4> QED BY <2>6, <3>1, <4>1, <4>2, <4>3
    <3>2. CASE ch # chat
      BY <2>5, <2>8, <3>2
    <3> QED BY <3>1, <3>2
  <2> QED BY <1>2, <2>4, <2>5, <2>9 DEF Grown
<1> QED BY <1>1, <1>2

(* What the transactions add. *)
LEMMA StaffRefreshGrows ==
  ASSUME NEW ls \in Lanes, NEW C
  PROVE  Grown(ls, StaffRefresh(ls), C)
BY AddGrows, GroupNames, JobTypes, JobOps DEF StaffRefresh

(* A refresh of the distribution cards publishes nothing. *)
LEMMA DistributionRefreshGrows ==
  ASSUME NEW ls \in Lanes, NEW active \in BOOLEAN, NEW C
  PROVE  Grown(ls, DistributionRefresh(ls, active), C)
BY AddGrows, GroupNames, JobTypes, JobOps DEF DistributionRefresh

(* Nor does a refresh of the group card. *)
LEMMA SectorRefreshGrows ==
  ASSUME NEW ls \in Lanes, NEW C, group' \in Groups \cup {None}
  PROVE  Grown(ls, SectorRefresh(ls), C)
<1>1. Grown(ls, StaffRefresh(ls), C) /\ StaffRefresh(ls) \in Lanes
  BY StaffRefreshGrows DEF Grown
<1>2. CASE group' = None \/ named'.sector = NoCard
  BY <1>1, <1>2 DEF SectorRefresh
<1>3. CASE ~(group' = None \/ named'.sector = NoCard)
  <2>1. group' \in Chats /\ SectorRefresh(ls) = Add(StaffRefresh(ls), group', Sector)
    BY <1>3, GroupNames DEF SectorRefresh
  <2>2. Grown(StaffRefresh(ls), SectorRefresh(ls), C)
    BY <1>1, <2>1, AddGrows, JobTypes, JobOps
  <2> QED BY <1>1, <2>2, GrownTwice
<1> QED BY <1>2, <1>3

(* Nor do the jobs of an approved or delivered answer. *)
LEMMA DeliveryStatusGrows ==
  ASSUME NEW ls \in Lanes, NEW C, group' \in Groups \cup {None}, version \in Nat
  PROVE  Grown(ls, DeliveryStatus(ls), C)
<1> DEFINE one == SectorRefresh(ls)
           two == IF named.review = NoCard THEN one ELSE Add(one, Review, DeliveryCard("review", version))
<1>1. Grown(ls, one, C) /\ one \in Lanes
  BY SectorRefreshGrows DEF Grown
<1> HIDE DEF one
<1>2. Grown(one, two, C)
  <2>1. CASE named.review = NoCard
    BY <1>1, <2>1, GrownSame
  <2>2. CASE named.review # NoCard
    BY <1>1, <2>2, AddGrows, GroupNames, JobTypes, JobOps
  <2> QED BY <2>1, <2>2
<1>3. two \in Lanes
  BY <1>2 DEF Grown
<1> HIDE DEF two
<1>4. Grown(two, DeliveryStatus(ls), C)
  <2>1. CASE named.distribution = NoCard \/ ~delivered'
    BY <1>3, <2>1, GrownSame DEF DeliveryStatus, one, two
  <2>2. CASE ~(named.distribution = NoCard \/ ~delivered')
    <3>1. DeliveryStatus(ls) = Add(two, Distribution, DeliveryCard("distribution", version))
      BY <2>2 DEF DeliveryStatus, one, two
    <3> QED BY <1>3, <3>1, AddGrows, GroupNames, JobTypes, JobOps
  <2> QED BY <2>1, <2>2
<1>5. Grown(ls, two, C)
  BY <1>1, <1>2, GrownTwice
<1> QED BY <1>4, <1>5, GrownTwice

-----------------------------------------------------------------------------
(* What a change of the incident leaves as it was. *)

(* An attempt that goes on, whether or not it was overtaken. *)
Follows(ch) ==
  /\ WorkForm(work'[ch])
  /\ work'[ch].pc = work[ch].pc
  /\ work[ch].pc # "edit" => work'[ch] = work[ch]
  /\ work[ch].pc = "edit" => work'[ch].gone = work[ch].gone

WorkFollows == work' = [ch \in Chats |-> work'[ch]] /\ \A ch \in Chats : Follows(ch)

(* A change marks the edits prepared before it and stops no attempt. *)
LEMMA OvertakenFollow ==
  ASSUME WorkTypes, Overtakes
  PROVE  WorkFollows
<1>1. work' = [ch \in Chats |-> work'[ch]] /\ \A ch \in Chats : work'[ch] = Overtaken(work[ch])
  BY DEF Overtakes
<1>2. ASSUME NEW ch \in Chats PROVE Follows(ch)
  <2>1. WorkForm(work[ch])
    BY DEF WorkTypes
  <2>2. CASE work[ch].pc = "edit"
    <3>1. work'[ch] = [work[ch] EXCEPT !.old = TRUE]
      BY <1>1, <2>2 DEF Overtaken
    <3>2. "pc" \in DOMAIN work[ch] /\ "gone" \in DOMAIN work[ch]
      BY <2>1, <2>2 DEF WorkForm
    <3>3. DOMAIN work'[ch] = DOMAIN work[ch] /\ work'[ch].pc = work[ch].pc /\ work'[ch].gone = work[ch].gone
      BY <3>1, <3>2
    <3> QED BY <2>2, <3>2, <3>3 DEF Follows, WorkForm
  <2>3. CASE work[ch].pc # "edit"
    BY <1>1, <2>1, <2>3 DEF Overtaken, Follows
  <2> QED BY <2>2, <2>3
<1> QED BY <1>1, <1>2 DEF WorkFollows

(* Attempts left alone. *)
LEMMA SameFollows ==
  ASSUME WorkTypes, work' = work
  PROVE  WorkFollows
BY DEF WorkTypes, WorkFollows, Follows

(* Lanes grown out of a, which the attempts run, keep what is said of lanes. *)
LEMMA LanesGrow ==
  ASSUME NEW a \in Lanes, Grown(a, lane', DOMAIN row'),
         \A ch \in Chats : PublishedIn(a[ch], DOMAIN row') /\ HeadOf(work'[ch], a[ch])
  PROVE  LaneTypes' /\ LaneInv'
<1>1. LaneTypes'
  BY DEF Grown, LaneTypes, Lanes
<1>2. ASSUME NEW ch \in Chats PROVE Published(ch)' /\ AtHead(ch)'
  <2>1. /\ Len(a[ch]) \in Nat /\ Len(lane'[ch]) \in Nat
        /\ a[ch] \in Seq(JobSet) /\ lane'[ch] \in Seq(JobSet)
    BY <1>1 DEF LaneTypes, Lanes
  <2>2. /\ Len(a[ch]) <= Len(lane'[ch])
        /\ \A n \in 1..Len(a[ch]) : lane'[ch][n] = a[ch][n]
        /\ \A n \in 1..Len(lane'[ch]) :
             n > Len(a[ch]) /\ lane'[ch][n].op = "publish" => lane'[ch][n].card \in DOMAIN row'
    BY DEF Grown
  <2>3. \A n \in 1..Len(lane'[ch]) : n > Len(a[ch]) \/ n \in 1..Len(a[ch])
    BY <2>1
  <2>4. PublishedIn(a[ch], DOMAIN row') /\ HeadOf(work'[ch], a[ch])
    OBVIOUS
  <2>5. Published(ch)'
    BY <2>2, <2>3, <2>4 DEF Published, PublishedIn
  <2>6. a[ch] # << >> => lane'[ch] # << >> /\ lane'[ch][1] = a[ch][1]
    <3> SUFFICES ASSUME a[ch] # << >> PROVE lane'[ch] # << >> /\ lane'[ch][1] = a[ch][1]
      OBVIOUS
    <3>1. Len(a[ch]) > 0
      BY <2>1
    <3>2. Len(lane'[ch]) > 0 /\ 1 \in 1..Len(a[ch])
      BY <2>1, <2>2, <3>1
    <3> QED BY <2>1, <2>2, <3>2
  <2>7. AtHead(ch)'
    BY <2>4, <2>6 DEF AtHead, HeadOf
  <2> QED BY <2>5, <2>7
<1> QED BY <1>1, <1>2 DEF LaneInv

(* A change that only adds to the lanes and rows keeps it too. *)
LEMMA LanesKept ==
  ASSUME CardInv, WorkFollows, Grown(lane, lane', DOMAIN row'), DOMAIN row \subseteq DOMAIN row'
  PROVE  LaneTypes' /\ WorkTypes' /\ LaneInv'
<1>1. WorkTypes'
  BY DEF WorkFollows, Follows, WorkTypes
<1>2. ASSUME NEW ch \in Chats PROVE PublishedIn(lane[ch], DOMAIN row') /\ HeadOf(work'[ch], lane[ch])
  <2>1. PublishedIn(lane[ch], DOMAIN row) /\ HeadOf(work[ch], lane[ch]) /\ Follows(ch)
    BY DEF CardInv, LaneInv, Published, AtHead, WorkFollows
  <2>2. PublishedIn(lane[ch], DOMAIN row')
    BY <2>1 DEF PublishedIn
  <2>3. HeadOf(work'[ch], lane[ch])
    BY <2>1 DEF HeadOf, Follows, Publishing
  <2> QED BY <2>2, <2>3
<1>3. lane \in Lanes
  BY DEF CardInv, CardTypes, LaneTypes, Lanes
<1> QED BY <1>1, <1>2, <1>3, LanesGrow

(* A publication that waits still waits when lanes grow. *)
LEMMA WaitsGrow ==
  ASSUME NEW a \in Lanes, NEW b, NEW C, Grown(a, b, C), NEW c, Waits(a, c)
  PROVE  Waits(b, c)
<1>0. PICK ch \in Chats : \E n \in 1..Len(a[ch]) : a[ch][n] = Publish(c)
  BY DEF Waits
<1>1. PICK n \in 1..Len(a[ch]) : a[ch][n] = Publish(c)
  BY <1>0
<1>2. Len(a[ch]) \in Nat /\ Len(b[ch]) \in Nat
  BY DEF Grown, Lanes
<1>3. Len(a[ch]) <= Len(b[ch]) /\ b[ch][n] = a[ch][n]
  BY DEF Grown
<1>4. n \in 1..Len(b[ch])
  BY <1>2, <1>3
<1> QED BY <1>1, <1>3, <1>4 DEF Waits

(* The card of the assignment is to come, or was given up. *)
Provided(a, rows) == LET c == Card("sector", round) IN Waits(a, c) \/ rows[c].state = "GIVEN_UP"

(* A step that leaves the assignment and its name alone keeps the card, if *)
(* it keeps the card's publication; a is the lanes before it adds to them. *)
LEMMA AssignmentKept ==
  ASSUME CardInv, SectorRows', NEW a \in Lanes, Grown(a, lane', DOMAIN row'),
         watched' = watched, group' = group, round' = round, named'.sector = named.sector, crossed' = crossed,
         group # None /\ named.sector = NoCard /\ Provided(lane, row) => Provided(a, row')
  PROVE  CardOfAssignment'
<1> SUFFICES ASSUME group' \in watched', ~crossed' PROVE CardOfAssignment'
  BY DEF CardOfAssignment
<1>1. group' # None /\ group # None /\ group \in watched /\ ~crossed
  BY GroupNames DEF CardInv, CardTypes, IncidentTypes
<1>2. CASE named.sector = NoCard
  <2>1. Provided(lane, row)
    BY <1>1, <1>2 DEF CardInv, CardOfAssignment, Unfinished, Provided, Waits
  <2>2. Waits(lane', Card("sector", round)) \/ row'[Card("sector", round)].state = "GIVEN_UP"
    BY <1>1, <1>2, <2>1, WaitsGrow DEF Provided
  <2>3. Unfinished(Card("sector", round))' \/ row'[Card("sector", round')].state = "GIVEN_UP"
    BY <2>2 DEF Unfinished, Waits, Card, Publish
  <2> QED BY <1>2, <2>3 DEF CardOfAssignment, Card
<1>3. CASE named.sector # NoCard
  <2>1. named.sector = Card("sector", round)
    BY <1>1, <1>3 DEF CardInv, CardOfAssignment
  <2>2. row'[Card("sector", round')].chat = group'
    BY <1>1 DEF SectorRows
  <2> QED BY <1>3, <2>1, <2>2 DEF CardOfAssignment, Card
<1> QED BY <1>2, <1>3

(* The rows of the sector cards as they were. *)
SectorsStay == \A c \in DOMAIN row : KindOf(c) = "sector" => row'[c].chat = row[c].chat /\ row'[c].round = row[c].round
StatesStay == \A c \in DOMAIN row : KindOf(c) = "sector" => row'[c].state = row[c].state

(* Then what waits for the assignment does so still. *)
LEMMA StillProvided ==
  ASSUME CardInv, group # None, StatesStay, Provided(lane, row)
  PROVE  Provided(lane, row')
<1>1. Card("sector", round) \in DOMAIN row /\ KindOf(Card("sector", round)) = "sector"
  BY DEF CardInv, SectorRows, Card, KindOf
<1> QED BY <1>1 DEF Provided, StatesStay

(* What completions have read stays so within the assignment. *)
LEMMA CheckedKept ==
  ASSUME CardInv, SectorsStay, group' = group, round' = round,
         \A ch \in Chats : work'[ch].pc = "checked" => work'[ch] = work[ch] \/ CheckedRight(work[ch])'
  PROVE  AllChecked'
<1> SUFFICES ASSUME NEW ch \in Chats, work'[ch].pc = "checked", work'[ch] = work[ch]
             PROVE  CheckedRight(work[ch])'
  BY DEF AllChecked, CheckedRight
<1>1. KindOf(work[ch].card) = "sector" /\ (work[ch].old \/ CurrentSector(work[ch].card))
  BY DEF CardInv, AllChecked, CheckedRight
<1>2. lane[ch] # << >> /\ lane[ch][1] = Publish(work[ch].card) /\ lane[ch] \in Seq(JobSet)
  BY DEF CardInv, CardTypes, LaneTypes, LaneInv, AtHead, HeadOf, Publishing
<1>3. 1 \in 1..Len(lane[ch])
  BY <1>2
<1>4. work[ch].card \in DOMAIN row
  BY <1>2, <1>3, JobOps DEF CardInv, LaneInv, Published, PublishedIn
<1>5. CurrentSector(work[ch].card) => row'[work[ch].card].chat = group' /\ row'[work[ch].card].round = round'
  BY <1>1, <1>4 DEF CurrentSector, SectorsStay
<1> QED BY <1>1, <1>5 DEF CheckedRight, CurrentSector, KindOf

(* Publications recorded. *)
LEMMA IssueKeeps ==
  ASSUME RowTypes, NEW c \in CardSet, NEW r \in RowSet, Issue(c, r)
  PROVE  /\ RowTypes' /\ DOMAIN row' = DOMAIN row \cup {c} /\ row'[c] = r
         /\ \A x \in DOMAIN row : x # c => row'[x] = row[x]
BY DEF RowTypes, Issue

(* A publication that is no sector card leaves the sector cards alone. *)
LEMMA OtherIssueKeeps ==
  ASSUME RowTypes, SectorRows, NEW c \in CardSet, NEW r \in RowSet, Issue(c, r),
         KindOf(c) # "sector", group' = group, round' = round
  PROVE  SectorRows' /\ SectorsStay /\ StatesStay
<1>1. /\ DOMAIN row' = DOMAIN row \cup {c}
      /\ \A x \in DOMAIN row : x # c => row'[x] = row[x]
  BY IssueKeeps
<1>2. \A x \in DOMAIN row' : KindOf(x) = "sector" => x = Card("sector", row'[x].round)
  BY <1>1 DEF SectorRows
<1>3. KindOf(Card("sector", round)) = "sector"
  BY DEF Card, KindOf
<1>4. group' # None => Card("sector", round)' \in DOMAIN row' /\ row'[Card("sector", round)'].chat = group'
  BY <1>1, <1>3 DEF SectorRows, Card
<1> QED BY <1>1, <1>2, <1>4 DEF SectorRows, SectorsStay, StatesStay

(* Row makes a row. *)
LEMMA RowMade ==
  ASSUME NEW chat \in Chats, NEW content \in Stages \cup {"open", "review"},
         round' \in Nat, version' \in Nat
  PROVE  Row(chat, content) \in RowSet
BY DEF Row, RowSet

(* A change of the incident within its assignment. *)
LEMMA ChangeKeeps ==
  ASSUME CardInv, IncidentTypes', RowTypes', WithGroup', SectorRows', WorkFollows,
         Grown(lane, lane', DOMAIN row'), DOMAIN row \subseteq DOMAIN row',
         watched' = watched, group' = group, round' = round, named'.sector = named.sector, crossed' = crossed,
         SectorsStay, StatesStay
  PROVE  CardInv'
<1>1. LaneTypes' /\ WorkTypes' /\ LaneInv'
  BY LanesKept
<1>2. CardOfAssignment'
  BY StillProvided, AssignmentKept DEF CardInv, CardTypes, LaneTypes, Lanes
<1>3. AllChecked'
  BY CheckedKept DEF WorkFollows, Follows
<1> QED BY <1>1, <1>2, <1>3 DEF CardInv, CardTypes

(* Queueing a publication of a recorded row. *)
LEMMA PublishGrows ==
  ASSUME NEW ls \in Lanes, NEW chat \in Chats, NEW c \in CardSet, NEW C, c \in C
  PROVE  Grown(ls, Add(ls, chat, Publish(c)), C) /\ Add(ls, chat, Publish(c)) \in Lanes
<1>1. Grown(ls, Add(ls, chat, Publish(c)), C)
  BY AddGrows, JobTypes, JobOps
<1> QED BY <1>1 DEF Grown

-----------------------------------------------------------------------------
(* The changes of the incident. *)

(* The lanes hold jobs. *)
LEMMA LaneTyped ==
  ASSUME CardInv
  PROVE  lane \in Lanes
BY DEF CardInv, CardTypes, LaneTypes, Lanes

(* The counters can be counted up. *)
LEMMA Counters ==
  ASSUME IncidentTypes
  PROVE  round + 1 \in Nat /\ version + 1 \in Nat /\ extras + 1 \in Nat /\ revisions + 1 \in Nat
<1>1. round \in Nat /\ version \in Nat /\ extras \in Nat /\ revisions \in Nat
  BY DEF IncidentTypes
<1> QED BY <1>1

(* A claim, with or without a copy. *)
LEMMA ClaimStep ==
  ASSUME CardInv, NEW show \in BOOLEAN, Claim(show)
  PROVE  CardInv'
<1> DEFINE c == Card("claim", claim')
           ls == IF show THEN Add(lane, Distribution, Publish(c)) ELSE lane
<1>1. /\ IncidentTypes /\ RowTypes /\ SectorRows /\ WorkTypes /\ WithGroup
      /\ UNCHANGED <<watched, stage, group, round, version, revisions, named, opening, reopening, crossed>>
      /\ extras' = extras + 1 /\ claim' = extras'
  BY DEF CardInv, CardTypes, Claim, Extra, asides
<1>0. extras' \in Nat /\ claim' \in Nat
  BY <1>1, Counters
<1>2. IncidentTypes' /\ WithGroup'
  BY <1>0, <1>1 DEF IncidentTypes, WithGroup, Unlocked
<1>3. c \in CardSet /\ KindOf(c) # "sector"
  BY <1>2, CardNames DEF IncidentTypes, Kinds
<1> HIDE DEF c
<1>4. RowTypes' /\ SectorRows' /\ SectorsStay /\ StatesStay /\ DOMAIN row \subseteq DOMAIN row' /\ (show => c \in DOMAIN row')
  <2>1. CASE show
    <3>1. Row(Distribution, "open") \in RowSet
      BY <1>2, GroupNames, RowMade DEF IncidentTypes
    <3>2. Issue(c, Row(Distribution, "open"))
      BY <2>1 DEF Claim, c
    <3> QED BY <1>1, <1>3, <3>1, <3>2, IssueKeeps, OtherIssueKeeps
  <2>2. CASE ~show
    <3>1. row' = row
      BY <2>2 DEF Claim
    <3> QED BY <1>1, <2>2, <3>1 DEF RowTypes, SectorRows, SectorsStay, StatesStay, Card
  <2> QED BY <2>1, <2>2
<1>5. Grown(lane, lane', DOMAIN row')
  <2>1. Grown(lane, ls, DOMAIN row') /\ ls \in Lanes
    BY <1>3, <1>4, LaneTyped, PublishGrows, GrownSame, GroupNames
  <2>2. lane' = DistributionRefresh(ls, TRUE)
    BY DEF Claim, c
  <2> HIDE DEF ls
  <2>3. Grown(ls, lane', DOMAIN row')
    BY <2>1, <2>2, DistributionRefreshGrows
  <2> QED BY <2>1, <2>3, LaneTyped, GrownTwice
<1>6. WorkFollows
  BY <1>1, OvertakenFollow DEF Claim
<1> QED BY <1>1, <1>2, <1>4, <1>5, <1>6, ChangeKeeps

(* A change that publishes nothing. *)
LEMMA RefreshStep ==
  ASSUME CardInv, Grown(lane, lane', DOMAIN row), WorkFollows, IncidentTypes', WithGroup',
         UNCHANGED <<watched, group, round, row, crossed>>, named'.sector = named.sector
  PROVE  CardInv'
<1>1. RowTypes' /\ SectorRows' /\ SectorsStay /\ StatesStay
  BY DEF CardInv, CardTypes, RowTypes, SectorRows, SectorsStay, StatesStay, Card
<1> QED BY <1>1, ChangeKeeps

(* A claim given up or run out. *)
LEMMA UnclaimStep ==
  ASSUME CardInv, Unclaim
  PROVE  CardInv'
<1>1. /\ UNCHANGED <<watched, stage, group, round, version, revisions, named, row, opening, extras, reopening, crossed>>
      /\ claim' = 0 /\ IncidentTypes /\ WithGroup /\ WorkTypes
  BY DEF CardInv, CardTypes, Unclaim, asides
<1>2. IncidentTypes' /\ WithGroup'
  BY <1>1 DEF IncidentTypes, WithGroup, Unlocked
<1>3. Grown(lane, lane', DOMAIN row)
  BY LaneTyped, DistributionRefreshGrows DEF Unclaim
<1>4. WorkFollows
  BY <1>1, OvertakenFollow DEF Unclaim
<1> QED BY <1>1, <1>2, <1>3, <1>4, RefreshStep

(* A change of the stage alone, told to the group and the reviewers. *)
LEMMA StageStep ==
  ASSUME CardInv, Overtakes, stage \in Stages \ {"DISTRIBUTION", "REJECTED"},
         stage' \in Stages \ {"DISTRIBUTION", "REJECTED"}, extras' \in Nat,
         UNCHANGED <<watched, group, round, version, revisions, claim, named, row, opening, reopening, crossed>>,
         lane' = SectorRefresh(lane) \/ lane' = DeliveryStatus(lane)
  PROVE  CardInv'
<1>1. IncidentTypes /\ WithGroup /\ WorkTypes
  BY DEF CardInv, CardTypes
<1>2. IncidentTypes' /\ WithGroup'
  BY <1>1 DEF IncidentTypes, WithGroup, Unlocked
<1>3. Grown(lane, lane', DOMAIN row)
  BY <1>1, <1>2, LaneTyped, SectorRefreshGrows, DeliveryStatusGrows DEF IncidentTypes
<1>4. WorkFollows
  BY <1>1, OvertakenFollow
<1> QED BY <1>2, <1>3, <1>4, RefreshStep

(* Taking in work, putting back, approving, the delivery of the answer. *)
LEMMA StageSteps ==
  ASSUME CardInv, TakeInWork \/ PutBack \/ Approve \/ \E seen \in BOOLEAN : Delivered(seen)
  PROVE  CardInv'
<1>0. extras \in Nat
  BY DEF CardInv, CardTypes, IncidentTypes
<1>1. CASE TakeInWork
  BY <1>0, <1>1, StageStep DEF TakeInWork, Extra, Stages, Working, asides
<1>2. CASE PutBack
  BY <1>0, <1>2, StageStep DEF PutBack, Stages, asides
<1>3. CASE Approve
  BY <1>0, <1>3, StageStep DEF Approve, Stages, asides
<1>4. CASE \E seen \in BOOLEAN : Delivered(seen)
  BY <1>0, <1>4, StageStep DEF Delivered, Stages, asides
<1> QED BY <1>1, <1>2, <1>3, <1>4

(* An answer, a correction, a returned answer: a card of its own, then the *)
(* refreshes.                                                              *)
LEMMA PublicationStep ==
  ASSUME CardInv, Overtakes, NEW c \in CardSet, KindOf(c) # "sector",
         NEW chat \in Chats, NEW content \in Stages \cup {"open", "review"},
         Issue(c, Row(chat, content)), IncidentTypes', WithGroup',
         UNCHANGED <<watched, group, round, crossed>>, named'.sector = named.sector,
         \/ lane' = SectorRefresh(Add(lane, chat, Publish(c)))
         \/ lane' = StaffRefresh(Add(lane, chat, Publish(c)))
  PROVE  CardInv'
<1>1. RowTypes /\ SectorRows /\ WorkTypes
  BY DEF CardInv, CardTypes
<1>2. Row(chat, content) \in RowSet
  BY RowMade DEF IncidentTypes
<1>3. RowTypes' /\ SectorRows' /\ SectorsStay /\ StatesStay /\ DOMAIN row' = DOMAIN row \cup {c}
  BY <1>1, <1>2, IssueKeeps, OtherIssueKeeps
<1> DEFINE ls == Add(lane, chat, Publish(c))
<1>4. Grown(lane, ls, DOMAIN row') /\ ls \in Lanes
  BY <1>3, LaneTyped, PublishGrows
<1>5. lane' = SectorRefresh(ls) \/ lane' = StaffRefresh(ls)
  OBVIOUS
<1> HIDE DEF ls
<1>6. Grown(ls, lane', DOMAIN row')
  BY <1>4, <1>5, SectorRefreshGrows, StaffRefreshGrows DEF IncidentTypes
<1>7. Grown(lane, lane', DOMAIN row')
  BY <1>4, <1>6, LaneTyped, GrownTwice
<1>8. WorkFollows
  BY <1>1, OvertakenFollow
<1> QED BY <1>3, <1>7, <1>8, ChangeKeeps

(* A submitted answer, a correction, an answer returned to the group. *)
LEMMA AnswerSteps ==
  ASSUME CardInv, Submit \/ SaveCorrection
  PROVE  CardInv'
<1>1. IncidentTypes /\ WithGroup
  BY DEF CardInv, CardTypes
<1>2. CASE Submit
  <2>1. /\ stage \in Working /\ stage' = "WAITING_REVIEW" /\ version' = version + 1
        /\ named' = [named EXCEPT !.review = NoCard]
        /\ UNCHANGED <<watched, group, round, revisions, claim, opening, extras, reopening, crossed>>
    BY <1>2 DEF Submit, asides
  <2>7. version' \in Nat /\ stage' \in Stages
    BY <1>1, <2>1, Counters DEF Stages
  <2>8. named' \in [distribution : Names, sector : Names, review : Names]
    BY <1>1, <2>1 DEF IncidentTypes, Names
  <2>2. IncidentTypes'
    BY <1>1, <2>1, <2>7, <2>8 DEF IncidentTypes
  <2>3. named'.sector = named.sector
    BY <1>1, <2>1 DEF IncidentTypes
  <2>4. WithGroup'
    BY <1>1, <2>1, <2>3 DEF WithGroup, Working, Unlocked
  <2>5. Card("review", version') \in CardSet /\ KindOf(Card("review", version')) # "sector"
    BY <2>2, CardNames DEF IncidentTypes, Kinds
  <2>6. /\ Issue(Card("review", version'), Row(Review, "review"))
        /\ lane' = SectorRefresh(Add(lane, Review, Publish(Card("review", version'))))
        /\ Overtakes
    BY <1>2 DEF Submit
  <2> QED BY <2>1, <2>2, <2>3, <2>4, <2>5, <2>6, PublicationStep, GroupNames
<1>3. CASE SaveCorrection
  <2>1. /\ version' = version + 1 /\ extras' = extras + 1
        /\ UNCHANGED <<watched, stage, group, round, revisions, claim, named, opening, reopening, crossed>>
    BY <1>3 DEF SaveCorrection, Extra, asides
  <2>7. version' \in Nat /\ extras' \in Nat
    BY <1>1, <2>1, Counters
  <2>2. IncidentTypes' /\ WithGroup'
    BY <1>1, <2>1, <2>7 DEF IncidentTypes, WithGroup, Unlocked
  <2>5. Card("review", version') \in CardSet /\ KindOf(Card("review", version')) # "sector"
    BY <2>2, CardNames DEF IncidentTypes, Kinds
  <2>6. /\ Issue(Card("review", version'), Row(Review, "review"))
        /\ lane' = StaffRefresh(Add(lane, Review, Publish(Card("review", version'))))
        /\ Overtakes
    BY <1>3 DEF SaveCorrection
  <2> QED BY <2>1, <2>2, <2>5, <2>6, PublicationStep, GroupNames
<1> QED BY <1>2, <1>3

(* An answer returned to the group: its card, if it is the first of its    *)
(* number.                                                                 *)
LEMMA RevisionStep ==
  ASSUME CardInv, NEW n \in Nat, QueueRevision(n), Overtakes, group # None,
         stage' = "REVISION_REQUIRED", revisions' = revisions + 1, reopening' \in {reopening, NoReopening},
         UNCHANGED <<watched, group, round, version, claim, named, opening, crossed, extras>>
  PROVE  CardInv'
<1> DEFINE c == Card("revision", n)
<1>1. IncidentTypes /\ WithGroup /\ WorkTypes
  BY DEF CardInv, CardTypes
<1>2. revisions' \in Nat
  BY <1>1, Counters
<1>3. IncidentTypes'
  BY <1>1, <1>2 DEF IncidentTypes, Stages
<1>4. WithGroup'
  BY DEF WithGroup
<1>5. group \in Chats
  BY <1>1, GroupNames DEF IncidentTypes
<1>6. CASE c \in DOMAIN row
  <2>1. row' = row /\ lane' = SectorRefresh(lane)
    BY <1>6 DEF QueueRevision
  <2>2. Grown(lane, lane', DOMAIN row)
    BY <1>3, <2>1, LaneTyped, SectorRefreshGrows DEF IncidentTypes
  <2> QED BY <1>1, <1>3, <1>4, <2>1, <2>2, OvertakenFollow, RefreshStep
<1>7. CASE c \notin DOMAIN row
  <2>1. c \in CardSet /\ KindOf(c) # "sector"
    BY CardNames DEF Kinds
  <2>2. Issue(c, Row(group, "REVISION_REQUIRED")) /\ lane' = SectorRefresh(Add(lane, group, Publish(c)))
    BY <1>7 DEF QueueRevision
  <2> QED BY <1>3, <1>4, <1>5, <2>1, <2>2, PublicationStep DEF Stages
<1> QED BY <1>6, <1>7

(* A reviewer returns it, or a reopening does. *)
LEMMA RevisionSteps ==
  ASSUME CardInv, RequestRevision \/ Reopen
  PROVE  CardInv'
<1>1. IncidentTypes /\ WithGroup
  BY DEF CardInv, CardTypes
<1>2. CASE RequestRevision
  <2>1. version \in Nat /\ group # None
    BY <1>1, <1>2 DEF RequestRevision, IncidentTypes, WithGroup
  <2> QED BY <1>2, <2>1, RevisionStep DEF RequestRevision, asides
<1>3. CASE Reopen
  <2>1. reopening.revision \in Nat /\ group # None
    BY <1>1, <1>3 DEF Reopen, IncidentTypes, WithGroup, Unlocked
  <2> QED BY <1>3, <2>1, RevisionStep DEF Reopen
<1> QED BY <1>2, <1>3

(* A reopening begun. *)
LEMMA BeginReopenStep ==
  ASSUME CardInv, NEW failed, BeginReopen(failed)
  PROVE  CardInv'
<1>1. IncidentTypes /\ WithGroup /\ WorkTypes
  BY DEF CardInv, CardTypes
<1>2. /\ UNCHANGED <<watched, stage, group, round, version, revisions, claim, named, row, lane, work, opening, crossed>>
      /\ stage \in {"RESOLVED", "WAITING_REVIEW"} /\ reopening'.revision = revisions + 1
      /\ extras' = extras \/ extras' = extras + 1
  BY DEF BeginReopen, incident, jobs, Extra
<1>3. extras' \in Nat /\ reopening'.revision \in Nat
  BY <1>1, <1>2, Counters DEF IncidentTypes
<1>4. IncidentTypes'
  BY <1>1, <1>2, <1>3 DEF IncidentTypes
<1>5. WithGroup'
  BY <1>1, <1>2 DEF WithGroup
<1>6. Grown(lane, lane', DOMAIN row)
  BY <1>2, LaneTyped, GrownSame
<1> QED BY <1>1, <1>2, <1>4, <1>5, <1>6, SameFollows, RefreshStep

(* What was just queued waits in the lane it was put in. *)
LEMMA AddedIsUnfinished ==
  ASSUME NEW ls \in Lanes, NEW chat \in Chats, chat \in watched, NEW c \in CardSet,
         NEW C, Grown(Add(ls, chat, Publish(c)), lane', C)
  PROVE  \E n \in 1..Len(lane'[chat]) : lane'[chat][n] = Publish(c)
<1> DEFINE n == Len(ls[chat]) + 1
           added == Add(ls, chat, Publish(c))
<1>1. added[chat] = Append(ls[chat], Publish(c))
  BY AddGrows, JobTypes, JobOps
<1>2. ls[chat] \in Seq(JobSet) /\ Len(ls[chat]) \in Nat
  BY DEF Lanes
<1>3. Len(Append(ls[chat], Publish(c))) = n /\ Append(ls[chat], Publish(c))[n] = Publish(c)
  BY <1>2, JobTypes
<1>4. n \in Nat /\ n >= 1
  BY <1>2
<1> HIDE DEF n, added
<1>5. lane' \in Lanes /\ Len(added[chat]) <= Len(lane'[chat])
      /\ \A k \in 1..Len(added[chat]) : lane'[chat][k] = added[chat][k]
  BY DEF Grown, added
<1>6. Len(lane'[chat]) \in Nat
  BY <1>5 DEF Lanes
<1>7. n \in 1..Len(added[chat]) /\ n \in 1..Len(lane'[chat])
  BY <1>1, <1>3, <1>4, <1>5, <1>6
<1>8. lane'[chat][n] = Publish(c)
  BY <1>1, <1>3, <1>5, <1>7
<1> QED BY <1>7, <1>8

(* The publication at the head of a lane. *)
LEMMA HeadCard ==
  ASSUME CardInv, NEW ch \in Chats, lane[ch] # << >>, lane[ch][1].op = "publish"
  PROVE  /\ lane[ch][1] = Publish(lane[ch][1].card)
         /\ lane[ch][1].card \in DOMAIN row /\ lane[ch][1].card \in CardSet
<1>1. lane[ch] \in Seq(JobSet) /\ Len(lane[ch]) \in Nat
  BY LaneTyped DEF Lanes
<1>2. 1 \in 1..Len(lane[ch])
  BY <1>1
<1>3. lane[ch][1] \in JobSet
  BY <1>1, <1>2
<1>4. lane[ch][1].card \in DOMAIN row
  BY <1>2 DEF CardInv, LaneInv, Published, PublishedIn
<1> QED BY <1>3, <1>4, JobOps

(* An assignment: the card of the round is issued and queued. *)
LEMMA AssignStep ==
  ASSUME CardInv, NEW g \in Groups, Assign(g)
  PROVE  CardInv'
<1> DEFINE c == Card("sector", round)
           ls == Add(lane, g, Publish(c))
<1>1. /\ IncidentTypes /\ RowTypes /\ SectorRows /\ WorkTypes /\ WithGroup
      /\ stage = "DISTRIBUTION" /\ stage' = "ASSIGNED" /\ group' = g /\ claim' = 0
      /\ UNCHANGED <<watched, round, version, revisions, named, opening, extras, reopening, crossed>>
  BY DEF CardInv, CardTypes, Assign, asides
<1>2. g # None /\ g \in Chats /\ group = None /\ (named.sector = NoCard \/ crossed)
  BY <1>1, GroupNames DEF WithGroup
<1>3. IncidentTypes' /\ WithGroup'
  BY <1>1, <1>2 DEF IncidentTypes, WithGroup, Stages
<1>4. c \in CardSet
  BY <1>1, CardNames DEF IncidentTypes, Kinds
<1>5. Row(g, "ASSIGNED") \in RowSet /\ Row(g, "ASSIGNED").chat = g /\ Row(g, "ASSIGNED").round = round
  <2>1. Row(g, "ASSIGNED") \in RowSet
    BY <1>2, <1>3, RowMade DEF IncidentTypes, Stages
  <2> QED BY <1>1, <2>1 DEF Row
<1>6. Issue(c, Row(g, "ASSIGNED"))
  BY DEF Assign
<1>7. /\ RowTypes' /\ DOMAIN row' = DOMAIN row \cup {c} /\ row'[c] = Row(g, "ASSIGNED")
      /\ \A x \in DOMAIN row : x # c => row'[x] = row[x]
  BY <1>1, <1>4, <1>5, <1>6, IssueKeeps
<1>8. SectorRows'
  <2>1. \A x \in DOMAIN row' : KindOf(x) = "sector" => x = Card("sector", row'[x].round)
    BY <1>1, <1>5, <1>7 DEF SectorRows
  <2>2. Card("sector", round)' = c
    BY <1>1 DEF Card
  <2> QED BY <1>1, <1>5, <1>7, <2>1, <2>2 DEF SectorRows
<1>9. Grown(lane, ls, DOMAIN row') /\ ls \in Lanes
  BY <1>2, <1>4, <1>7, LaneTyped, PublishGrows
<1>10. Grown(ls, lane', DOMAIN row')
  <2>1. lane' = DistributionRefresh(ls, FALSE)
    BY DEF Assign
  <2> HIDE DEF ls
  <2> QED BY <1>9, <2>1, DistributionRefreshGrows
<1>11. Grown(lane, lane', DOMAIN row')
  BY <1>9, <1>10, LaneTyped, GrownTwice
<1>12. WorkFollows
  BY <1>1, OvertakenFollow DEF Assign
<1>15. AllChecked'
  <2> SUFFICES ASSUME NEW ch \in Chats, work'[ch].pc = "checked" PROVE CheckedRight(work[ch])'
    BY DEF AllChecked, CheckedRight
  <2>1. work'[ch] = work[ch] /\ CheckedRight(work[ch])
    BY <1>12 DEF WorkFollows, Follows, CardInv, AllChecked
  <2>2. lane[ch] # << >> /\ lane[ch][1] = Publish(work[ch].card)
    BY <2>1 DEF CardInv, LaneInv, AtHead, HeadOf, Publishing
  <2>3. work[ch].card \in DOMAIN row
    BY <2>2, HeadCard, JobOps
  <2>4. ~CurrentSector(work[ch].card)
    BY <1>1, <1>2, <2>3, GroupNames DEF CurrentSector, RowTypes, RowSet
  <2> QED BY <2>1, <2>4 DEF CheckedRight, CurrentSector, KindOf
<1>13. LaneTypes' /\ WorkTypes' /\ LaneInv'
  BY <1>7, <1>11, <1>12, LanesKept
<1>14. CardOfAssignment'
  <2> SUFFICES ASSUME g \in watched, ~crossed PROVE CardOfAssignment'
    BY <1>1 DEF CardOfAssignment
  <2>1. \E n \in 1..Len(lane'[g]) : lane'[g][n] = Publish(c)
    BY <1>2, <1>4, <1>10, LaneTyped, AddedIsUnfinished
  <2>2. Unfinished(Card("sector", round))'
    BY <1>1, <1>2, <2>1 DEF Unfinished, Card, Publish
  <2> QED BY <1>1, <1>2, <2>2 DEF CardOfAssignment
<1> QED BY <1>3, <1>7, <1>8, <1>13, <1>14, <1>15 DEF CardInv, CardTypes

(* A return marks what completions have read, too, and stops no attempt. *)
LEMMA CrossedFollow ==
  ASSUME WorkTypes, work' = [ch \in Chats |-> Crossed(work[ch])]
  PROVE  /\ WorkTypes'
         /\ \A ch \in Chats :
              /\ work'[ch].pc = work[ch].pc
              /\ work[ch].pc \notin {"edit", "checked"} => work'[ch] = work[ch]
              /\ work[ch].pc = "edit" => work'[ch].gone = work[ch].gone
              /\ work[ch].pc = "checked" => work'[ch].card = work[ch].card /\ work'[ch].old
              /\ \A q : HeadOf(work[ch], q) => HeadOf(work'[ch], q)
<1>1. ASSUME NEW ch \in Chats
      PROVE  /\ WorkForm(work'[ch]) /\ work'[ch].pc = work[ch].pc
             /\ work[ch].pc \notin {"edit", "checked"} => work'[ch] = work[ch]
             /\ work[ch].pc = "edit" => work'[ch].gone = work[ch].gone
             /\ work[ch].pc = "checked" => work'[ch].card = work[ch].card /\ work'[ch].old
  <2>1. WorkForm(work[ch]) /\ work'[ch] = Crossed(work[ch])
    BY DEF WorkTypes
  <2>2. CASE work[ch].pc = "edit"
    <3>1. work'[ch] = [work[ch] EXCEPT !.old = TRUE]
      BY <2>1, <2>2 DEF Crossed, Overtaken
    <3>2. "pc" \in DOMAIN work[ch] /\ "gone" \in DOMAIN work[ch]
      BY <2>1, <2>2 DEF WorkForm
    <3>3. DOMAIN work'[ch] = DOMAIN work[ch] /\ work'[ch].pc = work[ch].pc /\ work'[ch].gone = work[ch].gone
      BY <3>1, <3>2
    <3> QED BY <2>2, <3>2, <3>3 DEF WorkForm
  <2>3. CASE work[ch].pc = "checked"
    <3>1. work'[ch] = [work[ch] EXCEPT !.old = TRUE]
      BY <2>1, <2>3 DEF Crossed
    <3>2. {"pc", "old", "card"} \subseteq DOMAIN work[ch]
      BY <2>1, <2>3 DEF WorkForm
    <3>3. DOMAIN work'[ch] = DOMAIN work[ch] /\ work'[ch].pc = work[ch].pc
      BY <3>1, <3>2
    <3>5. work'[ch].card = work[ch].card
      BY <3>1, <3>2
    <3>4. work'[ch].old = TRUE
      BY <3>1, <3>2
    <3> QED BY <2>3, <3>2, <3>3, <3>4, <3>5 DEF WorkForm
  <2>4. CASE work[ch].pc \notin {"edit", "checked"}
    BY <2>1, <2>4 DEF Crossed, Overtaken
  <2> QED BY <2>2, <2>3, <2>4
<1>2. ASSUME NEW ch \in Chats, NEW q, HeadOf(work[ch], q) PROVE HeadOf(work'[ch], q)
  BY <1>1, <1>2 DEF HeadOf, Publishing
<1>3. work' = [ch \in Chats |-> work'[ch]]
  OBVIOUS
<1>4. WorkTypes'
  BY <1>1, <1>3 DEF WorkTypes
<1> QED BY <1>1, <1>2, <1>4

(* A return to distribution: the group and its card are given up. *)
LEMMA ReturnStep ==
  ASSUME CardInv, ReturnToDistribution
  PROVE  CardInv'
<1> DEFINE c == Card("notice", round')
           one == DistributionRefresh(lane, TRUE)
           two == StaffRefresh(one)
<1>1. /\ IncidentTypes /\ RowTypes /\ SectorRows /\ WorkTypes /\ WithGroup
      /\ stage' = "DISTRIBUTION" /\ group' = None /\ round' = round + 1 /\ claim' = 0
      /\ named' = [named EXCEPT !.sector = NoCard, !.review = NoCard]
      /\ UNCHANGED <<watched, version, revisions, opening, extras, reopening>> /\ Unlocked
  BY DEF CardInv, CardTypes, ReturnToDistribution
<1>2. named' \in [distribution : Names, sector : Names, review : Names] /\ named'.sector = NoCard
  BY <1>1 DEF IncidentTypes, Names
<1>3. round' \in Nat
  BY <1>1, Counters
<1>4. IncidentTypes' /\ WithGroup'
  BY <1>1, <1>2, <1>3 DEF IncidentTypes, WithGroup, Stages, Unlocked
<1>5. c \in CardSet /\ KindOf(c) # "sector"
  BY <1>3, CardNames DEF Kinds
<1>6. Row(Distribution, "open") \in RowSet
  BY <1>4, GroupNames, RowMade DEF IncidentTypes
<1>7. Issue(c, Row(Distribution, "open")) /\ lane' = Add(two, Distribution, Publish(c))
  BY DEF ReturnToDistribution
<1> HIDE DEF c
<1>8. /\ RowTypes' /\ DOMAIN row' = DOMAIN row \cup {c}
      /\ \A x \in DOMAIN row : x # c => row'[x] = row[x]
  BY <1>1, <1>5, <1>6, <1>7, IssueKeeps
<1>9. SectorRows'
  BY <1>1, <1>5, <1>8 DEF SectorRows
<1>10. Grown(lane, one, DOMAIN row') /\ one \in Lanes
  BY LaneTyped, DistributionRefreshGrows DEF Grown
<1> HIDE DEF one
<1>11. Grown(one, two, DOMAIN row') /\ two \in Lanes
  BY <1>10, StaffRefreshGrows DEF Grown
<1> HIDE DEF two
<1>12. Grown(two, lane', DOMAIN row')
  BY <1>5, <1>7, <1>8, <1>11, PublishGrows, GroupNames
<1>13. Grown(lane, two, DOMAIN row')
  BY <1>10, <1>11, LaneTyped, GrownTwice
<1>14. Grown(lane, lane', DOMAIN row')
  BY <1>12, <1>13, LaneTyped, GrownTwice
<1>15. WorkTypes'
  BY <1>1, CrossedFollow DEF ReturnToDistribution
<1>16. LaneTypes' /\ LaneInv'
  <2>1. \A ch \in Chats : PublishedIn(lane[ch], DOMAIN row') /\ HeadOf(work'[ch], lane[ch])
    BY <1>1, <1>8, CrossedFollow DEF ReturnToDistribution, CardInv, LaneInv, Published, PublishedIn, AtHead
  <2> QED BY <1>14, <2>1, LaneTyped, LanesGrow
<1>17. CardOfAssignment'
  BY <1>1, <1>4, GroupNames DEF CardOfAssignment, IncidentTypes
<1>18. AllChecked'
  <2> SUFFICES ASSUME NEW ch \in Chats, work'[ch].pc = "checked" PROVE CheckedRight(work[ch])'
    BY DEF AllChecked, CheckedRight
  <2>1. CheckedRight(work[ch]) /\ work[ch].pc = "checked" /\ work'[ch].card = work[ch].card /\ work'[ch].old
    BY <1>1, CrossedFollow DEF ReturnToDistribution, CardInv, AllChecked
  <2> QED BY <2>1 DEF CheckedRight, KindOf
<1> QED BY <1>4, <1>8, <1>9, <1>15, <1>16, <1>17, <1>18 DEF CardInv, CardTypes

(* A rejection: rows and lanes are emptied, attempts detached. *)
LEMMA RejectStep ==
  ASSUME CardInv, Reject
  PROVE  CardInv'
<1>1. /\ IncidentTypes /\ RowTypes /\ WorkTypes /\ WithGroup
      /\ stage = "DISTRIBUTION" /\ stage' = "REJECTED" /\ claim' = 0
      /\ UNCHANGED <<watched, group, round, version, revisions, named, opening, extras, reopening, crossed>>
      /\ row' = << >>
      /\ lane' = [ch \in Chats |-> IF ch \in watched \cap {Distribution} THEN <<Closing>> ELSE << >>]
      /\ work' = [ch \in Chats |-> Detached(work[ch])]
  BY DEF CardInv, CardTypes, Reject
<1>2. IncidentTypes' /\ WithGroup' /\ group' = None
  BY <1>1 DEF IncidentTypes, WithGroup, Stages, Unlocked
<1>3. DOMAIN row' = {} /\ row' = [c \in DOMAIN row' |-> row'[c]]
  BY <1>1
<1>4. RowTypes' /\ SectorRows'
  BY <1>2, <1>3 DEF RowTypes, SectorRows
<1>5. Closing \in JobSet /\ Closing.op # "publish"
  <2>1. {c \in DOMAIN row : KindOf(c) \in DistributionKinds /\ Known(c)} \in SUBSET CardSet
    BY <1>1 DEF RowTypes
  <2> QED BY <2>1 DEF Closing, Refresh, JobSet
<1>6. \A ch \in Chats : lane'[ch] \in Seq(JobSet) /\ (lane'[ch] = <<Closing>> \/ lane'[ch] = << >>)
  BY <1>1, <1>5
<1>7. LaneTypes'
  BY <1>1, <1>6 DEF LaneTypes
<1>8. ASSUME NEW ch \in Chats
      PROVE  /\ WorkForm(work'[ch]) /\ work'[ch].pc \notin Publishing
             /\ work'[ch].pc = "edit" => work'[ch].gone
  <2>1. WorkForm(work[ch]) /\ work'[ch] = Detached(work[ch])
    BY <1>1 DEF WorkTypes
  <2>2. CASE work[ch].pc = "edit"
    <3>1. "pc" \in DOMAIN work[ch] /\ "gone" \in DOMAIN work[ch]
      BY <2>1, <2>2 DEF WorkForm
    <3>2. work'[ch] = [work[ch] EXCEPT !.old = TRUE, !.gone = TRUE]
      BY <2>1, <2>2 DEF Detached
    <3>3. DOMAIN work'[ch] = DOMAIN work[ch] /\ work'[ch].pc = work[ch].pc /\ work'[ch].gone = TRUE
      BY <3>1, <3>2
    <3> QED BY <2>2, <3>1, <3>3 DEF WorkForm, Publishing
  <2>3. CASE work[ch].pc # "edit"
    <3>1. \/ work'[ch] = Idle \/ work'[ch] = [pc |-> "orphaned", card |-> work[ch].card]
          \/ work'[ch] = work[ch] /\ work[ch].pc = "withdrawn"
      BY <2>1, <2>3 DEF Detached
    <3> QED BY <2>1, <3>1 DEF Idle, WorkForm, Publishing
  <2> QED BY <2>2, <2>3
<1>9. WorkTypes'
  BY <1>1, <1>8 DEF WorkTypes
<1>10. LaneInv'
  <2>1. ASSUME NEW ch \in Chats PROVE Published(ch)'
    <3>1. CASE lane'[ch] = << >>
      BY <3>1 DEF Published, PublishedIn
    <3>2. CASE lane'[ch] = <<Closing>>
      <4>1. \A n \in 1..Len(lane'[ch]) : lane'[ch][n] = Closing
        BY <3>2
      <4> QED BY <1>5, <4>1 DEF Published, PublishedIn
    <3> QED BY <1>6, <3>1, <3>2
  <2>2. ASSUME NEW ch \in Chats PROVE AtHead(ch)'
    BY <1>8 DEF AtHead, HeadOf
  <2> QED BY <2>1, <2>2 DEF LaneInv
<1>11. CardOfAssignment'
  BY <1>2, GroupNames DEF CardOfAssignment, IncidentTypes
<1>12. AllChecked'
  BY <1>8 DEF AllChecked, CheckedRight, Publishing
<1> QED BY <1>2, <1>4, <1>7, <1>9, <1>10, <1>11, <1>12 DEF CardInv, CardTypes

-----------------------------------------------------------------------------
(* Copies, direct edits, failures. *)

(* A copy read and queued. *)
LEMMA CopyStep ==
  ASSUME CardInv, Copy
  PROVE  CardInv'
<1>1. IncidentTypes /\ RowTypes /\ SectorRows /\ WorkTypes /\ WithGroup
  BY DEF CardInv, CardTypes
<1>2. ASSUME NEW kind \in {"work copy", "review copy"}, OpenCopy(kind) PROVE CardInv'
  <2> DEFINE r == [chat |-> IF kind = "work copy" THEN group ELSE Review,
                   content |-> IF kind = "work copy" THEN stage ELSE "review",
                   round |-> round, version |-> version, sent |-> 0, state |-> "PENDING"]
  <2>1. /\ extras' = extras + 1 /\ opening' = <<Card(kind, extras'), r>>
        /\ kind = "work copy" => stage \in Working
        /\ UNCHANGED <<watched, stage, group, round, version, revisions, claim, named, row, lane, work, reopening, crossed>>
    BY <1>2 DEF OpenCopy, Extra, incident, jobs, asides
  <2>2. extras' \in Nat
    BY <1>1, <2>1, Counters
  <2>3. kind = "work copy" => group \in Chats
    BY <1>1, <2>1, GroupNames DEF IncidentTypes, WithGroup, Working
  <2>4. r \in RowSet
    BY <1>1, <2>3, GroupNames DEF IncidentTypes, RowSet
  <2> HIDE DEF r
  <2>5. opening' \in ({"work copy", "review copy"} \X Nat) \X RowSet
    BY <2>1, <2>2, <2>4 DEF Card
  <2>6. IncidentTypes' /\ WithGroup'
    BY <1>1, <2>1, <2>2, <2>5 DEF IncidentTypes, WithGroup, Unlocked
  <2>7. Grown(lane, lane', DOMAIN row)
    BY <2>1, LaneTyped, GrownSame
  <2>8. WorkFollows
    BY <1>1, <2>1, SameFollows
  <2> QED BY <2>1, <2>6, <2>7, <2>8, RefreshStep
<1>3. ASSUME QueueCopy PROVE CardInv'
  <2>1. /\ opening # NoCopy /\ opening' = NoCopy
        /\ Issue(opening[1], opening[2]) /\ lane' = Add(lane, opening[2].chat, Publish(opening[1]))
        /\ UNCHANGED <<watched, stage, group, round, version, revisions, claim, named, work, extras, reopening, crossed>>
    BY <1>3 DEF QueueCopy, incident, asides
  <2>2. opening \in ({"work copy", "review copy"} \X Nat) \X RowSet
    BY <1>1, <2>1 DEF IncidentTypes
  <2>3. opening[1] \in CardSet /\ KindOf(opening[1]) # "sector"
        /\ opening[2] \in RowSet /\ opening[2].chat \in Chats
    BY <2>2 DEF CardSet, KindOf, Kinds, RowSet
  <2>4. IncidentTypes' /\ WithGroup'
    BY <1>1, <2>1 DEF IncidentTypes, WithGroup, Unlocked
  <2>5. RowTypes' /\ SectorRows' /\ SectorsStay /\ StatesStay /\ DOMAIN row' = DOMAIN row \cup {opening[1]}
    BY <1>1, <2>1, <2>3, IssueKeeps, OtherIssueKeeps
  <2>6. Grown(lane, lane', DOMAIN row')
    BY <2>1, <2>3, <2>5, LaneTyped, PublishGrows
  <2>7. WorkFollows
    BY <1>1, <2>1, SameFollows
  <2> QED BY <2>1, <2>4, <2>5, <2>6, <2>7, ChangeKeeps
<1> QED BY <1>2, <1>3 DEF Copy

(* The edits of handlers that have committed. *)
LEMMA AsideStep ==
  ASSUME CardInv, Aside
  PROVE  CardInv'
<1>1. IncidentTypes /\ WorkTypes /\ WithGroup
  BY DEF CardInv, CardTypes
<1>2. PICK e \in direct : DirectEdit(e) \/ DirectFails(e)
  BY DEF Aside
<1>3. /\ UNCHANGED <<watched, stage, group, round, version, revisions, claim, named, row, lane, work, opening, reopening, crossed>>
      /\ extras' = extras \/ extras' = extras + 1
  BY <1>2 DEF DirectEdit, DirectFails, Extra, incident, jobs, asides
<1>4. extras' \in Nat
  BY <1>1, <1>3, Counters DEF IncidentTypes
<1>5. IncidentTypes' /\ WithGroup'
  BY <1>1, <1>3, <1>4 DEF IncidentTypes, WithGroup, Unlocked
<1>6. Grown(lane, lane', DOMAIN row)
  BY <1>3, LaneTyped, GrownSame
<1>7. WorkFollows
  BY <1>1, <1>3, SameFollows
<1> QED BY <1>3, <1>5, <1>6, <1>7, RefreshStep

-----------------------------------------------------------------------------
(* The attempts. *)

(* Rows left alone. *)
LEMMA RowsAsWere ==
  ASSUME CardInv, UNCHANGED <<row, group, round>>
  PROVE  RowTypes' /\ SectorRows' /\ SectorsStay /\ StatesStay
BY DEF CardInv, CardTypes, RowTypes, SectorRows, SectorsStay, StatesStay, Card

(* A step of the attempt of one chat; a is the lanes before it adds to     *)
(* them, w what becomes of the attempt.                                    *)
LEMMA AttemptKeeps ==
  ASSUME CardInv, NEW ch \in Chats, NEW w, WorkForm(w), Lane(ch, w),
         NEW a \in Lanes, \A x \in Chats : x # ch => a[x] = lane[x],
         PublishedIn(a[ch], DOMAIN row'), HeadOf(w, a[ch]),
         Grown(a, lane', DOMAIN row'), DOMAIN row' = DOMAIN row
  PROVE  LaneTypes' /\ WorkTypes' /\ LaneInv'
<1>1. /\ work = [x \in Chats |-> work[x]] /\ \A x \in Chats : WorkForm(work[x])
      /\ work' = [work EXCEPT ![ch] = w]
  BY DEF CardInv, CardTypes, WorkTypes, Lane
<1>2. /\ work' = [x \in Chats |-> work'[x]]
      /\ \A x \in Chats : work'[x] = IF x = ch THEN w ELSE work[x]
  BY <1>1
<1>3. WorkTypes'
  BY <1>1, <1>2 DEF WorkTypes
<1>4. ASSUME NEW x \in Chats PROVE PublishedIn(a[x], DOMAIN row') /\ HeadOf(work'[x], a[x])
  <2>1. CASE x = ch
    BY <1>2, <2>1
  <2>2. CASE x # ch
    BY <1>2, <2>2 DEF CardInv, LaneInv, Published, AtHead
  <2> QED BY <2>1, <2>2
<1> QED BY <1>3, <1>4, LanesGrow

(* An attempt that adds nothing to the lanes and takes nothing off. *)
LEMMA AttemptStep ==
  ASSUME CardInv, NEW ch \in Chats, NEW w, WorkForm(w), HeadOf(w, lane[ch]), Lane(ch, w),
         UNCHANGED <<watched, incident, named, lane, opening, reopening, crossed>>, extras' \in Nat,
         RowTypes', SectorRows', SectorsStay, StatesStay, DOMAIN row' = DOMAIN row,
         w.pc = "checked" => KindOf(w.card) = "sector" /\ CurrentSector(w.card) /\ row' = row
  PROVE  CardInv'
<1>1. IncidentTypes' /\ WithGroup'
  BY DEF CardInv, CardTypes, IncidentTypes, WithGroup, Unlocked, incident
<1>2. Grown(lane, lane', DOMAIN row') /\ lane \in Lanes
  BY LaneTyped, GrownSame
<1>3. LaneTypes' /\ WorkTypes' /\ LaneInv'
  BY <1>2, AttemptKeeps DEF CardInv, LaneInv, Published
<1>4. CardOfAssignment'
  BY <1>2, StillProvided, AssignmentKept DEF incident
<1>5. AllChecked'
  <2>1. \A x \in Chats : work'[x] = IF x = ch THEN w ELSE work[x]
    BY DEF Lane, CardInv, CardTypes, WorkTypes
  <2>2. w.pc = "checked" => CheckedRight(work[ch])'
    BY <2>1 DEF CheckedRight, CurrentSector, KindOf, incident
  <2> QED BY <2>1, <2>2, CheckedKept DEF incident
<1> QED BY <1>1, <1>3, <1>4, <1>5 DEF CardInv, CardTypes

(* What taking the head off a lane leaves. *)
LEMMA Pop ==
  ASSUME CardInv, NEW ch \in Chats, lane[ch] # << >>
  PROVE  /\ Popped(ch) \in Lanes
         /\ \A x \in Chats : x # ch => Popped(ch)[x] = lane[x]
         /\ PublishedIn(Popped(ch)[ch], DOMAIN row)
         /\ \A c : lane[ch][1] # Publish(c) /\ Waits(lane, c) => Waits(Popped(ch), c)
<1>1. lane \in Lanes /\ lane[ch] \in Seq(JobSet)
  BY LaneTyped DEF Lanes
<1>2. Popped(ch) = [lane EXCEPT ![ch] = Tail(lane[ch])]
  BY DEF Popped
<1>3. /\ Tail(lane[ch]) \in Seq(JobSet) /\ Len(lane[ch]) \in Nat
      /\ Len(Tail(lane[ch])) = Len(lane[ch]) - 1
      /\ \A n \in 1..Len(Tail(lane[ch])) : Tail(lane[ch])[n] = lane[ch][n + 1]
  BY <1>1
<1>4. Popped(ch) \in Lanes
  BY <1>1, <1>2, <1>3 DEF Lanes
<1>5. \A x \in Chats : Popped(ch)[x] = IF x = ch THEN Tail(lane[ch]) ELSE lane[x]
  BY <1>1, <1>2 DEF Lanes
<1>6. PublishedIn(Popped(ch)[ch], DOMAIN row)
  <2>1. PublishedIn(lane[ch], DOMAIN row)
    BY DEF CardInv, LaneInv, Published
  <2>2. \A n \in 1..Len(Tail(lane[ch])) : n + 1 \in 1..Len(lane[ch])
    BY <1>3
  <2> QED BY <1>3, <1>5, <2>1, <2>2 DEF PublishedIn
<1>7. ASSUME NEW c, lane[ch][1] # Publish(c), Waits(lane, c) PROVE Waits(Popped(ch), c)
  <2>1. PICK x \in Chats : \E n \in 1..Len(lane[x]) : lane[x][n] = Publish(c)
    BY <1>7 DEF Waits
  <2>2. PICK n \in 1..Len(lane[x]) : lane[x][n] = Publish(c)
    BY <2>1
  <2>3. CASE x # ch
    BY <1>5, <2>2, <2>3 DEF Waits
  <2>4. CASE x = ch
    <3>1. n # 1
      BY <1>7, <2>2, <2>4
    <3>2. n - 1 \in 1..Len(Tail(lane[ch])) /\ (n - 1) + 1 = n
      BY <1>3, <2>4, <3>1
    <3>3. Popped(ch)[ch][n - 1] = Publish(c) /\ n - 1 \in 1..Len(Popped(ch)[ch])
      BY <1>3, <1>5, <2>2, <2>4, <3>2
    <3> QED BY <3>3 DEF Waits
  <2> QED BY <2>3, <2>4
<1> QED BY <1>4, <1>5, <1>6, <1>7

(* A lane at rest runs nothing. *)
LEMMA IdleForm ==
  /\ WorkForm(Idle)
  /\ \A q : HeadOf(Idle, q)
BY DEF Idle, WorkForm, HeadOf, Publishing

(* A job that is over leaves its lane; the incident stays as it is. *)
LEMMA OverStep ==
  ASSUME CardInv, NEW ch \in Chats, lane[ch] # << >>,
         NEW w, Lane(ch, w), WorkForm(w), w.pc \notin Publishing \cup {"edit"},
         Grown(Popped(ch), lane', DOMAIN row'), extras' \in Nat,
         UNCHANGED <<watched, incident, opening, reopening, crossed>>, named'.sector = named.sector,
         named' \in [distribution : Names, sector : Names, review : Names],
         RowTypes', SectorRows', SectorsStay, DOMAIN row' = DOMAIN row,
         LET c == Card("sector", round) IN
           group # None /\ named.sector = NoCard =>
             row'[c].state = "GIVEN_UP" \/ (row'[c].state = row[c].state /\ lane[ch][1] # Publish(c))
  PROVE  CardInv'
<1>1. /\ Popped(ch) \in Lanes
      /\ \A x \in Chats : x # ch => Popped(ch)[x] = lane[x]
      /\ PublishedIn(Popped(ch)[ch], DOMAIN row)
      /\ \A c : lane[ch][1] # Publish(c) /\ Waits(lane, c) => Waits(Popped(ch), c)
  BY Pop
<1>2. WithGroup' /\ IncidentTypes'
  BY DEF CardInv, CardTypes, WithGroup, IncidentTypes, Unlocked, incident
<1>3. LaneTypes' /\ WorkTypes' /\ LaneInv'
  <2>1. HeadOf(w, Popped(ch)[ch])
    BY DEF HeadOf
  <2> QED BY <1>1, <2>1, AttemptKeeps
<1>4. group # None /\ named.sector = NoCard /\ Provided(lane, row) => Provided(Popped(ch), row')
  BY <1>1 DEF Provided
<1>5. CardOfAssignment'
  BY <1>1, <1>4, AssignmentKept DEF incident
<1>6. AllChecked'
  <2>1. \A x \in Chats : work'[x] = IF x = ch THEN w ELSE work[x]
    BY DEF Lane, CardInv, CardTypes, WorkTypes
  <2> QED BY <2>1, CheckedKept DEF incident, Publishing
<1> QED BY <1>2, <1>3, <1>5, <1>6 DEF CardInv, CardTypes

(* The card of the present assignment is never stale. *)
LEMMA PresentIsNotStale ==
  ASSUME CardInv, group # None
  PROVE  ~Stale(Card("sector", round))
<1>1. /\ Card("sector", round) \in DOMAIN row /\ row[Card("sector", round)].chat = group
      /\ \A c \in DOMAIN row : KindOf(c) = "sector" => c = Card("sector", row[c].round)
  BY DEF CardInv, SectorRows
<1>2. KindOf(Card("sector", round)) = "sector"
  BY DEF Card, KindOf
<1>3. row[Card("sector", round)].round = round
  BY <1>1, <1>2 DEF Card
<1> QED BY <1>1, <1>2, <1>3 DEF Stale, CurrentSector, ReviewKinds

(* The attempt at a publication is at the head of its lane. *)
LEMMA CurrentCard ==
  ASSUME CardInv, NEW ch \in Chats, work[ch].pc \in Publishing
  PROVE  /\ lane[ch] # << >> /\ lane[ch][1] = Publish(Current(ch))
         /\ Current(ch) \in DOMAIN row /\ Current(ch) \in CardSet
<1>1. lane[ch] # << >> /\ lane[ch][1] = Publish(Current(ch))
  BY DEF CardInv, LaneInv, AtHead, HeadOf, Current
<1> QED BY <1>1, HeadCard, JobOps

(* A part is noted, or the publication is over: the chat and the           *)
(* assignment it is of stay.                                               *)
LEMMA RowNoted ==
  ASSUME CardInv, NEW c \in DOMAIN row, UNCHANGED <<group, round>>,
         \/ row' = [row EXCEPT ![c].sent = row[c].sent + 1]
         \/ \E state \in {"SENT", "STALE", "GIVEN_UP"} : Settle(c, state)
  PROVE  /\ RowTypes' /\ SectorRows' /\ SectorsStay /\ DOMAIN row' = DOMAIN row
         /\ \A x \in DOMAIN row : x # c => row'[x] = row[x]
         /\ row' = [row EXCEPT ![c].sent = row[c].sent + 1] => StatesStay
         /\ \A state : Settle(c, state) => row'[c].state = state
<1>1. /\ row = [x \in DOMAIN row |-> row[x]] /\ DOMAIN row \subseteq CardSet
      /\ \A x \in DOMAIN row : row[x] \in RowSet
  BY DEF CardInv, CardTypes, RowTypes
<1>2. row[c].sent + 1 \in Nat
  BY <1>1 DEF RowSet
<1>3. /\ DOMAIN row' = DOMAIN row /\ row' = [x \in DOMAIN row' |-> row'[x]]
      /\ \A x \in DOMAIN row : x # c => row'[x] = row[x]
      /\ \/ row'[c] = [row[c] EXCEPT !.sent = row[c].sent + 1]
         \/ \E state \in {"SENT", "STALE", "GIVEN_UP"} : row'[c] = [row[c] EXCEPT !.state = state]
  BY <1>1 DEF Settle
<1>4. row'[c] \in RowSet /\ row'[c].chat = row[c].chat /\ row'[c].round = row[c].round
  BY <1>1, <1>2, <1>3 DEF RowSet
<1>5. \A x \in DOMAIN row : row'[x] \in RowSet /\ row'[x].chat = row[x].chat /\ row'[x].round = row[x].round
  BY <1>1, <1>3, <1>4
<1>6. SectorRows
  BY DEF CardInv
<1>7. RowTypes' /\ SectorRows' /\ SectorsStay
  BY <1>1, <1>3, <1>5, <1>6 DEF RowTypes, SectorRows, SectorsStay, Card
<1>8. ASSUME row' = [row EXCEPT ![c].sent = row[c].sent + 1] PROVE StatesStay
  <2>1. row'[c] = [row[c] EXCEPT !.sent = row[c].sent + 1]
    BY <1>1, <1>8
  <2>2. row'[c].state = row[c].state
    BY <1>1, <2>1 DEF RowSet
  <2> QED BY <1>3, <2>2 DEF StatesStay
<1>9. ASSUME NEW state, Settle(c, state) PROVE row'[c].state = state
  <2>1. row'[c] = [row[c] EXCEPT !.state = state]
    BY <1>1, <1>9 DEF Settle
  <2> QED BY <1>1, <2>1 DEF RowSet
<1> QED BY <1>3, <1>7, <1>8, <1>9

(* A stale publication is withdrawn: it is not the present card. *)
LEMMA WithdrawStep ==
  ASSUME CardInv, NEW ch \in Chats, NEW c, lane[ch] # << >>, lane[ch][1] = Publish(c),
         c \in DOMAIN row, Stale(c), Withdraw(ch, c)
  PROVE  CardInv'
<1> DEFINE w == IF row[c].sent > 0 THEN [pc |-> "withdrawn", card |-> c] ELSE Idle
<1>1. /\ UNCHANGED <<watched, incident, named, opening, reopening, crossed, extras>> /\ Lane(ch, w)
      /\ lane' = Popped(ch) /\ Settle(c, "STALE")
  BY DEF Withdraw, asides
<1>2. WorkForm(w) /\ w.pc \notin Publishing \cup {"edit"}
  BY DEF Idle, WorkForm, Publishing
<1> HIDE DEF w
<1>3. Grown(Popped(ch), lane', DOMAIN row')
  BY <1>1, Pop, GrownSame
<1>4. /\ RowTypes' /\ SectorRows' /\ SectorsStay /\ DOMAIN row' = DOMAIN row
      /\ \A x \in DOMAIN row : x # c => row'[x] = row[x]
  BY <1>1, RowNoted DEF incident
<1>5. /\ group # None => Card("sector", round) # c /\ Card("sector", round) \in DOMAIN row
      /\ lane[ch][1] # Publish(Card("sector", round)) \/ Card("sector", round) = c
  BY PresentIsNotStale, JobOps DEF CardInv, SectorRows
<1>6. extras' \in Nat /\ named' \in [distribution : Names, sector : Names, review : Names]
  BY <1>1 DEF CardInv, CardTypes, IncidentTypes
<1> QED BY <1>1, <1>2, <1>3, <1>4, <1>5, <1>6, OverStep

(* A publication begins, or goes on to its next part. *)
LEMMA ProceedStep ==
  ASSUME CardInv, NEW ch \in Chats, NEW c, lane[ch] # << >>, lane[ch][1] = Publish(c),
         Proceed(ch, c)
  PROVE  CardInv'
<1> DEFINE w == [pc |-> IF Known(c) THEN "sent" ELSE "posting", card |-> c]
<1>1. /\ UNCHANGED <<watched, incident, named, row, lane, opening, extras, reopening, crossed>> /\ Lane(ch, w)
  BY DEF Proceed, asides
<1>2. WorkForm(w) /\ HeadOf(w, lane[ch]) /\ w.pc # "checked"
  BY DEF WorkForm, HeadOf
<1> HIDE DEF w
<1>3. RowTypes' /\ SectorRows' /\ SectorsStay /\ StatesStay /\ extras' \in Nat
  BY <1>1, RowsAsWere DEF CardInv, CardTypes, IncidentTypes, incident
<1> QED BY <1>1, <1>2, <1>3, AttemptStep

(* The publication at the head of a lane is taken up. *)
LEMMA StartStep ==
  ASSUME CardInv, NEW ch \in Chats, Start(ch)
  PROVE  CardInv'
<1>1. lane[ch] # << >> /\ Head(lane[ch]) = lane[ch][1] /\ lane[ch][1].op = "publish"
  <2>1. lane[ch] \in Seq(JobSet)
    BY LaneTyped DEF Lanes
  <2> QED BY <2>1 DEF Start, Running
<1>2. lane[ch][1] = Publish(lane[ch][1].card) /\ lane[ch][1].card \in DOMAIN row
  BY <1>1, HeadCard
<1>3. IF Stale(lane[ch][1].card) THEN Withdraw(ch, lane[ch][1].card) ELSE Proceed(ch, lane[ch][1].card)
  BY <1>1 DEF Start
<1> QED BY <1>1, <1>2, <1>3, WithdrawStep, ProceedStep

(* Between two parts the publication is looked at again. *)
LEMMA NextPartStep ==
  ASSUME CardInv, NEW ch \in Chats, NextPart(ch)
  PROVE  CardInv'
BY CurrentCard, WithdrawStep, ProceedStep DEF NextPart, Publishing

(* A withdrawn card is retired by a refresh. *)
LEMMA RetireStep ==
  ASSUME CardInv, NEW ch \in Chats, Retire(ch)
  PROVE  CardInv'
<1>1. /\ work[ch].pc = "withdrawn" /\ lane' = StaffRefresh(lane) /\ Lane(ch, Idle)
      /\ UNCHANGED <<watched, incident, named, row, opening, extras, reopening, crossed>>
  BY DEF Retire, asides
<1>2. lane \in Lanes /\ Grown(lane, lane', DOMAIN row')
  BY <1>1, LaneTyped, StaffRefreshGrows
<1>3. IncidentTypes' /\ WithGroup'
  BY <1>1 DEF CardInv, CardTypes, IncidentTypes, WithGroup, Unlocked, incident
<1>4. RowTypes' /\ SectorRows' /\ SectorsStay /\ StatesStay
  BY <1>1, RowsAsWere DEF incident
<1>5. LaneTypes' /\ WorkTypes' /\ LaneInv'
  BY <1>1, <1>2, IdleForm, AttemptKeeps DEF CardInv, LaneInv, Published
<1>6. CardOfAssignment'
  BY <1>1, <1>2, <1>4, StillProvided, AssignmentKept DEF incident
<1>7. AllChecked'
  <2>1. \A x \in Chats : work'[x] = IF x = ch THEN Idle ELSE work[x]
    BY <1>1 DEF Lane, CardInv, CardTypes, WorkTypes
  <2> QED BY <1>1, <1>4, <2>1, CheckedKept DEF incident, Idle
<1> QED BY <1>3, <1>4, <1>5, <1>6, <1>7 DEF CardInv, CardTypes

(* A part is posted; it arrives; or a rejected card's does. *)
LEMMA PostStep ==
  ASSUME CardInv, NEW ch \in Chats, Post(ch)
  PROVE  CardInv'
<1> DEFINE w == [pc |-> "arrived", card |-> Current(ch)]
<1>1. /\ work[ch].pc = "posting" /\ Lane(ch, w)
      /\ UNCHANGED <<watched, incident, named, row, lane, opening, extras, reopening, crossed>>
  BY DEF Post, asides
<1>2. WorkForm(w) /\ HeadOf(w, lane[ch]) /\ w.pc # "checked"
  BY <1>1, CurrentCard DEF WorkForm, HeadOf, Publishing
<1> HIDE DEF w
<1>3. RowTypes' /\ SectorRows' /\ SectorsStay /\ StatesStay /\ extras' \in Nat
  BY <1>1, RowsAsWere DEF CardInv, CardTypes, IncidentTypes, incident
<1> QED BY <1>1, <1>2, <1>3, AttemptStep

(* Its id is saved. *)
LEMMA SaveStep ==
  ASSUME CardInv, NEW ch \in Chats, Save(ch)
  PROVE  CardInv'
<1> DEFINE c == Current(ch)
           w == [pc |-> IF LastPart(c) THEN "sent" ELSE "next", card |-> c]
<1>1. /\ work[ch].pc = "arrived" /\ row' = [row EXCEPT ![c].sent = row[c].sent + 1] /\ Lane(ch, w)
      /\ UNCHANGED <<watched, incident, named, lane, opening, extras, reopening, crossed>>
  BY DEF Save, asides
<1>2. lane[ch] # << >> /\ lane[ch][1] = Publish(c) /\ c \in DOMAIN row
  BY <1>1, CurrentCard DEF Publishing
<1>3. WorkForm(w) /\ HeadOf(w, lane[ch]) /\ w.pc # "checked"
  BY <1>2 DEF WorkForm, HeadOf
<1> HIDE DEF w
<1>4. RowTypes' /\ SectorRows' /\ SectorsStay /\ StatesStay /\ DOMAIN row' = DOMAIN row
  BY <1>1, <1>2, RowNoted DEF incident
<1>5. extras' \in Nat
  BY <1>1 DEF CardInv, CardTypes, IncidentTypes
<1> QED BY <1>1, <1>3, <1>4, <1>5, AttemptStep

(* A message arrives whose row is gone. *)
LEMMA OrphanStep ==
  ASSUME CardInv, NEW ch \in Chats, Orphan(ch)
  PROVE  CardInv'
<1>1. Lane(ch, Idle) /\ UNCHANGED <<watched, incident, named, row, lane, opening, extras, reopening, crossed>>
  BY DEF Orphan
<1>2. RowTypes' /\ SectorRows' /\ SectorsStay /\ StatesStay /\ extras' \in Nat
  BY <1>1, RowsAsWere DEF CardInv, CardTypes, IncidentTypes, incident
<1> QED BY <1>1, <1>2, IdleForm, AttemptStep DEF Idle

(* The completion of a sector card reads the assignment. *)
LEMMA CheckStep ==
  ASSUME CardInv, NEW ch \in Chats, Check(ch)
  PROVE  CardInv'
<1> DEFINE w == [pc |-> "checked", card |-> Current(ch), old |-> FALSE]
<1>1. /\ work[ch].pc = "sent" /\ Lane(ch, w)
      /\ KindOf(Current(ch)) = "sector" /\ CurrentSector(Current(ch))
      /\ UNCHANGED <<watched, incident, named, row, lane, opening, extras, reopening, crossed>>
  BY DEF Check, asides
<1>2. WorkForm(w) /\ HeadOf(w, lane[ch]) /\ w.card = Current(ch)
  BY <1>1, CurrentCard DEF WorkForm, HeadOf, Publishing
<1> HIDE DEF w
<1>3. RowTypes' /\ SectorRows' /\ SectorsStay /\ StatesStay /\ extras' \in Nat
  BY <1>1, RowsAsWere DEF CardInv, CardTypes, IncidentTypes, incident
<1> QED BY <1>1, <1>2, <1>3, AttemptStep

(* The card of a present assignment is the one of its round. *)
LEMMA PresentCard ==
  ASSUME CardInv, NEW c \in DOMAIN row
  PROVE  /\ KindOf(c) = "sector" /\ CurrentSector(c) => c = Card("sector", round) /\ group # None
         /\ c = Card("sector", round) /\ group # None => KindOf(c) = "sector" /\ CurrentSector(c)
<1>1. KindOf(c) = "sector" => c = Card("sector", row[c].round)
  BY DEF CardInv, SectorRows
<1>2. row[c].chat # None
  BY GroupNames DEF CardInv, CardTypes, RowTypes, RowSet
<1>3. KindOf(Card("sector", round)) = "sector"
  BY DEF Card, KindOf
<1>4. c = Card("sector", round) => row[c].round = round
  BY <1>1, <1>3 DEF Card
<1>5. c = Card("sector", round) /\ group # None => row[c].chat = group
  BY DEF CardInv, SectorRows
<1> QED BY <1>1, <1>2, <1>3, <1>4, <1>5 DEF CurrentSector

(* The refreshes of a publication that is done. *)
LEMMA FollowUpGrows ==
  ASSUME NEW ls \in Lanes, NEW c, NEW C, group' \in Groups \cup {None}
  PROVE  Grown(ls, FollowUp(c, ls), C)
<1>1. \/ FollowUp(c, ls) = ls \/ FollowUp(c, ls) = DistributionRefresh(ls, TRUE)
      \/ FollowUp(c, ls) = StaffRefresh(ls) \/ FollowUp(c, ls) = SectorRefresh(StaffRefresh(ls))
  BY DEF FollowUp
<1>2. Grown(ls, StaffRefresh(ls), C) /\ StaffRefresh(ls) \in Lanes
  BY StaffRefreshGrows DEF Grown
<1>3. Grown(StaffRefresh(ls), SectorRefresh(StaffRefresh(ls)), C)
  BY <1>2, SectorRefreshGrows
<1>4. Grown(ls, SectorRefresh(StaffRefresh(ls)), C)
  BY <1>2, <1>3, GrownTwice
<1> QED BY <1>1, <1>2, <1>4, GrownSame, DistributionRefreshGrows

(* A publication is done: the incident names its card, which is the        *)
(* present one unless a return came in between, or it is not the present   *)
(* one.                                                                    *)
LEMMA CompleteStep ==
  ASSUME CardInv, NEW ch \in Chats, Complete(ch)
  PROVE  CardInv'
<1> DEFINE c == Current(ch)
           ls == Popped(ch)
<1>1. /\ work[ch].pc \in {"sent", "checked"} /\ Settle(c, "SENT") /\ Lane(ch, Idle)
      /\ lane' = FollowUp(c, ls)
      /\ work[ch].pc = "checked" => NameSector(ch)
      /\ work[ch].pc # "checked" => ~(KindOf(c) = "sector" /\ CurrentSector(c)) /\ Name(c) /\ crossed' = crossed
      /\ UNCHANGED <<watched, incident, opening, reopening, extras>>
  BY DEF Complete
<1>2. lane[ch] # << >> /\ lane[ch][1] = Publish(c) /\ c \in DOMAIN row /\ c \in CardSet
  BY <1>1, CurrentCard DEF Publishing
<1>3. /\ ls \in Lanes
      /\ \A x \in Chats : x # ch => ls[x] = lane[x]
      /\ PublishedIn(ls[ch], DOMAIN row)
      /\ \A x : lane[ch][1] # Publish(x) /\ Waits(lane, x) => Waits(ls, x)
  BY <1>2, Pop
<1> HIDE DEF c, ls
<1>4. /\ RowTypes' /\ SectorRows' /\ SectorsStay /\ DOMAIN row' = DOMAIN row
      /\ \A x \in DOMAIN row : x # c => row'[x] = row[x]
  BY <1>1, <1>2, RowNoted DEF incident
<1>5. IncidentTypes /\ WithGroup /\ SectorRows
  BY DEF CardInv, CardTypes
<1>6. named' \in [distribution : Names, sector : Names, review : Names]
  <2>1. \/ named' = named \/ named' = [named EXCEPT !.review = c]
        \/ named' = [named EXCEPT !.distribution = c] \/ named' = [named EXCEPT !.sector = c]
    BY <1>1 DEF Name, NameSector, c
  <2> QED BY <1>2, <1>5, <2>1 DEF IncidentTypes, Names
<1>7. Grown(ls, lane', DOMAIN row')
  BY <1>1, <1>3, <1>5, FollowUpGrows DEF IncidentTypes, incident
<1>8. WorkForm(Idle) /\ Idle.pc \notin Publishing \cup {"edit"} /\ extras' \in Nat
  BY <1>1, <1>5, IdleForm DEF Idle, Publishing, IncidentTypes
<1>9. group # None => Card("sector", round) \in DOMAIN row
  BY <1>5 DEF SectorRows
<1>10. CASE work[ch].pc # "checked"
  <2>1. named'.sector = named.sector
    BY <1>1, <1>5, <1>10 DEF Name, IncidentTypes
  <2>2. group # None => Card("sector", round) # c
    BY <1>1, <1>2, <1>10, PresentCard
  <2>3. LET p == Card("sector", round) IN
          group # None /\ named.sector = NoCard =>
            row'[p].state = "GIVEN_UP" \/ (row'[p].state = row[p].state /\ lane[ch][1] # Publish(p))
    BY <1>2, <1>4, <1>9, <2>2, JobOps
  <2> QED BY <1>1, <1>2, <1>4, <1>6, <1>7, <1>8, <1>10, <2>1, <2>3, OverStep DEF ls
<1>11. CASE work[ch].pc = "checked" /\ named.sector # NoCard
  <2>1. named' = named /\ crossed' = crossed
    BY <1>1, <1>11 DEF NameSector
  <2> QED BY <1>1, <1>2, <1>4, <1>6, <1>7, <1>8, <1>11, <2>1, OverStep DEF ls
<1>12. CASE work[ch].pc = "checked" /\ named.sector = NoCard
  <2>1. named' = [named EXCEPT !.sector = c] /\ crossed' = work[ch].old
    BY <1>1, <1>12 DEF NameSector, c
  <2>2. named'.sector = c /\ c # NoCard
    BY <1>2, <1>5, <2>1, CardNames DEF IncidentTypes
  <2>3. KindOf(c) = "sector" /\ (work[ch].old \/ CurrentSector(c))
    BY <1>12 DEF CardInv, AllChecked, CheckedRight, c, Current
  <2>4. crossed' \/ (c = Card("sector", round) /\ group # None)
    BY <1>2, <2>1, <2>3, PresentCard
  <2>5. group' = group /\ round' = round /\ stage' = stage /\ watched' = watched
    BY <1>1 DEF incident
  <2>6. WithGroup'
    BY <1>1, <1>5, <2>4, <2>5 DEF WithGroup, Unlocked
  <2>7. IncidentTypes'
    BY <1>1, <1>5, <1>6 DEF IncidentTypes, incident
  <2>8. CardOfAssignment'
    BY <1>4, <2>2, <2>4, <2>5 DEF CardOfAssignment, SectorRows, Card
  <2>9. LaneTypes' /\ WorkTypes' /\ LaneInv'
    BY <1>1, <1>3, <1>4, <1>7, IdleForm, AttemptKeeps
  <2>10. AllChecked'
    <3>1. \A x \in Chats : work'[x] = IF x = ch THEN Idle ELSE work[x]
      BY <1>1 DEF Lane, CardInv, CardTypes, WorkTypes
    <3> QED BY <1>4, <2>5, <3>1, CheckedKept DEF Idle
  <2> QED BY <1>4, <2>6, <2>7, <2>8, <2>9, <2>10 DEF CardInv, CardTypes
<1> QED BY <1>1, <1>10, <1>11, <1>12

(* A publication is given up. *)
LEMMA GiveUpCardStep ==
  ASSUME CardInv, NEW ch \in Chats, GiveUpCard(ch)
  PROVE  CardInv'
<1> DEFINE c == Current(ch)
<1>1. /\ work[ch].pc \in Publishing /\ Settle(c, "GIVEN_UP") /\ lane' = Popped(ch) /\ Lane(ch, Idle)
      /\ extras' = extras + 1
      /\ UNCHANGED <<watched, incident, named, opening, reopening, crossed>>
  BY DEF GiveUpCard, Extra
<1>2. lane[ch] # << >> /\ lane[ch][1] = Publish(c) /\ c \in DOMAIN row
  BY <1>1, CurrentCard
<1> HIDE DEF c
<1>3. /\ RowTypes' /\ SectorRows' /\ SectorsStay /\ DOMAIN row' = DOMAIN row
      /\ \A x \in DOMAIN row : x # c => row'[x] = row[x]
      /\ row'[c].state = "GIVEN_UP"
  BY <1>1, <1>2, RowNoted DEF incident
<1>4. Grown(Popped(ch), lane', DOMAIN row')
  BY <1>1, <1>2, Pop, GrownSame
<1>5. WorkForm(Idle) /\ Idle.pc \notin Publishing \cup {"edit"}
  BY IdleForm DEF Idle, Publishing
<1>6. extras' \in Nat /\ named' \in [distribution : Names, sector : Names, review : Names]
  BY <1>1, Counters DEF CardInv, CardTypes, IncidentTypes
<1>7. LET p == Card("sector", round) IN
        group # None /\ named.sector = NoCard =>
          row'[p].state = "GIVEN_UP" \/ (row'[p].state = row[p].state /\ lane[ch][1] # Publish(p))
  BY <1>2, <1>3, JobOps DEF CardInv, SectorRows
<1> QED BY <1>1, <1>2, <1>3, <1>4, <1>5, <1>6, <1>7, OverStep

(* A publication goes to the end of its lane, to be made without its       *)
(* photograph.                                                             *)
LEMMA RecoverStep ==
  ASSUME CardInv, NEW ch \in Chats, ch \in watched, Recover(ch)
  PROVE  CardInv'
<1> DEFINE c == Current(ch)
           ls == Popped(ch)
<1>1. /\ work[ch].pc = "posting" /\ Lane(ch, Idle) /\ extras' = extras + 1
      /\ lane' = [lane EXCEPT ![ch] = Append(Tail(lane[ch]), Head(lane[ch]))]
      /\ UNCHANGED <<watched, incident, named, row, opening, reopening, crossed>>
  BY DEF Recover, Extra, asides
<1>2. lane[ch] # << >> /\ lane[ch][1] = Publish(c) /\ c \in DOMAIN row /\ c \in CardSet
  BY <1>1, CurrentCard DEF Publishing
<1>3. lane[ch] \in Seq(JobSet) /\ Head(lane[ch]) = Publish(c)
  BY <1>2, LaneTyped DEF Lanes
<1>4. /\ ls \in Lanes /\ \A x \in Chats : x # ch => ls[x] = lane[x]
      /\ PublishedIn(ls[ch], DOMAIN row)
      /\ \A x : lane[ch][1] # Publish(x) /\ Waits(lane, x) => Waits(ls, x)
  BY <1>2, Pop
<1>5. lane' = Add(ls, ch, Publish(c))
  <2>1. lane' = [ls EXCEPT ![ch] = Append(ls[ch], Publish(c))]
    BY <1>1, <1>3, LaneTyped DEF Popped, Lanes
  <2> QED BY <2>1 DEF Add
<1> HIDE DEF c, ls
<1>6. Grown(ls, lane', DOMAIN row') /\ lane' \in Lanes
  <2>1. c \in DOMAIN row'
    BY <1>1, <1>2
  <2>2. Grown(ls, Add(ls, ch, Publish(c)), DOMAIN row') /\ Add(ls, ch, Publish(c)) \in Lanes
    BY <1>2, <1>4, <2>1, PublishGrows
  <2> QED BY <1>5, <2>2
<1>7. RowTypes' /\ SectorRows' /\ SectorsStay /\ StatesStay /\ extras' \in Nat
  BY <1>1, RowsAsWere, Counters DEF CardInv, CardTypes, incident
<1>8. IncidentTypes' /\ WithGroup'
  BY <1>1, <1>7 DEF CardInv, CardTypes, IncidentTypes, WithGroup, Unlocked, incident
<1>9. LaneTypes' /\ WorkTypes' /\ LaneInv'
  BY <1>1, <1>4, <1>6, IdleForm, AttemptKeeps
<1>10. CardOfAssignment'
  <2>1. Grown(lane', lane', DOMAIN row')
    BY <1>6, GrownSame
  <2>2. ASSUME NEW x, Waits(lane, x) PROVE Waits(lane', x)
    <3>1. CASE lane[ch][1] # Publish(x)
      BY <1>4, <1>6, <2>2, <3>1, WaitsGrow
    <3>2. CASE lane[ch][1] = Publish(x)
      <4>1. Publish(x) = Publish(c)
        BY <1>2, <3>2
      <4>2. Grown(Add(ls, ch, Publish(c)), lane', DOMAIN row')
        BY <1>5, <2>1
      <4>3. \E n \in 1..Len(lane'[ch]) : lane'[ch][n] = Publish(c)
        BY <1>2, <1>4, <4>2, AddedIsUnfinished
      <4> QED BY <4>1, <4>3 DEF Waits
    <3> QED BY <3>1, <3>2
  <2>3. Provided(lane, row) => Provided(lane', row')
    BY <1>1, <2>2 DEF Provided
  <2> QED BY <1>1, <1>6, <1>7, <2>1, <2>3, AssignmentKept DEF incident
<1>11. AllChecked'
  <2>1. \A x \in Chats : work'[x] = IF x = ch THEN Idle ELSE work[x]
    BY <1>1 DEF Lane, CardInv, CardTypes, WorkTypes
  <2> QED BY <1>1, <1>7, <2>1, CheckedKept DEF incident, Idle
<1> QED BY <1>7, <1>8, <1>9, <1>10, <1>11 DEF CardInv, CardTypes

(* A refresh reads the incident and plans its edits. *)
LEMMA ReadStep ==
  ASSUME CardInv, NEW ch \in Chats, Read(ch)
  PROVE  CardInv'
<1> DEFINE w == [pc |-> "edit", todo |-> PlanOf(Head(lane[ch])), old |-> FALSE, gone |-> FALSE]
<1>1. Lane(ch, w) /\ UNCHANGED <<watched, incident, named, row, lane, opening, extras, reopening, crossed>>
  BY DEF Read, asides
<1>2. lane[ch] # << >> /\ Head(lane[ch]).op # "publish"
  BY DEF Read, Running, Refreshes
<1>3. Head(lane[ch]) = lane[ch][1]
  <2>1. lane[ch] \in Seq(JobSet)
    BY LaneTyped DEF Lanes
  <2> QED BY <1>2, <2>1
<1>4. WorkForm(w) /\ HeadOf(w, lane[ch]) /\ w.pc # "checked"
  BY <1>2, <1>3 DEF WorkForm, HeadOf, Publishing
<1> HIDE DEF w
<1>5. RowTypes' /\ SectorRows' /\ SectorsStay /\ StatesStay /\ extras' \in Nat
  BY <1>1, RowsAsWere DEF CardInv, CardTypes, IncidentTypes, incident
<1> QED BY <1>1, <1>4, <1>5, AttemptStep

(* One edit of a refresh. *)
LEMMA EditStep ==
  ASSUME CardInv, NEW ch \in Chats, Edit(ch)
  PROVE  CardInv'
<1>1. PICK e : Lane(ch, [work[ch] EXCEPT !.todo = work[ch].todo \ {e}])
  BY DEF Edit
<1> DEFINE w == [work[ch] EXCEPT !.todo = work[ch].todo \ {e}]
<1>2. work[ch].pc = "edit" /\ UNCHANGED <<watched, incident, named, row, lane, opening, extras, reopening, crossed>>
  BY DEF Edit, asides
<1>3. "pc" \in DOMAIN work[ch] /\ "gone" \in DOMAIN work[ch]
  BY <1>2 DEF CardInv, CardTypes, WorkTypes, WorkForm
<1>4. DOMAIN w = DOMAIN work[ch] /\ w.pc = work[ch].pc /\ w.gone = work[ch].gone
  BY <1>3
<1>5. HeadOf(work[ch], lane[ch])
  BY DEF CardInv, LaneInv, AtHead
<1> HIDE DEF w
<1>6. WorkForm(w) /\ HeadOf(w, lane[ch]) /\ w.pc # "checked"
  BY <1>2, <1>3, <1>4, <1>5 DEF WorkForm, HeadOf, Publishing
<1>7. RowTypes' /\ SectorRows' /\ SectorsStay /\ StatesStay /\ extras' \in Nat
  BY <1>2, RowsAsWere DEF CardInv, CardTypes, IncidentTypes, incident
<1>8. Lane(ch, w)
  BY <1>1 DEF w
<1> QED BY <1>2, <1>6, <1>7, <1>8, AttemptStep

(* A refresh that is over, its edits made or given up. *)
LEMMA UpdateOver ==
  ASSUME CardInv, NEW ch \in Chats, work[ch].pc = "edit", ~work[ch].gone, Lane(ch, Idle), lane' = Popped(ch),
         extras' \in Nat, UNCHANGED <<watched, incident, named, row, opening, reopening, crossed>>
  PROVE  CardInv'
<1>1. lane[ch] # << >> /\ lane[ch][1].op # "publish"
  BY DEF CardInv, LaneInv, AtHead, HeadOf
<1>2. Grown(Popped(ch), lane', DOMAIN row')
  BY <1>1, Pop, GrownSame
<1>3. RowTypes' /\ SectorRows' /\ SectorsStay /\ StatesStay
  BY RowsAsWere DEF incident
<1>4. WorkForm(Idle) /\ Idle.pc \notin Publishing \cup {"edit"}
  BY IdleForm DEF Idle, Publishing
<1>5. named' \in [distribution : Names, sector : Names, review : Names]
  BY DEF CardInv, CardTypes, IncidentTypes
<1> QED BY <1>1, <1>2, <1>3, <1>4, <1>5, JobOps, OverStep

(* A refresh that has made its edits. *)
LEMMA FinishStep ==
  ASSUME CardInv, NEW ch \in Chats, Finish(ch)
  PROVE  CardInv'
<1>1. /\ work[ch].pc = "edit" /\ Lane(ch, Idle) /\ lane' = IF work[ch].gone THEN lane ELSE Popped(ch)
      /\ UNCHANGED <<watched, incident, named, row, opening, extras, reopening, crossed>>
  BY DEF Finish, asides
<1>2. RowTypes' /\ SectorRows' /\ SectorsStay /\ StatesStay /\ extras' \in Nat
  BY <1>1, RowsAsWere DEF CardInv, CardTypes, IncidentTypes, incident
<1>3. CASE work[ch].gone
  BY <1>1, <1>2, <1>3, IdleForm, AttemptStep DEF Idle
<1>4. CASE ~work[ch].gone
  BY <1>1, <1>2, <1>4, UpdateOver
<1> QED BY <1>3, <1>4

(* A refresh given up. *)
LEMMA GiveUpRefreshStep ==
  ASSUME CardInv, NEW ch \in Chats, GiveUpRefresh(ch)
  PROVE  CardInv'
<1>1. /\ work[ch].pc = "edit" /\ ~work[ch].gone /\ Lane(ch, Idle) /\ lane' = Popped(ch) /\ extras' = extras + 1
      /\ UNCHANGED <<watched, incident, named, row, opening, reopening, crossed>>
  BY DEF GiveUpRefresh, Extra, asides
<1>2. extras' \in Nat
  BY <1>1, Counters DEF CardInv, CardTypes
<1> QED BY <1>1, <1>2, UpdateOver

(* An attempt that fails leaves its job in the lane. *)
LEMMA FailStep ==
  ASSUME CardInv, NEW ch \in Chats, Fail(ch)
  PROVE  CardInv'
<1>1. /\ Lane(ch, Idle) /\ extras' = extras + 1
      /\ UNCHANGED <<watched, incident, named, row, lane, opening, reopening, crossed>>
  BY DEF Fail, Extra
<1>2. RowTypes' /\ SectorRows' /\ SectorsStay /\ StatesStay /\ extras' \in Nat
  BY <1>1, RowsAsWere, Counters DEF CardInv, CardTypes, incident
<1> QED BY <1>1, <1>2, IdleForm, AttemptStep DEF Idle

(* A crash ends the attempts; rows and lanes stay. *)
LEMMA CrashStep ==
  ASSUME CardInv, Crash
  PROVE  CardInv'
<1>1. /\ work' = [ch \in Chats |-> Idle] /\ opening' = NoCopy /\ reopening' = NoReopening /\ extras' = extras + 1
      /\ UNCHANGED <<watched, incident, named, row, lane, crossed>>
  BY DEF Crash, Extra
<1>2. extras' \in Nat
  BY <1>1, Counters DEF CardInv, CardTypes
<1>3. IncidentTypes' /\ WithGroup' /\ WorkTypes'
  BY <1>1, <1>2, IdleForm DEF CardInv, CardTypes, IncidentTypes, WithGroup, WorkTypes, Unlocked, incident
<1>4. lane \in Lanes /\ Grown(lane, lane', DOMAIN row')
  BY <1>1, LaneTyped, GrownSame
<1>5. \A ch \in Chats : PublishedIn(lane[ch], DOMAIN row') /\ HeadOf(work'[ch], lane[ch])
  BY <1>1, IdleForm DEF CardInv, LaneInv, Published
<1>6. LaneTypes' /\ LaneInv'
  BY <1>4, <1>5, LanesGrow
<1>7. RowTypes' /\ SectorRows' /\ SectorsStay /\ StatesStay
  BY <1>1, RowsAsWere DEF incident
<1>8. CardOfAssignment'
  BY <1>1, <1>4, <1>7, StillProvided, AssignmentKept DEF incident
<1>9. AllChecked'
  BY <1>1 DEF AllChecked, CheckedRight, Idle
<1> QED BY <1>3, <1>6, <1>7, <1>8, <1>9 DEF CardInv, CardTypes

-----------------------------------------------------------------------------
(* The theorems. *)

(* At first there is the original alone, and it waits. *)
LEMMA CardInit ==
  ASSUME Init
  PROVE  CardInv
<1>1. Original \in CardSet /\ KindOf(Original) # "sector"
  BY CardNames DEF Original, Kinds, KindOf, Card, CardSet
<1>2. DOMAIN row = {Original} /\ row = [c \in DOMAIN row |-> row[c]]
      /\ row[Original] = [chat |-> Distribution, content |-> "open", round |-> 0,
                          version |-> 0, sent |-> 0, state |-> "PENDING"]
  BY DEF Init
<1>3. IncidentTypes /\ WithGroup
  BY GroupNames DEF Init, IncidentTypes, WithGroup, Unlocked, Stages, Names, Chats
<1>4. RowTypes /\ SectorRows
  BY <1>1, <1>2, <1>3, GroupNames DEF RowTypes, SectorRows, RowSet, Init
<1>5. /\ lane = [ch \in Chats |-> lane[ch]]
      /\ \A ch \in Chats : lane[ch] = <<Publish(Original)>> \/ lane[ch] = << >>
  BY DEF Init
<1>6. \A ch \in Chats : lane[ch] \in Seq(JobSet) /\ PublishedIn(lane[ch], DOMAIN row)
  <2> SUFFICES ASSUME NEW ch \in Chats
               PROVE  lane[ch] \in Seq(JobSet) /\ PublishedIn(lane[ch], DOMAIN row)
    OBVIOUS
  <2>1. CASE lane[ch] = << >>
    BY <2>1 DEF PublishedIn
  <2>2. CASE lane[ch] = <<Publish(Original)>>
    <3>1. \A n \in 1..Len(lane[ch]) : lane[ch][n] = Publish(Original)
      BY <2>2
    <3>2. lane[ch] \in Seq(JobSet)
      BY <1>1, <2>2, JobTypes
    <3> QED BY <1>2, <3>1, <3>2, JobOps DEF PublishedIn
  <2> QED BY <1>5, <2>1, <2>2
<1>7. LaneTypes
  BY <1>5, <1>6 DEF LaneTypes
<1>8. WorkTypes /\ LaneInv
  BY <1>6, IdleForm DEF Init, WorkTypes, LaneInv, Published, AtHead
<1>9. CardOfAssignment
  BY GroupNames DEF Init, CardOfAssignment
<1>10. AllChecked
  BY DEF Init, AllChecked, CheckedRight, Idle
<1> QED BY <1>3, <1>4, <1>7, <1>8, <1>9, <1>10 DEF CardInv, CardTypes

(* Every step keeps the invariant. *)
LEMMA CardStep ==
  ASSUME CardInv, [Next]_vars
  PROVE  CardInv'
<1>1. CASE DecideDistribution
  BY <1>1, ClaimStep, UnclaimStep, AssignStep, RejectStep DEF DecideDistribution
<1>2. CASE DecideSector
  BY <1>2, StageSteps, AnswerSteps, ReturnStep DEF DecideSector
<1>3. CASE DecideReview
  BY <1>3, StageSteps, AnswerSteps, RevisionSteps DEF DecideReview
<1>9. CASE DecideReopening
  BY <1>9, BeginReopenStep, RevisionSteps DEF DecideReopening
<1>4. CASE Copy
  BY <1>4, CopyStep
<1>5. ASSUME NEW ch \in watched, Deliver(ch) \/ Update(ch) \/ Trouble(ch) PROVE CardInv'
  <2>1. ch \in Chats
    BY DEF CardInv, CardTypes, IncidentTypes
  <2>2. CASE Deliver(ch)
    BY <2>1, <2>2, StartStep, PostStep, SaveStep, OrphanStep, NextPartStep, CheckStep, CompleteStep, RetireStep
       DEF Deliver
  <2>3. CASE Update(ch)
    BY <2>1, <2>3, ReadStep, EditStep, FinishStep DEF Update
  <2>4. CASE Trouble(ch)
    BY <2>1, <2>4, FailStep, GiveUpCardStep, RecoverStep, GiveUpRefreshStep DEF Trouble
  <2> QED BY <1>5, <2>2, <2>3, <2>4
<1>6. CASE Aside
  BY <1>6, AsideStep
<1>7. CASE Crash
  BY <1>7, CrashStep
<1>8. CASE UNCHANGED vars
  <2>1. UNCHANGED <<watched, stage, group, round, version, revisions, claim, named, row, lane, work, opening, extras,
                   reopening, crossed>>
    BY <1>8 DEF vars, incident, jobs, asides
  <2>2. IncidentTypes' /\ WithGroup'
    BY <2>1 DEF CardInv, CardTypes, IncidentTypes, WithGroup, Unlocked
  <2>3. Grown(lane, lane', DOMAIN row) /\ WorkFollows
    BY <2>1, LaneTyped, GrownSame, SameFollows DEF CardInv, CardTypes
  <2> QED BY <2>1, <2>2, <2>3, RefreshStep
<1> QED BY <1>1, <1>2, <1>3, <1>4, <1>5, <1>6, <1>7, <1>8, <1>9 DEF Next

(* The invariant the card of the assignment rests on: which publications   *)
(* exist and wait, what an attempt holds, and whose cards they are.        *)
THEOREM CardInvariant == Spec => []CardInv
<1>1. Init => CardInv
  BY CardInit
<1>2. CardInv /\ [Next]_vars => CardInv'
  BY CardStep
<1> QED BY <1>1, <1>2, PTL DEF Spec

(* While no return has come between a completion's check and its write, the *)
(* card the bot replies to and edits is the card of the present assignment, *)
(* or that card is still to be published or its publication was given up,   *)
(* for any number of groups, answers, returns, failures and crashes         *)
(* (max-message.service.ts:787-838).                                        *)
THEOREM CardIsOfAssignment == Spec => []CardOfAssignment
<1>1. CardInv => CardOfAssignment
  BY DEF CardInv
<1> QED BY <1>1, CardInvariant, PTL

=============================================================================
