----------------------------- MODULE FeedsProofs -----------------------------
(***************************************************************************)
(* Proofs about Feeds: for any relays, listeners' queues, dispatchers and  *)
(* events, with everything that lives off the outbox running side by side. *)
(***************************************************************************)
EXTENDS Feeds, FiniteSetTheorems, WellFoundedInduction, TLAPS

-----------------------------------------------------------------------------
(* The shape of the tables. *)

EventTypes == BookingEvents \cup LadderRungs \cup {"chosen"}

Refs == Freeable \cup HoldIds \cup Lanes \cup Visits

Links == {"group", "seated", "gap", "waitlist", "hub", "reminder"}

Events == [type : EventTypes, ref : Refs, at : Nat, nth : Nat, manual : BOOLEAN,
           attempts : Nat, published : BOOLEAN, heard : SUBSET Links]

LaneStatuses == {"confirmed", "checked_in", "cancelled"}

\* What a derivation of the party's status can come to.
Derived == {DeriveGroupStatus(statuses) : statuses \in [Lanes -> LaneStatuses]}

\* What a link keeps between its statements: the status it derived, or the
\* entries it locked.
NotesOf(link) ==
    CASE link = "group" -> [due : Derived, written : BOOLEAN]
      [] link = "waitlist" -> SUBSET Entries
      [] OTHER -> {}

Notes == {None} \cup UNION {NotesOf(link) : link \in Links}

RelayStates == [todo : SUBSET (Nat \ {0}), step : Nat \ {0}, done : SUBSET (Nat \ {0}),
                failed : SUBSET (Nat \ {0}), seen : Notes]

EntryRows == [st : {"none", "waiting", "offered", "accepted", "left"}, joined : Nat,
              count : Nat, declined : SUBSET (Freeable \cup {None}),
              code : Freeable \cup {None}, exp : Nat]

Passes == [e : Entries, c : Freeable \cup {None}]

JobRecords == [op : {"idle", "offer", "claim", "hold", "mark", "pass", "write"},
               e : Entries \cup {None}, c : Freeable \cup {None},
               todo : SUBSET Passes, count : Nat, locked : SUBSET Entries]

\* A worker that is at something is at it for an entry.
Jobs == {k \in JobRecords : k.op # "idle" => k.e \in Entries}

VisitRows == [st : {"confirmed", "cancelled"}, start : StartTimes, moves : Nat,
              touched : Nat, stamp : [LadderRungs \cup {"chosen"} -> BOOLEAN]]

Plans == [b : Visits \cup {None}, start : Nat, touched : Nat, at : Nat]

Results == {"sent", "failed", "skipped", "superseded", "pending"}

DeliveryRows == [st : Results \cup {"none"}, attempts : Nat, next : Nat, exp : Nat]

Claims == [op : {"free", "claimed", "sent"}, i : Nat, ch : Channels \cup {None},
           attempt : Nat, at : Nat, out : Results \cup {None}, next : Nat]

Rows == (1 .. MaxEvents) \X Channels

\* The outbox and the relays: a relay works on rows that are there, and what
\* it keeps is the note of the link whose turn it is.
OutboxType ==
    /\ now \in Nat /\ now <= MaxTime /\ faults \in Nat
    /\ outbox \in Seq(Events)
    /\ relay \in [Relays -> RelayStates]
    /\ \A r \in Relays : /\ relay[r].todo \subseteq 1 .. Len(outbox)
                         /\ relay[r].done \subseteq 1 .. Len(outbox)
                         /\ relay[r].seen # None =>
                              \E link \in Links :
                                AtLink(r, link) /\ relay[r].seen \in NotesOf(link)

WaitType ==
    /\ entry \in [Entries -> EntryRows]
    /\ job \in [Workers -> Jobs]

RemindType ==
    /\ visit \in [Visits -> VisitRows]
    /\ plan \in [Planners -> Plans]
    /\ \A p \in Planners : plan[p] # NoPlan => plan[p].b \in Visits

GroupType ==
    /\ lane \in [Lanes -> LaneStatuses]
    /\ party \in Derived

SendType ==
    /\ delivery \in [Rows -> DeliveryRows]
    /\ sender \in [Senders -> Claims]
    /\ \A w \in Senders : sender[w] # Free =>
         /\ <<sender[w].i, sender[w].ch>> \in Rows /\ sender[w].attempt >= 1
         /\ sender[w].op = "sent" => sender[w].out \in Results

FeedsType ==
    /\ scenario \in Scenarios
    /\ OutboxType /\ WaitType /\ RemindType /\ GroupType /\ SendType

-----------------------------------------------------------------------------
(* What the properties need beside the types. *)

Excused(n) == Chain[n] \in {"group", "seated", "gap", "waitlist"} /\ faults > 0

\* The event of row i has been through the links up to place n.
Through(i, n) ==
    \A m \in LinksFor(outbox[i]) : m < n => Chain[m] \in outbox[i].heard \/ Excused(m)

\* Before the mark is visible it stands in a relay's transaction, and before
\* that the event is somewhere in the chain: the steps behind it are done.
RelaysAreHonest ==
    \A r \in Relays :
        /\ relay[r].todo # {} => Through(InHand(r), relay[r].step)
        /\ \A i \in relay[r].done : Through(i, Len(Chain) + 1)

HeardInv == RelaysAreHonest /\ PublishedWasHeard

Row(w) == <<sender[w].i, sender[w].ch>>
AtWork(w) == sender[w] # Free

\* A claim is an attempt counted on its row, and no attempt is two claims.
ClaimsAreAttempts ==
    /\ \A w \in Senders : AtWork(w) =>
         /\ delivery[Row(w)].st # "none"
         /\ sender[w].attempt \in 1 .. delivery[Row(w)].attempts
         /\ sender[w].at <= now
         /\ sender[w].op = "sent" /\ sender[w].out = "pending" =>
              sender[w].next >= sender[w].at
    /\ \A v, w \in Senders :
         /\ AtWork(v) /\ AtWork(w) /\ v # w /\ Row(v) = Row(w)
         => sender[v].attempt # sender[w].attempt

\* A row somebody is at work on is not due before that lease has run out:
\* neither the claim nor the answer of a later attempt brings it forward.
RowsAreLeased ==
    \A w \in Senders : AtWork(w) /\ delivery[Row(w)].st = "pending" =>
        delivery[Row(w)].next >= sender[w].at + DISPATCH_LEASE \/ now = MaxTime

LeaseInv == ClaimsAreAttempts /\ RowsAreLeased /\ LeaseProtectsTheHolder
-----------------------------------------------------------------------------
(* The operators the steps are built from. *)

\* The first of a set of rows or places is one of them.
LEMMA FirstIsIn ==
    ASSUME NEW S, S \subseteq Nat, S # {}
    PROVE  Min(S) \in S /\ \A n \in S : Min(S) <= n
  <1> DEFINE R == OpToRel(<, Nat)
  <1>1. IsWellFoundedOn(R, Nat) BY NatLessThanWellFounded
  <1> HIDE DEF R
  <1>2. PICK x \in S : \A y \in S : <<y, x>> \notin R BY <1>1, WFMin
  <1>3. \A y \in S : x <= y
    <2> SUFFICES ASSUME NEW y \in S PROVE x <= y
      OBVIOUS
    <2>1. ~(y < x) BY <1>2 DEF R, OpToRel
    <2>2. QED BY <2>1
  <1>4. \E z \in S : \A y \in S : z <= y BY <1>3
  <1>5. QED BY <1>4 DEF Min

\* Who reacts to an event depends on its type and on what it is about.
LEMMA SameLinks ==
    ASSUME NEW e, NEW f, e.type = f.type, e.ref = f.ref
    PROVE  LinksFor(e) = LinksFor(f)
  BY DEF LinksFor, Hears

\* The places of the chain are its six positions.
LEMMA PlacesOfTheChain ==
    /\ Len(Chain) = 6
    /\ \A e : LinksFor(e) \subseteq 1 .. 6
  BY DEF Chain, LinksFor

\* A relay with rows to do has one of them in hand.
LEMMA InHandIsARow ==
    ASSUME OutboxType, NEW r \in Relays, relay[r].todo # {}
    PROVE  /\ InHand(r) \in relay[r].todo
           /\ InHand(r) \in 1 .. Len(outbox)
           /\ Current(r) \in Events
  <1>1. relay[r].todo \subseteq Nat /\ relay[r].todo \subseteq 1 .. Len(outbox)
    BY DEF OutboxType, RelayStates
  <1>2. InHand(r) \in relay[r].todo BY <1>1, FirstIsIn DEF InHand
  <1>3. QED BY <1>1, <1>2 DEF OutboxType, Current

\* A link whose turn it is stands at the first place still ahead.
LEMMA TurnIsAhead ==
    ASSUME OutboxType, NEW r \in Relays, NEW link, AtLink(r, link)
    PROVE  \E n \in LinksFor(Current(r)) :
             /\ n = Min(Ahead(r)) /\ Chain[n] = link /\ n >= relay[r].step
             /\ n \in 1 .. 6
             /\ \A m \in LinksFor(Current(r)) : m >= relay[r].step => n <= m
  <1>1. Ahead(r) \subseteq Nat /\ Ahead(r) # {} BY PlacesOfTheChain DEF AtLink, Ahead
  <1>2. Min(Ahead(r)) \in Ahead(r) /\ \A m \in Ahead(r) : Min(Ahead(r)) <= m
    BY <1>1, FirstIsIn
  <1>3. QED BY <1>2, PlacesOfTheChain DEF Ahead, AtLink

-----------------------------------------------------------------------------
(* What a step of any component does to the outbox and to the relays. *)

Writes(e) ==
    /\ e \in Events /\ ~e.published /\ Len(outbox) < MaxEvents
    /\ outbox' = Append(outbox, e) /\ relay' = relay /\ faults' = faults

Hear(r, link) ==
    /\ AtLink(r, link) /\ link \in Links
    /\ outbox' = Heard(outbox, r, link) /\ relay' = PassOn(r) /\ faults' = faults

Swallow(r, link) ==
    /\ AtLink(r, link) /\ link \in {"group", "seated", "gap", "waitlist"}
    /\ outbox' = outbox /\ relay' = PassOn(r) /\ faults' = faults + 1

Note(r, link, seen) ==
    /\ AtLink(r, link) /\ link \in Links /\ seen \in NotesOf(link)
    /\ outbox' = outbox /\ relay' = [relay EXCEPT ![r].seen = seen]
    /\ faults' = faults

Throw(r) ==
    /\ relay[r].todo # {}
    /\ outbox' = outbox /\ relay' = CountTheAttempt(r) /\ faults' = faults + 1

Elsewhere ==
    /\ outbox' = outbox /\ relay' = relay /\ faults' \in {faults, faults + 1}

OutboxStep ==
    /\ \/ \E e : Writes(e)
       \/ \E r \in Relays : \/ Drain(r) \/ Published(r) \/ Commit(r) \/ Die(r)
                            \/ Throw(r)
                            \/ \E link : Hear(r, link) \/ Swallow(r, link)
                            \/ \E link, seen : Note(r, link, seen)
       \/ Elsewhere
    /\ now' \in {now, now + 1} /\ now' <= MaxTime

\* An event about something known is an event.
LEMMA EventIsAnEvent ==
    ASSUME NEW t \in EventTypes, NEW ref \in Refs, NEW at \in Nat, NEW n \in Nat,
           NEW m \in BOOLEAN
    PROVE  Event(t, ref, at, n, m) \in Events /\ ~Event(t, ref, at, n, m).published
  BY DEF Event, Events

\* The relays' own steps.
LEMMA RelayOnOutbox ==
    ASSUME FeedsType, RelayStep
    PROVE  OutboxStep
  <1>1. now' = now /\ now <= MaxTime /\ now \in Nat
    BY DEF RelayStep, Drain, Published, Commit, Die, FeedsType, OutboxType
  <1>2. QED BY <1>1 DEF RelayStep, OutboxStep

\* The waitlist writes an event when a slot is freed, and its link reacts.
LEMMA WaitOnOutbox ==
    ASSUME FeedsType, WaitStep
    PROVE  OutboxStep
  <1>1. now' = now /\ now \in Nat /\ now <= MaxTime /\ outbox \in Seq(Events)
    BY DEF FeedsType, OutboxType, WaitStep, ListenLock, ListenClaim, ListenSwallow,
           OfferLock, OfferClaim, AcceptHold, AcceptMark, PassRead, PassWrite, Sweep,
           WorkerDies, Join, Leave, AcceptRead, DeclineRead, FreeSlot, Resold,
           outboxVars, waitVars
  <1>2. ASSUME NEW r \in Relays, ListenLock(r) PROVE OutboxStep
    <2>1. Candidates \in NotesOf("waitlist") BY DEF Candidates, NotesOf
    <2>2. Note(r, "waitlist", Candidates) BY <1>2, <2>1 DEF ListenLock, Note, Links
    <2>3. QED BY <1>1, <2>2 DEF OutboxStep
  <1>3. ASSUME NEW r \in Relays, ListenClaim(r) PROVE OutboxStep
    <2>1. Hear(r, "waitlist") BY <1>3 DEF ListenClaim, Hear, Links
    <2>2. QED BY <1>1, <2>1 DEF OutboxStep
  <1>4. ASSUME NEW r \in Relays, ListenSwallow(r) PROVE OutboxStep
    <2>1. Swallow(r, "waitlist") BY <1>4 DEF ListenSwallow, Swallow
    <2>2. QED BY <1>1, <2>1 DEF OutboxStep
  <1>5. ASSUME NEW c \in Freeable, FreeSlot(c) PROVE OutboxStep
    <2>1. PICK e : e = Event("booking.cancelled", c, now, 0, FALSE) OBVIOUS
    <2>2. e \in Events /\ ~e.published
      BY <1>1, <2>1, EventIsAnEvent DEF EventTypes, BookingEvents, FREES_A_SLOT, Refs
    <2>3. Len(outbox) < MaxEvents BY <1>1, <1>5, OutboxAssumption DEF FreeSlot, Room
    <2>4. Writes(e) BY <1>5, <2>1, <2>2, <2>3 DEF FreeSlot, Emit, Writes
    <2>5. QED BY <1>1, <2>4 DEF OutboxStep
  <1>6. ASSUME NEW w \in Workers,
               \/ OfferLock(w) \/ OfferClaim(w) \/ AcceptHold(w) \/ AcceptMark(w)
               \/ PassRead(w) \/ PassWrite(w) \/ Sweep(w) \/ WorkerDies(w)
        PROVE  OutboxStep
    BY <1>1, <1>6 DEF OfferLock, OfferClaim, AcceptHold, AcceptMark, PassRead,
       PassWrite, Sweep, WorkerDies, outboxVars, Elsewhere, OutboxStep
  <1>7. ASSUME NEW e \in Entries,
               \/ Join(e) \/ Leave(e)
               \/ \E w \in Workers : AcceptRead(w, e) \/ DeclineRead(w, e)
        PROVE  OutboxStep
    BY <1>1, <1>7 DEF Join, Leave, AcceptRead, DeclineRead, outboxVars, Elsewhere,
       OutboxStep
  <1>8. ASSUME NEW c \in Freeable, Resold(c) PROVE OutboxStep
    BY <1>1, <1>8 DEF Resold, outboxVars, Elsewhere, OutboxStep
  <1>9. QED BY <1>2, <1>3, <1>4, <1>5, <1>6, <1>7, <1>8 DEF WaitStep

\* The walk-in queue: a confirmation is written, two links react.
LEMMA WalkInOnOutbox ==
    ASSUME FeedsType, WalkInStep
    PROVE  OutboxStep
  <1>1. now' = now /\ now \in Nat /\ now <= MaxTime /\ outbox \in Seq(Events)
    BY DEF FeedsType, OutboxType, WalkInStep, ListenSeated, ListenGap, WalkInSwallow,
           WalkInJoin, WalkInLeave, SeatFind, SeatPlace, SeatMark, WalkInConfirm,
           WalkInHoldLapses, outboxVars, walkVars
  <1>2. ASSUME NEW r \in Relays, ListenSeated(r) PROVE OutboxStep
    <2>1. Hear(r, "seated") BY <1>2 DEF ListenSeated, Hear, Links
    <2>2. QED BY <1>1, <2>1 DEF OutboxStep
  <1>3. ASSUME NEW r \in Relays, ListenGap(r) PROVE OutboxStep
    <2>1. Hear(r, "gap") BY <1>3 DEF ListenGap, Hear, Links
    <2>2. QED BY <1>1, <2>1 DEF OutboxStep
  <1>4. ASSUME NEW r \in Relays, WalkInSwallow(r) PROVE OutboxStep
    <2>1. Swallow(r, "seated") \/ Swallow(r, "gap")
      BY <1>4 DEF WalkInSwallow, Swallow
    <2>2. QED BY <1>1, <2>1 DEF OutboxStep
  <1>5. ASSUME NEW h \in HoldIds, WalkInConfirm(h) PROVE OutboxStep
    <2>1. PICK e : e = Event("booking.confirmed", h, 0, 0, FALSE) OBVIOUS
    <2>2. e \in Events /\ ~e.published
      BY <2>1, EventIsAnEvent DEF EventTypes, BookingEvents, Refs
    <2>3. Len(outbox) < MaxEvents BY <1>1, <1>5, OutboxAssumption DEF WalkInConfirm, Room
    <2>4. Writes(e) BY <1>5, <2>1, <2>2, <2>3 DEF WalkInConfirm, Emit, Writes
    <2>5. QED BY <1>1, <2>4 DEF OutboxStep
  <1>6. ASSUME \/ \E i \in People : \/ WalkInJoin(i) \/ WalkInLeave(i)
                                    \/ \E d \in Desks : SeatFind(d, i)
               \/ \E d \in Desks : SeatPlace(d) \/ SeatMark(d)
               \/ \E h \in HoldIds : WalkInHoldLapses(h)
        PROVE  OutboxStep
    BY <1>1, <1>6 DEF WalkInJoin, WalkInLeave, SeatFind, SeatPlace, SeatMark,
       WalkInHoldLapses, outboxVars, Elsewhere, OutboxStep
  <1>7. QED BY <1>2, <1>3, <1>4, <1>5, <1>6 DEF WalkInStep

\* The party: its participants write events, its link derives the status.
LEMMA GroupOnOutbox ==
    ASSUME FeedsType, GroupStep
    PROVE  OutboxStep
  <1>1. now' = now /\ now \in Nat /\ now <= MaxTime /\ outbox \in Seq(Events)
    BY DEF FeedsType, OutboxType, GroupStep, RederiveRead, RederiveWrite,
           RederiveTell, RederiveSwallow, LaneMoves, groupVars
  <1>2. ASSUME NEW r \in Relays, RederiveRead(r) PROVE OutboxStep
    <2>1. PICK n : n = [due |-> DeriveGroupStatus(lane), written |-> FALSE] OBVIOUS
    <2>2. DeriveGroupStatus(lane) \in Derived BY DEF FeedsType, GroupType, Derived
    <2>3. n \in NotesOf("group") BY <2>1, <2>2 DEF NotesOf
    <2>4. Note(r, "group", n) BY <1>2, <2>1, <2>3 DEF RederiveRead, Note, Links
    <2>5. QED BY <1>1, <2>4 DEF OutboxStep
  <1>3. ASSUME NEW r \in Relays, RederiveWrite(r) PROVE OutboxStep
    <2>1. CASE Moved(relay[r].seen.due)
      <3>1. PICK n : n = [relay[r].seen EXCEPT !.written = TRUE] OBVIOUS
      <3>2. relay' = [relay EXCEPT ![r].seen = n] /\ UNCHANGED <<outbox, faults>>
        BY <1>3, <2>1, <3>1 DEF RederiveWrite
      <3>3. PICK link \in Links : AtLink(r, link) /\ relay[r].seen \in NotesOf(link)
        BY <1>3 DEF RederiveWrite, FeedsType, OutboxType
      <3>4. link = "group" BY <1>3, <3>3 DEF RederiveWrite, AtLink
      <3>5. n \in NotesOf("group") BY <3>1, <3>3, <3>4 DEF NotesOf
      <3>6. Note(r, "group", n) BY <1>3, <3>2, <3>5 DEF RederiveWrite, Note, Links
      <3>7. QED BY <1>1, <3>6 DEF OutboxStep
    <2>2. CASE ~Moved(relay[r].seen.due)
      <3>1. Hear(r, "group") BY <1>3, <2>2 DEF RederiveWrite, Hear, Links
      <3>2. QED BY <1>1, <3>1 DEF OutboxStep
    <2>3. QED BY <2>1, <2>2
  <1>4. ASSUME NEW r \in Relays, RederiveTell(r) PROVE OutboxStep
    <2>1. Hear(r, "group") BY <1>4 DEF RederiveTell, Hear, Links
    <2>2. QED BY <1>1, <2>1 DEF OutboxStep
  <1>5. ASSUME NEW r \in Relays, RederiveSwallow(r) PROVE OutboxStep
    <2>1. Swallow(r, "group") BY <1>5 DEF RederiveSwallow, Swallow
    <2>2. QED BY <1>1, <2>1 DEF OutboxStep
  <1>6. ASSUME NEW l \in Lanes, NEW to \in {"confirmed", "checked_in", "cancelled"},
               LaneMoves(l, to)
        PROVE  OutboxStep
    <2>1. PICK t : t = CASE to = "cancelled" -> "booking.cancelled"
                         [] to = "checked_in" -> "booking.checked_in"
                         [] OTHER -> "booking.confirmed" OBVIOUS
    <2>2. t \in EventTypes
      BY <2>1 DEF EventTypes, BookingEvents, FREES_A_SLOT
    <2>3. PICK e : e = Event(t, l, 0, 0, FALSE) OBVIOUS
    <2>4. e \in Events /\ ~e.published BY <2>2, <2>3, EventIsAnEvent DEF Refs
    <2>5. Len(outbox) < MaxEvents BY <1>1, <1>6, OutboxAssumption DEF LaneMoves, Room
    <2>6. outbox' = Append(outbox, e) BY <1>6, <2>1, <2>3 DEF LaneMoves, Emit
    <2>7. Writes(e) BY <1>6, <2>4, <2>5, <2>6 DEF LaneMoves, Writes
    <2>8. QED BY <1>1, <2>7 DEF OutboxStep
  <1>7. QED BY <1>2, <1>3, <1>4, <1>5, <1>6 DEF GroupStep

\* A reminder is an event about a visit, at its start, after its moves.
LEMMA ReminderIsAnEvent ==
    ASSUME FeedsType, NEW t \in EventTypes, NEW b \in Visits, NEW m \in BOOLEAN,
           outbox' = Remind(t, b, m), Room(1), UNCHANGED <<relay, faults>>
    PROVE  \E e : Writes(e)
  <1>1. PICK e : e = Event(t, b, visit[b].start, visit[b].moves, m) OBVIOUS
  <1>2. visit[b].start \in Nat /\ visit[b].moves \in Nat
    BY RemindersAssumption DEF FeedsType, RemindType, VisitRows
  <1>3. e \in Events /\ ~e.published BY <1>1, <1>2, EventIsAnEvent DEF Refs
  <1>4. Len(outbox) < MaxEvents
    BY OutboxAssumption DEF Room, FeedsType, OutboxType
  <1>5. outbox' = Append(outbox, e) BY <1>1 DEF Remind
  <1>6. QED BY <1>3, <1>4, <1>5 DEF Writes

\* The rungs of the ladder are types of events.
LEMMA RungsAreTypes ==
    /\ \A i \in 1 .. Len(LADDER) : LADDER[i].rung \in LadderRungs
    /\ LADDER[1].rung \in LadderRungs
    /\ LadderRungs \subseteq EventTypes /\ "chosen" \in EventTypes
    /\ LadderRungs \subseteq Rungs
  <1> DEFINE R == [rung : Rungs, lead : Nat, channels : SUBSET STRING]
  <1>0. LADDER \in Seq(R) /\ LADDER # <<>> BY RemindersAssumption
  <1> HIDE DEF R
  <1>1. 1 \in 1 .. Len(LADDER) /\ \A i \in 1 .. Len(LADDER) : LADDER[i] \in R
    BY <1>0
  <1>2. \A i \in 1 .. Len(LADDER) : LADDER[i].rung \in Rungs
    BY <1>1 DEF R
  <1>3. QED BY <1>1, <1>2 DEF LadderRungs, EventTypes

\* The ladder, the customer's own reminder and the desk's write reminders; a
\* cancelled or moved visit writes its event.
LEMMA RemindOnOutbox ==
    ASSUME FeedsType, RemindStep
    PROVE  OutboxStep
  <1>1. now' = now /\ now \in Nat /\ now <= MaxTime /\ outbox \in Seq(Events)
    BY DEF FeedsType, OutboxType, RemindStep, RunRung, ChosenRead, ClaimChosen,
           ChosenUnavailable, ManualRemind, VisitCancelled, VisitMoved, outboxVars
  <1>2. ASSUME NEW b \in Visits, NEW i \in 1 .. Len(LADDER), RunRung(b, i)
        PROVE  OutboxStep
    <2>1. /\ relay' = relay /\ faults' = faults
          /\ \/ outbox' = outbox
             \/ outbox' = Remind(LADDER[i].rung, b, FALSE) /\ Room(1)
      BY <1>2 DEF RunRung
    <2>2. CASE outbox' = outbox BY <1>1, <2>1, <2>2 DEF Elsewhere, OutboxStep
    <2>3. CASE outbox' = Remind(LADDER[i].rung, b, FALSE) /\ Room(1)
      <3>1. \E e : Writes(e) BY <2>1, <2>3, RungsAreTypes, ReminderIsAnEvent
      <3>2. QED BY <1>1, <3>1 DEF OutboxStep
    <2>4. QED BY <2>1, <2>2, <2>3
  <1>3. ASSUME NEW b \in Visits, ManualRemind(b) PROVE OutboxStep
    <2>1. \E e : Writes(e)
      BY <1>3, RungsAreTypes, ReminderIsAnEvent DEF ManualRemind
    <2>2. QED BY <1>1, <2>1 DEF OutboxStep
  <1>4. ASSUME NEW p \in Planners, NEW lead \in Leads, ClaimChosen(p, lead)
        PROVE  OutboxStep
    <2>1. PICK b \in Visits : b = plan[p].b
      BY <1>4 DEF ClaimChosen, FeedsType, RemindType
    <2>2. /\ relay' = relay /\ faults' = faults
          /\ \/ outbox' = outbox
             \/ outbox' = Remind("chosen", b, FALSE) /\ Room(1)
      BY <1>4, <2>1 DEF ClaimChosen
    <2>3. CASE outbox' = outbox BY <1>1, <2>2, <2>3 DEF Elsewhere, OutboxStep
    <2>4. CASE outbox' = Remind("chosen", b, FALSE) /\ Room(1)
      <3>1. \E e : Writes(e) BY <2>2, <2>4, RungsAreTypes, ReminderIsAnEvent
      <3>2. QED BY <1>1, <3>1 DEF OutboxStep
    <2>5. QED BY <2>2, <2>3, <2>4
  <1>5. ASSUME NEW b \in Visits,
               VisitCancelled(b) \/ \E s \in StartTimes : VisitMoved(b, s)
        PROVE  OutboxStep
    <2>1. \E t \in EventTypes, at \in Nat :
             outbox' = Append(outbox, Event(t, b, at, 0, FALSE))
      <3>1. visit[b].start \in Nat
        BY RemindersAssumption DEF FeedsType, RemindType, VisitRows
      <3>2. {"booking.cancelled", "booking.rescheduled"} \subseteq EventTypes
        BY DEF EventTypes, BookingEvents, FREES_A_SLOT
      <3>3. QED BY <1>5, <3>1, <3>2, RemindersAssumption
            DEF VisitCancelled, VisitMoved, Emit
    <2>2. PICK t \in EventTypes, at \in Nat :
             outbox' = Append(outbox, Event(t, b, at, 0, FALSE))
      BY <2>1
    <2>3. PICK e : e = Event(t, b, at, 0, FALSE) OBVIOUS
    <2>4. e \in Events /\ ~e.published BY <2>3, EventIsAnEvent DEF Refs
    <2>5. Len(outbox) < MaxEvents
      <3>1. Room(1) BY <1>5 DEF VisitCancelled, VisitMoved
      <3>2. QED BY <1>1, <3>1, OutboxAssumption DEF Room
    <2>6. Writes(e) BY <1>5, <2>2, <2>3, <2>4, <2>5 DEF VisitCancelled, VisitMoved, Writes
    <2>7. QED BY <1>1, <2>6 DEF OutboxStep
  <1>6. ASSUME NEW p \in Planners, ChosenUnavailable(p) \/ \E b \in Visits : ChosenRead(p, b)
        PROVE  OutboxStep
    BY <1>1, <1>6 DEF ChosenUnavailable, ChosenRead, outboxVars, Elsewhere, OutboxStep
  <1>7. QED BY <1>2, <1>3, <1>4, <1>5, <1>6 DEF RemindStep, Awaited

\* The two links that throw; the dispatchers leave the outbox alone.
LEMMA SendOnOutbox ==
    ASSUME FeedsType, SendStep
    PROVE  OutboxStep
  <1>1. now' = now /\ now \in Nat /\ now <= MaxTime
    <2>1. ASSUME NEW r \in Relays, ListenHub(r) \/ ListenReminder(r) \/ ListenThrow(r)
          PROVE  now' = now
      BY <2>1 DEF ListenHub, ListenReminder, ListenThrow
    <2>2. ASSUME NEW w \in Senders, NEW who \in Lookups, NEW o \in Outcomes,
                 DispatchOne(w, who, o)
          PROVE  now' = now
      BY <2>2 DEF DispatchOne, outboxVars
    <2>3. ASSUME NEW w \in Senders,
                 \/ \E k \in DOMAIN delivery : ClaimDue(w, k)
                 \/ Record(w) \/ SenderDies(w)
          PROVE  now' = now
      BY <2>3 DEF ClaimDue, Record, SenderDies, outboxVars
    <2>4. now' = now BY <2>1, <2>2, <2>3 DEF SendStep
    <2>5. QED BY <2>4 DEF FeedsType, OutboxType
  <1>2. ASSUME NEW r \in Relays, ListenHub(r) \/ ListenReminder(r) PROVE OutboxStep
    <2>1. Hear(r, "hub") \/ Hear(r, "reminder")
      BY <1>2 DEF ListenHub, ListenReminder, Hear, Links
    <2>2. QED BY <1>1, <2>1 DEF OutboxStep
  <1>3. ASSUME NEW r \in Relays, ListenThrow(r) PROVE OutboxStep
    <2>1. Throw(r) BY <1>3 DEF ListenThrow, Throw, AtLink
    <2>2. QED BY <1>1, <2>1 DEF OutboxStep
  <1>4. ASSUME NEW w \in Senders,
               \/ \E k \in DOMAIN delivery : ClaimDue(w, k)
               \/ \E who \in Lookups, o \in Outcomes : DispatchOne(w, who, o)
               \/ Record(w) \/ SenderDies(w)
        PROVE  OutboxStep
    BY <1>1, <1>4 DEF ClaimDue, DispatchOne, Record, SenderDies, outboxVars,
       Elsewhere, OutboxStep
  <1>5. QED BY <1>2, <1>3, <1>4 DEF SendStep

\* Whatever the component, the outbox and the relays move in one of a dozen
\* ways.
LEMMA OutboxSteps ==
    ASSUME FeedsType, Next
    PROVE  OutboxStep
  <1>1. ClockStep => OutboxStep
    <2> SUFFICES ASSUME ClockStep PROVE OutboxStep
      OBVIOUS
    <2>1. /\ outbox' = outbox /\ relay' = relay /\ faults' = faults
          /\ now' = now + 1 /\ now < MaxTime
      BY DEF ClockStep, Tick
    <2>2. now' <= MaxTime BY <2>1, OutboxAssumption DEF FeedsType, OutboxType
    <2>3. QED BY <2>1, <2>2 DEF OutboxStep, Elsewhere
  <1>2. QED BY <1>1, RelayOnOutbox, WaitOnOutbox, WalkInOnOutbox, GroupOnOutbox,
       RemindOnOutbox, SendOnOutbox DEF Next

-----------------------------------------------------------------------------
(* The outbox keeps its shape. *)

\* Rows are only added; what a row is about never changes, and what a link
\* heard it has heard.
RowsKept ==
    /\ outbox' \in Seq(Events) /\ Len(outbox') >= Len(outbox)
    /\ \A i \in 1 .. Len(outbox) : /\ outbox'[i].type = outbox[i].type
                                   /\ outbox'[i].ref = outbox[i].ref
                                   /\ outbox[i].heard \subseteq outbox'[i].heard

LEMMA OutboxGrows ==
    ASSUME OutboxType, OutboxStep
    PROVE  RowsKept
  <1>0. outbox \in Seq(Events) /\ Len(outbox) \in Nat BY DEF OutboxType
  <1>1. CASE outbox' = outbox BY <1>0, <1>1 DEF RowsKept
  <1>2. ASSUME NEW e, Writes(e) PROVE RowsKept
    <2>1. e \in Events /\ outbox' = Append(outbox, e) BY <1>2 DEF Writes
    <2>2. \A i \in 1 .. Len(outbox) : outbox'[i] = outbox[i] BY <1>0, <2>1
    <2>3. outbox' \in Seq(Events) /\ Len(outbox') = Len(outbox) + 1 BY <1>0, <2>1
    <2>4. QED BY <1>0, <2>2, <2>3 DEF RowsKept
  <1>3. ASSUME NEW r \in Relays, NEW link, Hear(r, link) PROVE RowsKept
    <2>1. PICK k \in 1 .. Len(outbox) : k = InHand(r)
      BY <1>3, InHandIsARow DEF Hear, AtLink
    <2>2. outbox' = [outbox EXCEPT ![k].heard = @ \cup {link}]
      BY <1>3, <2>1 DEF Hear, Heard
    <2>3. \A i \in 1 .. Len(outbox) : outbox[i] \in Events BY <1>0
    <2>4. PICK e : e = [outbox[k] EXCEPT !.heard = @ \cup {link}] OBVIOUS
    <2>5. /\ e \in Events /\ e.type = outbox[k].type /\ e.ref = outbox[k].ref
          /\ outbox[k].heard \subseteq e.heard
      BY <1>3, <2>3, <2>4 DEF Events, Hear
    <2>6. outbox' = [outbox EXCEPT ![k] = e] BY <2>2, <2>4
    <2>7. outbox' \in Seq(Events) /\ Len(outbox') = Len(outbox)
      BY <1>0, <2>5, <2>6
    <2>8. \A i \in 1 .. Len(outbox) : outbox'[i] = IF i = k THEN e ELSE outbox[i]
      BY <1>0, <2>6
    <2>9. QED BY <1>0, <2>5, <2>7, <2>8 DEF RowsKept
  <1>4. ASSUME NEW r \in Relays, Commit(r) PROVE RowsKept
    <2>1. \A i \in 1 .. Len(outbox) : outbox[i] \in Events BY <1>0
    <2>2. ASSUME NEW i \in 1 .. Len(outbox)
          PROVE  /\ outbox'[i] \in Events /\ outbox'[i].type = outbox[i].type
                 /\ outbox'[i].ref = outbox[i].ref
                 /\ outbox'[i].heard = outbox[i].heard
      <3>1. outbox'[i] = [outbox[i] EXCEPT
                       !.published = @ \/ i \in relay[r].done,
                       !.attempts = IF i \in relay[r].failed THEN @ + 1 ELSE @]
        BY <1>4 DEF Commit
      <3>2. PICK p \in BOOLEAN : p = (outbox[i].published \/ i \in relay[r].done)
        OBVIOUS
      <3>3. outbox[i].attempts \in Nat BY <2>1 DEF Events
      <3>4. PICK n \in Nat : n = IF i \in relay[r].failed THEN outbox[i].attempts + 1
                                 ELSE outbox[i].attempts
        BY <3>3
      <3>5. outbox'[i] = [outbox[i] EXCEPT !.published = p, !.attempts = n]
        BY <3>1, <3>2, <3>4
      <3>6. QED BY <2>1, <3>5 DEF Events
    <2>3. DOMAIN outbox' = 1 .. Len(outbox) BY <1>4 DEF Commit
    <2>4. outbox' \in [1 .. Len(outbox) -> Events] BY <1>4, <2>2, <2>3 DEF Commit
    <2>5. outbox' \in Seq(Events) /\ Len(outbox') = Len(outbox)
      BY <1>0, <2>3, <2>4
    <2>6. QED BY <1>0, <2>2, <2>5 DEF RowsKept
  <1>5. QED BY <1>1, <1>2, <1>3, <1>4
        DEF OutboxStep, Drain, Published, Die, Throw, Swallow, Note, Elsewhere

\* So a relay that does not move stands where it stood in the chain.
LEMMA TurnKept ==
    ASSUME OutboxType, RowsKept, NEW r \in Relays, relay[r].todo # {},
           relay'[r].todo = relay[r].todo, relay'[r].step = relay[r].step
    PROVE  /\ InHand(r)' = InHand(r)
           /\ LinksFor(Current(r))' = LinksFor(Current(r))
           /\ Ahead(r)' = Ahead(r)
           /\ \A link : AtLink(r, link)' <=> AtLink(r, link)
  <1>1. InHand(r)' = InHand(r) BY DEF InHand
  <1>2. PICK k \in 1 .. Len(outbox) : k = InHand(r) BY InHandIsARow
  <1>3. Current(r) = outbox[k] /\ Current(r)' = outbox'[k] BY <1>1, <1>2 DEF Current
  <1>4. LinksFor(outbox'[k]) = LinksFor(outbox[k]) BY SameLinks DEF RowsKept
  <1>5. LinksFor(Current(r))' = LinksFor(Current(r))
    BY <1>3, <1>4 DEF LinksFor, Hears
  <1>6. Ahead(r)' = Ahead(r) BY <1>5 DEF Ahead
  <1>7. QED BY <1>1, <1>5, <1>6 DEF AtLink

\* A relay's own record through each kind of step.
LEMMA RelayRecords ==
    ASSUME OutboxType, OutboxStep
    PROVE  /\ relay' \in [Relays -> RelayStates]
           /\ \A r \in Relays : /\ relay'[r].todo \subseteq 1 .. Len(outbox)
                                /\ relay'[r].done \subseteq 1 .. Len(outbox)
  <1> DEFINE Places == 1 .. Len(outbox)
             Goal == /\ relay' \in [Relays -> RelayStates]
                     /\ \A q \in Relays : /\ relay'[q].todo \subseteq Places
                                          /\ relay'[q].done \subseteq Places
  <1>0. /\ relay \in [Relays -> RelayStates] /\ Places \subseteq Nat \ {0}
        /\ \A q \in Relays : relay[q].todo \subseteq Places /\ relay[q].done \subseteq Places
    BY DEF OutboxType
  <1>1. None \in Notes /\ \A link \in Links : NotesOf(link) \subseteq Notes BY DEF Notes
  <1>2. Resting \in RelayStates /\ Resting.todo = {} /\ Resting.done = {}
    BY <1>1 DEF Resting, RelayStates
  <1> HIDE DEF Places
  <1>3. ASSUME NEW r \in Relays, NEW rec \in RelayStates,
               rec.todo \subseteq Places, rec.done \subseteq Places,
               relay' = [relay EXCEPT ![r] = rec]
        PROVE  Goal
    BY <1>0, <1>3
  <1>4. ASSUME relay' = relay PROVE Goal
    <2>1. relay' \in [Relays -> RelayStates] BY <1>0, <1>4
    <2>2. \A q \in Relays : relay'[q].todo \subseteq Places /\ relay'[q].done \subseteq Places
      BY <1>0, <1>4
    <2>3. QED BY <2>1, <2>2
  <1> HIDE DEF Goal
  <1>5. ASSUME NEW r \in Relays, Drain(r) PROVE Goal
    <2>1. PICK S : S = BatchFor(r) OBVIOUS
    <2>2. S \subseteq Places BY <2>1 DEF BatchFor, Places
    <2>3. PICK rec : rec = [Resting EXCEPT !.todo = S] OBVIOUS
    <2>4. rec \in RelayStates /\ rec.todo = S /\ rec.done = {}
      BY <1>0, <1>1, <2>2, <2>3 DEF Resting, RelayStates
    <2>5. relay' = [relay EXCEPT ![r] = rec] BY <1>5, <2>1, <2>3 DEF Drain
    <2>6. QED BY <1>3, <2>2, <2>4, <2>5
  <1>6. ASSUME NEW r \in Relays, Published(r) PROVE Goal
    <2>1. PICK k : k = InHand(r) OBVIOUS
    <2>2. k \in Places BY <1>6, <2>1, InHandIsARow DEF Published, Places
    <2>3. PICK T : T = relay[r].todo \ {k} OBVIOUS
    <2>4. PICK D : D = relay[r].done \cup {k} OBVIOUS
    <2>5. PICK rec : rec = [relay[r] EXCEPT !.todo = T, !.step = 1, !.done = D]
      OBVIOUS
    <2>6. /\ relay[r] \in RelayStates /\ relay[r].done \subseteq Nat \ {0}
          /\ relay[r].todo \subseteq Places /\ relay[r].done \subseteq Places
      BY <1>0 DEF RelayStates
    <2>7. T \subseteq Places /\ D \subseteq Nat \ {0} /\ T \subseteq Nat \ {0}
      BY <1>0, <2>2, <2>3, <2>4, <2>6
    <2>8. rec \in RelayStates
      <3>1. /\ T \in SUBSET (Nat \ {0}) /\ D \in SUBSET (Nat \ {0})
            /\ 1 \in Nat \ {0}
        BY <2>7
      <3>2. QED BY <1>1, <2>5, <2>6, <3>1 DEF RelayStates
    <2>9. rec.todo \subseteq Places /\ rec.done \subseteq Places
      BY <2>2, <2>4, <2>5, <2>6, <2>7 DEF RelayStates
    <2>10. relay' = [relay EXCEPT ![r] = rec]
      BY <1>6, <2>1, <2>3, <2>4, <2>5 DEF Published
    <2>11. QED BY <1>3, <2>8, <2>9, <2>10
  <1>7. ASSUME NEW r \in Relays, Throw(r) PROVE Goal
    <2>1. PICK k : k = InHand(r) OBVIOUS
    <2>2. k \in Places BY <1>7, <2>1, InHandIsARow DEF Throw, Places
    <2>3. PICK T : T = relay[r].todo \ {k} OBVIOUS
    <2>4. PICK D : D = relay[r].failed \cup {k} OBVIOUS
    <2>5. PICK rec : rec = [relay[r] EXCEPT !.todo = T, !.step = 1, !.seen = None, !.failed = D]
      OBVIOUS
    <2>6. /\ relay[r] \in RelayStates /\ relay[r].failed \subseteq Nat \ {0}
          /\ relay[r].todo \subseteq Places /\ relay[r].done \subseteq Places
      BY <1>0 DEF RelayStates
    <2>7. T \subseteq Places /\ D \subseteq Nat \ {0} /\ T \subseteq Nat \ {0}
      BY <1>0, <2>2, <2>3, <2>4, <2>6
    <2>8. rec \in RelayStates
      <3>1. /\ T \in SUBSET (Nat \ {0}) /\ D \in SUBSET (Nat \ {0})
            /\ 1 \in Nat \ {0}
        BY <2>7
      <3>2. QED BY <1>1, <2>5, <2>6, <3>1 DEF RelayStates
    <2>9. rec.todo \subseteq Places /\ rec.done \subseteq Places
      BY <2>2, <2>4, <2>5, <2>6, <2>7 DEF RelayStates
    <2>10. relay' = [relay EXCEPT ![r] = rec]
      BY <1>7, <2>1, <2>3, <2>4, <2>5 DEF Throw, CountTheAttempt
    <2>11. QED BY <1>3, <2>8, <2>9, <2>10
  <1>8. ASSUME NEW r \in Relays, Commit(r) \/ Die(r) PROVE Goal
    <2>1. relay' = [relay EXCEPT ![r] = Resting] BY <1>8 DEF Commit, Die
    <2>2. QED BY <1>2, <1>3, <2>1
  <1>9. ASSUME NEW r \in Relays, NEW link, Hear(r, link) \/ Swallow(r, link) PROVE Goal
    <2>1. AtLink(r, link) /\ relay' = PassOn(r) BY <1>9 DEF Hear, Swallow
    <2>2. PICK n : n = Min(Ahead(r)) OBVIOUS
    <2>3. n \in Nat BY <2>1, <2>2, TurnIsAhead
    <2>4. PICK m \in Nat \ {0} : m = n + 1 BY <2>3
    <2>5. PICK rec : rec = [relay[r] EXCEPT !.step = m, !.seen = None] OBVIOUS
    <2>6. rec \in RelayStates /\ rec.todo \subseteq Places /\ rec.done \subseteq Places
      BY <1>0, <1>1, <2>5 DEF RelayStates
    <2>7. relay' = [relay EXCEPT ![r] = rec] BY <2>1, <2>2, <2>4, <2>5 DEF PassOn
    <2>8. QED BY <1>3, <2>6, <2>7
  <1>10. ASSUME NEW r \in Relays, NEW link, NEW seen, Note(r, link, seen) PROVE Goal
    <2>1. seen \in Notes BY <1>1, <1>10 DEF Note
    <2>2. PICK rec : rec = [relay[r] EXCEPT !.seen = seen] OBVIOUS
    <2>3. rec \in RelayStates /\ rec.todo \subseteq Places /\ rec.done \subseteq Places
      BY <1>0, <2>1, <2>2 DEF RelayStates
    <2>4. relay' = [relay EXCEPT ![r] = rec] BY <1>10, <2>2 DEF Note
    <2>5. QED BY <1>3, <2>3, <2>4
  <1>11. Goal
    <2>1. (\E e : Writes(e)) \/ Elsewhere => relay' = relay BY DEF Writes, Elsewhere
    <2>2. QED BY <1>4, <1>5, <1>6, <1>7, <1>8, <1>9, <1>10, <2>1 DEF OutboxStep
  <1>12. QED BY <1>11 DEF Goal, Places

\* A relay keeps a note only while it is at that link.
LEMMA NotesFit ==
    ASSUME OutboxType, OutboxStep, NEW q \in Relays, relay'[q].seen # None
    PROVE  \E link \in Links : AtLink(q, link)' /\ relay'[q].seen \in NotesOf(link)
  <1>0. RowsKept /\ relay \in [Relays -> RelayStates] BY OutboxGrows DEF OutboxType
  <1> DEFINE Goal == \E link \in Links : AtLink(q, link)' /\ relay'[q].seen \in NotesOf(link)
  <1>1. ASSUME relay'[q] = relay[q] PROVE Goal
    <2>1. PICK link \in Links : AtLink(q, link) /\ relay[q].seen \in NotesOf(link)
      BY <1>1 DEF OutboxType
    <2>2. relay[q].todo # {} BY <2>1 DEF AtLink
    <2>3. AtLink(q, link)' BY <1>0, <1>1, <2>1, <2>2, TurnKept
    <2>4. QED BY <1>1, <2>1, <2>3
  <1>2. ASSUME NEW link, NEW seen, Note(q, link, seen) PROVE Goal
    <2>1. /\ relay'[q].todo = relay[q].todo /\ relay'[q].step = relay[q].step
          /\ relay'[q].seen = seen
      BY <1>0, <1>2 DEF Note, RelayStates
    <2>2. relay[q].todo # {} BY <1>2 DEF Note, AtLink
    <2>3. AtLink(q, link)' BY <1>0, <1>2, <2>1, <2>2, TurnKept DEF Note
    <2>4. QED BY <1>2, <2>1, <2>3 DEF Note
  <1>3. ASSUME Published(q) PROVE Goal
    <2>1. relay[q].seen # None BY <1>0, <1>3 DEF Published, RelayStates
    <2>2. Ahead(q) # {} BY <2>1 DEF OutboxType, AtLink
    <2>3. QED BY <1>3, <2>2 DEF Published
  <1>4. ASSUME \/ Drain(q) \/ Commit(q) \/ Die(q) \/ Throw(q)
               \/ \E link : Hear(q, link) \/ Swallow(q, link)
        PROVE  Goal
    <2>1. CASE Drain(q) \/ Commit(q) \/ Die(q)
      <3>1. \/ relay' = [relay EXCEPT ![q] = Resting]
            \/ relay' = [relay EXCEPT ![q] = [Resting EXCEPT !.todo = BatchFor(q)]]
        BY <2>1 DEF Drain, Commit, Die
      <3>2. relay'[q].seen = None BY <1>0, <3>1 DEF Resting
      <3>3. QED BY <3>2
    <2>2. CASE Throw(q) BY <1>0, <2>2 DEF Throw, CountTheAttempt, RelayStates
    <2>3. CASE \E link : Hear(q, link) \/ Swallow(q, link)
      BY <1>0, <2>3 DEF Hear, Swallow, PassOn, RelayStates
    <2>4. QED BY <1>4, <2>1, <2>2, <2>3
  <1>5. ASSUME NEW r \in Relays, r # q,
               \/ Drain(r) \/ Published(r) \/ Commit(r) \/ Die(r) \/ Throw(r)
               \/ \E link : Hear(r, link) \/ Swallow(r, link)
               \/ \E link, seen : Note(r, link, seen)
        PROVE  relay'[q] = relay[q]
    BY <1>0, <1>5 DEF Drain, Published, Commit, Die, Throw, Hear, Swallow, Note,
       CountTheAttempt, PassOn
  <1> HIDE DEF Goal
  <1>6. ASSUME relay' = relay PROVE Goal BY <1>1, <1>6
  <1>7. Goal
    <2>1. (\E e : Writes(e)) \/ Elsewhere => relay' = relay BY DEF Writes, Elsewhere
    <2>2. ASSUME NEW r \in Relays,
                 \/ Drain(r) \/ Published(r) \/ Commit(r) \/ Die(r) \/ Throw(r)
                 \/ \E link : Hear(r, link) \/ Swallow(r, link)
                 \/ \E link, seen : Note(r, link, seen)
          PROVE  Goal
      <3>1. CASE r = q BY <1>2, <1>3, <1>4, <2>2, <3>1
      <3>2. CASE r # q BY <1>1, <1>5, <2>2, <3>2
      <3>3. QED BY <3>1, <3>2
    <2>3. QED BY <1>6, <2>1, <2>2 DEF OutboxStep
  <1>8. QED BY <1>7 DEF Goal

LEMMA OutboxTypeNext ==
    ASSUME OutboxType, OutboxStep
    PROVE  OutboxType'
  <1>1. RowsKept BY OutboxGrows
  <1>2. now' \in Nat /\ now' <= MaxTime BY DEF OutboxType, OutboxStep
  <1>3. faults' \in Nat
    <2>1. faults' \in {faults, faults + 1}
      BY DEF OutboxStep, Writes, Drain, Published, Commit, Die, Throw, Hear, Swallow,
             Note, Elsewhere
    <2>2. QED BY <2>1 DEF OutboxType
  <1>4. \A r \in Relays : /\ relay'[r].todo \subseteq 1 .. Len(outbox')
                          /\ relay'[r].done \subseteq 1 .. Len(outbox')
    <2>1. 1 .. Len(outbox) \subseteq 1 .. Len(outbox')
      BY <1>1 DEF RowsKept, OutboxType
    <2>2. QED BY <2>1, RelayRecords
  <1>5. outbox' \in Seq(Events) BY <1>1 DEF RowsKept
  <1>6. relay' \in [Relays -> RelayStates] BY RelayRecords
  <1>7. \A r \in Relays : relay'[r].seen # None =>
          \E link \in Links : AtLink(r, link)' /\ relay'[r].seen \in NotesOf(link)
    BY NotesFit
  <1>8. QED BY <1>2, <1>3, <1>4, <1>5, <1>6, <1>7 DEF OutboxType

-----------------------------------------------------------------------------
(* An event marked published has been heard. *)

\* Links a row has been through it stays through.
LEMMA ThroughKept ==
    ASSUME OutboxType, RowsKept, faults' >= faults, faults' \in Nat,
           NEW i \in 1 .. Len(outbox), NEW n \in Nat, Through(i, n)
    PROVE  Through(i, n)'
  <1>1. LinksFor(outbox'[i]) = LinksFor(outbox[i]) BY SameLinks DEF RowsKept
  <1>2. \A m : Excused(m) => Excused(m)' BY DEF Excused, OutboxType
  <1>3. outbox[i].heard \subseteq outbox'[i].heard BY DEF RowsKept
  <1>4. QED BY <1>1, <1>2, <1>3 DEF Through

\* At the head of the chain nothing is behind the event.
LEMMA NothingBehind ==
    \A i : Through(i, 1)
  BY PlacesOfTheChain DEF Through

\* Published means: through the whole chain.
LEMMA PublishedIsThrough ==
    PublishedWasHeard <=>
      \A i \in 1 .. Len(outbox) : outbox[i].published => Through(i, 7)
  BY PlacesOfTheChain DEF PublishedWasHeard, Through, Excused

Honest(r) ==
    /\ relay[r].todo # {} => Through(InHand(r), relay[r].step)
    /\ \A i \in relay[r].done : Through(i, 7)

LEMMA HonestRelays == RelaysAreHonest <=> \A r \in Relays : Honest(r)
  BY PlacesOfTheChain DEF RelaysAreHonest, Honest

\* The links behind a relay are done when it moves, as when it stands still.
LEMMA HonestNext ==
    ASSUME OutboxType, OutboxStep, NEW q \in Relays, Honest(q)
    PROVE  Honest(q)'
  <1>0. RowsKept /\ relay \in [Relays -> RelayStates] /\ outbox \in Seq(Events)
    BY OutboxGrows DEF OutboxType
  <1>1. faults' \in Nat /\ faults' >= faults
    <2>1. faults' \in {faults, faults + 1}
      BY DEF OutboxStep, Writes, Drain, Published, Commit, Die, Throw, Hear, Swallow,
             Note, Elsewhere
    <2>2. QED BY <2>1 DEF OutboxType
  <1>2. relay[q] \in RelayStates /\ relay[q].done \subseteq 1 .. Len(outbox)
    BY DEF OutboxType
  <1>3. \A i \in relay[q].done : Through(i, 7)'
    BY <1>0, <1>1, <1>2, ThroughKept DEF Honest
  <1> DEFINE Goal == Honest(q)'
  <1>4. ASSUME relay'[q].todo = relay[q].todo, relay'[q].step = relay[q].step,
               relay'[q].done = relay[q].done
        PROVE  Goal
    <2>1. CASE relay[q].todo = {} BY <1>3, <1>4, <2>1 DEF Honest
    <2>2. CASE relay[q].todo # {}
      <3>1. PICK k \in 1 .. Len(outbox) : k = InHand(q) BY <2>2, InHandIsARow
      <3>2. InHand(q)' = k BY <1>0, <1>4, <2>2, <3>1, TurnKept
      <3>3. PICK n \in Nat : n = relay[q].step BY <1>2 DEF RelayStates
      <3>4. Through(k, n) BY <2>2, <3>1, <3>3 DEF Honest
      <3>5. Through(k, n)' BY <1>0, <1>1, <3>4, ThroughKept
      <3>6. QED BY <1>3, <1>4, <3>2, <3>3, <3>5 DEF Honest
    <2>3. QED BY <2>1, <2>2
  <1>5. ASSUME relay'[q].step = 1, relay'[q].done \subseteq relay[q].done
        PROVE  Goal
    <2>1. Through(InHand(q), 1)' BY NothingBehind, PlacesOfTheChain DEF Through
    <2>2. QED BY <1>3, <1>5, <2>1 DEF Honest
  <1>6. ASSUME Published(q) PROVE Goal
    <2>1. PICK k \in 1 .. Len(outbox) : k = InHand(q)
      BY <1>6, InHandIsARow DEF Published
    <2>2. relay'[q].step = 1 /\ relay'[q].done = relay[q].done \cup {k}
      BY <1>0, <1>6, <2>1 DEF Published, RelayStates
    <2>3. Through(k, relay[q].step) /\ relay[q].step \in Nat
      BY <1>2, <1>6, <2>1 DEF Published, Honest, RelayStates
    <2>4. \A m \in LinksFor(outbox[k]) : m < relay[q].step
      BY <1>6, <2>1, <2>3, PlacesOfTheChain DEF Published, Ahead, Current
    <2>5. Through(k, 7) BY <2>3, <2>4 DEF Through
    <2>6. Through(k, 7)' BY <1>0, <1>1, <2>5, ThroughKept
    <2>7. Through(InHand(q), 1)' BY PlacesOfTheChain DEF Through
    <2>8. QED BY <1>3, <2>2, <2>6, <2>7 DEF Honest
  <1>7. ASSUME NEW link, Hear(q, link) \/ Swallow(q, link) PROVE Goal
    <2>1. AtLink(q, link) /\ relay' = PassOn(q) BY <1>7 DEF Hear, Swallow
    <2>2. relay[q].todo # {} BY <2>1 DEF AtLink
    <2>3. PICK k \in 1 .. Len(outbox) : k = InHand(q) BY <2>2, InHandIsARow
    <2>4. PICK n \in 1 .. 6 :
             /\ n = Min(Ahead(q)) /\ Chain[n] = link
             /\ \A m \in LinksFor(outbox[k]) : m >= relay[q].step => n <= m
      BY <2>1, <2>3, TurnIsAhead DEF Current
    <2>5. /\ relay'[q].todo = relay[q].todo /\ relay'[q].step = n + 1
          /\ relay'[q].done = relay[q].done
      BY <1>0, <2>1, <2>4 DEF PassOn, RelayStates
    <2>6. InHand(q)' = k BY <2>3, <2>5 DEF InHand
    <2>7. link \in outbox'[k].heard \/ Excused(n)'
      <3>1. CASE Hear(q, link)
        <4>1. outbox' = [outbox EXCEPT ![k].heard = @ \cup {link}]
          BY <2>3, <3>1 DEF Hear, Heard
        <4>2. outbox[k] \in Events /\ k \in DOMAIN outbox BY <1>0
        <4>3. outbox'[k] = [outbox[k] EXCEPT !.heard = @ \cup {link}] BY <4>1, <4>2
        <4>4. QED BY <4>2, <4>3 DEF Events
      <3>2. CASE Swallow(q, link)
        BY <2>4, <3>2 DEF Swallow, Excused, OutboxType
      <3>3. QED BY <1>7, <3>1, <3>2
    <2>8. PICK s \in Nat : s = relay[q].step BY <1>2 DEF RelayStates
    <2>9. Through(k, s)'
      <3>1. Through(k, s) BY <2>2, <2>3, <2>8 DEF Honest
      <3>2. QED BY <1>0, <1>1, <3>1, ThroughKept
    <2>10. LinksFor(outbox'[k]) = LinksFor(outbox[k]) BY <1>0, SameLinks DEF RowsKept
    <2>11. Through(k, n + 1)'
      <3> SUFFICES ASSUME NEW m \in LinksFor(outbox'[k]), m < n + 1
                   PROVE  Chain[m] \in outbox'[k].heard \/ Excused(m)'
        BY DEF Through
      <3>1. m \in 1 .. 6 /\ m \in LinksFor(outbox[k]) BY <2>10, PlacesOfTheChain
      <3>2. CASE m < s BY <2>9, <3>2 DEF Through
      <3>3. CASE ~(m < s)
        <4>1. m = n BY <2>4, <2>8, <3>1, <3>3
        <4>2. QED BY <2>4, <2>7, <4>1
      <3>4. QED BY <3>2, <3>3
    <2>12. QED BY <1>3, <2>5, <2>6, <2>11 DEF Honest
  <1> HIDE DEF Goal
  <1>8. ASSUME \/ Drain(q) \/ Commit(q) \/ Die(q) PROVE Goal
    <2>1. \/ relay' = [relay EXCEPT ![q] = Resting]
          \/ relay' = [relay EXCEPT ![q] = [Resting EXCEPT !.todo = BatchFor(q)]]
      BY <1>8 DEF Drain, Commit, Die
    <2>2. relay'[q].step = 1 /\ relay'[q].done = {} BY <1>0, <2>1 DEF Resting
    <2>3. QED BY <1>5, <2>2
  <1>9. ASSUME Throw(q) PROVE Goal
    <2>1. relay'[q].step = 1 /\ relay'[q].done = relay[q].done
      BY <1>0, <1>9 DEF Throw, CountTheAttempt, RelayStates
    <2>2. QED BY <1>5, <2>1
  <1>10. ASSUME NEW link, NEW seen, Note(q, link, seen) PROVE Goal
    <2>1. /\ relay'[q].todo = relay[q].todo /\ relay'[q].step = relay[q].step
          /\ relay'[q].done = relay[q].done
      BY <1>0, <1>10 DEF Note, RelayStates
    <2>2. QED BY <1>4, <2>1
  <1>11. ASSUME NEW r \in Relays, r # q,
               \/ Drain(r) \/ Published(r) \/ Commit(r) \/ Die(r) \/ Throw(r)
               \/ \E link : Hear(r, link) \/ Swallow(r, link)
               \/ \E link, seen : Note(r, link, seen)
        PROVE  Goal
    <2>1. relay'[q] = relay[q]
      BY <1>0, <1>11 DEF Drain, Published, Commit, Die, Throw, Hear, Swallow, Note,
         CountTheAttempt, PassOn
    <2>2. QED BY <1>4, <2>1
  <1>12. ASSUME NEW r \in Relays,
               \/ Drain(r) \/ Published(r) \/ Commit(r) \/ Die(r) \/ Throw(r)
               \/ \E link : Hear(r, link) \/ Swallow(r, link)
               \/ \E link, seen : Note(r, link, seen)
         PROVE  Goal
    <2>1. CASE r = q BY <1>6, <1>7, <1>8, <1>9, <1>10, <1>12, <2>1
    <2>2. QED BY <1>11, <1>12, <2>1
  <1>13. ASSUME (\E e : Writes(e)) \/ Elsewhere PROVE Goal
    <2>1. relay' = relay BY <1>13 DEF Writes, Elsewhere
    <2>2. QED BY <1>4, <2>1
  <1>14. Goal BY <1>12, <1>13 DEF OutboxStep
  <1>15. QED BY <1>14 DEF Goal

\* A mark becomes visible only from a relay that was honest about it.
LEMMA HeardNext ==
    ASSUME OutboxType, HeardInv, OutboxStep
    PROVE  HeardInv'
  <1>0. RowsKept /\ relay \in [Relays -> RelayStates] /\ outbox \in Seq(Events)
    BY OutboxGrows DEF OutboxType
  <1>1. RelaysAreHonest'
    <2>1. \A r \in Relays : Honest(r)' BY HonestRelays, HonestNext DEF HeardInv
    <2>2. QED BY <2>1, PlacesOfTheChain DEF RelaysAreHonest, Honest
  <1>2. faults' \in Nat /\ faults' >= faults
    <2>1. faults' \in {faults, faults + 1}
      BY DEF OutboxStep, Writes, Drain, Published, Commit, Die, Throw, Hear, Swallow,
             Note, Elsewhere
    <2>2. QED BY <2>1 DEF OutboxType
  <1>3. ASSUME NEW i \in 1 .. Len(outbox'), outbox'[i].published
        PROVE  Through(i, 7)'
    <2>1. \/ i \in 1 .. Len(outbox) /\ outbox[i].published
          \/ \E r \in Relays : i \in relay[r].done
      <3>1. CASE outbox' = outbox BY <1>3, <3>1
      <3>2. ASSUME NEW e, Writes(e) PROVE i \in 1 .. Len(outbox) /\ outbox[i].published
        <4>1. outbox' = Append(outbox, e) /\ ~e.published BY <3>2 DEF Writes
        <4>2. Len(outbox') = Len(outbox) + 1 /\ outbox'[Len(outbox) + 1] = e
          BY <1>0, <4>1
        <4>3. i \in 1 .. Len(outbox) BY <1>0, <1>3, <4>1, <4>2
        <4>4. outbox'[i] = outbox[i] BY <1>0, <4>1, <4>3
        <4>5. QED BY <1>3, <4>3, <4>4
      <3>3. ASSUME NEW r \in Relays, NEW link, Hear(r, link)
            PROVE  i \in 1 .. Len(outbox) /\ outbox[i].published
        <4>1. PICK k \in 1 .. Len(outbox) : k = InHand(r)
          BY <3>3, InHandIsARow DEF Hear, AtLink
        <4>2. outbox' = [outbox EXCEPT ![k].heard = @ \cup {link}]
          BY <3>3, <4>1 DEF Hear, Heard
        <4>3. \A j \in 1 .. Len(outbox) : outbox[j] \in Events /\ j \in DOMAIN outbox
          BY <1>0
        <4>4. i \in 1 .. Len(outbox) BY <1>0, <1>3, <4>2
        <4>5. CASE i = k
          <5>1. outbox'[k] = [outbox[k] EXCEPT !.heard = @ \cup {link}] BY <4>2, <4>3
          <5>2. QED BY <1>3, <4>3, <4>4, <4>5, <5>1 DEF Events
        <4>6. CASE i # k BY <1>3, <4>2, <4>3, <4>4, <4>6
        <4>7. QED BY <4>5, <4>6
      <3>4. ASSUME NEW r \in Relays, Commit(r)
            PROVE  \/ i \in 1 .. Len(outbox) /\ outbox[i].published
                   \/ i \in relay[r].done
        <4>1. Len(outbox') = Len(outbox)
          <5>1. DOMAIN outbox' = 1 .. Len(outbox) BY <3>4 DEF Commit
          <5>2. outbox' \in Seq(Events) BY <1>0 DEF RowsKept
          <5>3. QED BY <1>0, <5>1, <5>2
        <4>2. i \in 1 .. Len(outbox) BY <1>3, <4>1
        <4>3. outbox[i] \in Events BY <1>0, <4>2
        <4>4. outbox'[i] = [outbox[i] EXCEPT
                       !.published = @ \/ i \in relay[r].done,
                       !.attempts = IF i \in relay[r].failed THEN @ + 1 ELSE @]
          BY <3>4, <4>2 DEF Commit
        <4>5. outbox'[i].published = (outbox[i].published \/ i \in relay[r].done)
          BY <4>3, <4>4 DEF Events
        <4>6. QED BY <1>3, <4>2, <4>5
      <3>5. QED BY <3>1, <3>2, <3>3, <3>4
            DEF OutboxStep, Drain, Published, Die, Throw, Swallow, Note, Elsewhere
    <2>2. i \in 1 .. Len(outbox) /\ Through(i, 7)
      BY <2>1, PublishedIsThrough, HonestRelays DEF HeardInv, Honest, OutboxType
    <2>3. QED BY <1>0, <1>2, <2>2, ThroughKept
  <1>4. PublishedWasHeard'
    BY <1>3, PlacesOfTheChain DEF PublishedWasHeard, Through, Excused
  <1>5. QED BY <1>1, <1>4 DEF HeardInv

-----------------------------------------------------------------------------
(* The waitlist keeps its shape, and what was turned down. *)

Slots == Freeable \cup {None}

\* An offer leaves every other row alone and is of a slot the customer has
\* not turned down.
LEMMA OfferedRows ==
    ASSUME WaitType, now \in Nat, NEW rows, NEW c \in Slots
    PROVE  /\ Offered(rows, c) \in [Entries -> EntryRows]
           /\ \A e \in Entries : \/ Offered(rows, c)[e] = entry[e]
                                 \/ Offered(rows, c)[e].code \notin Offered(rows, c)[e].declined
  <1> DEFINE f == Offered(rows, c)
  <1>1. PICK t \in Nat : t = now + OFFER_TTL BY WaitlistAssumption
  <1>2. ASSUME NEW e \in Entries
        PROVE  /\ f[e] \in EntryRows
               /\ f[e] = entry[e] \/ f[e].code \notin f[e].declined
    <2>1. entry[e] \in EntryRows BY DEF WaitType
    <2>2. CASE e \in PlanOffer(rows, c)
      <3>1. f[e] = [entry[e] EXCEPT !.st = "offered", !.code = c, !.exp = t]
        BY <1>1, <2>2 DEF Offered
      <3>2. c \notin entry[e].declined BY <2>2 DEF PlanOffer, Matches
      <3>3. f[e] \in EntryRows BY <2>1, <3>1 DEF EntryRows, Slots
      <3>4. f[e].code = c /\ f[e].declined = entry[e].declined
        BY <2>1, <3>1 DEF EntryRows
      <3>5. QED BY <3>2, <3>3, <3>4
    <2>3. CASE e \notin PlanOffer(rows, c)
      <3>1. f[e] = entry[e] BY <2>3 DEF Offered
      <3>2. QED BY <2>1, <3>1
    <2>4. QED BY <2>2, <2>3
  <1>3. f = [e \in Entries |-> f[e]] BY DEF Offered
  <1> HIDE DEF f
  <1>4. f \in [Entries -> EntryRows] BY <1>2, <1>3
  <1>5. QED BY <1>2, <1>4 DEF f

\* After an offer the worker is idle or passes the next slot down.
LEMMA NextPass ==
    ASSUME WaitType, NEW w \in Workers
    PROVE  AfterPassing(w) \in Jobs
  <1>1. job[w] \in Jobs BY DEF WaitType
  <1>2. Idle \in Jobs BY DEF Idle, Jobs, JobRecords
  <1>3. CASE job[w].todo = {} BY <1>2, <1>3 DEF AfterPassing
  <1>4. CASE job[w].todo # {}
    <2>1. PICK p : p = CHOOSE x \in job[w].todo : TRUE OBVIOUS
    <2>2. p \in job[w].todo BY <1>4, <2>1
    <2>3. p \in Passes /\ job[w].todo \subseteq Passes BY <1>1, <2>2 DEF Jobs, JobRecords
    <2>4. PICK T : T = job[w].todo \ {p} OBVIOUS
    <2>5. T \subseteq Passes BY <2>3, <2>4
    <2>6. AfterPassing(w) = [Idle EXCEPT !.op = "pass", !.e = p.e, !.c = p.c, !.todo = T]
      BY <1>4, <2>1, <2>4 DEF AfterPassing
    <2>7. QED BY <1>2, <2>3, <2>5, <2>6 DEF Jobs, JobRecords, Passes
  <1>5. QED BY <1>3, <1>4

\* Every step of the waitlist: either the rows stay, or they are rows again and
\* an offer in them is an old one or of a slot not turned down.
LEMMA WaitNext ==
    ASSUME FeedsType, WaitStep
    PROVE  /\ WaitType'
           /\ \A e \in Entries : entry'[e].st = "offered" =>
                \/ entry'[e] = entry[e]
                \/ entry'[e].code \notin entry'[e].declined
  <1> DEFINE Goal == /\ WaitType'
                     /\ \A e \in Entries : entry'[e].st = "offered" =>
                          \/ entry'[e] = entry[e]
                          \/ entry'[e].code \notin entry'[e].declined
  <1>0. /\ entry \in [Entries -> EntryRows] /\ job \in [Workers -> Jobs]
        /\ now \in Nat /\ WaitType
    BY DEF FeedsType, WaitType, OutboxType
  <1>1. Idle \in Jobs BY DEF Idle, Jobs, JobRecords
  \* The four ways the two tables change.
  <1>2. ASSUME entry' = entry, job' \in [Workers -> Jobs] PROVE Goal
    BY <1>0, <1>2 DEF WaitType
  <1>3. ASSUME NEW rows, NEW c \in Slots, entry' = Offered(rows, c),
               job' \in [Workers -> Jobs]
        PROVE  Goal
    BY <1>0, <1>3, OfferedRows DEF WaitType
  <1>4. ASSUME NEW x \in Entries, NEW rec \in EntryRows, rec.st # "offered",
               entry' = [entry EXCEPT ![x] = rec], job' \in [Workers -> Jobs]
        PROVE  Goal
    BY <1>0, <1>4 DEF WaitType
  <1>5. ASSUME NEW w \in Workers, NEW k \in Jobs, job' = [job EXCEPT ![w] = k]
        PROVE  job' \in [Workers -> Jobs]
    BY <1>0, <1>5
  <1> HIDE DEF Goal
  <1>6. ASSUME NEW r \in Relays, ListenClaim(r) PROVE Goal
    <2>1. AtLink(r, "waitlist") /\ relay[r].todo # {} BY <1>6 DEF ListenClaim, AtLink
    <2>2. PICK c : c = Current(r).ref OBVIOUS
    <2>3. c \in Slots
      <3>1. PICK n \in LinksFor(Current(r)) : Chain[n] = "waitlist"
        BY <2>1, TurnIsAhead DEF FeedsType
      <3>2. Hears("waitlist", Current(r)) BY <3>1 DEF LinksFor
      <3>3. QED BY <2>2, <3>2 DEF Hears, Slots
    <2>4. entry' = Offered(relay[r].seen, c) /\ job' = job BY <1>6, <2>2 DEF ListenClaim
    <2>5. QED BY <1>0, <1>3, <2>3, <2>4
  <1>7. ASSUME NEW w \in Workers, OfferClaim(w) PROVE Goal
    <2>1. PICK c \in Slots : c = job[w].c BY <1>0 DEF Jobs, JobRecords, Slots
    <2>2. entry' = Offered(job[w].locked, c) BY <1>7, <2>1 DEF OfferClaim
    <2>3. job' \in [Workers -> Jobs] BY <1>0, <1>5, <1>7, NextPass DEF OfferClaim
    <2>4. QED BY <1>3, <2>2, <2>3
  <1>8. ASSUME NEW w \in Workers, OfferLock(w) PROVE Goal
    <2>1. PICK S \in SUBSET Entries : S = Candidates BY DEF Candidates
    <2>2. PICK k : k = [job[w] EXCEPT !.op = "claim", !.locked = S] OBVIOUS
    <2>3. k \in Jobs BY <1>0, <1>8, <2>2 DEF Jobs, JobRecords, OfferLock
    <2>4. job' = [job EXCEPT ![w] = k] BY <1>8, <2>1, <2>2 DEF OfferLock
    <2>5. QED BY <1>2, <1>5, <1>8, <2>3, <2>4 DEF OfferLock
  <1>9. ASSUME NEW e \in Entries, NEW w \in Workers, AcceptRead(w, e) \/ DeclineRead(w, e)
        PROVE  Goal
    <2>1. PICK c \in Slots : c = entry[e].code BY <1>0 DEF EntryRows, Slots
    <2>2. PICK op \in {"hold", "pass"} :
             job' = [job EXCEPT ![w] = [Idle EXCEPT !.op = op, !.e = e, !.c = c]]
      BY <1>9, <2>1 DEF AcceptRead, DeclineRead, Start
    <2>3. [Idle EXCEPT !.op = op, !.e = e, !.c = c] \in Jobs BY <1>1 DEF Jobs, JobRecords, Slots
    <2>4. job' \in [Workers -> Jobs] BY <1>5, <2>2, <2>3
    <2>5. QED BY <1>2, <1>9, <2>4 DEF AcceptRead, DeclineRead
  <1>10. ASSUME NEW w \in Workers, AcceptHold(w) PROVE Goal
    <2>1. [job[w] EXCEPT !.op = "mark"] \in Jobs BY <1>0, <1>10 DEF Jobs, JobRecords, AcceptHold
    <2>2. \/ job' = [job EXCEPT ![w] = [job[w] EXCEPT !.op = "mark"]]
          \/ job' = [job EXCEPT ![w] = Idle]
      BY <1>10 DEF AcceptHold
    <2>3. job' \in [Workers -> Jobs] BY <1>1, <1>5, <2>1, <2>2
    <2>4. QED BY <1>2, <1>10, <2>3 DEF AcceptHold
  <1>11. ASSUME NEW w \in Workers, AcceptMark(w) PROVE Goal
    <2>1. job' \in [Workers -> Jobs] BY <1>1, <1>5, <1>11 DEF AcceptMark
    <2>2. PICK x : x = job[w].e OBVIOUS
    <2>3. entry' = [entry EXCEPT ![x].st = IF @ = "offered" THEN "accepted" ELSE @]
      BY <1>11, <2>2 DEF AcceptMark
    <2>4. CASE x \in Entries
      <3>1. PICK st : st = IF entry[x].st = "offered" THEN "accepted" ELSE entry[x].st
        OBVIOUS
      <3>2. PICK rec : rec = [entry[x] EXCEPT !.st = st] OBVIOUS
      <3>3. rec \in EntryRows /\ rec.st # "offered" BY <1>0, <2>4, <3>1, <3>2 DEF EntryRows
      <3>4. entry' = [entry EXCEPT ![x] = rec] BY <2>3, <3>1, <3>2
      <3>5. QED BY <1>4, <2>1, <2>4, <3>3, <3>4
    <2>5. CASE x \notin Entries
      <3>1. entry' = entry BY <1>0, <2>3, <2>5
      <3>2. QED BY <1>2, <2>1, <3>1
    <2>6. QED BY <2>4, <2>5
  <1>12. ASSUME NEW w \in Workers, PassRead(w) PROVE Goal
    <2>1. job[w] \in Jobs /\ job[w].op = "pass" BY <1>0, <1>12 DEF PassRead
    <2>2. job[w].e \in Entries BY <2>1 DEF Jobs
    <2>3. PICK n \in Nat : n = entry[job[w].e].count BY <1>0, <2>2 DEF EntryRows
    <2>4. [job[w] EXCEPT !.op = "write", !.count = n] \in Jobs
      BY <2>1, <2>2 DEF Jobs, JobRecords
    <2>5. job' = [job EXCEPT ![w] = [job[w] EXCEPT !.op = "write", !.count = n]]
      BY <1>12, <2>3 DEF PassRead
    <2>6. QED BY <1>2, <1>5, <1>12, <2>4, <2>5 DEF PassRead
  <1>13. ASSUME NEW w \in Workers, PassWrite(w) PROVE Goal
    <2>1. [job[w] EXCEPT !.op = "offer"] \in Jobs BY <1>0, <1>13 DEF Jobs, JobRecords, PassWrite
    <2>2. job' \in [Workers -> Jobs] BY <1>5, <1>13, <2>1 DEF PassWrite
    <2>3. PICK x : x = job[w].e OBVIOUS
    <2>4. entry' = [entry EXCEPT ![x] = Passed(w)] BY <1>13, <2>3 DEF PassWrite
    <2>5. CASE x \in Entries
      <3>1. PICK n \in Nat : n = job[w].count + 1 BY <1>0 DEF Jobs, JobRecords
      <3>2. PICK st \in {"left", "waiting"} : st = Decline(job[w].count) BY DEF Decline
      <3>3. PICK D \in SUBSET Slots : D = entry[x].declined \cup {job[w].c}
        BY <1>0, <2>5 DEF EntryRows, Jobs, JobRecords, Slots
      <3>4. PICK rec : rec = [entry[x] EXCEPT !.st = st, !.count = n, !.declined = D,
                                              !.code = None, !.exp = 0]
        OBVIOUS
      <3>5. rec \in EntryRows /\ rec.st # "offered"
        BY <1>0, <2>5, <3>4 DEF EntryRows, Slots
      <3>6. Passed(w) = rec BY <2>3, <3>1, <3>2, <3>3, <3>4 DEF Passed
      <3>7. QED BY <1>4, <2>2, <2>4, <2>5, <3>5, <3>6
    <2>6. CASE x \notin Entries
      <3>1. entry' = entry BY <1>0, <2>4, <2>6
      <3>2. QED BY <1>2, <2>2, <3>1
    <2>7. QED BY <2>5, <2>6
  <1>14. ASSUME NEW w \in Workers, Sweep(w) PROVE Goal
    <2>1. PICK L \in SUBSET Entries :
             /\ entry' = [e \in Entries |->
                  IF e \in L THEN [entry[e] EXCEPT !.st = "waiting"] ELSE entry[e]]
             /\ \E first \in {[e |-> e, c |-> entry[e].code] : e \in L} :
                  job' = [job EXCEPT ![w] =
                    [Idle EXCEPT !.op = "pass", !.e = first.e, !.c = first.c,
                       !.todo = {[e |-> e, c |-> entry[e].code] : e \in L} \ {first}]]
      BY <1>14 DEF Sweep
    <2>2. PICK P : P = {[e |-> e, c |-> entry[e].code] : e \in L} OBVIOUS
    <2>3. P \subseteq Passes BY <1>0, <2>1, <2>2 DEF EntryRows, Passes
    <2>4. PICK first \in P :
             job' = [job EXCEPT ![w] =
                [Idle EXCEPT !.op = "pass", !.e = first.e, !.c = first.c,
                             !.todo = P \ {first}]]
      BY <2>1, <2>2
    <2>5. PICK T \in SUBSET Passes : T = P \ {first} BY <2>3
    <2>6. [Idle EXCEPT !.op = "pass", !.e = first.e, !.c = first.c, !.todo = T] \in Jobs
      BY <1>1, <2>3 DEF Jobs, JobRecords, Passes
    <2>7. job' \in [Workers -> Jobs] BY <1>5, <2>4, <2>5, <2>6
    <2>8. ASSUME NEW e \in Entries
          PROVE  entry'[e] \in EntryRows /\ (entry'[e].st = "offered" => entry'[e] = entry[e])
      BY <1>0, <2>1 DEF EntryRows
    <2>9. entry' \in [Entries -> EntryRows]
      <3>1. entry' = [e \in Entries |-> entry'[e]] BY <2>1
      <3>2. QED BY <2>8, <3>1
    <2>10. QED BY <2>7, <2>8, <2>9 DEF Goal, WaitType
  <1>15. ASSUME NEW w \in Workers, WorkerDies(w) PROVE Goal
    BY <1>1, <1>2, <1>5, <1>15 DEF WorkerDies
  <1>16. ASSUME NEW e \in Entries, Join(e) PROVE Goal
    <2>0. PICK S \in SUBSET Entries : S = {f \in Entries : entry[f].st # "none"}
      OBVIOUS
    <2>1. PICK n \in Nat : n = Cardinality(S) + 1
      <3>1. IsFiniteSet(Entries) BY WaitlistAssumption
      <3>2. IsFiniteSet(S) BY <3>1, FS_Subset
      <3>3. Cardinality(S) \in Nat BY <3>2, FS_CardinalityType
      <3>4. QED BY <3>3
    <2>2. PICK rec : rec = [Absent EXCEPT !.st = "waiting", !.joined = n] OBVIOUS
    <2>3. rec \in EntryRows /\ rec.st # "offered" BY <2>1, <2>2 DEF EntryRows, Absent
    <2>4. entry' = [entry EXCEPT ![e] = rec] /\ job' = job
      BY <1>16, <2>0, <2>1, <2>2 DEF Join
    <2>5. QED BY <1>0, <1>4, <2>3, <2>4
  <1>17. ASSUME NEW e \in Entries, Leave(e) PROVE Goal
    <2>1. PICK rec : rec = [entry[e] EXCEPT !.st = "left"] OBVIOUS
    <2>2. rec \in EntryRows /\ rec.st # "offered" BY <1>0, <2>1 DEF EntryRows
    <2>3. QED BY <1>0, <1>4, <1>17, <2>1, <2>2 DEF Leave
  <1>18. ASSUME \/ \E r \in Relays : ListenLock(r) \/ ListenSwallow(r)
                \/ \E c \in Freeable : FreeSlot(c) \/ Resold(c)
         PROVE  Goal
    BY <1>0, <1>2, <1>18 DEF ListenLock, ListenSwallow, FreeSlot, Resold, waitVars
  <1>19. Goal
    BY <1>6, <1>7, <1>8, <1>9, <1>10, <1>11, <1>12, <1>13, <1>14, <1>15, <1>16,
       <1>17, <1>18 DEF WaitStep
  <1>20. QED BY <1>19 DEF Goal

-----------------------------------------------------------------------------
(* Reminders, the party and the deliveries keep their shape. *)

LEMMA RemindNext ==
    ASSUME FeedsType, RemindStep
    PROVE  RemindType'
  <1>0. /\ visit \in [Visits -> VisitRows] /\ plan \in [Planners -> Plans]
        /\ now \in Nat /\ StartTimes \subseteq Nat
        /\ \A p \in Planners : plan[p] # NoPlan => plan[p].b \in Visits
    BY RemindersAssumption DEF FeedsType, RemindType, OutboxType
  <1>1. ASSUME NEW b \in Visits, NEW rec \in VisitRows, visit' = [visit EXCEPT ![b] = rec]
        PROVE  visit' \in [Visits -> VisitRows]
    BY <1>0, <1>1
  <1>2. ASSUME NEW p \in Planners, plan' = [plan EXCEPT ![p] = NoPlan]
        PROVE  /\ plan' \in [Planners -> Plans]
               /\ \A q \in Planners : plan'[q] # NoPlan => plan'[q].b \in Visits
    <2>1. NoPlan \in Plans BY DEF NoPlan, Plans
    <2>2. QED BY <1>0, <1>2, <2>1
  <1>3. ASSUME NEW b \in Visits, NEW t \in LadderRungs \cup {"chosen"}, NEW v \in BOOLEAN
        PROVE  [visit[b] EXCEPT !.stamp[t] = v] \in VisitRows
    <2>1. PICK st : st = [visit[b].stamp EXCEPT ![t] = v] OBVIOUS
    <2>2. st \in [LadderRungs \cup {"chosen"} -> BOOLEAN] BY <1>0, <2>1 DEF VisitRows
    <2>3. [visit[b] EXCEPT !.stamp[t] = v] = [visit[b] EXCEPT !.stamp = st] BY <2>1
    <2>4. [visit[b] EXCEPT !.stamp = st] \in VisitRows BY <1>0, <2>2 DEF VisitRows
    <2>5. QED BY <2>3, <2>4
  <1>4. ASSUME NEW b \in Visits, NEW i \in 1 .. Len(LADDER), RunRung(b, i)
        PROVE  RemindType'
    <2>1. PICK t \in LadderRungs \cup {"chosen"} : t = LADDER[i].rung BY RungsAreTypes
    <2>2. PICK v \in BOOLEAN : v = (ClaimVerdict(b, i) # "release") OBVIOUS
    <2>3. visit' = [visit EXCEPT ![b] = [visit[b] EXCEPT !.stamp[t] = v]]
      BY <1>4, <2>1, <2>2 DEF RunRung
    <2>4. visit' \in [Visits -> VisitRows] BY <1>1, <1>3, <2>3
    <2>5. plan' = plan BY <1>4 DEF RunRung
    <2>6. QED BY <1>0, <2>4, <2>5 DEF RemindType
  <1>5. ASSUME NEW b \in Visits, ManualRemind(b) PROVE RemindType'
    <2>1. PICK t \in LadderRungs \cup {"chosen"} : t = LADDER[1].rung BY RungsAreTypes
    <2>2. PICK rec : rec = [visit[b] EXCEPT !.stamp[t] = TRUE] OBVIOUS
    <2>3. rec \in VisitRows BY <1>3, <2>2
    <2>4. visit' = [visit EXCEPT ![b] = [rec EXCEPT !.touched = now]]
      BY <1>5, <2>1, <2>2 DEF ManualRemind
    <2>5. [rec EXCEPT !.touched = now] \in VisitRows BY <1>0, <2>3 DEF VisitRows
    <2>6. visit' \in [Visits -> VisitRows] BY <1>1, <2>4, <2>5
    <2>7. plan' = plan BY <1>5 DEF ManualRemind
    <2>8. QED BY <1>0, <2>6, <2>7 DEF RemindType
  <1>6. ASSUME NEW p \in Planners, NEW b \in Visits, ChosenRead(p, b) PROVE RemindType'
    <2>1. PICK k : k = [b |-> b, start |-> visit[b].start, touched |-> visit[b].touched,
                        at |-> now]
      OBVIOUS
    <2>2. k \in Plans /\ k.b \in Visits BY <1>0, <2>1 DEF Plans, VisitRows
    <2>3. plan' = [plan EXCEPT ![p] = k] /\ visit' = visit BY <1>6, <2>1 DEF ChosenRead
    <2>4. QED BY <1>0, <2>2, <2>3 DEF RemindType
  <1>7. ASSUME NEW p \in Planners, NEW lead \in Leads, ClaimChosen(p, lead)
        PROVE  RemindType'
    <2>1. PICK b \in Visits : b = plan[p].b BY <1>0, <1>7 DEF ClaimChosen
    <2>2. \/ visit' = visit
          \/ visit' = [visit EXCEPT ![b] = [visit[b] EXCEPT !.stamp["chosen"] = TRUE]]
      BY <1>7, <2>1 DEF ClaimChosen
    <2>3. visit' \in [Visits -> VisitRows] BY <1>0, <1>1, <1>3, <2>2
    <2>4. plan' = [plan EXCEPT ![p] = NoPlan] BY <1>7 DEF ClaimChosen
    <2>5. QED BY <1>2, <2>3, <2>4 DEF RemindType
  <1>8. ASSUME NEW p \in Planners, ChosenUnavailable(p) PROVE RemindType'
    <2>1. visit' = visit /\ plan' = [plan EXCEPT ![p] = NoPlan]
      BY <1>8 DEF ChosenUnavailable
    <2>2. QED BY <1>0, <1>2, <2>1 DEF RemindType
  <1>9. ASSUME NEW b \in Visits, VisitCancelled(b) PROVE RemindType'
    <2>1. [visit[b] EXCEPT !.st = "cancelled", !.touched = now] \in VisitRows
      BY <1>0 DEF VisitRows
    <2>2. visit' = [visit EXCEPT ![b] = [visit[b] EXCEPT !.st = "cancelled", !.touched = now]]
      BY <1>9 DEF VisitCancelled
    <2>3. visit' \in [Visits -> VisitRows] BY <1>1, <2>1, <2>2
    <2>4. plan' = plan BY <1>9 DEF VisitCancelled
    <2>5. QED BY <1>0, <2>3, <2>4 DEF RemindType
  <1>10. ASSUME NEW b \in Visits, NEW s \in StartTimes, VisitMoved(b, s) PROVE RemindType'
    <2>1. PICK n \in Nat : n = visit[b].moves + 1 BY <1>0 DEF VisitRows
    <2>2. Unstamped \in [LadderRungs \cup {"chosen"} -> BOOLEAN] BY DEF Unstamped
    <2>3. PICK rec : rec = [visit[b] EXCEPT !.start = s, !.moves = n, !.touched = now,
                                           !.stamp = Unstamped]
      OBVIOUS
    <2>4. rec \in VisitRows BY <1>0, <2>2, <2>3 DEF VisitRows
    <2>5. visit' = [visit EXCEPT ![b] = rec] BY <1>10, <2>1, <2>3 DEF VisitMoved
    <2>6. visit' \in [Visits -> VisitRows] BY <1>1, <2>4, <2>5
    <2>7. plan' = plan BY <1>10 DEF VisitMoved
    <2>8. QED BY <1>0, <2>6, <2>7 DEF RemindType
  <1>11. QED BY <1>4, <1>5, <1>6, <1>7, <1>8, <1>9, <1>10 DEF RemindStep, Awaited

LEMMA GroupNext ==
    ASSUME FeedsType, GroupStep
    PROVE  GroupType'
  <1>0. lane \in [Lanes -> LaneStatuses] /\ party \in Derived
    BY DEF FeedsType, GroupType
  <1>1. ASSUME NEW r \in Relays, RederiveWrite(r) PROVE GroupType'
    <2>1. PICK link \in Links : AtLink(r, link) /\ relay[r].seen \in NotesOf(link)
      BY <1>1 DEF RederiveWrite, FeedsType, OutboxType
    <2>2. link = "group" BY <1>1, <2>1 DEF RederiveWrite, AtLink
    <2>3. relay[r].seen.due \in Derived BY <2>1, <2>2 DEF NotesOf
    <2>4. lane' = lane /\ party' \in {party, relay[r].seen.due} BY <1>1 DEF RederiveWrite
    <2>5. QED BY <1>0, <2>3, <2>4 DEF GroupType
  <1>2. ASSUME NEW l \in Lanes, NEW to \in {"confirmed", "checked_in", "cancelled"},
               LaneMoves(l, to)
        PROVE  GroupType'
    <2>1. lane' = [lane EXCEPT ![l] = to] /\ party' = party BY <1>2 DEF LaneMoves
    <2>2. lane' \in [Lanes -> LaneStatuses] BY <1>0, <2>1 DEF LaneStatuses
    <2>3. QED BY <1>0, <2>1, <2>2 DEF GroupType
  <1>3. ASSUME NEW r \in Relays, RederiveRead(r) \/ RederiveTell(r) \/ RederiveSwallow(r)
        PROVE  GroupType'
    <2>1. lane' = lane /\ party' = party
      BY <1>3 DEF RederiveRead, RederiveTell, RederiveSwallow, groupVars
    <2>2. QED BY <1>0, <2>1 DEF GroupType
  <1>4. QED BY <1>1, <1>2, <1>3 DEF GroupStep

\* What settle() says of an attempt: a retry is never before the attempt.
LEMMA SettledResult ==
    ASSUME NEW o \in Outcomes, NEW attempt \in Nat \ {0}, NEW at \in Nat, NEW exp \in Nat
    PROVE  /\ Settle(o, attempt, at, exp).st \in Results
           /\ Settle(o, attempt, at, exp).next \in Nat
           /\ Settle(o, attempt, at, exp).st = "pending" =>
                Settle(o, attempt, at, exp).next >= at
  <1>1. CASE o = "retry" /\ attempt < DELIVERY_TRIES
    <2>1. PICK d \in Nat : d = RetryDelay[attempt] BY <1>1, DeliveriesAssumption
    <2>2. Settle(o, attempt, at, exp) = IF at + d >= exp THEN [st |-> "failed", next |-> 0]
                                        ELSE [st |-> "pending", next |-> at + d]
      BY <1>1, <2>1, DeliveriesAssumption DEF Settle
    <2>3. QED BY <2>2 DEF Results
  <1>2. CASE o = "retry" /\ attempt >= DELIVERY_TRIES
    <2>1. Settle(o, attempt, at, exp) = [st |-> "failed", next |-> 0]
      BY <1>2, DeliveriesAssumption DEF Settle
    <2>2. QED BY <2>1 DEF Results
  <1>3. CASE o # "retry"
    <2>1. Settle(o, attempt, at, exp) = [st |-> o, next |-> 0] BY <1>3 DEF Settle
    <2>2. QED BY <1>3, <2>1 DEF Results, Outcomes
  <1>4. QED BY <1>1, <1>2, <1>3, DeliveriesAssumption

\* Whatever the channel and the lookup, a provider's outcome comes back.
LEMMA ChannelsAnswer ==
    ASSUME NEW ch, NEW who \in Lookups, NEW o \in Outcomes
    PROVE  SendBy(ch, who, o) \in Outcomes
  BY DEF SendBy, SendPush, SendEmail, Outcomes, Lookups

\* What a dispatcher brings back from an attempt.
Back(w, out, next) ==
    /\ out \in Results /\ next \in Nat
    /\ out = "pending" => next >= sender[w].at
    /\ sender' = [sender EXCEPT ![w].op = "sent", ![w].out = out, ![w].next = next]
    /\ delivery' = delivery

LEMMA DispatchBringsBack ==
    ASSUME SendType, NEW w \in Senders, NEW who \in Lookups, NEW o \in Outcomes,
           DispatchOne(w, who, o)
    PROVE  sender[w] # Free /\ \E out, next : Back(w, out, next)
  <1>1. sender[w] # Free BY DEF DispatchOne, Free
  <1>2. /\ <<sender[w].i, sender[w].ch>> \in Rows /\ sender[w].attempt \in Nat \ {0}
        /\ sender[w].at \in Nat
    BY <1>1 DEF SendType, Claims
  <1>3. PICK row \in DeliveryRows : row = delivery[<<sender[w].i, sender[w].ch>>]
    BY <1>2 DEF SendType
  <1>4. row.exp \in Nat BY DEF DeliveryRows
  <1> DEFINE e == outbox[sender[w].i]
             expired == sender[w].at >= row.exp \/ sender[w].at = MaxTime
             ready == IF sender[w].ch = "hub" THEN HubReadiness(e, expired)
                      ELSE Readiness(e.ref, e.at, expired, sender[w].attempt)
             answer == SendBy(sender[w].ch, who, o)
             result == IF ready # "go" THEN [st |-> ready, next |-> 0]
                       ELSE Settle(answer, sender[w].attempt, sender[w].at, row.exp)
  <1>5. /\ sender' = [sender EXCEPT ![w].op = "sent", ![w].out = result.st,
                                    ![w].next = result.next]
        /\ delivery' = delivery
    BY <1>3 DEF DispatchOne
  <1>6. ready \in {"skipped", "superseded", "failed", "go"}
    BY DEF HubReadiness, Readiness
  <1>7. answer \in Outcomes BY ChannelsAnswer
  <1> HIDE DEF ready, answer, e, expired
  <1>8. /\ result.st \in Results /\ result.next \in Nat
        /\ result.st = "pending" => result.next >= sender[w].at
    <2>1. CASE ready # "go" BY <1>6, <2>1 DEF Results
    <2>2. CASE ready = "go"
      BY <1>2, <1>4, <1>7, <2>2, SettledResult
    <2>3. QED BY <2>1, <2>2
  <1> HIDE DEF result
  <1>9. QED BY <1>1, <1>5, <1>8 DEF Back

\* What a link hands over: rows that were not there.
Queue(i, chans, exp) ==
    /\ exp \in Nat
    /\ delivery' = Enqueued(i, chans, exp) /\ sender' = sender

LEMMA LinksQueue ==
    ASSUME FeedsType, NEW r \in Relays, ListenHub(r) \/ ListenReminder(r)
    PROVE  \E i, chans, exp : Queue(i, chans, exp)
  <1>0. OutboxType /\ now \in Nat BY DEF FeedsType, OutboxType
  <1>1. relay[r].todo # {} BY DEF ListenHub, ListenReminder, AtLink
  <1>2. PICK e \in Events : e = Current(r) BY <1>0, <1>1, InHandIsARow
  <1>3. CASE ListenHub(r)
    <2>1. PICK x : x = IF e.type = "chosen" THEN e.at ELSE now + HUB_WITHIN OBVIOUS
    <2>2. x \in Nat BY <1>0, <2>1, DeliveriesAssumption DEF Events
    <2>3. Queue(InHand(r), {"hub"}, x) BY <1>2, <1>3, <2>1, <2>2 DEF ListenHub, Queue
    <2>4. QED BY <2>3
  <1>4. CASE ListenReminder(r)
    <2>1. e.type \in LadderRungs
      <3>1. PICK n \in LinksFor(e) : Chain[n] = "reminder"
        BY <1>0, <1>2, <1>4, TurnIsAhead DEF ListenReminder
      <3>2. e.type \in Rungs BY <3>1 DEF LinksFor, Hears
      <3>3. QED BY <3>2 DEF Events, EventTypes, Rungs, BookingEvents, FREES_A_SLOT
    <2>2. PICK i \in 1 .. Len(LADDER) : i = CHOOSE j \in 1 .. Len(LADDER) : LADDER[j].rung = e.type
      BY <2>1 DEF LadderRungs
    <2>3. ExpiryOf(e) \in Nat
      <3>1. \A j \in 1 .. Len(LADDER) : LADDER[j].lead \in Nat
        <4> DEFINE R == [rung : Rungs, lead : Nat, channels : SUBSET STRING]
        <4>1. LADDER \in Seq(R) BY RemindersAssumption
        <4> HIDE DEF R
        <4>2. \A j \in 1 .. Len(LADDER) : LADDER[j] \in R BY <4>1
        <4>3. QED BY <4>2 DEF R
      <3>2. Len(LADDER) \in Nat BY RemindersAssumption
      <3>3. NextLead(i) \in Nat BY <3>1, <3>2 DEF NextLead
      <3>4. e.at \in Nat BY DEF Events
      <3>5. WindowClose(i, e.at) \in Nat BY <3>3, <3>4 DEF WindowClose
      <3>6. QED BY <2>2, <3>4, <3>5 DEF ExpiryOf
    <2>4. Queue(InHand(r), ChannelsOf(e), ExpiryOf(e))
      BY <1>2, <1>4, <2>3 DEF ListenReminder, Queue
    <2>5. QED BY <2>4
  <1>5. QED BY <1>3, <1>4

\* A row that was there is untouched; a new one has no attempts.
LEMMA QueuedRows ==
    ASSUME SendType, now \in Nat, NEW i, NEW chans, NEW exp, Queue(i, chans, exp)
    PROVE  /\ delivery' \in [Rows -> DeliveryRows]
           /\ \A k \in Rows : delivery[k].st # "none" => delivery'[k] = delivery[k]
  <1>0. delivery \in [Rows -> DeliveryRows] BY DEF SendType
  <1>1. [st |-> "pending", attempts |-> 0, next |-> now, exp |-> exp] \in DeliveryRows
    BY DEF Queue, DeliveryRows, Results
  <1>2. \A k \in Rows : /\ delivery'[k] \in DeliveryRows
                        /\ delivery[k].st # "none" => delivery'[k] = delivery[k]
    BY <1>0, <1>1 DEF Queue, Enqueued
  <1>3. delivery' = [k \in Rows |-> delivery'[k]] BY <1>0 DEF Queue, Enqueued
  <1>4. delivery' \in [Rows -> DeliveryRows]
    BY <1>2, <1>3
  <1>5. QED BY <1>2, <1>4

\* The steps of the deliveries.
SendMoves ==
    \/ \E i, chans, exp : Queue(i, chans, exp)
    \/ UNCHANGED sendVars
    \/ \E w \in Senders : \/ \E k \in Rows : ClaimDue(w, k)
                          \/ sender[w] # Free /\ \E out, next : Back(w, out, next)
                          \/ Record(w) \/ SenderDies(w)

LEMMA SendSteps ==
    ASSUME FeedsType, SendStep
    PROVE  SendMoves
  <1>0. SendType /\ DOMAIN delivery = Rows BY DEF FeedsType, SendType
  <1>1. ASSUME NEW r \in Relays, ListenHub(r) \/ ListenReminder(r) PROVE SendMoves
    BY <1>1, LinksQueue DEF SendMoves
  <1>2. ASSUME NEW r \in Relays, ListenThrow(r) PROVE SendMoves
    BY <1>2 DEF ListenThrow, SendMoves
  <1>3. ASSUME NEW w \in Senders, NEW who \in Lookups, NEW o \in Outcomes,
               DispatchOne(w, who, o)
        PROVE  SendMoves
    BY <1>0, <1>3, DispatchBringsBack DEF SendMoves
  <1>4. ASSUME NEW w \in Senders,
               (\E k \in DOMAIN delivery : ClaimDue(w, k)) \/ Record(w) \/ SenderDies(w)
        PROVE  SendMoves
    BY <1>0, <1>4 DEF SendMoves
  <1>5. QED BY <1>1, <1>2, <1>3, <1>4 DEF SendStep

\* What a claim writes, and a record.
LEMMA ClaimEffect ==
    ASSUME SendType, now \in Nat, NEW w \in Senders, NEW k \in Rows, ClaimDue(w, k)
    PROVE  \E n \in Nat, c \in Claims, row \in DeliveryRows :
             /\ n = delivery[k].attempts + 1
             /\ row = [delivery[k] EXCEPT !.attempts = n, !.next = now + DISPATCH_LEASE]
             /\ row.st = "pending" /\ row.attempts = n /\ row.next = now + DISPATCH_LEASE
             /\ delivery' = [delivery EXCEPT ![k] = row]
             /\ c # Free /\ <<c.i, c.ch>> = k /\ c.attempt = n /\ c.at = now
             /\ c.op = "claimed"
             /\ sender' = [sender EXCEPT ![w] = c]
             /\ now' = now
  <1>0. delivery \in [Rows -> DeliveryRows] BY DEF SendType
  <1>1. PICK n \in Nat : n = delivery[k].attempts + 1 BY <1>0 DEF DeliveryRows
  <1>2. PICK l \in Nat : l = now + DISPATCH_LEASE BY DeliveriesAssumption
  <1>3. PICK row : row = [delivery[k] EXCEPT !.attempts = n, !.next = l] OBVIOUS
  <1>4. /\ row \in DeliveryRows /\ row.st = delivery[k].st /\ row.attempts = n
        /\ row.next = l
    BY <1>0, <1>3 DEF DeliveryRows
  <1>5. delivery[k].st = "pending" BY DEF ClaimDue, DueRow
  <1>6. delivery' = [delivery EXCEPT ![k] = row] BY <1>1, <1>2, <1>3 DEF ClaimDue
  <1>7. k[1] \in Nat /\ k[2] \in Channels /\ k = <<k[1], k[2]>>
    BY OutboxAssumption DEF Rows
  <1>8. PICK c : c = [Free EXCEPT !.op = "claimed", !.i = k[1], !.ch = k[2],
                                  !.attempt = n, !.at = now]
    OBVIOUS
  <1>9. /\ c.op = "claimed" /\ c.i = k[1] /\ c.ch = k[2] /\ c.attempt = n /\ c.at = now
        /\ c \in Claims
    BY <1>7, <1>8 DEF Free, Claims, Results
  <1>10. c # Free BY <1>9 DEF Free
  <1>11. sender' = [sender EXCEPT ![w] = c] BY <1>1, <1>8 DEF ClaimDue
  <1>12. now' = now BY DEF ClaimDue, outboxVars
  <1>13. /\ n = delivery[k].attempts + 1
         /\ row = [delivery[k] EXCEPT !.attempts = n, !.next = now + DISPATCH_LEASE]
         /\ row.st = "pending" /\ row.attempts = n /\ row.next = now + DISPATCH_LEASE
    BY <1>1, <1>2, <1>3, <1>4, <1>5
  <1>14. <<c.i, c.ch>> = k BY <1>7, <1>9
  <1>15. QED BY <1>4, <1>6, <1>9, <1>10, <1>11, <1>12, <1>13, <1>14

LEMMA RecordEffect ==
    ASSUME SendType, NEW w \in Senders, Record(w)
    PROVE  /\ sender[w] # Free /\ sender' = [sender EXCEPT ![w] = Free] /\ now' = now
           /\ \/ delivery' = delivery
              \/ \E row \in DeliveryRows :
                   /\ delivery' = [delivery EXCEPT ![Row(w)] = row]
                   /\ row.st # "none" /\ row.attempts = delivery[Row(w)].attempts
                   /\ sender[w].attempt = delivery[Row(w)].attempts
                   /\ delivery[Row(w)].st = "pending"
                   /\ row.st = "pending" =>
                        sender[w].out = "pending" /\ row.next = sender[w].next
  <1>1. sender[w].op = "sent" BY DEF Record
  <1>2. sender[w] # Free BY <1>1 DEF Free
  <1>3. sender' = [sender EXCEPT ![w] = Free] /\ now' = now BY DEF Record, outboxVars
  <1>4. PICK k \in Rows : k = Row(w) BY <1>2 DEF SendType, Row
  <1>5. PICK out \in Results : out = sender[w].out BY <1>1, <1>2 DEF SendType
  <1>6. PICK n \in Nat : n = sender[w].next BY DEF SendType, Claims
  <1>7. delivery[k] \in DeliveryRows BY DEF SendType
  <1>8. CASE ~Recordable(w, delivery[k])
    BY <1>2, <1>3, <1>4, <1>8 DEF Record, Row
  <1>9. CASE Recordable(w, delivery[k])
    <2>1. delivery[k].st = "pending" /\ delivery[k].attempts = sender[w].attempt
      BY <1>9 DEF Recordable
    <2>2. PICK row : row = IF out = "pending" THEN [delivery[k] EXCEPT !.next = n]
                           ELSE [delivery[k] EXCEPT !.st = out]
      OBVIOUS
    <2>3. delivery' = [delivery EXCEPT ![k] = row]
      BY <1>4, <1>5, <1>6, <1>9, <2>2 DEF Record, Row
    <2>4. CASE out = "pending"
      <3>1. row \in DeliveryRows /\ row.st = "pending" /\ row.next = n
            /\ row.attempts = delivery[k].attempts
        BY <1>7, <2>1, <2>2, <2>4 DEF DeliveryRows
      <3>2. QED BY <1>2, <1>3, <1>4, <1>5, <1>6, <2>1, <2>3, <2>4, <3>1
    <2>5. CASE out # "pending"
      <3>1. row \in DeliveryRows /\ row.st = out /\ row.attempts = delivery[k].attempts
        BY <1>7, <2>2, <2>5 DEF DeliveryRows
      <3>2. out # "none" BY DEF Results
      <3>3. QED BY <1>2, <1>3, <1>4, <2>1, <2>3, <2>5, <3>1, <3>2
    <2>6. QED BY <2>4, <2>5
  <1>10. QED BY <1>8, <1>9

\* What is brought back is in the dispatcher's record, and nothing else.
LEMMA BackEffect ==
    ASSUME SendType, NEW w \in Senders, sender[w] # Free, NEW out, NEW next,
           Back(w, out, next)
    PROVE  \E c \in Claims :
             /\ sender' = [sender EXCEPT ![w] = c] /\ delivery' = delivery
             /\ c # Free /\ c.i = sender[w].i /\ c.ch = sender[w].ch
             /\ c.attempt = sender[w].attempt /\ c.at = sender[w].at
             /\ c.out = out /\ c.next = next /\ out \in Results
             /\ out = "pending" => next >= c.at
  <1>1. PICK c : c = [sender[w] EXCEPT !.op = "sent", !.out = out, !.next = next]
    OBVIOUS
  <1>2. /\ c \in Claims /\ c.i = sender[w].i /\ c.ch = sender[w].ch
        /\ c.attempt = sender[w].attempt /\ c.at = sender[w].at
        /\ c.out = out /\ c.next = next /\ c.op = "sent"
    BY <1>1 DEF SendType, Claims, Back
  <1>3. c # Free BY <1>2 DEF Free
  <1>4. sender' = [sender EXCEPT ![w] = c] /\ delivery' = delivery BY <1>1 DEF Back
  <1>5. QED BY <1>2, <1>3, <1>4 DEF Back

LEMMA SendTypeNext ==
    ASSUME SendType, now \in Nat, SendMoves
    PROVE  SendType'
  <1> DEFINE Fits(c) == c # Free => /\ <<c.i, c.ch>> \in Rows /\ c.attempt >= 1
                                    /\ c.op = "sent" => c.out \in Results
  <1>0. /\ delivery \in [Rows -> DeliveryRows] /\ sender \in [Senders -> Claims]
        /\ \A w \in Senders : Fits(sender[w])
    BY DEF SendType
  <1>1. Free \in Claims /\ Fits(Free) BY DEF Free, Claims, Results
  <1>2. ASSUME delivery' \in [Rows -> DeliveryRows], sender' = sender PROVE SendType'
    BY <1>0, <1>2 DEF SendType
  <1>3. ASSUME delivery' \in [Rows -> DeliveryRows], NEW w \in Senders, NEW c \in Claims,
               Fits(c), sender' = [sender EXCEPT ![w] = c]
        PROVE  SendType'
    <2>1. sender' \in [Senders -> Claims] BY <1>0, <1>3
    <2>2. \A v \in Senders : Fits(sender'[v]) BY <1>0, <1>3
    <2>3. QED BY <1>3, <2>1, <2>2 DEF SendType
  <1>4. ASSUME NEW i, NEW chans, NEW exp, Queue(i, chans, exp) PROVE SendType'
    BY <1>2, <1>4, QueuedRows DEF Queue
  <1>5. ASSUME UNCHANGED sendVars PROVE SendType'
    <2>1. delivery' = delivery /\ sender' = sender BY <1>5 DEF sendVars
    <2>2. QED BY <1>0, <1>2, <2>1
  <1>6. ASSUME NEW w \in Senders, NEW k \in Rows, ClaimDue(w, k) PROVE SendType'
    <2>1. PICK n \in Nat, c \in Claims, row \in DeliveryRows :
             /\ n = delivery[k].attempts + 1
             /\ row = [delivery[k] EXCEPT !.attempts = n, !.next = now + DISPATCH_LEASE]
             /\ row.st = "pending" /\ row.attempts = n /\ row.next = now + DISPATCH_LEASE
             /\ delivery' = [delivery EXCEPT ![k] = row]
             /\ c # Free /\ <<c.i, c.ch>> = k /\ c.attempt = n /\ c.at = now
             /\ c.op = "claimed"
             /\ sender' = [sender EXCEPT ![w] = c]
             /\ now' = now
      BY <1>6, ClaimEffect
    <2>2. c.attempt >= 1 BY <1>0, <2>1 DEF DeliveryRows
    <2>3. Fits(c) BY <2>1, <2>2
    <2>4. delivery' \in [Rows -> DeliveryRows] BY <1>0, <2>1
    <2>5. QED BY <1>3, <2>1, <2>3, <2>4
  <1>7. ASSUME NEW w \in Senders, sender[w] # Free, NEW out, NEW next,
               Back(w, out, next)
        PROVE  SendType'
    <2>1. PICK c \in Claims :
             /\ sender' = [sender EXCEPT ![w] = c] /\ delivery' = delivery
             /\ c.i = sender[w].i /\ c.ch = sender[w].ch
             /\ c.attempt = sender[w].attempt /\ c.out = out /\ out \in Results
      BY <1>7, BackEffect
    <2>2. Fits(c) BY <1>0, <1>7, <2>1
    <2>3. QED BY <1>0, <1>3, <2>1, <2>2
  <1>8. ASSUME NEW w \in Senders, Record(w) PROVE SendType'
    <2>1. delivery' \in [Rows -> DeliveryRows]
      BY <1>0, <1>8, RecordEffect
    <2>2. sender' = [sender EXCEPT ![w] = Free] BY <1>8 DEF Record
    <2>3. QED BY <1>1, <1>3, <2>1, <2>2
  <1>9. ASSUME NEW w \in Senders, SenderDies(w) PROVE SendType'
    <2>1. sender' = [sender EXCEPT ![w] = Free] /\ delivery' = delivery
      BY <1>9 DEF SenderDies
    <2>2. QED BY <1>0, <1>1, <1>3, <2>1
  <1>10. QED BY <1>4, <1>5, <1>6, <1>7, <1>8, <1>9 DEF SendMoves

-----------------------------------------------------------------------------
(* Type correctness of the whole. *)

LEMMA FeedsTypeInit == Init => FeedsType
  <1> SUFFICES ASSUME Init PROVE FeedsType
    OBVIOUS
  <1>1. OutboxType
    <2>1. None \in Notes BY DEF Notes
    <2>2. Resting \in RelayStates /\ Resting.todo = {} /\ Resting.done = {}
          /\ Resting.seen = None
      BY <2>1 DEF Resting, RelayStates
    <2>3. outbox = <<>> /\ now = 0 /\ faults = 0 /\ relay = [r \in Relays |-> Resting]
      BY DEF Init, OutboxInit
    <2>4. \A r \in Relays : relay[r] = Resting BY <2>3
    <2>5. relay \in [Relays -> RelayStates] BY <2>2, <2>3
    <2>6. outbox \in Seq(Events) BY <2>3
    <2>7. now \in Nat /\ now <= MaxTime /\ faults \in Nat BY <2>3, OutboxAssumption
    <2>8. \A r \in Relays : relay[r].todo = {} /\ relay[r].done = {} /\ relay[r].seen = None
      BY <2>2, <2>4
    <2>9. QED BY <2>5, <2>6, <2>7, <2>8 DEF OutboxType
  <1>2. WaitType
    <2>1. Idle \in Jobs BY DEF Idle, Jobs, JobRecords
    <2>2. Absent \in EntryRows BY DEF Absent, EntryRows
    <2>3. QED BY <2>1, <2>2 DEF Init, WaitlistInit, WaitType
  <1>3. RemindType
    <2>1. NoPlan \in Plans BY DEF NoPlan, Plans
    <2>2. plan = [p \in Planners |-> NoPlan] BY DEF Init, RemindersInit
    <2>3. Unstamped \in [LadderRungs \cup {"chosen"} -> BOOLEAN] BY DEF Unstamped
    <2>4. [st : {"confirmed"}, start : StartTimes, moves : {0}, touched : {0},
           stamp : {Unstamped}] \subseteq VisitRows
      BY <2>3 DEF VisitRows
    <2>5. visit \in [Visits -> VisitRows] BY <2>4 DEF Init, RemindersInit
    <2>6. QED BY <2>1, <2>2, <2>5 DEF RemindType
  <1>4. GroupType
    <2>1. lane \in [Lanes -> LaneStatuses] BY DEF Init, GroupInit, LaneStatuses
    <2>2. party \in Derived BY <2>1 DEF Init, GroupInit, Derived
    <2>3. QED BY <2>1, <2>2 DEF GroupType
  <1>5. SendType
    <2>1. Free \in Claims BY DEF Free, Claims, Results
    <2>2. NoRow \in DeliveryRows BY DEF NoRow, DeliveryRows
    <2>3. QED BY <2>1, <2>2 DEF Init, DeliveriesInit, SendType, Rows
  <1>6. QED BY <1>1, <1>2, <1>3, <1>4, <1>5 DEF Init, FeedsType

LEMMA FeedsTypeNext == FeedsType /\ [Next]_vars => FeedsType'
  <1> SUFFICES ASSUME FeedsType, [Next]_vars PROVE FeedsType'
    OBVIOUS
  <1>0. OutboxType /\ WaitType /\ RemindType /\ GroupType /\ SendType /\ now \in Nat
    BY DEF FeedsType, OutboxType
  <1>1. ASSUME UNCHANGED waitVars PROVE WaitType' BY <1>0, <1>1 DEF waitVars, WaitType
  <1>2. ASSUME UNCHANGED remindVars PROVE RemindType'
    BY <1>0, <1>2 DEF remindVars, RemindType
  <1>3. ASSUME UNCHANGED groupVars PROVE GroupType' BY <1>0, <1>3 DEF groupVars, GroupType
  <1>4. ASSUME UNCHANGED sendVars PROVE SendType' BY <1>0, <1>4 DEF sendVars, SendType
  <1>5. CASE UNCHANGED vars
    <2>1. /\ UNCHANGED <<outboxVars, waitVars, remindVars, groupVars, sendVars, scenario>>
      BY <1>5 DEF vars
    <2>2. OutboxType'
      <3>1. /\ outbox' = outbox /\ relay' = relay /\ now' = now /\ faults' = faults
        BY <2>1 DEF outboxVars
      <3>2. \A r \in Relays : \A link : AtLink(r, link)' <=> AtLink(r, link)
        BY <3>1 DEF AtLink, Ahead, Current, InHand, LinksFor, Hears
      <3>3. QED BY <1>0, <3>1, <3>2 DEF OutboxType
    <2>3. QED BY <1>1, <1>2, <1>3, <1>4, <2>1, <2>2 DEF FeedsType
  <1>6. CASE Next
    <2>1. OutboxType' BY <1>0, <1>6, OutboxSteps, OutboxTypeNext
    <2>2. scenario' \in Scenarios BY <1>6 DEF Next, FeedsType
    <2>3. WaitType'
      BY <1>1, <1>6, WaitNext
         DEF Next, RelayStep, WalkInStep, GroupStep, RemindStep, SendStep, ClockStep
    <2>4. RemindType'
      BY <1>2, <1>6, RemindNext
         DEF Next, RelayStep, WaitStep, WalkInStep, GroupStep, SendStep, ClockStep
    <2>5. GroupType'
      BY <1>3, <1>6, GroupNext
         DEF Next, RelayStep, WaitStep, WalkInStep, RemindStep, SendStep, ClockStep
    <2>6. SendType'
      BY <1>0, <1>4, <1>6, SendSteps, SendTypeNext
         DEF Next, RelayStep, WaitStep, WalkInStep, GroupStep, RemindStep, ClockStep
    <2>7. QED BY <2>1, <2>2, <2>3, <2>4, <2>5, <2>6 DEF FeedsType
  <1>7. QED BY <1>5, <1>6

\* The tables of the outbox, the waitlist, the reminders, the party and the
\* deliveries keep their shape; a relay holds only rows that exist and a note
\* only of the link it stands at; a worker or a dispatcher at work is at work
\* on something.
THEOREM FeedsTypeCorrect == Spec => []FeedsType
  BY FeedsTypeInit, FeedsTypeNext, PTL DEF Spec

\* At least once, for any number of relays, events and crashes: an event
\* marked published has been through every link that reacts to it, unless a
\* best-effort link logged a failure.
THEOREM PublishedIsHeard == Spec => []PublishedWasHeard
  <1>1. Init => HeardInv
    <2> SUFFICES ASSUME Init PROVE HeardInv
      OBVIOUS
    <2>1. outbox = <<>> /\ \A r \in Relays : relay[r] = Resting
      BY DEF Init, OutboxInit
    <2>2. Resting.todo = {} /\ Resting.done = {} BY DEF Resting
    <2>3. QED BY <2>1, <2>2 DEF HeardInv, RelaysAreHonest, PublishedWasHeard
  <1>2. FeedsType /\ HeardInv /\ [Next]_vars => HeardInv'
    <2> SUFFICES ASSUME FeedsType, HeardInv, [Next]_vars PROVE HeardInv'
      OBVIOUS
    <2>1. CASE UNCHANGED vars
      <3>1. outbox' = outbox /\ relay' = relay /\ faults' = faults
        BY <2>1 DEF vars, outboxVars
      <3>2. QED BY <3>1 DEF HeardInv, RelaysAreHonest, PublishedWasHeard, Through,
                            Excused, InHand, LinksFor, Hears
    <2>2. CASE Next
      <3>1. OutboxType /\ OutboxStep BY <2>2, OutboxSteps DEF FeedsType
      <3>2. QED BY <3>1, HeardNext
    <2>3. QED BY <2>1, <2>2
  <1>3. HeardInv => PublishedWasHeard BY DEF HeardInv
  <1>4. QED BY <1>1, <1>2, <1>3, FeedsTypeCorrect, PTL DEF Spec

\* A slot turned down or let lapse is never again on the table for the same
\* customer, for any queue, any number of workers and relays, and any order
\* of sweeps, declines and redeliveries.
THEOREM TurnedDownForGood == Spec => []NeverOfferedAgain
  <1>1. Init => NeverOfferedAgain
    BY DEF Init, WaitlistInit, Absent, NeverOfferedAgain
  <1>2. FeedsType /\ NeverOfferedAgain /\ [Next]_vars => NeverOfferedAgain'
    <2> SUFFICES ASSUME FeedsType, NeverOfferedAgain, [Next]_vars
                 PROVE  NeverOfferedAgain'
      OBVIOUS
    <2>1. ASSUME UNCHANGED waitVars PROVE NeverOfferedAgain'
      BY <2>1 DEF waitVars, NeverOfferedAgain
    <2>2. CASE WaitStep BY <2>2, WaitNext DEF NeverOfferedAgain
    <2>3. WaitStep \/ UNCHANGED waitVars
      BY DEF Next, vars, RelayStep, WalkInStep, GroupStep, RemindStep, SendStep,
             ClockStep
    <2>4. QED BY <2>1, <2>2, <2>3
  <1>3. QED BY <1>1, <1>2, FeedsTypeCorrect, PTL DEF Spec

-----------------------------------------------------------------------------
(* The lease. *)

\* Time alone keeps the leases.
LEMMA LeaseTime ==
    ASSUME FeedsType, LeaseInv, UNCHANGED sendVars,
           now' \in {now, now + 1}, now' <= MaxTime
    PROVE  LeaseInv'
  <1>0. /\ now \in Nat /\ MaxTime \in Nat /\ sender' = sender /\ delivery' = delivery
        /\ sender \in [Senders -> Claims] /\ delivery \in [Rows -> DeliveryRows]
    BY OutboxAssumption DEF FeedsType, OutboxType, SendType, sendVars
  <1>1. \A w \in Senders : sender[w].at \in Nat BY <1>0 DEF Claims
  <1>2. ClaimsAreAttempts'
    BY <1>0, <1>1 DEF LeaseInv, ClaimsAreAttempts, AtWork, Row
  <1>3. RowsAreLeased'
    BY <1>0, <1>1 DEF LeaseInv, RowsAreLeased, AtWork, Row
  <1>4. LeaseProtectsTheHolder'
    BY <1>0 DEF LeaseInv, LeaseProtectsTheHolder
  <1>5. QED BY <1>2, <1>3, <1>4 DEF LeaseInv

\* So do the deliveries' own steps: the claim waits for the lease, and the
\* answer of the attempt that holds the row is not before its own claim.
LEMMA LeaseNext ==
    ASSUME FeedsType, LeaseInv, SendMoves, now' = now
    PROVE  LeaseInv'
  <1>0. /\ now \in Nat /\ MaxTime \in Nat /\ now <= MaxTime /\ SendType
        /\ sender \in [Senders -> Claims] /\ delivery \in [Rows -> DeliveryRows]
        /\ \A v \in Senders : AtWork(v) => Row(v) \in Rows
        /\ DISPATCH_LEASE \in Nat
    BY OutboxAssumption, DeliveriesAssumption
       DEF FeedsType, OutboxType, SendType, AtWork, Row
  <1>1. \A v \in Senders : sender[v].at \in Nat /\ sender[v].attempt \in Nat
                           /\ sender[v].next \in Nat
    BY <1>0 DEF Claims
  <1>2. \A k \in Rows : delivery[k].attempts \in Nat /\ delivery[k].next \in Nat
    BY <1>0 DEF DeliveryRows
  <1>3. ASSUME NEW i, NEW chans, NEW exp, Queue(i, chans, exp) PROVE LeaseInv'
    <2>1. sender' = sender BY <1>3 DEF Queue
    <2>2. \A v \in Senders : AtWork(v) => delivery'[Row(v)] = delivery[Row(v)]
      BY <1>0, <1>3, QueuedRows DEF LeaseInv, ClaimsAreAttempts
    <2>3. ClaimsAreAttempts' BY <2>1, <2>2 DEF LeaseInv, ClaimsAreAttempts, AtWork, Row
    <2>4. RowsAreLeased' BY <2>1, <2>2 DEF LeaseInv, RowsAreLeased, AtWork, Row
    <2>5. LeaseProtectsTheHolder' BY <2>1 DEF LeaseInv, LeaseProtectsTheHolder
    <2>6. QED BY <2>3, <2>4, <2>5 DEF LeaseInv
  <1>4. ASSUME UNCHANGED sendVars PROVE LeaseInv' BY <1>0, <1>4, LeaseTime
  \* A dispatcher that lets go leaves the others as they were.
  <1>5. ASSUME NEW w \in Senders, sender' = [sender EXCEPT ![w] = Free],
               delivery' = delivery
        PROVE  LeaseInv'
    <2>1. /\ sender'[w] = Free
          /\ \A v \in Senders : v # w => sender'[v] = sender[v]
      BY <1>0, <1>5
    <2>2. ClaimsAreAttempts'
      BY <1>5, <2>1 DEF LeaseInv, ClaimsAreAttempts, AtWork, Row
    <2>3. RowsAreLeased' BY <1>5, <2>1 DEF LeaseInv, RowsAreLeased, AtWork, Row
    <2>4. LeaseProtectsTheHolder' BY <2>1 DEF LeaseInv, LeaseProtectsTheHolder
    <2>5. QED BY <2>2, <2>3, <2>4 DEF LeaseInv
  <1>6. ASSUME NEW w \in Senders, SenderDies(w) PROVE LeaseInv'
    BY <1>5, <1>6 DEF SenderDies
  <1>7. ASSUME NEW w \in Senders, sender[w] # Free, NEW out, NEW next,
               Back(w, out, next)
        PROVE  LeaseInv'
    <2>1. PICK c \in Claims :
             /\ sender' = [sender EXCEPT ![w] = c] /\ delivery' = delivery
             /\ c # Free /\ c.i = sender[w].i /\ c.ch = sender[w].ch
             /\ c.attempt = sender[w].attempt /\ c.at = sender[w].at
             /\ c.out = out /\ c.next = next /\ out \in Results
             /\ out = "pending" => next >= c.at
      BY <1>0, <1>7, BackEffect
    <2>2. \A v \in Senders :
             /\ AtWork(v)' <=> AtWork(v)
             /\ Row(v)' = Row(v)
             /\ sender'[v].i = sender[v].i /\ sender'[v].ch = sender[v].ch
             /\ sender'[v].attempt = sender[v].attempt /\ sender'[v].at = sender[v].at
      BY <1>0, <1>7, <2>1 DEF AtWork, Row
    <2>3. \A v \in Senders :
             \/ sender'[v].op = sender[v].op /\ sender'[v].out = sender[v].out
                  /\ sender'[v].next = sender[v].next
             \/ sender'[v].out = "pending" => sender'[v].next >= sender'[v].at
      BY <1>0, <2>1
    <2>4. ClaimsAreAttempts'
      BY <2>1, <2>2, <2>3 DEF LeaseInv, ClaimsAreAttempts
    <2>5. RowsAreLeased' BY <2>1, <2>2 DEF LeaseInv, RowsAreLeased
    <2>6. LeaseProtectsTheHolder'
      BY <2>2 DEF LeaseInv, LeaseProtectsTheHolder, AtWork
    <2>7. QED BY <2>4, <2>5, <2>6 DEF LeaseInv
  <1>8. ASSUME NEW w \in Senders, Record(w) PROVE LeaseInv'
    <2>1. /\ AtWork(w) /\ sender' = [sender EXCEPT ![w] = Free]
          /\ sender[w].op = "sent"
      BY <1>0, <1>8, RecordEffect DEF AtWork, Record
    <2>2. CASE delivery' = delivery BY <1>5, <2>1, <2>2
    <2>3. CASE delivery' # delivery
      <3>1. PICK k \in Rows : k = Row(w) BY <1>0, <2>1
      <3>2. PICK row \in DeliveryRows :
              /\ delivery' = [delivery EXCEPT ![k] = row]
              /\ row.st # "none" /\ row.attempts = delivery[k].attempts
              /\ sender[w].attempt = delivery[k].attempts
              /\ delivery[k].st = "pending"
              /\ row.st = "pending" =>
                   sender[w].out = "pending" /\ row.next = sender[w].next
        BY <1>0, <1>8, <2>3, <3>1, RecordEffect
      <3>3. /\ sender'[w] = Free
            /\ \A v \in Senders : v # w => sender'[v] = sender[v]
        BY <1>0, <2>1
      <3>4. /\ delivery'[k] = row
            /\ \A j \in Rows : j # k => delivery'[j] = delivery[j]
        BY <1>0, <3>2
      <3>5. ClaimsAreAttempts'
        BY <1>0, <3>2, <3>3, <3>4 DEF LeaseInv, ClaimsAreAttempts, AtWork, Row
      <3>6. LeaseProtectsTheHolder' BY <3>3 DEF LeaseInv, LeaseProtectsTheHolder
      <3>7. RowsAreLeased'
        <4> SUFFICES ASSUME NEW v \in Senders, AtWork(v)',
                            delivery'[Row(v)'].st = "pending"
                     PROVE  \/ delivery'[Row(v)'].next >= sender'[v].at + DISPATCH_LEASE
                            \/ now = MaxTime
          BY DEF RowsAreLeased
        <4>1. v # w /\ sender'[v] = sender[v] BY <3>3 DEF AtWork
        <4>2. AtWork(v) /\ Row(v)' = Row(v) /\ Row(v) \in Rows
          BY <1>0, <4>1 DEF AtWork, Row
        <4>3. CASE Row(v) # k
          BY <3>4, <4>1, <4>2, <4>3 DEF LeaseInv, RowsAreLeased
        <4>4. CASE Row(v) = k
          <5>1. sender[v].attempt < sender[w].attempt
            BY <1>1, <1>2, <2>1, <3>1, <3>2, <4>1, <4>2, <4>4
               DEF LeaseInv, ClaimsAreAttempts
          <5>2. sender[v].i = sender[w].i /\ sender[v].ch = sender[w].ch
            BY <3>1, <4>4 DEF Row
          <5>3. sender[w].at >= sender[v].at + DISPATCH_LEASE \/ sender[w].at = MaxTime
            BY <2>1, <4>2, <5>1, <5>2 DEF LeaseInv, LeaseProtectsTheHolder, AtWork
          <5>4. row.st = "pending" BY <3>4, <4>2, <4>4
          <5>5. row.next = sender[w].next /\ sender[w].next >= sender[w].at
                /\ sender[w].at <= now
            BY <2>1, <3>2, <5>4 DEF LeaseInv, ClaimsAreAttempts
          <5>6. delivery'[Row(v)'].next = sender[w].next BY <3>4, <4>2, <4>4, <5>5
          <5>7. QED BY <1>0, <1>1, <4>1, <5>3, <5>5, <5>6
        <4>5. QED BY <4>3, <4>4
      <3>8. QED BY <3>5, <3>6, <3>7 DEF LeaseInv
    <2>4. QED BY <2>2, <2>3
  <1>9. ASSUME NEW w \in Senders, NEW k \in Rows, ClaimDue(w, k) PROVE LeaseInv'
    <2>1. PICK n \in Nat, c \in Claims, row \in DeliveryRows :
             /\ n = delivery[k].attempts + 1
             /\ row = [delivery[k] EXCEPT !.attempts = n, !.next = now + DISPATCH_LEASE]
             /\ row.st = "pending" /\ row.attempts = n /\ row.next = now + DISPATCH_LEASE
             /\ delivery' = [delivery EXCEPT ![k] = row]
             /\ c # Free /\ <<c.i, c.ch>> = k /\ c.attempt = n /\ c.at = now
             /\ c.op = "claimed"
             /\ sender' = [sender EXCEPT ![w] = c]
             /\ now' = now
      BY <1>0, <1>9, ClaimEffect
    <2>2. /\ sender'[w] = c
          /\ \A v \in Senders : v # w => sender'[v] = sender[v]
          /\ delivery'[k] = row
          /\ \A j \in Rows : j # k => delivery'[j] = delivery[j]
      BY <1>0, <2>1
    <2>3. ~AtWork(w) BY <1>9 DEF ClaimDue, AtWork
    <2>4. Row(w)' = k /\ AtWork(w)' BY <2>1, <2>2 DEF Row, AtWork
    <2>5. \A v \in Senders : v # w => (AtWork(v)' <=> AtWork(v)) /\ Row(v)' = Row(v)
      BY <2>2 DEF AtWork, Row
    <2>6. ASSUME NEW v \in Senders, v # w, AtWork(v), Row(v) = k
          PROVE  /\ sender[v].attempt < n /\ sender[v].attempt \in 1 .. n
                 /\ sender[v].at <= now
                 /\ now >= sender[v].at + DISPATCH_LEASE \/ now = MaxTime
      <3>1. sender[v].attempt \in 1 .. delivery[k].attempts /\ sender[v].at <= now
        BY <2>6 DEF LeaseInv, ClaimsAreAttempts
      <3>2. delivery[k].st = "pending" /\ (now >= delivery[k].next \/ now = MaxTime)
        BY <1>9 DEF ClaimDue, DueRow
      <3>3. delivery[k].next >= sender[v].at + DISPATCH_LEASE \/ now = MaxTime
        BY <2>6, <3>2 DEF LeaseInv, RowsAreLeased
      <3>4. now >= sender[v].at + DISPATCH_LEASE \/ now = MaxTime
        BY <1>0, <1>1, <1>2, <3>2, <3>3
      <3>5. QED BY <1>1, <1>2, <2>1, <3>1, <3>4
    <2>7. ClaimsAreAttempts'
      <3>1. ASSUME NEW v \in Senders, AtWork(v)'
            PROVE  /\ delivery'[Row(v)'].st # "none"
                   /\ sender'[v].attempt \in 1 .. delivery'[Row(v)'].attempts
                   /\ sender'[v].at <= now
                   /\ sender'[v].op = "sent" /\ sender'[v].out = "pending" =>
                        sender'[v].next >= sender'[v].at
        <4>1. CASE v = w
          <5>1. n \in 1 .. n BY <1>2, <2>1
          <5>2. QED BY <1>0, <2>1, <2>2, <2>4, <4>1, <5>1
        <4>2. CASE v # w /\ Row(v) = k
          <5>1. sender'[v] = sender[v] /\ AtWork(v) /\ Row(v)' = k
            BY <2>2, <2>5, <3>1, <4>2
          <5>2. sender[v].attempt \in 1 .. n /\ sender[v].at <= now
            BY <2>6, <4>2, <5>1
          <5>3. sender[v].op = "sent" /\ sender[v].out = "pending" =>
                  sender[v].next >= sender[v].at
            BY <5>1 DEF LeaseInv, ClaimsAreAttempts
          <5>4. QED BY <2>1, <2>2, <5>1, <5>2, <5>3
        <4>3. CASE v # w /\ Row(v) # k
          <5>1. sender'[v] = sender[v] /\ AtWork(v) /\ Row(v)' = Row(v)
            BY <2>2, <2>5, <3>1, <4>3
          <5>2. delivery'[Row(v)] = delivery[Row(v)] BY <1>0, <2>2, <4>3, <5>1
          <5>3. QED BY <5>1, <5>2 DEF LeaseInv, ClaimsAreAttempts
        <4>4. QED BY <4>1, <4>2, <4>3
      <3>2. ASSUME NEW u \in Senders, NEW v \in Senders, AtWork(u)', AtWork(v)', u # v,
                   Row(u)' = Row(v)'
            PROVE  sender'[u].attempt # sender'[v].attempt
        <4>1. CASE u # w /\ v # w
          BY <2>2, <2>5, <3>2, <4>1 DEF LeaseInv, ClaimsAreAttempts
        <4>2. CASE u = w
          <5>1. sender'[v] = sender[v] /\ AtWork(v) /\ Row(v) = k /\ v # w
            BY <2>2, <2>4, <2>5, <3>2, <4>2
          <5>2. QED BY <1>1, <2>1, <2>2, <2>6, <4>2, <5>1
        <4>3. CASE v = w
          <5>1. sender'[u] = sender[u] /\ AtWork(u) /\ Row(u) = k /\ u # w
            BY <2>2, <2>4, <2>5, <3>2, <4>3
          <5>2. QED BY <1>1, <2>1, <2>2, <2>6, <4>3, <5>1
        <4>4. QED BY <4>1, <4>2, <4>3
      <3>3. QED BY <2>1, <3>1, <3>2 DEF ClaimsAreAttempts
    <2>8. RowsAreLeased'
      <3> SUFFICES ASSUME NEW v \in Senders, AtWork(v)',
                          delivery'[Row(v)'].st = "pending"
                   PROVE  \/ delivery'[Row(v)'].next >= sender'[v].at + DISPATCH_LEASE
                          \/ now = MaxTime
        BY DEF RowsAreLeased
      <3>1. CASE v = w
        <4>1. delivery'[Row(v)'] = row /\ sender'[v] = c BY <2>2, <2>4, <3>1
        <4>2. row.next = now + DISPATCH_LEASE /\ c.at = now BY <2>1
        <4>3. QED BY <1>0, <4>1, <4>2
      <3>2. CASE v # w /\ Row(v) = k
        <4>1. sender'[v] = sender[v] /\ AtWork(v) /\ Row(v)' = k BY <2>2, <2>5, <3>2
        <4>2. sender[v].at <= now BY <2>6, <3>2, <4>1
        <4>3. delivery'[k].next = now + DISPATCH_LEASE BY <2>1, <2>2
        <4>4. QED BY <1>0, <1>1, <4>1, <4>2, <4>3
      <3>3. CASE v # w /\ Row(v) # k
        <4>1. sender'[v] = sender[v] /\ AtWork(v) /\ Row(v)' = Row(v)
          BY <2>2, <2>5, <3>3
        <4>2. delivery'[Row(v)] = delivery[Row(v)] BY <1>0, <2>2, <3>3, <4>1
        <4>3. QED BY <4>1, <4>2 DEF LeaseInv, RowsAreLeased
      <3>4. QED BY <3>1, <3>2, <3>3
    <2>9. LeaseProtectsTheHolder'
      <3> SUFFICES ASSUME NEW u \in Senders, NEW v \in Senders,
                          sender'[u] # Free, sender'[v] # Free,
                          sender'[u].i = sender'[v].i, sender'[u].ch = sender'[v].ch,
                          sender'[u].attempt < sender'[v].attempt
                   PROVE  \/ sender'[v].at >= sender'[u].at + DISPATCH_LEASE
                          \/ sender'[v].at = MaxTime
        BY DEF LeaseProtectsTheHolder
      <3>1. AtWork(u)' /\ AtWork(v)' /\ Row(u)' = Row(v)' BY DEF AtWork, Row
      <3>2. CASE u # w /\ v # w
        <4>1. sender'[u] = sender[u] /\ sender'[v] = sender[v] BY <2>2, <3>2
        <4>2. QED BY <4>1 DEF LeaseInv, LeaseProtectsTheHolder
      <3>3. CASE u = w /\ v # w
        <4>1. sender'[v] = sender[v] /\ AtWork(v) /\ Row(v) = k
          BY <2>2, <2>4, <2>5, <3>1, <3>3
        <4>2. sender[v].attempt < n BY <2>6, <3>3, <4>1
        <4>3. sender'[u].attempt = n BY <2>1, <2>2, <3>3
        <4>4. QED BY <1>1, <4>1, <4>2, <4>3
      <3>4. CASE v = w /\ u # w
        <4>1. sender'[u] = sender[u] /\ AtWork(u) /\ Row(u) = k
          BY <2>2, <2>4, <2>5, <3>1, <3>4
        <4>2. now >= sender[u].at + DISPATCH_LEASE \/ now = MaxTime
          BY <2>6, <3>4, <4>1
        <4>3. sender'[v].at = now BY <2>1, <2>2, <3>4
        <4>4. QED BY <4>1, <4>2, <4>3
      <3>5. CASE u = w /\ v = w BY <2>1, <2>2, <3>5
      <3>6. QED BY <3>2, <3>3, <3>4, <3>5
    <2>10. QED BY <2>7, <2>8, <2>9 DEF LeaseInv
  <1>10. QED BY <1>3, <1>4, <1>6, <1>7, <1>8, <1>9 DEF SendMoves

\* For any number of dispatchers, rows and retries: while one holds a row
\* under its lease nobody else is given it, whoever dies or answers late.
THEOREM LeasesHold == Spec => []LeaseProtectsTheHolder
  <1>1. Init => LeaseInv
    <2> SUFFICES ASSUME Init PROVE LeaseInv
      OBVIOUS
    <2>1. \A w \in Senders : sender[w] = Free BY DEF Init, DeliveriesInit
    <2>2. QED BY <2>1 DEF LeaseInv, ClaimsAreAttempts, RowsAreLeased,
                          LeaseProtectsTheHolder, AtWork
  <1>2. FeedsType /\ LeaseInv /\ [Next]_vars => LeaseInv'
    <2> SUFFICES ASSUME FeedsType, LeaseInv, [Next]_vars PROVE LeaseInv'
      OBVIOUS
    <2>1. CASE UNCHANGED vars
      <3>1. UNCHANGED sendVars /\ now' = now BY <2>1 DEF vars, outboxVars
      <3>2. now <= MaxTime BY DEF FeedsType, OutboxType
      <3>3. QED BY <3>1, <3>2, LeaseTime
    <2>2. CASE Next
      <3>1. now' \in {now, now + 1} /\ now' <= MaxTime
        BY <2>2, OutboxSteps DEF OutboxStep
      <3>2. CASE UNCHANGED sendVars BY <3>1, <3>2, LeaseTime
      <3>3. CASE SendStep
        <4>1. SendMoves BY <3>3, SendSteps
        <4>2. now' = now
          <5>1. ASSUME NEW r \in Relays, ListenHub(r) \/ ListenReminder(r) \/ ListenThrow(r)
                PROVE  now' = now
            BY <5>1 DEF ListenHub, ListenReminder, ListenThrow
          <5>2. ASSUME NEW w \in Senders, NEW who \in Lookups, NEW o \in Outcomes,
                       DispatchOne(w, who, o)
                PROVE  now' = now
            BY <5>2 DEF DispatchOne, outboxVars
          <5>3. ASSUME NEW w \in Senders,
                       \/ \E k \in DOMAIN delivery : ClaimDue(w, k)
                       \/ Record(w) \/ SenderDies(w)
                PROVE  now' = now
            BY <5>3 DEF ClaimDue, Record, SenderDies, outboxVars
          <5>4. QED BY <3>3, <5>1, <5>2, <5>3 DEF SendStep
        <4>3. QED BY <4>1, <4>2, LeaseNext
      <3>4. QED BY <2>2, <3>2, <3>3
            DEF Next, RelayStep, WaitStep, WalkInStep, GroupStep, RemindStep, ClockStep
    <2>3. QED BY <2>1, <2>2
  <1>3. LeaseInv => LeaseProtectsTheHolder BY DEF LeaseInv
  <1>4. QED BY <1>1, <1>2, <1>3, FeedsTypeCorrect, PTL DEF Spec

==============================================================================
