--------------------------- MODULE StandingProofs ---------------------------
(***************************************************************************)
(* Theorems about the arrangements of more than one booking.               *)
(*                                                                         *)
(* Roster changes: two managers may accept the same proposal at once, and  *)
(* the customer may cancel or arrive meanwhile; one goodwill credit is     *)
(* posted at most.  The invariant counts the credit that is posted and the *)
(* one a manager is about to post together.                                *)
(*                                                                         *)
(* Parties: the rows a party of the app holds follow it from the plan to   *)
(* the members' bookings, and a request that fails gives them back.        *)
(*                                                                         *)
(* Series: what a run of the materialiser listed and has not decided yet   *)
(* stays on its list, whatever the desk and other runs write meanwhile, so *)
(* a run that ends has decided everything.  Where a branch has one run at  *)
(* a time, the rows on the list have no booking, so no write of the run    *)
(* takes a booking off the timeline.                                       *)
(*                                                                         *)
(* Routines: while the customer changes nothing, any number of copies of   *)
(* the job may race; what each has in hand is nobody else's and no         *)
(* session's.  While one customer changes the routine, what the request    *)
(* knows about the sessions it is to overwrite stays true until it writes. *)
(***************************************************************************)
EXTENDS Standing, SumLemmas

-----------------------------------------------------------------------------
(* Roster changes *)

Serving ==
    [pc : {"idle", "apply", "credit", "settle"}, item : Seq(Guests),
     how : Resolutions \cup {""}, proposal : BOOLEAN]

\* Bookings have a status and a slot.
HaveRows(f) ==
    /\ DOMAIN f = Guests
    /\ \A g \in Guests : f[g] = [status |-> f[g].status, slot |-> f[g].slot]

\* What the argument needs of the rows: whoever is at work on an item has one, credits are counted.
RosterShape ==
    /\ HaveRows(guest)
    /\ offerOn \in [Guests -> BOOLEAN]
    /\ manager \in [Managers -> Serving]
    /\ \A m \in Managers : manager[m].pc # "idle" => Subject(m) \in Guests
    /\ credit \in [Guests -> Nat]

AboutToCredit(m, g) == manager[m].pc = "credit" /\ Subject(m) = g

\* The credit about to be posted is the first, its booking is cancelled for
\* good, and nobody else is about to post one.
CreditsAreDue ==
    \A g \in Guests, m \in Managers : AboutToCredit(m, g) =>
        /\ credit[g] = 0 /\ guest[g].status = "cancelled"
        /\ \A n \in Managers : AboutToCredit(n, g) => n = m

GoodwillInv == RosterShape /\ CreditsAreDue /\ GoodwillOnce

\* The rows after an update of one field of a booking.
SlotSet(f, h, x) == [f EXCEPT ![h].slot = x]
StatusSet(f, h, x) == [f EXCEPT ![h].status = x]

\* Moving a booking leaves the statuses; a status is set for one booking.
LEMMA SlotUpdates ==
    ASSUME NEW f, HaveRows(f), NEW h, NEW x, NEW k, k = SlotSet(f, h, x)
    PROVE  HaveRows(k) /\ \A g \in Guests : k[g].status = f[g].status
<1>1. DOMAIN k = Guests
  BY DEF HaveRows, SlotSet
<1>2. ASSUME NEW g \in Guests
      PROVE  k[g] = [status |-> f[g].status, slot |-> IF g = h THEN x ELSE f[g].slot]
  <2>1. CASE g = h
    BY <2>1 DEF HaveRows, SlotSet
  <2>2. CASE g # h
    BY <2>2 DEF HaveRows, SlotSet
  <2> QED BY <2>1, <2>2
<1> QED BY <1>1, <1>2 DEF HaveRows

\* Setting one booking's status changes that status and nothing else.
LEMMA StatusUpdates ==
    ASSUME NEW f, HaveRows(f), NEW h, NEW x, NEW k, k = StatusSet(f, h, x)
    PROVE  HaveRows(k) /\ \A g \in Guests : k[g].status = IF g = h THEN x ELSE f[g].status
<1>1. DOMAIN k = Guests
  BY DEF HaveRows, StatusSet
<1>2. ASSUME NEW g \in Guests
      PROVE  k[g] = [status |-> IF g = h THEN x ELSE f[g].status, slot |-> f[g].slot]
  <2>1. CASE g = h
    BY <2>1 DEF HaveRows, StatusSet
  <2>2. CASE g # h
    BY <2>2 DEF HaveRows, StatusSet
  <2> QED BY <2>1, <2>2
<1> QED BY <1>1, <1>2 DEF HaveRows

\* Steps that change no manager, no credit and no status.
LEMMA GoodwillOnTheSide ==
    ASSUME GoodwillInv, UNCHANGED <<manager, credit>>,
           HaveRows(guest)',
           \A g \in Guests : guest[g].status = "cancelled" => guest'[g].status = "cancelled",
           offerOn' \in [Guests -> BOOLEAN]
    PROVE  GoodwillInv'
<1>1. RosterShape'
  BY DEF GoodwillInv, RosterShape, Subject
<1>2. \A m \in Managers, g \in Guests : AboutToCredit(m, g)' <=> AboutToCredit(m, g)
  BY DEF AboutToCredit, Subject
<1>3. CreditsAreDue'
  BY <1>2 DEF GoodwillInv, CreditsAreDue
<1>4. GoodwillOnce'
  BY DEF GoodwillInv, GoodwillOnce
<1> QED BY <1>1, <1>3, <1>4 DEF GoodwillInv

\* The opener's request: it moves bookings in the diary and edits the
\* worklist, and credits nobody.
LEMMA OpenerKeepsGoodwill ==
    ASSUME GoodwillInv,
           \/ \E kind \in {"shift_conflict", "closure_sweep"}, s \in DayStaff \cup {0} : OpenChange(kind, s)
           \/ Affected \/ AddItems \/ RepairRead \/ ProposeCancellation
           \/ PlaceRepairHold \/ MoveRepaired \/ MarkAutoRepaired \/ CommitChange
           \/ \E c \in DaySlots : RepairHoldExpires(c) \/ SomebodyBooks(c)
    PROVE  GoodwillInv'
<1>1. UNCHANGED <<manager, credit>>
  BY DEF OpenChange, Affected, AddItems, RepairRead, ProposeCancellation, PlaceRepairHold,
         MoveRepaired, MarkAutoRepaired, CommitChange, RepairHoldExpires, SomebodyBooks
<1>2. offerOn' \in [Guests -> BOOLEAN]
  <2>1. offerOn' = offerOn \/ \E g, x : x \in BOOLEAN /\ offerOn' = [offerOn EXCEPT ![g] = x]
    BY DEF OpenChange, Affected, AddItems, RepairRead, ProposeCancellation, PlaceRepairHold,
           MoveRepaired, MarkAutoRepaired, CommitChange, RepairHoldExpires, SomebodyBooks
  <2> QED BY <2>1 DEF GoodwillInv, RosterShape
<1>3. guest' = guest \/ \E g, c : guest' = [guest EXCEPT ![g].slot = c]
  BY DEF OpenChange, Affected, AddItems, RepairRead, ProposeCancellation, PlaceRepairHold,
         MoveRepaired, MarkAutoRepaired, CommitChange, RepairHoldExpires, SomebodyBooks
<1>4. ASSUME guest' = guest PROVE GoodwillInv'
  BY <1>1, <1>2, <1>4, GoodwillOnTheSide DEF GoodwillInv, RosterShape
<1>5. ASSUME NEW g, NEW c, guest' = [guest EXCEPT ![g].slot = c] PROVE GoodwillInv'
  <2>1. HaveRows(guest)' /\ \A h \in Guests : guest'[h].status = guest[h].status
    <3>1. PICK f, k : f = guest /\ k = guest'
      OBVIOUS
    <3>2. HaveRows(f) /\ k = SlotSet(f, g, c)
      BY <1>5, <3>1 DEF GoodwillInv, RosterShape, SlotSet
    <3>3. HaveRows(k) /\ \A h \in Guests : k[h].status = f[h].status
      BY <3>2, SlotUpdates
    <3> QED BY <3>1, <3>3 DEF HaveRows
  <2> QED BY <1>1, <1>2, <2>1, GoodwillOnTheSide
<1> QED BY <1>3, <1>4, <1>5

\* The customer and the desk: a cancelled booking stays cancelled.
LEMMA GuestsKeepGoodwill ==
    ASSUME GoodwillInv, NEW g \in Guests,
           \/ \E to \in {"confirmed", "checked_in", "cancelled", "expired"} : GuestMoves(g, to)
           \/ \E c \in DaySlots : DeskMoves(g, c)
    PROVE  GoodwillInv'
<1>1. ASSUME NEW to, GuestMoves(g, to) PROVE GoodwillInv'
  <2>1. UNCHANGED <<offerOn, manager, credit>> /\ guest[g].status # "cancelled"
    BY <1>1 DEF GuestMoves
  <2>2. /\ HaveRows(guest)'
        /\ \A h \in Guests : guest'[h].status = IF h = g THEN to ELSE guest[h].status
    <3>1. PICK f, k : f = guest /\ k = guest'
      OBVIOUS
    <3>2. HaveRows(f) /\ k = StatusSet(f, g, to)
      BY <1>1, <3>1 DEF GoodwillInv, RosterShape, GuestMoves, StatusSet
    <3>3. HaveRows(k) /\ \A h \in Guests : k[h].status = IF h = g THEN to ELSE f[h].status
      BY <3>2, StatusUpdates
    <3> QED BY <3>1, <3>3 DEF HaveRows
  <2>3. offerOn' \in [Guests -> BOOLEAN]
    BY <2>1 DEF GoodwillInv, RosterShape
  <2> QED BY <2>1, <2>2, <2>3, GoodwillOnTheSide
<1>2. ASSUME NEW c, DeskMoves(g, c) PROVE GoodwillInv'
  <2>1. UNCHANGED <<offerOn, manager, credit>>
    BY <1>2 DEF DeskMoves
  <2>2. HaveRows(guest)' /\ \A h \in Guests : guest'[h].status = guest[h].status
    <3>1. PICK f, k : f = guest /\ k = guest'
      OBVIOUS
    <3>2. HaveRows(f) /\ k = SlotSet(f, g, c)
      BY <1>2, <3>1 DEF GoodwillInv, RosterShape, DeskMoves, SlotSet
    <3>3. HaveRows(k) /\ \A h \in Guests : k[h].status = f[h].status
      BY <3>2, SlotUpdates
    <3> QED BY <3>1, <3>3 DEF HaveRows
  <2>3. offerOn' \in [Guests -> BOOLEAN]
    BY <2>1 DEF GoodwillInv, RosterShape
  <2> QED BY <2>1, <2>2, <2>3, GoodwillOnTheSide
<1> QED BY <1>1, <1>2

\* A manager at work: the cancellation is carried out by one of those who
\* accepted it, under the booking's lock, and that one alone credits it.
LEMMA ManagersKeepGoodwill ==
    ASSUME GoodwillInv, NEW m \in Managers,
           \/ \E g \in Guests, how \in Resolutions : ResolveRead(m, g, how)
           \/ ApplyCancellation(m) \/ PostGoodwill(m) \/ ResolveItem(m)
    PROVE  GoodwillInv'
<1> USE DEF GoodwillInv
<1>1. ASSUME NEW g \in Guests, NEW how \in Resolutions, ResolveRead(m, g, how)
      PROVE  GoodwillInv'
  <2>1. PICK pc \in {"apply", "settle"}, p \in BOOLEAN :
           manager' = [manager EXCEPT ![m] = [pc |-> pc, item |-> <<g>>, how |-> how, proposal |-> p]]
    BY <1>1 DEF ResolveRead, RosterShape
  <2>2. /\ UNCHANGED <<guest, offerOn, credit>>
        /\ manager' \in [Managers -> Serving]
        /\ manager'[m].pc # "credit" /\ manager'[m].item = <<g>>
        /\ \A n \in Managers \ {m} : manager'[n] = manager[n]
    <3>1. PICK L : L = [pc |-> pc, item |-> <<g>>, how |-> how, proposal |-> p]
      OBVIOUS
    <3>2. <<g>> \in Seq(Guests)
      OBVIOUS
    <3>3. L \in Serving /\ L.pc # "credit" /\ L.item = <<g>>
      BY <3>1, <3>2 DEF Serving
    <3>4. manager' = [manager EXCEPT ![m] = L]
      BY <2>1, <3>1
    <3> QED BY <1>1, <3>3, <3>4 DEF ResolveRead, RosterShape
  <2>3. RosterShape'
    BY <2>2 DEF RosterShape, Subject
  <2>4. \A n \in Managers, h \in Guests : AboutToCredit(n, h)' => AboutToCredit(n, h)
    BY <2>2 DEF AboutToCredit, Subject
  <2> QED BY <2>2, <2>3, <2>4 DEF CreditsAreDue, GoodwillOnce
<1>2. ASSUME ApplyCancellation(m) PROVE GoodwillInv'
  <2>1. PICK s \in Guests : s = Subject(m)
    BY <1>2 DEF ApplyCancellation, RosterShape
  <2>2. UNCHANGED <<offerOn, credit>>
    BY <1>2 DEF ApplyCancellation
  <2>3. PICK pc \in {"credit", "settle"} :
           manager' = [manager EXCEPT ![m].pc = pc] /\ (pc = "credit" => CancellableHere(s))
    BY <1>2, <2>1 DEF ApplyCancellation, Credited
  <2>4. /\ manager' \in [Managers -> Serving]
        /\ manager'[m].pc = pc /\ manager'[m].item = manager[m].item
        /\ \A n \in Managers \ {m} : manager'[n] = manager[n]
    BY <2>3 DEF RosterShape, Serving
  <2>5. /\ HaveRows(guest)'
        /\ \A h \in Guests : guest'[h].status = IF h = s /\ CancellableHere(s) THEN "cancelled"
                                                 ELSE guest[h].status
    <3>1. CASE CancellableHere(s)
      <4>1. PICK f, k : f = guest /\ k = guest'
        OBVIOUS
      <4>2. HaveRows(f) /\ k = StatusSet(f, s, "cancelled")
        BY <1>2, <2>1, <3>1, <4>1 DEF ApplyCancellation, RosterShape, StatusSet
      <4>3. HaveRows(k) /\ \A h \in Guests : k[h].status = IF h = s THEN "cancelled" ELSE f[h].status
        BY <4>2, StatusUpdates
      <4> QED BY <3>1, <4>1, <4>3 DEF HaveRows
    <3>2. CASE ~CancellableHere(s)
      BY <1>2, <2>1, <3>2 DEF ApplyCancellation, RosterShape
    <3> QED BY <3>1, <3>2
  <2>6. RosterShape'
    BY <1>2, <2>1, <2>2, <2>4, <2>5 DEF RosterShape, Subject, ApplyCancellation
  <2>7. \A n \in Managers, h \in Guests : AboutToCredit(n, h)' =>
           AboutToCredit(n, h) \/ (n = m /\ h = s /\ CancellableHere(s))
    BY <2>1, <2>3, <2>4 DEF AboutToCredit, Subject
  <2>8. CancellableHere(s) => /\ guest[s].status # "cancelled" /\ credit[s] = 0
                              /\ \A n \in Managers : ~AboutToCredit(n, s)
    <3>1. CancellableHere(s) => guest[s].status # "cancelled"
      BY DEF CancellableHere
    <3>2. credit[s] \in Nat
      BY DEF RosterShape
    <3> QED BY <3>1, <3>2 DEF GoodwillOnce, CreditsAreDue
  <2>9. CreditsAreDue'
    BY <2>2, <2>5, <2>7, <2>8 DEF CreditsAreDue
  <2> QED BY <2>2, <2>5, <2>6, <2>9 DEF GoodwillOnce
<1>3. ASSUME PostGoodwill(m) PROVE GoodwillInv'
  <2>1. PICK s \in Guests : s = Subject(m)
    BY <1>3 DEF PostGoodwill, RosterShape
  <2>2. UNCHANGED <<guest, offerOn>>
    BY <1>3 DEF PostGoodwill
  <2>3. /\ manager' \in [Managers -> Serving]
        /\ manager'[m].pc = "settle" /\ manager'[m].item = manager[m].item
        /\ \A n \in Managers \ {m} : manager'[n] = manager[n]
    BY <1>3 DEF PostGoodwill, RosterShape, Serving
  <2>4. /\ AboutToCredit(m, s)
        /\ credit[s] = 0 /\ guest[s].status = "cancelled"
        /\ \A n \in Managers : AboutToCredit(n, s) => n = m
    BY <1>3, <2>1 DEF PostGoodwill, AboutToCredit, CreditsAreDue
  <2>5. /\ credit' \in [Guests -> Nat] /\ credit'[s] = 1
        /\ \A h \in Guests \ {s} : credit'[h] = credit[h]
    BY <1>3, <2>1, <2>4 DEF PostGoodwill, RosterShape
  <2>6. RosterShape'
    BY <1>3, <2>2, <2>3, <2>5 DEF RosterShape, Subject, PostGoodwill
  <2>7. \A n \in Managers, h \in Guests : AboutToCredit(n, h)' => AboutToCredit(n, h) /\ n # m
    BY <2>3 DEF AboutToCredit, Subject
  <2>8. CreditsAreDue'
    BY <2>2, <2>4, <2>5, <2>7 DEF CreditsAreDue
  <2> QED BY <2>2, <2>4, <2>5, <2>6, <2>8 DEF GoodwillOnce
<1>4. ASSUME ResolveItem(m) PROVE GoodwillInv'
  <2>1. UNCHANGED <<guest, credit>> /\ manager' = [manager EXCEPT ![m] = NotServing]
    BY <1>4 DEF ResolveItem
  <2>2. offerOn' \in [Guests -> BOOLEAN]
    BY <1>4 DEF ResolveItem, RosterShape
  <2>3. NotServing \in Serving /\ NotServing.pc = "idle"
    BY DEF NotServing, Serving
  <2>4. /\ manager' \in [Managers -> Serving] /\ manager'[m].pc = "idle"
        /\ \A n \in Managers \ {m} : manager'[n] = manager[n]
    BY <2>1, <2>3 DEF RosterShape
  <2>5. RosterShape'
    BY <2>1, <2>2, <2>4 DEF RosterShape, Subject
  <2>6. \A n \in Managers, h \in Guests : AboutToCredit(n, h)' => AboutToCredit(n, h)
    BY <2>4 DEF AboutToCredit, Subject
  <2> QED BY <2>1, <2>5, <2>6 DEF CreditsAreDue, GoodwillOnce
<1> QED BY <1>1, <1>2, <1>3, <1>4
\* Whatever leaves the roster change alone.
LEMMA GoodwillStutters ==
    ASSUME GoodwillInv, UNCHANGED rosterVars
    PROVE  GoodwillInv'
BY DEF GoodwillInv, RosterShape, HaveRows, CreditsAreDue, AboutToCredit, Subject,
       GoodwillOnce, rosterVars

\* One goodwill credit for one salon cancellation, and none without it,
\* whatever the bookings, the managers and the other requests do
\* (roster-change.handler.ts, applyCancellation).
THEOREM OneCredit == Spec => []GoodwillOnce
<1>1. Init => GoodwillInv
  <2> SUFFICES ASSUME Init PROVE GoodwillInv
    OBVIOUS
  <2>1. /\ guest \in Diaries /\ offerOn = [g \in Guests |-> FALSE]
        /\ manager = [m \in Managers |-> NotServing] /\ credit = [g \in Guests |-> 0]
    BY DEF Init, RosterInit
  <2>2. HaveRows(guest)
    BY <2>1 DEF Diaries, HaveRows
  <2>3. NotServing \in Serving /\ NotServing.pc = "idle"
    BY DEF NotServing, Serving
  <2>4. \A m \in Managers : manager[m].pc = "idle"
    BY <2>1, <2>3
  <2>5. RosterShape
    BY <2>1, <2>2, <2>3, <2>4 DEF RosterShape
  <2> QED BY <2>1, <2>4, <2>5 DEF GoodwillInv, CreditsAreDue, AboutToCredit, GoodwillOnce
<1>2. GoodwillInv /\ [Next]_vars => GoodwillInv'
  <2> SUFFICES ASSUME GoodwillInv, [Next]_vars PROVE GoodwillInv'
    OBVIOUS
  <2>1. CASE UNCHANGED rosterVars
    BY <2>1, GoodwillStutters
  <2>2. CASE RosterStep
    <3>1. \/ \E kind \in {"shift_conflict", "closure_sweep"}, s \in DayStaff \cup {0} : OpenChange(kind, s)
          \/ Affected \/ AddItems \/ RepairRead \/ ProposeCancellation
          \/ PlaceRepairHold \/ MoveRepaired \/ MarkAutoRepaired \/ CommitChange
          \/ \E c \in DaySlots : RepairHoldExpires(c) \/ SomebodyBooks(c)
          \/ \E m \in Managers : \/ \E g \in Guests, how \in Resolutions : ResolveRead(m, g, how)
                                 \/ ApplyCancellation(m) \/ PostGoodwill(m) \/ ResolveItem(m)
          \/ \E g \in Guests :
                \/ \E to \in {"confirmed", "checked_in", "cancelled", "expired"} : GuestMoves(g, to)
                \/ \E c \in DaySlots : DeskMoves(g, c)
      BY <2>2, Zenon DEF RosterStep
    <3> QED BY <3>1, OpenerKeepsGoodwill, ManagersKeepGoodwill, GuestsKeepGoodwill
  <2>3. SeriesStep \/ RoutineStep \/ PartiesStep \/ UNCHANGED vars => UNCHANGED rosterVars
    BY DEF SeriesStep, RoutineStep, PartiesStep, vars
  <2> QED BY <2>1, <2>2, <2>3 DEF Next
<1>3. GoodwillInv => GoodwillOnce
  BY DEF GoodwillInv
<1> QED BY <1>1, <1>2, <1>3, PTL DEF Spec

-----------------------------------------------------------------------------
(* Parties: the shape of the rows *)

IsClerk(k) == k = [op |-> k.op, g |-> k.g, pros |-> k.pros, plan |-> k.plan, todo |-> k.todo]
IsBooking(b) == b = [st |-> b.st, staff |-> b.staff, from |-> b.from]
IsStaffRow(r) == r = [staff |-> r.staff, from |-> r.from, to |-> r.to, owner |-> r.owner]
IsChairRow(r) ==
    r = [type |-> r.type, from |-> r.from, to |-> r.to, owner |-> r.owner, lane |-> r.lane]

\* Rows, bookings and requests have the columns the code gives them.
PartyShape ==
    /\ DOMAIN group = Groups /\ DOMAIN hold = Groups
    /\ DOMAIN clerk = Clerks /\ \A c \in Clerks : IsClerk(clerk[c])
    /\ DOMAIN member = Groups
    /\ \A g \in Groups : DOMAIN member[g] = Members /\ \A m \in Members : IsBooking(member[g][m])
    /\ \A r \in staffRow : IsStaffRow(r)
    /\ \A r \in chairRow : IsChairRow(r)

HeldChairs(g) == {r \in chairRow : r.owner = Held(g)}
LaneChairs(g, m) == {r \in chairRow : r.owner = Lane(g, m)}

-----------------------------------------------------------------------------
(* Parties: the invariant *)

\* Steps of the request that makes a party of the app.
Making == {"loaded", "planned", "held", "giveback"}

\* A seating gives every member a professional of their own.
GoodPlan(p) ==
    DOMAIN p = Members /\ \A m, n \in Members : m # n => p[m].staff # p[n].staff

\* The rows the hold owns are those of the plan its request remembers.
KeepsItsRows(g, plan) ==
    LET a == CHOOSE p \in plan : TRUE
    IN  StaffRows(g, a) \subseteq staffRow /\ HeldChairs(g) = ChairRows(g, a)

\* Where the request of a party stands, so stands the party ...
Honest(c) == LET g == clerk[c].g IN
    /\ clerk[c].op = "confirm" => g \notin App
    /\ clerk[c].op \in {"planned", "held"} =>
         clerk[c].plan # {} /\ \A p \in clerk[c].plan : GoodPlan(p)
    /\ clerk[c].op = "held" =>
         /\ g \in App /\ group[g] = "draft"
         /\ hold[g] # "none" => KeepsItsRows(g, clerk[c].plan)
    /\ clerk[c].op \in {"loaded", "planned"} /\ g \in App => group[g] = "none"
    /\ clerk[c].op = "giveback" /\ g \in App => group[g] # "none"

\* ... and no two requests make the same one.
MakersAreAlone ==
    \A c, d \in Clerks :
        c # d /\ clerk[c].g \in App /\ clerk[d].g = clerk[c].g /\ clerk[c].op \in Making
            => clerk[d].op \notin Making

LaneIsSeated(g, m) ==
    member[g][m].st \in {"confirmed", "checked_in"} =>
        /\ \E r \in staffRow : /\ r.owner = Lane(g, m) /\ r.staff = member[g][m].staff
                               /\ r.from = member[g][m].from
        /\ Cardinality(LaneChairs(g, m)) = 1

\* A party that is not confirmed has no lanes, one without a hold no chairs
\* held, and every member of the app's who comes has a seat.
PartyIsSettled(g) ==
    /\ hold[g] = "none" => HeldChairs(g) = {}
    /\ group[g] = "none" => hold[g] = "none"
    /\ group[g] # "confirmed" => \A m \in Members : LaneChairs(g, m) = {} /\ member[g][m].st = "none"
    /\ \A m \in Members : LaneIsSeated(g, m)

SeatsInv ==
    /\ PartyShape /\ MakersAreAlone
    /\ \A c \in Clerks : Honest(c)
    /\ \A g \in App : PartyIsSettled(g)

\* A hold of the app's is in the hands of the request that made it, until that
\* request has confirmed it or given it back.
HoldsAreInHand ==
    \A g \in App : hold[g] # "none" /\ g \notin died =>
        \E c \in Clerks : clerk[c].g = g /\ clerk[c].op \in {"held", "giveback"}

-----------------------------------------------------------------------------
(* Parties: what a step leaves alone *)

HoldUntouched(g) ==
    /\ group'[g] = group[g] /\ (hold'[g] = "none" <=> hold[g] = "none")
    /\ \A r : r.owner = Held(g) => /\ r \in staffRow' <=> r \in staffRow
                                   /\ r \in chairRow' <=> r \in chairRow
LanesUntouched(g) ==
    /\ group'[g] = group[g] /\ member'[g] = member[g]
    /\ \A r, m : r.owner = Lane(g, m) => /\ r \in staffRow' <=> r \in staffRow
                                         /\ r \in chairRow' <=> r \in chairRow

\* No two owners are confused.
LEMMA Owners ==
    ASSUME NEW g, NEW h, NEW m, NEW n, NEW k
    PROVE  /\ Held(g) # Lane(h, n) /\ Held(g) # Other(k) /\ Lane(g, m) # Other(k)
           /\ Held(g) = Held(h) => g = h
           /\ Lane(g, m) = Lane(h, n) => g = h /\ m = n
BY DEF Held, Lane, Other

\* A seating the planner may end in gives everybody a professional of their own.
LEMMA PlansAreGood ==
    ASSUME NEW g, NEW shape, NEW today_, NEW p \in PlanParty(g, shape, today_)
    PROVE  GoodPlan(p)
<1>1. p \in Seatings(g, shape, today_)
  BY Zenon DEF PlanParty
<1> QED BY <1>1 DEF Seatings, GoodPlan

\* A clerk whose party nobody touches stays honest.
LEMMA HonestFrame ==
    ASSUME NEW c \in Clerks, Honest(c), clerk'[c] = clerk[c],
           clerk[c].g \in App /\ clerk[c].op \in Making => HoldUntouched(clerk[c].g)
    PROVE  Honest(c)'
<1>1. PICK g, plan, op : g = clerk[c].g /\ plan = clerk[c].plan /\ op = clerk[c].op
  OBVIOUS
<1>2. ASSUME g \in App, op \in Making, KeepsItsRows(g, plan) PROVE KeepsItsRows(g, plan)'
  <2>1. HeldChairs(g)' = HeldChairs(g)
    BY <1>1, <1>2 DEF HoldUntouched, HeldChairs
  <2>2. \A a : StaffRows(g, a) \subseteq staffRow => StaffRows(g, a) \subseteq staffRow'
    <3>1. \A a : \A r \in StaffRows(g, a) : r.owner = Held(g)
      BY DEF StaffRows
    <3> QED BY <1>1, <1>2, <3>1 DEF HoldUntouched
  <2>3. \A a : StaffRows(g, a)' = StaffRows(g, a) /\ ChairRows(g, a)' = ChairRows(g, a)
    BY DEF StaffRows, ChairRows
  <2> QED BY <1>2, <2>1, <2>2, <2>3 DEF KeepsItsRows
<1>3. g \in App /\ op \in Making => HoldUntouched(g)
  BY <1>1
<1>4. {"loaded", "planned", "held", "giveback"} = Making
  BY DEF Making
<1> QED BY <1>1, <1>2, <1>3, <1>4 DEF Honest, HoldUntouched

\* A party of the app nobody touches stays settled.
LEMMA SettledFrame ==
    ASSUME NEW g \in App, PartyIsSettled(g), HoldUntouched(g), LanesUntouched(g)
    PROVE  PartyIsSettled(g)'
<1>1. HeldChairs(g)' = HeldChairs(g)
  BY DEF HoldUntouched, HeldChairs
<1>2. \A m \in Members : LaneChairs(g, m)' = LaneChairs(g, m)
  BY DEF LanesUntouched, LaneChairs
<1>3. \A m \in Members : LaneIsSeated(g, m) => LaneIsSeated(g, m)'
  BY <1>2 DEF LanesUntouched, LaneIsSeated
<1> QED BY <1>1, <1>2, <1>3 DEF PartyIsSettled, HoldUntouched, LanesUntouched

-----------------------------------------------------------------------------
(* Parties: the rows re-pointed *)

\* The rows of everybody else stay, and a row that changes its owner goes from
\* the party's hold to one of its lanes.
OnlyOwn(g, rows, new) ==
    /\ \A r \in rows : r.owner # Held(g) => r \in new
    /\ \A x \in new : \/ x \in rows /\ x.owner # Held(g)
                      \/ x.owner = Held(g)
                      \/ \E m : x.owner = Lane(g, m)

Renaming(rows, own) == {[r EXCEPT !.owner = own[r]] : r \in rows}

\* A row with another owner, written out.
LEMMA OwnerUpdates ==
    /\ \A r, o : IsStaffRow(r) =>
         [r EXCEPT !.owner = o] = [staff |-> r.staff, from |-> r.from, to |-> r.to, owner |-> o]
    /\ \A r, o : IsChairRow(r) =>
         [r EXCEPT !.owner = o] = [type |-> r.type, from |-> r.from, to |-> r.to,
                                   owner |-> o, lane |-> r.lane]
BY DEF IsStaffRow, IsChairRow

\* Handing the hold's staff rows to the lanes touches no other party's rows.
LEMMA RenamedRows ==
    ASSUME \A r \in staffRow : IsStaffRow(r), NEW g, NEW own, NEW new,
           new = Renaming(staffRow, own),
           \A r \in staffRow : /\ r.owner # Held(g) => own[r] = r.owner
                               /\ r.owner = Held(g) => own[r] = Held(g) \/ \E m : own[r] = Lane(g, m)
    PROVE  OnlyOwn(g, staffRow, new) /\ \A x \in new : IsStaffRow(x)
<1> DEFINE Renamed(r) == [staff |-> r.staff, from |-> r.from, to |-> r.to, owner |-> own[r]]
<1>1. \A r \in staffRow : [r EXCEPT !.owner = own[r]] = Renamed(r)
  BY OwnerUpdates
<1>2. \A r \in staffRow : r.owner # Held(g) => Renamed(r) = r
  <2> TAKE r \in staffRow
  <2> HAVE r.owner # Held(g)
  <2>1. own[r] = r.owner /\ IsStaffRow(r)
    OBVIOUS
  <2> QED BY <2>1 DEF IsStaffRow
<1>3. \A r : IsStaffRow(Renamed(r)) /\ Renamed(r).owner = own[r]
  BY DEF IsStaffRow
<1>4. \A x \in new : \E r \in staffRow : x = [r EXCEPT !.owner = own[r]]
  BY Zenon DEF Renaming
<1>5. \A r \in staffRow : [r EXCEPT !.owner = own[r]] \in new
  BY Zenon DEF Renaming
<1> HIDE DEF Renamed
<1>6. \A x \in new : \E r \in staffRow : x = Renamed(r)
  <2> TAKE x \in new
  <2>1. PICK r \in staffRow : x = [r EXCEPT !.owner = own[r]]
    BY <1>4, Zenon
  <2>2. x = Renamed(r)
    BY <1>1, <2>1
  <2> QED BY <2>2
<1>7. \A r \in staffRow : Renamed(r) \in new
  BY <1>1, <1>5, Zenon
<1>8. \A x \in new : IsStaffRow(x)
  BY <1>3, <1>6, Zenon
<1>9. \A r \in staffRow : r.owner # Held(g) => r \in new
  BY <1>2, <1>7
<1>10. \A x \in new : \/ x \in staffRow /\ x.owner # Held(g)
                      \/ x.owner = Held(g)
                      \/ \E m : x.owner = Lane(g, m)
  <2> TAKE x \in new
  <2>1. PICK r \in staffRow : x = Renamed(r)
    BY <1>6
  <2> QED BY <2>1, <1>2, <1>3
<1> QED BY <1>8, <1>9, <1>10 DEF OnlyOwn

\* The same of the chair rows.
LEMMA RenamedChairs ==
    ASSUME \A r \in chairRow : IsChairRow(r), NEW g, NEW own, NEW new,
           new = Renaming(chairRow, own),
           \A r \in chairRow : /\ r.owner # Held(g) => own[r] = r.owner
                               /\ r.owner = Held(g) => own[r] = Held(g) \/ \E m : own[r] = Lane(g, m)
    PROVE  OnlyOwn(g, chairRow, new) /\ \A x \in new : IsChairRow(x)
<1> DEFINE Renamed(r) == [type |-> r.type, from |-> r.from, to |-> r.to, owner |-> own[r], lane |-> r.lane]
<1>1. \A r \in chairRow : [r EXCEPT !.owner = own[r]] = Renamed(r)
  BY OwnerUpdates
<1>2. \A r \in chairRow : r.owner # Held(g) => Renamed(r) = r
  <2> TAKE r \in chairRow
  <2> HAVE r.owner # Held(g)
  <2>1. own[r] = r.owner /\ IsChairRow(r)
    OBVIOUS
  <2> QED BY <2>1 DEF IsChairRow
<1>3. \A r : IsChairRow(Renamed(r)) /\ Renamed(r).owner = own[r]
  BY DEF IsChairRow
<1>4. \A x \in new : \E r \in chairRow : x = [r EXCEPT !.owner = own[r]]
  BY Zenon DEF Renaming
<1>5. \A r \in chairRow : [r EXCEPT !.owner = own[r]] \in new
  BY Zenon DEF Renaming
<1> HIDE DEF Renamed
<1>6. \A x \in new : \E r \in chairRow : x = Renamed(r)
  <2> TAKE x \in new
  <2>1. PICK r \in chairRow : x = [r EXCEPT !.owner = own[r]]
    BY <1>4, Zenon
  <2>2. x = Renamed(r)
    BY <1>1, <2>1
  <2> QED BY <2>2
<1>7. \A r \in chairRow : Renamed(r) \in new
  BY <1>1, <1>5, Zenon
<1>8. \A x \in new : IsChairRow(x)
  BY <1>3, <1>6, Zenon
<1>9. \A r \in chairRow : r.owner # Held(g) => r \in new
  BY <1>2, <1>7
<1>10. \A x \in new : \/ x \in chairRow /\ x.owner # Held(g)
                      \/ x.owner = Held(g)
                      \/ \E m : x.owner = Lane(g, m)
  <2> TAKE x \in new
  <2>1. PICK r \in chairRow : x = Renamed(r)
    BY <1>6
  <2> QED BY <2>1, <1>2, <1>3
<1> QED BY <1>8, <1>9, <1>10 DEF OnlyOwn

\* Each of the three ways the code re-points rows touches the party's own.
LEMMA RepointingIsOwn ==
    ASSUME PartyShape, NEW g, NEW a
    PROVE  /\ OnlyOwn(g, staffRow, Repointed(g, a)) /\ \A x \in Repointed(g, a) : IsStaffRow(x)
           /\ OnlyOwn(g, chairRow, ChairsRepointed(g, a)) /\ \A x \in ChairsRepointed(g, a) : IsChairRow(x)
           /\ OnlyOwn(g, chairRow, ChairsOneByOne(g, a)) /\ \A x \in ChairsOneByOne(g, a) : IsChairRow(x)
<1>1. OnlyOwn(g, staffRow, Repointed(g, a)) /\ \A x \in Repointed(g, a) : IsStaffRow(x)
  <2> DEFINE own == [r \in staffRow |->
                IF r.owner = Held(g) /\ \E m \in Members : a[m].staff = r.staff /\ a[m].from = r.from
                THEN Lane(g, CHOOSE m \in Members : a[m].staff = r.staff) ELSE r.owner]
  <2>1. Repointed(g, a) = Renaming(staffRow, own)
    BY DEF Repointed, Renaming
  <2>2. \A r \in staffRow : /\ r.owner # Held(g) => own[r] = r.owner
                            /\ r.owner = Held(g) => own[r] = Held(g) \/ \E m : own[r] = Lane(g, m)
    OBVIOUS
  <2> HIDE DEF own
  <2> QED BY <2>1, <2>2, RenamedRows DEF PartyShape
<1>2. OnlyOwn(g, chairRow, ChairsRepointed(g, a)) /\ \A x \in ChairsRepointed(g, a) : IsChairRow(x)
  <2> DEFINE own == [r \in chairRow |->
                IF r.owner = Held(g) /\ \E m \in Members : a[m].from = r.from
                THEN Lane(g, CHOOSE m \in Members :
                               a[m].from = r.from /\ \A n \in Members : a[n].from = r.from => m <= n)
                ELSE r.owner]
  <2>1. ChairsRepointed(g, a) = Renaming(chairRow, own)
    BY DEF ChairsRepointed, Renaming
  <2>2. \A r \in chairRow : /\ r.owner # Held(g) => own[r] = r.owner
                            /\ r.owner = Held(g) => own[r] = Held(g) \/ \E m : own[r] = Lane(g, m)
    OBVIOUS
  <2> HIDE DEF own
  <2> QED BY <2>1, <2>2, RenamedChairs DEF PartyShape
<1>3. OnlyOwn(g, chairRow, ChairsOneByOne(g, a)) /\ \A x \in ChairsOneByOne(g, a) : IsChairRow(x)
  <2> DEFINE own == [r \in chairRow |-> IF r.owner = Held(g) THEN Lane(g, r.lane) ELSE r.owner]
  <2>1. ChairsOneByOne(g, a) = Renaming(chairRow, own)
    BY DEF ChairsOneByOne, Renaming
  <2>2. \A r \in chairRow : /\ r.owner # Held(g) => own[r] = r.owner
                            /\ r.owner = Held(g) => own[r] = Held(g) \/ \E m : own[r] = Lane(g, m)
    OBVIOUS
  <2> HIDE DEF own
  <2> QED BY <2>1, <2>2, RenamedChairs DEF PartyShape
<1> QED BY <1>1, <1>2, <1>3

\* A clerk that starts to make a party nobody else makes, or makes none,
\* leaves each party with one maker.
LEMMA AloneFrame ==
    ASSUME MakersAreAlone, NEW c \in Clerks, \A d \in Clerks \ {c} : clerk'[d] = clerk[d],
           \/ clerk'[c].op \notin Making
           \/ clerk[c].op \in Making /\ clerk'[c].g = clerk[c].g
           \/ \A d \in Clerks \ {c} : clerk[d].g # clerk'[c].g
    PROVE  MakersAreAlone'
BY DEF MakersAreAlone

\* The rows of other parties, before and after.
LEMMA OwnFrame ==
    ASSUME NEW g, NEW h, h # g, NEW rows, NEW new, OnlyOwn(g, rows, new), NEW r,
           r.owner = Held(h) \/ \E m : r.owner = Lane(h, m)
    PROVE  r \in WithoutHold(new, g) <=> r \in rows
<1>1. r.owner # Held(g) /\ \A m : r.owner # Lane(g, m)
  BY Owners
<1> QED BY <1>1 DEF OnlyOwn, WithoutHold

OthersUntouched(g) == \A h \in App : h # g => HoldUntouched(h) /\ LanesUntouched(h)

\* A step that concerns one party keeps the invariant of the others.
LEMMA OnePartyMoves ==
    ASSUME SeatsInv, PartyShape', MakersAreAlone', NEW g, OthersUntouched(g),
           g \in App => PartyIsSettled(g)',
           \A d \in Clerks : \/ Honest(d)'
                             \/ /\ clerk'[d] = clerk[d]
                                /\ \/ clerk[d].g # g \/ clerk[d].op \notin Making
                                   \/ g \in App => HoldUntouched(g)
    PROVE  SeatsInv'
<1>1. \A h \in App : PartyIsSettled(h)'
  <2> TAKE h \in App
  <2>1. CASE h = g
    BY <2>1
  <2>2. CASE h # g
    BY <2>2, SettledFrame DEF OthersUntouched, SeatsInv
  <2> QED BY <2>1, <2>2
<1>2. \A d \in Clerks : Honest(d)'
  <2> TAKE d \in Clerks
  <2>1. CASE /\ clerk'[d] = clerk[d]
             /\ \/ clerk[d].g # g \/ clerk[d].op \notin Making
                \/ g \in App => HoldUntouched(g)
    <3>1. clerk[d].g \in App /\ clerk[d].op \in Making => HoldUntouched(clerk[d].g)
      BY <2>1 DEF OthersUntouched
    <3> QED BY <2>1, <3>1, HonestFrame DEF SeatsInv
  <2> QED BY <2>1
<1> QED BY <1>1, <1>2 DEF SeatsInv

\* A step that leaves the rows alone touches no party.
LEMMA NothingTouched ==
    ASSUME UNCHANGED <<staffRow, chairRow, group, hold, member>>
    PROVE  \A g : HoldUntouched(g) /\ LanesUntouched(g)
BY DEF HoldUntouched, LanesUntouched

\* A request moves on and writes nothing.
LEMMA ClerkMoves ==
    ASSUME SeatsInv, NEW c \in Clerks, NEW k, IsClerk(k), clerk' = [clerk EXCEPT ![c] = k],
           UNCHANGED <<staffRow, chairRow, group, hold, member>>,
           \/ k.op \notin Making
           \/ clerk[c].op \in Making /\ k.g = clerk[c].g
           \/ \A d \in Clerks \ {c} : clerk[d].g # k.g,
           Honest(c)'
    PROVE  SeatsInv'
<1>1. /\ clerk'[c] = k /\ \A d \in Clerks \ {c} : clerk'[d] = clerk[d]
      /\ DOMAIN clerk' = Clerks
  BY DEF SeatsInv, PartyShape
<1>2. PartyShape'
  BY <1>1 DEF SeatsInv, PartyShape, IsClerk, IsBooking, IsStaffRow, IsChairRow
<1>3. MakersAreAlone'
  BY <1>1, AloneFrame DEF SeatsInv
<1>4. \A d \in Clerks : Honest(d)'
  <2> TAKE d \in Clerks
  <2>1. CASE d # c
    BY <1>1, <2>1, HonestFrame, NothingTouched DEF SeatsInv
  <2> QED BY <2>1
<1>5. \A g \in App : PartyIsSettled(g)'
  BY NothingTouched, SettledFrame DEF SeatsInv
<1> QED BY <1>2, <1>3, <1>4, <1>5 DEF SeatsInv

\* A request that ends.
LEMMA ClerkRests ==
    ASSUME SeatsInv, NEW c \in Clerks, clerk' = [clerk EXCEPT ![c] = AtRest],
           UNCHANGED <<staffRow, chairRow, group, hold, member>>
    PROVE  SeatsInv'
<1>1. PICK k : k = AtRest
  OBVIOUS
<1>2. IsClerk(k) /\ k.op = "rest"
  BY <1>1 DEF AtRest, IsClerk
<1>3. clerk'[c] = k
  BY <1>1 DEF SeatsInv, PartyShape
<1>4. Honest(c)'
  BY <1>2, <1>3 DEF Honest
<1>5. k.op \notin Making
  BY <1>2 DEF Making
<1> QED BY <1>1, <1>2, <1>4, <1>5, ClerkMoves

\* The reads in front of a transaction.
LEMMA ReadsKeepSeats ==
    ASSUME SeatsInv, NEW c \in Clerks, NEW g \in Groups,
           LoadDay(c, g) \/ DeskConfirmRead(c, g) \/ CancelCheck(c, g)
    PROVE  SeatsInv'
<1>1. UNCHANGED <<staffRow, chairRow, group, hold, member>>
  BY DEF LoadDay, DeskConfirmRead, CancelCheck
<1>2. CASE LoadDay(c, g)
  <2>1. PICK k : k = [AtRest EXCEPT !.op = "loaded", !.g = g, !.pros = working]
    OBVIOUS
  <2>2. IsClerk(k) /\ k.op = "loaded" /\ k.g = g
    BY <2>1 DEF AtRest, IsClerk
  <2>3. clerk' = [clerk EXCEPT ![c] = k] /\ clerk'[c] = k
    BY <1>2, <2>1 DEF LoadDay, SeatsInv, PartyShape
  <2>4. Honest(c)'
    BY <1>1, <1>2, <2>2, <2>3 DEF Honest, LoadDay
  <2>5. \A d \in Clerks : clerk[d].g # g
    BY <1>2 DEF LoadDay
  <2> QED BY <1>1, <2>2, <2>3, <2>4, <2>5, ClerkMoves
<1>3. CASE DeskConfirmRead(c, g)
  <2>1. PICK k : k = [AtRest EXCEPT !.op = "confirm", !.g = g, !.pros = working]
    OBVIOUS
  <2>2. IsClerk(k) /\ k.op = "confirm" /\ k.g = g
    BY <2>1 DEF AtRest, IsClerk
  <2>3. clerk' = [clerk EXCEPT ![c] = k] /\ clerk'[c] = k
    BY <1>3, <2>1 DEF DeskConfirmRead, SeatsInv, PartyShape
  <2>4. Honest(c)'
    BY <1>1, <1>3, <2>2, <2>3 DEF Honest, DeskConfirmRead
  <2>5. k.op \notin Making
    BY <2>2 DEF Making
  <2> QED BY <1>1, <2>2, <2>3, <2>4, <2>5, ClerkMoves
<1>4. CASE CancelCheck(c, g)
  <2>1. PICK live : clerk' = [clerk EXCEPT ![c] = [AtRest EXCEPT !.op = "cancel", !.g = g, !.todo = live]]
    BY <1>4 DEF CancelCheck
  <2>2. PICK k : k = [AtRest EXCEPT !.op = "cancel", !.g = g, !.todo = live]
    OBVIOUS
  <2>3. IsClerk(k) /\ k.op = "cancel" /\ k.g = g
    BY <2>2 DEF AtRest, IsClerk
  <2>4. clerk' = [clerk EXCEPT ![c] = k] /\ clerk'[c] = k
    BY <2>1, <2>2 DEF SeatsInv, PartyShape
  <2>5. Honest(c)'
    BY <2>3, <2>4 DEF Honest
  <2>6. k.op \notin Making
    BY <2>3 DEF Making
  <2> QED BY <1>1, <2>3, <2>4, <2>5, <2>6, ClerkMoves
<1> QED BY <1>2, <1>3, <1>4

\* The plan is made under the lock; a statement fails; an answer is given.
LEMMA TurnsKeepSeats ==
    ASSUME SeatsInv, NEW c \in Clerks,
           \/ PlanLocked(c) \/ AppConfirmFails(c) \/ AppAnswers(c) \/ AppUnreadable(c)
           \/ ClerkDies(c)
    PROVE  SeatsInv'
<1>1. UNCHANGED <<staffRow, chairRow, group, hold, member>>
  BY DEF PlanLocked, AppConfirmFails, AppAnswers, AppUnreadable, ClerkDies
<1>2. Honest(c) /\ IsClerk(clerk[c])
  BY DEF SeatsInv, PartyShape
<1>3. ASSUME clerk' = [clerk EXCEPT ![c] = AtRest] PROVE SeatsInv'
  BY <1>1, <1>3, ClerkRests
<1>4. CASE PlanLocked(c)
  <2>1. PICK plan : /\ plan = PlanParty(clerk[c].g, Shape[clerk[c].g], Day(clerk[c].pros, None))
                    /\ clerk' = [clerk EXCEPT ![c] = IF plan = {} THEN AtRest
                                   ELSE [clerk[c] EXCEPT !.op = "planned", !.plan = plan]]
    BY <1>4 DEF PlanLocked
  <2>2. CASE plan = {}
    BY <1>3, <2>1, <2>2
  <2>3. CASE plan # {}
    <3>1. PICK k : k = [clerk[c] EXCEPT !.op = "planned", !.plan = plan]
      OBVIOUS
    <3>2. IsClerk(k) /\ k.op = "planned" /\ k.g = clerk[c].g /\ k.plan = plan
      BY <1>2, <3>1 DEF IsClerk
    <3>3. clerk' = [clerk EXCEPT ![c] = k] /\ clerk'[c] = k
      BY <2>1, <2>3, <3>1 DEF SeatsInv, PartyShape
    <3>4. \A p \in plan : GoodPlan(p)
      BY <2>1, PlansAreGood
    <3>5. clerk[c].op = "loaded" /\ clerk[c].op \in Making
      BY <1>4 DEF PlanLocked, Making
    <3>6. Honest(c)'
      BY <1>1, <1>2, <2>3, <3>2, <3>3, <3>4, <3>5 DEF Honest, GoodPlan
    <3> QED BY <1>1, <3>2, <3>3, <3>5, <3>6, ClerkMoves
  <2> QED BY <2>2, <2>3
<1>5. CASE AppConfirmFails(c)
  <2>1. PICK k : k = [clerk[c] EXCEPT !.op = "giveback"]
    OBVIOUS
  <2>2. IsClerk(k) /\ k.op = "giveback" /\ k.g = clerk[c].g
    BY <1>2, <2>1 DEF IsClerk
  <2>3. clerk' = [clerk EXCEPT ![c] = k] /\ clerk'[c] = k
    BY <1>5, <2>1 DEF AppConfirmFails, SeatsInv, PartyShape
  <2>4. clerk[c].op = "held" /\ clerk[c].op \in Making
    BY <1>5 DEF AppConfirmFails, Making
  <2>5. Honest(c)'
    BY <1>1, <1>2, <2>2, <2>3, <2>4 DEF Honest
  <2> QED BY <1>1, <2>2, <2>3, <2>4, <2>5, ClerkMoves
<1>6. CASE AppUnreadable(c)
  <2>1. PICK k : k = [clerk[c] EXCEPT !.op = "expire", !.todo = Members]
    OBVIOUS
  <2>2. IsClerk(k) /\ k.op = "expire"
    BY <1>2, <2>1 DEF IsClerk
  <2>3. clerk' = [clerk EXCEPT ![c] = k] /\ clerk'[c] = k
    BY <1>6, <2>1 DEF AppUnreadable, SeatsInv, PartyShape
  <2>4. Honest(c)'
    BY <2>2, <2>3 DEF Honest
  <2>5. k.op \notin Making
    BY <2>2 DEF Making
  <2> QED BY <1>1, <2>2, <2>3, <2>4, <2>5, ClerkMoves
<1>7. CASE AppAnswers(c) \/ ClerkDies(c)
  BY <1>3, <1>7 DEF AppAnswers, ClerkDies
<1> QED BY <1>4, <1>5, <1>6, <1>7

\* Rows that are added for a party, or removed from it, are its own.
LEMMA AddedRows ==
    ASSUME NEW g, NEW a
    PROVE  /\ \A r \in StaffRows(g, a) : IsStaffRow(r) /\ r.owner = Held(g)
           /\ \A r \in ChairRows(g, a) : IsChairRow(r) /\ r.owner = Held(g)
BY DEF StaffRows, ChairRows, IsStaffRow, IsChairRow

\* place(): every lane's rows, and the draft, or nothing.
LEMMA PlaceKeepsSeats ==
    ASSUME SeatsInv, NEW c \in Clerks, PlaceWrite(c)
    PROVE  SeatsInv'
<1>1. PICK g, a : g = clerk[c].g /\ a = CHOOSE p \in clerk[c].plan : TRUE
  OBVIOUS
<1>2. clerk[c].op = "planned" /\ clerk[c].op \in Making /\ Honest(c) /\ IsClerk(clerk[c])
  BY DEF PlaceWrite, SeatsInv, PartyShape, Making
<1>3. CASE \E r \in StaffRows(g, a) : ~IsFree(staffRow, r.staff, r.from, r.to)
  BY <1>1, <1>3, ClerkRests DEF PlaceWrite
<1>4. CASE ~\E r \in StaffRows(g, a) : ~IsFree(staffRow, r.staff, r.from, r.to)
  <2>1. /\ staffRow' = staffRow \cup StaffRows(g, a)
        /\ chairRow' = chairRow \cup ChairRows(g, a)
        /\ group' = [group EXCEPT ![g] = "draft"]
        /\ hold' = [hold EXCEPT ![g] = "live"]
        /\ clerk' = [clerk EXCEPT ![c] =
             IF g \in App THEN [clerk[c] EXCEPT !.op = "held"] ELSE AtRest]
        /\ member' = member
    BY <1>1, <1>4 DEF PlaceWrite
  <2>2. PICK k : k = IF g \in App THEN [clerk[c] EXCEPT !.op = "held"] ELSE AtRest
    OBVIOUS
  <2>3. /\ IsClerk(k)
        /\ g \in App => k.op = "held" /\ k.g = g /\ k.plan = clerk[c].plan
        /\ g \notin App => k.op = "rest"
    <3>1. CASE g \in App
      BY <1>1, <1>2, <2>2, <3>1 DEF IsClerk
    <3>2. CASE g \notin App
      BY <2>2, <3>2 DEF AtRest, IsClerk
    <3> QED BY <3>1, <3>2
  <2>4. /\ clerk'[c] = k /\ \A d \in Clerks \ {c} : clerk'[d] = clerk[d]
        /\ DOMAIN clerk' = Clerks
    BY <2>1, <2>2 DEF SeatsInv, PartyShape
  <2>5. PartyShape'
    <3>1. DOMAIN group' = Groups /\ DOMAIN hold' = Groups
      BY <2>1 DEF SeatsInv, PartyShape
    <3>2. \A d \in Clerks : IsClerk(clerk[d])'
      BY <2>3, <2>4 DEF SeatsInv, PartyShape, IsClerk
    <3>3. (\A r \in staffRow : IsStaffRow(r))' /\ (\A r \in chairRow : IsChairRow(r))'
      BY <2>1, AddedRows DEF SeatsInv, PartyShape
    <3> QED BY <2>1, <2>4, <3>1, <3>2, <3>3 DEF SeatsInv, PartyShape, IsBooking
  <2>6. MakersAreAlone'
    <3>1. k.op \notin Making \/ k.g = clerk[c].g
      BY <1>1, <2>3 DEF Making
    <3> QED BY <1>2, <2>4, <3>1, AloneFrame DEF SeatsInv
  <2>7. OthersUntouched(g)
    <3> SUFFICES ASSUME NEW h \in App, h # g PROVE HoldUntouched(h) /\ LanesUntouched(h)
      BY DEF OthersUntouched
    <3>1. group'[h] = group[h] /\ hold'[h] = hold[h]
      BY <2>1, PartiesAssumption DEF SeatsInv, PartyShape
    <3>2. \A r : r.owner # Held(g) => /\ r \in staffRow' <=> r \in staffRow
                                      /\ r \in chairRow' <=> r \in chairRow
      BY <2>1, AddedRows
    <3> QED BY <2>1, <3>1, <3>2, Owners DEF HoldUntouched, LanesUntouched
  <2>8. ASSUME g \in App
        PROVE  PartyIsSettled(g)' /\ Honest(c)'
    <3>1. group[g] = "none" /\ hold[g] = "none" /\ PartyIsSettled(g)
      BY <1>1, <1>2, <2>8 DEF Honest, SeatsInv, PartyIsSettled
    <3>2. group'[g] = "draft" /\ hold'[g] = "live"
      BY <2>1, <2>8, PartiesAssumption DEF SeatsInv, PartyShape
    <3>3. HeldChairs(g)' = ChairRows(g, a)
      BY <2>1, <3>1, AddedRows DEF PartyIsSettled, HeldChairs
    <3>4. \A m \in Members : LaneChairs(g, m)' = {} /\ member'[g][m].st = "none"
      <4> TAKE m \in Members
      <4>1. LaneChairs(g, m) = {} /\ member[g][m].st = "none"
        BY <3>1 DEF PartyIsSettled
      <4>2. \A r \in ChairRows(g, a) : r.owner # Lane(g, m)
        BY AddedRows, Owners
      <4> QED BY <2>1, <4>1, <4>2 DEF LaneChairs
    <3>5. PartyIsSettled(g)'
      BY <3>2, <3>4 DEF PartyIsSettled, LaneIsSeated
    <3>6. KeepsItsRows(g, k.plan)'
      BY <1>1, <2>1, <2>3, <2>8, <3>3 DEF KeepsItsRows, StaffRows, ChairRows
    <3>7. Honest(c)'
      BY <1>2, <2>3, <2>4, <2>8, <3>2, <3>6 DEF Honest, GoodPlan
    <3> QED BY <3>5, <3>7
  <2>9. g \notin App => Honest(c)'
    BY <2>3, <2>4 DEF Honest
  <2>10. \A d \in Clerks \ {c} : clerk[d].g # g \/ clerk[d].op \notin Making \/ g \notin App
    BY <1>1, <1>2 DEF SeatsInv, MakersAreAlone
  <2> QED BY <2>4, <2>5, <2>6, <2>7, <2>8, <2>9, <2>10, OnePartyMoves
<1> QED BY <1>3, <1>4

\* hold.delete takes the rows the hold still owns and no others.
LEMMA DropTouchesOwn ==
    ASSUME SeatsInv, NEW g, Drop(g), UNCHANGED member,
           \A h \in App : h # g => group'[h] = group[h]
    PROVE  OthersUntouched(g)
<1> SUFFICES ASSUME NEW h \in App, h # g PROVE HoldUntouched(h) /\ LanesUntouched(h)
  BY DEF OthersUntouched
<1>1. hold'[h] = hold[h]
  BY PartiesAssumption DEF Drop, SeatsInv, PartyShape
<1>2. \A r : r.owner # Held(g) => /\ r \in staffRow' <=> r \in staffRow
                                  /\ r \in chairRow' <=> r \in chairRow
  BY DEF Drop, WithoutHold
<1> QED BY <1>1, <1>2, Owners DEF HoldUntouched, LanesUntouched

\* ... and leaves the party settled.
LEMMA DropSettles ==
    ASSUME SeatsInv, NEW g \in App, Drop(g), UNCHANGED member,
           group'[g] = "confirmed" <=> group[g] = "confirmed"
    PROVE  PartyIsSettled(g)'
<1>1. hold'[g] = "none" /\ PartyIsSettled(g)
  BY PartiesAssumption DEF Drop, SeatsInv, PartyShape
<1>2. HeldChairs(g)' = {}
  BY DEF Drop, WithoutHold, HeldChairs
<1>3. \A r : r.owner # Held(g) => /\ r \in staffRow' <=> r \in staffRow
                                  /\ r \in chairRow' <=> r \in chairRow
  BY DEF Drop, WithoutHold
<1>4. \A m \in Members : LaneChairs(g, m)' = LaneChairs(g, m)
  BY <1>3, Owners DEF LaneChairs
<1>5. \A m \in Members : LaneIsSeated(g, m) => LaneIsSeated(g, m)'
  BY <1>3, <1>4, Owners DEF LaneIsSeated
<1> QED BY <1>1, <1>2, <1>4, <1>5 DEF PartyIsSettled

\* Dropping a hold leaves rows and holds well formed.
LEMMA DropShape ==
    ASSUME SeatsInv, NEW g, Drop(g)
    PROVE  /\ DOMAIN hold' = Groups
           /\ \A r \in staffRow' : IsStaffRow(r)
           /\ \A r \in chairRow' : IsChairRow(r)
BY DEF Drop, WithoutHold, SeatsInv, PartyShape

\* A hold released by the desk, run out, or swept.
LEMMA HoldsKeepSeats ==
    ASSUME SeatsInv, NEW g \in Groups, ReleaseParty(g) \/ HoldLapses(g) \/ SweepHold(g)
    PROVE  SeatsInv'
<1>1. UNCHANGED <<member, clerk>>
  BY DEF ReleaseParty, HoldLapses, SweepHold
<1>2. MakersAreAlone'
  BY <1>1 DEF SeatsInv, MakersAreAlone
<1>3. CASE ReleaseParty(g)
  <2>1. Drop(g) /\ g \notin App /\ group' = Cancelled(g)
    BY <1>3 DEF ReleaseParty
  <2>2. DOMAIN group' = Groups /\ \A h \in App : group'[h] = group[h]
    BY <2>1, PartiesAssumption DEF Cancelled, SeatsInv, PartyShape
  <2>3. OthersUntouched(g)
    BY <1>1, <2>1, <2>2, DropTouchesOwn
  <2>4. PartyShape'
    BY <1>1, <2>1, <2>2, DropShape DEF SeatsInv, PartyShape, IsClerk, IsBooking
  <2> QED BY <1>1, <1>2, <2>1, <2>3, <2>4, OnePartyMoves
<1>4. CASE HoldLapses(g)
  <2>1. UNCHANGED <<staffRow, chairRow, group>> /\ hold' = [hold EXCEPT ![g] = "lapsed"]
        /\ hold[g] = "live"
    BY <1>4 DEF HoldLapses
  <2>2. PartyShape'
    BY <1>1, <2>1 DEF SeatsInv, PartyShape, IsClerk, IsBooking, IsStaffRow, IsChairRow
  <2>3. \A h \in App : HoldUntouched(h) /\ LanesUntouched(h)
    BY <1>1, <2>1, PartiesAssumption DEF HoldUntouched, LanesUntouched, SeatsInv, PartyShape
  <2>4. OthersUntouched(g)
    BY <2>3 DEF OthersUntouched
  <2>5. g \in App => PartyIsSettled(g)'
    BY <2>3, SettledFrame DEF SeatsInv
  <2> QED BY <1>1, <1>2, <2>2, <2>3, <2>4, <2>5, OnePartyMoves
<1>5. CASE SweepHold(g)
  <2>1. Drop(g) /\ group' = group
    BY <1>5 DEF SweepHold
  <2>2. OthersUntouched(g)
    BY <1>1, <2>1, DropTouchesOwn
  <2>3. PartyShape'
    BY <1>1, <2>1, DropShape DEF SeatsInv, PartyShape, IsClerk, IsBooking
  <2>4. g \in App => PartyIsSettled(g)'
    BY <1>1, <2>1, DropSettles
  <2>5. hold'[g] = "none"
    BY <2>1 DEF Drop, SeatsInv, PartyShape
  <2>6. \A d \in Clerks : clerk[d].g = g => Honest(d)'
    <3> SUFFICES ASSUME NEW d \in Clerks, clerk[d].g = g PROVE Honest(d)'
      OBVIOUS
    <3>1. Honest(d)
      BY DEF SeatsInv
    <3> QED BY <1>1, <2>1, <2>5, <3>1 DEF Honest, GoodPlan
  <2> QED BY <1>1, <1>2, <2>2, <2>3, <2>4, <2>6, OnePartyMoves
<1> QED BY <1>3, <1>4, <1>5

\* release() of the request's own hold.
LEMMA GiveBackKeepsSeats ==
    ASSUME SeatsInv, NEW c \in Clerks, AppGivesBack(c)
    PROVE  SeatsInv'
<1>1. PICK g : g = clerk[c].g
  OBVIOUS
<1>2. /\ UNCHANGED member /\ clerk' = [clerk EXCEPT ![c] = AtRest] /\ GiveBack(g)
      /\ clerk[c].op \in Making
  BY <1>1 DEF AppGivesBack, Making
<1>3. CASE hold[g] = "none"
  BY <1>2, <1>3, ClerkRests DEF GiveBack
<1>4. CASE hold[g] # "none"
  <2>1. Drop(g) /\ group' = Cancelled(g)
    BY <1>2, <1>4 DEF GiveBack
  <2>2. /\ DOMAIN group' = Groups /\ \A h \in App : h # g => group'[h] = group[h]
        /\ g \in App => (group'[g] = "confirmed" <=> group[g] = "confirmed")
    BY <2>1, PartiesAssumption DEF Cancelled, SeatsInv, PartyShape
  <2>3. PICK k : k = AtRest
    OBVIOUS
  <2>4. IsClerk(k) /\ k.op = "rest" /\ k.op \notin Making
    BY <2>3 DEF AtRest, IsClerk, Making
  <2>5. /\ clerk'[c] = k /\ \A d \in Clerks \ {c} : clerk'[d] = clerk[d]
        /\ DOMAIN clerk' = Clerks
    BY <1>2, <2>3 DEF SeatsInv, PartyShape
  <2>6. PartyShape'
    BY <1>2, <2>1, <2>2, <2>4, <2>5, DropShape DEF SeatsInv, PartyShape, IsClerk, IsBooking
  <2>7. MakersAreAlone'
    BY <2>4, <2>5, AloneFrame DEF SeatsInv
  <2>8. OthersUntouched(g)
    BY <1>2, <2>1, <2>2, DropTouchesOwn
  <2>9. g \in App => PartyIsSettled(g)'
    BY <1>2, <2>1, <2>2, DropSettles
  <2>10. Honest(c)'
    BY <2>4, <2>5 DEF Honest
  <2>11. \A d \in Clerks \ {c} : clerk[d].g # g \/ clerk[d].op \notin Making \/ g \notin App
    BY <1>1, <1>2 DEF SeatsInv, MakersAreAlone
  <2> QED BY <2>5, <2>6, <2>7, <2>8, <2>9, <2>10, <2>11, OnePartyMoves
<1> QED BY <1>3, <1>4

\* Bookings of others and the roster: rows of nobody's party.
LEMMA OthersKeepSeats ==
    ASSUME SeatsInv,
           \/ \E k \in DOMAIN Singles : SingleBooks(k) \/ SingleCancels(k)
           \/ \E s \in Staff : ShiftChanges(s)
    PROVE  SeatsInv'
<1>1. UNCHANGED <<group, hold, member, clerk>>
  BY DEF SingleBooks, SingleCancels, ShiftChanges
<1> DEFINE PartiesKeepRows ==
             /\ \A r \in staffRow' : IsStaffRow(r)
             /\ \A r \in chairRow' : IsChairRow(r)
             /\ \A r : \A h, m : r.owner = Held(h) \/ r.owner = Lane(h, m) =>
                   /\ r \in staffRow' <=> r \in staffRow
                   /\ r \in chairRow' <=> r \in chairRow
<1>2. PartiesKeepRows
  <2>1. ASSUME NEW k \in DOMAIN Singles, SingleBooks(k) PROVE PartiesKeepRows
    <3>1. PICK x, y : /\ x = [staff |-> Singles[k].staff, from |-> Singles[k].from,
                              to |-> Singles[k].to, owner |-> Other(k)]
                      /\ y = [type |-> Singles[k].type, from |-> Singles[k].from,
                              to |-> Singles[k].to, owner |-> Other(k), lane |-> 0]
      OBVIOUS
    <3>2. IsStaffRow(x) /\ IsChairRow(y) /\ x.owner = Other(k) /\ y.owner = Other(k)
      BY <3>1 DEF IsStaffRow, IsChairRow
    <3>3. staffRow' = staffRow \cup {x} /\ chairRow' = chairRow \cup {y}
      BY <2>1, <3>1 DEF SingleBooks
    <3> QED BY <3>2, <3>3, Owners DEF SeatsInv, PartyShape
  <2>2. ASSUME NEW k \in DOMAIN Singles, SingleCancels(k) PROVE PartiesKeepRows
    <3>1. /\ staffRow' = {r \in staffRow : r.owner # Other(k)}
          /\ chairRow' = {r \in chairRow : r.owner # Other(k)}
      BY <2>2 DEF SingleCancels
    <3> QED BY <3>1, Owners DEF SeatsInv, PartyShape
  <2>3. ASSUME NEW s \in Staff, ShiftChanges(s) PROVE PartiesKeepRows
    BY <2>3 DEF ShiftChanges, SeatsInv, PartyShape
  <2> QED BY <2>1, <2>2, <2>3
<1>3. PartyShape'
  BY <1>1, <1>2 DEF SeatsInv, PartyShape, IsClerk, IsBooking
<1>4. MakersAreAlone'
  BY <1>1 DEF SeatsInv, MakersAreAlone
<1>5. \A h \in App : HoldUntouched(h) /\ LanesUntouched(h)
  BY <1>1, <1>2 DEF HoldUntouched, LanesUntouched
<1>6. \A h \in App : PartyIsSettled(h)'
  BY <1>5, SettledFrame DEF SeatsInv
<1>7. \A d \in Clerks : Honest(d)'
  BY <1>1, <1>5, HonestFrame DEF SeatsInv
<1> QED BY <1>3, <1>4, <1>6, <1>7 DEF SeatsInv

\* What Ends writes: one member's booking, and no row but that lane's.
LEMMA EndsTouchesOneLane ==
    ASSUME SeatsInv, NEW g, NEW m, NEW st, Ends(g, m, st)
    PROVE  /\ DOMAIN member' = Groups
           /\ \A h \in Groups : /\ DOMAIN member'[h] = Members
                                /\ \A n \in Members : IsBooking(member[h][n])'
           /\ \A h \in Groups : h # g => member'[h] = member[h]
           /\ g \in Groups => \A n \in Members : n # m => member'[g][n] = member[g][n]
           /\ g \in Groups /\ m \in Members => member'[g][m].st = st
           /\ \A r \in staffRow' : IsStaffRow(r)
           /\ \A r \in chairRow' : IsChairRow(r)
           /\ \A r : r.owner # Lane(g, m) => /\ r \in staffRow' <=> r \in staffRow
                                             /\ r \in chairRow' <=> r \in chairRow
<1>1. member' = [member EXCEPT ![g] = [member[g] EXCEPT ![m] = [member[g][m] EXCEPT !.st = st]]]
  BY DEF Ends
<1>2. PICK b : b = [member[g][m] EXCEPT !.st = st]
  OBVIOUS
<1>3. g \in Groups /\ m \in Members => IsBooking(b) /\ b.st = st
  <2> SUFFICES ASSUME g \in Groups, m \in Members PROVE IsBooking(b) /\ b.st = st
    OBVIOUS
  <2>1. PICK o : o = member[g][m]
    OBVIOUS
  <2>2. IsBooking(o)
    BY <2>1 DEF SeatsInv, PartyShape
  <2>3. b = [o EXCEPT !.st = st]
    BY <1>2, <2>1
  <2> QED BY <2>2, <2>3 DEF IsBooking
<1>4. PICK f : f = [member[g] EXCEPT ![m] = b]
  OBVIOUS
<1>5. g \in Groups => /\ DOMAIN f = Members /\ \A n \in Members : n # m => f[n] = member[g][n]
                      /\ m \in Members => f[m] = b
  BY <1>4 DEF SeatsInv, PartyShape
<1>6. member' = [member EXCEPT ![g] = f]
  BY <1>1, <1>2, <1>4
<1>7. /\ DOMAIN member' = Groups /\ \A h \in Groups : h # g => member'[h] = member[h]
      /\ g \in Groups => member'[g] = f
  BY <1>6 DEF SeatsInv, PartyShape
<1>8. \A h \in Groups : /\ DOMAIN member'[h] = Members
                        /\ \A n \in Members : IsBooking(member[h][n])'
  <2> TAKE h \in Groups
  <2>1. CASE h # g
    BY <1>7, <2>1 DEF SeatsInv, PartyShape, IsBooking
  <2>2. CASE h = g
    <3>1. DOMAIN f = Members
      BY <1>5, <2>2
    <3>2. \A n \in Members : IsBooking(f[n])
      BY <1>3, <1>5, <2>2 DEF SeatsInv, PartyShape
    <3> QED BY <1>7, <2>2, <3>1, <3>2 DEF IsBooking
  <2> QED BY <2>1, <2>2
<1>9. /\ \A r \in staffRow' : IsStaffRow(r)
      /\ \A r \in chairRow' : IsChairRow(r)
      /\ \A r : r.owner # Lane(g, m) => /\ r \in staffRow' <=> r \in staffRow
                                        /\ r \in chairRow' <=> r \in chairRow
  BY DEF Ends, SeatsInv, PartyShape
<1> QED BY <1>3, <1>5, <1>7, <1>8, <1>9

\* A member's booking that ends gives back that member's seat and no other.
LEMMA EndsKeepsParties ==
    ASSUME SeatsInv, NEW g, NEW m, NEW st, Ends(g, m, st), UNCHANGED <<group, hold>>,
           st \in {"cancelled", "expired"},
           g \in App /\ m \in Members => group[g] = "confirmed"
    PROVE  \A h \in App : HoldUntouched(h) /\ PartyIsSettled(h)'
<1> TAKE h \in App
<1>1. h \in Groups /\ PartyIsSettled(h)
  BY PartiesAssumption DEF SeatsInv
<1>2. \A r : r.owner # Lane(g, m) => /\ r \in staffRow' <=> r \in staffRow
                                     /\ r \in chairRow' <=> r \in chairRow
  BY EndsTouchesOneLane
<1>3. HoldUntouched(h)
  BY <1>2, Owners DEF HoldUntouched
<1>4. HeldChairs(h)' = HeldChairs(h)
  BY <1>2, Owners DEF HeldChairs
<1>5. CASE h # g
  <2>1. member'[h] = member[h]
    BY <1>1, <1>5, EndsTouchesOneLane
  <2>2. LanesUntouched(h)
    BY <1>2, <1>5, <2>1, Owners DEF LanesUntouched
  <2> QED BY <1>1, <1>3, <2>2, SettledFrame
<1>6. CASE h = g
  <2>1. \A n \in Members : n # m => /\ LaneChairs(g, n)' = LaneChairs(g, n)
                                    /\ member'[g][n] = member[g][n]
                                    /\ LaneIsSeated(g, n) => LaneIsSeated(g, n)'
    <3> SUFFICES ASSUME NEW n \in Members, n # m
                 PROVE  /\ LaneChairs(g, n)' = LaneChairs(g, n)
                        /\ member'[g][n] = member[g][n]
                        /\ LaneIsSeated(g, n) => LaneIsSeated(g, n)'
      OBVIOUS
    <3>1. member'[g][n] = member[g][n]
      BY <1>1, <1>6, EndsTouchesOneLane
    <3>2. \A r : r.owner = Lane(g, n) => /\ r \in staffRow' <=> r \in staffRow
                                         /\ r \in chairRow' <=> r \in chairRow
      BY <1>2, Owners
    <3>3. LaneChairs(g, n)' = LaneChairs(g, n)
      BY <3>2 DEF LaneChairs
    <3> QED BY <3>1, <3>2, <3>3 DEF LaneIsSeated
  <2>2. m \in Members => LaneIsSeated(g, m)'
    BY <1>1, <1>6, EndsTouchesOneLane DEF LaneIsSeated
  <2>3. group'[g] = group[g] /\ (m \in Members => group[g] = "confirmed")
    BY <1>6
  <2> QED BY <1>1, <1>3, <1>4, <1>6, <2>1, <2>2, <2>3 DEF PartyIsSettled
<1> QED BY <1>3, <1>5, <1>6

\* A lane a request ends, or leaves as it is, and the request's next turn.
LEMMA LaneStep ==
    ASSUME SeatsInv, NEW c \in Clerks, clerk[c].op \in {"expire", "cancel"},
           NEW m, NEW st \in {"cancelled", "expired"}, UNCHANGED <<group, hold>>,
           NEW k, IsClerk(k), clerk' = [clerk EXCEPT ![c] = k],
           k.op \in {"rest", "expire", "cancel"},
           \/ Ends(clerk[c].g, m, st) /\ member[clerk[c].g][m].st = "confirmed"
           \/ UNCHANGED <<member, staffRow, chairRow>>
    PROVE  SeatsInv'
<1>1. PICK g : g = clerk[c].g
  OBVIOUS
<1>2. /\ clerk'[c] = k /\ \A d \in Clerks \ {c} : clerk'[d] = clerk[d]
      /\ DOMAIN clerk' = Clerks
  BY DEF SeatsInv, PartyShape
<1>3. Honest(c)' /\ k.op \notin Making
  BY <1>2 DEF Honest, Making
<1>4. CASE UNCHANGED <<member, staffRow, chairRow>>
  BY <1>3, <1>4, ClerkMoves
<1>5. CASE Ends(g, m, st) /\ member[g][m].st = "confirmed"
  <2>1. g \in App /\ m \in Members => group[g] = "confirmed"
    BY <1>5 DEF SeatsInv, PartyIsSettled
  <2>2. \A h \in App : HoldUntouched(h) /\ PartyIsSettled(h)'
    BY <1>5, <2>1, EndsKeepsParties
  <2>3. PartyShape'
    <3>1. /\ DOMAIN member' = Groups
          /\ \A h \in Groups : /\ DOMAIN member'[h] = Members
                               /\ \A n \in Members : IsBooking(member[h][n])'
          /\ \A r \in staffRow' : IsStaffRow(r)
          /\ \A r \in chairRow' : IsChairRow(r)
      BY <1>5, EndsTouchesOneLane
    <3>2. \A d \in Clerks : IsClerk(clerk[d])'
      BY <1>2 DEF SeatsInv, PartyShape, IsClerk
    <3> QED BY <1>2, <3>1, <3>2 DEF SeatsInv, PartyShape, IsBooking
  <2>4. MakersAreAlone'
    BY <1>2, <1>3, AloneFrame DEF SeatsInv
  <2>5. \A d \in Clerks : Honest(d)'
    <3> TAKE d \in Clerks
    <3>1. CASE d # c
      BY <1>2, <2>2, <3>1, HonestFrame DEF SeatsInv
    <3> QED BY <1>3, <3>1
  <2> QED BY <2>2, <2>3, <2>4, <2>5 DEF SeatsInv
<1> QED BY <1>1, <1>4, <1>5

\* The lanes of a request are expired, or cancelled, one by one.
LEMMA LanesKeepSeats ==
    ASSUME SeatsInv, NEW c \in Clerks, ExpireLane(c) \/ CancelLane(c)
    PROVE  SeatsInv'
<1> DEFINE Onwards(m) == IF clerk[c].todo = {m} THEN AtRest
                         ELSE [clerk[c] EXCEPT !.todo = clerk[c].todo \ {m}]
<1>1. UNCHANGED <<group, hold>> /\ clerk[c].op \in {"expire", "cancel"}
  BY DEF ExpireLane, CancelLane
<1>2. AtRest.op = "rest" /\ IsClerk(AtRest)
  BY DEF AtRest, IsClerk
<1>3. \A m : IsClerk(Onwards(m)) /\ Onwards(m).op \in {"rest", "expire", "cancel"}
  <2> TAKE m
  <2>1. PICK k, t : k = clerk[c] /\ t = clerk[c].todo \ {m}
    OBVIOUS
  <2>2. IsClerk(k) /\ k.op \in {"expire", "cancel"}
    BY <1>1, <2>1 DEF SeatsInv, PartyShape
  <2>3. IsClerk([k EXCEPT !.todo = t]) /\ [k EXCEPT !.todo = t].op = k.op
    BY <2>2 DEF IsClerk
  <2> QED BY <1>2, <2>1, <2>2, <2>3
<1>4. CASE ExpireLane(c)
  <2>1. PICK m : /\ clerk' = [clerk EXCEPT ![c] = Onwards(m)]
                 /\ \/ Ends(clerk[c].g, m, "expired") /\ member[clerk[c].g][m].st = "confirmed"
                    \/ UNCHANGED <<member, staffRow, chairRow>>
    <3>1. PICK m : m = CHOOSE x \in clerk[c].todo : \A y \in clerk[c].todo : x <= y
      OBVIOUS
    <3>2. /\ clerk' = [clerk EXCEPT ![c] = Onwards(m)]
          /\ IF member[clerk[c].g][m].st = "confirmed" THEN Ends(clerk[c].g, m, "expired")
             ELSE UNCHANGED <<member, staffRow, chairRow>>
      BY <1>4, <3>1 DEF ExpireLane
    <3> HIDE DEF Onwards
    <3> QED BY <3>2
  <2>2. PICK k : k = Onwards(m)
    OBVIOUS
  <2>3. IsClerk(k) /\ k.op \in {"rest", "expire", "cancel"} /\ clerk' = [clerk EXCEPT ![c] = k]
    BY <1>3, <2>1, <2>2
  <2> HIDE DEF Onwards
  <2> QED BY <1>1, <2>1, <2>3, LaneStep
<1>5. CASE CancelLane(c)
  <2>1. PICK m : \/ /\ clerk' = [clerk EXCEPT ![c] = Onwards(m)]
                    /\ Ends(clerk[c].g, m, "cancelled") /\ member[clerk[c].g][m].st = "confirmed"
                 \/ /\ clerk' = [clerk EXCEPT ![c] = AtRest]
                    /\ UNCHANGED <<member, staffRow, chairRow>>
    <3>1. PICK m \in clerk[c].todo :
             IF Cancellable(member[clerk[c].g][m].st)
             THEN Ends(clerk[c].g, m, "cancelled") /\ clerk' = [clerk EXCEPT ![c] = Onwards(m)]
             ELSE clerk' = [clerk EXCEPT ![c] = AtRest] /\ UNCHANGED <<member, staffRow, chairRow>>
      BY <1>5 DEF CancelLane
    <3> HIDE DEF Onwards
    <3> QED BY <3>1 DEF Cancellable
  <2> HIDE DEF Onwards
  <2>2. CASE /\ clerk' = [clerk EXCEPT ![c] = Onwards(m)]
             /\ Ends(clerk[c].g, m, "cancelled") /\ member[clerk[c].g][m].st = "confirmed"
    <3>1. PICK k : k = Onwards(m)
      OBVIOUS
    <3>2. IsClerk(k) /\ k.op \in {"rest", "expire", "cancel"} /\ clerk' = [clerk EXCEPT ![c] = k]
      BY <1>3, <2>2, <3>1
    <3> QED BY <1>1, <2>2, <3>2, LaneStep
  <2>3. CASE /\ clerk' = [clerk EXCEPT ![c] = AtRest]
             /\ UNCHANGED <<member, staffRow, chairRow>>
    BY <1>1, <2>3, ClerkRests
  <2> QED BY <2>1, <2>2, <2>3
<1> QED BY <1>4, <1>5

\* The desk checks a member in, or cancels one.
LEMMA MembersKeepSeats ==
    ASSUME SeatsInv, NEW g \in Groups, NEW m \in Members,
           MemberArrives(g, m) \/ MemberCancels(g, m)
    PROVE  SeatsInv'
<1>1. UNCHANGED <<group, hold, clerk>> /\ member[g][m].st = "confirmed"
  BY DEF MemberArrives, MemberCancels
<1>2. g \in App => group[g] = "confirmed"
  BY <1>1 DEF SeatsInv, PartyIsSettled
<1> DEFINE NewShape == /\ DOMAIN member' = Groups
                       /\ \A h \in Groups : /\ DOMAIN member'[h] = Members
                                            /\ \A n \in Members : IsBooking(member[h][n])'
                       /\ \A r \in staffRow' : IsStaffRow(r)
                       /\ \A r \in chairRow' : IsChairRow(r)
<1>3. NewShape /\ \A h \in App : HoldUntouched(h) /\ PartyIsSettled(h)'
  <2>1. CASE MemberCancels(g, m)
    BY <1>1, <1>2, <2>1, EndsTouchesOneLane, EndsKeepsParties DEF MemberCancels, SeatsInv, PartyIsSettled
  <2>2. CASE MemberArrives(g, m)
    <3>1. UNCHANGED <<staffRow, chairRow>> /\ member' = [member EXCEPT ![g][m].st = "checked_in"]
      BY <2>2 DEF MemberArrives
    <3>2. PICK b, o : o = member[g][m] /\ b = [o EXCEPT !.st = "checked_in"]
      OBVIOUS
    <3>3. IsBooking(b) /\ b.st = "checked_in" /\ b.staff = o.staff /\ b.from = o.from
      <4>1. IsBooking(o)
        BY <3>2 DEF SeatsInv, PartyShape
      <4> QED BY <3>2, <4>1 DEF IsBooking
    <3>4. PICK f : f = [member[g] EXCEPT ![m] = b]
      OBVIOUS
    <3>5. /\ DOMAIN f = Members /\ \A n \in Members : n # m => f[n] = member[g][n]
          /\ f[m] = b
      BY <3>4 DEF SeatsInv, PartyShape
    <3>6. member' = [member EXCEPT ![g] = f]
      BY <3>1, <3>2, <3>4
    <3>7. /\ DOMAIN member' = Groups /\ \A h \in Groups : h # g => member'[h] = member[h]
          /\ member'[g] = f
      BY <3>6 DEF SeatsInv, PartyShape
    <3>8. NewShape
      <4>1. \A n \in Members : IsBooking(f[n])
        BY <3>3, <3>5 DEF SeatsInv, PartyShape
      <4> QED BY <3>1, <3>5, <3>7, <4>1 DEF SeatsInv, PartyShape, IsBooking
    <3>9. \A h \in App : HoldUntouched(h)
      BY <1>1, <3>1 DEF HoldUntouched
    <3>10. \A h \in App : PartyIsSettled(h)'
      <4> TAKE h \in App
      <4>1. CASE h # g
        <5>1. LanesUntouched(h)
          BY <1>1, <3>1, <3>7, <4>1, PartiesAssumption DEF LanesUntouched
        <5> QED BY <3>9, <5>1, SettledFrame DEF SeatsInv
      <4>2. CASE h = g
        <5>1. HeldChairs(g)' = HeldChairs(g) /\ \A n \in Members : LaneChairs(g, n)' = LaneChairs(g, n)
          BY <3>1 DEF HeldChairs, LaneChairs
        <5>2. PartyIsSettled(g) /\ group[g] = "confirmed"
          BY <1>1, <4>2 DEF SeatsInv, PartyIsSettled
        <5>3. \A n \in Members : LaneIsSeated(g, n)'
          <6> TAKE n \in Members
          <6>1. /\ member'[g][n].st \in {"confirmed", "checked_in"} =>
                     member[g][n].st \in {"confirmed", "checked_in"}
                /\ member'[g][n].staff = member[g][n].staff
                /\ member'[g][n].from = member[g][n].from
            BY <1>1, <3>2, <3>3, <3>5, <3>7
          <6>2. LaneIsSeated(g, n)
            BY <5>2 DEF PartyIsSettled
          <6> QED BY <3>1, <5>1, <6>1, <6>2 DEF LaneIsSeated
        <5> QED BY <1>1, <4>2, <5>1, <5>2, <5>3 DEF PartyIsSettled
      <4> QED BY <4>1, <4>2
    <3> QED BY <3>8, <3>9, <3>10
  <2> QED BY <2>1, <2>2
<1>4. PartyShape'
  BY <1>1, <1>3 DEF SeatsInv, PartyShape, IsBooking, IsClerk
<1>5. \A d \in Clerks : Honest(d)'
  BY <1>1, <1>3, HonestFrame DEF SeatsInv
<1>6. MakersAreAlone'
  BY <1>1 DEF SeatsInv, MakersAreAlone
<1> QED BY <1>3, <1>4, <1>5, <1>6 DEF SeatsInv

\* The writes of a confirmation touch the party's own rows and bookings.
LEMMA ConfirmTouchesOwn ==
    ASSUME SeatsInv, NEW g, NEW a, NEW chairs,
           chairs \in {ChairsRepointed(g, a), ChairsOneByOne(g, a)},
           staffRow' = WithoutHold(Repointed(g, a), g), chairRow' = WithoutHold(chairs, g),
           member' = Booked(g, a), group' = [group EXCEPT ![g] = "confirmed"],
           hold' = [hold EXCEPT ![g] = "none"], DOMAIN clerk' = Clerks,
           \A d \in Clerks : IsClerk(clerk[d])'
    PROVE  PartyShape' /\ OthersUntouched(g)
<1>1. PartyShape
  BY DEF SeatsInv
<1>2. OnlyOwn(g, staffRow, Repointed(g, a)) /\ OnlyOwn(g, chairRow, chairs)
  BY <1>1, RepointingIsOwn
<1>3. (\A x \in Repointed(g, a) : IsStaffRow(x)) /\ (\A x \in chairs : IsChairRow(x))
  BY <1>1, RepointingIsOwn
<1>4. PICK f : f = [m \in Members |-> [st |-> "confirmed", staff |-> a[m].staff, from |-> a[m].from]]
  OBVIOUS
<1>5. DOMAIN f = Members /\ \A m \in Members : IsBooking(f[m])
  BY <1>4 DEF IsBooking
<1>6. member' = [member EXCEPT ![g] = f]
  BY <1>4 DEF Booked
<1>7. /\ DOMAIN member' = Groups /\ \A h \in Groups : h # g => member'[h] = member[h]
      /\ g \in Groups => member'[g] = f
  BY <1>1, <1>6 DEF PartyShape
<1>8. PartyShape'
  <2>1. DOMAIN group' = Groups /\ DOMAIN hold' = Groups
    BY <1>1 DEF PartyShape
  <2>2. (\A r \in staffRow : IsStaffRow(r))' /\ (\A r \in chairRow : IsChairRow(r))'
    BY <1>3 DEF WithoutHold
  <2>3. \A h \in Groups : DOMAIN member'[h] = Members /\ \A m \in Members : IsBooking(member[h][m])'
    BY <1>1, <1>5, <1>7 DEF PartyShape, IsBooking
  <2> QED BY <1>7, <2>1, <2>2, <2>3 DEF PartyShape
<1>9. ASSUME NEW h \in App, h # g PROVE HoldUntouched(h) /\ LanesUntouched(h)
  <2>1. group'[h] = group[h] /\ hold'[h] = hold[h] /\ member'[h] = member[h]
    BY <1>1, <1>7, <1>9, PartiesAssumption DEF PartyShape
  <2>2. \A r : r.owner = Held(h) \/ (\E m : r.owner = Lane(h, m)) =>
          /\ r \in staffRow' <=> r \in staffRow
          /\ r \in chairRow' <=> r \in chairRow
    <3> SUFFICES ASSUME NEW r, r.owner = Held(h) \/ \E m : r.owner = Lane(h, m)
                 PROVE  /\ r \in staffRow' <=> r \in staffRow
                        /\ r \in chairRow' <=> r \in chairRow
      OBVIOUS
    <3>1. PICK rows, new : rows = staffRow /\ new = Repointed(g, a)
      OBVIOUS
    <3>2. r \in WithoutHold(new, g) <=> r \in rows
      BY <1>2, <1>9, <3>1, OwnFrame
    <3>3. PICK seats : seats = chairRow
      OBVIOUS
    <3>4. r \in WithoutHold(chairs, g) <=> r \in seats
      BY <1>2, <1>9, <3>3, OwnFrame
    <3> QED BY <3>1, <3>2, <3>3, <3>4
  <2> QED BY <2>1, <2>2 DEF HoldUntouched, LanesUntouched
<1> QED BY <1>8, <1>9 DEF OthersUntouched

\* The desk's confirmation: of a party of the desk's.
LEMMA DeskConfirmKeepsSeats ==
    ASSUME SeatsInv, NEW c \in Clerks, DeskConfirm(c)
    PROVE  SeatsInv'
<1>1. PICK g : g = clerk[c].g
  OBVIOUS
<1>2. g \notin App /\ clerk' = [clerk EXCEPT ![c] = AtRest]
  BY <1>1 DEF DeskConfirm, SeatsInv, Honest
<1>3. CASE UNCHANGED <<staffRow, chairRow, group, hold, member>>
  BY <1>2, <1>3, ClerkRests
<1>4. CASE ~UNCHANGED <<staffRow, chairRow, group, hold, member>>
  <2>1. PICK a : /\ staffRow' = WithoutHold(Repointed(g, a), g)
                 /\ chairRow' = WithoutHold(ChairsRepointed(g, a), g)
                 /\ member' = Booked(g, a)
                 /\ group' = [group EXCEPT ![g] = "confirmed"]
                 /\ hold' = [hold EXCEPT ![g] = "none"]
    BY <1>1, <1>4 DEF DeskConfirm
  <2>2. PICK k : k = AtRest
    OBVIOUS
  <2>3. IsClerk(k) /\ k.op = "rest" /\ k.op \notin Making
    BY <2>2 DEF AtRest, IsClerk, Making
  <2>4. /\ clerk'[c] = k /\ \A d \in Clerks \ {c} : clerk'[d] = clerk[d]
        /\ DOMAIN clerk' = Clerks
    BY <1>2, <2>2 DEF SeatsInv, PartyShape
  <2>5. \A d \in Clerks : IsClerk(clerk[d])'
    BY <2>3, <2>4 DEF SeatsInv, PartyShape, IsClerk
  <2>6. PartyShape' /\ OthersUntouched(g)
    BY <2>1, <2>4, <2>5, ConfirmTouchesOwn
  <2>7. MakersAreAlone'
    BY <2>3, <2>4, AloneFrame DEF SeatsInv
  <2>8. Honest(c)'
    BY <2>3, <2>4 DEF Honest
  <2> QED BY <1>2, <2>4, <2>6, <2>7, <2>8, OnePartyMoves
<1> QED BY <1>3, <1>4

\* Every member of the app's party has the row the plan gave them, and the
\* chair held in their name.
LEMMA AppRowsBecomeLanes ==
    ASSUME SeatsInv, NEW g \in App, NEW a, GoodPlan(a),
           StaffRows(g, a) \subseteq staffRow, HeldChairs(g) = ChairRows(g, a),
           \A m \in Members : LaneChairs(g, m) = {}, NEW m \in Members
    PROVE  /\ \E r \in WithoutHold(Repointed(g, a), g) :
                 r.owner = Lane(g, m) /\ r.staff = a[m].staff /\ r.from = a[m].from
           /\ Cardinality({r \in WithoutHold(ChairsOneByOne(g, a), g) : r.owner = Lane(g, m)}) = 1
<1>1. \E r \in WithoutHold(Repointed(g, a), g) :
         r.owner = Lane(g, m) /\ r.staff = a[m].staff /\ r.from = a[m].from
  <2>1. PICK r : r = [staff |-> a[m].staff, from |-> a[m].from,
                      to |-> a[m].from + Need[g][m].dur, owner |-> Held(g)]
    OBVIOUS
  <2>2. r \in staffRow
    BY <2>1 DEF StaffRows
  <2>3. (CHOOSE n \in Members : a[n].staff = r.staff) = m
    BY <2>1 DEF GoodPlan
  <2>4. [r EXCEPT !.owner = IF r.owner = Held(g) /\ \E n \in Members : a[n].staff = r.staff /\ a[n].from = r.from
                            THEN Lane(g, CHOOSE n \in Members : a[n].staff = r.staff) ELSE r.owner]
          \in Repointed(g, a)
    BY <2>2 DEF Repointed
  <2>5. r.owner = Held(g) /\ r.staff = a[m].staff /\ r.from = a[m].from
    BY <2>1
  <2>6. [r EXCEPT !.owner = Lane(g, m)] \in Repointed(g, a)
    BY <2>3, <2>4, <2>5
  <2>7. [r EXCEPT !.owner = Lane(g, m)] =
          [staff |-> a[m].staff, from |-> a[m].from, to |-> r.to, owner |-> Lane(g, m)]
    BY <2>1
  <2> QED BY <2>6, <2>7, Owners DEF WithoutHold
<1>2. PICK x : x = [type |-> Need[g][m].type, from |-> a[m].from,
                    to |-> a[m].from + Need[g][m].dur, owner |-> Lane(g, m), lane |-> m]
  OBVIOUS
<1>3. {r \in WithoutHold(ChairsOneByOne(g, a), g) : r.owner = Lane(g, m)} = {x}
  <2> DEFINE Owned(r) == IF r.owner = Held(g) THEN Lane(g, r.lane) ELSE r.owner
  <2>1. ChairsOneByOne(g, a) = {[r EXCEPT !.owner = Owned(r)] : r \in chairRow}
    BY DEF ChairsOneByOne
  <2>2. PICK y : y = [type |-> Need[g][m].type, from |-> a[m].from,
                      to |-> a[m].from + Need[g][m].dur, owner |-> Held(g), lane |-> m]
    OBVIOUS
  <2>3. y \in chairRow
    BY <2>2 DEF HeldChairs, ChairRows
  <2>4. [y EXCEPT !.owner = Owned(y)] = x
    BY <1>2, <2>2
  <2>5. x \in WithoutHold(ChairsOneByOne(g, a), g) /\ x.owner = Lane(g, m)
    <3>1. x \in ChairsOneByOne(g, a)
      BY <2>1, <2>3, <2>4
    <3> QED BY <1>2, <3>1, Owners DEF WithoutHold
  <2>6. ASSUME NEW z \in ChairsOneByOne(g, a), z.owner = Lane(g, m) PROVE z = x
    <3>1. PICK r \in chairRow : z = [r EXCEPT !.owner = Owned(r)]
      BY <2>1
    <3>2. IsChairRow(r)
      BY DEF SeatsInv, PartyShape
    <3>3. z.owner = Owned(r)
      BY <3>1, <3>2 DEF IsChairRow
    <3>4. r.owner = Held(g)
      <4>1. r.owner # Lane(g, m)
        BY DEF LaneChairs
      <4> QED BY <2>6, <3>3, <4>1
    <3>5. PICK n \in Members : r = [type |-> Need[g][n].type, from |-> a[n].from,
                      to |-> a[n].from + Need[g][n].dur, owner |-> Held(g), lane |-> n]
      BY <3>4 DEF HeldChairs, ChairRows
    <3>6. r.lane = n /\ Lane(g, n) = Lane(g, m)
      BY <2>6, <3>3, <3>4, <3>5
    <3>7. n = m
      BY <3>6, Owners
    <3> QED BY <2>2, <2>4, <3>1, <3>5, <3>7
  <2> QED BY <2>5, <2>6 DEF WithoutHold
<1>4. Cardinality({x}) = 1
  BY FS_Singleton
<1> QED BY <1>1, <1>3, <1>4

\* The app's confirmation re-points the rows its hold still owns.
LEMMA AppConfirmKeepsSeats ==
    ASSUME SeatsInv, NEW c \in Clerks, AppConfirm(c)
    PROVE  SeatsInv'
<1>1. PICK g, a : g = clerk[c].g /\ a = CHOOSE p \in clerk[c].plan : TRUE
  OBVIOUS
<1>2. clerk[c].op = "held" /\ clerk[c].op \in Making /\ Honest(c) /\ IsClerk(clerk[c])
  BY DEF AppConfirm, SeatsInv, PartyShape, Making
<1>3. /\ g \in App /\ g \in Groups /\ group[g] = "draft" /\ GoodPlan(a)
      /\ hold[g] # "none" => KeepsItsRows(g, clerk[c].plan)
  BY <1>1, <1>2, PartiesAssumption DEF Honest
<1>4. CASE ~StillDraft(g)
  <2>1. PICK k : k = [clerk[c] EXCEPT !.op = "giveback"]
    OBVIOUS
  <2>2. IsClerk(k) /\ k.op = "giveback" /\ k.g = clerk[c].g
    BY <1>2, <2>1 DEF IsClerk
  <2>3. clerk' = [clerk EXCEPT ![c] = k] /\ clerk'[c] = k
    BY <1>1, <1>4, <2>1 DEF AppConfirm, SeatsInv, PartyShape
  <2>4. UNCHANGED <<staffRow, chairRow, group, hold, member>>
    BY <1>1, <1>4 DEF AppConfirm
  <2>5. Honest(c)'
    BY <1>1, <1>3, <2>2, <2>3, <2>4 DEF Honest
  <2> QED BY <1>2, <2>2, <2>3, <2>4, <2>5, ClerkMoves
<1>5. CASE StillDraft(g)
  <2>1. /\ staffRow' = WithoutHold(Repointed(g, a), g)
        /\ chairRow' = WithoutHold(ChairsOneByOne(g, a), g)
        /\ member' = Booked(g, a)
        /\ group' = [group EXCEPT ![g] = "confirmed"]
        /\ hold' = [hold EXCEPT ![g] = "none"]
        /\ clerk' = [clerk EXCEPT ![c].op = "answer"]
    BY <1>1, <1>5 DEF AppConfirm
  <2>2. PICK k : k = [clerk[c] EXCEPT !.op = "answer"]
    OBVIOUS
  <2>3. IsClerk(k) /\ k.op = "answer" /\ k.op \notin Making
    BY <1>2, <2>2 DEF IsClerk, Making
  <2>4. /\ clerk'[c] = k /\ \A d \in Clerks \ {c} : clerk'[d] = clerk[d]
        /\ DOMAIN clerk' = Clerks
    BY <2>1, <2>2 DEF SeatsInv, PartyShape
  <2>5. \A d \in Clerks : IsClerk(clerk[d])'
    BY <2>3, <2>4 DEF SeatsInv, PartyShape, IsClerk
  <2>6. PartyShape' /\ OthersUntouched(g)
    BY <2>1, <2>4, <2>5, ConfirmTouchesOwn
  <2>7. MakersAreAlone'
    BY <2>3, <2>4, AloneFrame DEF SeatsInv
  <2>8. Honest(c)'
    BY <2>3, <2>4 DEF Honest
  <2>9. \A d \in Clerks \ {c} : clerk[d].g # g \/ clerk[d].op \notin Making
    BY <1>1, <1>2, <1>3 DEF SeatsInv, MakersAreAlone
  <2>10. PartyIsSettled(g)'
    <3>1. StaffRows(g, a) \subseteq staffRow /\ HeldChairs(g) = ChairRows(g, a)
      BY <1>1, <1>3, <1>5 DEF StillDraft, KeepsItsRows
    <3>2. \A m \in Members : LaneChairs(g, m) = {}
      BY <1>3 DEF SeatsInv, PartyIsSettled
    <3>3. group'[g] = "confirmed" /\ hold'[g] = "none"
      BY <1>3, <2>1 DEF SeatsInv, PartyShape
    <3>4. HeldChairs(g)' = {}
      BY <2>1 DEF HeldChairs, WithoutHold
    <3>5. \A m \in Members : LaneIsSeated(g, m)'
      <4> TAKE m \in Members
      <4>1. member'[g][m] = [st |-> "confirmed", staff |-> a[m].staff, from |-> a[m].from]
        BY <1>3, <2>1 DEF Booked, SeatsInv, PartyShape
      <4>2. \E r \in staffRow' : r.owner = Lane(g, m) /\ r.staff = a[m].staff /\ r.from = a[m].from
        BY <1>3, <2>1, <3>1, <3>2, AppRowsBecomeLanes
      <4>3. Cardinality(LaneChairs(g, m))' = 1
        BY <1>3, <2>1, <3>1, <3>2, AppRowsBecomeLanes DEF LaneChairs
      <4> QED BY <4>1, <4>2, <4>3 DEF LaneIsSeated
    <3> QED BY <3>3, <3>4, <3>5 DEF PartyIsSettled
  <2> QED BY <2>4, <2>6, <2>7, <2>8, <2>9, <2>10, OnePartyMoves
<1> QED BY <1>4, <1>5

-----------------------------------------------------------------------------
(* Parties: the theorems *)

\* A party's rows follow it from the start.
LEMMA SeatsAtFirst == Init => SeatsInv
<1> SUFFICES ASSUME Init PROVE SeatsInv
  OBVIOUS
<1>1. /\ staffRow = {} /\ chairRow = {}
      /\ group = [g \in Groups |-> "none"] /\ hold = [g \in Groups |-> "none"]
      /\ member = [g \in Groups |-> [m \in Members |-> NoBooking]]
      /\ clerk = [c \in Clerks |-> AtRest]
  BY DEF Init, PartiesInit
<1>2. IsClerk(AtRest) /\ AtRest.op = "rest" /\ IsBooking(NoBooking) /\ NoBooking.st = "none"
  BY DEF IsClerk, AtRest, IsBooking, NoBooking
<1>3. \A c \in Clerks : clerk[c] = AtRest
  BY <1>1
<1>4. \A g \in Groups : DOMAIN member[g] = Members /\ \A m \in Members : member[g][m] = NoBooking
  BY <1>1
<1>5. PartyShape
  BY <1>1, <1>2, <1>3, <1>4 DEF PartyShape
<1>6. MakersAreAlone /\ \A c \in Clerks : Honest(c)
  BY <1>2, <1>3 DEF MakersAreAlone, Making, Honest
<1>7. \A g \in App : PartyIsSettled(g)
  <2> TAKE g \in App
  <2>1. g \in Groups
    BY PartiesAssumption
  <2>2. HeldChairs(g) = {} /\ \A m \in Members : LaneChairs(g, m) = {}
    BY <1>1 DEF HeldChairs, LaneChairs
  <2>3. hold[g] = "none" /\ \A m \in Members : member[g][m].st = "none"
    BY <1>1, <1>2, <1>4, <2>1
  <2> QED BY <2>2, <2>3 DEF PartyIsSettled, LaneIsSeated
<1> QED BY <1>5, <1>6, <1>7 DEF SeatsInv

\* Whoever leaves the parties alone keeps their rows.
LEMMA SeatsStutter ==
    ASSUME SeatsInv, UNCHANGED partyVars
    PROVE  SeatsInv'
<1>1. UNCHANGED <<staffRow, chairRow, group, hold, member>> /\ clerk' = clerk
  BY DEF partyVars
<1>2. PartyShape' /\ MakersAreAlone'
  BY <1>1 DEF SeatsInv, PartyShape, IsClerk, IsBooking, IsStaffRow, IsChairRow, MakersAreAlone
<1>3. \A d \in Clerks : Honest(d)'
  BY <1>1, NothingTouched, HonestFrame DEF SeatsInv
<1>4. \A g \in App : PartyIsSettled(g)'
  BY <1>1, NothingTouched, SettledFrame DEF SeatsInv
<1> QED BY <1>2, <1>3, <1>4 DEF SeatsInv

\* Every step keeps the rows with their party.
LEMMA SeatsAreKept == SeatsInv /\ [Next]_vars => SeatsInv'
<1> SUFFICES ASSUME SeatsInv, [Next]_vars PROVE SeatsInv'
  OBVIOUS
<1>1. CASE UNCHANGED partyVars
  BY <1>1, SeatsStutter
<1>2. CASE PartyStep
  <2>1. ASSUME NEW c \in Clerks, ClerkRuns(c) \/ AppConfirmFails(c) \/ AppUnreadable(c) \/ ClerkDies(c)
        PROVE  SeatsInv'
    BY <2>1, TurnsKeepSeats, PlaceKeepsSeats, DeskConfirmKeepsSeats, AppConfirmKeepsSeats,
       GiveBackKeepsSeats, LanesKeepSeats DEF ClerkRuns
  <2> QED BY <1>2, <2>1, ReadsKeepSeats, HoldsKeepSeats, MembersKeepSeats, OthersKeepSeats
          DEF PartyStep
<1>3. SeriesStep \/ RoutineStep \/ RosterStep \/ UNCHANGED vars => UNCHANGED partyVars
  BY DEF SeriesStep, RoutineStep, RosterStep, vars
<1> QED BY <1>1, <1>2, <1>3 DEF Next, PartiesStep

\* Every member of an app's party who is still coming has a professional's row
\* and one chair's row of their own, whatever the other requests, lapses,
\* crashes and cancellations (MobileGroupConfirmRepository.write()).
THEOREM SeatsAreOwned == Spec => []AppLanesOwnTheirSeats
<1>1. SeatsInv => AppLanesOwnTheirSeats
  BY DEF SeatsInv, PartyIsSettled, LaneIsSeated, LaneChairs, AppLanesOwnTheirSeats
<1> QED BY <1>1, SeatsAtFirst, SeatsAreKept, PTL DEF Spec

\* A hold stays in the hands of the same request, or is gone.
LEMMA HandsFrame ==
    ASSUME SeatsInv, HoldsAreInHand, NEW c \in Clerks,
           \A d \in Clerks \ {c} : clerk'[d] = clerk[d], died \subseteq died',
           \A g \in App : hold'[g] # "none" /\ g \notin died' /\ ~(hold[g] # "none" /\ g \notin died) =>
                clerk'[c].g = g /\ clerk'[c].op \in {"held", "giveback"},
           clerk[c].op \in {"held", "giveback"} =>
                \/ clerk'[c].g = clerk[c].g /\ clerk'[c].op \in {"held", "giveback"}
                \/ clerk[c].g \in died'
                \/ clerk[c].g \in App => hold'[clerk[c].g] = "none"
    PROVE  HoldsAreInHand'
<1> SUFFICES ASSUME NEW g \in App, hold'[g] # "none", g \notin died'
             PROVE  \E d \in Clerks : clerk'[d].g = g /\ clerk'[d].op \in {"held", "giveback"}
  BY DEF HoldsAreInHand
<1>1. CASE ~(hold[g] # "none" /\ g \notin died)
  BY <1>1
<1>2. CASE hold[g] # "none" /\ g \notin died
  <2>1. PICK d \in Clerks : clerk[d].g = g /\ clerk[d].op \in {"held", "giveback"}
    BY <1>2 DEF HoldsAreInHand
  <2>2. CASE d # c
    BY <2>1, <2>2
  <2>3. CASE d = c
    BY <2>1, <2>3
  <2> QED BY <2>2, <2>3
<1> QED BY <1>1, <1>2

\* A request of the app that placed a hold lets go of it only once it is
\* confirmed or given back.
LEMMA ClerksKeepHands ==
    ASSUME SeatsInv, HoldsAreInHand, NEW c \in Clerks,
           \/ ClerkRuns(c) \/ AppConfirmFails(c) \/ AppUnreadable(c) \/ ClerkDies(c)
           \/ \E g \in Groups : LoadDay(c, g) \/ DeskConfirmRead(c, g) \/ CancelCheck(c, g)
    PROVE  HoldsAreInHand'
<1>1. /\ DOMAIN clerk = Clerks /\ IsClerk(clerk[c]) /\ DOMAIN hold = Groups
      /\ DOMAIN group = Groups /\ App \subseteq Groups
  BY PartiesAssumption DEF SeatsInv, PartyShape
<1>2. CASE \/ PlanLocked(c) \/ AppAnswers(c) \/ AppUnreadable(c) \/ ExpireLane(c) \/ CancelLane(c)
           \/ \E g \in Groups : LoadDay(c, g) \/ DeskConfirmRead(c, g) \/ CancelCheck(c, g)
  <2>1. UNCHANGED <<hold, died>>
    BY <1>2 DEF PlanLocked, AppAnswers, AppUnreadable, ExpireLane, CancelLane, LoadDay,
                DeskConfirmRead, CancelCheck
  <2>2. clerk[c].op \notin {"held", "giveback"}
    <3>1. AtRest.op = "rest"
      BY DEF AtRest
    <3> QED BY <1>2, <3>1 DEF PlanLocked, AppAnswers, AppUnreadable, ExpireLane, CancelLane,
               LoadDay, DeskConfirmRead, CancelCheck, Busy
  <2>3. \A d \in Clerks \ {c} : clerk'[d] = clerk[d]
    <3>1. PICK k : clerk' = [clerk EXCEPT ![c] = k]
      BY <1>2, Zenon DEF PlanLocked, AppAnswers, AppUnreadable, ExpireLane, CancelLane,
                         LoadDay, DeskConfirmRead, CancelCheck
    <3> QED BY <1>1, <3>1
  <2> QED BY <2>1, <2>2, <2>3, HandsFrame
<1>3. CASE PlaceWrite(c)
  <2>1. PICK g : g = clerk[c].g
    OBVIOUS
  <2>2. UNCHANGED died /\ clerk[c].op = "planned"
    BY <1>3 DEF PlaceWrite
  <2>3. CASE UNCHANGED hold /\ clerk' = [clerk EXCEPT ![c] = AtRest]
    <3>1. \A d \in Clerks \ {c} : clerk'[d] = clerk[d]
      BY <1>1, <2>3
    <3> QED BY <2>2, <2>3, <3>1, HandsFrame
  <2>4. CASE /\ hold' = [hold EXCEPT ![g] = "live"]
             /\ clerk' = [clerk EXCEPT ![c] = IF g \in App THEN [clerk[c] EXCEPT !.op = "held"] ELSE AtRest]
    <3>1. \A d \in Clerks \ {c} : clerk'[d] = clerk[d]
      BY <1>1, <2>4
    <3>2. g \in App => clerk'[c] = [clerk[c] EXCEPT !.op = "held"]
      BY <1>1, <2>4
    <3>3. [clerk[c] EXCEPT !.op = "held"].op = "held" /\ [clerk[c] EXCEPT !.op = "held"].g = g
      BY <1>1, <2>1 DEF IsClerk
    <3>4. \A h \in App : h # g => hold'[h] = hold[h]
      BY <1>1, <2>4
    <3> QED BY <2>2, <3>1, <3>2, <3>3, <3>4, HandsFrame
  <2> QED BY <1>3, <2>1, <2>3, <2>4 DEF PlaceWrite
<1>4. CASE DeskConfirm(c)
  <2>1. PICK g : g = clerk[c].g
    OBVIOUS
  <2>2. /\ UNCHANGED died /\ clerk[c].op = "confirm" /\ clerk' = [clerk EXCEPT ![c] = AtRest]
        /\ hold' = hold \/ hold' = [hold EXCEPT ![g] = "none"]
    BY <1>4, <2>1 DEF DeskConfirm
  <2>3. \A h \in App : hold'[h] = hold[h] \/ hold'[h] = "none"
    BY <1>1, <2>2
  <2>4. \A d \in Clerks \ {c} : clerk'[d] = clerk[d]
    BY <1>1, <2>2
  <2> QED BY <2>2, <2>3, <2>4, HandsFrame
<1>5. CASE AppConfirm(c) \/ AppConfirmFails(c)
  <2>1. PICK g : g = clerk[c].g
    OBVIOUS
  <2>2. UNCHANGED died /\ \E op : clerk' = [clerk EXCEPT ![c].op = op]
    BY <1>5 DEF AppConfirm, AppConfirmFails
  <2>3. \/ hold' = hold /\ clerk' = [clerk EXCEPT ![c].op = "giveback"]
        \/ hold' = [hold EXCEPT ![g] = "none"]
    BY <1>5, <2>1 DEF AppConfirm, AppConfirmFails
  <2>4. \A d \in Clerks \ {c} : clerk'[d] = clerk[d]
    BY <1>1, <2>2
  <2>5. CASE hold' = hold /\ clerk' = [clerk EXCEPT ![c].op = "giveback"]
    <3>1. clerk'[c].op = "giveback" /\ clerk'[c].g = clerk[c].g
      BY <1>1, <2>5 DEF IsClerk
    <3> QED BY <2>2, <2>4, <2>5, <3>1, HandsFrame
  <2>6. CASE hold' = [hold EXCEPT ![g] = "none"]
    <3>1. /\ \A h \in App : hold'[h] = hold[h] \/ hold'[h] = "none"
          /\ g \in App => hold'[g] = "none"
      BY <1>1, <2>6
    <3> QED BY <2>1, <2>2, <2>4, <3>1, HandsFrame
  <2> QED BY <2>3, <2>5, <2>6
<1>6. CASE AppGivesBack(c)
  <2>1. PICK g : g = clerk[c].g
    OBVIOUS
  <2>2. UNCHANGED died /\ clerk' = [clerk EXCEPT ![c] = AtRest] /\ GiveBack(g)
    BY <1>6, <2>1 DEF AppGivesBack
  <2>3. \A h \in App : hold'[h] = hold[h] \/ hold'[h] = "none"
    BY <1>1, <2>2 DEF GiveBack, Drop
  <2>4. g \in App => hold'[g] = "none"
    BY <1>1, <2>2 DEF GiveBack, Drop
  <2>5. \A d \in Clerks \ {c} : clerk'[d] = clerk[d]
    BY <1>1, <2>2
  <2> QED BY <2>1, <2>2, <2>3, <2>4, <2>5, HandsFrame
<1>7. CASE ClerkDies(c)
  <2>1. /\ UNCHANGED hold /\ died' = died \cup {clerk[c].g}
        /\ clerk' = [clerk EXCEPT ![c] = AtRest]
    BY <1>7 DEF ClerkDies
  <2>2. \A d \in Clerks \ {c} : clerk'[d] = clerk[d]
    BY <1>1, <2>1
  <2> QED BY <2>1, <2>2, HandsFrame
<1> QED BY <1>2, <1>3, <1>4, <1>5, <1>6, <1>7 DEF ClerkRuns

\* "Anything that fails after the hold gives it back at once": a hold of the
\* app's never outlives its request, unless the process died
\* (MobileGroupBookingHandler).
THEOREM NothingLeftDark == Spec => []AppRefusalGivesBack
<1>1. Init => HoldsAreInHand
  <2> SUFFICES ASSUME Init PROVE HoldsAreInHand
    OBVIOUS
  <2>1. hold = [g \in Groups |-> "none"]
    BY DEF Init, PartiesInit
  <2> QED BY <2>1, PartiesAssumption DEF HoldsAreInHand
<1>2. SeatsInv /\ HoldsAreInHand /\ [Next]_vars => HoldsAreInHand'
  <2> SUFFICES ASSUME SeatsInv, HoldsAreInHand, [Next]_vars PROVE HoldsAreInHand'
    OBVIOUS
  <2>1. ASSUME UNCHANGED <<clerk, died>>, \A g \in App : hold'[g] # "none" => hold[g] # "none"
        PROVE  HoldsAreInHand'
    BY <2>1 DEF HoldsAreInHand
  <2>2. CASE UNCHANGED partyVars
    BY <2>1, <2>2 DEF partyVars
  <2>3. CASE PartyStep
    <3>1. ASSUME NEW g \in Groups, ReleaseParty(g) \/ HoldLapses(g) \/ SweepHold(g)
          PROVE  HoldsAreInHand'
      <4>1. UNCHANGED <<clerk, died>>
        BY <3>1 DEF ReleaseParty, HoldLapses, SweepHold
      <4>2. \A h \in App : hold'[h] # "none" => hold[h] # "none"
        <5>1. PICK x \in {"none", "lapsed"} :
                hold' = [hold EXCEPT ![g] = x] /\ (x = "lapsed" => hold[g] = "live")
          BY <3>1 DEF ReleaseParty, HoldLapses, SweepHold, Drop
        <5> QED BY <5>1, PartiesAssumption DEF SeatsInv, PartyShape
      <4> QED BY <2>1, <4>1, <4>2
    <3>2. ASSUME \/ \E g \in Groups, m \in Members : MemberArrives(g, m) \/ MemberCancels(g, m)
                 \/ \E k \in DOMAIN Singles : SingleBooks(k) \/ SingleCancels(k)
                 \/ \E s \in Staff : ShiftChanges(s)
          PROVE  HoldsAreInHand'
      <4>1. UNCHANGED <<clerk, died, hold>>
        BY <3>2 DEF MemberArrives, MemberCancels, SingleBooks, SingleCancels, ShiftChanges
      <4> QED BY <2>1, <4>1
    <3> QED BY <2>3, <3>1, <3>2, ClerksKeepHands DEF PartyStep
  <2>4. SeriesStep \/ RoutineStep \/ RosterStep \/ UNCHANGED vars => UNCHANGED partyVars
    BY DEF SeriesStep, RoutineStep, RosterStep, vars
  <2> QED BY <2>2, <2>3, <2>4 DEF Next, PartiesStep
<1>3. HoldsAreInHand => AppRefusalGivesBack
  BY DEF HoldsAreInHand, AppRefusalGivesBack
<1> QED BY <1>1, <1>2, <1>3, SeatsAtFirst, SeatsAreKept, PTL DEF Spec

-----------------------------------------------------------------------------
(* Series *)

\* A sequence of whatever it has.
IsSequence(s) == s \in Seq({s[i] : i \in DOMAIN s})

IsRow(x) ==
    /\ x = [index |-> x.index, day |-> x.day, start |-> x.start, state |-> x.state,
            bk |-> x.bk, alts |-> x.alts]
    /\ x.day \in Int
    /\ x.state = "planned" => x.bk = 0

IsVisit(x) == x = [day |-> x.day, start |-> x.start, staff |-> x.staff, status |-> x.status]

IsRun(x) == x = [pc |-> x.pc, day |-> x.day, def |-> x.def, work |-> x.work, found |-> x.found,
                 rejected |-> x.rejected, considered |-> x.considered]

IsEditor(x) == x = [pc |-> x.pc, kind |-> x.kind, ids |-> x.ids, plan |-> x.plan, used |-> x.used]

Anchored(def) == "anchor" \in DOMAIN def /\ def.anchor \in Int

NewRowsOf(rows) == IsFiniteSet(rows) /\ \A x \in rows : IsRow(x) /\ x.state = "planned"

Statuses == {"active", "paused", "ended"}

\* The rows, and the requests under way.
SeriesShape ==
    /\ today \in Int
    /\ IsSequence(occ) /\ \A o \in DOMAIN occ : IsRow(occ[o])
    /\ IsSequence(seat) /\ \A b \in DOMAIN seat : IsVisit(seat[b])
    /\ line = [status |-> line.status, def |-> line.def, start |-> line.start,
               through |-> line.through]
    /\ line.status # "none" => Anchored(line.def)
    /\ DOMAIN run = Runs
    /\ \A r \in Runs : /\ IsRun(run[r]) /\ run[r].day \in Int
                       /\ run[r].pc = "topUp" => Anchored(run[r].def[1])
    /\ IsEditor(editor)
    /\ editor.pc = "cancel" => editor.kind \in Statuses \cup {"skip"}
    /\ editor.pc = "status" => editor.kind \in Statuses
    /\ editor.pc = "rewrite" => Anchored(editor.plan[1]) /\ NewRowsOf(editor.plan[2])

\* Nothing happens to a series before there is one.
BeforeTheSeries ==
    line.status = "none" =>
      /\ occ = <<>> /\ seat = <<>> /\ editor.pc = "idle"
      /\ \A r \in Runs : run[r] = IdleRun

\* What a run has listed and is still undecided is on the list it works off.
RunIsListed(r) ==
    /\ \A w \in run[r].work : w.id \in DOMAIN occ /\ w.day \in Int
    /\ \A w, x \in run[r].work : w.id = x.id => w = x
    /\ run[r].considered \subseteq DOMAIN occ
    /\ \A o \in run[r].considered : occ[o].state = "planned" =>
         \E w \in run[r].work : w.id = o
    /\ run[r].pc = "done" => run[r].work = {}

RunsInv == SeriesShape /\ BeforeTheSeries /\ \A r \in Runs : RunIsListed(r)

\* The night's job and the desk's button do not run in one behaviour.
OneRun == \A r, q \in Runs : On(r) /\ On(q) => r = q

\* Whoever is not running lists nothing, and what the one run lists has no
\* booking, so that no write of it takes one off the timeline.
TimelineInv ==
    OneRun => /\ \A r \in Runs : ~On(r) => run[r].work = {}
              /\ \A r \in Runs : \A w \in run[r].work : occ[w.id].bk = 0
              /\ VisitsAreOnTheTimeline

\* A sequence of anything is a sequence of its own elements.
LEMMA OfItsElements ==
    ASSUME NEW S, NEW s \in Seq(S)
    PROVE  IsSequence(s)
BY DEF IsSequence

\* What stands before an insertion stays; what comes after it was inserted.
LEMMA Joined ==
    ASSUME NEW s, IsSequence(s), NEW T, NEW t \in Seq(T), NEW k, k = s \o t
    PROVE  /\ IsSequence(k) /\ DOMAIN s \subseteq DOMAIN k
           /\ \A i \in DOMAIN s : k[i] = s[i]
           /\ \A i \in DOMAIN k : i \in DOMAIN s \/ k[i] \in T
<1>1. PICK S : S = {s[i] : i \in DOMAIN s}
  OBVIOUS
<1>2. s \in Seq(S \cup T) /\ t \in Seq(S \cup T)
  BY <1>1 DEF IsSequence
<1>3. k \in Seq(S \cup T)
  BY <1>2
<1>4. /\ Len(s) \in Nat /\ Len(t) \in Nat /\ DOMAIN s = 1 .. Len(s) /\ DOMAIN t = 1 .. Len(t)
      /\ DOMAIN k = 1 .. (Len(s) + Len(t)) /\ \A i \in DOMAIN t : t[i] \in T
  BY <1>2, <1>3
<1>5. \A i \in 1 .. (Len(s) + Len(t)) : k[i] = IF i <= Len(s) THEN s[i] ELSE t[i - Len(s)]
  BY <1>2
<1>6. ASSUME NEW i \in DOMAIN k, i \notin DOMAIN s PROVE k[i] \in T
  BY <1>4, <1>5, <1>6
<1>7. IsSequence(k)
  BY <1>3, OfItsElements
<1> QED BY <1>4, <1>5, <1>6, <1>7

\* A row written after the others.
LEMMA Appended ==
    ASSUME NEW s, IsSequence(s), NEW e
    PROVE  \E k : /\ k = Append(s, e) /\ IsSequence(k)
                  /\ DOMAIN k = DOMAIN s \cup {Len(s) + 1}
                  /\ \A i \in DOMAIN s : k[i] = s[i]
                  /\ k[Len(s) + 1] = e /\ Len(s) + 1 \notin DOMAIN s
                  /\ Len(s) + 1 # 0 /\ 0 \notin DOMAIN s
<1>1. PICK S : S = {s[i] : i \in DOMAIN s}
  OBVIOUS
<1>2. s \in Seq(S \cup {e})
  BY <1>1 DEF IsSequence
<1>3. PICK k : k = Append(s, e)
  OBVIOUS
<1>4. k \in Seq(S \cup {e})
  BY <1>2, <1>3
<1>5. /\ Len(s) \in Nat /\ DOMAIN s = 1 .. Len(s) /\ DOMAIN k = 1 .. (Len(s) + 1)
      /\ k[Len(s) + 1] = e /\ \A i \in 1 .. Len(s) : k[i] = s[i]
  BY <1>2, <1>3, <1>4
<1>6. IsSequence(k)
  BY <1>4, OfItsElements
<1>7. /\ DOMAIN k = DOMAIN s \cup {Len(s) + 1} /\ Len(s) + 1 \notin DOMAIN s
      /\ Len(s) + 1 # 0 /\ 0 \notin DOMAIN s
  BY <1>5
<1> QED BY ONLY <1>3, <1>5, <1>6, <1>7, Zenon

\* Rows that are rewritten in place are still a sequence.
LEMMA Rewritten ==
    ASSUME NEW s, IsSequence(s), NEW k, k = [i \in DOMAIN s |-> k[i]]
    PROVE  IsSequence(k)
<1>1. s \in Seq({s[i] : i \in DOMAIN s})
  BY DEF IsSequence
<1>2. DOMAIN s = 1 .. Len(s) /\ Len(s) \in Nat
  BY <1>1
<1>3. PICK T : T = {k[i] : i \in DOMAIN k}
  OBVIOUS
<1>4. k \in [1 .. Len(s) -> T]
  BY <1>2, <1>3
<1>5. k \in Seq(T)
  BY <1>2, <1>4
<1> QED BY <1>5, OfItsElements

\* A finite set can be listed.
LEMMA ListedRows ==
    ASSUME NEW S, IsFiniteSet(S)
    PROVE  SetToSeq(S) \in Seq(S)
<1>1. PICK n \in Nat : ExistsBijection(1 .. n, S)
  BY FS_NatBijection
<1>2. Cardinality(S) = n
  BY <1>1, FS_CountingElements
<1>3. PICK f \in Bijection(1 .. n, S) : TRUE
  BY <1>1 DEF ExistsBijection
<1>4. f \in [1 .. n -> S] /\ \A a, b \in 1 .. n : f[a] = f[b] => a = b
  BY <1>3 DEF Bijection, Injection, IsInjective
<1>5. IsInjective(f)
  BY <1>4 DEF IsInjective
<1>6. SetToSeq(S) \in [1 .. n -> S]
  BY <1>2, <1>4, <1>5 DEF SetToSeq
<1> QED BY <1>6

\* The days of a pattern lie in a window, so there are finitely many rows.
LEMMA RowsAreFinite ==
    ASSUME NEW def, Anchored(def), NEW from \in Int, NEW h \in Int, NEW start,
           NEW rows, rows = PlannedRows(ExpandSeries(def, from, h), start)
    PROVE  NewRowsOf(rows)
<1>1. PICK days : days = {e \in Candidates(def, from + h) : ~Ended(def, e) /\ e >= from}
  OBVIOUS
<1>2. days \subseteq def.anchor .. (from + h)
  BY <1>1 DEF Candidates
<1>3. IsFiniteSet(days) /\ days \subseteq Int
  <2>1. def.anchor \in Int /\ from + h \in Int
    BY DEF Anchored
  <2>2. IsFiniteSet(def.anchor .. (from + h))
    BY <2>1, FS_Interval
  <2>3. IsFiniteSet(days)
    BY <1>2, <2>2, FS_Subset
  <2> QED BY <1>2, <2>1, <2>3
<1>4. PICK f : f = [d \in days |-> PlannedRow(Ordinal(def, d), d, start)]
  OBVIOUS
<1>5. \A x : x \in rows <=> \E d \in days : x = f[d]
  <2>1. PICK exp : exp = ExpandSeries(def, from, h)
    OBVIOUS
  <2>2. exp = {[day |-> d, index |-> Ordinal(def, d), moved |-> MovedFrom(def, d)] : d \in days}
    BY <1>1, <2>1 DEF ExpandSeries
  <2>3. rows = {PlannedRow(e.index, e.day, start) : e \in exp}
    BY <2>1 DEF PlannedRows
  <2>4. ASSUME NEW d \in days, NEW e, e = [day |-> d, index |-> Ordinal(def, d), moved |-> MovedFrom(def, d)]
        PROVE  PlannedRow(e.index, e.day, start) = f[d]
    BY <1>4, <2>4
  <2>5. ASSUME NEW x \in rows PROVE \E d \in days : x = f[d]
    <3>1. PICK e \in exp : x = PlannedRow(e.index, e.day, start)
      BY <2>3
    <3>2. PICK d \in days : e = [day |-> d, index |-> Ordinal(def, d), moved |-> MovedFrom(def, d)]
      BY <2>2
    <3> QED BY <3>1, <3>2, <2>4
  <2>6. ASSUME NEW d \in days PROVE f[d] \in rows
    <3>1. PICK e \in exp : e = [day |-> d, index |-> Ordinal(def, d), moved |-> MovedFrom(def, d)]
      BY <2>2
    <3> QED BY <3>1, <2>3, <2>4
  <2> QED BY <2>5, <2>6
<1>6. f \in Surjection(days, rows)
  <2>1. f \in [days -> rows] /\ \A x \in rows : \E d \in days : f[d] = x
    BY <1>4, <1>5
  <2> QED BY <2>1 DEF Surjection
<1>7. IsFiniteSet(rows)
  BY <1>3, <1>6, FS_Surjection
<1>8. ASSUME NEW x \in rows PROVE IsRow(x) /\ x.state = "planned"
  <2>1. PICK d \in days : x = PlannedRow(Ordinal(def, d), d, start)
    BY <1>4, <1>5
  <2>2. d \in Int
    BY <1>3
  <2> QED BY <2>1, <2>2 DEF PlannedRow, IsRow
<1> QED BY <1>7, <1>8 DEF NewRowsOf

\* No row is planned again, and none disappears.
RowsGoOn ==
    /\ DOMAIN occ \subseteq DOMAIN occ'
    /\ \A o \in DOMAIN occ : occ'[o].state = "planned" => occ[o].state = "planned"

\* A run nobody else steps for keeps its list while rows only go on.
LEMMA OthersStayListed ==
    ASSUME RunsInv, RowsGoOn, NEW r \in Runs, run'[r] = run[r]
    PROVE  RunIsListed(r)'
BY DEF RunsInv, RunIsListed, RowsGoOn

\* An insertion behind the rows there are.
LEMMA InsertedRows ==
    ASSUME NEW s, IsSequence(s), \A o \in DOMAIN s : IsRow(s[o]),
           NEW rows, NewRowsOf(rows), NEW k, k = Inserted(s, rows)
    PROVE  /\ IsSequence(k) /\ \A o \in DOMAIN k : IsRow(k[o])
           /\ DOMAIN s \subseteq DOMAIN k /\ \A o \in DOMAIN s : k[o] = s[o]
<1>1. SetToSeq(rows) \in Seq(rows)
  BY ListedRows DEF NewRowsOf
<1>2. PICK t : t = SetToSeq(rows)
  OBVIOUS
<1>3. t \in Seq(rows) /\ k = s \o t
  BY <1>1, <1>2 DEF Inserted
<1>4. /\ IsSequence(k) /\ DOMAIN s \subseteq DOMAIN k
      /\ \A i \in DOMAIN s : k[i] = s[i]
      /\ \A i \in DOMAIN k : i \in DOMAIN s \/ k[i] \in rows
  BY <1>3, Joined
<1>5. ASSUME NEW o \in DOMAIN k PROVE IsRow(k[o])
  <2>1. CASE o \in DOMAIN s
    <3>1. k[o] = s[o] /\ IsRow(s[o]) BY <1>4, <2>1
    <3> QED BY <3>1
  <2>2. CASE k[o] \in rows
    BY <2>2 DEF NewRowsOf
  <2> QED BY <1>4, <2>1, <2>2
<1> QED BY <1>4, <1>5

\* Part of the rows, or the same days under other ordinals, are new rows too.
LEMMA SomeNewRows ==
    ASSUME NEW rows, NewRowsOf(rows), NEW part, part \subseteq rows
    PROVE  NewRowsOf(part)
BY FS_Subset DEF NewRowsOf

\* New rows stay new rows under other ordinals.
LEMMA RenumberedRows ==
    ASSUME NEW rows, NewRowsOf(rows), NEW from, NEW k, k = Renumbered(rows, from)
    PROVE  NewRowsOf(k)
<1>1. PICK f : f = [row \in rows |->
              PlannedRow(from + Cardinality({r \in rows : r.day < row.day}), row.day, row.start)]
  OBVIOUS
<1>2. \A x : x \in k <=> \E row \in rows : x = f[row]
  BY <1>1 DEF Renumbered
<1>3. f \in Surjection(rows, k)
  <2>1. f \in [rows -> k] /\ \A x \in k : \E row \in rows : f[row] = x
    BY <1>1, <1>2
  <2> QED BY <2>1 DEF Surjection
<1>4. IsFiniteSet(k)
  BY <1>3, FS_Surjection DEF NewRowsOf
<1>5. ASSUME NEW x \in k PROVE IsRow(x) /\ x.state = "planned"
  <2>1. PICK row \in rows : x = f[row]
    BY <1>2
  <2>2. row.day \in Int
    BY DEF NewRowsOf, IsRow
  <2> QED BY <1>1, <2>1, <2>2 DEF PlannedRow, IsRow
<1> QED BY <1>4, <1>5 DEF NewRowsOf

\* Steps of a run that change one copy and no row.
LEMMA RunMoves ==
    ASSUME RunsInv, NEW r \in Runs, NEW new, run' = [run EXCEPT ![r] = new], line.status # "none",
           UNCHANGED <<today, line, occ, seat, editor>>,
           IsRun(new), new.day \in Int, new.pc = "topUp" => Anchored(new.def[1]),
           \A w \in new.work : w.id \in DOMAIN occ /\ w.day \in Int,
           \A w, x \in new.work : w.id = x.id => w = x,
           new.considered \subseteq DOMAIN occ,
           \A o \in new.considered : occ[o].state = "planned" => \E w \in new.work : w.id = o,
           new.pc = "done" => new.work = {}
    PROVE  RunsInv'
<1>1. DOMAIN run' = Runs /\ run'[r] = new /\ \A q \in Runs \ {r} : run'[q] = run[q]
  BY DEF RunsInv, SeriesShape
<1>2. SeriesShape'
  BY <1>1 DEF RunsInv, SeriesShape
<1>3. BeforeTheSeries'
  BY DEF BeforeTheSeries
<1>4. RowsGoOn
  BY DEF RowsGoOn
<1>5. ASSUME NEW q \in Runs PROVE RunIsListed(q)'
  <2>1. CASE q = r
    BY <1>1, <2>1 DEF RunIsListed
  <2>2. CASE q # r
    BY <1>1, <1>4, <2>2, OthersStayListed
  <2> QED BY <2>1, <2>2
<1> QED BY <1>2, <1>3, <1>5 DEF RunsInv

\* Before there is a series, no run has begun.
LEMMA RunsNeedASeries ==
    ASSUME RunsInv, NEW r \in Runs, run[r].pc # "idle"
    PROVE  line.status # "none"
BY DEF RunsInv, BeforeTheSeries, IdleRun

\* One lemma per step of a run, then one per request of the desk: every
\* undecided row of a run stays on its list.
LEMMA LoadListsRuns ==
    ASSUME RunsInv, NEW r \in Runs, RunLoad(r)
    PROVE  RunsInv'
<1>1. PICK new : new = [IdleRun EXCEPT !.pc = "topUp", !.day = today, !.def = <<line.def, line.start>>]
  OBVIOUS
<1>2. run' = [run EXCEPT ![r] = new]
  BY <1>1 DEF RunLoad
<1>3. /\ IsRun(new) /\ new.day = today /\ new.work = {} /\ new.considered = {}
      /\ new.pc = "topUp" /\ new.def[1] = line.def
  BY <1>1 DEF IsRun, IdleRun
<1>4. line.status # "none" /\ UNCHANGED <<today, line, occ, seat, editor>>
  BY DEF RunLoad
<1>5. today \in Int /\ Anchored(line.def)
  BY <1>4 DEF RunsInv, SeriesShape
<1> QED BY <1>2, <1>3, <1>4, <1>5, RunMoves

\* The list of a run is what it found undecided.
LEMMA ListListsRuns ==
    ASSUME RunsInv, NEW r \in Runs, RunList(r)
    PROVE  RunsInv'
<1>1. PICK found : found = {o \in DOMAIN occ : /\ occ[o].state = "planned"
                                             /\ occ[o].day <= run[r].day + BookingHorizon}
  OBVIOUS
<1>2. PICK new : new = [run[r] EXCEPT !.pc = IF found = {} THEN "done" ELSE "read",
                               !.work = {Listed(o) : o \in found}, !.considered = found]
  OBVIOUS
<1>3. /\ run[r].pc = "list" /\ UNCHANGED <<today, line, occ, seat, editor>>
      /\ run' = [run EXCEPT ![r] = new]
  BY <1>1, <1>2 DEF RunList, RunsInv, SeriesShape
<1>4. IsRun(run[r]) /\ run[r].day \in Int
  BY DEF RunsInv, SeriesShape
<1>5. /\ IsRun(new) /\ new.day = run[r].day /\ new.work = {Listed(o) : o \in found}
      /\ new.considered = found /\ new.pc = IF found = {} THEN "done" ELSE "read"
  BY <1>2, <1>4 DEF IsRun
<1>6. \A o \in found : Listed(o).id = o /\ Listed(o).day \in Int
  BY <1>1 DEF Listed, RunsInv, SeriesShape, IsRow
<1>7. line.status # "none"
  BY <1>3, RunsNeedASeries
<1>8. /\ \A w \in new.work : w.id \in DOMAIN occ /\ w = Listed(w.id) /\ w.day \in Int
      /\ new.considered \subseteq DOMAIN occ
      /\ \A o \in new.considered : \E w \in new.work : w.id = o
      /\ new.pc = "done" => new.work = {}
      /\ new.pc # "topUp"
  BY <1>1, <1>5, <1>6
<1>9. /\ new.day \in Int /\ (new.pc = "topUp" => Anchored(new.def[1]))
      /\ \A w \in new.work : w.id \in DOMAIN occ /\ w.day \in Int
      /\ \A w, x \in new.work : w.id = x.id => w = x
      /\ \A o \in new.considered : occ[o].state = "planned" => \E w \in new.work : w.id = o
  <2>1. ASSUME NEW w \in new.work, NEW x \in new.work, w.id = x.id PROVE w = x
    BY <1>8, <2>1
  <2> QED BY <1>4, <1>5, <1>8, <2>1
<1> QED BY ONLY RunsInv, <1>3, <1>5, <1>7, <1>8, <1>9, RunMoves

\* Reading a row decides nothing.
LEMMA ReadListsRuns ==
    ASSUME RunsInv, NEW r \in Runs, RunRead(r)
    PROVE  RunsInv'
<1>1. PICK found : run' = [run EXCEPT ![r] = [@ EXCEPT !.pc = "write", !.found = found, !.rejected = {}]]
  BY DEF RunRead
<1>2. PICK new : new = [run[r] EXCEPT !.pc = "write", !.found = found, !.rejected = {}]
  OBVIOUS
<1>3. run[r].pc = "read" /\ UNCHANGED <<today, line, occ, seat, editor>>
  BY DEF RunRead
<1>4. IsRun(run[r]) /\ run[r].day \in Int /\ DOMAIN run = Runs /\ RunIsListed(r)
  BY DEF RunsInv, SeriesShape
<1>5. run' = [run EXCEPT ![r] = new]
  BY <1>1, <1>2, <1>4
<1>6. /\ IsRun(new) /\ new.day = run[r].day /\ new.work = run[r].work
      /\ new.considered = run[r].considered /\ new.pc = "write"
  BY <1>2, <1>4 DEF IsRun
<1>7. line.status # "none"
  BY <1>3, RunsNeedASeries
<1>8. /\ new.day \in Int /\ (new.pc = "topUp" => Anchored(new.def[1]))
      /\ \A w \in new.work : w.id \in DOMAIN occ /\ w.day \in Int
      /\ \A w, x \in new.work : w.id = x.id => w = x
      /\ new.considered \subseteq DOMAIN occ
      /\ \A o \in new.considered : occ[o].state = "planned" => \E w \in new.work : w.id = o
      /\ new.pc = "done" => new.work = {}
  BY <1>4, <1>6 DEF RunIsListed
<1> QED BY ONLY RunsInv, <1>3, <1>5, <1>6, <1>7, <1>8, RunMoves

\* A run that throws or ends has no list.
LEMMA RestListsRuns ==
    ASSUME RunsInv, NEW r \in Runs, RunThrows(r) \/ RunEnds(r)
    PROVE  RunsInv'
<1>1. /\ run[r].pc # "idle" /\ run' = [run EXCEPT ![r] = IdleRun]
      /\ UNCHANGED <<today, line, occ, seat, editor>>
  BY DEF RunThrows, RunEnds
<1>2. line.status # "none"
  BY <1>1, RunsNeedASeries
<1>3. PICK new : new = IdleRun
  OBVIOUS
<1>4. /\ IsRun(new) /\ new.day = 0 /\ new.work = {} /\ new.considered = {}
      /\ new.pc = "idle" /\ run' = [run EXCEPT ![r] = new]
  BY <1>1, <1>3 DEF IsRun, IdleRun
<1>5. /\ new.day \in Int /\ (new.pc = "topUp" => Anchored(new.def[1]))
      /\ \A w \in new.work : w.id \in DOMAIN occ /\ w.day \in Int
      /\ \A w, x \in new.work : w.id = x.id => w = x
      /\ new.considered \subseteq DOMAIN occ
      /\ \A o \in new.considered : occ[o].state = "planned" => \E w \in new.work : w.id = o
      /\ new.pc = "done" => new.work = {}
  BY <1>4
<1> QED BY ONLY RunsInv, <1>1, <1>2, <1>4, <1>5, RunMoves

\* What topUp() and the edits insert goes behind the rows there are.
LEMMA TopUpListsRuns ==
    ASSUME RunsInv, NEW r \in Runs, RunTopUp(r)
    PROVE  /\ RunsInv' /\ DOMAIN occ \subseteq DOMAIN occ'
           /\ \A o \in DOMAIN occ : occ'[o] = occ[o]
<1>1. PICK rows : rows = PlannedRows(ExpandSeries(run[r].def[1], run[r].day, SeriesHorizon), run[r].def[2])
  OBVIOUS
<1>2. /\ run[r].pc = "topUp" /\ occ' = Inserted(occ, NewRows(rows))
      /\ line' = [line EXCEPT !.through = run[r].day + SeriesHorizon]
      /\ run' = [run EXCEPT ![r].pc = "list"] /\ UNCHANGED <<today, seat, editor>>
  BY <1>1 DEF RunTopUp
<1>3. IsRun(run[r]) /\ run[r].day \in Int /\ Anchored(run[r].def[1]) /\ DOMAIN run = Runs
  BY <1>2 DEF RunsInv, SeriesShape
<1>4. NewRowsOf(rows)
  BY <1>1, <1>3, SeriesAssumption, RowsAreFinite
<1>5. PICK part : part = NewRows(rows)
  OBVIOUS
<1>6. NewRowsOf(part) /\ occ' = Inserted(occ, part)
  BY <1>2, <1>4, <1>5, SomeNewRows DEF NewRows
<1>7. IsSequence(occ) /\ \A o \in DOMAIN occ : IsRow(occ[o])
  BY DEF RunsInv, SeriesShape
<1>8. /\ IsSequence(occ') /\ \A o \in DOMAIN occ' : IsRow(occ'[o])
      /\ DOMAIN occ \subseteq DOMAIN occ' /\ \A o \in DOMAIN occ : occ'[o] = occ[o]
  BY <1>6, <1>7, InsertedRows
<1>9. RowsGoOn
  BY <1>8 DEF RowsGoOn
<1>10. line.status # "none"
  BY <1>2, RunsNeedASeries
<1>11. PICK new : new = [run[r] EXCEPT !.pc = "list"]
  OBVIOUS
<1>12. /\ DOMAIN run' = Runs /\ run'[r] = new /\ \A q \in Runs \ {r} : run'[q] = run[q]
       /\ IsRun(new) /\ new.day = run[r].day /\ new.work = run[r].work
       /\ new.considered = run[r].considered /\ new.pc = "list"
  BY <1>2, <1>3, <1>11 DEF IsRun
<1>13. /\ line' = [status |-> line'.status, def |-> line'.def, start |-> line'.start,
                   through |-> line'.through]
       /\ line'.status = line.status /\ line'.def = line.def
  BY <1>2 DEF RunsInv, SeriesShape
<1>14. SeriesShape'
  BY <1>2, <1>3, <1>8, <1>12, <1>13 DEF RunsInv, SeriesShape
<1>15. ASSUME NEW q \in Runs PROVE RunIsListed(q)'
  <2>1. CASE q = r
    <3>1. RunIsListed(r) BY DEF RunsInv
    <3> QED BY <1>8, <1>12, <2>1, <3>1 DEF RunIsListed
  <2>2. CASE q # r
    BY <1>9, <1>12, <2>2, OthersStayListed
  <2> QED BY <2>1, <2>2
<1>16. BeforeTheSeries'
  BY <1>10, <1>13 DEF BeforeTheSeries
<1> QED BY <1>8, <1>14, <1>15, <1>16 DEF RunsInv

\* A write that decides an occurrence takes it off the list.
LEMMA DecidedRow ==
    ASSUME RunsInv, NEW r \in Runs, run[r].pc = "write", NEW o \in run[r].work,
           NEW row, IsRow(row), row.state # "planned",
           occ' = [occ EXCEPT ![o.id] = row], run' = [run EXCEPT ![r] = Onward(r, o)],
           UNCHANGED <<today, line, editor>>,
           IsSequence(seat)', \A b \in DOMAIN seat' : IsVisit(seat'[b])
    PROVE  /\ RunsInv' /\ o.id \in DOMAIN occ /\ DOMAIN occ' = DOMAIN occ
           /\ occ'[o.id] = row /\ \A i \in DOMAIN occ \ {o.id} : occ'[i] = occ[i]
           /\ run'[r].work = run[r].work \ {o} /\ \A q \in Runs \ {r} : run'[q] = run[q]
<1>1. /\ IsRun(run[r]) /\ run[r].day \in Int /\ DOMAIN run = Runs /\ RunIsListed(r)
      /\ IsSequence(occ) /\ \A i \in DOMAIN occ : IsRow(occ[i])
  BY DEF RunsInv, SeriesShape
<1>2. o.id \in DOMAIN occ
  BY <1>1 DEF RunIsListed
<1>3. PICK new : new = Onward(r, o)
  OBVIOUS
<1>4. /\ IsRun(new) /\ new.day = run[r].day /\ new.work = run[r].work \ {o}
      /\ new.considered = run[r].considered
      /\ new.pc = IF run[r].work = {o} THEN "done" ELSE "read"
  BY <1>1, <1>3 DEF IsRun, Onward
<1>5. DOMAIN run' = Runs /\ run'[r] = new /\ \A q \in Runs \ {r} : run'[q] = run[q]
  BY <1>1, <1>3
<1>6. /\ DOMAIN occ' = DOMAIN occ /\ occ'[o.id] = row
      /\ \A i \in DOMAIN occ \ {o.id} : occ'[i] = occ[i]
  BY <1>2
<1>7. IsSequence(occ')
  <2>1. PICK k : k = occ'
    OBVIOUS
  <2>2. k = [i \in DOMAIN occ |-> k[i]]
    BY <1>2, <2>1
  <2> QED BY <1>1, <2>1, <2>2, Rewritten
<1>8. ASSUME NEW i \in DOMAIN occ' PROVE IsRow(occ'[i])
  <2>1. CASE i = o.id
    BY <1>6, <2>1
  <2>2. CASE i # o.id
    <3>1. i \in DOMAIN occ /\ occ'[i] = occ[i] BY <1>6, <2>2
    <3> QED BY <1>1, <3>1
  <2> QED BY <2>1, <2>2
<1>9. SeriesShape'
  BY <1>4, <1>5, <1>7, <1>8 DEF RunsInv, SeriesShape
<1>10. RowsGoOn
  BY <1>6 DEF RowsGoOn
<1>11. RunIsListed(r)'
  <2>1. ASSUME NEW i \in run[r].considered, occ'[i].state = "planned"
        PROVE  \E w \in run[r].work \ {o} : w.id = i
    <3>1. i \in DOMAIN occ BY <1>1 DEF RunIsListed
    <3>2. i # o.id BY <1>6, <2>1
    <3>3. occ[i].state = "planned" BY <1>6, <2>1, <3>1, <3>2
    <3>4. PICK w \in run[r].work : w.id = i BY <1>1, <3>3 DEF RunIsListed
    <3> QED BY <3>2, <3>4
  <2>2. new.pc = "done" => new.work = {}
    BY <1>4
  <2> QED BY <1>1, <1>4, <1>5, <1>6, <2>1, <2>2 DEF RunIsListed
<1>12. \A q \in Runs : RunIsListed(q)'
  BY <1>5, <1>10, <1>11, OthersStayListed
<1>13. BeforeTheSeries'
  BY RunsNeedASeries DEF BeforeTheSeries
<1> QED BY <1>2, <1>4, <1>5, <1>6, <1>9, <1>12, <1>13 DEF RunsInv

\* What a write of a run can be.
LEMMA WriteIsOneOf ==
    ASSUME NEW r \in Runs, RunWrite(r)
    PROVE  \E o \in run[r].work :
             \/ \E alts : NeedsAttention(r, o, alts)
             \/ \E c : Raced(r, o, c) \/ Materialise(r, o, c)
<1>1. PICK o \in Turn(r) : Attempt(r, o)
  BY DEF RunWrite
<1>2. o \in run[r].work
  BY DEF Turn
<1>3. \/ \E alts : NeedsAttention(r, o, alts)
      \/ \E c : Raced(r, o, c) \/ Materialise(r, o, c)
  BY <1>1, Zenon DEF Attempt
<1> QED BY <1>2, <1>3

\* A write takes the row it decided off its own list only.
LEMMA WriteListsRuns ==
    ASSUME RunsInv, NEW r \in Runs, RunWrite(r)
    PROVE  RunsInv'
<1>1. PICK o \in run[r].work : \/ \E alts : NeedsAttention(r, o, alts)
                               \/ \E c : Raced(r, o, c) \/ Materialise(r, o, c)
  BY WriteIsOneOf
<1>2. run[r].pc = "write" /\ UNCHANGED <<today, line, editor>>
  BY DEF RunWrite
<1>3. /\ IsRun(run[r]) /\ run[r].day \in Int /\ DOMAIN run = Runs /\ RunIsListed(r)
      /\ \A i \in DOMAIN occ : IsRow(occ[i])
      /\ IsSequence(seat) /\ \A b \in DOMAIN seat : IsVisit(seat[b])
  BY DEF RunsInv, SeriesShape
<1>4. o.id \in DOMAIN occ /\ IsRow(occ[o.id])
  BY <1>3 DEF RunIsListed
<1>5. ASSUME NEW alts, NeedsAttention(r, o, alts) PROVE RunsInv'
  <2>1. PICK row : row = [occ[o.id] EXCEPT !.state = "needs_attention", !.bk = 0, !.alts = alts]
    OBVIOUS
  <2>2. IsRow(row) /\ row.state = "needs_attention"
    BY <1>4, <2>1 DEF IsRow
  <2>3. /\ occ' = [occ EXCEPT ![o.id] = row] /\ run' = [run EXCEPT ![r] = Onward(r, o)]
        /\ seat' = seat
    BY <1>4, <1>5, <2>1 DEF NeedsAttention
  <2> QED BY <1>2, <1>3, <2>2, <2>3, DecidedRow
<1>6. ASSUME NEW c, Raced(r, o, c) PROVE RunsInv'
  <2>1. PICK new : new = [run[r] EXCEPT !.rejected = @ \cup {c}]
    OBVIOUS
  <2>2. run' = [run EXCEPT ![r] = new] /\ UNCHANGED <<occ, seat>>
    BY <1>3, <1>6, <2>1 DEF Raced
  <2>3. /\ IsRun(new) /\ new.day = run[r].day /\ new.work = run[r].work
        /\ new.considered = run[r].considered /\ new.pc = "write"
    BY <1>2, <1>3, <2>1 DEF IsRun
  <2>4. /\ new.day \in Int /\ (new.pc = "topUp" => Anchored(new.def[1]))
        /\ \A w \in new.work : w.id \in DOMAIN occ /\ w.day \in Int
        /\ \A w, x \in new.work : w.id = x.id => w = x
        /\ new.considered \subseteq DOMAIN occ
        /\ \A i \in new.considered : occ[i].state = "planned" => \E w \in new.work : w.id = i
        /\ new.pc = "done" => new.work = {}
    BY <1>3, <2>3 DEF RunIsListed
  <2>5. line.status # "none"
    BY <1>2, RunsNeedASeries
  <2> QED BY ONLY RunsInv, <1>2, <2>2, <2>3, <2>4, <2>5, RunMoves
<1>7. ASSUME NEW c, Materialise(r, o, c) PROVE RunsInv'
  <2>1. PICK row : row = [occ[o.id] EXCEPT !.state = "materialised", !.bk = Len(seat) + 1,
                                            !.day = o.day, !.start = c.start, !.alts = {}]
    OBVIOUS
  <2>2. /\ occ' = [occ EXCEPT ![o.id] = row] /\ run' = [run EXCEPT ![r] = Onward(r, o)]
        /\ seat' = Append(seat, [day |-> o.day, start |-> c.start, staff |-> c.staff, status |-> "open"])
    BY <1>4, <1>7, <2>1 DEF Materialise
  <2>3. o.day \in Int
    BY <1>3 DEF RunIsListed
  <2>4. IsRow(row) /\ row.state = "materialised"
    BY <1>4, <2>1, <2>3 DEF IsRow
  <2>5. PICK e : e = [day |-> o.day, start |-> c.start, staff |-> c.staff, status |-> "open"]
    OBVIOUS
  <2>6. IsVisit(e) /\ seat' = Append(seat, e)
    BY <2>2, <2>5 DEF IsVisit
  <2>7. IsSequence(seat)' /\ \A b \in DOMAIN seat' : IsVisit(seat'[b])
    <3>1. /\ IsSequence(seat') /\ DOMAIN seat' = DOMAIN seat \cup {Len(seat) + 1}
          /\ seat'[Len(seat) + 1] = e /\ \A i \in DOMAIN seat : seat'[i] = seat[i]
      <4>1. PICK k : /\ k = Append(seat, e) /\ IsSequence(k)
                     /\ DOMAIN k = DOMAIN seat \cup {Len(seat) + 1}
                     /\ \A i \in DOMAIN seat : k[i] = seat[i]
                     /\ k[Len(seat) + 1] = e
        BY <1>3, Appended, Zenon
      <4> QED BY <2>6, <4>1, Zenon
    <3> QED BY <1>3, <2>6, <3>1
  <2> QED BY <1>2, <2>2, <2>4, <2>7, DecidedRow
<1> QED BY <1>1, <1>5, <1>6, <1>7

\* Steps that leave runs and series' rows; only the desk's request moves.
LEMMA DeskListsRuns ==
    ASSUME RunsInv, line.status # "none", UNCHANGED <<today, line, occ, seat, run>>,
           IsEditor(editor)',
           editor'.pc = "cancel" => editor'.kind \in Statuses \cup {"skip"},
           editor'.pc = "status" => editor'.kind \in Statuses,
           editor'.pc = "rewrite" => Anchored(editor'.plan[1]) /\ NewRowsOf(editor'.plan[2])
    PROVE  RunsInv'
<1>1. SeriesShape'
  BY DEF RunsInv, SeriesShape
<1>2. BeforeTheSeries'
  BY DEF BeforeTheSeries
<1>3. \A r \in Runs : RunIsListed(r)'
  BY DEF RunsInv, RunIsListed
<1> QED BY <1>1, <1>2, <1>3 DEF RunsInv

\* A row there is belongs to a series.
LEMMA RowsNeedASeries ==
    ASSUME RunsInv
    PROVE  /\ \A o \in DOMAIN occ : line.status # "none"
           /\ \A b \in DOMAIN seat : line.status # "none"
           /\ editor.pc # "idle" => line.status # "none"
BY DEF RunsInv, BeforeTheSeries

\* What the desk asks for only starts an edit.
LEMMA RequestsListRuns ==
    ASSUME RunsInv,
           \/ \E to \in {"paused", "ended"} : PauseOrEnd(to)
           \/ \E o \in DOMAIN occ : Skip(o)
           \/ Resume
           \/ \E scope \in {"this_occurrence", "this_and_future", "entire_series"},
                 o \in DOMAIN occ, p \in SeriesPatterns : ApplyPattern(scope, o, p)
    PROVE  RunsInv'
<1>1. UNCHANGED <<today, line, occ, seat, run>>
  BY DEF PauseOrEnd, Skip, Resume, ApplyPattern
<1>2. ASSUME NEW pc, NEW kind, NEW ids, NEW plan, Request(pc, kind, ids, plan)
      PROVE  IsEditor(editor)' /\ editor'.pc = pc /\ editor'.kind = kind /\ editor'.plan = plan
  BY <1>2 DEF Request, IsEditor
<1>3. ASSUME NEW to \in {"paused", "ended"}, PauseOrEnd(to) PROVE RunsInv'
  <2>1. line.status # "none" /\ Request("cancel", to, PlanPauseOrEnd, <<>>)
    BY <1>3 DEF PauseOrEnd
  <2>2. IsEditor(editor)' /\ editor'.pc = "cancel" /\ editor'.kind \in Statuses
    BY <1>2, <2>1 DEF Statuses
  <2> QED BY <1>1, <2>1, <2>2, DeskListsRuns
<1>4. ASSUME NEW o \in DOMAIN occ, Skip(o) PROVE RunsInv'
  <2>1. Request("cancel", "skip", {o}, <<>>)
    BY <1>4 DEF Skip
  <2>2. IsEditor(editor)' /\ editor'.pc = "cancel" /\ editor'.kind = "skip"
    BY <1>2, <2>1
  <2>3. line.status # "none"
    BY <1>4, RowsNeedASeries
  <2> QED BY <1>1, <2>2, <2>3, DeskListsRuns
<1>5. ASSUME Resume PROVE RunsInv'
  <2>1. line.status # "none" /\ Request("status", "active", {}, <<>>)
    BY <1>5 DEF Resume
  <2>2. IsEditor(editor)' /\ editor'.pc = "status" /\ editor'.kind \in Statuses
    BY <1>2, <2>1 DEF Statuses
  <2> QED BY <1>1, <2>1, <2>2, DeskListsRuns
<1>6. ASSUME NEW scope, NEW o \in DOMAIN occ, NEW p, ApplyPattern(scope, o, p) PROVE RunsInv'
  <2>1. PICK def : def = [line.def EXCEPT !.pattern = p,
                            !.anchor = IF scope = "this_and_future" THEN occ[o].day ELSE @]
    OBVIOUS
  <2>2. PICK rows : rows = PlannedRows(ExpandSeries(def, def.anchor, SeriesHorizon), line.start)
    OBVIOUS
  <2>3. line.status # "none"
    BY RowsNeedASeries
  <2>4. Anchored(line.def) /\ occ[o].day \in Int
    BY <2>3 DEF RunsInv, SeriesShape, IsRow
  <2>5. Anchored(def)
    BY <2>1, <2>4 DEF Anchored
  <2>6. NewRowsOf(rows)
    BY <2>2, <2>5, SeriesAssumption, RowsAreFinite DEF Anchored
  <2>7. \/ Request("detach", scope, {o}, <<>>)
        \/ Request("rewrite", scope, PlanEdit(scope, o), <<def, rows>>)
    BY <1>6, <2>1, <2>2 DEF ApplyPattern
  <2>8. \/ IsEditor(editor)' /\ editor'.pc = "detach"
        \/ IsEditor(editor)' /\ editor'.pc = "rewrite" /\ editor'.plan = <<def, rows>>
    BY <1>2, <2>7
  <2> QED BY <1>1, <2>3, <2>5, <2>6, <2>8, DeskListsRuns
<1> QED BY <1>3, <1>4, <1>5, <1>6

\* The desk's writes: rows are skipped, detached or cleared, none is planned
\* again, and bookings change their status only.
LEMMA DeskWritesRows ==
    ASSUME RunsInv, line.status # "none", line'.status # "none", editor' = [IdleDesk EXCEPT !.used = editor.used]
               \/ (editor' = [editor EXCEPT !.pc = "status"] /\ editor.kind \in Statuses),
           Anchored(line'.def),
           line' = [status |-> line'.status, def |-> line'.def, start |-> line'.start,
                    through |-> line'.through],
           UNCHANGED <<today, run>>,
           IsSequence(occ)', \A o \in DOMAIN occ' : IsRow(occ'[o]), RowsGoOn,
           IsSequence(seat)', \A b \in DOMAIN seat' : IsVisit(seat'[b])
    PROVE  RunsInv'
<1>1. /\ IsEditor(editor)' /\ editor'.pc \in {"idle", "status"}
      /\ editor'.pc = "status" => editor'.kind \in Statuses
  <2>1. IsEditor(editor)
    BY DEF RunsInv, SeriesShape
  <2> QED BY <2>1 DEF IsEditor, IdleDesk
<1>2. SeriesShape'
  BY <1>1 DEF RunsInv, SeriesShape
<1>3. BeforeTheSeries'
  BY DEF BeforeTheSeries
<1>4. \A r \in Runs : RunIsListed(r)'
  BY OthersStayListed
<1> QED BY <1>2, <1>3, <1>4 DEF RunsInv

\* The bookings a set of occurrences releases.
LEMMA ReleasedBookings ==
    ASSUME RunsInv, NEW ids, NEW status, seat' = Released(ids, status)
    PROVE  /\ IsSequence(seat)' /\ \A b \in DOMAIN seat' : IsVisit(seat'[b])
           /\ DOMAIN seat' = DOMAIN seat
           /\ \A b \in DOMAIN seat : IF \E o \in ids : occ[o].bk = b
                                     THEN seat'[b].status = status ELSE seat'[b] = seat[b]
<1>1. IsSequence(seat) /\ \A b \in DOMAIN seat : IsVisit(seat[b])
  BY DEF RunsInv, SeriesShape
<1>2. /\ DOMAIN seat' = DOMAIN seat
      /\ \A b \in DOMAIN seat : IF \E o \in ids : occ[o].bk = b
                                THEN seat'[b] = [seat[b] EXCEPT !.status = status]
                                ELSE seat'[b] = seat[b]
  BY DEF Released
<1>3. IsSequence(seat')
  <2>1. PICK k : k = seat'
    OBVIOUS
  <2>2. k = [b \in DOMAIN seat |-> k[b]]
    BY <2>1 DEF Released
  <2> QED BY <1>1, <2>1, <2>2, Rewritten
<1>4. ASSUME NEW b \in DOMAIN seat, \E o \in ids : occ[o].bk = b
      PROVE  IsVisit(seat'[b]) /\ seat'[b].status = status
  <2>1. seat'[b] = [seat[b] EXCEPT !.status = status] /\ IsVisit(seat[b])
    BY <1>1, <1>2, <1>4
  <2> QED BY <2>1 DEF IsVisit
<1>5. ASSUME NEW b \in DOMAIN seat, ~ \E o \in ids : occ[o].bk = b
      PROVE  IsVisit(seat'[b]) /\ seat'[b] = seat[b]
  BY <1>1, <1>2, <1>5
<1> QED BY <1>2, <1>3, <1>4, <1>5

\* A row that loses its booking has released it, and no booking comes back.
ReleasesWhatItClears ==
    /\ DOMAIN occ \subseteq DOMAIN occ' /\ DOMAIN seat' = DOMAIN seat
    /\ \A b \in DOMAIN seat : Blocking(seat'[b]) => Blocking(seat[b])
    /\ \A o \in DOMAIN occ :
         \/ occ'[o].bk = occ[o].bk /\ (occ'[o].state = "gone" => occ[o].state = "gone")
         \/ occ'[o].bk = 0 /\ \A b \in DOMAIN seat : occ[o].bk = b => ~Blocking(seat'[b])

\* A row the desk rewrites stays a row, and is not planned.
LEMMA RewrittenRow ==
    ASSUME NEW x, IsRow(x)
    PROVE  /\ IsRow(Skipped(x)) /\ Skipped(x).state = "skipped" /\ Skipped(x).bk = 0
           /\ IsRow(Cleared(x)) /\ Cleared(x).state = "gone" /\ Cleared(x).bk = 0
           /\ \A k : k = [x EXCEPT !.state = "detached", !.alts = {}] =>
                IsRow(k) /\ k.state = "detached" /\ k.bk = x.bk
<1>1. IsRow(Skipped(x)) /\ Skipped(x).state = "skipped" /\ Skipped(x).bk = 0
  <2>1. PICK k : k = [x EXCEPT !.state = "skipped", !.bk = 0, !.alts = {}]
    OBVIOUS
  <2>2. IsRow(k) /\ k.state = "skipped" /\ k.bk = 0
    BY <2>1 DEF IsRow
  <2> QED BY <2>1, <2>2, Zenon DEF Skipped
<1>2. IsRow(Cleared(x)) /\ Cleared(x).state = "gone" /\ Cleared(x).bk = 0
  <2>1. PICK k : k = [x EXCEPT !.state = "gone", !.bk = 0, !.alts = {}]
    OBVIOUS
  <2>2. IsRow(k) /\ k.state = "gone" /\ k.bk = 0
    BY <2>1 DEF IsRow
  <2> QED BY <2>1, <2>2, Zenon DEF Cleared
<1>3. ASSUME NEW k, k = [x EXCEPT !.state = "detached", !.alts = {}]
      PROVE  IsRow(k) /\ k.state = "detached" /\ k.bk = x.bk
  BY <1>3 DEF IsRow
<1> QED BY <1>1, <1>2, <1>3

\* The parts of an edit, which clear bookings only where they release them.
LEMMA CancelClears ==
    ASSUME RunsInv, CancelOccurrences
    PROVE  RunsInv' /\ ReleasesWhatItClears
<1>1. PICK ids : ids = editor.ids \cap Kept
  OBVIOUS
<1>2. /\ editor.pc = "cancel" /\ seat' = Released(ids, "cancelled")
      /\ occ' = [o \in DOMAIN occ |-> IF o \in ids THEN Skipped(occ[o]) ELSE occ[o]]
      /\ editor' = IF editor.kind = "skip" THEN [IdleDesk EXCEPT !.used = editor.used]
                   ELSE [editor EXCEPT !.pc = "status"]
      /\ UNCHANGED <<today, line, run>>
  BY <1>1 DEF CancelOccurrences
<1>3. /\ IsSequence(occ) /\ \A o \in DOMAIN occ : IsRow(occ[o])
      /\ editor.kind \in Statuses \cup {"skip"} /\ line.status # "none"
  BY <1>2, RowsNeedASeries DEF RunsInv, SeriesShape
<1>4. /\ IsSequence(seat)' /\ \A b \in DOMAIN seat' : IsVisit(seat'[b])
      /\ DOMAIN seat' = DOMAIN seat
      /\ \A b \in DOMAIN seat : IF \E o \in ids : occ[o].bk = b
                                THEN seat'[b].status = "cancelled" ELSE seat'[b] = seat[b]
  BY <1>2, ReleasedBookings
<1>5. DOMAIN occ' = DOMAIN occ
  BY <1>2
<1>6. ASSUME NEW o \in DOMAIN occ, o \in ids
      PROVE  IsRow(occ'[o]) /\ occ'[o].state = "skipped" /\ occ'[o].bk = 0
  BY <1>2, <1>3, <1>6, RewrittenRow
<1>7. ASSUME NEW o \in DOMAIN occ, o \notin ids PROVE occ'[o] = occ[o] /\ IsRow(occ[o])
  BY <1>2, <1>3, <1>7
<1>8. IsSequence(occ')
  <2>1. PICK k : k = occ'
    OBVIOUS
  <2>2. k = [o \in DOMAIN occ |-> k[o]]
    BY <1>2, <2>1
  <2> QED BY <1>3, <2>1, <2>2, Rewritten
<1>9. RowsGoOn
  BY <1>5, <1>6, <1>7 DEF RowsGoOn
<1>10. \A o \in DOMAIN occ' : IsRow(occ'[o])
  BY <1>5, <1>6, <1>7
<1>11. Anchored(line.def) /\ line = [status |-> line.status, def |-> line.def, start |-> line.start,
                                     through |-> line.through]
  BY <1>3 DEF RunsInv, SeriesShape
<1>12. RunsInv'
  BY <1>2, <1>3, <1>4, <1>8, <1>9, <1>10, <1>11, DeskWritesRows
<1>13. \A b \in DOMAIN seat : Blocking(seat'[b]) => Blocking(seat[b])
  BY <1>4 DEF Blocking, CLOSED
<1>14. ASSUME NEW o \in ids, NEW b \in DOMAIN seat, occ[o].bk = b PROVE ~Blocking(seat'[b])
  BY <1>4, <1>14 DEF Blocking, CLOSED
<1> QED BY <1>4, <1>5, <1>6, <1>7, <1>12, <1>13, <1>14 DEF ReleasesWhatItClears

\* Detaching one occurrence.
LEMMA DetachClears ==
    ASSUME RunsInv, DetachOccurrence
    PROVE  RunsInv' /\ ReleasesWhatItClears
<1>1. PICK ids : ids = editor.ids \cap Kept
  OBVIOUS
<1>2. /\ editor.pc = "detach" /\ seat' = seat
      /\ occ' = [o \in DOMAIN occ |-> IF o \in ids THEN [occ[o] EXCEPT !.state = "detached", !.alts = {}]
                                      ELSE occ[o]]
      /\ editor' = [IdleDesk EXCEPT !.used = editor.used]
      /\ UNCHANGED <<today, line, run>>
  BY <1>1 DEF DetachOccurrence
<1>3. /\ IsSequence(occ) /\ \A o \in DOMAIN occ : IsRow(occ[o])
      /\ IsSequence(seat) /\ (\A b \in DOMAIN seat : IsVisit(seat[b])) /\ line.status # "none"
  BY <1>2, RowsNeedASeries DEF RunsInv, SeriesShape
<1>4. DOMAIN occ' = DOMAIN occ
  BY <1>2
<1>5. ASSUME NEW o \in DOMAIN occ, o \in ids
      PROVE  IsRow(occ'[o]) /\ occ'[o].state = "detached" /\ occ'[o].bk = occ[o].bk
  <2>1. IsRow(occ[o]) /\ occ'[o] = [occ[o] EXCEPT !.state = "detached", !.alts = {}]
    BY <1>2, <1>3, <1>5
  <2> QED BY <2>1, RewrittenRow
<1>6. ASSUME NEW o \in DOMAIN occ, o \notin ids PROVE occ'[o] = occ[o] /\ IsRow(occ[o])
  BY <1>2, <1>3, <1>6
<1>7. IsSequence(occ')
  <2>1. PICK k : k = occ'
    OBVIOUS
  <2>2. k = [o \in DOMAIN occ |-> k[o]]
    BY <1>2, <2>1
  <2> QED BY <1>3, <2>1, <2>2, Rewritten
<1>8. RowsGoOn
  BY <1>4, <1>5, <1>6 DEF RowsGoOn
<1>9. \A o \in DOMAIN occ' : IsRow(occ'[o])
  BY <1>4, <1>5, <1>6
<1>10. Anchored(line.def) /\ line = [status |-> line.status, def |-> line.def, start |-> line.start,
                                     through |-> line.through]
  BY <1>3 DEF RunsInv, SeriesShape
<1>11. RunsInv'
  BY <1>2, <1>3, <1>7, <1>8, <1>9, <1>10, DeskWritesRows
<1> QED BY <1>2, <1>4, <1>5, <1>6, <1>11 DEF ReleasesWhatItClears

\* Rewriting the pattern.
LEMMA RewriteClears ==
    ASSUME RunsInv, RewritePattern
    PROVE  RunsInv' /\ ReleasesWhatItClears
<1>1. PICK ids : ids = editor.ids \cap Kept
  OBVIOUS
<1>2. PICK rows : rows = Renumbered(editor.plan[2], Highest(ids) + 1)
  OBVIOUS
<1>3. PICK s : s = [o \in DOMAIN occ |-> IF o \in ids THEN Cleared(occ[o]) ELSE occ[o]]
  OBVIOUS
<1>4. PICK def : def = [line.def EXCEPT !.pattern = editor.plan[1].pattern,
                                 !.anchor = IF editor.kind = "entire_series"
                                            THEN editor.plan[1].anchor ELSE @]
  OBVIOUS
<1>5. /\ editor.pc = "rewrite" /\ seat' = Released(ids, "rescheduled") /\ occ' = Inserted(s, rows)
      /\ line' = [line EXCEPT !.def = def, !.through = editor.plan[1].anchor + SeriesHorizon]
      /\ editor' = [IdleDesk EXCEPT !.used = editor.used] /\ UNCHANGED <<today, run>>
  BY <1>1, <1>2, <1>3, <1>4 DEF RewritePattern, ReleaseCleared
<1>6. /\ IsSequence(occ) /\ \A o \in DOMAIN occ : IsRow(occ[o])
      /\ line.status # "none" /\ Anchored(line.def) /\ Anchored(editor.plan[1])
      /\ NewRowsOf(editor.plan[2])
  BY <1>5, RowsNeedASeries DEF RunsInv, SeriesShape
<1>7. Anchored(def)
  BY <1>4, <1>6 DEF Anchored
<1>8. /\ line' = [status |-> line'.status, def |-> line'.def, start |-> line'.start,
                  through |-> line'.through]
      /\ line'.status = line.status /\ line'.def = def
  BY <1>5 DEF RunsInv, SeriesShape
<1>9. NewRowsOf(rows)
  BY <1>2, <1>6, RenumberedRows
<1>10. /\ IsSequence(seat)' /\ \A b \in DOMAIN seat' : IsVisit(seat'[b])
       /\ DOMAIN seat' = DOMAIN seat
       /\ \A b \in DOMAIN seat : IF \E o \in ids : occ[o].bk = b
                                 THEN seat'[b].status = "rescheduled" ELSE seat'[b] = seat[b]
  BY <1>5, ReleasedBookings
<1>11. DOMAIN s = DOMAIN occ
  BY <1>3
<1>12. ASSUME NEW o \in DOMAIN occ, o \in ids
       PROVE  IsRow(s[o]) /\ s[o].state = "gone" /\ s[o].bk = 0
  BY <1>3, <1>6, <1>12, RewrittenRow
<1>13. ASSUME NEW o \in DOMAIN occ, o \notin ids PROVE s[o] = occ[o] /\ IsRow(occ[o])
  BY <1>3, <1>6, <1>13
<1>14. IsSequence(s) /\ \A o \in DOMAIN s : IsRow(s[o])
  <2>1. s = [o \in DOMAIN occ |-> s[o]]
    BY <1>3
  <2> QED BY <1>6, <1>11, <1>12, <1>13, <2>1, Rewritten
<1>15. /\ IsSequence(occ') /\ \A o \in DOMAIN occ' : IsRow(occ'[o])
       /\ DOMAIN s \subseteq DOMAIN occ' /\ \A o \in DOMAIN s : occ'[o] = s[o]
  <2>1. PICK k : k = occ'
    OBVIOUS
  <2> QED BY <1>5, <1>9, <1>14, <2>1, InsertedRows
<1>16. RowsGoOn
  BY <1>11, <1>12, <1>13, <1>15 DEF RowsGoOn
<1>17. RunsInv'
  BY <1>5, <1>6, <1>7, <1>8, <1>10, <1>15, <1>16, DeskWritesRows
<1>18. \A b \in DOMAIN seat : Blocking(seat'[b]) => Blocking(seat[b])
  BY <1>10 DEF Blocking, CLOSED
<1>19. ASSUME NEW o \in ids, NEW b \in DOMAIN seat, occ[o].bk = b PROVE ~Blocking(seat'[b])
  BY <1>10, <1>19 DEF Blocking, CLOSED
<1>20. ASSUME NEW o \in DOMAIN occ
       PROVE  \/ occ'[o].bk = occ[o].bk /\ (occ'[o].state = "gone" => occ[o].state = "gone")
              \/ occ'[o].bk = 0 /\ \A b \in DOMAIN seat : occ[o].bk = b => ~Blocking(seat'[b])
  BY <1>11, <1>12, <1>13, <1>15, <1>19
<1> QED BY <1>10, <1>11, <1>15, <1>17, <1>18, <1>20 DEF ReleasesWhatItClears

\* Setting the series' status.
LEMMA StatusClears ==
    ASSUME RunsInv, SetStatus
    PROVE  RunsInv' /\ ReleasesWhatItClears
<1>1. /\ editor.pc = "status" /\ line' = [line EXCEPT !.status = editor.kind]
      /\ editor' = [IdleDesk EXCEPT !.used = editor.used] /\ UNCHANGED <<today, occ, seat, run>>
  BY DEF SetStatus
<1>2. line.status # "none" /\ editor.kind \in Statuses /\ Anchored(line.def)
  BY <1>1, RowsNeedASeries DEF RunsInv, SeriesShape
<1>3. /\ line' = [status |-> line'.status, def |-> line'.def, start |-> line'.start,
                  through |-> line'.through]
      /\ line'.status = editor.kind /\ line'.def = line.def
  BY <1>1 DEF RunsInv, SeriesShape
<1>4. line'.status # "none"
  BY <1>2, <1>3 DEF Statuses
<1>5. /\ IsSequence(occ) /\ \A o \in DOMAIN occ : IsRow(occ[o])
      /\ IsSequence(seat) /\ \A b \in DOMAIN seat : IsVisit(seat[b])
  BY DEF RunsInv, SeriesShape
<1>6. RowsGoOn /\ ReleasesWhatItClears
  BY <1>1 DEF RowsGoOn, ReleasesWhatItClears
<1> QED BY <1>1, <1>2, <1>3, <1>4, <1>5, <1>6, DeskWritesRows

\* The empty sequence.
LEMMA NoRows ==
    ASSUME NEW s, s = <<>>
    PROVE  IsSequence(s) /\ DOMAIN s = {}
<1>1. s \in Seq({}) /\ Len(s) = 0
  OBVIOUS
<1>2. DOMAIN s = {}
  BY <1>1
<1> QED BY <1>1, <1>2, OfItsElements

\* A new series has no visits and nothing running.
LEMMA CreateListsRuns ==
    ASSUME RunsInv, CreateSeries
    PROVE  RunsInv' /\ seat = <<>> /\ \A r \in Runs : run[r] = IdleRun
<1>1. PICK def \in SeriesDefs, start \in SeriesStarts :
        Created(def, start, ExpandSeries(def, def.anchor, SeriesHorizon))
  BY DEF CreateSeries
<1>2. PICK rows : rows = PlannedRows(ExpandSeries(def, def.anchor, SeriesHorizon), start)
  OBVIOUS
<1>3. /\ line' = [status |-> "active", def |-> def, start |-> start,
                  through |-> def.anchor + SeriesHorizon]
      /\ occ' = Inserted(<<>>, rows)
  BY <1>1, <1>2 DEF Created
<1>4. line.status = "none" /\ UNCHANGED <<today, seat, run, editor>>
  BY DEF CreateSeries
<1>5. /\ occ = <<>> /\ seat = <<>> /\ editor.pc = "idle" /\ \A r \in Runs : run[r] = IdleRun
  BY <1>4 DEF RunsInv, BeforeTheSeries
<1>6. Anchored(def)
  BY SeriesAssumption DEF Anchored
<1>7. NewRowsOf(rows)
  BY <1>2, <1>6, SeriesAssumption, RowsAreFinite DEF Anchored
<1>8. ASSUME NEW s, s = <<>> PROVE IsSequence(s) /\ \A o \in DOMAIN s : IsRow(s[o])
  BY <1>8, NoRows
<1>9. IsSequence(occ') /\ \A o \in DOMAIN occ' : IsRow(occ'[o])
  <2>1. PICK s, k : s = <<>> /\ k = occ'
    OBVIOUS
  <2>2. IsSequence(s) /\ (\A o \in DOMAIN s : IsRow(s[o])) /\ k = Inserted(s, rows)
    BY <1>3, <1>8, <2>1, Zenon
  <2>3. IsSequence(k) /\ \A o \in DOMAIN k : IsRow(k[o])
    BY ONLY <1>7, <2>2, InsertedRows
  <2> QED BY <2>1, <2>3
<1>10. SeriesShape'
  BY <1>3, <1>4, <1>5, <1>6, <1>9 DEF RunsInv, SeriesShape
<1>11. BeforeTheSeries'
  BY <1>3 DEF BeforeTheSeries
<1>12. ASSUME NEW r \in Runs PROVE RunIsListed(r)'
  BY <1>4, <1>5 DEF RunIsListed, IdleRun
<1> QED BY <1>5, <1>10, <1>11, <1>12 DEF RunsInv

\* The visit's own life, other people's bookings and the days.
LEMMA OthersListRuns ==
    ASSUME RunsInv, RivalBooks \/ DayPasses \/ UNCHANGED <<today, seriesVars>>
    PROVE  RunsInv' /\ UNCHANGED <<occ, seat, run>>
<1>1. UNCHANGED <<line, occ, seat, run, editor>> /\ (today' = today \/ today' = today + 1)
  BY DEF RivalBooks, DayPasses, seriesVars
<1>2. SeriesShape'
  BY <1>1 DEF RunsInv, SeriesShape
<1>3. BeforeTheSeries' /\ \A r \in Runs : RunIsListed(r)'
  BY <1>1 DEF RunsInv, BeforeTheSeries, RunIsListed
<1> QED BY <1>1, <1>2, <1>3 DEF RunsInv

\* A visit that moves on leaves the lists alone.
LEMMA VisitListsRuns ==
    ASSUME RunsInv, NEW b \in DOMAIN seat, NEW to, VisitMoves(b, to)
    PROVE  RunsInv' /\ ReleasesWhatItClears
<1>1. /\ seat[b].status = "open" /\ seat' = [seat EXCEPT ![b].status = to]
      /\ UNCHANGED <<today, line, occ, run, editor>>
  BY DEF VisitMoves
<1>2. IsSequence(seat) /\ \A a \in DOMAIN seat : IsVisit(seat[a])
  BY DEF RunsInv, SeriesShape
<1>3. /\ DOMAIN seat' = DOMAIN seat /\ \A a \in DOMAIN seat \ {b} : seat'[a] = seat[a]
      /\ seat'[b] = [seat[b] EXCEPT !.status = to]
  BY <1>1
<1>4. \A a \in DOMAIN seat' : IsVisit(seat'[a])
  <2>1. IsVisit(seat'[b])
    <3>1. IsVisit(seat[b]) BY <1>2
    <3> QED BY <1>3, <3>1 DEF IsVisit
  <2> QED BY <1>2, <1>3, <2>1
<1>5. IsSequence(seat')
  <2>1. PICK k : k = seat'
    OBVIOUS
  <2>2. k = [a \in DOMAIN seat |-> k[a]]
    BY <1>1, <2>1
  <2> QED BY <1>2, <2>1, <2>2, Rewritten
<1>6. SeriesShape'
  BY <1>1, <1>4, <1>5 DEF RunsInv, SeriesShape
<1>7. BeforeTheSeries'
  BY <1>1, RowsNeedASeries DEF BeforeTheSeries
<1>8. \A r \in Runs : RunIsListed(r)'
  BY <1>1 DEF RunsInv, RunIsListed
<1>9. ReleasesWhatItClears
  <2>1. Blocking(seat[b])
    BY <1>1 DEF Blocking, CLOSED
  <2> QED BY <1>1, <1>3, <2>1 DEF ReleasesWhatItClears
<1> QED BY <1>6, <1>7, <1>8, <1>9 DEF RunsInv

\* Every step keeps the lists of the runs.
LEMMA RunsListedAlways == RunsInv /\ [Next]_vars => RunsInv'
<1> SUFFICES ASSUME RunsInv, [Next]_vars PROVE RunsInv'
  OBVIOUS
<1>1. CASE UNCHANGED <<today, seriesVars>>
  BY <1>1, OthersListRuns
<1>2. CASE SeriesStep
  <2>1. \A r \in Runs : RunOf(r) => RunsInv'
    BY LoadListsRuns, TopUpListsRuns, ListListsRuns, ReadListsRuns, WriteListsRuns,
       RestListsRuns DEF RunOf
  <2>2. ASSUME NEW b \in DOMAIN seat, NEW to, VisitMoves(b, to) PROVE RunsInv'
    BY <2>2, VisitListsRuns
  <2> QED BY <1>2, <2>1, <2>2, CreateListsRuns, OthersListRuns, RequestsListRuns,
             CancelClears, StatusClears, DetachClears, RewriteClears DEF SeriesStep
<1>3. RoutineStep \/ RosterStep \/ PartiesStep \/ UNCHANGED vars => UNCHANGED <<today, seriesVars>>
  BY DEF RoutineStep, RosterStep, PartiesStep, vars
<1> QED BY <1>1, <1>2, <1>3 DEF Next

\* Nothing runs at the start.
LEMMA RunsListedInitially == Init => RunsInv
<1> SUFFICES ASSUME Init PROVE RunsInv
  OBVIOUS
<1>1. SeriesInit
  BY DEF Init
<1>2. /\ IsSequence(occ) /\ DOMAIN occ = {}
      /\ IsSequence(seat) /\ DOMAIN seat = {}
  BY <1>1, NoRows DEF SeriesInit
<1>3. SeriesShape
  <2>1. ASSUME NEW r \in Runs
        PROVE  IsRun(run[r]) /\ run[r].day \in Int /\ run[r].pc = "idle"
    <3>1. run[r] = IdleRun
      BY <1>1 DEF SeriesInit
    <3> QED BY <3>1 DEF IdleRun, IsRun
  <2>2. IsEditor(editor) /\ editor.pc = "idle"
    BY <1>1 DEF SeriesInit, IdleDesk, IsEditor
  <2>3. /\ line = [status |-> line.status, def |-> line.def, start |-> line.start,
                   through |-> line.through]
        /\ line.status = "none" /\ today \in Int /\ DOMAIN run = Runs
    BY <1>1 DEF SeriesInit
  <2> QED BY <1>2, <2>1, <2>2, <2>3 DEF SeriesShape
<1>4. BeforeTheSeries
  BY <1>1 DEF SeriesInit, BeforeTheSeries, IdleDesk
<1>5. \A r \in Runs : RunIsListed(r)
  BY <1>1 DEF SeriesInit, RunIsListed, IdleRun
<1> QED BY <1>3, <1>4, <1>5 DEF RunsInv

\* For any number of runs side by side, and whatever is edited, paused,
\* skipped or booked by others meanwhile: a run that ends has decided every
\* visit it listed, however many of its writes were refused
\* (MaterialiseSeriesHandler.run() and attempt()).
THEOREM RunsDecide == Spec => []RunsConverge
<1>1. RunsInv => RunsConverge
  BY DEF RunsInv, RunIsListed, RunsConverge
<1> QED BY <1>1, RunsListedInitially, RunsListedAlways, PTL DEF Spec

\* Writes that no run makes.
LEMMA ClearedRowsLeaveNoVisit ==
    ASSUME RunsInv, TimelineInv, ReleasesWhatItClears, run' = run, scenario' = scenario
    PROVE  TimelineInv'
<1> SUFFICES ASSUME OneRun'
             PROVE  /\ \A r \in Runs : ~On(r)' => run'[r].work = {}
                    /\ \A r \in Runs : \A w \in run'[r].work : occ'[w.id].bk = 0
                    /\ VisitsAreOnTheTimeline'
  BY DEF TimelineInv
<1>1. OneRun /\ \A r \in Runs : On(r)' <=> On(r)
  BY DEF OneRun, On
<1>2. /\ \A r \in Runs : ~On(r) => run[r].work = {}
      /\ \A r \in Runs : \A w \in run[r].work : occ[w.id].bk = 0
      /\ VisitsAreOnTheTimeline
  BY <1>1 DEF TimelineInv
<1>3. \A r \in Runs : \A w \in run[r].work : w.id \in DOMAIN occ
  BY DEF RunsInv, RunIsListed
<1>4. \A r \in Runs : \A w \in run'[r].work : occ'[w.id].bk = 0
  BY <1>2, <1>3 DEF ReleasesWhatItClears
<1>5. ASSUME NEW b \in DOMAIN seat', Blocking(seat'[b]) PROVE \E o \in Kept' : occ'[o].bk = b
  <2>1. b \in DOMAIN seat /\ Blocking(seat[b])
    BY <1>5 DEF ReleasesWhatItClears
  <2>2. PICK o \in DOMAIN occ : occ[o].state # "gone" /\ occ[o].bk = b
    BY <1>2, <2>1 DEF VisitsAreOnTheTimeline, Kept
  <2>3. occ'[o].bk = b /\ occ'[o].state # "gone" /\ o \in DOMAIN occ'
    BY <1>5, <2>1, <2>2 DEF ReleasesWhatItClears
  <2> QED BY <2>3 DEF Kept
<1> QED BY <1>1, <1>2, <1>4, <1>5 DEF VisitsAreOnTheTimeline

\* The steps of a run that write no occurrence.
LEMMA ListingLeavesNoVisit ==
    ASSUME RunsInv, TimelineInv, NEW r \in Runs, On(r), scenario' = scenario, seat' = seat,
           DOMAIN occ \subseteq DOMAIN occ', \A o \in DOMAIN occ : occ'[o] = occ[o],
           \A q \in Runs \ {r} : run'[q] = run[q],
           \A w \in run'[r].work : w \in run[r].work \/ (w.id \in DOMAIN occ /\ occ[w.id].bk = 0)
    PROVE  TimelineInv'
<1> SUFFICES ASSUME OneRun'
             PROVE  /\ \A q \in Runs : ~On(q)' => run'[q].work = {}
                    /\ \A q \in Runs : \A w \in run'[q].work : occ'[w.id].bk = 0
                    /\ VisitsAreOnTheTimeline'
  BY DEF TimelineInv
<1>1. OneRun /\ \A q \in Runs : On(q)' <=> On(q)
  BY DEF OneRun, On
<1>2. /\ \A q \in Runs : ~On(q) => run[q].work = {}
      /\ \A q \in Runs : \A w \in run[q].work : occ[w.id].bk = 0
      /\ VisitsAreOnTheTimeline
  BY <1>1 DEF TimelineInv
<1>3. \A q \in Runs : \A w \in run[q].work : w.id \in DOMAIN occ
  BY DEF RunsInv, RunIsListed
<1>4. ASSUME NEW q \in Runs, NEW w \in run'[q].work PROVE occ'[w.id].bk = 0
  BY <1>2, <1>3
<1>5. VisitsAreOnTheTimeline'
  BY <1>2 DEF VisitsAreOnTheTimeline, Kept
<1> QED BY <1>1, <1>2, <1>4, <1>5

\* A write of the one run: the rows it listed have no booking to lose.
LEMMA DecidingLeavesNoVisit ==
    ASSUME RunsInv, TimelineInv, NEW r \in Runs, On(r), scenario' = scenario,
           NEW o \in run[r].work, o.id \in DOMAIN occ, DOMAIN occ' = DOMAIN occ,
           \A i \in DOMAIN occ \ {o.id} : occ'[i] = occ[i],
           run'[r].work = run[r].work \ {o}, \A q \in Runs \ {r} : run'[q] = run[q],
           DOMAIN seat \subseteq DOMAIN seat', 0 \notin DOMAIN seat,
           \A b \in DOMAIN seat : seat'[b] = seat[b],
           \A b \in DOMAIN seat' \ DOMAIN seat : occ'[o.id].bk = b /\ occ'[o.id].state # "gone"
    PROVE  TimelineInv'
<1> SUFFICES ASSUME OneRun'
             PROVE  /\ \A q \in Runs : ~On(q)' => run'[q].work = {}
                    /\ \A q \in Runs : \A w \in run'[q].work : occ'[w.id].bk = 0
                    /\ VisitsAreOnTheTimeline'
  BY DEF TimelineInv
<1>1. OneRun /\ \A q \in Runs : On(q)' <=> On(q)
  BY DEF OneRun, On
<1>2. /\ \A q \in Runs : ~On(q) => run[q].work = {}
      /\ \A q \in Runs : \A w \in run[q].work : occ[w.id].bk = 0
      /\ VisitsAreOnTheTimeline
  BY <1>1 DEF TimelineInv
<1>3. /\ \A q \in Runs : \A w \in run[q].work : w.id \in DOMAIN occ
      /\ \A w, x \in run[r].work : w.id = x.id => w = x
  BY DEF RunsInv, RunIsListed
<1>4. ASSUME NEW q \in Runs, NEW w \in run'[q].work PROVE occ'[w.id].bk = 0
  <2>1. CASE q = r
    <3>1. w \in run[r].work /\ w # o BY <2>1
    <3>2. w.id \in DOMAIN occ \ {o.id} BY <1>3, <3>1
    <3> QED BY <1>2, <3>1, <3>2
  <2>2. CASE q # r
    BY <1>1, <1>2, <2>2 DEF OneRun
  <2> QED BY <2>1, <2>2
<1>5. ASSUME NEW q \in Runs, ~On(q) PROVE run'[q].work = {}
  BY <1>2, <1>5
<1>6. ASSUME NEW b \in DOMAIN seat', Blocking(seat'[b]) PROVE \E i \in Kept' : occ'[i].bk = b
  <2>1. CASE b \in DOMAIN seat
    <3>1. PICK i \in DOMAIN occ : occ[i].state # "gone" /\ occ[i].bk = b
      BY <1>2, <1>6, <2>1 DEF VisitsAreOnTheTimeline, Kept
    <3>2. i # o.id
      BY <1>2, <2>1, <3>1
    <3> QED BY <3>1, <3>2 DEF Kept
  <2>2. CASE b \notin DOMAIN seat
    BY <2>2 DEF Kept
  <2> QED BY <2>1, <2>2
<1> QED BY <1>1, <1>4, <1>5, <1>6 DEF VisitsAreOnTheTimeline

\* A write of the one run of a branch takes no visit off the timeline.
LEMMA WriteLeavesNoVisit ==
    ASSUME RunsInv, TimelineInv, NEW r \in Runs, On(r), RunWrite(r), scenario' = scenario
    PROVE  TimelineInv'
<1>1. PICK o \in run[r].work : \/ \E alts : NeedsAttention(r, o, alts)
                               \/ \E c : Raced(r, o, c) \/ Materialise(r, o, c)
  BY WriteIsOneOf
<1>2. run[r].pc = "write" /\ UNCHANGED <<today, line, editor>>
  BY DEF RunWrite
<1>3. /\ IsRun(run[r]) /\ DOMAIN run = Runs /\ RunIsListed(r)
      /\ IsSequence(seat) /\ \A i \in DOMAIN occ : IsRow(occ[i])
  BY DEF RunsInv, SeriesShape
<1>4. o.id \in DOMAIN occ /\ IsRow(occ[o.id])
  BY <1>3 DEF RunIsListed
<1>5. ASSUME NEW row, occ' = [occ EXCEPT ![o.id] = row], run' = [run EXCEPT ![r] = Onward(r, o)]
      PROVE  /\ DOMAIN occ' = DOMAIN occ /\ occ'[o.id] = row
             /\ \A i \in DOMAIN occ \ {o.id} : occ'[i] = occ[i]
             /\ run'[r].work = run[r].work \ {o} /\ \A q \in Runs \ {r} : run'[q] = run[q]
  <2>1. run'[r] = Onward(r, o) /\ \A q \in Runs \ {r} : run'[q] = run[q]
    BY <1>3, <1>5
  <2>2. Onward(r, o).work = run[r].work \ {o}
    BY <1>3 DEF Onward, IsRun
  <2> QED BY <1>4, <1>5, <2>1, <2>2
<1>6. 0 \notin DOMAIN seat
  BY <1>3, Appended, Zenon
<1>7. ASSUME NEW alts, NeedsAttention(r, o, alts) PROVE TimelineInv'
  <2>1. PICK row : row = [occ[o.id] EXCEPT !.state = "needs_attention", !.bk = 0, !.alts = alts]
    OBVIOUS
  <2>2. /\ occ' = [occ EXCEPT ![o.id] = row] /\ run' = [run EXCEPT ![r] = Onward(r, o)]
        /\ seat' = seat
    BY <1>4, <1>7, <2>1 DEF NeedsAttention
  <2>3. /\ DOMAIN occ' = DOMAIN occ /\ occ'[o.id] = row
        /\ \A i \in DOMAIN occ \ {o.id} : occ'[i] = occ[i]
        /\ run'[r].work = run[r].work \ {o} /\ \A q \in Runs \ {r} : run'[q] = run[q]
    BY <1>5, <2>2
  <2> QED BY <1>4, <1>6, <2>2, <2>3, DecidingLeavesNoVisit
<1>8. ASSUME NEW c, Raced(r, o, c) PROVE TimelineInv'
  <2>1. UNCHANGED <<occ, seat>> /\ run' = [run EXCEPT ![r].rejected = @ \cup {c}]
    BY <1>8 DEF Raced
  <2>2. run'[r].work = run[r].work /\ \A q \in Runs \ {r} : run'[q] = run[q]
    BY <1>3, <2>1 DEF IsRun
  <2> QED BY <2>1, <2>2, ListingLeavesNoVisit
<1>9. ASSUME NEW c, Materialise(r, o, c) PROVE TimelineInv'
  <2>1. PICK row : row = [occ[o.id] EXCEPT !.state = "materialised", !.bk = Len(seat) + 1,
                                            !.day = o.day, !.start = c.start, !.alts = {}]
    OBVIOUS
  <2>2. PICK e : e = [day |-> o.day, start |-> c.start, staff |-> c.staff, status |-> "open"]
    OBVIOUS
  <2>3. /\ occ' = [occ EXCEPT ![o.id] = row] /\ run' = [run EXCEPT ![r] = Onward(r, o)]
        /\ seat' = Append(seat, e)
    BY <1>4, <1>9, <2>1, <2>2 DEF Materialise
  <2>4. row.bk = Len(seat) + 1 /\ row.state # "gone"
    BY <1>4, <2>1 DEF IsRow
  <2>5. /\ DOMAIN occ' = DOMAIN occ /\ occ'[o.id] = row
        /\ \A i \in DOMAIN occ \ {o.id} : occ'[i] = occ[i]
        /\ run'[r].work = run[r].work \ {o} /\ \A q \in Runs \ {r} : run'[q] = run[q]
    BY <1>5, <2>3
  <2>6. /\ DOMAIN seat' = DOMAIN seat \cup {Len(seat) + 1}
        /\ \A i \in DOMAIN seat : seat'[i] = seat[i]
    <3>1. PICK k : /\ k = Append(seat, e)
                   /\ DOMAIN k = DOMAIN seat \cup {Len(seat) + 1}
                   /\ \A i \in DOMAIN seat : k[i] = seat[i]
      BY <1>3, Appended, Zenon
    <3> QED BY <2>3, <3>1, Zenon
  <2>7. \A b \in DOMAIN seat' \ DOMAIN seat : occ'[o.id].bk = b /\ occ'[o.id].state # "gone"
    BY <2>4, <2>5, <2>6
  <2> QED BY <1>4, <1>6, <2>5, <2>6, <2>7, DecidingLeavesNoVisit
<1> QED BY <1>1, <1>7, <1>8, <1>9

\* Nor does any other step of it.
LEMMA RunLeavesNoVisit ==
    ASSUME RunsInv, TimelineInv, NEW r \in Runs, On(r), RunOf(r), scenario' = scenario
    PROVE  TimelineInv'
<1>1. IsRun(run[r]) /\ DOMAIN run = Runs
  BY DEF RunsInv, SeriesShape
<1>2. CASE RunLoad(r) \/ RunThrows(r) \/ RunEnds(r)
  <2>1. PICK new : run' = [run EXCEPT ![r] = new] /\ new.work = {}
    <3>1. IdleRun.work = {}
      BY DEF IdleRun
    <3>2. CASE RunLoad(r)
      <4>1. PICK new : new = [IdleRun EXCEPT !.pc = "topUp", !.day = today,
                                             !.def = <<line.def, line.start>>]
        OBVIOUS
      <4>2. run' = [run EXCEPT ![r] = new] /\ new.work = {}
        BY <3>2, <4>1 DEF RunLoad, IdleRun
      <4> QED BY <4>2
    <3> QED BY <1>2, <3>1, <3>2 DEF RunThrows, RunEnds
  <2>2. UNCHANGED <<occ, seat>>
    BY <1>2 DEF RunLoad, RunThrows, RunEnds
  <2>3. run'[r].work = {} /\ \A q \in Runs \ {r} : run'[q] = run[q]
    BY <1>1, <2>1
  <2> QED BY <2>2, <2>3, ListingLeavesNoVisit
<1>3. CASE RunTopUp(r)
  <2>1. DOMAIN occ \subseteq DOMAIN occ' /\ \A o \in DOMAIN occ : occ'[o] = occ[o]
    BY <1>3, TopUpListsRuns
  <2>2. seat' = seat /\ run' = [run EXCEPT ![r].pc = "list"]
    BY <1>3 DEF RunTopUp
  <2>3. run'[r].work = run[r].work /\ \A q \in Runs \ {r} : run'[q] = run[q]
    BY <1>1, <2>2 DEF IsRun
  <2> QED BY <2>1, <2>2, <2>3, ListingLeavesNoVisit
<1>4. CASE RunList(r)
  <2>1. PICK found : found = {o \in DOMAIN occ : /\ occ[o].state = "planned"
                                               /\ occ[o].day <= run[r].day + BookingHorizon}
    OBVIOUS
  <2>2. PICK new : new = [run[r] EXCEPT !.pc = IF found = {} THEN "done" ELSE "read",
                                 !.work = {Listed(o) : o \in found}, !.considered = found]
    OBVIOUS
  <2>3. UNCHANGED <<occ, seat>> /\ run' = [run EXCEPT ![r] = new]
    BY <1>1, <1>4, <2>1, <2>2 DEF RunList
  <2>4. new.work = {Listed(o) : o \in found}
    BY <1>1, <2>2 DEF IsRun
  <2>5. \A o \in found : Listed(o).id = o /\ o \in DOMAIN occ /\ occ[o].bk = 0
    BY <2>1 DEF Listed, RunsInv, SeriesShape, IsRow
  <2>6. /\ \A w \in run'[r].work : w.id \in DOMAIN occ /\ occ[w.id].bk = 0
        /\ \A q \in Runs \ {r} : run'[q] = run[q]
    BY <1>1, <2>3, <2>4, <2>5
  <2> QED BY <2>3, <2>6, ListingLeavesNoVisit
<1>5. CASE RunRead(r)
  <2>1. PICK found : run' = [run EXCEPT ![r] = [@ EXCEPT !.pc = "write", !.found = found, !.rejected = {}]]
    BY <1>5 DEF RunRead
  <2>2. UNCHANGED <<occ, seat>>
    BY <1>5 DEF RunRead
  <2>3. run'[r].work = run[r].work /\ \A q \in Runs \ {r} : run'[q] = run[q]
    BY <1>1, <2>1 DEF IsRun
  <2> QED BY <2>2, <2>3, ListingLeavesNoVisit
<1>6. CASE RunWrite(r)
  BY <1>6, WriteLeavesNoVisit
<1> QED BY <1>2, <1>3, <1>4, <1>5, <1>6 DEF RunOf

\* Nor does anybody else.
LEMMA NobodyLeavesAVisit == RunsInv /\ TimelineInv /\ [Next]_vars => TimelineInv'
<1> SUFFICES ASSUME RunsInv, TimelineInv, [Next]_vars PROVE TimelineInv'
  OBVIOUS
<1>1. scenario' = scenario
  BY DEF Next, vars
<1>2. ASSUME UNCHANGED <<occ, seat>> PROVE ReleasesWhatItClears
  BY <1>2 DEF ReleasesWhatItClears
<1>3. CASE UNCHANGED <<today, seriesVars>>
  BY <1>1, <1>2, <1>3, ClearedRowsLeaveNoVisit DEF seriesVars
<1>4. CASE SeriesStep
  <2>1. ASSUME CreateSeries PROVE TimelineInv'
    <3>1. DOMAIN seat' = {} /\ \A r \in Runs : run'[r].work = {}
      <4>1. UNCHANGED <<seat, run>> /\ seat = <<>> /\ \A r \in Runs : run[r] = IdleRun
        BY <2>1, CreateListsRuns DEF CreateSeries
      <4>2. DOMAIN seat = {}
        BY <4>1, NoRows
      <4> QED BY <4>1, <4>2 DEF IdleRun
    <3> QED BY <3>1 DEF TimelineInv, VisitsAreOnTheTimeline
  <2>2. ASSUME RivalBooks \/ DayPasses PROVE TimelineInv'
    BY <1>1, <1>2, <2>2, OthersListRuns, ClearedRowsLeaveNoVisit
  <2>3. ASSUME \/ \E to \in {"paused", "ended"} : PauseOrEnd(to)
               \/ \E o \in DOMAIN occ : Skip(o)
               \/ Resume
               \/ \E scope, o, p : ApplyPattern(scope, o, p)
        PROVE  TimelineInv'
    <3>1. UNCHANGED <<occ, seat, run>>
      BY <2>3 DEF PauseOrEnd, Skip, Resume, ApplyPattern
    <3> QED BY <1>1, <1>2, <3>1, ClearedRowsLeaveNoVisit
  <2>4. ASSUME CancelOccurrences \/ SetStatus \/ DetachOccurrence \/ RewritePattern
        PROVE  TimelineInv'
    <3>1. ReleasesWhatItClears
      BY <2>4, CancelClears, StatusClears, DetachClears, RewriteClears
    <3>2. run' = run
      BY <2>4 DEF CancelOccurrences, SetStatus, DetachOccurrence, RewritePattern
    <3> QED BY <1>1, <3>1, <3>2, ClearedRowsLeaveNoVisit
  <2>5. ASSUME NEW b \in DOMAIN seat, NEW to, VisitMoves(b, to) PROVE TimelineInv'
    <3>1. ReleasesWhatItClears /\ run' = run
      BY <2>5, VisitListsRuns DEF VisitMoves
    <3> QED BY <1>1, <3>1, ClearedRowsLeaveNoVisit
  <2>6. ASSUME NEW r \in Runs, On(r), RunOf(r) PROVE TimelineInv'
    BY <1>1, <2>6, RunLeavesNoVisit
  <2> QED BY <1>4, <2>1, <2>2, <2>3, <2>4, <2>5, <2>6 DEF SeriesStep
<1>5. RoutineStep \/ RosterStep \/ PartiesStep \/ UNCHANGED vars => UNCHANGED <<today, seriesVars>>
  BY DEF RoutineStep, RosterStep, PartiesStep, vars
<1> QED BY <1>3, <1>4, <1>5 DEF Next

\* However long the series lives, whatever the desk pauses, skips, edits or
\* ends in the middle of a run, and whatever others book: as long as a branch
\* has one run at a time, no booking in the diary is off the panel
\* (materialise(), cancelOccurrences(), rewritePattern()).
THEOREM VisitsStayOnTheTimeline == Spec => [](OneRun => VisitsAreOnTheTimeline)
<1>1. Init => TimelineInv
  <2> SUFFICES ASSUME Init PROVE TimelineInv
    OBVIOUS
  <2>1. SeriesInit
    BY DEF Init
  <2>2. DOMAIN seat = {} /\ \A r \in Runs : run[r].work = {}
    BY <2>1, NoRows DEF SeriesInit, IdleRun
  <2> QED BY <2>2 DEF TimelineInv, VisitsAreOnTheTimeline
<1>2. TimelineInv => (OneRun => VisitsAreOnTheTimeline)
  BY DEF TimelineInv
<1> QED BY <1>1, <1>2, RunsListedInitially, RunsListedAlways, NobodyLeavesAVisit, PTL DEF Spec

-----------------------------------------------------------------------------
(* Routines *)

\* The fields of a hand.
HandFields == {"pc", "kind", "days", "ids", "todo", "made", "keep", "drop", "due", "after"}
\* What a request or a job has made or is to give back.
HeldBy(h) == {m[2] : m \in h.made} \cup h.drop

\* A request or a job about to book: every booking it made stands for one of its days.
BookFits(h, ss, vv, st) ==
    /\ h.keep = {} /\ DOMAIN h.days \subseteq Nat /\ h.todo \subseteq DOMAIN h.days
    /\ \A m \in h.made : m[1] \in DOMAIN h.days \ h.todo /\ vv[m[2]].day = h.days[m[1]]
    /\ \A m, n \in h.made : m[1] = n[1] \/ m[2] = n[2] => m = n
    /\ \/ /\ h.kind = "create" /\ st = "none"
          /\ \A k, l \in DOMAIN h.days : k # l => h.days[k] # h.days[l]
       \/ /\ h.kind = "link"
          /\ \E s \in DOMAIN ss : h.ids = <<s>> /\ h.days = <<ss[s].day>>

\* What a job is about to release is what its sessions have.
KeepFits(h, ss) ==
    \A m \in h.keep : /\ m[1] \in DOMAIN ss /\ m = <<m[1], ss[m[1]].bk>>
                      /\ ss[m[1]].bk # 0

\* The booking to be taken from a session stands no longer.
UnlinkFits(h, ss, vv) ==
    \E s \in DOMAIN ss : /\ h.ids = <<s>> /\ ss[s].bk # 0 /\ vv[ss[s].bk].status # "booked"
                         /\ \A m \in h.keep : m[1] # s

\* The phases there are while the customer changes nothing.
JobPhases == {"idle", "book", "release", "facts", "complete", "pause", "drop", "unlink", "far"}
Releasing(h) == h.pc \in {"drop", "unlink"}

\* What a request or a job has in hand: no session has it yet.
HandOk(h, ss, vv, st) ==
    /\ HandFields \subseteq DOMAIN h /\ h.pc \in JobPhases
    /\ h.made # {} => h.pc = "book"
    /\ h.drop # {} => h.pc = "release"
    /\ \A v \in HeldBy(h) : v \in DOMAIN vv /\ \A s \in DOMAIN ss : ss[s].bk # v
    /\ h.due \subseteq DOMAIN ss
    /\ h.pc = "far" => h.due # {}
    /\ h.pc = "book" => BookFits(h, ss, vv, st)
    /\ (h.pc = "pause" /\ st = "active") \/ Releasing(h) => KeepFits(h, ss)
    /\ h.pc = "drop" => h.keep # {}
    /\ h.pc = "unlink" => UnlinkFits(h, ss, vv)

\* Bookings are added and called off, never moved or revived.
VisitsGrow(vv, ww) ==
    \A v \in DOMAIN vv : /\ v \in DOMAIN ww /\ ww[v].day = vv[v].day
                         /\ ww[v].status = "booked" => vv[v].status = "booked"

\* The rows others may change under a hand.
RowsMove(h, ss, tt, st) ==
    /\ DOMAIN tt = DOMAIN ss
    /\ \A s \in DOMAIN ss :
         /\ tt[s].day = ss[s].day
         /\ \/ tt[s].bk = ss[s].bk
            \/ ss[s].bk = 0 /\ tt[s].bk \notin HeldBy(h)
            \/ tt[s].bk = 0 /\ st # "active" /\ ~Releasing(h)

\* A routine that is no longer active never becomes so again.
StatusMoves(st, tu) == tu = st \/ (st # "none" /\ tu \notin {"none", "active"})

\* What a request or a job has in hand stays right while others step.
LEMMA HandKept ==
    ASSUME NEW h, NEW ss, NEW tt, NEW vv, NEW ww, NEW st, NEW tu,
           HandOk(h, ss, vv, st), VisitsGrow(vv, ww), RowsMove(h, ss, tt, st), StatusMoves(st, tu),
           0 \notin DOMAIN vv,
           \A s \in DOMAIN ss : ss[s].bk \in {0} \cup DOMAIN vv
    PROVE  HandOk(h, tt, ww, tu)
<1>1. \A v \in HeldBy(h) : v \in DOMAIN ww /\ \A s \in DOMAIN tt : tt[s].bk # v
  BY DEF HandOk, VisitsGrow, RowsMove
<1>2. h.pc = "book" => BookFits(h, tt, ww, tu)
  <2> SUFFICES ASSUME h.pc = "book" PROVE BookFits(h, tt, ww, tu)
    OBVIOUS
  <2>1. BookFits(h, ss, vv, st)
    BY DEF HandOk
  <2>2. \A m \in h.made : m[2] \in DOMAIN vv
    BY DEF HandOk, HeldBy
  <2>3. \A m \in h.made : m[1] \in DOMAIN h.days \ h.todo /\ ww[m[2]].day = h.days[m[1]]
    BY <2>1, <2>2 DEF BookFits, VisitsGrow
  <2>4. \/ /\ h.kind = "create" /\ tu = "none"
           /\ \A k, l \in DOMAIN h.days : k # l => h.days[k] # h.days[l]
        \/ /\ h.kind = "link"
           /\ \E s \in DOMAIN tt : h.ids = <<s>> /\ h.days = <<tt[s].day>>
    BY <2>1 DEF BookFits, RowsMove, StatusMoves
  <2> QED BY <2>1, <2>3, <2>4 DEF BookFits
<1>3. (h.pc = "pause" /\ tu = "active") \/ Releasing(h) => KeepFits(h, tt)
  <2> SUFFICES ASSUME (h.pc = "pause" /\ tu = "active") \/ Releasing(h), NEW m \in h.keep
               PROVE  m[1] \in DOMAIN tt /\ m = <<m[1], tt[m[1]].bk>> /\ tt[m[1]].bk # 0
    BY Zenon DEF KeepFits
  <2>1. (h.pc = "pause" /\ st = "active") \/ Releasing(h)
    BY DEF StatusMoves
  <2>2. m[1] \in DOMAIN ss /\ m = <<m[1], ss[m[1]].bk>> /\ ss[m[1]].bk # 0
    BY <2>1, Zenon DEF HandOk, KeepFits
  <2>3. tt[m[1]].bk = ss[m[1]].bk /\ m[1] \in DOMAIN tt
    BY <2>1, <2>2 DEF RowsMove
  <2> QED BY <2>2, <2>3, Zenon
<1>4. h.pc = "unlink" => UnlinkFits(h, tt, ww)
  <2> SUFFICES ASSUME h.pc = "unlink" PROVE UnlinkFits(h, tt, ww)
    OBVIOUS
  <2>1. PICK s \in DOMAIN ss : /\ h.ids = <<s>> /\ ss[s].bk # 0 /\ vv[ss[s].bk].status # "booked"
                               /\ \A m \in h.keep : m[1] # s
    BY DEF HandOk, UnlinkFits
  <2>2. s \in DOMAIN tt /\ tt[s].bk = ss[s].bk
    BY <2>1 DEF RowsMove, Releasing
  <2>3. ww[tt[s].bk].status # "booked"
    BY <2>1, <2>2 DEF VisitsGrow
  <2> QED BY <2>1, <2>2, <2>3 DEF UnlinkFits
<1>5. h.due \subseteq DOMAIN tt
  BY DEF HandOk, RowsMove
<1> QED BY <1>1, <1>2, <1>3, <1>4, <1>5, Zenon DEF HandOk

-----------------------------------------------------------------------------
\* The rows of a routine nobody resumes.
RoutineShape ==
    /\ {"status", "until"} \subseteq DOMAIN rt /\ rt.until = 0
    /\ IsSequence(rv) /\ 0 \notin DOMAIN rv
    /\ \A v \in DOMAIN rv : {"day", "status"} \subseteq DOMAIN rv[v]
    /\ DOMAIN sess \subseteq Nat
    /\ \A s \in DOMAIN sess : /\ {"day", "bk", "state"} \subseteq DOMAIN sess[s]
                              /\ sess[s].bk \in {0} \cup DOMAIN rv
    /\ DOMAIN proc = Procs

\* Every hand is right,
HandsFit == \A p \in Procs : HandOk(proc[p], sess, rv, rt.status)

\* and no booking is in two hands.
HandsApart == \A p, q \in Procs : p # q => HeldBy(proc[p]) \cap HeldBy(proc[q]) = {}

\* A session has a booking of its own, on its own day.
SessionsApart ==
    /\ \A s, u \in DOMAIN sess : s # u => /\ sess[s].day # sess[u].day
                                          /\ sess[s].bk = sess[u].bk => sess[s].bk = 0
    /\ \A s \in DOMAIN sess : sess[s].bk # 0 => rv[sess[s].bk].day = sess[s].day

\* Every booking that stands is a session's or in a hand.
VisitsHaveOwners ==
    \A v \in DOMAIN rv : rv[v].status = "booked" =>
      \/ \E s \in DOMAIN sess : sess[s].bk = v
      \/ \E p \in Procs : v \in HeldBy(proc[p])

\* Before there is a routine one request at most is under way.
OneCreates ==
    rt.status = "none" =>
      /\ DOMAIN sess = {}
      /\ \A p \in Procs : proc[p].pc # "idle" => p \in Apps
      /\ \A p, q \in Procs : proc[p].pc # "idle" /\ proc[q].pc # "idle" => p = q

\* A routine that missed visits paused is never active again: one job releases.
OneReleases ==
    /\ \A p \in Procs : Releasing(proc[p]) => rt.status # "active"
    /\ \A p, q \in Procs : Releasing(proc[p]) /\ Releasing(proc[q]) => p = q

\* The invariant of JobsNeverBookTwice.
JobsInv ==
    /\ RoutineShape /\ HandsFit /\ HandsApart /\ SessionsApart /\ VisitsHaveOwners
    /\ OneCreates /\ OneReleases

\* The rows the owner of a hand may change itself: it links a booking it
\* held, or takes off one that no longer stands.
LinksMove(g, h, ss, tt, ww, st) ==
    /\ DOMAIN tt = DOMAIN ss
    /\ \A s \in DOMAIN ss :
         /\ {"day", "bk", "state"} \subseteq DOMAIN tt[s]
         /\ tt[s].day = ss[s].day
         /\ \/ tt[s].bk = ss[s].bk
            \/ /\ ss[s].bk = 0 /\ tt[s].bk \in HeldBy(g) \ HeldBy(h)
               /\ ww[tt[s].bk].day = ss[s].day
            \/ tt[s].bk = 0 /\ ww[ss[s].bk].status # "booked" /\ st # "active" /\ Releasing(g)
    /\ \A s, u \in DOMAIN ss : tt[s].bk # ss[s].bk /\ tt[u].bk # ss[u].bk => s = u

\* A step of p alone, which leaves h in its hand.
OnlyMoves(p, h) ==
    DOMAIN proc' = Procs /\ proc'[p] = h /\ \A q \in Procs : q # p => proc'[q] = proc[q]

\* What one request or job may do in one step.
HandMoves(p, h) ==
    /\ p \in Procs /\ OnlyMoves(p, h)
    /\ HandOk(h, sess', rv', rt'.status)
    /\ {"status", "until"} \subseteq DOMAIN rt' /\ rt'.until = 0 /\ StatusMoves(rt.status, rt'.status)
    /\ IsSequence(rv') /\ 0 \notin DOMAIN rv' /\ VisitsGrow(rv, rv')
    /\ \A v \in DOMAIN rv' : {"day", "status"} \subseteq DOMAIN rv'[v]
    /\ DOMAIN rv' \subseteq DOMAIN rv \cup HeldBy(h)
    /\ HeldBy(h) \subseteq HeldBy(proc[p]) \cup (DOMAIN rv' \ DOMAIN rv)
    /\ \A v \in HeldBy(proc[p]) \ HeldBy(h) :
         rv'[v].status # "booked" \/ \E s \in DOMAIN sess : sess'[s].bk = v
    /\ LinksMove(proc[p], h, sess, sess', rv', rt.status)
    /\ Releasing(h) => \/ Releasing(proc[p])
                       \/ rt.status = "active" /\ rt'.status # "active"
    /\ rt.status = "none" => \/ proc[p].pc # "idle"
                             \/ p \in Apps /\ \A q \in Procs : proc[q].pc = "idle"

\* A step of one request or job of the allowed kind keeps the invariant:
\* the one place where the hands of all the others are looked at.
LEMMA HandsMove ==
    ASSUME JobsInv, NEW p, NEW h, HandMoves(p, h)
    PROVE  JobsInv'
<1>1. /\ p \in Procs /\ DOMAIN proc' = Procs /\ proc'[p] = h
      /\ \A q \in Procs : q # p => proc'[q] = proc[q]
  BY DEF HandMoves, OnlyMoves
<1>2. /\ 0 \notin DOMAIN rv /\ \A s \in DOMAIN sess : sess[s].bk \in {0} \cup DOMAIN rv
  BY DEF JobsInv, RoutineShape
<1>3. VisitsGrow(rv, rv') /\ StatusMoves(rt.status, rt'.status)
  BY DEF HandMoves
<1>4. HandOk(proc[p], sess, rv, rt.status) /\ HandOk(h, sess', rv', rt'.status)
  BY DEF JobsInv, HandsFit, HandMoves
<1>5. /\ DOMAIN sess' = DOMAIN sess
      /\ \A s \in DOMAIN sess : /\ {"day", "bk", "state"} \subseteq DOMAIN sess'[s]
                                /\ sess'[s].day = sess[s].day
  BY DEF HandMoves, LinksMove
<1>6. \A s \in DOMAIN sess :
        \/ sess'[s].bk = sess[s].bk
        \/ /\ sess[s].bk = 0 /\ sess'[s].bk \in HeldBy(proc[p]) \ HeldBy(h)
           /\ rv'[sess'[s].bk].day = sess[s].day
        \/ /\ sess'[s].bk = 0 /\ rv'[sess[s].bk].status # "booked" /\ rt.status # "active"
           /\ Releasing(proc[p])
  BY DEF HandMoves, LinksMove
<1>7. \A v \in HeldBy(proc[p]) : v \in DOMAIN rv /\ \A s \in DOMAIN sess : sess[s].bk # v
  BY <1>4 DEF HandOk
<1>8. HeldBy(h) \subseteq HeldBy(proc[p]) \cup (DOMAIN rv' \ DOMAIN rv)
  BY DEF HandMoves
<1>9. DOMAIN rv \subseteq DOMAIN rv'
  BY <1>3 DEF VisitsGrow
<1>10. ASSUME NEW q \in Procs, q # p
       PROVE  /\ HeldBy(proc[q]) \cap HeldBy(proc[p]) = {}
              /\ HandOk(proc[q], sess, rv, rt.status)
  BY <1>1, <1>10 DEF JobsInv, HandsApart, HandsFit
<1>11. RoutineShape'
  <2>1. \A s \in DOMAIN sess : sess'[s].bk \in {0} \cup DOMAIN rv'
    BY <1>2, <1>6, <1>7, <1>9
  <2> QED BY <2>1, <1>1, <1>5 DEF HandMoves, JobsInv, RoutineShape
<1>12. HandsFit'
  <2> SUFFICES ASSUME NEW q \in Procs, q # p PROVE HandOk(proc[q], sess', rv', rt'.status)
    BY <1>1, <1>4 DEF HandsFit
  <2>1. \A s \in DOMAIN sess :
          \/ sess'[s].bk = sess[s].bk
          \/ sess[s].bk = 0 /\ sess'[s].bk \notin HeldBy(proc[q])
          \/ sess'[s].bk = 0 /\ rt.status # "active" /\ ~Releasing(proc[q])
    <3>1. Releasing(proc[p]) => ~Releasing(proc[q])
      BY <1>1 DEF JobsInv, OneReleases
    <3> QED BY <3>1, <1>6, <1>10
  <2>2. RowsMove(proc[q], sess, sess', rt.status)
    BY <2>1, <1>5 DEF RowsMove
  <2> QED BY <2>2, <1>2, <1>3, <1>10, HandKept
<1>13. HandsApart'
  <2>1. ASSUME NEW q \in Procs, q # p PROVE HeldBy(proc[q]) \cap HeldBy(h) = {}
    <3>1. HeldBy(proc[q]) \subseteq DOMAIN rv
      BY <1>10, <2>1 DEF HandOk
    <3> QED BY <3>1, <2>1, <1>8, <1>10
  <2> SUFFICES ASSUME NEW q \in Procs, NEW r \in Procs, q # r
               PROVE  HeldBy(proc'[q]) \cap HeldBy(proc'[r]) = {}
    BY Zenon DEF HandsApart, HeldBy
  <2>2. CASE q = p
    BY <2>1, <2>2, <1>1
  <2>3. CASE r = p
    BY <2>1, <2>3, <1>1
  <2>4. CASE q # p /\ r # p
    <3>1. HeldBy(proc[q]) \cap HeldBy(proc[r]) = {}
      BY DEF JobsInv, HandsApart
    <3> QED BY <3>1, <2>4, <1>1
  <2> QED BY <2>2, <2>3, <2>4
<1>14. SessionsApart'
  <2>1. \A s, u \in DOMAIN sess : s # u => /\ sess[s].day # sess[u].day
                                           /\ sess[s].bk = sess[u].bk => sess[s].bk = 0
    BY DEF JobsInv, SessionsApart
  <2>2. \A s \in DOMAIN sess : sess[s].bk # 0 => rv[sess[s].bk].day = sess[s].day
    BY DEF JobsInv, SessionsApart
  <2>3. \A s, u \in DOMAIN sess : sess'[s].bk # sess[s].bk /\ sess'[u].bk # sess[u].bk => s = u
    BY DEF HandMoves, LinksMove
  <2>4. ASSUME NEW s \in DOMAIN sess, NEW u \in DOMAIN sess, s # u,
               sess'[s].bk = sess'[u].bk
        PROVE  sess'[s].bk = 0
    BY <2>1, <2>3, <2>4, <1>6, <1>7
  <2>5. ASSUME NEW s \in DOMAIN sess, sess'[s].bk # 0
        PROVE  rv'[sess'[s].bk].day = sess'[s].day
    <3>1. CASE sess'[s].bk = sess[s].bk
      BY <3>1, <2>5, <2>2, <1>2, <1>3, <1>5 DEF VisitsGrow
    <3> QED BY <3>1, <2>5, <1>5, <1>6
  <2> QED BY <2>1, <2>4, <2>5, <1>5 DEF SessionsApart
<1>15. VisitsHaveOwners'
  <2> SUFFICES ASSUME NEW v \in DOMAIN rv', rv'[v].status = "booked"
               PROVE  \/ \E s \in DOMAIN sess' : sess'[s].bk = v
                      \/ \E q \in Procs : v \in HeldBy(proc'[q])
    BY Zenon DEF VisitsHaveOwners, HeldBy
  <2>1. CASE v \notin DOMAIN rv
    BY <2>1, <1>1 DEF HandMoves
  <2>2. CASE v \in DOMAIN rv
    <3>1. rv[v].status = "booked"
      BY <2>2, <1>3 DEF VisitsGrow
    <3>2. CASE \E s \in DOMAIN sess : sess[s].bk = v
      BY <3>2, <2>2, <1>2, <1>5, <1>6
    <3>3. CASE \E q \in Procs : v \in HeldBy(proc[q])
      <4>1. PICK q \in Procs : v \in HeldBy(proc[q])
        BY <3>3
      <4>2. CASE q = p /\ v \notin HeldBy(h)
        BY <4>1, <4>2, <1>5 DEF HandMoves
      <4> QED BY <4>1, <4>2, <1>1
    <3> QED BY <3>1, <3>2, <3>3, <2>2 DEF JobsInv, VisitsHaveOwners
  <2> QED BY <2>1, <2>2
<1>16. OneCreates'
  <2> SUFFICES ASSUME rt'.status = "none" PROVE OneCreates'
    BY DEF OneCreates
  <2>1. rt.status = "none"
    BY <1>3 DEF StatusMoves
  <2>2. /\ DOMAIN sess = {}
        /\ \A q \in Procs : proc[q].pc # "idle" => q \in Apps
        /\ \A q, r \in Procs : proc[q].pc # "idle" /\ proc[r].pc # "idle" => q = r
    BY <2>1 DEF JobsInv, OneCreates
  <2>3. proc[p].pc # "idle" \/ (p \in Apps /\ \A q \in Procs : proc[q].pc = "idle")
    BY <2>1 DEF HandMoves
  <2>4. \A q \in Procs : proc'[q].pc # "idle" => q \in Apps
    BY <2>2, <2>3, <1>1
  <2>5. ASSUME NEW q \in Procs, NEW r \in Procs, proc'[q].pc # "idle", proc'[r].pc # "idle"
        PROVE  q = r
    BY <2>2, <2>3, <2>5, <1>1
  <2> QED BY <2>2, <2>4, <2>5, <1>5 DEF OneCreates
<1>17. OneReleases'
  <2>1. \A q \in Procs : Releasing(proc[q]) => rt.status # "active"
    BY DEF JobsInv, OneReleases
  <2>2. \A q, r \in Procs : Releasing(proc[q]) /\ Releasing(proc[r]) => q = r
    BY DEF JobsInv, OneReleases
  <2>3. Releasing(h) => \/ Releasing(proc[p])
                        \/ rt.status = "active" /\ rt'.status # "active"
    BY DEF HandMoves
  <2>4. rt'.status = "active" => rt.status = "active"
    BY <1>3 DEF StatusMoves
  <2>5. \A q \in Procs : Releasing(proc'[q]) => rt'.status # "active"
    BY <2>1, <2>3, <2>4, <1>1
  <2>6. ASSUME NEW q \in Procs, NEW r \in Procs, Releasing(proc'[q]), Releasing(proc'[r])
        PROVE  q = r
    BY <2>1, <2>2, <2>3, <2>6, <1>1
  <2> QED BY <2>5, <2>6 DEF OneReleases, Releasing
<1> QED BY <1>11, <1>12, <1>13, <1>14, <1>15, <1>16, <1>17 DEF JobsInv

-----------------------------------------------------------------------------
\* Nothing happened but in one hand.
QuietMove(p, h) ==
    /\ p \in Procs /\ OnlyMoves(p, h) /\ UNCHANGED <<rt, sess, rv>>
    /\ HandOk(h, sess, rv, rt.status)
    /\ HeldBy(h) = HeldBy(proc[p])
    /\ Releasing(h) => Releasing(proc[p])
    /\ rt.status = "none" => \/ proc[p].pc # "idle"
                             \/ p \in Apps /\ \A q \in Procs : proc[q].pc = "idle"

\* A step that changes the hand alone.
LEMMA QuietMoves ==
    ASSUME JobsInv, NEW p, NEW h, QuietMove(p, h)
    PROVE  JobsInv'
<1>1. LinksMove(proc[p], h, sess, sess', rv', rt.status)
  BY DEF QuietMove, LinksMove, JobsInv, RoutineShape
<1>2. VisitsGrow(rv, rv')
  BY DEF QuietMove, VisitsGrow
<1>3. StatusMoves(rt.status, rt'.status)
  BY DEF QuietMove, StatusMoves
<1>4. HandOk(h, sess', rv', rt'.status)
  BY DEF QuietMove
<1>5. HandMoves(p, h)
  BY <1>1, <1>2, <1>3, <1>4 DEF HandMoves, QuietMove, JobsInv, RoutineShape
<1> QED BY <1>5, HandsMove

\* Nothing in hand.
LEMMA IdleFits ==
    ASSUME NEW ss, NEW vv, NEW st
    PROVE  HandOk(Idle, ss, vv, st) /\ HeldBy(Idle) = {} /\ ~Releasing(Idle)
BY DEF HandOk, Idle, HeldBy, HandFields, JobPhases, Releasing

\* A job that is to book far visits has nothing in hand yet.
LEMMA FarFits ==
    ASSUME NEW ss, NEW vv, NEW st, NEW D, D \subseteq DOMAIN ss, D # {}, NEW h,
           h = [Idle EXCEPT !.pc = "far", !.due = D]
    PROVE  HandOk(h, ss, vv, st) /\ HeldBy(h) = {} /\ ~Releasing(h)
BY DEF HandOk, Idle, HeldBy, HandFields, JobPhases, Releasing

\* Nor has one whose visit failed.
LEMMA AfterFailureFits ==
    ASSUME NEW ss, NEW vv, NEW st, NEW p, proc[p].due \subseteq DOMAIN ss
    PROVE  /\ HandOk(AfterFailure(p), ss, vv, st) /\ HeldBy(AfterFailure(p)) = {}
           /\ ~Releasing(AfterFailure(p))
<1>1. CASE proc[p].due = {}
  BY <1>1, IdleFits DEF AfterFailure
<1>2. CASE proc[p].due # {}
  <2>1. AfterFailure(p) = [Idle EXCEPT !.pc = "far", !.due = proc[p].due]
    BY <1>2 DEF AfterFailure
  <2> QED BY <2>1, <1>2, FarFits
<1> QED BY <1>1, <1>2

\* A request that fails has in hand what it made, to give it back.
LEMMA GivesBack ==
    ASSUME JobsInv, NEW p \in Procs, proc[p].pc = "book",
           proc' = [proc EXCEPT ![p] = GivingBack(p)], UNCHANGED <<rt, sess, rv>>
    PROVE  JobsInv'
<1>1. HandOk(proc[p], sess, rv, rt.status)
  BY DEF JobsInv, HandsFit
<1>2. proc[p].drop = {} /\ HeldBy(proc[p]) = Made(p) /\ proc[p].due \subseteq DOMAIN sess
  BY <1>1 DEF HandOk, HeldBy, Made
<1>3. PICK h : h = GivingBack(p) /\ OnlyMoves(p, h)
  BY DEF OnlyMoves, JobsInv, RoutineShape
<1>4. HandOk(AfterFailure(p), sess, rv, rt.status) /\ HeldBy(AfterFailure(p)) = {} /\ ~Releasing(AfterFailure(p))
  BY <1>2, AfterFailureFits
<1>5. CASE Made(p) = {}
  <2>1. h = AfterFailure(p)
    BY <1>3, <1>5 DEF GivingBack
  <2>2. QuietMove(p, h)
    BY <2>1, <1>2, <1>3, <1>4, <1>5 DEF QuietMove
  <2> QED BY <2>2, QuietMoves
<1>6. CASE Made(p) # {}
  <2>1. h = [AfterFailure(p) EXCEPT !.pc = "release", !.drop = Made(p)]
    BY <1>3, <1>6 DEF GivingBack
  <2>2. /\ HandFields \subseteq DOMAIN AfterFailure(p) /\ AfterFailure(p).made = {}
        /\ AfterFailure(p).due \subseteq DOMAIN sess
    BY <1>4 DEF HandOk, HeldBy, AfterFailure, Idle
  <2>3. /\ HandFields \subseteq DOMAIN h /\ h.made = {} /\ h.due \subseteq DOMAIN sess
        /\ h.pc = "release" /\ h.drop = Made(p)
    BY <2>1, <2>2 DEF HandFields
  <2>4. HeldBy(h) = Made(p)
    BY <2>3 DEF HeldBy
  <2>5. HandOk(h, sess, rv, rt.status) /\ ~Releasing(h)
    BY <2>3, <2>4, <1>1, <1>2 DEF HandOk, JobPhases, Releasing
  <2>6. QuietMove(p, h)
    BY <2>4, <2>5, <1>2, <1>3 DEF QuietMove
  <2> QED BY <2>6, QuietMoves
<1> QED BY <1>5, <1>6

\* A booking that is called off stands no longer, and every other as before.
LEMMA CallsOff ==
    ASSUME JobsInv, NEW b, NEW w, w = CalledOff(b)
    PROVE  /\ IsSequence(w) /\ DOMAIN w = DOMAIN rv /\ VisitsGrow(rv, w)
           /\ \A v \in DOMAIN w : {"day", "status"} \subseteq DOMAIN w[v]
           /\ b \in DOMAIN rv => w[b].status # "booked"
           /\ \A v \in DOMAIN rv : v # b => w[v] = rv[v]
<1>1. /\ IsSequence(rv) /\ \A v \in DOMAIN rv : {"day", "status"} \subseteq DOMAIN rv[v]
  BY DEF JobsInv, RoutineShape
<1>2. /\ DOMAIN w = DOMAIN rv /\ w = [v \in DOMAIN rv |-> w[v]]
      /\ \A v \in DOMAIN rv : v # b => w[v] = rv[v]
      /\ b \in DOMAIN rv =>
           w[b] = [rv[b] EXCEPT !.status = IF rv[b].status = "booked" THEN "cancelled" ELSE rv[b].status]
  BY DEF CalledOff
<1>3. b \in DOMAIN rv => /\ DOMAIN w[b] = DOMAIN rv[b] /\ w[b].day = rv[b].day
                         /\ w[b].status # "booked"
  BY <1>1, <1>2
<1>4. IsSequence(w)
  BY <1>1, <1>2, Rewritten
<1>5. VisitsGrow(rv, w)
  BY <1>2, <1>3 DEF VisitsGrow
<1>6. \A v \in DOMAIN w : {"day", "status"} \subseteq DOMAIN w[v]
  BY <1>1, <1>2, <1>3
<1> QED BY <1>2, <1>3, <1>4, <1>5, <1>6

-----------------------------------------------------------------------------
\* Bookings come to a hand, or are called off.
VisitsMove(p, h) ==
    /\ p \in Procs /\ OnlyMoves(p, h) /\ UNCHANGED <<rt, sess>>
    /\ proc[p].pc # "idle"
    /\ HandOk(h, sess, rv', rt.status)
    /\ IsSequence(rv') /\ 0 \notin DOMAIN rv' /\ VisitsGrow(rv, rv')
    /\ \A v \in DOMAIN rv' : {"day", "status"} \subseteq DOMAIN rv'[v]
    /\ DOMAIN rv' \subseteq DOMAIN rv \cup HeldBy(h)
    /\ HeldBy(h) \subseteq HeldBy(proc[p]) \cup (DOMAIN rv' \ DOMAIN rv)
    /\ \A v \in HeldBy(proc[p]) \ HeldBy(h) : rv'[v].status # "booked"
    /\ Releasing(h) => Releasing(proc[p])

\* A step that changes bookings and the hand alone.
LEMMA VisitsMoves ==
    ASSUME JobsInv, NEW p, NEW h, VisitsMove(p, h)
    PROVE  JobsInv'
<1>1. LinksMove(proc[p], h, sess, sess', rv', rt.status)
  BY DEF VisitsMove, LinksMove, JobsInv, RoutineShape
<1>2. StatusMoves(rt.status, rt'.status)
  BY DEF VisitsMove, StatusMoves
<1>3. HandOk(h, sess', rv', rt'.status)
  BY DEF VisitsMove
<1>4. HandMoves(p, h)
  BY <1>1, <1>2, <1>3 DEF HandMoves, VisitsMove, JobsInv, RoutineShape
<1> QED BY <1>4, HandsMove

\* Rows nobody wrote.
LEMMA SameRows ==
    ASSUME NEW h, NEW st PROVE RowsMove(h, sess, sess, st)
BY DEF RowsMove

\* The lowest of some numbers is one of them.
LEMMA LowestIsIn ==
    ASSUME NEW S \in SUBSET Nat, S # {}
    PROVE  Lowest(S) \in S
BY LeastNatural DEF Lowest

\* One lemma per step of a request or a job: booking the next session.
LEMMA BookNextKeepsJobs ==
    ASSUME JobsInv, NEW p \in Procs, BookNext(p)
    PROVE  JobsInv'
<1> DEFINE k == Lowest(proc[p].todo)
<1>1. HandOk(proc[p], sess, rv, rt.status) /\ proc[p].pc = "book"
  BY DEF JobsInv, HandsFit, BookNext
<1>2. BookFits(proc[p], sess, rv, rt.status)
  BY <1>1 DEF HandOk
<1>3. k \in proc[p].todo
  <2>1. proc[p].todo \in SUBSET Nat /\ proc[p].todo # {}
    BY <1>2 DEF BookFits, BookNext
  <2> QED BY <2>1, LowestIsIn
<1>4. IsSequence(rv)
  BY DEF JobsInv, RoutineShape
<1> DEFINE n == Len(rv) + 1
           e == [day |-> proc[p].days[k], status |-> "booked"]
<1>5. /\ rv' = Append(rv, e) /\ UNCHANGED <<rt, sess>>
      /\ proc' = [proc EXCEPT ![p].todo = @ \ {k}, ![p].made = @ \cup {<<k, n>>}]
  BY DEF BookNext
<1>6. /\ IsSequence(rv') /\ DOMAIN rv' = DOMAIN rv \cup {n}
      /\ \A i \in DOMAIN rv : rv'[i] = rv[i]
      /\ rv'[n] = e /\ n \notin DOMAIN rv /\ n # 0 /\ 0 \notin DOMAIN rv
  <2> HIDE DEF e
  <2>1. PICK w : /\ w = Append(rv, e) /\ IsSequence(w)
                 /\ DOMAIN w = DOMAIN rv \cup {Len(rv) + 1}
                 /\ \A i \in DOMAIN rv : w[i] = rv[i]
                 /\ w[Len(rv) + 1] = e /\ Len(rv) + 1 \notin DOMAIN rv
                 /\ Len(rv) + 1 # 0 /\ 0 \notin DOMAIN rv
    BY ONLY <1>4, Appended
  <2> QED BY <2>1, <1>5, Zenon
<1>7. PICK h : h = [proc[p] EXCEPT !.todo = proc[p].todo \ {k}, !.made = proc[p].made \cup {<<k, n>>}]
  OBVIOUS
<1>8. OnlyMoves(p, h)
  BY <1>5, <1>7 DEF OnlyMoves, JobsInv, RoutineShape
<1> HIDE DEF n, k
<1>9. /\ HandFields \subseteq DOMAIN h /\ h.todo = proc[p].todo \ {k}
      /\ h.made = proc[p].made \cup {<<k, n>>}
      /\ h.pc = "book" /\ h.kind = proc[p].kind /\ h.days = proc[p].days /\ h.ids = proc[p].ids
      /\ h.keep = proc[p].keep /\ h.drop = proc[p].drop /\ h.due = proc[p].due
  BY <1>1, <1>7 DEF HandOk, HandFields
<1>10. VisitsGrow(rv, rv')
  BY <1>6 DEF VisitsGrow
<1>11. HandOk(proc[p], sess, rv', rt.status)
  <2>1. /\ 0 \notin DOMAIN rv /\ \A s \in DOMAIN sess : sess[s].bk \in {0} \cup DOMAIN rv
    BY DEF JobsInv, RoutineShape
  <2>2. StatusMoves(rt.status, rt.status)
    BY DEF StatusMoves
  <2> QED BY <2>1, <2>2, <1>1, <1>10, SameRows, HandKept
<1>12. HeldBy(h) = HeldBy(proc[p]) \cup {n}
  <2>1. <<k, n>> \in h.made /\ <<k, n>>[2] = n /\ \A m \in proc[p].made : m \in h.made
    BY <1>9
  <2>2. \A m \in h.made : m \in proc[p].made \/ m[2] = n
    BY <1>9
  <2>3. \A x : x \in HeldBy(h) <=> (\E m \in h.made : x = m[2]) \/ x \in h.drop
    BY DEF HeldBy
  <2>4. \A x : x \in HeldBy(proc[p]) <=> (\E m \in proc[p].made : x = m[2]) \/ x \in proc[p].drop
    BY DEF HeldBy
  <2> QED BY <2>1, <2>2, <2>3, <2>4, <1>9
<1>13. \A v \in HeldBy(h) : v \in DOMAIN rv' /\ \A s \in DOMAIN sess : sess[s].bk # v
  <2>1. \A s \in DOMAIN sess : sess[s].bk \in {0} \cup DOMAIN rv
    BY DEF JobsInv, RoutineShape
  <2> QED BY <2>1, <1>6, <1>11, <1>12 DEF HandOk
<1>14. BookFits(h, sess, rv', rt.status)
  <2>1. BookFits(proc[p], sess, rv', rt.status)
    BY <1>1, <1>11 DEF HandOk
  <2>2. \A m \in proc[p].made : m[2] \in DOMAIN rv
    BY <1>1 DEF HandOk, HeldBy
  <2>3. rv'[n].day = h.days[k] /\ k \in DOMAIN h.days
    BY <1>3, <1>6, <1>9, <2>1 DEF BookFits
  <2>4. \A m \in h.made : m[1] \in DOMAIN h.days \ h.todo /\ rv'[m[2]].day = h.days[m[1]]
    BY <2>1, <2>3, <1>9 DEF BookFits
  <2>5. ASSUME NEW m \in h.made, NEW l \in h.made, m[1] = l[1] \/ m[2] = l[2] PROVE m = l
    <3>1. \A j \in proc[p].made : j[1] # k /\ j[2] # n
      BY <2>1, <2>2, <1>3, <1>6 DEF BookFits
    <3> QED BY <3>1, <2>1, <2>5, <1>9 DEF BookFits
  <2>6. h.keep = {} /\ DOMAIN h.days \subseteq Nat /\ h.todo \subseteq DOMAIN h.days
    BY <2>1, <1>9 DEF BookFits
  <2>7. \/ /\ h.kind = "create" /\ rt.status = "none"
           /\ \A j, l \in DOMAIN h.days : j # l => h.days[j] # h.days[l]
        \/ /\ h.kind = "link"
           /\ \E s \in DOMAIN sess : h.ids = <<s>> /\ h.days = <<sess[s].day>>
    <3>1. /\ h.kind = proc[p].kind /\ h.days = proc[p].days /\ h.ids = proc[p].ids
      BY <1>9
    <3>2. \/ /\ proc[p].kind = "create" /\ rt.status = "none"
             /\ \A j, l \in DOMAIN proc[p].days : j # l => proc[p].days[j] # proc[p].days[l]
          \/ /\ proc[p].kind = "link"
             /\ \E s \in DOMAIN sess : proc[p].ids = <<s>> /\ proc[p].days = <<sess[s].day>>
      BY ONLY <2>1, Zenon DEF BookFits
    <3> QED BY ONLY <3>1, <3>2, Zenon
  <2> QED BY <2>4, <2>5, <2>6, <2>7 DEF BookFits
<1>15. HandOk(h, sess, rv', rt.status) /\ ~Releasing(h)
  BY <1>1, <1>9, <1>13, <1>14 DEF HandOk, Releasing, JobPhases
<1>16. \A v \in DOMAIN rv' : {"day", "status"} \subseteq DOMAIN rv'[v]
  <2>1. \A v \in DOMAIN rv : {"day", "status"} \subseteq DOMAIN rv[v]
    BY DEF JobsInv, RoutineShape
  <2> QED BY <2>1, <1>6
<1>17. VisitsMove(p, h)
  <2>1. /\ DOMAIN rv' \subseteq DOMAIN rv \cup HeldBy(h)
        /\ HeldBy(h) \subseteq HeldBy(proc[p]) \cup (DOMAIN rv' \ DOMAIN rv)
        /\ HeldBy(proc[p]) \ HeldBy(h) = {}
    BY <1>6, <1>12
  <2> QED BY <2>1, <1>1, <1>5, <1>6, <1>8, <1>10, <1>15, <1>16 DEF VisitsMove
<1> QED BY <1>17, VisitsMoves

\* Giving back the next booking.
LEMMA ReleaseKeepsJobs ==
    ASSUME JobsInv, NEW p \in Procs, ReleaseNext(p)
    PROVE  JobsInv'
<1> DEFINE b == Latest(proc[p].drop)
<1>1. HandOk(proc[p], sess, rv, rt.status) /\ proc[p].pc = "release"
  BY DEF JobsInv, HandsFit, ReleaseNext
<1>2. rv' = CalledOff(b) /\ UNCHANGED <<rt, sess>>
  BY DEF ReleaseNext
<1>3. /\ IsSequence(rv') /\ DOMAIN rv' = DOMAIN rv /\ VisitsGrow(rv, rv')
      /\ \A v \in DOMAIN rv' : {"day", "status"} \subseteq DOMAIN rv'[v]
      /\ b \in DOMAIN rv => rv'[b].status # "booked"
  BY <1>2, CallsOff
<1>4. PICK h : h = IF proc[p].drop # {b} THEN [proc[p] EXCEPT !.drop = proc[p].drop \ {b}]
                   ELSE AfterFailure(p)
  OBVIOUS
<1>5. OnlyMoves(p, h)
  <2>1. DOMAIN proc = Procs
    BY DEF JobsInv, RoutineShape
  <2>2. proc'[p] = h
    BY <2>1, <1>4 DEF ReleaseNext
  <2>3. DOMAIN proc' = Procs /\ \A q \in Procs : q # p => proc'[q] = proc[q]
    BY <2>1 DEF ReleaseNext
  <2> QED BY <2>2, <2>3 DEF OnlyMoves
<1> HIDE DEF b
<1>6. proc[p].made = {} /\ HeldBy(proc[p]) = proc[p].drop /\ proc[p].drop \subseteq DOMAIN rv
  BY <1>1 DEF HandOk, HeldBy
<1>7. /\ HandOk(h, sess, rv', rt.status) /\ ~Releasing(h)
      /\ HeldBy(h) = proc[p].drop \ {b}
  <2>1. CASE proc[p].drop # {b}
    <3>1. /\ HandFields \subseteq DOMAIN h /\ h.pc = "release" /\ h.made = {} /\ h.due = proc[p].due
          /\ h.drop = proc[p].drop \ {b}
      BY <2>1, <1>1, <1>4, <1>6 DEF HandOk, HandFields
    <3>2. HeldBy(h) = proc[p].drop \ {b}
      BY <3>1 DEF HeldBy
    <3>3. \A v \in HeldBy(h) : v \in DOMAIN rv' /\ \A s \in DOMAIN sess : sess[s].bk # v
      BY <3>2, <1>1, <1>3, <1>6 DEF HandOk
    <3> QED BY <3>1, <3>2, <3>3, <1>1 DEF HandOk, JobPhases, Releasing
  <2>2. CASE proc[p].drop = {b}
    <3>1. h = AfterFailure(p) /\ proc[p].drop \ {b} = {}
      BY <2>2, <1>4
    <3>2. proc[p].due \subseteq DOMAIN sess
      BY <1>1 DEF HandOk
    <3> QED BY <3>1, <3>2, AfterFailureFits
  <2> QED BY <2>1, <2>2
<1>8. 0 \notin DOMAIN rv
  BY DEF JobsInv, RoutineShape
<1>9. VisitsMove(p, h)
  BY <1>1, <1>2, <1>3, <1>5, <1>6, <1>7, <1>8 DEF VisitsMove
<1> QED BY <1>9, VisitsMoves

-----------------------------------------------------------------------------
\* The booking a row is given is the one made for its day, if one was.
LEMMA BookingOfRow ==
    ASSUME NEW p, proc[p].keep = {}, NEW k,
           \A m, n \in proc[p].made : m[1] = n[1] => m = n
    PROVE  /\ \A m \in proc[p].made : m[1] = k => BookingAt(p, k) = m[2]
           /\ (\A m \in proc[p].made : m[1] # k) => BookingAt(p, k) = 0
<1>1. PICK M : M = {x \in proc[p].keep \cup proc[p].made : x[1] = k}
  OBVIOUS
<1>2. BookingAt(p, k) = IF M = {} THEN 0 ELSE (CHOOSE x \in M : TRUE)[2]
  BY <1>1 DEF BookingAt
<1>3. ASSUME NEW m \in proc[p].made, m[1] = k PROVE BookingAt(p, k) = m[2]
  <2>1. M # {} /\ \A x \in M : x = m
    BY <1>1, <1>3
  <2>2. (CHOOSE x \in M : TRUE) = m
    BY <2>1
  <2> QED BY <2>1, <2>2, <1>2
<1>4. (\A m \in proc[p].made : m[1] # k) => M = {}
  BY <1>1
<1> QED BY <1>2, <1>3, <1>4

\* linkSession(): the booking goes from the hand to the session.
LEMMA LinkKeepsJobs ==
    ASSUME JobsInv, NEW p \in Procs, SaveLink(p)
    PROVE  JobsInv'
<1>1. HandOk(proc[p], sess, rv, rt.status) /\ proc[p].pc = "book" /\ proc[p].kind = "link"
  BY DEF JobsInv, HandsFit, SaveLink, Ready
<1>2. BookFits(proc[p], sess, rv, rt.status)
  BY <1>1 DEF HandOk
<1>3. PICK s \in DOMAIN sess : proc[p].ids = <<s>> /\ proc[p].days = <<sess[s].day>>
  BY <1>1, <1>2 DEF BookFits
<1>4. proc[p].ids[1] = s /\ proc[p].days[1] = sess[s].day /\ DOMAIN proc[p].days = {1}
  BY <1>3
<1>5. /\ sess[s].bk = 0 /\ sess' = [sess EXCEPT ![s] = Row(p, 1)]
      /\ UNCHANGED <<rt, rv>> /\ proc' = [proc EXCEPT ![p] = AfterFailure(p)]
  BY <1>4 DEF SaveLink
<1>6. /\ proc[p].keep = {} /\ \A m, n \in proc[p].made : m[1] = n[1] => m = n
      /\ \A m \in proc[p].made : m[1] = 1 /\ rv[m[2]].day = sess[s].day
  BY <1>2, <1>4 DEF BookFits
<1> DEFINE b == BookingAt(p, 1)
<1>7. /\ \A m \in proc[p].made : b = m[2]
      /\ proc[p].made = {} => b = 0
  BY <1>6, BookingOfRow
<1>8. /\ DOMAIN sess' = DOMAIN sess /\ sess'[s] = Row(p, 1)
      /\ \A u \in DOMAIN sess : u # s => sess'[u] = sess[u]
  BY <1>5
<1>9. /\ sess'[s].bk = b /\ sess'[s].day = sess[s].day
      /\ {"day", "bk", "state"} \subseteq DOMAIN sess'[s]
  BY <1>4, <1>8 DEF Row
<1> HIDE DEF b
<1>10. PICK h : h = AfterFailure(p) /\ OnlyMoves(p, h)
  BY <1>5 DEF OnlyMoves, JobsInv, RoutineShape
<1>11. HandOk(h, sess', rv', rt'.status) /\ HeldBy(h) = {} /\ ~Releasing(h)
  <2>1. proc[p].due \subseteq DOMAIN sess'
    BY <1>1, <1>8 DEF HandOk
  <2> QED BY <2>1, <1>10, AfterFailureFits
<1>12. proc[p].drop = {}
  BY <1>1 DEF HandOk
<1>13. \A v \in HeldBy(proc[p]) : v = b
  BY <1>7, <1>12 DEF HeldBy
<1>14. b # 0 => b \in HeldBy(proc[p]) /\ rv[b].day = sess[s].day
  <2> SUFFICES ASSUME b # 0 PROVE b \in HeldBy(proc[p]) /\ rv[b].day = sess[s].day
    OBVIOUS
  <2>1. PICK m \in proc[p].made : TRUE
    BY <1>7
  <2> QED BY <2>1, <1>6, <1>7 DEF HeldBy
<1>15. \A u \in DOMAIN sess : {"day", "bk", "state"} \subseteq DOMAIN sess[u]
  BY DEF JobsInv, RoutineShape
<1>16. LinksMove(proc[p], h, sess, sess', rv', rt.status)
  <2>1. rv' = rv
    BY <1>5
  <2> QED BY <2>1, <1>5, <1>8, <1>9, <1>11, <1>14, <1>15 DEF LinksMove
<1>17. VisitsGrow(rv, rv') /\ StatusMoves(rt.status, rt'.status)
  BY <1>5 DEF VisitsGrow, StatusMoves
<1>18. \A v \in HeldBy(proc[p]) \ HeldBy(h) : \E u \in DOMAIN sess : sess'[u].bk = v
  BY <1>9, <1>13
<1>19. HandMoves(p, h)
  BY <1>1, <1>5, <1>10, <1>11, <1>16, <1>17, <1>18 DEF HandMoves, JobsInv, RoutineShape
<1> QED BY <1>19, HandsMove

\* claimPlanned(): only one copy of the job gets the visit.
LEMMA ClaimKeepsJobs ==
    ASSUME JobsInv, NEW j \in Procs, JobClaims(j)
    PROVE  JobsInv'
<1> DEFINE s == Lowest(proc[j].due)
           rest == proc[j].due \ {s}
<1>1. HandOk(proc[j], sess, rv, rt.status) /\ proc[j].pc = "far"
  BY DEF JobsInv, HandsFit, JobClaims
<1>2. s \in proc[j].due /\ proc[j].due \subseteq DOMAIN sess
  <2>1. proc[j].due \in SUBSET Nat /\ proc[j].due # {} /\ proc[j].due \subseteq DOMAIN sess
    BY <1>1 DEF HandOk, JobsInv, RoutineShape
  <2> QED BY <2>1, LowestIsIn
<1>3. HeldBy(proc[j]) = {}
  BY <1>1 DEF HandOk, HeldBy
<1>4. CASE Claimable(s)
  <2>1. PICK h : h = [Idle EXCEPT !.pc = "book", !.kind = "link", !.ids = <<s>>,
                                  !.days = <<sess[s].day>>, !.todo = {1}, !.due = rest]
    OBVIOUS
  <2>2. /\ sess' = [sess EXCEPT ![s].state = "needs_attention"] /\ UNCHANGED <<rt, rv>>
        /\ proc' = [proc EXCEPT ![j] = h]
    BY <2>1, <1>4 DEF JobClaims
  <2> HIDE DEF s, rest
  <2>3. OnlyMoves(j, h)
    BY <2>2 DEF OnlyMoves, JobsInv, RoutineShape
  <2>4. /\ HandFields \subseteq DOMAIN h /\ h.pc = "book" /\ h.kind = "link" /\ h.ids = <<s>>
        /\ h.days = <<sess[s].day>> /\ h.todo = {1} /\ h.due = rest
        /\ h.made = {} /\ h.keep = {} /\ h.drop = {}
    BY <2>1 DEF Idle, HandFields
  <2>5. HeldBy(h) = {} /\ ~Releasing(h)
    BY <2>4 DEF HeldBy, Releasing
  <2>6. \A u \in DOMAIN sess : {"day", "bk", "state"} \subseteq DOMAIN sess[u]
    BY DEF JobsInv, RoutineShape
  <2>7. /\ DOMAIN sess' = DOMAIN sess
        /\ \A u \in DOMAIN sess : /\ {"day", "bk", "state"} \subseteq DOMAIN sess'[u]
                                  /\ sess'[u].day = sess[u].day /\ sess'[u].bk = sess[u].bk
    BY <2>2, <2>6
  <2>8. BookFits(h, sess', rv', rt'.status)
    <3>1. DOMAIN h.days = {1}
      BY <2>4
    <3>2. s \in DOMAIN sess' /\ h.days = <<sess'[s].day>>
      BY <2>4, <2>7, <1>2
    <3> QED BY <3>1, <3>2, <2>4 DEF BookFits
  <2>9. HandOk(h, sess', rv', rt'.status)
    <3>1. h.due \subseteq DOMAIN sess'
      BY <2>4, <2>7, <1>2 DEF rest
    <3> QED BY <3>1, <2>4, <2>5, <2>8 DEF HandOk, JobPhases
  <2>10. LinksMove(proc[j], h, sess, sess', rv', rt.status)
    BY <2>7 DEF LinksMove
  <2>11. VisitsGrow(rv, rv') /\ StatusMoves(rt.status, rt'.status)
    BY <2>2 DEF VisitsGrow, StatusMoves
  <2>12. HandMoves(j, h)
    BY <1>1, <1>3, <2>2, <2>3, <2>5, <2>9, <2>10, <2>11 DEF HandMoves, JobsInv, RoutineShape
  <2> QED BY <2>12, HandsMove
<1>5. CASE ~Claimable(s)
  <2>1. PICK h : h = IF rest = {} THEN Idle ELSE [proc[j] EXCEPT !.due = rest]
    OBVIOUS
  <2>2. UNCHANGED <<rt, sess, rv>> /\ proc' = [proc EXCEPT ![j] = h]
    BY <2>1, <1>5 DEF JobClaims
  <2> HIDE DEF s
  <2>3. OnlyMoves(j, h)
    BY <2>2 DEF OnlyMoves, JobsInv, RoutineShape
  <2>4. HandOk(h, sess, rv, rt.status) /\ HeldBy(h) = {} /\ ~Releasing(h)
    <3>1. CASE rest = {}
      BY <3>1, <2>1, IdleFits
    <3>2. CASE rest # {}
      <4>1. /\ HandFields \subseteq DOMAIN h /\ h.pc = "far" /\ h.due = rest
            /\ h.made = {} /\ h.drop = {}
        BY <3>2, <2>1, <1>1 DEF HandOk, HandFields
      <4> QED BY <4>1, <3>2, <1>2 DEF HandOk, HeldBy, Releasing, JobPhases
    <3> QED BY <3>1, <3>2
  <2>5. QuietMove(j, h)
    BY <1>1, <1>3, <2>2, <2>3, <2>4 DEF QuietMove
  <2> QED BY <2>5, QuietMoves
<1> QED BY <1>4, <1>5

-----------------------------------------------------------------------------

\* Calling off a visit of a routine that is paused for misses.
LEMMA DropKeepsJobs ==
    ASSUME JobsInv, NEW j \in Procs, JobDrops(j)
    PROVE  JobsInv'
<1> DEFINE m == CHOOSE x \in proc[j].keep : \A y \in proc[j].keep : x[1] <= y[1]
           rest == proc[j].keep \ {m}
<1>1. HandOk(proc[j], sess, rv, rt.status) /\ proc[j].pc = "drop"
  BY DEF JobsInv, HandsFit, JobDrops
<1>2. Releasing(proc[j]) /\ KeepFits(proc[j], sess) /\ proc[j].keep # {}
  BY <1>1 DEF HandOk, Releasing
<1>3. \A x \in proc[j].keep : /\ x[1] \in DOMAIN sess /\ x = <<x[1], sess[x[1]].bk>>
                              /\ sess[x[1]].bk # 0
  BY <1>2 DEF KeepFits
<1>4. m \in proc[j].keep
  <2>1. PICK T : T = {x[1] : x \in proc[j].keep}
    OBVIOUS
  <2>2. T \in SUBSET Nat /\ T # {}
    BY <2>1, <1>2, <1>3 DEF JobsInv, RoutineShape
  <2>3. PICK t \in T : \A u \in T : t <= u
    BY <2>2, LeastNatural
  <2>4. PICK x \in proc[j].keep : x[1] = t
    BY <2>1, <2>3
  <2>5. \A y \in proc[j].keep : x[1] <= y[1]
    BY <2>1, <2>3, <2>4
  <2> QED BY <2>4, <2>5
<1>5. /\ rv' = CalledOff(m[2]) /\ UNCHANGED <<rt, sess>>
      /\ proc' = [proc EXCEPT ![j] =
           IF rv[m[2]].status = "booked" THEN [@ EXCEPT !.pc = "unlink", !.ids = <<m[1]>>, !.keep = rest]
           ELSE IF rest = {} THEN Idle ELSE [@ EXCEPT !.keep = rest]]
  BY Zenon DEF JobDrops
<1> HIDE DEF m
<1>6. PICK h : h = IF rv[m[2]].status = "booked"
                   THEN [proc[j] EXCEPT !.pc = "unlink", !.ids = <<m[1]>>, !.keep = rest]
                   ELSE IF rest = {} THEN Idle ELSE [proc[j] EXCEPT !.keep = rest]
  BY Zenon
<1>7. OnlyMoves(j, h)
  <2>1. DOMAIN proc = Procs
    BY DEF JobsInv, RoutineShape
  <2>2. proc' = [proc EXCEPT ![j] = h]
    BY <1>5, <1>6, Zenon
  <2> QED BY <2>1, <2>2 DEF OnlyMoves
<1>8. /\ m[1] \in DOMAIN sess /\ sess[m[1]].bk = m[2] /\ m[2] # 0 /\ m[2] \in DOMAIN rv
      /\ \A x \in rest : x[1] # m[1]
  BY <1>3, <1>4 DEF JobsInv, RoutineShape
<1>9. /\ IsSequence(rv') /\ DOMAIN rv' = DOMAIN rv /\ VisitsGrow(rv, rv')
      /\ \A v \in DOMAIN rv' : {"day", "status"} \subseteq DOMAIN rv'[v]
      /\ rv'[m[2]].status # "booked"
  BY <1>5, <1>8, CallsOff
<1>10. HeldBy(proc[j]) = {} /\ proc[j].made = {} /\ proc[j].drop = {}
  BY <1>1 DEF HandOk, HeldBy
<1>11. HandOk(h, sess, rv', rt.status) /\ HeldBy(h) = {}
  <2>1. CASE rv[m[2]].status = "booked"
    <3>1. /\ HandFields \subseteq DOMAIN h /\ h.pc = "unlink" /\ h.ids = <<m[1]>> /\ h.keep = rest
          /\ h.made = {} /\ h.drop = {} /\ h.due = proc[j].due
      BY <2>1, <1>1, <1>6, <1>10 DEF HandOk, HandFields
    <3>2. KeepFits(h, sess)
      BY <3>1, <1>3 DEF KeepFits
    <3>3. UnlinkFits(h, sess, rv')
      BY <3>1, <1>8, <1>9 DEF UnlinkFits
    <3> QED BY <3>1, <3>2, <3>3, <1>1 DEF HandOk, HeldBy, JobPhases
  <2>2. CASE rv[m[2]].status # "booked" /\ rest = {}
    BY <2>2, <1>6, IdleFits
  <2>3. CASE rv[m[2]].status # "booked" /\ rest # {}
    <3>1. /\ HandFields \subseteq DOMAIN h /\ h.pc = "drop" /\ h.keep = rest
          /\ h.made = {} /\ h.drop = {} /\ h.due = proc[j].due
      BY <2>3, <1>1, <1>6, <1>10 DEF HandOk, HandFields
    <3>2. KeepFits(h, sess)
      BY <3>1, <1>3 DEF KeepFits
    <3> QED BY <3>1, <3>2, <2>3, <1>1 DEF HandOk, HeldBy, JobPhases
  <2> QED BY <2>1, <2>2, <2>3
<1>12. 0 \notin DOMAIN rv
  BY DEF JobsInv, RoutineShape
<1>13. VisitsMove(j, h)
  BY <1>1, <1>2, <1>5, <1>7, <1>9, <1>10, <1>11, <1>12 DEF VisitsMove
<1> QED BY <1>13, VisitsMoves

\* Taking the booking that was called off from its session.
LEMMA UnlinkKeepsJobs ==
    ASSUME JobsInv, NEW j \in Procs, JobUnlinks(j)
    PROVE  JobsInv'
<1>1. HandOk(proc[j], sess, rv, rt.status) /\ proc[j].pc = "unlink"
  BY DEF JobsInv, HandsFit, JobUnlinks
<1>2. Releasing(proc[j]) /\ KeepFits(proc[j], sess) /\ UnlinkFits(proc[j], sess, rv)
  BY <1>1 DEF HandOk, Releasing
<1>3. PICK s \in DOMAIN sess : /\ proc[j].ids = <<s>> /\ sess[s].bk # 0
                               /\ rv[sess[s].bk].status # "booked"
                               /\ \A m \in proc[j].keep : m[1] # s
  BY <1>2 DEF UnlinkFits
<1>4. /\ sess' = [sess EXCEPT ![s].state = "planned", ![s].bk = 0] /\ UNCHANGED <<rt, rv>>
  BY <1>3 DEF JobUnlinks
<1>5. \A u \in DOMAIN sess : {"day", "bk", "state"} \subseteq DOMAIN sess[u]
  BY DEF JobsInv, RoutineShape
<1>6. /\ DOMAIN sess' = DOMAIN sess /\ \A u \in DOMAIN sess : u # s => sess'[u] = sess[u]
      /\ sess'[s].bk = 0 /\ sess'[s].day = sess[s].day
      /\ {"day", "bk", "state"} \subseteq DOMAIN sess'[s]
  BY <1>4, <1>5
<1>7. PICK h : h = IF proc[j].keep = {} THEN Idle ELSE [proc[j] EXCEPT !.pc = "drop", !.ids = <<>>]
  OBVIOUS
<1>8. OnlyMoves(j, h)
  <2>1. DOMAIN proc = Procs
    BY DEF JobsInv, RoutineShape
  <2>2. proc' = [proc EXCEPT ![j] = h]
    BY <1>7, Zenon DEF JobUnlinks
  <2> QED BY <2>1, <2>2 DEF OnlyMoves
<1>9. HeldBy(proc[j]) = {} /\ proc[j].made = {} /\ proc[j].drop = {}
  BY <1>1 DEF HandOk, HeldBy
<1>10. HandOk(h, sess', rv', rt'.status) /\ HeldBy(h) = {}
  <2>1. CASE proc[j].keep = {}
    BY <2>1, <1>7, IdleFits
  <2>2. CASE proc[j].keep # {}
    <3>1. /\ HandFields \subseteq DOMAIN h /\ h.pc = "drop" /\ h.keep = proc[j].keep
          /\ h.made = {} /\ h.drop = {} /\ h.due = proc[j].due
      BY <2>2, <1>1, <1>7, <1>9 DEF HandOk, HandFields
    <3>2. KeepFits(h, sess')
      BY <3>1, <1>2, <1>3, <1>6 DEF KeepFits
    <3> QED BY <3>1, <3>2, <2>2, <1>1, <1>6 DEF HandOk, HeldBy, JobPhases
  <2> QED BY <2>1, <2>2
<1>11. rt.status # "active"
  BY <1>2 DEF JobsInv, OneReleases
<1>12. LinksMove(proc[j], h, sess, sess', rv', rt.status)
  <2>1. rv' = rv
    BY <1>4
  <2> QED BY <2>1, <1>2, <1>3, <1>5, <1>6, <1>11 DEF LinksMove
<1>13. VisitsGrow(rv, rv') /\ StatusMoves(rt.status, rt'.status)
  BY <1>4 DEF VisitsGrow, StatusMoves
<1>14. HandMoves(j, h)
  BY <1>1, <1>2, <1>4, <1>8, <1>9, <1>10, <1>12, <1>13 DEF HandMoves, JobsInv, RoutineShape
<1> QED BY <1>14, HandsMove

\* The row changes, and the hand that changed it.
StatusMove(p, h) ==
    /\ p \in Procs /\ OnlyMoves(p, h) /\ UNCHANGED <<sess, rv>> /\ proc[p].pc # "idle"
    /\ {"status", "until"} \subseteq DOMAIN rt' /\ rt'.until = 0 /\ StatusMoves(rt.status, rt'.status)
    /\ HandOk(h, sess, rv, rt'.status)
    /\ HeldBy(h) = HeldBy(proc[p])
    /\ Releasing(h) => rt.status = "active" /\ rt'.status # "active"

\* A step that changes the routine's status and the hand alone.
LEMMA StatusesMove ==
    ASSUME JobsInv, NEW p, NEW h, StatusMove(p, h)
    PROVE  JobsInv'
<1>1. LinksMove(proc[p], h, sess, sess', rv', rt.status)
  BY DEF StatusMove, LinksMove, JobsInv, RoutineShape
<1>2. VisitsGrow(rv, rv')
  BY DEF StatusMove, VisitsGrow
<1>3. HandOk(h, sess', rv', rt'.status)
  BY DEF StatusMove
<1>4. HandMoves(p, h)
  BY <1>1, <1>2, <1>3 DEF HandMoves, StatusMove, JobsInv, RoutineShape
<1> QED BY <1>4, HandsMove

\* pauseForMisses(): only one copy of the job gets to release.
LEMMA PauseKeepsJobs ==
    ASSUME JobsInv, NEW j \in Procs, JobPauses(j)
    PROVE  JobsInv'
<1>1. HandOk(proc[j], sess, rv, rt.status) /\ proc[j].pc = "pause" /\ UNCHANGED <<sess, rv>>
  BY DEF JobsInv, HandsFit, JobPauses
<1>2. HeldBy(proc[j]) = {} /\ proc[j].due \subseteq DOMAIN sess
  BY <1>1 DEF HandOk, HeldBy
<1>3. DOMAIN proc = Procs /\ {"status", "until"} \subseteq DOMAIN rt /\ rt.until = 0
  BY DEF JobsInv, RoutineShape
<1>4. CASE rt.status = "active"
  <2>1. PICK h : h = IF proc[j].keep = {} THEN Idle
                     ELSE [Idle EXCEPT !.pc = "drop", !.keep = proc[j].keep]
    OBVIOUS
  <2>2. rt' = PausedForMisses(proc[j].after) /\ proc' = [proc EXCEPT ![j] = h]
    BY <2>1, <1>4, Zenon DEF JobPauses
  <2>3. OnlyMoves(j, h)
    BY <2>2, <1>3 DEF OnlyMoves
  <2>4. {"status", "until"} \subseteq DOMAIN rt' /\ rt'.until = 0 /\ rt'.status = "paused"
    BY <2>2, <1>3 DEF PausedForMisses
  <2>5. HandOk(h, sess, rv, rt'.status) /\ HeldBy(h) = {}
    <3>1. CASE proc[j].keep = {}
      BY <3>1, <2>1, IdleFits
    <3>2. CASE proc[j].keep # {}
      <4>1. /\ HandFields \subseteq DOMAIN h /\ h.pc = "drop" /\ h.keep = proc[j].keep
            /\ h.made = {} /\ h.drop = {} /\ h.due = {}
        BY <3>2, <2>1 DEF Idle, HandFields
      <4>2. KeepFits(h, sess)
        BY <4>1, <1>1, <1>4 DEF HandOk, KeepFits
      <4> QED BY <4>1, <4>2, <3>2 DEF HandOk, HeldBy, JobPhases
    <3> QED BY <3>1, <3>2
  <2>6. StatusMove(j, h)
    BY <2>3, <2>4, <2>5, <1>1, <1>2, <1>4 DEF StatusMove, StatusMoves
  <2> QED BY <2>6, StatusesMove
<1>5. CASE rt.status # "active"
  <2>1. PICK h : h = IF proc[j].due = {} THEN Idle
                     ELSE [Idle EXCEPT !.pc = "far", !.due = proc[j].due]
    OBVIOUS
  <2>2. UNCHANGED rt /\ proc' = [proc EXCEPT ![j] = h]
    BY <2>1, <1>5, Zenon DEF JobPauses
  <2>3. OnlyMoves(j, h)
    BY <2>2, <1>3 DEF OnlyMoves
  <2>4. HandOk(h, sess, rv, rt.status) /\ HeldBy(h) = {} /\ ~Releasing(h)
    <3>1. CASE proc[j].due = {}
      BY <3>1, <2>1, IdleFits
    <3>2. CASE proc[j].due # {}
      BY <3>2, <2>1, <1>2, FarFits
    <3> QED BY <3>1, <3>2
  <2>5. QuietMove(j, h)
    BY <2>2, <2>3, <2>4, <1>1, <1>2 DEF QuietMove
  <2> QED BY <2>5, QuietMoves
<1> QED BY <1>4, <1>5

\* completeByJob().
LEMMA CompleteKeepsJobs ==
    ASSUME JobsInv, NEW j \in Procs, JobCompletes(j)
    PROVE  JobsInv'
<1>1. /\ HandOk(proc[j], sess, rv, rt.status) /\ proc[j].pc = "complete" /\ UNCHANGED <<sess, rv>>
      /\ proc' = [proc EXCEPT ![j] = Idle]
      /\ rt' = IF rt.status \in {"active", "paused"} THEN [rt EXCEPT !.status = "completed"] ELSE rt
  BY DEF JobsInv, HandsFit, JobCompletes
<1>2. HeldBy(proc[j]) = {}
  BY <1>1 DEF HandOk, HeldBy
<1>3. DOMAIN proc = Procs /\ {"status", "until"} \subseteq DOMAIN rt /\ rt.until = 0
  BY DEF JobsInv, RoutineShape
<1>4. OnlyMoves(j, Idle)
  BY <1>1, <1>3 DEF OnlyMoves
<1>5. /\ {"status", "until"} \subseteq DOMAIN rt' /\ rt'.until = 0
      /\ StatusMoves(rt.status, rt'.status)
  BY <1>1, <1>3 DEF StatusMoves
<1>6. HandOk(Idle, sess, rv, rt'.status) /\ HeldBy(Idle) = {} /\ ~Releasing(Idle)
  BY IdleFits
<1>7. StatusMove(j, Idle)
  BY <1>1, <1>2, <1>4, <1>5, <1>6 DEF StatusMove
<1> QED BY <1>7, StatusesMove

-----------------------------------------------------------------------------

\* factsForJob(): what is due has no booking.
LEMMA ReadKeepsJobs ==
    ASSUME JobsInv, NEW j \in Procs, JobReads(j)
    PROVE  JobsInv'
<1> DEFINE due == {s \in DOMAIN sess : HorizonDue(s)}
           misses == LastMisses(rt.missAfter)
           booked == {s \in Movable : sess[s].bk # 0}
           kept == {<<s, sess[s].bk>> : s \in booked}
           last == Latest({DayOf(s) : s \in misses})
<1>1. /\ HandOk(proc[j], sess, rv, rt.status) /\ proc[j].pc = "facts" /\ UNCHANGED <<rt, sess, rv>>
  BY DEF JobsInv, HandsFit, JobReads
<1>2. HeldBy(proc[j]) = {}
  BY <1>1 DEF HandOk, HeldBy
<1>3. DOMAIN proc = Procs
  BY DEF JobsInv, RoutineShape
<1>4. due \subseteq DOMAIN sess
  OBVIOUS
<1>5. \A m \in kept : /\ m[1] \in DOMAIN sess /\ m = <<m[1], sess[m[1]].bk>> /\ sess[m[1]].bk # 0
  <2>1. Movable \subseteq DOMAIN sess
    BY DEF Movable, Remaining
  <2> QED BY <2>1
<1>6. proc' = [proc EXCEPT ![j] =
            IF AllClosed THEN [Idle EXCEPT !.pc = "complete"]
            ELSE IF rt.status # "active" THEN Idle
            ELSE IF PauseDue(rt.missAfter)
            THEN [Idle EXCEPT !.pc = "pause", !.due = due, !.after = last, !.keep = kept]
            ELSE IF due = {} THEN Idle ELSE [Idle EXCEPT !.pc = "far", !.due = due]]
  BY Zenon DEF JobReads
<1> HIDE DEF due, kept, last
<1>7. PICK h : /\ proc' = [proc EXCEPT ![j] = h]
               /\ \/ h = [Idle EXCEPT !.pc = "complete"]
                  \/ h = Idle
                  \/ h = [Idle EXCEPT !.pc = "pause", !.due = due, !.after = last, !.keep = kept]
                  \/ due # {} /\ h = [Idle EXCEPT !.pc = "far", !.due = due]
  BY <1>6, Zenon
<1>8. HandOk(h, sess, rv, rt.status) /\ HeldBy(h) = {} /\ ~Releasing(h)
  <2>1. CASE h = [Idle EXCEPT !.pc = "complete"]
    BY <2>1 DEF HandOk, Idle, HeldBy, HandFields, JobPhases, Releasing
  <2>2. CASE h = Idle
    BY <2>2, IdleFits
  <2>3. CASE h = [Idle EXCEPT !.pc = "pause", !.due = due, !.after = last, !.keep = kept]
    <3>1. /\ HandFields \subseteq DOMAIN h /\ h.pc = "pause" /\ h.keep = kept
          /\ h.made = {} /\ h.drop = {} /\ h.due = due
      BY <2>3 DEF Idle, HandFields
    <3>2. KeepFits(h, sess)
      BY <3>1, <1>5 DEF KeepFits
    <3> QED BY <3>1, <3>2, <1>4 DEF HandOk, HeldBy, JobPhases, Releasing
  <2>4. CASE due # {} /\ h = [Idle EXCEPT !.pc = "far", !.due = due]
    BY <2>4, <1>4, FarFits
  <2> QED BY <2>1, <2>2, <2>3, <2>4, <1>7
<1>9. OnlyMoves(j, h)
  BY <1>3, <1>7 DEF OnlyMoves
<1>10. QuietMove(j, h)
  BY <1>1, <1>2, <1>8, <1>9 DEF QuietMove
<1> QED BY <1>10, QuietMoves

\* openRoutines(): no job looks at a routine that is not there.
LEMMA LookKeepsJobs ==
    ASSUME JobsInv, NEW j \in Procs, JobLooks(j)
    PROVE  JobsInv'
<1>1. /\ HandOk(proc[j], sess, rv, rt.status) /\ proc[j].pc = "idle" /\ UNCHANGED <<rt, sess, rv>>
      /\ rt.status # "none"
  BY DEF JobsInv, HandsFit, JobLooks
<1>2. rt.until = 0 /\ DOMAIN proc = Procs
  BY DEF JobsInv, RoutineShape
<1>3. proc' = [proc EXCEPT ![j].pc = "facts"]
  BY <1>2 DEF JobLooks, ResumeDue
<1>4. PICK h : h = [proc[j] EXCEPT !.pc = "facts"]
  OBVIOUS
<1>5. OnlyMoves(j, h)
  BY <1>2, <1>3, <1>4 DEF OnlyMoves
<1>6. /\ HandFields \subseteq DOMAIN h /\ h.pc = "facts" /\ h.made = proc[j].made
      /\ h.drop = proc[j].drop /\ h.due = proc[j].due
  BY <1>1, <1>4 DEF HandOk, HandFields
<1>7. h.made = {} /\ h.drop = {} /\ HeldBy(h) = {} /\ HeldBy(proc[j]) = {} /\ ~Releasing(h)
  BY <1>1, <1>6 DEF HandOk, HeldBy, Releasing
<1>8. HandOk(h, sess, rv, rt.status)
  BY <1>1, <1>6, <1>7 DEF HandOk, JobPhases, Releasing
<1>9. QuietMove(j, h)
  BY <1>1, <1>5, <1>7, <1>8 DEF QuietMove
<1> QED BY <1>9, QuietMoves

\* A new routine: its days are apart, and nobody else is under way.
LEMMA CreateKeepsJobs ==
    ASSUME JobsInv, NEW p \in Apps, CreateRoutine(p)
    PROVE  JobsInv'
<1>1. /\ rt.status = "none" /\ UNCHANGED <<rt, sess, rv>> /\ p \in Procs
      /\ \A q \in Apps : proc[q].pc = "idle"
  BY DEF CreateRoutine, Procs
<1>2. HandOk(proc[p], sess, rv, rt.status) /\ proc[p].pc = "idle"
  BY <1>1 DEF JobsInv, HandsFit
<1>3. HeldBy(proc[p]) = {}
  BY <1>2 DEF HandOk, HeldBy
<1>4. \A q \in Procs : proc[q].pc = "idle"
  BY <1>1 DEF JobsInv, OneCreates
<1>5. DOMAIN proc = Procs
  BY DEF JobsInv, RoutineShape
<1>6. PICK S, pick, days, after :
        /\ days = WithPick(Ascending(S), pick) /\ PicksFit(days, {})
        /\ Begin(p, "create", <<>>, days, {}, after)
  BY Zenon DEF CreateRoutine
<1>7. DOMAIN days \subseteq Nat
  <2>1. DOMAIN Ascending(S) \subseteq Nat
    BY DEF Ascending
  <2>2. DOMAIN days = DOMAIN Ascending(S)
    BY <1>6 DEF WithPick
  <2> QED BY <2>1, <2>2
<1> DEFINE todo == {k \in DOMAIN days : /\ ~BeyondHorizon(days[k]) /\ \A m \in {} : m[1] # k}
           drop == ReleasePlan(<<>>, {})
<1>8. drop = {}
  BY DEF ReleasePlan
<1>9. PICK h : h = [Idle EXCEPT !.pc = "book", !.kind = "create", !.days = days, !.ids = <<>>,
                                !.keep = {}, !.drop = drop, !.after = after, !.todo = todo]
  OBVIOUS
<1>10. proc' = [proc EXCEPT ![p] = h]
  BY <1>6, <1>9, Zenon DEF Begin
<1>11. todo \subseteq DOMAIN days
  OBVIOUS
<1> HIDE DEF todo, drop
<1>12. OnlyMoves(p, h)
  BY <1>1, <1>5, <1>10 DEF OnlyMoves
<1>13. /\ HandFields \subseteq DOMAIN h /\ h.pc = "book" /\ h.kind = "create" /\ h.days = days
       /\ h.keep = {} /\ h.drop = {} /\ h.todo = todo /\ h.made = {} /\ h.due = {}
  BY <1>8, <1>9 DEF Idle, HandFields
<1>14. BookFits(h, sess, rv, rt.status)
  <2>1. \A k, l \in DOMAIN days : k # l => days[k] # days[l]
    BY <1>6 DEF PicksFit
  <2> QED BY <2>1, <1>1, <1>7, <1>11, <1>13 DEF BookFits
<1>15. HandOk(h, sess, rv, rt.status) /\ HeldBy(h) = {} /\ ~Releasing(h)
  BY <1>13, <1>14 DEF HandOk, HeldBy, JobPhases, Releasing
<1>16. QuietMove(p, h)
  BY <1>1, <1>3, <1>4, <1>12, <1>15 DEF QuietMove
<1> QED BY <1>16, QuietMoves

\* create(): every booking made is a session's.
LEMMA SaveNewKeepsJobs ==
    ASSUME JobsInv, NEW p \in Procs, SaveNew(p)
    PROVE  JobsInv'
<1>1. HandOk(proc[p], sess, rv, rt.status) /\ proc[p].pc = "book" /\ proc[p].kind = "create"
  BY DEF JobsInv, HandsFit, SaveNew, Ready
<1>2. BookFits(proc[p], sess, rv, rt.status)
  BY <1>1 DEF HandOk
<1> DEFINE days == proc[p].days
<1>3. /\ rt.status = "none" /\ proc[p].keep = {} /\ DOMAIN days \subseteq Nat
      /\ \A k, l \in DOMAIN days : k # l => days[k] # days[l]
      /\ \A m \in proc[p].made : m[1] \in DOMAIN days /\ rv[m[2]].day = days[m[1]]
      /\ \A m, n \in proc[p].made : m[1] = n[1] \/ m[2] = n[2] => m = n
  BY <1>1, <1>2 DEF BookFits
<1>4. DOMAIN sess = {} /\ \A q \in Procs : q # p => proc[q].pc = "idle"
  BY <1>1, <1>3 DEF JobsInv, OneCreates
<1>5. /\ rt' = [rt EXCEPT !.status = "active", !.freq = proc[p].after.freq,
                          !.anchor = proc[p].after.anchor]
      /\ sess' = Rows(p) /\ proc' = [proc EXCEPT ![p] = Idle] /\ rv' = rv
  BY DEF SaveNew
<1>6. /\ {"status", "until"} \subseteq DOMAIN rt /\ rt.until = 0 /\ IsSequence(rv)
      /\ 0 \notin DOMAIN rv /\ DOMAIN proc = Procs
      /\ \A v \in DOMAIN rv : {"day", "status"} \subseteq DOMAIN rv[v]
  BY DEF JobsInv, RoutineShape
<1>7. {"status", "until"} \subseteq DOMAIN rt' /\ rt'.until = 0 /\ rt'.status = "active"
  BY <1>5, <1>6
<1>8. /\ DOMAIN proc' = Procs /\ proc'[p] = Idle
      /\ \A q \in Procs : q # p => proc'[q] = proc[q] /\ proc[q].pc = "idle"
  BY <1>4, <1>5, <1>6
<1>9. ASSUME NEW q \in Procs
      PROVE /\ HandFields \subseteq DOMAIN proc'[q] /\ proc'[q].pc = "idle"
            /\ proc'[q].made = {} /\ proc'[q].drop = {} /\ proc'[q].due = {}
  <2>1. CASE q = p
    <3>1. proc'[q] = Idle
      BY <2>1, <1>8
    <3>2. /\ HandFields \subseteq DOMAIN Idle /\ Idle.pc = "idle"
          /\ Idle.made = {} /\ Idle.drop = {} /\ Idle.due = {}
      BY DEF Idle, HandFields
    <3> QED BY ONLY <3>1, <3>2, Zenon
  <2>2. CASE q # p
    <3>1. HandOk(proc[q], sess, rv, rt.status) /\ proc[q].pc = "idle" /\ proc'[q] = proc[q]
      BY <2>2, <1>8 DEF JobsInv, HandsFit
    <3> QED BY <3>1, <1>4 DEF HandOk
  <2> QED BY <2>1, <2>2
<1>10. \A q \in Procs : HeldBy(proc'[q]) = {} /\ ~Releasing(proc'[q])
  BY <1>9 DEF HeldBy, Releasing
<1>11. /\ DOMAIN sess' = DOMAIN days
       /\ \A k \in DOMAIN days : /\ sess'[k].day = days[k] /\ sess'[k].bk = BookingAt(p, k)
                                 /\ {"day", "bk", "state"} \subseteq DOMAIN sess'[k]
  BY <1>5 DEF Rows, Row
<1>12. \A v \in HeldBy(proc[p]) : v \in DOMAIN rv
  BY <1>1 DEF HandOk
<1>13. ASSUME NEW k \in DOMAIN days
       PROVE  /\ \A m \in proc[p].made : m[1] = k => BookingAt(p, k) = m[2]
              /\ BookingAt(p, k) # 0 => \E m \in proc[p].made : m[1] = k /\ BookingAt(p, k) = m[2]
  BY <1>3, BookingOfRow
<1>14. \A m \in proc[p].made : m[2] \in DOMAIN rv
  BY <1>12 DEF HeldBy
<1>15. RoutineShape'
  <2>1. \A k \in DOMAIN days : sess'[k].bk \in {0} \cup DOMAIN rv
    BY <1>11, <1>13, <1>14
  <2> QED BY <2>1, <1>3, <1>5, <1>6, <1>7, <1>8, <1>11 DEF RoutineShape
<1>16. HandsFit'
  <2> SUFFICES ASSUME NEW q \in Procs PROVE HandOk(proc'[q], sess', rv', rt'.status)
    BY Zenon DEF HandsFit
  <2> QED BY <1>9, <1>10 DEF HandOk, JobPhases
<1>17. HandsApart'
  BY <1>10 DEF HandsApart, HeldBy
<1>18. SessionsApart'
  <2>1. ASSUME NEW k \in DOMAIN days, NEW l \in DOMAIN days, k # l, sess'[k].bk = sess'[l].bk
        PROVE  sess'[k].bk = 0
    <3> SUFFICES ASSUME sess'[k].bk # 0 PROVE FALSE
      OBVIOUS
    <3>1. PICK m \in proc[p].made : m[1] = k /\ BookingAt(p, k) = m[2]
      BY <1>11, <1>13
    <3>2. PICK n \in proc[p].made : n[1] = l /\ BookingAt(p, l) = n[2]
      BY <2>1, <1>11, <1>13
    <3> QED BY <3>1, <3>2, <2>1, <1>3, <1>11
  <2>2. ASSUME NEW k \in DOMAIN days, sess'[k].bk # 0 PROVE rv'[sess'[k].bk].day = sess'[k].day
    <3>1. PICK m \in proc[p].made : m[1] = k /\ BookingAt(p, k) = m[2]
      BY <2>2, <1>11, <1>13
    <3> QED BY <3>1, <1>3, <1>5, <1>11
  <2> QED BY <2>1, <2>2, <1>3, <1>11 DEF SessionsApart
<1>19. VisitsHaveOwners'
  <2> SUFFICES ASSUME NEW v \in DOMAIN rv, rv[v].status = "booked"
               PROVE  \E k \in DOMAIN sess' : sess'[k].bk = v
    BY <1>5 DEF VisitsHaveOwners
  <2>1. PICK q \in Procs : v \in HeldBy(proc[q])
    BY <1>4 DEF JobsInv, VisitsHaveOwners
  <2>2. q = p
    <3> SUFFICES ASSUME q # p PROVE FALSE
      OBVIOUS
    <3>1. HandOk(proc[q], sess, rv, rt.status) /\ proc[q].pc = "idle"
      BY <1>8 DEF JobsInv, HandsFit
    <3> QED BY <3>1, <2>1 DEF HandOk, HeldBy
  <2>3. PICK m \in proc[p].made : v = m[2]
    BY <2>1, <2>2, <1>1 DEF HandOk, HeldBy
  <2>4. m[1] \in DOMAIN days /\ BookingAt(p, m[1]) = v
    BY <2>3, <1>3, <1>13
  <2> QED BY <2>4, <1>11
<1>20. OneCreates' /\ OneReleases'
  BY <1>7, <1>10 DEF OneCreates, OneReleases, Releasing
<1> QED BY <1>15, <1>16, <1>17, <1>18, <1>19, <1>20 DEF JobsInv

-----------------------------------------------------------------------------

\* A visit that happens, is missed or is cancelled at the salon.
LEMMA SalonKeepsJobs ==
    ASSUME JobsInv, NEW v, NEW to \in {"visited", "missed", "cancelled"}, VisitOver(v, to)
    PROVE  JobsInv'
<1>1. /\ rv' = [rv EXCEPT ![v].status = to] /\ UNCHANGED <<rt, sess, proc>>
  BY DEF VisitOver
<1>2. /\ IsSequence(rv) /\ 0 \notin DOMAIN rv
      /\ \A w \in DOMAIN rv : {"day", "status"} \subseteq DOMAIN rv[w]
      /\ \A s \in DOMAIN sess : sess[s].bk \in {0} \cup DOMAIN rv
  BY DEF JobsInv, RoutineShape
<1>3. /\ DOMAIN rv' = DOMAIN rv /\ rv' = [w \in DOMAIN rv |-> rv'[w]]
      /\ \A w \in DOMAIN rv : /\ DOMAIN rv'[w] = DOMAIN rv[w] /\ rv'[w].day = rv[w].day
                              /\ rv'[w].status = "booked" => rv[w].status = "booked"
  BY <1>1, <1>2
<1>4. IsSequence(rv')
  BY <1>2, <1>3, Rewritten
<1>5. VisitsGrow(rv, rv') /\ StatusMoves(rt.status, rt.status)
  BY <1>3 DEF VisitsGrow, StatusMoves
<1>6. RoutineShape'
  BY <1>1, <1>2, <1>3, <1>4 DEF JobsInv, RoutineShape
<1>7. HandsFit'
  <2>1. ASSUME NEW p \in Procs PROVE HandOk(proc[p], sess, rv', rt.status)
    <3>1. HandOk(proc[p], sess, rv, rt.status)
      BY DEF JobsInv, HandsFit
    <3> QED BY <3>1, <1>2, <1>5, SameRows, HandKept
  <2> QED BY <2>1, <1>1 DEF HandsFit
<1>8. HandsApart' /\ OneCreates' /\ OneReleases'
  BY <1>1 DEF JobsInv, HandsApart, OneCreates, OneReleases
<1>9. SessionsApart'
  BY <1>1, <1>2, <1>3 DEF JobsInv, SessionsApart
<1>10. VisitsHaveOwners'
  BY <1>1, <1>3 DEF JobsInv, VisitsHaveOwners
<1> QED BY <1>6, <1>7, <1>8, <1>9, <1>10 DEF JobsInv

\* A step that leaves the routine alone.
LEMMA JobsStutter ==
    ASSUME JobsInv, UNCHANGED <<rt, sess, rv, proc>>
    PROVE  JobsInv'
BY DEF JobsInv, RoutineShape, HandsFit, HandsApart, SessionsApart, VisitsHaveOwners,
       OneCreates, OneReleases

\* Nothing of a request that changes a routine is under way.
LEMMA NoRequestChanges ==
    ASSUME JobsInv, NEW p \in Procs
    PROVE  /\ ~SaveMore(p) /\ ~SaveMove(p) /\ ~SkipCancel(p) /\ ~SkipMark(p)
           /\ ~MoveVisit(p) /\ ~MoveMark(p) /\ ~CancelNext(p) /\ ~EndByCustomer(p)
           /\ ~JobResumes(p)
<1>1. HandOk(proc[p], sess, rv, rt.status)
  BY DEF JobsInv, HandsFit
<1>2. /\ proc[p].pc \notin {"skip", "mark", "move", "moved", "cancel", "resume"}
      /\ proc[p].pc = "book" => proc[p].kind \in {"create", "link"}
  BY <1>1 DEF HandOk, JobPhases, BookFits
<1> QED BY <1>2 DEF SaveMore, SaveMove, SkipCancel, SkipMark, MoveVisit, MoveMark,
                    CancelNext, EndByCustomer, JobResumes, Ready

\* The routine of a behaviour without changes.
OnlyJobs == ~On("change") => JobsInv

\* The invariant holds before there is a routine.
LEMMA JobsAtFirst == Init => OnlyJobs
<1> SUFFICES ASSUME Init PROVE JobsInv
  BY DEF OnlyJobs
<1>1. /\ rt = [status |-> "none", freq |-> "", anchor |-> 0, until |-> 0, missAfter |-> -1]
      /\ sess = <<>> /\ rv = <<>> /\ proc = [p \in Procs |-> Idle]
  BY DEF Init, RoutineInit
<1>2. DOMAIN sess = {} /\ DOMAIN rv = {} /\ IsSequence(rv)
  BY <1>1, NoRows
<1>3. {"status", "until"} \subseteq DOMAIN rt /\ rt.until = 0 /\ DOMAIN proc = Procs
  BY <1>1
<1>4. \A p \in Procs : /\ proc[p] = Idle
  BY <1>1
<1>5. /\ HeldBy(Idle) = {} /\ ~Releasing(Idle) /\ Idle.pc = "idle"
      /\ HandOk(Idle, sess, rv, rt.status)
  <2>1. Idle.pc = "idle"
    BY DEF Idle
  <2> QED BY <2>1, IdleFits
<1>6. RoutineShape
  BY <1>2, <1>3 DEF RoutineShape
<1>7. HandsFit /\ HandsApart /\ OneCreates /\ OneReleases
  BY <1>2, <1>4, <1>5 DEF HandsFit, HandsApart, OneCreates, OneReleases
<1>8. SessionsApart /\ VisitsHaveOwners
  BY <1>2 DEF SessionsApart, VisitsHaveOwners
<1> QED BY <1>6, <1>7, <1>8 DEF JobsInv

\* Every step keeps it while the customer changes nothing.
LEMMA JobsAreKept == OnlyJobs /\ [Next]_vars => OnlyJobs'
<1> SUFFICES ASSUME OnlyJobs, [Next]_vars, ~On("change")' PROVE JobsInv'
  BY DEF OnlyJobs
<1>1. ~On("change")
  BY DEF Next, vars, On
<1>2. JobsInv
  BY <1>1 DEF OnlyJobs
<1>3. CASE RoutineStep
  <2>1. ASSUME NEW p \in Apps, RequestOf(p) PROVE JobsInv'
    <3>1. p \in Procs
      BY DEF Procs
    <3>2. CreateRoutine(p) \/ SaveNew(p)
      BY <2>1, <3>1, <1>1, <1>2, NoRequestChanges DEF RequestOf
    <3> QED BY <3>1, <3>2, <1>2, CreateKeepsJobs, SaveNewKeepsJobs
  <2>2. ASSUME NEW j \in Jobs, JobOf(j) PROVE JobsInv'
    <3>1. j \in Procs
      BY DEF Procs
    <3>2. \/ JobLooks(j) \/ JobReads(j) \/ JobCompletes(j)
          \/ JobPauses(j) \/ JobDrops(j) \/ JobUnlinks(j) \/ JobClaims(j)
      BY <2>2, <3>1, <1>2, NoRequestChanges DEF JobOf
    <3> QED BY <3>1, <3>2, <1>2, LookKeepsJobs, ReadKeepsJobs, CompleteKeepsJobs,
               PauseKeepsJobs, DropKeepsJobs, UnlinkKeepsJobs, ClaimKeepsJobs
  <2>3. ASSUME NEW p \in Procs, EitherOf(p) PROVE JobsInv'
    <3>1. CASE BookFails(p)
      BY <3>1, <1>2, GivesBack DEF BookFails
    <3>2. CASE SaveFails(p)
      BY <3>2, <1>2, GivesBack DEF SaveFails
    <3> QED BY <3>1, <3>2, <2>3, <1>2, BookNextKeepsJobs, LinkKeepsJobs, ReleaseKeepsJobs
            DEF EitherOf
  <2>4. ASSUME NEW v, NEW to \in {"visited", "missed", "cancelled"}, VisitOver(v, to) PROVE JobsInv'
    BY <2>4, <1>2, SalonKeepsJobs
  <2>5. ASSUME NEW d, SlotTaken(d) PROVE JobsInv'
    BY <2>5, <1>2, JobsStutter DEF SlotTaken
  <2>6. CASE NextDay
    BY <2>6, <1>2, JobsStutter DEF NextDay, routineVars
  <2> QED BY <2>1, <2>2, <2>3, <2>4, <2>5, <2>6, <1>3 DEF RoutineStep
<1>4. CASE SeriesStep \/ RosterStep \/ PartiesStep \/ UNCHANGED vars
  <2>1. UNCHANGED <<rt, sess, rv, proc>>
    BY <1>4 DEF SeriesStep, RosterStep, PartiesStep, vars, routineVars
  <2> QED BY <2>1, <1>2, JobsStutter
<1> QED BY <1>3, <1>4 DEF Next

\* Each booking that stands is one session's or in somebody's hand.
LEMMA JobsAccount == JobsInv => VisitsAreAccountedFor
<1> SUFFICES ASSUME JobsInv, NEW v \in DOMAIN rv, rv[v].status = "booked"
             PROVE  \/ Cardinality({s \in DOMAIN sess : sess[s].bk = v}) = 1
                    \/ \E p \in Procs : v \in Made(p) \cup proc[p].drop
  BY Zenon DEF VisitsAreAccountedFor
<1>1. CASE \E s \in DOMAIN sess : sess[s].bk = v
  <2>1. PICK s \in DOMAIN sess : sess[s].bk = v
    BY <1>1
  <2>2. v # 0
    BY DEF JobsInv, RoutineShape
  <2>3. {u \in DOMAIN sess : sess[u].bk = v} = {s}
    BY <2>1, <2>2 DEF JobsInv, SessionsApart
  <2>4. Cardinality({s}) = 1
    BY FS_Singleton
  <2> QED BY <2>3, <2>4
<1>2. CASE \E p \in Procs : v \in HeldBy(proc[p])
  BY <1>2 DEF HeldBy, Made
<1> QED BY <1>1, <1>2 DEF JobsInv, VisitsHaveOwners

\* No two sessions are on a day.
LEMMA JobsKeepDaysApart == JobsInv => NoTwoVisitsADay
<1> SUFFICES ASSUME JobsInv, NEW s \in DOMAIN sess, NEW u \in DOMAIN sess, s # u
             PROVE  DayOf(s) # DayOf(u)
  BY Zenon DEF NoTwoVisitsADay
<1>1. DayOf(s) = sess[s].day /\ DayOf(u) = sess[u].day
  BY DEF DayOf, JobsInv, SessionsApart
<1> QED BY <1>1 DEF JobsInv, SessionsApart

\* While the customer only creates the routine, any number of copies of the
\* hourly job and of requests may run, claim, book, fail and pause in any
\* order: every booking that stands is the booking of exactly one session or
\* in the hand of one of them (bookFarVisits() never books a visit twice and
\* gives back what it could not link), and no two sessions share a day.
THEOREM JobsNeverBookTwice ==
    Spec => [](~On("change") => VisitsAreAccountedFor /\ NoTwoVisitsADay)
<1>1. OnlyJobs => (~On("change") => VisitsAreAccountedFor /\ NoTwoVisitsADay)
  BY JobsAccount, JobsKeepDaysApart DEF OnlyJobs
<1> QED BY <1>1, JobsAtFirst, JobsAreKept, PTL DEF Spec

-----------------------------------------------------------------------------
(* The calendar, and the days of a plan *)

\* The recursion of the months' first days has a solution: sums of lengths.
LEMMA MonthsBegin ==
    FirstOfMonth = [m \in 1 .. Len(MonthLengths) + 1 |->
                      IF m = 1 THEN 0 ELSE FirstOfMonth[m - 1] + MonthLengths[m - 1]]
<1> DEFINE L == Len(MonthLengths)
           F(f) == [m \in 1 .. L + 1 |-> IF m = 1 THEN 0 ELSE f[m - 1] + MonthLengths[m - 1]]
           before == [m \in 1 .. L + 1 |-> Total(MonthLengths, 1 .. m - 1)]
<1>1. L \in Nat /\ \A m \in 1 .. L : MonthLengths[m] \in Int
  BY RecurrenceAssumption
<1>2. before[1] = 0
  <2>1. 1 .. 1 - 1 = {} /\ 1 \in 1 .. L + 1
    BY <1>1
  <2> QED BY <2>1, TotalOfNone
<1>3. ASSUME NEW m \in 1 .. L + 1, m # 1 PROVE before[m] = before[m - 1] + MonthLengths[m - 1]
  <2>1. /\ m - 1 \in 1 .. L /\ m - 1 \in 1 .. L + 1 /\ m - 1 \notin 1 .. (m - 1) - 1
        /\ 1 .. m - 1 = (1 .. (m - 1) - 1) \cup {m - 1}
    BY <1>1, <1>3
  <2>2. IsFiniteSet(1 .. (m - 1) - 1)
    <3>1. 1 \in Int /\ (m - 1) - 1 \in Int
      BY <1>1
    <3> QED BY ONLY <3>1, FS_Interval
  <2>3. \A y \in (1 .. (m - 1) - 1) \cup {m - 1} : MonthLengths[y] \in Int
    BY <1>1, <2>1
  <2>4. Total(MonthLengths, (1 .. (m - 1) - 1) \cup {m - 1})
          = MonthLengths[m - 1] + Total(MonthLengths, 1 .. (m - 1) - 1)
    BY ONLY <2>1, <2>2, <2>3, TotalAdds
  <2>5. Total(MonthLengths, 1 .. (m - 1) - 1) \in Int
    <3>1. \A y \in 1 .. (m - 1) - 1 : MonthLengths[y] \in Int
      BY <2>3
    <3> QED BY ONLY <2>2, <3>1, TotalTakes
  <2>6. before[m] = Total(MonthLengths, 1 .. m - 1) /\ before[m - 1] = Total(MonthLengths, 1 .. (m - 1) - 1)
    BY <2>1
  <2>7. before[m] = MonthLengths[m - 1] + before[m - 1]
    BY ONLY <2>1, <2>4, <2>6, Zenon
  <2> HIDE DEF before
  <2>8. before[m - 1] \in Int /\ MonthLengths[m - 1] \in Int
    BY <2>1, <2>3, <2>5, <2>6
  <2> QED BY ONLY <2>7, <2>8
<1>4. before = F(before)
  <2> HIDE DEF before
  <2>1. DOMAIN before = 1 .. L + 1 /\ before = [m \in 1 .. L + 1 |-> before[m]]
    BY DEF before
  <2>2. \A m \in 1 .. L + 1 : before[m] = F(before)[m]
    BY <1>2, <1>3
  <2> QED BY <2>1, <2>2
<1>5. \E f : f = F(f)
  BY <1>4
<1> QED BY <1>5, Zenon DEF FirstOfMonth

\* The last day of the calendar is a day.
LEMMA CalendarEnds == CalendarEnd \in Int
<1>1. PICK L : L = Len(MonthLengths) /\ L \in Nat /\ \A m \in 1 .. L : MonthLengths[m] \in Int
  BY RecurrenceAssumption
<1>2. /\ FirstOfMonth[1] = 0
      /\ \A m \in 1 .. L + 1 : m # 1 => FirstOfMonth[m] = FirstOfMonth[m - 1] + MonthLengths[m - 1]
  <2>1. \A m \in 1 .. L + 1 :
          FirstOfMonth[m] = IF m = 1 THEN 0 ELSE FirstOfMonth[m - 1] + MonthLengths[m - 1]
    <3>1. PICK g : g = FirstOfMonth
      OBVIOUS
    <3>2. g = [m \in 1 .. L + 1 |-> IF m = 1 THEN 0 ELSE g[m - 1] + MonthLengths[m - 1]]
      BY ONLY <3>1, <1>1, MonthsBegin, Zenon
    <3>3. \A m \in 1 .. L + 1 : g[m] = IF m = 1 THEN 0 ELSE g[m - 1] + MonthLengths[m - 1]
      BY ONLY <3>2, Zenon
    <3> QED BY ONLY <3>1, <3>3, Zenon
  <2> QED BY ONLY <2>1, <1>1
<1> DEFINE P == {n \in Nat : n <= L => FirstOfMonth[n + 1] \in Int}
<1>3. 0 \in P
  BY <1>2
<1>4. ASSUME NEW n \in P PROVE n + 1 \in P
  <2> SUFFICES ASSUME n + 1 <= L PROVE FirstOfMonth[(n + 1) + 1] \in Int
    OBVIOUS
  <2>1. n \in Nat /\ FirstOfMonth[n + 1] \in Int /\ n + 1 \in 1 .. L
    BY <1>1
  <2>2. /\ (n + 1) + 1 \in 1 .. L + 1 /\ (n + 1) + 1 # 1 /\ ((n + 1) + 1) - 1 = n + 1
    BY <1>1, <2>1
  <2>3. FirstOfMonth[(n + 1) + 1] = FirstOfMonth[n + 1] + MonthLengths[n + 1]
    BY <1>2, <2>2
  <2> QED BY <1>1, <2>1, <2>3
<1>5. P = Nat
  <2> HIDE DEF P
  <2>1. P \in SUBSET Nat
    BY DEF P
  <2> QED BY <1>3, <1>4, <2>1, Induction
<1>6. FirstOfMonth[L + 1] \in Int
  BY <1>1, <1>5
<1> QED BY <1>1, <1>6 DEF CalendarEnd

\* A plan: finitely many days, none before the day it starts on.
DaysFrom(S, from) == IsFiniteSet(S) /\ S \subseteq Int /\ \A d \in S : from <= d

\* openDays(): none before the day it starts on.
LEMMA OpenDaysFrom ==
    ASSUME NEW from \in Int, NEW count, NEW open
    PROVE  DaysFrom(OpenDays(from, count, open), from)
<1>1. IsFiniteSet(from .. CalendarEnd)
  BY CalendarEnds, FS_Interval
<1>2. OpenDays(from, count, open) \subseteq from .. CalendarEnd
  BY DEF OpenDays, FirstN
<1>3. IsFiniteSet(OpenDays(from, count, open))
  BY <1>1, <1>2, FS_Subset
<1> QED BY <1>2, <1>3, CalendarEnds DEF DaysFrom

\* expand(): none before the anchor.
LEMMA CadencedFrom ==
    ASSUME NEW kind, NEW at, NEW from \in Int, NEW count
    PROVE  DaysFrom(Cadenced(kind, at, from, count), from)
<1>1. IsFiniteSet(from .. CalendarEnd) /\ from + (CalendarEnd - from) = CalendarEnd
  BY CalendarEnds, FS_Interval
<1> DEFINE def == [anchor |-> from, end |-> [kind |-> "after_count", at |-> count],
                   pattern |-> [kind |-> kind, at |-> at, days |-> {}]]
           X == ExpandSeries(def, from, CalendarEnd - from)
<1>2. \A o \in X : o.day \in from .. CalendarEnd
  <2>1. def.anchor = from
    OBVIOUS
  <2> HIDE DEF def
  <2> QED BY <2>1, <1>1 DEF ExpandSeries, Candidates
<1>3. Cadenced(kind, at, from, count) = {o.day : o \in X}
  BY DEF Cadenced
<1> HIDE DEF X
<1>4. Cadenced(kind, at, from, count) \subseteq from .. CalendarEnd
  BY <1>2, <1>3
<1>5. IsFiniteSet(Cadenced(kind, at, from, count))
  BY <1>1, <1>4, FS_Subset
<1> QED BY <1>4, <1>5, CalendarEnds DEF DaysFrom

\* The frequencies of a routine.
Frequencies == {"DAILY", "WEEKLY", "EVERY_2_WEEKS", "MONTHLY"}

\* What RESUME may ask for: a frequency, or none.
Switches == Frequencies \cup {""}

\* The plan of a new routine starts on its first day.
LEMMA PlanDaysFrom ==
    ASSUME NEW freq \in Frequencies, NEW first \in Int, NEW count, NEW open
    PROVE  DaysFrom(PlanDays(freq, first, count, open), first)
<1>1. \/ PlanDays(freq, first, count, open) = OpenDays(first, count, open)
      \/ \E kind, at : PlanDays(freq, first, count, open) = Cadenced(kind, at, first, count)
  BY DEF PlanDays, Frequencies
<1> QED BY <1>1, OpenDaysFrom, CadencedFrom

\* Visits a whole number of weeks after a day.
LEMMA WeeksLater ==
    ASSUME NEW last \in Int, NEW w \in Nat, w > 0, NEW count
    PROVE  DaysFrom({last + w * i : i \in 1 .. count}, last + 1) \/ count \notin Int
<1> SUFFICES ASSUME count \in Int PROVE DaysFrom({last + w * i : i \in 1 .. count}, last + 1)
  OBVIOUS
<1>1. PICK S : S = {last + w * i : i \in 1 .. count}
  OBVIOUS
<1>2. IsFiniteSet(S)
  <2>1. PICK f : f = [i \in 1 .. count |-> last + w * i]
    OBVIOUS
  <2>2. S = {f[i] : i \in 1 .. count} /\ f \in [1 .. count -> S]
    BY <1>1, <2>1
  <2>3. f \in Surjection(1 .. count, S)
    BY <2>2 DEF Surjection
  <2>4. IsFiniteSet(1 .. count)
    BY FS_Interval
  <2> QED BY ONLY <2>3, <2>4, FS_Surjection
<1>3. \A d \in S : d \in Int /\ last + 1 <= d
  <2>1. ASSUME NEW i \in 1 .. count PROVE w * i \in Int /\ w * i >= 1
    <3>1. i \in Nat /\ i >= 1
      OBVIOUS
    <3> QED BY <3>1
  <2>2. ASSUME NEW d \in S PROVE d \in Int /\ last + 1 <= d
    <3>1. PICK i \in 1 .. count : d = last + w * i
      BY <1>1
    <3> QED BY <2>1, <3>1
  <2> QED BY <2>2
<1> QED BY <1>1, <1>2, <1>3 DEF DaysFrom

\* continueDays(): EXTEND plans after the last session only.
LEMMA ContinueDaysFrom ==
    ASSUME NEW freq \in Frequencies, NEW anchor, NEW last \in Int, NEW count \in Int, NEW open
    PROVE  DaysFrom(ContinueDays(freq, anchor, last, count, open), last + 1)
<1>1. last + 1 \in Int /\ DaysPerWeek \in Nat /\ DaysPerWeek > 0
      /\ 2 * DaysPerWeek \in Nat /\ 2 * DaysPerWeek > 0
  BY RecurrenceAssumption
<1>2. /\ DaysFrom({last + DaysPerWeek * i : i \in 1 .. count}, last + 1)
      /\ DaysFrom({last + 2 * DaysPerWeek * i : i \in 1 .. count}, last + 1)
  BY <1>1, WeeksLater
<1>3. \/ ContinueDays(freq, anchor, last, count, open) = OpenDays(last + 1, count, open)
      \/ ContinueDays(freq, anchor, last, count, open) = {last + DaysPerWeek * i : i \in 1 .. count}
      \/ ContinueDays(freq, anchor, last, count, open) = {last + 2 * DaysPerWeek * i : i \in 1 .. count}
      \/ \E kind, at : ContinueDays(freq, anchor, last, count, open) = Cadenced(kind, at, last + 1, count)
  BY Zenon DEF ContinueDays, Frequencies
<1>4. PICK X : X = ContinueDays(freq, anchor, last, count, open)
  OBVIOUS
<1>5. CASE X = OpenDays(last + 1, count, open)
  BY <1>1, <1>4, <1>5, OpenDaysFrom
<1>6. CASE \E kind, at : X = Cadenced(kind, at, last + 1, count)
  BY <1>1, <1>4, <1>6, CadencedFrom
<1>7. CASE \/ X = {last + DaysPerWeek * i : i \in 1 .. count}
           \/ X = {last + 2 * DaysPerWeek * i : i \in 1 .. count}
  BY ONLY <1>2, <1>4, <1>7, Zenon
<1> QED BY ONLY <1>3, <1>4, <1>5, <1>6, <1>7, Zenon

\* The next day with the anchor's weekday is not before `from`.
LEMMA SameWeekdayFrom ==
    ASSUME NEW anchor \in Int, NEW from \in Int
    PROVE  SameWeekday(anchor, from) \in Int /\ from <= SameWeekday(anchor, from)
<1>1. DaysPerWeek \in Nat /\ DaysPerWeek > 0
  BY RecurrenceAssumption
<1>2. WeekdayOf(anchor) \in Int /\ WeekdayOf(from) \in Int
  BY <1>1 DEF WeekdayOf
<1>3. PICK x \in Int : x = WeekdayOf(anchor) - WeekdayOf(from) + DaysPerWeek
  BY <1>1, <1>2
<1>4. x % DaysPerWeek \in 0 .. DaysPerWeek - 1
  BY <1>1
<1> QED BY <1>1, <1>3, <1>4 DEF SameWeekday

\* replanFrom(): no day before `from`, whatever the frequency.
LEMMA ReplanDaysFrom ==
    ASSUME NEW freq \in Frequencies, NEW anchor \in Int, NEW remaining, NEW from \in Int, NEW open
    PROVE  DaysFrom(ReplanFrom(freq, anchor, remaining, from, open), from)
<1>1. SameWeekday(anchor, from) \in Int /\ from <= SameWeekday(anchor, from)
  BY SameWeekdayFrom
<1>2. \/ ReplanFrom(freq, anchor, remaining, from, open) = {}
      \/ \E c : ReplanFrom(freq, anchor, remaining, from, open) = OpenDays(from, c, open)
      \/ \E kind, at, c : ReplanFrom(freq, anchor, remaining, from, open)
                            = Cadenced(kind, at, SameWeekday(anchor, from), c)
      \/ \E kind, at, c : ReplanFrom(freq, anchor, remaining, from, open) = Cadenced(kind, at, from, c)
  BY Zenon DEF ReplanFrom, Frequencies
<1>3. CASE ReplanFrom(freq, anchor, remaining, from, open) = {}
  BY <1>3, FS_EmptySet DEF DaysFrom
<1>4. ASSUME NEW S, DaysFrom(S, SameWeekday(anchor, from)) PROVE DaysFrom(S, from)
  BY <1>1, <1>4 DEF DaysFrom
<1> QED BY <1>1, <1>2, <1>3, <1>4, OpenDaysFrom, CadencedFrom

\* resumeDays(): the same when RESUME switches the frequency.
LEMMA ResumeDaysFrom ==
    ASSUME NEW freq \in Frequencies, NEW newFreq \in Switches, NEW anchor \in Int,
           NEW remaining, NEW from \in Int, NEW open
    PROVE  DaysFrom(ResumeDays(freq, anchor, newFreq, remaining, from, open), from)
<1>1. PICK f \in Frequencies, a \in Int :
        ResumeDays(freq, anchor, newFreq, remaining, from, open) = ReplanFrom(f, a, remaining, from, open)
  BY Zenon DEF ResumeDays, Switches
<1> QED BY <1>1, ReplanDaysFrom

\* The members of a finite set in their order: each once, and all of them.
Lists(a, S) ==
    /\ \E n \in Nat : a \in [1 .. n -> S]
    /\ \A d \in S : \E k \in DOMAIN a : a[k] = d
    /\ \A k, l \in DOMAIN a : a[k] = a[l] => k = l

\* Ascending lists every member of a finite set of days once.
LEMMA Ascends ==
    ASSUME NEW S, IsFiniteSet(S), S \subseteq Int
    PROVE  Lists(Ascending(S), S)
<1> DEFINE a == Ascending(S)
<1> HIDE DEF a
<1>1. PICK n : n = Cardinality(S) /\ n \in Nat
  BY FS_CardinalityType
<1>2. PICK B : B = [d \in S |-> {e \in S : e < d}]
  OBVIOUS
<1>3. IsOrder(B, S)
  <2>1. \A d \in S : \A x : x \in B[d] <=> x \in S /\ x < d
    BY <1>2
  <2>2. \A d, e \in S : ~(d < d) /\ (d # e => d < e \/ e < d)
    OBVIOUS
  <2>3. \A d, e, f \in S : d < e /\ e < f => d < f
    OBVIOUS
  <2> QED BY ONLY <2>1, <2>2, <2>3 DEF IsOrder
<1>4. /\ \A d \in S : Cardinality(B[d]) \in 0 .. n - 1
      /\ \A d, e \in S : d # e => Cardinality(B[d]) # Cardinality(B[e])
  BY <1>1, <1>3, RanksDiffer
<1>5. PICK rank : rank = [d \in S |-> Cardinality(B[d])]
  OBVIOUS
<1>6. rank \in Injection(S, 0 .. n - 1)
  BY <1>4, <1>5 DEF Injection, IsInjective
<1>7. IsFiniteSet(0 .. n - 1) /\ Cardinality(0 .. n - 1) = n
  <2>1. n \in Nat /\ n - 1 \in Int
    BY <1>1
  <2> QED BY ONLY <2>1, FS_Interval
<1>8. rank \in Surjection(S, 0 .. n - 1)
  BY <1>1, <1>6, <1>7, FS_Injection
<1>9. \A t \in 0 .. n - 1 : \E d \in S : rank[d] = t
  BY <1>8 DEF Surjection
<1> DEFINE R(k) == CHOOSE d \in S : Cardinality({e \in S : e < d}) = k - 1
<1>0. a = [k \in 1 .. n |-> R(k)]
  BY <1>1, Zenon DEF Ascending, a
<1>11. \A d \in S : rank[d] = Cardinality({e \in S : e < d})
  BY <1>2, <1>5
<1>12. ASSUME NEW k \in 1 .. n PROVE a[k] \in S /\ rank[a[k]] = k - 1
  <2>1. k - 1 \in 0 .. n - 1
    BY <1>1
  <2>2. \E d \in S : Cardinality({e \in S : e < d}) = k - 1
    BY <2>1, <1>9, <1>11
  <2>3. R(k) \in S /\ Cardinality({e \in S : e < R(k)}) = k - 1
    BY <2>2, Zenon
  <2> HIDE DEF R
  <2>4. a[k] = R(k)
    BY <1>0
  <2> QED BY <2>3, <2>4, <1>11
<1> HIDE DEF R
<1>10. DOMAIN a = 1 .. n
  BY <1>0
<1>13. a \in [1 .. n -> S]
  BY <1>0, <1>12
<1>14. ASSUME NEW d \in S PROVE \E k \in 1 .. n : a[k] = d
  <2>1. rank[d] \in 0 .. n - 1 /\ rank[d] + 1 \in 1 .. n /\ (rank[d] + 1) - 1 = rank[d]
    BY <1>1, <1>4, <1>5
  <2>2. a[rank[d] + 1] \in S /\ rank[a[rank[d] + 1]] = rank[d]
    BY <2>1, <1>12
  <2>3. a[rank[d] + 1] = d
    BY <2>2, <1>4, <1>5
  <2> QED BY <2>1, <2>3
<1>15. ASSUME NEW k \in 1 .. n, NEW l \in 1 .. n, a[k] = a[l] PROVE k = l
  <2>1. k - 1 = l - 1
    BY <1>12, <1>15
  <2> QED BY <2>1
<1>16. Lists(a, S)
  BY <1>1, <1>10, <1>13, <1>14, <1>15 DEF Lists
<1> QED BY <1>16 DEF a

\* A finite set of days that is not empty has a last one and a first one.
LEMMA Extremes ==
    ASSUME NEW S, IsFiniteSet(S), S \subseteq Int, S # {}
    PROVE  /\ \E d \in S : \A e \in S : e <= d
           /\ \E d \in S : \A e \in S : d <= e
<1> DEFINE Q == {T \in SUBSET S : T # {} => /\ \E d \in T : \A e \in T : e <= d
                                            /\ \E d \in T : \A e \in T : d <= e}
<1>1. {} \in Q
  OBVIOUS
<1>2. ASSUME NEW T \in SUBSET S, NEW x \in S \ T, T \in Q PROVE T \cup {x} \in Q
  <2>1. CASE T = {}
    BY <2>1
  <2>2. CASE T # {}
    <3>1. PICK d \in T, f \in T : \A e \in T : f <= e /\ e <= d
      BY <1>2, <2>2
    <3>2. d \in Int /\ f \in Int /\ x \in Int /\ \A e \in T : e \in Int
      OBVIOUS
    <3>3. \A e \in T \cup {x} : e <= (IF x <= d THEN d ELSE x) /\ (IF f <= x THEN f ELSE x) <= e
      BY <3>1, <3>2
    <3>4. (IF x <= d THEN d ELSE x) \in T \cup {x} /\ (IF f <= x THEN f ELSE x) \in T \cup {x}
      OBVIOUS
    <3> QED BY <3>3, <3>4
  <2> QED BY <2>1, <2>2
<1>3. S \in Q
  <2> HIDE DEF Q
  <2>1. ASSUME NEW T \in SUBSET S, NEW x \in T, T \ {x} \in Q PROVE T \in Q
    <3>1. T \ {x} \in SUBSET S /\ x \in S \ (T \ {x}) /\ (T \ {x}) \cup {x} = T
      OBVIOUS
    <3>2. (T \ {x}) \cup {x} \in Q
      BY ONLY <1>2, <2>1, <3>1
    <3> QED BY ONLY <3>1, <3>2
  <2>2. SUBSET S \subseteq Q
    BY <1>1, <2>1, SetInduction
  <2> QED BY <2>2
<1> QED BY <1>3

\* The latest of some days is one of them and no other is later.
LEMMA LatestIsLast ==
    ASSUME NEW S, IsFiniteSet(S), S \subseteq Int, S # {}
    PROVE  Latest(S) \in S /\ Latest(S) \in Int /\ \A e \in S : e <= Latest(S)
<1>1. \E d \in S : \A e \in S : e <= d
  BY Extremes
<1> QED BY <1>1, Zenon DEF Latest

-----------------------------------------------------------------------------
(* One customer's requests *)

\* The fields of the routine's row.
RowFields == {"status", "freq", "anchor", "until", "missAfter"}
\* The row is written out, its frequency one of the four.
RowFits(row) == /\ RowFields \subseteq DOMAIN row /\ row.anchor \in Int
                /\ row.status # "none" => row.freq \in Frequencies

\* A visit that happened or was missed is not in the future.
VisitsFit(vv, d) ==
    /\ IsSequence(vv) /\ 0 \notin DOMAIN vv
    /\ \A v \in DOMAIN vv : /\ {"day", "status"} \subseteq DOMAIN vv[v] /\ vv[v].day \in Int
                            /\ vv[v].status \in {"visited", "missed"} => vv[v].day <= d

\* A session has a day, and a booking that there is or none.
SessionsFit(ss, vv) ==
    /\ IsSequence(ss)
    /\ \A s \in DOMAIN ss : /\ {"day", "bk", "state"} \subseteq DOMAIN ss[s] /\ ss[s].day \in Int
                            /\ ss[s].bk \in {0} \cup DOMAIN vv

\* factsOf(): the booking's day when there is one.
DayIn(ss, vv, s) == IF ss[s].bk # 0 THEN vv[ss[s].bk].day ELSE ss[s].day
\* The session did or will happen.
Counts(ss, vv, s) ==
    ss[s].state # "skipped" /\ (ss[s].bk = 0 \/ vv[ss[s].bk].status # "cancelled")

\* No booking is two sessions', and
LinksApart(ss) ==
    \A s, u \in DOMAIN ss : s # u /\ ss[s].bk = ss[u].bk => ss[s].bk = 0
\* no two sessions that count are on a day.
DaysApart(ss, vv) ==
    \A s, u \in DOMAIN ss : s # u /\ Counts(ss, vv, s) /\ Counts(ss, vv, u) =>
      DayIn(ss, vv, s) # DayIn(ss, vv, u)

\* What a request will save or give back.
KeptBy(h) == {m[2] : m \in h.made} \cup {v \in h.drop : h.pc = "release"}
\* Every booking that stands is a session's or in the hand.
Owned(h, ss, vv) ==
    \A v \in DOMAIN vv : vv[v].status = "booked" =>
      (\E s \in DOMAIN ss : ss[s].bk = v) \/ v \in KeptBy(h)

\* The new days are clear of every session but those they replace.
Clear(h, ss, vv) ==
    \A u \in DOMAIN ss : Counts(ss, vv, u) /\ (\A i \in DOMAIN h.ids : h.ids[i] # u) =>
      \A k \in DOMAIN h.days : DayIn(ss, vv, u) # h.days[k]

\* Each booking, kept or made, stands for one of the new days.
PairsFit(h, vv) ==
    /\ \A m \in h.keep \cup h.made : /\ m[1] \in DOMAIN h.days \ h.todo /\ m[2] \in DOMAIN vv
                                     /\ vv[m[2]].day = h.days[m[1]]
    /\ \A m, n \in h.keep \cup h.made : m[1] = n[1] \/ m[2] = n[2] => m = n

\* What a change of several sessions overwrites is kept or given up.
ReplaceFits(h, ss, vv) ==
    /\ DOMAIN h.ids = DOMAIN h.days
    /\ \A i \in DOMAIN h.ids : \/ ss[h.ids[i]].bk \in {0} \cup h.drop
                               \/ \E m \in h.keep : m[2] = ss[h.ids[i]].bk
    /\ \A m \in h.keep : \E i \in DOMAIN h.ids : ss[h.ids[i]].bk = m[2]
    /\ h.drop \subseteq DOMAIN vv

\* What the kinds of request know until they write.
KindFits(h, ss, vv, row) ==
    \/ /\ h.kind = "create" /\ row.status = "none" /\ h.keep = {}
       /\ h.after.freq \in Frequencies /\ h.after.anchor \in Int
    \/ h.kind = "extend" /\ row.status # "none" /\ h.keep = {} /\ DOMAIN h.ids = {}
    \/ /\ h.kind \in {"pause", "resume"} /\ ReplaceFits(h, ss, vv)
       /\ RowFits(h.after) /\ h.after.status # "none"
    \/ /\ h.kind = "link" /\ h.keep = {} /\ DOMAIN h.days = {1}
       /\ DOMAIN h.ids = {1}

\* A request that books: its days are apart and clear.
BookingFits(h, ss, vv, row) ==
    /\ h.pc = "book" /\ h.due = {}
    /\ IsSequence(h.days) /\ h.todo \subseteq DOMAIN h.days
    /\ \A k \in DOMAIN h.days : h.days[k] \in Int
    /\ \A k, l \in DOMAIN h.days : h.days[k] = h.days[l] => k = l
    /\ \A i \in DOMAIN h.ids : h.ids[i] \in DOMAIN ss
    /\ \A i, j \in DOMAIN h.ids : h.ids[i] = h.ids[j] => i = j
    /\ PairsFit(h, vv) /\ Clear(h, ss, vv)
    /\ \A m \in h.made : \A s \in DOMAIN ss : ss[s].bk # m[2]
    /\ KindFits(h, ss, vv, row)

\* One session is skipped or moved.
OneFits(h, ss, vv) ==
    /\ h.made = {} /\ h.ids[1] \in DOMAIN ss
    /\ \/ h.pc = "skip" /\ ss[h.ids[1]].bk # 0 /\ h.drop = {ss[h.ids[1]].bk}
       \/ h.pc = "mark" /\ (ss[h.ids[1]].bk # 0 => vv[ss[h.ids[1]].bk].status # "booked")
       \/ /\ h.pc = "move" /\ ss[h.ids[1]].bk # 0 /\ h.keep = {<<1, ss[h.ids[1]].bk>>}
          /\ DOMAIN h.days = {1} /\ h.days[1] \in Int
          /\ DOMAIN h.ids = {1} /\ Clear(h, ss, vv)
       \/ h.pc = "moved" /\ ss[h.ids[1]].bk # 0 /\ h.days[1] \in Int

\* A request under way.
AskFits(h, ss, vv, row) ==
    /\ HandFields \subseteq DOMAIN h
    /\ \/ BookingFits(h, ss, vv, row)
       \/ OneFits(h, ss, vv)
       \/ h.pc = "release" /\ h.made = {} /\ h.due = {}
       \/ h.pc = "cancel" /\ h.made = {}

\* The routine and the one request under way, as they should be: the
\* invariant of ChangesKeepVisitsApart.
Fits(h, ss, vv, row, d) ==
    /\ d \in Int /\ RowFits(row) /\ VisitsFit(vv, d) /\ SessionsFit(ss, vv)
    /\ row.status = "none" => DOMAIN ss = {}
    /\ LinksApart(ss) /\ DaysApart(ss, vv) /\ Owned(h, ss, vv)
    /\ h = Idle \/ AskFits(h, ss, vv, row)

-----------------------------------------------------------------------------
(* What happens to bookings meanwhile *)

\* Bookings are called off, happen or are missed; none is added or moved.
Calms(vv, ww, d) ==
    /\ IsSequence(ww) /\ DOMAIN ww = DOMAIN vv
    /\ \A v \in DOMAIN vv :
         /\ {"day", "status"} \subseteq DOMAIN ww[v] /\ ww[v].day = vv[v].day
         /\ \/ ww[v].status = vv[v].status
            \/ vv[v].status = "booked" /\ ww[v].status = "cancelled"
            \/ /\ vv[v].status = "booked" /\ ww[v].status \in {"visited", "missed"}
               /\ vv[v].day <= d

\* A request stays right while bookings are called off or happen.
LEMMA CalmKeepsHand ==
    ASSUME NEW h, NEW ss, NEW vv, NEW ww, NEW row, NEW d, NEW e,
           SessionsFit(ss, vv), AskFits(h, ss, vv, row), Calms(vv, ww, e)
    PROVE  AskFits(h, ss, ww, row)
<1>1. \A s \in DOMAIN ss : ss[s].bk \in {0} \cup DOMAIN vv
  BY DEF SessionsFit
<1>2. \A s \in DOMAIN ss : /\ DayIn(ss, ww, s) = DayIn(ss, vv, s)
                           /\ Counts(ss, ww, s) => Counts(ss, vv, s)
  BY <1>1 DEF Calms, DayIn, Counts
<1>3. Clear(h, ss, vv) => Clear(h, ss, ww)
  BY <1>2 DEF Clear
<1>4. PairsFit(h, vv) => PairsFit(h, ww)
  BY DEF PairsFit, Calms
<1>5. ReplaceFits(h, ss, vv) => ReplaceFits(h, ss, ww)
  BY DEF ReplaceFits, Calms
<1>6. KindFits(h, ss, vv, row) => KindFits(h, ss, ww, row)
  BY <1>5 DEF KindFits
<1>7. BookingFits(h, ss, vv, row) => BookingFits(h, ss, ww, row)
  BY <1>3, <1>4, <1>6 DEF BookingFits
<1>8. OneFits(h, ss, vv) => OneFits(h, ss, ww)
  BY <1>1, <1>3 DEF OneFits, Calms
<1> QED BY <1>7, <1>8 DEF AskFits

\* And so does the routine.
LEMMA CalmKeeps ==
    ASSUME NEW h, NEW ss, NEW vv, NEW ww, NEW row, NEW d, NEW e \in Int, d <= e,
           Fits(h, ss, vv, row, d), Calms(vv, ww, e)
    PROVE  Fits(h, ss, ww, row, e)
<1>1. SessionsFit(ss, vv) /\ VisitsFit(vv, d) /\ d \in Int
  BY DEF Fits
<1>2. SessionsFit(ss, ww)
  BY <1>1 DEF SessionsFit, Calms
<1>3. VisitsFit(ww, e)
  BY <1>1 DEF VisitsFit, Calms
<1>4. \A s \in DOMAIN ss : /\ DayIn(ss, ww, s) = DayIn(ss, vv, s)
                           /\ Counts(ss, ww, s) => Counts(ss, vv, s)
  BY <1>1 DEF Calms, DayIn, Counts, SessionsFit
<1>5. DaysApart(ss, ww)
  BY <1>4 DEF Fits, DaysApart
<1>6. Owned(h, ss, ww)
  BY DEF Fits, Owned, Calms
<1>7. h = Idle \/ AskFits(h, ss, ww, row)
  BY <1>1, CalmKeepsHand DEF Fits
<1> QED BY <1>2, <1>3, <1>5, <1>6, <1>7 DEF Fits

\* Another hand for the same routine: it keeps what stands and has no row.
LEMMA HandTurns ==
    ASSUME NEW g, NEW h, NEW ss, NEW vv, NEW row, NEW d, Fits(g, ss, vv, row, d),
           h = Idle \/ AskFits(h, ss, vv, row),
           \A v \in KeptBy(g) \ KeptBy(h) : v \in DOMAIN vv => vv[v].status # "booked"
    PROVE  Fits(h, ss, vv, row, d)
<1>1. Owned(h, ss, vv)
  BY DEF Fits, Owned
<1> QED BY <1>1 DEF Fits

-----------------------------------------------------------------------------
(* The rows are saved *)

\* The booking of a row, by the pairs of the hand.
BookingFor(h, k) ==
    LET m == {x \in h.keep \cup h.made : x[1] = k}
    IN IF m = {} THEN 0 ELSE (CHOOSE x \in m : TRUE)[2]
\* The row a request writes.
RowFor(h, k) == [day |-> h.days[k], bk |-> BookingFor(h, k),
                 state |-> IF BookingFor(h, k) = 0 THEN "planned" ELSE "materialised"]

\* The booking of a new row is the one its pair says.
LEMMA PairOfRow ==
    ASSUME NEW h, NEW vv, PairsFit(h, vv), NEW k
    PROVE  /\ \A m \in h.keep \cup h.made : m[1] = k => BookingFor(h, k) = m[2]
           /\ BookingFor(h, k) # 0 => \E m \in h.keep \cup h.made : m[1] = k /\ BookingFor(h, k) = m[2]
<1>1. PICK M : M = {x \in h.keep \cup h.made : x[1] = k}
  OBVIOUS
<1>2. BookingFor(h, k) = IF M = {} THEN 0 ELSE (CHOOSE x \in M : TRUE)[2]
  BY <1>1 DEF BookingFor
<1>3. ASSUME NEW m \in h.keep \cup h.made, m[1] = k PROVE BookingFor(h, k) = m[2]
  <2>1. M # {} /\ \A x \in M : x = m
    BY <1>1, <1>3 DEF PairsFit
  <2>2. (CHOOSE x \in M : TRUE) = m
    BY <2>1
  <2> QED BY <2>1, <2>2, <1>2
<1>4. ASSUME BookingFor(h, k) # 0
      PROVE  \E m \in h.keep \cup h.made : m[1] = k /\ BookingFor(h, k) = m[2]
  <2>1. PICK m \in M : TRUE
    BY <1>2, <1>4
  <2> QED BY <2>1, <1>1, <1>3
<1> QED BY <1>3, <1>4

\* tt is ss with the rows of h where at says, over the sessions h.ids or new.
Saved(h, ss, tt, at) ==
    /\ IsSequence(tt) /\ DOMAIN ss \subseteq DOMAIN tt
    /\ \A k \in DOMAIN h.days : at[k] \in DOMAIN tt /\ tt[at[k]] = RowFor(h, k)
    /\ \A k, l \in DOMAIN h.days : at[k] = at[l] => k = l
    /\ \A u \in DOMAIN tt : \/ \E k \in DOMAIN h.days : at[k] = u
                            \/ /\ u \in DOMAIN ss /\ tt[u] = ss[u]
                               /\ \A i \in DOMAIN h.ids : h.ids[i] # u
    /\ \A k \in DOMAIN h.days : at[k] \in DOMAIN ss => \E i \in DOMAIN h.ids : h.ids[i] = at[k]

\* A request's rows are written: links and days stay apart, and every
\* booking that stands has a row or is in the hand that is left.
LEMMA SavedRows ==
    ASSUME NEW h, NEW ss, NEW vv, NEW row, NEW d, NEW tt, NEW at, NEW g, NEW new,
           Fits(h, ss, vv, row, d), BookingFits(h, ss, vv, row), Saved(h, ss, tt, at),
           \A i \in DOMAIN h.ids : \/ ss[h.ids[i]].bk \in {0} \cup KeptBy(g)
                                   \/ \E m \in h.keep : m[2] = ss[h.ids[i]].bk,
           \A m \in h.keep : \E i \in DOMAIN h.ids : ss[h.ids[i]].bk = m[2],
           \A v \in KeptBy(h) : \E m \in h.made : m[2] = v,
           RowFits(new), new.status # "none",
           g = Idle \/ AskFits(g, tt, vv, new)
    PROVE  Fits(g, tt, vv, new, d)
<1>1. PairsFit(h, vv) /\ Clear(h, ss, vv)
  BY DEF BookingFits
<1> DEFINE M == h.keep \cup h.made
<1>2. \A m \in M : m[1] \in DOMAIN h.days /\ m[2] \in DOMAIN vv /\ vv[m[2]].day = h.days[m[1]]
  BY <1>1 DEF PairsFit
<1>3. \A m, n \in M : m[1] = n[1] \/ m[2] = n[2] => m = n
  BY <1>1 DEF PairsFit
<1>4. SessionsFit(ss, vv) /\ VisitsFit(vv, d) /\ d \in Int
  BY DEF Fits
<1>5. 0 \notin DOMAIN vv
  BY <1>4 DEF VisitsFit
<1>6. ASSUME NEW k \in DOMAIN h.days
      PROVE  /\ at[k] \in DOMAIN tt /\ tt[at[k]].day = h.days[k] /\ tt[at[k]].day \in Int
             /\ {"day", "bk", "state"} \subseteq DOMAIN tt[at[k]]
             /\ \A m \in M : m[1] = k => tt[at[k]].bk = m[2]
             /\ tt[at[k]].bk # 0 => \E m \in M : m[1] = k /\ tt[at[k]].bk = m[2]
  <2>1. at[k] \in DOMAIN tt /\ tt[at[k]] = RowFor(h, k) /\ h.days[k] \in Int
    BY DEF Saved, BookingFits
  <2>2. /\ tt[at[k]].day = h.days[k] /\ tt[at[k]].bk = BookingFor(h, k)
        /\ {"day", "bk", "state"} \subseteq DOMAIN tt[at[k]]
    BY <2>1 DEF RowFor
  <2>3. /\ \A m \in M : m[1] = k => BookingFor(h, k) = m[2]
        /\ BookingFor(h, k) # 0 => \E m \in M : m[1] = k /\ BookingFor(h, k) = m[2]
    BY <1>1, PairOfRow
  <2> QED BY <2>1, <2>2, <2>3
<1>7. ASSUME NEW k \in DOMAIN h.days PROVE DayIn(tt, vv, at[k]) = h.days[k]
  BY <1>2, <1>6 DEF DayIn
<1>8. ASSUME NEW u \in DOMAIN tt
      PROVE  \/ \E k \in DOMAIN h.days : at[k] = u
             \/ /\ u \in DOMAIN ss /\ tt[u] = ss[u]
                /\ \A i \in DOMAIN h.ids : h.ids[i] # u
  BY DEF Saved
<1>9. SessionsFit(tt, vv)
  <2>1. ASSUME NEW u \in DOMAIN tt
        PROVE  /\ {"day", "bk", "state"} \subseteq DOMAIN tt[u] /\ tt[u].day \in Int
               /\ tt[u].bk \in {0} \cup DOMAIN vv
    <3>1. CASE \E k \in DOMAIN h.days : at[k] = u
      BY <3>1, <1>2, <1>6
    <3>2. CASE u \in DOMAIN ss /\ tt[u] = ss[u]
      BY <3>2, <1>4 DEF SessionsFit
    <3> QED BY <3>1, <3>2, <1>8
  <2> QED BY <2>1 DEF SessionsFit, Saved
<1>10. \* A session that stays has none of the bookings of the new rows.
       ASSUME NEW u \in DOMAIN ss, \A i \in DOMAIN h.ids : h.ids[i] # u, NEW m \in M, ss[u].bk = m[2]
       PROVE  FALSE
  <2>1. CASE m \in h.made
    BY <2>1, <1>10 DEF BookingFits
  <2>2. CASE m \in h.keep
    <3>1. PICK i \in DOMAIN h.ids : ss[h.ids[i]].bk = m[2]
      BY <2>2
    <3>2. h.ids[i] \in DOMAIN ss /\ h.ids[i] # u
      BY <1>10 DEF BookingFits
    <3> QED BY <3>1, <3>2, <1>2, <1>5, <1>10 DEF Fits, LinksApart
  <2> QED BY <2>1, <2>2
<1>11. LinksApart(tt)
  <2> SUFFICES ASSUME NEW s \in DOMAIN tt, NEW u \in DOMAIN tt, s # u, tt[s].bk = tt[u].bk, tt[s].bk # 0
               PROVE  FALSE
    BY DEF LinksApart
  <2>1. ASSUME NEW k \in DOMAIN h.days, NEW l \in DOMAIN h.days, at[k] = s, at[l] = u PROVE FALSE
    BY <2>1, <1>3, <1>6
  <2>2. ASSUME NEW k \in DOMAIN h.days, at[k] = s, u \in DOMAIN ss, tt[u] = ss[u],
               \A i \in DOMAIN h.ids : h.ids[i] # u PROVE FALSE
    BY <2>2, <1>6, <1>10
  <2>3. ASSUME NEW k \in DOMAIN h.days, at[k] = u, s \in DOMAIN ss, tt[s] = ss[s],
               \A i \in DOMAIN h.ids : h.ids[i] # s PROVE FALSE
    BY <2>3, <1>6, <1>10
  <2>4. ASSUME s \in DOMAIN ss, tt[s] = ss[s], u \in DOMAIN ss, tt[u] = ss[u] PROVE FALSE
    BY <2>4 DEF Fits, LinksApart
  <2> QED BY <2>1, <2>2, <2>3, <2>4, <1>8
<1>12. DaysApart(tt, vv)
  <2> SUFFICES ASSUME NEW s \in DOMAIN tt, NEW u \in DOMAIN tt, s # u,
                      Counts(tt, vv, s), Counts(tt, vv, u), DayIn(tt, vv, s) = DayIn(tt, vv, u)
               PROVE  FALSE
    BY DEF DaysApart
  <2>0. ASSUME NEW x \in DOMAIN tt, x \in DOMAIN ss, tt[x] = ss[x]
        PROVE  DayIn(tt, vv, x) = DayIn(ss, vv, x) /\ (Counts(tt, vv, x) => Counts(ss, vv, x))
    BY <2>0 DEF DayIn, Counts
  <2>1. ASSUME NEW k \in DOMAIN h.days, NEW l \in DOMAIN h.days, at[k] = s, at[l] = u PROVE FALSE
    BY <2>1, <1>7 DEF BookingFits
  <2>2. ASSUME NEW k \in DOMAIN h.days, at[k] = s, u \in DOMAIN ss, tt[u] = ss[u],
               \A i \in DOMAIN h.ids : h.ids[i] # u PROVE FALSE
    BY <2>0, <2>2, <1>1, <1>7 DEF Clear
  <2>3. ASSUME NEW k \in DOMAIN h.days, at[k] = u, s \in DOMAIN ss, tt[s] = ss[s],
               \A i \in DOMAIN h.ids : h.ids[i] # s PROVE FALSE
    BY <2>0, <2>3, <1>1, <1>7 DEF Clear
  <2>4. ASSUME s \in DOMAIN ss, tt[s] = ss[s], u \in DOMAIN ss, tt[u] = ss[u] PROVE FALSE
    BY <2>0, <2>4 DEF Fits, DaysApart
  <2> QED BY <2>1, <2>2, <2>3, <2>4, <1>8
<1>13. Owned(g, tt, vv)
  <2> SUFFICES ASSUME NEW v \in DOMAIN vv, vv[v].status = "booked", v \notin KeptBy(g)
               PROVE  \E s \in DOMAIN tt : tt[s].bk = v
    BY DEF Owned
  <2>1. ASSUME NEW m \in M, m[2] = v PROVE \E s \in DOMAIN tt : tt[s].bk = v
    BY <2>1, <1>2, <1>6
  <2>2. CASE v \in KeptBy(h)
    BY <2>1, <2>2
  <2>3. ASSUME NEW s \in DOMAIN ss, ss[s].bk = v PROVE \E u \in DOMAIN tt : tt[u].bk = v
    <3>1. CASE \E i \in DOMAIN h.ids : h.ids[i] = s
      BY <3>1, <2>1, <2>3, <1>5
    <3>2. CASE ~\E i \in DOMAIN h.ids : h.ids[i] = s
      <4>1. s \in DOMAIN tt
        BY DEF Saved
      <4>2. tt[s] = ss[s]
        BY <3>2, <4>1 DEF Saved
      <4> QED BY <4>1, <4>2, <2>3
    <3> QED BY <3>1, <3>2
  <2> QED BY <2>2, <2>3 DEF Fits, Owned
<1> QED BY <1>4, <1>9, <1>11, <1>12, <1>13 DEF Fits

\* The customer's request p leaves the routine as it should be.
AskMoves(p) ==
    /\ \E h : OnlyMoves(p, h)
    /\ Fits(proc'[p], sess', rv', rt', day')

\* A request that may be under way, and nobody else's.
Asking(p) == p \in Procs /\ DOMAIN proc = Procs /\ Fits(proc[p], sess, rv, rt, day)

\* What a request under way has in hand, by its phase.
LEMMA Phases ==
    ASSUME NEW h, NEW ss, NEW vv, NEW row, h = Idle \/ AskFits(h, ss, vv, row), h.pc # "idle"
    PROVE  /\ HandFields \subseteq DOMAIN h
           /\ h.pc = "book" => BookingFits(h, ss, vv, row)
           /\ h.pc \in {"skip", "mark", "move", "moved"} => OneFits(h, ss, vv)
           /\ h.pc \in {"release", "cancel"} => h.made = {}
           /\ h.pc = "release" => h.due = {}
           /\ h.pc \in {"book", "skip", "mark", "move", "moved", "release", "cancel"}
<1>1. AskFits(h, ss, vv, row)
  <2>1. Idle.pc = "idle"
    BY DEF Idle
  <2> QED BY <2>1
<1>2. HandFields \subseteq DOMAIN h
  BY <1>1 DEF AskFits
<1>3. CASE BookingFits(h, ss, vv, row)
  BY <1>2, <1>3 DEF BookingFits
<1>4. CASE OneFits(h, ss, vv)
  BY <1>2, <1>4 DEF OneFits
<1> QED BY <1>1, <1>2, <1>3, <1>4 DEF AskFits

\* The same of the request in the state.
LEMMA PhaseOfAsking ==
    ASSUME NEW p, Asking(p), proc[p].pc # "idle"
    PROVE  /\ HandFields \subseteq DOMAIN proc[p]
           /\ proc[p].pc = "book" => BookingFits(proc[p], sess, rv, rt)
           /\ proc[p].pc \in {"skip", "mark", "move", "moved"} => OneFits(proc[p], sess, rv)
           /\ proc[p].pc \in {"release", "cancel"} => proc[p].made = {}
           /\ proc[p].pc = "release" => proc[p].due = {}
           /\ proc[p].pc \in {"book", "skip", "mark", "move", "moved", "release", "cancel"}
<1>1. proc[p] = Idle \/ AskFits(proc[p], sess, rv, rt)
  BY DEF Asking, Fits
<1> QED BY <1>1, Phases

\* Nothing in hand.
LEMMA IdleKeepsNothing == KeptBy(Idle) = {} /\ Idle.pc = "idle"
BY DEF KeptBy, Idle

\* A step of one request, and nobody else's.
LEMMA MovesOne ==
    ASSUME NEW p, NEW h, Asking(p), proc' = [proc EXCEPT ![p] = h]
    PROVE  OnlyMoves(p, h)
BY DEF Asking, OnlyMoves

\* One lemma per step of the request.  bookAll: the next session is booked.
LEMMA AskBookNext ==
    ASSUME NEW p, Asking(p), BookNext(p), day' = day
    PROVE  AskMoves(p)
<1> DEFINE k == Lowest(proc[p].todo)
           n == Len(rv) + 1
           e == [day |-> proc[p].days[k], status |-> "booked"]
<1>1. proc[p].pc = "book" /\ proc[p].todo # {}
  BY DEF BookNext
<1>2. HandFields \subseteq DOMAIN proc[p] /\ BookingFits(proc[p], sess, rv, rt)
  BY <1>1, PhaseOfAsking
<1>3. k \in proc[p].todo /\ k \in DOMAIN proc[p].days /\ proc[p].days[k] \in Int
  <2>1. IsSequence(proc[p].days) /\ proc[p].todo \subseteq DOMAIN proc[p].days
    BY <1>2 DEF BookingFits
  <2>2. DOMAIN proc[p].days \subseteq Nat
    BY <2>1 DEF IsSequence
  <2>3. k \in proc[p].todo
    BY <1>1, <2>1, <2>2, LowestIsIn
  <2> QED BY <1>2, <2>1, <2>3 DEF BookingFits
<1>4. /\ VisitsFit(rv, day) /\ SessionsFit(sess, rv) /\ DOMAIN proc = Procs /\ p \in Procs
  BY DEF Asking, Fits
<1>5. /\ rv' = Append(rv, e) /\ UNCHANGED <<rt, sess>>
      /\ proc' = [proc EXCEPT ![p].todo = @ \ {k}, ![p].made = @ \cup {<<k, n>>}]
  BY DEF BookNext
<1>6. /\ IsSequence(rv') /\ DOMAIN rv' = DOMAIN rv \cup {n}
      /\ \A i \in DOMAIN rv : rv'[i] = rv[i]
      /\ rv'[n] = e /\ n \notin DOMAIN rv /\ n # 0 /\ 0 \notin DOMAIN rv
  <2> HIDE DEF e
  <2>0. IsSequence(rv)
    BY <1>4 DEF VisitsFit
  <2>1. PICK w : /\ w = Append(rv, e) /\ IsSequence(w)
                 /\ DOMAIN w = DOMAIN rv \cup {Len(rv) + 1}
                 /\ \A i \in DOMAIN rv : w[i] = rv[i]
                 /\ w[Len(rv) + 1] = e /\ Len(rv) + 1 \notin DOMAIN rv
                 /\ Len(rv) + 1 # 0 /\ 0 \notin DOMAIN rv
    BY ONLY <2>0, Appended
  <2> QED BY <2>1, <1>5, Zenon
<1>7. PICK h : h = [proc[p] EXCEPT !.todo = proc[p].todo \ {k}, !.made = proc[p].made \cup {<<k, n>>}]
  OBVIOUS
<1>8. OnlyMoves(p, h)
  BY <1>4, <1>5, <1>7 DEF OnlyMoves
<1> HIDE DEF n, k
<1>9. /\ HandFields \subseteq DOMAIN h /\ h.todo = proc[p].todo \ {k}
      /\ h.made = proc[p].made \cup {<<k, n>>}
      /\ h.pc = "book" /\ h.kind = proc[p].kind /\ h.days = proc[p].days /\ h.ids = proc[p].ids
      /\ h.keep = proc[p].keep /\ h.drop = proc[p].drop /\ h.due = proc[p].due
      /\ h.after = proc[p].after
  BY <1>1, <1>2, <1>7 DEF HandFields
<1>10. \A s \in DOMAIN sess : sess[s].bk \in {0} \cup DOMAIN rv
  BY <1>4 DEF SessionsFit
<1>11. \A s \in DOMAIN sess : /\ DayIn(sess, rv', s) = DayIn(sess, rv, s)
                              /\ Counts(sess, rv', s) => Counts(sess, rv, s)
  BY <1>6, <1>10 DEF DayIn, Counts
<1>12. VisitsFit(rv', day)
  BY <1>3, <1>4, <1>6 DEF VisitsFit
<1>13. SessionsFit(sess, rv')
  BY <1>4, <1>6 DEF SessionsFit
<1>14. DaysApart(sess, rv') /\ LinksApart(sess)
  BY <1>11 DEF Asking, Fits, DaysApart
<1>15. Owned(h, sess, rv')
  <2>1. <<k, n>> \in h.made /\ <<k, n>>[2] = n /\ \A m \in proc[p].made : m \in h.made
    BY <1>9
  <2>2. n \in KeptBy(h) /\ \A v \in KeptBy(proc[p]) : v \in KeptBy(h)
    BY <2>1, <1>1, <1>9 DEF KeptBy
  <2> QED BY <2>2, <1>6 DEF Asking, Fits, Owned
<1>16. PairsFit(h, rv')
  <2>1. PairsFit(proc[p], rv)
    BY <1>2 DEF BookingFits
  <2>2. \A m \in h.keep \cup h.made : m \in proc[p].keep \cup proc[p].made \/ m = <<k, n>>
    BY <1>9
  <2>3. \A m \in proc[p].keep \cup proc[p].made :
          /\ m[1] \in DOMAIN h.days \ h.todo /\ m[2] \in DOMAIN rv' /\ rv'[m[2]].day = h.days[m[1]]
          /\ m[1] # k /\ m[2] # n
    BY <2>1, <1>3, <1>6, <1>9 DEF PairsFit
  <2>4. /\ <<k, n>>[1] = k /\ <<k, n>>[2] = n /\ k \in DOMAIN h.days \ h.todo /\ n \in DOMAIN rv'
        /\ rv'[n].day = h.days[k]
    BY <1>3, <1>6, <1>9
  <2>5. ASSUME NEW m \in h.keep \cup h.made, NEW l \in h.keep \cup h.made, m[1] = l[1] \/ m[2] = l[2]
        PROVE  m = l
    BY <2>1, <2>2, <2>3, <2>4, <2>5 DEF PairsFit
  <2> QED BY <2>2, <2>3, <2>4, <2>5 DEF PairsFit
<1>17. Clear(h, sess, rv')
  BY <1>2, <1>9, <1>11 DEF BookingFits, Clear
<1>18. KindFits(h, sess, rv', rt)
  <2>1. KindFits(proc[p], sess, rv, rt)
    BY <1>2 DEF BookingFits
  <2>2. ReplaceFits(proc[p], sess, rv) => ReplaceFits(h, sess, rv')
    BY <1>6, <1>9 DEF ReplaceFits
  <2> QED BY <2>1, <2>2, <1>9 DEF KindFits
<1>19. \A m \in h.made : \A s \in DOMAIN sess : sess[s].bk # m[2]
  BY <1>2, <1>6, <1>9, <1>10 DEF BookingFits
<1>20. BookingFits(h, sess, rv', rt)
  BY <1>2, <1>9, <1>16, <1>17, <1>18, <1>19 DEF BookingFits
<1>21. Fits(h, sess, rv', rt, day)
  BY <1>9, <1>12, <1>13, <1>14, <1>15, <1>20 DEF Fits, AskFits, Asking
<1> QED BY <1>5, <1>8, <1>21 DEF AskMoves, OnlyMoves

\* A booking or the write failed: what was made is to be given back.
LEMMA AskGivesBack ==
    ASSUME NEW p, Asking(p), proc[p].pc = "book", proc' = [proc EXCEPT ![p] = GivingBack(p)],
           UNCHANGED <<rt, sess, rv, day>>
    PROVE  AskMoves(p)
<1>1. BookingFits(proc[p], sess, rv, rt) /\ proc[p].due = {}
  BY PhaseOfAsking DEF BookingFits
<1>2. PICK h : h = GivingBack(p)
  OBVIOUS
<1>3. OnlyMoves(p, h)
  BY <1>2, MovesOne
<1>4. KeptBy(proc[p]) = Made(p)
  BY DEF KeptBy, Made
<1>5. AfterFailure(p) = Idle
  BY <1>1 DEF AfterFailure
<1>6. (h = Idle \/ AskFits(h, sess, rv, rt)) /\ Made(p) \subseteq KeptBy(h)
  <2>1. CASE Made(p) = {}
    BY <2>1, <1>2, <1>5 DEF GivingBack
  <2>2. CASE Made(p) # {}
    <3>1. h = [Idle EXCEPT !.pc = "release", !.drop = Made(p)]
      BY <2>2, <1>2, <1>5 DEF GivingBack
    <3>2. /\ HandFields \subseteq DOMAIN h /\ h.pc = "release" /\ h.made = {} /\ h.due = {}
          /\ h.drop = Made(p)
      BY <3>1 DEF Idle, HandFields
    <3> QED BY <3>2 DEF AskFits, KeptBy
  <2> QED BY <2>1, <2>2
<1>7. Fits(h, sess, rv, rt, day)
  BY <1>4, <1>6, HandTurns DEF Asking
<1> QED BY <1>3, <1>7 DEF AskMoves, OnlyMoves

-----------------------------------------------------------------------------

\* The row a request writes, by its hand.
LEMMA RowIsFor ==
    ASSUME NEW p, NEW k
    PROVE  Row(p, k) = RowFor(proc[p], k)
<1>1. BookingAt(p, k) = BookingFor(proc[p], k)
  BY Zenon DEF BookingAt, BookingFor
<1> QED BY <1>1, Zenon DEF Row, RowFor

\* While it books, a request keeps what it made.
LEMMA KeptWhileBooking ==
    ASSUME NEW h, h.pc = "book"
    PROVE  \A v \in KeptBy(h) : \E m \in h.made : m[2] = v
BY DEF KeptBy

\* create(): the first rows.
LEMMA AskSaveNew ==
    ASSUME NEW p, Asking(p), SaveNew(p), day' = day
    PROVE  AskMoves(p)
<1> DEFINE h == proc[p]
<1>1. h.pc = "book" /\ h.kind = "create"
  BY DEF SaveNew, Ready
<1>2. BookingFits(h, sess, rv, rt) /\ Fits(h, sess, rv, rt, day)
  BY <1>1, PhaseOfAsking DEF Asking
<1>3. /\ rt.status = "none" /\ h.keep = {}
      /\ h.after.freq \in Frequencies /\ h.after.anchor \in Int
  BY <1>1, <1>2 DEF BookingFits, KindFits
<1>4. DOMAIN sess = {} /\ DOMAIN h.ids = {}
  BY <1>2, <1>3 DEF Fits, BookingFits
<1>5. /\ rt' = [rt EXCEPT !.status = "active", !.freq = h.after.freq, !.anchor = h.after.anchor]
      /\ sess' = Rows(p) /\ proc' = [proc EXCEPT ![p] = Idle] /\ UNCHANGED <<rv, day>>
  BY DEF SaveNew
<1>6. /\ DOMAIN sess' = DOMAIN h.days /\ sess' = [k \in DOMAIN h.days |-> sess'[k]]
      /\ \A k \in DOMAIN h.days : sess'[k] = RowFor(h, k)
  BY <1>5, RowIsFor DEF Rows
<1>7. IsSequence(sess')
  BY <1>2, <1>6, Rewritten DEF BookingFits
<1>8. PICK at : at = [k \in DOMAIN h.days |-> k]
  OBVIOUS
<1>9. Saved(h, sess, sess', at)
  BY <1>4, <1>6, <1>7, <1>8 DEF Saved
<1>10. RowFits(rt')
  BY <1>2, <1>3, <1>5 DEF RowFits, Fits, RowFields
<1>11. rt'.status # "none"
  BY <1>2, <1>5 DEF RowFits, Fits, RowFields
<1>12. \A v \in KeptBy(h) : \E m \in h.made : m[2] = v
  BY <1>1, KeptWhileBooking
<1> HIDE DEF h
<1>13. Fits(Idle, sess', rv, rt', day)
  BY <1>2, <1>3, <1>4, <1>9, <1>10, <1>11, <1>12, SavedRows
<1>14. OnlyMoves(p, Idle)
  BY <1>5, MovesOne
<1> QED BY <1>5, <1>13, <1>14 DEF AskMoves, OnlyMoves

\* A list put after another.
Follows(s, t, k) ==
    /\ k = s \o t /\ IsSequence(k) /\ DOMAIN s \subseteq DOMAIN k /\ Len(s) \in Nat
    /\ \A i \in DOMAIN s : k[i] = s[i]
    /\ \A i \in DOMAIN t : /\ Len(s) + i \in DOMAIN k \ DOMAIN s
                           /\ k[Len(s) + i] = t[i] /\ i \in Nat
    /\ \A i \in DOMAIN k : i \in DOMAIN s \/ \E j \in DOMAIN t : i = Len(s) + j

\* Any two sequences follow each other.
LEMMA Continued ==
    ASSUME NEW s, IsSequence(s), NEW t, IsSequence(t)
    PROVE  \E k : Follows(s, t, k)
<1>0. PICK k : k = s \o t
  OBVIOUS
<1>1. PICK S : S = {s[i] : i \in DOMAIN s} \cup {t[i] : i \in DOMAIN t}
  OBVIOUS
<1>2. s \in Seq(S) /\ t \in Seq(S)
  BY <1>1 DEF IsSequence
<1>3. k \in Seq(S)
  BY <1>0, <1>2
<1>4. /\ Len(s) \in Nat /\ Len(t) \in Nat /\ DOMAIN s = 1 .. Len(s) /\ DOMAIN t = 1 .. Len(t)
      /\ DOMAIN k = 1 .. (Len(s) + Len(t))
  BY <1>0, <1>2, <1>3
<1>5. \A i \in 1 .. (Len(s) + Len(t)) : k[i] = IF i <= Len(s) THEN s[i] ELSE t[i - Len(s)]
  BY <1>0, <1>2
<1>6. IsSequence(k)
  BY <1>3, OfItsElements
<1>7. ASSUME NEW i \in DOMAIN t
      PROVE  Len(s) + i \in DOMAIN k \ DOMAIN s /\ k[Len(s) + i] = t[i] /\ i \in Nat
  <2>1. i \in Nat /\ Len(s) + i \in 1 .. (Len(s) + Len(t)) /\ (Len(s) + i) - Len(s) = i /\ ~(Len(s) + i <= Len(s))
    BY <1>4
  <2> QED BY <2>1, <1>4, <1>5
<1>8. ASSUME NEW i \in DOMAIN k, i \notin DOMAIN s PROVE \E j \in DOMAIN t : i = Len(s) + j
  <2>1. i - Len(s) \in DOMAIN t /\ i = Len(s) + (i - Len(s))
    BY <1>4, <1>8
  <2> QED BY <2>1
<1>9. \A i \in DOMAIN s : k[i] = s[i] /\ i \in DOMAIN k
  BY <1>4, <1>5
<1> QED BY <1>0, <1>4, <1>6, <1>7, <1>8, <1>9, Zenon DEF Follows

\* appendSessions(): rows after the last.
LEMMA AskSaveMore ==
    ASSUME NEW p, Asking(p), SaveMore(p), day' = day
    PROVE  AskMoves(p)
<1> DEFINE h == proc[p]
<1>1. h.pc = "book" /\ h.kind = "extend"
  BY DEF SaveMore, Ready
<1>2. BookingFits(h, sess, rv, rt) /\ Fits(h, sess, rv, rt, day)
  BY <1>1, PhaseOfAsking DEF Asking
<1>3. rt.status # "none" /\ h.keep = {} /\ DOMAIN h.ids = {}
  BY <1>1, <1>2 DEF BookingFits, KindFits
<1>4. /\ sess' = sess \o Rows(p) /\ proc' = [proc EXCEPT ![p] = Idle] /\ UNCHANGED <<rt, rv, day>>
  BY DEF SaveMore
<1>5. PICK t : t = Rows(p)
  OBVIOUS
<1>6. /\ DOMAIN t = DOMAIN h.days /\ t = [k \in DOMAIN h.days |-> t[k]]
      /\ \A k \in DOMAIN h.days : t[k] = RowFor(h, k)
  BY <1>5, RowIsFor DEF Rows
<1>7. IsSequence(t) /\ IsSequence(sess)
  <2>1. IsSequence(t)
    BY <1>2, <1>6, Rewritten DEF BookingFits
  <2> QED BY <2>1, <1>2 DEF Fits, SessionsFit
<1>8. PICK L : L = Len(sess)
  OBVIOUS
<1>9. /\ IsSequence(sess') /\ DOMAIN sess \subseteq DOMAIN sess' /\ L \in Nat
      /\ \A i \in DOMAIN sess : sess'[i] = sess[i]
      /\ \A i \in DOMAIN t : L + i \in DOMAIN sess' \ DOMAIN sess /\ sess'[L + i] = t[i] /\ i \in Nat
      /\ \A i \in DOMAIN sess' : i \in DOMAIN sess \/ \E j \in DOMAIN t : i = L + j
  <2>1. PICK k : Follows(sess, t, k)
    BY ONLY <1>7, Continued
  <2>2. k = sess'
    BY <2>1, <1>4, <1>5, Zenon DEF Follows
  <2> QED BY <2>1, <2>2, <1>8, Zenon DEF Follows
<1>10. PICK at : at = [k \in DOMAIN h.days |-> L + k]
  OBVIOUS
<1>11. Saved(h, sess, sess', at)
  <2> HIDE DEF h
  <2>1. \A k \in DOMAIN h.days : at[k] = L + k /\ k \in Nat
    BY <1>6, <1>9, <1>10
  <2>2. \A k \in DOMAIN h.days : at[k] \in DOMAIN sess' \ DOMAIN sess /\ sess'[at[k]] = RowFor(h, k)
    BY <2>1, <1>6, <1>9
  <2>3. \A k, l \in DOMAIN h.days : at[k] = at[l] => k = l
    BY <2>1, <1>9
  <2>4. \A i \in DOMAIN sess' : i \in DOMAIN sess \/ \E j \in DOMAIN h.days : at[j] = i
    BY <2>1, <1>6, <1>9
  <2> QED BY <2>2, <2>3, <2>4, <1>3, <1>9 DEF Saved
<1>12. RowFits(rt)
  BY <1>2 DEF Fits
<1>13. \A v \in KeptBy(h) : \E m \in h.made : m[2] = v
  BY <1>1, KeptWhileBooking
<1> HIDE DEF h
<1>14. Fits(Idle, sess', rv, rt, day)
  BY <1>2, <1>3, <1>11, <1>12, <1>13, SavedRows
<1>15. OnlyMoves(p, Idle)
  BY <1>4, MovesOne
<1> QED BY <1>4, <1>14, <1>15 DEF AskMoves, OnlyMoves

\* moveSessions(): every movable row is overwritten, and the bookings it
\* had are kept by the new rows or given up.
LEMMA AskSaveMove ==
    ASSUME NEW p, Asking(p), SaveMove(p), day' = day
    PROVE  AskMoves(p)
<1> DEFINE h == proc[p]
<1>1. h.pc = "book" /\ h.kind \in {"pause", "resume"}
  BY DEF SaveMove, Ready
<1>2. BookingFits(h, sess, rv, rt) /\ Fits(h, sess, rv, rt, day)
  BY <1>1, PhaseOfAsking DEF Asking
<1>3. ReplaceFits(h, sess, rv) /\ RowFits(h.after) /\ h.after.status # "none"
  BY <1>1, <1>2 DEF BookingFits, KindFits
<1>4. /\ rt' = [h.after EXCEPT !.missAfter = rt.missAfter] /\ UNCHANGED <<rv, day>>
      /\ sess' = [s \in DOMAIN sess |->
                    IF \E k \in DOMAIN h.ids : h.ids[k] = s
                    THEN Row(p, CHOOSE k \in DOMAIN h.ids : h.ids[k] = s) ELSE sess[s]]
      /\ proc' = [proc EXCEPT ![p] = IF h.drop = {} THEN Idle
                                     ELSE [Idle EXCEPT !.pc = "release", !.drop = h.drop]]
  BY Zenon DEF SaveMove
<1>5. PICK g : g = IF h.drop = {} THEN Idle ELSE [Idle EXCEPT !.pc = "release", !.drop = h.drop]
  OBVIOUS
<1>6. OnlyMoves(p, g)
  BY <1>4, <1>5, MovesOne
<1> HIDE DEF h
<1>7. (g = Idle \/ AskFits(g, sess', rv, rt')) /\ h.drop \subseteq KeptBy(g)
  <2>1. CASE h.drop = {}
    BY <2>1, <1>5
  <2>2. CASE h.drop # {}
    <3>1. /\ HandFields \subseteq DOMAIN g /\ g.pc = "release" /\ g.made = {} /\ g.due = {}
          /\ g.drop = h.drop
      BY <2>2, <1>5 DEF Idle, HandFields
    <3> QED BY <3>1 DEF AskFits, KeptBy
  <2> QED BY <2>1, <2>2
<1>8. DOMAIN sess' = DOMAIN sess /\ sess' = [s \in DOMAIN sess |-> sess'[s]]
  BY <1>4
<1>9. IsSequence(sess')
  BY <1>2, <1>8, Rewritten DEF Fits, SessionsFit
<1>10. ASSUME NEW k \in DOMAIN h.ids PROVE sess'[h.ids[k]] = RowFor(h, k)
  <2>1. h.ids[k] \in DOMAIN sess /\ \A j \in DOMAIN h.ids : h.ids[j] = h.ids[k] => j = k
    BY <1>2 DEF BookingFits
  <2>2. (CHOOSE j \in DOMAIN h.ids : h.ids[j] = h.ids[k]) = k
    BY <2>1
  <2>3. sess'[h.ids[k]] = Row(p, k)
    BY <2>1, <2>2, <1>4
  <2> QED BY <2>3, RowIsFor DEF h
<1>11. ASSUME NEW s \in DOMAIN sess, \A k \in DOMAIN h.ids : h.ids[k] # s PROVE sess'[s] = sess[s]
  BY <1>4, <1>11
<1>12. Saved(h, sess, sess', h.ids)
  <2>1. DOMAIN h.ids = DOMAIN h.days
    BY <1>3 DEF ReplaceFits
  <2>2. \A i \in DOMAIN h.ids : h.ids[i] \in DOMAIN sess
    BY <1>2 DEF BookingFits
  <2>3. \A i, j \in DOMAIN h.ids : h.ids[i] = h.ids[j] => i = j
    BY <1>2 DEF BookingFits
  <2> QED BY <2>1, <2>2, <2>3, <1>8, <1>9, <1>10, <1>11 DEF Saved
<1>13. RowFits(rt') /\ rt'.status # "none"
  BY <1>3, <1>4 DEF RowFits, RowFields
<1>14. \A v \in KeptBy(h) : \E m \in h.made : m[2] = v
  BY <1>1, KeptWhileBooking
<1>15. /\ \A i \in DOMAIN h.ids : \/ sess[h.ids[i]].bk \in {0} \cup KeptBy(g)
                                  \/ \E m \in h.keep : m[2] = sess[h.ids[i]].bk
       /\ \A m \in h.keep : \E i \in DOMAIN h.ids : sess[h.ids[i]].bk = m[2]
  BY <1>3, <1>7 DEF ReplaceFits
<1>16. Fits(g, sess', rv, rt', day)
  BY <1>2, <1>7, <1>12, <1>13, <1>14, <1>15, SavedRows
<1> QED BY <1>4, <1>6, <1>16 DEF AskMoves, OnlyMoves

\* linkSession(): a session without a booking gets one.
LEMMA AskSaveLink ==
    ASSUME NEW p, Asking(p), SaveLink(p), day' = day
    PROVE  AskMoves(p)
<1> DEFINE h == proc[p]
           s == h.ids[1]
<1>1. h.pc = "book" /\ h.kind = "link"
  BY DEF SaveLink, Ready
<1>2. BookingFits(h, sess, rv, rt) /\ Fits(h, sess, rv, rt, day) /\ h.due = {}
  BY <1>1, PhaseOfAsking DEF Asking, BookingFits
<1>3. h.keep = {} /\ DOMAIN h.days = {1} /\ DOMAIN h.ids = {1}
  BY <1>1, <1>2 DEF BookingFits, KindFits
<1>4. AfterFailure(p) = Idle
  BY <1>2 DEF AfterFailure
<1>5. /\ sess' = [sess EXCEPT ![s] = Row(p, 1)] /\ proc' = [proc EXCEPT ![p] = Idle]
      /\ UNCHANGED <<rt, rv, day>> /\ sess[s].bk = 0
  BY <1>4 DEF SaveLink
<1>6. s \in DOMAIN sess
  BY <1>2, <1>3 DEF BookingFits
<1>7. /\ DOMAIN sess' = DOMAIN sess /\ sess' = [u \in DOMAIN sess |-> sess'[u]]
      /\ sess'[s] = RowFor(h, 1) /\ \A u \in DOMAIN sess : u # s => sess'[u] = sess[u]
  BY <1>5, <1>6, RowIsFor
<1>8. IsSequence(sess')
  BY <1>2, <1>7, Rewritten DEF Fits, SessionsFit
<1>9. Saved(h, sess, sess', h.ids)
  BY <1>3, <1>6, <1>7, <1>8 DEF Saved
<1>10. rt.status # "none" /\ RowFits(rt)
  BY <1>2, <1>6 DEF Fits
<1>11. \A v \in KeptBy(h) : \E m \in h.made : m[2] = v
  BY <1>1, KeptWhileBooking
<1>12. \A i \in DOMAIN h.ids : sess[h.ids[i]].bk \in {0} \cup KeptBy(Idle)
  BY <1>3, <1>5
<1> HIDE DEF h, s
<1>13. Fits(Idle, sess', rv, rt, day)
  BY <1>2, <1>3, <1>9, <1>10, <1>11, <1>12, SavedRows
<1>14. OnlyMoves(p, Idle)
  BY <1>5, MovesOne
<1> QED BY <1>5, <1>13, <1>14 DEF AskMoves, OnlyMoves

-----------------------------------------------------------------------------
(* Bookings are called off *)

\* A booking that is called off stands no longer.
LEMMA CallingOffIsCalm ==
    ASSUME NEW b, NEW d, VisitsFit(rv, d), NEW ww, ww = CalledOff(b)
    PROVE  Calms(rv, ww, d) /\ (b \in DOMAIN rv => ww[b].status # "booked")
<1>1. /\ DOMAIN ww = DOMAIN rv /\ ww = [v \in DOMAIN rv |-> ww[v]]
      /\ \A v \in DOMAIN rv : v # b => ww[v] = rv[v]
  BY DEF CalledOff
<1>2. \A v \in DOMAIN rv : {"day", "status"} \subseteq DOMAIN rv[v]
  BY DEF VisitsFit
<1>3. ASSUME b \in DOMAIN rv
      PROVE  /\ DOMAIN ww[b] = DOMAIN rv[b] /\ ww[b].day = rv[b].day
             /\ ww[b].status = IF rv[b].status = "booked" THEN "cancelled" ELSE rv[b].status
  BY <1>2, <1>3 DEF CalledOff
<1>4. IsSequence(ww)
  BY <1>1, Rewritten DEF VisitsFit
<1> QED BY <1>1, <1>2, <1>3, <1>4 DEF Calms

\* release(): the newest first.
LEMMA AskReleaseNext ==
    ASSUME NEW p, Asking(p), ReleaseNext(p), day' = day
    PROVE  AskMoves(p)
<1> DEFINE b == Latest(proc[p].drop)
<1>1. /\ proc[p].pc = "release" /\ rv' = CalledOff(b) /\ UNCHANGED <<rt, sess>>
      /\ proc' = [proc EXCEPT ![p] = IF proc[p].drop # {b} THEN [@ EXCEPT !.drop = proc[p].drop \ {b}]
                                      ELSE AfterFailure(p)]
  BY Zenon DEF ReleaseNext
<1> HIDE DEF b
<1>2. /\ HandFields \subseteq DOMAIN proc[p] /\ proc[p].made = {} /\ proc[p].due = {}
  BY <1>1, PhaseOfAsking
<1>3. AfterFailure(p) = Idle
  BY <1>2 DEF AfterFailure
<1>4. PICK h : h = IF proc[p].drop # {b} THEN [proc[p] EXCEPT !.drop = proc[p].drop \ {b}] ELSE Idle
  OBVIOUS
<1>5. OnlyMoves(p, h)
  BY <1>1, <1>3, <1>4 DEF OnlyMoves, Asking
<1>6. PICK ww : ww = rv'
  OBVIOUS
<1>7. Calms(rv, ww, day) /\ (b \in DOMAIN rv => ww[b].status # "booked")
  BY <1>1, <1>6, CallingOffIsCalm DEF Asking, Fits
<1>8. day \in Int /\ day <= day
  BY DEF Asking, Fits
<1>9. Fits(proc[p], sess, ww, rt, day)
  BY <1>7, <1>8, CalmKeeps DEF Asking
<1>10. (h = Idle \/ AskFits(h, sess, ww, rt)) /\ \A v \in KeptBy(proc[p]) \ KeptBy(h) : v = b
  <2>1. CASE proc[p].drop # {b}
    <3>1. /\ HandFields \subseteq DOMAIN h /\ h.pc = "release" /\ h.made = {} /\ h.due = {}
          /\ h.drop = proc[p].drop \ {b}
      BY <2>1, <1>1, <1>2, <1>4 DEF HandFields
    <3> QED BY <3>1, <1>2 DEF AskFits, KeptBy
  <2>2. CASE proc[p].drop = {b}
    BY <2>2, <1>2, <1>4 DEF KeptBy
  <2> QED BY <2>1, <2>2
<1>11. DOMAIN ww = DOMAIN rv
  BY <1>7 DEF Calms
<1>12. Fits(h, sess, ww, rt, day)
  BY <1>7, <1>9, <1>10, <1>11, HandTurns
<1> QED BY <1>1, <1>5, <1>6, <1>12 DEF AskMoves, OnlyMoves

\* skipOne(): the booking goes first.
LEMMA AskSkipCancel ==
    ASSUME NEW p, Asking(p), SkipCancel(p), day' = day
    PROVE  AskMoves(p)
<1> DEFINE b == Latest(proc[p].drop)
           s == proc[p].ids[1]
<1>1. /\ proc[p].pc = "skip" /\ rv' = CalledOff(b) /\ UNCHANGED <<rt, sess>>
      /\ proc' = [proc EXCEPT ![p] = IF rv[b].status = "booked"
                                      THEN [@ EXCEPT !.pc = "mark", !.drop = {}] ELSE Idle]
  BY Zenon DEF SkipCancel
<1>2. /\ HandFields \subseteq DOMAIN proc[p] /\ proc[p].made = {} /\ s \in DOMAIN sess
      /\ sess[s].bk # 0 /\ proc[p].drop = {sess[s].bk}
  BY <1>1, PhaseOfAsking DEF OneFits
<1>3. VisitsFit(rv, day) /\ SessionsFit(sess, rv) /\ day \in Int
  BY DEF Asking, Fits
<1>4. sess[s].bk \in DOMAIN rv
  BY <1>2, <1>3 DEF SessionsFit
<1>5. b = sess[s].bk
  <2>1. DOMAIN rv \subseteq Nat
    BY <1>3 DEF VisitsFit, IsSequence
  <2>2. sess[s].bk <= sess[s].bk
    BY <2>1, <1>4
  <2>3. \E d \in proc[p].drop : \A e \in proc[p].drop : e <= d
    BY <1>2, <2>2
  <2>4. b \in proc[p].drop
    BY <2>3 DEF Latest
  <2> QED BY <2>4, <1>2
<1> HIDE DEF b
<1>6. PICK h : h = IF rv[b].status = "booked" THEN [proc[p] EXCEPT !.pc = "mark", !.drop = {}] ELSE Idle
  OBVIOUS
<1>7. OnlyMoves(p, h)
  BY <1>1, <1>6 DEF OnlyMoves, Asking
<1>8. PICK ww : ww = rv'
  OBVIOUS
<1>9. Calms(rv, ww, day) /\ (b \in DOMAIN rv => ww[b].status # "booked")
  BY <1>1, <1>3, <1>8, CallingOffIsCalm
<1>10. Fits(proc[p], sess, ww, rt, day)
  BY <1>3, <1>9, CalmKeeps DEF Asking
<1>11. h = Idle \/ AskFits(h, sess, ww, rt)
  <2>1. CASE rv[b].status = "booked"
    <3>1. /\ HandFields \subseteq DOMAIN h /\ h.pc = "mark" /\ h.made = {} /\ h.ids = proc[p].ids
      BY <2>1, <1>2, <1>6 DEF HandFields
    <3> QED BY <3>1, <1>2, <1>4, <1>5, <1>9 DEF AskFits, OneFits
  <2>2. CASE rv[b].status # "booked"
    BY <2>2, <1>6
  <2> QED BY <2>1, <2>2
<1>12. KeptBy(proc[p]) = {}
  BY <1>1, <1>2 DEF KeptBy
<1>13. Fits(h, sess, ww, rt, day)
  BY <1>10, <1>11, <1>12, HandTurns
<1> QED BY <1>1, <1>7, <1>8, <1>13 DEF AskMoves, OnlyMoves

\* CANCEL: one booking after the other.
LEMMA AskCancelNext ==
    ASSUME NEW p, Asking(p), CancelNext(p), day' = day
    PROVE  AskMoves(p)
<1> DEFINE b == Lowest(proc[p].drop)
<1>1. /\ proc[p].pc = "cancel" /\ rv' = CalledOff(b) /\ UNCHANGED <<rt, sess>>
      /\ proc' = [proc EXCEPT ![p].drop = @ \ {b}]
  BY Zenon DEF CancelNext
<1> HIDE DEF b
<1>2. HandFields \subseteq DOMAIN proc[p] /\ proc[p].made = {}
  BY <1>1, PhaseOfAsking
<1>3. PICK h : h = [proc[p] EXCEPT !.drop = proc[p].drop \ {b}]
  OBVIOUS
<1>4. OnlyMoves(p, h)
  BY <1>1, <1>3 DEF OnlyMoves, Asking
<1>5. PICK ww : ww = rv'
  OBVIOUS
<1>6. Calms(rv, ww, day) /\ day \in Int
  BY <1>1, <1>5, CallingOffIsCalm DEF Asking, Fits
<1>7. Fits(proc[p], sess, ww, rt, day)
  BY <1>6, CalmKeeps DEF Asking
<1>8. HandFields \subseteq DOMAIN h /\ h.pc = "cancel" /\ h.made = {}
  BY <1>1, <1>2, <1>3 DEF HandFields
<1>9. KeptBy(proc[p]) = {}
  BY <1>1, <1>2 DEF KeptBy
<1>10. Fits(h, sess, ww, rt, day)
  BY <1>7, <1>8, <1>9, HandTurns DEF AskFits
<1> QED BY <1>1, <1>4, <1>5, <1>10 DEF AskMoves, OnlyMoves

-----------------------------------------------------------------------------
(* Sessions are marked *)

\* A session is only ever left out, or loses a booking that is over.
LEMMA SessionsTurn ==
    ASSUME NEW g, NEW ss, NEW tt, NEW vv, NEW row, NEW new, NEW d, Fits(g, ss, vv, row, d),
           KeptBy(g) = {}, IsSequence(tt), DOMAIN tt = DOMAIN ss,
           \A s \in DOMAIN ss :
             /\ {"day", "bk", "state"} \subseteq DOMAIN tt[s] /\ tt[s].day \in Int
             /\ \/ tt[s].bk = ss[s].bk
                \/ tt[s].bk = 0 /\ (ss[s].bk # 0 => vv[ss[s].bk].status # "booked")
             /\ Counts(tt, vv, s) => Counts(ss, vv, s) /\ DayIn(tt, vv, s) = DayIn(ss, vv, s),
           RowFits(new), new.status = "none" => row.status = "none"
    PROVE  Fits(Idle, tt, vv, new, d)
<1>1. SessionsFit(ss, vv) /\ VisitsFit(vv, d)
  BY DEF Fits
<1>2. SessionsFit(tt, vv)
  BY <1>1 DEF SessionsFit
<1>3. LinksApart(tt)
  BY DEF Fits, LinksApart
<1>4. DaysApart(tt, vv)
  BY DEF Fits, DaysApart
<1>5. Owned(Idle, tt, vv)
  <2> SUFFICES ASSUME NEW v \in DOMAIN vv, vv[v].status = "booked"
               PROVE  \E s \in DOMAIN tt : tt[s].bk = v
    BY DEF Owned
  <2>1. PICK s \in DOMAIN ss : ss[s].bk = v
    BY DEF Fits, Owned
  <2>2. v # 0
    BY <1>1 DEF VisitsFit
  <2> QED BY <2>1, <2>2
<1> QED BY <1>1, <1>2, <1>3, <1>4, <1>5 DEF Fits

\* Then the session is marked.
LEMMA AskSkipMark ==
    ASSUME NEW p, Asking(p), SkipMark(p), day' = day
    PROVE  AskMoves(p)
<1> DEFINE s == proc[p].ids[1]
<1>1. /\ proc[p].pc = "mark" /\ sess' = [sess EXCEPT ![s].state = "skipped", ![s].bk = 0]
      /\ UNCHANGED <<rv, rt>> /\ proc' = [proc EXCEPT ![p] = Idle]
  BY DEF SkipMark
<1>2. /\ proc[p].made = {} /\ s \in DOMAIN sess
      /\ sess[s].bk # 0 => rv[sess[s].bk].status # "booked"
  BY <1>1, PhaseOfAsking DEF OneFits
<1>3. /\ Fits(proc[p], sess, rv, rt, day) /\ SessionsFit(sess, rv)
      /\ RowFits(rt)
  BY DEF Asking, Fits
<1>4. \A u \in DOMAIN sess : {"day", "bk", "state"} \subseteq DOMAIN sess[u] /\ sess[u].day \in Int
  BY <1>3 DEF SessionsFit
<1> HIDE DEF s
<1>5. PICK tt : tt = sess'
  OBVIOUS
<1>6. /\ DOMAIN tt = DOMAIN sess /\ tt = [u \in DOMAIN sess |-> tt[u]]
      /\ \A u \in DOMAIN sess : u # s => tt[u] = sess[u]
      /\ DOMAIN tt[s] = DOMAIN sess[s] /\ tt[s].state = "skipped" /\ tt[s].bk = 0
      /\ tt[s].day = sess[s].day
  BY <1>1, <1>2, <1>4, <1>5
<1>7. IsSequence(tt)
  BY <1>3, <1>6, Rewritten DEF SessionsFit
<1>8. KeptBy(proc[p]) = {}
  BY <1>1, <1>2 DEF KeptBy
<1>9. ASSUME NEW u \in DOMAIN sess
      PROVE  /\ {"day", "bk", "state"} \subseteq DOMAIN tt[u] /\ tt[u].day \in Int
             /\ \/ tt[u].bk = sess[u].bk
                \/ tt[u].bk = 0 /\ (sess[u].bk # 0 => rv[sess[u].bk].status # "booked")
             /\ Counts(tt, rv, u) => Counts(sess, rv, u) /\ DayIn(tt, rv, u) = DayIn(sess, rv, u)
  <2>1. CASE u = s
    BY <2>1, <1>2, <1>4, <1>6 DEF Counts
  <2>2. CASE u # s
    BY <2>2, <1>4, <1>6 DEF Counts, DayIn
  <2> QED BY <2>1, <2>2
<1>10. Fits(Idle, tt, rv, rt, day)
  BY <1>3, <1>6, <1>7, <1>8, <1>9, SessionsTurn
<1>11. OnlyMoves(p, Idle)
  BY <1>1, MovesOne
<1> QED BY <1>1, <1>5, <1>10, <1>11 DEF AskMoves, OnlyMoves

\* RESCHEDULE writes the day the booking has already.
LEMMA AskMoveMark ==
    ASSUME NEW p, Asking(p), MoveMark(p), day' = day
    PROVE  AskMoves(p)
<1> DEFINE s == proc[p].ids[1]
<1>1. /\ proc[p].pc = "moved" /\ sess' = [sess EXCEPT ![s].day = proc[p].days[1]]
      /\ UNCHANGED <<rv, rt>> /\ proc' = [proc EXCEPT ![p] = Idle]
  BY DEF MoveMark
<1>2. /\ proc[p].made = {} /\ s \in DOMAIN sess /\ sess[s].bk # 0 /\ proc[p].days[1] \in Int
  BY <1>1, PhaseOfAsking DEF OneFits
<1>3. /\ Fits(proc[p], sess, rv, rt, day) /\ SessionsFit(sess, rv)
      /\ RowFits(rt)
  BY DEF Asking, Fits
<1>4. \A u \in DOMAIN sess : {"day", "bk", "state"} \subseteq DOMAIN sess[u] /\ sess[u].day \in Int
  BY <1>3 DEF SessionsFit
<1> HIDE DEF s
<1>5. PICK tt : tt = sess'
  OBVIOUS
<1>6. /\ DOMAIN tt = DOMAIN sess /\ tt = [u \in DOMAIN sess |-> tt[u]]
      /\ \A u \in DOMAIN sess : u # s => tt[u] = sess[u]
      /\ DOMAIN tt[s] = DOMAIN sess[s] /\ tt[s].state = sess[s].state /\ tt[s].bk = sess[s].bk
      /\ tt[s].day = proc[p].days[1]
  BY <1>1, <1>2, <1>4, <1>5
<1>7. IsSequence(tt)
  BY <1>3, <1>6, Rewritten DEF SessionsFit
<1>8. KeptBy(proc[p]) = {}
  BY <1>1, <1>2 DEF KeptBy
<1>9. ASSUME NEW u \in DOMAIN sess
      PROVE  /\ {"day", "bk", "state"} \subseteq DOMAIN tt[u] /\ tt[u].day \in Int
             /\ tt[u].bk = sess[u].bk
             /\ Counts(tt, rv, u) => Counts(sess, rv, u) /\ DayIn(tt, rv, u) = DayIn(sess, rv, u)
  <2>1. CASE u = s
    BY <2>1, <1>2, <1>4, <1>6 DEF Counts, DayIn
  <2>2. CASE u # s
    BY <2>2, <1>4, <1>6 DEF Counts, DayIn
  <2> QED BY <2>1, <2>2
<1>10. Fits(Idle, tt, rv, rt, day)
  BY <1>3, <1>6, <1>7, <1>8, <1>9, SessionsTurn
<1>11. OnlyMoves(p, Idle)
  BY <1>1, MovesOne
<1> QED BY <1>1, <1>5, <1>10, <1>11 DEF AskMoves, OnlyMoves

\* endByCustomer(): what had no booking is skipped.
LEMMA AskEndByCustomer ==
    ASSUME NEW p, Asking(p), EndByCustomer(p), day' = day
    PROVE  AskMoves(p)
<1>1. /\ proc[p].pc = "cancel" /\ UNCHANGED rv /\ proc' = [proc EXCEPT ![p] = Idle]
  BY DEF EndByCustomer
<1>2. proc[p].made = {}
  BY <1>1, PhaseOfAsking
<1>3. /\ Fits(proc[p], sess, rv, rt, day) /\ SessionsFit(sess, rv)
      /\ RowFits(rt)
  BY DEF Asking, Fits
<1>4. KeptBy(proc[p]) = {}
  BY <1>1, <1>2 DEF KeptBy
<1>5. Fits(Idle, sess', rv, rt', day)
  <2>1. CASE rt.status \notin {"active", "paused"}
    <3>1. UNCHANGED <<rt, sess>>
      BY <2>1 DEF EndByCustomer
    <3> QED BY <3>1, <1>3, <1>4, HandTurns
  <2>2. CASE rt.status \in {"active", "paused"}
    <3>1. /\ rt' = [rt EXCEPT !.status = "ended"]
          /\ sess' = [s \in DOMAIN sess |->
                        IF s \in proc[p].due /\ sess[s].bk = 0
                        THEN [sess[s] EXCEPT !.state = "skipped"] ELSE sess[s]]
      BY <2>2 DEF EndByCustomer
    <3>2. RowFits(rt') /\ rt'.status # "none"
      BY <3>1, <2>2, <1>3 DEF RowFits, RowFields
    <3>3. PICK tt : tt = sess'
      OBVIOUS
    <3>4. \A u \in DOMAIN sess : {"day", "bk", "state"} \subseteq DOMAIN sess[u] /\ sess[u].day \in Int
      BY <1>3 DEF SessionsFit
    <3>5. /\ DOMAIN tt = DOMAIN sess /\ tt = [u \in DOMAIN sess |-> tt[u]]
          /\ \A u \in DOMAIN sess :
               \/ tt[u] = sess[u]
               \/ /\ DOMAIN tt[u] = DOMAIN sess[u] /\ tt[u].day = sess[u].day /\ tt[u].bk = sess[u].bk
                  /\ tt[u].state = "skipped"
      BY <3>1, <3>3, <3>4
    <3>6. IsSequence(tt)
      BY <1>3, <3>5, Rewritten DEF SessionsFit
    <3>7. ASSUME NEW u \in DOMAIN sess
          PROVE  /\ {"day", "bk", "state"} \subseteq DOMAIN tt[u] /\ tt[u].day \in Int
                 /\ tt[u].bk = sess[u].bk
                 /\ Counts(tt, rv, u) => Counts(sess, rv, u) /\ DayIn(tt, rv, u) = DayIn(sess, rv, u)
      BY <3>4, <3>5 DEF Counts, DayIn
    <3>8. Fits(Idle, tt, rv, rt', day)
      BY <3>2, <3>5, <3>6, <3>7, <1>3, <1>4, SessionsTurn
    <3> QED BY <3>3, <3>8
  <2> QED BY <2>1, <2>2
<1>6. OnlyMoves(p, Idle)
  BY <1>1, MovesOne
<1> QED BY <1>1, <1>5, <1>6 DEF AskMoves, OnlyMoves

\* RESCHEDULE moves the booking to a day no other session has.
LEMMA AskMoveVisit ==
    ASSUME NEW p, Asking(p), MoveVisit(p), day' = day
    PROVE  AskMoves(p)
<1> DEFINE s == proc[p].ids[1]
           b == sess[s].bk
           d == proc[p].days[1]
<1>1. proc[p].pc = "move" /\ UNCHANGED <<rt, sess>>
  BY DEF MoveVisit
<1>2. /\ HandFields \subseteq DOMAIN proc[p] /\ proc[p].made = {} /\ s \in DOMAIN sess /\ b # 0
      /\ proc[p].keep = {<<1, b>>} /\ DOMAIN proc[p].days = {1} /\ d \in Int
      /\ DOMAIN proc[p].ids = {1} /\ Clear(proc[p], sess, rv)
  BY <1>1, PhaseOfAsking DEF OneFits
<1>3. BookingAt(p, 1) = b
  <2> HIDE DEF b
  <2>1. PICK M : M = {x \in proc[p].keep \cup proc[p].made : x[1] = 1}
    OBVIOUS
  <2>2. <<1, b>>[1] = 1 /\ <<1, b>>[2] = b
    OBVIOUS
  <2>3. M = {<<1, b>>}
    BY <2>1, <2>2, <1>2
  <2>4. BookingAt(p, 1) = IF M = {} THEN 0 ELSE (CHOOSE x \in M : TRUE)[2]
    BY <2>1 DEF BookingAt
  <2>5. (CHOOSE x \in M : TRUE) = <<1, b>>
    BY <2>3
  <2> QED BY <2>2, <2>3, <2>4, <2>5
<1>4. /\ Fits(proc[p], sess, rv, rt, day) /\ SessionsFit(sess, rv) /\ VisitsFit(rv, day)
      /\ LinksApart(sess) /\ DaysApart(sess, rv) /\ RowFits(rt) /\ day \in Int
      /\ Owned(proc[p], sess, rv) /\ (rt.status = "none" => DOMAIN sess = {})
  BY DEF Asking, Fits
<1>5. b \in DOMAIN rv
  BY <1>2, <1>4 DEF SessionsFit
<1>6. KeptBy(proc[p]) = {}
  BY <1>1, <1>2 DEF KeptBy
<1>7. CASE ~(SlotFree(d) /\ rv[b].status = "booked")
  <2>1. UNCHANGED rv /\ proc' = [proc EXCEPT ![p] = Idle]
    BY <1>3, <1>7 DEF MoveVisit
  <2>2. Fits(Idle, sess, rv, rt, day)
    BY <1>4, <1>6, HandTurns
  <2>3. OnlyMoves(p, Idle)
    BY <2>1, MovesOne
  <2> QED BY <1>1, <2>1, <2>2, <2>3 DEF AskMoves, OnlyMoves
<1>8. CASE SlotFree(d) /\ rv[b].status = "booked"
  <2>1. rv' = [rv EXCEPT ![b].day = d] /\ proc' = [proc EXCEPT ![p].pc = "moved"]
    BY <1>3, <1>8 DEF MoveVisit
  <2> HIDE DEF b, d
  <2>2. PICK ww : ww = rv'
    OBVIOUS
  <2>3. /\ DOMAIN ww = DOMAIN rv /\ ww = [v \in DOMAIN rv |-> ww[v]]
        /\ \A v \in DOMAIN rv : v # b => ww[v] = rv[v]
        /\ DOMAIN ww[b] = DOMAIN rv[b] /\ ww[b].status = rv[b].status /\ ww[b].day = d
    BY <2>1, <2>2, <1>4, <1>5 DEF VisitsFit
  <2>4. IsSequence(ww)
    BY <1>4, <2>3, Rewritten DEF VisitsFit
  <2>5. VisitsFit(ww, day)
    BY <1>2, <1>4, <1>5, <1>8, <2>3, <2>4 DEF VisitsFit
  <2>6. SessionsFit(sess, ww)
    BY <1>4, <2>3 DEF SessionsFit
  <2>7. \A u \in DOMAIN sess : Counts(sess, ww, u) => Counts(sess, rv, u)
    BY <1>4, <1>5, <2>3 DEF Counts, SessionsFit
  <2>8. \A u \in DOMAIN sess : u # s => DayIn(sess, ww, u) = DayIn(sess, rv, u)
    <3>1. \A u \in DOMAIN sess : u # s => sess[u].bk # b
      BY <1>2, <1>4 DEF LinksApart, b
    <3> QED BY <3>1, <1>4, <2>3 DEF DayIn, SessionsFit
  <2>9. DayIn(sess, ww, s) = d
    BY <1>2, <2>3 DEF DayIn, b
  <2>10. \A u \in DOMAIN sess : u # s /\ Counts(sess, rv, u) => DayIn(sess, rv, u) # d
    BY <1>2 DEF Clear, d
  <2>11. DaysApart(sess, ww)
    BY <1>4, <2>7, <2>8, <2>9, <2>10 DEF DaysApart
  <2>12. PICK h : h = [proc[p] EXCEPT !.pc = "moved"]
    OBVIOUS
  <2>13. OnlyMoves(p, h)
    BY <2>1, <2>12 DEF OnlyMoves, Asking
  <2>14. /\ HandFields \subseteq DOMAIN h /\ h.pc = "moved" /\ h.made = {} /\ h.ids = proc[p].ids
         /\ h.days = proc[p].days
    BY <2>12, <1>2 DEF HandFields
  <2>15. AskFits(h, sess, ww, rt)
    BY <2>14, <1>2 DEF AskFits, OneFits, d, b
  <2>16. Owned(h, sess, ww)
    BY <1>4, <1>5, <1>6, <2>3 DEF Owned
  <2>17. Fits(h, sess, ww, rt, day)
    BY <1>4, <2>5, <2>6, <2>11, <2>15, <2>16 DEF Fits
  <2> QED BY <1>1, <2>2, <2>13, <2>17 DEF AskMoves, OnlyMoves
<1> QED BY <1>7, <1>8

-----------------------------------------------------------------------------
(* Requests begin *)

\* A request that is to begin has nothing in hand.
LEMMA AsksFromIdle ==
    ASSUME NEW p, Asking(p), proc[p].pc = "idle"
    PROVE  proc[p] = Idle
<1>1. AskFits(proc[p], sess, rv, rt) => proc[p].pc # "idle"
  BY DEF AskFits, BookingFits, OneFits
<1> QED BY <1>1 DEF Asking, Fits

\* The hand of a request that begins to book.
Begun(h, kind, ids, days, keep, after) ==
    /\ HandFields \subseteq DOMAIN h /\ h.pc = "book" /\ h.kind = kind /\ h.ids = ids /\ h.days = days
    /\ h.keep = keep /\ h.after = after /\ h.made = {} /\ h.due = {}
    /\ h.drop = ReleasePlan(ids, keep)
    /\ h.todo \subseteq DOMAIN days /\ \A m \in keep : m[1] \notin h.todo

\* What a request that begins to book has in hand.
LEMMA Begins ==
    ASSUME NEW p, Asking(p), NEW kind, NEW ids, NEW days, NEW keep, NEW after,
           Begin(p, kind, ids, days, keep, after)
    PROVE  \E h : OnlyMoves(p, h) /\ Begun(h, kind, ids, days, keep, after)
<1>1. PICK T : T = {k \in DOMAIN days : ~BeyondHorizon(days[k]) /\ \A m \in keep : m[1] # k}
  OBVIOUS
<1>2. PICK D : D = ReleasePlan(ids, keep)
  OBVIOUS
<1>3. PICK h : h = [Idle EXCEPT !.pc = "book", !.kind = kind, !.days = days, !.ids = ids, !.keep = keep,
                                !.drop = D, !.after = after, !.todo = T]
  OBVIOUS
<1>4. proc' = [proc EXCEPT ![p] = h]
  BY <1>1, <1>2, <1>3, Zenon DEF Begin
<1>5. /\ HandFields \subseteq DOMAIN h /\ h.pc = "book" /\ h.kind = kind /\ h.ids = ids /\ h.days = days
      /\ h.keep = keep /\ h.after = after /\ h.made = {} /\ h.due = {} /\ h.drop = D /\ h.todo = T
  BY <1>3 DEF Idle, HandFields
<1>6. OnlyMoves(p, h)
  BY <1>4, MovesOne
<1>7. Begun(h, kind, ids, days, keep, after)
  BY <1>1, <1>2, <1>5 DEF Begun
<1> QED BY <1>6, <1>7

\* A request that begins holds nothing yet.
LEMMA BegunFits ==
    ASSUME NEW p, Asking(p), proc[p].pc = "idle", NEW h, OnlyMoves(p, h),
           UNCHANGED <<rt, sess, rv, day>>, AskFits(h, sess, rv, rt)
    PROVE  AskMoves(p)
<1>1. KeptBy(proc[p]) = {}
  BY AsksFromIdle, IdleKeepsNothing
<1>2. Fits(h, sess, rv, rt, day)
  BY <1>1, HandTurns DEF Asking
<1> QED BY <1>2 DEF AskMoves, OnlyMoves

\* A routine has finitely many sessions, each on a day.
LEMMA SessionDays ==
    ASSUME NEW h, Fits(h, sess, rv, rt, day)
    PROVE  /\ DOMAIN sess \subseteq Nat /\ IsFiniteSet(DOMAIN sess)
           /\ \A s \in DOMAIN sess : DayOf(s) = DayIn(sess, rv, s) /\ DayOf(s) \in Int
<1>1. SessionsFit(sess, rv) /\ VisitsFit(rv, day)
  BY DEF Fits
<1>2. PICK n \in Nat : DOMAIN sess = 1 .. n
  <2>1. PICK S : sess \in Seq(S)
    BY <1>1 DEF SessionsFit, IsSequence
  <2> QED BY <2>1
<1>3. IsFiniteSet(DOMAIN sess)
  BY <1>2, FS_Interval
<1>4. \A s \in DOMAIN sess : DayOf(s) = DayIn(sess, rv, s) /\ DayOf(s) \in Int
  BY <1>1 DEF DayOf, DayIn, SessionsFit, VisitsFit
<1> QED BY <1>2, <1>3, <1>4

\* The sessions that count are the remaining and the done ones.
LEMMA Buckets ==
    ASSUME NEW s
    PROVE  /\ Counts(sess, rv, s) => Bucket(s) \in {"remaining", "done"}
           /\ Bucket(s) \in {"remaining", "done"} => Counts(sess, rv, s)
           /\ Bucket(s) = "done" => sess[s].bk # 0 /\ rv[sess[s].bk].status \in {"visited", "missed"}
<1>1. CASE sess[s].bk = 0
  BY <1>1 DEF Counts, Bucket, StatusOfSession
<1>2. CASE sess[s].bk # 0
  BY <1>2 DEF Counts, Bucket, StatusOfSession
<1> QED BY <1>1, <1>2

\* One lemma per request.  SKIP.
LEMMA AskSkip ==
    ASSUME NEW p, Asking(p), NEW s, SkipSession(p, s)
    PROVE  AskMoves(p)
<1>1. /\ proc[p].pc = "idle" /\ s \in DOMAIN sess /\ UNCHANGED <<rt, sess, rv, day>>
  BY DEF SkipSession, Manage, Ask, Changeable, Remaining
<1>2. PICK h : h = [Idle EXCEPT !.pc = IF sess[s].bk = 0 THEN "mark" ELSE "skip",
                                !.ids = <<s>>, !.drop = {sess[s].bk} \ {0}]
  OBVIOUS
<1>3. proc' = [proc EXCEPT ![p] = h]
  BY <1>2 DEF SkipSession
<1>4. OnlyMoves(p, h)
  BY <1>3, MovesOne
<1>5. /\ HandFields \subseteq DOMAIN h /\ h.made = {} /\ h.ids = <<s>>
      /\ h.pc = (IF sess[s].bk = 0 THEN "mark" ELSE "skip") /\ h.drop = {sess[s].bk} \ {0}
  BY <1>2 DEF Idle, HandFields
<1>6. h.ids[1] = s
  BY <1>5
<1>7. CASE sess[s].bk = 0
  BY <1>1, <1>4, <1>5, <1>6, <1>7, BegunFits DEF AskFits, OneFits
<1>8. CASE sess[s].bk # 0
  <2>1. h.drop = {sess[s].bk} /\ h.pc = "skip"
    BY <1>5, <1>8
  <2> QED BY <2>1, <1>1, <1>4, <1>5, <1>6, <1>8, BegunFits DEF AskFits, OneFits
<1> QED BY <1>7, <1>8

\* CANCEL.
LEMMA AskCancel ==
    ASSUME NEW p, Asking(p), CancelRoutine(p)
    PROVE  AskMoves(p)
<1>1. /\ proc[p].pc = "idle" /\ UNCHANGED <<rt, sess, rv, day>>
  BY DEF CancelRoutine, Ask
<1>2. PICK h : h = [Idle EXCEPT !.pc = "cancel", !.drop = {sess[s].bk : s \in Future} \ {0},
                      !.due = {s \in Future : sess[s].bk = 0}]
  OBVIOUS
<1>3. proc' = [proc EXCEPT ![p] = h]
  BY <1>2 DEF CancelRoutine
<1>4. OnlyMoves(p, h)
  BY <1>3, MovesOne
<1>5. HandFields \subseteq DOMAIN h /\ h.made = {} /\ h.pc = "cancel"
  BY <1>2 DEF Idle, HandFields
<1> QED BY <1>1, <1>4, <1>5, BegunFits DEF AskFits

\* RESCHEDULE: the rule looks at every other session that counts.
LEMMA AskReschedule ==
    ASSUME NEW p, Asking(p), NEW s, NEW d \in Int, RescheduleSession(p, s, d)
    PROVE  AskMoves(p)
<1>1. /\ proc[p].pc = "idle" /\ s \in DOMAIN sess /\ UNCHANGED <<rt, sess, rv, day>>
      /\ \A u \in DOMAIN sess : u # s /\ Bucket(u) \in {"remaining", "done"} => DayOf(u) # d
  BY DEF RescheduleSession, Manage, Ask, Changeable, Remaining
<1>2. \A u \in DOMAIN sess : DayOf(u) = DayIn(sess, rv, u)
  BY SessionDays DEF Asking
<1>3. \A u \in DOMAIN sess : u # s /\ Counts(sess, rv, u) => DayIn(sess, rv, u) # d
  BY <1>1, <1>2, Buckets
<1>4. ASSUME NEW h, h.ids = <<s>>, h.days = <<d>> PROVE Clear(h, sess, rv)
  <2>1. DOMAIN h.ids = {1} /\ h.ids[1] = s /\ DOMAIN h.days = {1} /\ h.days[1] = d
    BY <1>4
  <2> QED BY <2>1, <1>3 DEF Clear
<1>5. CASE sess[s].bk = 0
  <2>1. Begin(p, "link", <<s>>, <<d>>, {}, <<>>)
    BY <1>5 DEF RescheduleSession
  <2>2. PICK h : OnlyMoves(p, h) /\ Begun(h, "link", <<s>>, <<d>>, {}, <<>>)
    BY <2>1, Begins
  <2>3. /\ HandFields \subseteq DOMAIN h /\ h.pc = "book" /\ h.kind = "link" /\ h.ids = <<s>>
        /\ h.days = <<d>> /\ h.keep = {} /\ h.made = {} /\ h.due = {} /\ h.todo \subseteq DOMAIN h.days
    BY <2>2 DEF Begun
  <2>4. DOMAIN h.ids = {1} /\ h.ids[1] = s /\ DOMAIN h.days = {1} /\ h.days[1] = d /\ h.days \in Seq(Int)
    BY <2>3
  <2>5. IsSequence(h.days)
    BY <2>4, OfItsElements
  <2>6. PairsFit(h, rv)
    BY <2>3 DEF PairsFit
  <2>7. KindFits(h, sess, rv, rt)
    BY <2>3, <2>4 DEF KindFits
  <2>8. Clear(h, sess, rv)
    BY <1>4, <2>3
  <2>9. BookingFits(h, sess, rv, rt)
    BY <2>3, <2>4, <2>5, <2>6, <2>7, <2>8, <1>1 DEF BookingFits
  <2> QED BY <2>2, <2>3, <2>9, <1>1, BegunFits DEF AskFits
<1>6. CASE sess[s].bk # 0
  <2>1. PICK h : h = [Idle EXCEPT !.pc = "move", !.ids = <<s>>, !.days = <<d>>,
                                  !.keep = {<<1, sess[s].bk>>}]
    OBVIOUS
  <2>2. proc' = [proc EXCEPT ![p] = h]
    BY <2>1, <1>6 DEF RescheduleSession
  <2>3. OnlyMoves(p, h)
    BY <2>2, MovesOne
  <2>4. /\ HandFields \subseteq DOMAIN h /\ h.pc = "move" /\ h.made = {} /\ h.ids = <<s>>
        /\ h.days = <<d>> /\ h.keep = {<<1, sess[s].bk>>}
    BY <2>1 DEF Idle, HandFields
  <2>5. DOMAIN h.ids = {1} /\ h.ids[1] = s /\ DOMAIN h.days = {1} /\ h.days[1] = d
    BY <2>4
  <2>6. OneFits(h, sess, rv)
    BY <2>4, <2>5, <1>1, <1>4, <1>6 DEF OneFits
  <2> QED BY <2>3, <2>4, <2>6, <1>1, BegunFits DEF AskFits
<1> QED BY <1>5, <1>6

\* The days of a plan, as the list a request books from.
IsPlan(days, from) ==
    /\ days \in Seq(Int) /\ IsSequence(days) /\ DOMAIN days = 1 .. Len(days)
    /\ \A k \in DOMAIN days : days[k] \in Int /\ from <= days[k]
    /\ \A k, l \in DOMAIN days : days[k] = days[l] => k = l

\* The list of a plan's days has each once, none before it starts.
LEMMA PlannedDays ==
    ASSUME NEW S, NEW from, DaysFrom(S, from), NEW days, days = Ascending(S)
    PROVE  IsPlan(days, from)
<1>0. IsFiniteSet(S) /\ S \subseteq Int
  BY DEF DaysFrom
<1>1. Lists(days, S)
  BY <1>0, Ascends
<1>2. S \subseteq Int /\ \A d \in S : from <= d
  BY DEF DaysFrom
<1>3. PICK n \in Nat : days \in [1 .. n -> S]
  BY <1>1 DEF Lists
<1>6. days \in [1 .. n -> Int]
  BY <1>2, <1>3
<1>4. days \in Seq(Int)
  BY <1>6
<1>5. IsSequence(days)
  BY <1>4, OfItsElements
<1> QED BY <1>1, <1>2, <1>3, <1>4, <1>5 DEF Lists, IsPlan

\* A new routine: no pick puts two sessions on a day.
LEMMA AskCreate ==
    ASSUME NEW p, Asking(p), CreateRoutine(p)
    PROVE  AskMoves(p)
<1>1. /\ proc[p].pc = "idle" /\ rt.status = "none" /\ UNCHANGED <<rt, sess, rv, day>>
  BY DEF CreateRoutine, Ask
<1>2. DOMAIN sess = {} /\ day \in Int
  BY <1>1 DEF Asking, Fits
<1>3. PICK freq \in Cadences, first \in Firsts, count \in SessionCounts :
        LET planned == Ascending(PlanDays(freq, first, count, OpenDaysOf))
        IN /\ first >= day /\ Len(planned) = count
           /\ \E pick \in Picks(planned) :
                LET days == WithPick(planned, pick)
                IN /\ PicksFit(days, {}) /\ AllFree(days, {})
                   /\ Begin(p, "create", <<>>, days, {}, [freq |-> freq, anchor |-> planned[1]])
  BY Zenon DEF CreateRoutine
<1>4. PICK S : S = PlanDays(freq, first, count, OpenDaysOf)
  OBVIOUS
<1>5. PICK planned : planned = Ascending(S)
  OBVIOUS
<1>6. PICK pick \in Picks(planned) :
        /\ PicksFit(WithPick(planned, pick), {})
        /\ Begin(p, "create", <<>>, WithPick(planned, pick), {}, [freq |-> freq, anchor |-> planned[1]])
  BY <1>3, <1>4, <1>5, Zenon
<1>7. Len(planned) = count
  BY <1>3, <1>4, <1>5, Zenon
<1>8. freq \in Frequencies /\ first \in Int /\ count \in Nat \ {0} /\ RoutineEnd \in Nat
  BY RoutinesAssumption DEF Frequencies
<1>9. DaysFrom(S, first)
  BY <1>4, <1>8, PlanDaysFrom
<1>10. /\ planned \in Seq(Int) /\ DOMAIN planned = 1 .. Len(planned)
       /\ \A k \in DOMAIN planned : planned[k] \in Int
  BY <1>5, <1>9, PlannedDays DEF IsPlan
<1>11. planned[1] \in Int
  BY <1>7, <1>8, <1>10
<1>12. PICK days : days = WithPick(planned, pick)
  OBVIOUS
<1>13. DOMAIN days = DOMAIN planned /\ days \in Seq(Int)
  <2>1. CASE pick = <<>>
    BY <2>1, <1>10, <1>12 DEF WithPick
  <2>2. CASE pick # <<>>
    <3>1. PICK d \in (day + 1) .. RoutineEnd : pick = <<1, d>>
      BY <2>2 DEF Picks
    <3>2. pick[1] = 1 /\ pick[2] = d /\ d \in Int
      BY <3>1, <1>2, <1>8
    <3>3. days = [planned EXCEPT ![1] = d]
      BY <3>2, <2>2, <1>12 DEF WithPick
    <3>0. planned \in Seq(Int)
      BY <1>10
    <3>4. PICK n \in Nat : DOMAIN planned = 1 .. n /\ planned \in [1 .. n -> Int]
      <4>1. /\ Len(planned) \in Nat /\ DOMAIN planned = 1 .. Len(planned)
            /\ planned \in [1 .. Len(planned) -> Int]
        BY ONLY <3>0
      <4> QED BY ONLY <4>1, Zenon
    <3>5. days \in [1 .. n -> Int]
      BY ONLY <3>2, <3>3, <3>4
    <3>6. days \in Seq(Int)
      BY ONLY <3>5
    <3>7. DOMAIN days = 1 .. n
      BY ONLY <3>5
    <3> QED BY ONLY <3>4, <3>6, <3>7, Zenon
  <2> QED BY <2>1, <2>2
<1>14. IsSequence(days) /\ \A k \in DOMAIN days : days[k] \in Int
  BY <1>13, OfItsElements
<1>15. \A k, l \in DOMAIN days : days[k] = days[l] => k = l
  BY <1>6, <1>12 DEF PicksFit
<1>16. PICK after : after = [freq |-> freq, anchor |-> planned[1]]
  OBVIOUS
<1>17. after.freq = freq /\ after.anchor = planned[1]
  BY <1>16
<1>18. Begin(p, "create", <<>>, days, {}, after)
  BY <1>6, <1>12, <1>16, Zenon
<1>19. PICK h : OnlyMoves(p, h) /\ Begun(h, "create", <<>>, days, {}, after)
  BY <1>18, Begins
<1>20. /\ HandFields \subseteq DOMAIN h /\ h.pc = "book" /\ h.kind = "create" /\ h.ids = <<>>
       /\ h.days = days /\ h.keep = {} /\ h.made = {} /\ h.due = {} /\ h.todo \subseteq DOMAIN h.days
       /\ h.after = after
  BY <1>19 DEF Begun
<1>21. DOMAIN h.ids = {}
  BY <1>20, NoRows
<1>22. PairsFit(h, rv) /\ Clear(h, sess, rv) /\ KindFits(h, sess, rv, rt)
  BY <1>1, <1>2, <1>8, <1>11, <1>17, <1>20 DEF PairsFit, Clear, KindFits
<1>23. BookingFits(h, sess, rv, rt)
  BY <1>14, <1>15, <1>20, <1>21, <1>22 DEF BookingFits
<1> QED BY <1>1, <1>19, <1>20, <1>23, BegunFits DEF AskFits

\* A routine that has sessions has days, and the last of them is one.
LEMMA LastSession ==
    ASSUME NEW h, Fits(h, sess, rv, rt, day), sess # <<>>, NEW last,
           last = Latest({DayOf(s) : s \in DOMAIN sess})
    PROVE  last \in Int /\ \A s \in DOMAIN sess : DayOf(s) <= last
<1>1. /\ DOMAIN sess \subseteq Nat /\ IsFiniteSet(DOMAIN sess)
      /\ \A s \in DOMAIN sess : DayOf(s) \in Int
  BY SessionDays
<1>2. DOMAIN sess # {}
  <2>1. PICK S : sess \in Seq(S)
    BY DEF Fits, SessionsFit, IsSequence
  <2>2. Len(sess) # 0 /\ Len(sess) \in Nat /\ DOMAIN sess = 1 .. Len(sess)
    BY <2>1
  <2>3. 1 \in DOMAIN sess
    BY <2>2
  <2> QED BY <2>3
<1>3. PICK T : T = {DayOf(s) : s \in DOMAIN sess}
  OBVIOUS
<1>4. IsFiniteSet(T)
  <2>1. PICK f : f = [s \in DOMAIN sess |-> DayOf(s)]
    OBVIOUS
  <2>2. f \in Surjection(DOMAIN sess, T)
    BY <2>1, <1>3 DEF Surjection
  <2> QED BY ONLY <2>2, <1>1, FS_Surjection
<1>5. T \subseteq Int /\ T # {} /\ \A s \in DOMAIN sess : DayOf(s) \in T
  BY <1>1, <1>2, <1>3
<1> QED BY <1>3, <1>4, <1>5, LatestIsLast

\* EXTEND: every new day is after the last session.
LEMMA AskExtend ==
    ASSUME NEW p, Asking(p), Extend(p)
    PROVE  AskMoves(p)
<1>1. /\ proc[p].pc = "idle" /\ rt.status = "active" /\ sess # <<>> /\ UNCHANGED <<rt, sess, rv, day>>
  BY DEF Extend, Manage, Ask, ActionAllowed
<1>2. PICK last : last = Latest({DayOf(s) : s \in DOMAIN sess})
  OBVIOUS
<1>3. PICK count \in 1 .. (MAX_FUTURE_SESSIONS - Cardinality(Future)) :
        LET days == Ascending(ContinueDays(rt.freq, rt.anchor, last, count, OpenDaysOf))
        IN /\ Len(days) = count /\ AllFree(days, {})
           /\ Begin(p, "extend", <<>>, days, {}, [offset |-> Len(sess)])
  BY <1>2, Zenon DEF Extend
<1>4. PICK S : S = ContinueDays(rt.freq, rt.anchor, last, count, OpenDaysOf)
  OBVIOUS
<1>5. PICK days : days = Ascending(S)
  OBVIOUS
<1>6. PICK after : after = [offset |-> Len(sess)]
  OBVIOUS
<1>7. Begin(p, "extend", <<>>, days, {}, after)
  BY <1>3, <1>4, <1>5, <1>6, Zenon
<1>8. last \in Int /\ \A s \in DOMAIN sess : DayOf(s) <= last
  BY <1>1, <1>2, LastSession DEF Asking
<1>9. count \in Int /\ rt.freq \in Frequencies
  BY <1>1 DEF Asking, Fits, RowFits
<1>10. DaysFrom(S, last + 1)
  BY <1>4, <1>8, <1>9, ContinueDaysFrom
<1>11. /\ IsSequence(days) /\ \A k \in DOMAIN days : days[k] \in Int /\ last + 1 <= days[k]
       /\ \A k, l \in DOMAIN days : days[k] = days[l] => k = l
  BY <1>5, <1>10, PlannedDays DEF IsPlan
<1>12. \A s \in DOMAIN sess : DayOf(s) = DayIn(sess, rv, s) /\ DayOf(s) \in Int
  BY SessionDays DEF Asking
<1>13. \A s \in DOMAIN sess : \A k \in DOMAIN days : DayIn(sess, rv, s) # days[k]
  BY <1>8, <1>11, <1>12
<1>14. PICK h : OnlyMoves(p, h) /\ Begun(h, "extend", <<>>, days, {}, after)
  BY <1>7, Begins
<1>15. /\ HandFields \subseteq DOMAIN h /\ h.pc = "book" /\ h.kind = "extend" /\ h.ids = <<>>
       /\ h.days = days /\ h.keep = {} /\ h.made = {} /\ h.due = {} /\ h.todo \subseteq DOMAIN h.days
  BY <1>14 DEF Begun
<1>16. DOMAIN h.ids = {}
  BY <1>15, NoRows
<1>17. PairsFit(h, rv) /\ Clear(h, sess, rv) /\ KindFits(h, sess, rv, rt)
  BY <1>1, <1>13, <1>15, <1>16 DEF PairsFit, Clear, KindFits
<1>18. BookingFits(h, sess, rv, rt)
  BY <1>11, <1>15, <1>16, <1>17 DEF BookingFits
<1> QED BY <1>1, <1>14, <1>15, <1>18, BegunFits DEF AskFits

\* What a change of several sessions works on: each movable session once.
MovesAll(ids, M) ==
    /\ DOMAIN ids = 1 .. Len(ids)
    /\ \A i \in DOMAIN ids : ids[i] \in DOMAIN sess /\ ids[i] \in M
    /\ \A i, j \in DOMAIN ids : ids[i] = ids[j] => i = j
    /\ \A s \in M : \E i \in DOMAIN ids : ids[i] = s

\* The movable sessions, each once.
LEMMA MovableSessions ==
    ASSUME NEW h, Fits(h, sess, rv, rt, day), NEW ids, ids = Ascending(Movable)
    PROVE  MovesAll(ids, Movable)
<1>1. DOMAIN sess \subseteq Nat /\ IsFiniteSet(DOMAIN sess)
  BY SessionDays
<1>2. Movable \subseteq DOMAIN sess
  BY DEF Movable, Remaining
<1>3. IsFiniteSet(Movable) /\ Movable \subseteq Int
  BY <1>1, <1>2, FS_Subset
<1>4. PICK M : M = Movable
  OBVIOUS
<1>5. Lists(ids, M)
  BY <1>3, <1>4, Ascends
<1>6. PICK n \in Nat : ids \in [1 .. n -> M]
  BY <1>5 DEF Lists
<1>7. ids \in Seq(M)
  BY <1>6
<1>8. DOMAIN ids = 1 .. Len(ids)
  BY <1>7
<1> QED BY <1>2, <1>4, <1>5, <1>6, <1>8 DEF Lists, MovesAll

\* move(): the new days are clear of the sessions that stay, by the picks'
\* rule, and of those that happened, because they are after today; a
\* booking is kept by one new day at most.
LEMMA AskMove ==
    ASSUME NEW p, Asking(p), proc[p].pc = "idle", rt.status # "none", UNCHANGED <<rt, sess, rv, day>>,
           NEW kind \in {"pause", "resume"}, NEW from \in Int, from > day,
           NEW newFreq \in Switches, NEW after, RowFits(after), after.status # "none",
           Move(p, kind, from, newFreq, after)
    PROVE  AskMoves(p)
<1>1. PICK ids : ids = Ascending(Movable)
  OBVIOUS
<1>2. PICK S : S = ResumeDays(rt.freq, rt.anchor, newFreq, {DayOf(s) : s \in Movable}, from, OpenDaysOf)
  OBVIOUS
<1>3. PICK planned : planned = Ascending(S)
  OBVIOUS
<1>4. PICK keep : keep = KeepPlan(ids, planned)
  OBVIOUS
<1>5. PICK then : then = IF newFreq # "" /\ newFreq # rt.freq /\ planned # <<>>
                         THEN [after EXCEPT !.anchor = planned[1]] ELSE after
  OBVIOUS
<1>6. /\ Len(planned) = Len(ids) /\ PicksFit(planned, StayingDays)
      /\ Begin(p, kind, ids, planned, keep, then)
  BY <1>1, <1>2, <1>3, <1>4, <1>5, Zenon DEF Move
<1>7. /\ Fits(proc[p], sess, rv, rt, day) /\ SessionsFit(sess, rv) /\ VisitsFit(rv, day)
      /\ LinksApart(sess) /\ DaysApart(sess, rv) /\ RowFits(rt) /\ day \in Int
  BY DEF Asking, Fits
<1>8. rt.freq \in Frequencies /\ rt.anchor \in Int
  BY <1>7 DEF RowFits
<1>9. DaysFrom(S, from)
  BY <1>2, <1>8, ResumeDaysFrom
<1>10. /\ planned \in Seq(Int) /\ IsSequence(planned) /\ DOMAIN planned = 1 .. Len(planned)
       /\ \A k \in DOMAIN planned : planned[k] \in Int /\ from <= planned[k]
       /\ \A k, l \in DOMAIN planned : planned[k] = planned[l] => k = l
  <2>1. IsPlan(planned, from)
    BY <1>3, <1>9, PlannedDays
  <2> QED BY <2>1 DEF IsPlan
<1>11. /\ DOMAIN ids = 1 .. Len(ids)
       /\ \A i \in DOMAIN ids : ids[i] \in DOMAIN sess /\ ids[i] \in Movable
       /\ \A i, j \in DOMAIN ids : ids[i] = ids[j] => i = j
       /\ \A s \in Movable : \E i \in DOMAIN ids : ids[i] = s
  <2>1. MovesAll(ids, Movable)
    BY <1>1, <1>7, MovableSessions
  <2> QED BY <2>1 DEF MovesAll
<1>12. DOMAIN ids = DOMAIN planned
  BY <1>6, <1>10, <1>11
<1>13. RowFits(then) /\ then.status # "none"
  <2>1. CASE planned = <<>> \/ then = after
    BY <2>1, <1>5
  <2>2. CASE planned # <<>> /\ then # after
    <3>0. planned \in Seq(Int) /\ planned # <<>>
      BY <2>2, <1>10
    <3>1. Len(planned) \in Nat /\ Len(planned) # 0
      BY ONLY <3>0
    <3>2. planned[1] \in Int
      BY ONLY <3>0, <3>1
    <3>3. then = [after EXCEPT !.anchor = planned[1]]
      BY <2>2, <1>5
    <3> QED BY <3>2, <3>3 DEF RowFits, RowFields
  <2> QED BY <2>1, <2>2
<1>14. \A s \in DOMAIN sess : DayOf(s) = DayIn(sess, rv, s) /\ DayOf(s) \in Int
  BY <1>7, SessionDays
<1>15. ASSUME NEW i \in DOMAIN ids PROVE Counts(sess, rv, ids[i])
  <2>1. Bucket(ids[i]) = "remaining"
    BY <1>11 DEF Movable, Remaining
  <2> QED BY <2>1, Buckets
<1>16. ASSUME NEW u \in DOMAIN sess, Counts(sess, rv, u), \A i \in DOMAIN ids : ids[i] # u,
              NEW k \in DOMAIN planned
       PROVE  DayIn(sess, rv, u) # planned[k]
  <2>1. u \notin Movable
    BY <1>11, <1>16
  <2>2. CASE Bucket(u) = "remaining"
    <3>1. u \in Remaining \ Movable
      BY <2>1, <2>2 DEF Remaining
    <3>2. DayOf(u) \in StayingDays
      BY <3>1 DEF StayingDays
    <3> QED BY <3>2, <1>6, <1>14 DEF PicksFit
  <2>3. CASE Bucket(u) = "done"
    <3>1. sess[u].bk # 0 /\ rv[sess[u].bk].status \in {"visited", "missed"}
      BY <2>3, Buckets
    <3>2. DayIn(sess, rv, u) <= day /\ DayIn(sess, rv, u) \in Int
      BY <3>1, <1>7 DEF DayIn, SessionsFit, VisitsFit
    <3>3. day \in Int
      BY <1>7
    <3>4. planned[k] \in Int /\ from <= planned[k]
      BY <1>10, <1>16
    <3> QED BY ONLY <3>2, <3>3, <3>4, from > day, from \in Int
  <2> QED BY <2>2, <2>3, <1>16, Buckets
<1>17. ASSUME NEW m \in keep
       PROVE  \E k \in DOMAIN planned, i \in DOMAIN ids :
                /\ m[1] = k /\ m[2] = sess[ids[i]].bk /\ m = <<k, sess[ids[i]].bk>>
                /\ sess[ids[i]].bk # 0 /\ DayOf(ids[i]) = planned[k]
  <2>1. PICK P : P = {q \in (DOMAIN planned) \X (DOMAIN ids) :
                        /\ sess[ids[q[2]]].bk # 0 /\ DayOf(ids[q[2]]) = planned[q[1]]}
    OBVIOUS
  <2>2. keep = {<<q[1], sess[ids[q[2]]].bk>> : q \in P}
    BY <2>1, <1>4, Zenon DEF KeepPlan
  <2>3. PICK q \in P : m = <<q[1], sess[ids[q[2]]].bk>>
    BY <2>2
  <2>4. /\ q[1] \in DOMAIN planned /\ q[2] \in DOMAIN ids /\ sess[ids[q[2]]].bk # 0
        /\ DayOf(ids[q[2]]) = planned[q[1]]
    BY <2>1
  <2>5. m[1] = q[1] /\ m[2] = sess[ids[q[2]]].bk
    BY <2>3
  <2> QED BY <2>3, <2>4, <2>5
<1>18. ASSUME NEW i \in DOMAIN ids, sess[ids[i]].bk # 0
       PROVE  sess[ids[i]].bk \in DOMAIN rv /\ rv[sess[ids[i]].bk].day = DayOf(ids[i])
  BY <1>7, <1>11, <1>18 DEF SessionsFit, DayOf
<1>19. ASSUME NEW m \in keep, NEW n \in keep, m[1] = n[1] \/ m[2] = n[2] PROVE m = n
  <2>1. PICK k \in DOMAIN planned, i \in DOMAIN ids :
                /\ m[1] = k /\ m[2] = sess[ids[i]].bk /\ m = <<k, sess[ids[i]].bk>>
                /\ sess[ids[i]].bk # 0 /\ DayOf(ids[i]) = planned[k]
    BY <1>17
  <2>2. PICK l \in DOMAIN planned, j \in DOMAIN ids :
                /\ n[1] = l /\ n[2] = sess[ids[j]].bk /\ n = <<l, sess[ids[j]].bk>>
                /\ sess[ids[j]].bk # 0 /\ DayOf(ids[j]) = planned[l]
    BY <1>17
  <2>3. CASE m[1] = n[1]
    <3>1. DayIn(sess, rv, ids[i]) = DayIn(sess, rv, ids[j])
      <4>1. planned[k] = planned[l]
        BY <2>1, <2>2, <2>3
      <4>2. /\ DayOf(ids[i]) = DayIn(sess, rv, ids[i])
            /\ DayOf(ids[j]) = DayIn(sess, rv, ids[j])
        BY <1>11, <1>14
      <4> QED BY <4>1, <4>2, <2>1, <2>2
    <3>2. ids[i] = ids[j]
      BY <3>1, <1>7, <1>11, <1>15 DEF DaysApart
    <3> QED BY <3>2, <2>1, <2>2, <2>3
  <2>4. CASE m[2] = n[2]
    <3>1. ids[i] = ids[j]
      <4>1. ids[i] \in DOMAIN sess /\ ids[j] \in DOMAIN sess
        BY <1>11
      <4>2. sess[ids[i]].bk = sess[ids[j]].bk /\ sess[ids[i]].bk # 0
        BY <2>1, <2>2, <2>4
      <4> QED BY <4>1, <4>2, <1>7 DEF LinksApart
    <3>2. k = l
      BY <3>1, <2>1, <2>2, <1>10
    <3> QED BY <3>1, <3>2, <2>1, <2>2
  <2> QED BY <2>3, <2>4, <1>19
<1>20. PICK h : OnlyMoves(p, h) /\ Begun(h, kind, ids, planned, keep, then)
  BY <1>6, Begins
<1>21. /\ HandFields \subseteq DOMAIN h /\ h.pc = "book" /\ h.kind = kind /\ h.ids = ids
       /\ h.days = planned /\ h.keep = keep /\ h.after = then /\ h.made = {} /\ h.due = {}
       /\ h.todo \subseteq DOMAIN planned /\ \A m \in keep : m[1] \notin h.todo
  BY <1>20 DEF Begun
<1>22. h.drop = {sess[ids[k]].bk : k \in DOMAIN ids} \ ({0} \cup {m[2] : m \in keep})
  BY <1>20 DEF Begun, ReleasePlan
<1>23. PairsFit(h, rv)
  <2>1. ASSUME NEW m \in keep
        PROVE  m[1] \in DOMAIN planned /\ m[2] \in DOMAIN rv /\ rv[m[2]].day = planned[m[1]]
    BY <1>17, <1>18
  <2> QED BY <2>1, <1>19, <1>21 DEF PairsFit
<1>24. Clear(h, sess, rv)
  BY <1>16, <1>21 DEF Clear
<1>25. ReplaceFits(h, sess, rv)
  <2>1. \A m \in keep : \E i \in DOMAIN ids : sess[ids[i]].bk = m[2]
    BY <1>17
  <2>2. ASSUME NEW i \in DOMAIN ids
        PROVE  \/ sess[ids[i]].bk \in {0} \cup h.drop
               \/ \E m \in keep : m[2] = sess[ids[i]].bk
    BY <1>22
  <2>3. ASSUME NEW v \in h.drop PROVE v \in DOMAIN rv
    <3>1. PICK i \in DOMAIN ids : v = sess[ids[i]].bk
      BY <1>22
    <3>2. v # 0
      BY <1>22
    <3> QED BY <3>1, <3>2, <1>18
  <2> QED BY <2>1, <2>2, <2>3, <1>12, <1>21 DEF ReplaceFits
<1>26. KindFits(h, sess, rv, rt)
  BY <1>13, <1>21, <1>25 DEF KindFits
<1>27. BookingFits(h, sess, rv, rt)
  BY <1>10, <1>11, <1>21, <1>23, <1>24, <1>26 DEF BookingFits
<1> QED BY <1>20, <1>21, <1>27, BegunFits DEF AskFits

\* The first day a change may use is after today and after every session
\* that stays.
LEMMA LaterDays ==
    ASSUME NEW h, Fits(h, sess, rv, rt, day)
    PROVE  AfterAll(StayingDays) \in Int
<1>1. DOMAIN sess \subseteq Nat /\ IsFiniteSet(DOMAIN sess) /\ \A s \in DOMAIN sess : DayOf(s) \in Int
  BY SessionDays
<1>2. PICK R : R = Remaining \ Movable
  OBVIOUS
<1>3. R \subseteq DOMAIN sess
  BY <1>2 DEF Remaining
<1>4. IsFiniteSet(R)
  BY <1>1, <1>3, FS_Subset
<1>5. PICK T : T = StayingDays
  OBVIOUS
<1>6. T = {DayOf(s) : s \in R}
  BY <1>2, <1>5 DEF StayingDays
<1>7. IsFiniteSet(T)
  <2>1. PICK f : f = [s \in R |-> DayOf(s)]
    OBVIOUS
  <2>2. f \in Surjection(R, T)
    BY <2>1, <1>6 DEF Surjection
  <2> QED BY ONLY <2>2, <1>4, FS_Surjection
<1>8. T \subseteq Int
  BY <1>1, <1>3, <1>6
<1>9. CASE T = {}
  BY <1>5, <1>9 DEF AfterAll
<1>10. CASE T # {}
  <2>1. Latest(T) \in Int
    BY <1>7, <1>8, <1>10, LatestIsLast
  <2> QED BY <2>1, <1>5, <1>10 DEF AfterAll
<1> QED BY <1>9, <1>10

\* The latest of two or three days.
LEMMA LatestOf ==
    ASSUME NEW a \in Int, NEW b \in Int, NEW c \in Int
    PROVE  /\ Latest({a, b, c}) \in Int /\ a <= Latest({a, b, c})
           /\ Latest({a, b}) \in Int /\ a <= Latest({a, b})
<1>1. ASSUME NEW S, S = {a, b, c} \/ S = {a, b} PROVE Latest(S) \in Int /\ a <= Latest(S)
  <2>1. S \subseteq Int /\ S # {} /\ a \in S
    BY <1>1
  <2>2. \E d \in S : \A e \in S : e <= d
    BY <1>1
  <2>3. Latest(S) \in S /\ \A e \in S : e <= Latest(S)
    BY <2>2 DEF Latest
  <2> QED BY <2>1, <2>3
<1> QED BY <1>1

\* PAUSE.
LEMMA AskPause ==
    ASSUME NEW p, Asking(p), Pause(p)
    PROVE  AskMoves(p)
<1>1. /\ proc[p].pc = "idle" /\ rt.status = "active" /\ UNCHANGED <<rt, sess, rv, day>>
  BY DEF Pause, Manage, Ask, ActionAllowed
<1>2. PICK until \in (day + 1) .. (day + PAUSE_MAX_DAYS) :
        Move(p, "pause", PauseFrom(until), "", [rt EXCEPT !.status = "paused", !.until = until])
  BY DEF Pause
<1>3. /\ Fits(proc[p], sess, rv, rt, day) /\ day \in Int /\ RowFits(rt)
  BY DEF Asking, Fits
<1>4. PICK after : after = [rt EXCEPT !.status = "paused", !.until = until]
  OBVIOUS
<1>5. RowFits(after) /\ after.status # "none"
  BY <1>1, <1>3, <1>4 DEF RowFits, RowFields
<1>6. until \in Int /\ until > day
  BY <1>3, RoutinesAssumption
<1>7. PICK from : from = PauseFrom(until)
  OBVIOUS
<1>8. from \in Int /\ from > day
  <2>1. PICK T : T = {DayOf(s) : s \in Movable}
    OBVIOUS
  <2>2. PICK first : first = IF T = {} THEN 0 ELSE CHOOSE d \in T : \A e \in T : d <= e
    OBVIOUS
  <2>3. from = Latest({until, first, AfterAll(StayingDays)})
    BY <2>1, <2>2, <1>7, Zenon DEF PauseFrom
  <2>4. first \in Int
    <3>1. DOMAIN sess \subseteq Nat /\ IsFiniteSet(DOMAIN sess) /\ \A s \in DOMAIN sess : DayOf(s) \in Int
      BY <1>3, SessionDays
    <3>2. PICK M : M = Movable
      OBVIOUS
    <3>3. M \subseteq DOMAIN sess
      BY <3>2 DEF Movable, Remaining
    <3>4. IsFiniteSet(M)
      BY <3>1, <3>3, FS_Subset
    <3>5. T = {DayOf(s) : s \in M}
      BY <3>2, <2>1
    <3>6. IsFiniteSet(T)
      <4>1. PICK f : f = [s \in M |-> DayOf(s)]
        OBVIOUS
      <4>2. f \in Surjection(M, T)
        BY <4>1, <3>5 DEF Surjection
      <4> QED BY ONLY <4>2, <3>4, FS_Surjection
    <3>7. T \subseteq Int
      BY <3>1, <3>3, <3>5
    <3>8. T # {} => \E d \in T : \A e \in T : d <= e
      BY <3>6, <3>7, Extremes
    <3>9. CASE T = {}
      BY <3>9, <2>2
    <3>10. CASE T # {}
      <4>1. PICK c : c = CHOOSE d \in T : \A e \in T : d <= e
        OBVIOUS
      <4>2. c \in T
        BY <4>1, <3>8, <3>10
      <4>3. first = c
        BY <4>1, <2>2, <3>10
      <4> QED BY <4>2, <4>3, <3>7
    <3> QED BY <3>9, <3>10
  <2>5. AfterAll(StayingDays) \in Int
    BY <1>3, LaterDays
  <2>6. from \in Int /\ until <= from
    BY <2>3, <2>4, <2>5, <1>6, LatestOf
  <2> QED BY <2>6, <1>3, <1>6
<1>9. Move(p, "pause", from, "", after)
  BY <1>2, <1>4, <1>7
<1>10. PICK freq \in Switches : freq = ""
  BY DEF Switches
<1>11. Move(p, "pause", from, freq, after)
  BY <1>9, <1>10
<1> QED BY <1>1, <1>5, <1>8, <1>11, AskMove

\* RESUME, with or without a switch of frequency.
LEMMA AskResume ==
    ASSUME NEW p, Asking(p), ResumeRoutine(p)
    PROVE  AskMoves(p)
<1>1. /\ proc[p].pc = "idle" /\ rt.status = "paused" /\ UNCHANGED <<rt, sess, rv, day>>
  BY DEF ResumeRoutine, Manage, Ask, ActionAllowed
<1>2. PICK freq \in Switches :
        Move(p, "resume", ResumeFrom, freq,
             [rt EXCEPT !.status = "active", !.until = 0, !.freq = IF freq = "" THEN @ ELSE freq])
  <2>1. {""} \cup Cadences \subseteq Switches
    BY RoutinesAssumption DEF Switches, Frequencies
  <2> QED BY <2>1, Zenon DEF ResumeRoutine
<1>3. /\ Fits(proc[p], sess, rv, rt, day) /\ day \in Int /\ RowFits(rt)
  BY DEF Asking, Fits
<1>4. PICK after : after = [rt EXCEPT !.status = "active", !.until = 0,
                                      !.freq = IF freq = "" THEN @ ELSE freq]
  OBVIOUS
<1>6. RowFits(after) /\ after.status # "none"
  <2>1. /\ DOMAIN after = DOMAIN rt /\ after.anchor = rt.anchor /\ after.status = "active"
        /\ after.freq = IF freq = "" THEN rt.freq ELSE freq
    BY <1>3, <1>4 DEF RowFits, RowFields
  <2>2. freq = "" \/ freq \in Frequencies
    BY DEF Switches
  <2> QED BY <2>1, <2>2, <1>1, <1>3 DEF RowFits
<1>7. PICK from : from = ResumeFrom
  OBVIOUS
<1>8. from \in Int /\ from > day
  <2>0. day \in Int
    BY <1>3
  <2>1. AfterAll(StayingDays) \in Int
    BY <1>3, LaterDays
  <2>4. day + 1 \in Int
    BY ONLY <2>0
  <2>2. from = Latest({day + 1, AfterAll(StayingDays)})
    BY <1>7 DEF ResumeFrom
  <2>3. from \in Int /\ day + 1 <= from
    BY <2>1, <2>2, <2>4, LatestOf
  <2> QED BY ONLY <2>0, <2>3
<1>9. Move(p, "resume", from, freq, after)
  BY <1>2, <1>4, <1>7
<1> QED BY <1>1, <1>6, <1>8, <1>9, AskMove

-----------------------------------------------------------------------------
(* One customer at a time *)

\* One customer changes the routine, and no job runs.
Solo == (\A j \in Jobs : ~On(j)) /\ \A p, q \in Apps : On(p) /\ On(q) => p = q

\* What p has in hand, if it is a request at all.
HandOf(p) == IF p \in Procs THEN proc[p] ELSE Idle
\* p is the only customer, and the routine is as it should be.
Lone(p) ==
    /\ \A j \in Jobs : ~On(j)
    /\ \A q \in Apps : On(q) => q = p
    /\ DOMAIN proc = Procs /\ \A q \in Procs : q # p => proc[q] = Idle
    /\ Fits(HandOf(p), sess, rv, rt, day)
\* The invariant of ChangesKeepVisitsApart.
SoloInv == Solo => \E p : Lone(p)

\* The one customer's request.
LEMMA LoneAsks ==
    ASSUME NEW p, Lone(p), p \in Procs
    PROVE  Asking(p)
BY DEF Lone, HandOf, Asking

\* A step of the request keeps the routine as it should be.
LEMMA LoneMoves ==
    ASSUME NEW p, Lone(p), p \in Procs, AskMoves(p), UNCHANGED scenario
    PROVE  Lone(p)'
<1>1. DOMAIN proc' = Procs /\ \A q \in Procs : q # p => proc'[q] = proc[q]
  BY DEF AskMoves, OnlyMoves
<1>2. Fits(HandOf(p), sess, rv, rt, day)'
  <2>1. HandOf(p)' = proc'[p]
    BY DEF HandOf, Procs
  <2>2. Fits(proc'[p], sess', rv', rt', day')
    BY DEF AskMoves
  <2> QED BY <2>1, <2>2, Zenon
<1>3. \A q \in Procs : q # p => proc'[q] = Idle
  BY <1>1 DEF Lone
<1>4. \A q : On(q)' = On(q)
  BY DEF On
<1> QED BY <1>1, <1>2, <1>3, <1>4 DEF Lone

\* So does a step that only calls off or ends visits, or a day that passes.
LEMMA LoneCalm ==
    ASSUME NEW p, Lone(p), UNCHANGED <<rt, sess, proc, scenario>>,
           day' \in Int, day <= day', Calms(rv, rv', day')
    PROVE  Lone(p)'
<1>1. PICK h : h = HandOf(p)
  OBVIOUS
<1>2. Fits(h, sess, rv, rt, day)
  BY <1>1 DEF Lone
<1>3. PICK ww, e : ww = rv' /\ e = day'
  OBVIOUS
<1>4. Fits(h, sess, ww, rt, e)
  BY <1>2, <1>3, CalmKeeps
<1>5. HandOf(p)' = h
  BY <1>1 DEF HandOf, Procs
<1>6. Fits(HandOf(p), sess, rv, rt, day)'
  BY <1>3, <1>4, <1>5, Zenon
<1>7. \A q : On(q)' = On(q)
  BY DEF On
<1> QED BY <1>6, <1>7 DEF Lone

\* Every request, and every step of one.
LEMMA LoneRequests ==
    ASSUME NEW p, Lone(p), p \in Procs, RequestOf(p), UNCHANGED scenario
    PROVE  Lone(p)'
<1>1. Asking(p)
  BY LoneAsks
<1>2. ASSUME AskMoves(p) PROVE Lone(p)'
  BY <1>2, LoneMoves
<1>3. ASSUME NEW s, NEW d \in 1 .. RoutineEnd, RescheduleSession(p, s, d) PROVE AskMoves(p)
  <2>1. d \in Int
    OBVIOUS
  <2> QED BY <2>1, <1>1, <1>3, AskReschedule
<1>4. \/ CreateRoutine(p) \/ Extend(p) \/ Pause(p) \/ ResumeRoutine(p) \/ CancelRoutine(p)
      \/ (\E s : SkipSession(p, s)) \/ (\E s, d : d \in 1 .. RoutineEnd /\ RescheduleSession(p, s, d))
      \/ SaveNew(p) \/ SaveMore(p) \/ SaveMove(p)
      \/ SkipCancel(p) \/ SkipMark(p) \/ MoveVisit(p) \/ MoveMark(p)
      \/ CancelNext(p) \/ EndByCustomer(p)
  BY Zenon DEF RequestOf
<1>5. CASE \/ CreateRoutine(p) \/ Extend(p) \/ Pause(p) \/ ResumeRoutine(p) \/ CancelRoutine(p)
           \/ (\E s : SkipSession(p, s))
  BY <1>1, <1>2, <1>5, AskCreate, AskExtend, AskPause, AskResume, AskCancel, AskSkip
<1>6. CASE \E s, d : d \in 1 .. RoutineEnd /\ RescheduleSession(p, s, d)
  BY <1>2, <1>3, <1>6
<1>7. CASE SaveNew(p) \/ SaveMore(p) \/ SaveMove(p)
  <2>1. day' = day
    BY <1>7 DEF SaveNew, SaveMore, SaveMove
  <2> QED BY <2>1, <1>1, <1>2, <1>7, AskSaveNew, AskSaveMore, AskSaveMove
<1>8. CASE SkipCancel(p) \/ SkipMark(p) \/ MoveVisit(p) \/ MoveMark(p)
  <2>1. day' = day
    BY <1>8 DEF SkipCancel, SkipMark, MoveVisit, MoveMark
  <2> QED BY <2>1, <1>1, <1>2, <1>8, AskSkipCancel, AskSkipMark, AskMoveVisit, AskMoveMark
<1>9. CASE CancelNext(p) \/ EndByCustomer(p)
  <2>1. day' = day
    BY <1>9 DEF CancelNext, EndByCustomer
  <2> QED BY <2>1, <1>1, <1>2, <1>9, AskCancelNext, AskEndByCustomer
<1> QED BY <1>4, <1>5, <1>6, <1>7, <1>8, <1>9

\* The steps a request shares with the job: only the one customer takes them.
LEMMA LoneEither ==
    ASSUME NEW p, Lone(p), NEW q \in Procs, EitherOf(q), UNCHANGED scenario
    PROVE  Lone(p)'
<1>1. proc[q].pc \in {"book", "release"} /\ day' = day
  BY DEF EitherOf, BookNext, BookFails, SaveLink, SaveFails, ReleaseNext, Ready
<1>2. q = p
  BY <1>1, IdleKeepsNothing DEF Lone
<1>3. Asking(p)
  BY <1>2, LoneAsks
<1>4. CASE BookFails(p) \/ SaveFails(p)
  <2>1. /\ proc[p].pc = "book" /\ proc' = [proc EXCEPT ![p] = GivingBack(p)]
        /\ UNCHANGED <<rt, sess, rv, day>>
    BY <1>4 DEF BookFails, SaveFails
  <2> QED BY <2>1, <1>2, <1>3, AskGivesBack, LoneMoves
<1>5. CASE BookNext(p) \/ SaveLink(p) \/ ReleaseNext(p)
  BY <1>1, <1>2, <1>3, <1>5, AskBookNext, AskSaveLink, AskReleaseNext, LoneMoves
<1> QED BY <1>2, <1>4, <1>5 DEF EitherOf

\* A visit that happens, is missed or is cancelled at the salon.
LEMMA LoneSalon ==
    ASSUME NEW p, Lone(p), NEW v, NEW to \in {"visited", "missed", "cancelled"}, VisitOver(v, to),
           UNCHANGED scenario
    PROVE  Lone(p)'
<1>1. VisitsFit(rv, day) /\ day \in Int
  BY DEF Lone, Fits
<1>2. /\ rv[v].status = "booked" /\ (to \in {"visited", "missed"} => rv[v].day <= day)
      /\ rv' = [rv EXCEPT ![v].status = to] /\ UNCHANGED <<rt, sess, proc, day>>
  BY DEF VisitOver
<1>3. PICK ww : ww = rv'
  OBVIOUS
<1>4. /\ DOMAIN ww = DOMAIN rv /\ ww = [x \in DOMAIN rv |-> ww[x]]
      /\ \A x \in DOMAIN rv : x # v => ww[x] = rv[x]
      /\ v \in DOMAIN rv => /\ DOMAIN ww[v] = DOMAIN rv[v] /\ ww[v].status = to
                            /\ ww[v].day = rv[v].day
  BY <1>1, <1>2, <1>3 DEF VisitsFit
<1>5. IsSequence(ww)
  BY <1>1, <1>4, Rewritten DEF VisitsFit
<1>6. Calms(rv, ww, day)
  BY <1>1, <1>2, <1>4, <1>5 DEF Calms, VisitsFit
<1>7. day' \in Int /\ day <= day'
  BY <1>1, <1>2
<1>8. Calms(rv, rv', day')
  BY <1>2, <1>3, <1>6, Zenon
<1> QED BY <1>2, <1>7, <1>8, LoneCalm

\* A step that leaves the routine alone.
LEMMA LoneQuiet ==
    ASSUME NEW p, Lone(p), UNCHANGED <<rt, sess, rv, proc, scenario>>,
           day' = day \/ day' = day + 1
    PROVE  Lone(p)'
<1>1. VisitsFit(rv, day) /\ day \in Int
  BY DEF Lone, Fits
<1>2. day' \in Int /\ day <= day'
  BY <1>1
<1>3. Calms(rv, rv', day')
  BY <1>1 DEF Calms, VisitsFit
<1> QED BY <1>2, <1>3, LoneCalm

\* Before there is a routine nothing is booked.
LEMMA LoneBegins == Init => SoloInv
<1> SUFFICES ASSUME Init, Solo PROVE \E p : Lone(p)
  BY DEF SoloInv
<1>1. PICK p : \A q \in Apps : On(q) => q = p
  BY DEF Solo
<1>0. PICK f : f = ""
  OBVIOUS
<1>2. /\ rt = [status |-> "none", freq |-> f, anchor |-> 0, until |-> 0, missAfter |-> -1]
      /\ day = 0 /\ proc = [q \in Procs |-> Idle] /\ sess = <<>> /\ rv = <<>>
  BY <1>0 DEF Init, RoutineInit
<1>3. RowFits(rt) /\ rt.status = "none" /\ day \in Int
  BY <1>2 DEF RowFits, RowFields
<1>4. DOMAIN sess = {} /\ DOMAIN rv = {} /\ IsSequence(sess) /\ IsSequence(rv)
  BY <1>2, NoRows
<1>5. HandOf(p) = Idle /\ DOMAIN proc = Procs /\ \A q \in Procs : proc[q] = Idle
  BY <1>2 DEF HandOf
<1>6. Fits(Idle, sess, rv, rt, day)
  BY <1>3, <1>4 DEF Fits, VisitsFit, SessionsFit, LinksApart, DaysApart, Owned
<1> QED BY <1>1, <1>5, <1>6 DEF Lone, Solo

\* Every step keeps the routine as it should be.
LEMMA LoneNext ==
    ASSUME NEW p, Lone(p), [Next]_vars
    PROVE  Lone(p)'
<1>1. UNCHANGED scenario
  BY DEF Next, vars
<1>2. CASE RoutineStep
  <2>1. ASSUME NEW q \in Apps, On(q), RequestOf(q) PROVE Lone(p)'
    <3>1. q = p /\ p \in Procs
      BY <2>1 DEF Lone, Procs
    <3> QED BY <3>1, <2>1, <1>1, LoneRequests
  <2>2. ASSUME NEW j \in Jobs, On(j) PROVE FALSE
    BY <2>2 DEF Lone
  <2>3. ASSUME NEW q \in Procs, EitherOf(q) PROVE Lone(p)'
    BY <2>3, <1>1, LoneEither
  <2>4. ASSUME NEW v, NEW to \in {"visited", "missed", "cancelled"}, VisitOver(v, to) PROVE Lone(p)'
    BY <2>4, <1>1, LoneSalon
  <2>5. ASSUME NEW d, SlotTaken(d) PROVE Lone(p)'
    BY <2>5, <1>1, LoneQuiet DEF SlotTaken
  <2>6. CASE NextDay
    BY <2>6, <1>1, LoneQuiet DEF NextDay, routineVars
  <2> QED BY <2>1, <2>2, <2>3, <2>4, <2>5, <2>6, <1>2 DEF RoutineStep
<1>3. CASE SeriesStep \/ RosterStep \/ PartiesStep \/ UNCHANGED vars
  <2>1. UNCHANGED <<rt, sess, rv, proc, day>>
    BY <1>3 DEF SeriesStep, RosterStep, PartiesStep, vars, routineVars
  <2> QED BY <2>1, <1>1, LoneQuiet
<1> QED BY <1>2, <1>3 DEF Next

\* Each booking that stands is one session's or in the request's hand.
LEMMA SoloAccounts ==
    ASSUME NEW p, Lone(p)
    PROVE  VisitsAreAccountedFor
<1> SUFFICES ASSUME NEW v \in DOMAIN rv, rv[v].status = "booked"
             PROVE  \/ Cardinality({s \in DOMAIN sess : sess[s].bk = v}) = 1
                    \/ \E q \in Procs : v \in Made(q) \cup proc[q].drop
  BY Zenon DEF VisitsAreAccountedFor
<1>1. /\ VisitsFit(rv, day) /\ LinksApart(sess) /\ Owned(HandOf(p), sess, rv)
  BY DEF Lone, Fits
<1>2. CASE \E s \in DOMAIN sess : sess[s].bk = v
  <2>1. PICK s \in DOMAIN sess : sess[s].bk = v
    BY <1>2
  <2>2. v # 0
    BY <1>1 DEF VisitsFit
  <2>3. {u \in DOMAIN sess : sess[u].bk = v} = {s}
    BY <2>1, <2>2, <1>1 DEF LinksApart
  <2>4. Cardinality({s}) = 1
    BY FS_Singleton
  <2> QED BY <2>3, <2>4
<1>3. CASE v \in KeptBy(HandOf(p))
  <2>1. p \in Procs
    BY <1>3, IdleKeepsNothing DEF HandOf
  <2>2. v \in Made(p) \cup proc[p].drop
    BY <2>1, <1>3 DEF HandOf, KeptBy, Made
  <2> QED BY <2>1, <2>2
<1> QED BY <1>1, <1>2, <1>3 DEF Owned

\* No two sessions that count are on a day.
LEMMA SoloKeepsDaysApart ==
    ASSUME NEW p, Lone(p)
    PROVE  NoTwoVisitsADay
<1> SUFFICES ASSUME NEW s \in DOMAIN sess, NEW u \in DOMAIN sess, s # u,
                    {Bucket(s), Bucket(u)} \subseteq {"remaining", "done"}
             PROVE  DayOf(s) # DayOf(u)
  BY Zenon DEF NoTwoVisitsADay
<1>1. Counts(sess, rv, s) /\ Counts(sess, rv, u)
  BY Buckets
<1>2. DayOf(s) = DayIn(sess, rv, s) /\ DayOf(u) = DayIn(sess, rv, u)
  BY SessionDays DEF Lone
<1> QED BY <1>1, <1>2 DEF Lone, Fits, DaysApart

\* While one customer changes the routine and no job runs, no sequence of
\* EXTEND, PAUSE, RESUME, SKIP, RESCHEDULE and CANCEL, each of them failing
\* or not at any booking and at the write, with visits happening, being
\* missed and being cancelled between any two steps, puts two sessions that
\* did or will happen on one day or leaves a booking that stands without a
\* session: PAUSE and RESUME plan around what stays, EXTEND after the last,
\* and whatever was booked and not saved is given back.
THEOREM ChangesKeepVisitsApart ==
    Spec => [](Solo => VisitsAreAccountedFor /\ NoTwoVisitsADay)
<1>1. SoloInv /\ [Next]_vars => SoloInv'
  <2> SUFFICES ASSUME SoloInv, [Next]_vars, Solo' PROVE (\E p : Lone(p))'
    BY DEF SoloInv
  <2>1. UNCHANGED scenario
    BY DEF Next, vars
  <2>2. Solo
    BY <2>1 DEF Solo, On
  <2>3. PICK p : Lone(p)
    BY <2>2 DEF SoloInv
  <2>4. Lone(p)'
    BY <2>3, LoneNext
  <2> QED BY <2>4
<1>2. SoloInv => (Solo => VisitsAreAccountedFor /\ NoTwoVisitsADay)
  BY SoloAccounts, SoloKeepsDaysApart DEF SoloInv
<1> QED BY <1>1, <1>2, LoneBegins, PTL DEF Spec
=============================================================================
