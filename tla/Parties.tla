------------------------------ MODULE Parties ------------------------------
(***************************************************************************)
(* Group bookings: a party is planned as a matching, held whole under one  *)
(* hold, and confirmed into one ordinary booking per member, by the desk   *)
(* (which plans again) or by the app (which re-points the rows it holds).  *)
(* Reservation rows name their owner; every transaction is a step, and so  *)
(* is every statement a handler runs between two of them.                  *)
(***************************************************************************)
EXTENDS Integers, Sequences, FiniteSets, SequencesExt

CONSTANTS
    Groups,     \* parties
    App,        \* those made in the app
    Members,    \* 1 .. n, a party's members in the order asked
    Roster,     \* the professionals, in roster order
    Need,       \* [dur, can, type] of each member of each party
    Shape,      \* anchor, mode, window and stagger each party asked for
    Units,      \* chairs of each type
    Singles,    \* ordinary bookings of others: [staff, from, to, type]
    Clerks,     \* requests being served
    MaxShifts,  \* bound: changes of the roster
    MaxFaults,  \* bound: crashes and failed statements
    None

ASSUME PartiesAssumption ==
    /\ App \subseteq Groups
    /\ \E n \in 2 .. 8 : Members = 1 .. n
    /\ \A g \in Groups, m \in Members : Need[g][m].dur \in Nat \ {0}
    /\ \A g \in Groups : Shape[g].mode \in {"arrive_together", "finish_together"}

VARIABLES
    staffRow,   \* blocking staff_reservation rows
    chairRow,   \* blocking resource_reservation rows
    group,      \* booking_group: none, draft, confirmed, cancelled
    hold,       \* the party's hold: none, live, lapsed
    member,     \* the booking of each member
    working,    \* who is on shift
    single,     \* which of the others' bookings are in the diary
    clerk,      \* each request's place in its handler
    shifts, faults,
    died        \* parties whose request died half-way

partyVars == <<staffRow, chairRow, group, hold, member, working, single,
               clerk, shifts, faults, died>>

Staff == Range(Roster)
Types == DOMAIN Units
Held(g)     == [kind |-> "hold", g |-> g, m |-> 0]
Lane(g, m)  == [kind |-> "lane", g |-> g, m |-> m]
Other(k)    == [kind |-> "other", g |-> k, m |-> 0]
Position(s) == CHOOSE i \in 1 .. Len(Roster) : Roster[i] = s

NoBooking == [st |-> "none", staff |-> None, from |-> 0]
AtRest    == [op |-> "rest", g |-> None, pros |-> {}, plan |-> {}, todo |-> {}]

PartiesInit ==
    /\ staffRow = {} /\ chairRow = {}
    /\ group = [g \in Groups |-> "none"] /\ hold = [g \in Groups |-> "none"]
    /\ member = [g \in Groups |-> [m \in Members |-> NoBooking]]
    /\ working = Staff
    /\ single = {}
    /\ clerk = [c \in Clerks |-> AtRest]
    /\ shifts = 0 /\ faults = 0 /\ died = {}

-----------------------------------------------------------------------------
(* domain/availability/party.ts *)

Longest(g) == CHOOSE d \in {Need[g][m].dur : m \in Members} :
                 \A m \in Members : Need[g][m].dur <= d

\* startsFor(): the anchor, or the shared finish less the slack allowed.
StartsFor(g, m, shape) ==
    IF shape.mode = "arrive_together" THEN {shape.anchor}
    ELSE {shape.anchor + Longest(g) - Need[g][m].dur - d : d \in 0 .. shape.window}

IsFree(rows, s, from, to) ==
    \A r \in rows : r.staff = s => ~(r.from < to /\ from < r.to)

\* One participant's eligible pool: on shift, skilled, free at some start.
Pool(g, m, shape, day) ==
    {s \in day.pros \cap Need[g][m].can :
        \E f \in StartsFor(g, m, shape) : IsFree(day.staff, s, f, f + Need[g][m].dur)}

\* chairsFit(): the diary and the plan together, at the plan's own edges.
ChairsFit(g, a, day) ==
    \A t \in Types :
        LET mine == {m \in Members : Need[g][m].type = t}
            edges == {a[m].from : m \in mine} \cup {a[m].from + Need[g][m].dur : m \in mine}
        IN  \A at \in edges :
              Cardinality({m \in mine : a[m].from <= at /\ at < a[m].from + Need[g][m].dur})
              + Cardinality({r \in day.chairs : r.type = t /\ r.from <= at /\ at < r.to})
                <= Units[t]

\* Scarcity order: smallest pool, then longest service, then the id.
Scarcer(g, shape, day, m, n) ==
    LET p == Cardinality(Pool(g, m, shape, day))
        q == Cardinality(Pool(g, n, shape, day))
    IN  \/ p < q
        \/ p = q /\ Need[g][m].dur > Need[g][n].dur
        \/ p = q /\ Need[g][m].dur = Need[g][n].dur /\ m < n

\* Every assignment the search could end in.
Seatings(g, shape, day) ==
    {a \in [Members -> [staff : Staff,
                        from : UNION {StartsFor(g, m, shape) : m \in Members}]] :
        /\ \A m \in Members :
             /\ a[m].from \in StartsFor(g, m, shape)
             /\ a[m].staff \in Pool(g, m, shape, day)
             /\ IsFree(day.staff, a[m].staff, a[m].from, a[m].from + Need[g][m].dur)
        /\ \A m, n \in Members : m # n => a[m].staff # a[n].staff
        /\ \A m, n \in Members : a[m].from - a[n].from <= shape.stagger
        /\ ChairsFit(g, a, day)}

\* planParty() walks the scarcest participant first, latest start and roster
\* order within; backtracking ends in the first seating of that order, the
\* chair and stagger checks being monotone.  No seating: infeasible.
PlanParty(g, shape, day) ==
    LET fits == Seatings(g, shape, day)
        order == SetToSortSeq(Members, LAMBDA m, n : Scarcer(g, shape, day, m, n))
        Precedes(x, y) == \/ x.from > y.from
                          \/ x.from = y.from /\ Position(x.staff) < Position(y.staff)
        First(a, b) == \E i \in 1 .. Len(order) :
            /\ \A j \in 1 .. i - 1 : a[order[j]] = b[order[j]]
            /\ Precedes(a[order[i]], b[order[i]])
    IN  {a \in fits : \A b \in fits : a = b \/ First(a, b)}

-----------------------------------------------------------------------------
(* GroupHoldHandler and GroupHoldRepository.place() *)

\* contextFor(): the committed diary, with the roster the handler loaded.
Day(pros, but) == [pros |-> pros,
                   staff |-> {r \in staffRow : r.owner # but},
                   chairs |-> {r \in chairRow : r.owner # but}]

Busy(c) == clerk[c] # AtRest
TypesOf(g) == {Need[g][m].type : m \in Members}

\* Advisory locks on the party's chair types, held until the transaction ends.
LockFree(g) == \A c \in Clerks : clerk[c].op = "planned" =>
                  TypesOf(clerk[c].g) \cap TypesOf(g) = {}

LoadDay(c, g) ==
    /\ ~Busy(c) /\ group[g] = "none"
    /\ \A d \in Clerks : clerk[d].g # g
    /\ clerk' = [clerk EXCEPT ![c] = [AtRest EXCEPT !.op = "loaded", !.g = g,
                                                    !.pros = working]]
    /\ UNCHANGED <<staffRow, chairRow, group, hold, member, working, single, shifts, faults, died>>

\* Lock, read the diary, plan; a party that does not fit is refused.
PlanLocked(c) ==
    LET g == clerk[c].g
        plan == PlanParty(g, Shape[g], Day(clerk[c].pros, None))
    IN  /\ clerk[c].op = "loaded" /\ LockFree(g)
        /\ clerk' = [clerk EXCEPT ![c] =
             IF plan = {} THEN AtRest
             ELSE [@ EXCEPT !.op = "planned", !.plan = plan]]
        /\ UNCHANGED <<staffRow, chairRow, group, hold, member, working, single,
                       shifts, faults, died>>

StaffRows(g, a) == {[staff |-> a[m].staff, from |-> a[m].from,
                     to |-> a[m].from + Need[g][m].dur, owner |-> Held(g)] : m \in Members}
ChairRows(g, a) == {[type |-> Need[g][m].type, from |-> a[m].from,
                     to |-> a[m].from + Need[g][m].dur, owner |-> Held(g),
                     lane |-> m] : m \in Members}

\* Every lane or none: one refusal of the exclusion constraint undoes all.
PlaceWrite(c) ==
    /\ clerk[c].op = "planned"
    /\ LET g == clerk[c].g
           a == CHOOSE p \in clerk[c].plan : TRUE
           raced == \E r \in StaffRows(g, a) : ~IsFree(staffRow, r.staff, r.from, r.to)
       IN  IF raced
           THEN /\ clerk' = [clerk EXCEPT ![c] = AtRest]
                /\ UNCHANGED <<staffRow, chairRow, group, hold>>
           ELSE /\ staffRow' = staffRow \cup StaffRows(g, a)
                /\ chairRow' = chairRow \cup ChairRows(g, a)
                /\ group' = [group EXCEPT ![g] = "draft"]
                /\ hold' = [hold EXCEPT ![g] = "live"]
                /\ clerk' = [clerk EXCEPT ![c] =
                     IF g \in App THEN [@ EXCEPT !.op = "held"] ELSE AtRest]
    /\ UNCHANGED <<member, working, single, shifts, faults, died>>

\* hold.delete cascades to the rows it still owns.
WithoutHold(rows, g) == {r \in rows : r.owner # Held(g)}

Drop(g) ==
    /\ hold' = [hold EXCEPT ![g] = "none"]
    /\ staffRow' = WithoutHold(staffRow, g)
    /\ chairRow' = WithoutHold(chairRow, g)

Cancelled(g) == [group EXCEPT ![g] = IF @ = "draft" THEN "cancelled" ELSE @]

\* DELETE of a party's hold: idempotent, the draft is cancelled with it.
ReleaseParty(g) ==
    /\ g \notin App /\ hold[g] # "none"
    /\ Drop(g) /\ group' = Cancelled(g)
    /\ UNCHANGED <<member, working, single, clerk, shifts, faults, died>>

HoldLapses(g) ==
    /\ hold[g] = "live"
    /\ hold' = [hold EXCEPT ![g] = "lapsed"]
    /\ UNCHANGED <<staffRow, chairRow, group, member, working, single, clerk, shifts, faults, died>>

SweepHold(g) ==
    /\ hold[g] = "lapsed" /\ Drop(g)
    /\ UNCHANGED <<group, member, working, single, clerk, shifts, faults, died>>

-----------------------------------------------------------------------------
(* GroupConfirmHandler and GroupConfirmRepository.confirm(): the desk *)

DeskConfirmRead(c, g) ==
    /\ ~Busy(c) /\ g \notin App /\ group[g] = "draft"
    /\ clerk' = [clerk EXCEPT ![c] = [AtRest EXCEPT !.op = "confirm", !.g = g,
                                                    !.pros = working]]
    /\ UNCHANGED <<staffRow, chairRow, group, hold, member, working, single, shifts, faults, died>>

\* The shape read back off the rows the hold owns.
HeldShape(g) ==
    LET rows   == {r \in staffRow : r.owner = Held(g)}
        starts == {r.from : r \in rows}
        ends   == {r.to : r \in rows}
        Low(S)  == CHOOSE x \in S : \A y \in S : x <= y
        High(S) == CHOOSE x \in S : \A y \in S : x >= y
    IN  [anchor |-> Low(starts),
         mode |-> IF Cardinality(starts) = 1 THEN "arrive_together" ELSE "finish_together",
         window |-> High(ends) - Low(ends), stagger |-> High(starts) - Low(starts)]

\* updateMany by hold, professional and start for the staff row; by hold and
\* start alone for the chairs, member after member.
Repointed(g, a) ==
    {[r EXCEPT !.owner =
        IF r.owner = Held(g) /\ \E m \in Members : a[m].staff = r.staff /\ a[m].from = r.from
        THEN Lane(g, CHOOSE m \in Members : a[m].staff = r.staff) ELSE @] : r \in staffRow}

ChairsRepointed(g, a) ==
    {[r EXCEPT !.owner =
        IF r.owner = Held(g) /\ \E m \in Members : a[m].from = r.from
        THEN Lane(g, CHOOSE m \in Members :
                       a[m].from = r.from /\ \A n \in Members : a[n].from = r.from => m <= n)
        ELSE @] : r \in chairRow}

Booked(g, a) ==
    [member EXCEPT ![g] = [m \in Members |->
        [st |-> "confirmed", staff |-> a[m].staff, from |-> a[m].from]]]

\* One transaction: the hold locked and alive, the party planned again
\* without its own rows, N bookings, the rows re-pointed, the hold deleted.
DeskConfirm(c) ==
    LET g == clerk[c].g
        plan == PlanParty(g, HeldShape(g), Day(clerk[c].pros, Held(g)))
    IN  /\ clerk[c].op = "confirm"
        /\ hold[g] = "live" => LockFree(g)
        /\ IF hold[g] # "live" \/ plan = {}
           THEN UNCHANGED <<staffRow, chairRow, group, hold, member>>
           ELSE \E a \in plan :
                  /\ staffRow' = WithoutHold(Repointed(g, a), g)
                  /\ chairRow' = WithoutHold(ChairsRepointed(g, a), g)
                  /\ member' = Booked(g, a)
                  /\ group' = [group EXCEPT ![g] = "confirmed"]
                  /\ hold' = [hold EXCEPT ![g] = "none"]
        /\ clerk' = [clerk EXCEPT ![c] = AtRest]
        /\ UNCHANGED <<working, single, shifts, faults, died>>

-----------------------------------------------------------------------------
(* MobileGroupBookingHandler: hold and confirm in one request *)

ChairsByStart(g, a) == ChairsRepointed(g, a)                      \* mutant

\* Each member's own row, found by professional and start, or by the chair's
\* type, start and length.
ChairsOneByOne(g, a) ==
    {[r EXCEPT !.owner = IF r.owner = Held(g) THEN Lane(g, r.lane) ELSE @] : r \in chairRow}

\* The hold is alive and its group is still the draft it made.
StillDraft(g) == hold[g] = "live" /\ group[g] = "draft"

\* MobileGroupConfirmRepository.write(): no second plan.
AppConfirm(c) ==
    LET g == clerk[c].g
        a == CHOOSE p \in clerk[c].plan : TRUE
    IN  /\ clerk[c].op = "held"
        /\ IF ~StillDraft(g)
           THEN /\ clerk' = [clerk EXCEPT ![c].op = "giveback"]
                /\ UNCHANGED <<staffRow, chairRow, group, hold, member>>
           ELSE /\ staffRow' = WithoutHold(Repointed(g, a), g)
                /\ chairRow' = WithoutHold(ChairsOneByOne(g, a), g)
                /\ member' = Booked(g, a)
                /\ group' = [group EXCEPT ![g] = "confirmed"]
                /\ hold' = [hold EXCEPT ![g] = "none"]
                /\ clerk' = [clerk EXCEPT ![c].op = "answer"]
        /\ UNCHANGED <<working, single, shifts, faults, died>>

\* The transaction failed: the whole party is undone, the hold is left.
AppConfirmFails(c) ==
    /\ clerk[c].op = "held" /\ faults < MaxFaults
    /\ clerk' = [clerk EXCEPT ![c].op = "giveback"]
    /\ faults' = faults + 1
    /\ UNCHANGED <<staffRow, chairRow, group, hold, member, working, single, shifts, died>>

GiveNothingBack(g) == UNCHANGED <<staffRow, chairRow, group, hold>>  \* mutant

\* release() of the request's own hold.
GiveBack(g) ==
    IF hold[g] = "none" THEN UNCHANGED <<staffRow, chairRow, group, hold>>
    ELSE Drop(g) /\ group' = Cancelled(g)

AppGivesBack(c) ==
    /\ clerk[c].op = "giveback"
    /\ GiveBack(clerk[c].g)
    /\ clerk' = [clerk EXCEPT ![c] = AtRest]
    /\ UNCHANGED <<member, working, single, shifts, faults, died>>

\* The answer is read back; if that fails the lanes are expired one by one.
AppAnswers(c) ==
    /\ clerk[c].op = "answer"
    /\ clerk' = [clerk EXCEPT ![c] = AtRest]
    /\ UNCHANGED <<staffRow, chairRow, group, hold, member, working, single, shifts, faults, died>>

AppUnreadable(c) ==
    /\ clerk[c].op = "answer" /\ faults < MaxFaults
    /\ clerk' = [clerk EXCEPT ![c].op = "expire", ![c].todo = Members]
    /\ faults' = faults + 1
    /\ UNCHANGED <<staffRow, chairRow, group, hold, member, working, single, shifts, died>>

\* A member's booking ends: its rows stop blocking.
Ends(g, m, st) ==
    /\ member' = [member EXCEPT ![g][m].st = st]
    /\ staffRow' = {r \in staffRow : r.owner # Lane(g, m)}
    /\ chairRow' = {r \in chairRow : r.owner # Lane(g, m)}

ExpireLane(c) ==
    /\ clerk[c].op = "expire" /\ clerk[c].todo # {}
    /\ LET g == clerk[c].g
           m == CHOOSE x \in clerk[c].todo : \A y \in clerk[c].todo : x <= y
       IN  /\ IF member[g][m].st = "confirmed" THEN Ends(g, m, "expired")
              ELSE UNCHANGED <<member, staffRow, chairRow>>
           /\ clerk' = [clerk EXCEPT ![c] = IF @.todo = {m} THEN AtRest
                                            ELSE [@ EXCEPT !.todo = clerk[c].todo \ {m}]]
    /\ UNCHANGED <<group, hold, working, single, shifts, faults, died>>

-----------------------------------------------------------------------------
(* MobileGroupCancelHandler, and the members' own bookings *)

Gone == {"none", "cancelled", "expired"}
Cancellable(st) == st = "confirmed"

\* Every lane is asked first whether the booker may cancel it ...
CancelCheck(c, g) ==
    LET live == {m \in Members : member[g][m].st \notin Gone}
    IN  /\ ~Busy(c) /\ g \in App /\ group[g] = "confirmed"
        /\ live # {} /\ \A m \in live : Cancellable(member[g][m].st)
        /\ clerk' = [clerk EXCEPT ![c] = [AtRest EXCEPT !.op = "cancel", !.g = g,
                                                        !.todo = live]]
        /\ UNCHANGED <<staffRow, chairRow, group, hold, member, working, single,
                       shifts, faults, died>>

\* ... then cancelled through the ordinary path; a refusal ends the request.
CancelLane(c) ==
    /\ clerk[c].op = "cancel"
    /\ \E m \in clerk[c].todo :
         LET g == clerk[c].g IN
         IF Cancellable(member[g][m].st)
         THEN /\ Ends(g, m, "cancelled")
              /\ clerk' = [clerk EXCEPT ![c] = IF @.todo = {m} THEN AtRest
                                               ELSE [@ EXCEPT !.todo = clerk[c].todo \ {m}]]
         ELSE /\ clerk' = [clerk EXCEPT ![c] = AtRest]
              /\ UNCHANGED <<member, staffRow, chairRow>>
    /\ UNCHANGED <<group, hold, working, single, shifts, faults, died>>

\* The desk checks a member in, or cancels one member's booking.
MemberArrives(g, m) ==
    /\ member[g][m].st = "confirmed"
    /\ member' = [member EXCEPT ![g][m].st = "checked_in"]
    /\ UNCHANGED <<staffRow, chairRow, group, hold, working, single, clerk, shifts, faults, died>>

MemberCancels(g, m) ==
    /\ member[g][m].st = "confirmed"
    /\ Ends(g, m, "cancelled")
    /\ UNCHANGED <<group, hold, working, single, clerk, shifts, faults, died>>

-----------------------------------------------------------------------------
(* The rest of the diary *)

\* An ordinary booking: the exclusion constraint and the chair count decide.
SingleBooks(k) ==
    LET t == Singles[k].type IN
    /\ k \notin single
    /\ IsFree(staffRow, Singles[k].staff, Singles[k].from, Singles[k].to)
    /\ \A c \in Clerks : clerk[c].op = "planned" => t \notin TypesOf(clerk[c].g)
    /\ \A at \in Singles[k].from .. Singles[k].to - 1 :
         Cardinality({r \in chairRow : r.type = t /\ r.from <= at /\ at < r.to}) < Units[t]
    /\ single' = single \cup {k}
    /\ staffRow' = staffRow \cup {[staff |-> Singles[k].staff, from |-> Singles[k].from,
                                   to |-> Singles[k].to, owner |-> Other(k)]}
    /\ chairRow' = chairRow \cup {[type |-> t, from |-> Singles[k].from,
                                   to |-> Singles[k].to, owner |-> Other(k), lane |-> 0]}
    /\ UNCHANGED <<group, hold, member, working, clerk, shifts, faults, died>>

SingleCancels(k) ==
    /\ k \in single
    /\ single' = single \ {k}
    /\ staffRow' = {r \in staffRow : r.owner # Other(k)}
    /\ chairRow' = {r \in chairRow : r.owner # Other(k)}
    /\ UNCHANGED <<group, hold, member, working, clerk, shifts, faults, died>>

ShiftChanges(s) ==
    /\ shifts < MaxShifts
    /\ working' = IF s \in working THEN working \ {s} ELSE working \cup {s}
    /\ shifts' = shifts + 1
    /\ UNCHANGED <<staffRow, chairRow, group, hold, member, single, clerk, faults, died>>

\* The process serving c dies between two of its steps, or fails to give back.
ClerkDies(c) ==
    /\ Busy(c) /\ faults < MaxFaults
    /\ clerk' = [clerk EXCEPT ![c] = AtRest]
    /\ faults' = faults + 1
    /\ died' = died \cup {clerk[c].g}
    /\ UNCHANGED <<staffRow, chairRow, group, hold, member, working, single, shifts>>

-----------------------------------------------------------------------------

ClerkRuns(c) ==
    \/ PlanLocked(c) \/ PlaceWrite(c) \/ DeskConfirm(c) \/ AppConfirm(c)
    \/ AppGivesBack(c) \/ AppAnswers(c) \/ ExpireLane(c) \/ CancelLane(c)

PartyStep ==
    \/ \E c \in Clerks :
         \/ ClerkRuns(c) \/ AppConfirmFails(c) \/ AppUnreadable(c) \/ ClerkDies(c)
         \/ \E g \in Groups : LoadDay(c, g) \/ DeskConfirmRead(c, g) \/ CancelCheck(c, g)
    \/ \E g \in Groups : \/ ReleaseParty(g) \/ HoldLapses(g) \/ SweepHold(g)
                         \/ \E m \in Members : MemberArrives(g, m) \/ MemberCancels(g, m)
    \/ \E k \in DOMAIN Singles : SingleBooks(k) \/ SingleCancels(k)
    \/ \E s \in Staff : ShiftChanges(s)

-----------------------------------------------------------------------------

\* A party made in the app keeps what it held: every member still coming has
\* a professional's row and a chair's row of their own, so one member's
\* cancellation gives back that member's seat and nobody else's.
AppLanesOwnTheirSeats ==
    \A g \in App, m \in Members : member[g][m].st \in {"confirmed", "checked_in"} =>
        /\ \E r \in staffRow : /\ r.owner = Lane(g, m) /\ r.staff = member[g][m].staff
                               /\ r.from = member[g][m].from
        /\ Cardinality({r \in chairRow : r.owner = Lane(g, m)}) = 1

\* "Anything that fails after the hold gives it back at once": no party from
\* the app is left dark once its request has ended, unless the process died.
AppRefusalGivesBack ==
    \A g \in App : hold[g] # "none" /\ g \notin died => \E c \in Clerks : clerk[c].g = g

\* "the lane is protected continuously and there is no window to lose it in":
\* a desk party's confirmed member has the professional they were given.
DeskLanesOwnTheirStaff ==
    \A g \in Groups \ App, m \in Members : member[g][m].st = "confirmed" =>
        \E r \in staffRow : r.owner = Lane(g, m) /\ r.staff = member[g][m].staff
=============================================================================
