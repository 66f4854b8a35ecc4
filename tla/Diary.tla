------------------------------- MODULE Diary -------------------------------
(***************************************************************************)
(* One day's diary: the desk holds the starts the engine offers, holds are *)
(* confirmed or lapse, visits are called off or arrive, and compaction     *)
(* shifts them.                                                            *)
(*                                                                         *)
(* Sources: place-hold.handler.ts, hold.repository.ts, compaction.handler  *)
(* .ts, compaction.repository.ts and RescheduleRepository.shiftInPlace().  *)
(* The hold's own life is modelled in Holds; here only its rows matter.    *)
(***************************************************************************)
EXTENDS Compaction

CONSTANTS
    Visits,      \* numbers
    Clerks,      \* requests under way at once
    Baskets,     \* what customers ask for
    Starts,      \* bound: the minutes they ask for
    Outcomes,    \* how a hold is confirmed: [st, kind] records, the kind
                 \* "plain", "group" or "series"
    MaxShifts,   \* bound on the shifts of one visit
    Lengths      \* what a late visit may be shortened to; bound: one a day

VARIABLES
    visit,       \* visit -> its booking, or the hold before it
    staffRows,   \* staff_reservation rows that block
    chairRows,   \* resource_reservation rows that block
    clerk        \* a request between its read and its write

diaryVars == <<visit, staffRows, chairRows, clerk>>

Blank == [st |-> "unused", kind |-> "plain", basket |-> <<>>, staff |-> 0,
          start |-> 0, dur |-> 0, moves |-> 0]
Gone == [Blank EXCEPT !.st = "gone"]
IdleClerk == [op |-> "idle", v |-> 0, staff |-> 0, start |-> 0, basket |-> <<>>,
              todo |-> {}]

DiaryInit ==
    /\ visit = [v \in Visits |-> Blank]
    /\ staffRows = {} /\ chairRows = {}
    /\ clerk = [c \in Clerks |-> IdleClerk]

MOVABLE_STATES == {"confirmed", "pending_payment", "pending_confirmation"}

\* Every row the constraint and the count see, and loadDay()'s view of them:
\* an expired hold stops protecting at once, before the sweeper deletes it.
AllRows == [staff |-> staffRows, chairs |-> chairRows]
LoadDay ==
    [staff |-> {r \in staffRows : visit[r.v].st # "lapsed"},
     chairs |-> {o \in chairRows : visit[o.v].st # "lapsed"}]

Release(v) ==
    /\ staffRows' = {r \in staffRows : r.v # v}
    /\ chairRows' = {o \in chairRows : o.v # v}

-----------------------------------------------------------------------------
(* PlaceHoldHandler *)

\* The fresh answer: refused, or a professional is picked for the start.
HoldAsk(c, v, basket, start, preferred) ==
    LET perStaff == PerStaff(basket, LoadDay, DESK_CHANNEL, preferred, 0 - 1) IN
    /\ clerk[c] = IdleClerk /\ visit[v].st = "unused"
    /\ \A d \in Clerks : clerk[d].v # v
    /\ Refusal(basket, start, preferred, perStaff) = "none"
    /\ clerk' = [clerk EXCEPT ![c] =
          [IdleClerk EXCEPT !.op = "place", !.v = v, !.basket = basket,
             !.start = start,
             !.staff = LeastLoaded(StaffAvailableAt(perStaff, ToSlot(start)))]]
    /\ UNCHANGED <<visit, staffRows, chairRows>>

\* place(): its own transaction, on the rows as they are by then.
HoldPlace(c) ==
    LET k == clerk[c]
        row == StaffRow(k.v, k.staff, k.basket, k.start)
        demand == Demand(k.v, k.basket, k.start)
        held == PlaceOutcome(row, demand, AllRows) = "held"
    IN
    /\ k.op = "place"
    /\ clerk' = [clerk EXCEPT ![c] = IdleClerk]
    /\ IF held
       THEN /\ staffRows' = staffRows \cup {row}
            /\ chairRows' = chairRows \cup demand
            /\ visit' = [visit EXCEPT ![k.v] =
                  [Blank EXCEPT !.st = "held", !.basket = k.basket,
                                !.staff = k.staff, !.start = k.start,
                                !.dur = ChainDuration(k.basket)]]
       ELSE UNCHANGED <<visit, staffRows, chairRows>>

\* The rows pass to the booking unchanged.
HoldConfirm(v, as) ==
    /\ visit[v].st = "held"
    /\ visit' = [visit EXCEPT ![v].st = as.st, ![v].kind = as.kind]
    /\ UNCHANGED <<staffRows, chairRows, clerk>>

HoldLapses(v) ==
    /\ visit[v].st = "held"
    /\ visit' = [visit EXCEPT ![v].st = "lapsed"]
    /\ UNCHANGED <<staffRows, chairRows, clerk>>

HoldSwept(v) ==
    /\ visit[v].st = "lapsed"
    /\ visit' = [visit EXCEPT ![v] = Gone]
    /\ Release(v)
    /\ UNCHANGED clerk

CallOff(v) ==
    /\ visit[v].st \in MOVABLE_STATES
    /\ visit' = [visit EXCEPT ![v] = Gone]
    /\ Release(v)
    /\ UNCHANGED clerk

Arrive(v) ==
    /\ visit[v].st = "confirmed"
    /\ visit' = [visit EXCEPT ![v].st = "checked_in"]
    /\ UNCHANGED <<staffRows, chairRows, clerk>>

\* shortenTo()
MIN_SHORTENED_MIN == 15
Shortens(v, to) == to < visit[v].dur /\ to >= MIN_SHORTENED_MIN

\* shorten(): every row of the visit gets the new length and the new end,
\* whatever its own start; a row that starts later than that end is refused
\* by its CHECK, and with it the whole.
Shorten(v, to) ==
    LET end == visit[v].start + to
        Cut(R) == {IF r.v = v THEN [r EXCEPT !.dur = to, !.end = end] ELSE r : r \in R}
    IN
    /\ visit[v].st \in {"confirmed", "checked_in"} /\ Shortens(v, to)
    /\ \A o \in chairRows : o.v = v => o.start < end
    /\ \A x \in Visits : visit[x].dur \in {0, ChainDuration(visit[x].basket)}
    /\ visit' = [visit EXCEPT ![v].dur = to]
    /\ staffRows' = Cut(staffRows) /\ chairRows' = Cut(chairRows)
    /\ UNCHANGED clerk

-----------------------------------------------------------------------------
(* CompactionHandler *)

\* diaryFor() and reasonFor(), with the planner's "moved too often".
DiaryFor ==
    {[v |-> v, staff |-> visit[v].staff, start |-> visit[v].start,
      end |-> visit[v].start + visit[v].dur,
      movable |-> /\ visit[v].kind = "plain" /\ visit[v].st = "confirmed"
                  /\ visit[v].moves < MAX_PRIOR_MOVES] :
       v \in {x \in Visits : visit[x].st \in MOVABLE_STATES}}

\* apply(): the plan is computed afresh, once, and the moves the customers
\* agreed to are looked up in it.
CompactRead(c) ==
    LET plan == Plan(DiaryFor) IN
    /\ clerk[c] = IdleClerk /\ plan # <<>>
    /\ \E agreed \in SUBSET (DOMAIN plan) \ {{}} :
         clerk' = [clerk EXCEPT ![c] =
            [IdleClerk EXCEPT !.op = "compact", !.todo = {plan[i] : i \in agreed}]]
    /\ UNCHANGED <<visit, staffRows, chairRows>>

\* shiftInPlace(): the old rows stop blocking and one row of each kind takes
\* their place, without claims or band and in the first service's station
\* for the whole visit; only the exclusion constraint can refuse it.
Shifted(v, to) ==
    LET dur == visit[v].dur IN
    [staff |-> [v |-> v, staff |-> visit[v].staff, start |-> to, dur |-> dur,
                end |-> to + dur, pre |-> 0, post |-> 0, band |-> NoBand],
     chair |-> [v |-> v, station |-> Service[Head(visit[v].basket)].station,
                start |-> to, dur |-> dur, end |-> to + dur]]

CompactShift(c, m) ==
    LET new == Shifted(m.v, m.to)
        free == \A r \in staffRows :
                  r.v # m.v /\ r.staff = new.staff.staff => ~Meets(r, new.staff)
    IN
    /\ clerk[c].op = "compact" /\ m \in clerk[c].todo
    /\ clerk' = [clerk EXCEPT ![c] =
          IF @.todo = {m} THEN IdleClerk ELSE [@ EXCEPT !.todo = @ \ {m}]]
    /\ IF visit[m.v].st \in MOVABLE_STATES /\ free /\ visit[m.v].moves < MaxShifts
       THEN /\ visit' = [visit EXCEPT ![m.v].start = m.to, ![m.v].moves = @ + 1]
            /\ staffRows' = {r \in staffRows : r.v # m.v} \cup {new.staff}
            /\ chairRows' = {o \in chairRows : o.v # m.v} \cup {new.chair}
       ELSE UNCHANGED <<visit, staffRows, chairRows>>

-----------------------------------------------------------------------------

DiaryNext ==
    \/ \E c \in Clerks, v \in Visits, b \in Baskets, s \in Starts :
         \E p \in DOMAIN Shift \cup {0} : HoldAsk(c, v, b, s, p)
    \/ \E c \in Clerks : HoldPlace(c)
    \/ \E v \in Visits, as \in Outcomes : HoldConfirm(v, as)
    \/ \E v \in Visits : HoldLapses(v) \/ HoldSwept(v) \/ CallOff(v) \/ Arrive(v)
    \/ \E v \in Visits, to \in Lengths : Shorten(v, to)
    \/ \E c \in Clerks : CompactRead(c)
    \/ \E c \in Clerks : \E m \in clerk[c].todo : CompactShift(c, m)

-----------------------------------------------------------------------------
(* Properties of the diary, once it has been written in.  A request's read  *)
(* leaves the rows alone, so they are stated where no request is under way. *)

AtRest == /\ \A c \in Clerks : clerk[c] = IdleClerk
          /\ \E v \in Visits : visit[v] # Blank

\* The masks say exactly what the rules say: a professional is offered a
\* start if and only if the visit, with its setup and teardown, fits the
\* shift, keeps the larger claim from every neighbour (or lies in a guarded
\* band), and finds a station for every seated piece, turnover included; on
\* the day itself it is also the channel's notice away, on the channel's grain.
OffersAreExact == AtRest =>
    \A b \in Baskets, ask \in {[on |-> DESK_CHANNEL, now |-> 0 - 1],
                               [on |-> ONLINE_CHANNEL, now |-> 1]} :
      LET perStaff == PerStaff(b, LoadDay, ask.on, 0, ask.now) IN
      \A p \in DOMAIN perStaff :
        perStaff[p] = ReferenceStarts(p, b, LoadDay, ask.on, ask.now)

\* A hold on an offered start is refused on the very same rows only where
\* the database counts more than the engine does: a band of the professional
\* it was offered inside, rows of one station that meet the visit at
\* different minutes, or an expired hold not swept yet.
HeldUnlessCounted(b, p, start) ==
    LET row == StaffRow(0, p, b, start)
        demand == Demand(0, b, start)
        outcome == PlaceOutcome(row, demand, AllRows)
    IN \/ outcome = "held"
       \/ \E v \in Visits : visit[v].st = "lapsed"
       \/ outcome = "staff_taken" /\
            \E r \in staffRows : r.staff = p /\ r.band # NoBand /\ Meets(r, row)
       \/ outcome = "no_chair" /\ \E d \in demand, o, q \in chairRows :
            /\ o.station = d.station /\ q.station = d.station
            /\ Meets(o, d) /\ Meets(q, d) /\ ~Meets(o, q)

BoardTime == 20    \* the minute the walk-in board is read

\* Every start in the list can be held (see above), and the three the
\* operator sees are genuine choices: the earliest feasible start is always
\* among them ("never traded away for a better score"), all are feasible,
\* and no two are within 25 minutes.  The walk-in board quotes each
\* professional once, only starts that can be held, and the soonest of all.
OffersAreHonoured == AtRest =>
    \A b \in Baskets :
      LET perStaff == PerStaff(b, LoadDay, DESK_CHANNEL, 0, 0 - 1)
          starts == {ToMin(s) : s \in Offered(perStaff)}
          top == TopOffers(b, LoadDay, DESK_CHANNEL, 0 - 1)
          today == {ToMin(s) : s \in Offered(PerStaff(b, LoadDay, DESK_CHANNEL, 0, BoardTime))}
          board == WalkInBoard(b, LoadDay, BoardTime)
      IN /\ \A p \in DOMAIN perStaff : \A slot \in perStaff[p] :
              HeldUnlessCounted(b, p, ToMin(slot))
         /\ Cardinality(top) <= 3 /\ \A o \in top : o.start \in starts
         /\ \A o, q \in top : o # q => Apart(o, q) >= OFFER_SPACING_MIN
         /\ starts # {} => \E o \in top : \A s \in starts : o.start <= s
         /\ \A o \in board : IF o.staff = 0 THEN o.start \in today
                             ELSE HeldUnlessCounted(b, o.staff, o.start)
         /\ \A o, q \in board : o # q => o.staff # q.staff
         /\ \A s \in today : \E o \in board : o.start <= s

\* Whatever the diary has been through, the plan compaction proposes is sound.
PlanIsSound == AtRest => Sound(DiaryFor, Plan(DiaryFor))
=============================================================================
