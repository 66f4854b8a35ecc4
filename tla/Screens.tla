------------------------------ MODULE Screens ------------------------------
(***************************************************************************)
(* What the screens say of the bookings the desk works on: the customer's  *)
(* shelves in the app, the diary's grids, strips, tiles and chips, and the *)
(* feed of cancellations and no-shows, which is read out of the status     *)
(* history.  A screen is an operator over the tables as they are when it   *)
(* is read; names, pictures and wording are decoration and left out.       *)
(***************************************************************************)
EXTENDS Desk, FiniteSetsExt, Sequences

CONSTANTS
    DayLength,     \* units of time in a day
    StaffOf,       \* the professional of each slot
    Shift,         \* the roster's published shift of each professional, any day
    Horizon,       \* the days the list and the month look ahead
    PageSize,      \* rows on a page
    Ranges,        \* the ranges, in days, the feed and the summary are asked for
    MaxMarks       \* bound on the reminders, conflicts and refills

ASSUME ScreensAssumption ==
    /\ Bookings \subseteq Nat /\ IsFiniteSet(Bookings)
    /\ Deposits \subseteq 1 .. Price    \* "never bank more than the price"
    /\ DayLength \in Nat \ {0} /\ Horizon \in Nat \ {0}
    /\ DOMAIN StaffOf = Slots /\ DOMAIN Shift = {StaffOf[s] : s \in Slots}
    /\ \A p \in DOMAIN Shift : Shift[p].from \in Int /\ Shift[p].to \in Int
    /\ PageSize \in Nat \ {0}
    /\ Ranges \subseteq Nat \ {0} /\ MaxMarks \in Nat

VARIABLES
    history,    \* booking_status_history: the rows that record an exit
    marks       \* the stamped 24-hour reminders, the open worklist items and
                \* the accepted waitlist offers; an item has its change's day

screenVars == <<vars, history, marks>>

Staff     == {StaffOf[s] : s \in Slots}
Made      == {b \in Bookings : booking[b].st # "unused"}
DayOf(t)  == t \div DayLength
DayOn(b)  == DayOf(StartAt(b))         \* trading_day
Today     == DayOf(now)
Marked(what, b) == \E m \in marks : m.what = what /\ m.b = b
Worth(S)  == MapThenSumSet(LAMBDA b : Price, S)
Minutes(S) == MapThenSumSet(LAMBDA b : Length, S)

-----------------------------------------------------------------------------
(* The app's shelves *)

ArchiveOnlyFinal == TERMINAL_STATES                               \* mutant
ARCHIVE_STATES == TERMINAL_STATES \cup {"completed"}
NEVER_LISTED_STATES == {"draft", "held"}

\* By status, and by when the visit ENDS.
ShelfOf(b) ==
    IF booking[b].st \in ARCHIVE_STATES THEN "archive"
    ELSE IF EndAt(b) > now THEN "upcoming" ELSE "archive"

\* An abandoned checkout is litter, a live one is a task.
IsListable(b) ==
    /\ ~(booking[b].pay = "unpaid" /\ booking[b].st = "expired")
    /\ booking[b].st \notin NEVER_LISTED_STATES

\* A visit released because its routine could not be booked in full.
ReleasedVisit(b) ==
    /\ booking[b].st = "cancelled"
    /\ \E i \in DOMAIN history : history[i].b = b /\ history[i].reason = "released"

\* customerPage(): the WHERE of a shelf, in SQL.
Shelf(shelf) ==
    LET listable == {b \in Made : IsListable(b) /\ ~ReleasedVisit(b)}
        upcoming == {b \in listable : /\ booking[b].st \notin ARCHIVE_STATES
                                      /\ EndAt(b) > now}
        archive  == {b \in listable : \/ booking[b].st \in ARCHIVE_STATES
                                      \/ EndAt(b) <= now}
    IN  IF shelf = "upcoming" THEN upcoming ELSE archive

\* pageRows(): soonest first ahead, latest first behind, the id breaks a tie.
Before(shelf, a, b) ==
    \/ IF shelf = "upcoming" THEN StartAt(a) < StartAt(b) ELSE StartAt(a) > StartAt(b)
    \/ StartAt(a) = StartAt(b) /\ a < b
PageRows(shelf, page) ==
    {b \in Shelf(shelf) :
        Cardinality({a \in Shelf(shelf) : Before(shelf, a, b)})
          \in (page - 1) * PageSize .. page * PageSize - 1}

STATUS_TO_MOBILE(st) ==
    CASE st \in {"pending_payment", "pending_confirmation"} -> "BOOKED"
      [] st = "confirmed" -> "CONFIRMED_BY_SALON"
      [] st \in {"checked_in", "in_service"} -> "CHECKED_IN"
      [] st \in {"completed", "settled"} -> "COMPLETED"
      [] OTHER -> "CANCELLED"

PAYMENT_TO_MOBILE(pay) ==
    CASE pay = "unpaid" -> "DRAFT"
      [] pay = "none_required" -> "PAY_AFTER_CHECK_IN"
      [] pay = "fully_paid" -> "FULLY_PAID"
      [] OTHER -> "PARTIALLY"

\* paidAndDue(): what the customer handed over, and what is left of the total.
PaidAndDue(b) ==
    [paid |-> ledger[b].captured,
     due |-> IF Price > ledger[b].captured THEN Price - ledger[b].captured ELSE 0]

\* present(): the booking as its own page shows it.
Present(b) ==
    [status |-> STATUS_TO_MOBILE(booking[b].st), paid |-> PaidAndDue(b).paid,
     due |-> PaidAndDue(b).due, payment |-> PAYMENT_TO_MOBILE(booking[b].pay),
     expires |-> booking[b].link]

\* A row of the list adds the captures up by itself.
ListRow(b) ==
    [status |-> STATUS_TO_MOBILE(booking[b].st),
     payment |-> PAYMENT_TO_MOBILE(booking[b].pay),
     due |-> IF Price > ledger[b].captured THEN Price - ledger[b].captured ELSE 0]

\* The repository knows two shelves, the app draws three tabs.
WithRecurring(upcoming, archive) ==
    [upcoming |-> upcoming, recurring |-> 0, archive |-> archive]

\* shelfCounts(): the badges alone, from customerPage().
ShelfCounts ==
    WithRecurring(Cardinality(Shelf("upcoming")), Cardinality(Shelf("archive")))

MobileList(filter, page) ==
    IF filter = "recurring"
    THEN [count |-> 0, counts |-> ShelfCounts, rows |-> {}]
    ELSE [count |-> Cardinality(Shelf(filter)), counts |-> ShelfCounts,
          rows |-> {<<b, ListRow(b)>> : b \in PageRows(filter, page)}]

-----------------------------------------------------------------------------
(* The vocabulary of the diary: application/contract/screen-view.ts *)

LIVE_STATUSES == {"pending_payment", "pending_confirmation", "confirmed",
                  "checked_in", "in_service", "completed", "settled"}

STATUS_MAP(st) ==
    CASE st = "rescheduled" -> "cancelled"
      [] st = "skipped" -> "expired"
      [] OTHER -> st

PAYMENT_MAP(pay) ==
    CASE pay = "none_required" -> "NONE"
      [] pay = "unpaid" -> "PENDING"
      [] pay = "fully_paid" -> "FULL"
      [] OTHER -> "PAID"

OUTCOME_MAP(pay) ==
    CASE pay = "forfeited" -> "FORFEITED"
      [] pay \in {"refunded", "partially_refunded"} -> "REFUNDED"
      [] OTHER -> None

LIST_FILTERS == {"ALL", "TODAY", "TOMORROW", "DEPOSIT_PENDING", "CONFLICTS",
                 "UNCONFIRMED", "NOT_REMINDED"}

StatusesFor(filter) ==
    CASE filter = "DEPOSIT_PENDING" -> {"pending_payment"}
      [] filter = "UNCONFIRMED" -> {"pending_confirmation", "pending_payment"}
      [] OTHER -> LIVE_STATUSES

CALENDAR_CHIPS == {"upcoming", "checked_in", "in_service", "completed",
                   "no_show", "cancelled"}

CHIP_MAP(chip) ==
    CASE chip = "upcoming" -> {"pending_confirmation", "confirmed", "pending_payment"}
      [] chip = "completed" -> {"completed", "settled"}
      [] OTHER -> {chip}

\* No chip is no filter: the caller falls back on the live statuses.
StatusesForChips(chips) ==
    IF chips = {} THEN LIVE_STATUSES ELSE UNION {CHIP_MAP(c) : c \in chips}

CHIP_STATUSES == UNION {CHIP_MAP(c) : c \in CALENDAR_CHIPS}

PAYMENT_CHIPS == {"unpaid", "deposit_paid", "fully_paid"}

\* Two columns: settling at the till never touches the payment status, and a
\* refund sits with the paid, so that no booking falls through every chip.
MatchesPaymentChip(chip, pay, st) ==
    CASE chip = "fully_paid" ->
            \/ pay \in {"fully_paid", "refunded", "partially_refunded"}
            \/ st = "settled"
      [] chip = "deposit_paid" -> pay = "deposit_paid" /\ st # "settled"
      [] chip = "unpaid" ->
            pay \in {"unpaid", "none_required", "forfeited"} /\ st # "settled"

MatchesAnyPaymentChip(chips, pay, st) ==
    chips = {} \/ \E c \in chips : MatchesPaymentChip(c, pay, st)

-----------------------------------------------------------------------------
(* ReadModelRepository *)

Days(from, to) == [from |-> from, to |-> to, statuses |-> LIVE_STATUSES, staff |-> Staff,
                   notReminded |-> FALSE, conflictsOnly |-> FALSE]

WhereForgetsStaff(f) ==                                           \* mutant
    {b \in Made :
        /\ DayOn(b) >= f.from /\ DayOn(b) < f.to /\ booking[b].st \in f.statuses
        /\ f.notReminded => ~Marked("reminded", b)
        /\ f.conflictsOnly => Marked("conflict", b)}

\* bookingWhere(): the one WHERE of the list, the counts and the totals.
BookingWhere(f) ==
    {b \in Made :
        /\ DayOn(b) >= f.from /\ DayOn(b) < f.to
        /\ booking[b].st \in f.statuses
        /\ StaffOf[booking[b].slot] \in f.staff
        /\ f.notReminded => ~Marked("reminded", b)
        /\ f.conflictsOnly => Marked("conflict", b)}

Pages(S) == 1 .. Cardinality(S) \div PageSize + 1

\* list(): ORDER BY start_at alone, so a tie may fall on either side of a page.
ListPage(f, limit, offset) ==
    LET W  == BookingWhere(f)
        at == [b \in W |-> StartAt(b)]
    IN  UNION {FirstOf(W \ skipped, at, limit) : skipped \in FirstOf(W, at, offset)}

Count(f) == Cardinality(BookingWhere(f))

DailyTotals(f) ==
    [d \in f.from .. f.to - 1 |->
        LET S == {b \in BookingWhere(f) : DayOn(b) = d}
        IN  [n |-> Cardinality(S), revenue |-> Worth(S)]]

StatusTotals(f) ==
    [st \in {booking[b].st : b \in BookingWhere(f)} |->
        LET S == {b \in BookingWhere(f) : booking[b].st = st}
        IN  [n |-> Cardinality(S), revenue |-> Worth(S)]]

\* windowStats(): every cancellation is counted as a late one.
WindowStats(from, to) ==
    LET In(sts) == {b \in Made : /\ DayOn(b) >= from /\ DayOn(b) < to
                                 /\ booking[b].st \in sts}
    IN  [bookings |-> Cardinality(In(LIVE_STATUSES)), revenue |-> Worth(In(LIVE_STATUSES)),
         kept |-> Cardinality(In({"completed", "settled"})),
         noShows |-> Cardinality(In({"no_show"})),
         lateCancels |-> Cardinality(In({"cancelled"}))]

\* openConflicts(): the items, each under the day of its roster change.
OpenConflicts == {m \in marks : m.what = "conflict"}
ConflictsFor(S) == {b \in S : Marked("conflict", b)}
DepositsPending(from) ==
    Cardinality({b \in Made : DayOn(b) >= from /\ booking[b].st = "pending_payment"})

-----------------------------------------------------------------------------
(* BookingReadHandler: the list and the calendar *)

\* toView(), and decorate() over a page; `conflicting` is read in one query.
ToView(b, conflicting) ==
    [id |-> b, status |-> STATUS_MAP(booking[b].st), date |-> DayOn(b),
     staff |-> StaffOf[booking[b].slot], payment |-> PAYMENT_MAP(booking[b].pay),
     outcome |-> OUTCOME_MAP(booking[b].pay), moves |-> booking[b].moves,
     reminded |-> Marked("reminded", b), conflict |-> b \in conflicting]
Decorate(S) == LET conflicting == ConflictsFor(S) IN {ToView(b, conflicting) : b \in S}

WindowFor(filter, from, to) ==
    CASE filter = "TODAY" -> Days(Today, Today + 1)
      [] filter = "TOMORROW" -> Days(Today + 1, Today + 2)
      [] OTHER -> LET first == IF from = None THEN Today ELSE from
                  IN  Days(first, IF to = None THEN first + Horizon ELSE to + 1)

\* windowKpis(): the tiles the month and the list share.
WindowKpis(totals, conflicts) ==
    LET live == {st \in DOMAIN totals : st \in LIVE_STATUSES}
        N(sts) == MapThenSumSet(LAMBDA st : totals[st].n, sts)
    IN  [booked |-> N(live),
         revenue |-> MapThenSumSet(LAMBDA st : totals[st].revenue, live),
         pendingDeposits |-> N({st \in live : st = "pending_payment"}),
         conflicts |-> conflicts]

\* counts(): the numbers on the chips, over the unfiltered set.
Counts ==
    LET ahead == Days(Today, Today + Horizon) IN
    [ALL |-> Count(ahead),
     TODAY |-> Count(Days(Today, Today + 1)),
     TOMORROW |-> Count(Days(Today + 1, Today + 2)),
     DEPOSIT_PENDING |-> Count([ahead EXCEPT !.statuses = {"pending_payment"}]),
     CONFLICTS |-> Count([ahead EXCEPT !.conflictsOnly = TRUE]),
     NOT_REMINDED |-> Count([ahead EXCEPT !.notReminded = TRUE]),
     UNCONFIRMED |-> Count([ahead EXCEPT !.statuses = StatusesFor("UNCONFIRMED")])]

\* list(), which answers with Counts as well.
ListBase(filter, from, to, staff) ==
    [WindowFor(filter, from, to) EXCEPT
        !.statuses = StatusesFor(filter), !.staff = staff,
        !.notReminded = (filter = "NOT_REMINDED"),
        !.conflictsOnly = (filter = "CONFLICTS")]
List(filter, from, to, staff) ==
    LET base == ListBase(filter, from, to, staff)
        byStatus == StatusTotals(base)
    IN  [pages |-> [k \in Pages(BookingWhere(base)) |->
                       ListPage(base, PageSize, (k - 1) * PageSize)],
         total |-> MapThenSumSet(LAMBDA st : byStatus[st].n, DOMAIN byStatus),
         kpis |-> WindowKpis(byStatus, Count([base EXCEPT !.conflictsOnly = TRUE]))]

\* chipCounts(), chipCountsOf()
ChipCounts(totals) ==
    [c \in CALENDAR_CHIPS |->
        MapThenSumSet(LAMBDA st : totals[st].n, {st \in DOMAIN totals : st \in CHIP_MAP(c)})]

GridOf(wide, chips, payChips) ==
    {b \in wide : /\ booking[b].st \in StatusesForChips(chips)
                  /\ MatchesAnyPaymentChip(payChips, booking[b].pay, booking[b].st)}

\* sellableMinutes(): the shift less the time off that falls inside it, each
\* minute of it once.  The screens pass no time off.
SellableMinutes(shift, timeOff) ==
    Cardinality((shift.from .. shift.to - 1) \ UNION {t.from .. t.to - 1 : t \in timeOff})

\* Booked over sellable as a fraction, never above the whole.
Utilisation(booked, sellable) ==
    IF sellable = 0 THEN <<0, 1>> ELSE <<Min({booked, sellable}), sellable>>

\* inViewFor(): the filter narrows the denominator with the numerator; an id
\* the roster does not know adds nobody.
InViewFor(staff) == Staff \cap staff
Sellable(staff, days) ==
    Cardinality(days) * MapThenSumSet(LAMBDA p : SellableMinutes(Shift[p], {}), InViewFor(staff))

\* The strip describes the window, the grid narrows with the chips.
StripOf(wide, sellable, conflicts) ==
    LET live == {b \in wide : booking[b].st \in LIVE_STATUSES}
    IN  [booked |-> Cardinality(live), revenue |-> Worth(live),
         utilisation |-> Utilisation(Minutes(live), sellable),
         pendingDeposits |-> Cardinality({b \in live : booking[b].st = "pending_payment"}),
         conflicts |-> conflicts]

\* day(): read wide, so that the no-show and cancelled chips find their rows.
DayWindow(d, staff) ==
    [Days(d, d + 1) EXCEPT !.statuses = CHIP_STATUSES, !.staff = staff]
DayView(d, chips, payChips, staff) ==
    LET all   == BookingWhere(DayWindow(d, staff))
        shown == GridOf(all, chips, payChips)
    IN  [bookings |-> Decorate(shown),
         columns |-> [p \in InViewFor(staff) |->
                        Cardinality({b \in shown : StaffOf[booking[b].slot] = p})],
         counts |-> ChipCounts(StatusTotals(DayWindow(d, staff))),
         kpis |-> StripOf(all, Sellable(staff, {d}),
                          Cardinality({m \in OpenConflicts : m.day = d}))]

\* week(): the days' counts from one query over the live statuses, the grid
\* from another, read wide.
WeekWindow(from, staff) == [Days(from, from + 7) EXCEPT !.staff = staff]
WeekRows(from, staff) ==
    BookingWhere([WeekWindow(from, staff) EXCEPT !.statuses = CHIP_STATUSES])
WeekView(from, chips, payChips, staff) ==
    LET days   == from .. from + 6
        all    == WeekRows(from, staff)
        totals == DailyTotals(WeekWindow(from, staff))
        shown  == GridOf(all, chips, payChips)
        views  == Decorate(shown)
    IN  [days |-> [d \in days |->
                     [count |-> totals[d].n, revenue |-> totals[d].revenue,
                      bookings |-> {v \in views : v.date = d}]],
         kpis |-> StripOf(all, Sellable(staff, days),
                          Cardinality({m \in OpenConflicts : m.day \in days})),
         counts |-> ChipCounts(StatusTotals([WeekWindow(from, staff) EXCEPT
                                               !.statuses = CHIP_STATUSES])),
         total |-> MapThenSumSet(LAMBDA d : totals[d].n, days),
         returned |-> Cardinality(shown)]

\* month(): counted, not fetched.
MonthView(from, to) ==
    LET totals   == DailyTotals(Days(from, to))
        byStatus == StatusTotals([Days(from, to) EXCEPT !.statuses = CHIP_STATUSES])
    IN  [cells |-> [d \in from .. to - 1 |->
                      [count |-> totals[d].n, revenue |-> totals[d].revenue,
                       withinHorizon |-> d <= Today + Horizon]],
         kpis |-> WindowKpis(byStatus, Cardinality({m \in OpenConflicts :
                                                      m.day >= from /\ m.day < to})),
         counts |-> ChipCounts(byStatus)]

-----------------------------------------------------------------------------
(* The overview *)

\* formatDelta(): a rise from nothing has no percentage.
Rounded(n, d) == (2 * n + d) \div (2 * d)
FormatDelta(current, prior, kind) ==
    CASE kind = "absolute" -> <<current - prior, "">>
      [] kind = "percent" /\ prior = 0 -> IF current = 0 THEN <<0, "%">> ELSE <<0, "new">>
      [] OTHER -> <<Rounded((current - prior) * 100, prior), "%">>
Kpi(current, prior, kind) ==
    [value |-> current, delta |-> FormatDelta(current, prior, kind)]

\* showUpRate(), in percent, of the visits that came to an end.
ShowUpRate(s) ==
    LET concluded == s.kept + s.noShows + s.lateCancels
    IN  IF concluded = 0 THEN 100 ELSE (100 * s.kept) \div concluded

\* summary(): this window against the one before it.
Summary(range) ==
    LET end   == Today + 1
        start == end - range
        current == WindowStats(start, end)
        prior   == WindowStats(start - range, start)
        totals  == DailyTotals(Days(start, end))
    IN  [bookings |-> Kpi(current.bookings, prior.bookings, "percent"),
         revenue |-> Kpi(current.revenue, prior.revenue, "percent"),
         showUpRate |-> ShowUpRate(current),
         noShows |-> Kpi(current.noShows, prior.noShows, "absolute"),
         trend |-> [d \in start .. end - 1 |-> totals[d].n],
         bookingsToday |-> totals[Today].n]

\* worklist(): one row per problem, none for a problem nobody has.
Worklist ==
    {t \in {[kind |-> "DEPOSITS_PENDING", count |-> DepositsPending(Today)],
            [kind |-> "CONFLICTS", count |-> Cardinality(OpenConflicts)]} : t.count > 0}

-----------------------------------------------------------------------------
(* The feed of cancellations and no-shows *)

EVENT_KINDS == {"ALL", "CANCELLED", "LATE_CANCEL", "NO_SHOW"}

LateTiming(at, start) ==                                          \* mutant
    LET ahead == start - at IN
    CASE ahead >= FreeCancel -> "more_than_24h"
      [] ahead < FreeCancel /\ ahead >= LateCancel -> "24h_to_2h"
      [] OTHER -> "under_2h"

\* cancelTiming(): exactly at the late window is still the middle band.
CancelTiming(at, start) ==
    LET ahead == start - at IN
    CASE ahead > FreeCancel -> "more_than_24h"
      [] ahead <= FreeCancel /\ ahead >= LateCancel -> "24h_to_2h"
      [] OTHER -> "under_2h"

EventOutcome(pay) ==
    CASE pay = "forfeited" -> "DEPOSIT_KEPT"
      [] pay = "partially_refunded" -> "PARTIALLY_REFUNDED"
      [] pay = "refunded" -> "REFUNDED"
      [] pay \in {"none_required", "unpaid"} -> "NO_CHARGE"
      [] OTHER -> "LOST"

\* toEventView(): the history row, and the booking as it is now.
ToEventView(i) ==
    LET h == history[i]
        kind == IF h.to = "no_show" THEN "NO_SHOW" ELSE "CANCELLED"
        band == CancelTiming(h.at, StartAt(h.b))
    IN  [id |-> i, booking |-> h.b, kind |-> kind,
         by |-> IF h.by = "system" THEN "AUTO" ELSE h.by,
         band |-> band, lateCancel |-> kind = "CANCELLED" /\ band = "under_2h",
         day |-> DayOn(h.b), outcome |-> EventOutcome(booking[h.b].pay),
         recovered |-> Marked("refilled", h.b)]

\* event(): the drawer has the row's fields, and the policy window in words.
PolicyWindow(v) == IF v.kind = "NO_SHOW" THEN "start + grace passed" ELSE v.band
EventDrawer(i) == [row |-> ToEventView(i), window |-> PolicyWindow(ToEventView(i))]

KindsOf(kind) ==
    CASE kind = "NO_SHOW" -> {"no_show"}
      [] kind \in {"CANCELLED", "LATE_CANCEL"} -> {"cancelled"}
      [] OTHER -> {"cancelled", "no_show"}

\* The window is on when the event happened; its last day is included.
EventsIn(range, kinds) ==
    {i \in DOMAIN history :
        /\ DayOf(history[i].at) >= Today + 1 - range
        /\ DayOf(history[i].at) <= Today + 1
        /\ history[i].to \in kinds}

\* events(): the newest first.
EventRows(range, kinds, page) ==
    LET S == EventsIn(range, kinds)
    IN  {i \in S : Cardinality({j \in S : j > i})
                     \in (page - 1) * PageSize .. page * PageSize - 1}

\* countEvents(): takes no notice of the late window.
CountEvents(range, kinds) == Cardinality(EventsIn(range, kinds))

LateInclusive(S, lateOnly) ==                                     \* mutant
    {i \in S : lateOnly => StartAt(history[i].b) - history[i].at <= LateCancel}

LateIn(S, lateOnly) ==
    {i \in S : lateOnly => StartAt(history[i].b) - history[i].at < LateCancel}

EventTotals(range, kinds, lateOnly) ==
    LET S == LateIn(EventsIn(range, kinds), lateOnly) IN
    [events |-> Cardinality(S),
     noShows |-> Cardinality({i \in S : history[i].to = "no_show"}),
     value |-> Price * Cardinality(S),
     kept |-> MapThenSumSet(LAMBDA i : booking[history[i].b].deposit,
                            {i \in S : booking[history[i].b].pay = "forfeited"}),
     recovered |-> Cardinality({i \in S : Marked("refilled", history[i].b)})]

\* summarise(): everything the events were worth, less whatever was kept.
Summarise(t) ==
    [events |-> t.events, noShows |-> t.noShows, kept |-> t.kept,
     lost |-> IF t.value > t.kept THEN t.value - t.kept ELSE 0,
     recovered |-> t.recovered]

\* eventReasons(): the reason and the price of each event of the window.
EventReasons(range, kinds, lateOnly) ==
    {[id |-> i, reason |-> history[i].reason, price |-> Price] :
        i \in LateIn(EventsIn(range, kinds), lateOnly)}

\* groupReasons(): an event nobody gave a reason for has a group of its own.
GroupReasons(given) ==
    {LET S == {g \in given : g.reason = r} IN
     [reason |-> IF r = None THEN "No reason given" ELSE r,
      count |-> Cardinality(S), value |-> MapThenSumSet(LAMBDA g : g.price, S)] :
        r \in {g.reason : g \in given}}

\* events(): LATE_CANCEL narrows the page after it was fetched.
Events_(range, kind, page) ==
    LET kinds == KindsOf(kind)
        late  == kind = "LATE_CANCEL"
    IN  [data |-> {v \in {ToEventView(i) : i \in EventRows(range, kinds, page)} :
                      late => v.lateCancel},
         total |-> CountEvents(range, kinds),
         summary |-> Summarise(EventTotals(range, kinds, late)),
         reasons |-> GroupReasons(EventReasons(range, kinds, late))]

-----------------------------------------------------------------------------
(* What the desk does meanwhile: the actions of the desk's components, with *)
(* the history row an exit leaves behind.                                   *)

Log(b, to, by, who, reason) ==
    history' = Append(history, [b |-> b, to |-> to, at |-> now, by |-> by,
                                who |-> who, reason |-> reason])
Quiet == UNCHANGED <<history, marks, scenario>>

CallOff(b, a, who, reason) ==
    /\ DeskCommand(b, "cancelled", a, who)
    /\ Log(b, "cancelled", a, who, reason)
    /\ UNCHANGED <<marks, scenario>>

\* check-in, no-show and settle, and what the jobs decide.  The reads in front
\* of these transactions are the desk's subject; here nothing comes between.
Attend(b, to, grace, bill, y) ==
    /\ b \in Made /\ InTime(to, StartAt(b), grace)
    /\ Transition(b, to, "staff", TRUE, SettleMoney(b, to, "customer", FALSE),
                  IF to = "settled" THEN Tender(Balance(b), bill, y) ELSE NoTender)
    /\ IF to = "no_show" THEN Log(b, to, "staff", "customer", None) ELSE UNCHANGED history
    /\ UNCHANGED <<work, marks, scenario>>
Absent(b) ==
    /\ b \in NoShowCandidates
    /\ Transition(b, "no_show", "system", TRUE,
                  SettleMoney(b, "no_show", "customer", FALSE), NoTender)
    /\ Log(b, "no_show", "system", "customer", None)
    /\ UNCHANGED <<work, marks, scenario>>
LinkLapses(b) ==
    /\ b \in LinksClosed
    /\ Transition(b, "expired", "system", TRUE, Nothing, NoTender)
    /\ UNCHANGED work /\ Quiet

\* A move starts the reminders again.
Moved(b, s) ==
    /\ Move(b, s)
    /\ marks' = {m \in marks : m.what # "reminded" \/ m.b # b}
    /\ UNCHANGED <<history, scenario>>

Mark(what, b) ==
    /\ Cardinality(marks) < MaxMarks
    /\ \/ what = "reminded" /\ booking[b].st = "confirmed" /\ StartAt(b) > now
       \/ what = "conflict" /\ booking[b].st \in BLOCKING_STATES /\ StartAt(b) > now
       \/ what = "refilled" /\ booking[b].st \in Exits
    /\ marks' = marks \cup {[what |-> what, b |-> b, day |-> DayOn(b)]}
    /\ UNCHANGED <<vars, history>>
SettleItem(m) ==
    /\ m \in OpenConflicts
    /\ marks' = marks \ {m}
    /\ UNCHANGED <<vars, history>>

ScreenInit == Init /\ history = <<>> /\ marks = {}

ScreenNext ==
    \/ \E b \in Bookings, s \in scenario.slots, k \in scenario.kinds, d \in Deposits :
         Book(b, s, k, d) /\ Quiet
    \/ Tick /\ Quiet
    \/ \E b \in Bookings :
         \/ CallOff(b, "customer", "customer", "customer")
         \/ CallOff(b, "staff", "salon", "salon")
         \/ On("routine") /\ CallOff(b, "customer", "customer", "released")
    \/ \E b \in Bookings, to \in {"in_service", "completed"} :
         DeskCommand(b, to, "staff", "customer") /\ Quiet
    \/ \E b \in Bookings, to \in {"checked_in", "no_show", "settled"} :
         \E g \in Graces, bill \in Bills, y \in Loyalty : Attend(b, to, g, bill, y)
    \/ \E b \in Bookings : Absent(b) \/ LinkLapses(b)
    \/ \E b \in Bookings, amt \in 0 .. Price :
         \E pay \in {"deposit_paid", "fully_paid"} : RecordPayment(b, pay, amt, None) /\ Quiet
    \/ On("revive") /\ \E b \in Bookings, key \in Keys : Revive(b, key) /\ Quiet
    \/ On("move") /\ \E b \in Bookings, s \in Slots : Moved(b, s)
    \/ On("mark") /\ \E b \in Bookings, what \in {"reminded", "conflict", "refilled"} :
         Mark(what, b)
    \/ \E m \in marks : SettleItem(m)

ScreenSpec == ScreenInit /\ [][ScreenNext]_screenVars

-----------------------------------------------------------------------------
(* Properties *)

Revived(b) == /\ booking[b].st \notin Exits
              /\ \E i \in DOMAIN history : history[i].b = b /\ history[i].to = "no_show"
Once(x, pages, Rows(_)) == Cardinality({p \in pages : x \in Rows(p)}) = 1

\* booking-shelf.ts, customerPage(): the shelf chosen in SQL is the shelf the
\* rule names; every listable booking is on one shelf and on one page of it,
\* and the badges count it there.  A visit the diary still keeps a slot for is
\* ahead of the customer until it is done, and what the app draws as cancelled
\* or completed never is.  A row shows the due and the status its page shows.
ShelvesFollowTheDiary ==
    LET ahead == Shelf("upcoming")
        behind == Shelf("archive")
    IN  /\ \A shelf \in {"upcoming", "archive"}, b \in Made :
             b \in Shelf(shelf) <=> IsListable(b) /\ ~ReleasedVisit(b) /\ ShelfOf(b) = shelf
        /\ \A shelf \in {"upcoming", "archive"} : \A b \in Shelf(shelf) :
             Once(<<b, ListRow(b)>>, Pages(Shelf(shelf)),
                  LAMBDA p : MobileList(shelf, p).rows)
        /\ LET badges == MobileList("recurring", 1).counts
           IN  /\ badges.upcoming + badges.archive = Cardinality(ahead \cup behind)
               /\ badges.upcoming = MobileList("upcoming", 1).count
        /\ \A b \in Made :
             (\E r \in RowsOf(b) : r.blocking) /\ EndAt(b) > now =>
                 (b \in ahead <=> booking[b].st \notin {"completed", "settled"})
        /\ \A b \in ahead :
             /\ Revived(b) \/ \E r \in RowsOf(b) : r.blocking /\ r.slot = booking[b].slot
             /\ Present(b).status \notin {"CANCELLED", "COMPLETED"}
        /\ \A b \in ahead \cup behind :
             /\ Present(b).status = ListRow(b).status /\ Present(b).due = ListRow(b).due
             /\ Present(b).payment = ListRow(b).payment

\* read-models.handler.ts: "the grid cannot disagree with the strip about what
\* it is looking at".  The day, the week, the month, the list and the summary
\* count the same bookings and the same money, for everyone and for each
\* professional, whose utilisation is of their own shift; the number on a chip
\* is what tapping it lists; every row that can be shown is behind exactly one
\* visit chip and one payment chip; a row that shares its start with no other is
\* met by turning the pages of a list, however each page's query breaks its ties;
\* what is on the grid without a chip is what occupies the diary; and the worklist
\* counts what the chip counts, and what lies beyond its horizon.
ScreensAgree ==
    \A week \in {WeekView(Today, {}, {}, Staff)},
       month \in {MonthView(0, Today + Horizon)}, counts \in {Counts} :
        /\ \A d \in ({DayOn(b) : b \in Made} \cup {Today}) \cap DOMAIN month.cells :
             \A day \in {DayView(d, {}, {}, Staff)}, l \in {List("ALL", d, d, Staff)} :
                 /\ day.kpis.booked = month.cells[d].count
                 /\ day.kpis.revenue = month.cells[d].revenue
                 /\ d \in DOMAIN week.days => week.days[d].count = month.cells[d].count
                 /\ l.total = month.cells[d].count
                 /\ l.kpis.pendingDeposits = day.kpis.pendingDeposits
                 /\ \A p \in Staff :
                      LET own == DayView(d, {}, {}, {p}).kpis IN
                      /\ List("ALL", d, d, {p}).total = day.columns[p]
                      /\ own.utilisation
                           = Utilisation(day.columns[p] * Length, SellableMinutes(Shift[p], {}))
                 /\ Cardinality(day.bookings) = day.kpis.booked
                 /\ \A v \in day.bookings : Revived(v.id) \/
                      \E r \in RowsOf(v.id) : r.blocking /\ DayOf(StartOf[r.slot]) = d
        /\ week.kpis.booked = week.total
        /\ \A filter \in LIST_FILTERS :
             LET l == List(filter, None, None, Staff) IN
             /\ l.total = counts[filter] /\ l.kpis.booked = l.total
             /\ \A b \in BookingWhere(ListBase(filter, None, None, Staff)) :
                  \/ \E k \in DOMAIN l.pages : \A page \in l.pages[k] : b \in page
                  \/ \E c \in Made \ {b} : StartAt(c) = StartAt(b)
        /\ \A t \in Worklist :
             t.kind = "DEPOSITS_PENDING" =>
               t.count = counts["DEPOSIT_PENDING"] + DepositsPending(Today + Horizon)
        /\ \A b \in BookingWhere([Days(0, Today + Horizon) EXCEPT !.statuses = CHIP_STATUSES]) :
             /\ Once(b, CALENDAR_CHIPS, LAMBDA c : GridOf({b}, {c}, {}))
             /\ Once(b, PAYMENT_CHIPS, LAMBDA c : GridOf({b}, CALENDAR_CHIPS, {c}))
        /\ \A range \in Ranges :
             LET s == Summary(range) IN
             /\ s.bookings.value = MapThenSumSet(LAMBDA d : s.trend[d], DOMAIN s.trend)
             /\ s.bookingsToday = month.cells[Today].count

\* cancellation-feed.ts: every event of the window is on one page, and the
\* summary and the reasons are over the window and not the page; the pages of
\* LATE_CANCEL hold the rows its summary counts, and no other.
FeedAddsUp ==
    \A range \in Ranges, kind \in EVENT_KINDS :
      LET pages == 1 .. Len(history) \div PageSize + 1 IN
      \A first \in {Events_(range, kind, 1)},
         data \in {[p \in pages |-> {v.id : v \in Events_(range, kind, p).data}]} :
        LET shown == UNION {data[p] : p \in pages}
        IN  /\ Cardinality(shown) = first.summary.events
            /\ kind # "LATE_CANCEL" => first.total = first.summary.events
            /\ MapThenSumSet(LAMBDA g : g.count, first.reasons) = first.summary.events
            /\ MapThenSumSet(LAMBDA g : g.value, first.reasons)
                 = first.summary.lost + first.summary.kept
            /\ Cardinality({i \in shown : EventDrawer(i).row.kind = "NO_SHOW"})
                 = first.summary.noShows
            /\ \A i \in shown : Once(i, pages, LAMBDA p : data[p])

\* "The screen would disagree with the refund the customer was given": the band
\* a cancellation is drawn with is the band its refund was decided in.  A late
\* move may have kept the deposit before.
BandMatchesRefund ==
    \A i \in DOMAIN history :
        LET h == history[i]
            v == ToEventView(i)
        IN  h.to = "cancelled" =>
              /\ v.outcome = "REFUNDED" => h.who = "salon" \/ v.band = "more_than_24h"
              /\ v.outcome = "DEPOSIT_KEPT" /\ booking[h.b].moves = 0 =>
                   h.who = "customer" /\ v.band # "more_than_24h"
              /\ v.lateCancel <=> PolicyWindow(v) = "under_2h"

=============================================================================
