------------------------------- MODULE Visits -------------------------------
(***************************************************************************)
(* The tables the front desk works on once a booking exists: the booking   *)
(* row, its reservations, its deposit ledger and its latest self check-in  *)
(* request.  The components that write them (Lifecycle, CheckInRequests,   *)
(* MoneyDesk, PaymentLinks, Reschedule) extend this module; Desk puts them *)
(* together.                                                               *)
(*                                                                         *)
(* A transaction that takes the booking's row lock is one action.  What a  *)
(* handler or a job read before such a transaction is kept in work[w] until *)
(* the worker uses it, so everything that can happen in between does.      *)
(***************************************************************************)
EXTENDS Integers, FiniteSets

CONSTANTS
    Bookings,      \* booking ids
    Workers,       \* handlers and jobs in progress, on any replica
    Slots,         \* a professional at a time; two slots never half overlap
    StartOf,       \* the start of each slot
    Length,        \* how long a visit lasts
    Price,         \* the price of a visit
    Deposits,      \* what may be asked for, or taken, at confirm
    Scenarios,     \* who is active in a behaviour, and how much of it
    LinkWindow,    \* LINK_WINDOW_MS
    LinkCutoff,    \* LINK_CUTOFF_BEFORE_START_MS
    MaxTime,       \* bound on the clock
    MaxCredits,    \* bound on the money that may enter one ledger
    None           \* SQL NULL

ASSUME VisitsAssumption ==
    /\ StartOf \in [Slots -> Nat] /\ Length \in Nat \ {0}
    /\ Price \in Nat \ {0} /\ Deposits \subseteq Nat \ {0}
    /\ \A c \in Scenarios :
         /\ c.kinds \subseteq {"none", "paid", "link", "ask", "series"}
         /\ c.bookings \in Nat /\ c.hands \in Nat /\ c.slots \subseteq Slots
    /\ LinkWindow \in Nat \ {0} /\ LinkCutoff \in Nat
    /\ MaxTime \in Nat /\ MaxCredits \in Nat
    /\ None \notin Bookings /\ None \notin Slots /\ None \notin Nat

VARIABLES
    now,        \* the clock
    booking,    \* the booking rows
    rows,       \* the staff_reservation rows of the bookings
    ledger,     \* deposit_ledger, as a total per entry type
    request,    \* the latest check_in_request of each booking
    work,       \* what each worker has read and not yet acted on
    scenario    \* the components whose callers are active (parts), how a
                \* booking may be born (kinds) and when (slots), and the most
                \* bookings and busy workers (hands) of this behaviour

tables == <<now, booking, rows, ledger, request, work>>

vars == <<tables, scenario>>

-----------------------------------------------------------------------------
(* Statuses. *)

BLOCKING_STATES == {"pending_payment", "pending_confirmation", "confirmed",
                    "checked_in", "in_service", "completed", "settled"}
RELEASING_STATES == {"cancelled", "no_show", "expired", "skipped"}
TERMINAL_STATES == RELEASING_STATES \cup {"settled", "rescheduled"}

PaymentStatuses == {"none_required", "unpaid", "deposit_paid", "fully_paid",
                    "refunded", "partially_refunded", "forfeited"}

StartAt(b) == StartOf[booking[b].slot]
EndAt(b)   == StartAt(b) + Length

-----------------------------------------------------------------------------
(* The ledger: append-only and signed, so a total per type says it all, but *)
(* for the latest forfeit, which revive() reverses, the references the rows  *)
(* carry (gateway_ref, and the #idem: marker in the reason) and the webhook  *)
(* intents recorded for the booking in idempotency_key.                      *)

EmptyLedger == [captured |-> 0, refunded |-> 0, forfeited |-> 0, applied |-> 0,
                reversed |-> 0, goodwill |-> 0, last |-> 0,
                refs |-> {}, handled |-> {}]

\* balanceOf, SUM(amount_fils): the protected balance.
Balance(b) ==
    ledger[b].captured + ledger[b].reversed + ledger[b].goodwill
      - ledger[b].refunded - ledger[b].forfeited - ledger[b].applied

\* The bound: money enters a ledger only while it has room.
Room(b, amt) ==
    ledger[b].captured + ledger[b].reversed + ledger[b].goodwill + amt
      <= MaxCredits

-----------------------------------------------------------------------------
(* The reservations. *)

\* staff_reservation_no_overlap, against everyone but b's own rows.
Taken(s, b) == \E r \in rows : r.blocking /\ r.slot = s /\ r.owner # b

RowsOf(b) == {r \in rows : r.owner = b}

NewRow(b, s) == [owner |-> b, nth |-> Cardinality(RowsOf(b)), slot |-> s,
                 blocking |-> TRUE]

\* updateMany({ blocking }) over every row of the booking's items.
SetBlocking(b, flag) ==
    {IF r.owner = b THEN [r EXCEPT !.blocking = flag] ELSE r : r \in rows}

-----------------------------------------------------------------------------
(* Workers. *)

Idle == [op |-> "idle", b |-> None, to |-> "none", seen |-> 0, todo |-> {},
         intent |-> None]

Free(w)      == /\ work[w].op = "idle"
                /\ Cardinality({v \in Workers : work[v].op # "idle"}) < scenario.hands
Busy(w, rec) == work' = [work EXCEPT ![w] = rec]
Done(w)      == work' = [work EXCEPT ![w] = Idle]

\* ORDER BY at LIMIT n: the first n candidates, ties in any order.
FirstOf(candidates, at, n) ==
    {S \in SUBSET candidates :
        /\ Cardinality(S) <= n
        /\ S # candidates => Cardinality(S) = n
        /\ \A x \in S, y \in candidates \ S : at[x] <= at[y]}

\* The loop of a job goes on with the rest of what it selected.
Rest(w, b) ==
    IF work[w].todo = {b} THEN Done(w)
    ELSE Busy(w, [work[w] EXCEPT !.todo = @ \ {b}])

-----------------------------------------------------------------------------
NoBooking ==
    [st |-> "unused", pay |-> "none_required", slot |-> None, deposit |-> 0,
     link |-> None, moves |-> 0, born |-> 0, arrived |-> 0]

NoRequest == [st |-> "none", chair |-> None, nth |-> 0]

Init ==
    /\ now = 0
    /\ booking = [b \in Bookings |-> NoBooking]
    /\ rows = {}
    /\ ledger = [b \in Bookings |-> EmptyLedger]
    /\ request = [b \in Bookings |-> NoRequest]
    /\ work = [w \in Workers |-> Idle]
    /\ scenario \in Scenarios

\* linkWindow(): the shorter of six hours and two hours before the start; no
\* link at all when that has passed.
LinkOpen(start) == start - LinkCutoff > now
LinkExpiry(start) ==
    IF now + LinkWindow < start - LinkCutoff THEN now + LinkWindow
                                             ELSE start - LinkCutoff

\* The birth states: resolveStatus() at confirm, birthState() for a series
\* occurrence, which is never given a link.
Born(s, kind, dep) ==
    LET row == [NoBooking EXCEPT !.slot = s, !.born = now] IN
    CASE kind = "none" -> [row EXCEPT !.st = "confirmed"]
      [] kind = "paid" -> [row EXCEPT !.st = "confirmed", !.deposit = dep,
              !.pay = IF dep >= Price THEN "fully_paid" ELSE "deposit_paid"]
      [] kind = "link" -> [row EXCEPT !.st = "pending_payment", !.deposit = dep,
              !.pay = "unpaid", !.link = LinkExpiry(StartOf[s])]
      [] kind = "ask" -> [row EXCEPT !.st = "pending_confirmation"]
      [] kind = "series" -> [row EXCEPT !.st = "pending_payment",
                                        !.pay = "unpaid"]

\* A booking appears on a free slot (Holds says how that is made safe).
Book(b, s, kind, dep) ==
    /\ booking[b].st = "unused"
    /\ Cardinality({c \in Bookings : booking[c].st # "unused"}) < scenario.bookings
    /\ StartOf[s] > now /\ ~Taken(s, b)
    /\ kind = "link" => LinkOpen(StartOf[s])
    /\ booking' = [booking EXCEPT ![b] = Born(s, kind, dep)]
    /\ rows' = rows \cup {NewRow(b, s)}
    /\ ledger' = [ledger EXCEPT ![b].captured = IF kind = "paid" THEN dep ELSE 0]
    /\ UNCHANGED <<now, request, work>>

Tick ==
    /\ now < MaxTime
    /\ now' = now + 1
    /\ UNCHANGED <<booking, rows, ledger, request, work>>

\* A process dies with what it had read; open transactions roll back.
Crash(w) ==
    /\ work[w].op # "idle"
    /\ Done(w)
    /\ UNCHANGED <<now, booking, rows, ledger, request>>
=============================================================================
