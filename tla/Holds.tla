-------------------------------- MODULE Holds --------------------------------
(***************************************************************************)
(* Holding and confirming a slot.                                          *)
(*                                                                         *)
(* A request handler is a client process whose program counter advances by *)
(* one database round trip per action, so every interleaving of two        *)
(* requests, of the hold sweeper and of the clock between two round trips  *)
(* is a behaviour.  A Postgres transaction whose statements serialise on   *)
(* row locks is one action; HoldRepository.place is several, because its   *)
(* chair count and its insert are kept together only by an advisory lock.  *)
(***************************************************************************)
EXTENDS Integers, FiniteSets

CONSTANTS
    Clients,     \* requests being served at the same time, on any replica
    HoldIds,     \* the hold ids that can be issued
    BookingIds,  \* the booking ids that can be issued
    Keys,        \* Idempotency-Key header values
    Rails,       \* ways to pay, or not, that carry no gateway reference
    Refs,        \* gateway references of captured payments
    Baskets,     \* what can be asked for: a professional, a window, chairs
    Types,       \* chair types
    Units,       \* effective units of each chair type at the branch
    SortKey,     \* the position of each chair type in sorted order
    TTL,         \* how long a hold lives
    MaxTime,     \* bound on the clock
    None         \* no client, no booking

AllKeys  == Keys \cup HoldIds          \* a header value, or `hold:<id>`
Payments == Rails \cup Refs           \* no reference: "none", "link" or "cash"
Minutes  == UNION {b.from .. b.to : b \in Baskets}

ASSUME BasketsAssumption ==
    /\ Types # {} /\ Units \in [Types -> Nat] /\ SortKey \in [Types -> Nat]
    /\ \A t, u \in Types : SortKey[t] = SortKey[u] => t = u
    /\ \A b \in Baskets :
         /\ b.from \in Nat /\ b.to \in Nat /\ b.from < b.to
         /\ IsFiniteSet(b.demand)
         /\ \A d \in b.demand :
              /\ d.type \in Types /\ d.from \in Nat /\ d.to \in Nat
              /\ d.from < d.to
         /\ \A d, e \in b.demand :
              d # e /\ d.type = e.type => d.to <= e.from \/ e.to <= d.from

ASSUME BoundsAssumption == TTL \in Nat /\ MaxTime \in Nat

ASSUME NamesAssumption ==
    /\ None \notin Clients /\ None \notin BookingIds
    /\ None \notin HoldIds /\ HoldIds \cap BookingIds = {}
    /\ None \notin Refs /\ Rails \subseteq {"none", "link", "cash"}

VARIABLES
    now,        \* the clock
    hold,       \* the hold table: state, expiry, and what was asked for
    booking,    \* the booking table, with its ledger entry
    staffRes,   \* the staff_reservation rows
    chairRes,   \* the resource_reservation rows
    idem,       \* the idempotency_key rows: booking and stored body
    lock,       \* the advisory lock of each chair type
    req         \* the request each client is serving, and its last answer

vars == <<now, hold, booking, staffRes, chairRes, idem, lock, req>>

-----------------------------------------------------------------------------
(* Rows and windows. *)

Overlap(a, b) == a.from < b.to /\ b.from < a.to

StaffRow(o, b) ==
    [owner |-> o, staff |-> b.staff, from |-> b.from, to |-> b.to,
     blocking |-> TRUE]

ChairRows(o, b) ==
    {[owner |-> o, type |-> d.type, from |-> d.from, to |-> d.to,
      blocking |-> TRUE] : d \in b.demand}

StaffTakenByBookings(b) ==                                        \* mutant
    \E r \in staffRes : r.owner \in BookingIds /\ r.blocking
                       /\ r.staff = b.staff /\ Overlap(r, b)

\* staff_reservation_no_overlap: an insert that meets a blocking row of the
\* same professional is refused.
StaffTaken(b) ==
    \E r \in staffRes : r.blocking /\ r.staff = b.staff /\ Overlap(r, b)

CountedRows(rows, d) ==
    {r \in rows : r.blocking /\ r.type = d.type /\ Overlap(r, d)}

InUse(d) == CountedRows(chairRes, d)

NoChair(b) == \E d \in b.demand : Cardinality(InUse(d)) >= Units[d.type]

TypesOf(b) == {d.type : d \in b.demand}

\* ON DELETE CASCADE: the rows of a set of deleted holds go with them.
DropStaffRows(H) == {r \in staffRes : r.owner \notin H}
DropChairRows(H) == {r \in chairRes : r.owner \notin H}

RepointAfterDelete(rows, h, b) == {r \in rows : r.owner # h}       \* mutant

\* updateMany({ holdId: null, bookingItemId }): the rows stay in the table.
Repoint(rows, h, b) ==
    {IF r.owner = h THEN [r EXCEPT !.owner = b] ELSE r : r \in rows}

UnblockEverything(rows, b) ==                                     \* mutant
    {[r EXCEPT !.blocking = FALSE] : r \in rows}

\* updateMany({ blocking: false }) on the rows of a booking's items.
Unblock(rows, b) ==
    {IF r.owner = b THEN [r EXCEPT !.blocking = FALSE] ELSE r : r \in rows}

LocksOf(c) == {t \in Types : lock[t] = c}
Unlock(c)  == [t \in Types |-> IF lock[t] = c THEN None ELSE lock[t]]

-----------------------------------------------------------------------------
(* Requests. *)

NoBasket == [staff |-> None, from |-> 0, to |-> 0, demand |-> {}]

Idle ==
    [pc |-> "idle", basket |-> NoBasket, hold |-> None, key |-> None,
     pay |-> None, at |-> 0, answer |-> "none", body |-> "none"]

Placing    == {"lock", "insert"}
Confirming == {"reserve", "fast", "tx", "store"}
Answers    == {"none", "gone", "refused", "already_recorded", "replayed",
               "confirmed"}
Bodies     == {"none", "raw", "view", "garbled"}

\* What the caller is told; of the request only its key is remembered.
Reply(c, a)     == [Idle EXCEPT !.answer = a, !.key = req[c].key]
Replay(c, body) == [Reply(c, "replayed") EXCEPT !.body = body]

Init ==
    /\ now = 0
    /\ hold = [h \in HoldIds |-> [st |-> "unused", exp |-> 0,
                                  basket |-> NoBasket]]
    /\ booking = [b \in BookingIds |->
                    [st |-> "unused", hold |-> None, key |-> None,
                     pay |-> None, at |-> 0]]
    /\ staffRes = {} /\ chairRes = {}
    /\ idem = [k \in AllKeys |-> [booking |-> None, body |-> "none"]]
    /\ lock = [t \in Types |-> None]
    /\ req = [c \in Clients |-> Idle]

-----------------------------------------------------------------------------
(* POST /v1/holds. *)

\* The handler reads the day, finds the start feasible and calls place():
\* expiresAt is computed before the transaction opens.  The bound keeps one
\* unissued id for every placement under way.
PlaceHold(c, b) ==
    /\ req[c].pc = "idle"
    /\ Cardinality({d \in Clients : req[d].pc \in Placing})
         < Cardinality({h \in HoldIds : hold[h].st = "unused"})
    /\ ~StaffTaken(b) /\ ~NoChair(b)
    /\ req' = [req EXCEPT ![c] = [Idle EXCEPT !.pc = "lock", !.basket = b,
                                              !.at = now]]
    /\ UNCHANGED <<now, hold, booking, staffRes, chairRes, idem, lock>>

PlaceLockUnsorted(c) ==                                           \* mutant
    /\ req[c].pc = "lock"
    /\ \E t \in TypesOf(req[c].basket) \ LocksOf(c) :
         lock[t] = None /\ lock' = [lock EXCEPT ![t] = c]
    /\ UNCHANGED <<now, hold, booking, staffRes, chairRes, idem, req>>

\* pg_advisory_xact_lock on one chair type after another, in sorted order.
PlaceLock(c) ==
    LET missing == TypesOf(req[c].basket) \ LocksOf(c) IN
    /\ req[c].pc = "lock"
    /\ \E t \in missing :
         /\ \A u \in missing : SortKey[t] <= SortKey[u]
         /\ lock[t] = None
         /\ lock' = [lock EXCEPT ![t] = c]
    /\ UNCHANGED <<now, hold, booking, staffRes, chairRes, idem, req>>

PlaceCountUnlocked(c) ==                                          \* mutant
    /\ req[c].pc = "lock"
    /\ ~NoChair(req[c].basket)
    /\ req' = [req EXCEPT ![c].pc = "insert"]
    /\ UNCHANGED <<now, hold, booking, staffRes, chairRes, idem, lock>>

\* With every lock held: count the blocking rows each demand would meet.
PlaceCount(c) ==
    /\ req[c].pc = "lock"
    /\ TypesOf(req[c].basket) \subseteq LocksOf(c)
    /\ \/ /\ NoChair(req[c].basket)
          /\ lock' = Unlock(c)
          /\ req' = [req EXCEPT ![c] = Idle]
       \/ /\ ~NoChair(req[c].basket)
          /\ req' = [req EXCEPT ![c].pc = "insert"]
          /\ UNCHANGED lock
    /\ UNCHANGED <<now, hold, booking, staffRes, chairRes, idem>>

\* Insert the hold, its professional and its chairs, and commit; or roll back
\* because the exclusion constraint refused the professional.
PlaceInsert(c) ==
    LET b == req[c].basket IN
    /\ req[c].pc = "insert"
    /\ \/ /\ StaffTaken(b)
          /\ req' = [req EXCEPT ![c] = Idle]
          /\ UNCHANGED <<hold, staffRes, chairRes>>
       \/ /\ ~StaffTaken(b)
          /\ \E h \in HoldIds :
               /\ hold[h].st = "unused"
               /\ hold' = [hold EXCEPT ![h] = [st |-> "held", basket |-> b,
                                               exp |-> req[c].at + TTL]]
               /\ staffRes' = staffRes \cup {StaffRow(h, b)}
               /\ chairRes' = chairRes \cup ChairRows(h, b)
          /\ req' = [req EXCEPT ![c] = Idle]
    /\ lock' = Unlock(c)
    /\ UNCHANGED <<now, booking, idem>>

Delete(H) ==
    /\ hold' = [h \in HoldIds |-> IF h \in H THEN [hold[h] EXCEPT !.st = "gone"]
                                             ELSE hold[h]]
    /\ staffRes' = DropStaffRows(H)
    /\ chairRes' = DropChairRows(H)

\* DELETE /v1/holds/:id.
Release(h) ==
    /\ hold[h].st = "held"
    /\ Delete({h})
    /\ UNCHANGED <<now, booking, idem, lock, req>>

ExpiredTwice ==                                                   \* mutant
    {h \in HoldIds : hold[h].st = "held" /\ hold[h].exp + TTL <= now}

Expired == {h \in HoldIds : hold[h].st = "held" /\ hold[h].exp <= now}

\* The 30-second sweep: one deleteMany for every hold past its expiry.
SweepExpired ==
    /\ Expired # {}
    /\ Delete(Expired)
    /\ UNCHANGED <<now, booking, idem, lock, req>>

-----------------------------------------------------------------------------
(* POST /v1/bookings. *)

\* replayFor: a key already stored is answered from the stored body.
ConfirmBooking(c, h, k, p) ==
    /\ req[c].pc = "idle"
    /\ hold[h].st # "unused"
    /\ k \in Keys \cup {h}
    /\ req' = [req EXCEPT ![c] =
          IF idem[k].booking # None
          THEN [Idle EXCEPT !.answer = "replayed", !.key = k,
                            !.body = idem[k].body]
          ELSE [Idle EXCEPT !.pc = "reserve", !.hold = h, !.key = k,
                            !.pay = p]]
    /\ UNCHANGED <<now, hold, booking, staffRes, chairRes, idem, lock>>

\* The unlocked read of the hold's professional; then the deposit gate (402)
\* and the link window (422), which depend on data the model leaves open.
ConfirmReserve(c) ==
    LET held == \E r \in staffRes : r.owner = req[c].hold IN
    /\ req[c].pc = "reserve"
    /\ \/ ~held /\ req' = [req EXCEPT ![c] = Reply(c, "gone")]
       \/ held /\ req' = [req EXCEPT ![c] = Reply(c, "refused")]
       \/ held /\ req' = [req EXCEPT ![c].pc = "fast"]
    /\ UNCHANGED <<now, hold, booking, staffRes, chairRes, idem, lock>>

\* What the handler makes of a stored body it takes for a repository result:
\* a body already overwritten with the view has no startMin to format.
Rebuild(body) == IF body = "raw" THEN "view" ELSE "garbled"

\* findReplay, then BEGIN: now() is the transaction's start from here on.
ConfirmFastPath(c) ==
    LET seen == idem[req[c].key] IN
    /\ req[c].pc = "fast"
    /\ req' = [req EXCEPT ![c] =
          IF seen.booking # None THEN Replay(c, Rebuild(seen.body))
          ELSE [req[c] EXCEPT !.pc = "tx", !.at = now]]
    /\ UNCHANGED <<now, hold, booking, staffRes, chairRes, idem, lock>>

HoldNotExpired(h, at) == hold[h].exp > at                         \* mutant

\* SELECT ... FROM hold WHERE id = h AND expires_at > now() FOR UPDATE.
HoldAlive(h, at) == hold[h].st = "held" /\ hold[h].exp > at

RefUsed(p) == p \in Refs /\ \E b \in BookingIds :
                  booking[b].st # "unused" /\ booking[b].pay = p

ResolveStatusHeld(p) == "held"                                    \* mutant
ResolveStatus(p) == IF p = "link" THEN "pending_payment" ELSE "confirmed"

\* Nine writes, one COMMIT; the unique indexes on gateway_ref and on the key
\* are met in that order and roll everything back.
ConfirmTx(c) ==
    LET r == req[c] IN
    /\ r.pc = "tx"
    /\ \/ /\ ~HoldAlive(r.hold, r.at)
          /\ req' = [req EXCEPT ![c] = Reply(c, "gone")]
          /\ UNCHANGED <<hold, booking, staffRes, chairRes, idem>>
       \/ /\ HoldAlive(r.hold, r.at) /\ RefUsed(r.pay)
          /\ req' = [req EXCEPT ![c] = Reply(c, "already_recorded")]
          /\ UNCHANGED <<hold, booking, staffRes, chairRes, idem>>
       \/ /\ HoldAlive(r.hold, r.at) /\ ~RefUsed(r.pay)
          /\ idem[r.key].booking # None
          /\ req' = [req EXCEPT ![c] = Replay(c, Rebuild(idem[r.key].body))]
          /\ UNCHANGED <<hold, booking, staffRes, chairRes, idem>>
       \/ /\ HoldAlive(r.hold, r.at) /\ ~RefUsed(r.pay)
          /\ idem[r.key].booking = None
          /\ \E b \in BookingIds :
               /\ booking[b].st = "unused"
               /\ booking' = [booking EXCEPT ![b] =
                     [st |-> ResolveStatus(r.pay), hold |-> r.hold,
                      key |-> r.key, pay |-> r.pay, at |-> r.at]]
               /\ staffRes' = Repoint(staffRes, r.hold, b)
               /\ chairRes' = Repoint(chairRes, r.hold, b)
               /\ idem' = [idem EXCEPT ![r.key] = [booking |-> b,
                                                   body |-> "raw"]]
          /\ hold' = [hold EXCEPT ![r.hold].st = "gone"]
          /\ req' = [req EXCEPT ![c].pc = "store"]
    /\ UNCHANGED <<now, lock>>

\* After COMMIT, outside it: the stored body becomes the view just returned.
ConfirmStore(c) ==
    /\ req[c].pc = "store"
    /\ idem' = [idem EXCEPT ![req[c].key].body = "view"]
    /\ req' = [req EXCEPT ![c] = [Reply(c, "confirmed") EXCEPT !.body = "view"]]
    /\ UNCHANGED <<now, hold, booking, staffRes, chairRes, lock>>

-----------------------------------------------------------------------------
(* The rest of the system, as far as the diary sees it. *)

\* LifecycleRepository.transition into a releasing state.
CancelBooking(b) ==
    /\ booking[b].st \in {"confirmed", "pending_payment"}
    /\ booking' = [booking EXCEPT ![b].st = "cancelled"]
    /\ staffRes' = Unblock(staffRes, b)
    /\ chairRes' = Unblock(chairRes, b)
    /\ UNCHANGED <<now, hold, idem, lock, req>>

\* The process or its connection dies: an open transaction rolls back, its
\* advisory locks go with it, and nobody is answered.
Crash(c) ==
    /\ req[c].pc # "idle"
    /\ req' = [req EXCEPT ![c] = Idle]
    /\ lock' = Unlock(c)
    /\ UNCHANGED <<now, hold, booking, staffRes, chairRes, idem>>

Tick ==
    /\ now < MaxTime
    /\ now' = now + 1
    /\ UNCHANGED <<hold, booking, staffRes, chairRes, idem, lock, req>>

PlaceStep(c)   == PlaceLock(c) \/ PlaceCount(c) \/ PlaceInsert(c)
ConfirmStep(c) == \/ ConfirmReserve(c) \/ ConfirmFastPath(c)
                  \/ ConfirmTx(c) \/ ConfirmStore(c)

Next ==
    \/ \E c \in Clients :
         \/ \E b \in Baskets : PlaceHold(c, b)
         \/ PlaceStep(c)
         \/ \E h \in HoldIds, k \in AllKeys, p \in Payments :
              ConfirmBooking(c, h, k, p)
         \/ ConfirmStep(c)
         \/ Crash(c)
    \/ \E h \in HoldIds : Release(h)
    \/ \E b \in BookingIds : CancelBooking(b)
    \/ SweepExpired
    \/ Tick

Spec == Init /\ [][Next]_vars

\* The event loop and Postgres run every open request on (lock waiters are
\* granted in queue order, hence SF), the interval timer sweeps, and the clock
\* advances.  Nothing is assumed of the callers.
Fairness ==
    /\ \A c \in Clients : SF_vars(PlaceStep(c)) /\ WF_vars(ConfirmStep(c))
    /\ WF_vars(SweepExpired) /\ WF_vars(Tick)

LiveSpec == Spec /\ Fairness

-----------------------------------------------------------------------------
(* Properties. *)

StaffRows == [owner : HoldIds \cup BookingIds, staff : {b.staff : b \in Baskets},
              from : Nat, to : Nat, blocking : BOOLEAN]
ChairRowSet == [owner : HoldIds \cup BookingIds, type : Types,
                from : Nat, to : Nat, blocking : BOOLEAN]
Requests == [pc : {"idle"} \cup Placing \cup Confirming,
             basket : Baskets \cup {NoBasket}, hold : HoldIds \cup {None},
             key : AllKeys \cup {None}, pay : Payments \cup {None}, at : Nat,
             answer : Answers, body : Bodies]

\* What a request carries at each stage.
WellFormed(r) ==
    /\ r \in Requests
    /\ r.pc \in Placing => r.basket \in Baskets
    /\ r.pc \in Confirming =>
         r.hold \in HoldIds /\ r.key \in AllKeys /\ r.pay \in Payments

\* Every table and every request record keeps its shape.
TypeOK ==
    /\ now \in Nat
    /\ hold \in [HoldIds -> [st : {"unused", "held", "gone"}, exp : Nat,
                             basket : Baskets \cup {NoBasket}]]
    /\ booking \in [BookingIds ->
          [st : {"unused", "confirmed", "pending_payment", "cancelled"},
           hold : HoldIds \cup {None}, key : AllKeys \cup {None},
           pay : Payments \cup {None}, at : Nat]]
    /\ staffRes \subseteq StaffRows
    /\ chairRes \subseteq ChairRowSet
    /\ idem \in [AllKeys -> [booking : BookingIds \cup {None}, body : Bodies]]
    /\ lock \in [Types -> Clients \cup {None}]
    /\ req \in [Clients -> Requests]
    /\ \A c \in Clients : WellFormed(req[c])

\* README "Before you change anything": no professional is ever in two places,
\* whatever holds, bookings, sweeps and cancellations did before.
NoDoubleBooking ==
    \A r, s \in staffRes :
        r # s /\ r.blocking /\ s.blocking /\ r.staff = s.staff => ~Overlap(r, s)

\* At no minute are more chairs of a type reserved than the branch has, though
\* the count in place() and its insert are two statements.
ChairCapacity ==
    \A t \in Types, m \in Minutes :
        Cardinality(InUse([type |-> t, from |-> m, to |-> m + 1])) <= Units[t]

\* What was counted under the advisory locks is still true at the insert: no
\* other request can add a chair of those types in between.
CountStands ==
    \A c \in Clients : req[c].pc = "insert" =>
        TypesOf(req[c].basket) \subseteq LocksOf(c) /\ ~NoChair(req[c].basket)

Live(b) == booking[b].st \in {"confirmed", "pending_payment"}

\* A hold in the table and a live booking each block exactly what was asked
\* for, and nothing blocks that belongs to neither: capacity passes from hold
\* to booking without a gap and comes back when the owner goes.
CapacityFollowsOwner ==
    /\ {r \in staffRes : r.blocking} =
          {StaffRow(h, hold[h].basket) : h \in {g \in HoldIds : hold[g].st = "held"}}
          \cup {StaffRow(b, hold[booking[b].hold].basket) :
                   b \in {a \in BookingIds : Live(a)}}
    /\ {r \in chairRes : r.blocking} =
          UNION ({ChairRows(h, hold[h].basket) :
                    h \in {g \in HoldIds : hold[g].st = "held"}}
                 \cup {ChairRows(b, hold[booking[b].hold].basket) :
                         b \in {a \in BookingIds : Live(a)}})

\* "A hold can produce exactly one booking" (confirm-booking.handler.ts): no
\* race of retries, keys and crashes makes two, and a key names one booking.
OneBookingPerHold ==
    \A a, b \in BookingIds :
        a # b /\ booking[a].st # "unused" /\ booking[b].st # "unused" =>
            booking[a].hold # booking[b].hold /\ booking[a].key # booking[b].key

\* A walked-away customer's slot comes back: an expired hold leaves the table.
ExpiredHoldsAreSwept ==
    \A h \in HoldIds :
        (hold[h].st = "held" /\ hold[h].exp <= now) ~> hold[h].st = "gone"

\* Two placements never wait on each other for ever, whatever chairs they
\* need: every request is answered (or its process dies).
EveryRequestEnds == \A c \in Clients : (req[c].pc # "idle") ~> (req[c].pc = "idle")

\* The claims of SlotCalendar: the blocking rows, held or booked by owner.
Claims ==
    {[slot |-> [staff |-> r.staff, from |-> r.from, to |-> r.to],
      kind |-> IF r.owner \in HoldIds THEN "held" ELSE "booked"] :
       r \in {s \in staffRes : s.blocking}}

ClaimSlots == {[staff |-> b.staff, from |-> b.from, to |-> b.to] : b \in Baskets}
ClaimClash(s, t) == s.staff = t.staff /\ Overlap(s, t)

Calendar == INSTANCE SlotCalendar
              WITH Slots <- ClaimSlots, Clash <- ClaimClash, claims <- Claims

\* The tables, requests, retries and crashes implement the abstract calendar.
ImplementsCalendar == Calendar!Spec

=============================================================================
