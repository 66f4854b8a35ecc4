----------------------------- MODULE DeskProofs -----------------------------
(***************************************************************************)
(* Proofs about Desk: for any bookings, workers, slots, chairs and amounts, *)
(* and with every component of the desk running side by side.              *)
(***************************************************************************)
EXTENDS Desk, FiniteSetTheorems, TLAPS

-----------------------------------------------------------------------------
(* The shape of the tables. *)

Statuses == BLOCKING_STATES \cup RELEASING_STATES \cup {"unused"}

BookingRows == [st : Statuses, pay : PaymentStatuses, slot : Slots \cup {None},
                deposit : Nat, link : Int \cup {None}, moves : Nat, born : Nat,
                arrived : Nat]

Reservations == [owner : Bookings, nth : Nat, slot : Slots, blocking : BOOLEAN]

Ledgers == [captured : Int, refunded : Int, forfeited : Int, applied : Int,
            reversed : Int, goodwill : Int, last : Int,
            refs : SUBSET (Keys \cup References \cup Intents),
            handled : SUBSET Intents]

RequestRows == [st : {"none", "waiting", "approved", "rejected", "withdrawn",
                      "closed", "expired"},
                chair : Chairs \cup {None}, nth : Nat]

Decisions == {"capture_failed", "refund_settled", "refund_to_wallet", "confirm",
              "reinstate", "record_only", "auto_refund"}

Jobs == [op : {"idle", "desk", "no_show", "lapse", "link", "expire", "webhook"}
              \cup Approving,
         b : Bookings \cup {None},
         to : {"none", "checked_in", "no_show", "settled", "closed", "expired"}
              \cup Decisions,
         seen : Int, todo : SUBSET Bookings, intent : Intents \cup {None}]

\* What a worker carries: the booking it read, a target that fits its errand.
WellFormed(k) ==
    /\ k.op \in {"desk", "lapse", "link", "webhook"} \cup Approving =>
         k.b \in Bookings
    /\ k.op = "desk" => k.to \in {"checked_in", "no_show", "settled"}
    /\ k.op = "lapse" => k.to \in {"closed", "expired"}
    /\ k.op = "webhook" => k.to \in Decisions /\ k.intent \in Intents

TypeOK ==
    /\ now \in Nat /\ scenario \in Scenarios
    /\ booking \in [Bookings -> BookingRows]
    /\ rows \subseteq Reservations /\ IsFiniteSet(rows)
    /\ ledger \in [Bookings -> Ledgers]
    /\ request \in [Bookings -> RequestRows]
    /\ work \in [Workers -> Jobs]
    /\ \A w \in Workers : WellFormed(work[w])

Used(b) == booking[b].st # "unused"

\* A booking that exists has a slot, only such a booking owns rows, and a
\* worker about to write one it read is about to write one that exists.
OnlyUsed ==
    /\ \A b \in Bookings : IF Used(b) THEN booking[b].slot \in Slots
                                     ELSE booking[b] = NoBooking
    /\ \A r \in rows : Used(r.owner)
    /\ \A w \in Workers :
         work[w].op \in {"link", "webhook"} \cup Approving => Used(work[w].b)
    /\ \A b \in Bookings : request[b].st # "none" => Used(b)

DeskType == TypeOK /\ OnlyUsed

-----------------------------------------------------------------------------
(* The operators the steps are built from. *)

\* A protected balance is a number.
LEMMA BalanceIsInt ==
    ASSUME TypeOK, NEW b \in Bookings
    PROVE  Balance(b) \in Int
  BY DEF TypeOK, Ledgers, Balance

\* Both ways out of a visit share the balance between refund and forfeit,
\* fil by fil, whatever it was.
LEMMA OutcomesAddUp ==
    ASSUME NEW amt \in Int, NEW ahead, NEW who, NEW vip
    PROVE  /\ LET out == CancellationOutcome(amt, ahead, who, FALSE)
              IN  out.refund \in Int /\ out.kept \in Int /\ out.refund + out.kept = amt
           /\ LET out == NoShowOutcome(amt, vip)
              IN  out.refund \in Int /\ out.kept \in Int /\ out.refund + out.kept = amt
  BY DEF CancellationOutcome, NoShowOutcome

\* A settlement's credit and tender are numbers.
LEMMA TenderIsInt ==
    ASSUME NEW seen \in Int, NEW bill \in Int, NEW loyalty \in Int
    PROVE  /\ Tender(seen, bill, loyalty).credit \in Int
           /\ Tender(seen, bill, loyalty).applied \in Int
           /\ NoTender.credit = 0 /\ NoTender.applied = 0
           /\ Nothing.refund = 0 /\ Nothing.kept = 0
  BY DEF Tender, NoTender, Nothing

\* A new row has the table's shape; it blocks its slot for its booking.
LEMMA NewRowShape ==
    ASSUME TypeOK, NEW b \in Bookings, NEW s \in Slots
    PROVE  /\ NewRow(b, s) \in Reservations /\ NewRow(b, s).owner = b
           /\ NewRow(b, s).slot = s /\ NewRow(b, s).blocking
  <1>1. IsFiniteSet(RowsOf(b))
    BY FS_Subset DEF TypeOK, RowsOf
  <1>2. Cardinality(RowsOf(b)) \in Nat
    BY <1>1, FS_CardinalityType
  <1>3. QED BY <1>2 DEF NewRow, Reservations

\* updateMany touches the rows of one booking and nothing of them but the flag.
LEMMA SetBlockingShape ==
    ASSUME TypeOK, NEW b \in Bookings, NEW flag \in BOOLEAN
    PROVE  /\ SetBlocking(b, flag) \subseteq Reservations
           /\ IsFiniteSet(SetBlocking(b, flag))
           /\ \A r \in SetBlocking(b, flag) : \E q \in rows :
                /\ r.owner = q.owner /\ r.slot = q.slot /\ r.nth = q.nth
                /\ q.owner = b => r = [q EXCEPT !.blocking = flag] /\ r.blocking = flag
                /\ q.owner # b => r = q
           /\ \A q \in rows : q.owner # b => q \in SetBlocking(b, flag)
  <1> DEFINE f == [r \in rows |-> IF r.owner = b THEN [r EXCEPT !.blocking = flag]
                                  ELSE r]
             T == SetBlocking(b, flag)
  <1>1. f \in Surjection(rows, T)
    BY DEF Surjection, SetBlocking
  <1>2. IsFiniteSet(T)
    <2>1. IsFiniteSet(rows) BY DEF TypeOK
    <2> HIDE DEF f, T
    <2>2. QED BY <1>1, <2>1, FS_Surjection
  <1>3. T \subseteq Reservations
    BY DEF SetBlocking, TypeOK, Reservations
  <1>4. ASSUME NEW r \in T
        PROVE  \E q \in rows :
                /\ r.owner = q.owner /\ r.slot = q.slot /\ r.nth = q.nth
                /\ q.owner = b => r = [q EXCEPT !.blocking = flag] /\ r.blocking = flag
                /\ q.owner # b => r = q
    <2>1. PICK q \in rows :
             r = IF q.owner = b THEN [q EXCEPT !.blocking = flag] ELSE q
      BY <1>4 DEF SetBlocking
    <2>2. q \in Reservations
      BY DEF TypeOK
    <2>3. QED BY <2>1, <2>2 DEF Reservations
  <1>5. QED BY <1>2, <1>3, <1>4 DEF SetBlocking

-----------------------------------------------------------------------------
(* What a step does to the booking, its rows and its ledger. *)

\* A lifecycle move, whoever asked for it: an exit shares out the balance.
Passes(b, to, out, tender) ==
    /\ \E a \in Actors : Transition(b, to, a, TRUE, out, tender)
    /\ to \in {"in_service", "completed", "cancelled", "checked_in", "no_show",
               "settled", "expired"}
    /\ out.refund \in Int /\ out.kept \in Int
    /\ tender.credit \in Int /\ tender.applied \in Int
    /\ to \in Exits => /\ out.refund + out.kept = Balance(b)
                       /\ tender.credit = 0 /\ tender.applied = 0

\* One of the desk's money actions, or a payment the app reports.
MoneyStep(b) ==
    \/ \E key \in Keys : Capture(b, key)
    \/ \E key \in Keys, amt \in Nat : Refund(b, key, amt)
    \/ \E key \in Keys, amt \in Nat : Goodwill(b, key, amt)
    \/ On("revive") /\ \E key \in Keys : Revive(b, key)
    \/ \E pay \in PaymentStatuses, amt \in Nat, ref \in References \cup {None} :
         RecordPayment(b, pay, amt, ref)

MoveStep(b) == \E s \in Slots : ShiftInPlace(b, s) \/ Move(b, s)

\* Every step is a lifecycle move, a birth, a money action, a late write, a
\* move in the diary, or touches none of the three tables.
LEMMA DeskSteps ==
    ASSUME TypeOK, DeskStep
    PROVE  \/ UNCHANGED <<booking, rows, ledger>>
           \/ \E b \in Bookings, s \in Slots, d \in Nat :
                \E k \in {"none", "paid", "link", "ask", "series"} : Book(b, s, k, d)
           \/ \E b \in Bookings : \E to, out, tender : Passes(b, to, out, tender)
           \/ \E b \in Bookings :
                \/ UndoCheckIn(b) \/ MoneyStep(b) \/ MoveStep(b)
                \/ On("ask") /\ ConfirmAskExpire(b)
           \/ \E w \in Workers :
                LinkWrite(w) \/ \E d \in Nat : WebhookApply(w, d)
  <1> DEFINE Touched ==
           \/ \E b \in Bookings : \E to, out, tender : Passes(b, to, out, tender)
           \/ UNCHANGED <<booking, rows, ledger>>
  <1>1. ASSUME NEW b \in Bookings, NEW s \in scenario.slots,
               NEW k \in scenario.kinds, NEW d \in Deposits, Book(b, s, k, d)
        PROVE  /\ s \in Slots /\ d \in Nat
               /\ k \in {"none", "paid", "link", "ask", "series"}
    BY VisitsAssumption DEF VisitsAssumption, TypeOK
  <1>2. ASSUME NEW b \in Bookings, NEW to, NEW a \in Actors,
               NEW out, NEW tender, Transition(b, to, a, TRUE, out, tender),
               to \in {"in_service", "completed", "checked_in", "settled", "expired"},
               out.refund \in Int, out.kept \in Int,
               tender.credit \in Int, tender.applied \in Int
        PROVE  Touched
    <2>1. to \notin Exits BY <1>2 DEF Exits
    <2>2. Passes(b, to, out, tender) BY <1>2, <2>1 DEF Passes
    <2>3. QED BY <2>2
  <1>3. ASSUME NEW b \in Bookings, NEW to \in Exits, NEW a \in Actors, NEW who,
               NEW vip, NEW out, out = SettleMoney(b, to, who, vip),
               Transition(b, to, a, TRUE, out, NoTender)
        PROVE  Touched
    <2>1. /\ out.refund \in Int /\ out.kept \in Int
          /\ out.refund + out.kept = Balance(b)
      BY <1>3, BalanceIsInt, OutcomesAddUp DEF SettleMoney, Exits
    <2>2. NoTender.credit = 0 /\ NoTender.applied = 0
      BY DEF NoTender
    <2>3. to \in {"in_service", "completed", "cancelled", "checked_in", "no_show",
                  "settled", "expired"}
      BY DEF Exits
    <2>4. \E x \in Actors : Transition(b, to, x, TRUE, out, NoTender)
      BY <1>3
    <2>5. NoTender.credit \in Int /\ NoTender.applied \in Int
      BY <2>2
    <2>6. Passes(b, to, out, NoTender)
      BY <2>1, <2>2, <2>3, <2>4, <2>5 DEF Passes
    <2>7. QED BY <2>6
  <1>0. /\ Nothing.refund \in Int /\ Nothing.kept \in Int
        /\ NoTender.credit \in Int /\ NoTender.applied \in Int
        /\ "system" \in Actors /\ "staff" \in Actors
    BY DEF Nothing, NoTender, Actors, ANY_STAFF
  <1>4. ASSUME NEW b \in Bookings, NEW a \in Actors, NEW who,
               NEW to \in {"in_service", "completed", "cancelled"},
               DeskCommand(b, to, a, who)
        PROVE  Touched
    <2>1. PICK out : out = SettleMoney(b, to, who, FALSE)
      OBVIOUS
    <2>2. Transition(b, to, a, TRUE, out, NoTender)
      BY <1>4, <2>1 DEF DeskCommand, Transition
    <2>3. CASE to = "cancelled"
      BY <1>3, <2>1, <2>2, <2>3 DEF Exits
    <2>4. CASE to # "cancelled"
      <3>1. out = Nothing
        BY <2>1, <2>4 DEF SettleMoney
      <3>2. QED BY <1>0, <1>2, <2>2, <2>4, <3>1
    <2>5. QED BY <2>3, <2>4
  <1>5. ASSUME NEW w \in Workers, NEW a \in Actors, NEW vip \in BOOLEAN,
               NEW bill \in Bills, NEW y \in Loyalty, DeskTransition(w, a, vip, bill, y)
        PROVE  Touched
    <2>1. /\ work[w].b \in Bookings /\ work[w].seen \in Int
          /\ work[w].to \in {"checked_in", "no_show", "settled"}
      BY <1>5 DEF DeskTransition, TypeOK, WellFormed, Jobs
    <2>2. PICK b \in Bookings, to \in {"checked_in", "no_show", "settled"},
               seen \in Int : b = work[w].b /\ to = work[w].to /\ seen = work[w].seen
      BY <2>1
    <2>3. PICK out, tender :
             /\ out = SettleMoney(b, to, "customer", vip)
             /\ tender = IF to = "settled" THEN Tender(seen, bill, y) ELSE NoTender
      OBVIOUS
    <2>4. Transition(b, to, a, TRUE, out, tender)
      BY <1>5, <2>2, <2>3 DEF DeskTransition, Transition
    <2>5. CASE to = "no_show"
      BY <1>3, <2>3, <2>4, <2>5 DEF Exits
    <2>6. CASE to # "no_show"
      <3>1. out = Nothing
        BY <2>2, <2>3, <2>6 DEF SettleMoney
      <3>2. bill \in Int /\ y \in Int
        BY LifecycleAssumption DEF LifecycleAssumption
      <3>3. tender.credit \in Int /\ tender.applied \in Int
        BY <1>0, <2>3, <3>2, TenderIsInt
      <3>4. QED BY <1>0, <1>2, <2>4, <2>6, <3>1, <3>3
    <2>7. QED BY <2>5, <2>6
  <1>6. ASSUME NEW w \in Workers, NoShowMark(w) PROVE Touched
    <2>1. PICK b \in work[w].todo :
             \/ Transition(b, "no_show", "system", TRUE,
                           SettleMoney(b, "no_show", "customer", FALSE), NoTender)
             \/ UNCHANGED <<now, booking, rows, ledger, request>>
      BY <1>6 DEF NoShowMark
    <2>2. b \in Bookings BY DEF TypeOK, Jobs
    <2>3. PICK out : out = SettleMoney(b, "no_show", "customer", FALSE)
      OBVIOUS
    <2>4. \/ Transition(b, "no_show", "system", TRUE, out, NoTender)
          \/ UNCHANGED <<now, booking, rows, ledger, request>>
      BY <2>1, <2>3 DEF Transition
    <2>5. "no_show" \in Exits BY DEF Exits
    <2>6. QED BY <1>0, <1>3, <2>2, <2>3, <2>4, <2>5
  <1>7. ASSUME NEW w \in Workers, LinkExpire(w) PROVE Touched
    <2>1. PICK b \in work[w].todo :
             \/ Transition(b, "expired", "system", TRUE, Nothing, NoTender)
             \/ UNCHANGED <<now, booking, rows, ledger, request>>
      BY <1>7 DEF LinkExpire
    <2>2. b \in Bookings BY DEF TypeOK, Jobs
    <2>3. QED BY <1>0, <1>2, <2>1, <2>2
  <1>8. ASSUME NEW w \in Workers, ApproveSeat(w) PROVE Touched
    <2>1. PICK b \in Bookings : b = work[w].b
      BY <1>8 DEF ApproveSeat, TypeOK, WellFormed, Approving
    <2>2. \/ Transition(b, "checked_in", "staff", TRUE, Nothing, NoTender)
          \/ UNCHANGED <<now, booking, rows, ledger, request>>
      BY <1>8, <2>1 DEF ApproveSeat, Transition
    <2>3. QED BY <1>0, <1>2, <2>2
  <1>9. ASSUME \/ Tick \/ \E w \in Workers : Crash(w)
               \/ \E w \in Workers, b \in Bookings : \E to, g : DeskRead(w, b, to, g)
               \/ \E w \in Workers : DeskRefused(w) \/ NoShowSelect(w)
               \/ \E b \in Bookings : \E k : Raise(b, k)
               \/ \E w \in Workers, b \in Bookings : ApproveLock(w, b)
               \/ \E w \in Workers : ApproveChair(w) \/ ApproveGate(w) \/ ApproveMark(w)
               \/ \E b \in Bookings : Reject(b) \/ Withdraw(b)
               \/ \E w \in Workers : LapseRead(w) \/ LapseWrite(w)
               \/ \E w \in Workers, b \in Bookings : LinkRead(w, b)
               \/ \E w \in Workers : LinkSelect(w) \/ WebhookRolledBack(w)
               \/ \E w \in Workers, b \in Bookings : \E i, kind : WebhookRead(w, b, i, kind)
        PROVE  UNCHANGED <<booking, rows, ledger>>
    BY <1>9
    DEF Tick, Crash, DeskRead, DeskRefused, NoShowSelect, Raise, ApproveLock,
        ApproveChair, ApproveGate, ApproveMark, Reject, Withdraw, LapseRead,
        LapseWrite, LinkRead, LinkSelect, WebhookRolledBack, WebhookRead
  <1>10. ASSUME NEW b \in Bookings,
                \/ \E key \in Keys : Capture(b, key)
                \/ \E key \in Keys : \E amt \in 1 .. MaxCredits : Refund(b, key, amt)
                \/ \E key \in Keys : \E amt \in Credits : Goodwill(b, key, amt)
                \/ On("revive") /\ \E key \in Keys : Revive(b, key)
                \/ \E pay \in PaymentStatuses :
                     \E amt \in 0 .. Price, ref \in References \cup {None} :
                        RecordPayment(b, pay, amt, ref)
         PROVE  MoneyStep(b)
    <2>1. /\ 1 .. MaxCredits \subseteq Nat /\ Credits \subseteq Nat
          /\ 0 .. Price \subseteq Nat
      BY VisitsAssumption, MoneyAssumption DEF VisitsAssumption, MoneyAssumption
    <2>2. QED BY <1>10, <2>1 DEF MoneyStep
  <1>11. Deposits \subseteq Nat
    BY VisitsAssumption DEF VisitsAssumption
  <1>12. QED
    BY <1>1, <1>4, <1>5, <1>6, <1>7, <1>8, <1>9, <1>10, <1>11
    DEF DeskStep, MoveStep

-----------------------------------------------------------------------------
(* What each kind of step leaves in the row and the ledger it writes. *)

Elsewhere(b) == \A c \in Bookings : c # b => /\ booking'[c] = booking[c]
                                            /\ ledger'[c] = ledger[c]

\* Every legal lifecycle move starts from a state that occupies time.
LEMMA MovesStartLive ==
    ASSUME NEW from \in Statuses, NEW to, NEW a, NEW reason,
           CheckTransition(from, to, a, reason)
    PROVE  from \in BLOCKING_STATES
  <1>1. PICK t \in TRANSITIONS : t.from = from
    BY DEF CheckTransition
  <1>2. t.from \in BLOCKING_STATES \cup {"draft", "held"}
    BY DEF TRANSITIONS, May, BLOCKING_STATES
  <1>3. QED BY <1>1, <1>2 DEF Statuses, BLOCKING_STATES, RELEASING_STATES

\* A lifecycle move writes one booking, and its money is what the outcome says.
LEMMA PassEffect ==
    ASSUME TypeOK, NEW b \in Bookings, NEW to, NEW out, NEW tender,
           Passes(b, to, out, tender)
    PROVE  /\ booking' \in [Bookings -> BookingRows]
           /\ ledger' \in [Bookings -> Ledgers] /\ Elsewhere(b)
           /\ booking[b].st \in BLOCKING_STATES
           /\ booking'[b].st = to /\ booking'[b].slot = booking[b].slot
           /\ to \in Statuses /\ to # "unused" /\ rows' = ReleaseCapacity(b, to)
           /\ request' = request /\ now' = now
           /\ ledger'[b].captured = ledger[b].captured
           /\ ledger'[b].goodwill = ledger[b].goodwill
           /\ to \in Exits => Balance(b)' = 0
  <1>1. PICK a \in Actors : Transition(b, to, a, TRUE, out, tender)
    BY DEF Passes
  <1>2. /\ out.refund \in Int /\ out.kept \in Int
        /\ tender.credit \in Int /\ tender.applied \in Int
    BY DEF Passes
  <1>3. to \in Statuses /\ to # "unused"
    BY DEF Passes, Statuses, BLOCKING_STATES, RELEASING_STATES
  <1>4. booking[b].st \in BLOCKING_STATES
    <2>1. booking[b].st \in Statuses BY DEF TypeOK, BookingRows
    <2>2. CheckTransition(booking[b].st, to, a, TRUE) BY <1>1 DEF Transition
    <2>3. QED BY <2>1, <2>2, MovesStartLive
  <1> DEFINE row == [booking[b] EXCEPT
                       !.st = to, !.pay = NextPaymentStatus(@, out),
                       !.arrived = IF to = "checked_in" THEN now ELSE @]
             led == [ledger[b] EXCEPT
                       !.refunded = @ + out.refund + tender.credit,
                       !.forfeited = @ + out.kept,
                       !.last = IF out.kept > 0 THEN out.kept ELSE @,
                       !.applied = @ + tender.applied]
  <1>5. /\ booking' = [booking EXCEPT ![b] = row]
        /\ ledger' = [ledger EXCEPT ![b] = led]
        /\ rows' = ReleaseCapacity(b, to) /\ request' = request /\ now' = now
    BY <1>1 DEF Transition
  <1>6. booking[b] \in BookingRows /\ ledger[b] \in Ledgers /\ now \in Nat
    BY DEF TypeOK
  <1>7. row \in BookingRows /\ row.st = to /\ row.slot = booking[b].slot
    <2>1. NextPaymentStatus(booking[b].pay, out) \in PaymentStatuses
      BY <1>6 DEF NextPaymentStatus, PaymentStatuses, BookingRows
    <2>2. QED BY <1>3, <1>6, <2>1 DEF BookingRows
  <1>8. /\ led \in Ledgers /\ led.captured = ledger[b].captured
        /\ led.goodwill = ledger[b].goodwill /\ led.reversed = ledger[b].reversed
        /\ led.refunded = ledger[b].refunded + out.refund + tender.credit
        /\ led.forfeited = ledger[b].forfeited + out.kept
        /\ led.applied = ledger[b].applied + tender.applied
    <2>1. PICK L \in Ledgers : L = ledger[b]
      BY <1>6
    <2> DEFINE f == L.refunded + out.refund + tender.credit
               g == L.forfeited + out.kept
               h == L.applied + tender.applied
               l == IF out.kept > 0 THEN out.kept ELSE L.last
    <2>2. f \in Int /\ g \in Int /\ h \in Int /\ l \in Int
      <3>1. /\ L.refunded \in Int /\ L.forfeited \in Int /\ L.applied \in Int
            /\ L.last \in Int
        BY DEF Ledgers
      <3>2. QED BY <1>2, <3>1
    <2>3. led = [L EXCEPT !.refunded = f, !.forfeited = g, !.last = l, !.applied = h]
      BY <2>1
    <2> HIDE DEF led, f, g, h, l
    <2>4. led \in Ledgers
      BY <2>2, <2>3 DEF Ledgers
    <2>5. /\ led.captured = L.captured /\ led.goodwill = L.goodwill
          /\ led.reversed = L.reversed /\ led.refunded = f
          /\ led.forfeited = g /\ led.applied = h
      BY <2>3 DEF Ledgers
    <2>6. QED BY <2>1, <2>4, <2>5 DEF f, g, h
  <1> HIDE DEF row, led
  <1>9. /\ booking' \in [Bookings -> BookingRows] /\ booking'[b] = row
        /\ ledger' \in [Bookings -> Ledgers] /\ ledger'[b] = led
        /\ Elsewhere(b)
    BY <1>5, <1>7, <1>8 DEF TypeOK, Elsewhere
  <1>10. ASSUME to \in Exits PROVE Balance(b)' = 0
    <2>1. /\ out.refund + out.kept = Balance(b)
          /\ tender.credit = 0 /\ tender.applied = 0
      BY <1>10 DEF Passes
    <2>2. /\ ledger[b].captured \in Int /\ ledger[b].refunded \in Int
          /\ ledger[b].forfeited \in Int /\ ledger[b].applied \in Int
          /\ ledger[b].reversed \in Int /\ ledger[b].goodwill \in Int
      BY <1>6 DEF Ledgers
    <2>3. Balance(b)' = led.captured + led.reversed + led.goodwill
                          - led.refunded - led.forfeited - led.applied
      BY <1>9 DEF Balance
    <2>4. QED BY <1>2, <1>8, <2>1, <2>2, <2>3 DEF Balance
  <1>11. QED BY <1>3, <1>4, <1>5, <1>7, <1>8, <1>9, <1>10

\* A birth writes a row that did not exist.
LEMMA BookEffect ==
    ASSUME TypeOK, NEW b \in Bookings, NEW s \in Slots, NEW d \in Nat,
           NEW k \in {"none", "paid", "link", "ask", "series"}, Book(b, s, k, d)
    PROVE  /\ booking' \in [Bookings -> BookingRows]
           /\ ledger' \in [Bookings -> Ledgers] /\ Elsewhere(b)
           /\ ~Used(b) /\ booking'[b].slot = s
           /\ booking'[b].st \in {"confirmed", "pending_payment", "pending_confirmation"}
           /\ rows' = rows \cup {NewRow(b, s)} /\ ~Taken(s, b)
           /\ request' = request
  <1>1. /\ booking' = [booking EXCEPT ![b] = Born(s, k, d)]
        /\ ledger' = [ledger EXCEPT ![b] = [ledger[b] EXCEPT
                          !.captured = IF k = "paid" THEN d ELSE 0]]
        /\ rows' = rows \cup {NewRow(b, s)} /\ ~Taken(s, b) /\ request' = request
        /\ ~Used(b)
    BY DEF Book, Used
  <1>2. LinkExpiry(StartOf[s]) \in Int
    BY VisitsAssumption DEF VisitsAssumption, LinkExpiry, TypeOK
  <1> DEFINE row == [NoBooking EXCEPT !.slot = s, !.born = now]
  <1>3. /\ row \in BookingRows /\ row.slot = s
    BY DEF NoBooking, BookingRows, TypeOK, PaymentStatuses, Statuses
  <1>4. /\ Born(s, k, d) \in BookingRows /\ Born(s, k, d).slot = s
        /\ Born(s, k, d).st \in {"confirmed", "pending_payment", "pending_confirmation"}
    <2>0. {"confirmed", "pending_payment", "pending_confirmation"} \subseteq Statuses
          /\ {"fully_paid", "deposit_paid", "unpaid"} \subseteq PaymentStatuses
      BY DEF Statuses, BLOCKING_STATES, PaymentStatuses
    <2>1. CASE k = "none"
      <3>1. Born(s, k, d) = [row EXCEPT !.st = "confirmed"]
        BY <2>1 DEF Born
      <3> HIDE DEF row
      <3>2. QED BY <1>3, <2>0, <3>1 DEF BookingRows
    <2>2. CASE k = "paid"
      <3>1. Born(s, k, d) = [row EXCEPT !.st = "confirmed", !.deposit = d,
                 !.pay = IF d >= Price THEN "fully_paid" ELSE "deposit_paid"]
        BY <2>2 DEF Born
      <3> HIDE DEF row
      <3>2. QED BY <1>3, <2>0, <3>1 DEF BookingRows
    <2>3. CASE k = "link"
      <3>1. Born(s, k, d) = [row EXCEPT !.st = "pending_payment", !.deposit = d,
                 !.pay = "unpaid", !.link = LinkExpiry(StartOf[s])]
        BY <2>3 DEF Born
      <3> HIDE DEF row
      <3>2. QED BY <1>2, <1>3, <2>0, <3>1 DEF BookingRows
    <2>4. CASE k = "ask"
      <3>1. Born(s, k, d) = [row EXCEPT !.st = "pending_confirmation"]
        BY <2>4 DEF Born
      <3> HIDE DEF row
      <3>2. QED BY <1>3, <2>0, <3>1 DEF BookingRows
    <2>5. CASE k = "series"
      <3>1. Born(s, k, d) = [row EXCEPT !.st = "pending_payment", !.pay = "unpaid"]
        BY <2>5 DEF Born
      <3> HIDE DEF row
      <3>2. QED BY <1>3, <2>0, <3>1 DEF BookingRows
    <2>6. QED BY <2>1, <2>2, <2>3, <2>4, <2>5
  <1>5. [ledger[b] EXCEPT !.captured = IF k = "paid" THEN d ELSE 0] \in Ledgers
    BY DEF TypeOK, Ledgers
  <1>6. QED BY <1>1, <1>4, <1>5 DEF TypeOK, Elsewhere

\* The ledger entry of a money action: one field grows, and the key is on the
\* row whenever a row is written.
Entered(b, field, amt, ref) ==
    /\ ledger' \in [Bookings -> Ledgers]
    /\ \A c \in Bookings : c # b => ledger'[c] = ledger[c]
    /\ ledger'[b].captured = ledger[b].captured + IF field = "captured" THEN amt ELSE 0
    /\ ledger'[b].refunded = ledger[b].refunded + IF field = "refunded" THEN amt ELSE 0
    /\ ledger'[b].goodwill = ledger[b].goodwill + IF field = "goodwill" THEN amt ELSE 0
    /\ ledger'[b].reversed = ledger[b].reversed + IF field = "reversed" THEN amt ELSE 0
    /\ ledger'[b].forfeited = ledger[b].forfeited
    /\ ledger'[b].applied = ledger[b].applied
    /\ ledger'[b].refs = IF amt = 0 THEN ledger[b].refs ELSE ledger[b].refs \cup ref

\* Plus() enters one row and touches nothing else.
LEMMA PlusEffect ==
    ASSUME TypeOK, NEW b \in Bookings, NEW amt \in Int,
           NEW field \in {"captured", "refunded", "goodwill", "reversed"},
           NEW ref \in SUBSET (Keys \cup References \cup Intents),
           Plus(b, field, amt, ref)
    PROVE  Entered(b, field, amt, ref)
  <1>1. PICK L \in Ledgers : L = ledger[b]
    BY DEF TypeOK
  <1>2. PICK R \in SUBSET (Keys \cup References \cup Intents) :
          R = IF amt = 0 THEN L.refs ELSE L.refs \cup ref
    BY DEF Ledgers
  <1> DEFINE new == [L EXCEPT ![field] = @ + amt, !.refs = R]
  <1>3. ledger' = [ledger EXCEPT ![b] = new]
    BY <1>1, <1>2 DEF Plus
  <1>4. /\ new \in Ledgers /\ new.refs = R
        /\ new.captured = L.captured + IF field = "captured" THEN amt ELSE 0
        /\ new.refunded = L.refunded + IF field = "refunded" THEN amt ELSE 0
        /\ new.goodwill = L.goodwill + IF field = "goodwill" THEN amt ELSE 0
        /\ new.reversed = L.reversed + IF field = "reversed" THEN amt ELSE 0
        /\ new.forfeited = L.forfeited /\ new.applied = L.applied
    <2>0. /\ L.captured \in Int /\ L.refunded \in Int /\ L.goodwill \in Int
          /\ L.reversed \in Int
      BY DEF Ledgers
    <2>1. CASE field = "captured"
      <3>1. PICK x \in Int : x = L.captured + amt BY <2>0
      <3>2. new = [L EXCEPT !.captured = x, !.refs = R] BY <2>1, <3>1
      <3> HIDE DEF new
      <3>3. new \in Ledgers
        BY <3>2 DEF Ledgers
      <3>4. /\ new.refs = R /\ new.captured = x
            /\ new.refunded = L.refunded /\ new.goodwill = L.goodwill
            /\ new.reversed = L.reversed /\ new.forfeited = L.forfeited
            /\ new.applied = L.applied
        BY <3>2 DEF Ledgers
      <3>5. QED BY <2>0, <2>1, <3>1, <3>3, <3>4
    <2>2. CASE field = "refunded"
      <3>1. PICK x \in Int : x = L.refunded + amt BY <2>0
      <3>2. new = [L EXCEPT !.refunded = x, !.refs = R] BY <2>2, <3>1
      <3> HIDE DEF new
      <3>3. new \in Ledgers
        BY <3>2 DEF Ledgers
      <3>4. /\ new.refs = R /\ new.refunded = x
            /\ new.captured = L.captured /\ new.goodwill = L.goodwill
            /\ new.reversed = L.reversed /\ new.forfeited = L.forfeited
            /\ new.applied = L.applied
        BY <3>2 DEF Ledgers
      <3>5. QED BY <2>0, <2>2, <3>1, <3>3, <3>4
    <2>3. CASE field = "goodwill"
      <3>1. PICK x \in Int : x = L.goodwill + amt BY <2>0
      <3>2. new = [L EXCEPT !.goodwill = x, !.refs = R] BY <2>3, <3>1
      <3> HIDE DEF new
      <3>3. new \in Ledgers
        BY <3>2 DEF Ledgers
      <3>4. /\ new.refs = R /\ new.goodwill = x
            /\ new.captured = L.captured /\ new.refunded = L.refunded
            /\ new.reversed = L.reversed /\ new.forfeited = L.forfeited
            /\ new.applied = L.applied
        BY <3>2 DEF Ledgers
      <3>5. QED BY <2>0, <2>3, <3>1, <3>3, <3>4
    <2>4. CASE field = "reversed"
      <3>1. PICK x \in Int : x = L.reversed + amt BY <2>0
      <3>2. new = [L EXCEPT !.reversed = x, !.refs = R] BY <2>4, <3>1
      <3> HIDE DEF new
      <3>3. new \in Ledgers
        BY <3>2 DEF Ledgers
      <3>4. /\ new.refs = R /\ new.reversed = x
            /\ new.captured = L.captured /\ new.refunded = L.refunded
            /\ new.goodwill = L.goodwill /\ new.forfeited = L.forfeited
            /\ new.applied = L.applied
        BY <3>2 DEF Ledgers
      <3>5. QED BY <2>0, <2>4, <3>1, <3>3, <3>4
    <2>5. QED BY <2>1, <2>2, <2>3, <2>4
  <1> HIDE DEF new
  <1>5. ledger'[b] = new /\ ledger' \in [Bookings -> Ledgers]
        /\ \A c \in Bookings : c # b => ledger'[c] = ledger[c]
    BY <1>3, <1>4 DEF TypeOK
  <1>6. QED BY <1>1, <1>2, <1>4, <1>5 DEF Entered

\* What every money action has in common.
MoneyWrite(b) ==
    /\ booking' \in [Bookings -> BookingRows] /\ ledger' \in [Bookings -> Ledgers]
    /\ Elsewhere(b) /\ Used(b) /\ booking'[b].slot = booking[b].slot
    /\ UNCHANGED <<rows, request, work, now>>
    /\ \/ booking'[b].st = booking[b].st
       \/ /\ booking[b].st \in {"pending_payment", "confirmed"}
          /\ booking'[b].st = "confirmed"
       \/ On("revive") /\ booking[b].st = "no_show" /\ booking'[b].st = "confirmed"
    /\ \/ ledger'[b].captured > ledger[b].captured
       \/ ledger'[b].goodwill > ledger[b].goodwill
       => \/ ledger'[b].refs # ledger[b].refs
          \/ booking[b].pay = "unpaid" /\ booking'[b].pay # "unpaid"
    /\ booking'[b].st \in Exits =>
         \/ Balance(b)' - Balance(b) = ledger'[b].goodwill - ledger[b].goodwill
         \/ ReportedLate(b)

\* act() writes one booking and one ledger row, once for a key.
LEMMA ActEffect ==
    ASSUME TypeOK, NEW b \in Bookings, NEW key \in Keys, NEW amt \in Int,
           NEW field \in {"captured", "refunded", "goodwill", "reversed"},
           NEW st \in Statuses, NEW pay \in PaymentStatuses, NEW clear \in BOOLEAN,
           Act(b, key, field, amt, st, pay, clear), Used(b),
           \/ st = booking[b].st
           \/ booking[b].st \in {"pending_payment", "confirmed"} /\ st = "confirmed"
           \/ On("revive") /\ booking[b].st = "no_show" /\ st = "confirmed",
           st \in Exits => field = "goodwill"
    PROVE  MoneyWrite(b)
  <1>1. /\ Plus(b, field, amt, {key}) /\ key \notin ledger[b].refs
        /\ UNCHANGED <<now, rows, request, work>>
        /\ booking' = [booking EXCEPT ![b] = [booking[b] EXCEPT
              !.st = st, !.pay = pay, !.link = IF clear THEN None ELSE @]]
    BY DEF Act, Replayed
  <1>2. /\ booking' \in [Bookings -> BookingRows]
        /\ \A c \in Bookings : c # b => booking'[c] = booking[c]
        /\ booking'[b].st = st /\ booking'[b].slot = booking[b].slot
    <2>1. PICK old \in BookingRows : old = booking[b]
      BY DEF TypeOK
    <2>2. PICK link \in {old.link, None} : link = IF clear THEN None ELSE old.link
      OBVIOUS
    <2>3. PICK new : new = [old EXCEPT !.st = st, !.pay = pay, !.link = link]
      OBVIOUS
    <2>4. new \in BookingRows /\ new.st = st /\ new.slot = old.slot
      BY ONLY <2>1, <2>2, <2>3, st \in Statuses, pay \in PaymentStatuses DEF BookingRows
    <2>5. booking' = [booking EXCEPT ![b] = new]
      BY ONLY <1>1, <2>1, <2>2, <2>3 DEF BookingRows
    <2>6. booking \in [Bookings -> BookingRows]
      BY DEF TypeOK
    <2> QED BY ONLY b \in Bookings, <2>1, <2>4, <2>5, <2>6
  <1>3. PICK ref \in SUBSET (Keys \cup References \cup Intents) :
          ref = {key} /\ Plus(b, field, amt, ref)
    BY <1>1
  <1>4. Entered(b, field, amt, ref)
    BY <1>3, PlusEffect
  <1>5. /\ ledger[b].captured \in Int /\ ledger[b].refunded \in Int
        /\ ledger[b].forfeited \in Int /\ ledger[b].applied \in Int
        /\ ledger[b].reversed \in Int /\ ledger[b].goodwill \in Int
    BY DEF TypeOK, Ledgers
  <1>6. ASSUME \/ ledger'[b].captured > ledger[b].captured
               \/ ledger'[b].goodwill > ledger[b].goodwill
        PROVE  ledger'[b].refs # ledger[b].refs
    <2>1. amt # 0 BY <1>4, <1>5, <1>6 DEF Entered
    <2>2. QED BY <1>1, <1>3, <1>4, <2>1 DEF Entered
  <1>7. ASSUME st \in Exits
        PROVE  Balance(b)' - Balance(b) = ledger'[b].goodwill - ledger[b].goodwill
    <2>1. field = "goodwill" BY <1>7
    <2>2. QED BY <1>4, <1>5, <2>1 DEF Balance, Entered
  <1>8. QED
    BY <1>1, <1>2, <1>4, <1>6, <1>7 DEF MoneyWrite, Elsewhere, Entered

\* Take at desk, refund, goodwill, revive and the app's report each write one
\* booking, take money once for a reference and leave exits at rest.
LEMMA MoneyEffect ==
    ASSUME DeskType, NEW b \in Bookings, MoneyStep(b)
    PROVE  MoneyWrite(b)
  <1>0. /\ TypeOK /\ booking[b] \in BookingRows /\ ledger[b] \in Ledgers
        /\ Price \in Nat /\ FALSE \in BOOLEAN /\ TRUE \in BOOLEAN
        /\ "confirmed" \in Statuses /\ "confirmed" \notin Exits
        /\ "settled" \notin Exits /\ "completed" \notin Exits
        /\ {"none_required", "deposit_paid", "fully_paid", "refunded",
            "partially_refunded"} \subseteq PaymentStatuses
        /\ booking[b].pay \in PaymentStatuses /\ booking[b].st \in Statuses
    BY VisitsAssumption
    DEF VisitsAssumption, DeskType, TypeOK, BookingRows, Statuses, BLOCKING_STATES,
        PaymentStatuses, Exits
  <1>1. ASSUME NEW key \in Keys, Capture(b, key) PROVE MoneyWrite(b)
    <2>1. PICK owed \in Int :
             owed = IF booking[b].deposit > 0 THEN booking[b].deposit ELSE Price
      BY <1>0 DEF BookingRows
    <2>2. PICK pay \in PaymentStatuses :
             pay = IF owed >= Price THEN "fully_paid" ELSE "deposit_paid"
      BY <1>0
    <2>3. /\ Act(b, key, "captured", owed, "confirmed", pay, TRUE)
          /\ booking[b].st \in {"pending_payment", "confirmed"} /\ Used(b)
      BY <1>1, <2>1, <2>2 DEF Capture, Act, Plus, Used
    <2>4. QED BY <1>0, <2>3, ActEffect
  <1>2. ASSUME NEW key \in Keys, NEW amt \in Nat, Refund(b, key, amt)
        PROVE  MoneyWrite(b)
    <2>1. PICK pay \in PaymentStatuses :
             pay = IF amt >= Balance(b) THEN "refunded" ELSE "partially_refunded"
      BY <1>0
    <2>2. PICK st \in Statuses : st = booking[b].st
      BY <1>0
    <2>3. /\ Act(b, key, "refunded", amt, st, pay, FALSE)
          /\ st \in {"settled", "completed"} /\ Used(b) /\ amt \in Int
      BY <1>2, <2>1, <2>2 DEF Refund, Act, Plus, Used
    <2>4. st \notin Exits BY <1>0, <2>3
    <2>5. QED BY <1>0, <2>2, <2>3, <2>4, ActEffect
  <1>3. ASSUME NEW key \in Keys, NEW amt \in Nat, Goodwill(b, key, amt)
        PROVE  MoneyWrite(b)
    <2>1. PICK pay \in PaymentStatuses, st \in Statuses :
             pay = booking[b].pay /\ st = booking[b].st
      BY <1>0
    <2>2. Act(b, key, "goodwill", amt, st, pay, FALSE) /\ pay = "forfeited" /\ amt \in Int
      BY <1>3, <2>1 DEF Goodwill, Act, Plus
    <2>3. Used(b)
      <3>1. NoBooking.pay # "forfeited" BY DEF NoBooking
      <3>2. QED BY <2>1, <2>2, <3>1 DEF DeskType, OnlyUsed
    <2>4. QED BY <1>0, <2>1, <2>2, <2>3, ActEffect
  <1>4. ASSUME NEW key \in Keys, Revive(b, key), On("revive") PROVE MoneyWrite(b)
    <2>1. PICK fils \in Int : fils = ForfeitedOf(b).fils
      BY <1>0 DEF ForfeitedOf, Ledgers
    <2>2. PICK pay \in PaymentStatuses :
             pay = IF fils > 0 THEN "deposit_paid" ELSE "none_required"
      BY <1>0
    <2>3. /\ Act(b, key, "reversed", fils, "confirmed", pay, FALSE)
          /\ booking[b].st = "no_show" /\ Used(b)
      BY <1>4, <2>1, <2>2 DEF Revive, Act, Plus, Used
    <2>4. QED BY <1>0, <1>4, <2>3, ActEffect
  <1>5. ASSUME NEW pay \in PaymentStatuses, NEW amt \in Nat,
               NEW ref \in References \cup {None}, RecordPayment(b, pay, amt, ref)
        PROVE  MoneyWrite(b)
    <2>1. PICK R \in SUBSET (Keys \cup References \cup Intents) : R = {ref} \ {None}
      OBVIOUS
    <2>2. Entered(b, "captured", amt, R)
      <3>1. Plus(b, "captured", amt, R) BY <1>5, <2>1 DEF RecordPayment
      <3>2. amt \in Int OBVIOUS
      <3>3. QED BY <1>0, <3>1, <3>2, PlusEffect
    <2>3. /\ booking' = [booking EXCEPT ![b] = [booking[b] EXCEPT
                !.pay = pay, !.link = None,
                !.st = IF @ = "pending_payment" THEN "confirmed" ELSE @]]
          /\ UNCHANGED <<now, rows, request, work>> /\ Used(b)
          /\ booking[b].pay = "unpaid" /\ pay # "unpaid"
      BY <1>5 DEF RecordPayment, Used, PatchAllowed
    <2>4. /\ booking' \in [Bookings -> BookingRows]
          /\ \A c \in Bookings : c # b => booking'[c] = booking[c]
          /\ booking'[b].slot = booking[b].slot /\ booking'[b].pay = pay
          /\ booking'[b].st = IF booking[b].st = "pending_payment" THEN "confirmed"
                              ELSE booking[b].st
      BY <1>0, <2>3 DEF TypeOK, BookingRows
    <2>5. \/ Balance(b)' - Balance(b) = ledger'[b].goodwill - ledger[b].goodwill
          \/ ReportedLate(b)
      <3>1. /\ ledger[b].captured \in Int /\ ledger[b].refunded \in Int
            /\ ledger[b].forfeited \in Int /\ ledger[b].applied \in Int
            /\ ledger[b].reversed \in Int /\ ledger[b].goodwill \in Int
        BY <1>0 DEF Ledgers
      <3>2. CASE amt = 0
        BY <2>2, <3>1, <3>2 DEF Entered, Balance
      <3>3. CASE amt > 0
        BY <2>2, <2>3, <3>1, <3>3 DEF Entered, ReportedLate
      <3>4. QED BY <3>2, <3>3
    <2>6. QED
      BY <2>2, <2>3, <2>4, <2>5 DEF MoneyWrite, Elsewhere, Entered
  <1>6. QED BY <1>1, <1>2, <1>3, <1>4, <1>5 DEF MoneyStep

\* The writes that follow an unlocked read, and undo, write one booking that
\* exists; only a reinstatement touches its rows.
LateWrite(b) ==
    /\ booking' \in [Bookings -> BookingRows] /\ ledger' \in [Bookings -> Ledgers]
    /\ Elsewhere(b) /\ Used(b) /\ booking'[b].slot = booking[b].slot
    /\ booking'[b].st # "unused" /\ request' = request

\* A webhook takes money once for an intent, and gives back what it takes when
\* the visit is not happening.
LEMMA WebhookEffect ==
    ASSUME DeskType, NEW w \in Workers, NEW d \in Nat, WebhookApply(w, d)
    PROVE  \E b \in Bookings :
             /\ LateWrite(b)
             /\ \/ rows' = rows
                \/ rows' = SetBlocking(b, TRUE) /\ RowsApart(b)
             /\ booking'[b].st \in {booking[b].st, "confirmed"}
             /\ ledger'[b].captured > ledger[b].captured => ledger'[b].refs # ledger[b].refs
             /\ ledger'[b].goodwill = ledger[b].goodwill
             /\ booking'[b].st \in Exits => Balance(b)' = Balance(b)
  <1>1. /\ TypeOK /\ work[w].op = "webhook" /\ work[w].b \in Bookings
        /\ work[w].to \in Decisions /\ work[w].intent \in Intents /\ Used(work[w].b)
    BY DEF DeskType, TypeOK, OnlyUsed, WellFormed, WebhookApply
  <1>2. PICK b \in Bookings, to \in Decisions, i \in Intents :
          b = work[w].b /\ to = work[w].to /\ i = work[w].intent
    BY <1>1
  <1>3. PICK in \in Int, back \in Int :
          in = CapturedBy(to, d) /\ back = RefundedBy(to, d)
    BY DEF CapturedBy, RefundedBy
  <1>4. /\ booking' = IF to \in {"confirm", "reinstate"}
                      THEN [booking EXCEPT ![b] = [booking[b] EXCEPT
                              !.st = "confirmed", !.pay = "deposit_paid"]]
                      ELSE booking
        /\ rows' = IF to = "reinstate" THEN SetBlocking(b, TRUE) ELSE rows
        /\ to = "reinstate" => RowsApart(b)
        /\ ledger' = [ledger EXCEPT ![b] = [ledger[b] EXCEPT
              !.captured = @ + in, !.refunded = @ + back,
              !.refs = IF in > 0 THEN @ \cup {i} ELSE @, !.handled = @ \cup {i}]]
        /\ i \notin ledger[b].refs /\ request' = request
    BY <1>2, <1>3 DEF WebhookApply, IntentNew
  <1>5. booking[b] \in BookingRows /\ ledger[b] \in Ledgers /\ Used(b)
    BY <1>1, <1>2 DEF TypeOK
  <1>6. /\ booking' \in [Bookings -> BookingRows]
        /\ \A c \in Bookings : c # b => booking'[c] = booking[c]
        /\ booking'[b].slot = booking[b].slot /\ booking'[b].st # "unused"
        /\ booking'[b].st \in {booking[b].st, "confirmed"}
        /\ to \in {"confirm", "reinstate"} => booking'[b].st = "confirmed"
    <2>1. "confirmed" \in Statuses /\ "deposit_paid" \in PaymentStatuses
      BY DEF Statuses, BLOCKING_STATES, PaymentStatuses
    <2>2. QED BY <1>1, <1>4, <1>5, <2>1 DEF TypeOK, BookingRows, Used
  <1> DEFINE led == [ledger[b] EXCEPT
                       !.captured = @ + in, !.refunded = @ + back,
                       !.refs = IF in > 0 THEN @ \cup {i} ELSE @,
                       !.handled = @ \cup {i}]
  <1>7. /\ ledger[b].captured \in Int /\ ledger[b].refunded \in Int
        /\ ledger[b].forfeited \in Int /\ ledger[b].applied \in Int
        /\ ledger[b].reversed \in Int /\ ledger[b].goodwill \in Int
    BY <1>5 DEF Ledgers
  <1>8. /\ led \in Ledgers /\ led.captured = ledger[b].captured + in
        /\ led.refunded = ledger[b].refunded + back
        /\ led.forfeited = ledger[b].forfeited /\ led.applied = ledger[b].applied
        /\ led.reversed = ledger[b].reversed /\ led.goodwill = ledger[b].goodwill
        /\ led.refs = IF in > 0 THEN ledger[b].refs \cup {i} ELSE ledger[b].refs
    <2>1. PICK c \in Int, f \in Int : c = ledger[b].captured + in
                                      /\ f = ledger[b].refunded + back
      BY <1>7
    <2>2. PICK L \in Ledgers, R \in SUBSET (Keys \cup References \cup Intents),
               H \in SUBSET Intents :
            /\ L = ledger[b] /\ R = IF in > 0 THEN L.refs \cup {i} ELSE L.refs
            /\ H = L.handled \cup {i}
      BY <1>5 DEF Ledgers
    <2>3. led = [L EXCEPT !.captured = c, !.refunded = f, !.refs = R, !.handled = H]
      BY <2>1, <2>2
    <2> HIDE DEF led
    <2>4. led \in Ledgers
      BY <2>3 DEF Ledgers
    <2>5. /\ led.captured = c /\ led.refunded = f /\ led.refs = R
          /\ led.forfeited = L.forfeited /\ led.applied = L.applied
          /\ led.reversed = L.reversed /\ led.goodwill = L.goodwill
      BY <2>3 DEF Ledgers
    <2>6. QED BY <2>1, <2>2, <2>4, <2>5
  <1>9. /\ ledger' \in [Bookings -> Ledgers] /\ ledger'[b] = led
        /\ \A c \in Bookings : c # b => ledger'[c] = ledger[c]
    <2>1. ledger' = [ledger EXCEPT ![b] = led] BY <1>4
    <2> HIDE DEF led
    <2>2. QED BY <1>1, <1>8, <2>1 DEF TypeOK
  <1> HIDE DEF led
  <1>10. ASSUME ledger'[b].captured > ledger[b].captured
         PROVE  ledger'[b].refs # ledger[b].refs
    <2>1. in > 0 BY <1>7, <1>8, <1>9, <1>10
    <2>2. QED BY <1>4, <1>8, <1>9, <2>1
  <1>11. ASSUME booking'[b].st \in Exits PROVE Balance(b)' = Balance(b)
    <2>1. to \notin {"confirm", "reinstate"}
      BY <1>6, <1>11 DEF Exits
    <2>2. in = back
      BY <1>3, <2>1 DEF CapturedBy, RefundedBy
    <2>3. QED BY <1>7, <1>8, <1>9, <2>2 DEF Balance
  <1>12. QED
    BY <1>4, <1>5, <1>6, <1>8, <1>9, <1>10, <1>11 DEF LateWrite, Elsewhere

\* A link written after an unlocked read, an ask nobody answered and an undone
\* check-in change the status of one booking and no money and no rows.
LEMMA StatusEffect ==
    ASSUME DeskType, NEW b \in Bookings,
           \/ UndoCheckIn(b) \/ ConfirmAskExpire(b)
           \/ \E w \in Workers : LinkWrite(w) /\ b = work[w].b
    PROVE  /\ LateWrite(b) /\ UNCHANGED <<rows, ledger>>
           /\ booking'[b].st \notin Exits
           /\ UndoCheckIn(b) => booking[b].st = "checked_in"
                                /\ booking'[b].st = "confirmed"
  <1>0. /\ TypeOK /\ booking[b] \in BookingRows
        /\ {"confirmed", "expired", "pending_payment"} \subseteq Statuses \ {"unused"}
        /\ {"confirmed", "expired", "pending_payment"} \cap Exits = {}
        /\ "unpaid" \in PaymentStatuses
    BY DEF DeskType, TypeOK, Statuses, BLOCKING_STATES, RELEASING_STATES, Exits,
           PaymentStatuses
  <1>1. ASSUME NEW row \in BookingRows, booking' = [booking EXCEPT ![b] = row],
               row.slot = booking[b].slot, Used(b),
               row.st \in {"confirmed", "expired", "pending_payment"},
               UNCHANGED <<ledger, request>>
        PROVE  /\ LateWrite(b) /\ booking'[b].st = row.st
               /\ booking'[b].st \notin Exits
    BY <1>0, <1>1 DEF TypeOK, LateWrite, Elsewhere
  <1>2. CASE UndoCheckIn(b)
    <2>1. /\ booking' = [booking EXCEPT ![b] = [booking[b] EXCEPT !.st = "confirmed"]]
          /\ UNCHANGED <<rows, ledger, request>> /\ Used(b)
          /\ booking[b].st = "checked_in"
      BY <1>2 DEF UndoCheckIn, Used
    <2>2. PICK row : row = [booking[b] EXCEPT !.st = "confirmed"]
      OBVIOUS
    <2>3. /\ row \in BookingRows /\ row.st = "confirmed"
          /\ row.slot = booking[b].slot
      BY <1>0, <2>2 DEF BookingRows
    <2>4. QED BY <1>1, <2>1, <2>2, <2>3
  <1>3. CASE ConfirmAskExpire(b)
    <2>1. /\ booking' = [booking EXCEPT ![b] = [booking[b] EXCEPT !.st = "expired"]]
          /\ UNCHANGED <<rows, ledger, request>> /\ Used(b)
          /\ booking[b].st # "checked_in"
      BY <1>3 DEF ConfirmAskExpire, Used
    <2>2. PICK row : row = [booking[b] EXCEPT !.st = "expired"]
      OBVIOUS
    <2>3. /\ row \in BookingRows /\ row.st = "expired"
          /\ row.slot = booking[b].slot
      BY <1>0, <2>2 DEF BookingRows
    <2>4. QED BY <1>1, <1>2, <2>1, <2>2, <2>3
  <1>4. ASSUME NEW w \in Workers, LinkWrite(w), b = work[w].b, ~UndoCheckIn(b)
        PROVE  /\ LateWrite(b) /\ UNCHANGED <<rows, ledger>>
               /\ booking'[b].st \notin Exits
    <2>1. /\ booking' = [booking EXCEPT ![b] = [booking[b] EXCEPT
                !.st = "pending_payment", !.pay = "unpaid", !.link = work[w].seen]]
          /\ UNCHANGED <<rows, ledger, request>> /\ Used(b) /\ work[w].seen \in Int
      BY <1>4 DEF LinkWrite, DeskType, OnlyUsed, TypeOK, Jobs
    <2>2. PICK row : row = [booking[b] EXCEPT !.st = "pending_payment",
                                !.pay = "unpaid", !.link = work[w].seen]
      OBVIOUS
    <2>3. /\ row \in BookingRows /\ row.st = "pending_payment"
          /\ row.slot = booking[b].slot
      BY <1>0, <2>1, <2>2 DEF BookingRows
    <2>4. QED BY <1>1, <2>1, <2>2, <2>3
  <1>5. QED BY <1>2, <1>3, <1>4

\* A shift or a move takes a booking to another slot, with its row.
LEMMA MoveEffect ==
    ASSUME DeskType, NEW b \in Bookings, MoveStep(b)
    PROVE  \E s \in Slots :
             /\ booking' \in [Bookings -> BookingRows]
             /\ ledger' \in [Bookings -> Ledgers] /\ Elsewhere(b)
             /\ booking[b].st \in MOVABLE /\ booking'[b].st \in MOVABLE
             /\ booking'[b].slot = s /\ ~Taken(s, b)
             /\ rows' = SetBlocking(b, FALSE) \cup {NewRow(b, s)}
             /\ ledger'[b].captured = ledger[b].captured
             /\ ledger'[b].goodwill = ledger[b].goodwill
             /\ request' = request
  <1>0. /\ TypeOK /\ booking[b] \in BookingRows /\ ledger[b] \in Ledgers
        /\ Balance(b) \in Int
    BY BalanceIsInt DEF DeskType, TypeOK
  <1>a. /\ booking[b].moves \in Nat /\ ledger[b].forfeited \in Int
    BY <1>0 DEF BookingRows, Ledgers
  <1>b. PICK m \in Nat, f \in Int, bal \in Int :
          /\ m = booking[b].moves + 1 /\ bal = Balance(b)
          /\ f = ledger[b].forfeited + bal
    BY <1>0, <1>a
  <1>1. ASSUME NEW s \in Slots, ShiftInPlace(b, s)
        PROVE  /\ booking' \in [Bookings -> BookingRows] /\ Elsewhere(b)
               /\ booking[b].st \in MOVABLE /\ booking'[b].st = booking[b].st
               /\ booking'[b].slot = s /\ ~Taken(s, b)
               /\ rows' = SetBlocking(b, FALSE) \cup {NewRow(b, s)}
               /\ ledger' = ledger /\ request' = request
    <2>1. /\ booking' = [booking EXCEPT ![b] = [booking[b] EXCEPT
                             !.slot = s, !.moves = @ + 1]]
          /\ booking[b].st \in MOVABLE /\ ~Taken(s, b)
          /\ rows' = SetBlocking(b, FALSE) \cup {NewRow(b, s)}
          /\ ledger' = ledger /\ request' = request
      BY <1>1 DEF ShiftInPlace, Relocate
    <2>2. PICK row : /\ row = [booking[b] EXCEPT !.slot = s, !.moves = @ + 1]
                     /\ row = [booking[b] EXCEPT !.slot = s, !.moves = m]
      BY <1>b
    <2>3. row \in BookingRows /\ row.st = booking[b].st /\ row.slot = s
      BY <1>0, <2>2 DEF BookingRows
    <2>4. QED BY <1>0, <2>1, <2>2, <2>3 DEF TypeOK, Elsewhere
  <1>2. ASSUME NEW s \in Slots, Move(b, s)
        PROVE  /\ booking' \in [Bookings -> BookingRows]
               /\ ledger' \in [Bookings -> Ledgers] /\ Elsewhere(b)
               /\ booking[b].st \in MOVABLE /\ booking'[b].st \in MOVABLE
               /\ booking'[b].slot = s /\ ~Taken(s, b)
               /\ rows' = SetBlocking(b, FALSE) \cup {NewRow(b, s)}
               /\ ledger'[b].captured = ledger[b].captured
               /\ ledger'[b].goodwill = ledger[b].goodwill
               /\ request' = request
    <2>1. PICK out : out = RescheduleOutcome(Balance(b), StartAt(b) - now,
                                             booking[b].moves)
      OBVIOUS
    <2>2. PICK st, pay :
            /\ st = IF out = "acquires_deposit" THEN "pending_payment"
                                                ELSE booking[b].st
            /\ pay = CASE out = "acquires_deposit" -> "unpaid"
                       [] out = "forfeit_and_requote" -> "forfeited"
                       [] OTHER -> booking[b].pay
      OBVIOUS
    <2>3. /\ booking' = [booking EXCEPT ![b] = [booking[b] EXCEPT
                !.slot = s, !.moves = @ + 1, !.st = st, !.pay = pay]]
          /\ booking[b].st \in MOVABLE /\ ~Taken(s, b)
          /\ rows' = SetBlocking(b, FALSE) \cup {NewRow(b, s)}
          /\ request' = request
      BY <1>2, <2>1, <2>2 DEF Move, Relocate, Taken
    <2>4. /\ st \in MOVABLE /\ st \in Statuses /\ pay \in PaymentStatuses
      <3>1. CASE out = "acquires_deposit"
        BY <2>2, <3>1 DEF MOVABLE, Statuses, BLOCKING_STATES, PaymentStatuses
      <3>2. CASE out = "forfeit_and_requote"
        BY <1>0, <2>2, <2>3, <3>2 DEF BookingRows, PaymentStatuses
      <3>3. CASE out \notin {"acquires_deposit", "forfeit_and_requote"}
        BY <1>0, <2>2, <2>3, <3>3 DEF BookingRows
      <3>4. QED BY <3>1, <3>2, <3>3
    <2>5. PICK row :
            /\ row = [booking[b] EXCEPT !.slot = s, !.moves = @ + 1, !.st = st,
                                        !.pay = pay]
            /\ row = [booking[b] EXCEPT !.slot = s, !.moves = m, !.st = st,
                                        !.pay = pay]
      BY <1>b
    <2>6. row \in BookingRows /\ row.st = st /\ row.slot = s
      BY <1>0, <2>4, <2>5 DEF BookingRows
    <2>7. /\ booking' \in [Bookings -> BookingRows] /\ booking'[b] = row
          /\ \A c \in Bookings : c # b => booking'[c] = booking[c]
      BY <1>0, <2>3, <2>5, <2>6 DEF TypeOK
    <2>8. \/ ledger' = ledger
          \/ ledger' = [ledger EXCEPT ![b] = [ledger[b] EXCEPT
                            !.forfeited = @ + Balance(b), !.last = Balance(b)]]
      BY <1>2 DEF Move
    <2>9. PICK L :
            /\ L = [ledger[b] EXCEPT !.forfeited = @ + Balance(b), !.last = Balance(b)]
            /\ L = [ledger[b] EXCEPT !.forfeited = f, !.last = bal]
      BY <1>b
    <2>10. /\ L \in Ledgers /\ L.captured = ledger[b].captured
           /\ L.goodwill = ledger[b].goodwill
      BY <1>0, <2>9 DEF Ledgers
    <2>11. /\ ledger' \in [Bookings -> Ledgers]
           /\ ledger'[b].captured = ledger[b].captured
           /\ ledger'[b].goodwill = ledger[b].goodwill
           /\ \A c \in Bookings : c # b => ledger'[c] = ledger[c]
      <3>1. ledger' = ledger \/ ledger' = [ledger EXCEPT ![b] = L]
        BY <2>8, <2>9
      <3>2. ledger \in [Bookings -> Ledgers]
        BY <1>0 DEF TypeOK
      <3>3. QED BY <2>10, <3>1, <3>2
    <2>12. QED BY <2>3, <2>4, <2>6, <2>7, <2>11 DEF Elsewhere
  <1>3. QED
    <2>1. PICK s \in Slots : ShiftInPlace(b, s) \/ Move(b, s)
      BY DEF MoveStep
    <2>2. CASE ShiftInPlace(b, s)
      BY <1>0, <1>1, <2>2 DEF TypeOK
    <2>3. CASE Move(b, s)
      BY <1>2, <2>3
    <2>4. QED BY <2>1, <2>2, <2>3

-----------------------------------------------------------------------------
(* The types hold. *)

\* What a step may do to the three tables, whatever kind of step it is.
LEMMA TablesNext ==
    ASSUME DeskType, DeskStep
    PROVE  /\ booking' \in [Bookings -> BookingRows]
           /\ ledger' \in [Bookings -> Ledgers]
           /\ rows' \subseteq Reservations /\ IsFiniteSet(rows')
           /\ \A b \in Bookings : Used(b) => Used(b)'
           /\ \A b \in Bookings : IF Used(b)' THEN booking'[b].slot \in Slots
                                              ELSE booking'[b] = NoBooking
           /\ \A r \in rows' : booking'[r.owner].st # "unused"
  <1> DEFINE Goal ==
           /\ booking' \in [Bookings -> BookingRows]
           /\ ledger' \in [Bookings -> Ledgers]
           /\ rows' \subseteq Reservations /\ IsFiniteSet(rows')
           /\ \A b \in Bookings : Used(b) => Used(b)'
           /\ \A b \in Bookings : IF Used(b)' THEN booking'[b].slot \in Slots
                                              ELSE booking'[b] = NoBooking
           /\ \A r \in rows' : booking'[r.owner].st # "unused"
  <1>0. /\ TypeOK
        /\ \A c \in Bookings : IF Used(c) THEN booking[c].slot \in Slots
                                          ELSE booking[c] = NoBooking
        /\ \A r \in rows : r.owner \in Bookings /\ Used(r.owner)
    BY DEF DeskType, OnlyUsed, TypeOK, Reservations
  <1>1. ASSUME UNCHANGED <<booking, rows, ledger>> PROVE Goal
    BY <1>0, <1>1 DEF TypeOK, Used
  <1>2. ASSUME NEW b \in Bookings, booking' \in [Bookings -> BookingRows],
               ledger' \in [Bookings -> Ledgers], Elsewhere(b),
               booking'[b].st # "unused", booking'[b].slot \in Slots,
               rows' \subseteq Reservations, IsFiniteSet(rows'),
               \A r \in rows' : r.owner = b \/ \E q \in rows : q.owner = r.owner
        PROVE  Goal
    <2>1. \A c \in Bookings : Used(c) => Used(c)'
      BY <1>2 DEF Elsewhere, Used
    <2>2. \A c \in Bookings : IF Used(c)' THEN booking'[c].slot \in Slots
                                          ELSE booking'[c] = NoBooking
      BY <1>0, <1>2 DEF Elsewhere, Used
    <2>3. \A r \in rows' : booking'[r.owner].st # "unused"
      BY <1>0, <1>2, <2>1 DEF Used
    <2>4. QED BY <1>2, <2>1, <2>2, <2>3
  <1>3. /\ rows \subseteq Reservations /\ IsFiniteSet(rows)
    BY <1>0 DEF TypeOK
  <1>4. ASSUME NEW b \in Bookings, NEW flag \in BOOLEAN
        PROVE  /\ SetBlocking(b, flag) \subseteq Reservations
               /\ IsFiniteSet(SetBlocking(b, flag))
               /\ \A r \in SetBlocking(b, flag) : \E q \in rows : q.owner = r.owner
    <2>1. \A r \in SetBlocking(b, flag) : \E q \in rows : r.owner = q.owner
      BY <1>0, SetBlockingShape
    <2>2. QED BY <1>0, <2>1, SetBlockingShape
  <1>5. ASSUME NEW b \in Bookings, NEW s \in Slots, NEW d \in Nat,
               NEW k \in {"none", "paid", "link", "ask", "series"}, Book(b, s, k, d)
        PROVE  Goal
    <2>1. /\ booking' \in [Bookings -> BookingRows]
          /\ ledger' \in [Bookings -> Ledgers] /\ Elsewhere(b)
          /\ booking'[b].slot = s /\ booking'[b].st # "unused"
          /\ rows' = rows \cup {NewRow(b, s)}
      BY <1>0, <1>5, BookEffect
    <2>2. NewRow(b, s) \in Reservations /\ NewRow(b, s).owner = b
      BY <1>0, NewRowShape
    <2>3. rows' \subseteq Reservations /\ IsFiniteSet(rows')
      BY <1>3, <2>1, <2>2, FS_AddElement
    <2>4. QED BY <1>2, <2>1, <2>2, <2>3
  <1>6. ASSUME NEW b \in Bookings, NEW to, NEW out, NEW tender,
               Passes(b, to, out, tender)
        PROVE  Goal
    <2>1. /\ booking' \in [Bookings -> BookingRows]
          /\ ledger' \in [Bookings -> Ledgers] /\ Elsewhere(b)
          /\ booking[b].st \in BLOCKING_STATES
          /\ booking'[b].st # "unused" /\ booking'[b].slot = booking[b].slot
          /\ rows' = ReleaseCapacity(b, to)
      BY <1>0, <1>6, PassEffect
    <2>2. Used(b) BY <2>1 DEF Used, BLOCKING_STATES
    <2>3. rows' = rows \/ rows' = SetBlocking(b, FALSE)
      BY <2>1 DEF ReleaseCapacity
    <2>4. /\ rows' \subseteq Reservations /\ IsFiniteSet(rows')
          /\ \A r \in rows' : \E q \in rows : q.owner = r.owner
      BY <1>3, <1>4, <2>3
    <2>5. QED BY <1>0, <1>2, <2>1, <2>2, <2>4
  <1>7. ASSUME NEW b \in Bookings, MoneyStep(b) PROVE Goal
    <2>1. MoneyWrite(b) BY <1>7, MoneyEffect
    <2>2. booking'[b].st # "unused" /\ booking'[b].slot \in Slots
      BY <1>0, <2>1 DEF MoneyWrite, Used
    <2>3. QED BY <1>2, <1>3, <2>1, <2>2 DEF MoneyWrite
  <1>8. ASSUME NEW b \in Bookings, LateWrite(b),
               \/ rows' = rows
               \/ rows' = SetBlocking(b, TRUE)
        PROVE  Goal
    <2>1. booking'[b].st # "unused" /\ booking'[b].slot \in Slots
      BY <1>0, <1>8 DEF LateWrite
    <2>2. /\ rows' \subseteq Reservations /\ IsFiniteSet(rows')
          /\ \A r \in rows' : \E q \in rows : q.owner = r.owner
      BY <1>3, <1>4, <1>8
    <2>3. QED BY <1>2, <1>8, <2>1, <2>2 DEF LateWrite
  <1>9. ASSUME NEW b \in Bookings, UndoCheckIn(b) \/ ConfirmAskExpire(b) PROVE Goal
    BY <1>8, <1>9, StatusEffect
  <1>10. ASSUME NEW w \in Workers, LinkWrite(w) PROVE Goal
    <2>1. PICK b \in Bookings : b = work[w].b
      BY <1>0, <1>10 DEF LinkWrite, TypeOK, WellFormed
    <2>2. QED BY <1>8, <1>10, <2>1, StatusEffect
  <1>11. ASSUME NEW w \in Workers, NEW d \in Nat, WebhookApply(w, d) PROVE Goal
    BY <1>8, <1>11, WebhookEffect
  <1>12. ASSUME NEW b \in Bookings, MoveStep(b) PROVE Goal
    <2>1. PICK s \in Slots :
            /\ booking' \in [Bookings -> BookingRows]
            /\ ledger' \in [Bookings -> Ledgers] /\ Elsewhere(b)
            /\ booking'[b].st \in MOVABLE /\ booking'[b].slot = s
            /\ rows' = SetBlocking(b, FALSE) \cup {NewRow(b, s)}
      BY <1>12, MoveEffect
    <2>2. NewRow(b, s) \in Reservations /\ NewRow(b, s).owner = b
      BY <1>0, NewRowShape
    <2>3. rows' \subseteq Reservations /\ IsFiniteSet(rows')
      BY <1>4, <2>1, <2>2, FS_AddElement
    <2>4. booking'[b].st # "unused" BY <2>1 DEF MOVABLE
    <2>5. \A r \in rows' : r.owner = b \/ \E q \in rows : q.owner = r.owner
      BY <1>4, <2>1, <2>2
    <2>6. QED BY <1>2, <2>1, <2>3, <2>4, <2>5
  <1> HIDE DEF Goal
  <1>13. Goal
    BY <1>0, <1>1, <1>5, <1>6, <1>7, <1>9, <1>10, <1>11, <1>12, DeskSteps
    DEF DeskType
  <1>14. QED BY <1>13 DEF Goal

\* What a worker may take on, or go on with.
Errand(w, k) ==
    \/ k = Idle
    \/ /\ work[w].op \in {"no_show", "expire"}
       /\ \E S \in SUBSET Bookings : k = [work[w] EXCEPT !.todo = S]
    \/ \E b \in Bookings, to \in {"checked_in", "no_show", "settled"}, x \in Int :
         /\ to = "settled" \/ On("desk")
         /\ k = [Idle EXCEPT !.op = "desk", !.b = b, !.to = to, !.seen = x]
    \/ \E S \in SUBSET Bookings, op \in {"no_show", "expire"} :
         k = [Idle EXCEPT !.op = op, !.todo = S]
    \/ \E b \in Bookings, op \in {"chair", "gate"} :
         Used(b) /\ k = [Idle EXCEPT !.op = op, !.b = b]
    \/ /\ work[w].op \in Approving
       /\ \E op \in Approving : k = [work[w] EXCEPT !.op = op]
    \/ \E b \in Bookings, to \in {"closed", "expired"}, x \in Int :
         k = [Idle EXCEPT !.op = "lapse", !.b = b, !.to = to, !.seen = x]
    \/ /\ On("link")
       /\ \E b \in Bookings, x \in Int :
            Used(b) /\ k = [Idle EXCEPT !.op = "link", !.b = b, !.seen = x]
    \/ /\ On("webhook")
       /\ \E b \in Bookings, i \in Intents, to \in Decisions :
            /\ Used(b)
            /\ k = [Idle EXCEPT !.op = "webhook", !.b = b, !.intent = i, !.to = to]

\* A job that has marked one of its bookings goes on with the rest.
LEMMA RestIsAnErrand ==
    ASSUME TypeOK, NEW w \in Workers, NEW b, Rest(w, b),
           work[w].op \in {"no_show", "expire"}
    PROVE  \E k : Errand(w, k) /\ work' = [work EXCEPT ![w] = k]
  <1>1. CASE work[w].todo = {b}
    <2>1. work' = [work EXCEPT ![w] = Idle] BY <1>1 DEF Rest, Done
    <2>2. Errand(w, Idle) BY DEF Errand
    <2>3. QED BY <2>1, <2>2
  <1>2. CASE work[w].todo # {b}
    <2>1. PICK S \in SUBSET Bookings : S = work[w].todo \ {b}
      BY DEF TypeOK, Jobs
    <2>2. PICK k : k = [work[w] EXCEPT !.todo = S]
      OBVIOUS
    <2>3. work' = [work EXCEPT ![w] = k]
      BY <1>2, <2>1, <2>2 DEF Rest, Busy
    <2>4. Errand(w, k)
      BY <2>2 DEF Errand
    <2>5. QED BY <2>3, <2>4
  <1>3. QED BY <1>1, <1>2

\* Every step moves at most one worker, to an errand the code has.
LEMMA WorkSteps ==
    ASSUME DeskType, DeskStep
    PROVE  \/ work' = work
           \/ \E w \in Workers : \E k : Errand(w, k) /\ work' = [work EXCEPT ![w] = k]
  <1> DEFINE Goal == \/ work' = work
                     \/ \E w \in Workers : \E k :
                          Errand(w, k) /\ work' = [work EXCEPT ![w] = k]
  <1>0. TypeOK BY DEF DeskType
  <1>1. ASSUME \/ \E b \in Bookings : \E s, k, d : Book(b, s, k, d)
               \/ Tick
               \/ \E b \in Bookings : \E to, a, who : DeskCommand(b, to, a, who)
               \/ \E b \in Bookings : UndoCheckIn(b)
               \/ \E b \in Bookings : \E k : Raise(b, k)
               \/ \E b \in Bookings : Reject(b) \/ Withdraw(b)
               \/ \E b \in Bookings : \E key : Capture(b, key)
               \/ \E b \in Bookings : \E key, amt : Refund(b, key, amt)
               \/ \E b \in Bookings : \E key, amt : Goodwill(b, key, amt)
               \/ \E b \in Bookings : \E key : Revive(b, key)
               \/ \E b \in Bookings : \E pay, amt, ref : RecordPayment(b, pay, amt, ref)
               \/ \E b \in Bookings : ConfirmAskExpire(b)
               \/ \E b \in Bookings : \E s : ShiftInPlace(b, s)
               \/ \E b \in Bookings : \E s : Move(b, s)
        PROVE  work' = work
    BY <1>1
    DEF Book, Tick, DeskCommand, UndoCheckIn, Raise, Reject, Withdraw, Capture,
        Refund, Goodwill, Revive, Act, RecordPayment, ConfirmAskExpire,
        ShiftInPlace, Move
  <1>2. ASSUME NEW w \in Workers, Done(w) PROVE Goal
    <2>1. Errand(w, Idle) BY DEF Errand
    <2>2. QED BY <1>2, <2>1 DEF Done
  <1>3. ASSUME NEW w \in Workers, NEW k, Errand(w, k), Busy(w, k) PROVE Goal
    BY <1>3 DEF Busy
  <1>4. ASSUME NEW w \in Workers,
               \/ Crash(w) \/ DeskRefused(w) \/ ApproveMark(w) \/ LapseWrite(w)
               \/ LinkWrite(w) \/ WebhookRolledBack(w)
               \/ \E a, vip, bill, y : DeskTransition(w, a, vip, bill, y)
               \/ \E d : WebhookApply(w, d)
        PROVE  Goal
    <2>1. Done(w)
      BY <1>4 DEF Crash, DeskRefused, ApproveMark, LapseWrite, LinkWrite,
                  WebhookRolledBack, DeskTransition, WebhookApply
    <2>2. QED BY <1>2, <2>1
  <1>5. ASSUME NEW w \in Workers, NEW b \in Bookings, NEW g,
               NEW to \in {"checked_in", "no_show", "settled"},
               to = "settled" \/ On("desk"), DeskRead(w, b, to, g)
        PROVE  Goal
    <2>1. PICK x \in Int : x = IF to = "settled" THEN Balance(b) ELSE 0
      BY <1>0, BalanceIsInt
    <2>2. PICK k : k = [Idle EXCEPT !.op = "desk", !.b = b, !.to = to, !.seen = x]
      OBVIOUS
    <2>3. Busy(w, k) BY <1>5, <2>1, <2>2 DEF DeskRead, Busy
    <2>4. Errand(w, k) BY <1>5, <2>2 DEF Errand
    <2>5. QED BY <1>3, <2>3, <2>4
  <1>6. ASSUME NEW w \in Workers, NEW op \in {"no_show", "expire"},
               NEW S \in SUBSET Bookings, Busy(w, [Idle EXCEPT !.op = op, !.todo = S])
        PROVE  Goal
    <2>1. Errand(w, [Idle EXCEPT !.op = op, !.todo = S]) BY DEF Errand
    <2>2. QED BY <1>6, <2>1 DEF Busy
  <1>7. ASSUME NEW w \in Workers, NoShowSelect(w) PROVE Goal
    <2>1. PICK S \in FirstOf(NoShowCandidates,
                  [b \in NoShowCandidates |-> StartAt(b)], SweepLimit) :
            Busy(w, [Idle EXCEPT !.op = "no_show", !.todo = S])
      BY <1>7 DEF NoShowSelect
    <2>2. S \in SUBSET Bookings
      BY DEF FirstOf, NoShowCandidates
    <2>3. QED BY <1>6, <2>1, <2>2
  <1>8. ASSUME NEW w \in Workers, LinkSelect(w) PROVE Goal
    <2>1. PICK S \in FirstOf(LinksClosed, [b \in LinksClosed |-> booking[b].link],
                             SweepLimit) :
            Busy(w, [Idle EXCEPT !.op = "expire", !.todo = S])
      BY <1>8 DEF LinkSelect
    <2>2. S \in SUBSET Bookings
      BY DEF FirstOf, LinksClosed
    <2>3. QED BY <1>6, <2>1, <2>2
  <1>9. ASSUME NEW w \in Workers, NoShowMark(w) \/ LinkExpire(w) PROVE Goal
    <2>1. PICK b : Rest(w, b) /\ work[w].op \in {"no_show", "expire"}
      BY <1>9 DEF NoShowMark, LinkExpire
    <2>2. QED BY <1>0, <2>1, RestIsAnErrand
  <1>10. ASSUME NEW w \in Workers, NEW b \in Bookings, ApproveLock(w, b) PROVE Goal
    <2>1. PICK op \in {"chair", "gate"} :
            op = IF request[b].chair = None THEN "gate" ELSE "chair"
      OBVIOUS
    <2>2. PICK k : k = [Idle EXCEPT !.op = op, !.b = b]
      OBVIOUS
    <2>3. Busy(w, k)
      <3>1. Busy(w, [Idle EXCEPT !.b = b,
                   !.op = IF request[b].chair = None THEN "gate" ELSE "chair"])
        BY <1>10 DEF ApproveLock
      <3>2. k = [Idle EXCEPT !.b = b,
                   !.op = IF request[b].chair = None THEN "gate" ELSE "chair"]
        BY <2>1, <2>2 DEF Idle
      <3>3. QED BY <3>1, <3>2 DEF Busy
    <2>4. Used(b) BY <1>10 DEF ApproveLock, DeskType, OnlyUsed
    <2>5. Errand(w, k) BY <2>2, <2>4 DEF Errand
    <2>6. QED BY <1>3, <2>3, <2>5
  <1>11. ASSUME NEW w \in Workers, ApproveChair(w) \/ ApproveGate(w) \/ ApproveSeat(w)
         PROVE  Goal
    <2>1. \/ Done(w)
          \/ \E op \in Approving : Busy(w, [work[w] EXCEPT !.op = op])
      BY <1>11 DEF ApproveChair, ApproveGate, ApproveSeat, Approving
    <2>2. work[w].op \in Approving
      BY <1>11 DEF ApproveChair, ApproveGate, ApproveSeat, Approving
    <2>3. ASSUME NEW op \in Approving, Busy(w, [work[w] EXCEPT !.op = op]) PROVE Goal
      <3>1. PICK k : k = [work[w] EXCEPT !.op = op] OBVIOUS
      <3>2. Errand(w, k) BY <2>2, <3>1 DEF Errand
      <3>3. QED BY <1>3, <2>3, <3>1, <3>2 DEF Busy
    <2>4. QED BY <1>2, <2>1, <2>3
  <1>12. ASSUME NEW w \in Workers, LapseRead(w) PROVE Goal
    <2>1. PICK b \in Bookings :
            /\ Lapsed(booking[b].st, EndAt(b)) # "waiting"
            /\ Busy(w, [Idle EXCEPT !.op = "lapse", !.b = b, !.seen = request[b].nth,
                                    !.to = Lapsed(booking[b].st, EndAt(b))])
      BY <1>12 DEF LapseRead
    <2>2. PICK to \in {"closed", "expired"}, x \in Int :
            to = Lapsed(booking[b].st, EndAt(b)) /\ x = request[b].nth
      BY <1>0, <2>1 DEF Lapsed, TypeOK, RequestRows
    <2>3. PICK k : k = [Idle EXCEPT !.op = "lapse", !.b = b, !.to = to, !.seen = x]
      OBVIOUS
    <2>4. k = [Idle EXCEPT !.op = "lapse", !.b = b, !.seen = request[b].nth,
                           !.to = Lapsed(booking[b].st, EndAt(b))]
      BY <2>2, <2>3 DEF Idle
    <2>5. Errand(w, k) BY <2>3 DEF Errand
    <2>6. QED BY <1>3, <2>1, <2>4, <2>5 DEF Busy
  <1>13. ASSUME NEW w \in Workers, NEW b \in Bookings, LinkRead(w, b), On("link")
         PROVE  Goal
    <2>1. Used(b) /\ booking[b].slot \in Slots
      BY <1>13 DEF LinkRead, Used, DeskType, OnlyUsed
    <2>2. PICK x \in Int : x = LinkExpiry(StartAt(b))
      BY <1>0, <2>1, VisitsAssumption
      DEF VisitsAssumption, LinkExpiry, StartAt, TypeOK
    <2>3. PICK k : k = [Idle EXCEPT !.op = "link", !.b = b, !.seen = x]
      OBVIOUS
    <2>4. Busy(w, k) BY <1>13, <2>2, <2>3 DEF LinkRead, Busy
    <2>5. Errand(w, k) BY <1>13, <2>1, <2>3 DEF Errand
    <2>6. QED BY <1>3, <2>4, <2>5
  <1>14. ASSUME NEW w \in Workers, NEW b \in Bookings, NEW i \in Intents,
                NEW kind \in Events, WebhookRead(w, b, i, kind), On("webhook")
         PROVE  Goal
    <2>1. PICK to \in Decisions : to = Decision(b, kind)
      BY DEF Decision, Decisions
    <2>2. PICK k : k = [Idle EXCEPT !.op = "webhook", !.b = b, !.intent = i, !.to = to]
      OBVIOUS
    <2>3. Busy(w, k) /\ Used(b)
      BY <1>14, <2>1, <2>2 DEF WebhookRead, Busy, Used
    <2>4. Errand(w, k) BY <1>14, <2>2, <2>3 DEF Errand
    <2>5. QED BY <1>3, <2>3, <2>4
  <1> HIDE DEF Goal
  <1>15. ASSUME work' = work PROVE Goal BY <1>15 DEF Goal
  <1>16. Goal
    BY <1>1, <1>4, <1>5, <1>7, <1>8, <1>9, <1>10, <1>11, <1>12, <1>13, <1>14, <1>15
    DEF DeskStep
  <1>17. QED BY <1>16 DEF Goal

\* Whatever a worker carries has the shape of a job, and is the errand of a part
\* that is active.
LEMMA ErrandIsAJob ==
    ASSUME DeskType, NEW w \in Workers, NEW k, Errand(w, k)
    PROVE  /\ k \in Jobs /\ WellFormed(k)
           /\ k.op \in {"link", "webhook"} \cup Approving => Used(k.b)
           /\ k.op = "link" => On("link")
           /\ k.op = "webhook" => On("webhook")
           /\ k.op = "desk" => k.to = "settled" \/ On("desk")
  <1> DEFINE Goal == /\ k \in Jobs /\ WellFormed(k)
                     /\ k.op \in {"link", "webhook"} \cup Approving => Used(k.b)
                     /\ k.op = "link" => On("link")
                     /\ k.op = "webhook" => On("webhook")
                     /\ k.op = "desk" => k.to = "settled" \/ On("desk")
  <1>0. /\ work[w] \in Jobs /\ WellFormed(work[w]) /\ Idle \in Jobs
        /\ work[w].op \in Approving => Used(work[w].b)
    BY DEF DeskType, TypeOK, OnlyUsed, Jobs, Idle
  <1>1. ASSUME k = Idle PROVE Goal
    BY <1>0, <1>1 DEF Idle, WellFormed, Approving
  <1>2. ASSUME work[w].op \in {"no_show", "expire"}, NEW S \in SUBSET Bookings,
               k = [work[w] EXCEPT !.todo = S]
        PROVE  Goal
    <2>1. k \in Jobs BY <1>0, <1>2 DEF Jobs
    <2>2. k.op = work[w].op BY <1>0, <1>2 DEF Jobs
    <2>3. QED BY <1>2, <2>1, <2>2 DEF WellFormed, Approving
  <1>3. ASSUME NEW b \in Bookings, NEW to \in {"checked_in", "no_show", "settled"},
               NEW x \in Int, to = "settled" \/ On("desk"),
               k = [Idle EXCEPT !.op = "desk", !.b = b, !.to = to, !.seen = x]
        PROVE  Goal
    <2>1. k \in Jobs BY <1>0, <1>3 DEF Jobs, Approving
    <2>2. k.op = "desk" /\ k.b = b /\ k.to = to BY <1>3 DEF Idle
    <2>3. QED BY <1>3, <2>1, <2>2 DEF WellFormed, Approving
  <1>4. ASSUME NEW S \in SUBSET Bookings, NEW op \in {"no_show", "expire"},
               k = [Idle EXCEPT !.op = op, !.todo = S]
        PROVE  Goal
    <2>1. k \in Jobs BY <1>0, <1>4 DEF Jobs, Approving
    <2>2. k.op = op BY <1>4 DEF Idle
    <2>3. QED BY <1>4, <2>1, <2>2 DEF WellFormed, Approving
  <1>5. ASSUME NEW b \in Bookings, NEW op \in {"chair", "gate"}, Used(b),
               k = [Idle EXCEPT !.op = op, !.b = b]
        PROVE  Goal
    <2>1. k \in Jobs BY <1>0, <1>5 DEF Jobs, Approving
    <2>2. k.op = op /\ k.b = b BY <1>5 DEF Idle
    <2>3. QED BY <1>5, <2>1, <2>2 DEF WellFormed, Approving
  <1>6. ASSUME work[w].op \in Approving, NEW op \in Approving,
               k = [work[w] EXCEPT !.op = op]
        PROVE  Goal
    <2>1. k \in Jobs BY <1>0, <1>6 DEF Jobs
    <2>2. k.op = op /\ k.b = work[w].b BY <1>0, <1>6 DEF Jobs
    <2>3. work[w].b \in Bookings BY <1>0, <1>6 DEF WellFormed
    <2>4. QED BY <1>0, <1>6, <2>1, <2>2, <2>3 DEF WellFormed, Approving
  <1>7. ASSUME NEW b \in Bookings, NEW to \in {"closed", "expired"}, NEW x \in Int,
               k = [Idle EXCEPT !.op = "lapse", !.b = b, !.to = to, !.seen = x]
        PROVE  Goal
    <2>1. k \in Jobs BY <1>0, <1>7 DEF Jobs, Approving
    <2>2. k.op = "lapse" /\ k.b = b /\ k.to = to BY <1>7 DEF Idle
    <2>3. QED BY <1>7, <2>1, <2>2 DEF WellFormed, Approving
  <1>8. ASSUME NEW b \in Bookings, NEW x \in Int, Used(b), On("link"),
               k = [Idle EXCEPT !.op = "link", !.b = b, !.seen = x]
        PROVE  Goal
    <2>1. k \in Jobs BY <1>0, <1>8 DEF Jobs, Approving
    <2>2. k.op = "link" /\ k.b = b BY <1>8 DEF Idle
    <2>3. QED BY <1>8, <2>1, <2>2 DEF WellFormed, Approving
  <1>9. ASSUME NEW b \in Bookings, NEW i \in Intents, NEW to \in Decisions, Used(b),
               On("webhook"),
               k = [Idle EXCEPT !.op = "webhook", !.b = b, !.intent = i, !.to = to]
        PROVE  Goal
    <2>1. k \in Jobs BY <1>0, <1>9 DEF Jobs, Approving
    <2>2. k.op = "webhook" /\ k.b = b /\ k.to = to /\ k.intent = i BY <1>9 DEF Idle
    <2>3. QED BY <1>9, <2>1, <2>2 DEF WellFormed, Approving
  <1> HIDE DEF Goal
  <1>10. Goal
    BY <1>1, <1>2, <1>3, <1>4, <1>5, <1>6, <1>7, <1>8, <1>9 DEF Errand
  <1>11. QED BY <1>10 DEF Goal

\* The check-in requests are written by the customer, the approval and the job.
LEMMA RequestSteps ==
    ASSUME DeskStep
    PROVE  \/ request' = request
           \/ \E b \in Bookings, k \in Chairs \cup {None} : Raise(b, k)
           \/ \E w \in Workers : ApproveMark(w) \/ LapseWrite(w)
           \/ \E b \in Bookings : Reject(b) \/ Withdraw(b)
  <1>1. ASSUME \/ \E b \in Bookings : \E s, k, d : Book(b, s, k, d)
               \/ Tick
        PROVE  request' = request
    BY <1>1 DEF Book, Tick
  <1>2. ASSUME \/ \E w \in Workers : Crash(w) \/ DeskRefused(w) \/ NoShowSelect(w)
               \/ \E b \in Bookings : UndoCheckIn(b) \/ ConfirmAskExpire(b)
        PROVE  request' = request
    BY <1>2 DEF Crash, DeskRefused, NoShowSelect, UndoCheckIn, ConfirmAskExpire
  <1>3. ASSUME NEW w \in Workers, NEW b \in Bookings, NEW to, NEW g,
               DeskRead(w, b, to, g)
        PROVE  request' = request
    BY <1>3 DEF DeskRead
  <1>4. ASSUME NEW b \in Bookings, NEW to, NEW a, NEW who, DeskCommand(b, to, a, who)
        PROVE  request' = request
    BY <1>4 DEF DeskCommand, Transition
  <1>6. ASSUME NEW w \in Workers, NoShowMark(w)
        PROVE  request' = request
    BY <1>6 DEF NoShowMark, Transition
  <1>7. ASSUME NEW w \in Workers, NEW a, NEW vip, NEW bill, NEW y,
               DeskTransition(w, a, vip, bill, y)
        PROVE  request' = request
    BY <1>7 DEF DeskTransition, Transition
  <1>8. ASSUME \/ \E w \in Workers, b \in Bookings : ApproveLock(w, b)
               \/ \E w \in Workers : \/ ApproveChair(w) \/ ApproveGate(w)
                                     \/ ApproveSeat(w) \/ LapseRead(w)
               \/ \E b \in Bookings : \E key : Capture(b, key)
               \/ \E b \in Bookings : \E key, amt : Refund(b, key, amt)
               \/ \E b \in Bookings : \E key, amt : Goodwill(b, key, amt)
               \/ \E b \in Bookings : \E key : Revive(b, key)
               \/ \E b \in Bookings : \E pay, amt, ref : RecordPayment(b, pay, amt, ref)
        PROVE  request' = request
    BY <1>8
    DEF ApproveLock, ApproveChair, ApproveGate, ApproveSeat, LapseRead, Capture,
        Refund, Goodwill, Revive, Act, RecordPayment, Transition
  <1>9. ASSUME \/ \E w \in Workers, b \in Bookings : LinkRead(w, b)
               \/ \E w \in Workers : \/ LinkWrite(w) \/ LinkSelect(w) \/ LinkExpire(w)
                                     \/ WebhookRolledBack(w)
               \/ \E w \in Workers, b \in Bookings : \E i, kind : WebhookRead(w, b, i, kind)
               \/ \E w \in Workers : \E d : WebhookApply(w, d)
               \/ \E b \in Bookings : \E s : ShiftInPlace(b, s) \/ Move(b, s)
        PROVE  request' = request
    BY <1>9
    DEF LinkRead, LinkWrite, LinkSelect, LinkExpire, WebhookRolledBack, WebhookRead,
        WebhookApply, ShiftInPlace, Move, Transition
  <1>10. QED BY <1>1, <1>2, <1>3, <1>4, <1>6, <1>7, <1>8, <1>9 DEF DeskStep

\* A request keeps its shape, and belongs to a booking that exists.
LEMMA RequestNext ==
    ASSUME DeskType, DeskStep
    PROVE  /\ request' \in [Bookings -> RequestRows]
           /\ \A b \in Bookings : request'[b].st # "none" => Used(b)
  <1> DEFINE Goal == /\ request' \in [Bookings -> RequestRows]
                     /\ \A b \in Bookings : request'[b].st # "none" => Used(b)
  <1>0. /\ TypeOK /\ request \in [Bookings -> RequestRows]
        /\ \A b \in Bookings : request[b].st # "none" => Used(b)
    BY DEF DeskType, TypeOK, OnlyUsed
  <1>1. ASSUME request' = request PROVE Goal
    BY <1>0, <1>1
  <1>2. ASSUME NEW b \in Bookings, NEW row \in RequestRows, Used(b),
               request' = [request EXCEPT ![b] = row]
        PROVE  Goal
    BY <1>0, <1>2
  <1>3. ASSUME NEW b \in Bookings, Used(b),
               NEW st \in {"approved", "rejected", "withdrawn", "closed", "expired"},
               request' = [request EXCEPT ![b].st = st]
        PROVE  Goal
    <2>1. [request[b] EXCEPT !.st = st] \in RequestRows
      BY <1>0 DEF RequestRows
    <2>2. QED BY <1>2, <1>3, <2>1
  <1>4. ASSUME NEW b \in Bookings, NEW k \in Chairs \cup {None}, Raise(b, k)
        PROVE  Goal
    <2>1. PICK n \in Nat : n = request[b].nth + 1
      BY <1>0 DEF RequestRows
    <2>2. [st |-> "waiting", chair |-> k, nth |-> n] \in RequestRows
      BY DEF RequestRows
    <2>3. /\ request' = [request EXCEPT ![b] = [st |-> "waiting", chair |-> k, nth |-> n]]
          /\ Used(b)
      BY <1>4, <2>1 DEF Raise, RaiseVerdict, Used
    <2>4. QED BY <1>2, <2>2, <2>3
  <1>5. ASSUME NEW b \in Bookings, Reject(b) \/ Withdraw(b) PROVE Goal
    <2>1. Used(b) BY <1>0, <1>5 DEF Reject, Withdraw
    <2>2. PICK st \in {"approved", "rejected", "withdrawn", "closed", "expired"} :
            request' = [request EXCEPT ![b].st = st]
      BY <1>5 DEF Reject, Withdraw, WithdrawVerdict, Lapsed
    <2>3. QED BY <1>3, <2>1, <2>2
  <1>6. ASSUME NEW w \in Workers, LapseWrite(w) PROVE Goal
    <2>1. PICK b \in Bookings, to \in {"closed", "expired"} :
            b = work[w].b /\ to = work[w].to
      BY <1>0, <1>6 DEF LapseWrite, TypeOK, WellFormed
    <2>2. CASE request' = request
      BY <1>1, <2>2
    <2>3. CASE request[b].st = "waiting" /\ request' = [request EXCEPT ![b].st = to]
      BY <1>0, <1>3, <2>3
    <2>4. QED BY <1>6, <2>1, <2>2, <2>3 DEF LapseWrite
  <1>7. ASSUME NEW w \in Workers, ApproveMark(w) PROVE Goal
    <2>1. PICK b \in Bookings : b = work[w].b
      BY <1>0, <1>7 DEF ApproveMark, TypeOK, WellFormed, Approving
    <2>2. request' = [request EXCEPT ![b].st = "approved"]
      BY <1>7, <2>1 DEF ApproveMark
    <2>3. Used(b)
      BY <1>7, <2>1 DEF ApproveMark, DeskType, OnlyUsed, Approving
    <2>4. QED BY <1>3, <2>2, <2>3
  <1> HIDE DEF Goal
  <1>8. Goal
    BY <1>1, <1>4, <1>5, <1>6, <1>7, RequestSteps
  <1>9. QED BY <1>8 DEF Goal

\* A worker keeps the shape of a job, and its booking goes on existing.
LEMMA WorkNext ==
    ASSUME DeskType, DeskStep
    PROVE  /\ work' \in [Workers -> Jobs]
           /\ \A w \in Workers : WellFormed(work'[w])
           /\ \A w \in Workers :
                work'[w].op \in {"link", "webhook"} \cup Approving => Used(work'[w].b)
  <1> DEFINE Goal ==
           /\ work' \in [Workers -> Jobs]
           /\ \A w \in Workers : WellFormed(work'[w])
           /\ \A w \in Workers :
                work'[w].op \in {"link", "webhook"} \cup Approving => Used(work'[w].b)
  <1>0. /\ work \in [Workers -> Jobs] /\ \A w \in Workers : WellFormed(work[w])
        /\ \A w \in Workers :
             work[w].op \in {"link", "webhook"} \cup Approving => Used(work[w].b)
    BY DEF DeskType, TypeOK, OnlyUsed
  <1>1. ASSUME work' = work PROVE Goal
    BY <1>0, <1>1
  <1>2. ASSUME NEW w \in Workers, NEW k, Errand(w, k), work' = [work EXCEPT ![w] = k]
        PROVE  Goal
    <2>1. /\ k \in Jobs /\ WellFormed(k)
          /\ k.op \in {"link", "webhook"} \cup Approving => Used(k.b)
      BY <1>2, ErrandIsAJob
    <2>2. \A v \in Workers : work'[v] = IF v = w THEN k ELSE work[v]
      BY <1>0, <1>2
    <2>3. QED BY <1>0, <1>2, <2>1, <2>2
  <1> HIDE DEF Goal
  <1>3. Goal BY <1>1, <1>2, WorkSteps
  <1>4. QED BY <1>3 DEF Goal

\* The clock is a number.
LEMMA ClockNext ==
    ASSUME TypeOK, DeskStep
    PROVE  now' \in Nat
  <1>0. now \in Nat BY DEF TypeOK
  <1>1. ASSUME \/ \E b \in Bookings : \E s, k, d : Book(b, s, k, d)
               \/ \E w \in Workers : Crash(w)
        PROVE  now' \in Nat
    BY <1>0, <1>1 DEF Book, Crash
  <1>8. ASSUME Tick PROVE now' \in Nat
    BY <1>0, <1>8 DEF Tick
  <1>2. ASSUME \/ \E w \in Workers, b \in Bookings : \E to, g : DeskRead(w, b, to, g)
               \/ \E w \in Workers : DeskRefused(w) \/ NoShowSelect(w)
               \/ \E b \in Bookings : UndoCheckIn(b) \/ ConfirmAskExpire(b)
               \/ \E b \in Bookings : \E k : Raise(b, k)
               \/ \E b \in Bookings : Reject(b) \/ Withdraw(b)
        PROVE  now' \in Nat
    BY <1>0, <1>2
    DEF DeskRead, DeskRefused, NoShowSelect, UndoCheckIn, ConfirmAskExpire, Raise,
        Reject, Withdraw
  <1>3. ASSUME NEW b \in Bookings, NEW to, NEW a, NEW who, DeskCommand(b, to, a, who)
        PROVE  now' \in Nat
    BY <1>0, <1>3 DEF DeskCommand, Transition
  <1>4. ASSUME NEW w \in Workers, NoShowMark(w) \/ LinkExpire(w) \/ ApproveSeat(w)
        PROVE  now' \in Nat
    BY <1>0, <1>4 DEF NoShowMark, LinkExpire, ApproveSeat, Transition
  <1>5. ASSUME NEW w \in Workers, NEW a, NEW vip, NEW bill, NEW y,
               DeskTransition(w, a, vip, bill, y)
        PROVE  now' \in Nat
    BY <1>0, <1>5 DEF DeskTransition, Transition
  <1>6. ASSUME \/ \E w \in Workers, b \in Bookings : ApproveLock(w, b)
               \/ \E w \in Workers : \/ ApproveChair(w) \/ ApproveGate(w)
                                     \/ ApproveMark(w) \/ LapseRead(w) \/ LapseWrite(w)
               \/ \E b \in Bookings : \E key : Capture(b, key)
               \/ \E b \in Bookings : \E key, amt : Refund(b, key, amt)
               \/ \E b \in Bookings : \E key, amt : Goodwill(b, key, amt)
               \/ \E b \in Bookings : \E key : Revive(b, key)
               \/ \E b \in Bookings : \E pay, amt, ref : RecordPayment(b, pay, amt, ref)
        PROVE  now' \in Nat
    BY <1>0, <1>6
    DEF ApproveLock, ApproveChair, ApproveGate, ApproveMark, LapseRead, LapseWrite,
        Capture, Refund, Goodwill, Revive, Act, RecordPayment
  <1>7. ASSUME \/ \E w \in Workers, b \in Bookings : LinkRead(w, b)
               \/ \E w \in Workers : \/ LinkWrite(w) \/ LinkSelect(w)
                                     \/ WebhookRolledBack(w)
               \/ \E w \in Workers, b \in Bookings : \E i, kind : WebhookRead(w, b, i, kind)
               \/ \E w \in Workers : \E d : WebhookApply(w, d)
               \/ \E b \in Bookings : \E s : ShiftInPlace(b, s) \/ Move(b, s)
        PROVE  now' \in Nat
    BY <1>0, <1>7
    DEF LinkRead, LinkWrite, LinkSelect, WebhookRolledBack, WebhookRead,
        WebhookApply, ShiftInPlace, Move
  <1>9. QED BY <1>1, <1>2, <1>3, <1>4, <1>5, <1>6, <1>7, <1>8 DEF DeskStep

\* The tables start in their types.
LEMMA TypeInit == Init => DeskType
  <1> SUFFICES ASSUME Init PROVE DeskType
    OBVIOUS
  <1>1. NoBooking \in BookingRows /\ NoRequest \in RequestRows /\ Idle \in Jobs
    BY DEF NoBooking, BookingRows, Statuses, PaymentStatuses, NoRequest, RequestRows,
           Idle, Jobs
  <1>2. EmptyLedger \in Ledgers
    BY DEF EmptyLedger, Ledgers
  <1>3. WellFormed(Idle) /\ Idle.op \notin {"link", "webhook"} \cup Approving
    BY DEF WellFormed, Idle, Approving
  <1>4. NoBooking.st = "unused" /\ NoRequest.st = "none"
    BY DEF NoBooking, NoRequest
  <1>5. IsFiniteSet({})
    BY FS_EmptySet
  <1>6. TypeOK
    BY <1>1, <1>2, <1>3, <1>5 DEF Init, TypeOK
  <1>7. OnlyUsed
    BY <1>3, <1>4 DEF Init, OnlyUsed, Used
  <1>8. QED BY <1>6, <1>7 DEF DeskType

\* ... and every step keeps them there.
LEMMA TypeNext == DeskType /\ [Next]_vars => DeskType'
  <1> SUFFICES ASSUME DeskType, [Next]_vars PROVE DeskType'
    OBVIOUS
  <1>1. CASE UNCHANGED vars
    BY <1>1
    DEF vars, tables, DeskType, TypeOK, OnlyUsed, Used
  <1>2. CASE Next
    <2>1. DeskStep /\ scenario' = scenario /\ TypeOK
      BY <1>2 DEF Next, DeskType
    <2>2. TypeOK'
      BY <2>1, TablesNext, RequestNext, WorkNext, ClockNext DEF TypeOK
    <2>3. \A b \in Bookings : Used(b) => Used(b)'
      BY <2>1, TablesNext
    <2>4. \A w \in Workers :
            work'[w].op \in {"link", "webhook"} \cup Approving => work'[w].b \in Bookings
      BY <2>2 DEF TypeOK, WellFormed
    <2>5. \A b \in Bookings : Used(b)' <=> booking'[b].st # "unused"
      BY DEF Used
    <2>6. /\ \A r \in rows' : r.owner \in Bookings /\ booking'[r.owner].st # "unused"
      BY <2>1, TablesNext DEF Reservations
    <2>7. \A w \in Workers :
            work'[w].op \in {"link", "webhook"} \cup Approving
              => booking'[work'[w].b].st # "unused"
      BY <2>1, <2>3, <2>4, <2>5, WorkNext
    <2>8. \A b \in Bookings : request'[b].st # "none" => booking'[b].st # "unused"
      BY <2>1, <2>3, <2>5, RequestNext
    <2>9. \A b \in Bookings : IF booking'[b].st # "unused"
                              THEN booking'[b].slot \in Slots
                              ELSE booking'[b] = NoBooking
      BY <2>1, <2>5, TablesNext
    <2>10. OnlyUsed'
      BY <2>6, <2>7, <2>8, <2>9 DEF OnlyUsed, Used
    <2>11. QED BY <2>2, <2>10 DEF DeskType
  <1>3. QED BY <1>1, <1>2

\* Every table of the desk keeps its shape whatever runs: a booking that exists
\* has a slot, only such a booking owns reservations, and what a worker writes
\* after an unlocked read, it writes to a booking that exists.
THEOREM DeskTypeCorrect == Spec => []DeskType
  <1>1. QED BY TypeInit, TypeNext, PTL DEF Spec

=============================================================================
