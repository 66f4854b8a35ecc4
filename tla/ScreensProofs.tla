--------------------------- MODULE ScreensProofs ---------------------------
(***************************************************************************)
(* What the screens say, proved for any bookings, slots, windows and       *)
(* amounts.  First the cancellation feed: it is computed when it is read,  *)
(* from a history row and the booking as it is by then, though the refund  *)
(* was decided when the row was written.  Then the app's shelves, whose    *)
(* order and page come from SQL and whose name comes from a rule; the      *)
(* feed's totals, which several queries count; and the diary's screens,    *)
(* which count the same bookings by the day, by the status and by the row. *)
(***************************************************************************)
EXTENDS Screens, SumLemmas

-----------------------------------------------------------------------------
(* The inductive invariant *)

\* The columns the feed and the money read.
RowShape(r) ==
    /\ {"st", "pay", "slot", "deposit", "moves", "link", "arrived"} \subseteq DOMAIN r
    /\ r.moves \in Nat /\ r.deposit \in 0 .. Price
    /\ r.st # "unused" => r.slot \in Slots

Undecided == {"pending_payment", "pending_confirmation", "confirmed", "checked_in"}

\* Before the visit is called off its payment status says neither refunded
\* nor, unless a late move kept the deposit, forfeited.
Unsettled(r) ==
    r.st \in Undecided => r.pay # "refunded" /\ (r.pay = "forfeited" => r.moves > 0)

HistoryRows == [b : Bookings, to : {"cancelled", "no_show"}, at : Nat,
                by : {"customer", "staff", "system"}, who : {"customer", "salon"},
                reason : {"customer", "salon", "released", None}]

\* A cancellation stays one, and its payment status stays what the policy made
\* of it at the time it was made.
Honoured(h) ==
    h.to = "cancelled" =>
      LET ahead == StartAt(h.b) - h.at IN
      /\ booking[h.b].st = "cancelled"
      /\ booking[h.b].pay = "refunded" => h.who = "salon" \/ ahead > FreeCancel
      /\ booking[h.b].pay = "forfeited" /\ booking[h.b].moves = 0 =>
           h.who = "customer" /\ ahead <= FreeCancel

FeedInv ==
    /\ now \in Nat /\ scenario \in Scenarios /\ DOMAIN booking = Bookings
    /\ \A b \in Bookings : RowShape(booking[b]) /\ Unsettled(booking[b])
    /\ history \in Seq(HistoryRows)
    /\ \A i \in 1 .. Len(history) : Honoured(history[i])

-----------------------------------------------------------------------------
(* What a step may do to a booking *)

\* At most the row of b is written, and a cancelled one keeps all the feed
\* reads of it: a late report of a payment makes it neither refunded nor kept.
Touches(b) ==
    /\ now' \in Nat /\ scenario' = scenario /\ DOMAIN booking' = Bookings
    /\ \A c \in Bookings \ {b} : booking'[c] = booking[c]
    /\ RowShape(booking'[b]) /\ Unsettled(booking'[b])
    /\ booking[b].st = "cancelled" =>
         /\ booking'[b].st = "cancelled" /\ booking'[b].slot = booking[b].slot
         /\ booking'[b].moves = booking[b].moves
         /\ booking'[b].pay \in {"refunded", "forfeited"} => booking'[b].pay = booking[b].pay

\* So the history rows written before it stay true after it.
LEMMA StaysHonoured ==
    ASSUME FeedInv, NEW b \in Bookings, Touches(b)
    PROVE  /\ now' \in Nat /\ scenario' \in Scenarios /\ DOMAIN booking' = Bookings
           /\ \A c \in Bookings : RowShape(booking'[c]) /\ Unsettled(booking'[c])
           /\ \A h \in HistoryRows : Honoured(h) => Honoured(h)'
<1>1. \A c \in Bookings : RowShape(booking'[c]) /\ Unsettled(booking'[c])
  BY DEF Touches, FeedInv
<1>2. ASSUME NEW h \in HistoryRows, Honoured(h), h.to = "cancelled"
      PROVE  Honoured(h)'
  <2>1. h.b \in Bookings
    BY DEF HistoryRows
  <2>2. /\ booking'[h.b].st = "cancelled" /\ booking'[h.b].slot = booking[h.b].slot
        /\ booking'[h.b].moves = booking[h.b].moves
        /\ booking'[h.b].pay \in {"refunded", "forfeited"} =>
             booking'[h.b].pay = booking[h.b].pay
    BY <1>2, <2>1 DEF Touches, Honoured
  <2>3. StartAt(h.b)' = StartAt(h.b)
    BY <2>2 DEF StartAt
  <2> QED BY <1>2, <2>2, <2>3 DEF Honoured
<1>3. \A h \in HistoryRows : Honoured(h) => Honoured(h)'
  BY <1>2 DEF Honoured
<1> QED BY <1>1, <1>3 DEF Touches, FeedInv

\* A step that writes no history, or the row of an absence.
LEMMA QuietKeeps ==
    ASSUME FeedInv, NEW b \in Bookings, Touches(b),
           \/ history' = history
           \/ \E h \in HistoryRows : h.to = "no_show" /\ history' = Append(history, h)
    PROVE  FeedInv'
<1>1. CASE history' = history
  BY <1>1, StaysHonoured DEF FeedInv
<1>2. CASE \E h \in HistoryRows : h.to = "no_show" /\ history' = Append(history, h)
  <2>1. PICK h \in HistoryRows : h.to = "no_show" /\ history' = Append(history, h)
    BY <1>2
  <2>2. history' \in Seq(HistoryRows)
    BY <2>1 DEF FeedInv
  <2>3. ASSUME NEW i \in 1 .. Len(history')
        PROVE  Honoured(history[i])'
    <3>1. CASE i = Len(history) + 1
      <4>1. history'[i] = h
        BY <2>1, <3>1 DEF FeedInv
      <4> QED BY <2>1, <4>1 DEF Honoured
    <3>2. CASE i # Len(history) + 1
      <4>1. PICK g \in HistoryRows : g = history[i] /\ Honoured(g) /\ history'[i] = g
        BY <2>1, <3>2 DEF FeedInv
      <4>2. Honoured(g)'
        BY <4>1, StaysHonoured
      <4> QED BY <4>1, <4>2 DEF Honoured, StartAt
    <3> QED BY <3>1, <3>2
  <2> QED BY <2>2, <2>3, StaysHonoured DEF FeedInv
<1> QED BY <1>1, <1>2
-----------------------------------------------------------------------------
(* The actions *)

\* Nothing leads out of a cancellation, and a cancellation is of a visit whose
\* money is undecided.
LEMMA MovesFrom ==
    ASSUME NEW from, NEW to, NEW actor, NEW reason, CheckTransition(from, to, actor, reason)
    PROVE  /\ from \notin {"cancelled", "unused"}
           /\ to = "checked_in" => from = "confirmed"
           /\ to = "cancelled" => from \in Undecided
<1>1. PICK t \in TRANSITIONS : t.from = from /\ t.to = to
  BY DEF CheckTransition
<1>2. \A u \in TRANSITIONS : /\ u.from \notin {"cancelled", "unused"}
                             /\ u.to = "checked_in" => u.from = "confirmed"
                             /\ u.to = "cancelled" => u.from \in Undecided
  BY DEF TRANSITIONS, May, Undecided
<1> QED BY <1>1, <1>2

\* The transaction's row: status and payment status, and the arrival.
LEMMA TransitionRow ==
    ASSUME FeedInv, NEW b \in Bookings, NEW to, NEW actor, NEW out, NEW tender,
           Transition(b, to, actor, TRUE, out, tender)
    PROVE  /\ now' = now /\ DOMAIN booking' = Bookings
           /\ \A c \in Bookings \ {b} : booking'[c] = booking[c]
           /\ RowShape(booking'[b])
           /\ booking'[b].st = to /\ booking'[b].slot = booking[b].slot
           /\ booking'[b].moves = booking[b].moves
           /\ booking'[b].pay = NextPaymentStatus(booking[b].pay, out)
           /\ booking[b].st \notin {"cancelled", "unused"}
<1>1. booking[b].st \notin {"cancelled", "unused"}
  BY MovesFrom DEF Transition
<1>2. PICK pay, arrived : /\ pay = NextPaymentStatus(booking[b].pay, out)
                          /\ booking' = [booking EXCEPT ![b].st = to, ![b].pay = pay,
                                                        ![b].arrived = arrived]
  BY DEF Transition
<1>3. RowShape(booking[b])
  BY DEF FeedInv
<1>4. /\ booking'[b].st = to /\ booking'[b].slot = booking[b].slot
      /\ booking'[b].moves = booking[b].moves /\ booking'[b].pay = pay
      /\ DOMAIN booking'[b] = DOMAIN booking[b] /\ booking'[b].deposit = booking[b].deposit
  BY <1>2, <1>3 DEF FeedInv, RowShape
<1>5. RowShape(booking'[b])
  BY <1>1, <1>3, <1>4 DEF RowShape
<1> QED BY <1>1, <1>2, <1>4, <1>5 DEF Transition, FeedInv

LEMMA PassingTouches ==
    ASSUME FeedInv, NEW b \in Bookings, NEW actor, NEW out, NEW tender,
           NEW to \in {"checked_in", "in_service", "completed", "settled", "no_show",
                       "expired"},
           Transition(b, to, actor, TRUE, out, tender), scenario' = scenario,
           to = "checked_in" => out = Nothing
    PROVE  Touches(b)
<1>1. Unsettled(booking'[b])
  <2>1. CASE to = "checked_in"
    <3>1. booking[b].st \in Undecided
      BY <2>1, MovesFrom DEF Transition, Undecided
    <3>2. booking'[b].pay = booking[b].pay /\ booking'[b].moves = booking[b].moves
      <4>1. out = Nothing
        BY <2>1
      <4>2. NextPaymentStatus(booking[b].pay, Nothing) = booking[b].pay
        BY DEF NextPaymentStatus, Nothing
      <4> QED BY <4>1, <4>2, TransitionRow
    <3> QED BY <3>1, <3>2 DEF Unsettled, FeedInv
  <2>2. CASE to # "checked_in"
    BY <2>2, TransitionRow DEF Unsettled, Undecided
  <2> QED BY <2>1, <2>2
<1> QED BY <1>1, TransitionRow DEF Touches, FeedInv

\* start, complete, check-in, settle, no-show, the jobs.
LEMMA VisitsGoOn ==
    ASSUME FeedInv, NEW b \in Bookings,
           \/ \E to \in {"in_service", "completed"} :
                DeskCommand(b, to, "staff", "customer") /\ Quiet
           \/ \E to \in {"checked_in", "no_show", "settled"} :
                \E g \in Graces, bill \in Bills, y \in Loyalty : Attend(b, to, g, bill, y)
           \/ Absent(b) \/ LinkLapses(b)
    PROVE  FeedInv'
<1>0. \A by \in {"staff", "system"} :
        [b |-> b, to |-> "no_show", at |-> now, by |-> by, who |-> "customer",
         reason |-> None] \in HistoryRows
  BY DEF HistoryRows, FeedInv
<1>1. CASE \E to \in {"in_service", "completed"} :
             DeskCommand(b, to, "staff", "customer") /\ Quiet
  <2>1. PICK to \in {"in_service", "completed"} :
             DeskCommand(b, to, "staff", "customer") /\ Quiet
    BY <1>1
  <2>2. Transition(b, to, "staff", TRUE, SettleMoney(b, to, "customer", FALSE), NoTender)
    BY <2>1 DEF DeskCommand
  <2>3. Touches(b)
    BY <2>1, <2>2, PassingTouches DEF Quiet
  <2> QED BY <2>1, <2>3, QuietKeeps DEF Quiet
<1>2. CASE \E to \in {"checked_in", "no_show", "settled"} :
             \E g \in Graces, bill \in Bills, y \in Loyalty : Attend(b, to, g, bill, y)
  <2>1. PICK to \in {"checked_in", "no_show", "settled"}, g \in Graces, bill \in Bills,
             y \in Loyalty : Attend(b, to, g, bill, y)
    BY <1>2
  <2>2. PICK tender : Transition(b, to, "staff", TRUE,
                                 SettleMoney(b, to, "customer", FALSE), tender)
    BY <2>1 DEF Attend
  <2>3. to = "checked_in" => SettleMoney(b, to, "customer", FALSE) = Nothing
    BY DEF SettleMoney
  <2>4. scenario' = scenario
    BY <2>1 DEF Attend
  <2>5. Touches(b)
    BY <2>2, <2>3, <2>4, PassingTouches
  <2>6. CASE to = "no_show"
    BY <1>0, <2>1, <2>5, <2>6, QuietKeeps DEF Attend, Log
  <2>7. CASE to # "no_show"
    BY <2>1, <2>5, <2>7, QuietKeeps DEF Attend
  <2> QED BY <2>6, <2>7
<1>3. CASE Absent(b)
  <2>1. Transition(b, "no_show", "system", TRUE,
                   SettleMoney(b, "no_show", "customer", FALSE), NoTender)
        /\ scenario' = scenario
    BY <1>3 DEF Absent
  <2>2. Touches(b)
    BY <2>1, PassingTouches
  <2> QED BY <1>0, <1>3, <2>2, QuietKeeps DEF Absent, Log
<1>4. CASE LinkLapses(b)
  <2>1. Transition(b, "expired", "system", TRUE, Nothing, NoTender) /\ scenario' = scenario
        /\ history' = history
    BY <1>4 DEF LinkLapses, Quiet
  <2>2. Touches(b)
    BY <2>1, PassingTouches
  <2> QED BY <2>1, <2>2, QuietKeeps
<1> QED BY <1>1, <1>2, <1>3, <1>4

\* The exit the feed draws: the refund is decided from the same two moments.
LEMMA CancelKeeps ==
    ASSUME FeedInv, NEW b \in Bookings, NEW a \in {"customer", "staff"},
           NEW who \in {"customer", "salon"},
           NEW reason \in {"customer", "salon", "released"},
           CallOff(b, a, who, reason)
    PROVE  FeedInv'
<1>1. PICK out, ahead, to, tender :
         /\ Transition(b, to, a, TRUE, out, tender) /\ to = "cancelled"
         /\ ahead = StartAt(b) - now
         /\ out = CancellationOutcome(Balance(b), ahead, who, FALSE)
  BY DEF CallOff, DeskCommand, SettleMoney
<1>2. booking[b].st \in Undecided
  BY <1>1, MovesFrom DEF Transition
<1>3. /\ booking[b].pay # "refunded"
      /\ booking[b].pay = "forfeited" => booking[b].moves > 0
      /\ booking[b].slot \in Slots /\ booking[b].moves \in Nat
  BY <1>2 DEF FeedInv, Unsettled, RowShape, Undecided
<1>4. ahead \in Int
  BY <1>1, <1>3, VisitsAssumption DEF StartAt, FeedInv
<1>5. /\ booking'[b].moves = booking[b].moves /\ booking'[b].slot = booking[b].slot
      /\ booking'[b].st = to
  BY <1>1, TransitionRow
<1>6. \/ booking'[b].pay = booking[b].pay
      \/ booking'[b].pay = "refunded" /\ (who = "salon" \/ ahead > FreeCancel)
      \/ booking'[b].pay = "forfeited" /\ who = "customer" /\ ahead <= FreeCancel
  <2>1. PICK bal, pay, next :
           /\ bal = Balance(b) /\ pay = booking[b].pay /\ next = booking'[b].pay
    OBVIOUS
  <2>2. next = NextPaymentStatus(pay, out)
    <3>1. PICK arrived :
             booking' = [booking EXCEPT ![b].st = to,
                                        ![b].pay = NextPaymentStatus(booking[b].pay, out),
                                        ![b].arrived = arrived]
      BY <1>1 DEF Transition
    <3>2. RowShape(booking[b]) /\ DOMAIN booking = Bookings
      BY DEF FeedInv
    <3> QED BY <2>1, <3>1, <3>2 DEF RowShape
  <2>3. CASE who = "salon" \/ ahead > FreeCancel
    <3>1. out = [refund |-> bal, kept |-> 0]
      BY <1>1, <1>4, <2>1, <2>3, LifecycleAssumption DEF CancellationOutcome
    <3>2. NextPaymentStatus(pay, [refund |-> bal, kept |-> 0]) \in {"refunded", pay}
      BY DEF NextPaymentStatus
    <3> QED BY <2>1, <2>2, <2>3, <3>1, <3>2
  <2>4. CASE who = "customer" /\ ahead <= FreeCancel
    <3>1. out = [refund |-> 0, kept |-> bal]
      BY <1>1, <1>4, <2>1, <2>4, LifecycleAssumption DEF CancellationOutcome
    <3>2. NextPaymentStatus(pay, [refund |-> 0, kept |-> bal]) \in {"forfeited", pay}
      BY DEF NextPaymentStatus
    <3> QED BY <2>1, <2>2, <2>4, <3>1, <3>2
  <2>5. \/ who = "salon" \/ ahead > FreeCancel
        \/ who = "customer" /\ ahead <= FreeCancel
    BY <1>4, LifecycleAssumption
  <2> QED BY <2>3, <2>4, <2>5
<1>7. /\ booking'[b].pay = "refunded" => who = "salon" \/ ahead > FreeCancel
      /\ booking'[b].pay = "forfeited" =>
           booking'[b].moves > 0 \/ (who = "customer" /\ ahead <= FreeCancel)
  BY <1>3, <1>5, <1>6
<1>8. Touches(b)
  <2>1. /\ now' = now /\ DOMAIN booking' = Bookings
        /\ \A c \in Bookings \ {b} : booking'[c] = booking[c]
        /\ RowShape(booking'[b])
        /\ booking[b].st # "cancelled" /\ booking'[b].st = "cancelled"
    BY <1>1, TransitionRow
  <2>2. now \in Nat
    BY DEF FeedInv
  <2>3. scenario' = scenario
    BY DEF CallOff
  <2>4. Unsettled(booking'[b])
    BY ONLY <2>1 DEF Unsettled, Undecided
  <2> QED BY ONLY <2>1, <2>2, <2>3, <2>4 DEF Touches
<1>9. PICK h : h = [b |-> b, to |-> "cancelled", at |-> now, by |-> a, who |-> who,
                    reason |-> reason]
  OBVIOUS
<1>10. h \in HistoryRows /\ history' = Append(history, h)
  BY <1>9 DEF HistoryRows, FeedInv, CallOff, Log
<1>11. Honoured(h)'
  <2>1. /\ booking'[b].st = "cancelled" /\ StartAt(b)' = StartAt(b)
        /\ booking'[b].moves \in Nat /\ booking'[b].moves = booking[b].moves
    BY <1>1, <1>3, <1>5 DEF StartAt
  <2>2. h.b = b /\ h.at = now /\ h.who = who
    BY <1>9
  <2> QED BY <1>1, <1>7, <2>1, <2>2 DEF Honoured
<1>12. history' \in Seq(HistoryRows)
  BY <1>10 DEF FeedInv
<1>13. ASSUME NEW i \in 1 .. Len(history')
       PROVE  Honoured(history[i])'
  <2>1. CASE i = Len(history) + 1
    <3>1. history'[i] = h
      BY <1>10, <2>1 DEF FeedInv
    <3> QED BY <1>11, <3>1 DEF Honoured, StartAt
  <2>2. CASE i # Len(history) + 1
    <3>1. PICK g \in HistoryRows : g = history[i] /\ Honoured(g) /\ history'[i] = g
      BY <1>10, <2>2 DEF FeedInv
    <3>2. Honoured(g)'
      BY <1>8, <3>1, StaysHonoured
    <3> QED BY <3>1, <3>2 DEF Honoured, StartAt
  <2> QED BY <2>1, <2>2
<1> QED BY <1>8, <1>12, <1>13, StaysHonoured DEF FeedInv

\* A birth is undecided, on a slot.
LEMMA BirthKeeps ==
    ASSUME FeedInv, NEW b \in Bookings, NEW s \in scenario.slots,
           NEW kind \in scenario.kinds, NEW dep \in Deposits,
           Book(b, s, kind, dep), Quiet
    PROVE  FeedInv'
<1>1. s \in Slots /\ kind \in {"none", "paid", "link", "ask", "series"}
  BY VisitsAssumption DEF FeedInv
<1>2. PICK r : r = Born(s, kind, dep)
  OBVIOUS
<1>3. /\ {"st", "pay", "slot", "deposit", "moves", "link", "arrived"} \subseteq DOMAIN r
      /\ r.moves = 0 /\ r.slot = s /\ r.deposit \in {0, dep}
      /\ r.pay \in {"none_required", "unpaid", "deposit_paid", "fully_paid"}
  <2>1. CASE kind = "none"
    BY <1>2, <2>1 DEF Born, NoBooking
  <2>2. CASE kind = "paid"
    BY <1>2, <2>2 DEF Born, NoBooking
  <2>3. CASE kind = "link"
    BY <1>2, <2>3 DEF Born, NoBooking
  <2>4. CASE kind = "ask"
    BY <1>2, <2>4 DEF Born, NoBooking
  <2>5. CASE kind = "series"
    BY <1>2, <2>5 DEF Born, NoBooking
  <2> QED BY <1>1, <2>1, <2>2, <2>3, <2>4, <2>5
<1>3a. r.deposit \in 0 .. Price
  BY <1>3, ScreensAssumption, VisitsAssumption
<1>4. RowShape(r) /\ Unsettled(r)
  BY <1>1, <1>3, <1>3a DEF RowShape, Unsettled
<1>5. booking' = [booking EXCEPT ![b] = r] /\ now' = now /\ booking[b].st = "unused"
  BY <1>2 DEF Book
<1>6. Touches(b)
  BY <1>4, <1>5 DEF Touches, FeedInv, Quiet
<1> QED BY <1>6, QuietKeeps DEF Quiet

\* The payment the app reports, late or not.
LEMMA PaymentKeeps ==
    ASSUME FeedInv, NEW b \in Bookings, NEW pay \in {"deposit_paid", "fully_paid"},
           NEW amt, RecordPayment(b, pay, amt, None), Quiet
    PROVE  FeedInv'
<1>1. PICK st : /\ st = IF booking[b].st = "pending_payment" THEN "confirmed"
                        ELSE booking[b].st
                /\ booking' = [booking EXCEPT ![b].pay = pay, ![b].link = None, ![b].st = st]
                /\ now' = now /\ booking[b].st # "unused"
  BY DEF RecordPayment
<1>2. RowShape(booking[b])
  BY DEF FeedInv
<1>3. /\ booking'[b].st = st /\ booking'[b].pay = pay
      /\ booking'[b].slot = booking[b].slot /\ booking'[b].moves = booking[b].moves
      /\ DOMAIN booking'[b] = DOMAIN booking[b] /\ booking'[b].deposit = booking[b].deposit
  BY <1>1, <1>2 DEF FeedInv, RowShape
<1>4. RowShape(booking'[b]) /\ Unsettled(booking'[b])
  BY <1>1, <1>2, <1>3 DEF RowShape, Unsettled
<1>5. Touches(b)
  BY <1>1, <1>3, <1>4 DEF Touches, FeedInv, Quiet
<1> QED BY <1>5, QuietKeeps DEF Quiet

\* A no-show that is going to happen after all: the forfeit is reversed.
LEMMA ReviveKeeps ==
    ASSUME FeedInv, NEW b \in Bookings, NEW key \in Keys, Revive(b, key), Quiet
    PROVE  FeedInv'
<1>1. PICK pay :
         /\ pay \in {"deposit_paid", "none_required"}
         /\ booking' = [booking EXCEPT ![b].st = "confirmed", ![b].pay = pay,
                                       ![b].link = booking[b].link]
         /\ now' = now /\ booking[b].st = "no_show"
  <2>1. PICK pay : /\ pay = IF ForfeitedOf(b).fils > 0 THEN "deposit_paid" ELSE "none_required"
                   /\ Act(b, key, "reversed", ForfeitedOf(b).fils, "confirmed", pay, FALSE)
    BY DEF Revive
  <2>2. pay \in {"deposit_paid", "none_required"}
    BY <2>1
  <2>3. booking' = [booking EXCEPT ![b].st = "confirmed", ![b].pay = pay,
                                   ![b].link = booking[b].link]
    BY <2>1 DEF Act
  <2>4. now' = now /\ booking[b].st = "no_show"
    BY <2>1 DEF Act, Revive
  <2> QED BY <2>2, <2>3, <2>4
<1>2. RowShape(booking[b])
  BY DEF FeedInv
<1>3. /\ booking'[b].st = "confirmed" /\ booking'[b].pay = pay
      /\ booking'[b].slot = booking[b].slot /\ booking'[b].moves = booking[b].moves
      /\ DOMAIN booking'[b] = DOMAIN booking[b] /\ booking'[b].deposit = booking[b].deposit
  BY <1>1, <1>2 DEF FeedInv, RowShape
<1>4. RowShape(booking'[b]) /\ Unsettled(booking'[b])
  BY <1>1, <1>2, <1>3 DEF RowShape, Unsettled
<1>5. Touches(b)
  BY <1>1, <1>3, <1>4 DEF Touches, FeedInv, Quiet
<1> QED BY <1>5, QuietKeeps DEF Quiet

\* A move, which may keep the deposit and counts itself.
LEMMA MoveKeeps ==
    ASSUME FeedInv, NEW b \in Bookings, NEW s \in Slots, Moved(b, s)
    PROVE  FeedInv'
<1>1. PICK st, pay :
         /\ booking' = [booking EXCEPT ![b].slot = s, ![b].moves = booking[b].moves + 1,
                                       ![b].st = st, ![b].pay = pay]
         /\ st \in {"pending_payment", booking[b].st}
         /\ pay \in {"unpaid", "forfeited", booking[b].pay}
         /\ now' = now /\ booking[b].st \in MOVABLE
  BY DEF Moved, Move
<1>2. RowShape(booking[b]) /\ Unsettled(booking[b])
  BY DEF FeedInv
<1>3. /\ booking'[b].st = st /\ booking'[b].pay = pay
      /\ booking'[b].slot = s /\ booking'[b].moves = booking[b].moves + 1
      /\ DOMAIN booking'[b] = DOMAIN booking[b] /\ booking'[b].deposit = booking[b].deposit
  BY <1>1, <1>2 DEF FeedInv, RowShape
<1>4. RowShape(booking'[b]) /\ Unsettled(booking'[b])
  BY <1>1, <1>2, <1>3 DEF RowShape, Unsettled, MOVABLE, Undecided
<1>5. Touches(b)
  BY <1>1, <1>3, <1>4 DEF Touches, FeedInv, Moved, MOVABLE
<1> QED BY <1>5, QuietKeeps DEF Moved

\* The clock and the marks write no booking and no history.
LEMMA RestKeeps ==
    ASSUME FeedInv,
           \/ Tick /\ Quiet
           \/ \E b \in Bookings, what \in {"reminded", "conflict", "refilled"} : Mark(what, b)
           \/ \E m \in marks : SettleItem(m)
           \/ UNCHANGED screenVars
    PROVE  FeedInv'
<1>1. /\ now' \in Nat /\ scenario' = scenario /\ booking' = booking /\ history' = history
  BY DEF FeedInv, Tick, Quiet, Mark, SettleItem, screenVars, vars, tables
<1>2. \A i \in 1 .. Len(history) : Honoured(history[i])'
  BY <1>1 DEF FeedInv, Honoured, StartAt
<1> QED BY <1>1, <1>2 DEF FeedInv

-----------------------------------------------------------------------------
(* The theorem *)

LEMMA FeedInductive == FeedInv /\ [ScreenNext]_screenVars => FeedInv'
<1> SUFFICES ASSUME FeedInv, [ScreenNext]_screenVars
             PROVE  FeedInv'
  OBVIOUS
<1>1. CASE UNCHANGED screenVars
  BY <1>1, RestKeeps
<1>2. CASE \E b \in Bookings, s \in scenario.slots, k \in scenario.kinds, d \in Deposits :
             Book(b, s, k, d) /\ Quiet
  BY <1>2, BirthKeeps
<1>3. CASE \/ Tick /\ Quiet
           \/ \E b \in Bookings, what \in {"reminded", "conflict", "refilled"} : Mark(what, b)
           \/ \E m \in marks : SettleItem(m)
  BY <1>3, RestKeeps
<1>4. CASE \E b \in Bookings : \/ CallOff(b, "customer", "customer", "customer")
                               \/ CallOff(b, "staff", "salon", "salon")
                               \/ CallOff(b, "customer", "customer", "released")
  BY <1>4, CancelKeeps
<1>5. CASE \E b \in Bookings :
             \/ \E to \in {"in_service", "completed"} :
                  DeskCommand(b, to, "staff", "customer") /\ Quiet
             \/ \E to \in {"checked_in", "no_show", "settled"} :
                  \E g \in Graces, bill \in Bills, y \in Loyalty : Attend(b, to, g, bill, y)
             \/ Absent(b) \/ LinkLapses(b)
  BY <1>5, VisitsGoOn
<1>6. CASE \E b \in Bookings, amt \in 0 .. Price :
             \E pay \in {"deposit_paid", "fully_paid"} :
               RecordPayment(b, pay, amt, None) /\ Quiet
  BY <1>6, PaymentKeeps
<1>7. CASE \E b \in Bookings, key \in Keys : Revive(b, key) /\ Quiet
  BY <1>7, ReviveKeeps
<1>8. CASE \E b \in Bookings, s \in Slots : Moved(b, s)
  BY <1>8, MoveKeeps
<1> QED
  BY <1>1, <1>2, <1>3, <1>4, <1>5, <1>6, <1>7, <1>8 DEF ScreenNext

LEMMA FeedInitially == ScreenInit => FeedInv
<1> SUFFICES ASSUME ScreenInit PROVE FeedInv
  OBVIOUS
<1>1. \A b \in Bookings : RowShape(booking[b]) /\ Unsettled(booking[b])
  BY VisitsAssumption DEF ScreenInit, Init, NoBooking, RowShape, Unsettled, Undecided
<1>2. history = <<>> /\ history \in Seq(HistoryRows) /\ Len(history) = 0
  BY DEF ScreenInit
<1> QED BY <1>1, <1>2 DEF ScreenInit, Init, FeedInv

\* The band toEventView() draws from the two moments is the band the policy
\* used, and the words of the drawer say "late" exactly when the tag does.
LEMMA BandIsThePolicys == FeedInv => BandMatchesRefund
<1> SUFFICES ASSUME FeedInv, NEW i \in 1 .. Len(history), history[i].to = "cancelled"
             PROVE  LET h == history[i]
                        v == ToEventView(i)
                    IN  /\ v.outcome = "REFUNDED" => h.who = "salon" \/ v.band = "more_than_24h"
                        /\ v.outcome = "DEPOSIT_KEPT" /\ booking[h.b].moves = 0 =>
                             h.who = "customer" /\ v.band # "more_than_24h"
                        /\ v.lateCancel <=> PolicyWindow(v) = "under_2h"
  BY DEF BandMatchesRefund, FeedInv
<1>1. PICK h \in HistoryRows : h = history[i] /\ Honoured(h) /\ h.to = "cancelled"
  BY DEF FeedInv
<1>2. PICK v, ahead : v = ToEventView(i) /\ ahead = StartAt(h.b) - h.at
  OBVIOUS
<1>3. ahead \in Int /\ booking[h.b].st = "cancelled"
  BY <1>1, <1>2, VisitsAssumption DEF FeedInv, Honoured, HistoryRows, RowShape, StartAt
<1>4. PICK band : band = CancelTiming(h.at, StartAt(h.b))
  OBVIOUS
<1>5. /\ ahead > FreeCancel => band = "more_than_24h"
      /\ ahead <= FreeCancel => band # "more_than_24h"
  BY <1>2, <1>3, <1>4, LifecycleAssumption DEF CancelTiming
<1>6. /\ v.band = band /\ v.kind = "CANCELLED"
      /\ v.lateCancel = (band = "under_2h")
      /\ v.outcome = EventOutcome(booking[h.b].pay)
  BY <1>1, <1>2, <1>4 DEF ToEventView
<1>7. /\ v.outcome = "REFUNDED" => booking[h.b].pay = "refunded"
      /\ v.outcome = "DEPOSIT_KEPT" => booking[h.b].pay = "forfeited"
  BY <1>6 DEF EventOutcome
<1>8. PolicyWindow(v) = band
  BY <1>6 DEF PolicyWindow
<1> QED BY <1>1, <1>2, <1>5, <1>6, <1>7, <1>8 DEF Honoured

\* The band a cancellation is drawn with is the band its refund was decided in
\* (toEventView() against settleMoney()), whatever happens to the booking
\* between the cancellation and the reading of the feed.
THEOREM FeedTellsTheRefund == ScreenSpec => []BandMatchesRefund
  BY FeedInitially, FeedInductive, BandIsThePolicys, PTL DEF ScreenSpec

-----------------------------------------------------------------------------
(* The reservations behind the shelves *)

\* The columns of a reservation row that are read here.
Reserves(r) == {"owner", "slot", "blocking"} \subseteq DOMAIN r

Keeps(b)     == \E r \in RowsOf(b) : r.blocking
KeepsOwn(b)  == \E r \in RowsOf(b) : r.blocking /\ r.slot = booking[b].slot
WasAbsent(b) == \E i \in DOMAIN history : history[i].b = b /\ history[i].to = "no_show"

\* A booking that keeps a slot is one the engine counts as occupying time, and
\* one that is keeps its own, unless it was marked absent and revived.
Placed(b) ==
    /\ booking[b].st \in BLOCKING_STATES \cup RELEASING_STATES \cup {"unused"}
    /\ Keeps(b) => booking[b].st \in BLOCKING_STATES
    /\ booking[b].st \in BLOCKING_STATES => KeepsOwn(b) \/ WasAbsent(b)
    /\ booking[b].st = "no_show" => WasAbsent(b)

ShelfInv ==
    /\ FeedInv
    /\ \A r \in rows : Reserves(r)
    /\ \A b \in Bookings : Placed(b)

\* A step writes the rows of at most one booking, and the history only grows.
Rewrites(b) ==
    /\ \A r \in rows' : Reserves(r)
    /\ \A c \in Bookings \ {b} :
         booking'[c] = booking[c] /\ {r \in rows' : r.owner = c} = {r \in rows : r.owner = c}
    /\ \/ history' = history
       \/ \E h \in HistoryRows : history' = Append(history, h)
    /\ Placed(b)'

\* The history is only appended to: an absence once recorded stays so.
LEMMA HistoryGrows ==
    ASSUME FeedInv, history' = history \/ \E h \in HistoryRows : history' = Append(history, h)
    PROVE  \A b \in Bookings : WasAbsent(b) => WasAbsent(b)'
<1> SUFFICES ASSUME NEW b \in Bookings, WasAbsent(b) PROVE WasAbsent(b)'
  OBVIOUS
<1>1. PICK i \in DOMAIN history : history[i].b = b /\ history[i].to = "no_show"
  BY DEF WasAbsent
<1>2. i \in DOMAIN history' /\ history'[i] = history[i]
  BY DEF FeedInv
<1> QED BY <1>1, <1>2 DEF WasAbsent

\* A step that rewrites one booking and its rows leaves the others placed.
LEMMA OthersStay ==
    ASSUME ShelfInv, FeedInv', NEW b \in Bookings, Rewrites(b)
    PROVE  ShelfInv'
<1>1. ASSUME NEW c \in Bookings \ {b} PROVE Placed(c)'
  <2>1. RowsOf(c)' = RowsOf(c) /\ booking'[c] = booking[c]
    BY DEF Rewrites, RowsOf
  <2>2. (KeepsOwn(c) <=> KeepsOwn(c)') /\ (Keeps(c) <=> Keeps(c)')
    BY <2>1 DEF Keeps, KeepsOwn
  <2>3. WasAbsent(c) => WasAbsent(c)'
    BY HistoryGrows DEF Rewrites, ShelfInv
  <2>4. Placed(c)
    BY DEF ShelfInv
  <2> QED BY <2>1, <2>2, <2>3, <2>4 DEF Placed
<1> QED BY <1>1 DEF ShelfInv, Rewrites

\* updateMany({ blocking: false }) over one booking's rows.
LEMMA Unblocked ==
    ASSUME NEW b \in Bookings, \A r \in rows : Reserves(r)
    PROVE  /\ \A r \in SetBlocking(b, FALSE) : Reserves(r) /\ (r.owner = b => ~r.blocking)
           /\ \A c \in Bookings \ {b} : {r \in SetBlocking(b, FALSE) : r.owner = c}
                                          = {r \in rows : r.owner = c}
<1>1. ASSUME NEW r \in rows
      PROVE  /\ Reserves([r EXCEPT !.blocking = FALSE])
             /\ [r EXCEPT !.blocking = FALSE].owner = r.owner
             /\ [r EXCEPT !.blocking = FALSE].blocking = FALSE
  BY DEF Reserves
<1>2. \A r \in SetBlocking(b, FALSE) : Reserves(r) /\ (r.owner = b => ~r.blocking)
  BY <1>1 DEF SetBlocking
<1>3. ASSUME NEW c \in Bookings \ {b}
      PROVE  {r \in SetBlocking(b, FALSE) : r.owner = c} = {r \in rows : r.owner = c}
  BY <1>1 DEF SetBlocking
<1> QED BY <1>2, <1>3

\* The state machine's moves: out of the diary, or on inside it.
LEMMA TransitionRewrites ==
    ASSUME ShelfInv, NEW b \in Bookings, NEW to, NEW actor, NEW out, NEW tender,
           Transition(b, to, actor, TRUE, out, tender),
           history' = history \/ \E h \in HistoryRows : history' = Append(history, h),
           to = "no_show" => WasAbsent(b)',
           to \in BLOCKING_STATES \cup RELEASING_STATES
    PROVE  Rewrites(b)
<1>0. FeedInv /\ (\A r \in rows : Reserves(r)) /\ Placed(b)
  BY DEF ShelfInv
<1>1. /\ booking'[b].st = to /\ booking'[b].slot = booking[b].slot
      /\ \A c \in Bookings \ {b} : booking'[c] = booking[c]
  BY <1>0, TransitionRow
<1>2. rows' = ReleaseCapacity(b, to) /\ booking[b].st \in BLOCKING_STATES
  <2>1. \E t \in TRANSITIONS : t.from = booking[b].st
    BY DEF Transition, CheckTransition
  <2>2. \A t \in TRANSITIONS : t.from \in BLOCKING_STATES \cup {"draft", "held"}
    BY DEF TRANSITIONS, May, BLOCKING_STATES
  <2>3. {"draft", "held"} \cap (BLOCKING_STATES \cup RELEASING_STATES \cup {"unused"}) = {}
    BY DEF BLOCKING_STATES, RELEASING_STATES
  <2>4. rows' = ReleaseCapacity(b, to)
    BY DEF Transition
  <2> QED BY <1>0, <2>1, <2>2, <2>3, <2>4 DEF Placed
<1>3. BLOCKING_STATES \cap RELEASING_STATES = {} /\ "no_show" \in RELEASING_STATES
  BY DEF BLOCKING_STATES, RELEASING_STATES
<1>4. CASE to \in RELEASING_STATES
  <2>1. rows' = SetBlocking(b, FALSE)
    BY <1>2, <1>4 DEF ReleaseCapacity
  <2>2. /\ \A r \in rows' : Reserves(r) /\ (r.owner = b => ~r.blocking)
        /\ \A c \in Bookings \ {b} : {r \in rows' : r.owner = c} = {r \in rows : r.owner = c}
    BY <1>0, <2>1, Unblocked
  <2>3. ~Keeps(b)'
    BY <2>2 DEF Keeps, RowsOf
  <2>4. Placed(b)'
    BY <1>1, <1>3, <1>4, <2>3 DEF Placed
  <2> QED BY <1>1, <2>2, <2>4 DEF Rewrites
<1>5. CASE to \in BLOCKING_STATES
  <2>1. rows' = rows
    BY <1>2, <1>3, <1>5 DEF ReleaseCapacity
  <2>2. (KeepsOwn(b) <=> KeepsOwn(b)') /\ (Keeps(b) <=> Keeps(b)')
    BY <1>1, <2>1 DEF Keeps, KeepsOwn, RowsOf
  <2>3. WasAbsent(b) => WasAbsent(b)'
    BY <1>0, HistoryGrows
  <2>4. Placed(b)'
    BY <1>0, <1>1, <1>2, <1>3, <1>5, <2>2, <2>3 DEF Placed
  <2> QED BY <1>0, <1>1, <2>1, <2>4 DEF Rewrites
<1> QED BY <1>4, <1>5

\* The row an absence leaves.
LEMMA AbsenceIsLogged ==
    ASSUME FeedInv, NEW b \in Bookings, NEW by, Log(b, "no_show", by, "customer", None)
    PROVE  WasAbsent(b)'
<1>1. PICK h : /\ h = [b |-> b, to |-> "no_show", at |-> now, by |-> by, who |-> "customer",
                       reason |-> None]
               /\ history' = Append(history, h)
  BY DEF Log
<1>2. h.b = b /\ h.to = "no_show"
  BY <1>1
<1>3. Len(history) + 1 \in DOMAIN history' /\ history'[Len(history) + 1] = h
  BY <1>1 DEF FeedInv
<1> QED BY <1>2, <1>3 DEF WasAbsent

\* Each command on a visit rewrites its own booking and its own rows.
LEMMA VisitsRewrite ==
    ASSUME ShelfInv, NEW b \in Bookings,
           \/ \E to \in {"in_service", "completed"} :
                DeskCommand(b, to, "staff", "customer") /\ Quiet
           \/ \E to \in {"checked_in", "no_show", "settled"} :
                \E g \in Graces, bill \in Bills, y \in Loyalty : Attend(b, to, g, bill, y)
           \/ Absent(b) \/ LinkLapses(b)
    PROVE  Rewrites(b)
<1>0. \A by \in {"staff", "system"} :
        [b |-> b, to |-> "no_show", at |-> now, by |-> by, who |-> "customer",
         reason |-> None] \in HistoryRows
  BY DEF HistoryRows, FeedInv, ShelfInv
<1>0a. FeedInv
  BY DEF ShelfInv
<1>0b. {"in_service", "completed", "checked_in", "settled", "no_show", "expired"}
         \subseteq BLOCKING_STATES \cup RELEASING_STATES
  BY DEF BLOCKING_STATES, RELEASING_STATES
<1>1. CASE \E to \in {"in_service", "completed"} :
             DeskCommand(b, to, "staff", "customer") /\ Quiet
  <2>1. PICK to \in {"in_service", "completed"} :
             DeskCommand(b, to, "staff", "customer") /\ Quiet
    BY <1>1
  <2>2. Transition(b, to, "staff", TRUE, SettleMoney(b, to, "customer", FALSE), NoTender)
    BY <2>1 DEF DeskCommand
  <2>3. history' = history /\ to # "no_show"
    BY <2>1 DEF Quiet
  <2> QED BY <1>0b, <2>2, <2>3, TransitionRewrites
<1>2. CASE \E to \in {"checked_in", "no_show", "settled"} :
             \E g \in Graces, bill \in Bills, y \in Loyalty : Attend(b, to, g, bill, y)
  <2>1. PICK to \in {"checked_in", "no_show", "settled"}, g \in Graces, bill \in Bills,
             y \in Loyalty : Attend(b, to, g, bill, y)
    BY <1>2
  <2>2. PICK tender : Transition(b, to, "staff", TRUE,
                                 SettleMoney(b, to, "customer", FALSE), tender)
    BY <2>1 DEF Attend
  <2>3. CASE to = "no_show"
    <3>1. Log(b, "no_show", "staff", "customer", None)
      BY <2>1, <2>3 DEF Attend
    <3>2. WasAbsent(b)'
      BY <1>0a, <3>1, AbsenceIsLogged
    <3>3. \E h \in HistoryRows : history' = Append(history, h)
      BY <1>0, <3>1 DEF Log
    <3> QED BY <1>0b, <2>2, <3>2, <3>3, TransitionRewrites
  <2>4. CASE to # "no_show"
    <3>1. history' = history
      BY <2>1, <2>4 DEF Attend
    <3> QED BY <1>0b, <2>2, <2>4, <3>1, TransitionRewrites
  <2> QED BY <2>3, <2>4
<1>3. CASE Absent(b)
  <2>1. Transition(b, "no_show", "system", TRUE,
                   SettleMoney(b, "no_show", "customer", FALSE), NoTender)
        /\ Log(b, "no_show", "system", "customer", None)
    BY <1>3 DEF Absent
  <2>2. WasAbsent(b)'
    BY <1>0a, <2>1, AbsenceIsLogged
  <2>3. \E h \in HistoryRows : history' = Append(history, h)
    BY <1>0, <2>1 DEF Log
  <2> QED BY <1>0b, <2>1, <2>2, <2>3, TransitionRewrites
<1>4. CASE LinkLapses(b)
  <2>1. Transition(b, "expired", "system", TRUE, Nothing, NoTender) /\ history' = history
    BY <1>4 DEF LinkLapses, Quiet
  <2> QED BY <1>0b, <2>1, TransitionRewrites
<1> QED BY <1>1, <1>2, <1>3, <1>4

\* So does a cancellation, whoever makes it,
LEMMA CancelRewrites ==
    ASSUME ShelfInv, NEW b \in Bookings, NEW a \in {"customer", "staff"},
           NEW who \in {"customer", "salon"},
           NEW reason \in {"customer", "salon", "released"},
           CallOff(b, a, who, reason)
    PROVE  Rewrites(b)
<1>1. PICK out, tender : Transition(b, "cancelled", a, TRUE, out, tender)
  BY DEF CallOff, DeskCommand
<1>2. PICK h : h = [b |-> b, to |-> "cancelled", at |-> now, by |-> a, who |-> who,
                    reason |-> reason]
  OBVIOUS
<1>3. h \in HistoryRows /\ history' = Append(history, h)
  BY <1>2 DEF HistoryRows, ShelfInv, FeedInv, CallOff, Log
<1>4. "cancelled" \in BLOCKING_STATES \cup RELEASING_STATES /\ "cancelled" # "no_show"
  BY DEF RELEASING_STATES
<1> QED BY <1>1, <1>3, <1>4, TransitionRewrites

\* A slot of one's own: at birth, and where the visit moves to.
LEMMA Lands ==
    ASSUME FeedInv, NEW b \in Bookings, NEW s, NEW kept,
           \A r \in kept : Reserves(r),
           \A c \in Bookings \ {b} : {r \in kept : r.owner = c} = {r \in rows : r.owner = c},
           rows' = kept \cup {NewRow(b, s)},
           booking'[b].slot = s, booking'[b].st \in BLOCKING_STATES,
           \A c \in Bookings \ {b} : booking'[c] = booking[c], history' = history
    PROVE  Rewrites(b)
<1>0. PICK n : n = NewRow(b, s)
  OBVIOUS
<1>1. n = NewRow(b, s) /\ n.owner = b /\ n.slot = s /\ n.blocking /\ Reserves(n)
  BY <1>0 DEF NewRow, Reserves
<1>2. KeepsOwn(b)'
  <2>1. n \in rows'
    BY <1>1
  <2>2. n \in RowsOf(b)'
    BY <1>1, <2>1 DEF RowsOf
  <2> QED BY <1>1, <2>2 DEF KeepsOwn
<1>3. "no_show" \notin BLOCKING_STATES
  BY DEF BLOCKING_STATES
<1>4. Placed(b)'
  BY <1>2, <1>3 DEF Placed
<1>5. \A c \in Bookings \ {b} : {r \in rows' : r.owner = c} = {r \in rows : r.owner = c}
  BY <1>1
<1>6. \A r \in rows' : Reserves(r)
  BY <1>1
<1> QED BY <1>4, <1>5, <1>6 DEF Rewrites

\* the booking of a slot,
LEMMA BirthRewrites ==
    ASSUME ShelfInv, NEW b \in Bookings, NEW s \in scenario.slots,
           NEW kind \in scenario.kinds, NEW dep \in Deposits,
           Book(b, s, kind, dep), Quiet
    PROVE  Rewrites(b)
<1>1. kind \in {"none", "paid", "link", "ask", "series"} /\ FeedInv
      /\ (\A r \in rows : Reserves(r)) /\ DOMAIN booking = Bookings
  BY VisitsAssumption DEF FeedInv, ShelfInv
<1>2. PICK r : r = Born(s, kind, dep)
  OBVIOUS
<1>3. r.slot = s /\ r.st \in {"confirmed", "pending_payment", "pending_confirmation"}
  <2>1. CASE kind = "none"
    BY <1>2, <2>1 DEF Born, NoBooking
  <2>2. CASE kind = "paid"
    BY <1>2, <2>2 DEF Born, NoBooking
  <2>3. CASE kind = "link"
    BY <1>2, <2>3 DEF Born, NoBooking
  <2>4. CASE kind = "ask"
    BY <1>2, <2>4 DEF Born, NoBooking
  <2>5. CASE kind = "series"
    BY <1>2, <2>5 DEF Born, NoBooking
  <2> QED BY <1>1, <2>1, <2>2, <2>3, <2>4, <2>5
<1>4. /\ booking' = [booking EXCEPT ![b] = r] /\ rows' = rows \cup {NewRow(b, s)}
      /\ history' = history
  BY <1>2 DEF Book, Quiet
<1>5. r.st \in BLOCKING_STATES
  BY <1>3 DEF BLOCKING_STATES
<1>6. /\ booking'[b] = r /\ \A c \in Bookings \ {b} : booking'[c] = booking[c]
  BY <1>1, <1>4
<1> QED BY <1>1, <1>3, <1>4, <1>5, <1>6, Lands

\* and a move: the old slot goes back as the new one is taken.
LEMMA MoveRewrites ==
    ASSUME ShelfInv, NEW b \in Bookings, NEW s \in Slots, Moved(b, s)
    PROVE  Rewrites(b)
<1>0. FeedInv /\ (\A r \in rows : Reserves(r)) /\ DOMAIN booking = Bookings
      /\ RowShape(booking[b])
  BY DEF FeedInv, ShelfInv
<1>1. PICK st, pay :
         /\ booking' = [booking EXCEPT ![b].slot = s, ![b].moves = booking[b].moves + 1,
                                       ![b].st = st, ![b].pay = pay]
         /\ st \in {"pending_payment", booking[b].st} /\ booking[b].st \in MOVABLE
         /\ rows' = SetBlocking(b, FALSE) \cup {NewRow(b, s)} /\ history' = history
  BY DEF Moved, Move, Relocate
<1>2. /\ booking'[b].st = st /\ booking'[b].slot = s
      /\ \A c \in Bookings \ {b} : booking'[c] = booking[c]
  BY <1>0, <1>1 DEF RowShape
<1>3. st \in BLOCKING_STATES
  BY <1>1 DEF BLOCKING_STATES, MOVABLE
<1>4. PICK kept : kept = SetBlocking(b, FALSE)
  OBVIOUS
<1>5. /\ \A r \in kept : Reserves(r)
      /\ \A c \in Bookings \ {b} : {r \in kept : r.owner = c} = {r \in rows : r.owner = c}
  BY <1>0, <1>4, Unblocked
<1> QED BY <1>0, <1>1, <1>2, <1>3, <1>4, <1>5, Lands

\* Payments and revivals leave the reservations as they are.
LEMMA StatusRewrites ==
    ASSUME ShelfInv, NEW b \in Bookings,
           \/ \E key \in Keys : Revive(b, key) /\ Quiet
           \/ \E pay, amt : RecordPayment(b, pay, amt, None) /\ Quiet
    PROVE  Rewrites(b)
<1>0. /\ FeedInv /\ (\A r \in rows : Reserves(r)) /\ DOMAIN booking = Bookings
      /\ RowShape(booking[b]) /\ Placed(b)
  BY DEF FeedInv, ShelfInv
<1>1. PICK st, pay, link :
         /\ booking' = [booking EXCEPT ![b].st = st, ![b].pay = pay, ![b].link = link]
         /\ \/ st = booking[b].st
            \/ st = "confirmed" /\ booking[b].st \in {"no_show", "pending_payment"}
  <2>1. CASE \E key \in Keys : Revive(b, key) /\ Quiet
    <3>1. PICK pay : /\ booking' = [booking EXCEPT ![b].st = "confirmed", ![b].pay = pay,
                                        ![b].link = booking[b].link]
                     /\ booking[b].st = "no_show"
      BY <2>1 DEF Revive, Act
    <3> QED BY <3>1
  <2>2. CASE \E pay, amt : RecordPayment(b, pay, amt, None) /\ Quiet
    <3>1. PICK pay : booking' = [booking EXCEPT ![b].pay = pay, ![b].link = None,
                         ![b].st = IF booking[b].st = "pending_payment" THEN "confirmed"
                                   ELSE booking[b].st]
      BY <2>2 DEF RecordPayment
    <3>2. PICK st : st = IF booking[b].st = "pending_payment" THEN "confirmed"
                         ELSE booking[b].st
      OBVIOUS
    <3>3. booking' = [booking EXCEPT ![b].st = st, ![b].pay = pay, ![b].link = None]
      BY <1>0, <3>1, <3>2
    <3>4. \/ st = booking[b].st
          \/ st = "confirmed" /\ booking[b].st \in {"no_show", "pending_payment"}
      BY <3>2
    <3> QED BY <3>3, <3>4
  <2> QED BY <2>1, <2>2
<1>2. rows' = rows /\ history' = history
  BY DEF Quiet, Revive, Act, RecordPayment
<1>3. /\ booking'[b].st = st /\ booking'[b].slot = booking[b].slot
      /\ \A c \in Bookings \ {b} : booking'[c] = booking[c]
  BY <1>0, <1>1 DEF RowShape
<1>4. /\ (KeepsOwn(b) <=> KeepsOwn(b)') /\ (Keeps(b) <=> Keeps(b)')
      /\ (WasAbsent(b) <=> WasAbsent(b)')
  BY <1>2, <1>3 DEF Keeps, KeepsOwn, RowsOf, WasAbsent
<1>5. {"confirmed", "pending_payment"} \subseteq BLOCKING_STATES
  BY DEF BLOCKING_STATES
<1>6. Placed(b)'
  BY <1>0, <1>1, <1>3, <1>4, <1>5 DEF Placed
<1> QED BY <1>0, <1>2, <1>3, <1>6 DEF Rewrites

\* The clock and the marks leave bookings and rows alone.
LEMMA ShelfRest ==
    ASSUME ShelfInv, FeedInv',
           \/ Tick /\ Quiet
           \/ \E b \in Bookings, what \in {"reminded", "conflict", "refilled"} : Mark(what, b)
           \/ \E m \in marks : SettleItem(m)
           \/ UNCHANGED screenVars
    PROVE  ShelfInv'
<1>1. booking' = booking /\ rows' = rows /\ history' = history
  BY DEF Tick, Quiet, Mark, SettleItem, screenVars, vars, tables
<1> QED BY <1>1 DEF ShelfInv, Placed, Keeps, KeepsOwn, WasAbsent, RowsOf

\* Every step keeps what the shelves rest on.
LEMMA ShelfInductive == ShelfInv /\ [ScreenNext]_screenVars => ShelfInv'
<1> SUFFICES ASSUME ShelfInv, [ScreenNext]_screenVars
             PROVE  ShelfInv'
  OBVIOUS
<1>0. FeedInv'
  BY FeedInductive DEF ShelfInv
<1>1. CASE UNCHANGED screenVars
  BY <1>0, <1>1, ShelfRest
<1>2. CASE \E b \in Bookings, s \in scenario.slots, k \in scenario.kinds, d \in Deposits :
             Book(b, s, k, d) /\ Quiet
  BY <1>0, <1>2, BirthRewrites, OthersStay
<1>3. CASE \/ Tick /\ Quiet
           \/ \E b \in Bookings, what \in {"reminded", "conflict", "refilled"} : Mark(what, b)
           \/ \E m \in marks : SettleItem(m)
  BY <1>0, <1>3, ShelfRest
<1>4. CASE \E b \in Bookings : \/ CallOff(b, "customer", "customer", "customer")
                               \/ CallOff(b, "staff", "salon", "salon")
                               \/ CallOff(b, "customer", "customer", "released")
  BY <1>0, <1>4, CancelRewrites, OthersStay
<1>5. CASE \E b \in Bookings :
             \/ \E to \in {"in_service", "completed"} :
                  DeskCommand(b, to, "staff", "customer") /\ Quiet
             \/ \E to \in {"checked_in", "no_show", "settled"} :
                  \E g \in Graces, bill \in Bills, y \in Loyalty : Attend(b, to, g, bill, y)
             \/ Absent(b) \/ LinkLapses(b)
  BY <1>0, <1>5, VisitsRewrite, OthersStay
<1>6. CASE \/ \E b \in Bookings, amt \in 0 .. Price :
                \E pay \in {"deposit_paid", "fully_paid"} :
                  RecordPayment(b, pay, amt, None) /\ Quiet
           \/ \E b \in Bookings, key \in Keys : Revive(b, key) /\ Quiet
  BY <1>0, <1>6, StatusRewrites, OthersStay
<1>7. CASE \E b \in Bookings, s \in Slots : Moved(b, s)
  BY <1>0, <1>7, MoveRewrites, OthersStay
<1> QED
  BY <1>1, <1>2, <1>3, <1>4, <1>5, <1>6, <1>7 DEF ScreenNext

\* An empty diary has nothing out of place.
LEMMA ShelfInitially == ScreenInit => ShelfInv
<1> SUFFICES ASSUME ScreenInit PROVE ShelfInv
  OBVIOUS
<1>1. \A b \in Bookings : booking[b].st = "unused" /\ RowsOf(b) = {}
  BY DEF ScreenInit, Init, NoBooking, RowsOf
<1>2. \A b \in Bookings : Placed(b)
  BY <1>1 DEF Placed, Keeps, BLOCKING_STATES
<1> QED BY <1>2, FeedInitially DEF ShelfInv, ScreenInit, Init

\* What the shelves are made of.
LEMMA ShelfParts ==
    ASSUME ShelfInv
    PROVE  /\ Made \subseteq Bookings /\ IsFiniteSet(Made)
           /\ now \in Nat
           /\ \A b \in Made : StartAt(b) \in Nat /\ EndAt(b) \in Nat /\ b \in Nat
           /\ \A shelf \in {"upcoming", "archive"} :
                Shelf(shelf) \subseteq Made /\ IsFiniteSet(Shelf(shelf))
<1>1. Made \subseteq Bookings
  BY DEF Made
<1>2. IsFiniteSet(Made)
  BY <1>1, FS_Subset, ScreensAssumption
<1>3. ASSUME NEW b \in Made PROVE StartAt(b) \in Nat /\ EndAt(b) \in Nat /\ b \in Nat
  BY <1>1, VisitsAssumption, ScreensAssumption
     DEF ShelfInv, FeedInv, RowShape, Made, StartAt, EndAt
<1>4. \A shelf \in {"upcoming", "archive"} : Shelf(shelf) \subseteq Made
  BY DEF Shelf
<1> QED BY <1>1, <1>2, <1>3, <1>4, FS_Subset DEF ShelfInv, FeedInv

\* The WHERE of customerPage() says what shelfOf() says.
LEMMA ShelfIsTheRules ==
    ASSUME ShelfInv, NEW shelf \in {"upcoming", "archive"}, NEW b \in Made
    PROVE  b \in Shelf(shelf) <=> IsListable(b) /\ ~ReleasedVisit(b) /\ ShelfOf(b) = shelf
<1>1. EndAt(b) \in Nat /\ now \in Nat
  BY ShelfParts
<1>2. PICK e, list : e = EndAt(b) /\ list = (IsListable(b) /\ ~ReleasedVisit(b))
  OBVIOUS
<1> QED BY <1>1 DEF Shelf, ShelfOf

\* pageRows() orders a shelf: no two rows are level.
LEMMA ShelfIsOrdered ==
    ASSUME ShelfInv, NEW shelf \in {"upcoming", "archive"}
    PROVE  IsOrder([b \in Shelf(shelf) |-> {a \in Shelf(shelf) : Before(shelf, a, b)}],
                   Shelf(shelf))
<1>1. \A b \in Shelf(shelf) : StartAt(b) \in Nat /\ b \in Nat
  BY ShelfParts
<1>2. PICK at : at = [b \in Shelf(shelf) |-> StartAt(b)]
  OBVIOUS
<1>3. PICK S : S = Shelf(shelf)
  OBVIOUS
<1>4. PICK up \in BOOLEAN : up = (shelf = "upcoming")
  OBVIOUS
<1>5. \A a, b \in S : Before(shelf, a, b) <=>
        \/ IF up THEN at[a] < at[b] ELSE at[a] > at[b]
        \/ at[a] = at[b] /\ a < b
  BY <1>2, <1>3, <1>4 DEF Before
<1>6. \A b \in S : at[b] \in Nat /\ b \in Nat
  BY <1>1, <1>2, <1>3
<1>7. PICK P : P = [b \in S |-> {a \in S : Before(shelf, a, b)}]
  OBVIOUS
<1>8. \A a, b \in S : a \in P[b] <=> Before(shelf, a, b)
  BY <1>7
<1>9. IsOrder(P, S)
  BY ONLY <1>5, <1>6, <1>7, <1>8 DEF IsOrder
<1> QED BY <1>3, <1>7, <1>9

\* Every row of a shelf is on one page of it.
LEMMA ShelfPages ==
    ASSUME ShelfInv, NEW shelf \in {"upcoming", "archive"}, NEW b \in Shelf(shelf)
    PROVE  Cardinality({p \in Pages(Shelf(shelf)) :
                          <<b, ListRow(b)>> \in MobileList(shelf, p).rows}) = 1
<1>1. PICK S : S = Shelf(shelf) /\ IsFiniteSet(S) /\ b \in S
  BY ShelfParts
<1>2. PICK P : P = [c \in S |-> {a \in S : Before(shelf, a, c)}] /\ IsOrder(P, S)
  BY <1>1, ShelfIsOrdered
<1>3. PICK r, n : r = Cardinality(P[b]) /\ n = Cardinality(S)
  OBVIOUS
<1>4. n \in Nat /\ r \in Nat /\ r < n
  <2>1. \A c \in S : Cardinality(P[c]) \in 0 .. Cardinality(S) - 1
    BY <1>1, <1>2, RanksDiffer
  <2> QED BY <1>1, <1>3, <2>1, FS_CardinalityType
<1>5. \A p : <<b, ListRow(b)>> \in MobileList(shelf, p).rows
               <=> r \in (p - 1) * PageSize .. p * PageSize - 1
  <2>1. ASSUME NEW p PROVE MobileList(shelf, p).rows
                             = {<<c, ListRow(c)>> : c \in PageRows(shelf, p)}
    BY DEF MobileList
  <2>2. ASSUME NEW p PROVE <<b, ListRow(b)>> \in MobileList(shelf, p).rows
                             <=> b \in PageRows(shelf, p)
    BY <2>1
  <2>3. ASSUME NEW p PROVE b \in PageRows(shelf, p)
                             <=> r \in (p - 1) * PageSize .. p * PageSize - 1
    <3>1. r = Cardinality({a \in S : Before(shelf, a, b)})
      BY <1>1, <1>2, <1>3
    <3> QED BY <1>1, <3>1, Zenon DEF PageRows
  <2> QED BY <2>2, <2>3
<1>6. Pages(Shelf(shelf)) = 1 .. n \div PageSize + 1
  BY <1>1, <1>3, Zenon DEF Pages
<1>7. PageSize \in Nat /\ PageSize > 0
  BY ScreensAssumption
<1>8. Cardinality({p \in 1 .. n \div PageSize + 1 :
                     r \in (p - 1) * PageSize .. p * PageSize - 1}) = 1
  BY ONLY <1>4, <1>7, OnePage
<1>9. {p \in Pages(Shelf(shelf)) : <<b, ListRow(b)>> \in MobileList(shelf, p).rows}
        = {p \in 1 .. n \div PageSize + 1 : r \in (p - 1) * PageSize .. p * PageSize - 1}
  BY <1>5, <1>6, Zenon
<1> QED BY <1>8, <1>9, Zenon

\* The badges count each listed booking once.
LEMMA BadgesAddUp ==
    ASSUME ShelfInv
    PROVE  LET badges == MobileList("recurring", 1).counts
           IN  /\ badges.upcoming + badges.archive
                    = Cardinality(Shelf("upcoming") \cup Shelf("archive"))
               /\ badges.upcoming = MobileList("upcoming", 1).count
<1>1. PICK U, A : U = Shelf("upcoming") /\ A = Shelf("archive")
  OBVIOUS
<1>2. IsFiniteSet(U) /\ IsFiniteSet(A)
  BY <1>1, ShelfParts
<1>3. U \cap A = {}
  <2>1. \A b \in Made : ~(b \in U /\ b \in A)
    BY <1>1, ShelfIsTheRules
  <2>2. U \subseteq Made
    BY <1>1, ShelfParts
  <2> QED BY <2>1, <2>2
<1>4. Cardinality(U \cup A) = Cardinality(U) + Cardinality(A) - Cardinality(U \cap A)
  BY <1>2, FS_Union
<1>5. Cardinality(U \cap A) = 0 /\ Cardinality(U) \in Nat /\ Cardinality(A) \in Nat
  BY <1>2, <1>3, FS_EmptySet, FS_CardinalityType
<1>6. /\ MobileList("recurring", 1).counts = ShelfCounts
      /\ MobileList("upcoming", 1).count = Cardinality(U)
      /\ ShelfCounts.upcoming = Cardinality(U) /\ ShelfCounts.archive = Cardinality(A)
  BY <1>1 DEF MobileList, ShelfCounts, WithRecurring
<1> QED BY <1>1, <1>4, <1>5, <1>6

\* What is ahead of the customer is what the diary keeps a slot for.
LEMMA AheadKeepsItsSlot ==
    ASSUME ShelfInv, NEW b \in Made
    PROVE  /\ Keeps(b) /\ EndAt(b) > now =>
                (b \in Shelf("upcoming") <=> booking[b].st \notin {"completed", "settled"})
           /\ b \in Shelf("upcoming") =>
                /\ Revived(b) \/ KeepsOwn(b)
                /\ Present(b).status \notin {"CANCELLED", "COMPLETED"}
<1>1. Placed(b) /\ booking[b].st # "unused"
  BY DEF ShelfInv, Made
<1>2. PICK st : st = booking[b].st
  OBVIOUS
<1>3. st \in BLOCKING_STATES \cup RELEASING_STATES
  BY <1>1, <1>2 DEF Placed
<1>4. ASSUME Keeps(b), EndAt(b) > now
      PROVE  b \in Shelf("upcoming") <=> st \notin {"completed", "settled"}
  <2>1. st \in BLOCKING_STATES
    BY <1>1, <1>2, <1>4 DEF Placed
  <2>2. IsListable(b) /\ ~ReleasedVisit(b)
    BY <1>2, <2>1 DEF BLOCKING_STATES, IsListable, ReleasedVisit, NEVER_LISTED_STATES
  <2>3. ShelfOf(b) = "upcoming" <=> st \notin {"completed", "settled"}
    BY <1>2, <1>4, <2>1 DEF ShelfOf, ARCHIVE_STATES, TERMINAL_STATES, RELEASING_STATES,
                            BLOCKING_STATES
  <2> QED BY <2>2, <2>3, ShelfIsTheRules
<1>5. ASSUME b \in Shelf("upcoming")
      PROVE  /\ Revived(b) \/ KeepsOwn(b)
             /\ Present(b).status \notin {"CANCELLED", "COMPLETED"}
  <2>1. st \notin ARCHIVE_STATES
    BY <1>2, <1>5 DEF Shelf
  <2>2. st \in {"pending_payment", "pending_confirmation", "confirmed", "checked_in",
                "in_service"}
    BY <1>3, <2>1 DEF ARCHIVE_STATES, TERMINAL_STATES, RELEASING_STATES, BLOCKING_STATES
  <2>3. Revived(b) \/ KeepsOwn(b)
    BY <1>1, <1>2, <2>2 DEF Placed, Revived, WasAbsent, BLOCKING_STATES, Exits
  <2>4. Present(b).status = STATUS_TO_MOBILE(st)
    BY <1>2 DEF Present
  <2>5. STATUS_TO_MOBILE(st) \notin {"CANCELLED", "COMPLETED"}
    BY <2>2 DEF STATUS_TO_MOBILE
  <2> QED BY <2>3, <2>4, <2>5
<1> QED BY <1>2, <1>4, <1>5

\* A row and its page read the same columns.
LEMMA RowIsThePages ==
    \A b : /\ Present(b).status = ListRow(b).status /\ Present(b).due = ListRow(b).due
           /\ Present(b).payment = ListRow(b).payment
  BY DEF Present, ListRow, PaidAndDue

\* What ShelfInv says of each booking is what the shelves show.
LEMMA ShelvesFollow == ShelfInv => ShelvesFollowTheDiary
<1> SUFFICES ASSUME ShelfInv PROVE ShelvesFollowTheDiary
  OBVIOUS
<1>1. \A shelf \in {"upcoming", "archive"}, b \in Made :
        b \in Shelf(shelf) <=> IsListable(b) /\ ~ReleasedVisit(b) /\ ShelfOf(b) = shelf
  BY ShelfIsTheRules
<1>2. \A shelf \in {"upcoming", "archive"} : \A b \in Shelf(shelf) :
        Cardinality({p \in Pages(Shelf(shelf)) :
                       <<b, ListRow(b)>> \in MobileList(shelf, p).rows}) = 1
  BY ShelfPages
<1>3. \A b \in Made :
        (\E r \in RowsOf(b) : r.blocking) /\ EndAt(b) > now =>
            (b \in Shelf("upcoming") <=> booking[b].st \notin {"completed", "settled"})
  BY AheadKeepsItsSlot DEF Keeps
<1>4. \A b \in Shelf("upcoming") :
        /\ Revived(b) \/ \E r \in RowsOf(b) : r.blocking /\ r.slot = booking[b].slot
        /\ Present(b).status \notin {"CANCELLED", "COMPLETED"}
  BY AheadKeepsItsSlot, ShelfParts DEF KeepsOwn
<1> QED BY <1>1, <1>2, <1>3, <1>4, BadgesAddUp, RowIsThePages, Zenon
        DEF ShelvesFollowTheDiary, Once

\* The shelf chosen in SQL is the shelf the rule names, every listed booking is
\* on one page of one shelf and counted once by the badges, and what is ahead of
\* the customer is what the diary keeps a slot for (customerPage(), shelfOf(),
\* shelfCounts()), whatever was moved, missed, revived or called off.
THEOREM ShelvesAlwaysFollow == ScreenSpec => []ShelvesFollowTheDiary
  BY ShelfInitially, ShelfInductive, ShelvesFollow, PTL DEF ScreenSpec

-----------------------------------------------------------------------------
(* The feed's sums *)

\* The events of a window, and those its summary is over.
LEMMA EventsAreFinite ==
    ASSUME FeedInv, NEW range, NEW kinds, NEW late, NEW E, E = EventsIn(range, kinds)
    PROVE  /\ E \subseteq 1 .. Len(history) /\ IsFiniteSet(E) /\ Len(history) \in Nat
           /\ Cardinality(E) \in 0 .. Len(history)
           /\ LateIn(E, late) \subseteq E /\ IsFiniteSet(LateIn(E, late))
           /\ \A i \in E : history[i] \in HistoryRows /\ history[i].to \in kinds
<1>1. DOMAIN history = 1 .. Len(history) /\ Len(history) \in Nat
      /\ \A i \in 1 .. Len(history) : history[i] \in HistoryRows
  BY DEF FeedInv
<1>2. E \subseteq 1 .. Len(history) /\ \A i \in E : history[i].to \in kinds
  BY <1>1 DEF EventsIn
<1>3. IsFiniteSet(1 .. Len(history)) /\ Cardinality(1 .. Len(history)) = Len(history)
  BY <1>1, FS_Interval
<1>4. IsFiniteSet(E) /\ Cardinality(E) <= Len(history) /\ Cardinality(E) \in Nat
  BY <1>2, <1>3, FS_Subset, FS_CardinalityType
<1>5. LateIn(E, late) \subseteq E
  BY DEF LateIn
<1>6. IsFiniteSet(LateIn(E, late))
  BY <1>4, <1>5, FS_Subset
<1> QED BY <1>1, <1>2, <1>4, <1>5, <1>6

\* Newest first: every event is on one page.
LEMMA EventPages ==
    ASSUME FeedInv, NEW range, NEW kinds, NEW i \in EventsIn(range, kinds)
    PROVE  Cardinality({p \in 1 .. Len(history) \div PageSize + 1 :
                          i \in EventRows(range, kinds, p)}) = 1
<1>1. PICK E : E = EventsIn(range, kinds) /\ i \in E
  OBVIOUS
<1>2. PICK n \in Nat : n = Len(history) /\ E \subseteq 1 .. n /\ IsFiniteSet(E)
                        /\ Cardinality(E) \in 0 .. n
  BY <1>1, EventsAreFinite
<1>3. PICK P : P = [j \in E |-> {k \in E : k > j}]
  OBVIOUS
<1>4. IsOrder(P, E)
  <2>1. \A j, k \in E : k \in P[j] <=> k > j
    BY <1>3
  <2>2. \A j \in E : j \in Nat
    BY <1>2
  <2> QED BY ONLY <1>3, <2>1, <2>2 DEF IsOrder
<1>5. PICK r : r = Cardinality(P[i])
  OBVIOUS
<1>6. r \in Nat /\ r < n
  <2>1. \A j \in E : Cardinality(P[j]) \in 0 .. Cardinality(E) - 1
    BY <1>2, <1>4, RanksDiffer
  <2> QED BY <1>1, <1>2, <1>5, <2>1
<1>7. ASSUME NEW p PROVE i \in EventRows(range, kinds, p)
                           <=> r \in (p - 1) * PageSize .. p * PageSize - 1
  <2>1. r = Cardinality({k \in E : k > i})
    BY <1>1, <1>3, <1>5
  <2> QED BY <1>1, <2>1, Zenon DEF EventRows
<1>8. PageSize \in Nat /\ PageSize > 0
  BY ScreensAssumption
<1>9. Cardinality({p \in 1 .. n \div PageSize + 1 :
                     r \in (p - 1) * PageSize .. p * PageSize - 1}) = 1
  BY ONLY <1>2, <1>6, <1>8, OnePage
<1>10. {p \in 1 .. Len(history) \div PageSize + 1 : i \in EventRows(range, kinds, p)}
         = {p \in 1 .. n \div PageSize + 1 : r \in (p - 1) * PageSize .. p * PageSize - 1}
  BY <1>2, <1>7, Zenon
<1> QED BY <1>9, <1>10, Zenon

\* The tag of a row says what the late window in SQL says.
LEMMA LateIsLate ==
    ASSUME FeedInv, NEW i \in 1 .. Len(history)
    PROVE  /\ ToEventView(i).id = i
           /\ ToEventView(i).kind = "NO_SHOW" <=> history[i].to = "no_show"
           /\ history[i].to = "cancelled" =>
                (ToEventView(i).lateCancel
                   <=> StartAt(history[i].b) - history[i].at < LateCancel)
<1>1. PICK h \in HistoryRows : h = history[i] /\ Honoured(h)
  BY DEF FeedInv
<1>2. PICK v : v = ToEventView(i)
  OBVIOUS
<1>3. PICK band : band = CancelTiming(h.at, StartAt(h.b))
  OBVIOUS
<1>4. /\ v.id = i /\ (v.kind = "NO_SHOW" <=> h.to = "no_show")
      /\ h.to = "cancelled" => (v.lateCancel <=> band = "under_2h")
  BY <1>1, <1>2, <1>3 DEF ToEventView
<1>5. ASSUME h.to = "cancelled" PROVE band = "under_2h" <=> StartAt(h.b) - h.at < LateCancel
  <2>1. booking[h.b].st = "cancelled" /\ h.b \in Bookings /\ h.at \in Nat
    BY <1>1, <1>5 DEF Honoured, HistoryRows
  <2>2. StartAt(h.b) \in Nat
    BY <2>1, VisitsAssumption DEF FeedInv, RowShape, StartAt
  <2>3. PICK ahead \in Int : ahead = StartAt(h.b) - h.at
    BY <2>1, <2>2
  <2> QED BY <1>3, <2>3, LifecycleAssumption DEF CancelTiming
<1> QED BY <1>1, <1>2, <1>4, <1>5

\* What a page of the feed holds.
LEMMA EventData ==
    ASSUME FeedInv, NEW range, NEW kind \in EVENT_KINDS, NEW kinds, kinds = KindsOf(kind),
           NEW late, late = (kind = "LATE_CANCEL"), NEW p
    PROVE  {v.id : v \in Events_(range, kind, p).data}
             = {i \in LateIn(EventsIn(range, kinds), late) : i \in EventRows(range, kinds, p)}
<1>1. PICK E : E = EventsIn(range, kinds)
  OBVIOUS
<1>2. PICK R : R = EventRows(range, kinds, p)
  OBVIOUS
<1>3. R \subseteq E
  BY <1>1, <1>2 DEF EventRows
<1>4. E \subseteq 1 .. Len(history) /\ \A i \in E : history[i].to \in kinds
  BY <1>1, EventsAreFinite
<1>5. late => \A i \in E : history[i].to = "cancelled"
  <2>1. late => kinds = {"cancelled"}
    BY DEF KindsOf
  <2> QED BY <1>4, <2>1
<1>6. Events_(range, kind, p).data
        = {v \in {ToEventView(i) : i \in R} : late => v.lateCancel}
  BY <1>2, Zenon DEF Events_
<1>7. \A i \in E : /\ ToEventView(i).id = i
                   /\ late => (ToEventView(i).lateCancel
                                 <=> StartAt(history[i].b) - history[i].at < LateCancel)
  BY <1>4, <1>5, LateIsLate
<1>8. {v.id : v \in Events_(range, kind, p).data} = {i \in R : late => ToEventView(i).lateCancel}
  BY <1>3, <1>6, <1>7
<1>9. \A i \in R : (late => ToEventView(i).lateCancel) <=> i \in LateIn(E, late)
  BY <1>3, <1>7 DEF LateIn
<1>10. LateIn(E, late) \subseteq E
  BY DEF LateIn
<1> QED BY <1>1, <1>2, <1>3, <1>8, <1>9, <1>10

\* eventReasons() returns a row for each event; those that gave reason r.
Give(L, reason) == [i \in L |-> [id |-> i, reason |-> reason[i], price |-> Price]]
GaveReason(L, reason, r) == {g \in {Give(L, reason)[i] : i \in L} : g.reason = r}

\* There are as many of them as there are events with that reason.
LEMMA GivenIsOneToOne ==
    ASSUME NEW L, IsFiniteSet(L), NEW reason, NEW r, NEW S, S = GaveReason(L, reason, r)
    PROVE  IsFiniteSet(S) /\ Cardinality(S) = Cardinality({i \in L : reason[i] = r})
<1>0. PICK give : give = Give(L, reason)
  OBVIOUS
<1>1. PICK T : T = {i \in L : reason[i] = r}
  OBVIOUS
<1>2. PICK f : f = [i \in T |-> give[i]]
  OBVIOUS
<1>3. \A i \in L : give[i].id = i /\ give[i].reason = reason[i]
  BY <1>0 DEF Give
<1>4. S = {give[i] : i \in T}
  BY <1>0, <1>1, <1>3 DEF GaveReason
<1>5. f \in Bijection(T, S)
  <2>1. f \in [T -> S] /\ \A t \in S : \E i \in T : f[i] = t
    BY <1>2, <1>4
  <2>2. \A i, j \in T : f[i] = f[j] => i = j
    <3>1. \A i \in T : f[i].id = i
      BY <1>1, <1>2, <1>3
    <3> QED BY <3>1
  <2> QED BY <2>1, <2>2 DEF Bijection, Injection, Surjection, IsInjective
<1>6. IsFiniteSet(T)
  BY <1>1, FS_Subset
<1> QED BY <1>1, <1>5, <1>6, FS_Bijection DEF ExistsBijection

\* The prices of a group.
LEMMA PricesAddUp ==
    ASSUME NEW S, IsFiniteSet(S), \A g \in S : g.price = Price
    PROVE  MapThenSumSet(LAMBDA g : g.price, S) = Price * Cardinality(S)
<1> DEFINE v == [g \in S |-> g.price]
           step(h) == [s \in SUBSET S |-> IF s = {} THEN 0
                        ELSE (CHOOSE x \in s : TRUE).price + h[s \ {CHOOSE x \in s : TRUE}]]
<1>1. MapThenSumSet(LAMBDA g : g.price, S) = (CHOOSE h : h = step(h))[S]
  BY Zenon DEF MapThenSumSet, MapThenFoldSet
<1>2. ASSUME NEW h PROVE step(h) = AnyFirst(h, v, S)
  BY DEF AnyFirst
<1>3. Price \in Int /\ \A g \in S : v[g] = Price
  BY VisitsAssumption
<1> HIDE DEF step, v
<1>4. (CHOOSE h : h = step(h)) = (CHOOSE h : h = AnyFirst(h, v, S))
  BY <1>2, Zenon
<1>5. (CHOOSE h : h = AnyFirst(h, v, S))[S] = Total(v, S)
  <2>1. \A g \in S : v[g] \in Int
    BY <1>3
  <2> QED BY <2>1, FoldedSum
<1>6. Total(v, S) = Price * Cardinality(S)
  BY <1>3, TotalOfEqual
<1> QED BY <1>1, <1>4, <1>5, <1>6

\* Sums over the groups, by field.
LEMMA CountsAreTotal ==
    ASSUME NEW G, IsFiniteSet(G), \A g \in G : g.count \in Int
    PROVE  MapThenSumSet(LAMBDA g : g.count, G) = Total([g \in G |-> g.count], G)
<1> DEFINE v == [g \in G |-> g.count]
           step(h) == [s \in SUBSET G |-> IF s = {} THEN 0
                        ELSE (CHOOSE x \in s : TRUE).count + h[s \ {CHOOSE x \in s : TRUE}]]
<1>1. MapThenSumSet(LAMBDA g : g.count, G) = (CHOOSE h : h = step(h))[G]
  BY Zenon DEF MapThenSumSet, MapThenFoldSet
<1>2. ASSUME NEW h PROVE step(h) = AnyFirst(h, v, G)
  BY DEF AnyFirst
<1>3. \A g \in G : v[g] \in Int
  OBVIOUS
<1> HIDE DEF step, v
<1>4. (CHOOSE h : h = step(h)) = (CHOOSE h : h = AnyFirst(h, v, G))
  BY <1>2, Zenon
<1>5. (CHOOSE h : h = AnyFirst(h, v, G))[G] = Total(v, G)
  BY <1>3, FoldedSum
<1> QED BY <1>1, <1>4, <1>5 DEF v

\* The summary's fold over the events is the total of their values.
LEMMA ValuesAreTotal ==
    ASSUME NEW G, IsFiniteSet(G), \A g \in G : g.value \in Int
    PROVE  MapThenSumSet(LAMBDA g : g.value, G) = Total([g \in G |-> g.value], G)
<1> DEFINE v == [g \in G |-> g.value]
           step(h) == [s \in SUBSET G |-> IF s = {} THEN 0
                        ELSE (CHOOSE x \in s : TRUE).value + h[s \ {CHOOSE x \in s : TRUE}]]
<1>1. MapThenSumSet(LAMBDA g : g.value, G) = (CHOOSE h : h = step(h))[G]
  BY Zenon DEF MapThenSumSet, MapThenFoldSet
<1>2. ASSUME NEW h PROVE step(h) = AnyFirst(h, v, G)
  BY DEF AnyFirst
<1>3. \A g \in G : v[g] \in Int
  OBVIOUS
<1> HIDE DEF step, v
<1>4. (CHOOSE h : h = step(h)) = (CHOOSE h : h = AnyFirst(h, v, G))
  BY <1>2, Zenon
<1>5. (CHOOSE h : h = AnyFirst(h, v, G))[G] = Total(v, G)
  BY <1>3, FoldedSum
<1> QED BY <1>1, <1>4, <1>5 DEF v

\* groupReasons(): the groups hold every event once, at its price.
LEMMA ReasonsAddUp ==
    ASSUME FeedInv, NEW range, NEW kinds, NEW late,
           NEW L, L = LateIn(EventsIn(range, kinds), late),
           NEW G, G = GroupReasons(EventReasons(range, kinds, late))
    PROVE  /\ MapThenSumSet(LAMBDA g : g.count, G) = Cardinality(L)
           /\ MapThenSumSet(LAMBDA g : g.value, G) = Price * Cardinality(L)
<1> DEFINE labelOf(r) == IF r = None THEN "No reason given" ELSE r
           groupOf(S, r) == [reason |-> labelOf(r), count |-> Cardinality(S),
                             value |-> MapThenSumSet(LAMBDA g : g.price, S)]
<1>1. PICK reason : reason = [i \in L |-> history[i].reason]
  OBVIOUS
<1>2. PICK give : give = [i \in L |-> [id |-> i, reason |-> reason[i], price |-> Price]]
                  /\ give = Give(L, reason)
  BY DEF Give
<1>3. PICK given : given = {give[i] : i \in L}
  OBVIOUS
<1>4. EventReasons(range, kinds, late) = given
  <2>1. EventReasons(range, kinds, late)
          = {[id |-> i, reason |-> history[i].reason, price |-> Price] : i \in L}
    BY Zenon DEF EventReasons
  <2>2. \A i \in L : give[i] = [id |-> i, reason |-> history[i].reason, price |-> Price]
    BY <1>1, <1>2
  <2> QED BY <1>3, <2>1, <2>2
<1>5. PICK of : of = [r \in {g.reason : g \in given} |-> {g \in given : g.reason = r}]
  OBVIOUS
<1>6. G = {groupOf(of[r], r) : r \in {g.reason : g \in given}}
  <2>1. G = {groupOf({g \in given : g.reason = r}, r) : r \in {g.reason : g \in given}}
    BY <1>4, Zenon DEF GroupReasons
  <2>2. \A r \in {g.reason : g \in given} : of[r] = {g \in given : g.reason = r}
    BY <1>5
  <2> HIDE DEF groupOf
  <2> QED BY <2>1, <2>2
<1>7. {g.reason : g \in given} = {reason[i] : i \in L}
  <2>1. \A i \in L : give[i].reason = reason[i]
    BY <1>2
  <2> QED BY <1>3, <2>1
<1>8. IsFiniteSet(L) /\ L \subseteq 1 .. Len(history) /\ Cardinality(L) \in Nat
  BY EventsAreFinite, FS_CardinalityType
<1>9. \A i \in L : reason[i] \in {"customer", "salon", "released", None}
  <2>1. \A i \in L : history[i] \in HistoryRows
    BY <1>8 DEF FeedInv
  <2>2. \A h \in HistoryRows : h.reason \in {"customer", "salon", "released", None}
    BY DEF HistoryRows
  <2> QED BY <1>1, <2>1, <2>2
<1>10. ASSUME NEW i \in L
       PROVE  /\ of[reason[i]] = {g \in given : g.reason = reason[i]}
              /\ IsFiniteSet(of[reason[i]])
              /\ Cardinality(of[reason[i]]) = Cardinality({j \in L : reason[j] = reason[i]})
              /\ \A g \in of[reason[i]] : g.price = Price
  <2>1. of[reason[i]] = {g \in given : g.reason = reason[i]}
    BY <1>5, <1>7
  <2>2. PICK r, S : r = reason[i] /\ S = GaveReason(L, reason, r)
    OBVIOUS
  <2>2a. S = of[reason[i]]
    BY <1>2, <1>3, <2>1, <2>2 DEF GaveReason
  <2>3. IsFiniteSet(S) /\ Cardinality(S) = Cardinality({j \in L : reason[j] = r})
    BY <1>8, <2>2, GivenIsOneToOne
  <2>4. \A j \in L : give[j].price = Price
    BY <1>2
  <2> QED BY <1>3, <2>1, <2>2, <2>2a, <2>3, <2>4
<1>11. PICK f : f = [i \in L |-> groupOf(of[reason[i]], reason[i])]
  OBVIOUS
<1>12. G = {f[i] : i \in L}
  <2> HIDE DEF groupOf
  <2> QED BY <1>6, <1>7, <1>11
<1>13. \A i \in L : /\ f[i].reason = labelOf(reason[i])
                    /\ f[i].count = Cardinality(of[reason[i]])
                    /\ f[i].value = MapThenSumSet(LAMBDA g : g.price, of[reason[i]])
  BY <1>11
<1>14. \A i, j \in L : f[i] = f[j] <=> reason[i] = reason[j]
  <2>1. ASSUME NEW i \in L, NEW j \in L, f[i] = f[j] PROVE reason[i] = reason[j]
    BY <1>9, <1>13, <2>1
  <2>2. ASSUME NEW i \in L, NEW j \in L, reason[i] = reason[j] PROVE f[i] = f[j]
    BY <1>11, <2>2
  <2> QED BY <2>1, <2>2
<1>15. \A i \in L : /\ f[i].count = Cardinality({j \in L : f[j] = f[i]})
                    /\ f[i].value = Price * f[i].count
  <2> SUFFICES ASSUME NEW i \in L
               PROVE  /\ f[i].count = Cardinality({j \in L : f[j] = f[i]})
                      /\ f[i].value = Price * f[i].count
    OBVIOUS
  <2>1. {j \in L : f[j] = f[i]} = {j \in L : reason[j] = reason[i]}
    BY <1>14
  <2>2. PICK S : S = of[reason[i]]
    OBVIOUS
  <2>3. MapThenSumSet(LAMBDA g : g.price, S) = Price * Cardinality(S)
    BY <1>10, <2>2, PricesAddUp
  <2> QED BY <1>10, <1>13, <2>1, <2>2, <2>3
<1> HIDE DEF groupOf, labelOf
<1>16. IsFiniteSet(G) /\ f \in [L -> G]
  <2>1. f \in Surjection(L, G)
    BY <1>11, <1>12 DEF Surjection
  <2> QED BY <1>8, <2>1, FS_Surjection DEF Surjection
<1>17. PICK w : w = [g \in G |-> g.count]
  OBVIOUS
<1>18. \A g \in G : w[g] = Cardinality({j \in L : f[j] = g}) /\ g.value = Price * g.count
  <2> SUFFICES ASSUME NEW g \in G
               PROVE  w[g] = Cardinality({j \in L : f[j] = g}) /\ g.value = Price * g.count
    OBVIOUS
  <2>1. PICK i \in L : g = f[i]
    BY <1>12
  <2>2. {j \in L : f[j] = g} = {j \in L : f[j] = f[i]}
    BY <2>1
  <2>3. f[i].count = Cardinality({j \in L : f[j] = f[i]}) /\ f[i].value = Price * f[i].count
    BY <1>15
  <2>4. w[g] = g.count
    BY <1>17
  <2> QED BY ONLY <2>1, <2>2, <2>3, <2>4
<1>19. \A g \in G : w[g] \in Nat /\ g.count \in Nat /\ g.value \in Nat
  <2>1. ASSUME NEW g \in G PROVE Cardinality({j \in L : f[j] = g}) \in Nat
    <3>1. IsFiniteSet({j \in L : f[j] = g})
      BY <1>8, FS_Subset
    <3> QED BY <3>1, FS_CardinalityType
  <2>2. \A g \in G : g.count \in Nat
    BY <1>17, <1>18, <2>1
  <2>3. ASSUME NEW g \in G PROVE g.value \in Nat
    <3>1. PICK c \in Nat, p \in Nat : c = g.count /\ p = Price
      BY <2>2, VisitsAssumption
    <3>2. p * c \in Nat
      OBVIOUS
    <3> QED BY <1>18, <3>1, <3>2
  <2> QED BY <1>17, <2>2, <2>3
<1>20. Total(w, G) = Cardinality(L)
  <2>1. \A g \in G : w[g] = Cardinality({j \in L : f[j] = g})
    BY <1>18
  <2>2. IsFiniteSet(L) /\ IsFiniteSet(G) /\ f \in [L -> G]
    BY <1>8, <1>16
  <2> QED BY ONLY <2>1, <2>2, GroupsCount
<1>21. PICK u : u = [g \in G |-> g.value]
  OBVIOUS
<1>22. Total(u, G) = Price * Cardinality(L)
  <2>1. PICK z : z = [g \in G |-> 0]
    OBVIOUS
  <2>2. Combines(u, Price, w, z, G)
    <3> SUFFICES ASSUME NEW g \in G
                 PROVE  w[g] \in Int /\ z[g] \in Int /\ u[g] = Price * w[g] + z[g]
      BY DEF Combines
    <3>1. z[g] = 0 /\ u[g] = g.value /\ w[g] = g.count /\ g.value = Price * g.count
      BY <1>17, <1>18, <1>21, <2>1
    <3>2. g.count \in Nat /\ g.value \in Nat
      BY <1>19
    <3> QED BY ONLY <3>1, <3>2
  <2>3. Price \in Int
    BY VisitsAssumption
  <2>4. Total(u, G) = Price * Total(w, G) + Total(z, G)
    BY ONLY <1>16, <2>2, <2>3, TotalLinear
  <2>5. Total(z, G) = 0 * Cardinality(G)
    BY <1>16, <2>1, TotalOfEqual
  <2>6. Cardinality(G) \in Nat
    BY <1>16, FS_CardinalityType
  <2> QED BY <1>8, <1>20, <2>3, <2>4, <2>5, <2>6
<1>23. MapThenSumSet(LAMBDA g : g.count, G) = Total(w, G)
  <2>1. \A g \in G : g.count \in Int
    BY <1>19
  <2> QED BY <1>16, <1>17, <2>1, CountsAreTotal
<1>24. MapThenSumSet(LAMBDA g : g.value, G) = Total(u, G)
  <2>1. \A g \in G : g.value \in Int
    BY <1>19
  <2> QED BY <1>16, <1>21, <2>1, ValuesAreTotal
<1> QED BY <1>20, <1>22, <1>23, <1>24

\* What was kept is never more than what the events were worth: "never bank
\* more than the price" when the deposit is taken.
LEMMA KeptIsWithin ==
    ASSUME FeedInv, NEW S \in SUBSET (1 .. Len(history)), IsFiniteSet(S),
           NEW K \in SUBSET S
    PROVE  /\ MapThenSumSet(LAMBDA i : booking[history[i].b].deposit, K) \in Nat
           /\ MapThenSumSet(LAMBDA i : booking[history[i].b].deposit, K)
                <= Price * Cardinality(S)
<1> DEFINE v == [i \in K |-> booking[history[i].b].deposit]
           step(h) == [s \in SUBSET K |-> IF s = {} THEN 0
                        ELSE booking[history[CHOOSE x \in s : TRUE].b].deposit
                               + h[s \ {CHOOSE x \in s : TRUE}]]
<1>1. MapThenSumSet(LAMBDA i : booking[history[i].b].deposit, K) = (CHOOSE h : h = step(h))[K]
  BY Zenon DEF MapThenSumSet, MapThenFoldSet
<1>2. ASSUME NEW h PROVE step(h) = AnyFirst(h, v, K)
  <2>1. ASSUME NEW s \in SUBSET K, s # {}
        PROVE  v[CHOOSE x \in s : TRUE] = booking[history[CHOOSE x \in s : TRUE].b].deposit
    <3>1. PICK x \in K : x = CHOOSE y \in s : TRUE
      BY <2>1
    <3> QED BY <3>1
  <2> HIDE DEF v
  <2> QED BY <2>1 DEF AnyFirst
<1>3. \A i \in K : v[i] \in 0 .. Price
  <2> SUFFICES ASSUME NEW i \in K PROVE booking[history[i].b].deposit \in 0 .. Price
    OBVIOUS
  <2>1. history[i] \in HistoryRows
    BY DEF FeedInv
  <2>2. history[i].b \in Bookings
    BY <2>1 DEF HistoryRows
  <2> QED BY <2>2 DEF FeedInv, RowShape
<1> HIDE DEF step, v
<1>4. (CHOOSE h : h = step(h)) = (CHOOSE h : h = AnyFirst(h, v, K))
  BY <1>2, Zenon
<1>5. IsFiniteSet(K) /\ Price \in Nat
  BY FS_Subset, VisitsAssumption
<1>6. \A i \in K : v[i] \in Int
  BY <1>3, <1>5
<1>7. (CHOOSE h : h = AnyFirst(h, v, K))[K] = Total(v, K)
  BY <1>5, <1>6, FoldedSum
<1>8. PICK low, high : low = [i \in K |-> 0] /\ high = [i \in K |-> Price]
  OBVIOUS
<1>9. Total(low, K) = 0 * Cardinality(K) /\ Total(high, K) = Price * Cardinality(K)
  BY <1>5, <1>8, TotalOfEqual
<1>10. \A i \in K : v[i] \in Int /\ low[i] \in Int /\ high[i] \in Int
                    /\ low[i] <= v[i] /\ v[i] <= high[i]
  BY <1>3, <1>5, <1>8
<1>11. Total(low, K) <= Total(v, K) /\ Total(v, K) <= Total(high, K) /\ Total(v, K) \in Int
  BY <1>5, <1>10, TotalMonotone, TotalTakes
<1>12. Cardinality(K) <= Cardinality(S) /\ Cardinality(K) \in Nat /\ Cardinality(S) \in Nat
  BY <1>5, FS_Subset, FS_CardinalityType
<1>13. PICK k \in Nat, d \in Nat : k = Cardinality(K) /\ Cardinality(S) = k + d
  <2>1. Cardinality(S) - Cardinality(K) \in Nat
    BY <1>12
  <2>2. Cardinality(S) = Cardinality(K) + (Cardinality(S) - Cardinality(K))
    BY <1>12
  <2> QED BY <1>12, <2>1, <2>2
<1>14. PICK x \in Nat, y \in Nat : x = Price * k /\ y = Price * d
  <2>1. Price * k \in Nat /\ Price * d \in Nat
    BY <1>5
  <2> QED BY <2>1
<1>15. Price * Cardinality(S) = x + y
  BY <1>5, <1>13, <1>14
<1>16. Total(v, K) \in Nat /\ Total(v, K) <= x + y
  <2>1. Total(low, K) = 0 /\ Total(high, K) = x
    BY <1>9, <1>13, <1>14
  <2> QED BY ONLY <1>11, <1>14, <2>1
<1> QED BY <1>1, <1>4, <1>7, <1>15, <1>16

\* The ids on each page of one window and one kind.
FeedPages == 1 .. Len(history) \div PageSize + 1
Turned(range, kind) == [p \in FeedPages |-> {v.id : v \in Events_(range, kind, p).data}]
WindowAdds(kind, first, data) ==
    LET shown == UNION {data[p] : p \in FeedPages}
    IN  /\ Cardinality(shown) = first.summary.events
        /\ kind # "LATE_CANCEL" => first.total = first.summary.events
        /\ MapThenSumSet(LAMBDA g : g.count, first.reasons) = first.summary.events
        /\ MapThenSumSet(LAMBDA g : g.value, first.reasons)
             = first.summary.lost + first.summary.kept
        /\ Cardinality({i \in shown : EventDrawer(i).row.kind = "NO_SHOW"})
             = first.summary.noShows
        /\ \A i \in shown : Cardinality({p \in FeedPages : i \in data[p]}) = 1

\* One window and one kind.
LEMMA WindowAddsUp ==
    ASSUME FeedInv, NEW range, NEW kind \in EVENT_KINDS
    PROVE  WindowAdds(kind, Events_(range, kind, 1), Turned(range, kind))
<1>0. PICK pages, first, data, shown :
         /\ pages = 1 .. Len(history) \div PageSize + 1 /\ pages = FeedPages
         /\ first = Events_(range, kind, 1)
         /\ data = [p \in pages |-> {v.id : v \in Events_(range, kind, p).data}]
         /\ data = Turned(range, kind)
         /\ shown = UNION {data[p] : p \in pages}
  BY Zenon DEF FeedPages, Turned
<1>1. PICK kinds, late : kinds = KindsOf(kind) /\ late = (kind = "LATE_CANCEL")
  OBVIOUS
<1>2. PICK E : E = EventsIn(range, kinds)
  OBVIOUS
<1>3. PICK L : L = LateIn(E, late)
  OBVIOUS
<1>4. /\ E \subseteq 1 .. Len(history) /\ IsFiniteSet(E) /\ L \subseteq E /\ IsFiniteSet(L)
      /\ Cardinality(L) \in Nat
  BY <1>2, <1>3, EventsAreFinite, FS_CardinalityType
<1>5. \A p \in pages : data[p] = {i \in L : i \in EventRows(range, kinds, p)}
  <2> SUFFICES ASSUME NEW p \in pages
               PROVE  data[p] = {i \in L : i \in EventRows(range, kinds, p)}
    OBVIOUS
  <2>1. data[p] = {v.id : v \in Events_(range, kind, p).data}
    BY <1>0
  <2>2. {v.id : v \in Events_(range, kind, p).data}
          = {i \in LateIn(EventsIn(range, kinds), late) : i \in EventRows(range, kinds, p)}
    BY <1>1, EventData
  <2> QED BY <1>2, <1>3, <2>1, <2>2
<1>6. ASSUME NEW i \in L PROVE Cardinality({p \in pages : i \in data[p]}) = 1
  <2>1. {p \in pages : i \in data[p]} = {p \in pages : i \in EventRows(range, kinds, p)}
    BY <1>5
  <2>2. Cardinality({p \in 1 .. Len(history) \div PageSize + 1 :
                       i \in EventRows(range, kinds, p)}) = 1
    <3>1. i \in EventsIn(range, kinds)
      BY <1>2, <1>4
    <3> QED BY <3>1, EventPages
  <2> QED BY <1>0, <2>1, <2>2, Zenon
<1>7. shown = L
  <2>1. shown \subseteq L
    BY <1>0, <1>5
  <2>2. ASSUME NEW i \in L PROVE i \in shown
    <3>1. {p \in pages : i \in data[p]} # {}
      BY <1>6, FS_EmptySet
    <3> QED BY <1>0, <3>1
  <2> QED BY <2>1, <2>2
<1>8. PICK t : t = EventTotals(range, kinds, late)
  OBVIOUS
<1>9. PICK kept : kept = MapThenSumSet(LAMBDA i : booking[history[i].b].deposit,
                            {i \in L : booking[history[i].b].pay = "forfeited"})
  OBVIOUS
<1>10. /\ t.events = Cardinality(L)
       /\ t.noShows = Cardinality({i \in L : history[i].to = "no_show"})
       /\ t.value = Price * Cardinality(L) /\ t.kept = kept
  BY <1>2, <1>3, <1>8, <1>9, Zenon DEF EventTotals
<1>11. kept \in Nat /\ kept <= Price * Cardinality(L)
  <2>1. PICK K : K = {i \in L : booking[history[i].b].pay = "forfeited"}
    OBVIOUS
  <2>2. K \in SUBSET L /\ L \in SUBSET (1 .. Len(history))
    BY <1>4, <2>1
  <2> QED BY <1>4, <1>9, <2>1, <2>2, KeptIsWithin
<1>12. /\ first.summary = Summarise(t) /\ first.total = CountEvents(range, kinds)
       /\ first.reasons = GroupReasons(EventReasons(range, kinds, late))
  BY <1>0, <1>1, <1>8, Zenon DEF Events_
<1>13. /\ first.summary.events = Cardinality(L)
       /\ first.summary.noShows = Cardinality({i \in L : history[i].to = "no_show"})
       /\ first.summary.kept = kept
       /\ first.summary.lost = IF Price * Cardinality(L) > kept
                               THEN Price * Cardinality(L) - kept ELSE 0
  <2>1. /\ first.summary.events = t.events /\ first.summary.noShows = t.noShows
        /\ first.summary.kept = t.kept
        /\ first.summary.lost = IF t.value > t.kept THEN t.value - t.kept ELSE 0
    BY <1>12 DEF Summarise
  <2> QED BY ONLY <1>10, <2>1, Zenon
<1>14. first.summary.lost + first.summary.kept = Price * Cardinality(L)
  <2>1. PICK value \in Nat : value = Price * Cardinality(L)
    <3>1. Price * Cardinality(L) \in Nat
      BY <1>4, VisitsAssumption
    <3> QED BY <3>1
  <2>2. first.summary.lost = (IF value > kept THEN value - kept ELSE 0)
        /\ first.summary.kept = kept /\ kept \in Nat /\ kept <= value
    BY <1>11, <1>13, <2>1
  <2> QED BY ONLY <2>1, <2>2
<1>15. kind # "LATE_CANCEL" => first.total = Cardinality(L)
  <2>1. kind # "LATE_CANCEL" => L = E
    BY <1>1, <1>3 DEF LateIn
  <2> QED BY <1>2, <1>12, <2>1 DEF CountEvents
<1>16. /\ MapThenSumSet(LAMBDA g : g.count, first.reasons) = Cardinality(L)
       /\ MapThenSumSet(LAMBDA g : g.value, first.reasons) = Price * Cardinality(L)
  <2>1. PICK G : G = GroupReasons(EventReasons(range, kinds, late))
    OBVIOUS
  <2>2. L = LateIn(EventsIn(range, kinds), late)
    BY <1>2, <1>3
  <2>3. /\ MapThenSumSet(LAMBDA g : g.count, G) = Cardinality(L)
        /\ MapThenSumSet(LAMBDA g : g.value, G) = Price * Cardinality(L)
    BY ONLY FeedInv, <2>1, <2>2, ReasonsAddUp
  <2> QED BY <1>12, <2>1, <2>3
<1>17. {i \in shown : EventDrawer(i).row.kind = "NO_SHOW"}
         = {i \in L : history[i].to = "no_show"}
  <2>1. \A i \in L : EventDrawer(i).row.kind = "NO_SHOW" <=> history[i].to = "no_show"
    BY <1>4, LateIsLate DEF EventDrawer
  <2> QED BY <1>7, <2>1
<1>18. \A i \in shown : Cardinality({p \in FeedPages : i \in data[p]}) = 1
  BY <1>0, <1>6, <1>7
<1>19. WindowAdds(kind, first, data)
  <2>1. UNION {data[p] : p \in FeedPages} = shown
    BY <1>0
  <2> QED BY ONLY <1>7, <1>13, <1>14, <1>15, <1>16, <1>17, <1>18, <2>1, Zenon DEF WindowAdds
<1> QED BY <1>0, <1>19

\* A history whose rows are well formed is one the feed adds up.
LEMMA FeedSums == FeedInv => FeedAddsUp
<1> SUFFICES ASSUME FeedInv PROVE FeedAddsUp
  OBVIOUS
<1>1. \A range \in Ranges, kind \in EVENT_KINDS :
        WindowAdds(kind, Events_(range, kind, 1), Turned(range, kind))
  BY WindowAddsUp
<1>2. FeedAddsUp <=> \A range \in Ranges, kind \in EVENT_KINDS :
                       \A first \in {Events_(range, kind, 1)}, data \in {Turned(range, kind)} :
                         WindowAdds(kind, first, data)
  BY Zenon DEF FeedAddsUp, Once, WindowAdds, Turned, FeedPages
<1> QED BY <1>1, <1>2

\* Every event of the window is on one page of the feed, and the summary and the
\* reasons are over the window: they count each event once and add its price
\* up to what was lost and what was kept (events(), summarise(),
\* groupReasons()), however long the history and whatever happened since.
THEOREM FeedAlwaysAddsUp == ScreenSpec => []FeedAddsUp
  BY FeedInitially, FeedInductive, FeedSums, PTL DEF ScreenSpec

-----------------------------------------------------------------------------
(* Payment statuses *)

\* Every booking's payment status is one of the vocabulary's.
PaysInv ==
    ShelfInv /\ \A b \in Bookings : booking[b].pay \in PaymentStatuses

\* A step leaves a booking's payment status alone, or writes one of them.
Pays ==
    \A c \in Bookings : booking'[c].pay \in PaymentStatuses \cup {booking[c].pay}

\* The transaction of a visit.
LEMMA TransitionPays ==
    ASSUME FeedInv, NEW b \in Bookings, NEW to, NEW actor, NEW out, NEW tender,
           Transition(b, to, actor, TRUE, out, tender)
    PROVE  Pays
<1>0. RowShape(booking[b]) /\ DOMAIN booking = Bookings
  BY DEF FeedInv
<1>1. PICK pay, arrived : /\ pay = NextPaymentStatus(booking[b].pay, out)
                          /\ booking' = [booking EXCEPT ![b].st = to, ![b].pay = pay,
                                                        ![b].arrived = arrived]
  BY DEF Transition
<1>3. booking'[b].pay = pay /\ \A c \in Bookings \ {b} : booking'[c] = booking[c]
  BY <1>0, <1>1 DEF RowShape
<1>2. NextPaymentStatus(booking[b].pay, out) \in PaymentStatuses \cup {booking[b].pay}
  BY DEF NextPaymentStatus, PaymentStatuses
<1> QED BY <1>1, <1>2, <1>3 DEF Pays

LEMMA BirthPays ==
    ASSUME FeedInv, NEW b \in Bookings, NEW s \in scenario.slots,
           NEW kind \in scenario.kinds, NEW dep \in Deposits, Book(b, s, kind, dep)
    PROVE  Pays
<1>1. kind \in {"none", "paid", "link", "ask", "series"}
  BY VisitsAssumption DEF FeedInv
<1>2. PICK r : r = Born(s, kind, dep)
  OBVIOUS
<1>3. r.pay \in PaymentStatuses
  BY <1>1, <1>2 DEF Born, NoBooking, PaymentStatuses
<1>4. booking'[b] = r /\ \A c \in Bookings \ {b} : booking'[c] = booking[c]
  BY <1>2 DEF Book, FeedInv
<1> QED BY <1>3, <1>4 DEF Pays

\* The app's report, a revival and a move each name the status they write.
LEMMA WritesPay ==
    ASSUME FeedInv, NEW b \in Bookings,
           \/ \E pay \in {"deposit_paid", "fully_paid"}, amt \in 0 .. Price :
                RecordPayment(b, pay, amt, None)
           \/ \E key \in Keys : Revive(b, key)
           \/ \E s \in Slots : Move(b, s)
    PROVE  Pays
<1>0. RowShape(booking[b]) /\ DOMAIN booking = Bookings
  BY DEF FeedInv
<1>1. CASE \E pay \in {"deposit_paid", "fully_paid"}, amt \in 0 .. Price :
             RecordPayment(b, pay, amt, None)
  <2>0. PICK pay \in {"deposit_paid", "fully_paid"}, amt \in 0 .. Price :
          RecordPayment(b, pay, amt, None)
    BY <1>1
  <2>1. PICK st : booking' = [booking EXCEPT ![b].pay = pay, ![b].link = None, ![b].st = st]
    BY <2>0 DEF RecordPayment
  <2>2. booking'[b].pay = pay /\ \A c \in Bookings \ {b} : booking'[c] = booking[c]
    BY <1>0, <2>1 DEF RowShape
  <2> QED BY <2>2 DEF Pays, PaymentStatuses
<1>2. CASE \E key \in Keys : Revive(b, key)
  <2>1. PICK pay : /\ pay \in {"deposit_paid", "none_required"}
                   /\ booking' = [booking EXCEPT ![b].st = "confirmed", ![b].pay = pay,
                                                 ![b].link = booking[b].link]
    <3>1. PICK key \in Keys : Revive(b, key)
      BY <1>2
    <3>2. PICK pay : /\ pay = IF ForfeitedOf(b).fils > 0 THEN "deposit_paid"
                              ELSE "none_required"
                     /\ Act(b, key, "reversed", ForfeitedOf(b).fils, "confirmed", pay, FALSE)
      BY <3>1 DEF Revive
    <3>3. booking' = [booking EXCEPT ![b].st = "confirmed", ![b].pay = pay,
                                     ![b].link = booking[b].link]
      BY <3>2 DEF Act
    <3> QED BY <3>2, <3>3
  <2>2. booking'[b].pay = pay /\ \A c \in Bookings \ {b} : booking'[c] = booking[c]
    BY <1>0, <2>1 DEF RowShape
  <2> QED BY <2>1, <2>2 DEF Pays, PaymentStatuses
<1>3. CASE \E s \in Slots : Move(b, s)
  <2>1. PICK s, st, pay :
          /\ booking' = [booking EXCEPT ![b].slot = s, ![b].moves = booking[b].moves + 1,
                                        ![b].st = st, ![b].pay = pay]
          /\ pay \in {"unpaid", "forfeited", booking[b].pay}
    BY <1>3 DEF Move
  <2>2. booking'[b].pay = pay /\ \A c \in Bookings \ {b} : booking'[c] = booking[c]
    BY <1>0, <2>1 DEF RowShape
  <2> QED BY <2>1, <2>2 DEF Pays, PaymentStatuses
<1> QED BY <1>1, <1>2, <1>3

\* Every step keeps the vocabulary.
LEMMA PaysInductive == PaysInv /\ [ScreenNext]_screenVars => PaysInv'
<1> SUFFICES ASSUME PaysInv, [ScreenNext]_screenVars
             PROVE  PaysInv'
  OBVIOUS
<1>0. FeedInv /\ ShelfInv' /\ \A b \in Bookings : booking[b].pay \in PaymentStatuses
  BY ShelfInductive DEF PaysInv, ShelfInv
<1>1. ASSUME Pays PROVE PaysInv'
  BY <1>0, <1>1 DEF Pays, PaysInv
<1>2. ASSUME booking' = booking PROVE PaysInv'
  BY <1>0, <1>2 DEF PaysInv
<1>3. CASE \/ UNCHANGED screenVars
           \/ Tick /\ Quiet
           \/ On("mark") /\ \E b \in Bookings, what \in {"reminded", "conflict", "refilled"} :
                Mark(what, b)
           \/ \E m \in marks : SettleItem(m)
  <2>1. booking' = booking
    BY <1>3 DEF Tick, Mark, SettleItem, screenVars, vars, tables
  <2> QED BY <1>2, <2>1
<1>4. CASE \E b \in Bookings, s \in scenario.slots, k \in scenario.kinds, d \in Deposits :
             Book(b, s, k, d) /\ Quiet
  BY <1>0, <1>1, <1>4, BirthPays
<1>5. CASE \E b \in Bookings :
             \/ CallOff(b, "customer", "customer", "customer")
             \/ CallOff(b, "staff", "salon", "salon")
             \/ On("routine") /\ CallOff(b, "customer", "customer", "released")
  <2>1. PICK b, a, out : b \in Bookings /\ Transition(b, "cancelled", a, TRUE, out, NoTender)
    BY <1>5 DEF CallOff, DeskCommand
  <2> QED BY <1>0, <1>1, <2>1, TransitionPays
<1>6. CASE \E b \in Bookings, to \in {"in_service", "completed"} :
             DeskCommand(b, to, "staff", "customer") /\ Quiet
  <2>1. PICK b, to, a, out : b \in Bookings /\ Transition(b, to, a, TRUE, out, NoTender)
    BY <1>6 DEF DeskCommand
  <2> QED BY <1>0, <1>1, <2>1, TransitionPays
<1>7. CASE \E b \in Bookings, to \in {"checked_in", "no_show", "settled"} :
             \E g \in Graces, bill \in Bills, y \in Loyalty : Attend(b, to, g, bill, y)
  <2>1. PICK b, to, out, tender : b \in Bookings /\ Transition(b, to, "staff", TRUE, out, tender)
    BY <1>7 DEF Attend
  <2> QED BY <1>0, <1>1, <2>1, TransitionPays
<1>8. CASE \E b \in Bookings : Absent(b) \/ LinkLapses(b)
  <2>1. PICK b, to, out : b \in Bookings /\ Transition(b, to, "system", TRUE, out, NoTender)
    BY <1>8 DEF Absent, LinkLapses
  <2> QED BY <1>0, <1>1, <2>1, TransitionPays
<1>9. CASE \/ \E b \in Bookings, amt \in 0 .. Price :
                \E pay \in {"deposit_paid", "fully_paid"} :
                  RecordPayment(b, pay, amt, None) /\ Quiet
           \/ On("revive") /\ \E b \in Bookings, key \in Keys : Revive(b, key) /\ Quiet
           \/ On("move") /\ \E b \in Bookings, s \in Slots : Moved(b, s)
  <2>1. PICK b \in Bookings :
          \/ \E pay \in {"deposit_paid", "fully_paid"}, amt \in 0 .. Price :
               RecordPayment(b, pay, amt, None)
          \/ \E key \in Keys : Revive(b, key)
          \/ \E s \in Slots : Move(b, s)
    BY <1>9 DEF Moved
  <2> QED BY <1>0, <1>1, <2>1, WritesPay
<1> QED BY <1>3, <1>4, <1>5, <1>6, <1>7, <1>8, <1>9 DEF ScreenNext

\* No booking, no payment.
LEMMA PaysInitially == ScreenInit => PaysInv
  BY ShelfInitially DEF ScreenInit, Init, NoBooking, PaysInv, PaymentStatuses

-----------------------------------------------------------------------------
(* Counts of one set, taken several ways *)

\* Sums over the statuses or the days of a window, of their counts.
Numbers(t, S) == MapThenSumSet(LAMBDA x : t[x].n, S)
LEMMA NumbersAreTotal ==
    ASSUME NEW t, NEW S, IsFiniteSet(S), \A x \in S : t[x].n \in Int
    PROVE  Numbers(t, S) = Total([x \in S |-> t[x].n], S)
<1> DEFINE v == [x \in S |-> t[x].n]
           step(h) == [s \in SUBSET S |-> IF s = {} THEN 0
                        ELSE t[CHOOSE x \in s : TRUE].n + h[s \ {CHOOSE x \in s : TRUE}]]
<1>1. Numbers(t, S) = (CHOOSE h : h = step(h))[S]
  BY Zenon DEF Numbers, MapThenSumSet, MapThenFoldSet
<1>2. ASSUME NEW h PROVE step(h) = AnyFirst(h, v, S)
  BY DEF AnyFirst
<1>3. \A x \in S : v[x] \in Int
  OBVIOUS
<1> HIDE DEF step, v
<1>4. (CHOOSE h : h = step(h)) = (CHOOSE h : h = AnyFirst(h, v, S))
  BY <1>2, Zenon
<1>5. (CHOOSE h : h = AnyFirst(h, v, S))[S] = Total(v, S)
  BY <1>3, FoldedSum
<1> QED BY <1>1, <1>4, <1>5 DEF v

\* The same of a function that is the counts.
Trends(t, S) == MapThenSumSet(LAMBDA x : t[x], S)
LEMMA TrendIsTotal ==
    ASSUME NEW t, NEW S, IsFiniteSet(S), \A x \in S : t[x] \in Int
    PROVE  Trends(t, S) = Total(t, S)
<1> DEFINE step(h) == [s \in SUBSET S |-> IF s = {} THEN 0
                        ELSE t[CHOOSE x \in s : TRUE] + h[s \ {CHOOSE x \in s : TRUE}]]
<1>1. Trends(t, S) = (CHOOSE h : h = step(h))[S]
  BY Zenon DEF Trends, MapThenSumSet, MapThenFoldSet
<1>2. ASSUME NEW h PROVE step(h) = AnyFirst(h, t, S)
  BY DEF AnyFirst
<1> HIDE DEF step
<1>4. (CHOOSE h : h = step(h)) = (CHOOSE h : h = AnyFirst(h, t, S))
  BY <1>2, Zenon
<1>5. (CHOOSE h : h = AnyFirst(h, t, S))[S] = Total(t, S)
  BY FoldedSum
<1> QED BY <1>1, <1>4, <1>5

\* Every visit is as long as the next.
LEMMA MinutesAre ==
    ASSUME NEW S, IsFiniteSet(S)
    PROVE  Minutes(S) = Length * Cardinality(S)
<1> DEFINE v == [b \in S |-> Length]
           step(h) == [s \in SUBSET S |-> IF s = {} THEN 0
                        ELSE Length + h[s \ {CHOOSE x \in s : TRUE}]]
<1>1. Minutes(S) = (CHOOSE h : h = step(h))[S]
  BY Zenon DEF Minutes, MapThenSumSet, MapThenFoldSet
<1>2. ASSUME NEW h PROVE step(h) = AnyFirst(h, v, S)
  BY DEF AnyFirst
<1>3. Length \in Int /\ \A b \in S : v[b] = Length
  BY VisitsAssumption
<1> HIDE DEF step, v
<1>4. (CHOOSE h : h = step(h)) = (CHOOSE h : h = AnyFirst(h, v, S))
  BY <1>2, Zenon
<1>5. (CHOOSE h : h = AnyFirst(h, v, S))[S] = Total(v, S)
  <2>1. \A b \in S : v[b] \in Int
    BY <1>3
  <2> QED BY <2>1, FoldedSum
<1>6. Total(v, S) = Length * Cardinality(S)
  BY <1>3, TotalOfEqual
<1> QED BY <1>1, <1>4, <1>5, <1>6

\* The screen of one professional divides by one shift.
LEMMA OneShift ==
    ASSUME NEW p \in Staff, NEW d
    PROVE  Sellable({p}, {d}) = SellableMinutes(Shift[p], {})
<1>1. PICK v : v = [q \in {p} |-> SellableMinutes(Shift[q], {})]
  OBVIOUS
<1>2. PICK m : m = SellableMinutes(Shift[p], {})
  OBVIOUS
<1>3. m \in Nat
  <2>1. PICK from, to : from = Shift[p].from /\ to = Shift[p].to /\ from \in Int /\ to \in Int
    BY ScreensAssumption DEF Staff
  <2>2. IsFiniteSet(from .. to - 1)
    <3>1. PICK last \in Int : last = to - 1
      BY <2>1
    <3>2. IsFiniteSet(from .. last)
      BY <2>1, FS_Interval
    <3> QED BY <3>1, <3>2
  <2>3. IsFiniteSet((from .. to - 1) \ UNION {t.from .. t.to - 1 : t \in {}})
    BY <2>2, FS_Subset
  <2>4. m = Cardinality((from .. to - 1) \ UNION {t.from .. t.to - 1 : t \in {}})
    BY <1>2, <2>1 DEF SellableMinutes
  <2> QED BY <2>3, <2>4, FS_CardinalityType
<1>4. InViewFor({p}) = {p}
  BY DEF InViewFor
<1> DEFINE step(h) == [s \in SUBSET {p} |-> IF s = {} THEN 0
                        ELSE SellableMinutes(Shift[CHOOSE x \in s : TRUE], {})
                             + h[s \ {CHOOSE x \in s : TRUE}]]
<1>5. MapThenSumSet(LAMBDA q : SellableMinutes(Shift[q], {}), {p}) = (CHOOSE h : h = step(h))[{p}]
  BY Zenon DEF MapThenSumSet, MapThenFoldSet
<1>6. ASSUME NEW h PROVE step(h) = AnyFirst(h, v, {p})
  BY <1>1 DEF AnyFirst
<1> HIDE DEF step
<1>7. (CHOOSE h : h = step(h)) = (CHOOSE h : h = AnyFirst(h, v, {p}))
  BY <1>6, Zenon
<1>8. IsFiniteSet({p}) /\ Cardinality({p}) = 1 /\ IsFiniteSet({d}) /\ Cardinality({d}) = 1
  BY FS_Singleton
<1>9. \A q \in {p} : v[q] = m
  BY <1>1, <1>2
<1>10. (CHOOSE h : h = AnyFirst(h, v, {p}))[{p}] = Total(v, {p})
  <2>1. \A q \in {p} : v[q] \in Int
    BY <1>3, <1>9
  <2> QED BY <1>8, <2>1, FoldedSum
<1>11. Total(v, {p}) = m * Cardinality({p})
  BY <1>3, <1>8, <1>9, TotalOfEqual
<1>12. MapThenSumSet(LAMBDA q : SellableMinutes(Shift[q], {}), {p}) = m
  <2>1. m * Cardinality({p}) = m
    BY <1>3, <1>8
  <2> QED BY <1>5, <1>7, <1>10, <1>11, <2>1, Zenon
<1>13. Sellable({p}, {d}) = Cardinality({d}) * m
  BY <1>4, <1>12, Zenon DEF Sellable
<1> QED BY <1>2, <1>3, <1>8, <1>13

\* The bookings of these days and statuses.
Between(from, to, sts) ==
    {b \in Made : DayOn(b) >= from /\ DayOn(b) < to /\ booking[b].st \in sts}
LiveOn(d) == {b \in Made : DayOn(b) = d /\ booking[b].st \in LIVE_STATUSES}

\* A booking that was made has a slot, a day and a professional.
LEMMA MadeHaveDays ==
    ASSUME ShelfInv
    PROVE  /\ Today \in Nat
           /\ \A b \in Made : /\ DayOn(b) \in Nat /\ StartAt(b) \in Nat
                              /\ booking[b].slot \in Slots /\ StaffOf[booking[b].slot] \in Staff
<1>1. now \in Nat /\ \A b \in Made : StartAt(b) \in Nat
  BY ShelfParts
<1>2. DayLength \in Nat /\ DayLength > 0
  BY ScreensAssumption
<1>3. \A t \in Nat : DayOf(t) \in Nat
  BY <1>2, DivMod DEF DayOf
<1>4. \A b \in Made : booking[b].slot \in Slots
  BY DEF ShelfInv, FeedInv, RowShape, Made
<1> QED BY <1>1, <1>3, <1>4 DEF Today, DayOn, Staff

\* bookingWhere(), where neither reminders nor conflicts are asked for.
LEMMA WhereIs ==
    ASSUME ShelfInv, NEW f, ~f.notReminded, ~f.conflictsOnly
    PROVE  /\ BookingWhere(f) = {b \in Between(f.from, f.to, f.statuses) :
                                   StaffOf[booking[b].slot] \in f.staff}
           /\ f.staff = Staff => BookingWhere(f) = Between(f.from, f.to, f.statuses)
<1>1. BookingWhere(f) = {b \in Between(f.from, f.to, f.statuses) :
                           StaffOf[booking[b].slot] \in f.staff}
  BY DEF BookingWhere, Between
<1>2. \A b \in Between(f.from, f.to, f.statuses) : StaffOf[booking[b].slot] \in Staff
  BY MadeHaveDays DEF Between
<1> QED BY <1>1, <1>2

\* The bookings of one day.
LEMMA OneDay ==
    ASSUME ShelfInv, NEW d \in Int
    PROVE  /\ Between(d, d + 1, LIVE_STATUSES) = LiveOn(d)
           /\ {b \in Between(d, d + 1, CHIP_STATUSES) : booking[b].st \in LIVE_STATUSES} = LiveOn(d)
<1>1. \A b \in Made : DayOn(b) \in Nat
  BY MadeHaveDays
<1>2. LIVE_STATUSES \subseteq CHIP_STATUSES
  BY DEF LIVE_STATUSES, CHIP_STATUSES, CHIP_MAP, CALENDAR_CHIPS
<1>3. \A b \in Made : DayOn(b) >= d /\ DayOn(b) < d + 1 <=> DayOn(b) = d
  BY <1>1
<1>4. Between(d, d + 1, LIVE_STATUSES) = LiveOn(d)
  BY <1>3 DEF Between, LiveOn
<1>5. {b \in Between(d, d + 1, CHIP_STATUSES) : booking[b].st \in LIVE_STATUSES} = LiveOn(d)
  BY <1>2, <1>3 DEF Between, LiveOn
<1> QED BY <1>4, <1>5

\* Any set of them is finite.
LEMMA MadeAreFew ==
    ASSUME ShelfInv, NEW S, S \subseteq Made
    PROVE  IsFiniteSet(S) /\ Cardinality(S) \in Nat
  BY ShelfParts, FS_Subset, FS_CardinalityType

\* The statuses among `keep`, and the bookings that have one of them.
Among(t, keep) == {st \in DOMAIN t : st \in keep}
Having(f, keep) == {b \in BookingWhere(f) : booking[b].st \in keep}

\* statusTotals(): the statuses of a window add up to the bookings that have them.
LEMMA StatusesAddUp ==
    ASSUME ShelfInv, NEW f, NEW t, t = StatusTotals(f), NEW keep, NEW S,
           S = Among(t, keep)
    PROVE  Numbers(t, S)
             = Cardinality(Having(f, keep))
<1>1. PICK B : B = BookingWhere(f) /\ B \subseteq Made
  BY DEF BookingWhere
<1>2. PICK K : K = {b \in B : booking[b].st \in keep}
  OBVIOUS
<1>3. IsFiniteSet(K) /\ K \subseteq Made
  BY <1>1, <1>2, MadeAreFew
<1>4. PICK g : g = [b \in K |-> booking[b].st]
  OBVIOUS
<1>5. DOMAIN t = {booking[b].st : b \in B}
  BY <1>1 DEF StatusTotals
<1>6. S = {booking[b].st : b \in K}
  BY <1>2, <1>5 DEF Among
<1>7. g \in [K -> S] /\ IsFiniteSet(S)
  <2>1. g \in [K -> S] /\ \A st \in S : \E b \in K : g[b] = st
    BY <1>4, <1>6
  <2>2. g \in Surjection(K, S)
    BY <2>1 DEF Surjection
  <2> QED BY <1>3, <2>1, <2>2, FS_Surjection
<1>8. ASSUME NEW st \in S PROVE t[st].n = Cardinality({b \in K : g[b] = st}) /\ t[st].n \in Int
  <2>1. st \in DOMAIN t /\ st \in keep
    BY DEF Among
  <2>2. t[st].n = Cardinality({b \in B : booking[b].st = st})
    BY <1>1, <2>1 DEF StatusTotals
  <2>3. PICK G : G = {b \in K : g[b] = st}
    OBVIOUS
  <2>4. G = {b \in B : booking[b].st = st} /\ G \subseteq Made
    BY <1>2, <1>3, <1>4, <2>1, <2>3
  <2>5. Cardinality(G) \in Nat
    BY <2>4, MadeAreFew
  <2>6. t[st].n = Cardinality(G)
    BY <2>2, <2>4
  <2>7. t[st].n \in Int
    BY <2>5, <2>6
  <2> QED BY <2>3, <2>6, <2>7
<1>9. PICK w : w = [st \in S |-> t[st].n]
  OBVIOUS
<1>10. \A st \in S : w[st] = Cardinality({b \in K : g[b] = st})
  BY <1>8, <1>9
<1>11. Total(w, S) = Cardinality(K)
  BY ONLY <1>3, <1>7, <1>10, GroupsCount
<1>12. \A x \in S : t[x].n \in Int
  BY <1>8
<1>13. Numbers(t, S) = Total([x \in S |-> t[x].n], S)
  BY ONLY <1>7, <1>12, NumbersAreTotal
<1> QED BY <1>1, <1>2, <1>9, <1>11, <1>13 DEF Having

\* The days of a window add up to the window.
LEMMA DaysAddUp ==
    ASSUME ShelfInv, NEW from \in Int, NEW to \in Int, NEW t,
           \A d \in from .. to - 1 : t[d] = Cardinality(LiveOn(d))
    PROVE  /\ IsFiniteSet(from .. to - 1) /\ \A d \in from .. to - 1 : t[d] \in Int
           /\ Total(t, from .. to - 1) = Cardinality(Between(from, to, LIVE_STATUSES))
<1>1. PICK B : B = Between(from, to, LIVE_STATUSES) /\ B \subseteq Made /\ IsFiniteSet(B)
  BY MadeAreFew DEF Between
<1>2. PICK R : R = from .. to - 1 /\ IsFiniteSet(R)
  <2>1. PICK last \in Int : last = to - 1
    OBVIOUS
  <2>2. IsFiniteSet(from .. last)
    BY FS_Interval
  <2> QED BY <2>1, <2>2
<1>3. PICK g : g = [b \in B |-> DayOn(b)]
  OBVIOUS
<1>4. \A b \in Made : DayOn(b) \in Nat
  BY MadeHaveDays
<1>5. g \in [B -> R]
  BY <1>1, <1>2, <1>3, <1>4 DEF Between
<1>6. ASSUME NEW d \in R PROVE t[d] = Cardinality({b \in B : g[b] = d}) /\ t[d] \in Int
  <2>1. d \in Int /\ from <= d /\ d < to
    BY <1>2
  <2>2. {b \in B : DayOn(b) = d} = LiveOn(d)
    BY <1>1, <2>1 DEF Between, LiveOn
  <2>3. {b \in B : g[b] = d} = LiveOn(d)
    BY <1>3, <2>2
  <2>4. t[d] = Cardinality(LiveOn(d))
    BY <1>2
  <2>5. LiveOn(d) \subseteq Made
    BY DEF LiveOn
  <2>6. Cardinality(LiveOn(d)) \in Nat
    BY <2>5, MadeAreFew
  <2>7. t[d] \in Int
    BY <2>4, <2>6
  <2> QED BY <2>3, <2>4, <2>7
<1>7. \A d \in R : t[d] = Cardinality({b \in B : g[b] = d})
  BY <1>6
<1>8. Total(t, R) = Cardinality(B)
  <2>1. IsFiniteSet(B) /\ IsFiniteSet(R)
    BY <1>1, <1>2
  <2> QED BY ONLY <1>5, <1>7, <2>1, GroupsCount
<1> QED BY <1>1, <1>2, <1>6, <1>8

\* A query for the live bookings of these days, and nothing else.
Unfiltered(f, from, to) ==
    /\ f.from = from /\ f.to = to /\ f.statuses = LIVE_STATUSES /\ f.staff = Staff
    /\ ~f.notReminded /\ ~f.conflictsOnly

\* dailyTotals(), of the live bookings.
LEMMA TotalsOfADay ==
    ASSUME ShelfInv, NEW from \in Int, NEW to \in Int, NEW f, Unfiltered(f, from, to),
           NEW t, t = DailyTotals(f)
    PROVE  /\ DOMAIN t = from .. to - 1
           /\ \A d \in from .. to - 1 : /\ t[d].n = Cardinality(LiveOn(d))
                                        /\ t[d].revenue = Worth(LiveOn(d))
<1>2. /\ f.from = from /\ f.to = to /\ f.statuses = LIVE_STATUSES /\ f.staff = Staff
      /\ ~f.notReminded /\ ~f.conflictsOnly
  BY DEF Unfiltered
<1>3. BookingWhere(f) = Between(from, to, LIVE_STATUSES)
  BY <1>2, WhereIs
<1>4. ASSUME NEW d \in from .. to - 1
      PROVE  t[d].n = Cardinality(LiveOn(d)) /\ t[d].revenue = Worth(LiveOn(d))
  <2>1. d \in Int /\ from <= d /\ d < to
    OBVIOUS
  <2>2. {b \in BookingWhere(f) : DayOn(b) = d} = LiveOn(d)
    BY <1>3, <2>1 DEF Between, LiveOn
  <2>3. t[d] = [n |-> Cardinality({b \in BookingWhere(f) : DayOn(b) = d}),
                revenue |-> Worth({b \in BookingWhere(f) : DayOn(b) = d})]
    BY <1>2, Zenon DEF DailyTotals
  <2> QED BY <2>2, <2>3
<1> QED BY <1>2, <1>4 DEF DailyTotals

\* What list() answers of a window.
PagesOf(base) ==
    [k \in Pages(BookingWhere(base)) |-> ListPage(base, PageSize, (k - 1) * PageSize)]
ListOf(base) ==
    [pages |-> PagesOf(base),
     total |-> Numbers(StatusTotals(base), DOMAIN StatusTotals(base)),
     kpis |-> WindowKpis(StatusTotals(base), Count([base EXCEPT !.conflictsOnly = TRUE]))]

\* list(): its total and its tiles are over the bookings its filter finds.
LEMMA ListCounts ==
    ASSUME ShelfInv, NEW filter, NEW from, NEW to, NEW staff,
           NEW l, l = List(filter, from, to, staff),
           NEW base, base = ListBase(filter, from, to, staff),
           base.statuses \subseteq LIVE_STATUSES
    PROVE  /\ l.total = Cardinality(BookingWhere(base))
           /\ l.kpis.booked = Cardinality(BookingWhere(base))
           /\ l.kpis.pendingDeposits
                = Cardinality(Having(base, {"pending_payment"}))
           /\ l.pages = PagesOf(base)
<1>1. PICK t : t = StatusTotals(base)
  OBVIOUS
<1>2. PICK B : B = BookingWhere(base)
  OBVIOUS
<1>3. DOMAIN t = {booking[b].st : b \in B} /\ \A b \in B : booking[b].st \in LIVE_STATUSES
  BY <1>1, <1>2 DEF StatusTotals, BookingWhere
<1>4. PICK live : live = Among(t, LIVE_STATUSES) /\ live = DOMAIN t
  BY <1>3 DEF Among
<1>5. PICK due : due = Among(t, {"pending_payment"})
  OBVIOUS
<1>6. Having(base, LIVE_STATUSES) = B
  BY <1>2, <1>3 DEF Having
<1>8. Numbers(t, live) = Cardinality(Having(base, LIVE_STATUSES))
  BY <1>1, <1>4, StatusesAddUp
<1>9. Numbers(t, due) = Cardinality(Having(base, {"pending_payment"}))
  BY <1>1, <1>5, StatusesAddUp
<1>10. PICK conflicts : conflicts = Count([base EXCEPT !.conflictsOnly = TRUE])
  OBVIOUS
<1>11. List(filter, from, to, staff) = ListOf(ListBase(filter, from, to, staff))
  BY Zenon DEF List, ListOf, PagesOf, Numbers
<1>12. /\ l.total = Numbers(t, live) /\ l.kpis = WindowKpis(t, conflicts)
       /\ l.pages = PagesOf(base)
  BY <1>1, <1>4, <1>10, <1>11 DEF ListOf
<1>13. PICK worth : worth = MapThenSumSet(LAMBDA st : t[st].revenue, live)
  OBVIOUS
<1>14. {st \in DOMAIN t : st \in LIVE_STATUSES} = live
       /\ {st \in live : st = "pending_payment"} = due
  BY <1>4, <1>5 DEF Among
<1>15. WindowKpis(t, conflicts) = [booked |-> Numbers(t, live), revenue |-> worth,
                                   pendingDeposits |-> Numbers(t, due), conflicts |-> conflicts]
  BY <1>13, <1>14, Zenon DEF WindowKpis, Numbers
<1>16. l.kpis.booked = Numbers(t, live) /\ l.kpis.pendingDeposits = Numbers(t, due)
  BY <1>12, <1>15
<1> QED BY <1>2, <1>6, <1>8, <1>9, <1>12, <1>16

\* The bookings of a day that these professionals have.
Own(d, staff) == {b \in LiveOn(d) : StaffOf[booking[b].slot] \in staff}
ColumnsOf(S, staff) ==
    [p \in InViewFor(staff) |-> Cardinality({b \in S : StaffOf[booking[b].slot] = p})]
DueIn(S) == {b \in S : booking[b].st = "pending_payment"}

\* day(), with no chip: the grid and the strip are over one set.
LEMMA DayShows ==
    ASSUME ShelfInv, NEW d \in Int, NEW staff, NEW v, v = DayView(d, {}, {}, staff)
    PROVE  /\ v.bookings = Decorate(Own(d, staff))
           /\ v.columns = ColumnsOf(Own(d, staff), staff)
           /\ v.kpis.booked = Cardinality(Own(d, staff)) /\ v.kpis.revenue = Worth(Own(d, staff))
           /\ v.kpis.utilisation = Utilisation(Minutes(Own(d, staff)), Sellable(staff, {d}))
           /\ v.kpis.pendingDeposits = Cardinality(DueIn(Own(d, staff)))
<1>1. PICK f : f = DayWindow(d, staff)
  OBVIOUS
<1>2. /\ f.from = d /\ f.to = d + 1 /\ f.statuses = CHIP_STATUSES /\ f.staff = staff
      /\ ~f.notReminded /\ ~f.conflictsOnly
  BY <1>1 DEF DayWindow, Days
<1>3. PICK all : all = BookingWhere(f)
  OBVIOUS
<1>4. all = {b \in Between(d, d + 1, CHIP_STATUSES) : StaffOf[booking[b].slot] \in staff}
  BY <1>2, <1>3, WhereIs
<1>5. PICK own : own = Own(d, staff)
  OBVIOUS
<1>6. {b \in all : booking[b].st \in LIVE_STATUSES} = own
  <2>1. {b \in Between(d, d + 1, CHIP_STATUSES) : booking[b].st \in LIVE_STATUSES} = LiveOn(d)
    BY OneDay
  <2> QED BY <1>4, <1>5, <2>1 DEF Own
<1>7. GridOf(all, {}, {}) = own
  <2>1. StatusesForChips({}) = LIVE_STATUSES
    BY DEF StatusesForChips
  <2>2. \A b : MatchesAnyPaymentChip({}, booking[b].pay, booking[b].st)
    BY DEF MatchesAnyPaymentChip
  <2>3. GridOf(all, {}, {}) = {b \in all : booking[b].st \in LIVE_STATUSES}
    BY <2>1, <2>2 DEF GridOf
  <2> QED BY <1>6, <2>3
<1>8. PICK n : n = Cardinality({m \in OpenConflicts : m.day = d})
  OBVIOUS
<1>8b. PICK columns : columns = [p \in InViewFor(staff) |->
                                  Cardinality({b \in own : StaffOf[booking[b].slot] = p})]
  OBVIOUS
<1>9. v = [bookings |-> Decorate(own), columns |-> columns,
           counts |-> ChipCounts(StatusTotals(f)),
           kpis |-> StripOf(all, Sellable(staff, {d}), n)]
  BY <1>1, <1>3, <1>7, <1>8, <1>8b, Zenon DEF DayView
<1>10. PICK k : k = StripOf(all, Sellable(staff, {d}), n)
  OBVIOUS
<1>11. k = [booked |-> Cardinality(own), revenue |-> Worth(own),
            utilisation |-> Utilisation(Minutes(own), Sellable(staff, {d})),
            pendingDeposits |-> Cardinality({b \in own : booking[b].st = "pending_payment"}),
            conflicts |-> n]
  BY <1>6, <1>10, Zenon DEF StripOf
<1>12. v.bookings = Decorate(own) /\ v.columns = columns /\ v.kpis = k
  BY <1>9, <1>10
<1>13. /\ k.booked = Cardinality(own) /\ k.revenue = Worth(own)
       /\ k.utilisation = Utilisation(Minutes(own), Sellable(staff, {d}))
       /\ k.pendingDeposits = Cardinality({b \in own : booking[b].st = "pending_payment"})
  BY <1>11
<1> QED BY <1>5, <1>8b, <1>12, <1>13, Zenon DEF ColumnsOf, DueIn

\* A view names its booking: there are as many views as bookings.
LEMMA ViewsAreBookings ==
    ASSUME NEW S, IsFiniteSet(S)
    PROVE  /\ Cardinality(Decorate(S)) = Cardinality(S)
           /\ \A v \in Decorate(S) : v.id \in S
<1>1. PICK c : c = ConflictsFor(S)
  OBVIOUS
<1>2. PICK f : f = [b \in S |-> ToView(b, c)]
  OBVIOUS
<1>3. PICK D : D = Decorate(S)
  OBVIOUS
<1>4. D = {f[b] : b \in S}
  BY <1>1, <1>2, <1>3 DEF Decorate
<1>5. \A b \in S : f[b].id = b
  BY <1>2 DEF ToView
<1>6. f \in Bijection(S, D)
  <2>1. f \in [S -> D] /\ \A v \in D : \E b \in S : f[b] = v
    BY <1>2, <1>4
  <2>2. \A a, b \in S : f[a] = f[b] => a = b
    BY <1>5
  <2> QED BY <2>1, <2>2 DEF Bijection, Injection, Surjection, IsInjective
<1> QED BY <1>3, <1>4, <1>5, <1>6, FS_Bijection DEF ExistsBijection

\* What is on the grid occupies the diary, unless it was revived.
LEMMA GridOccupies ==
    ASSUME ShelfInv, NEW d \in Int, NEW b \in LiveOn(d)
    PROVE  Revived(b) \/ \E r \in RowsOf(b) : r.blocking /\ DayOf(StartOf[r.slot]) = d
<1>1. b \in Bookings /\ booking[b].st \in LIVE_STATUSES /\ DayOf(StartOf[booking[b].slot]) = d
  BY DEF LiveOn, Made, DayOn, StartAt
<1>2. booking[b].st \in BLOCKING_STATES /\ booking[b].st \notin Exits
  BY <1>1 DEF LIVE_STATUSES, BLOCKING_STATES, Exits
<1>3. KeepsOwn(b) \/ WasAbsent(b)
  BY <1>1, <1>2 DEF ShelfInv, Placed
<1>4. KeepsOwn(b) => \E r \in RowsOf(b) : r.blocking /\ DayOf(StartOf[r.slot]) = d
  BY <1>1 DEF KeepsOwn
<1>5. WasAbsent(b) => Revived(b)
  BY <1>2 DEF WasAbsent, Revived
<1> QED BY <1>3, <1>4, <1>5

\* What week() answers of its rows and its totals.
WeekOf(from, all, totals, views, n, counts, shown) ==
    [days |-> [d \in from .. from + 6 |->
                 [count |-> totals[d].n, revenue |-> totals[d].revenue,
                  bookings |-> {v \in views : v.date = d}]],
     kpis |-> StripOf(all, Sellable(Staff, from .. from + 6), n),
     counts |-> counts, total |-> Numbers(totals, from .. from + 6),
     returned |-> Cardinality(shown)]

\* week(): the strip counts the days.
LEMMA WeekAddsUp ==
    ASSUME ShelfInv, NEW week, week = WeekView(Today, {}, {}, Staff)
    PROVE  /\ DOMAIN week.days = Today .. Today + 6
           /\ \A d \in Today .. Today + 6 : week.days[d].count = Cardinality(LiveOn(d))
           /\ week.kpis.booked = week.total
<1>0. PICK from \in Int : from = Today
  BY MadeHaveDays
<1>1. PICK days : days = from .. from + 6
  OBVIOUS
<1>2. PICK to \in Int : to = from + 7 /\ days = from .. to - 1
  BY <1>1
<1>3. PICK f : f = WeekWindow(from, Staff) /\ Unfiltered(f, from, to)
  BY <1>2 DEF WeekWindow, Days, Unfiltered
<1>4. PICK t : t = DailyTotals(f)
  OBVIOUS
<1>5. DOMAIN t = days /\ \A d \in days : t[d].n = Cardinality(LiveOn(d))
  <2>1. /\ DOMAIN t = from .. to - 1
        /\ \A d \in from .. to - 1 : t[d].n = Cardinality(LiveOn(d))
    BY <1>3, <1>4, TotalsOfADay
  <2> QED BY <1>2, <2>1
<1>6. PICK all : all = WeekRows(from, Staff)
  OBVIOUS
<1>7. {b \in all : booking[b].st \in LIVE_STATUSES} = Between(from, to, LIVE_STATUSES)
  <2>1. PICK g : g = [WeekWindow(from, Staff) EXCEPT !.statuses = CHIP_STATUSES]
    OBVIOUS
  <2>2. /\ g.from = from /\ g.to = to /\ g.statuses = CHIP_STATUSES /\ g.staff = Staff
        /\ ~g.notReminded /\ ~g.conflictsOnly
    BY <1>2, <2>1 DEF Days, WeekWindow
  <2>3. all = Between(from, to, CHIP_STATUSES)
    BY <1>6, <2>1, <2>2, WhereIs DEF WeekRows
  <2>4. LIVE_STATUSES \subseteq CHIP_STATUSES
    BY DEF LIVE_STATUSES, CHIP_STATUSES, CHIP_MAP, CALENDAR_CHIPS
  <2> QED BY <2>3, <2>4 DEF Between
<1>8. PICK views, n, counts, shown : week = WeekOf(from, all, t, views, n, counts, shown)
  <2>1. WeekView(from, {}, {}, Staff)
          = WeekOf(from, WeekRows(from, Staff), DailyTotals(WeekWindow(from, Staff)),
                   Decorate(GridOf(WeekRows(from, Staff), {}, {})),
                   Cardinality({m \in OpenConflicts : m.day \in from .. from + 6}),
                   ChipCounts(StatusTotals([WeekWindow(from, Staff) EXCEPT
                                              !.statuses = CHIP_STATUSES])),
                   GridOf(WeekRows(from, Staff), {}, {}))
    BY Zenon DEF WeekView, WeekOf, Numbers
  <2>2. week = WeekOf(from, all, t, Decorate(GridOf(all, {}, {})),
                   Cardinality({m \in OpenConflicts : m.day \in from .. from + 6}),
                   ChipCounts(StatusTotals([WeekWindow(from, Staff) EXCEPT
                                              !.statuses = CHIP_STATUSES])),
                   GridOf(all, {}, {}))
    BY <1>0, <1>3, <1>4, <1>6, <2>1, Zenon
  <2> QED BY <2>2, Zenon
<1>8a. PICK k, s : s = Sellable(Staff, days) /\ k = StripOf(all, s, n)
  OBVIOUS
<1>9. k.booked = Cardinality(Between(from, to, LIVE_STATUSES))
  <2>2. k.booked = Cardinality({b \in all : booking[b].st \in LIVE_STATUSES})
    BY <1>8a DEF StripOf
  <2> QED BY <1>7, <2>2
<1>10. /\ week.kpis = k /\ week.total = Numbers(t, days) /\ DOMAIN week.days = days
       /\ \A d \in days : week.days[d].count = t[d].n
  BY <1>1, <1>8, <1>8a DEF WeekOf
<1>11. PICK w : w = [x \in days |-> t[x].n]
  OBVIOUS
<1>12. \A d \in from .. to - 1 : w[d] = Cardinality(LiveOn(d))
  BY <1>2, <1>5, <1>11
<1>13. /\ IsFiniteSet(days) /\ \A d \in days : w[d] \in Int
       /\ Total(w, days) = Cardinality(Between(from, to, LIVE_STATUSES))
  <2>1. /\ IsFiniteSet(from .. to - 1) /\ \A d \in from .. to - 1 : w[d] \in Int
        /\ Total(w, from .. to - 1) = Cardinality(Between(from, to, LIVE_STATUSES))
    BY <1>12, DaysAddUp
  <2> QED BY <1>2, <2>1
<1>14. Numbers(t, days) = Total(w, days)
  <2>1. \A x \in days : t[x].n \in Int
    BY <1>11, <1>13
  <2> QED BY <1>11, <1>13, <2>1, NumbersAreTotal
<1> QED BY <1>0, <1>1, <1>5, <1>9, <1>10, <1>13, <1>14

\* month(): a cell counts its day.
LEMMA MonthCounts ==
    ASSUME ShelfInv, NEW month, month = MonthView(0, Today + Horizon)
    PROVE  /\ DOMAIN month.cells = 0 .. Today + Horizon - 1 /\ Today \in DOMAIN month.cells
           /\ \A d \in DOMAIN month.cells : /\ d \in Int
                                            /\ month.cells[d].count = Cardinality(LiveOn(d))
                                            /\ month.cells[d].revenue = Worth(LiveOn(d))
<1>1. PICK to \in Int : to = Today + Horizon /\ Today \in 0 .. to - 1
  BY MadeHaveDays, ScreensAssumption
<1>2. PICK f : f = Days(0, to) /\ Unfiltered(f, 0, to)
  <2>1. PICK f : f = Days(0, to)
    OBVIOUS
  <2>2. /\ f.from = 0 /\ f.to = to /\ f.statuses = LIVE_STATUSES /\ f.staff = Staff
        /\ ~f.notReminded /\ ~f.conflictsOnly
    BY <2>1 DEF Days
  <2> QED BY <2>1, <2>2 DEF Unfiltered
<1>3. PICK t : t = DailyTotals(f)
  OBVIOUS
<1>4. 0 \in Int
  OBVIOUS
<1>5. \A d \in 0 .. to - 1 : t[d].n = Cardinality(LiveOn(d)) /\ t[d].revenue = Worth(LiveOn(d))
  BY <1>2, <1>3, <1>4, TotalsOfADay
<1>6. PICK cells : cells = [d \in 0 .. to - 1 |->
                              [count |-> t[d].n, revenue |-> t[d].revenue,
                               withinHorizon |-> d <= Today + Horizon]]
  OBVIOUS
<1>7. PICK kpis, counts : month = [cells |-> cells, kpis |-> kpis, counts |-> counts]
  BY <1>1, <1>2, <1>3, <1>6, Zenon DEF MonthView
<1>8. month.cells = cells
  BY <1>7
<1>9. \A d \in 0 .. to - 1 : cells[d].count = t[d].n /\ cells[d].revenue = t[d].revenue
  BY <1>6
<1>10. DOMAIN month.cells = 0 .. to - 1
  BY <1>6, <1>8
<1>11. \A d \in 0 .. to - 1 : month.cells[d].count = Cardinality(LiveOn(d))
                               /\ month.cells[d].revenue = Worth(LiveOn(d))
  BY <1>5, <1>8, <1>9
<1>12. \A d \in 0 .. to - 1 : d \in Int
  OBVIOUS
<1>13. 0 .. to - 1 = 0 .. Today + Horizon - 1
  <2>1. Today \in Int /\ Horizon \in Int /\ to = Today + Horizon
    BY <1>1, MadeHaveDays, ScreensAssumption
  <2> QED BY ONLY <2>1
<1> QED BY <1>1, <1>10, <1>11, <1>12, <1>13, Zenon

\* The list of one day is the day's.
LEMMA DayList ==
    ASSUME ShelfInv, NEW d \in Nat, NEW staff, NEW l, l = List("ALL", d, d, staff)
    PROVE  /\ l.total = Cardinality(Own(d, staff))
           /\ l.kpis.pendingDeposits = Cardinality(DueIn(Own(d, staff)))
<1>1. PICK base : base = ListBase("ALL", d, d, staff)
  OBVIOUS
<1>2. PICK w : w = WindowFor("ALL", d, d) /\ w = Days(d, d + 1)
  <2>1. d # None
    BY VisitsAssumption
  <2> QED BY <2>1 DEF WindowFor
<1>3. /\ base.from = d /\ base.to = d + 1 /\ base.statuses = LIVE_STATUSES
      /\ base.staff = staff /\ ~base.notReminded /\ ~base.conflictsOnly
  <2>1. StatusesFor("ALL") = LIVE_STATUSES
    BY DEF StatusesFor
  <2>2. base = [Days(d, d + 1) EXCEPT !.statuses = LIVE_STATUSES, !.staff = staff,
                                      !.notReminded = FALSE, !.conflictsOnly = FALSE]
    BY <1>1, <1>2, <2>1, Zenon DEF ListBase
  <2> QED BY <2>2 DEF Days
<1>4. BookingWhere(base) = {b \in Between(d, d + 1, LIVE_STATUSES) :
                              StaffOf[booking[b].slot] \in staff}
  BY <1>3, WhereIs
<1>5. BookingWhere(base) = Own(d, staff)
  BY <1>4, OneDay DEF Own
<1>6. base.statuses \subseteq LIVE_STATUSES
  BY <1>3
<1>7. /\ l.total = Cardinality(BookingWhere(base))
      /\ l.kpis.pendingDeposits = Cardinality(Having(base, {"pending_payment"}))
  BY <1>1, <1>6, ListCounts
<1>8. Having(base, {"pending_payment"}) = DueIn(Own(d, staff))
  BY <1>5 DEF Having, DueIn
<1> QED BY <1>5, <1>7, <1>8

\* What the screens agree on about one day.
DayAgrees(week, month, d, day, l) ==
    /\ day.kpis.booked = month.cells[d].count
    /\ day.kpis.revenue = month.cells[d].revenue
    /\ d \in DOMAIN week.days => week.days[d].count = month.cells[d].count
    /\ l.total = month.cells[d].count
    /\ l.kpis.pendingDeposits = day.kpis.pendingDeposits
    /\ \A p \in Staff :
         /\ List("ALL", d, d, {p}).total = day.columns[p]
         /\ DayView(d, {}, {}, {p}).kpis.utilisation
              = Utilisation(day.columns[p] * Length, SellableMinutes(Shift[p], {}))
    /\ Cardinality(day.bookings) = day.kpis.booked
    /\ \A v \in day.bookings : Revived(v.id) \/
         \E r \in RowsOf(v.id) : r.blocking /\ DayOf(StartOf[r.slot]) = d

\* The day, the month, the list and each professional's screen, of one day.
LEMMA OneDayAgrees ==
    ASSUME ShelfInv, NEW month, month = MonthView(0, Today + Horizon),
           NEW week, week = WeekView(Today, {}, {}, Staff),
           NEW d \in DOMAIN month.cells,
           NEW day, day = DayView(d, {}, {}, Staff), NEW l, l = List("ALL", d, d, Staff)
    PROVE  DayAgrees(week, month, d, day, l)
<1>1. /\ d \in 0 .. Today + Horizon - 1 /\ month.cells[d].count = Cardinality(LiveOn(d))
      /\ month.cells[d].revenue = Worth(LiveOn(d))
  BY MonthCounts
<1>2. d \in Nat /\ d \in Int
  BY <1>1, MadeHaveDays, ScreensAssumption
<1>3. LiveOn(d) \subseteq Made /\ Own(d, Staff) = LiveOn(d)
  BY MadeHaveDays DEF Own, LiveOn
<1>4. IsFiniteSet(LiveOn(d))
  BY <1>3, MadeAreFew
<1>5. /\ day.bookings = Decorate(LiveOn(d))
      /\ day.columns = ColumnsOf(LiveOn(d), Staff)
      /\ day.kpis.booked = Cardinality(LiveOn(d)) /\ day.kpis.revenue = Worth(LiveOn(d))
      /\ day.kpis.pendingDeposits = Cardinality(DueIn(LiveOn(d)))
  <2>1. /\ day.bookings = Decorate(Own(d, Staff))
        /\ day.columns = ColumnsOf(Own(d, Staff), Staff)
        /\ day.kpis.booked = Cardinality(Own(d, Staff))
        /\ day.kpis.revenue = Worth(Own(d, Staff))
        /\ day.kpis.pendingDeposits = Cardinality(DueIn(Own(d, Staff)))
    BY <1>2, DayShows
  <2> QED BY <1>3, <2>1, Zenon
<1>6. /\ l.total = Cardinality(LiveOn(d))
      /\ l.kpis.pendingDeposits = Cardinality(DueIn(LiveOn(d)))
  <2>1. /\ l.total = Cardinality(Own(d, Staff))
        /\ l.kpis.pendingDeposits = Cardinality(DueIn(Own(d, Staff)))
    BY <1>2, DayList
  <2> QED BY <1>3, <2>1, Zenon
<1>7. d \in DOMAIN week.days => week.days[d].count = Cardinality(LiveOn(d))
  BY WeekAddsUp
<1>8. ASSUME NEW p \in Staff
      PROVE  /\ List("ALL", d, d, {p}).total = day.columns[p]
             /\ DayView(d, {}, {}, {p}).kpis.utilisation
                  = Utilisation(day.columns[p] * Length, SellableMinutes(Shift[p], {}))
  <2>1. PICK own : own = Own(d, {p})
    OBVIOUS
  <2>2. own = {b \in LiveOn(d) : StaffOf[booking[b].slot] = p} /\ own \subseteq Made
    BY <1>3, <2>1 DEF Own
  <2>3. IsFiniteSet(own) /\ Cardinality(own) \in Nat
    BY <2>2, MadeAreFew
  <2>4. InViewFor(Staff) = Staff
    BY DEF InViewFor
  <2>5. day.columns[p] = Cardinality(own)
    BY <1>5, <2>2, <2>4 DEF ColumnsOf
  <2>6. List("ALL", d, d, {p}).total = Cardinality(own)
    BY <1>2, <2>1, DayList
  <2>7. DayView(d, {}, {}, {p}).kpis.utilisation = Utilisation(Minutes(own), Sellable({p}, {d}))
    BY <1>2, <2>1, DayShows
  <2>8. Minutes(own) = day.columns[p] * Length
    <3>1. Minutes(own) = Length * Cardinality(own)
      BY <2>3, MinutesAre
    <3>2. PICK n \in Nat : n = Cardinality(own)
      BY <2>3
    <3>3. Length * n = n * Length
      BY VisitsAssumption
    <3> QED BY <2>5, <3>1, <3>2, <3>3
  <2>9. Sellable({p}, {d}) = SellableMinutes(Shift[p], {})
    BY OneShift
  <2> QED BY <2>5, <2>6, <2>7, <2>8, <2>9
<1>9. /\ Cardinality(day.bookings) = Cardinality(LiveOn(d))
      /\ \A v \in day.bookings : v.id \in LiveOn(d)
  BY <1>4, <1>5, ViewsAreBookings
<1>10. \A v \in day.bookings : Revived(v.id) \/
         \E r \in RowsOf(v.id) : r.blocking /\ DayOf(StartOf[r.slot]) = d
  BY <1>2, <1>9, GridOccupies
<1> QED BY <1>1, <1>5, <1>6, <1>7, <1>8, <1>9, <1>10 DEF DayAgrees

\* A row that shares its time with no other is on the page its place falls on,
\* whichever of the others the queries for the pages put first.
LEMMA FirstPages ==
    ASSUME NEW W, IsFiniteSet(W), NEW at, \A a \in W : at[a] \in Int,
           NEW b \in W, \A c \in W \ {b} : at[c] # at[b],
           NEW n \in Nat, NEW s \in Int, NEW L, L = {a \in W : at[a] < at[b]},
           s <= Cardinality(L), Cardinality(L) < s + n,
           NEW skipped \in FirstOf(W, at, s), NEW page \in FirstOf(W \ skipped, at, n)
    PROVE  b \in page
<1>1. IsFiniteSet(L) /\ L \subseteq W /\ b \notin L
  BY FS_Subset
<1>2. PICK r \in Nat : r = Cardinality(L)
  BY <1>1, FS_CardinalityType
<1>3. /\ skipped \subseteq W /\ Cardinality(skipped) <= s
      /\ skipped # W => Cardinality(skipped) = s
      /\ \A x \in skipped, y \in W \ skipped : at[x] <= at[y]
  BY Zenon DEF FirstOf
<1>4. /\ page \subseteq W \ skipped
      /\ page # W \ skipped => Cardinality(page) = n
      /\ \A x \in page, y \in (W \ skipped) \ page : at[x] <= at[y]
  BY Zenon DEF FirstOf
<1>5. IsFiniteSet(skipped) /\ IsFiniteSet(page) /\ Cardinality(skipped) \in Nat
      /\ Cardinality(page) \in Nat
  BY <1>3, <1>4, FS_Subset, FS_CardinalityType
<1>6. b \notin skipped
  <2> SUFFICES ASSUME b \in skipped PROVE FALSE
    OBVIOUS
  <2>1. L \subseteq skipped \ {b}
    BY <1>1, <1>3
  <2>2. IsFiniteSet(skipped \ {b}) /\ Cardinality(skipped \ {b}) = Cardinality(skipped) - 1
    BY <1>5, FS_RemoveElement
  <2>3. Cardinality(L) <= Cardinality(skipped \ {b})
    BY <2>1, <2>2, FS_Subset
  <2> QED BY <1>2, <1>3, <1>5, <2>2, <2>3
<1>7. skipped \subseteq L /\ Cardinality(skipped) = s
  <2>1. Cardinality(skipped) = s
    BY <1>3, <1>6
  <2>2. ASSUME NEW x \in skipped PROVE x \in L
    <3>1. x \in W \ {b} /\ at[x] <= at[b]
      BY <1>3, <1>6
    <3>2. at[x] \in Int /\ at[b] \in Int /\ at[x] # at[b]
      BY <3>1
    <3> QED BY <3>1, <3>2
  <2> QED BY <2>1, <2>2
<1>8. PICK rest : rest = L \ skipped
  OBVIOUS
<1>9. IsFiniteSet(rest) /\ Cardinality(rest) = r - s
  <2>1. L \cap skipped = skipped
    BY <1>7
  <2>2. IsFiniteSet(L \ skipped) /\ Cardinality(L \ skipped)
          = Cardinality(L) - Cardinality(L \cap skipped)
    BY <1>1, FS_Difference
  <2> QED BY <1>2, <1>7, <1>8, <2>1, <2>2
<1> SUFFICES ASSUME b \notin page PROVE FALSE
  OBVIOUS
<1>10. b \in (W \ skipped) \ page
  BY <1>6
<1>11. Cardinality(page) = n
  BY <1>4, <1>10
<1>12. page \subseteq rest
  BY <1>4, <1>8, <1>10
<1>13. Cardinality(page) <= Cardinality(rest)
  BY <1>9, <1>12, FS_Subset
<1> QED BY <1>2, <1>9, <1>11, <1>13

\* list(): turning the pages meets every row of a start of its own.
LEMMA PagesMeetAll ==
    ASSUME ShelfInv, NEW base, NEW pages, pages = PagesOf(base),
           NEW b \in BookingWhere(base), ~\E c \in Made \ {b} : StartAt(c) = StartAt(b)
    PROVE  \E k \in DOMAIN pages : \A page \in pages[k] : b \in page
<1>1. PICK W : W = BookingWhere(base)
  OBVIOUS
<1>2. W \subseteq Made /\ b \in W
  BY <1>1 DEF BookingWhere
<1>3. IsFiniteSet(W) /\ Cardinality(W) \in Nat
  BY <1>2, MadeAreFew
<1>4. PICK at : at = [a \in W |-> StartAt(a)]
  OBVIOUS
<1>5. \A a \in W : at[a] \in Int /\ at[a] = StartAt(a)
  BY <1>2, <1>4, MadeHaveDays
<1>6. \A c \in W \ {b} : at[c] # at[b]
  BY <1>2, <1>5
<1>7. PICK L : L = {a \in W : at[a] < at[b]}
  OBVIOUS
<1>8. PICK n \in Nat : n = PageSize /\ n > 0
  BY ScreensAssumption
<1>9. PICK r, last : /\ r = Cardinality(L) /\ last = Cardinality(W)
                     /\ r \in Nat /\ last \in Nat /\ r < last
  <2>1. L \subseteq W \ {b} /\ L \subseteq Made
    BY <1>2, <1>5, <1>7
  <2>2. IsFiniteSet(W \ {b}) /\ Cardinality(W \ {b}) = Cardinality(W) - 1
    BY <1>2, <1>3, FS_RemoveElement
  <2>3. Cardinality(L) <= Cardinality(W \ {b})
    BY <2>1, <2>2, FS_Subset
  <2>4. Cardinality(L) \in Nat
    BY <2>1, MadeAreFew
  <2> QED BY <1>3, <2>2, <2>3, <2>4
<1>10. PICK k \in 1 .. last \div n + 1 : r \in (k - 1) * n .. k * n - 1
  <2>1. PICK P : P = {p \in 1 .. last \div n + 1 : r \in (p - 1) * n .. p * n - 1}
    OBVIOUS
  <2>2. Cardinality(P) = 1
    BY <1>8, <1>9, <2>1, OnePage
  <2>3. P # {}
    BY <2>2, FS_EmptySet
  <2> QED BY <2>1, <2>3
<1>11. PICK s \in Int : s = (k - 1) * n /\ s <= r /\ r < s + n
  <2>1. k \in Int
    BY <1>8, <1>9, <1>10
  <2>2. (k - 1) * n \in Int /\ k * n = (k - 1) * n + n
    BY <2>1
  <2> QED BY <1>9, <1>10, <2>2
<1>12. DOMAIN pages = 1 .. last \div n + 1
  BY <1>1, <1>8, <1>9 DEF PagesOf, Pages
<1>13. pages[k] = ListPage(base, PageSize, (k - 1) * PageSize)
  <2>1. k \in Pages(BookingWhere(base))
    BY <1>1, <1>8, <1>9, <1>10 DEF Pages
  <2> QED BY <2>1 DEF PagesOf
<1>14. pages[k] = UNION {FirstOf(W \ skipped, at, n) : skipped \in FirstOf(W, at, s)}
  <2>1. pages[k] = ListPage(base, n, s)
    BY <1>8, <1>11, <1>13
  <2>2. ListPage(base, n, s)
          = UNION {FirstOf(BookingWhere(base) \ skipped,
                           [a \in BookingWhere(base) |-> StartAt(a)], n) :
                     skipped \in FirstOf(BookingWhere(base),
                                         [a \in BookingWhere(base) |-> StartAt(a)], s)}
    BY Zenon DEF ListPage
  <2>3. at = [a \in BookingWhere(base) |-> StartAt(a)]
    BY <1>1, <1>4
  <2> QED BY ONLY <1>1, <2>1, <2>2, <2>3, Zenon
<1>15. ASSUME NEW page \in pages[k] PROVE b \in page
  <2>1. PICK skipped \in FirstOf(W, at, s) : page \in FirstOf(W \ skipped, at, n)
    BY <1>14, Zenon
  <2>2. s <= Cardinality(L) /\ Cardinality(L) < s + n
    BY <1>9, <1>11
  <2>3. \A a \in W : at[a] \in Int
    BY <1>5
  <2> QED BY ONLY <1>2, <1>3, <1>6, <1>7, <2>1, <2>2, <2>3, FirstPages
<1> QED BY <1>10, <1>12, <1>15

\* What a query asks for decides what it finds.
Asks(f, from, to, sts, reminded, conflicts) ==
    /\ f.from = from /\ f.to = to /\ f.statuses = sts /\ f.staff = Staff
    /\ f.notReminded = reminded /\ f.conflictsOnly = conflicts
LEMMA SameQuestion ==
    ASSUME NEW f, NEW g, NEW from, NEW to, NEW sts, NEW reminded, NEW conflicts,
           Asks(f, from, to, sts, reminded, conflicts), Asks(g, from, to, sts, reminded, conflicts)
    PROVE  Cardinality(BookingWhere(f)) = Count(g) /\ f.statuses = sts
<1>1. BookingWhere(f) = BookingWhere(g) /\ f.statuses = sts
  BY DEF Asks, BookingWhere
<1> QED BY <1>1 DEF Count

\* What list() asks for under a filter, with no dates.
LEMMA FilterAsks ==
    ASSUME NEW filter, NEW from, NEW to, WindowFor(filter, None, None) = Days(from, to),
           NEW base, base = ListBase(filter, None, None, Staff),
           NEW sts, sts = StatusesFor(filter),
           NEW reminded, reminded = (filter = "NOT_REMINDED"),
           NEW conflicts, conflicts = (filter = "CONFLICTS")
    PROVE  Asks(base, from, to, sts, reminded, conflicts)
<1>1. base = [Days(from, to) EXCEPT !.statuses = sts, !.staff = Staff,
                                    !.notReminded = reminded, !.conflictsOnly = conflicts]
  BY Zenon DEF ListBase
<1> QED BY <1>1 DEF Asks, Days

\* counts(): the number on a chip is the number of rows behind it.
LEMMA ChipsCountTheirLists ==
    ASSUME ShelfInv, NEW counts, counts = Counts, NEW filter \in LIST_FILTERS,
           NEW base, base = ListBase(filter, None, None, Staff)
    PROVE  /\ Cardinality(BookingWhere(base)) = counts[filter]
           /\ base.statuses \subseteq LIVE_STATUSES
<1>1. PICK from, to, sts, reminded, conflicts :
        /\ from = Today /\ to = Today + Horizon /\ sts = StatusesFor(filter)
        /\ reminded = (filter = "NOT_REMINDED") /\ conflicts = (filter = "CONFLICTS")
  OBVIOUS
<1>2. PICK ahead : ahead = Days(from, to)
  OBVIOUS
<1>3. filter \notin {"TODAY", "TOMORROW"} => WindowFor(filter, None, None) = Days(from, to)
  BY <1>1 DEF WindowFor, LIST_FILTERS
<1>4. filter \notin {"TODAY", "TOMORROW"} => Asks(base, from, to, sts, reminded, conflicts)
  BY <1>1, <1>3, FilterAsks
<1>5. /\ sts \subseteq LIVE_STATUSES
      /\ filter \notin {"DEPOSIT_PENDING", "UNCONFIRMED"} => sts = LIVE_STATUSES
  BY <1>1 DEF StatusesFor, LIVE_STATUSES
<1>6. /\ counts["ALL"] = Count(ahead)
      /\ counts["TODAY"] = Count(Days(Today, Today + 1))
      /\ counts["TOMORROW"] = Count(Days(Today + 1, Today + 2))
      /\ counts["DEPOSIT_PENDING"] = Count([ahead EXCEPT !.statuses = {"pending_payment"}])
      /\ counts["CONFLICTS"] = Count([ahead EXCEPT !.conflictsOnly = TRUE])
      /\ counts["NOT_REMINDED"] = Count([ahead EXCEPT !.notReminded = TRUE])
      /\ counts["UNCONFIRMED"] = Count([ahead EXCEPT !.statuses = StatusesFor("UNCONFIRMED")])
  BY <1>1, <1>2 DEF Counts
<1>7. CASE filter = "ALL"
  <2>1. Asks(ahead, from, to, sts, FALSE, FALSE) /\ reminded = FALSE /\ conflicts = FALSE
    BY <1>1, <1>2, <1>5, <1>7 DEF Asks, Days
  <2>2. Asks(base, from, to, sts, FALSE, FALSE)
    BY <1>4, <1>7, <2>1
  <2>3. Cardinality(BookingWhere(base)) = Count(ahead) /\ base.statuses = sts
    BY <2>1, <2>2, SameQuestion
  <2> QED BY <1>5, <1>6, <1>7, <2>3
<1>8. CASE filter = "TODAY"
  <2>1. PICK first, next, f : first = Today /\ next = Today + 1 /\ f = Days(first, next)
    OBVIOUS
  <2>2. WindowFor(filter, None, None) = Days(first, next)
    BY <1>8, <2>1 DEF WindowFor
  <2>3. Asks(base, first, next, sts, reminded, conflicts)
    BY <1>1, <2>2, FilterAsks
  <2>4. Asks(f, first, next, sts, FALSE, FALSE) /\ reminded = FALSE /\ conflicts = FALSE
    BY <1>1, <1>5, <1>8, <2>1 DEF Asks, Days
  <2>5. Asks(base, first, next, sts, FALSE, FALSE)
    BY <2>3, <2>4
  <2>6. Cardinality(BookingWhere(base)) = Count(f) /\ base.statuses = sts
    BY <2>4, <2>5, SameQuestion
  <2> QED BY <1>5, <1>6, <1>8, <2>1, <2>6
<1>9. CASE filter = "TOMORROW"
  <2>1. PICK first, next, f : first = Today + 1 /\ next = Today + 2 /\ f = Days(first, next)
    OBVIOUS
  <2>2. WindowFor(filter, None, None) = Days(first, next)
    BY <1>9, <2>1 DEF WindowFor
  <2>3. Asks(base, first, next, sts, reminded, conflicts)
    BY <1>1, <2>2, FilterAsks
  <2>4. Asks(f, first, next, sts, FALSE, FALSE) /\ reminded = FALSE /\ conflicts = FALSE
    BY <1>1, <1>5, <1>9, <2>1 DEF Asks, Days
  <2>5. Asks(base, first, next, sts, FALSE, FALSE)
    BY <2>3, <2>4
  <2>6. Cardinality(BookingWhere(base)) = Count(f) /\ base.statuses = sts
    BY <2>4, <2>5, SameQuestion
  <2> QED BY <1>5, <1>6, <1>9, <2>1, <2>6
<1>10. CASE filter = "DEPOSIT_PENDING"
  <2>1. PICK f : f = [ahead EXCEPT !.statuses = {"pending_payment"}]
    OBVIOUS
  <2>2. sts = {"pending_payment"} /\ reminded = FALSE /\ conflicts = FALSE
    BY <1>1, <1>10 DEF StatusesFor
  <2>3. Asks(f, from, to, sts, FALSE, FALSE)
    BY <1>2, <2>1, <2>2 DEF Asks, Days
  <2> QED BY <1>4, <1>5, <1>6, <1>10, <2>1, <2>2, <2>3, SameQuestion
<1>11. CASE filter = "CONFLICTS"
  <2>1. PICK f : f = [ahead EXCEPT !.conflictsOnly = TRUE]
    OBVIOUS
  <2>2. sts = LIVE_STATUSES /\ reminded = FALSE /\ conflicts = TRUE
    BY <1>1, <1>5, <1>11
  <2>3. Asks(f, from, to, sts, FALSE, TRUE)
    BY <1>2, <2>1, <2>2 DEF Asks, Days
  <2> QED BY <1>4, <1>5, <1>6, <1>11, <2>1, <2>2, <2>3, SameQuestion
<1>12. CASE filter = "NOT_REMINDED"
  <2>1. PICK f : f = [ahead EXCEPT !.notReminded = TRUE]
    OBVIOUS
  <2>2. sts = LIVE_STATUSES /\ reminded = TRUE /\ conflicts = FALSE
    BY <1>1, <1>5, <1>12
  <2>3. Asks(f, from, to, sts, TRUE, FALSE)
    BY <1>2, <2>1, <2>2 DEF Asks, Days
  <2> QED BY <1>4, <1>5, <1>6, <1>12, <2>1, <2>2, <2>3, SameQuestion
<1>13. CASE filter = "UNCONFIRMED"
  <2>1. PICK f : f = [ahead EXCEPT !.statuses = StatusesFor("UNCONFIRMED")]
    OBVIOUS
  <2>2. sts = StatusesFor("UNCONFIRMED") /\ reminded = FALSE /\ conflicts = FALSE
    BY <1>1, <1>13
  <2>3. Asks(f, from, to, sts, FALSE, FALSE)
    BY <1>2, <2>1, <2>2 DEF Asks, Days
  <2> QED BY <1>4, <1>5, <1>6, <1>13, <2>1, <2>2, <2>3, SameQuestion
<1> QED BY <1>7, <1>8, <1>9, <1>10, <1>11, <1>12, <1>13 DEF LIST_FILTERS

\* The list under every filter, its chip and its pages.
LEMMA ListsAgree ==
    ASSUME ShelfInv, NEW counts, counts = Counts, NEW filter \in LIST_FILTERS,
           NEW l, l = List(filter, None, None, Staff),
           NEW base, base = ListBase(filter, None, None, Staff)
    PROVE  /\ l.total = counts[filter] /\ l.kpis.booked = l.total
           /\ \A b \in BookingWhere(base) :
                \/ \E k \in DOMAIN l.pages : \A page \in l.pages[k] : b \in page
                \/ \E c \in Made \ {b} : StartAt(c) = StartAt(b)
<1>1. /\ Cardinality(BookingWhere(base)) = counts[filter]
      /\ base.statuses \subseteq LIVE_STATUSES
  BY ChipsCountTheirLists
<1>2. /\ l.total = Cardinality(BookingWhere(base))
      /\ l.kpis.booked = Cardinality(BookingWhere(base)) /\ l.pages = PagesOf(base)
  BY <1>1, ListCounts
<1>3. PICK pages : pages = PagesOf(base)
  OBVIOUS
<1>4. ASSUME NEW b \in BookingWhere(base), ~\E c \in Made \ {b} : StartAt(c) = StartAt(b)
      PROVE  \E k \in DOMAIN pages : \A page \in pages[k] : b \in page
  BY ONLY ShelfInv, <1>3, <1>4, PagesMeetAll
<1> QED BY <1>1, <1>2, <1>3, <1>4

\* worklist(): the deposits pending ahead, and those beyond the horizon.
LEMMA WorklistCounts ==
    ASSUME ShelfInv, NEW counts, counts = Counts
    PROVE  DepositsPending(Today) = counts["DEPOSIT_PENDING"] + DepositsPending(Today + Horizon)
<1>1. PICK from, to : /\ from = Today /\ to = Today + Horizon /\ from \in Nat /\ to \in Nat
                      /\ from <= to
  BY MadeHaveDays, ScreensAssumption
<1>2. PICK f : f = [Days(from, to) EXCEPT !.statuses = {"pending_payment"}]
  OBVIOUS
<1>3. PICK A : A = BookingWhere(f)
  OBVIOUS
<1>4. PICK B : B = {b \in Made : DayOn(b) >= to /\ booking[b].st = "pending_payment"}
  OBVIOUS
<1>5. PICK C : C = {b \in Made : DayOn(b) >= from /\ booking[b].st = "pending_payment"}
  OBVIOUS
<1>6. A = Between(from, to, {"pending_payment"})
  <2>1. /\ f.from = from /\ f.to = to /\ f.statuses = {"pending_payment"} /\ f.staff = Staff
        /\ ~f.notReminded /\ ~f.conflictsOnly
    BY <1>2 DEF Days
  <2> QED BY <1>3, <2>1, WhereIs
<1>7. \A b \in Made : DayOn(b) \in Nat
  BY MadeHaveDays
<1>8. C = A \cup B /\ A \cap B = {} /\ A \subseteq Made /\ B \subseteq Made
  BY <1>1, <1>4, <1>5, <1>6, <1>7 DEF Between
<1>9. IsFiniteSet(A) /\ IsFiniteSet(B) /\ Cardinality(A) \in Nat /\ Cardinality(B) \in Nat
  BY <1>8, MadeAreFew
<1>10. Cardinality(C) = Cardinality(A) + Cardinality(B)
  <2>1. Cardinality(A \cup B)
          = Cardinality(A) + Cardinality(B) - Cardinality(A \cap B)
    BY <1>9, FS_Union
  <2>2. Cardinality(A \cap B) = 0
    BY <1>8, FS_EmptySet
  <2> QED BY <1>8, <1>9, <2>1, <2>2
<1>11. counts["DEPOSIT_PENDING"] = Cardinality(A)
  BY <1>1, <1>2, <1>3 DEF Counts, Count
<1>12. DepositsPending(from) = Cardinality(C) /\ DepositsPending(to) = Cardinality(B)
  BY <1>4, <1>5, Zenon DEF DepositsPending
<1> QED BY <1>1, <1>10, <1>11, <1>12

\* A row that can be shown is behind one visit chip, and behind one payment chip.
OnChips(b) ==
    /\ Cardinality({c \in CALENDAR_CHIPS : b \in GridOf({b}, {c}, {})}) = 1
    /\ Cardinality({c \in PAYMENT_CHIPS : b \in GridOf({b}, CALENDAR_CHIPS, {c})}) = 1
LEMMA OneChipEach ==
    ASSUME PaysInv, NEW b \in Bookings, booking[b].st \in CHIP_STATUSES
    PROVE  OnChips(b)
<1>1. PICK st, pay : st = booking[b].st /\ pay = booking[b].pay /\ pay \in PaymentStatuses
  BY DEF PaysInv
<1>2. \A c : StatusesForChips({c}) = CHIP_MAP(c)
  BY DEF StatusesForChips
<1>3. StatusesForChips(CALENDAR_CHIPS) = CHIP_STATUSES
  BY DEF StatusesForChips, CHIP_STATUSES, CALENDAR_CHIPS
<1>4. \A c : b \in GridOf({b}, {c}, {}) <=> st \in CHIP_MAP(c)
  <2>1. \A x, y : MatchesAnyPaymentChip({}, x, y)
    BY DEF MatchesAnyPaymentChip
  <2> QED BY <1>1, <1>2, <2>1 DEF GridOf
<1>5. \A c : b \in GridOf({b}, CALENDAR_CHIPS, {c}) <=> MatchesPaymentChip(c, pay, st)
  <2>1. \A c, x, y : MatchesAnyPaymentChip({c}, x, y) <=> MatchesPaymentChip(c, x, y)
    BY DEF MatchesAnyPaymentChip
  <2> QED BY <1>1, <1>3, <2>1 DEF GridOf
<1>6. PICK c \in CALENDAR_CHIPS : st \in CHIP_MAP(c)
  BY <1>1 DEF CHIP_STATUSES
<1>7. \A x \in CALENDAR_CHIPS : st \in CHIP_MAP(x) => x = c
  BY <1>6 DEF CALENDAR_CHIPS, CHIP_MAP
<1>8. {x \in CALENDAR_CHIPS : b \in GridOf({b}, {x}, {})} = {c}
  BY <1>4, <1>6, <1>7
<1>9. PICK e \in PAYMENT_CHIPS : \A x \in PAYMENT_CHIPS : MatchesPaymentChip(x, pay, st) <=> x = e
  <2>1. CASE st = "settled"
    <3>1. \A x \in PAYMENT_CHIPS : MatchesPaymentChip(x, pay, st) <=> x = "fully_paid"
      BY <2>1 DEF PAYMENT_CHIPS, MatchesPaymentChip
    <3> QED BY <3>1 DEF PAYMENT_CHIPS
  <2>2. CASE st # "settled" /\ pay \in {"fully_paid", "refunded", "partially_refunded"}
    <3>1. \A x \in PAYMENT_CHIPS : MatchesPaymentChip(x, pay, st) <=> x = "fully_paid"
      BY <2>2 DEF PAYMENT_CHIPS, MatchesPaymentChip
    <3> QED BY <3>1 DEF PAYMENT_CHIPS
  <2>3. CASE st # "settled" /\ pay = "deposit_paid"
    <3>1. \A x \in PAYMENT_CHIPS : MatchesPaymentChip(x, pay, st) <=> x = "deposit_paid"
      BY <2>3 DEF PAYMENT_CHIPS, MatchesPaymentChip
    <3> QED BY <3>1 DEF PAYMENT_CHIPS
  <2>4. CASE st # "settled" /\ pay \in {"unpaid", "none_required", "forfeited"}
    <3>1. \A x \in PAYMENT_CHIPS : MatchesPaymentChip(x, pay, st) <=> x = "unpaid"
      BY <2>4 DEF PAYMENT_CHIPS, MatchesPaymentChip
    <3> QED BY <3>1 DEF PAYMENT_CHIPS
  <2> QED BY <1>1, <2>1, <2>2, <2>3, <2>4 DEF PaymentStatuses
<1>10. {x \in PAYMENT_CHIPS : b \in GridOf({b}, CALENDAR_CHIPS, {x})} = {e}
  BY <1>5, <1>9
<1> QED BY <1>8, <1>10, FS_Singleton DEF OnChips

\* summary(): the trend adds up to the number above it, and ends today.
SummaryAgrees(month, s) ==
    /\ s.bookings.value = Trends(s.trend, DOMAIN s.trend)
    /\ s.bookingsToday = month.cells[Today].count
LEMMA SummaryAddsUp ==
    ASSUME ShelfInv, NEW month, month = MonthView(0, Today + Horizon),
           NEW range \in Ranges, NEW s, s = Summary(range)
    PROVE  SummaryAgrees(month, s)
<1>1. PICK from \in Int, to \in Int : /\ to = Today + 1 /\ from = Today + 1 - range
                                      /\ Today \in from .. to - 1
  <2>1. Today \in Nat /\ range \in Nat /\ range > 0
    BY MadeHaveDays, ScreensAssumption
  <2> QED BY <2>1
<1>2. PICK f : f = Days(from, to)
  OBVIOUS
<1>3. Unfiltered(f, from, to)
  BY <1>2 DEF Days, Unfiltered
<1>4. PICK t : t = DailyTotals(f)
  OBVIOUS
<1>5. \A d \in from .. to - 1 : t[d].n = Cardinality(LiveOn(d))
  BY <1>3, <1>4, TotalsOfADay
<1>6. PICK trend : trend = [d \in from .. to - 1 |-> t[d].n]
  OBVIOUS
<1>7. PICK prior : prior = WindowStats(from - range, from)
  OBVIOUS
<1>8. PICK stats : stats = WindowStats(from, to).bookings
  OBVIOUS
<1>9. /\ s.bookings = Kpi(stats, prior.bookings, "percent")
      /\ s.trend = trend /\ s.bookingsToday = t[Today].n
  <2>1. PICK first, end : end = Today + 1 /\ first = end - range
    OBVIOUS
  <2>2. first = from /\ end = to
    BY <1>1, <2>1, MadeHaveDays, ScreensAssumption
  <2>3. /\ Summary(range).bookings = Kpi(WindowStats(first, end).bookings,
                                         WindowStats(first - range, first).bookings, "percent")
        /\ Summary(range).trend
             = [d \in first .. end - 1 |-> DailyTotals(Days(first, end))[d].n]
        /\ Summary(range).bookingsToday = DailyTotals(Days(first, end))[Today].n
    BY <2>1 DEF Summary
  <2> QED BY <1>2, <1>4, <1>6, <1>7, <1>8, <2>2, <2>3
<1>10. s.bookings.value = stats
  BY <1>9 DEF Kpi
<1>11. stats = Cardinality(Between(from, to, LIVE_STATUSES))
  BY <1>8 DEF WindowStats, Between
<1>12. \A d \in from .. to - 1 : trend[d] = Cardinality(LiveOn(d))
  BY <1>5, <1>6
<1>13. /\ IsFiniteSet(from .. to - 1) /\ \A d \in from .. to - 1 : trend[d] \in Int
       /\ Total(trend, from .. to - 1) = Cardinality(Between(from, to, LIVE_STATUSES))
  BY <1>12, DaysAddUp
<1>14. DOMAIN trend = from .. to - 1
  BY <1>6
<1>15. Trends(trend, from .. to - 1) = Total(trend, from .. to - 1)
  BY <1>13, TrendIsTotal
<1>16. month.cells[Today].count = Cardinality(LiveOn(Today))
  BY MonthCounts
<1>17. t[Today].n = Cardinality(LiveOn(Today))
  BY <1>1, <1>5
<1>18. s.bookings.value = Trends(s.trend, DOMAIN s.trend)
  BY <1>9, <1>10, <1>11, <1>13, <1>14, <1>15
<1> QED BY <1>9, <1>16, <1>17, <1>18 DEF SummaryAgrees

\* What a list, its chip and its pages agree on.
ListAgrees(counts, filter, l, base) ==
    /\ l.total = counts[filter] /\ l.kpis.booked = l.total
    /\ \A b \in BookingWhere(base) :
         \/ \E k \in DOMAIN l.pages : \A page \in l.pages[k] : b \in page
         \/ \E c \in Made \ {b} : StartAt(c) = StartAt(b)

\* The screens of a salon whose bookings are well formed agree.
LEMMA ScreensAreOne == PaysInv => ScreensAgree
<1> SUFFICES ASSUME PaysInv PROVE ScreensAgree
  OBVIOUS
<1>0. ShelfInv
  BY DEF PaysInv
<1>1. PICK week : week = WeekView(Today, {}, {}, Staff)
  OBVIOUS
<1>2. PICK month : month = MonthView(0, Today + Horizon)
  OBVIOUS
<1>3. PICK counts : counts = Counts
  OBVIOUS
<1>4. \A d \in ({DayOn(b) : b \in Made} \cup {Today}) \cap DOMAIN month.cells :
        DayAgrees(week, month, d, DayView(d, {}, {}, Staff), List("ALL", d, d, Staff))
  BY <1>0, <1>1, <1>2, OneDayAgrees
<1>5. week.kpis.booked = week.total
  BY <1>0, <1>1, WeekAddsUp
<1>6. \A filter \in LIST_FILTERS :
        ListAgrees(counts, filter, List(filter, None, None, Staff),
                   ListBase(filter, None, None, Staff))
  BY <1>0, <1>3, ListsAgree DEF ListAgrees
<1>7. \A t \in Worklist : t.kind = "DEPOSITS_PENDING" =>
        t.count = counts["DEPOSIT_PENDING"] + DepositsPending(Today + Horizon)
  <2>1. DepositsPending(Today) = counts["DEPOSIT_PENDING"] + DepositsPending(Today + Horizon)
    BY <1>0, <1>3, WorklistCounts
  <2>2. \A t \in Worklist : t.kind = "DEPOSITS_PENDING" => t.count = DepositsPending(Today)
    BY DEF Worklist
  <2> QED BY <2>1, <2>2
<1>8. \A b \in BookingWhere([Days(0, Today + Horizon) EXCEPT !.statuses = CHIP_STATUSES]) :
        OnChips(b)
  <2>1. PICK f : f = [Days(0, Today + Horizon) EXCEPT !.statuses = CHIP_STATUSES]
    OBVIOUS
  <2>2. f.statuses = CHIP_STATUSES
    BY <2>1 DEF Days
  <2>3. \A b \in BookingWhere(f) : b \in Bookings /\ booking[b].st \in CHIP_STATUSES
    BY <2>2 DEF BookingWhere, Made
  <2>4. \A b \in BookingWhere(f) : OnChips(b)
    BY <2>3, OneChipEach
  <2> QED BY <2>1, <2>4, Zenon
<1>9. \A range \in Ranges : SummaryAgrees(month, Summary(range))
  BY <1>0, <1>2, SummaryAddsUp
<1>10. ScreensAgree <=>
         \A w \in {WeekView(Today, {}, {}, Staff)}, m \in {MonthView(0, Today + Horizon)},
            n \in {Counts} :
           /\ \A d \in ({DayOn(b) : b \in Made} \cup {Today}) \cap DOMAIN m.cells :
                \A day \in {DayView(d, {}, {}, Staff)}, l \in {List("ALL", d, d, Staff)} :
                  DayAgrees(w, m, d, day, l)
           /\ w.kpis.booked = w.total
           /\ \A filter \in LIST_FILTERS :
                ListAgrees(n, filter, List(filter, None, None, Staff),
                           ListBase(filter, None, None, Staff))
           /\ \A t \in Worklist : t.kind = "DEPOSITS_PENDING" =>
                t.count = n["DEPOSIT_PENDING"] + DepositsPending(Today + Horizon)
           /\ \A b \in BookingWhere([Days(0, Today + Horizon) EXCEPT !.statuses = CHIP_STATUSES]) :
                OnChips(b)
           /\ \A range \in Ranges : SummaryAgrees(m, Summary(range))
  BY Zenon DEF ScreensAgree, DayAgrees, ListAgrees, OnChips, SummaryAgrees, Once, Trends
<1> QED BY <1>1, <1>2, <1>3, <1>4, <1>5, <1>6, <1>7, <1>8, <1>9, <1>10, Zenon

\* "The grid cannot disagree with the strip about what it is looking at": the
\* day, the week, the month, the list, the summary and the worklist count the
\* same bookings and the same money (read-models.handler.ts), a chip's number is
\* what it lists, every row is behind one chip of each kind, and turning the
\* pages meets every row of a start of its own, whatever the desk did before.
THEOREM ScreensAlwaysAgree == ScreenSpec => []ScreensAgree
  BY PaysInitially, PaysInductive, ScreensAreOne, PTL DEF ScreenSpec

=============================================================================
