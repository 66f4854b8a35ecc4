----------------------------- MODULE DeskSafety -----------------------------
(***************************************************************************)
(* What the desk promises, proved from the effects of its steps: the       *)
(* reservations follow the status, a chair seats one customer, and money   *)
(* is neither taken twice nor kept against a visit that is not happening.  *)
(***************************************************************************)
EXTENDS DeskProofs

-----------------------------------------------------------------------------
(* The reservations. *)

\* Without links and webhooks, no worker is about to write one.
NoLateWrites ==
    /\ ~On("link") => \A w \in Workers : work[w].op # "link"
    /\ ~On("webhook") => \A w \in Workers : work[w].op # "webhook"

\* One booking and its reservations agree.
InDiary(b) ==
    /\ booking[b].st \in RELEASING_STATES =>
         \A r \in rows : r.owner = b => ~r.blocking
    /\ booking[b].st \in BLOCKING_STATES =>
         \E r \in rows : r.owner = b /\ r.blocking /\ r.slot = booking[b].slot
    /\ \A r \in rows : r.owner = b /\ r.blocking => r.slot = booking[b].slot

\* Nobody releases a visit by its status alone, or revives or writes one late.
Orderly == scenario.parts \cap {"ask", "revive", "link", "webhook"} = {}

RowsInv ==
    /\ NoLateWrites /\ NoDoubleBooking
    /\ Orderly => \A b \in Bookings : InDiary(b)

\* A step that writes one booking's rows leaves everyone else's.
OthersKeep(b) == \A r : r.owner # b => (r \in rows' <=> r \in rows)

\* updateMany keeps the rows of everyone else.
LEMMA OnlyItsRows ==
    ASSUME TypeOK, NEW b \in Bookings, NEW flag \in BOOLEAN
    PROVE  /\ \A r : r.owner # b => (r \in SetBlocking(b, flag) <=> r \in rows)
           /\ \A r \in SetBlocking(b, flag) : r.owner = b => r.blocking = flag
  <1>1. ASSUME NEW r \in SetBlocking(b, flag)
        PROVE  /\ r.owner # b => r \in rows
               /\ r.owner = b => r.blocking = flag
    <2>1. PICK q \in rows :
                /\ r.owner = q.owner
                /\ q.owner = b => r.blocking = flag
                /\ q.owner # b => r = q
      BY SetBlockingShape
    <2>2. QED BY <2>1
  <1>2. \A q \in rows : q.owner # b => q \in SetBlocking(b, flag)
    BY SetBlockingShape
  <1>3. QED BY <1>1, <1>2

\* The rows stay apart when the only new one stands on a slot nobody else
\* blocks and its booking's other rows no longer block.
LEMMA StillApart ==
    ASSUME TypeOK, NoDoubleBooking, NEW b \in Bookings, OthersKeep(b),
           \A r, q \in rows' : r.owner = b /\ q.owner = b /\ r.blocking /\ q.blocking
              /\ r.slot = q.slot => r = q,
           \A r \in rows' : r.owner = b /\ r.blocking => ~Taken(r.slot, b)
    PROVE  NoDoubleBooking'
  <1> SUFFICES ASSUME NEW r \in rows', NEW q \in rows', r.blocking, q.blocking,
                      r.slot = q.slot
               PROVE  r = q
    BY DEF NoDoubleBooking
  <1>1. CASE r.owner = b /\ q.owner = b
    BY <1>1
  <1>2. CASE r.owner = b /\ q.owner # b
    <2>1. q \in rows BY <1>2 DEF OthersKeep
    <2>2. QED BY <1>2, <2>1 DEF Taken
  <1>3. CASE r.owner # b /\ q.owner = b
    <2>1. r \in rows BY <1>3 DEF OthersKeep
    <2>2. QED BY <1>3, <2>1 DEF Taken
  <1>4. CASE r.owner # b /\ q.owner # b
    <2>1. r \in rows /\ q \in rows BY <1>4 DEF OthersKeep
    <2>2. QED BY <2>1 DEF NoDoubleBooking
  <1>5. QED BY <1>1, <1>2, <1>3, <1>4

\* Everyone whom the step does not write stays in the diary as they were.
LEMMA OthersInDiary ==
    ASSUME NEW b \in Bookings, OthersKeep(b), NEW c \in Bookings, c # b,
           booking'[c] = booking[c], InDiary(c)
    PROVE  InDiary(c)'
  <1>1. \A r : r.owner = c => (r \in rows' <=> r \in rows)
    BY DEF OthersKeep
  <1>2. QED BY <1>1 DEF InDiary

\* A step of one booking keeps the rows apart and the diary in step.
LEMMA OneBookingNext ==
    ASSUME TypeOK, NoDoubleBooking, Orderly => \A c \in Bookings : InDiary(c),
           NEW b \in Bookings, OthersKeep(b), Elsewhere(b), scenario' = scenario,
           \A r, q \in rows' : r.owner = b /\ q.owner = b /\ r.blocking /\ q.blocking
              /\ r.slot = q.slot => r = q,
           \A r \in rows' : r.owner = b /\ r.blocking => ~Taken(r.slot, b),
           Orderly => InDiary(b)'
    PROVE  /\ NoDoubleBooking'
           /\ Orderly' => \A c \in Bookings : InDiary(c)'
  <1>1. NoDoubleBooking' BY StillApart
  <1>2. ASSUME Orderly', NEW c \in Bookings PROVE InDiary(c)'
    <2>1. Orderly BY <1>2 DEF Orderly
    <2>2. CASE c = b BY <2>1, <2>2
    <2>3. CASE c # b
      <3>1. booking'[c] = booking[c] BY <2>3 DEF Elsewhere
      <3>2. InDiary(c) BY <2>1
      <3>3. QED BY <2>3, <3>1, <3>2, OthersInDiary
    <2>4. QED BY <2>2, <2>3
  <1>3. QED BY <1>1, <1>2

\* Rows that nobody wrote stay apart.
LEMMA SameRowsApart ==
    ASSUME TypeOK, NoDoubleBooking, NEW b \in Bookings
    PROVE  /\ \A r, q \in rows : r.owner = b /\ q.owner = b /\ r.blocking /\ q.blocking
                /\ r.slot = q.slot => r = q
           /\ \A r \in rows : r.owner = b /\ r.blocking => ~Taken(r.slot, b)
  BY DEF NoDoubleBooking, Taken

\* Without links and webhooks nobody takes one up.
LEMMA NoLateWritesNext ==
    ASSUME DeskType, NoLateWrites, DeskStep, scenario' = scenario
    PROVE  NoLateWrites'
  <1>0. work \in [Workers -> Jobs] BY DEF DeskType, TypeOK
  <1>1. CASE work' = work
    BY <1>1 DEF NoLateWrites, On
  <1>2. ASSUME NEW w \in Workers, NEW k, Errand(w, k), work' = [work EXCEPT ![w] = k]
        PROVE  NoLateWrites'
    <2>1. /\ k.op = "link" => On("link")
          /\ k.op = "webhook" => On("webhook")
      BY <1>2, ErrandIsAJob
    <2>2. \A v \in Workers : work'[v] = IF v = w THEN k ELSE work[v]
      BY <1>0, <1>2
    <2>3. QED BY <2>1, <2>2 DEF NoLateWrites, On
  <1>3. QED BY <1>1, <1>2, WorkSteps

\* Every step keeps the rows apart, and with the visit they are for.
LEMMA RowsNext ==
    ASSUME DeskType, RowsInv, DeskStep, scenario' = scenario
    PROVE  RowsInv'
  <1> DEFINE Goal == /\ NoDoubleBooking'
                     /\ Orderly' => \A c \in Bookings : InDiary(c)'
  <1>0. /\ TypeOK /\ NoLateWrites /\ NoDoubleBooking
        /\ Orderly => \A c \in Bookings : InDiary(c)
        /\ \A c \in Bookings : booking[c].st \in Statuses
        /\ \A r \in rows : Used(r.owner)
    BY DEF DeskType, OnlyUsed, RowsInv, TypeOK, BookingRows
  <1>1. ASSUME UNCHANGED <<booking, rows, ledger>> PROVE Goal
    BY <1>0, <1>1 DEF NoDoubleBooking, Orderly, InDiary
  <1>2. ASSUME NEW b \in Bookings, rows' = rows, Elsewhere(b), Orderly => InDiary(b)'
        PROVE  Goal
    <2>1. OthersKeep(b) BY <1>2 DEF OthersKeep
    <2>2. /\ \A r, q \in rows' : r.owner = b /\ q.owner = b /\ r.blocking /\ q.blocking
               /\ r.slot = q.slot => r = q
          /\ \A r \in rows' : r.owner = b /\ r.blocking => ~Taken(r.slot, b)
      BY <1>0, <1>2, SameRowsApart
    <2>3. QED BY <1>0, <1>2, <2>1, <2>2, OneBookingNext
  \* the status moves among the states that occupy time
  <1>3. ASSUME NEW b \in Bookings, rows' = rows, Elsewhere(b),
               booking'[b].slot = booking[b].slot,
               Orderly => \/ booking'[b].st = booking[b].st
                          \/ /\ booking[b].st \in BLOCKING_STATES
                             /\ booking'[b].st \in BLOCKING_STATES
        PROVE  Goal
    <2>1. ASSUME Orderly PROVE InDiary(b)'
      <3>1. InDiary(b) BY <1>0, <2>1
      <3>2. \/ booking'[b].st = booking[b].st
            \/ /\ booking[b].st \in BLOCKING_STATES
               /\ booking'[b].st \in BLOCKING_STATES
        BY <1>3, <2>1
      <3>3. \A st \in BLOCKING_STATES : st \notin RELEASING_STATES
        BY DEF BLOCKING_STATES, RELEASING_STATES
      <3>4. QED BY <1>3, <3>1, <3>2, <3>3 DEF InDiary
    <2>2. QED BY <1>2, <1>3, <2>1
  \* the rows are released, and perhaps one more appears
  <1>4. ASSUME NEW b \in Bookings, Elsewhere(b),
               booking'[b].st \in RELEASING_STATES, rows' = SetBlocking(b, FALSE)
        PROVE  Goal
    <2>1. /\ OthersKeep(b)
          /\ \A r \in rows' : r.owner = b => ~r.blocking
      BY <1>0, <1>4, OnlyItsRows DEF OthersKeep
    <2>2. \A st \in RELEASING_STATES : st \notin BLOCKING_STATES
      BY DEF BLOCKING_STATES, RELEASING_STATES
    <2>3. InDiary(b)' BY <1>4, <2>1, <2>2 DEF InDiary
    <2>4. QED BY <1>0, <1>4, <2>1, <2>3, OneBookingNext
  <1>5. ASSUME NEW b \in Bookings, NEW s \in Slots, Elsewhere(b), ~Taken(s, b),
               booking'[b].st \in BLOCKING_STATES, booking'[b].slot = s,
               \A r : r.owner # b => (r \in rows' <=> r \in rows),
               \A r \in rows' : r.owner = b /\ r.blocking => r = NewRow(b, s),
               NewRow(b, s) \in rows'
        PROVE  Goal
    <2>1. /\ NewRow(b, s).owner = b /\ NewRow(b, s).slot = s /\ NewRow(b, s).blocking
      BY <1>0, NewRowShape
    <2>2. OthersKeep(b) BY <1>5 DEF OthersKeep
    <2>3. /\ \A r, q \in rows' : r.owner = b /\ q.owner = b /\ r.blocking /\ q.blocking
               /\ r.slot = q.slot => r = q
          /\ \A r \in rows' : r.owner = b /\ r.blocking => ~Taken(r.slot, b)
      BY <1>5, <2>1
    <2>4. \A st \in BLOCKING_STATES : st \notin RELEASING_STATES
      BY DEF BLOCKING_STATES, RELEASING_STATES
    <2>5. InDiary(b)' BY <1>5, <2>1, <2>4 DEF InDiary
    <2>6. QED BY <1>0, <1>5, <2>2, <2>3, <2>5, OneBookingNext
  <1>6. ASSUME NEW b \in Bookings, NEW s \in Slots, NEW d \in Nat,
               NEW k \in {"none", "paid", "link", "ask", "series"}, Book(b, s, k, d)
        PROVE  Goal
    <2>1. /\ Elsewhere(b) /\ ~Used(b) /\ booking'[b].slot = s /\ ~Taken(s, b)
          /\ booking'[b].st \in {"confirmed", "pending_payment", "pending_confirmation"}
          /\ rows' = rows \cup {NewRow(b, s)}
      BY <1>0, <1>6, BookEffect
    <2>2. booking'[b].st \in BLOCKING_STATES BY <2>1 DEF BLOCKING_STATES
    <2>3. \A r \in rows : r.owner # b BY <1>0, <2>1
    <2>4. NewRow(b, s).owner = b BY <1>0, NewRowShape
    <2>5. QED BY <1>5, <2>1, <2>2, <2>3, <2>4
  <1>7. ASSUME NEW b \in Bookings, NEW to, NEW out, NEW tender,
               Passes(b, to, out, tender)
        PROVE  Goal
    <2>1. /\ Elsewhere(b) /\ booking[b].st \in BLOCKING_STATES
          /\ booking'[b].st = to /\ booking'[b].slot = booking[b].slot
          /\ to \in Statuses /\ to # "unused" /\ rows' = ReleaseCapacity(b, to)
      BY <1>0, <1>7, PassEffect
    <2>2. CASE to \in RELEASING_STATES
      BY <1>4, <2>1, <2>2 DEF ReleaseCapacity
    <2>3. CASE to \notin RELEASING_STATES
      <3>1. to \in BLOCKING_STATES BY <2>1, <2>3 DEF Statuses
      <3>2. rows' = rows BY <2>1, <2>3 DEF ReleaseCapacity
      <3>3. QED BY <1>3, <2>1, <3>1, <3>2
    <2>4. QED BY <2>2, <2>3
  <1>8. ASSUME NEW b \in Bookings, MoneyStep(b) PROVE Goal
    <2>1. /\ Elsewhere(b) /\ rows' = rows /\ booking'[b].slot = booking[b].slot
          /\ \/ booking'[b].st = booking[b].st
             \/ /\ booking[b].st \in {"pending_payment", "confirmed"}
                /\ booking'[b].st = "confirmed"
             \/ On("revive") /\ booking[b].st = "no_show" /\ booking'[b].st = "confirmed"
      BY <1>8, MoneyEffect DEF MoneyWrite
    <2>2. Orderly => ~On("revive") BY DEF Orderly, On
    <2>3. {"pending_payment", "confirmed"} \subseteq BLOCKING_STATES
      BY DEF BLOCKING_STATES
    <2>4. QED BY <1>3, <2>1, <2>2, <2>3
  <1>9. ASSUME NEW b \in Bookings, UndoCheckIn(b) PROVE Goal
    <2>1. /\ Elsewhere(b) /\ rows' = rows /\ booking'[b].slot = booking[b].slot
          /\ booking[b].st = "checked_in" /\ booking'[b].st = "confirmed"
      BY <1>9, StatusEffect DEF LateWrite
    <2>2. {"checked_in", "confirmed"} \subseteq BLOCKING_STATES
      BY DEF BLOCKING_STATES
    <2>3. QED BY <1>3, <2>1, <2>2
  <1>10. ASSUME NEW b \in Bookings, On("ask"), ConfirmAskExpire(b) PROVE Goal
    <2>1. Elsewhere(b) /\ rows' = rows /\ booking'[b].slot = booking[b].slot
      BY <1>10, StatusEffect DEF LateWrite
    <2>2. ~Orderly BY <1>10 DEF Orderly, On
    <2>3. QED BY <1>3, <2>1, <2>2
  <1>11. ASSUME NEW w \in Workers, LinkWrite(w) PROVE Goal
    <2>1. PICK b \in Bookings : b = work[w].b
      BY <1>0, <1>11 DEF LinkWrite, TypeOK, WellFormed
    <2>2. Elsewhere(b) /\ rows' = rows /\ booking'[b].slot = booking[b].slot
      BY <1>11, <2>1, StatusEffect DEF LateWrite
    <2>3. ~Orderly BY <1>0, <1>11 DEF LinkWrite, NoLateWrites, Orderly, On
    <2>4. QED BY <1>3, <2>2, <2>3
  <1>12. ASSUME NEW w \in Workers, NEW d \in Nat, WebhookApply(w, d) PROVE Goal
    <2>1. PICK b \in Bookings :
             /\ LateWrite(b)
             /\ \/ rows' = rows
                \/ rows' = SetBlocking(b, TRUE) /\ RowsApart(b)
      BY <1>12, WebhookEffect
    <2>2. Elsewhere(b) /\ booking'[b].slot = booking[b].slot
      BY <2>1 DEF LateWrite
    <2>3. ~Orderly BY <1>0, <1>12 DEF WebhookApply, NoLateWrites, Orderly, On
    <2>4. CASE rows' = rows
      BY <1>3, <2>2, <2>3, <2>4
    <2>5. CASE rows' = SetBlocking(b, TRUE) /\ RowsApart(b)
      <3>1. OthersKeep(b) BY <1>0, <2>5, OnlyItsRows DEF OthersKeep
      <3>2. ASSUME NEW r \in rows', r.owner = b
            PROVE  \E q \in rows : /\ q.owner = b /\ q.slot = r.slot
                                   /\ r = [q EXCEPT !.blocking = TRUE]
        <4>1. PICK q \in rows :
                 r = IF q.owner = b THEN [q EXCEPT !.blocking = TRUE] ELSE q
          BY <2>5 DEF SetBlocking
        <4>2. q \in Reservations BY <1>0 DEF TypeOK
        <4>3. QED BY <3>2, <4>1, <4>2 DEF Reservations
      <3>3. ASSUME NEW r \in rows', NEW q \in rows', r.owner = b, q.owner = b,
                   r.slot = q.slot
            PROVE  r = q
        <4>1. PICK x \in rows : /\ x.owner = b /\ x.slot = r.slot
                                /\ r = [x EXCEPT !.blocking = TRUE]
          BY <3>2, <3>3
        <4>2. PICK y \in rows : /\ y.owner = b /\ y.slot = q.slot
                                /\ q = [y EXCEPT !.blocking = TRUE]
          BY <3>2, <3>3
        <4>3. x = y BY <2>5, <3>3, <4>1, <4>2 DEF RowsApart, RowsOf
        <4>4. QED BY <4>1, <4>2, <4>3
      <3>4. ASSUME NEW r \in rows', r.owner = b PROVE ~Taken(r.slot, b)
        <4>1. PICK x \in rows : x.owner = b /\ x.slot = r.slot
          BY <3>2, <3>4
        <4>2. ~Taken(x.slot, b) BY <2>5, <4>1 DEF RowsApart, RowsOf
        <4>3. QED BY <4>1, <4>2 DEF Taken
      <3>5. QED BY <1>0, <2>2, <2>3, <3>1, <3>3, <3>4, OneBookingNext
    <2>6. QED BY <2>1, <2>4, <2>5
  <1>13. ASSUME NEW b \in Bookings, MoveStep(b) PROVE Goal
    <2>1. PICK s \in Slots :
            /\ Elsewhere(b) /\ booking'[b].st \in MOVABLE /\ booking'[b].slot = s
            /\ ~Taken(s, b) /\ rows' = SetBlocking(b, FALSE) \cup {NewRow(b, s)}
      BY <1>13, MoveEffect
    <2>2. booking'[b].st \in BLOCKING_STATES BY <2>1 DEF MOVABLE, BLOCKING_STATES
    <2>3. /\ \A r : r.owner # b => (r \in SetBlocking(b, FALSE) <=> r \in rows)
          /\ \A r \in SetBlocking(b, FALSE) : r.owner = b => ~r.blocking
      BY <1>0, OnlyItsRows
    <2>4. NewRow(b, s).owner = b BY <1>0, NewRowShape
    <2>5. QED BY <1>5, <2>1, <2>2, <2>3, <2>4
  <1> HIDE DEF Goal
  <1>14. Goal
    BY <1>0, <1>1, <1>6, <1>7, <1>8, <1>9, <1>10, <1>11, <1>12, <1>13, DeskSteps
  <1>15. QED
    BY <1>0, <1>14, NoLateWritesNext DEF RowsInv, Goal

\* The reservations follow the status for any number of bookings, workers and
\* slots: nobody is booked twice, a visit that is off holds nothing and a visit
\* that is on blocks its own slot and no other, outside the four writes that
\* RowsFollowStatus names.
THEOREM RowsAlwaysFollow == Spec => []RowsFollowStatus
  <1>1. Init => RowsInv
    <2> SUFFICES ASSUME Init PROVE RowsInv
      OBVIOUS
    <2>1. \A w \in Workers : work[w].op = "idle" BY DEF Init, Idle
    <2>2. \A b \in Bookings : booking[b].st = "unused" BY DEF Init, NoBooking
    <2>3. rows = {} BY DEF Init
    <2>4. QED BY <2>1, <2>2, <2>3
          DEF RowsInv, NoLateWrites, NoDoubleBooking, InDiary, BLOCKING_STATES,
              RELEASING_STATES
  <1>2. DeskType /\ RowsInv /\ [Next]_vars => RowsInv'
    <2> SUFFICES ASSUME DeskType, RowsInv, [Next]_vars PROVE RowsInv'
      OBVIOUS
    <2>1. CASE UNCHANGED vars
      BY <2>1 DEF vars, tables, RowsInv, NoLateWrites, NoDoubleBooking, Orderly,
                  InDiary, On
    <2>2. CASE Next
      BY <2>2, RowsNext DEF Next
    <2>3. QED BY <2>1, <2>2
  <1>3. RowsInv => RowsFollowStatus
    BY DEF RowsInv, Orderly, InDiary, RowsFollowStatus, ReleasedMeansFree,
           LiveBookingsBlock, RowsOf
  <1>4. QED BY <1>1, <1>2, <1>3, DeskTypeCorrect, PTL DEF Spec

-----------------------------------------------------------------------------
(* The money. *)

\* The amounts of a ledger are numbers.
LEMMA LedgerInts ==
    ASSUME TypeOK, NEW b \in Bookings
    PROVE  /\ ledger[b].captured \in Int /\ ledger[b].goodwill \in Int
           /\ Balance(b) \in Int
  BY BalanceIsInt DEF TypeOK, Ledgers

\* What NoMoneyTwice says of one booking.
TakenOnce(b) ==
    /\ booking[b].st # "unused"
    /\ \/ ledger'[b].captured > ledger[b].captured
       \/ ledger'[b].goodwill > ledger[b].goodwill
    => \/ ledger'[b].refs # ledger[b].refs
       \/ booking[b].pay = "unpaid" /\ booking'[b].pay # "unpaid"

\* What MoneyLeavesWithTheVisit says of one booking.
LeavesWithVisit(b) ==
    booking'[b].st \in Exits =>
         IF booking[b].st \in Exits
         THEN \/ Balance(b)' - Balance(b) = ledger'[b].goodwill - ledger[b].goodwill
              \/ ReportedLate(b)
         ELSE Balance(b)' = 0

\* Both hold of a booking that the step does not write.
LEMMA UntouchedMoney ==
    ASSUME TypeOK, NEW b \in Bookings, booking'[b] = booking[b], ledger'[b] = ledger[b]
    PROVE  TakenOnce(b) /\ LeavesWithVisit(b)
  <1>1. /\ ledger[b].captured \in Int /\ ledger[b].goodwill \in Int
        /\ Balance(b) \in Int
    BY LedgerInts
  <1>2. Balance(b)' = Balance(b) BY DEF Balance
  <1>3. QED BY <1>1, <1>2 DEF TakenOnce, LeavesWithVisit

\* Every step of the desk takes money once and lets it leave with the visit.
LEMMA MoneyNext ==
    ASSUME DeskType, DeskStep, NEW c \in Bookings
    PROVE  TakenOnce(c) /\ LeavesWithVisit(c)
  <1> DEFINE Goal == TakenOnce(c) /\ LeavesWithVisit(c)
  <1>0. /\ TypeOK /\ ledger[c].captured \in Int /\ ledger[c].goodwill \in Int
        /\ Balance(c) \in Int
    BY LedgerInts DEF DeskType
  <1>1. ASSUME NEW b \in Bookings, Elsewhere(b), b # c PROVE Goal
    BY <1>0, <1>1, UntouchedMoney DEF Elsewhere
  <1>2. ASSUME UNCHANGED <<booking, rows, ledger>> PROVE Goal
    BY <1>0, <1>2, UntouchedMoney
  <1>3. ASSUME NEW b \in Bookings, NEW s \in Slots, NEW d \in Nat,
               NEW k \in {"none", "paid", "link", "ask", "series"}, Book(b, s, k, d)
        PROVE  Goal
    <2>1. /\ Elsewhere(b) /\ ~Used(b)
          /\ booking'[b].st \in {"confirmed", "pending_payment", "pending_confirmation"}
      BY <1>0, <1>3, BookEffect
    <2>2. CASE b = c
      BY <2>1, <2>2 DEF TakenOnce, LeavesWithVisit, Used, Exits
    <2>3. QED BY <1>1, <2>1, <2>2
  <1>4. ASSUME NEW b \in Bookings, NEW to, NEW out, NEW tender,
               Passes(b, to, out, tender)
        PROVE  Goal
    <2>1. /\ Elsewhere(b) /\ booking[b].st \in BLOCKING_STATES /\ booking'[b].st = to
          /\ ledger'[b].captured = ledger[b].captured
          /\ ledger'[b].goodwill = ledger[b].goodwill
          /\ to \in Exits => Balance(b)' = 0
      BY <1>0, <1>4, PassEffect
    <2>2. booking[b].st \notin Exits BY <2>1 DEF BLOCKING_STATES, Exits
    <2>3. CASE b = c
      BY <1>0, <2>1, <2>2, <2>3 DEF TakenOnce, LeavesWithVisit
    <2>4. QED BY <1>1, <2>1, <2>3
  <1>5. ASSUME NEW b \in Bookings, MoneyStep(b) PROVE Goal
    <2>1. MoneyWrite(b) BY <1>5, MoneyEffect
    <2>2. "confirmed" \notin Exits BY DEF Exits
    <2>3. CASE b = c
      <3>1. TakenOnce(c) BY <2>1, <2>3 DEF MoneyWrite, TakenOnce
      <3>2. LeavesWithVisit(c)
        BY <2>1, <2>2, <2>3 DEF MoneyWrite, LeavesWithVisit
      <3>3. QED BY <3>1, <3>2
    <2>4. Elsewhere(b) BY <2>1 DEF MoneyWrite
    <2>5. QED BY <1>1, <2>3, <2>4
  <1>6. ASSUME NEW b \in Bookings, LateWrite(b), UNCHANGED <<rows, ledger>>,
               booking'[b].st \notin Exits
        PROVE  Goal
    <2>1. CASE b = c
      BY <1>0, <1>6, <2>1 DEF TakenOnce, LeavesWithVisit
    <2>2. Elsewhere(b) BY <1>6 DEF LateWrite
    <2>3. QED BY <1>1, <2>1, <2>2
  <1>7. ASSUME NEW b \in Bookings, UndoCheckIn(b) \/ ConfirmAskExpire(b) PROVE Goal
    <2>1. LateWrite(b) /\ UNCHANGED <<rows, ledger>> /\ booking'[b].st \notin Exits
      BY <1>7, StatusEffect
    <2>2. QED BY <1>6, <2>1
  <1>8. ASSUME NEW w \in Workers, LinkWrite(w) PROVE Goal
    <2>1. PICK b \in Bookings : b = work[w].b
      BY <1>0, <1>8 DEF LinkWrite, TypeOK, WellFormed
    <2>2. LateWrite(b) /\ UNCHANGED <<rows, ledger>> /\ booking'[b].st \notin Exits
      BY <1>8, <2>1, StatusEffect
    <2>3. QED BY <1>6, <2>2
  <1>9. ASSUME NEW w \in Workers, NEW d \in Nat, WebhookApply(w, d) PROVE Goal
    <2>1. PICK b \in Bookings :
             /\ LateWrite(b) /\ booking'[b].st \in {booking[b].st, "confirmed"}
             /\ ledger'[b].captured > ledger[b].captured => ledger'[b].refs # ledger[b].refs
             /\ ledger'[b].goodwill = ledger[b].goodwill
             /\ booking'[b].st \in Exits => Balance(b)' = Balance(b)
      BY <1>9, WebhookEffect
    <2>2. "confirmed" \notin Exits BY DEF Exits
    <2>3. CASE b = c
      <3>1. TakenOnce(c) BY <1>0, <2>1, <2>3 DEF TakenOnce
      <3>2. LeavesWithVisit(c) BY <1>0, <2>1, <2>2, <2>3 DEF LeavesWithVisit
      <3>3. QED BY <3>1, <3>2
    <2>4. Elsewhere(b) BY <2>1 DEF LateWrite
    <2>5. QED BY <1>1, <2>3, <2>4
  <1>10. ASSUME NEW b \in Bookings, MoveStep(b) PROVE Goal
    <2>1. /\ Elsewhere(b) /\ booking'[b].st \in MOVABLE
          /\ ledger'[b].captured = ledger[b].captured
          /\ ledger'[b].goodwill = ledger[b].goodwill
      BY <1>10, MoveEffect
    <2>2. booking'[b].st \notin Exits BY <2>1 DEF MOVABLE, Exits
    <2>3. CASE b = c
      BY <1>0, <2>1, <2>2, <2>3 DEF TakenOnce, LeavesWithVisit
    <2>4. QED BY <1>1, <2>1, <2>3
  <1> HIDE DEF Goal
  <1>11. Goal
    BY <1>0, <1>2, <1>3, <1>4, <1>5, <1>7, <1>8, <1>9, <1>10, DeskSteps
  <1>12. QED BY <1>11 DEF Goal

\* The step that moves nothing takes and keeps nothing either.
LEMMA MoneySteps ==
    DeskType /\ [Next]_vars =>
      \A b \in Bookings : TakenOnce(b) /\ LeavesWithVisit(b)
  <1> SUFFICES ASSUME DeskType, [Next]_vars, NEW b \in Bookings
               PROVE  TakenOnce(b) /\ LeavesWithVisit(b)
    OBVIOUS
  <1>1. CASE UNCHANGED vars
    BY <1>1, UntouchedMoney DEF vars, tables, DeskType
  <1>2. CASE Next
    BY <1>2, MoneyNext DEF Next
  <1>3. QED BY <1>1, <1>2

\* Retries, redeliveries and repeated callbacks take no money twice, however
\* many desks, webhooks and apps are at it.
THEOREM MoneyIsTakenOnce == Spec => NoMoneyTwice
  <1>1. DeskType /\ [Next]_vars =>
          [\A b \in Bookings :
             /\ booking[b].st # "unused"
             /\ \/ ledger'[b].captured > ledger[b].captured
                \/ ledger'[b].goodwill > ledger[b].goodwill
             => \/ ledger'[b].refs # ledger[b].refs
                \/ booking[b].pay = "unpaid" /\ booking'[b].pay # "unpaid"]_vars
    BY MoneySteps DEF TakenOnce
  <1>2. QED BY <1>1, DeskTypeCorrect, PTL DEF Spec, NoMoneyTwice

\* No way out of a visit keeps money against it: an exit empties the protected
\* balance, and afterwards only goodwill, or a late report, moves it.
THEOREM MoneyFollowsTheVisit == Spec => MoneyLeavesWithTheVisit
  <1>1. DeskType /\ [Next]_vars =>
          [\A b \in Bookings : booking'[b].st \in Exits =>
             IF booking[b].st \in Exits
             THEN \/ Balance(b)' - Balance(b) = ledger'[b].goodwill - ledger[b].goodwill
                  \/ ReportedLate(b)
             ELSE Balance(b)' = 0]_vars
    BY MoneySteps DEF LeavesWithVisit
  <1>2. QED BY <1>1, DeskTypeCorrect, PTL DEF Spec, MoneyLeavesWithTheVisit

-----------------------------------------------------------------------------
(* The automatic no-show. *)

\* A worker in the middle of the no-show job is moved by the job or by a crash,
\* and a crash writes nothing.
LEMMA OnlyTheJobMovesIt ==
    ASSUME DeskType, DeskStep, NEW w \in Workers, work[w].op = "no_show",
           work'[w] # work[w]
    PROVE  NoShowMark(w) \/ booking' = booking
  <1> DEFINE Goal == NoShowMark(w) \/ booking' = booking
  <1>0. work \in [Workers -> Jobs]
    BY DEF DeskType, TypeOK
  <1>1. ASSUME NEW v \in Workers, NEW k, work' = [work EXCEPT ![v] = k] PROVE v = w
    BY <1>0, <1>1
  <1>2. ASSUME \/ \E b \in Bookings : \E s, k, d : Book(b, s, k, d)
               \/ Tick
               \/ \E b \in Bookings : \E to, a, who : DeskCommand(b, to, a, who)
               \/ \E b \in Bookings : UndoCheckIn(b)
               \/ \E b \in Bookings : \E k : Raise(b, k)
               \/ \E b \in Bookings : Reject(b) \/ Withdraw(b)
               \/ \E b \in Bookings : \E key : Capture(b, key)
               \/ \E b \in Bookings : \E key, amt : Refund(b, key, amt)
               \/ \E b \in Bookings : \E key, amt : Goodwill(b, key, amt)
               \/ \E b \in Bookings : \E key : Revive(b, key)
               \/ \E b \in Bookings : \E pay, amt, ref : RecordPayment(b, pay, amt, ref)
               \/ \E b \in Bookings : ConfirmAskExpire(b)
               \/ \E b \in Bookings : \E s : ShiftInPlace(b, s)
               \/ \E b \in Bookings : \E s : Move(b, s)
        PROVE  work' = work
    BY <1>2
    DEF Book, Tick, DeskCommand, UndoCheckIn, Raise, Reject, Withdraw, Capture,
        Refund, Goodwill, Revive, Act, RecordPayment, ConfirmAskExpire,
        ShiftInPlace, Move
  <1>3. ASSUME NEW v \in Workers, Crash(v) PROVE Goal
    BY <1>3 DEF Crash
  <1>4. ASSUME NEW v \in Workers, NoShowMark(v) PROVE Goal
    <2>1. v = w
      BY <1>1, <1>4 DEF NoShowMark, Rest, Done, Busy
    <2>2. QED BY <1>4, <2>1
  <1>5. ASSUME NEW v \in Workers, work[v].op # "no_show",
               Done(v) \/ \E k : Busy(v, k)
        PROVE  FALSE
    BY <1>1, <1>5 DEF Done, Busy
  <1>6. ASSUME NEW v \in Workers,
               \/ DeskRefused(v) \/ ApproveMark(v) \/ LapseWrite(v) \/ LinkWrite(v)
               \/ WebhookRolledBack(v)
               \/ \E a, vip, bill, y : DeskTransition(v, a, vip, bill, y)
               \/ \E d : WebhookApply(v, d)
        PROVE  FALSE
    <2>1. Done(v) /\ work[v].op # "no_show"
      BY <1>6 DEF DeskRefused, ApproveMark, LapseWrite, LinkWrite,
                  WebhookRolledBack, DeskTransition, WebhookApply
    <2>2. QED BY <1>5, <2>1
  <1>7. ASSUME NEW v \in Workers,
               \/ ApproveChair(v) \/ ApproveGate(v) \/ ApproveSeat(v)
        PROVE  FALSE
    <2>1. work[v].op # "no_show" /\ (Done(v) \/ \E k : Busy(v, k))
      BY <1>7 DEF ApproveChair, ApproveGate, ApproveSeat
    <2>2. QED BY <1>5, <2>1
  <1>8. ASSUME NEW v \in Workers, LinkExpire(v) PROVE FALSE
    <2>1. work[v].op # "no_show" BY <1>8 DEF LinkExpire
    <2>2. Done(v) \/ \E k : Busy(v, k) BY <1>8 DEF LinkExpire, Rest
    <2>3. QED BY <1>5, <2>1, <2>2
  <1>9. ASSUME NEW v \in Workers,
               \/ \E b \in Bookings : \E to, g : DeskRead(v, b, to, g)
               \/ NoShowSelect(v) \/ LapseRead(v) \/ LinkSelect(v)
               \/ \E b \in Bookings : ApproveLock(v, b) \/ LinkRead(v, b)
               \/ \E b \in Bookings : \E i, kind : WebhookRead(v, b, i, kind)
        PROVE  booking' = booking
    BY <1>9
    DEF DeskRead, NoShowSelect, LapseRead, LinkSelect, ApproveLock, LinkRead,
        WebhookRead
  <1> HIDE DEF Goal
  <1>10. ASSUME booking' = booking PROVE Goal BY <1>10 DEF Goal
  <1>11. Goal
    BY <1>2, <1>3, <1>4, <1>6, <1>7, <1>8, <1>9, <1>10 DEF DeskStep
  <1>12. QED BY <1>11 DEF Goal

\* The job asks again inside the row lock, so a customer who said they arrived
\* is never marked absent by it, whatever was read when and by how many jobs.
THEOREM ArrivedAreNotAbsent == Spec => ClaimedNeverAutoNoShow
  <1>1. DeskType /\ [Next]_vars =>
          [\A w \in Workers, b \in Bookings :
             /\ work[w].op = "no_show" /\ b \in work[w].todo /\ work'[w] # work[w]
             /\ booking[b].st = "confirmed" /\ booking'[b].st = "no_show"
             => ~ArrivalClaimed(b)]_vars
    <2> SUFFICES ASSUME DeskType, Next, NEW w \in Workers, NEW b \in Bookings,
                        work[w].op = "no_show", work'[w] # work[w],
                        booking[b].st = "confirmed", booking'[b].st = "no_show"
                 PROVE  ~ArrivalClaimed(b)
      BY DEF vars, tables
    <2>1. NoShowMark(w) \/ booking' = booking
      BY OnlyTheJobMovesIt DEF Next
    <2>2. NoShowMark(w) BY <2>1
    <2>3. PICK x \in work[w].todo :
             /\ StillAbsent(x)
             /\ booking' = [booking EXCEPT
                   ![x].st = "no_show",
                   ![x].pay = NextPaymentStatus(@, SettleMoney(x, "no_show",
                                                               "customer", FALSE)),
                   ![x].arrived = @]
      BY <2>2 DEF NoShowMark, Transition
    <2>4. x \in Bookings /\ booking \in [Bookings -> BookingRows]
      BY DEF DeskType, TypeOK, Jobs
    <2>5. b = x BY <2>3, <2>4
    <2>6. QED BY <2>3, <2>5 DEF StillAbsent
  <1>2. QED BY <1>1, DeskTypeCorrect, PTL DEF Spec, ClaimedNeverAutoNoShow

-----------------------------------------------------------------------------
(* The chairs. *)

\* An approval that has the chair's lock.
Holding == Approving \ {"chair"}

\* An approval under way keeps its request waiting and to itself.
RequestsAreLocked ==
    \A w \in Workers : work[w].op \in Approving =>
        /\ request[work[w].b].st = "waiting"
        /\ \A v \in Workers : v # w /\ work[v].op \in Approving =>
             work[v].b # work[w].b

\* An approval that holds a chair holds it alone, and nobody is in it.
ChairsAreLocked ==
    \A w \in Workers : work[w].op \in Holding
                       /\ request[work[w].b].chair # None =>
        /\ \A v \in Workers : v # w /\ work[v].op \in Holding =>
             request[work[v].b].chair # request[work[w].b].chair
        /\ ~On("desk") => ~Occupied(request[work[w].b].chair, work[w].b)

\* Without the desk's own check-ins, no worker is about to make one.
NoDeskCheckIn ==
    \A w \in Workers : work[w].op = "desk" => work[w].to = "settled" \/ On("desk")

ChairInv == /\ RequestsAreLocked /\ ChairsAreLocked /\ NoDeskCheckIn
            /\ ApprovedChairsAreExclusive

Seated(b) == booking[b].st \in {"checked_in", "in_service"}

\* A step that seats nobody, writes no request and starts no approval.
Bystander ==
    /\ request' = request
    /\ \A w \in Workers : work'[w].op \in Approving => work'[w] = work[w]
    /\ ~On("desk") => \A b \in Bookings : Seated(b)' => Seated(b)

\* A lifecycle move other than a check-in seats nobody.
LEMMA NobodySitsDown ==
    ASSUME TypeOK, NEW b \in Bookings, NEW to, NEW a, NEW out, NEW tender,
           Transition(b, to, a, TRUE, out, tender), to # "checked_in"
    PROVE  \A c \in Bookings : Seated(c)' => Seated(c)
  <1>1. /\ booking' = [booking EXCEPT
              ![b].st = to, ![b].pay = NextPaymentStatus(@, out), ![b].arrived = @]
        /\ CheckTransition(booking[b].st, to, a, TRUE)
    BY DEF Transition
  <1>2. booking \in [Bookings -> BookingRows] BY DEF TypeOK
  <1>3. /\ booking'[b].st = to
        /\ \A c \in Bookings : c # b => booking'[c] = booking[c]
    BY <1>1, <1>2 DEF BookingRows
  <1>4. to = "in_service" => booking[b].st = "checked_in"
    BY <1>1 DEF CheckTransition, TRANSITIONS, May
  <1>5. QED BY <1>3, <1>4 DEF Seated

\* A worker that ends its errand, or takes up another, is no approval.
LEMMA NoApproval ==
    ASSUME TypeOK, NEW v \in Workers, NEW k, k.op \notin Approving, Busy(v, k)
    PROVE  \A w \in Workers : work'[w].op \in Approving => work'[w] = work[w]
  BY DEF TypeOK, Busy

\* Every step is one of the check-in requests' own, or a bystander to them.
LEMMA RequestStepsOnly ==
    ASSUME DeskType, NoDeskCheckIn, DeskStep
    PROVE  \/ Bystander
           \/ \E b \in Bookings, k \in Chairs \cup {None} : Raise(b, k)
           \/ \E b \in Bookings : Reject(b) \/ Withdraw(b)
           \/ \E w \in Workers, b \in Bookings : ApproveLock(w, b)
           \/ \E w \in Workers : \/ ApproveChair(w) \/ ApproveGate(w)
                                 \/ ApproveSeat(w) \/ ApproveMark(w) \/ LapseWrite(w)
  <1>0. /\ TypeOK /\ booking \in [Bookings -> BookingRows]
        /\ work \in [Workers -> Jobs] /\ Idle.op \notin Approving
    BY DEF DeskType, TypeOK, Idle, Approving
  <1>1. ASSUME request' = request, work' = work,
               \A b \in Bookings : Seated(b)' => Seated(b)
        PROVE  Bystander
    BY <1>1 DEF Bystander
  <1>2. ASSUME request' = request, NEW v \in Workers, NEW k, k.op \notin Approving,
               Busy(v, k), ~On("desk") => \A b \in Bookings : Seated(b)' => Seated(b)
        PROVE  Bystander
    BY <1>0, <1>2, NoApproval DEF Bystander
  <1>3. ASSUME request' = request, NEW v \in Workers, Done(v),
               ~On("desk") => \A b \in Bookings : Seated(b)' => Seated(b)
        PROVE  Bystander
    BY <1>0, <1>2, <1>3 DEF Done, Busy
  <1>4. ASSUME booking' = booking
        PROVE  \A b \in Bookings : Seated(b)' => Seated(b)
    BY <1>4 DEF Seated
  \* steps of no worker
  <1>5. ASSUME NEW b \in Bookings, NEW s \in scenario.slots, NEW k \in scenario.kinds,
               NEW d \in Deposits, Book(b, s, k, d)
        PROVE  Bystander
    <2>1. /\ s \in Slots /\ d \in Nat /\ k \in {"none", "paid", "link", "ask", "series"}
      BY <1>0, VisitsAssumption DEF VisitsAssumption, TypeOK
    <2>2. /\ Elsewhere(b)
          /\ booking'[b].st \in {"confirmed", "pending_payment", "pending_confirmation"}
      BY <1>0, <1>5, <2>1, BookEffect
    <2>3. \A c \in Bookings : Seated(c)' => Seated(c)
      BY <2>2 DEF Elsewhere, Seated
    <2>4. request' = request /\ work' = work BY <1>5 DEF Book
    <2>5. QED BY <1>1, <2>3, <2>4
  <1>6. ASSUME Tick PROVE Bystander
    BY <1>1, <1>4, <1>6 DEF Tick
  <1>7. ASSUME NEW b \in Bookings, NEW to, NEW a, NEW who, DeskCommand(b, to, a, who)
        PROVE  Bystander
    <2>1. PICK out : out = SettleMoney(b, to, who, FALSE) OBVIOUS
    <2>2. Transition(b, to, a, TRUE, out, NoTender) /\ to # "checked_in" /\ work' = work
      BY <1>7, <2>1 DEF DeskCommand, Transition
    <2>3. QED BY <1>0, <1>1, <2>2, NobodySitsDown DEF Transition
  <1>8. ASSUME NEW b \in Bookings, UndoCheckIn(b) \/ ConfirmAskExpire(b)
        PROVE  Bystander
    <2>1. \A c \in Bookings : Seated(c)' => Seated(c)
      BY <1>0, <1>8 DEF UndoCheckIn, ConfirmAskExpire, Seated, BookingRows
    <2>2. request' = request /\ work' = work
      BY <1>8 DEF UndoCheckIn, ConfirmAskExpire
    <2>3. QED BY <1>1, <2>1, <2>2
  <1>9. ASSUME NEW b \in Bookings, MoneyStep(b) PROVE Bystander
    <2>1. /\ Elsewhere(b) /\ request' = request /\ work' = work
          /\ booking'[b].st \in {booking[b].st, "confirmed"}
      BY <1>9, MoneyEffect DEF MoneyWrite
    <2>2. \A c \in Bookings : Seated(c)' => Seated(c)
      BY <2>1 DEF Elsewhere, Seated
    <2>3. QED BY <1>1, <2>1, <2>2
  <1>10. ASSUME NEW b \in Bookings, NEW s \in Slots, ShiftInPlace(b, s) \/ Move(b, s)
         PROVE  Bystander
    <2>1. Elsewhere(b) /\ booking'[b].st \in MOVABLE
      BY <1>10, MoveEffect DEF MoveStep
    <2>2. \A c \in Bookings : Seated(c)' => Seated(c)
      BY <2>1 DEF Elsewhere, Seated, MOVABLE
    <2>3. request' = request /\ work' = work BY <1>10 DEF ShiftInPlace, Move
    <2>4. QED BY <1>1, <2>2, <2>3
  \* steps of a worker
  <1>11. ASSUME NEW w \in Workers, Crash(w) \/ DeskRefused(w) \/ WebhookRolledBack(w)
         PROVE  Bystander
    BY <1>3, <1>4, <1>11 DEF Crash, DeskRefused, WebhookRolledBack
  <1>12. ASSUME NEW w \in Workers, NEW a, NEW vip, NEW bill, NEW y,
                DeskTransition(w, a, vip, bill, y)
         PROVE  Bystander
    <2>0. PICK to : to = work[w].to OBVIOUS
    <2>1. PICK b \in Bookings : b = work[w].b
      BY <1>0, <1>12 DEF DeskTransition, TypeOK, WellFormed
    <2>2. PICK out, tender :
             /\ out = SettleMoney(b, to, "customer", vip)
             /\ tender = IF to = "settled" THEN Tender(work[w].seen, bill, y)
                                           ELSE NoTender
      OBVIOUS
    <2>3. Transition(b, to, a, TRUE, out, tender)
      BY <1>12, <2>0, <2>1, <2>2 DEF DeskTransition, Transition
    <2>4. ~On("desk") => to # "checked_in"
      BY <1>12, <2>0, <2>1 DEF DeskTransition, NoDeskCheckIn
    <2>5. ~On("desk") => \A c \in Bookings : Seated(c)' => Seated(c)
      BY <1>0, <2>3, <2>4, NobodySitsDown
    <2>6. Done(w) /\ request' = request
      BY <1>12 DEF DeskTransition, Transition
    <2>7. QED BY <1>3, <2>5, <2>6
  <1>13. ASSUME NEW w \in Workers, NEW b, Rest(w, b), request' = request,
                work[w].op \in {"no_show", "expire"},
                \A c \in Bookings : Seated(c)' => Seated(c)
         PROVE  Bystander
    <2>1. CASE work[w].todo = {b}
      BY <1>3, <1>13, <2>1 DEF Rest
    <2>2. CASE work[w].todo # {b}
      <3>1. PICK k : k = [work[w] EXCEPT !.todo = @ \ {b}] OBVIOUS
      <3>2. k.op = work[w].op BY <1>0, <3>1 DEF Jobs
      <3>3. Busy(w, k) BY <1>13, <2>2, <3>1 DEF Rest, Busy
      <3>4. k.op \notin Approving BY <1>13, <3>2 DEF Approving
      <3>5. QED BY <1>2, <1>13, <3>3, <3>4
    <2>3. QED BY <2>1, <2>2
  <1>14. ASSUME NEW w \in Workers, NoShowMark(w) PROVE Bystander
    <2>1. PICK b \in work[w].todo :
             /\ Rest(w, b)
             /\ \/ Transition(b, "no_show", "system", TRUE,
                              SettleMoney(b, "no_show", "customer", FALSE), NoTender)
                \/ UNCHANGED <<now, booking, rows, ledger, request>>
      BY <1>14 DEF NoShowMark
    <2>2. b \in Bookings BY <1>0 DEF Jobs
    <2>3. PICK out : out = SettleMoney(b, "no_show", "customer", FALSE)
      OBVIOUS
    <2>4. \/ Transition(b, "no_show", "system", TRUE, out, NoTender)
          \/ UNCHANGED <<now, booking, rows, ledger, request>>
      BY <2>1, <2>3 DEF Transition
    <2>5. \A c \in Bookings : Seated(c)' => Seated(c)
      BY <1>0, <1>4, <2>2, <2>4, NobodySitsDown
    <2>6. request' = request BY <2>4 DEF Transition
    <2>7. work[w].op = "no_show" BY <1>14 DEF NoShowMark
    <2>8. QED BY <1>13, <2>1, <2>5, <2>6, <2>7
  <1>15. ASSUME NEW w \in Workers, LinkExpire(w) PROVE Bystander
    <2>1. PICK b \in work[w].todo :
             /\ Rest(w, b)
             /\ \/ Transition(b, "expired", "system", TRUE, Nothing, NoTender)
                \/ UNCHANGED <<now, booking, rows, ledger, request>>
      BY <1>15 DEF LinkExpire
    <2>2. b \in Bookings BY <1>0 DEF Jobs
    <2>3. \A c \in Bookings : Seated(c)' => Seated(c)
      BY <1>0, <1>4, <2>1, <2>2, NobodySitsDown
    <2>4. request' = request BY <2>1 DEF Transition
    <2>5. work[w].op = "expire" BY <1>15 DEF LinkExpire
    <2>6. QED BY <1>13, <2>1, <2>3, <2>4, <2>5
  <1>16. ASSUME NEW w \in Workers, NEW op, op \notin Approving, request' = request,
                booking' = booking, NEW b, NEW to, NEW x, NEW S, NEW i,
                \/ Busy(w, [Idle EXCEPT !.op = op, !.b = b, !.to = to, !.seen = x])
                \/ Busy(w, [Idle EXCEPT !.op = op, !.todo = S])
                \/ Busy(w, [Idle EXCEPT !.op = op, !.b = b, !.seen = x, !.to = to])
                \/ Busy(w, [Idle EXCEPT !.op = op, !.b = b, !.seen = x])
                \/ Busy(w, [Idle EXCEPT !.op = op, !.b = b, !.intent = i, !.to = to])
         PROVE  Bystander
    <2>1. PICK k :
            /\ Busy(w, k)
            /\ \/ k = [Idle EXCEPT !.op = op, !.b = b, !.to = to, !.seen = x]
               \/ k = [Idle EXCEPT !.op = op, !.todo = S]
               \/ k = [Idle EXCEPT !.op = op, !.b = b, !.seen = x, !.to = to]
               \/ k = [Idle EXCEPT !.op = op, !.b = b, !.seen = x]
               \/ k = [Idle EXCEPT !.op = op, !.b = b, !.intent = i, !.to = to]
      BY <1>16
    <2>2. k.op = op BY <2>1 DEF Idle
    <2>3. QED BY <1>2, <1>4, <1>16, <2>1, <2>2
  <1>17. ASSUME NEW w \in Workers, NEW b, NEW to, NEW g, DeskRead(w, b, to, g)
         PROVE  Bystander
    <2>1. /\ Busy(w, [Idle EXCEPT !.op = "desk", !.b = b, !.to = to,
                            !.seen = IF to = "settled" THEN Balance(b) ELSE 0])
          /\ request' = request /\ booking' = booking
      BY <1>17 DEF DeskRead
    <2>2. "desk" \notin Approving BY DEF Approving
    <2>3. QED BY <1>16, <2>1, <2>2
  <1>18. ASSUME NEW w \in Workers, NoShowSelect(w) \/ LinkSelect(w) PROVE Bystander
    <2>1. PICK op \in {"no_show", "expire"} : \E S :
            /\ Busy(w, [Idle EXCEPT !.op = op, !.todo = S])
            /\ request' = request /\ booking' = booking
      BY <1>18 DEF NoShowSelect, LinkSelect
    <2>2. op \notin Approving BY DEF Approving
    <2>3. QED BY <1>16, <2>1, <2>2
  <1>19. ASSUME NEW w \in Workers, LapseRead(w) PROVE Bystander
    <2>1. PICK b, x, to :
            /\ Busy(w, [Idle EXCEPT !.op = "lapse", !.b = b, !.seen = x, !.to = to])
            /\ request' = request /\ booking' = booking
      BY <1>19 DEF LapseRead
    <2>2. "lapse" \notin Approving BY DEF Approving
    <2>3. QED BY <1>16, <2>1, <2>2
  <1>20. ASSUME NEW w \in Workers, NEW b \in Bookings, LinkRead(w, b) PROVE Bystander
    <2>1. /\ Busy(w, [Idle EXCEPT !.op = "link", !.b = b,
                                  !.seen = LinkExpiry(StartAt(b))])
          /\ request' = request /\ booking' = booking
      BY <1>20 DEF LinkRead
    <2>2. "link" \notin Approving BY DEF Approving
    <2>3. QED BY <1>16, <2>1, <2>2
  <1>21. ASSUME NEW w \in Workers, NEW b \in Bookings, NEW i, NEW kind,
                WebhookRead(w, b, i, kind)
         PROVE  Bystander
    <2>1. /\ Busy(w, [Idle EXCEPT !.op = "webhook", !.b = b, !.intent = i,
                                  !.to = Decision(b, kind)])
          /\ request' = request /\ booking' = booking
      BY <1>21 DEF WebhookRead
    <2>2. "webhook" \notin Approving BY DEF Approving
    <2>3. QED BY <1>16, <2>1, <2>2
  <1>22. ASSUME NEW w \in Workers, LinkWrite(w) PROVE Bystander
    <2>1. PICK b \in Bookings : b = work[w].b
      BY <1>0, <1>22 DEF LinkWrite, TypeOK, WellFormed
    <2>2. \A c \in Bookings : Seated(c)' => Seated(c)
      BY <1>0, <1>22, <2>1 DEF LinkWrite, Seated, BookingRows
    <2>3. QED BY <1>3, <1>22, <2>2 DEF LinkWrite
  <1>23. ASSUME NEW w \in Workers, NEW d \in Deposits, WebhookApply(w, d)
         PROVE  Bystander
    <2>1. d \in Nat BY VisitsAssumption DEF VisitsAssumption
    <2>2. PICK b \in Bookings :
            LateWrite(b) /\ booking'[b].st \in {booking[b].st, "confirmed"}
      BY <1>23, <2>1, WebhookEffect
    <2>3. \A c \in Bookings : Seated(c)' => Seated(c)
      BY <2>2 DEF LateWrite, Elsewhere, Seated
    <2>4. Done(w) /\ request' = request BY <1>23 DEF WebhookApply
    <2>5. QED BY <1>3, <2>3, <2>4
  <1>24. ASSUME NEW b \in Bookings,
                \/ \E key \in Keys : Capture(b, key)
                \/ \E key \in Keys : \E amt \in 1 .. MaxCredits : Refund(b, key, amt)
                \/ \E key \in Keys : \E amt \in Credits : Goodwill(b, key, amt)
                \/ On("revive") /\ \E key \in Keys : Revive(b, key)
                \/ \E pay \in PaymentStatuses :
                     \E amt \in 0 .. Price, ref \in References \cup {None} :
                        RecordPayment(b, pay, amt, ref)
         PROVE  Bystander
    <2>1. /\ 1 .. MaxCredits \subseteq Nat /\ Credits \subseteq Nat
          /\ 0 .. Price \subseteq Nat
      BY VisitsAssumption, MoneyAssumption DEF VisitsAssumption, MoneyAssumption
    <2>2. MoneyStep(b) BY <1>24, <2>1 DEF MoneyStep
    <2>3. QED BY <1>9, <2>2
  <1>25. QED
    BY <1>5, <1>6, <1>7, <1>8, <1>10, <1>11, <1>12, <1>14, <1>15, <1>17, <1>18,
       <1>19, <1>20, <1>21, <1>22, <1>23, <1>24
    DEF DeskStep

\* What a worker does at the desk, without the desk's own check-ins.
LEMMA NoDeskCheckInNext ==
    ASSUME DeskType, NoDeskCheckIn, DeskStep, scenario' = scenario
    PROVE  NoDeskCheckIn'
  <1>0. work \in [Workers -> Jobs] BY DEF DeskType, TypeOK
  <1>1. CASE work' = work
    BY <1>1 DEF NoDeskCheckIn, On
  <1>2. ASSUME NEW w \in Workers, NEW k, Errand(w, k), work' = [work EXCEPT ![w] = k]
        PROVE  NoDeskCheckIn'
    <2>1. k.op = "desk" => k.to = "settled" \/ On("desk")
      BY <1>2, ErrandIsAJob
    <2>2. \A v \in Workers : work'[v] = IF v = w THEN k ELSE work[v]
      BY <1>0, <1>2
    <2>3. QED BY <2>1, <2>2 DEF NoDeskCheckIn, On
  <1>3. QED BY <1>1, <1>2, WorkSteps

\* Nobody new is in a chair.
NobodyNew == ~On("desk") => \A c \in Bookings : \A k : InTheChair(c, k)' => InTheChair(c, k)

\* The chairs a worker may go on holding.
StaysLocked ==
    \A w \in Workers : work'[w].op \in Approving =>
        /\ work[w].op \in Approving /\ work'[w].b = work[w].b
        /\ work'[w].op \in Holding => work[w].op \in Holding
        /\ request'[work[w].b].st = "waiting"
        /\ request'[work[w].b].chair = request[work[w].b].chair

\* A step that seats nobody and takes no lock keeps what the locks are for.
LEMMA LocksKept ==
    ASSUME DeskType, ChairInv, scenario' = scenario, NobodyNew, StaysLocked
    PROVE  RequestsAreLocked' /\ ChairsAreLocked' /\ ApprovedChairsAreExclusive'
  <1>0. /\ RequestsAreLocked /\ ChairsAreLocked /\ ApprovedChairsAreExclusive
        /\ On("desk")' = On("desk")
    BY DEF ChairInv, On
  <1>1. RequestsAreLocked'
    BY <1>0 DEF RequestsAreLocked, StaysLocked
  <1>2. ChairsAreLocked'
    <2>1. ASSUME NEW w \in Workers, work'[w].op \in Holding,
                 NEW k, k = request'[work'[w].b].chair, k # None
          PROVE  /\ \A v \in Workers : v # w /\ work'[v].op \in Holding =>
                      request'[work'[v].b].chair # k
                 /\ ~On("desk") =>
                      \A x \in Bookings \ {work'[w].b} : ~InTheChair(x, k)'
      <3>1. Holding \subseteq Approving BY DEF Holding
      <3>2. /\ work[w].op \in Holding /\ work'[w].b = work[w].b
            /\ k = request[work[w].b].chair
        BY <2>1, <3>1 DEF StaysLocked
      <3>3. ASSUME NEW v \in Workers, v # w, work'[v].op \in Holding
            PROVE  request'[work'[v].b].chair # k
        <4>1. /\ work[v].op \in Holding /\ work'[v].b = work[v].b
              /\ request'[work[v].b].chair = request[work[v].b].chair
          BY <3>1, <3>3 DEF StaysLocked
        <4>2. QED BY <1>0, <2>1, <3>2, <3>3, <4>1 DEF ChairsAreLocked
      <3>4. ASSUME ~On("desk"), NEW x \in Bookings \ {work[w].b}
            PROVE  ~InTheChair(x, k)'
        <4>1. ~InTheChair(x, k)
          BY <1>0, <2>1, <3>2, <3>4 DEF ChairsAreLocked, Occupied
        <4>2. QED BY <3>4, <4>1 DEF NobodyNew
      <3>5. QED BY <3>2, <3>3, <3>4
    <2>2. QED BY <1>0, <2>1 DEF ChairsAreLocked, Occupied, InTheChair
  <1>3. ApprovedChairsAreExclusive'
    <2>1. ASSUME ~On("desk"), NEW b \in Bookings, NEW c \in Bookings, b # c,
                 NEW k, k = request'[b].chair, k # None,
                 InTheChair(b, k)', InTheChair(c, k)'
          PROVE  FALSE
      <3>1. InTheChair(b, k) /\ InTheChair(c, k)
        BY <2>1 DEF NobodyNew
      <3>2. request[b].chair = k BY <3>1 DEF InTheChair
      <3>3. QED BY <1>0, <2>1, <3>1, <3>2 DEF ApprovedChairsAreExclusive
    <2>2. QED BY <1>0, <2>1 DEF ApprovedChairsAreExclusive, InTheChair
  <1>4. QED BY <1>1, <1>2, <1>3

\* A request that no approval goes on with may be answered.
LEMMA Answered ==
    ASSUME DeskType, ChairInv, NEW b \in Bookings, NEW st, request[b].st = "waiting",
           request' = [request EXCEPT ![b].st = st], booking' = booking,
           \A w \in Workers : work'[w].op \in Approving =>
              work'[w] = work[w] /\ work[w].b # b
    PROVE  NobodyNew /\ StaysLocked
  <1>0. /\ request \in [Bookings -> RequestRows]
        /\ \A w \in Workers : work[w].op \in Approving =>
             work[w].b \in Bookings /\ request[work[w].b].st = "waiting"
    BY DEF DeskType, TypeOK, WellFormed, ChairInv, RequestsAreLocked
  <1>1. /\ \A c \in Bookings : c # b => request'[c] = request[c]
        /\ request'[b].chair = request[b].chair
    BY <1>0 DEF RequestRows
  <1>2. NobodyNew
    BY <1>1 DEF NobodyNew, InTheChair
  <1>3. StaysLocked
    BY <1>0, <1>1 DEF StaysLocked
  <1>4. QED BY <1>2, <1>3

\* Two approvals never share a request or a chair, and whoever is seated by one
\* was alone in the chair.
LEMMA ChairNext ==
    ASSUME DeskType, ChairInv, DeskStep, scenario' = scenario
    PROVE  RequestsAreLocked' /\ ChairsAreLocked' /\ ApprovedChairsAreExclusive'
  <1> DEFINE Goal ==
           RequestsAreLocked' /\ ChairsAreLocked' /\ ApprovedChairsAreExclusive'
  <1>0. /\ TypeOK /\ request \in [Bookings -> RequestRows]
        /\ work \in [Workers -> Jobs] /\ booking \in [Bookings -> BookingRows]
        /\ RequestsAreLocked /\ ChairsAreLocked /\ ApprovedChairsAreExclusive
        /\ NoDeskCheckIn /\ On("desk")' = On("desk")
        /\ \A w \in Workers : work[w].op \in Approving =>
             work[w].b \in Bookings /\ request[work[w].b].st = "waiting"
        /\ Idle.op \notin Approving /\ Holding \subseteq Approving
    BY DEF DeskType, TypeOK, WellFormed, ChairInv, RequestsAreLocked, On, Idle,
           Approving, Holding
  <1>1. ASSUME NobodyNew, StaysLocked PROVE Goal
    BY <1>1, LocksKept
  <1>2. ASSUME Bystander PROVE Goal
    <2>1. NobodyNew BY <1>2 DEF Bystander, NobodyNew, InTheChair, Seated
    <2>2. StaysLocked BY <1>0, <1>2 DEF Bystander, StaysLocked
    <2>3. QED BY <1>1, <2>1, <2>2
  <1>3. ASSUME NEW b \in Bookings, NEW k \in Chairs \cup {None}, Raise(b, k)
        PROVE  Goal
    <2>1. /\ booking[b].st = "confirmed" /\ request[b].st # "waiting"
          /\ booking' = booking /\ work' = work
          /\ \A c \in Bookings : c # b => request'[c] = request[c]
      BY <1>0, <1>3 DEF Raise, RaiseVerdict
    <2>2. NobodyNew BY <2>1 DEF NobodyNew, InTheChair
    <2>3. StaysLocked BY <1>0, <2>1 DEF StaysLocked
    <2>4. QED BY <1>1, <2>2, <2>3
  <1>4. ASSUME NEW b \in Bookings, Reject(b) \/ Withdraw(b) PROVE Goal
    <2>1. PICK st : /\ request[b].st = "waiting" /\ ~RequestLocked(b)
                    /\ request' = [request EXCEPT ![b].st = st]
                    /\ booking' = booking /\ work' = work
      BY <1>4 DEF Reject, Withdraw
    <2>2. \A w \in Workers : work'[w].op \in Approving =>
             work'[w] = work[w] /\ work[w].b # b
      BY <2>1 DEF RequestLocked
    <2>3. QED BY <1>1, <2>1, <2>2, Answered
  <1>5. ASSUME NEW w \in Workers, Done(w)
        PROVE  \A v \in Workers : work'[v].op \in Approving => v # w /\ work'[v] = work[v]
    BY <1>0, <1>5 DEF Done
  <1>6. ASSUME NEW w \in Workers, Done(w), request' = request, booking' = booking
        PROVE  Goal
    <2>1. Bystander BY <1>5, <1>6 DEF Bystander, Seated
    <2>2. QED BY <1>2, <2>1
  <1>7. ASSUME NEW w \in Workers, LapseWrite(w) PROVE Goal
    <2>0. PICK to : to = work[w].to OBVIOUS
    <2>1. PICK b \in Bookings : b = work[w].b
      BY <1>0, <1>7 DEF LapseWrite, TypeOK, WellFormed
    <2>2. Done(w) /\ booking' = booking /\ ~RequestLocked(b)
      BY <1>7, <2>1 DEF LapseWrite
    <2>3. CASE request' = request
      BY <1>6, <2>2, <2>3
    <2>4. CASE request[b].st = "waiting" /\ request' = [request EXCEPT ![b].st = to]
      <3>1. \A v \in Workers : work'[v].op \in Approving =>
               work'[v] = work[v] /\ work[v].b # b
        BY <1>5, <2>2 DEF RequestLocked
      <3>2. QED BY <1>1, <2>2, <2>4, <3>1, Answered
    <2>5. QED BY <1>7, <2>0, <2>1, <2>3, <2>4 DEF LapseWrite
  <1>8. ASSUME NEW w \in Workers, ApproveMark(w) PROVE Goal
    <2>1. PICK b \in Bookings : b = work[w].b
      BY <1>0, <1>8 DEF ApproveMark, Approving
    <2>2. /\ Done(w) /\ booking' = booking /\ work[w].op \in Approving
          /\ request' = [request EXCEPT ![b].st = "approved"]
      BY <1>8, <2>1 DEF ApproveMark, Approving
    <2>3. \A v \in Workers : work'[v].op \in Approving =>
             work'[v] = work[v] /\ work[v].b # b
      BY <1>0, <1>5, <2>1, <2>2 DEF RequestsAreLocked
    <2>4. request[b].st = "waiting" BY <1>0, <2>1, <2>2
    <2>5. QED BY <1>1, <2>2, <2>3, <2>4, Answered
  <1>9. ASSUME NEW w \in Workers, NEW op \in Holding, work[w].op \in Holding,
               work' = [work EXCEPT ![w] = [work[w] EXCEPT !.op = op]],
               request' = request, NobodyNew
        PROVE  Goal
    <2>1. \A v \in Workers : v # w => work'[v] = work[v]
      BY <1>0, <1>9
    <2>2. work'[w].op = op /\ work'[w].b = work[w].b
      BY <1>0, <1>9 DEF Jobs
    <2>3. StaysLocked BY <1>0, <1>9, <2>1, <2>2 DEF StaysLocked
    <2>4. QED BY <1>1, <1>9, <2>3
  <1>10. ASSUME NEW w \in Workers, ApproveGate(w) PROVE Goal
    <2>1. /\ Done(w) \/ Busy(w, [work[w] EXCEPT !.op = "seat"])
          /\ request' = request /\ booking' = booking /\ work[w].op \in Holding
      BY <1>10 DEF ApproveGate, Holding, Approving
    <2>2. NobodyNew BY <2>1 DEF NobodyNew, InTheChair
    <2>3. "seat" \in Holding BY DEF Holding, Approving
    <2>4. CASE Done(w) BY <1>6, <2>1, <2>4
    <2>5. CASE Busy(w, [work[w] EXCEPT !.op = "seat"])
      BY <1>9, <2>1, <2>2, <2>3, <2>5 DEF Busy
    <2>6. QED BY <2>1, <2>4, <2>5
  <1>11. ASSUME NEW w \in Workers, NEW b \in Bookings, ApproveLock(w, b) PROVE Goal
    <2>1. PICK op : op = IF request[b].chair = None THEN "gate" ELSE "chair"
      OBVIOUS
    <2>2. PICK k : k = [Idle EXCEPT !.b = b, !.op = op] OBVIOUS
    <2>3. k.b = b /\ k.op = op BY <2>2 DEF Idle
    <2>4. /\ work' = [work EXCEPT ![w] = k] /\ request' = request /\ booking' = booking
          /\ request[b].st = "waiting" /\ ~RequestLocked(b)
      BY <1>11, <2>1, <2>2 DEF ApproveLock, Busy
    <2>5. work'[w] = k /\ \A v \in Workers : v # w => work'[v] = work[v]
      BY <1>0, <2>4
    <2>6. RequestsAreLocked'
      BY <1>0, <2>3, <2>4, <2>5 DEF RequestsAreLocked, RequestLocked
    <2>7. k.op \in Holding => request[b].chair = None
      BY <2>1, <2>3 DEF Holding
    <2>8. \A x \in Bookings : \A c : InTheChair(x, c)' <=> InTheChair(x, c)
      BY <2>4 DEF InTheChair
    <2>9. ChairsAreLocked'
      <3>1. ASSUME NEW v \in Workers, work'[v].op \in Holding,
                   request[work'[v].b].chair # None
            PROVE  /\ work'[v] = work[v] /\ v # w
                   /\ \A u \in Workers : u # v /\ work'[u].op \in Holding =>
                        request[work'[u].b].chair # request[work'[v].b].chair
        <4>1. v # w BY <2>3, <2>5, <2>7, <3>1
        <4>2. work'[v] = work[v] BY <2>5, <4>1
        <4>3. \A u \in Workers : u # v /\ u # w /\ work'[u].op \in Holding =>
                request[work'[u].b].chair # request[work'[v].b].chair
          BY <1>0, <2>5, <3>1, <4>2 DEF ChairsAreLocked
        <4>4. QED BY <2>3, <2>5, <2>7, <3>1, <4>1, <4>2, <4>3
      <3>2. QED BY <1>0, <2>4, <3>1 DEF ChairsAreLocked, Occupied, InTheChair
    <2>10. ApprovedChairsAreExclusive'
      BY <1>0, <2>4 DEF ApprovedChairsAreExclusive, InTheChair
    <2>11. QED BY <2>6, <2>9, <2>10
  <1>12. ASSUME NEW w \in Workers, ApproveChair(w) PROVE Goal
    <2>1. /\ request' = request /\ booking' = booking /\ work[w].op \in Approving
          /\ work[w].op \notin Holding
          /\ ~ChairLocked(request[work[w].b].chair)
          /\ \/ Done(w)
             \/ /\ ~Occupied(request[work[w].b].chair, work[w].b)
                /\ Busy(w, [work[w] EXCEPT !.op = "gate"])
      BY <1>12 DEF ApproveChair, Approving, Holding
    <2>2. CASE Done(w) BY <1>6, <2>1, <2>2
    <2>3. CASE /\ ~Occupied(request[work[w].b].chair, work[w].b)
               /\ Busy(w, [work[w] EXCEPT !.op = "gate"])
      <3>1. /\ work'[w].op = "gate" /\ work'[w].b = work[w].b
            /\ \A v \in Workers : v # w => work'[v] = work[v]
        BY <1>0, <2>3 DEF Busy, Jobs
      <3>2. RequestsAreLocked'
        BY <1>0, <2>1, <3>1 DEF RequestsAreLocked
      <3>3. \A v \in Workers : v # w /\ work[v].op \in Holding =>
              request[work[v].b].chair # request[work[w].b].chair
        BY <2>1 DEF ChairLocked, Holding
      <3>4. \A v \in Workers : work'[v].b = work[v].b BY <3>1
      <3>5. ChairsAreLocked'
        <4>1. ASSUME NEW v \in Workers, work'[v].op \in Holding,
                     request[work[v].b].chair # None
              PROVE  /\ \A u \in Workers : u # v /\ work'[u].op \in Holding =>
                          request[work[u].b].chair # request[work[v].b].chair
                     /\ ~On("desk") => ~Occupied(request[work[v].b].chair, work[v].b)
          <5>1. CASE v = w
            BY <2>3, <3>1, <3>3, <5>1
          <5>2. CASE v # w
            <6>1. work[v].op \in Holding BY <3>1, <4>1, <5>2
            <6>2. \A u \in Workers : u # v /\ u # w /\ work'[u].op \in Holding =>
                    request[work[u].b].chair # request[work[v].b].chair
              BY <1>0, <3>1, <4>1, <6>1 DEF ChairsAreLocked
            <6>3. QED BY <1>0, <3>3, <4>1, <5>2, <6>1, <6>2 DEF ChairsAreLocked
          <5>3. QED BY <5>1, <5>2
        <4>2. QED BY <1>0, <2>1, <3>4, <4>1 DEF ChairsAreLocked, Occupied, InTheChair
      <3>6. ApprovedChairsAreExclusive'
        BY <1>0, <2>1 DEF ApprovedChairsAreExclusive, InTheChair
      <3>7. QED BY <3>2, <3>5, <3>6
    <2>4. QED BY <2>1, <2>2, <2>3
  <1>13. ASSUME NEW w \in Workers, ApproveSeat(w) PROVE Goal
    <2>1. PICK b \in Bookings : b = work[w].b
      BY <1>0, <1>13 DEF ApproveSeat, Approving
    <2>2. /\ work[w].op \in Holding
          /\ \/ Done(w) /\ request' = request /\ booking' = booking
             \/ /\ Busy(w, [work[w] EXCEPT !.op = "mark"])
                /\ Transition(b, "checked_in", "staff", TRUE, Nothing, NoTender)
      BY <1>13, <2>1 DEF ApproveSeat, Holding, Approving, Transition
    <2>3. CASE Done(w) /\ request' = request /\ booking' = booking
      BY <1>6, <2>3
    <2>4. CASE /\ Busy(w, [work[w] EXCEPT !.op = "mark"])
               /\ Transition(b, "checked_in", "staff", TRUE, Nothing, NoTender)
      <3>1. /\ request' = request
            /\ \A c \in Bookings : c # b => booking'[c] = booking[c]
        BY <1>0, <2>4 DEF Transition
      <3>2. /\ work'[w].op = "mark" /\ work'[w].b = work[w].b
            /\ \A v \in Workers : v # w => work'[v] = work[v]
        BY <1>0, <2>4 DEF Busy, Jobs
      <3>3. \A v \in Workers : /\ work'[v].b = work[v].b
                               /\ work'[v].op \in Approving <=> work[v].op \in Approving
                               /\ work'[v].op \in Holding <=> work[v].op \in Holding
        BY <1>0, <2>2, <3>2 DEF Holding, Approving
      <3>4. RequestsAreLocked'
        BY <1>0, <3>1, <3>3 DEF RequestsAreLocked
      <3>5. \A c \in Bookings : \A k : c # b => (InTheChair(c, k)' <=> InTheChair(c, k))
        BY <3>1 DEF InTheChair
      <3>6. ASSUME ~On("desk"), request[b].chair # None, NEW c \in Bookings, c # b
            PROVE  ~InTheChair(c, request[b].chair)
        BY <1>0, <2>1, <2>2, <3>6 DEF ChairsAreLocked, Occupied
      <3>7. ChairsAreLocked'
        <4>1. ASSUME NEW v \in Workers, work[v].op \in Holding, NEW k,
                     k = request[work[v].b].chair, k # None
              PROVE  /\ \A u \in Workers : u # v /\ work[u].op \in Holding =>
                          request[work[u].b].chair # k
                     /\ ~On("desk") =>
                          \A x \in Bookings \ {work[v].b} : ~InTheChair(x, k)'
          <5>1. \A u \in Workers : u # v /\ work[u].op \in Holding =>
                          request[work[u].b].chair # k
            BY <1>0, <4>1 DEF ChairsAreLocked
          <5>2. ASSUME ~On("desk"), NEW x \in Bookings \ {work[v].b}
                PROVE  ~InTheChair(x, k)'
            <6>1. ~InTheChair(x, k)
              BY <1>0, <4>1, <5>2 DEF ChairsAreLocked, Occupied
            <6>2. CASE x # b BY <3>5, <6>1, <6>2
            <6>3. CASE x = b
              <7>1. v # w BY <2>1, <5>2, <6>3
              <7>2. request[b].chair # k BY <2>1, <2>2, <5>1, <7>1
              <7>3. QED BY <3>1, <6>3, <7>2 DEF InTheChair
            <6>4. QED BY <6>2, <6>3
          <5>3. QED BY <5>1, <5>2
        <4>2. QED BY <1>0, <3>1, <3>3, <4>1 DEF ChairsAreLocked, Occupied, InTheChair
      <3>8. ApprovedChairsAreExclusive'
        <4>1. ASSUME ~On("desk"), NEW x \in Bookings, NEW c \in Bookings, x # c,
                     NEW k, k = request[x].chair, k # None,
                     InTheChair(x, k)', InTheChair(c, k)'
              PROVE  FALSE
          <5>1. CASE x = b
            <6>1. InTheChair(c, k) BY <3>5, <4>1, <5>1
            <6>2. QED BY <3>6, <4>1, <5>1, <6>1
          <5>2. CASE c = b
            <6>1. InTheChair(x, k) BY <3>5, <4>1, <5>2
            <6>2. request[b].chair = k BY <3>1, <4>1, <5>2 DEF InTheChair
            <6>3. QED BY <3>6, <4>1, <5>2, <6>1, <6>2
          <5>3. CASE x # b /\ c # b
            <6>1. InTheChair(x, k) /\ InTheChair(c, k) BY <3>5, <4>1, <5>3
            <6>2. QED BY <1>0, <4>1, <6>1 DEF ApprovedChairsAreExclusive
          <5>4. QED BY <5>1, <5>2, <5>3
        <4>2. QED BY <1>0, <3>1, <4>1 DEF ApprovedChairsAreExclusive, InTheChair
      <3>9. QED BY <3>4, <3>7, <3>8
    <2>5. QED BY <2>2, <2>3, <2>4
  <1> HIDE DEF Goal
  <1>14. Goal
    BY <1>0, <1>2, <1>3, <1>4, <1>7, <1>8, <1>10, <1>11, <1>12, <1>13,
       RequestStepsOnly
  <1>15. QED BY <1>14 DEF Goal

\* A chair seats one customer for any number of bookings, desks and chairs,
\* whoever crashes between the lock, the check-in and the mark.
THEOREM ChairsSeatOne == Spec => []ApprovedChairsAreExclusive
  <1>1. Init => ChairInv
    <2> SUFFICES ASSUME Init PROVE ChairInv
      OBVIOUS
    <2>1. \A w \in Workers : work[w].op = "idle" BY DEF Init, Idle
    <2>2. \A b \in Bookings : booking[b].st = "unused" BY DEF Init, NoBooking
    <2>3. QED BY <2>1, <2>2
          DEF ChairInv, RequestsAreLocked, ChairsAreLocked, NoDeskCheckIn,
              ApprovedChairsAreExclusive, InTheChair, Approving, Holding
  <1>2. DeskType /\ ChairInv /\ [Next]_vars => ChairInv'
    <2> SUFFICES ASSUME DeskType, ChairInv, [Next]_vars PROVE ChairInv'
      OBVIOUS
    <2>1. CASE UNCHANGED vars
      <3>1. /\ work' = work /\ request' = request /\ booking' = booking
            /\ scenario' = scenario
        BY <2>1 DEF vars, tables
      <3>2. QED BY <3>1
            DEF ChairInv, RequestsAreLocked, ChairsAreLocked, NoDeskCheckIn,
                ApprovedChairsAreExclusive, Occupied, InTheChair, On
    <2>2. CASE Next
      <3>1. DeskStep /\ scenario' = scenario BY <2>2 DEF Next
      <3>2. QED BY <3>1, ChairNext, NoDeskCheckInNext DEF ChairInv
    <2>3. QED BY <2>1, <2>2
  <1>3. ChairInv => ApprovedChairsAreExclusive
    BY DEF ChairInv
  <1>4. QED BY <1>1, <1>2, <1>3, DeskTypeCorrect, PTL DEF Spec

=============================================================================
