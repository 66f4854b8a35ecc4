-------------------------------- MODULE Desk --------------------------------
(***************************************************************************)
(* The life of a booking after it exists: every component that writes the  *)
(* booking tables, running side by side.  A scenario says whose callers    *)
(* are active in a behaviour; the definitions do not depend on it.         *)
(***************************************************************************)
EXTENDS CheckInRequests, MoneyDesk, PaymentLinks, Reschedule

On(part) == part \in scenario.parts

DeskStep ==
    \/ \E b \in Bookings, s \in scenario.slots, k \in scenario.kinds, d \in Deposits :
         Book(b, s, k, d)
    \/ Tick
    \/ On("crash") /\ \E w \in Workers : Crash(w)
    \* the desk and its jobs
    \/ On("service") /\ \E b \in Bookings, a \in Actors :
         \E to \in {"in_service", "completed"} : DeskCommand(b, to, a, "customer")
    \/ On("cancel") /\ \E b \in Bookings, a \in Actors :
         \E who \in {"customer", "salon"} : DeskCommand(b, "cancelled", a, who)
    \/ On("desk") /\ \E w \in Workers, b \in Bookings, g \in Graces :
         \E to \in {"checked_in", "no_show"} : DeskRead(w, b, to, g)
    \/ On("settle") /\ \E w \in Workers, b \in Bookings :
         DeskRead(w, b, "settled", 0)
    \/ \E w \in Workers, a \in Actors, vip \in BOOLEAN :
         \E bill \in Bills, y \in Loyalty : DeskTransition(w, a, vip, bill, y)
    \/ \E w \in Workers : DeskRefused(w)
    \/ On("undo") /\ \E b \in Bookings : UndoCheckIn(b)
    \/ On("absence") /\ \E w \in Workers : NoShowSelect(w)
    \/ \E w \in Workers : NoShowMark(w)
    \* self check-in
    \/ On("arrival") /\ \E b \in Bookings, k \in Chairs \cup {None} : Raise(b, k)
    \/ On("approve") /\ \E w \in Workers, b \in Bookings : ApproveLock(w, b)
    \/ \E w \in Workers : ApproveChair(w) \/ ApproveGate(w)
    \/ \E w \in Workers : ApproveSeat(w) \/ ApproveMark(w)
    \/ On("arrival") /\ \E b \in Bookings : Reject(b) \/ Withdraw(b)
    \/ On("arrival") /\ \E w \in Workers : LapseRead(w) \/ LapseWrite(w)
    \* money
    \/ On("capture") /\ \E b \in Bookings, key \in Keys : Capture(b, key)
    \/ On("refund") /\ \E b \in Bookings, key \in Keys :
         \E amt \in 1 .. MaxCredits : Refund(b, key, amt)
    \/ On("goodwill") /\ \E b \in Bookings, key \in Keys :
         \E amt \in Credits : Goodwill(b, key, amt)
    \/ On("revive") /\ \E b \in Bookings, key \in Keys : Revive(b, key)
    \/ On("mobile") /\ \E b \in Bookings, pay \in PaymentStatuses :
         \E amt \in 0 .. Price, ref \in References \cup {None} :
            RecordPayment(b, pay, amt, ref)
    \* links, webhooks, asks
    \/ On("link") /\ \E w \in Workers, b \in Bookings : LinkRead(w, b)
    \/ \E w \in Workers : LinkWrite(w)
    \/ On("sweep") /\ \E w \in Workers : LinkSelect(w) \/ LinkExpire(w)
    \/ On("webhook") /\ \E w \in Workers, b \in Bookings :
         \E i \in Intents, kind \in Events : WebhookRead(w, b, i, kind)
    \/ \E w \in Workers, d \in Deposits : WebhookApply(w, d)
    \/ \E w \in Workers : WebhookRolledBack(w)
    \/ On("ask") /\ \E b \in Bookings : ConfirmAskExpire(b)
    \* moves
    \/ On("shift") /\ \E b \in Bookings, s \in Slots : ShiftInPlace(b, s)
    \/ On("move") /\ \E b \in Bookings, s \in Slots : Move(b, s)

Next == DeskStep /\ UNCHANGED scenario

Spec == Init /\ [][Next]_vars

\* The clock runs, every interval job runs again and again on some replica
\* until it gets through, and a request being served is served.
Fairness ==
    /\ WF_tables(Tick)
    /\ \A w \in Workers :
         /\ SF_tables(NoShowMark(w)) /\ SF_tables(LinkExpire(w))
         /\ SF_tables(LapseWrite(w))
         /\ WF_tables(ApproveChair(w) \/ ApproveGate(w) \/ ApproveSeat(w)
                      \/ ApproveMark(w))
         /\ WF_tables(DeskRefused(w)) /\ WF_tables(LinkWrite(w))
         /\ WF_tables(\E a \in Actors, vip \in BOOLEAN, bill \in Bills :
                      \E y \in Loyalty : DeskTransition(w, a, vip, bill, y))
    /\ SF_tables(\E w \in Workers : NoShowSelect(w))
    /\ SF_tables(\E w \in Workers : LinkSelect(w))
    /\ SF_tables(\E w \in Workers : LapseRead(w))

FairSpec == Spec /\ Fairness

-----------------------------------------------------------------------------
(* The diary *)

\* No two reservations that block are of one professional at one time,
\* whatever moved, was revived or was reinstated.
NoDoubleBooking ==
    \A r, q \in rows : r.blocking /\ q.blocking /\ r.slot = q.slot => r = q

\* "Capacity returns the instant one of these is reached": a cancelled,
\* absent, expired or skipped booking holds nothing in the diary.
ReleasedMeansFree ==
    \A b \in Bookings : booking[b].st \in RELEASING_STATES =>
        \A r \in RowsOf(b) : ~r.blocking

\* A booking in a state the engine counts as occupying time does occupy its
\* own slot, so nobody else can be given it.
LiveBookingsBlock ==
    \A b \in Bookings : booking[b].st \in BLOCKING_STATES =>
        \E r \in RowsOf(b) : r.blocking /\ r.slot = booking[b].slot

\* "Capacity returns the instant" a booking leaves the diary, a booking still
\* in it always occupies its slot, one that moved blocks only where it is now,
\* and nobody is booked twice: the reservations follow the status whatever
\* happens to the visit.  Four writes are outside this: an unanswered ask
\* releases the visit by its status alone, a revived no-show gets its status
\* back without its time, and a link or a late payment can be written over a
\* cancellation made since it was read.
RowsFollowStatus ==
    /\ NoDoubleBooking
    /\ scenario.parts \cap {"ask", "revive", "link", "webhook"} = {} =>
         /\ ReleasedMeansFree /\ LiveBookingsBlock
         /\ \A b \in Bookings, r \in rows :
              r.owner = b /\ r.blocking => r.slot = booking[b].slot

-----------------------------------------------------------------------------
(* The money *)

Exits == {"cancelled", "no_show"}

\* The app reports a payment of a visit that was still unpaid.
ReportedLate(b) ==
    booking[b].pay = "unpaid" /\ ledger'[b].captured > ledger[b].captured

\* A visit that is called off or missed takes its protected balance to zero,
\* refund and forfeit together, and from then on only a goodwill credit moves
\* it, or the app's late word that an unpaid visit was paid: no exit path
\* keeps money against a visit that is not happening.
MoneyLeavesWithTheVisit ==
    [][\A b \in Bookings : booking'[b].st \in Exits =>
         IF booking[b].st \in Exits
         THEN \/ Balance(b)' - Balance(b) = ledger'[b].goodwill - ledger[b].goodwill
              \/ ReportedLate(b)
         ELSE Balance(b)' = 0]_vars

\* Money is taken, or credited, at most once for one reference: a retried
\* desk action, a redelivered webhook and a repeated callback add nothing.
\* (A callback without a reference is told apart by the booking being unpaid.)
NoMoneyTwice ==
    [][\A b \in Bookings :
         /\ booking[b].st # "unused"
         /\ \/ ledger'[b].captured > ledger[b].captured
            \/ ledger'[b].goodwill > ledger[b].goodwill
         => \/ ledger'[b].refs # ledger[b].refs
            \/ booking[b].pay = "unpaid" /\ booking'[b].pay # "unpaid"]_vars

-----------------------------------------------------------------------------
(* Links *)

Overdue(b) ==
    /\ booking[b].st = "pending_payment"
    /\ booking[b].link # None /\ booking[b].link <= now

\* A link that closed unpaid does not hold its slot for ever: the booking is
\* paid, called off, given a new window or expired.
UnpaidLinksClose ==
    \A b \in Bookings : Overdue(b) ~> ~Overdue(b)

-----------------------------------------------------------------------------
(* Arrivals *)

\* The job never marks absent a customer who said they arrived, even one who
\* said so between the job's query and its transaction.  (The desk may, and the
\* step is the job's own when it moves its worker.)
ClaimedNeverAutoNoShow ==
    [][\A w \in Workers, b \in Bookings :
         /\ work[w].op = "no_show" /\ b \in work[w].todo /\ work'[w] # work[w]
         /\ booking[b].st = "confirmed" /\ booking'[b].st = "no_show"
         => ~ArrivalClaimed(b)]_vars

\* A chair seats one customer, approved or about to be: two desks approving two
\* requests for the same chair do not both succeed, whoever crashes or undoes
\* in between.  The desk's ordinary check-in is outside this: it asks nothing
\* about the chair the customer scanned.
ApprovedChairsAreExclusive ==
    ~On("desk") =>
      \A b, c \in Bookings :
        b # c /\ request[b].chair # None /\ InTheChair(b, request[b].chair)
          => ~InTheChair(c, request[b].chair)

\* A late booking is decided on, or the desk sees it on its reception list: it
\* never falls between the job, which skips whoever said they arrived, and the
\* list, however many others the job may not touch.
LateBookingsAreDecided ==
    \A b \in Bookings : Stale(b) ~> (~Stale(b) \/ b \in Reception)

=============================================================================
