----------------------------- MODULE Lifecycle -----------------------------
(***************************************************************************)
(* The booking state machine: the transition table, the one transaction    *)
(* every lifecycle move goes through with its money outcome, the desk      *)
(* commands in front of it and the automatic no-show job.                  *)
(***************************************************************************)
EXTENDS Visits

CONSTANTS
    FreeCancel,    \* FREE_CANCEL_WINDOW_HOURS
    LateCancel,    \* LATE_CANCEL_WINDOW_HOURS
    CheckInOpens,  \* CHECK_IN_OPENS_MIN
    Graces,        \* ARRIVAL_GRACE_MIN, and VIP_ARRIVAL_GRACE_MIN
    AutoNoShow,    \* AUTO_NO_SHOW_MIN
    UndoWindow,    \* UNDO_WINDOW_MIN
    Bills,         \* what the register may come to
    Loyalty,       \* loyalty that may be redeemed against it
    SweepLimit     \* LIMIT of the jobs' candidate queries

ASSUME LifecycleAssumption ==
    /\ FreeCancel \in Nat /\ LateCancel \in Nat /\ LateCancel <= FreeCancel
    /\ CheckInOpens \in Nat /\ Graces \subseteq Nat /\ AutoNoShow \in Nat
    /\ UndoWindow \in Nat /\ Bills \subseteq Nat /\ Loyalty \subseteq Nat
    /\ SweepLimit \in Nat \ {0}

-----------------------------------------------------------------------------
(* domain/booking/lifecycle.ts *)

ANY_STAFF == {"staff", "manager"}
Actors    == ANY_STAFF \cup {"customer", "system"}

May(from, to, actors, needsReason) ==
    [from |-> from, to |-> to, actors |-> actors, needsReason |-> needsReason]

TRANSITIONS ==
    {May("draft", "held", {"customer"} \cup ANY_STAFF, FALSE),
     May("held", "confirmed", {"customer"} \cup ANY_STAFF, FALSE),
     May("held", "pending_payment", ANY_STAFF, FALSE),
     May("held", "expired", {"system"}, FALSE),
     May("pending_payment", "confirmed", {"customer", "system"}, FALSE),
     May("pending_payment", "expired", {"system"}, FALSE),
     May("pending_payment", "cancelled", {"customer"} \cup ANY_STAFF, TRUE),
     May("pending_confirmation", "confirmed", {"customer"}, FALSE),
     May("pending_confirmation", "expired", {"system"}, FALSE),
     May("pending_confirmation", "skipped", {"customer"} \cup ANY_STAFF, TRUE),
     May("confirmed", "checked_in", ANY_STAFF, FALSE),
     May("confirmed", "cancelled", {"customer"} \cup ANY_STAFF, TRUE),
     May("confirmed", "no_show", ANY_STAFF \cup {"system"}, FALSE),
     May("confirmed", "rescheduled", {"customer"} \cup ANY_STAFF, TRUE),
     May("checked_in", "confirmed", ANY_STAFF, TRUE),
     May("checked_in", "in_service", ANY_STAFF, FALSE),
     May("checked_in", "cancelled", ANY_STAFF, TRUE),
     May("checked_in", "no_show", ANY_STAFF, TRUE),
     May("in_service", "completed", ANY_STAFF, FALSE),
     May("completed", "settled", ANY_STAFF, FALSE)}

CheckTransition(from, to, actor, reason) ==
    \E t \in TRANSITIONS :
        /\ t.from = from /\ t.to = to /\ actor \in t.actors
        /\ t.needsReason => reason

Nothing == [refund |-> 0, kept |-> 0]

RefundAlways(captured, ahead, who, paidInFull) ==                 \* mutant
    [refund |-> captured, kept |-> IF who = "salon" \/ ahead > FreeCancel
                                   THEN 0 ELSE captured]

\* What a cancellation gives back and keeps, by who called it off and when.
CancellationOutcome(captured, ahead, who, paidInFull) ==
    CASE who = "salon" \/ ahead > FreeCancel ->
            [refund |-> captured, kept |-> 0]
      [] who # "salon" /\ ahead <= FreeCancel /\ ahead >= LateCancel
           /\ paidInFull ->
            [refund |-> captured \div 2, kept |-> captured - captured \div 2]
      [] OTHER -> [refund |-> 0, kept |-> captured]

\* A VIP standing reservation has the no-show fee waived.
NoShowOutcome(captured, vip) ==
    IF vip THEN [refund |-> captured, kept |-> 0]
           ELSE [refund |-> 0, kept |-> captured]

\* The same moments whether the desk, the gate or the job asks.
DayOfWindow(start, grace) ==
    [opensAt |-> start - CheckInOpens, graceEndsAt |-> start + grace,
     autoNoShowAt |-> start + AutoNoShow]

\* The desk may act: check-in has opened, the grace has run out.
InTime(to, start, grace) ==
    /\ to = "checked_in" => now >= DayOfWindow(start, grace).opensAt
    /\ to = "no_show" => now >= DayOfWindow(start, grace).graceEndsAt

CanUndoCheckIn(arrived) == now - arrived <= UndoWindow

-----------------------------------------------------------------------------
(* LifecycleRepository *)

\* settleMoney(): decided inside the transaction, from the ledger's sum.
SettleMoney(b, to, who, vip) ==
    CASE to = "no_show" -> NoShowOutcome(Balance(b), vip)
      [] to = "cancelled" ->
            CancellationOutcome(Balance(b), StartAt(b) - now, who, FALSE)
      [] OTHER -> Nothing

\* settle(): a bill below what was paid is credited; the rest is tender.
Tender(seen, bill, loyalty) ==
    LET credit == IF bill < seen + loyalty THEN seen + loyalty - bill ELSE 0
    IN  [credit |-> credit,
         applied |-> IF seen > credit THEN seen - credit ELSE 0]
NoTender == [credit |-> 0, applied |-> 0]

NextPaymentStatus(pay, out) ==
    CASE out.refund > 0 /\ out.kept > 0 -> "partially_refunded"
      [] out.refund > 0 /\ out.kept = 0 -> "refunded"
      [] out.refund = 0 /\ out.kept > 0 -> "forfeited"
      [] OTHER -> pay

\* The line that returns capacity.
ReleaseCapacity(b, to) ==
    IF to \in RELEASING_STATES THEN SetBlocking(b, FALSE) ELSE rows

\* transition(): legality against the fresh status, the money rows, the
\* status, the capacity, all under the booking's row lock.
Transition(b, to, actor, reason, out, tender) ==
    /\ CheckTransition(booking[b].st, to, actor, reason)
    /\ booking' = [booking EXCEPT
          ![b].st = to,
          ![b].pay = NextPaymentStatus(@, out),
          ![b].arrived = IF to = "checked_in" THEN now ELSE @]
    /\ rows' = ReleaseCapacity(b, to)
    /\ ledger' = [ledger EXCEPT
          ![b].refunded = @ + out.refund + tender.credit,
          ![b].forfeited = @ + out.kept,
          ![b].last = IF out.kept > 0 THEN out.kept ELSE @,
          ![b].applied = @ + tender.applied]
    /\ UNCHANGED <<now, request>>

-----------------------------------------------------------------------------
(* LifecycleHandler and the desk *)

\* start, complete and cancel read nothing before the transaction.
DeskCommand(b, to, actor, who) ==
    /\ to \in {"in_service", "completed", "cancelled"}
    /\ Transition(b, to, actor, TRUE, SettleMoney(b, to, who, FALSE), NoTender)
    /\ UNCHANGED work

\* check-in, no-show: the day-of gate reads the start.  settle: ticketFor()
\* reads the ledger.  None of the three reads takes a lock.
DeskRead(w, b, to, grace) ==
    /\ Free(w) /\ booking[b].st # "unused"
    /\ to \in {"checked_in", "no_show", "settled"}
    /\ InTime(to, StartAt(b), grace)
    /\ Busy(w, [Idle EXCEPT !.op = "desk", !.b = b, !.to = to,
                            !.seen = IF to = "settled" THEN Balance(b) ELSE 0])
    /\ UNCHANGED <<now, booking, rows, ledger, request>>

DeskTransition(w, actor, vip, bill, loyalty) ==
    LET k == work[w] IN
    /\ k.op = "desk"
    /\ Transition(k.b, k.to, actor, TRUE, SettleMoney(k.b, k.to, "customer", vip),
                  IF k.to = "settled" THEN Tender(k.seen, bill, loyalty)
                                      ELSE NoTender)
    /\ Done(w)

\* The transaction finds the booking moved on: 409, nothing written.
DeskRefused(w) ==
    /\ work[w].op = "desk"
    /\ \A a \in Actors :
         ~CheckTransition(booking[work[w].b].st, work[w].to, a, TRUE)
    /\ Done(w)
    /\ UNCHANGED <<now, booking, rows, ledger, request>>

\* undo-check-in, straight to confirmed within five minutes.
UndoCheckIn(b) ==
    /\ booking[b].st = "checked_in"
    /\ CanUndoCheckIn(booking[b].arrived)
    /\ booking' = [booking EXCEPT ![b].st = "confirmed"]
    /\ UNCHANGED <<now, rows, ledger, request, work>>

-----------------------------------------------------------------------------
(* NoShowSweeper *)

\* arrivalClaimed: the latest request is anything but rejected.
ArrivalClaimed(b) == request[b].st \notin {"none", "rejected"}

Stale(b) == booking[b].st = "confirmed" /\ StartAt(b) + AutoNoShow <= now

FilterInTheLoop == {b \in Bookings : Stale(b)}                    \* mutant

NoShowCandidates == {b \in Bookings : Stale(b) /\ ~ArrivalClaimed(b)}

NoShowSelect(w) ==
    /\ Free(w) /\ NoShowCandidates # {}
    /\ \E S \in FirstOf(NoShowCandidates,
                         [b \in NoShowCandidates |-> StartAt(b)], SweepLimit) :
         Busy(w, [Idle EXCEPT !.op = "no_show", !.todo = S])
    /\ UNCHANGED <<now, booking, rows, ledger, request>>

UnlessCancelled(b) == booking[b].st = "confirmed"                 \* mutant

\* unlessArrivalClaimed, asked again inside the row lock.
StillAbsent(b) == booking[b].st = "confirmed" /\ ~ArrivalClaimed(b)

NoShowMark(w) ==
    /\ work[w].op = "no_show"
    /\ \E b \in work[w].todo :
         /\ Rest(w, b)
         /\ \/ /\ StillAbsent(b)
               /\ Transition(b, "no_show", "system", TRUE,
                             SettleMoney(b, "no_show", "customer", FALSE),
                             NoTender)
            \/ /\ ~StillAbsent(b)
               /\ UNCHANGED <<now, booking, rows, ledger, request>>
=============================================================================
