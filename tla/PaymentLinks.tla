---------------------------- MODULE PaymentLinks ----------------------------
(***************************************************************************)
(* Waiting for a customer: payment links and the job that closes them, the *)
(* gateway's webhooks, and the confirmation asks of a series with their    *)
(* job.  Links and webhooks read the booking without a lock and write it   *)
(* in a later transaction.                                                 *)
(***************************************************************************)
EXTENDS Lifecycle

CONSTANTS
    Intents,      \* gateway payment attempts
    Events,       \* the webhook kinds delivered for them
    AskWindow     \* CONFIRMATION_WINDOW_HOURS

ASSUME LinksAssumption ==
    /\ Events \subseteq {"captured", "capture_failed", "refunded",
                         "refund_failed"}
    /\ AskWindow \in Nat /\ None \notin Intents

-----------------------------------------------------------------------------
(* PaymentLinkHandler *)

Outstanding(b) == Price - (ledger[b].captured - ledger[b].refunded)

\* detail(), and everything decided from it: nothing is locked.
LinkRead(w, b) ==
    /\ Free(w)
    /\ booking[b].st \in {"confirmed", "pending_payment"}
    /\ Outstanding(b) > 0 /\ LinkOpen(StartAt(b))
    /\ Busy(w, [Idle EXCEPT !.op = "link", !.b = b,
                            !.seen = LinkExpiry(StartAt(b))])
    /\ UNCHANGED <<now, booking, rows, ledger, request>>

\* The update names the booking and nothing else.
LinkWrite(w) ==
    /\ work[w].op = "link"
    /\ booking' = [booking EXCEPT
          ![work[w].b].st = "pending_payment", ![work[w].b].pay = "unpaid",
          ![work[w].b].link = work[w].seen]
    /\ Done(w)
    /\ UNCHANGED <<now, rows, ledger, request>>

-----------------------------------------------------------------------------
(* PaymentLinkSweeper.expireClosed *)

ClosedThisMinute ==                                               \* mutant
    {b \in Bookings : booking[b].st = "pending_payment"
                      /\ booking[b].link # None /\ booking[b].link = now}

LinksClosed ==
    {b \in Bookings : booking[b].st = "pending_payment"
                      /\ booking[b].link # None /\ booking[b].link <= now}

LinkSelect(w) ==
    /\ Free(w) /\ LinksClosed # {}
    /\ \E S \in FirstOf(LinksClosed, [b \in LinksClosed |-> booking[b].link],
                        SweepLimit) :
         Busy(w, [Idle EXCEPT !.op = "expire", !.todo = S])
    /\ UNCHANGED <<now, booking, rows, ledger, request>>

\* The ordinary transition, judged on the status alone.
LinkExpire(w) ==
    /\ work[w].op = "expire"
    /\ \E b \in work[w].todo :
         /\ Rest(w, b)
         /\ \/ Transition(b, "expired", "system", TRUE, Nothing, NoTender)
            \/ /\ ~CheckTransition(booking[b].st, "expired", "system", TRUE)
               /\ UNCHANGED <<now, booking, rows, ledger, request>>

-----------------------------------------------------------------------------
(* PaymentWebhookHandler *)

AWAITING == {"pending_payment", "pending_confirmation"}
LIVE     == {"confirmed", "checked_in", "in_service", "completed", "settled"}

\* slotStillFree(): nothing blocks the time of any of its reservations, its
\* own included.
SlotStillFree(b) ==
    \A mine \in RowsOf(b), theirs \in rows :
        theirs.blocking => theirs.slot # mine.slot

\* handleWebhook(), for an intent not seen before.
Decision(b, kind) ==
    CASE kind = "capture_failed" -> "capture_failed"
      [] kind = "refunded" -> "refund_settled"
      [] kind = "refund_failed" -> "refund_to_wallet"
      [] kind = "captured" /\ booking[b].st \in AWAITING -> "confirm"
      [] kind = "captured" /\ booking[b].st = "expired" /\ SlotStillFree(b) ->
            "reinstate"
      [] kind = "captured" /\ booking[b].st \in LIVE -> "record_only"
      [] OTHER -> "auto_refund"

\* stateFor(), unlocked.  A seen intent is answered and nothing changes.
WebhookRead(w, b, i, kind) ==
    /\ Free(w) /\ booking[b].st # "unused"
    /\ \A x \in Bookings : i \notin ledger[x].handled
    /\ Busy(w, [Idle EXCEPT !.op = "webhook", !.b = b, !.intent = i,
                            !.to = Decision(b, kind)])
    /\ UNCHANGED <<now, booking, rows, ledger, request>>

AnyIntent(i) == TRUE                                              \* mutant

\* idempotency_key's primary key, and gateway_ref's unique index.
IntentNew(i) == \A x \in Bookings : i \notin ledger[x].handled \cup ledger[x].refs

RowsApart(b) == \* the exclusion constraint, were all of b's rows to block
    \A mine \in RowsOf(b) :
        /\ ~Taken(mine.slot, b)
        /\ \A r \in RowsOf(b) : r.slot = mine.slot => r = mine

CapturedBy(to, amt) ==
    IF to \in {"confirm", "reinstate", "auto_refund"} THEN amt ELSE 0

RefundedBy(to, amt) == IF to = "auto_refund" THEN amt ELSE 0

\* apply(): the decision and the intent's record in one transaction; the
\* booking is written whatever its status is by now.
WebhookApply(w, amt) ==
    LET b == work[w].b
        to == work[w].to
        in == CapturedBy(to, amt)
    IN
    /\ work[w].op = "webhook"
    /\ IntentNew(work[w].intent)
    /\ to = "reinstate" => RowsApart(b)
    /\ Room(b, in)
    /\ booking' = IF to \in {"confirm", "reinstate"}
                  THEN [booking EXCEPT ![b].st = "confirmed",
                                       ![b].pay = "deposit_paid"]
                  ELSE booking
    /\ rows' = IF to = "reinstate" THEN SetBlocking(b, TRUE) ELSE rows
    /\ ledger' = [ledger EXCEPT
          ![b].captured = @ + in,
          ![b].refunded = @ + RefundedBy(to, amt),
          ![b].refs = IF in > 0 THEN @ \cup {work[w].intent} ELSE @,
          ![b].handled = @ \cup {work[w].intent}]
    /\ Done(w)
    /\ UNCHANGED <<now, request>>

\* A unique index or the exclusion constraint refuses: all rolled back, and
\* the gateway will deliver again.
WebhookRolledBack(w) ==
    /\ work[w].op = "webhook"
    /\ \/ ~IntentNew(work[w].intent)
       \/ work[w].to = "reinstate" /\ ~RowsApart(work[w].b)
    /\ Done(w)
    /\ UNCHANGED <<now, booking, rows, ledger, request>>

-----------------------------------------------------------------------------
\* ConfirmAskSweeper.run(): the status, the history and the event.
ConfirmAskExpire(b) ==
    /\ booking[b].st = "pending_confirmation"
    /\ booking[b].born + AskWindow <= now
    /\ booking' = [booking EXCEPT ![b].st = "expired"]
    /\ UNCHANGED <<now, rows, ledger, request, work>>
=============================================================================
