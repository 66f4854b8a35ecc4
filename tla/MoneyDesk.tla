----------------------------- MODULE MoneyDesk -----------------------------
(***************************************************************************)
(* Money that moves without the lifecycle: take at desk, refund, goodwill  *)
(* and revive, which share one engine (act), and the payment the mobile    *)
(* app reports.  Each is one transaction under the booking's row lock.     *)
(***************************************************************************)
EXTENDS Visits

CONSTANTS
    Keys,         \* Idempotency-Key header values
    References,   \* payment references the app may send
    Credits       \* goodwill amounts a manager may type

ASSUME MoneyAssumption ==
    /\ None \notin Keys \cup References /\ Keys \cap References = {}
    /\ Credits \subseteq Nat

Plus(b, field, amt, ref) ==
    ledger' = [ledger EXCEPT ![b][field] = @ + amt,
                             ![b].refs = IF amt = 0 THEN @ ELSE @ \cup ref]

\* act(): a row carrying this key's marker answers the call, before anything
\* is decided.  A call that moved no money left no row to find.
Replayed(b, key) == key \in ledger[b].refs

\* forfeitedOf(): the latest forfeit, and the goodwill given so far.
ForfeitedOf(b) == [fils |-> ledger[b].last, goodwill |-> ledger[b].goodwill]

\* act(), under the booking's row lock: one ledger row for the money, the two
\* statuses, and the link when it dies with them.
Act(b, key, field, amt, st, pay, clearLink) ==
    /\ ~Replayed(b, key)
    /\ field # "refunded" => Room(b, amt)
    /\ Plus(b, field, amt, {key})
    /\ booking' = [booking EXCEPT
          ![b].st = st, ![b].pay = pay,
          ![b].link = IF clearLink THEN None ELSE @]
    /\ UNCHANGED <<now, rows, request, work>>

\* capture(): a live link paid in person, or a visit due on arrival; the link
\* dies in the same transaction.
Capture(b, key) ==
    LET owed == IF booking[b].deposit > 0 THEN booking[b].deposit ELSE Price IN
    /\ \/ booking[b].st = "pending_payment"
       \/ booking[b].st = "confirmed" /\ booking[b].pay = "none_required"
    /\ Act(b, key, "captured", owed, "confirmed",
           IF owed >= Price THEN "fully_paid" ELSE "deposit_paid", TRUE)

\* refund(): what was asked for, the deposit or the whole balance; never more
\* than the balance.
Refund(b, key, wanted) ==
    /\ booking[b].st \in {"settled", "completed"}
    /\ wanted > 0 /\ wanted <= Balance(b)
    /\ Act(b, key, "refunded", wanted, booking[b].st,
           IF wanted >= Balance(b) THEN "refunded" ELSE "partially_refunded", FALSE)

\* goodwill(): credits a forfeited deposit; the forfeit stands.
Goodwill(b, key, amt) ==
    /\ amt > 0 /\ booking[b].pay = "forfeited"
    /\ Act(b, key, "goodwill", amt, booking[b].st, booking[b].pay, FALSE)

\* revive(): the no-show is going to happen after all; the latest forfeit is
\* reversed, unless goodwill was given for it.  The reservations stay as they
\* are.
Revive(b, key) ==
    /\ booking[b].st = "no_show" /\ ForfeitedOf(b).goodwill = 0
    /\ Act(b, key, "reversed", ForfeitedOf(b).fils, "confirmed",
           IF ForfeitedOf(b).fils > 0 THEN "deposit_paid" ELSE "none_required", FALSE)

-----------------------------------------------------------------------------
\* checkPatch(): what the app may say it took.
PatchAllowed(b, pay, amt) ==
    CASE pay = "none_required" -> amt = 0
      [] pay = "fully_paid" -> amt = Price
      [] pay = "deposit_paid" -> amt \in 1 .. Price /\ amt >= booking[b].deposit
      [] OTHER -> FALSE

\* A reference already on any ledger is answered as a replay; the partial
\* unique index on gateway_ref settles two callbacks at the same instant.
ReferenceNew(ref) == \A b \in Bookings : ref \notin ledger[b].refs

\* MobilePaymentRepository.record(): from unpaid only, before the link closes.
\* Only a booking awaiting payment changes status.
RecordPayment(b, pay, amt, ref) ==
    /\ booking[b].st # "unused" /\ PatchAllowed(b, pay, amt)
    /\ ref # None => ReferenceNew(ref)
    /\ booking[b].pay = "unpaid"
    /\ booking[b].link # None => booking[b].link > now
    /\ Room(b, amt)
    /\ Plus(b, "captured", amt, {ref} \ {None})
    /\ booking' = [booking EXCEPT
          ![b].pay = pay, ![b].link = None,
          ![b].st = IF @ = "pending_payment" THEN "confirmed" ELSE @]
    /\ UNCHANGED <<now, rows, request, work>>
=============================================================================
