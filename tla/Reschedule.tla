----------------------------- MODULE Reschedule -----------------------------
(***************************************************************************)
(* Moving a booking: a shift in place (compaction, roster changes) and a   *)
(* full move onto a slot the caller holds, with what the move costs.       *)
(***************************************************************************)
EXTENDS Lifecycle

CONSTANTS
    SerialMoves,   \* SERIAL_MOVE_THRESHOLD
    MaxMoves       \* bound on the moves of one booking

ASSUME RescheduleAssumption ==
    SerialMoves \in Nat /\ MaxMoves \in Nat

MOVABLE == {"confirmed", "pending_payment", "pending_confirmation"}

\* rescheduleOutcome(): a late move forfeits; from the fourth move on a
\* booking with nothing at stake acquires a deposit; else the money carries.
RescheduleOutcome(captured, ahead, moveCount) ==
    CASE ahead < LateCancel -> "forfeit_and_requote"
      [] ahead >= LateCancel /\ moveCount + 1 >= SerialMoves /\ captured = 0 ->
            "acquires_deposit"
      [] OTHER -> "carries"

RelocateKeeping(b, s) == rows \cup {NewRow(b, s)}                 \* mutant

\* The old rows stop blocking, then the new one appears, in one commit.
Relocate(b, s) == SetBlocking(b, FALSE) \cup {NewRow(b, s)}

\* shiftInPlace(): its own rows never stand in its way, and no money moves.
ShiftInPlace(b, s) ==
    /\ booking[b].st \in MOVABLE /\ booking[b].moves < MaxMoves
    /\ s # booking[b].slot /\ StartOf[s] > now /\ ~Taken(s, b)
    /\ rows' = Relocate(b, s)
    /\ booking' = [booking EXCEPT ![b].slot = s, ![b].moves = @ + 1]
    /\ UNCHANGED <<now, ledger, request, work>>

\* move(): the new slot is the caller's own live hold, so nobody blocks it.
Move(b, s) ==
    LET out == RescheduleOutcome(Balance(b), StartAt(b) - now, booking[b].moves)
    IN
    /\ booking[b].st \in MOVABLE /\ booking[b].moves < MaxMoves
    /\ StartOf[s] > now /\ ~\E r \in rows : r.blocking /\ r.slot = s
    /\ rows' = Relocate(b, s)
    /\ booking' = [booking EXCEPT
          ![b].slot = s, ![b].moves = @ + 1,
          ![b].st = IF out = "acquires_deposit" THEN "pending_payment" ELSE @,
          ![b].pay = CASE out = "acquires_deposit" -> "unpaid"
                       [] out = "forfeit_and_requote" -> "forfeited"
                       [] OTHER -> @]
    /\ ledger' = IF out = "forfeit_and_requote" /\ Balance(b) > 0
                 THEN [ledger EXCEPT ![b].forfeited = @ + Balance(b),
                                     ![b].last = Balance(b)]
                 ELSE ledger
    /\ UNCHANGED <<now, request, work>>
=============================================================================
