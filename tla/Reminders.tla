----------------------------- MODULE Reminders -----------------------------
(***************************************************************************)
(* The reminder ladder and the customer's own reminder: which message a    *)
(* visit is due, claimed on the booking row and written to the outbox in   *)
(* one transaction.                                                        *)
(***************************************************************************)
EXTENDS Outbox

CONSTANTS
    Online,         \* those made in the app: their own reminder, not the rungs
    StartTimes,     \* starts a visit may have
    LADDER,         \* the rungs, furthest out first: [rung, lead, channels]
    Leads,        \* lead times the customers may choose
    TOO_LATE,       \* TOO_LATE_MS
    MaxMoves,       \* bound: moves of one visit
    Planners        \* replicas planning chosen reminders

ASSUME RemindersAssumption ==
    /\ LADDER \in Seq([rung : Rungs, lead : Nat, channels : SUBSET STRING])
    /\ LADDER # <<>>
    /\ Online \subseteq Visits /\ StartTimes \subseteq Nat /\ Leads \subseteq Nat
    /\ TOO_LATE \in Nat /\ MaxMoves \in Nat

VARIABLES
    visit,      \* status, start, stamps and the time of the last change
    plan        \* each planner's candidate, read before it is claimed

remindVars == <<visit, plan>>

LADDER_STATUSES == {"confirmed", "pending_payment"}
REMINDER_LIVE_STATUSES == LADDER_STATUSES \cup {"pending_confirmation"}
LadderRungs == {LADDER[i].rung : i \in 1 .. Len(LADDER)}
Unstamped == [r \in LadderRungs \cup {"chosen"} |-> FALSE]
NoPlan == [b |-> None, start |-> 0, touched |-> 0, at |-> 0]

RemindersInit ==
    /\ visit \in [Visits -> [st : {"confirmed"}, start : StartTimes, moves : {0},
                             touched : {0}, stamp : {Unstamped}]]
    /\ plan = [p \in Planners |-> NoPlan]

-----------------------------------------------------------------------------
(* domain/booking/reminders.ts *)

NextLead(i) == IF i < Len(LADDER) THEN LADDER[i + 1].lead ELSE 0
WindowClose(i, start) == IF start > NextLead(i) THEN start - NextLead(i) ELSE 0

\* claimable(), the WHERE of the claim: this rung outstanding, every earlier
\* one stamped, its lead time reached.
Open(b, i) ==
    /\ ~visit[b].stamp[LADDER[i].rung]
    /\ \A j \in 1 .. i - 1 : visit[b].stamp[LADDER[j].rung]
    /\ visit[b].start <= now + LADDER[i].lead

\* due(): judged from the first outstanding rung.
Due(b, stamp) ==
    LET open == {j \in 1 .. Len(LADDER) : ~stamp[LADDER[j].rung]}
        i == CHOOSE j \in open : \A k \in open : j <= k
    IN  IF open = {} \/ visit[b].start > now + LADDER[i].lead
        THEN [kind |-> "nothing", rung |-> None]
        ELSE [kind |-> IF visit[b].start > now + NextLead(i) THEN "send" ELSE "skip",
              rung |-> LADDER[i].rung]

ClaimVerdict(b, i) ==
    LET v == Due(b, [visit[b].stamp EXCEPT ![LADDER[i].rung] = FALSE])
    IN  IF v.rung = LADDER[i].rung THEN v.kind ELSE "release"

-----------------------------------------------------------------------------
(* ReminderRepository.runRung(): the stamp and the event in one transaction *)

Remind(type, b, manual) ==
    Append(outbox, Event(type, b, visit[b].start, visit[b].moves, manual))

RunRung(b, i) ==
    /\ visit[b].st \in LADDER_STATUSES /\ b \notin Online
    /\ Open(b, i)
    /\ LET verdict == ClaimVerdict(b, i) IN
         /\ verdict = "send" => Room(1)
         /\ visit' = [visit EXCEPT ![b].stamp[LADDER[i].rung] = verdict # "release"]
         /\ outbox' = IF verdict = "send"
                      THEN Remind(LADDER[i].rung, b, FALSE) ELSE outbox
    /\ UNCHANGED <<told, relay, faults, now, plan>>

\* DeskExtras remind(): the first rung now, whatever its stamp says.
ManualRemind(b) ==
    /\ visit[b].st \in REMINDER_LIVE_STATUSES /\ Room(1)
    /\ visit' = [visit EXCEPT ![b].stamp[LADDER[1].rung] = TRUE, ![b].touched = now]
    /\ outbox' = Remind(LADDER[1].rung, b, TRUE)
    /\ UNCHANGED <<told, relay, faults, now, plan>>

-----------------------------------------------------------------------------
(* The customer's own reminder: candidates are read, the customer's choice  *)
(* is asked for, and the claim holds the booking to what was judged.        *)

ChosenRead(p, b) ==
    /\ plan[p] = NoPlan
    /\ b \in Online /\ visit[b].st \in LADDER_STATUSES
    /\ ~visit[b].stamp["chosen"] /\ visit[b].start > now
    /\ plan' = [plan EXCEPT ![p] = [b |-> b, start |-> visit[b].start,
                                    touched |-> visit[b].touched, at |-> now]]
    /\ UNCHANGED <<outboxVars, visit>>

\* chosenVerdict(), at the time of the read.
ChosenVerdict(c, lead) ==
    CASE c.at + lead < c.start -> "wait"
      [] c.at + lead >= c.start /\ c.start < c.at + TOO_LATE -> "skip"
      [] c.at + lead >= c.start /\ c.start >= c.at + TOO_LATE
           /\ c.touched + lead >= c.start -> "skip"
      [] OTHER -> "send"

\* The WHERE of the claim.
StillAsJudged(c) ==
    /\ ~visit[c.b].stamp["chosen"] /\ visit[c.b].start = c.start
    /\ visit[c.b].st \in LADDER_STATUSES

ClaimChosen(p, lead) ==
    /\ plan[p] # NoPlan
    /\ LET c == plan[p]
           verdict == ChosenVerdict(c, lead) IN
         IF verdict # "wait" /\ StillAsJudged(c)
         THEN /\ verdict = "send" => Room(1)
              /\ visit' = [visit EXCEPT ![c.b].stamp["chosen"] = TRUE]
              /\ outbox' = IF verdict = "send"
                           THEN Remind("chosen", c.b, FALSE) ELSE outbox
         ELSE UNCHANGED <<visit, outbox>>
    /\ plan' = [plan EXCEPT ![p] = NoPlan]
    /\ UNCHANGED <<told, relay, faults, now>>

\* customer-api did not answer: nothing is stamped, the next tick asks again.
ChosenUnavailable(p) ==
    /\ plan[p] # NoPlan
    /\ plan' = [plan EXCEPT ![p] = NoPlan]
    /\ UNCHANGED <<outboxVars, visit>>

-----------------------------------------------------------------------------
(* What happens to a visit meanwhile *)

VisitCancelled(b) ==
    /\ visit[b].st = "confirmed" /\ Room(1)
    /\ visit' = [visit EXCEPT ![b].st = "cancelled", ![b].touched = now]
    /\ outbox' = Emit("booking.cancelled", b, visit[b].start)
    /\ UNCHANGED <<told, relay, faults, now, plan>>

\* A move is a new appointment: the stamps are cleared with it.
VisitMoved(b, start) ==
    /\ visit[b].st = "confirmed" /\ start # visit[b].start
    /\ visit[b].moves < MaxMoves /\ Room(1)
    /\ visit' = [visit EXCEPT ![b].start = start, ![b].moves = @ + 1,
                              ![b].touched = now, ![b].stamp = Unstamped]
    /\ outbox' = Emit("booking.rescheduled", b, start)
    /\ UNCHANGED <<told, relay, faults, now, plan>>

=============================================================================
