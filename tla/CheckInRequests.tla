-------------------------- MODULE CheckInRequests --------------------------
(***************************************************************************)
(* Self check-in: the customer raises a request, the desk approves or      *)
(* rejects it, the customer withdraws it, a job ends the ones that lapsed. *)
(*                                                                         *)
(* An approval holds the request's row lock, and the lock of the chair it  *)
(* claims, while the ordinary check-in runs in a transaction of its own:   *)
(* those locks are held by a worker whose op is one of Approving.          *)
(***************************************************************************)
EXTENDS Lifecycle

CONSTANTS
    Chairs,       \* the salon's bookable chairs with a live card; any other
                  \* scan is refused and changes nothing
    MaxRaises     \* bound on the requests one booking may raise

ASSUME CheckInAssumption == MaxRaises \in Nat /\ None \notin Chairs

Approving == {"chair", "gate", "seat", "mark"}

\* FOR UPDATE on the waiting row, held until the approval ends.
RequestLocked(b) ==
    \E w \in Workers : work[w].op \in Approving /\ work[w].b = b

\* pg_advisory_xact_lock(CHAIR_LOCK_CLASS, hashtext(chair)).
ChairLocked(k) ==
    \E w \in Workers : work[w].op \in Approving \ {"chair"}
                       /\ request[work[w].b].chair = k

InTheChair(b, k) ==
    /\ booking[b].st \in {"checked_in", "in_service"}
    /\ request[b].chair = k
    /\ request[b].st \notin {"none", "rejected", "withdrawn"}

\* occupantOf: somebody else is in this chair.
Occupied(k, b) == \E x \in Bookings \ {b} : InTheChair(x, k)

\* raiseVerdict: anything but a rejection may be followed by a new request,
\* while check-in is open.
RaiseVerdict(b) ==
    /\ booking[b].st = "confirmed"
    /\ request[b].st \notin {"waiting", "rejected"}
    /\ now >= StartAt(b) - CheckInOpens /\ now < EndAt(b)

\* chairCheckInVerdict, of a chair of this salon: somebody else's is refused.
ChairVerdict(k, b) == k = None \/ ~Occupied(k, b)

\* raise(): under the booking's row lock; the scan came before it.
Raise(b, k) ==
    /\ RaiseVerdict(b) /\ ChairVerdict(k, b)
    /\ request[b].nth < MaxRaises
    /\ request' = [request EXCEPT
          ![b] = [st |-> "waiting", chair |-> k, nth |-> @.nth + 1]]
    /\ UNCHANGED <<now, booking, rows, ledger, work>>

-----------------------------------------------------------------------------
(* approveWith() *)

ApproveLock(w, b) ==
    /\ Free(w) /\ request[b].st = "waiting" /\ ~RequestLocked(b)
    /\ Busy(w, [Idle EXCEPT !.b = b,
                   !.op = IF request[b].chair = None THEN "gate" ELSE "chair"])
    /\ UNCHANGED <<now, booking, rows, ledger, request>>

ApproveAnyChair(w) ==                                             \* mutant
    /\ work[w].op = "chair"
    /\ IF Occupied(request[work[w].b].chair, work[w].b) THEN Done(w)
       ELSE Busy(w, [work[w] EXCEPT !.op = "gate"])
    /\ UNCHANGED <<now, booking, rows, ledger, request>>

\* The chair's lock, then who is in it: 409, or on to the check-in.
ApproveChair(w) ==
    /\ work[w].op = "chair"
    /\ ~ChairLocked(request[work[w].b].chair)
    /\ IF Occupied(request[work[w].b].chair, work[w].b) THEN Done(w)
       ELSE Busy(w, [work[w] EXCEPT !.op = "gate"])
    /\ UNCHANGED <<now, booking, rows, ledger, request>>

\* LifecycleHandler's unlocked timing read; too early throws and rolls back.
ApproveGate(w) ==
    /\ work[w].op = "gate"
    /\ IF InTime("checked_in", StartAt(work[w].b), 0)
       THEN Busy(w, [work[w] EXCEPT !.op = "seat"]) ELSE Done(w)
    /\ UNCHANGED <<now, booking, rows, ledger, request>>

\* The check-in commits on its own connection, or refuses and the request
\* still waits.
ApproveSeat(w) ==
    LET b == work[w].b IN
    /\ work[w].op = "seat"
    /\ \/ /\ Transition(b, "checked_in", "staff", TRUE, Nothing, NoTender)
          /\ Busy(w, [work[w] EXCEPT !.op = "mark"])
       \/ /\ ~CheckTransition(booking[b].st, "checked_in", "staff", TRUE)
          /\ Done(w)
          /\ UNCHANGED <<now, booking, rows, ledger, request>>

ApproveMark(w) ==
    /\ work[w].op = "mark"
    /\ request' = [request EXCEPT ![work[w].b].st = "approved"]
    /\ Done(w)
    /\ UNCHANGED <<now, booking, rows, ledger>>

-----------------------------------------------------------------------------
Reject(b) ==
    /\ request[b].st = "waiting" /\ ~RequestLocked(b)
    /\ request' = [request EXCEPT ![b].st = "rejected"]
    /\ UNCHANGED <<now, booking, rows, ledger, work>>

\* lapseOf: closed if the booking moved on, expired if it ended.
Lapsed(st, end) == IF st # "confirmed" THEN "closed"
                   ELSE IF now >= end THEN "expired" ELSE "waiting"

\* withdrawVerdict: a lapsed request gets the job's write, not a withdrawal.
WithdrawVerdict(b) ==
    LET end == Lapsed(booking[b].st, EndAt(b))
    IN  IF end = "waiting" THEN "withdrawn" ELSE end

\* withdraw(): the request's row, then the booking's FOR SHARE.
Withdraw(b) ==
    /\ request[b].st = "waiting" /\ ~RequestLocked(b)
    /\ request' = [request EXCEPT ![b].st = WithdrawVerdict(b)]
    /\ UNCHANGED <<now, booking, rows, ledger, work>>

\* lapseWaiting(): read every waiting request with its booking, then write
\* each verdict that has lapsed.
LapseRead(w) ==
    /\ Free(w)
    /\ \E b \in Bookings :
         /\ request[b].st = "waiting"
         /\ Lapsed(booking[b].st, EndAt(b)) # "waiting"
         /\ Busy(w, [Idle EXCEPT !.op = "lapse", !.b = b,
                                 !.seen = request[b].nth,
                                 !.to = Lapsed(booking[b].st, EndAt(b))])
    /\ UNCHANGED <<now, booking, rows, ledger, request>>

\* Compare and set: WHERE id AND state = 'waiting', waiting for the lock.
LapseWrite(w) ==
    LET b == work[w].b IN
    /\ work[w].op = "lapse" /\ ~RequestLocked(b)
    /\ Done(w)
    /\ request' = IF request[b].st = "waiting" /\ request[b].nth = work[w].seen
                  THEN [request EXCEPT ![b].st = work[w].to] ELSE request
    /\ UNCHANGED <<now, booking, rows, ledger>>

-----------------------------------------------------------------------------
(* The reception list *)

NEEDS_DECISION_LIMIT == 100

WaitingForTheDesk == {b \in Bookings : request[b].st = "waiting"
                                      /\ booking[b].st = "confirmed"}

\* The late bookings the no-show job leaves to the desk, oldest first.
NeedsDecision ==
    LET left == {b \in Bookings : /\ Stale(b) /\ ArrivalClaimed(b)
                                  /\ request[b].st # "waiting"}
    IN  UNION FirstOf(left, [b \in left |-> StartAt(b)], NEEDS_DECISION_LIMIT)

\* listForBranch()
Reception == WaitingForTheDesk \cup NeedsDecision
=============================================================================
