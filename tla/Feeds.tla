------------------------------- MODULE Feeds -------------------------------
(***************************************************************************)
(* Everything that lives off the outbox, side by side: the relays and the  *)
(* listener chain, the waitlist, the walk-in queue, the derived status of  *)
(* a party, the reminder ladder and the deliveries.  A scenario says which *)
(* callers are active in a behaviour; the definitions do not depend on it. *)
(***************************************************************************)
EXTENDS Waitlist, WalkIns, GroupStatus, Deliveries

CONSTANT Scenarios    \* active callers and bookings, and a bound on events

VARIABLE scenario

vars == <<outboxVars, waitVars, walkVars, groupVars, remindVars, sendVars, scenario>>

On(part) == part \in scenario.on
Awaited == {b \in Visits : On(b)}

Init ==
    /\ scenario \in Scenarios
    /\ OutboxInit /\ WaitlistInit /\ WalkInsInit /\ GroupInit
    /\ RemindersInit /\ DeliveriesInit
    /\ \A b \in Visits : On(b) \/ visit[b].start = CHOOSE s \in StartTimes : TRUE

RelayStep ==
    /\ \E r \in Relays : (On("relay") /\ Drain(r)) \/ Published(r) \/ Commit(r) \/ (On("crash") /\ Die(r))
    /\ UNCHANGED <<waitVars, walkVars, groupVars, remindVars, sendVars>>

WaitStep ==
    /\ \/ \E r \in Relays : \/ ListenLock(r) \/ ListenClaim(r)
                            \/ On("crash") /\ ListenSwallow(r)
       \/ \E w \in Workers : \/ OfferLock(w) \/ OfferClaim(w) \/ AcceptHold(w)
                             \/ AcceptMark(w) \/ PassRead(w) \/ PassWrite(w)
                             \/ Sweep(w) \/ (On("crash") /\ WorkerDies(w))
       \/ On("waitlist") /\ \E e \in Entries : \/ On(e) /\ Join(e)
                            \/ Leave(e)
                            \/ \E w \in Workers : AcceptRead(w, e) \/ DeclineRead(w, e)
       \/ On("waitlist") /\ \E c \in Freeable : (On(c) /\ FreeSlot(c)) \/ Resold(c)
    /\ UNCHANGED <<walkVars, groupVars, remindVars, sendVars>>

WalkInStep ==
    /\ \/ \E r \in Relays : \/ ListenSeated(r) \/ ListenGap(r)
                            \/ On("crash") /\ WalkInSwallow(r)
       \/ On("walkin") /\ \E i \in People : \/ WalkInJoin(i) \/ WalkInLeave(i)
                            \/ \E d \in Desks : SeatFind(d, i)
       \/ \E d \in Desks : SeatPlace(d) \/ SeatMark(d)
       \/ \E h \in HoldIds : WalkInConfirm(h) \/ WalkInHoldLapses(h)
    /\ UNCHANGED <<waitVars, groupVars, remindVars, sendVars>>

GroupStep ==
    /\ \/ \E r \in Relays : \/ RederiveRead(r) \/ RederiveWrite(r) \/ RederiveTell(r)
                            \/ On("crash") /\ RederiveSwallow(r)
       \/ On("group") /\ \E l \in Lanes, to \in {"confirmed", "checked_in", "cancelled"} :
            LaneMoves(l, to)
    /\ UNCHANGED <<waitVars, walkVars, remindVars, sendVars>>

RemindStep ==
    /\ \/ On("ladder") /\ \E b \in Awaited, i \in 1 .. Len(LADDER) : RunRung(b, i)
       \/ On("chosen") /\ \E p \in Planners : \/ \E b \in Awaited : ChosenRead(p, b)
                                              \/ \E lead \in Leads : ClaimChosen(p, lead)
                                              \/ ChosenUnavailable(p)
       \/ On("manual") /\ \E b \in Awaited : ManualRemind(b)
       \/ On("moves") /\ \E b \in Awaited : \/ VisitCancelled(b)
                                           \/ \E s \in StartTimes : VisitMoved(b, s)
    /\ UNCHANGED <<waitVars, walkVars, groupVars, sendVars>>

SendStep ==
    /\ \/ \E r \in Relays : \/ ListenHub(r) \/ ListenReminder(r)
                            \/ On("crash") /\ ListenThrow(r)
       \/ \E w \in Senders : \/ On(w) /\ \E k \in DOMAIN delivery : ClaimDue(w, k)
                             \/ \E who \in Lookups, o \in Outcomes : DispatchOne(w, who, o)
                             \/ Record(w) \/ (On("crash") /\ SenderDies(w))
    /\ UNCHANGED <<waitVars, walkVars, groupVars, remindVars>>

ClockStep ==
    /\ On("clock") /\ Tick
    /\ UNCHANGED <<waitVars, walkVars, groupVars, remindVars, sendVars>>

Next ==
    /\ \/ RelayStep \/ WaitStep \/ WalkInStep \/ GroupStep
       \/ RemindStep \/ SendStep \/ ClockStep
    /\ Len(outbox') <= scenario.events
    /\ UNCHANGED scenario

Spec == Init /\ [][Next]_vars

\* What relay r does when nothing goes wrong.
RelayRuns(r) ==
    /\ \/ /\ (On("relay") /\ Drain(r)) \/ Published(r) \/ Commit(r)
          /\ UNCHANGED <<waitVars, walkVars, groupVars, remindVars, sendVars>>
       \/ /\ ListenLock(r) \/ ListenClaim(r)
          /\ UNCHANGED <<walkVars, groupVars, remindVars, sendVars>>
       \/ /\ ListenSeated(r) \/ ListenGap(r)
          /\ UNCHANGED <<waitVars, groupVars, remindVars, sendVars>>
       \/ /\ RederiveRead(r) \/ RederiveWrite(r) \/ RederiveTell(r)
          /\ UNCHANGED <<waitVars, walkVars, remindVars, sendVars>>
       \/ /\ ListenHub(r) \/ ListenReminder(r)
          /\ UNCHANGED <<waitVars, walkVars, groupVars, remindVars>>
    /\ UNCHANGED scenario

WorkerRuns(w) ==
    /\ \/ OfferLock(w) \/ OfferClaim(w) \/ AcceptHold(w) \/ AcceptMark(w)
       \/ PassRead(w) \/ PassWrite(w) \/ Sweep(w)
    /\ UNCHANGED <<walkVars, groupVars, remindVars, sendVars, scenario>>

SenderRuns(w) ==
    /\ \/ On(w) /\ \E k \in DOMAIN delivery : ClaimDue(w, k)
       \/ \E who \in Lookups, o \in Outcomes : DispatchOne(w, who, o)
       \/ Record(w)
    /\ UNCHANGED <<waitVars, walkVars, groupVars, remindVars, scenario>>

\* Every replica's relay, sweep and dispatcher runs again and again until it
\* gets through; a request being served is served; the clock runs.  Nothing
\* is assumed of customers or of the desk.
Fairness ==
    /\ WF_vars(ClockStep /\ UNCHANGED scenario)
    /\ \A r \in Relays : WF_vars(RelayRuns(r))
    /\ \A w \in Workers : SF_vars(WorkerRuns(w))
    /\ \A w \in Senders : SF_vars(SenderRuns(w))

FairSpec == Spec /\ Fairness

-----------------------------------------------------------------------------
(* The outbox *)

Settled(e) == e.published \/ e.attempts >= MAX_ATTEMPTS

\* At least once: an event marked published has been through every link that
\* reacts to it (drain() marks it only after publish() returned), unless a
\* best-effort link logged a failure of its own.
PublishedWasHeard ==
    \A i \in 1 .. Len(outbox) : outbox[i].published =>
        \A n \in LinksFor(outbox[i]) :
            \/ Chain[n] \in outbox[i].heard
            \/ Chain[n] \in {"group", "seated", "gap", "waitlist"} /\ faults > 0

\* "One bad event must not stop the batch": every event written is published
\* in the end, or has used up its attempts, whatever dies on the way.
EventsAreRelayed ==
    \A i \in 1 .. MaxEvents :
        i <= Len(outbox) ~> (i <= Len(outbox) /\ Settled(outbox[i]))

-----------------------------------------------------------------------------
(* The waitlist *)

\* A slot somebody turned down, or let lapse, is never on the table for them
\* again, whichever sweep, decline or redelivery runs in between.
NeverOfferedAgain ==
    \A e \in Entries : entry[e].st = "offered" => entry[e].code \notin entry[e].declined

\* "Without this the queue stalls": an offer is answered or lapses.
OffersEnd ==
    \A e \in Entries : entry[e].st = "offered" ~> entry[e].st # "offered"

-----------------------------------------------------------------------------
(* The walk-in queue and the party *)

\* A confirmed walk-in leaves the queue, unless the desk has since placed
\* another hold for them.
ConfirmedLeavesTheQueue ==
    \A i \in People, h \in HoldIds :
        (wHold[h] = "confirmed" /\ walkin[i].hold = h /\ ~On("crash"))
            ~> (walkin[i].st # "waiting" \/ walkin[i].hold # h)

\* With one relay, the stored status and count of the party catch up with its
\* participants once they stop moving.
PartyCatchesUp ==
    ~On("crash") => <>[](party = DeriveGroupStatus(lane))

-----------------------------------------------------------------------------
(* Reminders and deliveries *)

\* While a dispatcher's lease runs, nobody else holds its row: a late answer
\* of an abandoned attempt cannot hand it out again.
LeaseProtectsTheHolder ==
    \A v, w \in Senders :
        /\ sender[v] # Free /\ sender[w] # Free
        /\ sender[v].i = sender[w].i /\ sender[v].ch = sender[w].ch
        /\ sender[v].attempt < sender[w].attempt
        => sender[w].at >= sender[v].at + DISPATCH_LEASE \/ sender[w].at = MaxTime

\* "every path ends in sent, failed or skipped".
DeliveriesEnd ==
    \A k \in (1 .. MaxEvents) \X Channels :
        delivery[k].st = "pending" ~> delivery[k].st # "pending"

=============================================================================
