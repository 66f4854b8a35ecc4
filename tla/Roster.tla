------------------------------- MODULE Roster -------------------------------
(***************************************************************************)
(* A roster change: the bookings it disturbs, the ladder that repairs them *)
(* one by one through hold-and-move, the worklist a person clears, and the *)
(* gate the change must pass to commit.                                    *)
(*                                                                         *)
(* Sources: roster-change.handler.ts, roster-change.repository.ts,         *)
(* roster-change.ts, the worklist's triggers.                              *)
(***************************************************************************)
EXTENDS Ladders

CONSTANTS
    Guests,          \* bookings of the day
    DayStaff,        \* professionals, numbered
    DayStarts,       \* starts of the day
    GuestStates,     \* statuses a booking may have when the change is opened
    Managers,        \* people who resolve items at once
    MaxOthers        \* bound on slots other people take

VARIABLES
    guest,     \* [status, slot] of each booking
    others,    \* slots other bookings have
    spare,     \* slots a live repair hold keeps
    change,    \* the roster_change row: "none", "open", "committed"
    item,      \* the worklist: item's state, "none" while there is no item
    offerOn,   \* whether an item carries a proposal
    opener,    \* the request that opens the change
    manager,   \* the requests that resolve items
    credit     \* goodwill entries of each booking

rosterVars == <<guest, others, spare, change, item, offerOn, opener, manager, credit>>

DISTURBABLE == {"confirmed", "pending_payment", "pending_confirmation"}
MOVABLE == {"confirmed", "pending_payment", "pending_confirmation"}
Resolutions == {"reassign", "move", "override", "accept_cancellation"}
DaySlots == [start : DayStarts, staff : DayStaff]

Resting == [pc |-> "idle", kind |-> "", staff |-> 0, todo |-> {}, at |-> <<>>, offer |-> {}]
NotServing == [pc |-> "idle", item |-> <<>>, how |-> "", proposal |-> FALSE]

\* Diaries without a double booking.
Diaries == {g \in [Guests -> [status : GuestStates, slot : DaySlots]] :
              \A a, b \in Guests : a # b => g[a].slot # g[b].slot}

RosterInit ==
    /\ guest \in Diaries
    /\ others = {} /\ spare = {} /\ change = "none"
    /\ item = [g \in Guests |-> "none"] /\ offerOn = [g \in Guests |-> FALSE]
    /\ opener = Resting /\ manager = [m \in Managers |-> NotServing]
    /\ credit = [g \in Guests |-> 0]

Occupying(g) == guest[g].status \notin {"cancelled", "expired"}
SlotsTaken == others \cup spare \cup {guest[g].slot : g \in {h \in Guests : Occupying(h)}}

-----------------------------------------------------------------------------
(* open() *)

\* A shift conflict names a professional; a closure sweep nobody.
OpenChange(kind, staff) ==
    /\ opener.pc = "idle" /\ change = "none"
    /\ kind \in {"shift_conflict", "closure_sweep"}
    /\ staff = 0 <=> kind = "closure_sweep"
    /\ change' = "open"
    /\ opener' = [Resting EXCEPT !.pc = "scan", !.kind = kind, !.staff = staff]
    /\ UNCHANGED <<guest, others, spare, item, offerOn, manager, credit>>

\* affected(): the bookings in a disturbable state, as they are now.
Affected ==
    /\ opener.pc = "scan"
    /\ LET hit == {g \in Guests : /\ guest[g].status \in DISTURBABLE
                                  /\ opener.staff # 0 => guest[g].slot.staff = opener.staff}
       IN opener' = [opener EXCEPT !.pc = IF hit = {} THEN "idle" ELSE "list", !.todo = hit,
                                   !.at = [g \in hit |-> guest[g].slot]]
    /\ UNCHANGED <<guest, others, spare, change, item, offerOn, manager, credit>>

\* addItems().
AddItems ==
    /\ opener.pc = "list"
    /\ item' = [g \in Guests |-> IF g \in opener.todo THEN "open" ELSE item[g]]
    /\ opener' = [opener EXCEPT !.pc = "repair"]
    /\ UNCHANGED <<guest, others, spare, change, offerOn, manager, credit>>

Current == CHOOSE g \in opener.todo : \A h \in opener.todo : g <= h
OnToTheNext ==
    IF opener.todo = {Current} THEN Resting
    ELSE [opener EXCEPT !.pc = "repair", !.todo = @ \ {Current}, !.offer = {}]

\* candidatesFor(): a closure removes everybody, anything else the booking's
\* own professional.
CandidatesFor(g) ==
    {c \in DaySlots \ SlotsTaken : /\ opener.kind # "closure_sweep"
                                   /\ c.staff # opener.at[g].staff}

\* repair(): the ladder decides on the diary as it is now.
RepairRead ==
    LET outcome == RepairDisruption(CandidatesFor(Current), opener.at[Current].start,
                                    opener.at[Current].staff)
    IN /\ opener.pc = "repair"
       /\ opener' = [opener EXCEPT !.pc = IF outcome.kind = "repaired" THEN "place" ELSE "propose",
                                   !.offer = outcome.offers]
       /\ UNCHANGED <<guest, others, spare, change, item, offerOn, manager, credit>>

Offer == CHOOSE c \in opener.offer : TRUE

\* proposeCancellation(): state open does not go with a resolved_at, so on an
\* item settled meanwhile the CHECK throws and the request ends there.
ProposeCancellation ==
    /\ opener.pc = "propose"
    /\ IF item[Current] = "open"
       THEN offerOn' = [offerOn EXCEPT ![Current] = TRUE] /\ opener' = OnToTheNext
       ELSE UNCHANGED offerOn /\ opener' = Resting
    /\ UNCHANGED <<guest, others, spare, change, item, manager, credit>>

\* holds.place: the replacement went meanwhile, or it is kept for a minute.
PlaceRepairHold ==
    /\ opener.pc = "place"
    /\ IF Offer \in SlotsTaken
       THEN UNCHANGED spare /\ opener' = OnToTheNext
       ELSE /\ spare' = spare \cup {Offer}
            /\ opener' = [opener EXCEPT !.pc = "move"]
    /\ UNCHANGED <<guest, others, change, item, offerOn, manager, credit>>

\* reschedules.move: a booking no longer movable, or a hold that ran out,
\* leaves the item to a person and the hold to its expiry.
MoveRepaired ==
    /\ opener.pc = "move"
    /\ IF guest[Current].status \in MOVABLE /\ Offer \in spare
       THEN /\ guest' = [guest EXCEPT ![Current].slot = Offer]
            /\ spare' = spare \ {Offer}
            /\ opener' = [opener EXCEPT !.pc = "mark"]
       ELSE /\ UNCHANGED <<guest, spare>>
            /\ opener' = OnToTheNext
    /\ UNCHANGED <<others, change, item, offerOn, manager, credit>>

\* markAutoRepaired(): unconditional; a committed change's worklist is frozen
\* and the write throws.
MarkAutoRepaired ==
    /\ opener.pc = "mark"
    /\ IF change = "open"
       THEN /\ item' = [item EXCEPT ![Current] = "auto_repaired"]
            /\ offerOn' = [offerOn EXCEPT ![Current] = FALSE]
            /\ opener' = OnToTheNext
       ELSE UNCHANGED <<item, offerOn>> /\ opener' = Resting
    /\ UNCHANGED <<guest, others, spare, change, manager, credit>>

-----------------------------------------------------------------------------
(* resolve() and commit() *)

StateAfter(how) ==
    CASE how \in {"reassign", "move"} -> "resolved"
      [] how = "override" -> "overridden"
      [] how = "accept_cancellation" -> "cancelled"

\* openItem().
ResolveRead(m, g, how) ==
    /\ manager[m].pc = "idle" /\ item[g] = "open"
    /\ manager' = [manager EXCEPT ![m] =
         [pc |-> IF how = "accept_cancellation" THEN "apply" ELSE "settle",
          item |-> <<g>>, how |-> how, proposal |-> offerOn[g]]]
    /\ UNCHANGED <<guest, others, spare, change, item, offerOn, opener, credit>>

Subject(m) == manager[m].item[1]

\* lifecycle.transition to cancelled: not from pending_confirmation, and not
\* once the visit is over.
CancellableHere(g) == guest[g].status \in {"confirmed", "pending_payment", "checked_in"}

CreditedAnyway(m) == manager[m].proposal \* mutant
\* Goodwill and the waitlist are for a cancellation that happened.
Credited(m) == CancellableHere(Subject(m)) /\ manager[m].proposal

\* applyCancellation(): a refusal is logged, and the item settled all the same.
ApplyCancellation(m) ==
    /\ manager[m].pc = "apply"
    /\ guest' = IF CancellableHere(Subject(m))
                THEN [guest EXCEPT ![Subject(m)].status = "cancelled"] ELSE guest
    /\ manager' = [manager EXCEPT ![m].pc = IF Credited(m) THEN "credit" ELSE "settle"]
    /\ UNCHANGED <<others, spare, change, item, offerOn, opener, credit>>

PostGoodwill(m) ==
    /\ manager[m].pc = "credit"
    /\ credit' = [credit EXCEPT ![Subject(m)] = @ + 1]
    /\ manager' = [manager EXCEPT ![m].pc = "settle"]
    /\ UNCHANGED <<guest, others, spare, change, item, offerOn, opener>>

\* resolveItem(): only while it is open still, else the answer is a 404.
ResolveItem(m) ==
    /\ manager[m].pc = "settle"
    /\ IF item[Subject(m)] = "open"
       THEN /\ item' = [item EXCEPT ![Subject(m)] = StateAfter(manager[m].how)]
            /\ offerOn' = [offerOn EXCEPT ![Subject(m)] = FALSE]
       ELSE UNCHANGED <<item, offerOn>>
    /\ manager' = [manager EXCEPT ![m] = NotServing]
    /\ UNCHANGED <<guest, others, spare, change, opener, credit>>

\* The trigger roster_change_gate: nothing open, and once only.
MayCommit == change = "open" /\ \A g \in Guests : item[g] # "open"

\* The id is known once items are listed or open() has answered.
CommitChange ==
    /\ MayCommit
    /\ opener.pc = "idle" \/ \E g \in Guests : item[g] # "none"
    /\ change' = "committed"
    /\ UNCHANGED <<guest, others, spare, item, offerOn, opener, manager, credit>>

-----------------------------------------------------------------------------
(* The rest of the diary *)

RepairHoldExpires(c) ==
    /\ c \in spare
    /\ spare' = spare \ {c}
    /\ UNCHANGED <<guest, others, change, item, offerOn, opener, manager, credit>>

SomebodyBooks(c) ==
    /\ c \notin SlotsTaken /\ Cardinality(others) < MaxOthers
    /\ others' = others \cup {c}
    /\ UNCHANGED <<guest, spare, change, item, offerOn, opener, manager, credit>>

GuestMoves(g, to) ==
    /\ \/ guest[g].status = "confirmed" /\ to \in {"checked_in", "cancelled"}
       \/ guest[g].status = "pending_payment" /\ to \in {"confirmed", "expired", "cancelled"}
       \/ guest[g].status = "pending_confirmation" /\ to \in {"confirmed", "expired"}
    /\ guest' = [guest EXCEPT ![g].status = to]
    /\ UNCHANGED <<others, spare, change, item, offerOn, opener, manager, credit>>

\* The desk reschedules the booking itself.
DeskMoves(g, c) ==
    /\ guest[g].status \in MOVABLE /\ c \notin SlotsTaken
    /\ guest' = [guest EXCEPT ![g].slot = c]
    /\ UNCHANGED <<others, spare, change, item, offerOn, opener, manager, credit>>

-----------------------------------------------------------------------------
(* Properties *)

\* One goodwill credit for one salon cancellation, and none without it: two
\* managers who accept the same proposal at once, or one who accepts it while
\* the customer cancels or arrives, are told apart by the lifecycle's lock.
GoodwillOnce ==
    \A g \in Guests : credit[g] <= 1 /\ (credit[g] = 1 => guest[g].status = "cancelled")

\* An item settled as cancelled stands for a booking that was cancelled
\* (roster-change.handler.ts: "Marking the item settled without carrying it
\* out would clear the gate on a promise nobody kept").
CancelledItemsAreCancelled ==
    \A g \in Guests : item[g] = "cancelled" => guest[g].status = "cancelled"
=============================================================================
