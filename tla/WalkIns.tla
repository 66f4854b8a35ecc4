------------------------------ MODULE WalkIns ------------------------------
(***************************************************************************)
(* The walk-in queue: somebody stands at the desk, the desk places a hold  *)
(* for them, and the ordinary confirmation of that hold takes them off the *)
(* queue through the outbox.                                               *)
(***************************************************************************)
EXTENDS Outbox

CONSTANTS
    People,      \* walk_in_entry rows
    Desks        \* seat requests being served

VARIABLES
    walkin,      \* status, hold and booking of each entry
    wHold,       \* the holds placed for walk-ins
    seat         \* each desk's place in seat()

walkVars == <<walkin, wHold, seat>>

NotSeating == [op |-> "idle", i |-> None, h |-> None]

WalkInsInit ==
    /\ walkin = [i \in People |-> [st |-> "none", hold |-> None, booking |-> None]]
    /\ wHold = [h \in HoldIds |-> "none"]
    /\ seat = [d \in Desks |-> NotSeating]

WalkInJoin(i) ==
    /\ walkin[i].st = "none"
    /\ walkin' = [walkin EXCEPT ![i].st = "waiting"]
    /\ UNCHANGED <<outboxVars, wHold, seat>>

WalkInLeave(i) ==
    /\ walkin[i].st = "waiting"
    /\ walkin' = [walkin EXCEPT ![i].st = "left"]
    /\ UNCHANGED <<outboxVars, wHold, seat>>

\* seat(): find a waiting entry ...
SeatFind(d, i) ==
    /\ seat[d] = NotSeating /\ walkin[i].st = "waiting"
    /\ seat' = [seat EXCEPT ![d] = [NotSeating EXCEPT !.op = "place", !.i = i]]
    /\ UNCHANGED <<outboxVars, walkin, wHold>>

\* ... place a hold, or be told the slot went ...
SeatPlace(d) ==
    /\ seat[d].op = "place"
    /\ \/ \E h \in HoldIds :
            /\ wHold[h] = "none"
            /\ wHold' = [wHold EXCEPT ![h] = "placed"]
            /\ seat' = [seat EXCEPT ![d].op = "mark", ![d].h = h]
       \/ seat' = [seat EXCEPT ![d] = NotSeating] /\ UNCHANGED wHold
    /\ UNCHANGED <<outboxVars, walkin>>

\* ... and remember it on the entry, whatever the entry is by now.  Only then
\* does the desk learn the hold's id.
SeatMark(d) ==
    /\ seat[d].op = "mark"
    /\ walkin' = [walkin EXCEPT ![seat[d].i].hold = seat[d].h]
    /\ wHold' = [wHold EXCEPT ![seat[d].h] = IF @ = "placed" THEN "known" ELSE @]
    /\ seat' = [seat EXCEPT ![d] = NotSeating]
    /\ UNCHANGED outboxVars

\* The desk confirms the hold through the ordinary path, or lets it lapse.
WalkInConfirm(h) ==
    /\ wHold[h] = "known" /\ Room(1)
    /\ wHold' = [wHold EXCEPT ![h] = "confirmed"]
    /\ outbox' = Emit("booking.confirmed", h, 0)
    /\ UNCHANGED <<told, relay, faults, now, walkin, seat>>

WalkInHoldLapses(h) ==
    /\ wHold[h] \in {"placed", "known"}
    /\ wHold' = [wHold EXCEPT ![h] = "lapsed"]
    /\ UNCHANGED <<outboxVars, walkin, seat>>

-----------------------------------------------------------------------------
(* The two links *)

SeatedWhenHeld(h) == {i \in People : walkin[i].hold = h /\ walkin[i].st = "held"} \* mutant

\* markSeatedByHold(): updateMany where holdId and still waiting.
SeatedByHold(h) == {i \in People : walkin[i].hold = h /\ walkin[i].st = "waiting"}

ListenSeated(r) ==
    /\ AtLink(r, "seated")
    /\ LET h == Current(r).ref IN
         walkin' = [i \in People |->
            IF i \in SeatedByHold(h)
            THEN [st |-> "seated", hold |-> None, booking |-> h] ELSE walkin[i]]
    /\ relay' = PassOn(r)
    /\ outbox' = Heard(outbox, r, "seated")
    /\ UNCHANGED <<told, faults, now, wHold, seat>>

\* nudgeQueue(): told of a gap when anybody is waiting.
ListenGap(r) ==
    /\ AtLink(r, "gap")
    /\ told' = IF \E i \in People : walkin[i].st = "waiting"
               THEN Tell("walk_in.gap_available", Current(r).ref) ELSE told
    /\ outbox' = Heard(outbox, r, "gap")
    /\ relay' = PassOn(r)
    /\ UNCHANGED <<faults, now, walkVars>>

\* Either link logs its own failure and lets the event go on.
WalkInSwallow(r) ==
    /\ AtLink(r, "seated") \/ AtLink(r, "gap")
    /\ faults < MaxFaults
    /\ relay' = PassOn(r)
    /\ faults' = faults + 1
    /\ UNCHANGED <<outbox, told, now, walkVars>>

=============================================================================
