---------------------------- MODULE GroupStatus ----------------------------
(***************************************************************************)
(* A party's status follows its participants (domain/booking/              *)
(* group-status.ts), and the listener that keeps the stored one up to date *)
(* from the participants' own events.                                      *)
(***************************************************************************)
EXTENDS Outbox

VARIABLES
    lane,     \* status of each participant's booking
    party     \* booking_group: the stored status and active count

groupVars == <<lane, party>>

GONE     == {"cancelled", "no_show", "expired", "skipped"}
TERMINAL == GONE \cup {"completed", "settled"}
READY    == {"confirmed", "checked_in", "in_service", "completed", "settled"}
AWAITING == {"draft", "held", "pending_payment", "pending_confirmation"}

StatusOf(active) ==
    CASE active \cap {"in_service", "checked_in"} # {} -> "in_service"
      [] active \cap {"in_service", "checked_in"} = {} /\ active \subseteq TERMINAL ->
            IF active \cap {"completed", "settled"} # {} THEN "completed" ELSE "cancelled"
      [] active \subseteq READY /\ ~(active \subseteq TERMINAL)
           /\ active \cap {"in_service", "checked_in"} = {} -> "confirmed"
      [] ~(active \subseteq READY) /\ active \cap READY # {}
           /\ active \cap {"in_service", "checked_in"} = {} -> "partially_confirmed"
      [] OTHER -> IF "pending_payment" \in active THEN "partially_confirmed" ELSE "draft"

\* deriveGroupStatus(): from the statuses of the participants still coming.
DeriveGroupStatus(statuses) ==
    LET staying == {l \in DOMAIN statuses : statuses[l] \notin GONE}
    IN  [st |-> IF staying = {} THEN "cancelled"
                ELSE StatusOf({statuses[l] : l \in staying}),
         active |-> Cardinality(staying)]

GroupInit ==
    /\ lane = [l \in Lanes |-> "confirmed"]
    /\ party = DeriveGroupStatus(lane)

-----------------------------------------------------------------------------
(* GroupStatusListener.rederive(): an unlocked read of the siblings, a      *)
(* conditional update, and an event in a statement of its own.              *)

RederiveRead(r) ==
    /\ AtLink(r, "group") /\ relay[r].seen = None
    /\ relay' = [relay EXCEPT ![r].seen = [due |-> DeriveGroupStatus(lane),
                                            written |-> FALSE]]
    /\ UNCHANGED <<outbox, told, faults, now, groupVars>>

MovedStatusOnly(d) == party.st # d.st                             \* mutant

\* The WHERE of the update: something is different.
Moved(d) == party.st # d.st \/ party.active # d.active

RederiveWrite(r) ==
    /\ AtLink(r, "group") /\ relay[r].seen # None /\ ~relay[r].seen.written
    /\ LET d == relay[r].seen.due IN
         IF Moved(d)
         THEN /\ party' = d
              /\ relay' = [relay EXCEPT ![r].seen.written = TRUE]
              /\ UNCHANGED outbox
         ELSE /\ relay' = PassOn(r)
              /\ outbox' = Heard(outbox, r, "group")
              /\ UNCHANGED party
    /\ UNCHANGED <<told, faults, now, lane>>

RederiveTell(r) ==
    /\ AtLink(r, "group") /\ relay[r].seen # None /\ relay[r].seen.written
    /\ told' = Tell("group.moved", relay[r].seen.due)
    /\ outbox' = Heard(outbox, r, "group")
    /\ relay' = PassOn(r)
    /\ UNCHANGED <<faults, now, groupVars>>

\* Best effort: an error is logged and the event goes on.
RederiveSwallow(r) ==
    /\ AtLink(r, "group") /\ faults < MaxFaults
    /\ relay' = PassOn(r)
    /\ faults' = faults + 1
    /\ UNCHANGED <<outbox, told, now, groupVars>>

\* A participant's booking moves on, with its event in one transaction.
LaneMoves(l, to) ==
    /\ Room(1)
    /\ \/ lane[l] = "confirmed" /\ to \in {"checked_in", "cancelled"}
       \/ lane[l] = "checked_in" /\ to \in {"confirmed", "cancelled"}
    /\ lane' = [lane EXCEPT ![l] = to]
    /\ outbox' = Emit(CASE to = "cancelled" -> "booking.cancelled"
                        [] to = "checked_in" -> "booking.checked_in"
                        [] OTHER -> "booking.confirmed", l, 0)
    /\ UNCHANGED <<told, relay, faults, now, party>>

=============================================================================
