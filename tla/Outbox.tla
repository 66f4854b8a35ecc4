------------------------------- MODULE Outbox -------------------------------
(***************************************************************************)
(* The transactional outbox: every handler writes its events in its own    *)
(* transaction, and relays on several replicas move them through the chain *)
(* of listeners.  The marks a relay makes live in its one transaction; the *)
(* listeners write on connections of their own, so a relay that dies       *)
(* leaves their effects behind and the event unmarked.                     *)
(***************************************************************************)
EXTENDS Naturals, Sequences, FiniteSets, SequencesExt

CONSTANTS
    Relays,         \* replicas of the service, each with one relay
    MaxEvents,      \* bound: events written in one behaviour
    MAX_ATTEMPTS,   \* failures after which an event needs a human
    RELAY_BATCH,    \* RELAY_BATCH_SIZE
    MaxFaults,      \* bound: crashes and failed writes in one behaviour
    MaxTime,        \* bound of the clock: it stands for every later time too
    Freeable,       \* bookings whose slot the waitlist may want
    HoldIds,        \* bookings made from a walk-in's hold
    Lanes,          \* bookings of the participants of one party
    Visits,         \* bookings that may be reminded about
    None

ASSUME OutboxAssumption ==
    /\ MAX_ATTEMPTS \in Nat \ {0} /\ RELAY_BATCH \in Nat \ {0}
    /\ MaxEvents \in Nat /\ MaxFaults \in Nat /\ MaxTime \in Nat

VARIABLES
    outbox,   \* event_outbox in created_at order
    told,     \* the events no link reacts to: only the last publisher's
    relay,    \* each relay's batch, its place in the chain and its marks
    faults,   \* crashes and failed writes so far
    now

outboxVars == <<outbox, told, relay, faults, now>>

\* At the horizon every instant still to come has come.
Reached(t) == now >= t \/ now = MaxTime

\* at is the start the event is about, nth the booking's move it was written
\* after; manual marks a reminder the desk asked for.
Event(type, ref, at, nth, manual) ==
    [type |-> type, ref |-> ref, at |-> at, nth |-> nth, manual |-> manual,
     attempts |-> 0, published |-> FALSE, heard |-> {}]

Emit(type, ref, at) == Append(outbox, Event(type, ref, at, 0, FALSE))
Room(n) == Len(outbox) + n <= MaxEvents
Tell(type, ref) == told \cup {<<type, ref>>}

-----------------------------------------------------------------------------
(* The listener chain, outermost first, and what each link reacts to *)

FREES_A_SLOT == {"booking.cancelled", "booking.rescheduled"}
Rungs        == {"confirm_24h", "day_of_3h", "running_late_15m"}
HUB_EVENTS   == {"booking.confirmed", "booking.cancelled",
                 "booking.rescheduled", "chosen"}
BookingEvents == FREES_A_SLOT \cup {"booking.confirmed", "booking.checked_in"}

Chain == <<"group", "seated", "gap", "waitlist", "hub", "reminder">>

\* A link that finds nothing of its own behind an event passes it on.
Hears(link, e) ==
    CASE link = "group"    -> e.type \in BookingEvents /\ e.ref \in Lanes
      [] link = "seated"   -> e.type = "booking.confirmed" /\ e.ref \in HoldIds
      [] link = "gap"      -> e.type \in FREES_A_SLOT
      [] link = "waitlist" -> e.type \in FREES_A_SLOT /\ e.ref \in Freeable
      [] link = "hub"      -> e.type \in HUB_EVENTS /\ e.ref \in Visits
      [] link = "reminder" -> e.type \in Rungs

\* The places in the chain where somebody reacts to the event.
LinksFor(e) == {n \in 1 .. Len(Chain) : Hears(Chain[n], e)}

-----------------------------------------------------------------------------
(* OutboxRelay.drain() *)

Resting == [todo |-> {}, step |-> 1, done |-> {}, failed |-> {}, seen |-> None]
Busy(r) == relay[r] # Resting

LockedRows == UNION {relay[r].todo \cup relay[r].done \cup relay[r].failed :
                        r \in Relays}

ClaimableOnce(i) == ~outbox[i].published /\ outbox[i].attempts = 0  \* mutant

Claimable(i) == ~outbox[i].published /\ outbox[i].attempts < MAX_ATTEMPTS

\* ORDER BY created_at LIMIT n FOR UPDATE SKIP LOCKED: rows another relay
\* holds are walked past.
BatchFor(r) ==
    LET free == {i \in 1 .. Len(outbox) : Claimable(i) /\ i \notin LockedRows}
    IN  {i \in free : Cardinality({j \in free : j < i}) < RELAY_BATCH}

Drain(r) ==
    /\ ~Busy(r)
    /\ BatchFor(r) # {}
    /\ relay' = [relay EXCEPT ![r] = [Resting EXCEPT !.todo = BatchFor(r)]]
    /\ UNCHANGED <<outbox, told, faults, now>>

\* The batch is worked through in created_at order.
InHand(r)  == Min(relay[r].todo)
Current(r) == outbox[InHand(r)]

\* The links the event in hand has still to go through.
Ahead(r) == {n \in LinksFor(Current(r)) : n >= relay[r].step}

\* Relay r has an event in hand and it is this link's turn.
AtLink(r, link) ==
    /\ relay[r].todo # {} /\ Ahead(r) # {}
    /\ Chain[Min(Ahead(r))] = link

\* The link did its work (or swallowed its failure) and passes the event on.
PassOn(r) == [relay EXCEPT ![r].step = Min(Ahead(r)) + 1, ![r].seen = None]

\* A link's own record that the event reached it.
Heard(box, r, link) == [box EXCEPT ![InHand(r)].heard = @ \cup {link}]

\* The end of the chain: the event is marked published in the transaction.
Published(r) ==
    /\ relay[r].todo # {} /\ Ahead(r) = {}
    /\ relay' = [relay EXCEPT ![r].todo = @ \ {InHand(r)}, ![r].step = 1,
                              ![r].done = @ \cup {InHand(r)}]
    /\ UNCHANGED <<outbox, told, faults, now>>

MarkAsDelivered(r) ==                                             \* mutant
    [relay EXCEPT ![r].todo = @ \ {InHand(r)}, ![r].step = 1, ![r].seen = None,
                  ![r].done = @ \cup {InHand(r)}]

\* A link that throws: the attempt is counted and the batch goes on.
CountTheAttempt(r) ==
    [relay EXCEPT ![r].todo = @ \ {InHand(r)}, ![r].step = 1, ![r].seen = None,
                  ![r].failed = @ \cup {InHand(r)}]

\* COMMIT: the marks of the whole batch become visible together.
Commit(r) ==
    /\ Busy(r) /\ relay[r].todo = {}
    /\ outbox' = [i \in 1 .. Len(outbox) |->
                    [outbox[i] EXCEPT
                       !.published = @ \/ i \in relay[r].done,
                       !.attempts = IF i \in relay[r].failed THEN @ + 1 ELSE @]]
    /\ relay' = [relay EXCEPT ![r] = Resting]
    /\ UNCHANGED <<told, faults, now>>

\* The process dies, or the transaction outlives its five seconds: no mark
\* survives and the locks are gone.
Die(r) ==
    /\ Busy(r) /\ faults < MaxFaults
    /\ relay' = [relay EXCEPT ![r] = Resting]
    /\ faults' = faults + 1
    /\ UNCHANGED <<outbox, told, now>>

Tick ==
    /\ now < MaxTime
    /\ now' = now + 1
    /\ UNCHANGED <<outbox, told, relay, faults>>

OutboxInit ==
    /\ outbox = <<>> /\ told = {}
    /\ relay = [r \in Relays |-> Resting]
    /\ faults = 0
    /\ now = 0

=============================================================================
