------------------------------ MODULE Waitlist ------------------------------
(***************************************************************************)
(* The waitlist: customers wait for a service on a day, a freed slot is    *)
(* offered to the first who wants it, and an answer or a lapse passes it   *)
(* down.  Requests and the sweep run on workers, the offer of a freed slot *)
(* also inside a relay; every database round trip is a step.               *)
(***************************************************************************)
EXTENDS Outbox

CONSTANTS
    Entries,      \* waitlist entries
    Wants,        \* which entry wants which slot: service, day, window, staff
    Workers,      \* requests being served, and the sweep of a replica
    DECLINE_CAP,
    OFFER_TTL

ASSUME WaitlistAssumption ==
    /\ IsFiniteSet(Entries) /\ Wants \in [Entries -> SUBSET Freeable]
    /\ DECLINE_CAP \in Nat \ {0} /\ OFFER_TTL \in Nat \ {0}

VARIABLES
    entry,    \* waitlist_entry
    taken,    \* the freed slots: who holds one again
    job       \* each worker's place in its handler

waitVars == <<entry, taken, job>>

Idle == [op |-> "idle", e |-> None, c |-> None, todo |-> {}, count |-> 0,
         locked |-> {}]

Absent  == [st |-> "none", joined |-> 0, count |-> 0, declined |-> {},
            code |-> None, exp |-> 0]

WaitlistInit ==
    /\ entry = [e \in Entries |-> Absent]
    /\ taken = [c \in Freeable |-> "booked"]
    /\ job = [w \in Workers |-> Idle]

-----------------------------------------------------------------------------
(* domain/booking/waitlist.ts *)

MatchesAnyCode(e, c) == entry[e].count < DECLINE_CAP /\ c \in Wants[e]  \* mutant

Matches(e, c) ==
    /\ entry[e].count < DECLINE_CAP
    /\ c \in Wants[e]
    /\ c \notin entry[e].declined

\* rank() and planOffer(): the earliest to join of those who match.  Join
\* times never tie, so tier and fit never decide.
PlanOffer(rows, c) ==
    {e \in rows : /\ Matches(e, c)
                  /\ \A f \in rows : Matches(f, c) => entry[e].joined <= entry[f].joined}

\* decline(): the fairness cap.
Decline(count) == IF count + 1 >= DECLINE_CAP THEN "left" ELSE "waiting"

-----------------------------------------------------------------------------
(* WaitlistRepository.offerFreedSlot() *)

Locked(e) == \E w \in Workers : e \in job[w].locked

RelayLocked(e) ==
    \E r \in Relays :
        AtLink(r, "waitlist") /\ relay[r].seen # None /\ e \in relay[r].seen

\* SELECT ... WHERE status = 'waiting' FOR UPDATE SKIP LOCKED.
Candidates == {e \in Entries :
    entry[e].st = "waiting" /\ ~Locked(e) /\ ~RelayLocked(e)}

\* The claim and its event; nobody to offer to changes nothing.
Offered(rows, c) ==
    [e \in Entries |->
        IF e \in PlanOffer(rows, c)
        THEN [entry[e] EXCEPT !.st = "offered", !.code = c, !.exp = now + OFFER_TTL]
        ELSE entry[e]]

OfferEvents(rows, c) ==
    IF PlanOffer(rows, c) = {} THEN told ELSE Tell("waitlist.offered", c)

\* WaitlistListener, inside the relay: the candidates are locked ...
ListenLock(r) ==
    /\ AtLink(r, "waitlist") /\ relay[r].seen = None
    /\ relay' = [relay EXCEPT ![r].seen = Candidates]
    /\ UNCHANGED <<outbox, told, faults, now, waitVars>>

\* ... and the best of them is given the offer.
ListenClaim(r) ==
    /\ AtLink(r, "waitlist") /\ relay[r].seen # None
    /\ LET c == Current(r).ref IN
         /\ entry' = Offered(relay[r].seen, c)
         /\ told' = OfferEvents(relay[r].seen, c)
    /\ outbox' = Heard(outbox, r, "waitlist")
    /\ relay' = PassOn(r)
    /\ UNCHANGED <<faults, taken, job, now>>

\* A failure here is swallowed: the cancellation is delivered anyway.
ListenSwallow(r) ==
    /\ AtLink(r, "waitlist") /\ faults < MaxFaults
    /\ relay' = PassOn(r)
    /\ faults' = faults + 1
    /\ UNCHANGED <<outbox, told, now, waitVars>>

OfferLock(w) ==
    /\ job[w].op = "offer"
    /\ job' = [job EXCEPT ![w].op = "claim", ![w].locked = Candidates]
    /\ UNCHANGED <<outboxVars, entry, taken>>

AfterPassing(w) ==
    IF job[w].todo = {} THEN Idle
    ELSE LET next == CHOOSE p \in job[w].todo : TRUE
         IN  [Idle EXCEPT !.op = "pass", !.e = next.e, !.c = next.c,
                          !.todo = job[w].todo \ {next}]

OfferClaim(w) ==
    /\ job[w].op = "claim"
    /\ entry' = Offered(job[w].locked, job[w].c)
    /\ told' = OfferEvents(job[w].locked, job[w].c)
    /\ job' = [job EXCEPT ![w] = AfterPassing(w)]
    /\ UNCHANGED <<outbox, relay, faults, now, taken>>

-----------------------------------------------------------------------------
(* The list *)

Join(e) ==
    /\ entry[e].st = "none"
    /\ entry' = [entry EXCEPT ![e] =
         [Absent EXCEPT !.st = "waiting",
            !.joined = Cardinality({f \in Entries : entry[f].st # "none"}) + 1]]
    /\ UNCHANGED <<outboxVars, taken, job>>

Leave(e) ==
    /\ entry[e].st \in {"waiting", "offered"}
    /\ ~Locked(e) /\ ~RelayLocked(e)
    /\ entry' = [entry EXCEPT ![e].st = "left"]
    /\ UNCHANGED <<outboxVars, taken, job>>

LiveOffer(e) == entry[e].st = "offered" /\ ~Reached(entry[e].exp)

Start(w, op, e) ==
    job' = [job EXCEPT ![w] = [Idle EXCEPT !.op = op, !.e = e, !.c = entry[e].code]]

\* accept(): read the offer, place an ordinary hold on its slot, mark it.
AcceptRead(w, e) ==
    /\ job[w] = Idle /\ LiveOffer(e)
    /\ Start(w, "hold", e)
    /\ UNCHANGED <<outboxVars, entry, taken>>

AcceptHold(w) ==
    /\ job[w].op = "hold"
    /\ \/ /\ taken[job[w].c] = "free"
          /\ taken' = [taken EXCEPT ![job[w].c] = job[w].e]
          /\ job' = [job EXCEPT ![w].op = "mark"]
       \/ /\ taken[job[w].c] # "free"
          /\ job' = [job EXCEPT ![w] = Idle]
          /\ UNCHANGED taken
    /\ UNCHANGED <<outboxVars, entry>>

AcceptMark(w) ==
    /\ job[w].op = "mark" /\ ~Locked(job[w].e) /\ ~RelayLocked(job[w].e)
    /\ entry' = [entry EXCEPT ![job[w].e].st =
                   IF @ = "offered" THEN "accepted" ELSE @]
    /\ job' = [job EXCEPT ![w] = Idle]
    /\ UNCHANGED <<outboxVars, taken>>

\* decline(): a live offer is read, then passed down.
DeclineRead(w, e) ==
    /\ job[w] = Idle /\ LiveOffer(e)
    /\ Start(w, "pass", e)
    /\ UNCHANGED <<outboxVars, entry, taken>>

-----------------------------------------------------------------------------
(* passDown() and the sweep *)

\* findUnique, without a lock.
PassRead(w) ==
    /\ job[w].op = "pass"
    /\ job' = [job EXCEPT ![w].op = "write", ![w].count = entry[job[w].e].count]
    /\ UNCHANGED <<outboxVars, entry, taken>>

\* The row after a decline: unconditional, from the count read before.
Passed(w) ==
    [entry[job[w].e] EXCEPT
        !.st = Decline(job[w].count), !.count = job[w].count + 1,
        !.declined = @ \cup {job[w].c}, !.code = None, !.exp = 0]

PassWrite(w) ==
    /\ job[w].op = "write" /\ ~Locked(job[w].e) /\ ~RelayLocked(job[w].e)
    /\ entry' = [entry EXCEPT ![job[w].e] = Passed(w)]
    /\ job' = [job EXCEPT ![w].op = "offer"]
    /\ UNCHANGED <<outboxVars, taken>>

LapsedThisMinute(e) == entry[e].exp = now                         \* mutant

LapsedOffer(e) == Reached(entry[e].exp)

\* sweepExpiredOffers(): one UPDATE returns every lapsed offer to 'waiting',
\* then each is passed down in statements of its own.
Sweep(w) ==
    LET lapsed == {e \in Entries : /\ entry[e].st = "offered" /\ LapsedOffer(e)
                                   /\ ~Locked(e) /\ ~RelayLocked(e)}
        pairs  == {[e |-> e, c |-> entry[e].code] : e \in lapsed}
    IN  /\ job[w] = Idle /\ lapsed # {}
        /\ entry' = [e \in Entries |->
             IF e \in lapsed THEN [entry[e] EXCEPT !.st = "waiting"] ELSE entry[e]]
        /\ \E first \in pairs :
             job' = [job EXCEPT ![w] =
               [Idle EXCEPT !.op = "pass", !.e = first.e, !.c = first.c,
                            !.todo = pairs \ {first}]]
        /\ UNCHANGED <<outboxVars, taken>>

\* The process serving w dies: its transaction, if any, is undone.
WorkerDies(w) ==
    /\ job[w] # Idle /\ faults < MaxFaults
    /\ job' = [job EXCEPT ![w] = Idle]
    /\ faults' = faults + 1
    /\ UNCHANGED <<outbox, told, relay, now, entry, taken>>

-----------------------------------------------------------------------------

\* A booking is called off: the slot is free and the event says which.
FreeSlot(c) ==
    /\ taken[c] = "booked" /\ Room(1)
    /\ taken' = [taken EXCEPT ![c] = "free"]
    /\ outbox' = Emit("booking.cancelled", c, now)
    /\ UNCHANGED <<told, relay, faults, now, entry, job>>

\* Somebody else books the freed slot first.
Resold(c) ==
    /\ taken[c] = "free"
    /\ taken' = [taken EXCEPT ![c] = "sold"]
    /\ UNCHANGED <<outboxVars, entry, job>>

=============================================================================
