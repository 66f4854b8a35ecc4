----------------------------- MODULE Deliveries -----------------------------
(***************************************************************************)
(* From an outbox event to a message: the two innermost links write one    *)
(* notification_delivery row per channel, and dispatchers on several       *)
(* replicas claim, send and record them, each attempt under a lease.       *)
(***************************************************************************)
EXTENDS Reminders

CONSTANTS
    Senders,          \* dispatchers, one per replica
    DELIVERY_TRIES,   \* MAX_ATTEMPTS of reminder-delivery.ts
    DISPATCH_LEASE,   \* DISPATCH_LEASE_MS
    RetryDelay,       \* RETRY_DELAYS_MS, as a function of the attempt
    HUB_WITHIN        \* HUB_DELIVER_WITHIN_MS

ASSUME DeliveriesAssumption ==
    /\ DELIVERY_TRIES \in Nat \ {0} /\ DISPATCH_LEASE \in Nat \ {0}
    /\ RetryDelay \in [1 .. DELIVERY_TRIES -> Nat \ {0}] /\ HUB_WITHIN \in Nat

VARIABLES
    delivery,   \* notification_delivery, by source event and channel
    sender      \* the claim each dispatcher is working on

sendVars == <<delivery, sender>>

Channels == {"push", "email", "hub"}
NoRow    == [st |-> "none", attempts |-> 0, next |-> 0, exp |-> 0]
Free     == [op |-> "free", i |-> 0, ch |-> None, attempt |-> 0, at |-> 0,
             out |-> None, next |-> 0]

DeliveriesInit ==
    /\ delivery = [k \in (1 .. MaxEvents) \X Channels |-> NoRow]
    /\ sender = [w \in Senders |-> Free]

-----------------------------------------------------------------------------
(* The links that throw *)

\* planDeliveries(): one row per channel of the rung; a manual reminder is
\* worth sending until the visit starts.
ExpiryOf(e) ==
    LET i == CHOOSE j \in 1 .. Len(LADDER) : LADDER[j].rung = e.type
    IN  IF e.manual THEN e.at ELSE WindowClose(i, e.at)

ChannelsOf(e) ==
    LET i == CHOOSE j \in 1 .. Len(LADDER) : LADDER[j].rung = e.type
    IN  LADDER[i].channels

\* enqueue(): UNIQUE (source_event_id, channel), duplicates skipped.
Enqueued(i, chans, exp) ==
    [k \in DOMAIN delivery |->
        IF k[1] = i /\ k[2] \in chans /\ delivery[k].st = "none"
        THEN [st |-> "pending", attempts |-> 0, next |-> now, exp |-> exp]
        ELSE delivery[k]]

ListenHub(r) ==
    /\ AtLink(r, "hub")
    /\ LET e == Current(r) IN
         delivery' = Enqueued(InHand(r), {"hub"},
                        IF e.type = "chosen" THEN e.at ELSE now + HUB_WITHIN)
    /\ relay' = PassOn(r)
    /\ outbox' = Heard(outbox, r, "hub")
    /\ UNCHANGED <<told, faults, now, sender>>

ListenReminder(r) ==
    /\ AtLink(r, "reminder")
    /\ LET e == Current(r) IN
         delivery' = Enqueued(InHand(r), ChannelsOf(e), ExpiryOf(e))
    /\ relay' = PassOn(r)
    /\ outbox' = Heard(outbox, r, "reminder")
    /\ UNCHANGED <<told, faults, now, sender>>

\* The insert failed: the link throws and the relay counts the attempt.
ListenThrow(r) ==
    /\ AtLink(r, "hub") \/ AtLink(r, "reminder")
    /\ faults < MaxFaults
    /\ relay' = CountTheAttempt(r)
    /\ faults' = faults + 1
    /\ UNCHANGED <<outbox, told, now, sendVars>>

-----------------------------------------------------------------------------
(* The dispatcher *)

DueThisMinute(k) == delivery[k].st = "pending" /\ delivery[k].next = now  \* mutant

\* At the horizon of the clock a row waits for whoever is still at work on it.
DueRow(k) ==
    /\ delivery[k].st = "pending"
    /\ \/ now >= delivery[k].next
       \/ now = MaxTime /\ \A w \in Senders : <<sender[w].i, sender[w].ch>> # k

\* claimDue(): the attempt is counted and the row leased before anything is
\* sent.  Rows of one batch never meet again, so one row is one batch.
ClaimDue(w, k) ==
    /\ sender[w] = Free
    /\ DueRow(k)
    /\ delivery' = [delivery EXCEPT ![k].attempts = @ + 1,
                                    ![k].next = now + DISPATCH_LEASE]
    /\ sender' = [sender EXCEPT ![w] =
         [Free EXCEPT !.op = "claimed", !.i = k[1], !.ch = k[2],
                      !.attempt = delivery[k].attempts + 1, !.at = now]]
    /\ UNCHANGED <<outboxVars>>

\* readiness(): is it still about a visit that is coming, at that time?
Readiness(b, start, expired, attempt) ==
    CASE visit[b].st \notin REMINDER_LIVE_STATUSES -> "skipped"
      [] visit[b].st \in REMINDER_LIVE_STATUSES /\ visit[b].start # start -> "superseded"
      [] visit[b].st \in REMINDER_LIVE_STATUSES /\ visit[b].start = start
           /\ attempt > DELIVERY_TRIES -> "failed"
      [] visit[b].st \in REMINDER_LIVE_STATUSES /\ visit[b].start = start
           /\ attempt <= DELIVERY_TRIES /\ expired ->
            IF attempt <= 1 THEN "skipped" ELSE "failed"
      [] OTHER -> "go"

\* hubPlan() and the expiry in front of it, from the booking as it is now.
HubReadiness(e, expired) ==
    CASE expired -> "skipped"
      [] ~expired /\ e.type = "chosen" ->
            IF visit[e.ref].st \in REMINDER_LIVE_STATUSES /\ visit[e.ref].start = e.at
            THEN "go" ELSE "skipped"
      [] ~expired /\ e.type = "booking.confirmed" ->
            IF visit[e.ref].st = "confirmed" THEN "go" ELSE "skipped"
      [] OTHER -> "go"

\* settle(): a transient failure is retried until the tries or the window
\* run out.
Settle(outcome, attempt, at, exp) ==
    CASE outcome = "retry" /\ attempt >= DELIVERY_TRIES -> [st |-> "failed", next |-> 0]
      [] outcome = "retry" /\ attempt < DELIVERY_TRIES ->
            IF at + RetryDelay[attempt] >= exp THEN [st |-> "failed", next |-> 0]
            ELSE [st |-> "pending", next |-> at + RetryDelay[attempt]]
      [] OTHER -> [st |-> outcome, next |-> 0]

Outcomes == {"sent", "retry", "failed", "skipped"}      \* of a provider
Lookups  == {"found", "opted_out", "not_found", "unavailable"}

\* sendPush(): preferences that cannot be read are taken at their defaults.
SendPush(who, provider) == IF who = "opted_out" THEN "skipped" ELSE provider

\* sendEmail(): without an address there is nothing to guess.
SendEmail(who, provider) ==
    CASE who = "unavailable" -> "retry"
      [] who \in {"not_found", "opted_out"} -> "skipped"
      [] OTHER -> provider

SendBy(ch, who, provider) ==
    CASE ch = "push" -> SendPush(who, provider)
      [] ch = "email" -> SendEmail(who, provider)
      [] OTHER -> provider

\* dispatchOne(): the booking is read, the message goes out or not, and what
\* came of it is in the worker's hands.
DispatchOne(w, who, provider) ==
    /\ sender[w].op = "claimed"
    /\ LET s == sender[w]
           e == outbox[s.i]
           row == delivery[<<s.i, s.ch>>]
           expired == s.at >= row.exp \/ s.at = MaxTime
           ready == IF s.ch = "hub" THEN HubReadiness(e, expired)
                    ELSE Readiness(e.ref, e.at, expired, s.attempt)
           result == IF ready # "go" THEN [st |-> ready, next |-> 0]
                     ELSE Settle(SendBy(s.ch, who, provider), s.attempt, s.at, row.exp)
       IN  /\ ready # "go" => who = "found" /\ provider = "skipped"
           /\ sender' = [sender EXCEPT ![w].op = "sent", ![w].out = result.st,
                                       ![w].next = result.next]
    /\ UNCHANGED <<outboxVars, delivery>>

RecordedByAnyone(w, row) == row.st = "pending"                    \* mutant

\* The WHERE of record(): still pending, and still this attempt's.
Recordable(w, row) == row.st = "pending" /\ row.attempts = sender[w].attempt

Record(w) ==
    /\ sender[w].op = "sent"
    /\ LET k == <<sender[w].i, sender[w].ch>> IN
         delivery' =
           IF ~Recordable(w, delivery[k]) THEN delivery
           ELSE IF sender[w].out = "pending"
                THEN [delivery EXCEPT ![k].next = sender[w].next]
                ELSE [delivery EXCEPT ![k].st = sender[w].out]
    /\ sender' = [sender EXCEPT ![w] = Free]
    /\ UNCHANGED <<outboxVars>>

\* The dispatcher dies, or loses the database, before it could record.
SenderDies(w) ==
    /\ sender[w] # Free /\ faults < MaxFaults
    /\ sender' = [sender EXCEPT ![w] = Free]
    /\ faults' = faults + 1
    /\ UNCHANGED <<outbox, told, relay, now, delivery>>

=============================================================================
