------------------------------ MODULE Routines ------------------------------
(***************************************************************************)
(* A routine of the app: its row, its sessions and the bookings behind     *)
(* them, the customer's requests (create, EXTEND, PAUSE, RESUME, SKIP,     *)
(* RESCHEDULE, CANCEL) and the copies of the hourly job.  A request that   *)
(* books goes through the single create once per session and is all or     *)
(* nothing.  Time is counted in days and a day has one slot: the routine's *)
(* time with the routine's stylist.                                        *)
(*                                                                         *)
(* Sources: mobile-series.handler.ts, mobile-series-manage.handler.ts,     *)
(* mobile-series-cancel.handler.ts, mobile-series-job.handler.ts,          *)
(* mobile-series.repository.ts and the mobile-series*.ts rules.            *)
(***************************************************************************)
EXTENDS Recurrence

CONSTANTS
    Apps,             \* requests of the customer that may be under way at once
    Jobs,             \* copies of the hourly job
    Cadences,         \* frequencies a routine may have or switch to
    SessionCounts,    \* sessions of a new routine
    Firsts,           \* first days a routine may be created on
    RoutineHorizon,   \* BOOKING_HORIZON_DAYS
    MAX_FUTURE_SESSIONS,
    PAUSE_MAX_DAYS,
    MISSES_TO_PAUSE,
    OpenDaysOf,       \* the days the salon is open
    RoutineEnd,       \* bound: the last day of the model
    MaxAsks,          \* bound on the customer's requests
    MaxVisits,        \* bound on bookings
    MaxTaken          \* bound on slots other people take

ASSUME RoutinesAssumption ==
    /\ Cadences \subseteq {"DAILY", "WEEKLY", "EVERY_2_WEEKS", "MONTHLY"}
    /\ SessionCounts \subseteq Nat \ {0} /\ Firsts \subseteq Nat
    /\ RoutineHorizon \in Nat /\ RoutineEnd \in Nat
    /\ PAUSE_MAX_DAYS \in Nat /\ MAX_FUTURE_SESSIONS \in Nat

VARIABLES
    day,      \* today
    rt,       \* the routine's row
    sess,     \* its sessions, by index
    rv,       \* bookings made for it
    taken,    \* days whose slot somebody else has
    proc,     \* requests and jobs under way
    asked     \* requests so far

routineVars == <<rt, sess, rv, taken, proc, asked>>

Procs == Apps \cup Jobs
Idle == [pc |-> "idle", kind |-> "", days |-> <<>>, ids |-> <<>>, todo |-> {},
         made |-> {}, keep |-> {}, drop |-> {}, due |-> {}, after |-> <<>>]

RoutineInit ==
    /\ day = 0 /\ asked = 0
    /\ rt = [status |-> "none", freq |-> "", anchor |-> 0, until |-> 0, missAfter |-> -1]
    /\ sess = <<>> /\ rv = <<>> /\ taken = {}
    /\ proc = [p \in Procs |-> Idle]

-----------------------------------------------------------------------------
(* The rules: mobile-series.ts, mobile-series-move.ts, mobile-series-job.ts *)

BeyondHorizon(d) == d - day > RoutineHorizon

\* factsOf(): the booking's day when there is one.
DayOf(s) == IF sess[s].bk # 0 THEN rv[sess[s].bk].day ELSE sess[s].day
StatusOfSession(s) == IF sess[s].bk = 0 THEN "none" ELSE rv[sess[s].bk].status

Bucket(s) ==
    IF sess[s].state = "skipped" THEN "skipped"
    ELSE IF StatusOfSession(s) \in {"visited", "missed"} THEN "done"
    ELSE IF StatusOfSession(s) = "cancelled" THEN "cancelled" ELSE "remaining"

Remaining == {s \in DOMAIN sess : Bucket(s) = "remaining"}
Future == {s \in Remaining : DayOf(s) > day}

\* isLocked(): inside the last 24 hours nothing moves.
Locked(s) == DayOf(s) <= day
Changeable(s) == s \in Remaining /\ ~Locked(s)

\* movableSessions() and stayingDays().
Movable == {s \in Remaining : ~Locked(s)}
StayingDays == {DayOf(s) : s \in Remaining \ Movable}

Latest(days) == CHOOSE d \in days : \A e \in days : e <= d
AfterAll(days) == IF days = {} THEN 0 ELSE Latest(days) + 1

\* pauseFrom() and resumeFrom(): after every session that stays.
PauseFrom(until) ==
    LET moved == {DayOf(s) : s \in Movable}
        first == IF moved = {} THEN 0 ELSE CHOOSE d \in moved : \A e \in moved : d <= e
    IN Latest({until, first, AfterAll(StayingDays)})
ResumeTomorrow == day \* mutant
ResumeFrom == Latest({day + 1, AfterAll(StayingDays)})

\* twoMissesInARow(): the last visits that count, walked backwards; a visit
\* that happened breaks the streak.
LastMisses(after) ==
    LET counted == {s \in DOMAIN sess : /\ DayOf(s) > after /\ sess[s].state # "skipped"
                                        /\ StatusOfSession(s) \in {"visited", "missed"}}
        Later(s) == {u \in counted : DayOf(u) > DayOf(s)}
    IN {s \in counted : /\ StatusOfSession(s) = "missed"
                        /\ \A u \in Later(s) : StatusOfSession(u) = "missed"}
PauseDue(after) == Cardinality(LastMisses(after)) >= MISSES_TO_PAUSE

AllClosed == sess # <<>> /\ Remaining = {}
ResumeDue(status, until) == status = "paused" /\ until # 0 /\ until <= day
HorizonDue(s) ==
    sess[s].state = "planned" /\ sess[s].bk = 0 /\ DayOf(s) > day /\ ~BeyondHorizon(DayOf(s))

\* The slot of a day: nobody else's, and not one of the routine's own.
SlotFree(d) == d \notin taken /\ \A v \in DOMAIN rv : ~(rv[v].status = "booked" /\ rv[v].day = d)

\* check(): every session inside the horizon is free when the request looks.
AllFree(days, kept) ==
    \A k \in DOMAIN days : k \in kept \/ BeyondHorizon(days[k]) \/ SlotFree(days[k])

\* applyPicks(): the customer's choice for one session, none on a day
\* another session has.
WithPick(days, pick) == IF pick = <<>> THEN days ELSE [days EXCEPT ![pick[1]] = pick[2]]
PicksFit(days, other) ==
    \A k \in DOMAIN days : /\ days[k] \notin other
                           /\ \A l \in DOMAIN days : l # k => days[l] # days[k]
Picks(days) == {<<>>} \cup {<<1, d>> : d \in (day + 1) .. RoutineEnd}

\* keepPlan(): a session already booked on a new slot keeps its booking.
KeepPlan(ids, days) ==
    {<<pair[1], sess[ids[pair[2]]].bk>> : pair \in
       {m \in (DOMAIN days) \X (DOMAIN ids) :
          /\ sess[ids[m[2]]].bk # 0
          /\ DayOf(ids[m[2]]) = days[m[1]]}}
ReleasePlan(ids, keep) ==
    {sess[ids[k]].bk : k \in DOMAIN ids} \ ({0} \cup {m[2] : m \in keep})

-----------------------------------------------------------------------------
(* The customer's requests begin: facts are read, rules checked, days planned *)

Ask(p) == p \in Apps /\ proc[p].pc = "idle" /\ asked < MaxAsks /\ asked' = asked + 1

\* actionRefusal(): only a paused routine is resumed, only an active changed.
ActionAllowed(action) == rt.status = IF action = "RESUME" THEN "paused" ELSE "active"

\* execute(): the facts are read and the action checked before any rule of it.
Manage(p, action) == Ask(p) /\ ActionAllowed(action)

\* What is booked now: the sessions inside the horizon that keep nothing.
Begin(p, kind, ids, days, keep, after) ==
    proc' = [proc EXCEPT ![p] =
      [Idle EXCEPT !.pc = "book", !.kind = kind, !.days = days, !.ids = ids, !.keep = keep,
                   !.drop = ReleasePlan(ids, keep), !.after = after,
                   !.todo = {k \in DOMAIN days : /\ ~BeyondHorizon(days[k])
                                                 /\ \A m \in keep : m[1] # k}]]

CreateRoutine(p) ==
    /\ Ask(p) /\ rt.status = "none" /\ \A q \in Apps : proc[q].pc = "idle"
    /\ \E freq \in Cadences, first \in Firsts, count \in SessionCounts :
         LET planned == Ascending(PlanDays(freq, first, count, OpenDaysOf))
         IN /\ first >= day /\ Len(planned) = count
            /\ \E pick \in Picks(planned) :
                 LET days == WithPick(planned, pick)
                 IN /\ PicksFit(days, {}) /\ AllFree(days, {})
                    /\ Begin(p, "create", <<>>, days, {}, [freq |-> freq, anchor |-> planned[1]])
    /\ UNCHANGED <<day, rt, sess, rv, taken>>

Extend(p) ==
    /\ Manage(p, "EXTEND") /\ sess # <<>>
    /\ \E count \in 1 .. (MAX_FUTURE_SESSIONS - Cardinality(Future)) :
         LET last == Latest({DayOf(s) : s \in DOMAIN sess})
             days == Ascending(ContinueDays(rt.freq, rt.anchor, last, count, OpenDaysOf))
         IN /\ Len(days) = count /\ AllFree(days, {})
            /\ Begin(p, "extend", <<>>, days, {}, [offset |-> Len(sess)])
    /\ UNCHANGED <<day, rt, sess, rv, taken>>

\* move(): the movable sessions on their new days, the count kept.
Move(p, kind, from, newFreq, after) ==
    LET ids == Ascending(Movable)
        planned == Ascending(ResumeDays(rt.freq, rt.anchor, newFreq,
                                        {DayOf(s) : s \in Movable}, from, OpenDaysOf))
        keep == KeepPlan(ids, planned)
    IN /\ Len(planned) = Len(ids)
       /\ PicksFit(planned, StayingDays)
       /\ AllFree(planned, {m[1] : m \in keep})
       /\ Begin(p, kind, ids, planned, keep,
                IF newFreq # "" /\ newFreq # rt.freq /\ planned # <<>>
                THEN [after EXCEPT !.anchor = planned[1]] ELSE after)

Pause(p) ==
    /\ Manage(p, "PAUSE")
    /\ \E until \in (day + 1) .. (day + PAUSE_MAX_DAYS) :
         Move(p, "pause", PauseFrom(until), "",
              [rt EXCEPT !.status = "paused", !.until = until])
    /\ UNCHANGED <<day, rt, sess, rv, taken>>

ResumeRoutine(p) ==
    /\ Manage(p, "RESUME")
    /\ \E freq \in {""} \cup Cadences :
         Move(p, "resume", ResumeFrom, freq,
              [rt EXCEPT !.status = "active", !.until = 0,
                         !.freq = IF freq = "" THEN @ ELSE freq])
    /\ UNCHANGED <<day, rt, sess, rv, taken>>

SkipSession(p, s) ==
    /\ Manage(p, "SKIP") /\ Changeable(s)
    /\ proc' = [proc EXCEPT ![p] = [Idle EXCEPT !.pc = IF sess[s].bk = 0 THEN "mark" ELSE "skip",
                                                !.ids = <<s>>, !.drop = {sess[s].bk} \ {0}]]
    /\ UNCHANGED <<day, rt, sess, rv, taken>>

\* RESCHEDULE: a session with nothing booked is booked at the new time, any
\* other is moved.
RescheduleSession(p, s, d) ==
    /\ Manage(p, "RESCHEDULE") /\ Changeable(s)
    /\ d > day /\ ~BeyondHorizon(d)
    /\ \A u \in DOMAIN sess : u # s /\ Bucket(u) \in {"remaining", "done"} => DayOf(u) # d
    /\ IF sess[s].bk = 0
       THEN SlotFree(d) /\ Begin(p, "link", <<s>>, <<d>>, {}, <<>>)
       ELSE proc' = [proc EXCEPT ![p] = [Idle EXCEPT !.pc = "move", !.ids = <<s>>, !.days = <<d>>,
                                                     !.keep = {<<1, sess[s].bk>>}]]
    /\ UNCHANGED <<day, rt, sess, rv, taken>>

\* CANCEL: while a session is still to come.
CancelRoutine(p) ==
    /\ Ask(p) /\ rt.status \in {"active", "paused"} /\ Future # {}
    /\ proc' = [proc EXCEPT ![p] =
         [Idle EXCEPT !.pc = "cancel", !.drop = {sess[s].bk : s \in Future} \ {0},
                      !.due = {s \in Future : sess[s].bk = 0}]]
    /\ UNCHANGED <<day, rt, sess, rv, taken>>

-----------------------------------------------------------------------------
(* All or nothing: bookAll, the write, and the release *)

Lowest(S) == CHOOSE x \in S : \A y \in S : x <= y
Made(p) == {m[2] : m \in proc[p].made}
BookingAt(p, k) ==
    LET m == {x \in proc[p].keep \cup proc[p].made : x[1] = k}
    IN IF m = {} THEN 0 ELSE (CHOOSE x \in m : TRUE)[2]

\* A far visit that failed leaves its job to the next one.
AfterFailure(p) == IF proc[p].due = {} THEN Idle
                   ELSE [Idle EXCEPT !.pc = "far", !.due = proc[p].due]

KeepingWhatWasMade(p) == AfterFailure(p) \* mutant
\* What a failed request gives back: everything it made.
GivingBack(p) ==
    IF Made(p) = {} THEN AfterFailure(p)
    ELSE [AfterFailure(p) EXCEPT !.pc = "release", !.drop = Made(p)]

\* single.execute: hold and confirm, or the slot is gone.
BookNext(p) ==
    LET k == Lowest(proc[p].todo)
    IN /\ proc[p].pc = "book" /\ proc[p].todo # {}
       /\ SlotFree(proc[p].days[k]) /\ Len(rv) < MaxVisits
       /\ rv' = Append(rv, [day |-> proc[p].days[k], status |-> "booked"])
       /\ proc' = [proc EXCEPT ![p].todo = @ \ {k}, ![p].made = @ \cup {<<k, Len(rv) + 1>>}]
       /\ UNCHANGED <<day, rt, sess, taken, asked>>

\* The slot was taken since the check, or the create was refused.
BookFails(p) ==
    /\ proc[p].pc = "book" /\ proc[p].todo # {}
    /\ proc' = [proc EXCEPT ![p] = GivingBack(p)]
    /\ UNCHANGED <<day, rt, sess, rv, taken, asked>>

Row(p, k) == [day |-> proc[p].days[k], bk |-> BookingAt(p, k),
              state |-> IF BookingAt(p, k) = 0 THEN "planned" ELSE "materialised"]
Rows(p) == [k \in DOMAIN proc[p].days |-> Row(p, k)]

Ready(p, kinds) == proc[p].pc = "book" /\ proc[p].todo = {} /\ proc[p].kind \in kinds

\* create().
SaveNew(p) ==
    /\ Ready(p, {"create"})
    /\ rt' = [rt EXCEPT !.status = "active", !.freq = proc[p].after.freq,
                        !.anchor = proc[p].after.anchor]
    /\ sess' = Rows(p)
    /\ proc' = [proc EXCEPT ![p] = Idle]
    /\ UNCHANGED <<day, rv, taken, asked>>

\* appendSessions(): the ordinal is unique, so a second EXTEND that read the
\* same last index throws.
SaveMore(p) ==
    /\ Ready(p, {"extend"}) /\ proc[p].after.offset = Len(sess)
    /\ sess' = sess \o Rows(p)
    /\ proc' = [proc EXCEPT ![p] = Idle]
    /\ UNCHANGED <<day, rt, rv, taken, asked>>

\* moveSessions(): only if the routine still has the status it was read
\* with; every moved row is overwritten.  Then the old bookings go.
SaveMove(p) ==
    /\ Ready(p, {"pause", "resume"})
    /\ rt.status = IF proc[p].kind = "pause" THEN "active" ELSE "paused"
    /\ rt' = [proc[p].after EXCEPT !.missAfter = rt.missAfter]
    /\ sess' = [s \in DOMAIN sess |->
                  IF \E k \in DOMAIN proc[p].ids : proc[p].ids[k] = s
                  THEN Row(p, CHOOSE k \in DOMAIN proc[p].ids : proc[p].ids[k] = s)
                  ELSE sess[s]]
    /\ proc' = [proc EXCEPT ![p] = IF proc[p].drop = {} THEN Idle
                                   ELSE [Idle EXCEPT !.pc = "release", !.drop = proc[p].drop]]
    /\ UNCHANGED <<day, rv, taken, asked>>

\* linkSession(): only if nothing is booked for it still.
SaveLink(p) ==
    LET s == proc[p].ids[1]
    IN /\ Ready(p, {"link"})
       /\ sess[s].bk = 0 /\ sess[s].state \in {"planned", "needs_attention"}
       /\ sess' = [sess EXCEPT ![s] = Row(p, 1)]
       /\ proc' = [proc EXCEPT ![p] = AfterFailure(p)]
       /\ UNCHANGED <<day, rt, rv, taken, asked>>

\* The write found the routine or the session changed, or threw.
SaveFails(p) ==
    /\ proc[p].pc = "book" /\ proc[p].todo = {}
    /\ proc' = [proc EXCEPT ![p] = GivingBack(p)]
    /\ UNCHANGED <<day, rt, sess, rv, taken, asked>>

\* lifecycle.transition to cancelled: refused once the visit is over.
CalledOff(b) == [rv EXCEPT ![b].status = IF @ = "booked" THEN "cancelled" ELSE @]

\* release(), the newest first; a refusal is logged and passed over.
ReleaseNext(p) ==
    LET b == Latest(proc[p].drop)
    IN /\ proc[p].pc = "release"
       /\ rv' = CalledOff(b)
       /\ proc' = [proc EXCEPT ![p] = IF proc[p].drop # {b} THEN [@ EXCEPT !.drop = proc[p].drop \ {b}]
                                      ELSE AfterFailure(p)]
       /\ UNCHANGED <<day, rt, sess, taken, asked>>

\* skipOne(): the booking is cancelled, or the request refused.
SkipCancel(p) ==
    LET b == Latest(proc[p].drop)
    IN /\ proc[p].pc = "skip"
       /\ rv' = CalledOff(b)
       /\ proc' = [proc EXCEPT ![p] = IF rv[b].status = "booked"
                                      THEN [@ EXCEPT !.pc = "mark", !.drop = {}] ELSE Idle]
       /\ UNCHANGED <<day, rt, sess, taken, asked>>

SkipMark(p) ==
    /\ proc[p].pc = "mark"
    /\ sess' = [sess EXCEPT ![proc[p].ids[1]].state = "skipped", ![proc[p].ids[1]].bk = 0]
    /\ proc' = [proc EXCEPT ![p] = Idle]
    /\ UNCHANGED <<day, rt, rv, taken, asked>>

\* The hold on the new slot and the move onto it.
MoveVisit(p) ==
    LET b == BookingAt(p, 1)
    IN /\ proc[p].pc = "move"
       /\ IF SlotFree(proc[p].days[1]) /\ rv[b].status = "booked"
          THEN /\ rv' = [rv EXCEPT ![b].day = proc[p].days[1]]
               /\ proc' = [proc EXCEPT ![p].pc = "moved"]
          ELSE UNCHANGED rv /\ proc' = [proc EXCEPT ![p] = Idle]
       /\ UNCHANGED <<day, rt, sess, taken, asked>>

MoveMark(p) ==
    /\ proc[p].pc = "moved"
    /\ sess' = [sess EXCEPT ![proc[p].ids[1]].day = proc[p].days[1]]
    /\ proc' = [proc EXCEPT ![p] = Idle]
    /\ UNCHANGED <<day, rt, rv, taken, asked>>

\* CANCEL: one booking after the other, then endByCustomer().
CancelNext(p) ==
    LET b == Lowest(proc[p].drop)
    IN /\ proc[p].pc = "cancel" /\ proc[p].drop # {}
       /\ rv' = CalledOff(b)
       /\ proc' = [proc EXCEPT ![p].drop = @ \ {b}]
       /\ UNCHANGED <<day, rt, sess, taken, asked>>

EndByCustomer(p) ==
    /\ proc[p].pc = "cancel" /\ proc[p].drop = {}
    /\ IF rt.status \in {"active", "paused"}
       THEN /\ rt' = [rt EXCEPT !.status = "ended"]
            /\ sess' = [s \in DOMAIN sess |->
                          IF s \in proc[p].due /\ sess[s].bk = 0
                          THEN [sess[s] EXCEPT !.state = "skipped"] ELSE sess[s]]
       ELSE UNCHANGED <<rt, sess>>
    /\ proc' = [proc EXCEPT ![p] = Idle]
    /\ UNCHANGED <<day, rv, taken, asked>>

-----------------------------------------------------------------------------
(* The hourly job *)

\* openRoutines(), and the pause whose date has come.
JobLooks(j) ==
    /\ proc[j].pc = "idle" /\ rt.status \in {"active", "paused"}
    /\ proc' = [proc EXCEPT ![j].pc = IF ResumeDue(rt.status, rt.until) THEN "resume" ELSE "facts"]
    /\ UNCHANGED <<day, rt, sess, rv, taken, asked>>

\* resumeByJob(): claimed in one update.
JobResumes(j) ==
    /\ proc[j].pc = "resume"
    /\ rt' = IF ResumeDue(rt.status, rt.until)
             THEN [rt EXCEPT !.status = "active", !.until = 0] ELSE rt
    /\ proc' = [proc EXCEPT ![j].pc = "facts"]
    /\ UNCHANGED <<day, sess, rv, taken, asked>>

\* factsForJob(): what this pass is about to do.
JobReads(j) ==
    LET due == {s \in DOMAIN sess : HorizonDue(s)}
        misses == LastMisses(rt.missAfter)
        booked == {s \in Movable : sess[s].bk # 0}
    IN /\ proc[j].pc = "facts"
       /\ proc' = [proc EXCEPT ![j] =
            IF AllClosed THEN [Idle EXCEPT !.pc = "complete"]
            ELSE IF rt.status # "active" THEN Idle
            ELSE IF PauseDue(rt.missAfter)
            THEN [Idle EXCEPT !.pc = "pause", !.due = due, !.after = Latest({DayOf(s) : s \in misses}),
                              !.keep = {<<s, sess[s].bk>> : s \in booked}]
            ELSE IF due = {} THEN Idle ELSE [Idle EXCEPT !.pc = "far", !.due = due]]
       /\ UNCHANGED <<day, rt, sess, rv, taken, asked>>

\* completeByJob().
JobCompletes(j) ==
    /\ proc[j].pc = "complete"
    /\ rt' = IF rt.status \in {"active", "paused"} THEN [rt EXCEPT !.status = "completed"] ELSE rt
    /\ proc' = [proc EXCEPT ![j] = Idle]
    /\ UNCHANGED <<day, sess, rv, taken, asked>>

\* What pauseForMisses() writes: the misses it counted are used up.
PausedForMisses(last) == [rt EXCEPT !.status = "paused", !.until = 0, !.missAfter = last]

\* pauseForMisses(): claimed; the copy that lost goes on to the far visits.
JobPauses(j) ==
    /\ proc[j].pc = "pause"
    /\ IF rt.status = "active"
       THEN /\ rt' = PausedForMisses(proc[j].after)
            /\ proc' = [proc EXCEPT ![j] = IF proc[j].keep = {} THEN Idle
                                           ELSE [Idle EXCEPT !.pc = "drop", !.keep = proc[j].keep]]
       ELSE /\ UNCHANGED rt
            /\ proc' = [proc EXCEPT ![j] = IF proc[j].due = {} THEN Idle
                                           ELSE [Idle EXCEPT !.pc = "far", !.due = proc[j].due]]
    /\ UNCHANGED <<day, sess, rv, taken, asked>>

\* Every visit outside the lock is released: cancelled, then unlinked.
JobDrops(j) ==
    LET m == CHOOSE x \in proc[j].keep : \A y \in proc[j].keep : x[1] <= y[1]
        rest == proc[j].keep \ {m}
    IN /\ proc[j].pc = "drop"
       /\ rv' = CalledOff(m[2])
       /\ proc' = [proc EXCEPT ![j] =
            IF rv[m[2]].status = "booked" THEN [@ EXCEPT !.pc = "unlink", !.ids = <<m[1]>>, !.keep = rest]
            ELSE IF rest = {} THEN Idle ELSE [@ EXCEPT !.keep = rest]]
       /\ UNCHANGED <<day, rt, sess, taken, asked>>

JobUnlinks(j) ==
    /\ proc[j].pc = "unlink"
    /\ sess' = [sess EXCEPT ![proc[j].ids[1]].state = "planned", ![proc[j].ids[1]].bk = 0]
    /\ proc' = [proc EXCEPT ![j] = IF proc[j].keep = {} THEN Idle
                                   ELSE [@ EXCEPT !.pc = "drop", !.ids = <<>>]]
    /\ UNCHANGED <<day, rt, rv, taken, asked>>

\* What claimPlanned() asks of the row.
Claimable(s) == sess[s].state = "planned" /\ sess[s].bk = 0

\* bookFarVisits(): the visit is claimed, then booked at its own slot.
JobClaims(j) ==
    LET s == Lowest(proc[j].due)
        rest == proc[j].due \ {s}
    IN /\ proc[j].pc = "far"
       /\ IF Claimable(s)
          THEN /\ sess' = [sess EXCEPT ![s].state = "needs_attention"]
               /\ proc' = [proc EXCEPT ![j] =
                    [Idle EXCEPT !.pc = "book", !.kind = "link", !.ids = <<s>>,
                                 !.days = <<sess[s].day>>, !.todo = {1}, !.due = rest]]
          ELSE /\ UNCHANGED sess
               /\ proc' = [proc EXCEPT ![j] = IF rest = {} THEN Idle ELSE [@ EXCEPT !.due = rest]]
       /\ UNCHANGED <<day, rt, rv, taken, asked>>

-----------------------------------------------------------------------------
(* The salon *)

VisitOver(v, to) ==
    /\ rv[v].status = "booked"
    /\ to \in {"visited", "missed"} => rv[v].day <= day
    /\ rv' = [rv EXCEPT ![v].status = to]
    /\ UNCHANGED <<day, rt, sess, taken, proc, asked>>

SlotTaken(d) ==
    /\ SlotFree(d) /\ Cardinality(taken) < MaxTaken
    /\ taken' = taken \cup {d}
    /\ UNCHANGED <<day, rt, sess, rv, proc, asked>>

NextDay == day < RoutineEnd /\ day' = day + 1 /\ UNCHANGED routineVars

-----------------------------------------------------------------------------
(* Properties *)

\* Every booking that stands for a routine is the booking of exactly one of
\* its sessions, or in the hands of a request that will save it or give it
\* back: all or nothing, and the copies of the job never book a visit twice.
VisitsAreAccountedFor ==
    \A v \in DOMAIN rv : rv[v].status = "booked" =>
      \/ Cardinality({s \in DOMAIN sess : sess[s].bk = v}) = 1
      \/ \E p \in Procs : v \in Made(p) \cup proc[p].drop

\* Two sessions of a routine that did or will happen are never on one day,
\* whatever was paused, resumed, extended and rescheduled before.
NoTwoVisitsADay ==
    \A s, u \in DOMAIN sess :
      s # u /\ {Bucket(s), Bucket(u)} \subseteq {"remaining", "done"} => DayOf(s) # DayOf(u)
=============================================================================
