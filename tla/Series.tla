------------------------------- MODULE Series -------------------------------
(***************************************************************************)
(* A standing series of the desk: its row and its occurrences, the runs of *)
(* the materialiser (the nightly job and the desk's button) that turn      *)
(* planned days into bookings, and the desk that pauses, ends, resumes,    *)
(* skips and edits it.  Time is counted in trading days; a visit of today  *)
(* has not begun yet.                                                      *)
(*                                                                         *)
(* Sources: series.handler.ts, materialise-series.handler.ts,              *)
(* series.repository.ts, series-materialiser.service.ts, series-edit.ts.   *)
(***************************************************************************)
EXTENDS Recurrence, Ladders

CONSTANTS
    SeriesHorizon,    \* SERIES_HORIZON_DAYS
    BookingHorizon,   \* BOOKING_HORIZON_DAYS
    Protection,       \* CANCELLATION_PROTECTION_HOURS, in days
    WriteAttempts,    \* MAX_WRITE_ATTEMPTS
    Pros,             \* professionals, numbered; 1 is the preferred one
    SeriesStarts,     \* the starts of a day
    Works,            \* <<professional, start>> the roster allows
    SeriesDefs,       \* definitions a series may be created with
    SeriesPatterns,   \* patterns an edit may choose
    ShutDays,         \* days the branch is closed
    Runs,             \* copies of the materialiser: "night" is the cron's
    LastDay,          \* bound: the last day of the model
    MaxOccurrences,   \* bound on occurrence rows
    MaxSeriesVisits,  \* bound on bookings
    MaxRivals,        \* bound on other people's bookings
    MaxEdits          \* bound on the desk's requests

\* A definition has the day it is anchored on.
ASSUME SeriesAssumption ==
    /\ SeriesHorizon \in Nat
    /\ \A def \in SeriesDefs : "anchor" \in DOMAIN def /\ def.anchor \in Int

VARIABLES
    today,    \* the branch's trading day
    line,     \* the booking_series row
    occ,      \* series_occurrence rows in insertion order; "gone" when deleted
    seat,     \* bookings made for the series, with their reservations
    rival,    \* other reservations of the professionals
    run,      \* the materialiser's copies
    editor    \* the desk's request under way

seriesVars == <<line, occ, seat, rival, run, editor>>

STARTED == {"checked_in"}
CLOSED == {"cancelled", "rescheduled"}
Blocking(b) == b.status \notin CLOSED
Slots == [start : SeriesStarts, staff : Pros]

IdleRun == [pc |-> "idle", day |-> 0, def |-> <<>>, work |-> {},
            found |-> {}, rejected |-> {}, considered |-> {}]
IdleDesk == [pc |-> "idle", kind |-> "", ids |-> {}, plan |-> <<>>, used |-> 0]

SeriesInit ==
    /\ today = 0
    /\ line = [status |-> "none", def |-> <<>>, start |-> 0, through |-> 0]
    /\ occ = <<>> /\ seat = <<>> /\ rival = {}
    /\ run = [r \in Runs |-> IdleRun]
    /\ editor = IdleDesk

-----------------------------------------------------------------------------
(* Rows *)

PlannedRow(index, day, start) ==
    [index |-> index, day |-> day, start |-> start, state |-> "planned", bk |-> 0, alts |-> {}]

\* One row per produced day, by ordinal.
PlannedRows(expansion, start) == {PlannedRow(e.index, e.day, start) : e \in expansion}

\* createMany, behind the rows there are.
Inserted(stored, rows) == stored \o SetToSeq(rows)

Kept == {o \in DOMAIN occ : occ[o].state # "gone"}

\* skipDuplicates: an ordinal that is stored stays as it is.
NewRows(rows) == {r \in rows : \A o \in Kept : occ[o].index # r.index}

\* create(): the series and a row for every day of it, in one transaction.
Created(def, start, expansion) ==
    /\ line' = [status |-> "active", def |-> def, start |-> start,
                through |-> def.anchor + SeriesHorizon]
    /\ occ' = Inserted(<<>>, PlannedRows(expansion, start))

\* CreateSeriesHandler.execute: a pattern without a visit is refused.
CreateSeries ==
    /\ line.status = "none"
    /\ \E def \in SeriesDefs, start \in SeriesStarts :
         LET expansion == ExpandSeries(def, def.anchor, SeriesHorizon)
         IN  expansion # {} /\ Created(def, start, expansion)
    /\ UNCHANGED <<today, seat, rival, run, editor>>

-----------------------------------------------------------------------------
(* The materialiser *)

\* dueForTopUp(): what the nightly job selects.
Due == line.status = "active" /\ line.through < today

\* The night's job starts on a due series, the button on any; both load the
\* row and its definition, and stop when it is not active.
RunLoad(r) ==
    /\ run[r].pc = "idle" /\ line.status = "active"
    /\ r = "night" => Due
    /\ run' = [run EXCEPT ![r] = [IdleRun EXCEPT !.pc = "topUp", !.day = today,
                                                 !.def = <<line.def, line.start>>]]
    /\ UNCHANGED <<today, line, occ, seat, rival, editor>>

\* expandSeries from today, and topUp().
RunTopUp(r) ==
    LET def == run[r].def[1]
        expansion == ExpandSeries(def, run[r].day, SeriesHorizon)
        rows == NewRows(PlannedRows(expansion, run[r].def[2]))
    IN /\ run[r].pc = "topUp"
       /\ Len(occ) + Cardinality(rows) <= MaxOccurrences
       /\ occ' = Inserted(occ, rows)
       /\ line' = [line EXCEPT !.through = run[r].day + SeriesHorizon]
       /\ run' = [run EXCEPT ![r].pc = "list"]
       /\ UNCHANGED <<today, seat, rival, editor>>

\* plannedWithin(): the rows as they are when they are listed.
Listed(o) == [id |-> o, index |-> occ[o].index, day |-> occ[o].day, start |-> occ[o].start]

RunList(r) ==
    LET found == {o \in DOMAIN occ : /\ occ[o].state = "planned"
                                     /\ occ[o].day <= run[r].day + BookingHorizon}
    IN /\ run[r].pc = "list"
       /\ run' = [run EXCEPT ![r] =
                     [@ EXCEPT !.pc = IF found = {} THEN "done" ELSE "read",
                               !.work = {Listed(o) : o \in found}, !.considered = found]]
       /\ UNCHANGED <<today, line, occ, seat, rival, editor>>

\* The loop goes through its list by ordinal.
Turn(r) == {o \in run[r].work : \A p \in run[r].work : o.index <= p.index}

\* feasibleSet of the branch's day: what is booked at another branch is
\* not in it.
Free(day) ==
    {c \in Slots : /\ <<c.staff, c.start>> \in Works
                   /\ \A v \in rival : ~(v.here /\ v.day = day /\ v.slot = c)
                   /\ \A b \in DOMAIN seat : ~(/\ Blocking(seat[b]) /\ seat[b].day = day
                                               /\ seat[b].start = c.start
                                               /\ seat[b].staff = c.staff)}

\* The exclusion constraint: on the professional and the time, no branch.
Taken(day, c) ==
    \/ \E v \in rival : v.day = day /\ v.slot = c
    \/ \E b \in DOMAIN seat : /\ Blocking(seat[b]) /\ seat[b].day = day
                              /\ seat[b].start = c.start /\ seat[b].staff = c.staff

\* candidatesFor(): a shut day and an unknown service have no candidates and
\* go straight to a human (the write step marks them).
RunRead(r) ==
    /\ run[r].pc = "read"
    /\ \E o \in Turn(r) : \E found \in {IF o.day \in ShutDays THEN {} ELSE Free(o.day), {}} :
         run' = [run EXCEPT ![r] = [@ EXCEPT !.pc = "write", !.found = found, !.rejected = {}]]
    /\ UNCHANGED <<today, line, occ, seat, rival, editor>>

Usable(r) == run[r].found \ run[r].rejected

\* The next occurrence of the list, or the end of the run.
Onward(r, o) ==
    [run[r] EXCEPT !.pc = IF run[r].work = {o} THEN "done" ELSE "read",
                   !.work = @ \ {o}, !.found = {}, !.rejected = {}]

\* markNeedsAttention(): unconditional on the row's state.
NeedsAttention(r, o, alternatives) ==
    /\ occ' = [occ EXCEPT ![o.id] = [@ EXCEPT !.state = "needs_attention", !.bk = 0,
                                              !.alts = alternatives]]
    /\ run' = [run EXCEPT ![r] = Onward(r, o)]
    /\ UNCHANGED seat

\* materialise(): the booking, its reservations and the occurrence, in one
\* transaction.
Materialise(r, o, c) ==
    /\ Len(seat) < MaxSeriesVisits
    /\ seat' = Append(seat, [day |-> o.day, start |-> c.start, staff |-> c.staff,
                             status |-> "open"])
    /\ occ' = [occ EXCEPT ![o.id] = [@ EXCEPT !.state = "materialised", !.bk = Len(seat) + 1,
                                              !.day = o.day, !.start = c.start, !.alts = {}]]
    /\ run' = [run EXCEPT ![r] = Onward(r, o)]

RacedStaysPlanned(r, o, c) == \* mutant
    /\ run' = [run EXCEPT ![r] = Onward(r, o)]
    /\ UNCHANGED <<occ, seat>>
\* A refused write drops the candidate and the ladder runs again.
Raced(r, o, c) ==
    /\ run' = [run EXCEPT ![r].rejected = @ \cup {c}]
    /\ UNCHANGED <<occ, seat>>

\* seat() and attempt(): the ladder and one write.
Attempt(r, o) ==
    LET decision == RepairOccurrence(Usable(r), o.start, 1)
        c == CHOOSE x \in decision.offers : TRUE
    IN IF Cardinality(run[r].rejected) = WriteAttempts
       THEN NeedsAttention(r, o, NearestAlternatives(Usable(r), o.start, 1))
       ELSE IF decision.kind = "needs_attention"
       THEN NeedsAttention(r, o, decision.offers)
       ELSE IF Taken(o.day, c) THEN Raced(r, o, c) ELSE Materialise(r, o, c)

RunWrite(r) ==
    /\ run[r].pc = "write"
    /\ \E o \in Turn(r) : occ[o.id].state # "gone" /\ Attempt(r, o)
    /\ UNCHANGED <<today, line, rival, editor>>

\* The row was deleted by an edit: the update throws and the run is over.
RunThrows(r) ==
    /\ run[r].pc = "write" /\ \E o \in Turn(r) : occ[o.id].state = "gone"
    /\ run' = [run EXCEPT ![r] = IdleRun]
    /\ UNCHANGED <<today, line, occ, seat, rival, editor>>

RunEnds(r) ==
    /\ run[r].pc = "done"
    /\ run' = [run EXCEPT ![r] = IdleRun]
    /\ UNCHANGED <<today, line, occ, seat, rival, editor>>

-----------------------------------------------------------------------------
(* The desk *)

\* statusOfOccurrence(): the occurrence's state outranks the booking's.
StatusOf(o) ==
    CASE occ[o].state = "skipped" -> "skipped"
      [] occ[o].state = "detached" -> "cancelled"
      [] occ[o].bk # 0 -> seat[occ[o].bk].status
      [] OTHER -> "draft"

Started(o) == StatusOf(o) \in STARTED
Closed(o) == StatusOf(o) \in CLOSED \cup {"skipped"}

\* planPauseOrEnd(): the visits beyond the protection window.
PlanPauseOrEnd ==
    {o \in Kept : ~Started(o) /\ ~Closed(o) /\ occ[o].day >= today + Protection}

Editable(o) == ~Started(o) /\ ~Closed(o)

\* planEdit(): what a scope reaches and may still change.
PlanEdit(scope, target) ==
    LET LaterOrSame(o) == \/ occ[o].day > occ[target].day
                          \/ occ[o].day = occ[target].day /\ occ[o].start >= occ[target].start
        reach == CASE scope = "this_occurrence" -> {target}
                   [] scope = "this_and_future" -> {o \in Kept : LaterOrSame(o)}
                   [] scope = "entire_series" -> Kept
    IN {o \in reach : Editable(o)}

Request(pc, kind, ids, plan) ==
    editor' = [pc |-> pc, kind |-> kind, ids |-> ids,
               plan |-> plan, used |-> editor.used + 1]

\* pauseOrEnd(): the timeline is read, whatever the series' status.
PauseOrEnd(to) ==
    /\ editor.pc = "idle" /\ editor.used < MaxEdits /\ line.status # "none"
    /\ Request("cancel", to, PlanPauseOrEnd, <<>>)
    /\ UNCHANGED <<today, line, occ, seat, rival, run>>

Skip(o) ==
    /\ editor.pc = "idle" /\ editor.used < MaxEdits /\ o \in Kept
    /\ Request("cancel", "skip", {o}, <<>>)
    /\ UNCHANGED <<today, line, occ, seat, rival, run>>

\* resume(): refused on an ended series.
Resume ==
    /\ editor.pc = "idle" /\ editor.used < MaxEdits
    /\ line.status \notin {"none", "ended"}
    /\ Request("status", "active", {}, <<>>)
    /\ UNCHANGED <<today, line, occ, seat, rival, run>>

\* applyPattern(): definition and timeline are read, the plan made, the new
\* cadence expanded.
ApplyPattern(scope, o, pattern) ==
    LET def == [line.def EXCEPT !.pattern = pattern,
                                !.anchor = IF scope = "this_and_future" THEN occ[o].day ELSE @]
        expansion == ExpandSeries(def, def.anchor, SeriesHorizon)
    IN /\ editor.pc = "idle" /\ editor.used < MaxEdits /\ o \in Kept
       /\ IF scope = "this_occurrence"
          THEN Request("detach", scope, {o}, <<>>)
          ELSE /\ expansion # {}
               /\ Request("rewrite", scope, PlanEdit(scope, o),
                          <<def, PlannedRows(expansion, line.start)>>)
       /\ UNCHANGED <<today, line, occ, seat, rival, run>>

\* The bookings behind a set of occurrences give their slots back.
Released(ids, status) ==
    [b \in DOMAIN seat |-> IF \E o \in ids : occ[o].bk = b
                           THEN [seat[b] EXCEPT !.status = status] ELSE seat[b]]

\* What cancelOccurrences() leaves of an occurrence, and an edit that clears it.
Skipped(row) == [row EXCEPT !.state = "skipped", !.bk = 0, !.alts = {}]
Cleared(row) == [row EXCEPT !.state = "gone", !.bk = 0, !.alts = {}]

\* cancelOccurrences(): unconditional on the bookings' statuses.
CancelOccurrences ==
    LET ids == editor.ids \cap Kept
    IN /\ editor.pc = "cancel"
       /\ seat' = Released(ids, "cancelled")
       /\ occ' = [o \in DOMAIN occ |-> IF o \in ids THEN Skipped(occ[o]) ELSE occ[o]]
       /\ editor' = IF editor.kind = "skip" THEN [IdleDesk EXCEPT !.used = editor.used]
                    ELSE [editor EXCEPT !.pc = "status"]
       /\ UNCHANGED <<today, line, rival, run>>

SetStatus ==
    /\ editor.pc = "status"
    /\ line' = [line EXCEPT !.status = editor.kind]
    /\ editor' = [IdleDesk EXCEPT !.used = editor.used]
    /\ UNCHANGED <<today, occ, seat, rival, run>>

\* detachOccurrence(): it keeps its booking and leaves the pattern.
DetachOccurrence ==
    /\ editor.pc = "detach"
    /\ occ' = [o \in DOMAIN occ |-> IF o \in editor.ids \cap Kept
                                    THEN [occ[o] EXCEPT !.state = "detached", !.alts = {}]
                                    ELSE occ[o]]
    /\ editor' = [IdleDesk EXCEPT !.used = editor.used]
    /\ UNCHANGED <<today, line, seat, rival, run>>

\* The ordinals of new rows go on from a number, in the order of the days.
Renumbered(rows, from) ==
    {PlannedRow(from + Cardinality({r \in rows : r.day < row.day}), row.day, row.start) :
       row \in rows}

Highest(ids) ==
    LET indexes == {occ[o].index : o \in Kept \ ids}
    IN IF indexes = {} THEN -1 ELSE CHOOSE i \in indexes : \A j \in indexes : j <= i

KeepCleared(ids) == seat \* mutant
\* The bookings of the occurrences an edit clears.
ReleaseCleared(ids) == Released(ids, "rescheduled")

\* rewritePattern(): the cleared occurrences release their bookings and go,
\* the new ones continue the ordinal past the highest that survived.
RewritePattern ==
    LET ids == editor.ids \cap Kept
        rows == editor.plan[2]
        moved == [line.def EXCEPT !.pattern = editor.plan[1].pattern,
                                  !.anchor = IF editor.kind = "entire_series"
                                             THEN editor.plan[1].anchor ELSE @]
    IN /\ editor.pc = "rewrite" /\ Len(occ) + Cardinality(rows) <= MaxOccurrences
       /\ seat' = ReleaseCleared(ids)
       /\ occ' = Inserted([o \in DOMAIN occ |-> IF o \in ids THEN Cleared(occ[o]) ELSE occ[o]],
                          Renumbered(rows, Highest(ids) + 1))
       /\ line' = [line EXCEPT !.def = moved,
                               !.through = editor.plan[1].anchor + SeriesHorizon]
       /\ editor' = [IdleDesk EXCEPT !.used = editor.used]
       /\ UNCHANGED <<today, rival, run>>

-----------------------------------------------------------------------------
(* The rest of the diary *)

\* Somebody else books a professional, here or at another branch, or leaves.
RivalBooks ==
    \E day \in 0 .. LastDay, c \in Slots, here \in BOOLEAN :
      /\ Cardinality(rival) < MaxRivals
      /\ <<c.staff, c.start>> \in Works /\ ~Taken(day, c)
      /\ rival' = rival \cup {[day |-> day, slot |-> c, here |-> here]}
      /\ UNCHANGED <<today, line, occ, seat, run, editor>>

\* The ordinary lifecycle of a visit.
VisitMoves(b, to) ==
    /\ seat[b].status = "open"
    /\ to = "checked_in" => seat[b].day = today
    /\ seat' = [seat EXCEPT ![b].status = to]
    /\ UNCHANGED <<today, line, occ, rival, run, editor>>

DayPasses ==
    /\ today < LastDay /\ today' = today + 1
    /\ UNCHANGED seriesVars

-----------------------------------------------------------------------------
(* Properties *)

\* A run decides every visit it considered: when it ends, each one is in the
\* diary or with a human, however many writes were refused (a professional
\* booked at another branch is offered and refused every time).
RunsConverge ==
    \A r \in Runs : run[r].pc = "done" =>
      \A o \in run[r].considered : occ[o].state # "planned"

\* A visit in the diary belongs to one occurrence of the series: no edit,
\* pause or run leaves a booking nobody can see on the panel.
VisitsAreOnTheTimeline ==
    \A b \in DOMAIN seat : Blocking(seat[b]) =>
      \E o \in Kept : occ[o].bk = b

=============================================================================
