---------------------------- MODULE Recurrence ----------------------------
(***************************************************************************)
(* On which trading days a standing arrangement wants a visit: the desk's  *)
(* series (domain/booking/recurrence.ts) and the app's routines            *)
(* (domain/booking/mobile-series.ts).  A trading day is a number, day 0 a  *)
(* Sunday and the first of month 1; the calendar is the sequence of month  *)
(* lengths.                                                                *)
(***************************************************************************)
EXTENDS Integers, FiniteSets, Sequences, SequencesExt

CONSTANTS
    DaysPerWeek,     \* 7; the state machines scale a week down to one day
    MonthLengths,    \* days in each month of the calendar
    MaxCandidates    \* the runaway guard of an expansion

ASSUME RecurrenceAssumption ==
    /\ DaysPerWeek \in Nat \ {0}
    /\ MaxCandidates \in Nat
    /\ MonthLengths \in Seq(Nat \ {0})

-----------------------------------------------------------------------------
(* Calendar *)

WeekdayOf(d) == d % DaysPerWeek

FirstOfMonth[m \in 1 .. Len(MonthLengths) + 1] ==
    IF m = 1 THEN 0 ELSE FirstOfMonth[m - 1] + MonthLengths[m - 1]
MonthOf(d) == CHOOSE m \in DOMAIN MonthLengths :
                 FirstOfMonth[m] <= d /\ d < FirstOfMonth[m + 1]
DayOfMonth(d) == d - FirstOfMonth[MonthOf(d)] + 1
CalendarEnd == FirstOfMonth[Len(MonthLengths) + 1] - 1

\* The members of S in their order.
Ascending(S) ==
    [k \in 1 .. Cardinality(S) |-> CHOOSE d \in S : Cardinality({e \in S : e < d}) = k - 1]
FirstN(S, n) == {d \in S : Cardinality({e \in S : e < d}) < n}

-----------------------------------------------------------------------------
(* recurrence.ts *)

Never == [kind |-> "never", at |-> 0]

\* What a pattern asks of a day: a month that is too short has its last one.
FallsOn(p, anchor, d) ==
    LET Landed(m) == FirstOfMonth[m] - 1
                       + (IF p.at <= MonthLengths[m] THEN p.at ELSE MonthLengths[m])
    IN CASE p.kind = "weekly" -> WeekdayOf(d) \in p.days
         [] p.kind = "every_n_weeks" ->
              p.at >= 1 /\ (d - anchor) % (p.at * DaysPerWeek) = 0
         [] p.kind = "monthly_on_date" ->
              p.at \in 1 .. 31 /\ \E m \in DOMAIN MonthLengths : d = Landed(m)
         [] p.kind = "custom" -> d \in p.days

\* candidates(): the days a pattern produces from the anchor to `upto`.
Candidates(def, upto) == {d \in def.anchor .. upto : FallsOn(def.pattern, def.anchor, d)}

\* The ordinal is counted from the anchor, whatever the window.
Ordinal(def, d) == Cardinality({e \in Candidates(def, d) : e < d})

\* The end condition, checked before the horizon.
Ended(def, d) ==
    \/ Ordinal(def, d) >= MaxCandidates
    \/ def.end.kind = "after_count" /\ Ordinal(def, d) >= def.end.at
    \/ def.end.kind = "on_date" /\ d > def.end.at

\* The month was too short and the visit fell back to its last day.
MovedFrom(def, d) ==
    IF def.pattern.kind = "monthly_on_date" /\ DayOfMonth(d) # def.pattern.at
    THEN def.pattern.at ELSE 0

\* expandSeries(): walked from the anchor, returned from the window.
ExpandSeries(def, from, horizonDays) ==
    {[day |-> d, index |-> Ordinal(def, d), moved |-> MovedFrom(def, d)] :
       d \in {e \in Candidates(def, from + horizonDays) : ~Ended(def, e) /\ e >= from}}

-----------------------------------------------------------------------------
(* mobile-series.ts: the app's cadences *)

\* expand() of mobile-series.ts.
Cadenced(kind, at, anchor, count) ==
    LET def == [anchor |-> anchor, end |-> [kind |-> "after_count", at |-> count],
                pattern |-> [kind |-> kind, at |-> at, days |-> {}]]
    IN {o.day : o \in ExpandSeries(def, anchor, CalendarEnd - anchor)}

\* openDays(): DAILY skips the days the salon is shut.
OpenDays(from, count, open) == FirstN({d \in from .. CalendarEnd : d \in open}, count)

PlanDays(frequency, first, count, open) ==
    CASE frequency = "DAILY" -> OpenDays(first, count, open)
      [] frequency = "WEEKLY" -> Cadenced("every_n_weeks", 1, first, count)
      [] frequency = "EVERY_2_WEEKS" -> Cadenced("every_n_weeks", 2, first, count)
      [] frequency = "MONTHLY" -> Cadenced("monthly_on_date", DayOfMonth(first), first, count)

\* continueDays(): EXTEND, from the day after the last session.
ContinueDays(frequency, anchor, last, count, open) ==
    CASE frequency = "DAILY" -> OpenDays(last + 1, count, open)
      [] frequency = "WEEKLY" -> {last + DaysPerWeek * i : i \in 1 .. count}
      [] frequency = "EVERY_2_WEEKS" -> {last + 2 * DaysPerWeek * i : i \in 1 .. count}
      [] frequency = "MONTHLY" ->
           Cadenced("monthly_on_date", DayOfMonth(anchor), last + 1, count)

\* The first day on or after `from` that falls on the anchor's weekday.
SameWeekday(anchor, from) ==
    from + ((WeekdayOf(anchor) - WeekdayOf(from) + DaysPerWeek) % DaysPerWeek)

\* replanFrom(): the sessions still to come, planned again from a day on.
ReplanFrom(frequency, anchor, remaining, from, open) ==
    LET count == Cardinality(remaining)
        first == CHOOSE d \in remaining : \A e \in remaining : d <= e
        shift == IF from > first THEN from - first ELSE 0
    IN IF count = 0 THEN {} ELSE
       CASE frequency = "DAILY" -> OpenDays(from, count, open)
         [] frequency = "WEEKLY" ->
              Cadenced("every_n_weeks", 1, SameWeekday(anchor, from), count)
         [] frequency = "EVERY_2_WEEKS" ->
              Cadenced("every_n_weeks", 2, SameWeekday(anchor, from), count)
         [] frequency = "MONTHLY" ->
              Cadenced("monthly_on_date", DayOfMonth(anchor), from, count)
         [] frequency = "CUSTOM" -> {d + shift : d \in remaining}

\* resumeDays(): RESUME may switch the frequency; a switch between the two
\* weekly cadences keeps the weekday.
ResumeDays(frequency, anchor, newFrequency, remaining, from, open) ==
    LET switched == newFrequency # "" /\ newFrequency # frequency
        keepsWeekday == {frequency, newFrequency} = {"WEEKLY", "EVERY_2_WEEKS"}
    IN ReplanFrom(IF switched THEN newFrequency ELSE frequency,
                  IF switched /\ ~keepsWeekday THEN from ELSE anchor,
                  remaining, from, open)
=============================================================================
