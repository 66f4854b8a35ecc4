----------------------------- MODULE Compaction -----------------------------
(***************************************************************************)
(* The compaction planner: a day's unsellable gaps and the few consent     *)
(* moves that close them (domain/availability/compaction.ts).              *)
(*                                                                         *)
(* A diary is a set of [v, staff, start, end, movable] records, the        *)
(* bookings CompactionRepository.diaryFor() lists.                         *)
(***************************************************************************)
EXTENDS Availability

MAX_MOVE_MIN == 30
MAX_MOVES == 3
MIN_STRANDED_GAIN_MIN == 4
MAX_PRIOR_MOVES == 3

IsSliver(minutes) == minutes > 0 /\ minutes < MIN_SELLABLE_MIN

\* The gaps between consecutive bookings of one professional.
Slivers(diary) ==
    {g \in {[staff |-> a.staff, from |-> a.end, to |-> b.start] :
              <<a, b>> \in {x \in diary \X diary :
                  /\ x[1].staff = x[2].staff /\ x[1].start < x[2].start
                  /\ ~\E c \in diary : /\ c.staff = x[1].staff
                                       /\ x[1].start < c.start
                                       /\ c.start < x[2].start}} :
       IsSliver(g.to - g.from)}

StrandedMinutes(diary) ==
    FoldSet(LAMBDA g, n : n + g.to - g.from, 0, Slivers(diary))

Replace(diary, b, delta) ==
    {IF x.v = b.v THEN [x EXCEPT !.start = @ + delta, !.end = @ + delta] ELSE x :
       x \in diary}

OverlapsAnything(diary, b, delta) ==
    \E x \in diary : /\ x.v # b.v /\ x.staff = b.staff
                     /\ b.start + delta < x.end /\ x.start < b.end + delta

\* Pull the later booking earlier, or push the earlier one later: in steps
\* of a slot, never further than the gap.
Options(diary, gap) ==
    LET reach == IF gap.to - gap.from < MAX_MOVE_MIN THEN gap.to - gap.from
                 ELSE MAX_MOVE_MIN
        steps == {s \in 1 .. reach : s % SLOT_MIN = 0}
    IN {[b |-> b, delta |-> 0 - s, gap |-> gap, turn |-> 0] :
          b \in {x \in diary : x.staff = gap.staff /\ x.start = gap.to}, s \in steps}
       \cup
       {[b |-> b, delta |-> s, gap |-> gap, turn |-> 1] :
          b \in {x \in diary : x.staff = gap.staff /\ x.end = gap.from}, s \in steps}

Gain(diary, o) ==
    StrandedMinutes(diary) - StrandedMinutes(Replace(diary, o.b, o.delta))

\* Worth ringing a customer for, inside the day, on nobody's toes.
Worthwhile(diary, moved) ==
    {o \in UNION {Options(diary, g) : g \in Slivers(diary)} :
       /\ o.b.v \notin moved /\ o.b.movable
       /\ o.b.start + o.delta >= 0 /\ o.b.end + o.delta <= DayEnd
       /\ ~OverlapsAnything(diary, o.b, o.delta)
       /\ Gain(diary, o) > MIN_STRANDED_GAIN_MIN}

Size(delta) == IF delta < 0 THEN 0 - delta ELSE delta

\* The most gain, then the smallest move, then the gaps in time order.
BestMove(diary, options) ==
    LET key(o) == <<0 - Gain(diary, o), Size(o.delta), o.gap.from, o.gap.staff, o.turn>>
        sooner(k, l) == \E i \in DOMAIN k :
                          /\ k[i] < l[i]
                          /\ \A j \in 1 .. i - 1 : k[j] = l[j]
    IN CHOOSE o \in options : ~\E p \in options : sooner(key(p), key(o))

RECURSIVE PlanAtOnce(_, _, _)
PlanAtOnce(diary, moved, plan) ==                                    \* mutant
    LET options == Worthwhile(diary, moved) IN
    IF Len(plan) >= MAX_MOVES \/ options = {} THEN plan
    ELSE LET o == BestMove(diary, options) IN
         PlanAtOnce(diary, moved \cup {o.b.v},
                    Append(plan, [v |-> o.b.v, to |-> o.b.start + o.delta,
                                  gain |-> Gain(diary, o)]))

\* planCompaction(): greedy, measured again after every pick.
RECURSIVE PlanFrom(_, _, _)
PlanFrom(diary, moved, plan) ==
    LET options == Worthwhile(diary, moved) IN
    IF Len(plan) >= MAX_MOVES \/ options = {} THEN plan
    ELSE LET o == BestMove(diary, options) IN
         PlanFrom(Replace(diary, o.b, o.delta), moved \cup {o.b.v},
                  Append(plan, [v |-> o.b.v, to |-> o.b.start + o.delta,
                                gain |-> Gain(diary, o)]))

Plan(diary) == PlanFrom(diary, {}, <<>>)

-----------------------------------------------------------------------------
(* What a plan must be *)

\* The diary after the moves a plan proposes.
Carried(diary, plan) ==
    FoldLeft(LAMBDA d, m :
               {IF x.v = m.v
                THEN [x EXCEPT !.start = m.to, !.end = m.to + x.end - x.start]
                ELSE x : x \in d},
             diary, plan)

\* One conversation per customer at most, three in all, each about a booking
\* that may be moved and by half an hour at most; carried out together they
\* keep everybody apart and inside the day, and every call saves more than
\* four stranded minutes.
Sound(diary, plan) ==
    LET after == Carried(diary, plan) IN
    /\ Len(plan) <= MAX_MOVES
    /\ \A i, j \in DOMAIN plan : plan[i].v = plan[j].v => i = j
    /\ \A b \in diary, a \in after : b.v = a.v =>
         /\ b.start # a.start => b.movable /\ Size(a.start - b.start) <= MAX_MOVE_MIN
         /\ a.start >= 0 /\ a.end <= DayEnd
    /\ \A a, c \in after : a.staff = c.staff /\ a.v # c.v =>
         a.end <= c.start \/ c.end <= a.start
    /\ StrandedMinutes(diary) - StrandedMinutes(after)
         >= (MIN_STRANDED_GAIN_MIN + 1) * Len(plan)
=============================================================================
