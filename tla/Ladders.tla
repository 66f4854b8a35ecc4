------------------------------ MODULE Ladders ------------------------------
(***************************************************************************)
(* What happens to a visit that no longer fits: the ladder of a standing   *)
(* series (domain/availability/series-ladder.ts) and the ladder of a       *)
(* roster change (domain/availability/disruption-ladder.ts).  A candidate  *)
(* is a start and a professional the availability engine found free;       *)
(* professionals are numbers in the order the engine lists them.           *)
(***************************************************************************)
EXTENDS Integers, FiniteSets, Sequences, SequencesExt

CONSTANTS
    ShiftSteps,        \* SHIFT_STEPS_MIN, nearest first
    DisruptionSteps,   \* DISRUPTION_SHIFT_STEPS_MIN
    Spacing,           \* OFFER_SPACING_MIN
    MaxAlternatives,   \* MAX_ALTERNATIVES
    PartOf(_)          \* partOfDay of a start

Distance(c, start) == IF c.start >= start THEN c.start - start ELSE start - c.start

\* By distance, then the incumbent, then the clock, then the list's order.
Nearer(a, b, start, incumbent) ==
    \/ Distance(a, start) < Distance(b, start)
    \/ /\ Distance(a, start) = Distance(b, start)
       /\ \/ a.staff = incumbent /\ b.staff # incumbent
          \/ /\ (a.staff = incumbent) = (b.staff = incumbent)
             /\ \/ a.start < b.start
                \/ a.start = b.start /\ a.staff < b.staff

FirstOf(S, start, incumbent) ==
    CHOOSE a \in S : \A b \in S \ {a} : Nearer(a, b, start, incumbent)

\* nearestAlternatives(): the nearest starts that are apart from each other.
NearestAlternatives(offers, start, incumbent) ==
    LET ordered == SetToSortSeq(offers, LAMBDA a, b : Nearer(a, b, start, incumbent))
        Take(c, chosen) ==
            IF \/ Cardinality(chosen) >= MaxAlternatives
               \/ \E o \in chosen : Distance(o, c.start) < Spacing
            THEN chosen ELSE chosen \cup {c}
    IN FoldLeft(LAMBDA chosen, c : Take(c, chosen), {}, ordered)

\* The candidates the first rung that holds chooses from.
SeriesRung(candidates, start, incumbent) ==
    LET At(n) == {c \in candidates : Distance(c, start) = n}
        steps == {i \in DOMAIN ShiftSteps : At(ShiftSteps[i]) # {}}
    IN IF At(0) # {} THEN At(0)
       ELSE IF steps # {} THEN At(ShiftSteps[CHOOSE i \in steps : \A j \in steps : i <= j])
       ELSE {}

\* repairOccurrence(), inside the booking horizon: the same minute with the
\* incumbent, the same minute with anybody, a small shift, or a human.
RepairOccurrence(candidates, start, incumbent) ==
    LET rung == SeriesRung(candidates, start, incumbent)
    IN IF rung = {}
       THEN [kind |-> "needs_attention",
             offers |-> NearestAlternatives(candidates, start, incumbent)]
       ELSE [kind |-> "repaired", offers |-> {FirstOf(rung, start, incumbent)}]

\* repairDisruption(): the departing professional is never a landing place.
RepairDisruption(candidates, start, departing) ==
    LET usable == {c \in candidates : c.staff # departing}
        At(n) == {c \in usable : Distance(c, start) = n}
        steps == {i \in DOMAIN DisruptionSteps : At(DisruptionSteps[i]) # {}}
        near == {c \in usable : PartOf(c.start) = PartOf(start)}
        rung == IF At(0) # {} THEN At(0)
                ELSE IF steps # {}
                THEN At(DisruptionSteps[CHOOSE i \in steps : \A j \in steps : i <= j])
                ELSE near
    IN IF rung = {} THEN [kind |-> "propose_cancellation", offers |-> {}]
       ELSE [kind |-> "repaired", offers |-> {FirstOf(rung, start, 0)}]
=============================================================================
