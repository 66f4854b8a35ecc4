------------------------------- MODULE MCHolds -------------------------------
(* A small branch: two professionals, one colour chair and two wash chairs.  *)
EXTENDS Holds, TLC

CONSTANTS maya, noor, wash, colour

Demand(t, f, u) == [type |-> t, from |-> f, to |-> u]

\* Two overlapping visits to maya, and one to noor that wants the only colour
\* chair at the same minute as the first but fits beside the second.
MCBaskets ==
    {[staff |-> maya, from |-> 0, to |-> 2,
      demand |-> {Demand(wash, 0, 1), Demand(colour, 1, 2)}],
     [staff |-> maya, from |-> 1, to |-> 3, demand |-> {Demand(wash, 2, 3)}],
     [staff |-> noor, from |-> 1, to |-> 3,
      demand |-> {Demand(colour, 1, 2), Demand(wash, 2, 3)}]}

\* Two visits that need chairs of the same two types, in opposite order.
CrossedChairs == {b \in MCBaskets : Cardinality(b.demand) = 2}

MCTypes   == {wash, colour}
MCUnits   == [t \in MCTypes |-> IF t = colour THEN 1 ELSE 2]
MCSortKey == [t \in MCTypes |-> IF t = colour THEN 0 ELSE 1]

Symmetry == Permutations(Clients) \cup Permutations(HoldIds)
              \cup Permutations(BookingIds)
=============================================================================
