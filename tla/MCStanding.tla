----------------------------- MODULE MCStanding -----------------------------
(* A week of two days.  A series of a few visits with two professionals,   *)
(* one of them at one start only; a routine of two or three sessions; two  *)
(* bookings and a roster change.  One scenario per pair of actors that     *)
(* race.                                                                   *)
EXTENDS Standing

CONSTANTS a1, j1, j2, m1, m2, g1, g2, s1, s2, s3

MCMonths == <<30>>
MCWorks == {<<1, 1>>, <<2, 1>>, <<2, 2>>}
MCSteps == <<1>>
MCPartOf(start) == "day"

Weekly(at) == [kind |-> "weekly", at |-> 0, days |-> {at}]
MCPatterns == {Weekly(0)}
MCDefs == {[anchor |-> 1, end |-> Never, pattern |-> Weekly(1)],
           [anchor |-> 0, end |-> [kind |-> "after_count", at |-> 2], pattern |-> Weekly(0)]}
MCOpen == 0 .. 30 \ {2}

MCRoster == <<s1, s2, s3>>
\* The desk's party needs a room for its first member, the app's two chairs.
MCNeed == [g \in Groups |-> [m \in Members |->
              [dur |-> IF m = 2 THEN 1 ELSE IF g = g1 THEN 3 ELSE 2,
               can |-> {s1, s2, s3},
               type |-> IF g = g1 /\ m = 1 THEN "room" ELSE "styling"]]]
MCShape == [g \in Groups |-> [anchor |-> 1, window |-> 0, stagger |-> 2,
              mode |-> IF g = g1 THEN "finish_together" ELSE "arrive_together"]]
MCUnits == [t \in {"styling", "room"} |-> IF t = "styling" THEN 2 ELSE 1]
MCSingles == <<[staff |-> s1, from |-> 1, to |-> 3, type |-> "styling"],
               [staff |-> s2, from |-> 2, to |-> 3, type |-> "room"]>>

Case(on, sessions) == [on |-> on, sessions |-> sessions]

Races == {Case({"series", "night", "rivals", "days"}, 0),
          Case({"series", "button", "pause", "days"}, 0),
          Case({"series", "button", "edit"}, 0),
          Case({"routine", a1, "change", "days"}, 2),
          Case({"routine", a1, j1, "rivals"}, 3),
          Case({"routine", a1, j1, j2, "days"}, 3),
          Case({"roster", "both", m1}, 0),
          Case({"roster", m1, m2}, 0),
          Case({"roster", "desk", m1}, 0),
          Case({"roster", "rivals", m1}, 0),
          Case({"party"}, 0)}

\* One manager and one change; a party alone.
OneManager == {Case({"roster", m1}, 0)}
OneParty   == {Case({"party"}, 0)}
=============================================================================
