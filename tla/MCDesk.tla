------------------------------- MODULE MCDesk -------------------------------
(* Small diaries: times are in units of the shortest window that matters.   *)
EXTENDS Desk, TLC

CONSTANTS early, late    \* two slots of the same professional

MCStartOf == [s \in Slots |-> IF s = early THEN 2 ELSE 3]

Story(parts, kinds, bookings, hands, slots) ==
    [parts |-> parts, kinds |-> kinds, bookings |-> bookings, hands |-> hands,
     slots |-> slots]

\* Two bookings that are cancelled, moved, shifted, missed and expire.
Diary == Story({"cancel", "desk", "sweep", "absence", "move", "shift"},
               {"paid", "link"}, 2, 1, Slots)
\* Two customers say they arrived, and two desks and the jobs answer.
Arrivals == Story({"arrival", "approve", "cancel", "absence"}, {"none"}, 2, 2, Slots)
\* The app reports payments, some of them twice, while links close.
Callbacks == Story({"mobile", "cancel", "sweep"}, {"paid", "link"}, 2, 1, Slots)
\* One booking's money, from every side at once.
Money == Story({"cancel", "desk", "settle", "service", "undo", "capture", "refund",
                "goodwill", "revive", "link", "sweep", "webhook", "ask"},
               {"paid", "link", "ask"}, 1, 2, {late})
\* The jobs, with workers that die: absences and requests that nobody
\* answers, and links that nobody pays.
Unanswered == Story({"arrival", "approve", "absence", "crash"}, {"none"}, 2, 1, Slots)
Unpaid     == Story({"link", "sweep", "absence", "crash"}, {"none", "link"}, 2, 1, Slots)
\* One request for the customer's confirmation.
Asked == Story({"ask"}, {"ask"}, 1, 1, Slots)

MCScenarios == {Diary, Arrivals, Callbacks, Money}
MCJobs      == {Unanswered, Unpaid}
MCAsked     == {Asked}

Symmetry == Permutations(Bookings) \cup Permutations(Workers)
=============================================================================
