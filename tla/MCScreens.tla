----------------------------- MODULE MCScreens -----------------------------
(* Two professionals who start at the same time, and one of them again the  *)
(* day after; a day is two units of time.                                   *)
EXTENDS Screens

MCStartOf == [reem1 |-> 2, maya1 |-> 2, maya2 |-> 4]
MCShift   == [reem |-> [from |-> 0, to |-> 2], maya |-> [from |-> 0, to |-> 1]]
MCStaffOf == [reem1 |-> "reem", maya1 |-> "maya", maya2 |-> "maya"]

Story(parts, kinds, bookings, slots) ==
    [parts |-> parts, kinds |-> kinds, bookings |-> bookings, hands |-> 1, slots |-> slots]

\* Two customers at the same time of day, and one at a time on either day.
MCScenarios == {Story({"mark"}, {"none", "link"}, 1, Slots),
                Story({"routine", "move", "revive"}, {"paid", "link"}, 1, Slots),
                Story({}, {"paid"}, 2, {"reem1", "maya1"})}
=============================================================================
