----------------------------- MODULE MCCounter -----------------------------
(* Two hours of a day with two professionals, three stations and services   *)
(* whose lengths are on and off the grid; a checkout of a package, with and *)
(* without extras, at peak and off peak; a party of up to four.             *)
EXTENDS Counter

MCShift  == [p \in {1, 2} |-> IF p = 1 THEN [from |-> 0, to |-> 120]
                                       ELSE [from |-> 15, to |-> 110]]
MCSkills == [p \in {1, 2} |-> IF p = 1 THEN [hair |-> 3, color |-> 3]
                                       ELSE [hair |-> 2, color |-> 0]]
MCLoad   == [p \in {1, 2} |-> 3 - p]

Hair(level, dur) ==
    [skill |-> "hair", level |-> level, dur |-> dur, station |-> "styling",
     pre |-> 5, post |-> 10, band |-> NoBand, frees |-> FALSE]
MCService ==
    [cut |-> Hair(2, 45), trim |-> Hair(1, 18),
     colour |-> [skill |-> "color", level |-> 2, dur |-> 80, station |-> "color",
                 pre |-> 10, post |-> 20, band |-> [from |-> 30, to |-> 60],
                 frees |-> TRUE]]
MCStation == [styling |-> [units |-> 3, out |-> 1, turn |-> 0],
              color |-> [units |-> 1, out |-> 0, turn |-> 5]]
MCMix == <<[basket |-> <<"cut">>, weight |-> 42], [basket |-> <<"colour">>, weight |-> 18]>>
MCBaskets == {<<"cut">>, <<"colour">>, <<"trim">>}
MCOutcomes == {[st |-> "confirmed", kind |-> "plain"],
               [st |-> "pending_payment", kind |-> "group"]}

\* A package for less than its parts, and the day after, a dearer one.
Menu(cut, colour, package) ==
    [price |-> [cut |-> cut, colour |-> colour],
     rule |-> [cut |-> [percent |-> 20, fixed |-> 0], colour |-> [percent |-> 10, fixed |-> 8000]],
     packages |-> [spa |-> [parts |-> <<"cut", "colour">>, price |-> package]],
     offers |-> [oil |-> [price |-> 4511, left |-> 2]]]
MCMenus == {Menu(15901, 30000, 37003), Menu(15901, 33000, 41007)}
\* A small salon, with prices that do not divide evenly.
MCPartyMenus == {Menu(1591, 3000, 3703), Menu(1, 2, 5)}

Customer(gold, new, noShows) ==
    [gold |-> gold, flag |-> FALSE, new |-> new,
     history |-> [noShows |-> noShows, lateCancels |-> 0, visits |-> IF new THEN 0 ELSE 4]]
MCCustomers == {Customer(FALSE, TRUE, 0), Customer(TRUE, FALSE, 0), Customer(FALSE, FALSE, 2)}

Oil(n) == [id |-> "oil", quantity |-> n]
MCCarts == {[ids |-> <<"spa">>, products |-> <<>>],
            [ids |-> <<"cut", "spa">>, products |-> <<Oil(1)>>]}

Bottle == [id |-> "oil", quantity |-> 1, price |-> 451]
MCMembers == {[ids |-> <<"spa">>, child |-> FALSE, products |-> <<>>],
              [ids |-> <<"cut", "spa">>, child |-> TRUE, products |-> <<Bottle>>],
              [ids |-> <<"cut">>, child |-> TRUE, products |-> <<>>]}

Symmetry == Permutations(Visits) \cup Permutations(Clerks)
=============================================================================
