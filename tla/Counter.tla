------------------------------ MODULE Counter ------------------------------
(***************************************************************************)
(* The sales counter: a day's diary filled from the engine's offers, a     *)
(* checkout in the app and the bill of a party.  They share no table, so a *)
(* behaviour follows one of them and their state spaces add up.            *)
(***************************************************************************)
EXTENDS Diary, Checkout

CONSTANT PartyMenus    \* the menus of the party's salon

VARIABLE desk    \* "diary", "checkout" or "party"

counterVars == <<diaryVars, checkoutVars, desk>>

Init ==
    /\ DiaryInit
    /\ \/ desk = "checkout" /\ CheckoutInit(Menus)
       \/ desk = "party" /\ CheckoutInit(PartyMenus)
       \/ /\ desk = "diary" /\ CheckoutInit({CHOOSE m \in Menus : TRUE})
          /\ who = CHOOSE c \in Customers : TRUE

Next ==
    /\ UNCHANGED desk
    /\ \/ desk = "diary" /\ DiaryNext /\ UNCHANGED checkoutVars
       \/ desk = "checkout" /\ CheckoutNext /\ UNCHANGED diaryVars
       \/ desk = "party" /\ PartyNext /\ UNCHANGED diaryVars

Spec == Init /\ [][Next]_counterVars
=============================================================================
