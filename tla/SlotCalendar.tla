---------------------------- MODULE SlotCalendar ----------------------------
(***************************************************************************)
(* What the diary promises a caller, with the tables, the transactions and *)
(* the retries left out: a slot is claimed only while nobody has it, a     *)
(* claim becomes a booking without ever being free in between, a lapse     *)
(* takes back held slots only, and a booked slot comes back one at a time. *)
(***************************************************************************)
CONSTANTS Slots,          \* the [staff, from, to] windows that can be claimed
          Clash(_, _)     \* two windows one professional cannot both keep

VARIABLE claims           \* the windows taken, each held or booked

Held(s)   == [slot |-> s, kind |-> "held"]
Booked(s) == [slot |-> s, kind |-> "booked"]

Init == claims = {}

Claim ==
    \E s \in Slots :
        /\ \A c \in claims : ~Clash(c.slot, s)
        /\ claims' = claims \cup {Held(s)}

Book ==
    \E s \in Slots :
        /\ Held(s) \in claims
        /\ claims' = (claims \ {Held(s)}) \cup {Booked(s)}

Lapse ==
    \E S \in SUBSET Slots :
        claims' = claims \ {Held(s) : s \in S}

Cancel ==
    \E s \in Slots :
        /\ Booked(s) \in claims
        /\ claims' = claims \ {Booked(s)}

Next == Claim \/ Book \/ Lapse \/ Cancel

Spec == Init /\ [][Next]_claims
=============================================================================
