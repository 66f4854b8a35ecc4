------------------------------ MODULE MCFeeds ------------------------------
(* Small queues: two entries and two freed slots, one walk-in and two       *)
(* holds, a party of two, one visit on the ladder and one made in the app.  *)
(* One set of scenarios for the safety runs, one for liveness, so that the  *)
(* state spaces of the queues add up and do not multiply.                   *)
EXTENDS Feeds

CONSTANTS e1, e2, c1, c2, v1, v2, s1, s2

\* The first in the queue wants every slot, the others only the first one.
MCWants == [e \in Entries |-> IF e = e1 THEN Freeable ELSE {c1}]

MCLadder == <<[rung |-> "confirm_24h", lead |-> 2, channels |-> {"push", "email"}],
              [rung |-> "running_late_15m", lead |-> 1, channels |-> {"push"}]>>

MCRetryDelay == [i \in 1 .. DELIVERY_TRIES |-> 1]

Case(on, events) == [on |-> on, events |-> events]

Queues == {Case({"relay", "waitlist", "clock", e1, e2, c1, c2}, 2),
           Case({"relay", "walkin", "crash"}, 2),
           Case({"relay", "group", "crash"}, 2),
           Case({"ladder", "moves", "clock", v1}, 3),
           Case({"relay", "chosen", "moves", "clock", v2, s1}, 2),
           Case({"relay", "chosen", "crash", "clock", v2, s1, s2}, 2),
           Case({"relay", "moves", "clock", v2, s1, s2}, 1),
           Case({"relay", "manual", "clock", v1, s1}, 1)}

Flows == {Case({"relay", "waitlist", "clock", e1, e2, c1}, 1),
          Case({"relay", "waitlist", "clock", "crash", e1, c1}, 1),
          Case({"relay", "walkin"}, 2),
          Case({"relay", "group"}, 3),
          Case({"relay", "ladder", "clock", "crash", v1, s1}, 1),
          Case({"relay", "chosen", "clock", "crash", v2, s1}, 2)}
=============================================================================
