----------------------------- MODULE HoldsProofs -----------------------------
(***************************************************************************)
(* Proofs about Holds, for any number of clients, holds, bookings, chair   *)
(* types and baskets, and with no bound on the clock's values.             *)
(***************************************************************************)
EXTENDS Holds, FiniteSetTheorems, TLAPS

-----------------------------------------------------------------------------
(* Typing. *)

\* Re-pointing or unblocking rows, as confirm and cancel do, keeps their shape.
LEMMA RowUpdates ==
    ASSUME NEW h \in HoldIds \cup BookingIds, NEW b \in BookingIds
    PROVE  /\ \A rows \in SUBSET StaffRows :
                 Repoint(rows, h, b) \subseteq StaffRows
                 /\ Unblock(rows, b) \subseteq StaffRows
           /\ \A rows \in SUBSET ChairRowSet :
                 Repoint(rows, h, b) \subseteq ChairRowSet
                 /\ Unblock(rows, b) \subseteq ChairRowSet
  BY DEF Repoint, Unblock, StaffRows, ChairRowSet

\* The rows place() inserts for a basket have the tables' shape.
LEMMA NewRows ==
    ASSUME NEW h \in HoldIds, NEW b \in Baskets
    PROVE  StaffRow(h, b) \in StaffRows /\ ChairRows(h, b) \subseteq ChairRowSet
  <1>1. StaffRow(h, b) \in StaffRows
    BY BasketsAssumption DEF StaffRow, StaffRows
  <1>2. ChairRows(h, b) \subseteq ChairRowSet
    <2>1. SUFFICES ASSUME NEW d \in b.demand
                   PROVE  [owner |-> h, type |-> d.type, from |-> d.from,
                           to |-> d.to, blocking |-> TRUE] \in ChairRowSet
      BY <2>1 DEF ChairRows
    <2>2. d.type \in Types /\ d.from \in Nat /\ d.to \in Nat
      BY BasketsAssumption DEF BasketsAssumption
    <2>3. QED BY <2>2 DEF ChairRowSet
  <1>3. QED BY <1>1, <1>2

\* The idle request, and every reply, is well formed.
LEMMA Replies ==
    ASSUME TypeOK, NEW c \in Clients, NEW a \in Answers, NEW body \in Bodies
    PROVE  /\ WellFormed(Idle) /\ WellFormed(Reply(c, a))
           /\ WellFormed([Reply(c, a) EXCEPT !.body = body])
           /\ WellFormed(Replay(c, body))
  <1>1. /\ "idle" \notin Placing /\ "idle" \notin Confirming
        /\ "none" \in Answers /\ "none" \in Bodies /\ "replayed" \in Answers
    BY DEF Placing, Confirming, Answers, Bodies
  <1>2. Idle \in Requests /\ Idle.pc = "idle"
    BY <1>1 DEF Idle, Requests
  <1>3. req[c].key \in AllKeys \cup {None}
    BY DEF TypeOK, Requests
  <1>4. ASSUME NEW x \in Answers, NEW y \in Bodies
        PROVE  /\ Reply(c, x) \in Requests /\ Reply(c, x).pc = "idle"
               /\ [Reply(c, x) EXCEPT !.body = y] \in Requests
               /\ [Reply(c, x) EXCEPT !.body = y].pc = "idle"
    BY <1>2, <1>3 DEF Reply, Requests
  <1>5. QED BY <1>1, <1>2, <1>4 DEF WellFormed, Replay

\* A confirm in progress knows its hold, key and payment, and moving it to its
\* next stage leaves it well formed.
LEMMA Advance ==
    ASSUME TypeOK, NEW c \in Clients, req[c].pc \in Confirming,
           NEW to \in Confirming, NEW at \in Nat
    PROVE  /\ req[c].hold \in HoldIds /\ req[c].key \in AllKeys
           /\ req[c].pay \in Payments /\ req[c].at \in Nat
           /\ WellFormed([req[c] EXCEPT !.pc = to])
           /\ WellFormed([req[c] EXCEPT !.pc = to, !.at = at])
  <1> DEFINE r == req[c]
  <1>1. r \in Requests /\ WellFormed(r)
    BY DEF TypeOK
  <1>2. r.hold \in HoldIds /\ r.key \in AllKeys /\ r.pay \in Payments
    BY <1>1 DEF WellFormed
  <1>3. r.at \in Nat
    BY <1>1 DEF Requests
  <1>4. to \notin Placing
    BY DEF Placing, Confirming
  <1>5. WellFormed([r EXCEPT !.pc = to])
    BY <1>1, <1>2, <1>4 DEF WellFormed, Requests
  <1>6. WellFormed([r EXCEPT !.pc = to, !.at = at])
    BY <1>1, <1>2, <1>4 DEF WellFormed, Requests
  <1>7. QED BY <1>2, <1>3, <1>5, <1>6

\* Giving one client a well-formed request keeps them all well formed.
LEMMA RequestStep ==
    ASSUME TypeOK, NEW c \in Clients, NEW r, WellFormed(r),
           req' = [req EXCEPT ![c] = r]
    PROVE  req' \in [Clients -> Requests] /\ \A d \in Clients : WellFormed(req'[d])
  BY DEF TypeOK, WellFormed

\* A step that only changes one client's request, to a well-formed one, keeps
\* the types.
LEMMA RequestOnly ==
    ASSUME TypeOK, NEW c \in Clients, NEW r, WellFormed(r),
           req' = [req EXCEPT ![c] = r], lock' \in [Types -> Clients \cup {None}],
           UNCHANGED <<now, hold, booking, staffRes, chairRes, idem>>
    PROVE  TypeOK'
  BY RequestStep DEF TypeOK

\* The tables and requests keep their shape from the first state on.
LEMMA TypeInit == Init => TypeOK
  BY BoundsAssumption
  DEF Init, TypeOK, WellFormed, Requests, Answers, Bodies, Placing, Confirming,
      NoBasket, Idle

\* No operation on the diary breaks the shape of a table or of a request.
LEMMA TypeNext == TypeOK /\ [Next]_vars => TypeOK'
  <1> SUFFICES ASSUME TypeOK, [Next]_vars PROVE TypeOK'
    OBVIOUS
  <1>0. /\ {"gone", "refused", "already_recorded", "confirmed"} \subseteq Answers
        /\ {"none", "raw", "view"} \subseteq Bodies
        /\ \A body : Rebuild(body) \in Bodies
    BY DEF Answers, Bodies, Rebuild
  <1>1. ASSUME NEW c \in Clients, NEW b \in Baskets, PlaceHold(c, b)
        PROVE  TypeOK'
    <2>1. WellFormed([Idle EXCEPT !.pc = "lock", !.basket = b, !.at = now])
      BY DEF TypeOK, WellFormed, Idle, Requests, Answers, Bodies, Placing,
             Confirming
    <2>2. QED BY <1>1, <2>1, RequestOnly DEF PlaceHold, TypeOK
  <1>2. ASSUME NEW c \in Clients, PlaceLock(c) PROVE TypeOK'
    <2>1. PICK t : lock' = [lock EXCEPT ![t] = c]
      BY <1>2 DEF PlaceLock
    <2>2. lock' \in [Types -> Clients \cup {None}]
      BY <2>1 DEF TypeOK
    <2>3. UNCHANGED <<now, hold, booking, staffRes, chairRes, idem, req>>
      BY <1>2 DEF PlaceLock
    <2>4. QED BY <2>2, <2>3 DEF TypeOK
  <1>3. ASSUME NEW c \in Clients, PlaceCount(c) PROVE TypeOK'
    <2>1. WellFormed(Idle) BY <1>0, Replies
    <2>2. WellFormed([req[c] EXCEPT !.pc = "insert"])
      <3>1. req[c].pc \in Placing
        BY <1>3 DEF PlaceCount, Placing
      <3>2. req[c] \in Requests /\ req[c].basket \in Baskets
        BY <3>1 DEF TypeOK, WellFormed
      <3>3. "insert" \in Placing /\ "insert" \notin Confirming
        BY DEF Placing, Confirming
      <3>4. QED BY <3>2, <3>3 DEF WellFormed, Requests
    <2>3. Unlock(c) \in [Types -> Clients \cup {None}]
      BY DEF Unlock, TypeOK
    <2>4. QED BY <1>3, <2>1, <2>2, <2>3, RequestOnly DEF PlaceCount, TypeOK
  <1>4. ASSUME NEW c \in Clients, PlaceInsert(c) PROVE TypeOK'
    <2>1. req' = [req EXCEPT ![c] = Idle] /\ lock' = Unlock(c)
      BY <1>4 DEF PlaceInsert
    <2>2. /\ WellFormed(Idle) /\ lock' \in [Types -> Clients \cup {None}]
          /\ req' \in [Clients -> Requests]
          /\ \A d \in Clients : WellFormed(req'[d])
      BY <1>0, <2>1, Replies, RequestStep DEF TypeOK, Unlock
    <2>3. CASE StaffTaken(req[c].basket)
      BY <1>4, <2>1, <2>2, <2>3, RequestOnly DEF PlaceInsert
    <2>4. CASE ~StaffTaken(req[c].basket)
      <3>1. req[c].basket \in Baskets /\ req[c].at + TTL \in Nat
        BY <1>4, BoundsAssumption
        DEF PlaceInsert, TypeOK, WellFormed, Requests, Placing
      <3>2. PICK h \in HoldIds :
              /\ hold' = [hold EXCEPT ![h] = [st |-> "held",
                             basket |-> req[c].basket, exp |-> req[c].at + TTL]]
              /\ staffRes' = staffRes \cup {StaffRow(h, req[c].basket)}
              /\ chairRes' = chairRes \cup ChairRows(h, req[c].basket)
        BY <1>4, <2>4 DEF PlaceInsert
      <3>3. staffRes' \subseteq StaffRows /\ chairRes' \subseteq ChairRowSet
        BY <3>1, <3>2, NewRows DEF TypeOK
      <3>4. QED BY <1>4, <2>2, <3>1, <3>2, <3>3 DEF PlaceInsert, TypeOK
    <2>5. QED BY <2>3, <2>4
  <1>5. ASSUME NEW H \in SUBSET HoldIds, Delete(H),
               UNCHANGED <<now, booking, idem, lock, req>>
        PROVE  TypeOK'
    BY <1>5 DEF Delete, TypeOK, DropStaffRows, DropChairRows
  <1>6. ASSUME NEW h \in HoldIds, Release(h) PROVE TypeOK'
    BY <1>5, <1>6 DEF Release
  <1>7. ASSUME SweepExpired PROVE TypeOK'
    BY <1>5, <1>7 DEF SweepExpired, Expired
  <1>8. ASSUME NEW c \in Clients, NEW h \in HoldIds, NEW k \in AllKeys,
               NEW p \in Payments, ConfirmBooking(c, h, k, p)
        PROVE  TypeOK'
    <2>1. /\ WellFormed([Idle EXCEPT !.answer = "replayed", !.key = k,
                                     !.body = idem[k].body])
          /\ WellFormed([Idle EXCEPT !.pc = "reserve", !.hold = h, !.key = k,
                                     !.pay = p])
      BY DEF TypeOK, WellFormed, Idle, Requests, Answers, Bodies, Placing,
             Confirming
    <2>2. QED BY <1>8, <2>1, RequestOnly DEF ConfirmBooking, TypeOK
  <1>9. ASSUME NEW c \in Clients, ConfirmReserve(c) PROVE TypeOK'
    <2>1. WellFormed([req[c] EXCEPT !.pc = "fast"])
      <3>1. req[c].pc = "reserve" BY <1>9 DEF ConfirmReserve
      <3>2. QED BY <1>0, <3>1, Advance DEF Confirming
    <2>2. WellFormed(Reply(c, "gone")) /\ WellFormed(Reply(c, "refused"))
      BY <1>0, Replies
    <2>3. QED BY <1>9, <2>1, <2>2, RequestOnly DEF ConfirmReserve, TypeOK
  <1>10. ASSUME NEW c \in Clients, ConfirmFastPath(c) PROVE TypeOK'
    <2>1. WellFormed([req[c] EXCEPT !.pc = "tx", !.at = now])
      <3>1. req[c].pc = "fast" /\ now \in Nat
        BY <1>10 DEF ConfirmFastPath, TypeOK
      <3>2. QED BY <1>0, <3>1, Advance DEF Confirming
    <2>2. \A body : WellFormed(Replay(c, Rebuild(body)))
      BY <1>0, Replies
    <2>3. QED BY <1>10, <2>1, <2>2, RequestOnly DEF ConfirmFastPath, TypeOK
  <1>11. ASSUME NEW c \in Clients, ConfirmTx(c) PROVE TypeOK'
    <2>1. /\ WellFormed(Reply(c, "gone"))
          /\ WellFormed(Reply(c, "already_recorded"))
          /\ \A body : WellFormed(Replay(c, Rebuild(body)))
      BY <1>0, Replies
    <2>2. /\ req[c].hold \in HoldIds /\ req[c].key \in AllKeys
          /\ req[c].pay \in Payments /\ req[c].at \in Nat
          /\ WellFormed([req[c] EXCEPT !.pc = "store"])
      <3>1. req[c].pc = "tx" BY <1>11 DEF ConfirmTx
      <3>2. QED BY <1>0, <3>1, Advance DEF Confirming
    <2>3. CASE UNCHANGED <<hold, booking, staffRes, chairRes, idem>>
      <3>1. \/ req' = [req EXCEPT ![c] = Reply(c, "gone")]
            \/ req' = [req EXCEPT ![c] = Reply(c, "already_recorded")]
            \/ req' = [req EXCEPT ![c] = Replay(c, Rebuild(idem[req[c].key].body))]
            \/ req' = [req EXCEPT ![c] = [req[c] EXCEPT !.pc = "store"]]
        BY <1>11 DEF ConfirmTx
      <3>2. now' = now /\ lock' \in [Types -> Clients \cup {None}]
        BY <1>11 DEF ConfirmTx, TypeOK
      <3>3. QED BY <2>1, <2>2, <2>3, <3>1, <3>2, RequestOnly
    <2>4. CASE ~UNCHANGED <<hold, booking, staffRes, chairRes, idem>>
      <3>1. PICK b \in BookingIds :
              /\ booking' = [booking EXCEPT ![b] =
                    [st |-> ResolveStatus(req[c].pay), hold |-> req[c].hold,
                     key |-> req[c].key, pay |-> req[c].pay, at |-> req[c].at]]
              /\ staffRes' = Repoint(staffRes, req[c].hold, b)
              /\ chairRes' = Repoint(chairRes, req[c].hold, b)
              /\ idem' = [idem EXCEPT ![req[c].key] = [booking |-> b,
                                                      body |-> "raw"]]
        BY <1>11, <2>4 DEF ConfirmTx
      <3>2. /\ hold' = [hold EXCEPT ![req[c].hold].st = "gone"]
            /\ req' = [req EXCEPT ![c] = [req[c] EXCEPT !.pc = "store"]]
            /\ now' = now /\ lock' = lock
        BY <1>11, <2>4 DEF ConfirmTx
      <3>3. /\ booking' \in [BookingIds ->
                  [st : {"unused", "confirmed", "pending_payment", "cancelled"},
                   hold : HoldIds \cup {None}, key : AllKeys \cup {None},
                   pay : Payments \cup {None}, at : Nat]]
            /\ idem' \in [AllKeys -> [booking : BookingIds \cup {None},
                                      body : Bodies]]
        BY <1>0, <2>2, <3>1 DEF TypeOK, ResolveStatus
      <3>4. staffRes' \subseteq StaffRows /\ chairRes' \subseteq ChairRowSet
        BY <2>2, <3>1, RowUpdates DEF TypeOK
      <3>5. /\ req' \in [Clients -> Requests]
            /\ \A d \in Clients : WellFormed(req'[d])
        BY <2>2, <3>2, RequestStep
      <3>6. hold' \in [HoldIds -> [st : {"unused", "held", "gone"}, exp : Nat,
                                   basket : Baskets \cup {NoBasket}]]
        BY <2>2, <3>2 DEF TypeOK
      <3>7. QED BY <3>2, <3>3, <3>4, <3>5, <3>6 DEF TypeOK
    <2>5. QED BY <2>3, <2>4
  <1>12. ASSUME NEW c \in Clients, ConfirmStore(c) PROVE TypeOK'
    <2>1. WellFormed([Reply(c, "confirmed") EXCEPT !.body = "view"])
      BY <1>0, Replies
    <2>2. /\ req' \in [Clients -> Requests]
          /\ \A d \in Clients : WellFormed(req'[d])
      BY <1>12, <2>1, RequestStep DEF ConfirmStore
    <2>3. QED BY <1>0, <1>12, <2>2 DEF ConfirmStore, TypeOK
  <1>13. ASSUME NEW b \in BookingIds, CancelBooking(b) PROVE TypeOK'
    <2>1. staffRes' \subseteq StaffRows /\ chairRes' \subseteq ChairRowSet
      BY <1>13, RowUpdates DEF CancelBooking, TypeOK
    <2> DEFINE R == [st : {"unused", "confirmed", "pending_payment", "cancelled"},
                     hold : HoldIds \cup {None}, key : AllKeys \cup {None},
                     pay : Payments \cup {None}, at : Nat]
    <2>2. booking' = [booking EXCEPT ![b] = [booking[b] EXCEPT !.st = "cancelled"]]
      BY <1>13 DEF CancelBooking
    <2>3. booking \in [BookingIds -> R]
      BY DEF TypeOK
    <2>4. [booking[b] EXCEPT !.st = "cancelled"] \in R
      <3>1. booking[b] \in R BY <2>3
      <3>2. QED BY <3>1
    <2>5. booking' \in [BookingIds -> R]
      <3> HIDE DEF R
      <3>1. QED BY <2>2, <2>3, <2>4
    <2>6. UNCHANGED <<now, hold, idem, lock, req>>
      BY <1>13 DEF CancelBooking
    <2>7. QED BY <2>1, <2>5, <2>6 DEF TypeOK
  <1>14. ASSUME NEW c \in Clients, Crash(c) PROVE TypeOK'
    <2>1. Unlock(c) \in [Types -> Clients \cup {None}]
      BY DEF Unlock, TypeOK
    <2>2. QED BY <1>0, <1>14, <2>1, Replies, RequestOnly DEF Crash
  <1>15. CASE Tick
    BY <1>15 DEF Tick, TypeOK
  <1>16. CASE UNCHANGED vars
    BY <1>16 DEF vars, TypeOK
  <1>17. QED
    BY <1>1, <1>2, <1>3, <1>4, <1>6, <1>7, <1>8, <1>9, <1>10, <1>11, <1>12,
       <1>13, <1>14, <1>15, <1>16 DEF Next, PlaceStep, ConfirmStep

\* Whatever the requests, crashes and sweeps do, the tables keep their shape.
THEOREM TypeCorrect == Spec => []TypeOK
  BY TypeInit, TypeNext, PTL DEF Spec

-----------------------------------------------------------------------------
(* No professional in two places. *)

\* Every row after a re-point, or an unblock, is an old row with the same
\* professional and window, and blocks only if that one did.
LEMMA RowsComeFrom ==
    ASSUME NEW rows, NEW h, NEW b
    PROVE  /\ \A r \in Repoint(rows, h, b) : \E s \in rows :
                r = IF s.owner = h THEN [s EXCEPT !.owner = b] ELSE s
           /\ \A r \in Unblock(rows, b) : \E s \in rows :
                r = IF s.owner = b THEN [s EXCEPT !.blocking = FALSE] ELSE s
  BY DEF Repoint, Unblock

\* The exclusion constraint, met by every insert and disturbed by no update.
LEMMA NoDoubleBookingNext ==
    TypeOK /\ NoDoubleBooking /\ [Next]_vars => NoDoubleBooking'
  <1> SUFFICES ASSUME TypeOK, NoDoubleBooking, [Next]_vars
               PROVE  NoDoubleBooking'
    OBVIOUS
  <1>1. ASSUME NEW c \in Clients, PlaceInsert(c) PROVE NoDoubleBooking'
    <2>1. CASE StaffTaken(req[c].basket)
      BY <1>1, <2>1 DEF PlaceInsert, NoDoubleBooking
    <2>2. CASE ~StaffTaken(req[c].basket)
      <3>1. PICK h \in HoldIds :
              staffRes' = staffRes \cup {StaffRow(h, req[c].basket)}
        BY <1>1, <2>2 DEF PlaceInsert
      <3>2. req[c].basket.from \in Nat /\ req[c].basket.to \in Nat
        BY <1>1, BasketsAssumption
        DEF PlaceInsert, TypeOK, WellFormed, Placing, BasketsAssumption
      <3>3. \A r \in staffRes : r.blocking /\ r.staff = req[c].basket.staff
                                => /\ ~Overlap(r, StaffRow(h, req[c].basket))
                                   /\ ~Overlap(StaffRow(h, req[c].basket), r)
        BY <2>2 DEF StaffTaken, Overlap, StaffRow
      <3>4. SUFFICES ASSUME NEW r \in staffRes', NEW s \in staffRes', r # s,
                            r.blocking, s.blocking, r.staff = s.staff
                     PROVE  ~Overlap(r, s)
        BY DEF NoDoubleBooking
      <3>5. CASE r \in staffRes /\ s \in staffRes
        BY <3>4, <3>5 DEF NoDoubleBooking
      <3>6. CASE r = StaffRow(h, req[c].basket) \/ s = StaffRow(h, req[c].basket)
        <4>1. StaffRow(h, req[c].basket).staff = req[c].basket.staff
          BY DEF StaffRow
        <4>2. QED BY <3>1, <3>3, <3>4, <3>6, <4>1
      <3>7. QED BY <3>1, <3>4, <3>5, <3>6
    <2>3. QED BY <2>1, <2>2
  <1>2. ASSUME NEW H \in SUBSET HoldIds, Delete(H) PROVE NoDoubleBooking'
    BY <1>2 DEF Delete, DropStaffRows, NoDoubleBooking
  <1>3. ASSUME NEW c \in Clients, ConfirmTx(c) PROVE NoDoubleBooking'
    <2>1. CASE UNCHANGED staffRes
      BY <2>1 DEF NoDoubleBooking
    <2>2. CASE ~UNCHANGED staffRes
      <3>1. PICK b \in BookingIds : staffRes' = Repoint(staffRes, req[c].hold, b)
        BY <1>3, <2>2 DEF ConfirmTx
      <3>2. SUFFICES ASSUME NEW r \in staffRes', NEW s \in staffRes', r # s,
                            r.blocking, s.blocking, r.staff = s.staff
                     PROVE  ~Overlap(r, s)
        BY DEF NoDoubleBooking
      <3>3. PICK q \in staffRes : r = IF q.owner = req[c].hold
                                      THEN [q EXCEPT !.owner = b] ELSE q
        BY <3>1, RowsComeFrom
      <3>4. PICK t \in staffRes : s = IF t.owner = req[c].hold
                                      THEN [t EXCEPT !.owner = b] ELSE t
        BY <3>1, RowsComeFrom
      <3>5. /\ q.blocking = r.blocking /\ q.staff = r.staff
            /\ q.from = r.from /\ q.to = r.to
        BY <3>3 DEF TypeOK, StaffRows
      <3>6. /\ t.blocking = s.blocking /\ t.staff = s.staff
            /\ t.from = s.from /\ t.to = s.to
        BY <3>4 DEF TypeOK, StaffRows
      <3>7. q # t
        BY <3>2, <3>3, <3>4
      <3>8. QED BY <3>2, <3>5, <3>6, <3>7 DEF NoDoubleBooking, Overlap
    <2>3. QED BY <2>1, <2>2
  <1>4. ASSUME NEW b \in BookingIds, CancelBooking(b) PROVE NoDoubleBooking'
    <2>1. SUFFICES ASSUME NEW r \in staffRes', NEW s \in staffRes', r # s,
                          r.blocking, s.blocking, r.staff = s.staff
                   PROVE  ~Overlap(r, s)
      BY DEF NoDoubleBooking
    <2>2. \A x \in staffRes' : x.blocking => x \in staffRes
      <3>1. SUFFICES ASSUME NEW x \in staffRes', x.blocking PROVE x \in staffRes
        OBVIOUS
      <3>2. PICK q \in staffRes : x = IF q.owner = b
                                      THEN [q EXCEPT !.blocking = FALSE] ELSE q
        BY <1>4, RowsComeFrom DEF CancelBooking
      <3>3. QED BY <3>1, <3>2 DEF TypeOK, StaffRows
    <2>3. QED BY <2>1, <2>2 DEF NoDoubleBooking
  <1>5. ASSUME UNCHANGED staffRes PROVE NoDoubleBooking'
    BY <1>5 DEF NoDoubleBooking
  <1>6. \A c \in Clients :
          /\ \A b \in Baskets : PlaceHold(c, b) => UNCHANGED staffRes
          /\ PlaceLock(c) => UNCHANGED staffRes
          /\ PlaceCount(c) => UNCHANGED staffRes
          /\ \A h \in HoldIds, k \in AllKeys, p \in Payments :
                ConfirmBooking(c, h, k, p) => UNCHANGED staffRes
          /\ ConfirmReserve(c) => UNCHANGED staffRes
          /\ ConfirmFastPath(c) => UNCHANGED staffRes
          /\ ConfirmStore(c) => UNCHANGED staffRes
          /\ Crash(c) => UNCHANGED staffRes
    BY DEF PlaceHold, PlaceLock, PlaceCount, ConfirmBooking, ConfirmReserve,
           ConfirmFastPath, ConfirmStore, Crash
  <1>7. /\ \A h \in HoldIds : Release(h) => Delete({h})
        /\ SweepExpired => Delete(Expired) /\ Expired \in SUBSET HoldIds
    BY DEF Release, SweepExpired, Expired
  <1>8. Tick \/ UNCHANGED vars => UNCHANGED staffRes
    BY DEF Tick, vars
  <1>9. QED
    BY <1>1, <1>2, <1>3, <1>4, <1>5, <1>6, <1>7, <1>8
    DEF Next, PlaceStep, ConfirmStep

\* The diary's first promise, for any number of clients and any baskets: holds,
\* confirms, sweeps, releases and cancellations never double-book anybody.
THEOREM NeverDoubleBooked == Spec => []NoDoubleBooking
  <1>1. Init => NoDoubleBooking
    BY DEF Init, NoDoubleBooking
  <1>2. QED BY <1>1, NoDoubleBookingNext, TypeCorrect, PTL DEF Spec

-----------------------------------------------------------------------------
(* No more chairs than the branch has. *)

\* A set covered by the images of a finite set is finite and no larger.
LEMMA CoveredBound ==
    ASSUME NEW S, IsFiniteSet(S), NEW f, NEW T,
           \A y \in T : \E x \in S : y = f[x]
    PROVE  /\ IsFiniteSet(T) /\ Cardinality(T) <= Cardinality(S)
           /\ Cardinality(T) \in Nat /\ Cardinality(S) \in Nat
  <1> DEFINE D == {x \in S : f[x] \in T}
             g == [x \in D |-> f[x]]
  <1>1. IsFiniteSet(D) /\ Cardinality(D) <= Cardinality(S)
    BY FS_Subset
  <1>2. g \in Surjection(D, T)
    BY DEF Surjection
  <1>3. IsFiniteSet(T) /\ Cardinality(T) <= Cardinality(D)
    BY <1>1, <1>2, FS_Surjection
  <1>4. /\ Cardinality(T) \in Nat /\ Cardinality(D) \in Nat
        /\ Cardinality(S) \in Nat
    BY <1>1, <1>3, FS_CardinalityType
  <1>5. QED BY <1>1, <1>3, <1>4

\* Each row of Q is f of a row of R, and blocks only the window that one did.
Shrinks(Q, R, f) ==
    \A q \in Q : \E r \in R :
        /\ q = f[r]
        /\ q.blocking => /\ r.blocking /\ r.type = q.type
                         /\ r.from = q.from /\ r.to = q.to

\* Sweeping, re-pointing and unblocking rows never raise a chair count.
LEMMA CountsShrink ==
    ASSUME NEW R, IsFiniteSet(R), NEW Q, NEW f, Shrinks(Q, R, f)
    PROVE  /\ IsFiniteSet(Q)
           /\ \A d : /\ Cardinality(CountedRows(Q, d)) <= Cardinality(CountedRows(R, d))
                    /\ Cardinality(CountedRows(Q, d)) \in Nat
                    /\ Cardinality(CountedRows(R, d)) \in Nat
  <1>1. IsFiniteSet(Q)
    <2>1. \A y \in Q : \E x \in R : y = f[x] BY DEF Shrinks
    <2>2. QED BY <2>1, CoveredBound
  <1>2. ASSUME NEW d
        PROVE  /\ Cardinality(CountedRows(Q, d)) <= Cardinality(CountedRows(R, d))
               /\ Cardinality(CountedRows(Q, d)) \in Nat
               /\ Cardinality(CountedRows(R, d)) \in Nat
    <2>1. IsFiniteSet(CountedRows(R, d))
      BY FS_Subset DEF CountedRows
    <2>2. \A y \in CountedRows(Q, d) : \E x \in CountedRows(R, d) : y = f[x]
      BY DEF CountedRows, Overlap, Shrinks
    <2>3. QED BY <2>1, <2>2, CoveredBound
  <1>3. QED BY <1>1, <1>2

\* The inductive invariant: capacity, and the count each inserter relies on.
ChairInv == IsFiniteSet(chairRes) /\ ChairCapacity /\ CountStands

\* A step that raises no count, takes no lock away from an inserter and starts
\* no insert keeps the invariant.
LEMMA ChairShrinkStep ==
    ASSUME TypeOK, ChairInv, NEW f, Shrinks(chairRes', chairRes, f),
           \A c \in Clients : req'[c].pc = "insert" =>
              /\ req[c].pc = "insert" /\ req'[c].basket = req[c].basket
              /\ \A t \in Types : lock[t] = c => lock'[t] = c
    PROVE  ChairInv'
  <1>1. /\ IsFiniteSet(chairRes')
        /\ \A d : /\ Cardinality(CountedRows(chairRes', d))
                      <= Cardinality(CountedRows(chairRes, d))
                 /\ Cardinality(CountedRows(chairRes', d)) \in Nat
                 /\ Cardinality(CountedRows(chairRes, d)) \in Nat
    BY CountsShrink DEF ChairInv
  <1>2. ChairCapacity'
    <2>1. SUFFICES ASSUME NEW t \in Types, NEW m \in Minutes
                   PROVE  Cardinality(CountedRows(chairRes',
                             [type |-> t, from |-> m, to |-> m + 1])) <= Units[t]
      BY DEF ChairCapacity, InUse
    <2>2. /\ Cardinality(CountedRows(chairRes,
                [type |-> t, from |-> m, to |-> m + 1])) <= Units[t]
          /\ Units[t] \in Nat
      BY BasketsAssumption DEF BasketsAssumption, ChairInv, ChairCapacity, InUse
    <2>3. QED BY <1>1, <2>2
  <1>3. CountStands'
    <2>1. SUFFICES ASSUME NEW c \in Clients, (req[c].pc = "insert")'
                   PROVE  (/\ TypesOf(req[c].basket) \subseteq LocksOf(c)
                           /\ ~NoChair(req[c].basket))'
      BY DEF CountStands
    <2>2. /\ req[c].pc = "insert" /\ req'[c].basket = req[c].basket
          /\ TypesOf(req[c].basket) \subseteq LocksOf(c) /\ ~NoChair(req[c].basket)
      BY <2>1 DEF ChairInv, CountStands
    <2>3. (TypesOf(req[c].basket) \subseteq LocksOf(c))'
      BY <2>1, <2>2 DEF LocksOf, TypesOf
    <2>4. ASSUME NEW d \in req[c].basket.demand
          PROVE  ~(Cardinality(CountedRows(chairRes', d)) >= Units[d.type])
      <3>1. d.type \in Types
        BY <2>2, BasketsAssumption
        DEF TypeOK, WellFormed, Placing, BasketsAssumption
      <3>2. /\ Units[d.type] \in Nat
            /\ ~(Cardinality(CountedRows(chairRes, d)) >= Units[d.type])
        BY <2>2, <3>1, BasketsAssumption DEF NoChair, InUse, BasketsAssumption
      <3>3. QED BY <1>1, <3>2
    <2>5. (~NoChair(req[c].basket))'
      BY <2>2, <2>4 DEF NoChair, InUse
    <2>6. QED BY <2>3, <2>5
  <1>4. QED BY <1>1, <1>2, <1>3 DEF ChairInv

\* The four ways a step other than an insert treats the chair rows.
LEMMA ShrinkCases ==
    ASSUME TypeOK
    PROVE  /\ Shrinks(chairRes, chairRes, [r \in chairRes |-> r])
           /\ \A H : Shrinks(DropChairRows(H), chairRes, [r \in chairRes |-> r])
           /\ \A h, b : Shrinks(Repoint(chairRes, h, b), chairRes,
                  [r \in chairRes |-> IF r.owner = h THEN [r EXCEPT !.owner = b]
                                                    ELSE r])
           /\ \A b : Shrinks(Unblock(chairRes, b), chairRes,
                  [r \in chairRes |-> IF r.owner = b
                                     THEN [r EXCEPT !.blocking = FALSE] ELSE r])
  <1>1. /\ Shrinks(chairRes, chairRes, [r \in chairRes |-> r])
        /\ \A H : Shrinks(DropChairRows(H), chairRes, [r \in chairRes |-> r])
    BY DEF Shrinks, DropChairRows
  <1>2. ASSUME NEW h, NEW b
        PROVE  Shrinks(Repoint(chairRes, h, b), chairRes,
                  [r \in chairRes |-> IF r.owner = h THEN [r EXCEPT !.owner = b]
                                                    ELSE r])
    BY DEF Shrinks, Repoint, TypeOK, ChairRowSet
  <1>3. ASSUME NEW b
        PROVE  Shrinks(Unblock(chairRes, b), chairRes,
                  [r \in chairRes |-> IF r.owner = b
                                     THEN [r EXCEPT !.blocking = FALSE] ELSE r])
    BY DEF Shrinks, Unblock, TypeOK, ChairRowSet
  <1>4. QED BY <1>1, <1>2, <1>3

\* A basket needs finitely many chairs.
LEMMA FiniteChairRows ==
    ASSUME NEW h, NEW b \in Baskets
    PROVE  IsFiniteSet(ChairRows(h, b))
  <1> DEFINE g == [d \in b.demand |-> [owner |-> h, type |-> d.type,
                       from |-> d.from, to |-> d.to, blocking |-> TRUE]]
  <1>1. IsFiniteSet(b.demand)
    BY BasketsAssumption DEF BasketsAssumption
  <1>2. \A y \in ChairRows(h, b) : \E d \in b.demand : y = g[d]
    BY DEF ChairRows
  <1> HIDE DEF g
  <1>3. QED BY <1>1, <1>2, CoveredBound

\* The insert adds, at any minute, at most one row per chair type, on top of
\* a count that was below the branch's units and cannot have moved since.
LEMMA InsertKeepsCapacity ==
    ASSUME TypeOK, ChairInv, NEW c \in Clients, PlaceInsert(c)
    PROVE  ChairInv'
  <1> DEFINE basket == req[c].basket
  <1>1. /\ req[c].pc = "insert" /\ basket \in Baskets
        /\ req' = [req EXCEPT ![c] = Idle] /\ lock' = Unlock(c)
        /\ TypesOf(basket) \subseteq LocksOf(c) /\ ~NoChair(basket)
    BY DEF PlaceInsert, TypeOK, WellFormed, Placing, ChairInv, CountStands
  <1>2. \A d \in Clients : req'[d].pc = "insert" =>
          /\ d # c /\ req[d].pc = "insert" /\ req'[d].basket = req[d].basket
          /\ \A t \in Types : lock[t] = d => lock'[t] = d
    BY <1>1 DEF Idle, Unlock, TypeOK
  <1>3. CASE chairRes' = chairRes
    <2>1. Shrinks(chairRes', chairRes, [r \in chairRes |-> r])
      BY <1>3, ShrinkCases
    <2>2. QED BY <1>2, <2>1, ChairShrinkStep
  <1>4. CASE chairRes' # chairRes
    <2>1. PICK h \in HoldIds : chairRes' = chairRes \cup ChairRows(h, basket)
      BY <1>4 DEF PlaceInsert
    <2>2. \A d \in basket.demand :
            /\ d.type \in Types /\ d.from \in Nat /\ d.to \in Nat /\ d.from < d.to
            /\ lock[d.type] = c /\ Units[d.type] \in Nat
            /\ ~(Cardinality(CountedRows(chairRes, d)) >= Units[d.type])
      BY <1>1, BasketsAssumption
      DEF BasketsAssumption, TypesOf, LocksOf, NoChair, InUse
    <2>3. \A d, e \in basket.demand :
            d # e /\ d.type = e.type => d.to <= e.from \/ e.to <= d.from
      BY <1>1, BasketsAssumption DEF BasketsAssumption
    <2> DEFINE new(d) == [owner |-> h, type |-> d.type, from |-> d.from,
                          to |-> d.to, blocking |-> TRUE]
    <2>4. ChairRows(h, basket) = {new(d) : d \in basket.demand}
      BY DEF ChairRows
    <2>5. IsFiniteSet(chairRes')
      <3>1. IsFiniteSet(ChairRows(h, basket))
        BY <1>1, FiniteChairRows
      <3>2. QED BY <2>1, <3>1, FS_Union DEF ChairInv
    <2>6. ChairCapacity'
      <3>1. SUFFICES ASSUME NEW t \in Types, NEW m \in Minutes
                     PROVE  Cardinality(CountedRows(chairRes',
                               [type |-> t, from |-> m, to |-> m + 1])) <= Units[t]
        BY DEF ChairCapacity, InUse
      <3> DEFINE mu  == [type |-> t, from |-> m, to |-> m + 1]
                 old == CountedRows(chairRes, mu)
      <3>2. m \in Nat /\ Units[t] \in Nat
        BY BasketsAssumption DEF BasketsAssumption, Minutes
      <3>3. IsFiniteSet(old) /\ Cardinality(old) \in Nat
        BY FS_Subset, FS_CardinalityType DEF ChairInv, CountedRows
      <3>4. Cardinality(old) <= Units[t]
        BY DEF ChairInv, ChairCapacity, InUse
      <3>5. CASE \A d \in basket.demand : ~(d.type = t /\ d.from <= m /\ m < d.to)
        <4>1. \A d \in basket.demand : new(d) \notin CountedRows(chairRes', mu)
          <5>1. SUFFICES ASSUME NEW d \in basket.demand,
                                new(d) \in CountedRows(chairRes', mu)
                         PROVE  FALSE
            OBVIOUS
          <5>2. d.type = t /\ d.from < m + 1 /\ m < d.to
            BY <5>1 DEF CountedRows, Overlap
          <5>3. QED BY <2>2, <3>2, <3>5, <5>2
        <4>2. CountedRows(chairRes', mu) = old
          BY <2>1, <2>4, <4>1 DEF CountedRows
        <4>3. QED BY <3>4, <4>2
      <3>6. ASSUME NEW d \in basket.demand, d.type = t, d.from <= m, m < d.to
            PROVE  Cardinality(CountedRows(chairRes', mu)) <= Units[t]
        <4>1. \A e \in basket.demand :
                e.type = t /\ e.from < m + 1 /\ m < e.to => e = d
          BY <2>2, <2>3, <3>2, <3>6
        <4>2. CountedRows(chairRes', mu) \subseteq old \cup {new(d)}
          BY <2>1, <2>4, <4>1 DEF CountedRows, Overlap
        <4>3. old \subseteq CountedRows(chairRes, d)
          <5>1. SUFFICES ASSUME NEW r \in old PROVE r \in CountedRows(chairRes, d)
            OBVIOUS
          <5>2. /\ r \in chairRes /\ r.blocking /\ r.type = t
                /\ r.from < m + 1 /\ m < r.to /\ r.from \in Nat /\ r.to \in Nat
            BY <5>1 DEF CountedRows, Overlap, TypeOK, ChairRowSet
          <5>3. r.from < d.to /\ d.from < r.to
            BY <2>2, <3>2, <3>6, <5>2
          <5>4. QED BY <3>6, <5>2, <5>3 DEF CountedRows, Overlap
        <4>4. IsFiniteSet(CountedRows(chairRes, d))
          BY FS_Subset DEF ChairInv, CountedRows
        <4>5. Cardinality(old) <= Cardinality(CountedRows(chairRes, d))
          BY <4>3, <4>4, FS_Subset
        <4>6. /\ IsFiniteSet(old \cup {new(d)})
              /\ Cardinality(old \cup {new(d)}) <= Cardinality(old) + 1
          <5>1. ASSUME NEW x
                PROVE  /\ IsFiniteSet(old \cup {x})
                       /\ Cardinality(old \cup {x}) <= Cardinality(old) + 1
            <6> HIDE DEF old
            <6>1. /\ IsFiniteSet(old \cup {x})
                  /\ Cardinality(old \cup {x}) =
                       IF x \in old THEN Cardinality(old) ELSE Cardinality(old) + 1
              BY <3>3, FS_AddElement
            <6>2. QED BY <3>3, <6>1
          <5>2. QED BY <5>1
        <4>7. /\ Cardinality(CountedRows(chairRes', mu))
                   <= Cardinality(old \cup {new(d)})
              /\ Cardinality(CountedRows(chairRes', mu)) \in Nat
              /\ Cardinality(old \cup {new(d)}) \in Nat
              /\ Cardinality(CountedRows(chairRes, d)) \in Nat
          BY <4>2, <4>4, <4>6, FS_Subset, FS_CardinalityType
        <4>8. QED BY <2>2, <3>2, <3>3, <3>6, <4>5, <4>6, <4>7
      <3>7. QED BY <3>5, <3>6
    <2>7. CountStands'
      <3>1. SUFFICES ASSUME NEW d \in Clients, (req[d].pc = "insert")'
                     PROVE  (/\ TypesOf(req[d].basket) \subseteq LocksOf(d)
                             /\ ~NoChair(req[d].basket))'
        BY DEF CountStands
      <3>2. /\ d # c /\ req[d].pc = "insert" /\ req'[d].basket = req[d].basket
            /\ \A t \in Types : lock[t] = d => lock'[t] = d
            /\ TypesOf(req[d].basket) \subseteq LocksOf(d)
            /\ ~NoChair(req[d].basket)
        BY <1>2, <3>1 DEF ChairInv, CountStands
      <3>3. (TypesOf(req[d].basket) \subseteq LocksOf(d))'
        BY <3>2 DEF LocksOf, TypesOf
      <3>4. ASSUME NEW e \in req[d].basket.demand
            PROVE  CountedRows(chairRes', e) = CountedRows(chairRes, e)
        <4>1. lock[e.type] = d
          BY <3>2 DEF TypesOf, LocksOf
        <4>2. \A x \in basket.demand : x.type # e.type
          BY <2>2, <3>2, <4>1
        <4>3. QED BY <2>1, <2>4, <4>2 DEF CountedRows
      <3>5. (~NoChair(req[d].basket))'
        BY <3>2, <3>4 DEF NoChair, InUse
      <3>6. QED BY <3>3, <3>5
    <2>8. QED BY <2>5, <2>6, <2>7 DEF ChairInv
  <1>5. QED BY <1>3, <1>4

\* No operation on the diary breaks the invariant.
LEMMA ChairNext == TypeOK /\ ChairInv /\ [Next]_vars => ChairInv'
  <1> SUFFICES ASSUME TypeOK, ChairInv, [Next]_vars PROVE ChairInv'
    OBVIOUS
  <1>1. ASSUME UNCHANGED chairRes,
               \A d \in Clients : req'[d].pc = "insert" =>
                 /\ req[d].pc = "insert" /\ req'[d].basket = req[d].basket
                 /\ \A t \in Types : lock[t] = d => lock'[t] = d
        PROVE  ChairInv'
    <2>1. Shrinks(chairRes', chairRes, [r \in chairRes |-> r])
      BY <1>1, ShrinkCases
    <2>2. QED BY <1>1, <2>1, ChairShrinkStep
  <1>2. ASSUME NEW c \in Clients, NEW b \in Baskets, PlaceHold(c, b)
        PROVE  ChairInv'
    BY <1>1, <1>2 DEF PlaceHold, TypeOK, Idle
  <1>3. ASSUME NEW c \in Clients, PlaceLock(c) PROVE ChairInv'
    <2>1. \A d \in Clients, t \in Types : lock[t] = d => lock'[t] = d
      BY <1>3, NamesAssumption DEF PlaceLock, TypeOK, NamesAssumption
    <2>2. QED BY <1>1, <1>3, <2>1 DEF PlaceLock
  <1>4. ASSUME NEW c \in Clients, PlaceCount(c) PROVE ChairInv'
    <2>1. CASE NoChair(req[c].basket)
      BY <1>1, <1>4, <2>1 DEF PlaceCount, TypeOK, Idle, Unlock
    <2>2. CASE ~NoChair(req[c].basket)
      <3>1. /\ req' = [req EXCEPT ![c].pc = "insert"]
            /\ lock' = lock /\ chairRes' = chairRes
            /\ TypesOf(req[c].basket) \subseteq LocksOf(c)
        BY <1>4, <2>2 DEF PlaceCount
      <3>2. \A d \in Clients : req'[d].basket = req[d].basket
                               /\ (req'[d].pc = "insert" =>
                                     d = c \/ req[d].pc = "insert")
        BY <3>1 DEF TypeOK, Requests
      <3>3. CountStands'
        BY <2>2, <3>1, <3>2
        DEF ChairInv, CountStands, NoChair, InUse, TypesOf, LocksOf
      <3>4. QED BY <3>1, <3>3 DEF ChairInv, ChairCapacity, InUse
    <2>3. QED BY <2>1, <2>2
  <1>5. ASSUME NEW H \in SUBSET HoldIds, Delete(H), UNCHANGED <<lock, req>>
        PROVE  ChairInv'
    <2>1. Shrinks(chairRes', chairRes, [r \in chairRes |-> r])
      BY <1>5, ShrinkCases DEF Delete
    <2>2. QED BY <1>5, <2>1, ChairShrinkStep
  <1>6. ASSUME NEW h \in HoldIds, Release(h) PROVE ChairInv'
    BY <1>5, <1>6 DEF Release
  <1>7. ASSUME SweepExpired PROVE ChairInv'
    BY <1>5, <1>7 DEF SweepExpired, Expired
  <1>8. ASSUME NEW c \in Clients, NEW h \in HoldIds, NEW k \in AllKeys,
               NEW p \in Payments, ConfirmBooking(c, h, k, p)
        PROVE  ChairInv'
    BY <1>1, <1>8 DEF ConfirmBooking, TypeOK, Idle
  <1>9. ASSUME NEW c \in Clients, ConfirmReserve(c) PROVE ChairInv'
    <2>1. \/ \E a : req' = [req EXCEPT ![c] = Reply(c, a)]
          \/ req' = [req EXCEPT ![c].pc = "fast"]
      BY <1>9 DEF ConfirmReserve
    <2>2. \A a : Reply(c, a).pc = "idle"
      BY DEF Reply, Idle
    <2>3. lock' = lock /\ chairRes' = chairRes
      BY <1>9 DEF ConfirmReserve
    <2>4. \A d \in Clients : req'[d].pc = "insert" =>
             req[d].pc = "insert" /\ req'[d].basket = req[d].basket
      BY <2>1, <2>2 DEF TypeOK, Requests
    <2>5. QED BY <1>1, <2>3, <2>4
  <1>10. ASSUME NEW c \in Clients, ConfirmFastPath(c) PROVE ChairInv'
    BY <1>1, <1>10 DEF ConfirmFastPath, TypeOK, Requests, Replay, Reply, Idle
  <1>11. ASSUME NEW c \in Clients, ConfirmTx(c) PROVE ChairInv'
    <2>1. /\ lock' = lock
          /\ \A d \in Clients : req'[d].pc = "insert" =>
                req[d].pc = "insert" /\ req'[d].basket = req[d].basket
      <3>1. \/ \E a : req' = [req EXCEPT ![c] = Reply(c, a)]
            \/ \E x : req' = [req EXCEPT ![c] = Replay(c, x)]
            \/ req' = [req EXCEPT ![c].pc = "store"]
        BY <1>11 DEF ConfirmTx
      <3>2. \A a : Reply(c, a).pc = "idle" /\ Replay(c, a).pc = "idle"
        BY DEF Reply, Replay, Idle
      <3>3. lock' = lock
        BY <1>11 DEF ConfirmTx
      <3>4. QED BY <3>1, <3>2, <3>3 DEF TypeOK, Requests
    <2>2. CASE UNCHANGED chairRes
      BY <1>1, <2>1, <2>2
    <2>3. CASE ~UNCHANGED chairRes
      <3>1. PICK b \in BookingIds : chairRes' = Repoint(chairRes, req[c].hold, b)
        BY <1>11, <2>3 DEF ConfirmTx
      <3>2. Shrinks(chairRes', chairRes,
                    [r \in chairRes |-> IF r.owner = req[c].hold
                                       THEN [r EXCEPT !.owner = b] ELSE r])
        BY <3>1, ShrinkCases
      <3>3. QED BY <2>1, <3>2, ChairShrinkStep
    <2>4. QED BY <2>2, <2>3
  <1>12. ASSUME NEW c \in Clients, ConfirmStore(c) PROVE ChairInv'
    BY <1>1, <1>12 DEF ConfirmStore, TypeOK, Reply, Idle
  <1>13. ASSUME NEW b \in BookingIds, CancelBooking(b) PROVE ChairInv'
    <2>1. Shrinks(chairRes', chairRes,
                  [r \in chairRes |-> IF r.owner = b
                                     THEN [r EXCEPT !.blocking = FALSE] ELSE r])
      BY <1>13, ShrinkCases DEF CancelBooking
    <2>2. lock' = lock /\ req' = req
      BY <1>13 DEF CancelBooking
    <2>3. QED BY <2>1, <2>2, ChairShrinkStep
  <1>14. ASSUME NEW c \in Clients, Crash(c) PROVE ChairInv'
    BY <1>1, <1>14 DEF Crash, TypeOK, Idle, Unlock
  <1>15. Tick \/ UNCHANGED vars => ChairInv'
    BY <1>1 DEF Tick, vars
  <1>16. QED
    BY <1>2, <1>3, <1>4, <1>6, <1>7, <1>8, <1>9, <1>10, <1>11, <1>12, <1>13,
       <1>14, <1>15, InsertKeepsCapacity DEF Next, PlaceStep, ConfirmStep

\* Chairs are never oversold, for any numbers of clients, chair types, units
\* and demands: the advisory locks make the count and the insert one step.
THEOREM ChairsNeverOversold == Spec => [](ChairCapacity /\ CountStands)
  <1>1. Init => ChairInv
    <2>1. ASSUME Init PROVE IsFiniteSet(chairRes) /\ CountStands
      BY <2>1, FS_EmptySet DEF Init, CountStands, Idle
    <2>2. ASSUME Init, NEW t \in Types, NEW d
          PROVE  Cardinality(CountedRows(chairRes, d)) <= Units[t]
      <3>1. CountedRows(chairRes, d) = {}
        BY <2>2 DEF Init, CountedRows
      <3>2. Units[t] \in Nat
        BY BasketsAssumption DEF BasketsAssumption
      <3>3. QED BY <3>1, <3>2, FS_EmptySet
    <2>3. QED BY <2>1, <2>2 DEF ChairInv, ChairCapacity, InUse
  <1>2. ChairInv => ChairCapacity /\ CountStands
    BY DEF ChairInv
  <1>3. QED BY <1>1, <1>2, ChairNext, TypeCorrect, PTL DEF Spec

-----------------------------------------------------------------------------
(* Who owns the capacity, and what the diary promises.  A hold in the table *)
(* and a live booking are the owners: the blocking rows are theirs and no    *)
(* others, a hold makes one booking, and from both the tables implement the  *)
(* calendar of SlotCalendar.                                                 *)

Owners == {h \in HoldIds : hold[h].st = "held"} \cup {b \in BookingIds : Live(b)}

BasketOf(o) == IF o \in HoldIds THEN hold[o].basket
                                ELSE hold[booking[o].hold].basket

\* What the confirm transaction leaves behind for every booking it makes: the
\* hold is gone, its basket is known, and the key names this booking.
Ledger ==
    \A b \in BookingIds : booking[b].st # "unused" =>
        /\ booking[b].hold \in HoldIds /\ hold[booking[b].hold].st = "gone"
        /\ hold[booking[b].hold].basket \in Baskets
        /\ booking[b].key \in AllKeys /\ idem[booking[b].key].booking = b

HeldBaskets == \A h \in HoldIds : hold[h].st = "held" => hold[h].basket \in Baskets

StaffMatch ==
    /\ \A r \in staffRes : r.blocking =>
         r.owner \in Owners /\ r = StaffRow(r.owner, BasketOf(r.owner))
    /\ \A o \in Owners : StaffRow(o, BasketOf(o)) \in staffRes

ChairMatch ==
    /\ \A r \in chairRes : r.blocking =>
         r.owner \in Owners /\ r \in ChairRows(r.owner, BasketOf(r.owner))
    /\ \A o \in Owners : ChairRows(o, BasketOf(o)) \subseteq chairRes

\* The inductive invariant.
OwnerInv == /\ Ledger /\ HeldBaskets /\ OneBookingPerHold
            /\ StaffMatch /\ ChairMatch

-----------------------------------------------------------------------------
(* The four ways the set of owners changes. *)

\* Hold ids and booking ids are told apart, and every row says whose it is.
LEMMA OwnerRows ==
    ASSUME NEW o, NEW b
    PROVE  /\ StaffRow(o, b).owner = o /\ StaffRow(o, b).blocking
           /\ \A r \in ChairRows(o, b) : r.owner = o /\ r.blocking
  BY DEF StaffRow, ChairRows

\* Re-pointed, the rows of a basket are the rows the new owner would have had.
LEMMA RepointRows ==
    ASSUME NEW h \in HoldIds, NEW b \in BookingIds, NEW basket \in Baskets
    PROVE  /\ [StaffRow(h, basket) EXCEPT !.owner = b] = StaffRow(b, basket)
           /\ ChairRows(b, basket) =
                {[r EXCEPT !.owner = b] : r \in ChairRows(h, basket)}
  <1>1. [StaffRow(h, basket) EXCEPT !.owner = b] = StaffRow(b, basket)
    <2> DEFINE r == StaffRow(h, basket)
    <2>1. r \in StaffRows BY NewRows
    <2>2. [r EXCEPT !.owner = b] = [owner |-> b, staff |-> r.staff, from |-> r.from,
                               to |-> r.to, blocking |-> r.blocking]
      <3> HIDE DEF r
      <3>1. QED BY <2>1 DEF StaffRows
    <2>3. /\ r.staff = basket.staff /\ r.from = basket.from
          /\ r.to = basket.to /\ r.blocking = TRUE
      BY DEF StaffRow
    <2>4. QED BY <2>2, <2>3 DEF StaffRow
  <1> DEFINE row(o, d) == [owner |-> o, type |-> d.type, from |-> d.from,
                           to |-> d.to, blocking |-> TRUE]
  <1>2. ASSUME NEW d \in basket.demand
        PROVE  [row(h, d) EXCEPT !.owner = b] = row(b, d)
    <2> DEFINE r == row(h, d)
    <2>1. r \in ChairRowSet BY NewRows DEF ChairRows
    <2>2. [r EXCEPT !.owner = b] = [owner |-> b, type |-> r.type, from |-> r.from,
                               to |-> r.to, blocking |-> r.blocking]
      <3> HIDE DEF r
      <3>1. QED BY <2>1 DEF ChairRowSet
    <2>3. /\ r.type = d.type /\ r.from = d.from
          /\ r.to = d.to /\ r.blocking = TRUE
      OBVIOUS
    <2>4. QED BY <2>2, <2>3
  <1>3. \A o : ChairRows(o, basket) = {row(o, d) : d \in basket.demand}
    BY DEF ChairRows
  <1> HIDE DEF row
  <1>4. {[r EXCEPT !.owner = b] : r \in {row(h, d) : d \in basket.demand}}
          = {row(b, d) : d \in basket.demand}
    BY <1>2
  <1>5. QED BY <1>1, <1>3, <1>4

\* A step that leaves the tables alone leaves the owners alone.
LEMMA OwnersStay ==
    ASSUME OwnerInv, UNCHANGED <<hold, booking, staffRes, chairRes>>,
           \A k \in AllKeys : idem'[k].booking = idem[k].booking
    PROVE  OwnerInv'
  BY DEF OwnerInv, Ledger, HeldBaskets, OneBookingPerHold, StaffMatch,
         ChairMatch, Owners, BasketOf, Live

\* Deleting holds takes them out of the owners, and their rows with them.
LEMMA OwnersLeave ==
    ASSUME TypeOK, OwnerInv, NEW H \in SUBSET HoldIds,
           \A h \in H : hold[h].st = "held",
           Delete(H), UNCHANGED <<booking, idem>>
    PROVE  OwnerInv' /\ Owners' = Owners \ H
           /\ \A o \in Owners' : BasketOf(o)' = BasketOf(o)
  <1>1. \A h \in HoldIds : /\ hold'[h].basket = hold[h].basket
                           /\ hold'[h].st = IF h \in H THEN "gone" ELSE hold[h].st
    BY DEF Delete, TypeOK
  <1>2. Owners' = Owners \ H
    BY <1>1, NamesAssumption DEF Owners, Live, NamesAssumption
  <1>3. /\ \A o \in Owners : BasketOf(o)' = BasketOf(o)
        /\ Ledger' /\ HeldBaskets' /\ OneBookingPerHold'
    BY <1>1 DEF BasketOf, Owners, Live, OwnerInv, Ledger, HeldBaskets,
                OneBookingPerHold, TypeOK
  <1>4. StaffMatch'
    <2>1. \A r : r \in staffRes' <=> r \in staffRes /\ r.owner \notin H
      BY DEF Delete, DropStaffRows
    <2>2. ASSUME NEW o \in Owners'
          PROVE  StaffRow(o, BasketOf(o)') \in staffRes'
      BY <1>2, <1>3, <2>1, OwnerRows DEF OwnerInv, StaffMatch
    <2>3. ASSUME NEW r \in staffRes', r.blocking
          PROVE  r.owner \in Owners' /\ r = StaffRow(r.owner, BasketOf(r.owner)')
      BY <1>2, <1>3, <2>1, <2>3 DEF OwnerInv, StaffMatch
    <2>4. QED BY <2>2, <2>3 DEF StaffMatch
  <1>5. ChairMatch'
    <2>1. \A r : r \in chairRes' <=> r \in chairRes /\ r.owner \notin H
      BY DEF Delete, DropChairRows
    <2>2. ASSUME NEW o \in Owners'
          PROVE  ChairRows(o, BasketOf(o)') \subseteq chairRes'
      BY <1>2, <1>3, <2>1, OwnerRows DEF OwnerInv, ChairMatch
    <2>3. ASSUME NEW r \in chairRes', r.blocking
          PROVE  r.owner \in Owners' /\ r \in ChairRows(r.owner, BasketOf(r.owner)')
      BY <1>2, <1>3, <2>1, <2>3 DEF OwnerInv, ChairMatch
    <2>4. QED BY <2>2, <2>3 DEF ChairMatch
  <1>6. QED BY <1>2, <1>3, <1>4, <1>5 DEF OwnerInv

\* The insert of place() makes one more owner, with the rows it asked for.
LEMMA OwnerArrives ==
    ASSUME TypeOK, OwnerInv, NEW h \in HoldIds, NEW b \in Baskets, NEW x \in Nat,
           hold[h].st = "unused",
           hold' = [hold EXCEPT ![h] = [st |-> "held", basket |-> b, exp |-> x]],
           staffRes' = staffRes \cup {StaffRow(h, b)},
           chairRes' = chairRes \cup ChairRows(h, b),
           UNCHANGED <<booking, idem>>
    PROVE  OwnerInv' /\ Owners' = Owners \cup {h} /\ BasketOf(h)' = b
           /\ h \notin Owners /\ \A o \in Owners : BasketOf(o)' = BasketOf(o)
  <1>1. /\ hold'[h].st = "held" /\ hold'[h].basket = b
        /\ \A g \in HoldIds : g # h => hold'[g] = hold[g]
    BY DEF TypeOK
  <1>2. Owners' = Owners \cup {h} /\ h \notin Owners /\ h \notin BookingIds
    BY <1>1, NamesAssumption DEF Owners, Live, NamesAssumption
  <1>3. BasketOf(h)' = b
    BY <1>1 DEF BasketOf
  <1>4. \A o \in Owners : BasketOf(o)' = BasketOf(o)
    <2>1. \A o \in BookingIds : Live(o) =>
             o \notin HoldIds /\ booking[o].hold \in HoldIds /\ booking[o].hold # h
      BY NamesAssumption DEF OwnerInv, Ledger, Live, NamesAssumption
    <2>2. QED BY <1>1, <1>2, <2>1 DEF BasketOf, Owners
  <1>5. Ledger' /\ HeldBaskets' /\ OneBookingPerHold'
    BY <1>1 DEF OwnerInv, Ledger, HeldBaskets, OneBookingPerHold
  <1>6. StaffMatch'
    <2>1. ASSUME NEW o \in Owners'
          PROVE  StaffRow(o, BasketOf(o)') \in staffRes'
      BY <1>2, <1>3, <1>4 DEF OwnerInv, StaffMatch
    <2>2. ASSUME NEW r \in staffRes', r.blocking
          PROVE  r.owner \in Owners' /\ r = StaffRow(r.owner, BasketOf(r.owner)')
      BY <1>2, <1>3, <1>4, <2>2, OwnerRows DEF OwnerInv, StaffMatch
    <2>3. QED BY <2>1, <2>2 DEF StaffMatch
  <1>7. ChairMatch'
    <2>1. ASSUME NEW o \in Owners'
          PROVE  ChairRows(o, BasketOf(o)') \subseteq chairRes'
      BY <1>2, <1>3, <1>4 DEF OwnerInv, ChairMatch
    <2>2. ASSUME NEW r \in chairRes', r.blocking
          PROVE  r.owner \in Owners' /\ r \in ChairRows(r.owner, BasketOf(r.owner)')
      BY <1>2, <1>3, <1>4, <2>2, OwnerRows DEF OwnerInv, ChairMatch
    <2>3. QED BY <2>1, <2>2 DEF ChairMatch
  <1>8. QED BY <1>2, <1>3, <1>4, <1>5, <1>6, <1>7 DEF OwnerInv

\* The commit of the confirm transaction hands a hold's rows to the booking.
LEMMA OwnerHandsOver ==
    ASSUME TypeOK, OwnerInv, NEW h \in HoldIds, NEW b \in BookingIds,
           NEW k \in AllKeys, NEW p, NEW x, NEW st \in {"confirmed", "pending_payment"},
           hold[h].st = "held", booking[b].st = "unused", idem[k].booking = None,
           booking' = [booking EXCEPT ![b] = [st |-> st, hold |-> h, key |-> k,
                                             pay |-> p, at |-> x]],
           hold' = [hold EXCEPT ![h].st = "gone"],
           idem' = [idem EXCEPT ![k] = [booking |-> b, body |-> "raw"]],
           staffRes' = Repoint(staffRes, h, b),
           chairRes' = Repoint(chairRes, h, b)
    PROVE  OwnerInv' /\ Owners' = (Owners \ {h}) \cup {b}
           /\ h \in Owners /\ b \notin Owners
           /\ BasketOf(h) \in Baskets /\ BasketOf(b)' = BasketOf(h)
           /\ \A o \in Owners \ {h} : BasketOf(o)' = BasketOf(o)
  <1>1. /\ \A g \in HoldIds : hold'[g].basket = hold[g].basket
        /\ hold'[h].st = "gone"
        /\ \A g \in HoldIds : g # h => hold'[g].st = hold[g].st
    BY DEF TypeOK
  <1>2. /\ booking'[b].st = st /\ booking'[b].hold = h /\ booking'[b].key = k
        /\ \A a \in BookingIds : a # b => booking'[a] = booking[a]
        /\ idem'[k].booking = b
        /\ \A l \in AllKeys : l # k => idem'[l] = idem[l]
    BY DEF TypeOK
  <1>3. b \notin HoldIds /\ h \notin BookingIds /\ b # None
        /\ \A a \in BookingIds : a \notin HoldIds /\ a # None
    BY NamesAssumption DEF NamesAssumption
  <1>4. Owners' = (Owners \ {h}) \cup {b} /\ h \in Owners /\ b \notin Owners
    BY <1>1, <1>2, <1>3 DEF Owners, Live
  <1>5. BasketOf(h) \in Baskets /\ BasketOf(b)' = BasketOf(h)
    BY <1>1, <1>2, <1>3 DEF BasketOf, OwnerInv, HeldBaskets
  <1>6. ASSUME NEW a \in BookingIds, booking[a].st # "unused"
        PROVE  /\ booking[a].hold \in HoldIds /\ booking[a].hold # h
               /\ booking[a].key \in AllKeys /\ booking[a].key # k
    BY <1>3, <1>6 DEF OwnerInv, Ledger
  <1>7. \A o \in Owners \ {h} : BasketOf(o)' = BasketOf(o)
    <2>1. ASSUME NEW o \in BookingIds, Live(o) PROVE BasketOf(o)' = BasketOf(o)
      <3>1. booking[o].st # "unused" /\ o # b
        BY <2>1 DEF Live
      <3>2. QED BY <1>1, <1>2, <1>3, <1>6, <3>1 DEF BasketOf
    <2>2. QED BY <1>1, <2>1 DEF Owners, BasketOf
  <1>8. Ledger'
    <2>1. SUFFICES ASSUME NEW a \in BookingIds, booking'[a].st # "unused"
          PROVE  /\ booking'[a].hold \in HoldIds /\ hold'[booking'[a].hold].st = "gone"
                 /\ hold'[booking'[a].hold].basket \in Baskets
                 /\ booking'[a].key \in AllKeys /\ idem'[booking'[a].key].booking = a
      BY DEF Ledger
    <2>2. CASE a = b
      BY <1>1, <1>2, <2>2 DEF OwnerInv, HeldBaskets
    <2>3. CASE a # b
      <3>1. booking'[a] = booking[a] /\ booking[a].st # "unused"
        BY <1>2, <2>1, <2>3
      <3>2. QED BY <1>1, <1>2, <1>6, <3>1 DEF OwnerInv, Ledger
    <2>4. QED BY <2>2, <2>3
  <1>9. HeldBaskets'
    BY <1>1 DEF OwnerInv, HeldBaskets
  <1>10. OneBookingPerHold'
    BY <1>2, <1>6 DEF OwnerInv, OneBookingPerHold
  <1>11. StaffMatch'
    <2>1. \A r : r \in staffRes' <=>
             \/ r \in staffRes /\ r.owner # h
             \/ \E s \in staffRes : s.owner = h /\ r = [s EXCEPT !.owner = b]
      BY DEF Repoint
    <2>2. ASSUME NEW o \in Owners'
          PROVE  StaffRow(o, BasketOf(o)') \in staffRes'
      <3>1. CASE o = b
        BY <1>4, <1>5, <2>1, <3>1, OwnerRows, RepointRows DEF OwnerInv, StaffMatch
      <3>2. CASE o # b
        <4>1. o \in Owners \ {h} BY <1>4, <3>2
        <4>2. QED BY <1>7, <2>1, <4>1, OwnerRows DEF OwnerInv, StaffMatch
      <3>3. QED BY <3>1, <3>2
    <2>3. ASSUME NEW r \in staffRes', r.blocking
          PROVE  r.owner \in Owners' /\ r = StaffRow(r.owner, BasketOf(r.owner)')
      <3>1. CASE r \in staffRes /\ r.owner # h
        <4>1. r.owner \in Owners \ {h} /\ r = StaffRow(r.owner, BasketOf(r.owner))
          BY <2>3, <3>1 DEF OwnerInv, StaffMatch
        <4>2. QED BY <1>4, <1>7, <4>1
      <3>2. ASSUME NEW s \in staffRes, s.owner = h, r = [s EXCEPT !.owner = b]
            PROVE  r.owner \in Owners' /\ r = StaffRow(r.owner, BasketOf(r.owner)')
        <4>1. s.blocking /\ r.owner = b
          BY <2>3, <3>2 DEF TypeOK, StaffRows
        <4>2. s = StaffRow(h, BasketOf(h))
          BY <3>2, <4>1 DEF OwnerInv, StaffMatch
        <4>3. QED BY <1>4, <1>5, <3>2, <4>1, <4>2, RepointRows
      <3>3. QED BY <2>1, <3>1, <3>2
    <2>4. QED BY <2>2, <2>3 DEF StaffMatch
  <1>12. ChairMatch'
    <2>1. \A r : r \in chairRes' <=>
             \/ r \in chairRes /\ r.owner # h
             \/ \E s \in chairRes : s.owner = h /\ r = [s EXCEPT !.owner = b]
      BY DEF Repoint
    <2>2. ASSUME NEW o \in Owners'
          PROVE  ChairRows(o, BasketOf(o)') \subseteq chairRes'
      <3>1. CASE o = b
        BY <1>4, <1>5, <2>1, <3>1, OwnerRows, RepointRows DEF OwnerInv, ChairMatch
      <3>2. CASE o # b
        <4>1. o \in Owners \ {h} BY <1>4, <3>2
        <4>2. QED BY <1>7, <2>1, <4>1, OwnerRows DEF OwnerInv, ChairMatch
      <3>3. QED BY <3>1, <3>2
    <2>3. ASSUME NEW r \in chairRes', r.blocking
          PROVE  r.owner \in Owners' /\ r \in ChairRows(r.owner, BasketOf(r.owner)')
      <3>1. CASE r \in chairRes /\ r.owner # h
        <4>1. r.owner \in Owners \ {h} /\ r \in ChairRows(r.owner, BasketOf(r.owner))
          BY <2>3, <3>1 DEF OwnerInv, ChairMatch
        <4>2. QED BY <1>4, <1>7, <4>1
      <3>2. ASSUME NEW s \in chairRes, s.owner = h, r = [s EXCEPT !.owner = b]
            PROVE  r.owner \in Owners' /\ r \in ChairRows(r.owner, BasketOf(r.owner)')
        <4>1. s.blocking /\ r.owner = b
          BY <2>3, <3>2 DEF TypeOK, ChairRowSet
        <4>2. s \in ChairRows(h, BasketOf(h))
          BY <3>2, <4>1 DEF OwnerInv, ChairMatch
        <4>3. QED BY <1>4, <1>5, <3>2, <4>1, <4>2, RepointRows
      <3>3. QED BY <2>1, <3>1, <3>2
    <2>4. QED BY <2>2, <2>3 DEF ChairMatch
  <1>13. QED BY <1>4, <1>5, <1>7, <1>8, <1>9, <1>10, <1>11, <1>12 DEF OwnerInv

\* A cancellation takes a booking out of the owners: its rows stay, unblocked.
LEMMA OwnerCancels ==
    ASSUME TypeOK, OwnerInv, NEW b \in BookingIds, CancelBooking(b)
    PROVE  OwnerInv' /\ Owners' = Owners \ {b} /\ b \in Owners
           /\ \A o \in Owners : BasketOf(o)' = BasketOf(o)
  <1>1. /\ Live(b) /\ booking'[b].st = "cancelled"
        /\ booking'[b].hold = booking[b].hold /\ booking'[b].key = booking[b].key
        /\ \A a \in BookingIds : a # b => booking'[a] = booking[a]
        /\ UNCHANGED <<hold, idem>>
    BY DEF CancelBooking, TypeOK, Live
  <1>2. Owners' = Owners \ {b} /\ b \in Owners
    BY <1>1, NamesAssumption DEF Owners, Live, NamesAssumption
  <1>3. \A o \in Owners : BasketOf(o)' = BasketOf(o)
    BY <1>1 DEF BasketOf, Owners
  <1>4. Ledger' /\ HeldBaskets' /\ OneBookingPerHold'
    <2>1. \A a \in BookingIds : /\ booking'[a].st # "unused" => booking[a].st # "unused"
                                /\ booking'[a].hold = booking[a].hold
                                /\ booking'[a].key = booking[a].key
      BY <1>1 DEF Live
    <2>2. QED BY <1>1, <2>1 DEF OwnerInv, Ledger, HeldBaskets, OneBookingPerHold
  <1>5. ASSUME NEW rows, NEW S, S = StaffRows \/ S = ChairRowSet, rows \subseteq S,
               NEW r, r.blocking
        PROVE  r \in Unblock(rows, b) <=> r \in rows /\ r.owner # b
    <2>1. CASE r \in Unblock(rows, b)
      <3>1. PICK s \in rows :
               r = IF s.owner = b THEN [s EXCEPT !.blocking = FALSE] ELSE s
        BY <2>1, RowsComeFrom
      <3>2. s.owner # b
        <4>1. SUFFICES ASSUME s.owner = b PROVE FALSE
          OBVIOUS
        <4>2. r.blocking = FALSE
          BY <1>5, <3>1, <4>1 DEF StaffRows, ChairRowSet
        <4>3. QED BY <1>5, <4>2
      <3>3. QED BY <2>1, <3>1, <3>2
    <2>2. CASE r \in rows /\ r.owner # b
      BY <2>2 DEF Unblock
    <2>3. QED BY <2>1, <2>2
  <1>6. StaffMatch'
    <2>1. \A r : r.blocking => (r \in staffRes' <=> r \in staffRes /\ r.owner # b)
      BY <1>5 DEF CancelBooking, TypeOK
    <2>2. ASSUME NEW o \in Owners'
          PROVE  StaffRow(o, BasketOf(o)') \in staffRes'
      BY <1>2, <1>3, <2>1, OwnerRows DEF OwnerInv, StaffMatch
    <2>3. ASSUME NEW r \in staffRes', r.blocking
          PROVE  r.owner \in Owners' /\ r = StaffRow(r.owner, BasketOf(r.owner)')
      BY <1>2, <1>3, <2>1, <2>3 DEF OwnerInv, StaffMatch
    <2>4. QED BY <2>2, <2>3 DEF StaffMatch
  <1>7. ChairMatch'
    <2>1. \A r : r.blocking => (r \in chairRes' <=> r \in chairRes /\ r.owner # b)
      BY <1>5 DEF CancelBooking, TypeOK
    <2>2. ASSUME NEW o \in Owners'
          PROVE  ChairRows(o, BasketOf(o)') \subseteq chairRes'
      BY <1>2, <1>3, <2>1, OwnerRows DEF OwnerInv, ChairMatch
    <2>3. ASSUME NEW r \in chairRes', r.blocking
          PROVE  r.owner \in Owners' /\ r \in ChairRows(r.owner, BasketOf(r.owner)')
      BY <1>2, <1>3, <2>1, <2>3 DEF OwnerInv, ChairMatch
    <2>4. QED BY <2>2, <2>3 DEF ChairMatch
  <1>8. QED BY <1>2, <1>3, <1>4, <1>6, <1>7 DEF OwnerInv

-----------------------------------------------------------------------------
(* What a step does to the diary. *)

Quiet ==
    /\ UNCHANGED <<hold, booking, staffRes, chairRes>>
    /\ \A k \in AllKeys : idem'[k].booking = idem[k].booking

Removes(H) ==
    /\ \A h \in H : hold[h].st = "held"
    /\ Delete(H) /\ UNCHANGED <<booking, idem>>

Inserts(h, b, x) ==
    /\ hold[h].st = "unused" /\ ~StaffTaken(b)
    /\ hold' = [hold EXCEPT ![h] = [st |-> "held", basket |-> b, exp |-> x]]
    /\ staffRes' = staffRes \cup {StaffRow(h, b)}
    /\ chairRes' = chairRes \cup ChairRows(h, b)
    /\ UNCHANGED <<booking, idem>>

Books(h, b, k, p, x) ==
    /\ hold[h].st = "held" /\ booking[b].st = "unused" /\ idem[k].booking = None
    /\ booking' = [booking EXCEPT ![b] = [st |-> ResolveStatus(p), hold |-> h,
                                         key |-> k, pay |-> p, at |-> x]]
    /\ hold' = [hold EXCEPT ![h].st = "gone"]
    /\ idem' = [idem EXCEPT ![k] = [booking |-> b, body |-> "raw"]]
    /\ staffRes' = Repoint(staffRes, h, b)
    /\ chairRes' = Repoint(chairRes, h, b)

\* Every round trip of every request, every sweep, crash and tick does one of
\* five things to the tables of the diary.
LEMMA DiarySteps ==
    ASSUME TypeOK, [Next]_vars
    PROVE  \/ Quiet
           \/ \E H \in SUBSET HoldIds : Removes(H)
           \/ \E h \in HoldIds, b \in Baskets, x \in Nat : Inserts(h, b, x)
           \/ \E h \in HoldIds, b \in BookingIds, k \in AllKeys, p \in Payments,
                 x \in Nat : Books(h, b, k, p, x)
           \/ \E b \in BookingIds : CancelBooking(b)
  <1>1. ASSUME NEW c \in Clients,
               \/ \E b \in Baskets : PlaceHold(c, b)
               \/ PlaceLock(c) \/ PlaceCount(c)
               \/ \E h \in HoldIds, k \in AllKeys, p \in Payments :
                     ConfirmBooking(c, h, k, p)
               \/ ConfirmReserve(c) \/ ConfirmFastPath(c) \/ Crash(c)
        PROVE  Quiet
    BY <1>1 DEF Quiet, PlaceHold, PlaceLock, PlaceCount, ConfirmBooking,
                ConfirmReserve, ConfirmFastPath, Crash
  <1>2. Tick \/ UNCHANGED vars => Quiet
    BY DEF Quiet, Tick, vars
  <1>3. ASSUME NEW c \in Clients, ConfirmStore(c) PROVE Quiet
    <2>1. req[c].key \in AllKeys
      BY <1>3 DEF ConfirmStore, TypeOK, WellFormed, Confirming
    <2>2. /\ idem' = [idem EXCEPT ![req[c].key].body = "view"]
          /\ UNCHANGED <<hold, booking, staffRes, chairRes>>
      BY <1>3 DEF ConfirmStore
    <2>3. \A k \in AllKeys : idem'[k].booking = idem[k].booking
      BY <2>1, <2>2 DEF TypeOK
    <2>4. QED BY <2>2, <2>3 DEF Quiet
  <1>4. ASSUME NEW c \in Clients, PlaceInsert(c)
        PROVE  Quiet \/ \E h \in HoldIds, b \in Baskets, x \in Nat : Inserts(h, b, x)
    <2>1. req[c].basket \in Baskets /\ req[c].at + TTL \in Nat
      BY <1>4, BoundsAssumption
      DEF PlaceInsert, TypeOK, WellFormed, Requests, Placing
    <2>2. CASE StaffTaken(req[c].basket)
      BY <1>4, <2>2 DEF PlaceInsert, Quiet
    <2>3. CASE ~StaffTaken(req[c].basket)
      <3>1. PICK h \in HoldIds : Inserts(h, req[c].basket, req[c].at + TTL)
        BY <1>4, <2>3 DEF PlaceInsert, Inserts
      <3>2. QED BY <2>1, <3>1
    <2>4. QED BY <2>2, <2>3
  <1>5. ASSUME NEW h \in HoldIds, Release(h)
        PROVE  \E H \in SUBSET HoldIds : Removes(H)
    <2>1. Removes({h}) BY <1>5 DEF Release, Removes
    <2>2. QED BY <2>1
  <1>6. ASSUME SweepExpired PROVE \E H \in SUBSET HoldIds : Removes(H)
    <2>1. Removes(Expired) BY <1>6 DEF SweepExpired, Removes, Expired
    <2>2. Expired \in SUBSET HoldIds BY DEF Expired
    <2>3. QED BY <2>1, <2>2
  <1>7. ASSUME NEW c \in Clients, ConfirmTx(c)
        PROVE  \/ Quiet
               \/ \E h \in HoldIds, b \in BookingIds, k \in AllKeys, p \in Payments,
                     x \in Nat : Books(h, b, k, p, x)
    <2>1. /\ req[c].hold \in HoldIds /\ req[c].key \in AllKeys
          /\ req[c].pay \in Payments /\ req[c].at \in Nat
      BY <1>7 DEF ConfirmTx, TypeOK, WellFormed, Requests, Confirming
    <2>2. CASE UNCHANGED <<hold, booking, staffRes, chairRes, idem>>
      BY <2>2 DEF Quiet
    <2>3. CASE ~UNCHANGED <<hold, booking, staffRes, chairRes, idem>>
      <3>1. PICK b \in BookingIds :
               Books(req[c].hold, b, req[c].key, req[c].pay, req[c].at)
        BY <1>7, <2>3 DEF ConfirmTx, Books, HoldAlive
      <3>2. QED BY <2>1, <3>1
    <2>4. QED BY <2>2, <2>3
  <1>8. QED
    BY <1>1, <1>2, <1>3, <1>4, <1>5, <1>6, <1>7 DEF Next, PlaceStep, ConfirmStep

\* No step takes capacity from an owner, gives it to two, or leaves it blocked
\* with nobody.
LEMMA OwnerNext == TypeOK /\ OwnerInv /\ [Next]_vars => OwnerInv'
  <1> SUFFICES ASSUME TypeOK, OwnerInv, [Next]_vars PROVE OwnerInv'
    OBVIOUS
  <1>1. CASE Quiet
    BY <1>1, OwnersStay DEF Quiet
  <1>2. ASSUME NEW H \in SUBSET HoldIds, Removes(H) PROVE OwnerInv'
    BY <1>2, OwnersLeave DEF Removes
  <1>3. ASSUME NEW h \in HoldIds, NEW b \in Baskets, NEW x \in Nat,
               Inserts(h, b, x)
        PROVE  OwnerInv'
    BY <1>3, OwnerArrives DEF Inserts
  <1>4. ASSUME NEW h \in HoldIds, NEW b \in BookingIds, NEW k \in AllKeys,
               NEW p \in Payments, NEW x \in Nat, Books(h, b, k, p, x)
        PROVE  OwnerInv'
    <2>1. ResolveStatus(p) \in {"confirmed", "pending_payment"}
      BY DEF ResolveStatus
    <2>2. QED BY <1>4, <2>1, OwnerHandsOver DEF Books
  <1>5. ASSUME NEW b \in BookingIds, CancelBooking(b) PROVE OwnerInv'
    BY <1>5, OwnerCancels
  <1>6. QED BY <1>1, <1>2, <1>3, <1>4, <1>5, DiarySteps

\* The empty diary has no owners and no rows.
LEMMA OwnerInit == Init => OwnerInv
  BY DEF Init, OwnerInv, Ledger, HeldBaskets, OneBookingPerHold, StaffMatch,
         ChairMatch, Owners, Live

\* The invariant holds of every reachable state.
LEMMA OwnersAlways == Spec => []OwnerInv
  BY OwnerInit, OwnerNext, TypeCorrect, PTL DEF Spec

\* "A hold can produce exactly one booking", and an idempotency key names one
\* booking, for any number of retries, keys, clients and crashes: the row lock
\* on the hold and the unique index on the key, both inside the transaction.
THEOREM HoldMakesOneBooking == Spec => []OneBookingPerHold
  <1>1. OwnerInv => OneBookingPerHold BY DEF OwnerInv
  <1>2. QED BY <1>1, OwnersAlways, PTL

\* A hold in the table and a live booking block exactly what was asked for, and
\* nothing else blocks: no crash, sweep, confirm or cancel leaks a slot or
\* frees one that is still owed.
THEOREM CapacityIsOwned == Spec => []CapacityFollowsOwner
  <1>1. OwnerInv => CapacityFollowsOwner
    <2> SUFFICES ASSUME OwnerInv PROVE CapacityFollowsOwner
      OBVIOUS
    <2> DEFINE held == {h \in HoldIds : hold[h].st = "held"}
               live == {b \in BookingIds : Live(b)}
               HeldStaff == {StaffRow(h, hold[h].basket) : h \in held}
               LiveStaff == {StaffRow(b, hold[booking[b].hold].basket) : b \in live}
               HeldChairs == {ChairRows(h, hold[h].basket) : h \in held}
               LiveChairs == {ChairRows(b, hold[booking[b].hold].basket) : b \in live}
    <2>1. /\ \A h \in held : h \in Owners /\ BasketOf(h) = hold[h].basket
          /\ \A b \in live : b \in Owners /\ BasketOf(b) = hold[booking[b].hold].basket
          /\ \A o \in Owners : o \in held \/ o \in live
      BY NamesAssumption DEF Owners, BasketOf, NamesAssumption
    <2>2. {r \in staffRes : r.blocking} = HeldStaff \cup LiveStaff
      <3>1. ASSUME NEW r \in staffRes, r.blocking PROVE r \in HeldStaff \cup LiveStaff
        BY <2>1, <3>1 DEF OwnerInv, StaffMatch
      <3>2. ASSUME NEW r \in HeldStaff \cup LiveStaff
            PROVE  r \in staffRes /\ r.blocking
        BY <2>1, <3>2, OwnerRows DEF OwnerInv, StaffMatch
      <3>3. QED BY <3>1, <3>2
    <2>3. {r \in chairRes : r.blocking} = UNION (HeldChairs \cup LiveChairs)
      <3>1. ASSUME NEW r \in chairRes, r.blocking
            PROVE  r \in UNION (HeldChairs \cup LiveChairs)
        <4>1. r.owner \in Owners /\ r \in ChairRows(r.owner, BasketOf(r.owner))
          BY <3>1 DEF OwnerInv, ChairMatch
        <4>2. ChairRows(r.owner, BasketOf(r.owner)) \in HeldChairs \cup LiveChairs
          BY <2>1, <4>1
        <4>3. QED BY <4>1, <4>2
      <3>2. ASSUME NEW r \in UNION (HeldChairs \cup LiveChairs)
            PROVE  r \in chairRes /\ r.blocking
        <4>1. PICK o \in Owners : r \in ChairRows(o, BasketOf(o))
          BY <2>1, <3>2
        <4>2. QED BY <4>1, OwnerRows DEF OwnerInv, ChairMatch
      <3>3. QED BY <3>1, <3>2
    <2>4. QED BY <2>2, <2>3 DEF CapacityFollowsOwner
  <1>2. QED BY <1>1, OwnersAlways, PTL

-----------------------------------------------------------------------------
(* The diary implements the calendar. *)

SlotOf(b)  == [staff |-> b.staff, from |-> b.from, to |-> b.to]
ClaimOf(o) == [slot |-> SlotOf(BasketOf(o)),
               kind |-> IF o \in HoldIds THEN "held" ELSE "booked"]

\* The claims are the owners' slots, held or booked as the owner is.
LEMMA ClaimsOfOwners == OwnerInv => Claims = {ClaimOf(o) : o \in Owners}
  <1> SUFFICES ASSUME OwnerInv PROVE Claims = {ClaimOf(o) : o \in Owners}
    OBVIOUS
  <1> DEFINE claim(r) == [slot |-> [staff |-> r.staff, from |-> r.from, to |-> r.to],
                          kind |-> IF r.owner \in HoldIds THEN "held" ELSE "booked"]
  <1>1. \A o : claim(StaffRow(o, BasketOf(o))) = ClaimOf(o)
    BY DEF StaffRow, ClaimOf, SlotOf
  <1>2. Claims = {claim(r) : r \in {s \in staffRes : s.blocking}}
    BY DEF Claims
  <1> HIDE DEF claim
  <1>3. ASSUME NEW r \in staffRes, r.blocking
        PROVE  \E o \in Owners : claim(r) = ClaimOf(o)
    BY <1>1, <1>3 DEF OwnerInv, StaffMatch
  <1>4. ASSUME NEW o \in Owners
        PROVE  \E r \in staffRes : r.blocking /\ claim(r) = ClaimOf(o)
    BY <1>1, OwnerRows DEF OwnerInv, StaffMatch
  <1>5. QED BY <1>2, <1>3, <1>4

\* Every owner's slot is one a basket can ask for.
LEMMA OwnersAskedFor ==
    ASSUME OwnerInv, NEW o \in Owners
    PROVE  BasketOf(o) \in Baskets /\ SlotOf(BasketOf(o)) \in ClaimSlots
  <1>1. BasketOf(o) \in Baskets
    BY NamesAssumption
    DEF OwnerInv, Ledger, HeldBaskets, Owners, Live, BasketOf, NamesAssumption
  <1>2. QED BY <1>1 DEF ClaimSlots, SlotOf

\* Two owners never share a slot: a window clashes with itself.
LEMMA OwnersApart ==
    ASSUME OwnerInv, NoDoubleBooking, NEW o \in Owners, NEW p \in Owners,
           SlotOf(BasketOf(o)) = SlotOf(BasketOf(p))
    PROVE  o = p
  <1> DEFINE r == StaffRow(o, BasketOf(o))
             s == StaffRow(p, BasketOf(p))
  <1>1. r \in staffRes /\ s \in staffRes
    BY DEF OwnerInv, StaffMatch
  <1>2. /\ BasketOf(o).staff = BasketOf(p).staff
        /\ BasketOf(o).from = BasketOf(p).from /\ BasketOf(o).to = BasketOf(p).to
    BY DEF SlotOf
  <1>3. BasketOf(o).from < BasketOf(o).to
    BY OwnersAskedFor, BasketsAssumption DEF BasketsAssumption
  <1>4. /\ r.owner = o /\ s.owner = p /\ r.blocking /\ s.blocking
        /\ r.staff = s.staff /\ Overlap(r, s)
    BY <1>2, <1>3 DEF StaffRow, Overlap
  <1> HIDE DEF r, s
  <1>5. r = s
    BY <1>1, <1>4 DEF NoDoubleBooking
  <1>6. QED BY <1>4, <1>5

\* Held and booked claims, as the calendar names them.
LEMMA ClaimKinds ==
    ASSUME NEW o
    PROVE  /\ o \in HoldIds => ClaimOf(o) = Calendar!Held(SlotOf(BasketOf(o)))
           /\ o \in BookingIds => ClaimOf(o) = Calendar!Booked(SlotOf(BasketOf(o)))
           /\ ClaimOf(o).slot = SlotOf(BasketOf(o))
           /\ \A s, t : /\ Calendar!Held(s) # Calendar!Booked(t)
                        /\ (Calendar!Held(s) = Calendar!Held(t) => s = t)
                        /\ (Calendar!Booked(s) = Calendar!Booked(t) => s = t)
  <1>1. \A s, t : /\ Calendar!Held(s).kind = "held" /\ Calendar!Booked(s).kind = "booked"
                  /\ Calendar!Held(s).slot = s /\ Calendar!Booked(s).slot = s
    BY DEF Calendar!Held, Calendar!Booked
  <1>2. QED
    BY <1>1, NamesAssumption
    DEF ClaimOf, Calendar!Held, Calendar!Booked, NamesAssumption

\* The same of the state after a step.
LEMMA ClaimsOfOwnersNext == OwnerInv' => Claims' = {ClaimOf(o)' : o \in Owners'}
  <1>1. (OwnerInv => Claims = {ClaimOf(o) : o \in Owners})'
    BY ClaimsOfOwners, PTL
  <1>2. QED BY <1>1

\* Every step of the requests, sweeps and crashes is a step of the calendar, or
\* none: no claim is made over another, and a confirmed slot is never free.
LEMMA CalendarStep ==
    TypeOK /\ OwnerInv /\ NoDoubleBooking /\ [Next]_vars => [Calendar!Next]_Claims
  <1> SUFFICES ASSUME TypeOK, OwnerInv, NoDoubleBooking, [Next]_vars
               PROVE  [Calendar!Next]_Claims
    OBVIOUS
  <1>0. /\ Claims = {ClaimOf(o) : o \in Owners}
        /\ Claims' = {ClaimOf(o)' : o \in Owners'}
    BY ClaimsOfOwners, ClaimsOfOwnersNext, OwnerNext
  <1>1. ASSUME NEW o, BasketOf(o)' = BasketOf(o) PROVE ClaimOf(o)' = ClaimOf(o)
    BY <1>1 DEF ClaimOf
  <1>2. CASE Quiet
    BY <1>2 DEF Quiet, Claims
  <1>3. ASSUME NEW H \in SUBSET HoldIds, Removes(H) PROVE Calendar!Lapse
    <2> DEFINE S == {SlotOf(BasketOf(h)) : h \in H}
    <2>1. /\ Owners' = Owners \ H /\ H \subseteq Owners
          /\ \A o \in Owners' : BasketOf(o)' = BasketOf(o)
      BY <1>3, OwnersLeave DEF Removes, Owners
    <2>2. S \subseteq ClaimSlots
      BY <2>1, OwnersAskedFor
    <2>3. \A o \in Owners : ClaimOf(o) \in {Calendar!Held(s) : s \in S} <=> o \in H
      <3>1. ASSUME NEW o \in H PROVE ClaimOf(o) \in {Calendar!Held(s) : s \in S}
        BY ClaimKinds
      <3>2. ASSUME NEW o \in Owners, NEW s \in S, ClaimOf(o) = Calendar!Held(s)
            PROVE  o \in H
        <4>1. PICK h \in H : s = SlotOf(BasketOf(h))
          OBVIOUS
        <4>2. o \in HoldIds
          BY <3>2, ClaimKinds DEF Owners
        <4>3. SlotOf(BasketOf(o)) = SlotOf(BasketOf(h))
          BY <3>2, <4>1, <4>2, ClaimKinds
        <4>4. QED BY <2>1, <4>3, OwnersApart
      <3>3. QED BY <3>1, <3>2
    <2>4. Claims' = Claims \ {Calendar!Held(s) : s \in S}
      <3> HIDE DEF S
      <3>1. Claims' = {ClaimOf(o) : o \in Owners \ H}
        BY <1>0, <1>1, <2>1
      <3>2. QED BY <1>0, <2>3, <3>1
    <2> HIDE DEF S
    <2>5. QED BY <2>2, <2>4 DEF Calendar!Lapse
  <1>4. ASSUME NEW h \in HoldIds, NEW b \in Baskets, NEW x \in Nat,
               Inserts(h, b, x)
        PROVE  Calendar!Claim
    <2>1. /\ Owners' = Owners \cup {h} /\ BasketOf(h)' = b
          /\ \A o \in Owners : BasketOf(o)' = BasketOf(o)
      BY <1>4, OwnerArrives DEF Inserts
    <2>2. SlotOf(b) \in ClaimSlots
      BY DEF ClaimSlots, SlotOf
    <2>3. ASSUME NEW o \in Owners PROVE ~ClaimClash(SlotOf(BasketOf(o)), SlotOf(b))
      <3>1. StaffRow(o, BasketOf(o)) \in staffRes
        BY DEF OwnerInv, StaffMatch
      <3>2. QED
        BY <1>4, <3>1
        DEF Inserts, StaffTaken, StaffRow, ClaimClash, SlotOf, Overlap
    <2>4. \A c \in Claims : ~ClaimClash(c.slot, SlotOf(b))
      BY <1>0, <2>3, ClaimKinds
    <2>5. ClaimOf(h)' = Calendar!Held(SlotOf(b))
      BY <2>1 DEF ClaimOf, Calendar!Held
    <2>6. Claims' = Claims \cup {Calendar!Held(SlotOf(b))}
      BY <1>0, <1>1, <2>1, <2>5
    <2>7. QED BY <2>2, <2>4, <2>6 DEF Calendar!Claim
  <1>5. ASSUME NEW h \in HoldIds, NEW b \in BookingIds, NEW k \in AllKeys,
               NEW p \in Payments, NEW x \in Nat, Books(h, b, k, p, x)
        PROVE  Calendar!Book
    <2> DEFINE s == SlotOf(BasketOf(h))
    <2>1. /\ Owners' = (Owners \ {h}) \cup {b} /\ h \in Owners /\ b \notin Owners
          /\ BasketOf(b)' = BasketOf(h)
          /\ \A o \in Owners \ {h} : BasketOf(o)' = BasketOf(o)
      <3>1. ResolveStatus(p) \in {"confirmed", "pending_payment"}
        BY DEF ResolveStatus
      <3>2. QED BY <1>5, <3>1, OwnerHandsOver DEF Books
    <2>2. s \in ClaimSlots /\ Calendar!Held(s) \in Claims
      BY <1>0, <2>1, OwnersAskedFor, ClaimKinds
    <2>3. ASSUME NEW o \in Owners, o # h PROVE ClaimOf(o) # Calendar!Held(s)
      <3>1. SUFFICES ASSUME ClaimOf(o) = Calendar!Held(s) PROVE FALSE
        OBVIOUS
      <3>2. SlotOf(BasketOf(o)) = SlotOf(BasketOf(h))
        BY <3>1, ClaimKinds DEF Owners
      <3>3. QED BY <2>1, <2>3, <3>2, OwnersApart
    <2>4. ClaimOf(b)' = Calendar!Booked(s) /\ ClaimOf(h) = Calendar!Held(s)
      BY <2>1, NamesAssumption, ClaimKinds DEF ClaimOf, Calendar!Booked, NamesAssumption
    <2> HIDE DEF s
    <2>5. Claims' = (Claims \ {Calendar!Held(s)}) \cup {Calendar!Booked(s)}
      <3>1. Claims' = {ClaimOf(o) : o \in Owners \ {h}} \cup {ClaimOf(b)'}
        BY <1>0, <1>1, <2>1
      <3>2. QED BY <1>0, <2>1, <2>3, <2>4, <3>1
    <2>6. QED BY <2>2, <2>5 DEF Calendar!Book
  <1>6. ASSUME NEW b \in BookingIds, CancelBooking(b) PROVE Calendar!Cancel
    <2> DEFINE s == SlotOf(BasketOf(b))
    <2>1. /\ Owners' = Owners \ {b} /\ b \in Owners
          /\ \A o \in Owners : BasketOf(o)' = BasketOf(o)
      BY <1>6, OwnerCancels
    <2>2. s \in ClaimSlots /\ Calendar!Booked(s) \in Claims
      BY <1>0, <2>1, OwnersAskedFor, ClaimKinds
    <2>3. ASSUME NEW o \in Owners, o # b PROVE ClaimOf(o) # Calendar!Booked(s)
      <3>1. SUFFICES ASSUME ClaimOf(o) = Calendar!Booked(s) PROVE FALSE
        OBVIOUS
      <3>2. SlotOf(BasketOf(o)) = SlotOf(BasketOf(b))
        BY <3>1, ClaimKinds DEF Owners
      <3>3. QED BY <2>1, <2>3, <3>2, OwnersApart
    <2>4. ClaimOf(b) = Calendar!Booked(s)
      BY ClaimKinds
    <2> HIDE DEF s
    <2>5. Claims' = Claims \ {Calendar!Booked(s)}
      <3>1. Claims' = {ClaimOf(o) : o \in Owners \ {b}}
        BY <1>0, <1>1, <2>1
      <3>2. QED BY <1>0, <2>1, <2>3, <2>4, <3>1
    <2>6. QED BY <2>2, <2>5 DEF Calendar!Cancel
  <1>7. QED
    BY <1>2, <1>3, <1>4, <1>5, <1>6, DiarySteps DEF Calendar!Next

\* The tables, row locks, retries, sweeps and crashes together keep what
\* SlotCalendar promises of a slot, for any number of everything.
THEOREM DiaryIsACalendar == Spec => ImplementsCalendar
  <1>1. Init => Calendar!Init
    BY DEF Init, Claims, Calendar!Init
  <1>2. QED
    BY <1>1, CalendarStep, OwnersAlways, TypeCorrect, NeverDoubleBooked, PTL
    DEF Spec, ImplementsCalendar, Calendar!Spec

=============================================================================
