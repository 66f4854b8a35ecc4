--------------------------- MODULE CheckoutProofs ---------------------------
(***************************************************************************)
(* What the checkout owns when it fails, proved for any number of requests *)
(* that compete for the slot, any menus, customers, carts and intents.     *)
(*                                                                         *)
(* CheckoutSpec is the part of Counter's specification that touches the    *)
(* checkout and the party's bill: Counter adds a diary it shares no        *)
(* variable with.                                                          *)
(*                                                                         *)
(* Then the operators of Pricing: for every price, rule, record and hour,  *)
(* the amounts a quote names are amounts the app may pay; whatever is      *)
(* shared out adds up, so a party's bills do in every state; and a booking *)
(* reads back as the cart it was made of, so what the app was told when it *)
(* created it is what it may pay.                                          *)
(***************************************************************************)
EXTENDS Checkout, SumLemmas

CheckoutSpec(menus) ==
    CheckoutInit(menus) /\ [][CheckoutNext \/ PartyNext]_checkoutVars

-----------------------------------------------------------------------------
(* The inductive invariant *)

\* The rows have the columns that decide who owns the time.
RowsShape ==
    /\ DOMAIN app = Requests /\ DOMAIN bill = Requests
    /\ \A q \in Requests : {"pc", "kept"} \subseteq DOMAIN app[q]
    /\ \A q \in Requests : {"st", "open"} \subseteq DOMAIN bill[q]

Live == {"pending_payment", "confirmed"}

\* A hold is owned before a bill is written, a booking while its bill lives;
\* and a bill that lives owns the time.
OwnsByItsBill(q) ==
    /\ slot.by = q => \/ slot = [by |-> q, as |-> "hold"] /\ bill[q].st = "none"
                      \/ slot = [by |-> q, as |-> "booking"] /\ bill[q].st \in Live
    /\ bill[q].st \in Live => slot = [by |-> q, as |-> "booking"]

\* What the request can have written by the time it is at a step: what its
\* catch relies on when it chooses between a hold and a booking to undo.
BillIsOfItsStep(q) ==
    /\ app[q].pc \in {"idle", "quoted", "hold", "confirm"} => bill[q].st = "none"
    /\ app[q].pc \in {"idle", "quoted", "hold"} => slot.by # q
    /\ app[q].pc \in {"link", "undo"} => bill[q].st \in {"pending_payment", "expired"}
    /\ app[q].pc = "give_back" => bill[q].st \in {"none", "pending_payment", "expired"}

GivesBack(q) == At(q, "refused") /\ ~app[q].kept => slot.by # q

OwnershipInv ==
    /\ RowsShape
    /\ \A q \in Requests : OwnsByItsBill(q) /\ BillIsOfItsStep(q) /\ GivesBack(q)

\* The time is sold once: of the requests that compete for the slot, at most
\* one has a booking that is unpaid or confirmed (CreateHold meets the others
\* at the slot, and a confirm whose hold was swept is refused).
SoldOnce ==
    \A p, q \in Requests : bill[p].st \in Live /\ bill[q].st \in Live => p = q

-----------------------------------------------------------------------------
(* The steps, one lemma for each group of actions that write the same rows *)

\* The catalogue, the customer, the window and the party are not rows.
LEMMA WorldKeeps ==
    ASSUME OwnershipInv,
           PriceMoves \/ CustomerMoves \/ WindowShuts \/ PartyNext
             \/ (\E s \in UNION {DOMAIN m.price : m \in Menus} : Retires(s))
    PROVE  OwnershipInv'
<1>1. slot' = slot /\ bill' = bill /\ DOMAIN app' = Requests
  BY DEF PriceMoves, CustomerMoves, WindowShuts, PartyNext, JoinParty, Retires, Moved,
         OwnershipInv, RowsShape
<1>2. \A q \in Requests : DOMAIN app'[q] = DOMAIN app[q] /\ app'[q].pc = app[q].pc
                            /\ app'[q].kept = app[q].kept
  BY DEF PriceMoves, CustomerMoves, WindowShuts, PartyNext, JoinParty, Retires, Moved,
         OwnershipInv, RowsShape
<1> QED
  BY <1>1, <1>2 DEF OwnershipInv, RowsShape, OwnsByItsBill, BillIsOfItsStep, GivesBack, At

\* Somebody else takes the free slot, or an overdue hold is swept: no
\* request comes to own the time, and no bill's slot is taken.
LEMMA OthersKeep ==
    ASSUME OwnershipInv, OtherHolds \/ SweepSlotHold
    PROVE  OwnershipInv'
<1>1. app' = app /\ bill' = bill
  BY DEF OtherHolds, SweepSlotHold
<1>2. slot'.by \notin Requests /\ slot.as # "booking"
  <2>1. CASE OtherHolds
    <3>1. slot'.by = "other" /\ slot.as = "free"
      BY <2>1 DEF OtherHolds, FreeSlot
    <3> QED BY <3>1, RequestsAssumption
  <2>2. CASE SweepSlotHold
    <3>1. slot'.by = "no one" /\ slot.as = "hold"
      BY <2>2 DEF SweepSlotHold, FreeSlot, NoOne
    <3> QED BY <3>1, RequestsAssumption
  <2> QED BY <2>1, <2>2
<1>3. \A q \in Requests : bill[q].st \notin Live
  BY <1>2 DEF OwnershipInv, OwnsByItsBill
<1> QED
  BY <1>1, <1>2, <1>3
     DEF OwnershipInv, RowsShape, OwnsByItsBill, BillIsOfItsStep, GivesBack, At

\* A request that holds nothing yet, or only learns what it is told.
LEMMA AsksKeep ==
    ASSUME OwnershipInv, NEW q \in Requests,
           \/ \E cart \in Carts, start \in VisitStarts : AskQuote(q, cart, start)
           \/ \E intent \in Intents : CreateCheck(q, intent)
    PROVE  OwnershipInv'
<1>1. slot' = slot /\ bill' = bill /\ DOMAIN app' = Requests
  BY DEF AskQuote, CreateCheck, OwnershipInv, RowsShape
<1>2. \A r \in Requests \ {q} : app'[r] = app[r]
  BY DEF AskQuote, CreateCheck, OwnershipInv, RowsShape
<1>3. /\ {"pc", "kept"} \subseteq DOMAIN app'[q]
      /\ app[q].pc \in {"idle", "quoted"}
      /\ app'[q].pc \in {"quoted", "hold", "refused"}
  <2>1. CASE \E cart \in Carts, start \in VisitStarts : AskQuote(q, cart, start)
    <3> PICK cart \in Carts, start \in VisitStarts : AskQuote(q, cart, start)
      BY <2>1
    <3> PICK told : told = PriceFor(cart, start)
      OBVIOUS
    <3>1. app'[q] = [IdleApp EXCEPT !.pc = "quoted", !.cart = cart, !.start = start,
                                    !.told = told]
      BY DEF AskQuote, OwnershipInv, RowsShape
    <3>2. app[q].pc \in {"idle", "quoted"}
      BY DEF AskQuote, At
    <3>3. {"pc", "kept"} \subseteq DOMAIN app'[q] /\ app'[q].pc = "quoted"
      BY ONLY <3>1 DEF IdleApp
    <3> QED BY ONLY <3>2, <3>3
  <2>2. CASE \E intent \in Intents : CreateCheck(q, intent)
    <3> PICK intent \in Intents : CreateCheck(q, intent)
      BY <2>2
    <3> PICK i : i = CreateIntentOf(intent)
      OBVIOUS
    <3>1. /\ {"pc", "kept"} \subseteq DOMAIN app'[q]
          /\ app'[q].pc \in {"hold", "refused"}
      <4>1. CASE app' = [app EXCEPT ![q].intent = i, ![q].pc = "refused"]
        BY <4>1 DEF OwnershipInv, RowsShape
      <4>2. CASE app' # [app EXCEPT ![q].intent = i, ![q].pc = "refused"]
        <5> DEFINE ok(fresh) == MoneyAgrees(app[q].told, fresh)
        <5>1. PICK fresh :
                app' = [app EXCEPT ![q].intent = CreateIntentOf(intent),
                                   ![q].pc = IF ok(fresh) THEN "hold" ELSE "refused",
                                   ![q].tender = IF ok(fresh) THEN fresh.deposit ELSE 0]
          BY <4>2 DEF CreateCheck
        <5> HIDE DEF ok
        <5>2. PICK pc, tender : /\ pc = IF ok(fresh) THEN "hold" ELSE "refused"
                                /\ tender = IF ok(fresh) THEN fresh.deposit ELSE 0
          OBVIOUS
        <5>3. app' = [app EXCEPT ![q].intent = i, ![q].pc = pc, ![q].tender = tender]
          BY <5>1, <5>2
        <5> QED BY <5>2, <5>3 DEF OwnershipInv, RowsShape
      <4> QED BY <4>1, <4>2
    <3> QED BY <3>1 DEF CreateCheck, At
  <2> QED BY <2>1, <2>2
<1> QED
  BY <1>1, <1>2, <1>3
     DEF OwnershipInv, RowsShape, OwnsByItsBill, BillIsOfItsStep, GivesBack, At

\* What every step of one request leaves alone: the rows of the others.
OthersRows(q) ==
    /\ DOMAIN app' = Requests /\ DOMAIN bill' = Requests
    /\ {"pc", "kept"} \subseteq DOMAIN app'[q] /\ {"st", "open"} \subseteq DOMAIN bill'[q]
    /\ \A r \in Requests \ {q} : app'[r] = app[r] /\ bill'[r] = bill[r]

\* The slot moves only between this request and nobody.
SlotIsHis(q) == slot' = slot \/ ((slot = FreeSlot \/ slot.by = q) /\ slot' \in
                   {FreeSlot, [by |-> q, as |-> "hold"], [by |-> q, as |-> "booking"]})

\* So a step of q need only be shown right for q.
LEMMA OneRequest ==
    ASSUME OwnershipInv, NEW q \in Requests, OthersRows(q), SlotIsHis(q),
           OwnsByItsBill(q)', BillIsOfItsStep(q)', GivesBack(q)'
    PROVE  OwnershipInv'
<1>1. RowsShape'
  BY DEF OwnershipInv, RowsShape, OthersRows
<1>2. ASSUME NEW r \in Requests, r # q
      PROVE  OwnsByItsBill(r)' /\ BillIsOfItsStep(r)' /\ GivesBack(r)'
  <2>1. app'[r] = app[r] /\ bill'[r] = bill[r]
    BY <1>2 DEF OthersRows
  <2>2. slot' = slot \/ (slot.by # r /\ slot'.by # r)
    <3>1. FreeSlot.by # r
      BY RequestsAssumption DEF FreeSlot, NoOne
    <3> QED BY <1>2, <3>1 DEF SlotIsHis
  <2>3. OwnsByItsBill(r) /\ BillIsOfItsStep(r) /\ GivesBack(r)
    BY DEF OwnershipInv
  <2> QED BY <2>1, <2>2, <2>3 DEF OwnsByItsBill, BillIsOfItsStep, GivesBack, At
<1> QED BY <1>1, <1>2 DEF OwnershipInv

\* The hold, the link, the answer, the failures and the crash.
LEMMA StepsKeep ==
    ASSUME OwnershipInv, NEW q \in Requests,
           CreateHold(q) \/ CreateLink(q) \/ Present(q) \/ CallFails(q) \/ Dies(q)
    PROVE  OwnershipInv'
<1> USE DEF OwnershipInv, RowsShape, At, Goes
<1>1. CASE CreateHold(q)
  <2>1. OthersRows(q) /\ SlotIsHis(q)
    BY <1>1 DEF CreateHold, OthersRows, SlotIsHis
  <2>2. OwnsByItsBill(q)' /\ BillIsOfItsStep(q)' /\ GivesBack(q)'
    BY <1>1 DEF CreateHold, OwnsByItsBill, BillIsOfItsStep, GivesBack, Live
  <2> QED BY <2>1, <2>2, OneRequest
<1>2. CASE CreateLink(q)
  <2>1. OthersRows(q) /\ SlotIsHis(q)
    BY <1>2 DEF CreateLink, OthersRows, SlotIsHis
  <2>2. OwnsByItsBill(q)' /\ BillIsOfItsStep(q)' /\ GivesBack(q)'
    BY <1>2 DEF CreateLink, OwnsByItsBill, BillIsOfItsStep, GivesBack, Live
  <2> QED BY <2>1, <2>2, OneRequest
<1>3. CASE Present(q) \/ CallFails(q) \/ Dies(q)
  <2>1. OthersRows(q) /\ SlotIsHis(q)
    BY <1>3 DEF Present, CallFails, Dies, OthersRows, SlotIsHis
  <2>2. OwnsByItsBill(q)' /\ BillIsOfItsStep(q)' /\ GivesBack(q)'
    BY <1>3 DEF Present, CallFails, Dies, OwnsByItsBill, BillIsOfItsStep, GivesBack, Live
  <2> QED BY <2>1, <2>2, OneRequest
<1> QED BY <1>1, <1>2, <1>3

\* The bill is written and the hold becomes the booking in one transaction.
LEMMA ConfirmKeeps ==
    ASSUME OwnershipInv, NEW q \in Requests, CreateConfirm(q)
    PROVE  OwnershipInv'
<1> USE DEF OwnershipInv, RowsShape, At, Goes
<1>1. CASE bill' = bill /\ slot' = slot
  <2>1. OthersRows(q) /\ SlotIsHis(q)
    BY <1>1 DEF CreateConfirm, OthersRows, SlotIsHis
  <2>2. OwnsByItsBill(q)' /\ BillIsOfItsStep(q)' /\ GivesBack(q)'
    BY <1>1 DEF CreateConfirm, OwnsByItsBill, BillIsOfItsStep, GivesBack, Live
  <2> QED BY <2>1, <2>2, OneRequest
<1>2. CASE ~(bill' = bill /\ slot' = slot)
  <2>1. /\ At(q, "confirm") /\ slot = [by |-> q, as |-> "hold"]
        /\ slot' = [by |-> q, as |-> "booking"]
        /\ Goes(q, IF app[q].intent = "link" THEN "link" ELSE "present")
    BY <1>2 DEF CreateConfirm
  <2>2. PICK b : /\ bill' = [bill EXCEPT ![q] = b]
                 /\ {"st", "open"} \subseteq DOMAIN b
                 /\ b.st = IF app[q].intent = "link" THEN "pending_payment" ELSE "confirmed"
    BY <1>2 DEF CreateConfirm
  <2>3. OthersRows(q) /\ SlotIsHis(q)
    BY <2>1, <2>2 DEF OthersRows, SlotIsHis
  <2>4. OwnsByItsBill(q)' /\ BillIsOfItsStep(q)' /\ GivesBack(q)'
    BY <2>1, <2>2 DEF OwnsByItsBill, BillIsOfItsStep, GivesBack, Live
  <2> QED BY <2>3, <2>4, OneRequest
<1> QED BY <1>1, <1>2

\* The catch.  A release that fails is remembered in kept; a hold that was
\* swept, or a booking that expired, is not freed a second time.
LEMMA CatchKeeps ==
    ASSUME OwnershipInv, NEW q \in Requests, NEW works \in BOOLEAN,
           GiveBackHold(q, works) \/ UndoBooking(q, works)
    PROVE  OwnershipInv'
<1> USE DEF OwnershipInv, RowsShape, At
<1>0. FreeSlot.by # q
  BY RequestsAssumption DEF FreeSlot, NoOne
<1>1. CASE GiveBackHold(q, works)
  <2>1. OthersRows(q) /\ SlotIsHis(q)
    BY <1>1 DEF GiveBackHold, OthersRows, SlotIsHis
  <2>2. OwnsByItsBill(q)' /\ BillIsOfItsStep(q)' /\ GivesBack(q)'
    <3> DEFINE mine == slot = [by |-> q, as |-> "hold"]
    <3>1. /\ app'[q].pc = IF bill[q].st = "none" THEN "refused" ELSE "undo"
          /\ app'[q].kept = (app[q].kept \/ (mine /\ ~works))
          /\ bill' = bill /\ slot' = IF works /\ mine THEN FreeSlot ELSE slot
          /\ bill[q].st \in {"none", "pending_payment", "expired"}
      BY <1>1 DEF GiveBackHold, BillIsOfItsStep
    <3>2. OwnsByItsBill(q)' /\ BillIsOfItsStep(q)'
      BY <1>0, <3>1 DEF OwnsByItsBill, BillIsOfItsStep, Live
    <3>3. CASE mine /\ ~works
      <4>1. app'[q].kept
        BY <3>1, <3>3
      <4> QED BY <3>2, <4>1 DEF GivesBack
    <3>4. CASE ~(mine /\ ~works)
      <4>1. app'[q].pc = "refused" => slot'.by # q
        BY <1>0, <3>1, <3>4 DEF OwnsByItsBill, Live
      <4> QED BY <3>2, <4>1 DEF GivesBack
    <3> QED BY <3>3, <3>4
  <2> QED BY <2>1, <2>2, OneRequest
<1>2. CASE UndoBooking(q, works)
  <2>1. OthersRows(q) /\ SlotIsHis(q)
    BY <1>2 DEF UndoBooking, OthersRows, SlotIsHis, OwnsByItsBill, Live
  <2>2. OwnsByItsBill(q)' /\ BillIsOfItsStep(q)' /\ GivesBack(q)'
    BY <1>0, <1>2 DEF UndoBooking, OwnsByItsBill, BillIsOfItsStep, GivesBack, Live
  <2> QED BY <2>1, <2>2, OneRequest
<1> QED BY <1>1, <1>2

\* The jobs and the payment write a bill whose request may be anywhere.
LEMMA JobsKeep ==
    ASSUME OwnershipInv, NEW q \in Requests,
           \/ LinkCloses(q) \/ SweepUnpaid(q)
           \/ \E target \in {"PARTIALLY", "FULLY_PAID", "PAY_AFTER_CHECK_IN"} :
                \E paid \in {0, app[q].told.deposit, app[q].told.total} :
                  PaysInApp(q, target, paid)
    PROVE  OwnershipInv'
<1> USE DEF OwnershipInv, RowsShape, At
<1>0. FreeSlot.by # q
  BY RequestsAssumption DEF FreeSlot, NoOne
<1>1. CASE LinkCloses(q)
  <2>1. OthersRows(q) /\ SlotIsHis(q)
    BY <1>1 DEF LinkCloses, OthersRows, SlotIsHis
  <2>2. OwnsByItsBill(q)' /\ BillIsOfItsStep(q)' /\ GivesBack(q)'
    BY <1>1 DEF LinkCloses, OwnsByItsBill, BillIsOfItsStep, GivesBack, Live
  <2> QED BY <2>1, <2>2, OneRequest
<1>2. CASE SweepUnpaid(q)
  <2>1. OthersRows(q) /\ SlotIsHis(q)
    BY <1>2 DEF SweepUnpaid, OthersRows, SlotIsHis, OwnsByItsBill, Live
  <2>2. OwnsByItsBill(q)' /\ BillIsOfItsStep(q)' /\ GivesBack(q)'
    BY <1>0, <1>2 DEF SweepUnpaid, OwnsByItsBill, BillIsOfItsStep, GivesBack, Live
  <2> QED BY <2>1, <2>2, OneRequest
<1>3. CASE \E target \in {"PARTIALLY", "FULLY_PAID", "PAY_AFTER_CHECK_IN"} :
             \E paid \in {0, app[q].told.deposit, app[q].told.total} :
               PaysInApp(q, target, paid)
  <2>1. PICK target, paid : PaysInApp(q, target, paid)
    BY <1>3
  <2>2. PICK pay : bill' = [bill EXCEPT ![q].st = "confirmed", ![q].pay = pay,
                                        ![q].open = FALSE]
    BY <2>1 DEF PaysInApp
  <2>3. slot' = slot /\ app' = app /\ app[q].pc = "answered"
        /\ bill[q].st = "pending_payment"
    BY <2>1 DEF PaysInApp
  <2>4. OthersRows(q) /\ SlotIsHis(q)
    BY <2>2, <2>3 DEF OthersRows, SlotIsHis
  <2>5. OwnsByItsBill(q)' /\ BillIsOfItsStep(q)' /\ GivesBack(q)'
    BY <2>2, <2>3 DEF OwnsByItsBill, BillIsOfItsStep, GivesBack, Live
  <2> QED BY <2>4, <2>5, OneRequest
<1> QED BY <1>1, <1>2, <1>3

-----------------------------------------------------------------------------
(* The theorems *)

LEMMA OwnershipInductive ==
    ASSUME OwnershipInv, [CheckoutNext \/ PartyNext]_checkoutVars
    PROVE  OwnershipInv'
<1>1. CASE UNCHANGED checkoutVars
  BY <1>1 DEF checkoutVars, OwnershipInv, RowsShape, OwnsByItsBill, BillIsOfItsStep,
              GivesBack, At
<1>2. CASE PartyNext
  BY <1>2, WorldKeeps
<1>3. CASE CheckoutNext
  BY <1>3, WorldKeeps, OthersKeep, AsksKeep, StepsKeep, ConfirmKeeps, CatchKeeps, JobsKeep
     DEF CheckoutNext
<1> QED BY <1>1, <1>2, <1>3

LEMMA OwnershipInitially ==
    ASSUME NEW menus, CheckoutInit(menus)
    PROVE  OwnershipInv
<1>1. slot.by = NoOne /\ \A q \in Requests : q # NoOne
  BY RequestsAssumption DEF CheckoutInit, FreeSlot, NoOne
<1>2. \A q \in Requests : app[q].pc = "idle" /\ bill[q].st = "none"
  BY DEF CheckoutInit, IdleApp, NoBill
<1>3. RowsShape
  BY DEF CheckoutInit, RowsShape, IdleApp, NoBill
<1> QED
  BY <1>1, <1>2, <1>3 DEF OwnershipInv, OwnsByItsBill, BillIsOfItsStep, GivesBack, At, Live

\* A create that answered with an error owns no time, whichever call failed
\* and whatever the sweepers did meanwhile, unless its clean-up failed or its
\* answer could not be read back (the catch of execute()).
THEOREM FailuresGiveBack ==
    ASSUME NEW CONSTANT menus
    PROVE  CheckoutSpec(menus) => []FailedCheckoutGivesBack
<1>1. OwnershipInv => FailedCheckoutGivesBack
  BY DEF OwnershipInv, GivesBack, FailedCheckoutGivesBack
<1> QED
  BY <1>1, OwnershipInitially, OwnershipInductive, PTL DEF CheckoutSpec

\* Of all the checkouts that compete for a time, at most one has a booking
\* that still stands (execute(), its jobs and recordPayment()).
THEOREM TimeIsSoldOnce ==
    ASSUME NEW CONSTANT menus
    PROVE  CheckoutSpec(menus) => []SoldOnce
<1>1. OwnershipInv => SoldOnce
  <2> SUFFICES ASSUME OwnershipInv, NEW p \in Requests, NEW q \in Requests,
                      bill[p].st \in Live, bill[q].st \in Live
               PROVE  p = q
    BY DEF SoldOnce
  <2>1. slot = [by |-> p, as |-> "booking"] /\ slot = [by |-> q, as |-> "booking"]
    BY DEF OwnershipInv, OwnsByItsBill
  <2> QED BY <2>1
<1> QED
  BY <1>1, OwnershipInitially, OwnershipInductive, PTL DEF CheckoutSpec
-----------------------------------------------------------------------------
(* The deposit ladder: a quote's deposit is one the app may pay *)

LEMMA PercentIsNat ==
    ASSUME NEW fils \in Nat, NEW p \in Nat
    PROVE  Percent(fils, p) \in Nat
<1>1. fils * p \in Nat
  OBVIOUS
<1>2. PICK x \in Nat : x = fils * p
  BY <1>1
<1>3. (x + 50) \div 100 \in Nat
  OBVIOUS
<1> QED BY <1>2, <1>3 DEF Percent

LEMMA PercentOfAmount ==
    ASSUME NEW fils \in Nat, NEW p \in 0 .. 100
    PROVE  Percent(fils, p) \in 0 .. fils
<1>1. fils * p \in Nat /\ fils * p <= fils * 100
  <2>1. PICK rest \in Nat : p + rest = 100
    <3>1. 100 - p \in Nat /\ p + (100 - p) = 100
      OBVIOUS
    <3> QED BY <3>1
  <2>2. fils * p \in Nat /\ fils * rest \in Nat /\ fils * (p + rest) = fils * p + fils * rest
    BY <2>1
  <2> QED BY <2>1, <2>2
<1>2. PICK x \in Nat : x = fils * p
  BY <1>1
<1>3. (x + 50) \div 100 \in 0 .. fils
  BY <1>1, <1>2
<1> QED BY <1>2, <1>3 DEF Percent

\* A rung of the ladder, whatever total it was computed for.
IsRung(r) ==
    r = [amount |-> r.amount, kind |-> r.kind] /\ r.amount \in Nat
      /\ r.kind \in {"none", "deposit", "full"} /\ (r.kind = "none" <=> r.amount = 0)

LEMMA RungsAreRungs ==
    ASSUME NEW total \in Nat, NEW amount \in Nat
    PROVE  IsRung(Rung(amount, total))
<1>1. PICK r : r = Rung(amount, total)
  OBVIOUS
<1>2. /\ r = [amount |-> r.amount, kind |-> r.kind] /\ r.amount = amount
      /\ r.kind = IF amount = 0 THEN "none" ELSE IF amount < total THEN "deposit" ELSE "full"
  BY <1>1 DEF Rung, KindOf
<1> QED BY <1>1, <1>2, Zenon DEF IsRung

LEMMA PercentRungs ==
    ASSUME NEW total \in Nat, NEW p \in Nat
    PROVE  RoundToDirhams(Percent(total, p)) \in Nat /\ IsRung(PercentRung(total, p))
<1>1. PICK x : x = Percent(total, p)
  OBVIOUS
<1>2. x \in Nat
  BY <1>1, PercentIsNat
<1>3. RoundToDirhams(x) \in Nat
  BY <1>2 DEF RoundToDirhams
<1> QED BY <1>1, <1>3, RungsAreRungs DEF PercentRung

\* Of four rungs one is the strictest: the ladder's order is total but for
\* rungs that ask for the same.
LEMMA StricterIsOrdered ==
    ASSUME NEW a, NEW b, NEW c, IsRung(a), IsRung(b), IsRung(c)
    PROVE  /\ ~Stricter(a, a)
           /\ Stricter(a, b) => ~Stricter(b, a)
           /\ ~Stricter(a, b) /\ ~Stricter(b, c) => ~Stricter(a, c)
<1>1. PICK rank : rank = [k \in {"none", "deposit", "full"} |->
                            CASE k = "full" -> 2 [] k = "deposit" -> 1 [] OTHER -> 0]
  OBVIOUS
<1>2. rank["none"] = 0 /\ rank["deposit"] = 1 /\ rank["full"] = 2
  BY <1>1
<1>3. ASSUME NEW x, NEW y, IsRung(x), IsRung(y)
      PROVE  Stricter(x, y) <=> \/ rank[x.kind] > rank[y.kind]
                                \/ x.kind = y.kind /\ x.amount > y.amount
  BY <1>1, <1>3 DEF Stricter, IsRung
<1>4. /\ a.kind \in {"none", "deposit", "full"} /\ b.kind \in {"none", "deposit", "full"}
      /\ c.kind \in {"none", "deposit", "full"} /\ a.amount \in Nat /\ b.amount \in Nat
      /\ c.amount \in Nat
  BY DEF IsRung
<1>5. ~Stricter(a, a)
  BY <1>2, <1>3, <1>4
<1>6. Stricter(a, b) => ~Stricter(b, a)
  BY <1>2, <1>3, <1>4
<1>7. ~Stricter(a, b) /\ ~Stricter(b, c) => ~Stricter(a, c)
  BY <1>2, <1>3, <1>4
<1> QED BY <1>5, <1>6, <1>7

LEMMA OneIsStrictest ==
    ASSUME NEW a, NEW b, NEW c, NEW d, IsRung(a), IsRung(b), IsRung(c), IsRung(d)
    PROVE  \E r \in {a, b, c, d} : \A q \in {a, b, c, d} : ~Stricter(q, r)
<1>1. PICK r2 \in {a, b} : ~Stricter(a, r2) /\ ~Stricter(b, r2)
  BY StricterIsOrdered
<1>2. IsRung(r2)
  BY <1>1
<1>3. PICK r3 \in {r2, c} : ~Stricter(r2, r3) /\ ~Stricter(c, r3)
  BY <1>2, StricterIsOrdered
<1>4. IsRung(r3) /\ ~Stricter(a, r3) /\ ~Stricter(b, r3)
  BY <1>1, <1>2, <1>3, StricterIsOrdered
<1>5. PICK r4 \in {r3, d} : ~Stricter(r3, r4) /\ ~Stricter(d, r4)
  BY <1>4, StricterIsOrdered
<1>6. ~Stricter(a, r4) /\ ~Stricter(b, r4) /\ ~Stricter(c, r4)
  BY <1>3, <1>4, <1>5, StricterIsOrdered
<1> QED BY <1>1, <1>3, <1>5, <1>6

LEMMA StrictestRung ==
    ASSUME NEW total \in Nat, NEW person, NEW rule, rule.percent \in Nat, rule.fixed \in Nat
    PROVE  IsRung(Strictest(Rungs(total, person, rule)))
<1>1. IsRung(NoRung)
  BY DEF IsRung, NoRung
<1>2. /\ IsRung(PercentRung(total, RISK_FLAG_PERCENT))
      /\ IsRung(PercentRung(total, HIGH_RISK_PERCENT))
      /\ IsRung(PercentRung(total, FIRST_VISIT_PERCENT))
  <2>1. /\ RISK_FLAG_PERCENT \in Nat /\ HIGH_RISK_PERCENT \in Nat
        /\ FIRST_VISIT_PERCENT \in Nat
    BY DEF RISK_FLAG_PERCENT, HIGH_RISK_PERCENT, FIRST_VISIT_PERCENT
  <2> QED BY ONLY total \in Nat, <2>1, PercentRungs
<1>3. IsRung(ServiceRung(total, rule))
  <2>1. PICK x \in Nat : x = RoundToDirhams(Percent(total, rule.percent))
    BY PercentRungs
  <2>2. Largest(x, rule.fixed) \in Nat
    BY DEF Largest
  <2> QED BY <2>1, <2>2, RungsAreRungs DEF ServiceRung
<1>4. PICK a : /\ IsRung(a)
               /\ {NoRung, a} = {NoRung} \cup
                    (IF person.flag THEN {PercentRung(total, RISK_FLAG_PERCENT)}
                     ELSE IF Band(person.history) = "HIGH" THEN {PercentRung(total, HIGH_RISK_PERCENT)}
                     ELSE {})
  <2>1. CASE person.flag
    BY <1>2, <2>1
  <2>2. CASE ~person.flag /\ Band(person.history) = "HIGH"
    BY <1>2, <2>2
  <2>3. CASE ~person.flag /\ Band(person.history) # "HIGH"
    BY <1>1, <2>3
  <2> QED BY <2>1, <2>2, <2>3
<1>5. PICK b : /\ IsRung(b)
               /\ {NoRung, b} = {NoRung} \cup
                    (IF rule.percent > 0 \/ rule.fixed > 0 THEN {ServiceRung(total, rule)} ELSE {})
  BY <1>1, <1>3
<1>6. PICK c : /\ IsRung(c)
               /\ {NoRung, c} = {NoRung} \cup
                    (IF person.new THEN {PercentRung(total, FIRST_VISIT_PERCENT)} ELSE {})
  BY <1>1, <1>2
<1>7. PICK rungs : rungs = Rungs(total, person, rule)
  OBVIOUS
<1>8. {NoRung} \cup rungs = {NoRung, a, b, c}
  <2>1. {NoRung} \cup rungs = {NoRung, a} \cup {NoRung, b} \cup {NoRung, c}
    BY <1>4, <1>5, <1>6, <1>7, Zenon DEF Rungs
  <2> QED BY <2>1
<1>9. \E r \in {NoRung} \cup rungs : \A q \in rungs : ~Stricter(q, r)
  <2>1. PICK r \in {NoRung, a, b, c} : \A q \in {NoRung, a, b, c} : ~Stricter(q, r)
    BY <1>1, <1>4, <1>5, <1>6, OneIsStrictest
  <2> QED BY <1>8, <2>1
<1>10. Strictest(rungs) \in {NoRung} \cup rungs
  BY <1>9 DEF Strictest
<1> QED BY <1>1, <1>4, <1>5, <1>6, <1>7, <1>8, <1>10

LEMMA ClampedDeposit ==
    ASSUME NEW amount \in Nat, NEW total \in Nat
    PROVE  /\ ClampDeposit(amount, total) \in 0 .. total
           /\ ClampDeposit(amount, total) >= Least(DEPOSIT_FLOOR, total)
BY DEF ClampDeposit, Least, Largest, DEPOSIT_FLOOR, DEPOSIT_CEILING

LEMMA RequiredDeposit ==
    ASSUME NEW total \in Nat, NEW person, NEW rule, rule.percent \in Nat, rule.fixed \in Nat,
           NEW start, NEW deposit, deposit = RequirementFor(total, person, rule, start)
    PROVE  /\ deposit \in 0 .. total
           /\ deposit = 0 \/ deposit >= Least(DEPOSIT_FLOOR, total)
<1>1. PICK first : first = Strictest(Rungs(total, person, rule)) /\ IsRung(first)
  BY StrictestRung
<1>2. Escalate(first, total).amount \in Nat
  <2>1. CASE first.kind = "full"
    BY <1>1, <2>1 DEF Escalate, IsRung
  <2>2. CASE first.kind = "none"
    <3>1. IsRung(PercentRung(total, PEAK_ESCALATION_PERCENT))
      BY PercentRungs DEF PEAK_ESCALATION_PERCENT
    <3> QED BY <2>2, <3>1 DEF Escalate, IsRung
  <2>3. CASE first.kind = "deposit"
    BY <2>3 DEF Escalate
  <2> QED BY <1>1, <2>1, <2>2, <2>3 DEF IsRung
<1>3. PICK winner : /\ winner = (IF start \in PeakWindow THEN Escalate(first, total) ELSE first)
                    /\ winner.amount \in Nat
  BY <1>1, <1>2 DEF IsRung
<1>4. deposit = IF winner.kind = "none" THEN 0 ELSE ClampDeposit(winner.amount, total)
  BY <1>1, <1>3 DEF RequirementFor
<1> QED BY <1>3, <1>4, ClampedDeposit

\* Whatever the price, the ladder's rule, the customer's record and the hour:
\* a quote's deposit is zero or at least the floor, and never above the price
\* before the discount; so, for anybody whose price is not discounted, both
\* amounts the quote names are amounts checkPatch() accepts.  (The deposit of
\* a gold customer is capped at the price before the discount, and can be
\* refused for being above the price after it.)  requirementFor(), clampDeposit().
THEOREM QuotedAmountsAreAccepted ==
    ASSUME NEW net \in Nat, NEW person, NEW rule, rule.percent \in Nat, rule.fixed \in Nat,
           NEW start, NEW quote,
           quote = QuoteOf(net, person, RequirementFor(net, person, rule, start))
    PROVE  /\ quote.deposit \in 0 .. net
           /\ quote.deposit = 0 \/ quote.deposit >= Least(DEPOSIT_FLOOR, net)
           /\ quote.total > 0 => CheckPatch("FULLY_PAID", quote.total, quote) = "ok"
           /\ ~person.gold /\ quote.deposit > 0 =>
                CheckPatch("PARTIALLY", quote.deposit, quote) = "ok"
<1>1. PICK deposit : deposit = RequirementFor(net, person, rule, start)
  OBVIOUS
<1>2. deposit \in 0 .. net /\ (deposit = 0 \/ deposit >= Least(DEPOSIT_FLOOR, net))
  BY <1>1, RequiredDeposit
<1>3. PICK discount : /\ discount = (IF person.gold THEN Percent(net, 10) ELSE 0)
                      /\ discount \in 0 .. net
  <2>1. Percent(net, 10) \in 0 .. net
    BY PercentOfAmount
  <2>2. PICK d : d = (IF person.gold THEN Percent(net, 10) ELSE 0)
    OBVIOUS
  <2>3. d \in 0 .. net
    BY <2>1, <2>2
  <2> QED BY <2>2, <2>3
<1>4. PICK vat : vat = Percent(net - discount, VAT_PERCENT) /\ vat \in Nat
  <2>1. PICK x \in Nat : x = net - discount
    BY <1>3
  <2>2. VAT_PERCENT \in 0 .. 100
    BY DEF VAT_PERCENT
  <2>3. Percent(x, VAT_PERCENT) \in 0 .. x
    BY <2>2, PercentOfAmount
  <2> QED BY <2>1, <2>3
<1>5. /\ quote.deposit = deposit /\ quote.total = (net - discount) + vat
  BY <1>1, <1>3, <1>4 DEF QuoteOf
<1>6. ASSUME quote.total > 0 PROVE CheckPatch("FULLY_PAID", quote.total, quote) = "ok"
  <2>1. quote.total \in Nat
    BY <1>3, <1>4, <1>5
  <2>2. AmountsAgree(quote.total, quote.total)
    BY <2>1 DEF AmountsAgree, AMOUNT_TOLERANCE_FILS
  <2> QED BY <1>6, <2>1, <2>2 DEF CheckPatch
<1>7. ASSUME ~person.gold, quote.deposit > 0 PROVE CheckPatch("PARTIALLY", quote.deposit, quote) = "ok"
  <2>1. discount = 0 /\ quote.deposit \in Nat /\ quote.total \in Nat
        /\ quote.deposit <= quote.total
    BY <1>2, <1>3, <1>4, <1>5, <1>7
  <2> QED BY <1>7, <2>1 DEF CheckPatch
<1> QED BY <1>2, <1>5, <1>6, <1>7

-----------------------------------------------------------------------------
(* Sharing an amount *)

\* What the amounts of a sequence add up to is their sum over the indices.
LEMMA AddedIsTotal ==
    ASSUME NEW n \in Nat, NEW q, DOMAIN q = 1 .. n, \A i \in 1 .. n : q[i] \in Int
    PROVE  Added(q) = Total(q, 1 .. n) /\ Added(q) \in Int
<1>1. Added(q) = Total(q, 1 .. n)
  BY SequenceSum DEF Added
<1>2. Total(q, 1 .. n) \in Int
  BY FS_Interval, TotalTakes
<1> QED BY <1>1, <1>2

\* Ones and zeros add up to the number of ones.
LEMMA TotalCounts ==
    ASSUME NEW D, IsFiniteSet(D), NEW S \in SUBSET D, NEW v,
           \A x \in S : v[x] = 1, \A x \in D \ S : v[x] = 0
    PROVE  Total(v, D) = Cardinality(S)
<1>1. IsFiniteSet(S) /\ IsFiniteSet(D \ S)
  BY FS_Subset
<1>2. S \cap (D \ S) = {} /\ S \cup (D \ S) = D /\ \A x \in D : v[x] \in Int
  OBVIOUS
<1>3. Total(v, S \cup (D \ S)) = Total(v, S) + Total(v, D \ S)
  BY <1>1, <1>2, TotalUnion
<1>4. Total(v, S) = 1 * Cardinality(S) /\ Total(v, D \ S) = 0 * Cardinality(D \ S)
  BY <1>1, TotalOfEqual
<1>5. PICK c \in Nat, d \in Nat : c = Cardinality(S) /\ d = Cardinality(D \ S)
  BY <1>1, FS_CardinalityType
<1>6. 1 * c = c /\ 0 * d = 0 /\ c + 0 = c
  OBVIOUS
<1> QED BY ONLY <1>2, <1>3, <1>4, <1>5, <1>6

\* The order Allocate() hands the left-over fils out in is an order.
LEMMA FractionsAreOrdered ==
    ASSUME NEW n \in Nat, NEW frac \in [1 .. n -> Nat]
    PROVE  IsOrder([i \in 1 .. n |->
                      {j \in 1 .. n : frac[j] > frac[i] \/ (frac[j] = frac[i] /\ j < i)}],
                   1 .. n)
<1>1. PICK D : D = 1 .. n /\ D \subseteq Nat
  OBVIOUS
<1> DEFINE Before == [i \in D |-> {j \in D : frac[j] > frac[i] \/ (frac[j] = frac[i] /\ j < i)}]
<1>2. \A i, j \in D : j \in Before[i] <=> frac[j] > frac[i] \/ (frac[j] = frac[i] /\ j < i)
  OBVIOUS
<1>3. \A i \in D : frac[i] \in Nat /\ Before[i] \subseteq D
  BY <1>1
<1> HIDE DEF Before
<1>4. \A i \in D : Before[i] \subseteq D /\ i \notin Before[i]
  BY <1>1, <1>2, <1>3
<1>5. \A i \in D : \A j \in Before[i] : Before[j] \subseteq Before[i]
  BY <1>1, <1>2, <1>3
<1>6. \A i, j \in D : i # j => i \in Before[j] \/ j \in Before[i]
  BY <1>1, <1>2, <1>3
<1>7. IsOrder(Before, D)
  BY <1>4, <1>5, <1>6 DEF IsOrder
<1> QED BY <1>1, <1>7 DEF Before

\* money.ts allocate(): whatever the amount, the number of shares and their
\* weights, the shares are whole fils and add up to the amount; each is the
\* exact share rounded down or up, and nothing for who weighs nothing; and
\* where the amount is no more than the weights together, nobody's share is
\* more than their weight.  (What is left after rounding down is below the
\* number of fractions, so the fils left over run out among them.)
THEOREM AllocateIsExact ==
    ASSUME NEW n \in Nat, NEW weights \in [1 .. n -> Nat], NEW fils \in Nat,
           NEW whole \in Nat, whole = Added(weights), whole > 0,
           NEW shares, shares = Allocate(fils, weights)
    PROVE  /\ shares \in [1 .. n -> Nat] /\ Added(shares) = fils
           /\ \A i \in 1 .. n : shares[i] - ((fils * weights[i]) \div whole) \in {0, 1}
           /\ \A i \in 1 .. n : weights[i] = 0 => shares[i] = 0
           /\ fils <= whole => \A i \in 1 .. n : shares[i] <= weights[i]
<1>1. PICK D : D = 1 .. n
  OBVIOUS
<1>2. IsFiniteSet(D) /\ Cardinality(D) = n
  BY <1>1, FS_Interval
<1>3. PICK amount : amount = [i \in D |-> fils * weights[i]]
  OBVIOUS
<1>4. PICK share : share = [i \in D |-> amount[i] \div whole]
  OBVIOUS
<1>5. PICK frac : frac = [i \in D |-> amount[i] % whole]
  OBVIOUS
<1>6. \A i \in D : amount[i] \in Nat /\ weights[i] \in Nat /\ amount[i] = fils * weights[i]
  BY <1>1, <1>3
<1>7. \A i \in D : /\ share[i] \in Nat /\ frac[i] \in 0 .. whole - 1
                   /\ amount[i] = whole * share[i] + frac[i]
  <2> SUFFICES ASSUME NEW i \in D
               PROVE  /\ share[i] \in Nat /\ frac[i] \in 0 .. whole - 1
                      /\ amount[i] = whole * share[i] + frac[i]
    OBVIOUS
  <2>1. PICK a \in Nat : a = amount[i]
    BY <1>6
  <2>2. /\ a \div whole \in Nat /\ a % whole \in 0 .. whole - 1
        /\ a = whole * (a \div whole) + (a % whole)
    BY DivMod
  <2> QED BY <1>4, <1>5, <2>1, <2>2
<1>8. PICK left : left = fils - Added(share)
  OBVIOUS
<1>9. PICK Before : Before = [i \in D |-> {j \in D : frac[j] > frac[i] \/ (frac[j] = frac[i] /\ j < i)}]
  OBVIOUS
<1>10. /\ shares = [i \in D |-> shares[i]] /\ DOMAIN shares = D
       /\ \A i \in D : shares[i] = share[i] + IF Cardinality(Before[i]) < left THEN 1 ELSE 0
  <2>1. DOMAIN weights = D
    BY <1>1
  <2>2. share = [i \in DOMAIN weights |-> (fils * weights[i]) \div Added(weights)]
    BY <1>3, <1>4, <2>1
  <2>3. \A i \in D : Before[i] = {j \in DOMAIN weights :
                        \/ (fils * weights[j]) % Added(weights) > (fils * weights[i]) % Added(weights)
                        \/ ((fils * weights[j]) % Added(weights) = (fils * weights[i]) % Added(weights) /\ j < i)}
    BY <1>3, <1>5, <1>9, <2>1
  <2>4. \A i \in D : share[i] = (fils * weights[i]) \div Added(weights)
    BY <2>1, <2>2
  <2>5. shares = [i \in D |-> share[i] + IF Cardinality(Before[i]) < left THEN 1 ELSE 0]
    BY <1>8, <2>1, <2>2, <2>3, <2>4, Zenon DEF Allocate
  <2> QED BY <2>5
<1>11. Added(weights) = Total(weights, D) /\ Added(share) = Total(share, D)
  <2>1. DOMAIN weights = 1 .. n /\ \A i \in 1 .. n : weights[i] \in Int
    OBVIOUS
  <2>2. DOMAIN share = 1 .. n /\ \A i \in 1 .. n : share[i] \in Int
    BY <1>1, <1>4, <1>7
  <2> QED BY <1>1, <2>1, <2>2, AddedIsTotal
<1>12. PICK parts \in Int, rest \in Int : parts = Total(share, D) /\ rest = Total(frac, D)
  <2>1. Total(share, D) \in Int
    BY <1>2, <1>7, TotalTakes
  <2>2. Total(frac, D) \in Int
    BY <1>2, <1>7, TotalTakes
  <2> QED BY <2>1, <2>2
<1>13. fils * whole = whole * parts + rest
  <2>1. Total(amount, D) = whole * Total(share, D) + Total(frac, D)
    <3>1. Combines(amount, whole, share, frac, D)
      BY <1>7 DEF Combines
    <3> QED BY ONLY <1>2, <3>1, whole \in Int, TotalLinear
  <2>2. PICK zero : zero = [i \in D |-> 0]
    OBVIOUS
  <2>3. Total(amount, D) = fils * Total(weights, D) + Total(zero, D)
    <3>1. Combines(amount, fils, weights, zero, D)
      BY <1>6, <2>2 DEF Combines
    <3> QED BY ONLY <1>2, <3>1, fils \in Int, TotalLinear
  <2>4. Total(zero, D) = 0
    <3>1. Total(zero, D) = 0 * Cardinality(D)
      BY <1>2, <2>2, TotalOfEqual
    <3> QED BY <1>2, <3>1
  <2>5. fils * whole \in Int
    OBVIOUS
  <2> QED BY <1>11, <1>12, <2>1, <2>3, <2>4, <2>5
<1>14. left \in Int /\ left = fils - parts /\ rest = whole * left
  <2>1. left = fils - parts
    BY <1>8, <1>11, <1>12
  <2>2. whole * (fils - parts) = fils * whole - whole * parts
    OBVIOUS
  <2>3. fils * whole \in Int /\ whole * parts \in Int
    OBVIOUS
  <2> QED BY <1>13, <2>1, <2>2, <2>3
<1>15. PICK Some : Some = {i \in D : frac[i] > 0}
  OBVIOUS
<1>16. IsFiniteSet(Some) /\ Cardinality(Some) \in 0 .. n
  BY <1>2, <1>15, FS_Subset, FS_CardinalityType
<1>17. PICK some \in Nat : some = Cardinality(Some)
  BY <1>16
<1>18. left \in 0 .. some
  <2>1. rest >= 0
    <3>1. PICK zero : zero = [i \in D |-> 0]
      OBVIOUS
    <3>2. Total(zero, D) = 0 * some
      <4>1. Total(zero, D) = 0 * Cardinality(D)
        BY <1>2, <3>1, TotalOfEqual
      <4> QED BY <1>2, <4>1
    <3>3. \A i \in D : zero[i] \in Int /\ frac[i] \in Int /\ zero[i] <= frac[i]
      BY <1>7, <3>1
    <3>4. Total(zero, D) <= Total(frac, D)
      BY ONLY <1>2, <3>3, TotalMonotone
    <3> QED BY <1>12, <3>2, <3>4
  <2>2. rest <= (whole - 1) * some
    <3>1. PICK one : one = [i \in D |-> IF i \in Some THEN 1 ELSE 0]
      OBVIOUS
    <3>2. Total(one, D) = some
      <4>1. Some \in SUBSET D /\ (\A x \in Some : one[x] = 1) /\ \A x \in D \ Some : one[x] = 0
        BY <1>15, <3>1
      <4> QED BY ONLY <1>2, <1>17, <4>1, TotalCounts
    <3>3. PICK top : top = [i \in D |-> (whole - 1) * one[i]]
      OBVIOUS
    <3>4. PICK zero : zero = [i \in D |-> 0]
      OBVIOUS
    <3>5. Total(top, D) = (whole - 1) * Total(one, D) + Total(zero, D)
      <4>1. Combines(top, whole - 1, one, zero, D)
        BY <3>1, <3>3, <3>4 DEF Combines
      <4>2. whole - 1 \in Int
        OBVIOUS
      <4> QED BY ONLY <1>2, <4>1, <4>2, TotalLinear
    <3>6. Total(zero, D) = 0
      <4>1. Total(zero, D) = 0 * Cardinality(D)
        BY <1>2, <3>4, TotalOfEqual
      <4> QED BY <1>2, <4>1
    <3>7. \A i \in D : frac[i] \in Int /\ top[i] \in Int /\ frac[i] <= top[i]
      BY <1>7, <1>15, <3>1, <3>3
    <3>8. Total(frac, D) <= Total(top, D)
      BY ONLY <1>2, <3>7, TotalMonotone
    <3> QED BY <1>12, <3>2, <3>5, <3>6, <3>8
  <2>3. left >= 0
    <3> SUFFICES ASSUME left <= -1 PROVE FALSE
      BY <1>14
    <3>1. PICK d \in Nat : left = -1 - d
      <4>1. -1 - left \in Nat /\ left = -1 - (-1 - left)
        BY <1>14
      <4> QED BY <4>1
    <3>2. whole * left = -whole - whole * d /\ whole * d \in Nat
      BY <3>1
    <3> QED BY <1>14, <2>1, <3>2
  <2>4. left <= some
    <3> SUFFICES ASSUME left >= some + 1 PROVE FALSE
      BY <1>14
    <3>1. PICK d \in Nat : left = some + 1 + d
      <4>1. left - some - 1 \in Nat /\ left = some + 1 + (left - some - 1)
        BY <1>14
      <4> QED BY <4>1
    <3>2. PICK a \in Nat, b \in Nat : a = whole * some /\ b = whole * d
      OBVIOUS
    <3>3. whole * left = a + whole + b /\ (whole - 1) * some = a - some
      BY <3>1, <3>2
    <3>4. rest = a + whole + b /\ rest <= a - some
      BY ONLY <1>14, <2>2, <3>3
    <3> QED BY <3>4
  <2> QED BY <1>14, <2>3, <2>4
<1>19. PICK bonus : bonus = [i \in D |-> IF Cardinality(Before[i]) < left THEN 1 ELSE 0]
  OBVIOUS
<1>20. IsOrder(Before, D)
  <2>1. frac \in [1 .. n -> Nat]
    BY <1>1, <1>5, <1>7
  <2> QED BY <1>1, <1>9, <2>1, FractionsAreOrdered
<1>21. Total(bonus, D) = left
  <2>1. left \in 0 .. Cardinality(D)
    BY <1>2, <1>16, <1>17, <1>18
  <2>2. PICK First : First = {i \in D : Cardinality(Before[i]) < left}
    OBVIOUS
  <2>3. Cardinality(First) = left
    BY ONLY <1>2, <1>20, <2>1, <2>2, FirstRanks
  <2>4. First \in SUBSET D /\ (\A x \in First : bonus[x] = 1) /\ \A x \in D \ First : bonus[x] = 0
    BY <1>19, <2>2
  <2> QED BY ONLY <1>2, <2>3, <2>4, TotalCounts
<1>22. \A i \in D : bonus[i] \in {0, 1} /\ shares[i] = share[i] + bonus[i] /\ shares[i] \in Nat
  BY <1>7, <1>10, <1>19
<1>23. Added(shares) = fils
  <2>1. Total(shares, D) = 1 * Total(share, D) + Total(bonus, D)
    <3>1. Combines(shares, 1, share, bonus, D)
      BY <1>7, <1>22 DEF Combines
    <3>2. 1 \in Int
      OBVIOUS
    <3> QED BY ONLY <1>2, <3>1, <3>2, TotalLinear
  <2>2. DOMAIN shares = 1 .. n /\ \A i \in 1 .. n : shares[i] \in Int
    BY <1>1, <1>10, <1>22
  <2>3. Added(shares) = Total(shares, D)
    BY <1>1, <2>2, AddedIsTotal
  <2> QED BY <1>12, <1>14, <1>21, <2>1, <2>3
<1>24. ASSUME NEW i \in D, frac[i] = 0 PROVE bonus[i] = 0
  <2>1. Some \in SUBSET Before[i]
    BY <1>7, <1>9, <1>15, <1>24
  <2>2. IsFiniteSet(Before[i])
    BY <1>2, <1>9, FS_Subset
  <2>3. some <= Cardinality(Before[i]) /\ Cardinality(Before[i]) \in Nat
    BY <1>17, <2>1, <2>2, FS_Subset, FS_CardinalityType
  <2> QED BY <1>18, <1>19, <2>3
<1>25. ASSUME NEW i \in D, weights[i] = 0 PROVE shares[i] = 0
  <2>1. amount[i] = 0
    BY <1>6, <1>25
  <2>2. frac[i] = 0 /\ share[i] = 0
    <3>1. PICK s \in Nat : s = share[i]
      BY <1>7
    <3>2. PICK f \in Nat : f = frac[i]
      BY <1>7
    <3>3. 0 = whole * s + f
      BY <1>7, <2>1, <3>1, <3>2
    <3>4. s = 0
      <4> SUFFICES ASSUME s >= 1 PROVE FALSE
        OBVIOUS
      <4>1. PICK t \in Nat : s = 1 + t
        <5>1. s - 1 \in Nat /\ s = 1 + (s - 1)
          OBVIOUS
        <5> QED BY <5>1
      <4>2. whole * s = whole + whole * t /\ whole * t \in Nat
        BY <4>1
      <4> QED BY <3>3, <4>2
    <3> QED BY <3>1, <3>2, <3>3, <3>4
  <2> QED BY <1>22, <1>24, <2>2
<1>26. ASSUME fils <= whole, NEW i \in D PROVE shares[i] <= weights[i]
  <2>1. PICK w, s, f : w = weights[i] /\ s = share[i] /\ f = frac[i]
    OBVIOUS
  <2>9. w \in Nat /\ s \in Nat /\ f \in Nat
    BY <1>6, <1>7, <2>1
  <2>2. fils * w = whole * s + f
    BY <1>6, <1>7, <2>1
  <2>3. PICK d \in Nat : whole = fils + d
    <3>1. whole - fils \in Nat /\ whole = fils + (whole - fils)
      BY <1>26
    <3> QED BY <3>1
  <2>4. whole * w = fils * w + d * w /\ d * w \in Nat /\ fils * w \in Nat
    BY <2>9, <2>3
  <2>5. whole * s + f <= whole * w /\ whole * s \in Nat
    BY <2>9, <2>2, <2>4
  <2>6. s <= w
    <3> SUFFICES ASSUME s >= w + 1 PROVE FALSE
      BY <2>9
    <3>1. PICK t \in Nat : s = w + 1 + t
      <4>1. s - w - 1 \in Nat /\ s = w + 1 + (s - w - 1)
        BY <2>9
      <4> QED BY <4>1
    <3>2. PICK a \in Nat, b \in Nat : a = whole * w /\ b = whole * t
      BY <2>9
    <3>3. whole * s = a + whole + b
      BY <2>9, <3>1, <3>2
    <3>4. a + whole + b + f <= a
      BY ONLY <2>5, <3>2, <3>3
    <3> QED BY <2>9, <3>4
  <2>7. CASE f = 0
    <3>1. bonus[i] = 0
      BY <1>24, <2>1, <2>7
    <3>2. shares[i] = s + bonus[i]
      BY <1>22, <2>1
    <3> QED BY ONLY <2>1, <2>9, <2>6, <3>1, <3>2
  <2>8. CASE f > 0
    <3>1. s # w
      <4> SUFFICES ASSUME s = w PROVE FALSE
        OBVIOUS
      <4>1. PICK a \in Nat : a = whole * s /\ a = whole * w
        BY <2>9
      <4>2. a + f <= a
        BY ONLY <2>5, <4>1
      <4> QED BY <2>9, <2>8, <4>2
    <3> QED BY <1>22, <2>1, <2>9, <2>6, <3>1
  <2> QED BY <2>9, <2>7, <2>8
<1>27. \A i \in D : shares[i] - ((fils * weights[i]) \div whole) \in {0, 1}
  <2> SUFFICES ASSUME NEW i \in D PROVE shares[i] - ((fils * weights[i]) \div whole) \in {0, 1}
    OBVIOUS
  <2>1. share[i] = (fils * weights[i]) \div whole
    BY <1>3, <1>4
  <2>2. shares[i] - share[i] \in {0, 1}
    BY <1>7, <1>22
  <2> QED BY ONLY <2>1, <2>2
<1>28. shares \in [D -> Nat]
  BY <1>10, <1>22
<1> QED BY <1>1, <1>23, <1>25, <1>26, <1>27, <1>28

\* What most of its callers need of it.
LEMMA AllocateAddsUp ==
    ASSUME NEW n \in Nat, NEW weights \in [1 .. n -> Nat], NEW fils \in Nat,
           NEW whole \in Nat, whole = Added(weights), whole > 0,
           NEW shares, shares = Allocate(fils, weights)
    PROVE  shares \in [1 .. n -> Nat] /\ Added(shares) = fils
BY AllocateIsExact, Zenon

\* Amounts that are all zero add up to zero, and no others do.
LEMMA AddedIsZero ==
    ASSUME NEW n \in Nat, NEW w \in [1 .. n -> Nat]
    PROVE  Added(w) \in Nat /\ (AllZero(w) <=> Added(w) = 0)
<1>1. PICK D : D = 1 .. n /\ IsFiniteSet(D) /\ DOMAIN w = D
  BY FS_Interval
<1>2. \A x \in D : w[x] \in Nat
  BY <1>1
<1>3. Added(w) = Total(w, D) /\ Total(w, D) \in Int
  BY <1>1, AddedIsTotal
<1>4. PICK zero : zero = [i \in D |-> 0]
  OBVIOUS
<1>5. ASSUME NEW S \in SUBSET D PROVE Total(zero, S) = 0
  <2>1. IsFiniteSet(S) /\ Cardinality(S) \in Nat
    BY <1>1, FS_Subset, FS_CardinalityType
  <2>2. Total(zero, S) = 0 * Cardinality(S)
    BY <1>4, <2>1, TotalOfEqual
  <2> QED BY <2>1, <2>2
<1>6. ASSUME NEW S \in SUBSET D PROVE Total(w, S) \in Nat
  <2>1. IsFiniteSet(S)
    BY <1>1, FS_Subset
  <2>2. \A x \in S : zero[x] \in Int /\ w[x] \in Int /\ zero[x] <= w[x]
    BY <1>2, <1>4
  <2>3. Total(zero, S) <= Total(w, S)
    BY ONLY <2>1, <2>2, TotalMonotone
  <2>4. Total(w, S) \in Int
    BY <2>1, <2>2, TotalTakes
  <2> QED BY <1>5, <2>3, <2>4
<1>7. ASSUME AllZero(w) PROVE Total(w, D) = 0
  <2>1. \A x \in D : w[x] = 0
    BY <1>1, <1>7 DEF AllZero
  <2>2. Total(w, D) = 0 * Cardinality(D)
    BY <1>1, <2>1, TotalOfEqual
  <2> QED BY <1>1, <2>2, FS_CardinalityType
<1>8. ASSUME ~AllZero(w) PROVE Total(w, D) > 0
  <2>1. PICK x \in D : w[x] # 0
    BY <1>1, <1>8 DEF AllZero
  <2>2. Total(w, D) = w[x] + Total(w, D \ {x})
    BY <1>1, <1>2, TotalTakes
  <2>3. Total(w, D \ {x}) \in Nat
    BY <1>6
  <2> QED BY <1>2, <2>1, <2>2, <2>3
<1> QED BY <1>3, <1>6, <1>7, <1>8

\* group-money.ts spread(): exact as long as there is nothing to share when
\* nothing weighs, and nobody's share exceeds their weight when the whole does not.
LEMMA SpreadIsExact ==
    ASSUME NEW n \in Nat, NEW w \in [1 .. n -> Nat], NEW fils \in Nat, fils <= Added(w),
           NEW shares, shares = Spread(fils, w)
    PROVE  /\ shares \in [1 .. n -> Nat] /\ Added(shares) = fils
           /\ \A i \in 1 .. n : shares[i] <= w[i]
<1>1. PICK whole \in Nat : whole = Added(w)
  BY AddedIsZero
<1>2. CASE fils = 0 \/ AllZero(w)
  <2>1. shares = [i \in 1 .. n |-> 0] /\ fils = 0
    BY <1>1, <1>2, AddedIsZero DEF Spread
  <2>2. shares \in [1 .. n -> Nat] /\ AllZero(shares)
    BY <2>1 DEF AllZero
  <2>3. Added(shares) = 0
    BY <2>2, AddedIsZero
  <2> QED BY <2>1, <2>2, <2>3
<1>3. CASE ~(fils = 0 \/ AllZero(w))
  <2>1. shares = Allocate(fils, w)
    BY <1>3 DEF Spread
  <2>2. whole > 0 /\ fils <= whole
    BY <1>1, <1>3, AddedIsZero
  <2>3. /\ shares \in [1 .. n -> Nat] /\ Added(shares) = fils
        /\ fils <= whole => \A i \in 1 .. n : shares[i] <= w[i]
    <3>1. /\ n \in Nat /\ w \in [1 .. n -> Nat] /\ fils \in Nat /\ whole \in Nat
          /\ whole = Added(w) /\ whole > 0
      BY <1>1, <2>2
    <3> QED BY ONLY <2>1, <3>1, AllocateIsExact, Zenon
  <2> QED BY <2>2, <2>3
<1> QED BY <1>2, <1>3

\* package.ts spreadOverParts(): exact over any parts, there being one.
LEMMA SpreadOverPartsIsExact ==
    ASSUME NEW n \in Nat, NEW parts \in [1 .. n -> Nat], NEW fils \in Nat,
           n = 0 => fils = 0, NEW shares, shares = SpreadOverParts(fils, parts)
    PROVE  shares \in [1 .. n -> Nat] /\ Added(shares) = fils
<1>1. PICK w : w = IF AllZero(parts) THEN [i \in DOMAIN parts |-> 1] ELSE parts
  OBVIOUS
<1>2. w \in [1 .. n -> Nat]
  BY <1>1
<1>3. PICK whole \in Nat : whole = Added(w)
  BY <1>2, AddedIsZero
<1>4. shares = Allocate(fils, w)
  BY <1>1 DEF SpreadOverParts
<1>5. CASE n = 0
  <2>1. DOMAIN w = {}
    BY <1>2, <1>5
  <2>2. shares = [i \in {} |-> 0]
    <3>1. DOMAIN shares = {} /\ shares = [i \in {} |-> shares[i]]
      BY <1>4, <2>1, Zenon DEF Allocate
    <3> QED BY <3>1
  <2>3. shares \in [1 .. n -> Nat] /\ AllZero(shares)
    BY <1>5, <2>2 DEF AllZero
  <2> QED BY <1>5, <2>3, AddedIsZero
<1>6. CASE n > 0
  <2>1. ~AllZero(w)
    <3>1. CASE AllZero(parts)
      <4>1. 1 \in DOMAIN w /\ w[1] = 1
        BY <1>1, <1>6, <3>1
      <4> QED BY <4>1 DEF AllZero
    <3>2. CASE ~AllZero(parts)
      BY <1>1, <3>2
    <3> QED BY <3>1, <3>2
  <2>2. whole > 0
    BY <1>2, <1>3, <2>1, AddedIsZero
  <2>3. n \in Nat /\ fils \in Nat /\ whole \in Nat
    OBVIOUS
  <2> QED BY ONLY <1>2, <1>3, <1>4, <2>2, <2>3, AllocateAddsUp
<1> QED BY <1>5, <1>6

\* The members' totals and deposits add up to the party's.
LEMMA GroupMoneyIsExact ==
    ASSUME NEW n \in Nat, NEW members, DOMAIN members = 1 .. n,
           \A i \in 1 .. n : MemberNet(members[i]) \in Nat,
           NEW p \in 0 .. 100, NEW money, money = GroupMoney(members, p)
    PROVE  /\ money.total \in Nat /\ money.vat \in Nat /\ money.deposit \in Nat
           /\ Added(money.totals) = money.total
           /\ Added(money.deposits) = money.deposit
           /\ \A i \in 1 .. n : money.deposits[i] \in 0 .. money.totals[i]
<1>1. PICK nets : nets = [i \in 1 .. n |-> MemberNet(members[i])]
  OBVIOUS
<1>2. nets \in [1 .. n -> Nat]
  BY <1>1
<1>3. PICK net \in Nat : net = Added(nets)
  BY <1>2, AddedIsZero
<1>4. PICK vat : vat = Percent(net, VAT_PERCENT)
  OBVIOUS
<1>5. vat \in 0 .. net
  <2>1. VAT_PERCENT \in 0 .. 100
    BY DEF VAT_PERCENT
  <2> QED BY <1>4, <2>1, PercentOfAmount
<1>6. PICK total \in Nat : total = net + vat
  BY <1>5
<1>7. PICK deposit : deposit = Percent(total, p)
  OBVIOUS
<1>8. deposit \in 0 .. total
  BY <1>7, PercentOfAmount
<1>9. PICK vats : vats = Spread(vat, nets)
  OBVIOUS
<1>10. vats \in [1 .. n -> Nat] /\ Added(vats) = vat
  <2>1. n \in Nat /\ vat \in Nat /\ vat <= Added(nets)
    BY <1>3, <1>5
  <2> QED BY ONLY <1>2, <1>9, <2>1, SpreadIsExact
<1>11. PICK totals : totals = [i \in 1 .. n |-> nets[i] + vats[i]]
  OBVIOUS
<1>12. totals \in [1 .. n -> Nat]
  BY <1>2, <1>10, <1>11
<1>13. Added(totals) = total
  <2>1. PICK D : D = 1 .. n /\ IsFiniteSet(D)
    BY FS_Interval
  <2>2. Combines(totals, 1, nets, vats, D)
    BY <1>2, <1>10, <1>11, <2>1 DEF Combines
  <2>3. 1 \in Int
    OBVIOUS
  <2>4. Total(totals, D) = 1 * Total(nets, D) + Total(vats, D)
    BY ONLY <2>1, <2>2, <2>3, TotalLinear
  <2>5. Added(totals) = Total(totals, D)
    BY <1>12, <2>1, AddedIsTotal
  <2>6. Added(nets) = Total(nets, D)
    BY <1>2, <2>1, AddedIsTotal
  <2>7. Added(vats) = Total(vats, D)
    BY <1>10, <2>1, AddedIsTotal
  <2> QED BY <1>3, <1>5, <1>6, <1>10, <2>4, <2>5, <2>6, <2>7
<1>14. PICK deposits : deposits = Spread(deposit, totals)
  OBVIOUS
<1>15. deposits \in [1 .. n -> Nat] /\ Added(deposits) = deposit
       /\ \A i \in 1 .. n : deposits[i] <= totals[i]
  <2>1. n \in Nat /\ deposit \in Nat /\ deposit <= Added(totals)
    BY <1>8, <1>13
  <2> QED BY ONLY <1>12, <1>14, <2>1, SpreadIsExact
<1>16. /\ money.total = total /\ money.vat = vat /\ money.deposit = deposit
       /\ money.totals = totals /\ money.deposits = deposits
  <2>1. nets = [i \in DOMAIN members |-> MemberNet(members[i])] /\ DOMAIN nets = 1 .. n
    BY <1>1
  <2> QED BY <1>3, <1>4, <1>6, <1>7, <1>9, <1>11, <1>14, <2>1 DEF GroupMoney
<1> QED BY <1>5, <1>6, <1>8, <1>12, <1>13, <1>15, <1>16

\* course.ts planDraws(): every visit draws an amount, and the last leaves nothing.
LEMMA DrawsAreExact ==
    ASSUME NEW net \in Nat, NEW n \in Nat, n > 0, NEW draws, draws = PlanDraws(net, n)
    PROVE  /\ Len(draws) = n /\ DOMAIN draws = 1 .. n
           /\ draws[n].left = 0 /\ \A i \in 1 .. n : draws[i].gross >= 0
<1>1. PICK vat : vat = Percent(net, VAT_PERCENT)
  OBVIOUS
<1>2. vat \in Nat
  BY <1>1, PercentIsNat DEF VAT_PERCENT
<1>3. PICK even : even = [i \in 1 .. n |-> 1]
  OBVIOUS
<1>4. even \in [1 .. n -> Nat] /\ ~AllZero(even)
  BY <1>3 DEF AllZero
<1>5. PICK whole \in Nat : whole = Added(even)
  BY <1>4, AddedIsZero
<1>6. whole > 0
  BY <1>4, <1>5, AddedIsZero
<1>7. PICK nets, vats : nets = Allocate(net, even) /\ vats = Allocate(vat, even)
  OBVIOUS
<1>8. nets \in [1 .. n -> Nat] /\ Added(nets) = net
  <2>1. n \in Nat /\ net \in Nat /\ whole \in Nat
    OBVIOUS
  <2> QED BY ONLY <1>4, <1>5, <1>6, <1>7, <2>1, AllocateAddsUp
<1>9. vats \in [1 .. n -> Nat] /\ Added(vats) = vat
  <2>1. n \in Nat /\ whole \in Nat
    OBVIOUS
  <2> QED BY ONLY <1>2, <1>4, <1>5, <1>6, <1>7, <2>1, AllocateAddsUp
<1>10. PICK gross : gross = [i \in 1 .. n |-> nets[i] + vats[i]]
  OBVIOUS
<1>11. gross \in [1 .. n -> Nat]
  BY <1>8, <1>9, <1>10
<1>12. Added(gross) = net + vat
  <2>1. PICK D : D = 1 .. n /\ IsFiniteSet(D)
    BY FS_Interval
  <2>2. Combines(gross, 1, nets, vats, D)
    BY <1>8, <1>9, <1>10, <2>1 DEF Combines
  <2>3. 1 \in Int
    OBVIOUS
  <2>4. Total(gross, D) = 1 * Total(nets, D) + Total(vats, D)
    BY ONLY <2>1, <2>2, <2>3, TotalLinear
  <2>5. Added(gross) = Total(gross, D)
    BY <1>11, <2>1, AddedIsTotal
  <2>6. Added(nets) = Total(nets, D)
    BY <1>8, <2>1, AddedIsTotal
  <2>7. Added(vats) = Total(vats, D)
    BY <1>9, <2>1, AddedIsTotal
  <2> QED BY <1>2, <1>8, <1>9, <2>4, <2>5, <2>6, <2>7
<1>13. draws = [i \in 1 .. n |-> [gross |-> gross[i],
                                  left |-> (net + vat) - Added(SubSeq(gross, 1, i))]]
  BY <1>1, <1>3, <1>7, <1>10, Zenon DEF PlanDraws
<1>14. SubSeq(gross, 1, n) = gross
  BY <1>11
<1>15. draws[n].left = 0
  <2>1. draws[n].left = (net + vat) - Added(SubSeq(gross, 1, n))
    BY <1>13
  <2>2. PICK z \in Int : z = net + vat
    BY <1>2
  <2>3. draws[n].left = z - z
    BY ONLY <1>12, <1>14, <2>1, <2>2
  <2> QED BY <2>3
<1>16. \A i \in 1 .. n : draws[i].gross >= 0
  BY <1>11, <1>13
<1>17. DOMAIN draws = 1 .. n
  BY <1>13
<1>18. Len(draws) = n
  BY <1>13
<1> QED BY <1>15, <1>16, <1>17, <1>18

\* A percentage of a whole amount is a whole amount.
LEMMA PercentIsInt ==
    ASSUME NEW fils \in Int, NEW p \in Int
    PROVE  Percent(fils, p) \in Int
<1>1. PICK x \in Int : x = fils * p
  OBVIOUS
<1>2. (x + 50) \div 100 \in Int
  OBVIOUS
<1> QED BY <1>1, <1>2 DEF Percent

\* settle(): what is due less what is credited is the bill less the tender.
LEMMA RegisterIsExact ==
    ASSUME NEW t, t.services \in Int, t.retail \in Int, t.promo \in Int, t.tip \in Int,
           t.deposit \in Int, t.loyalty = 0, NEW till, till = Settle(t)
    PROVE  till.due - till.credit = (till.base + till.tip + till.vat) - t.deposit
<1>1. PICK discount : discount = IF t.gold THEN Percent(t.services, 10) ELSE 0
  OBVIOUS
<1>2. discount \in Int
  <2>1. Percent(t.services, 10) \in Int
    <3>1. t.services \in Int /\ 10 \in Int
      OBVIOUS
    <3> QED BY ONLY <3>1, PercentIsInt
  <2> QED BY <1>1, <2>1
<1>3. PICK promo : promo = Percent(t.services - discount, t.promo)
  OBVIOUS
<1>4. promo \in Int
  <2>1. t.services - discount \in Int /\ t.promo \in Int
    BY <1>2
  <2> QED BY ONLY <1>3, <2>1, PercentIsInt
<1>5. PICK base \in Int : base = (t.services + t.retail) - discount - promo
  BY <1>2, <1>4
<1>6. PICK tip : tip = Percent(base - t.retail, t.tip)
  OBVIOUS
<1>7. PICK vat : vat = Percent(base, VAT_PERCENT)
  OBVIOUS
<1>8. tip \in Int /\ vat \in Int
  <2>1. base - t.retail \in Int /\ t.tip \in Int /\ base \in Int
    OBVIOUS
  <2>2. VAT_PERCENT \in Int
    BY DEF VAT_PERCENT
  <2> QED BY ONLY <1>6, <1>7, <2>1, <2>2, PercentIsInt
<1>9. PICK raw \in Int : raw = base + tip + vat - t.deposit - t.loyalty
  BY <1>8
<1>10. /\ till.base = base /\ till.tip = tip /\ till.vat = vat
       /\ till.due = Largest(0, raw) /\ till.credit = Largest(0, 0 - raw)
  BY <1>1, <1>3, <1>5, <1>6, <1>7, <1>9, Zenon DEF Settle
<1> QED BY <1>8, <1>9, <1>10 DEF Largest

-----------------------------------------------------------------------------
(* What a list of picks resolves to, and that it reads back *)

PriceIn(m, s) == IF s \in DOMAIN m.price THEN m.price[s] ELSE 0

\* What one pick adds: the service, or a package's parts, of one sale.
SharesOf(m, id) ==
    SpreadOverParts(m.packages[id].price,
                    [i \in DOMAIN m.packages[id].parts |-> PriceIn(m, m.packages[id].parts[i])])
LinesOf(m, id, sold) ==
    IF id \notin DOMAIN m.packages
    THEN <<[id |-> id, fils |-> PriceIn(m, id), sale |-> NoSale]>>
    ELSE [i \in DOMAIN m.packages[id].parts |->
            [id |-> m.packages[id].parts[i], fils |-> SharesOf(m, id)[i],
             sale |-> [pkg |-> id, seq |-> sold]]]
SoldAfter(m, id, sold) == IF id \notin DOMAIN m.packages THEN sold ELSE sold + 1

Names(m, ids) == ToSet(ids) \cup UNION {ToSet(m.packages[k].parts) : k \in DOMAIN m.packages}
LineRows(I)   == [id : I, fils : Nat, sale : {NoSale} \cup [pkg : I, seq : Nat]]
PicksOf(I)    == [items : Seq(LineRows(I)), sold : Nat]

\* g[k] is where resolveSelection() stands after k picks.
Resolves(g, m, ids) ==
    /\ g \in [0 .. Len(ids) -> PicksOf(Names(m, ids))]
    /\ g[0] = [items |-> <<>>, sold |-> 0]
    /\ \A k \in 1 .. Len(ids) :
         /\ g[k].items = g[k - 1].items \o LinesOf(m, ids[k], g[k - 1].sold)
         /\ g[k].sold = SoldAfter(m, ids[k], g[k - 1].sold)
    /\ Selection(m, ids) = g[Len(ids)].items

\* A pick adds at least one line; every line of a package is of its sale.
LEMMA PickAdds ==
    ASSUME NEW m, IsMenu(m), NEW ids, NEW id \in ToSet(ids), NEW sold \in Nat,
           NEW lines, lines = LinesOf(m, id, sold)
    PROVE  /\ lines \in Seq(LineRows(Names(m, ids))) /\ Len(lines) \in Nat \ {0}
           /\ id \notin DOMAIN m.packages =>
                Len(lines) = 1 /\ lines[1] = [id |-> id, fils |-> PriceIn(m, id), sale |-> NoSale]
           /\ id \in DOMAIN m.packages =>
                /\ Len(lines) = Len(m.packages[id].parts)
                /\ \A i \in 1 .. Len(lines) :
                     /\ lines[i].id = m.packages[id].parts[i]
                     /\ lines[i].sale = [pkg |-> id, seq |-> sold]
<1>1. PICK I : I = Names(m, ids)
  OBVIOUS
<1>2. id \in I
  BY <1>1 DEF Names
<1>3. \A s : PriceIn(m, s) \in Nat
  BY DEF PriceIn, IsMenu
<1>4. CASE id \notin DOMAIN m.packages
  <2>1. PICK line : line = [id |-> id, fils |-> PriceIn(m, id), sale |-> NoSale]
    OBVIOUS
  <2>2. line \in LineRows(I)
    BY <1>2, <1>3, <2>1 DEF LineRows
  <2>3. lines = <<line>>
    BY <1>4, <2>1 DEF LinesOf
  <2> QED BY <1>1, <1>4, <2>1, <2>2, <2>3
<1>5. CASE id \in DOMAIN m.packages
  <2>1. PICK parts : parts = m.packages[id].parts
    OBVIOUS
  <2>2. parts \in Seq(ToSet(parts)) /\ parts # <<>> /\ m.packages[id].price \in Nat
    BY <1>5, <2>1 DEF IsMenu, IsList
  <2>3. PICK n \in Nat \ {0} : n = Len(parts) /\ DOMAIN parts = 1 .. n
    BY <2>2
  <2>4. \A i \in 1 .. n : parts[i] \in I
    <3>1. \A i \in 1 .. n : parts[i] \in ToSet(parts)
      BY <2>3 DEF ToSet
    <3>2. ToSet(parts) \subseteq I
      BY <1>1, <1>5, <2>1 DEF Names
    <3> QED BY <3>1, <3>2
  <2>5. PICK weights : weights = [i \in DOMAIN parts |-> PriceIn(m, parts[i])]
    OBVIOUS
  <2>6. weights \in [1 .. n -> Nat]
    BY <1>3, <2>3, <2>5
  <2>7. PICK shares : shares = SpreadOverParts(m.packages[id].price, weights)
    OBVIOUS
  <2>8. shares \in [1 .. n -> Nat]
    <3>1. n \in Nat /\ m.packages[id].price \in Nat /\ (n = 0 => m.packages[id].price = 0)
      BY <2>2, <2>3
    <3> QED BY ONLY <2>6, <2>7, <3>1, SpreadOverPartsIsExact
  <2>9. shares = SharesOf(m, id)
    BY <2>1, <2>5, <2>7 DEF SharesOf
  <2>10. lines = [i \in 1 .. n |-> [id |-> parts[i], fils |-> shares[i],
                                    sale |-> [pkg |-> id, seq |-> sold]]]
    BY <1>5, <2>1, <2>3, <2>9 DEF LinesOf
  <2>11. \A i \in 1 .. n : lines[i] \in LineRows(I)
    BY <1>2, <2>4, <2>8, <2>10 DEF LineRows
  <2>12. lines \in Seq(LineRows(I)) /\ Len(lines) = n
    BY <2>10, <2>11
  <2> QED BY <1>1, <1>5, <2>1, <2>3, <2>10, <2>12
<1> QED BY <1>4, <1>5

\* resolveSelection() takes the picks one by one.
LEMMA SelectionSteps ==
    ASSUME NEW m, IsMenu(m), NEW ids, IsList(ids)
    PROVE  \E g : Resolves(g, m, ids)
<1> DEFINE priceOf(s) == IF s \in DOMAIN m.price THEN m.price[s] ELSE 0
           expand(acc, s) ==
             IF s \notin DOMAIN m.packages
             THEN [acc EXCEPT !.items = Append(@, [id |-> s, fils |-> priceOf(s), sale |-> NoSale])]
             ELSE [items |-> acc.items \o [i \in DOMAIN m.packages[s].parts |->
                               [id |-> m.packages[s].parts[i],
                                fils |-> SpreadOverParts(m.packages[s].price,
                                   [j \in DOMAIN m.packages[s].parts |-> priceOf(m.packages[s].parts[j])])[i],
                                sale |-> [pkg |-> s, seq |-> acc.sold]]],
                   sold |-> acc.sold + 1]
           none == [items |-> <<>>, sold |-> 0]
           step(h) == [s \in SUBSET (DOMAIN ids) |->
                         IF s = {} THEN none ELSE expand(h[s \ {Max(s)}], ids[Max(s)])]
<1>1. Selection(m, ids) = (CHOOSE h : h = step(h))[DOMAIN ids].items
  BY Zenon DEF Selection, FoldLeft, MapThenFoldSet
<1>2. PICK n \in Nat : n = Len(ids) /\ DOMAIN ids = 1 .. n
  BY DEF IsList
<1>3. PICK I : I = Names(m, ids)
  OBVIOUS
<1>4. PICK X : X = PicksOf(I)
  OBVIOUS
<1>5. ASSUME NEW x \in X, NEW k \in 1 .. n
      PROVE  /\ expand(x, ids[k]) = [items |-> x.items \o LinesOf(m, ids[k], x.sold),
                                     sold |-> SoldAfter(m, ids[k], x.sold)]
             /\ expand(x, ids[k]) \in X
  <2>1. PICK id : id = ids[k]
    OBVIOUS
  <2>2. PICK lines : lines = LinesOf(m, id, x.sold)
    OBVIOUS
  <2>3. x.items \in Seq(LineRows(I)) /\ x.sold \in Nat /\ x = [items |-> x.items, sold |-> x.sold]
    BY <1>4 DEF PicksOf
  <2>4. lines \in Seq(LineRows(I))
    <3>1. id \in ToSet(ids)
      BY <1>2, <2>1 DEF ToSet
    <3> QED BY <1>3, <2>2, <2>3, <3>1, PickAdds
  <2>5. expand(x, id) = [items |-> x.items \o lines, sold |-> SoldAfter(m, id, x.sold)]
    <3>1. CASE id \notin DOMAIN m.packages
      <4>1. PICK line : line = [id |-> id, fils |-> PriceIn(m, id), sale |-> NoSale]
        OBVIOUS
      <4>2. lines = <<line>> /\ line \in LineRows(I)
        BY <2>2, <2>4, <3>1, <4>1 DEF LinesOf
      <4>3. Append(x.items, line) = x.items \o lines
        BY <2>3, <4>2
      <4>4. priceOf(id) = PriceIn(m, id)
        BY DEF PriceIn
      <4>5. expand(x, id) = [x EXCEPT !.items = Append(@, line)]
        BY <3>1, <4>1, <4>4
      <4> QED BY <2>3, <3>1, <4>3, <4>5 DEF SoldAfter
    <3>2. CASE id \in DOMAIN m.packages
      <4>1. PICK weights : weights = [j \in DOMAIN m.packages[id].parts |-> priceOf(m.packages[id].parts[j])]
        OBVIOUS
      <4>2. SharesOf(m, id) = SpreadOverParts(m.packages[id].price, weights)
        BY <4>1 DEF SharesOf, PriceIn
      <4>3. PICK shares : shares = SharesOf(m, id)
        OBVIOUS
      <4>4. lines = [i \in DOMAIN m.packages[id].parts |->
                       [id |-> m.packages[id].parts[i], fils |-> shares[i],
                        sale |-> [pkg |-> id, seq |-> x.sold]]]
        BY <2>2, <3>2, <4>3 DEF LinesOf
      <4>5. expand(x, id) = [items |-> x.items \o [i \in DOMAIN m.packages[id].parts |->
                               [id |-> m.packages[id].parts[i],
                                fils |-> SpreadOverParts(m.packages[id].price, weights)[i],
                                sale |-> [pkg |-> id, seq |-> x.sold]]],
                             sold |-> x.sold + 1]
        BY ONLY <3>2, <4>1
      <4>6. expand(x, id) = [items |-> x.items \o lines, sold |-> x.sold + 1]
        BY ONLY <4>2, <4>3, <4>4, <4>5
      <4> QED BY <3>2, <4>6 DEF SoldAfter
    <3> QED BY <3>1, <3>2
  <2>6. x.items \o lines \in Seq(LineRows(I)) /\ SoldAfter(m, id, x.sold) \in Nat
    BY <2>3, <2>4 DEF SoldAfter
  <2> QED BY <1>4, <2>1, <2>2, <2>5, <2>6 DEF PicksOf
<1> HIDE DEF expand, priceOf
<1>6. none \in X
  BY <1>4 DEF PicksOf
<1>7. PICK T : T = [k \in 1 .. n |-> [x \in X |-> expand(x, ids[k])]]
  OBVIOUS
<1>8. T \in [1 .. n -> [X -> X]]
  BY <1>5, <1>7
<1>9. PICK f \in [SUBSET (1 .. n) -> X] : FoldsBy(f, SUBSET (1 .. n), none, T)
  <2> HIDE DEF none
  <2> QED BY <1>6, <1>8, FoldExists
<1>10. f = step(f)
  <2>1. ASSUME NEW s \in SUBSET (1 .. n) PROVE f[s] = step(f)[s]
    <3>1. CASE s = {}
      BY <1>2, <1>9, <3>1 DEF FoldsBy
    <3>2. CASE s # {}
      <4>1. PICK k \in 1 .. n : k = Max(s)
        BY <3>2, HighestIsIn
      <4>2. PICK x \in X : x = f[s \ {k}]
        BY <1>9
      <4>3. f[s] = T[k][x]
        BY <1>9, <3>2, <4>1, <4>2 DEF FoldsBy
      <4>4. step(f)[s] = expand(x, ids[k])
        BY <1>2, <3>2, <4>1, <4>2
      <4> QED BY <1>7, <4>3, <4>4
    <3> QED BY <3>1, <3>2
  <2> QED BY <1>2, <1>9, <2>1
<1>11. PICK h : h = (CHOOSE e : e = step(e)) /\ h = step(h)
  <2> HIDE DEF step
  <2> QED BY <1>10
<1>12. h[{}] = none
  BY <1>2, <1>11
<1>13. \A k \in 1 .. n : h[1 .. k] = expand(h[1 .. (k - 1)], ids[k])
  <2> SUFFICES ASSUME NEW k \in 1 .. n PROVE h[1 .. k] = expand(h[1 .. (k - 1)], ids[k])
    OBVIOUS
  <2>1. PICK s : s = 1 .. k
    OBVIOUS
  <2>2. s \in SUBSET (1 .. n) /\ s # {} /\ Max(s) = k /\ s \ {Max(s)} = 1 .. (k - 1)
    BY <2>1, PrefixEnds
  <2>3. h[s] = expand(h[s \ {Max(s)}], ids[Max(s)])
    BY <1>2, <1>11, <2>2
  <2> QED BY ONLY <2>1, <2>2, <2>3
<1>14. PICK g : g = [k \in 0 .. n |-> h[1 .. k]]
  OBVIOUS
<1>15. g[0] = none /\ \A k \in 1 .. n : g[k] = expand(g[k - 1], ids[k])
  <2>1. 1 .. 0 = {} /\ 0 \in 0 .. n /\ \A k \in 1 .. n : k \in 0 .. n /\ k - 1 \in 0 .. n
    OBVIOUS
  <2> HIDE DEF none
  <2> QED BY <1>12, <1>13, <1>14, <2>1
<1>16. \A k \in 0 .. n : g[k] \in X
  <2> DEFINE P == {k \in Nat : k <= n => g[k] \in X}
  <2>1. 0 \in P
    BY <1>6, <1>15
  <2>2. ASSUME NEW k \in P PROVE k + 1 \in P
    <3> SUFFICES ASSUME k + 1 <= n PROVE g[k + 1] \in X
      OBVIOUS
    <3>1. k + 1 \in 1 .. n /\ (k + 1) - 1 = k /\ g[k] \in X
      OBVIOUS
    <3> QED BY <1>5, <1>15, <3>1
  <2>3. P = Nat
    <3> HIDE DEF P
    <3>1. P \in SUBSET Nat
      BY DEF P
    <3> QED BY <2>1, <2>2, <3>1, Induction
  <2> QED BY <2>3
<1>17. \A k \in 1 .. n : /\ g[k].items = g[k - 1].items \o LinesOf(m, ids[k], g[k - 1].sold)
                         /\ g[k].sold = SoldAfter(m, ids[k], g[k - 1].sold)
  <2> SUFFICES ASSUME NEW k \in 1 .. n
               PROVE  /\ g[k].items = g[k - 1].items \o LinesOf(m, ids[k], g[k - 1].sold)
                      /\ g[k].sold = SoldAfter(m, ids[k], g[k - 1].sold)
    OBVIOUS
  <2>1. PICK x \in X : x = g[k - 1]
    BY <1>16
  <2>2. g[k] = [items |-> x.items \o LinesOf(m, ids[k], x.sold),
                sold |-> SoldAfter(m, ids[k], x.sold)]
    BY <1>5, <1>15, <2>1
  <2>3. /\ g[k].items = x.items \o LinesOf(m, ids[k], x.sold)
        /\ g[k].sold = SoldAfter(m, ids[k], x.sold)
    <3>1. PICK items, sold : /\ items = x.items \o LinesOf(m, ids[k], x.sold)
                             /\ sold = SoldAfter(m, ids[k], x.sold)
      OBVIOUS
    <3>2. g[k] = [items |-> items, sold |-> sold]
      BY ONLY <2>2, <3>1
    <3>3. g[k].items = items /\ g[k].sold = sold
      BY ONLY <3>2
    <3> QED BY ONLY <3>1, <3>3, Zenon
  <2> QED BY ONLY <2>1, <2>3
<1>18. Selection(m, ids) = g[n].items
  <2> HIDE DEF step
  <2>1. Selection(m, ids) = h[1 .. n].items
    BY <1>1, <1>2, <1>11, Zenon
  <2> QED BY <1>14, <2>1
<1>19. g \in [0 .. n -> X]
  BY <1>14, <1>16
<1> QED BY <1>2, <1>3, <1>4, <1>15, <1>17, <1>18, <1>19 DEF Resolves

\* What one pick resolves to: the service itself, or the package's parts.
LEMMA OnePick ==
    ASSUME NEW m, IsMenu(m), NEW id, NEW items, items = Selection(m, <<id>>)
    PROVE  \E n \in Nat : DOMAIN items = 1 .. n /\ \A i \in 1 .. n : items[i].fils \in Nat
<1>1. PICK ids : ids = <<id>>
  OBVIOUS
<1>2. IsList(ids)
  BY <1>1 DEF IsList, ToSet
<1>3. PICK g : Resolves(g, m, ids)
  BY <1>2, SelectionSteps
<1>4. Len(ids) \in Nat
  BY <1>1
<1>5. items \in Seq(LineRows(Names(m, ids)))
  BY <1>1, <1>3, <1>4 DEF Resolves, PicksOf
<1>6. PICK L : L = LineRows(Names(m, ids))
  OBVIOUS
<1>7. \A l \in L : l.fils \in Nat
  BY <1>6 DEF LineRows
<1> QED BY <1>5, <1>6, <1>7

StartsWith(a, b) == Len(b) <= Len(a) /\ \A i \in 1 .. Len(b) : a[i] = b[i]

\* Later picks leave the lines of earlier ones alone.
LEMMA PicksStay ==
    ASSUME NEW m, IsMenu(m), NEW ids, IsList(ids), NEW g, Resolves(g, m, ids),
           NEW k \in 0 .. Len(ids)
    PROVE  StartsWith(Selection(m, ids), g[k].items)
<1>1. PICK n \in Nat : n = Len(ids) /\ DOMAIN ids = 1 .. n
  BY DEF IsList
<1>2. PICK L : L = LineRows(Names(m, ids))
  OBVIOUS
<1>3. \A j \in 0 .. n : g[j].items \in Seq(L) /\ g[j].sold \in Nat
  BY <1>1, <1>2 DEF Resolves, PicksOf
<1>4. PICK items \in Seq(L) : items = Selection(m, ids) /\ items = g[n].items
  BY <1>1, <1>3 DEF Resolves
<1> DEFINE P == {j \in Nat : j <= n => StartsWith(items, g[n - j].items)}
<1>5. 0 \in P
  BY <1>4 DEF StartsWith
<1>6. ASSUME NEW j \in P PROVE j + 1 \in P
  <2> SUFFICES ASSUME j + 1 <= n PROVE StartsWith(items, g[n - (j + 1)].items)
    OBVIOUS
  <2>1. PICK i \in 1 .. n : i = n - j /\ i - 1 = n - (j + 1) /\ StartsWith(items, g[i].items)
    OBVIOUS
  <2>2. PICK a \in Seq(L), b \in Seq(L) : a = g[i - 1].items /\ b = g[i].items
    BY <1>3
  <2>3. PICK lines \in Seq(L) : lines = LinesOf(m, ids[i], g[i - 1].sold)
    <3>1. ids[i] \in ToSet(ids)
      BY <1>1 DEF ToSet
    <3>2. PICK sold \in Nat : sold = g[i - 1].sold
      BY <1>3
    <3> QED BY <1>2, <3>1, <3>2, PickAdds
  <2>4. b = a \o lines
    BY <1>1, <2>2, <2>3 DEF Resolves
  <2>5. StartsWith(items, a)
    <3>1. Len(b) = Len(a) + Len(lines) /\ \A e \in 1 .. Len(a) : b[e] = a[e]
      BY <2>4
    <3>2. Len(a) \in Nat /\ Len(lines) \in Nat /\ Len(items) \in Nat
      OBVIOUS
    <3>3. Len(b) <= Len(items) /\ \A e \in 1 .. Len(b) : items[e] = b[e]
      BY <2>1, <2>2 DEF StartsWith
    <3> QED BY ONLY <3>1, <3>2, <3>3 DEF StartsWith
  <2> QED BY <2>1, <2>2, <2>5
<1>7. P = Nat
  <2> HIDE DEF P
  <2>1. P \in SUBSET Nat
    BY DEF P
  <2> QED BY <1>5, <1>6, <2>1, Induction
<1>8. n - k \in Nat /\ n - k <= n /\ n - (n - k) = k
  BY <1>1
<1>9. n - k \in P
  BY <1>7, <1>8
<1> QED BY <1>4, <1>8, <1>9

\* askedFor(), a line at a time: what is pushed, and the sale it was of.
AskedOf(item) == IF item.sale = NoSale THEN item.id ELSE item.sale.pkg
ReadOn(acc, item) ==
    IF item.sale # NoSale /\ item.sale = acc.last THEN acc
    ELSE [lines |-> Append(acc.lines, AskedOf(item)), last |-> item.sale]

\* r[j] is where askedFor() stands after j lines.
ReadBack(r, items, I) ==
    /\ \A j \in 0 .. Len(items) : r[j].lines \in Seq(I)
    /\ r[0] = [lines |-> <<>>, last |-> NoSale]
    /\ \A j \in 1 .. Len(items) : r[j] = ReadOn(r[j - 1], items[j])
    /\ AskedFor(items) = r[Len(items)].lines

\* askedFor() takes the lines one by one.
LEMMA ReadSteps ==
    ASSUME NEW I, NEW items \in Seq(LineRows(I))
    PROVE  \E r : ReadBack(r, items, I)
<1> DEFINE asked(item) == IF item.sale = NoSale THEN item.id ELSE item.sale.pkg
           read(acc, item) ==
             IF item.sale # NoSale /\ item.sale = acc.last THEN acc
             ELSE [lines |-> Append(acc.lines, asked(item)), last |-> item.sale]
           none == [lines |-> <<>>, last |-> NoSale]
           step(h) == [s \in SUBSET (DOMAIN items) |->
                         IF s = {} THEN none ELSE read(h[s \ {Max(s)}], items[Max(s)])]
<1>1. AskedFor(items) = (CHOOSE h : h = step(h))[DOMAIN items].lines
  BY Zenon DEF AskedFor, FoldLeft, MapThenFoldSet
<1>2. PICK n \in Nat : n = Len(items) /\ DOMAIN items = 1 .. n
  OBVIOUS
<1>3. PICK X : X = [lines : Seq(I), last : {NoSale} \cup [pkg : I, seq : Nat]]
  OBVIOUS
<1>4. \A item : read(none, item) = ReadOn(none, item) /\ \A x : read(x, item) = ReadOn(x, item)
  BY DEF ReadOn, AskedOf
<1> HIDE DEF read, asked
<1>5. ASSUME NEW x \in X, NEW k \in 1 .. n PROVE read(x, items[k]) \in X
  <2>1. PICK item \in LineRows(I) : item = items[k]
    BY <1>2
  <2>2. item.id \in I /\ item.sale \in {NoSale} \cup [pkg : I, seq : Nat]
    BY DEF LineRows
  <2>3. AskedOf(item) \in I
    BY <2>2 DEF AskedOf
  <2>4. PICK seq \in Seq(I) : seq = Append(x.lines, AskedOf(item))
    <3>1. PICK lines \in Seq(I), a \in I : lines = x.lines /\ a = AskedOf(item)
      BY <1>3, <2>3
    <3>2. Append(lines, a) \in Seq(I)
      OBVIOUS
    <3> QED BY <3>1, <3>2
  <2>5. ReadOn(x, item) \in {x, [lines |-> seq, last |-> item.sale]}
    BY <2>4 DEF ReadOn
  <2>6. [lines |-> seq, last |-> item.sale] \in X
    BY <1>3, <2>2
  <2> QED BY <1>4, <2>1, <2>5, <2>6
<1>6. none \in X
  BY <1>3
<1>7. PICK T : T = [k \in 1 .. n |-> [x \in X |-> read(x, items[k])]]
  OBVIOUS
<1>8. T \in [1 .. n -> [X -> X]]
  BY <1>5, <1>7
<1>9. PICK f \in [SUBSET (1 .. n) -> X] : FoldsBy(f, SUBSET (1 .. n), none, T)
  <2> HIDE DEF none
  <2> QED BY <1>6, <1>8, FoldExists
<1>10. f = step(f)
  <2>1. ASSUME NEW s \in SUBSET (1 .. n) PROVE f[s] = step(f)[s]
    <3>1. CASE s = {}
      BY <1>2, <1>9, <3>1 DEF FoldsBy
    <3>2. CASE s # {}
      <4>1. PICK k \in 1 .. n : k = Max(s)
        BY <3>2, HighestIsIn
      <4>2. PICK x \in X : x = f[s \ {k}]
        BY <1>9
      <4>3. f[s] = T[k][x]
        BY <1>9, <3>2, <4>1, <4>2 DEF FoldsBy
      <4>4. step(f)[s] = read(x, items[k])
        BY <1>2, <3>2, <4>1, <4>2
      <4> QED BY <1>7, <4>3, <4>4
    <3> QED BY <3>1, <3>2
  <2> QED BY <1>2, <1>9, <2>1
<1>11. PICK h : h = (CHOOSE e : e = step(e)) /\ h = step(h)
  <2> HIDE DEF step
  <2> QED BY <1>10
<1>12. h[{}] = none
  BY <1>2, <1>11
<1>13. \A k \in 1 .. n : h[1 .. k] = read(h[1 .. (k - 1)], items[k])
  <2> SUFFICES ASSUME NEW k \in 1 .. n PROVE h[1 .. k] = read(h[1 .. (k - 1)], items[k])
    OBVIOUS
  <2>1. PICK s : s = 1 .. k
    OBVIOUS
  <2>2. s \in SUBSET (1 .. n) /\ s # {} /\ Max(s) = k /\ s \ {Max(s)} = 1 .. (k - 1)
    BY <2>1, PrefixEnds
  <2>3. h[s] = read(h[s \ {Max(s)}], items[Max(s)])
    BY <1>2, <1>11, <2>2
  <2> QED BY ONLY <2>1, <2>2, <2>3
<1>14. PICK r : r = [k \in 0 .. n |-> h[1 .. k]]
  OBVIOUS
<1>15. r[0] = none /\ \A k \in 1 .. n : r[k] = read(r[k - 1], items[k])
  <2>1. 1 .. 0 = {} /\ 0 \in 0 .. n /\ \A k \in 1 .. n : k \in 0 .. n /\ k - 1 \in 0 .. n
    OBVIOUS
  <2> HIDE DEF none
  <2> QED BY <1>12, <1>13, <1>14, <2>1
<1>16. \A k \in 0 .. n : r[k] \in X
  <2> DEFINE P == {k \in Nat : k <= n => r[k] \in X}
  <2>1. 0 \in P
    BY <1>6, <1>15
  <2>2. ASSUME NEW k \in P PROVE k + 1 \in P
    <3> SUFFICES ASSUME k + 1 <= n PROVE r[k + 1] \in X
      OBVIOUS
    <3>1. k + 1 \in 1 .. n /\ (k + 1) - 1 = k /\ r[k] \in X
      OBVIOUS
    <3> QED BY <1>5, <1>15, <3>1
  <2>3. P = Nat
    <3> HIDE DEF P
    <3>1. P \in SUBSET Nat
      BY DEF P
    <3> QED BY <2>1, <2>2, <3>1, Induction
  <2> QED BY <2>3
<1>17. \A k \in 0 .. n : r[k].lines \in Seq(I)
  BY <1>3, <1>16
<1>18. AskedFor(items) = r[n].lines
  <2> HIDE DEF step
  <2>1. AskedFor(items) = h[1 .. n].lines
    BY <1>1, <1>2, <1>11, Zenon
  <2> QED BY <1>14, <2>1
<1>19. \A k \in 1 .. n : r[k] = ReadOn(r[k - 1], items[k])
  BY <1>4, <1>15
<1> QED BY <1>2, <1>15, <1>17, <1>18, <1>19 DEF ReadBack

\* Where askedFor() has read the lines of k picks: it has the k picks, and the
\* sale it read last is none or an earlier one than the next.
HasRead(r, g, ids, k) ==
    LET e == Len(g[k].items) IN
    /\ r[e].lines = SubSeq(ids, 1, k)
    /\ r[e].last = NoSale \/ (r[e].last.seq \in Nat /\ r[e].last.seq < g[k].sold)

\* Reading the lines of one more pick gives that pick, once.
LEMMA ReadsOnePick ==
    ASSUME NEW m, IsMenu(m), NEW ids, IsList(ids), NEW g, Resolves(g, m, ids),
           NEW r, NEW items, items = Selection(m, ids), ReadBack(r, items, Names(m, ids)),
           NEW k \in 1 .. Len(ids), HasRead(r, g, ids, k - 1)
    PROVE  HasRead(r, g, ids, k)
<1>1. PICK n \in Nat : n = Len(ids) /\ DOMAIN ids = 1 .. n
  BY DEF IsList
<1>2. PICK id : id = ids[k] /\ id \in ToSet(ids)
  BY <1>1 DEF ToSet
<1>3. PICK L : L = LineRows(Names(m, ids))
  OBVIOUS
<1>4. k \in 0 .. n /\ k - 1 \in 0 .. n
  BY <1>1
<1>5. PICK a \in Seq(L), sold \in Nat : a = g[k - 1].items /\ sold = g[k - 1].sold
  BY <1>1, <1>3, <1>4 DEF Resolves, PicksOf
<1>18. PICK lines : lines = LinesOf(m, id, sold)
  OBVIOUS
<1>19. /\ lines \in Seq(L) /\ Len(lines) \in Nat \ {0}
       /\ id \notin DOMAIN m.packages =>
            Len(lines) = 1 /\ lines[1] = [id |-> id, fils |-> PriceIn(m, id), sale |-> NoSale]
       /\ id \in DOMAIN m.packages =>
            \A i \in 1 .. Len(lines) : lines[i].sale = [pkg |-> id, seq |-> sold]
  BY ONLY IsMenu(m), sold \in Nat, <1>2, <1>3, <1>18, PickAdds
<1>6. lines \in Seq(L) /\ lines = LinesOf(m, id, sold) /\ Len(lines) \in Nat \ {0}
  BY ONLY <1>18, <1>19
<1>7. PICK b \in Seq(L) : b = g[k].items /\ b = a \o lines
  BY <1>1, <1>2, <1>3, <1>4, <1>5, <1>6 DEF Resolves, PicksOf
<1>8. g[k].sold = SoldAfter(m, id, sold)
  BY <1>1, <1>2, <1>5 DEF Resolves
<1>9. PICK e \in Nat, c \in Nat \ {0} : e = Len(a) /\ c = Len(lines) /\ Len(b) = e + c
  <2>1. Len(a) \in Nat /\ Len(lines) \in Nat \ {0} /\ Len(b) = Len(a) + Len(lines)
    BY ONLY a \in Seq(L), <1>6, <1>7
  <2> QED BY ONLY <2>1
<1>10. StartsWith(items, b)
  BY <1>1, <1>4, <1>7, PicksStay
<1>11. items \in Seq(L)
  BY <1>1, <1>3 DEF Resolves, PicksOf
<1>12. \A i \in 1 .. c : e + i \in 1 .. Len(items) /\ items[e + i] = lines[i]
  <2>1. \A i \in 1 .. c : e + i \in 1 .. Len(b) /\ b[e + i] = lines[i]
    BY <1>7, <1>9
  <2>2. Len(items) \in Nat /\ Len(b) \in Nat
    BY <1>9, <1>11
  <2>3. Len(b) <= Len(items) /\ \A i \in 1 .. Len(b) : items[i] = b[i]
    BY ONLY <1>10 DEF StartsWith
  <2>4. ASSUME NEW i \in 1 .. c PROVE e + i \in 1 .. Len(items) /\ items[e + i] = lines[i]
    BY ONLY i \in 1 .. c, <2>1, <2>2, <2>3
  <2> QED BY ONLY <2>4
<1>13. \A i \in 1 .. c : r[e + i] = ReadOn(r[e + i - 1], lines[i])
  BY <1>12 DEF ReadBack
<1>14. PICK old : old = r[e] /\ old.lines = SubSeq(ids, 1, k - 1)
                  /\ (old.last = NoSale \/ (old.last.seq \in Nat /\ old.last.seq < sold))
  BY <1>5, <1>9 DEF HasRead
<1>15. Append(SubSeq(ids, 1, k - 1), id) = SubSeq(ids, 1, k)
  BY <1>1, <1>2 DEF IsList
<1>16. CASE id \notin DOMAIN m.packages
  <2>1. c = 1 /\ lines[1].id = id /\ lines[1].sale = NoSale
    <3>1. Len(lines) = 1 /\ lines[1] = [id |-> id, fils |-> PriceIn(m, id), sale |-> NoSale]
      BY ONLY <1>16, <1>19
    <3>2. lines[1].id = id /\ lines[1].sale = NoSale
      BY ONLY <3>1
    <3> QED BY ONLY <1>9, <3>1, <3>2
  <2>2. r[e + 1] = ReadOn(old, lines[1])
    BY <1>13, <1>14, <2>1
  <2>3. r[e + 1] = [lines |-> Append(old.lines, id), last |-> NoSale]
    BY <2>1, <2>2 DEF ReadOn, AskedOf
  <2>4. r[e + 1].lines = Append(old.lines, id) /\ r[e + 1].last = NoSale
    BY <2>3
  <2> QED BY <1>7, <1>9, <1>14, <1>15, <2>1, <2>4 DEF HasRead
<1>17. CASE id \in DOMAIN m.packages
  <2>1. PICK sale : sale = [pkg |-> id, seq |-> sold]
    OBVIOUS
  <2>2. \A i \in 1 .. c : lines[i].sale = sale
    BY ONLY <1>9, <1>17, <1>19, <2>1
  <2>3. sale # NoSale /\ sale # old.last /\ sale.pkg = id /\ sale.seq = sold
    <3>1. id # "none"
      BY <1>17 DEF IsMenu
    <3>2. sale.pkg = id /\ sale.seq = sold /\ NoSale.pkg = "none"
      BY <2>1 DEF NoSale
    <3>3. old.last.seq \in Nat /\ old.last.seq < sold => old.last # sale
      BY <3>2
    <3> QED BY <1>14, <3>1, <3>2, <3>3
  <2>4. PICK whole : whole = [lines |-> Append(old.lines, id), last |-> sale]
    OBVIOUS
  <2> DEFINE P == {i \in Nat : i \in 1 .. c => r[e + i] = whole}
  <2>5. 0 \in P
    OBVIOUS
  <2>6. ASSUME NEW i \in P PROVE i + 1 \in P
    <3> SUFFICES ASSUME i + 1 \in 1 .. c PROVE r[e + (i + 1)] = whole
      OBVIOUS
    <3>1. PICK line : line = lines[i + 1] /\ line.sale = sale
      BY <2>2
    <3>2. r[e + (i + 1)] = ReadOn(r[e + i], line)
      <4>1. e + (i + 1) - 1 = e + i
        OBVIOUS
      <4> QED BY <1>13, <3>1, <4>1
    <3>3. CASE i = 0
      <4>1. r[e + (i + 1)] = ReadOn(old, line)
        BY <1>14, <3>2, <3>3
      <4>2. ReadOn(old, line) = [lines |-> Append(old.lines, AskedOf(line)), last |-> sale]
        BY ONLY <2>3, <3>1 DEF ReadOn
      <4>3. AskedOf(line) = id
        BY ONLY <2>3, <3>1 DEF AskedOf
      <4> QED BY ONLY <2>4, <4>1, <4>2, <4>3
    <3>4. CASE i # 0
      <4>1. r[e + i] = whole
        BY <3>4
      <4>2. whole.last = sale
        BY <2>4
      <4>3. ReadOn(whole, line) = whole
        BY ONLY <2>3, <3>1, <4>2 DEF ReadOn
      <4> QED BY <3>2, <4>1, <4>3
    <3> QED BY <3>3, <3>4
  <2>7. P = Nat
    <3> HIDE DEF P
    <3>1. P \in SUBSET Nat
      BY DEF P
    <3> QED BY <2>5, <2>6, <3>1, Induction
  <2>8. r[e + c] = whole
    <3>1. c \in Nat /\ c \in 1 .. c
      OBVIOUS
    <3>2. c \in P
      BY ONLY <2>7, <3>1
    <3> QED BY <3>1, <3>2
  <2>9. whole.lines = Append(old.lines, id) /\ whole.last = sale
    BY <2>4
  <2>10. g[k].sold = sold + 1
    BY <1>8, <1>17 DEF SoldAfter
  <2>11. r[Len(g[k].items)] = whole
    BY <1>7, <1>9, <2>8
  <2>12. /\ r[Len(g[k].items)].lines = SubSeq(ids, 1, k)
         /\ r[Len(g[k].items)].last.seq = sold
    BY ONLY <1>14, <1>15, <2>3, <2>9, <2>11
  <2> QED BY ONLY sold \in Nat, <2>10, <2>12 DEF HasRead
<1> QED BY <1>16, <1>17

\* package.ts: askedFor() is "the inverse of resolveSelection": a booking's
\* lines read back as the picks they were made of, packages and repeated
\* packages included.
THEOREM SelectionReadsBack ==
    ASSUME NEW m, IsMenu(m), NEW ids, IsList(ids)
    PROVE  AskedFor(Selection(m, ids)) = ids
<1>1. PICK n \in Nat : n = Len(ids) /\ DOMAIN ids = 1 .. n
  BY DEF IsList
<1>2. PICK g : Resolves(g, m, ids)
  BY SelectionSteps
<1>3. PICK items : items = Selection(m, ids)
  OBVIOUS
<1>4. items \in Seq(LineRows(Names(m, ids)))
  BY <1>1, <1>2, <1>3 DEF Resolves, PicksOf
<1>5. PICK r : ReadBack(r, items, Names(m, ids))
  BY <1>4, ReadSteps
<1> DEFINE P == {k \in Nat : k <= n => HasRead(r, g, ids, k)}
<1>6. 0 \in P
  <2>1. g[0].items = <<>> /\ g[0].sold = 0
    BY <1>2 DEF Resolves
  <2>2. r[0].lines = <<>> /\ r[0].last = NoSale
    BY <1>5 DEF ReadBack
  <2>3. SubSeq(ids, 1, 0) = <<>>
    BY DEF IsList
  <2>4. Len(g[0].items) = 0
    BY <2>1
  <2>5. HasRead(r, g, ids, 0)
    BY <2>2, <2>3, <2>4 DEF HasRead
  <2> QED BY <2>5
<1>7. ASSUME NEW k \in P PROVE k + 1 \in P
  <2> SUFFICES ASSUME k + 1 <= n PROVE HasRead(r, g, ids, k + 1)
    OBVIOUS
  <2>1. PICK j \in 1 .. Len(ids) : j = k + 1 /\ HasRead(r, g, ids, j - 1)
    BY <1>1
  <2>2. HasRead(r, g, ids, j)
    BY <1>2, <1>3, <1>5, <2>1, ReadsOnePick
  <2> QED BY <2>1, <2>2
<1>8. P = Nat
  <2> HIDE DEF P
  <2>1. P \in SUBSET Nat
    BY DEF P
  <2> QED BY <1>6, <1>7, <2>1, Induction
<1>9. HasRead(r, g, ids, n)
  <2>1. n \in P
    BY <1>8
  <2> QED BY <2>1
<1>10. g[n].items = items
  BY <1>1, <1>2, <1>3 DEF Resolves
<1>11. AskedFor(items) = SubSeq(ids, 1, n)
  BY <1>5, <1>9, <1>10 DEF HasRead, ReadBack
<1>12. SubSeq(ids, 1, n) = ids
  BY <1>1 DEF IsList
<1> QED BY <1>3, <1>11, <1>12

\* m2 is m with services gone from the catalogue.
Retired(m2, m) ==
    /\ m2.packages = m.packages /\ m2.rule = m.rule /\ m2.offers = m.offers
    /\ DOMAIN m2.price \subseteq DOMAIN m.price
    /\ \A s \in DOMAIN m2.price : m2.price[s] = m.price[s]

\* A basket that can still be quoted resolves as it did.
LEMMA StillResolves ==
    ASSUME NEW m, NEW m2, IsMenu(m), IsMenu(m2), Retired(m2, m), NEW ids, IsList(ids),
           Missing(m2, Selection(m2, ids)) = {}
    PROVE  Selection(m2, ids) = Selection(m, ids)
<1>1. PICK n \in Nat : n = Len(ids) /\ DOMAIN ids = 1 .. n
  BY DEF IsList
<1>2. PICK g : Resolves(g, m, ids)
  BY SelectionSteps
<1>3. PICK f : Resolves(f, m2, ids)
  BY SelectionSteps
<1>4. PICK L : L = LineRows(Names(m2, ids))
  OBVIOUS
<1>5. PICK items \in Seq(L) : items = Selection(m2, ids)
  BY <1>1, <1>3, <1>4 DEF Resolves, PicksOf
<1>6. \A i \in 1 .. Len(items) : items[i].id \in DOMAIN m2.price
  <2>1. ToSet(ItemIds(items)) \subseteq DOMAIN m2.price
    BY <1>5 DEF Missing
  <2>2. \A i \in 1 .. Len(items) : items[i].id \in ToSet(ItemIds(items))
    BY DEF ItemIds, ToSet
  <2> QED BY <2>1, <2>2
<1>7. ASSUME NEW k \in 1 .. n, NEW sold \in Nat, sold = f[k - 1].sold
      PROVE  LinesOf(m2, ids[k], sold) = LinesOf(m, ids[k], sold)
  <2>1. PICK id : id = ids[k] /\ id \in ToSet(ids)
    BY <1>1 DEF ToSet
  <2>2. k \in 0 .. n /\ k - 1 \in 0 .. n
    OBVIOUS
  <2>3. PICK a \in Seq(L) : a = f[k - 1].items
    BY <1>1, <1>3, <1>4, <2>2 DEF Resolves, PicksOf
  <2>4. PICK lines : lines = LinesOf(m2, id, sold)
    OBVIOUS
  <2>5. /\ lines \in Seq(L) /\ Len(lines) \in Nat \ {0}
        /\ id \notin DOMAIN m2.packages =>
            Len(lines) = 1 /\ lines[1] = [id |-> id, fils |-> PriceIn(m2, id), sale |-> NoSale]
        /\ id \in DOMAIN m2.packages =>
            /\ Len(lines) = Len(m2.packages[id].parts)
            /\ \A i \in 1 .. Len(lines) : lines[i].id = m2.packages[id].parts[i]
    <3>1. /\ lines \in Seq(LineRows(Names(m2, ids))) /\ Len(lines) \in Nat \ {0}
          /\ id \notin DOMAIN m2.packages =>
              Len(lines) = 1 /\ lines[1] = [id |-> id, fils |-> PriceIn(m2, id), sale |-> NoSale]
          /\ id \in DOMAIN m2.packages =>
              /\ Len(lines) = Len(m2.packages[id].parts)
              /\ \A i \in 1 .. Len(lines) :
                   /\ lines[i].id = m2.packages[id].parts[i]
                   /\ lines[i].sale = [pkg |-> id, seq |-> sold]
      BY ONLY IsMenu(m2), sold \in Nat, <2>1, <2>4, PickAdds
    <3> QED BY ONLY <1>4, <3>1
  <2>6. PICK b \in Seq(L) : b = f[k].items /\ b = a \o lines
    BY <1>1, <1>3, <1>4, <1>7, <2>1, <2>2, <2>3, <2>4 DEF Resolves, PicksOf
  <2>7. StartsWith(items, b)
    BY <1>1, <1>3, <1>5, <2>2, <2>6, PicksStay
  <2>8. \A i \in 1 .. Len(lines) : lines[i].id \in DOMAIN m2.price
    <3>1. Len(b) = Len(a) + Len(lines) /\ \A i \in 1 .. Len(lines) : b[Len(a) + i] = lines[i]
      BY ONLY a \in Seq(L), <2>5, <2>6
    <3>2. Len(a) \in Nat /\ Len(lines) \in Nat /\ Len(items) \in Nat
      BY ONLY a \in Seq(L), items \in Seq(L), <2>5
    <3>3. Len(b) <= Len(items) /\ \A i \in 1 .. Len(b) : items[i] = b[i]
      BY ONLY <2>7 DEF StartsWith
    <3>4. ASSUME NEW i \in 1 .. Len(lines) PROVE lines[i].id \in DOMAIN m2.price
      <4>1. PICK j \in 1 .. Len(items) : j = Len(a) + i /\ items[j] = lines[i]
        BY ONLY i \in 1 .. Len(lines), <3>1, <3>2, <3>3
      <4> QED BY <1>6, <4>1
    <3> QED BY <3>4
  <2>9. CASE id \notin DOMAIN m2.packages
    <3>1. lines[1].id = id
      BY ONLY <2>5, <2>9
    <3>2. id \in DOMAIN m2.price
      BY ONLY <2>5, <2>8, <2>9, <3>1
    <3>3. PriceIn(m2, id) = PriceIn(m, id)
      BY <3>2 DEF Retired, PriceIn
    <3>4. id \notin DOMAIN m.packages
      BY <2>9 DEF Retired
    <3> QED BY <2>1, <2>9, <3>3, <3>4 DEF LinesOf
  <2>10. CASE id \in DOMAIN m2.packages
    <3>1. PICK parts : parts = m2.packages[id].parts /\ parts = m.packages[id].parts
      BY DEF Retired
    <3>2. DOMAIN parts = 1 .. Len(lines)
      BY <2>5, <2>10, <3>1 DEF IsMenu, IsList
    <3>3. \A i \in DOMAIN parts : PriceIn(m2, parts[i]) = PriceIn(m, parts[i])
      <4>1. \A i \in DOMAIN parts : parts[i] \in DOMAIN m2.price
        BY ONLY <2>5, <2>8, <2>10, <3>1, <3>2
      <4> QED BY <4>1 DEF Retired, PriceIn
    <3>4. [i \in DOMAIN parts |-> PriceIn(m2, parts[i])] = [i \in DOMAIN parts |-> PriceIn(m, parts[i])]
      BY <3>3
    <3>5. m2.packages[id].price = m.packages[id].price
      BY DEF Retired
    <3>6. SharesOf(m2, id) = SharesOf(m, id)
      BY ONLY <3>1, <3>4, <3>5 DEF SharesOf
    <3>7. id \in DOMAIN m.packages
      BY <2>10 DEF Retired
    <3> QED BY ONLY <2>1, <2>10, <3>1, <3>6, <3>7 DEF LinesOf
  <2> QED BY <2>9, <2>10
<1> DEFINE P == {k \in Nat : k <= n => f[k].items = g[k].items /\ f[k].sold = g[k].sold}
<1>8. 0 \in P
  BY <1>2, <1>3 DEF Resolves
<1>9. ASSUME NEW j \in P PROVE j + 1 \in P
  <2> SUFFICES ASSUME j + 1 <= n
               PROVE  f[j + 1].items = g[j + 1].items /\ f[j + 1].sold = g[j + 1].sold
    OBVIOUS
  <2>1. PICK k \in 1 .. n : k = j + 1 /\ k - 1 = j /\ k - 1 \in 0 .. n
    OBVIOUS
  <2>2. PICK sold \in Nat : sold = f[k - 1].sold
    BY <1>1, <1>3, <2>1 DEF Resolves, PicksOf
  <2>3. f[k - 1].items = g[k - 1].items /\ sold = g[k - 1].sold
    BY <2>1, <2>2
  <2>4. LinesOf(m2, ids[k], sold) = LinesOf(m, ids[k], sold)
    BY <1>7, <2>2
  <2>5. /\ f[k].items = f[k - 1].items \o LinesOf(m2, ids[k], sold)
        /\ f[k].sold = SoldAfter(m2, ids[k], sold)
    BY <1>1, <1>3, <2>2 DEF Resolves
  <2>6. /\ g[k].items = g[k - 1].items \o LinesOf(m, ids[k], sold)
        /\ g[k].sold = SoldAfter(m, ids[k], sold)
    BY <1>1, <1>2, <2>3 DEF Resolves
  <2>7. SoldAfter(m2, ids[k], sold) = SoldAfter(m, ids[k], sold)
    BY DEF Retired, SoldAfter
  <2>8. f[k].items = g[k].items /\ f[k].sold = g[k].sold
    BY ONLY <2>3, <2>4, <2>5, <2>6, <2>7
  <2> QED BY ONLY <2>1, <2>8
<1>10. P = Nat
  <2> HIDE DEF P
  <2>1. P \in SUBSET Nat
    BY DEF P
  <2> QED BY <1>8, <1>9, <2>1, Induction
<1>11. f[n].items = g[n].items
  <2>1. n \in P
    BY <1>10
  <2> QED BY <2>1
<1> QED BY <1>1, <1>2, <1>3, <1>11 DEF Resolves

\* A member's bill is an amount, whatever they asked for.
LEMMA MembersAreCharged ==
    ASSUME IsMenu(menu), NEW m, IsMember(m)
    PROVE  /\ MemberNet(PricedMember(m)) \in Nat
           /\ \A k \in DOMAIN m.ids :
                Added(PartFils(m, k)) = ChargedServiceFils(LineFils(m, k), m.child)
<1>1. ASSUME NEW fils \in Nat, NEW child PROVE ChargedServiceFils(fils, child) \in 0 .. fils
  <2>1. Percent(fils, CHILD_SERVICE_PERCENT) \in 0 .. fils
    <3>1. CHILD_SERVICE_PERCENT \in 0 .. 100
      BY DEF CHILD_SERVICE_PERCENT
    <3> QED BY <3>1, PercentOfAmount
  <2> QED BY <2>1 DEF ChargedServiceFils
<1>2. ASSUME NEW k \in DOMAIN m.ids
      PROVE  /\ LineFils(m, k) \in Nat
             /\ Added(PartFils(m, k)) = ChargedServiceFils(LineFils(m, k), m.child)
  <2>1. PICK items : items = Selection(menu, <<m.ids[k]>>)
    OBVIOUS
  <2>2. PICK n \in Nat : DOMAIN items = 1 .. n /\ \A i \in 1 .. n : items[i].fils \in Nat
    BY <2>1, OnePick
  <2>3. PICK parts : parts = [i \in DOMAIN items |-> items[i].fils]
    OBVIOUS
  <2>4. parts \in [1 .. n -> Nat]
    BY <2>2, <2>3
  <2>5. PICK line \in Nat : line = Added(parts) /\ (AllZero(parts) <=> line = 0)
    BY <2>4, AddedIsZero
  <2>6. LineFils(m, k) = line
    BY <2>1, <2>3, <2>5 DEF LineFils, NetOf
  <2>7. PICK fils : fils = ChargedServiceFils(line, m.child)
    OBVIOUS
  <2>8. fils \in 0 .. line
    BY <1>1, <2>7
  <2>9. n = 0 => fils = 0
    <3> SUFFICES ASSUME n = 0 PROVE fils = 0
      OBVIOUS
    <3>1. AllZero(parts)
      BY <2>4 DEF AllZero
    <3> QED BY <2>5, <2>8, <3>1
  <2>10. PartFils(m, k) = SpreadOverParts(fils, parts)
    BY <2>1, <2>3, <2>6, <2>7 DEF PartFils
  <2>11. n \in Nat /\ fils \in Nat
    BY <2>8
  <2>12. Added(PartFils(m, k)) = fils
    BY ONLY <2>4, <2>9, <2>10, <2>11, SpreadOverPartsIsExact
  <2> QED BY <2>6, <2>7, <2>12
<1>3. PICK n \in Nat : DOMAIN m.ids = 1 .. n
  BY DEF IsMember, IsCart, IsList
<1>4. PICK lines : lines = [i \in 1 .. n |-> LineFils(m, i)]
  OBVIOUS
<1>11. PICK priced : priced = PricedMember(m)
  OBVIOUS
<1>5. /\ priced = PricedMember(m) /\ priced.lines = lines
      /\ priced.child = m.child /\ priced.products = m.products
  <2>1. priced = [lines |-> lines, child |-> m.child, products |-> m.products]
    BY <1>3, <1>4, <1>11 DEF PricedMember
  <2> QED BY <1>11, <2>1
<1>6. PICK charged : charged = [i \in DOMAIN priced.lines |->
                                  ChargedServiceFils(priced.lines[i], priced.child)]
  OBVIOUS
<1>7. charged \in [1 .. n -> Nat]
  <2>1. \A i \in 1 .. n : lines[i] \in Nat
    BY <1>2, <1>3, <1>4
  <2>2. DOMAIN lines = 1 .. n
    BY <1>4
  <2>3. \A i \in 1 .. n : ChargedServiceFils(lines[i], priced.child) \in Nat
    BY <1>1, <2>1
  <2> QED BY <1>5, <1>6, <2>2, <2>3
<1>8. Added(charged) \in Nat
  BY <1>7, AddedIsZero
<1>9. ProductMoney(priced.products).net \in Nat
  <2>1. PICK l \in Nat : DOMAIN m.products = 1 .. l
    BY DEF IsMember, IsCart, IsList
  <2>2. PICK amounts : amounts = [i \in DOMAIN m.products |->
                                    m.products[i].price * m.products[i].quantity]
    OBVIOUS
  <2>3. amounts \in [1 .. l -> Nat]
    <3>1. ASSUME NEW i \in 1 .. l PROVE m.products[i].price * m.products[i].quantity \in Nat
      <4>1. PICK a \in Nat, b \in Nat : a = m.products[i].price /\ b = m.products[i].quantity
        BY <2>1 DEF IsMember, IsCart
      <4>2. a * b \in Nat
        OBVIOUS
      <4> QED BY <4>1, <4>2
    <3> QED BY <2>1, <2>2, <3>1
  <2>4. Added(amounts) \in Nat
    BY <2>3, AddedIsZero
  <2> QED BY <1>5, <2>2, <2>4 DEF ProductMoney
<1>10. MemberNet(priced) \in Nat
  BY <1>6, <1>8, <1>9 DEF MemberNet
<1> QED BY <1>2, <1>5, <1>10

-----------------------------------------------------------------------------
(* The party's bill *)

\* The catalogue stays a menu, and the party is made of members.
PartyInv == IsMenu(menu) /\ party \in Seq(Members)

\* In every such state the bills add up.
LEMMA PartyInvSuffices == PartyInv => BillsAddUp
<1> DEFINE ticket(money, p) ==
             [services |-> money.total, retail |-> money.vat, gold |-> who.gold,
              promo |-> p, tip |-> p, deposit |-> money.deposit, loyalty |-> 0]
           addsUp(money, draws, till) ==
             /\ Added(money.totals) = money.total
             /\ Added(money.deposits) = money.deposit
             /\ \A i \in DOMAIN party : money.deposits[i] \in 0 .. money.totals[i]
             /\ \A i \in DOMAIN party : \A k \in DOMAIN party[i].ids :
                  Added(PartFils(party[i], k)) =
                    ChargedServiceFils(LineFils(party[i], k), party[i].child)
             /\ draws[Len(draws)].left = 0 /\ \A i \in DOMAIN draws : draws[i].gross >= 0
             /\ till.due - till.credit = (till.base + till.tip + till.vat) - money.deposit
<1> SUFFICES ASSUME PartyInv, NEW p \in DepositPercents,
                    NEW priced \in {[i \in DOMAIN party |-> PricedMember(party[i])]},
                    NEW money \in {GroupMoney(priced, p)}, party # <<>>
             PROVE  addsUp(money, PlanDraws(money.total, Len(party)), Settle(ticket(money, p)))
  BY Zenon DEF BillsAddUp
<1>0. PICK draws, till : /\ draws = PlanDraws(money.total, Len(party))
                         /\ till = Settle(ticket(money, p))
  OBVIOUS
<1>1. PICK n \in Nat : n = Len(party) /\ DOMAIN party = 1 .. n
  BY DEF PartyInv
<1>2. n > 0
  BY <1>1 DEF PartyInv
<1>10. \A i \in DOMAIN party : IsMember(party[i])
  BY <1>1, AmountsAssumption DEF PartyInv
<1>3. DOMAIN priced = 1 .. n /\ \A i \in 1 .. n : MemberNet(priced[i]) \in Nat
  BY <1>1, <1>10, MembersAreCharged DEF PartyInv
<1>4. p \in 0 .. 100
  BY AmountsAssumption
<1>5. /\ money.total \in Nat /\ money.vat \in Nat /\ money.deposit \in Nat
      /\ Added(money.totals) = money.total
      /\ Added(money.deposits) = money.deposit
      /\ \A i \in 1 .. n : money.deposits[i] \in 0 .. money.totals[i]
  <2>1. n \in Nat /\ money = GroupMoney(priced, p)
    OBVIOUS
  <2> QED BY ONLY <1>3, <1>4, <2>1, GroupMoneyIsExact
<1>6. \A i \in DOMAIN party : \A k \in DOMAIN party[i].ids :
        Added(PartFils(party[i], k)) = ChargedServiceFils(LineFils(party[i], k), party[i].child)
  BY <1>10, MembersAreCharged DEF PartyInv
<1>7. draws[Len(draws)].left = 0 /\ \A i \in DOMAIN draws : draws[i].gross >= 0
  <2>1. PICK net \in Nat : net = money.total
    BY <1>5
  <2>2. draws = PlanDraws(net, n)
    BY <1>0, <1>1, <2>1
  <2>3. /\ Len(draws) = n /\ DOMAIN draws = 1 .. n
        /\ draws[n].left = 0 /\ \A i \in 1 .. n : draws[i].gross >= 0
    BY ONLY n \in Nat, net \in Nat, <1>2, <2>2, DrawsAreExact
  <2> QED BY <2>3
<1>8. till.due - till.credit = (till.base + till.tip + till.vat) - money.deposit
  <2>1. PICK t : t = ticket(money, p)
    OBVIOUS
  <2>2. /\ t.services = money.total /\ t.retail = money.vat /\ t.promo = p /\ t.tip = p
        /\ t.deposit = money.deposit /\ t.loyalty = 0
    BY ONLY <2>1
  <2>3. /\ t.services \in Int /\ t.retail \in Int /\ t.promo \in Int /\ t.tip \in Int
        /\ t.deposit \in Int /\ t.loyalty = 0
    <3>1. money.total \in Int /\ money.vat \in Int /\ money.deposit \in Int
      BY <1>5
    <3>2. p \in Int
      BY <1>4
    <3> QED BY ONLY <2>2, <3>1, <3>2
  <2>4. till = Settle(t)
    BY <1>0, <2>1
  <2>5. till.due - till.credit = (till.base + till.tip + till.vat) - t.deposit
    BY ONLY <2>3, <2>4, RegisterIsExact
  <2> QED BY <2>2, <2>5
<1>9. addsUp(money, draws, till)
  BY <1>1, <1>5, <1>6, <1>7, <1>8
<1> QED BY <1>0, <1>9

\* Prices move to another menu, or a service leaves it; members only join.
LEMMA PartyInductive ==
    ASSUME PartyInv, [CheckoutNext \/ PartyNext]_checkoutVars
    PROVE  PartyInv'
<1>1. CASE menu' = menu /\ party' = party
  BY <1>1 DEF PartyInv
<1>2. CASE PriceMoves
  BY <1>2, AmountsAssumption DEF PriceMoves, PartyInv
<1>3. ASSUME NEW s, Retires(s) PROVE PartyInv'
  <2>1. party' = party /\ menu' = [menu EXCEPT !.price = [x \in DOMAIN @ \ {s} |-> @[x]]]
    BY <1>3 DEF Retires
  <2>2. {"price", "packages"} \subseteq DOMAIN menu
    BY DEF PartyInv, IsMenu
  <2>3. /\ DOMAIN menu' = DOMAIN menu /\ menu'.packages = menu.packages
        /\ menu'.price = [x \in DOMAIN menu.price \ {s} |-> menu.price[x]]
        /\ menu'.offers = menu.offers
    BY <2>1, <2>2
  <2>4. IsMenu(menu')
    BY <2>3 DEF PartyInv, IsMenu
  <2> QED BY <2>1, <2>4 DEF PartyInv
<1>4. CASE PartyNext
  <2>1. PICK m \in Members : JoinParty(m)
    BY <1>4 DEF PartyNext
  <2>2. menu' = menu /\ party' = Append(party, m)
    BY <2>1 DEF JoinParty
  <2>3. party' \in Seq(Members)
    BY <2>2 DEF PartyInv
  <2> QED BY <2>2, <2>3 DEF PartyInv
<1>5. CASE CheckoutNext /\ ~PriceMoves /\ ~\E s \in UNION {DOMAIN m.price : m \in Menus} : Retires(s)
  <2>1. menu' = menu /\ party' = party
    BY <1>5 DEF CheckoutNext, CustomerMoves, WindowShuts, OtherHolds, SweepSlotHold, AskQuote,
       CreateCheck, CreateHold, CreateConfirm, CreateLink, Present, CallFails, Dies, LinkCloses,
       SweepUnpaid, GiveBackHold, UndoBooking, PaysInApp
  <2> QED BY <1>1, <2>1
<1> QED BY <1>1, <1>2, <1>3, <1>4, <1>5 DEF checkoutVars

\* No fil is made or lost where an amount is shared, for any party, any menu
\* and any percentage: groupMoney()'s totals and deposits add up to the
\* party's and no deposit exceeds its member's total, the items that carry a
\* line add up to what it is charged, planDraws() draws a course down to
\* nothing, and settle() neither keeps nor gives away a fil.
THEOREM BillsAlwaysAddUp ==
    ASSUME NEW menus, \A m \in menus : IsMenu(m)
    PROVE  CheckoutSpec(menus) => []BillsAddUp
<1>1. CheckoutInit(menus) => PartyInv
  BY DEF CheckoutInit, PartyInv
<1> QED
  BY <1>1, PartyInvSuffices, PartyInductive, PTL DEF CheckoutSpec
-----------------------------------------------------------------------------
(* What the app was told stands *)

Columns ==
    /\ DOMAIN app = Requests /\ DOMAIN bill = Requests
    /\ \A q \in Requests :
         /\ {"pc", "cart", "start", "intent", "told", "tender", "moved", "kept"} \subseteq DOMAIN app[q]
         /\ {"st", "pay", "items", "products", "figures", "open", "agreed"} \subseteq DOMAIN bill[q]

\* While nothing moved, what the app was told is what a fresh quote of its
\* cart says, if there still is one; and create tenders the deposit in it.
ToldIsFresh(q) ==
    LET a == app[q] IN
    a.pc # "idle" =>
      /\ a.cart \in Carts
      /\ ~a.moved =>
           /\ \A i \in DOMAIN a.cart.products : a.cart.products[i].id \in DOMAIN menu.offers
           /\ Quotable(menu, a.cart.ids) => a.told = PriceFor(a.cart, a.start)
           /\ a.pc \in {"hold", "confirm"} => a.tender = a.told.deposit

IsFigures(f) ==
    /\ {"net", "discount", "vat", "total", "deposit"} \subseteq DOMAIN f
    /\ f.net \in Nat /\ f.discount \in Nat /\ f.vat \in Nat
    /\ f.net > 0 => f.net + f.vat - f.discount > 0

\* A bill the app agreed to: its lines are the picks of the cart, its stored
\* figures the total the app was told, its deposit no more than it was told.
BillIsTold(q) ==
    LET a == app[q]
        b == bill[q]
    IN b.st = "pending_payment" /\ b.agreed =>
         /\ a.pc # "idle" /\ IsFigures(b.figures)
         /\ AskedFor(b.items) = a.cart.ids
         /\ ProductMoney(b.products).total \in Nat
         /\ a.told.total = b.figures.net + b.figures.vat - b.figures.discount
                             + ProductMoney(b.products).total
         /\ a.told.deposit \in 1 .. a.told.total =>
              b.figures.deposit \in Int /\ b.figures.deposit <= a.told.deposit
         /\ a.pc \in {"present", "answered"} => b.figures.net > 0

QuoteInv == /\ IsMenu(menu) /\ Columns
            /\ \A q \in Requests : ToldIsFresh(q) /\ BillIsTold(q)

\* What a cart resolves to is charged in whole fils.
LEMMA NetIsAmount ==
    ASSUME NEW m, IsMenu(m), NEW ids, IsList(ids)
    PROVE  NetOf(Selection(m, ids)) \in Nat
<1>1. PICK g : Resolves(g, m, ids)
  BY SelectionSteps
<1>2. PICK L : L = LineRows(Names(m, ids))
  OBVIOUS
<1>3. Len(ids) \in Nat
  BY DEF IsList
<1>4. PICK items \in Seq(L) : items = Selection(m, ids)
  BY <1>1, <1>2, <1>3 DEF Resolves, PicksOf
<1>5. \A l \in L : l.fils \in Nat
  BY <1>2 DEF LineRows
<1>6. PICK n \in Nat : DOMAIN items = 1 .. n
  OBVIOUS
<1>7. PICK fils : fils = [i \in DOMAIN items |-> items[i].fils]
  OBVIOUS
<1>8. fils \in [1 .. n -> Nat]
  BY <1>5, <1>6, <1>7
<1>9. Added(fils) \in Nat
  BY <1>8, AddedIsZero
<1> QED BY <1>4, <1>7, <1>9 DEF NetOf

\* So are its products, at the prices of the shelf.
LEMMA ProductsAreAmounts ==
    ASSUME IsMenu(menu), NEW cart \in Carts,
           \A i \in DOMAIN cart.products : cart.products[i].id \in DOMAIN menu.offers
    PROVE  ProductMoney(Lines(cart)).total \in Nat
<1>1. PICK n \in Nat : DOMAIN cart.products = 1 .. n
  BY AmountsAssumption DEF IsCart, IsList
<1>2. PICK lines : lines = Lines(cart)
  OBVIOUS
<1>3. ASSUME NEW i \in 1 .. n PROVE lines[i].price * lines[i].quantity \in Nat
  <2>1. PICK a \in Nat : a = menu.offers[cart.products[i].id].price
    BY <1>1 DEF IsMenu
  <2>2. PICK b \in Nat : b = cart.products[i].quantity
    BY <1>1, AmountsAssumption DEF IsCart
  <2>3. lines[i].price = a /\ lines[i].quantity = b
    BY <1>1, <1>2, <2>1, <2>2 DEF Lines
  <2>4. a * b \in Nat
    OBVIOUS
  <2> QED BY <2>3, <2>4
<1>4. DOMAIN lines = 1 .. n
  BY <1>1, <1>2 DEF Lines
<1>5. PICK amounts : amounts = [i \in DOMAIN lines |-> lines[i].price * lines[i].quantity]
  OBVIOUS
<1>6. amounts \in [1 .. n -> Nat]
  BY <1>3, <1>4, <1>5
<1>7. PICK net \in Nat : net = Added(amounts)
  BY <1>6, AddedIsZero
<1>8. PICK vat \in Nat : vat = Percent(net, VAT_PERCENT)
  BY PercentIsNat DEF VAT_PERCENT
<1>9. ProductMoney(lines) = [net |-> net, vat |-> vat, total |-> net + vat]
  BY <1>5, <1>7, <1>8, Zenon DEF ProductMoney
<1> QED BY <1>2, <1>9

\* A quote's figures are amounts that add up, and a basket with a price has
\* something to pay.
LEMMA QuotesAreFigures ==
    ASSUME NEW m, IsMenu(m), NEW ids, IsList(ids), NEW c, NEW start,
           NEW f, f = QuoteBasket(m, c, ids, start)
    PROVE  /\ IsFigures(f) /\ f.net = NetOf(Selection(m, ids))
           /\ DOMAIN f = {"net", "discount", "vat", "total", "deposit"}
           /\ f.total = f.net + f.vat - f.discount
<1>1. PICK net \in Nat : net = NetOf(Selection(m, ids))
  BY NetIsAmount
<1>2. PICK required : required = RequirementFor(net, c, m.rule[Selection(m, ids)[1].id], start)
  OBVIOUS
<1>3. PICK discount : discount = IF c.gold THEN Percent(net, 10) ELSE 0
  OBVIOUS
<1>4. Percent(net, 10) \in 0 .. net
  BY PercentOfAmount
<1>5. discount \in 0 .. net /\ (net > 0 => discount < net)
  <2>1. net > 0 => Percent(net, 10) < net
    <3>1. Percent(net, 10) = (net * 10 + 50) \div 100
      BY DEF Percent
    <3> QED BY <3>1
  <2>2. discount \in {Percent(net, 10), 0}
    BY <1>3
  <2> QED BY <1>4, <2>1, <2>2
<1>6. PICK due \in Nat : due = net - discount
  BY <1>5
<1>7. PICK vat \in Nat : vat = Percent(due, VAT_PERCENT)
  BY PercentIsNat DEF VAT_PERCENT
<1>8. f = [net |-> net, discount |-> discount, vat |-> vat,
           total |-> (net - discount) + vat, deposit |-> required]
  BY <1>1, <1>2, <1>3, <1>6, <1>7, Zenon DEF QuoteBasket, QuoteOf
<1>9. /\ f.net = net /\ f.discount = discount /\ f.vat = vat /\ f.total = (net - discount) + vat
      /\ DOMAIN f = {"net", "discount", "vat", "total", "deposit"}
  BY <1>8
<1> QED BY <1>1, <1>5, <1>9 DEF IsFigures

\* What the app was told is accepted when it pays.
LEMMA ToldIsAccepted == QuoteInv => DepositStands
<1> SUFFICES ASSUME QuoteInv, NEW q \in Requests, At(q, "answered"),
                    bill[q].st = "pending_payment", bill[q].agreed
             PROVE  /\ CheckPatch("FULLY_PAID", app[q].told.total, MoneyFor(q)) = "ok"
                    /\ ~app[q].moved /\ app[q].told.deposit \in 1 .. app[q].told.total
                         => CheckPatch("PARTIALLY", app[q].told.deposit, MoneyFor(q)) = "ok"
  BY Zenon DEF DepositStands
<1>1. PICK b, f, told : b = bill[q] /\ f = b.figures /\ told = app[q].told
  OBVIOUS
<1>2. /\ app[q].pc = "answered" /\ app[q].pc # "idle"
      /\ IsFigures(f) /\ AskedFor(b.items) = app[q].cart.ids /\ f.net > 0
      /\ told.deposit \in 1 .. told.total => f.deposit \in Int /\ f.deposit <= told.deposit
      /\ ProductMoney(b.products).total \in Nat
      /\ told.total = f.net + f.vat - f.discount + ProductMoney(b.products).total
  BY <1>1 DEF QuoteInv, BillIsTold, At
<1>3. PICK products \in Nat :
              /\ products = ProductMoney(b.products).total
              /\ told.total = f.net + f.vat - f.discount + products
  BY <1>2
<1>4. PICK total \in Int : total = told.total /\ total > 0
  BY <1>2, <1>3 DEF IsFigures
<1>5. PICK deposit : deposit = IF Quotable(menu, AskedFor(b.items))
                               THEN QuoteBasket(menu, who, AskedFor(b.items), app[q].start).deposit
                               ELSE f.deposit
  OBVIOUS
<1>6. PICK money : money = MoneyFor(q)
  OBVIOUS
<1>7. money.total = total /\ money.deposit = deposit
  <2>1. PICK own : own = [f EXCEPT !.deposit = deposit, !.total = f.net + f.vat - f.discount]
    OBVIOUS
  <2>2. /\ {"net", "vat", "total", "deposit"} \subseteq DOMAIN own
        /\ own.total = f.net + f.vat - f.discount /\ own.deposit = deposit
    BY <1>2, <2>1 DEF IsFigures
  <2>3. PICK extra : extra = ProductMoney(b.products)
    OBVIOUS
  <2>4. money = AddProducts(own, extra)
    BY <1>1, <1>5, <1>6, <2>1, <2>3, Zenon DEF MoneyFor
  <2>5. money = [own EXCEPT !.net = @ + extra.net, !.vat = @ + extra.vat,
                            !.total = @ + extra.total]
    BY <2>4 DEF AddProducts
  <2>6. money.total = own.total + extra.total /\ money.deposit = own.deposit
    BY <2>2, <2>5
  <2> QED BY <1>3, <1>4, <2>2, <2>3, <2>6
<1>8. CheckPatch("FULLY_PAID", total, money) = "ok"
  <2>1. AmountsAgree(total, total)
    BY DEF AmountsAgree, AMOUNT_TOLERANCE_FILS
  <2> QED BY <1>4, <1>7, <2>1 DEF CheckPatch
<1>9. ASSUME ~app[q].moved, told.deposit \in 1 .. total
      PROVE  CheckPatch("PARTIALLY", told.deposit, money) = "ok"
  <2>1. PICK paid \in 1 .. total : paid = told.deposit
    BY <1>9
  <2>2. ~(paid < deposit)
    <3>1. CASE Quotable(menu, AskedFor(b.items))
      <4>1. told = PriceFor(app[q].cart, app[q].start)
        BY <1>1, <1>2, <1>9, <3>1 DEF QuoteInv, ToldIsFresh
      <4>2. PICK quote : quote = QuoteBasket(menu, who, app[q].cart.ids, app[q].start)
        OBVIOUS
      <4>3. IsList(app[q].cart.ids)
        BY <1>2, AmountsAssumption DEF QuoteInv, ToldIsFresh, IsCart
      <4>4. DOMAIN quote = {"net", "discount", "vat", "total", "deposit"}
        BY <4>2, <4>3, QuotesAreFigures DEF QuoteInv
      <4>5. PICK extra : extra = ProductMoney(Lines(app[q].cart))
        OBVIOUS
      <4>6. told = [quote EXCEPT !.net = @ + extra.net, !.vat = @ + extra.vat,
                                 !.total = @ + extra.total]
        BY <4>1, <4>2, <4>5 DEF PriceFor, AddProducts
      <4>7. told.deposit = quote.deposit
        BY <4>4, <4>6
      <4>8. deposit = quote.deposit
        BY <1>2, <1>5, <3>1, <4>2
      <4> QED BY <2>1, <4>7, <4>8
    <3>2. CASE ~Quotable(menu, AskedFor(b.items))
      <4>1. deposit = f.deposit
        BY <1>5, <3>2
      <4>2. f.deposit \in Int /\ f.deposit <= told.deposit
        BY <1>2, <1>4, <1>9
      <4> QED BY <2>1, <4>1, <4>2
    <3> QED BY <3>1, <3>2
  <2>3. ~(paid <= 0) /\ ~(paid > total)
    BY <2>1
  <2> QED BY <1>7, <2>1, <2>2, <2>3 DEF CheckPatch
<1> QED BY <1>1, <1>4, <1>6, <1>8, <1>9
\* Nothing of the request moved, but for the step it is at.
CalmApp(a, a2) ==
    /\ a2.cart = a.cart /\ a2.start = a.start /\ a2.told = a.told
    /\ a2.tender = a.tender /\ a2.moved = a.moved /\ DOMAIN a2 = DOMAIN a
    /\ a2.pc = "idle" <=> a.pc = "idle"
    /\ \A steps \in {{"hold", "confirm"}, {"present", "answered"}} :
         a2.pc \in steps => a.pc \in steps
CalmBill(b, b2) ==
    /\ DOMAIN b2 = DOMAIN b
    /\ b2.st = "pending_payment" =>
         /\ b.st = "pending_payment" /\ b2.agreed = b.agreed /\ b2.figures = b.figures
         /\ b2.items = b.items /\ b2.products = b.products

\* What the invariant says of one request.
Stands(q) ==
    /\ {"pc", "cart", "start", "intent", "told", "tender", "moved", "kept"} \subseteq DOMAIN app[q]
    /\ {"st", "pay", "items", "products", "figures", "open", "agreed"} \subseteq DOMAIN bill[q]
    /\ ToldIsFresh(q) /\ BillIsTold(q)

\* The invariant, request by request.
LEMMA QuoteInvIs ==
    QuoteInv <=> /\ IsMenu(menu) /\ DOMAIN app = Requests /\ DOMAIN bill = Requests
                 /\ \A q \in Requests : Stands(q)
  BY DEF QuoteInv, Columns, Stands

\* Where nothing moved, nothing changes.
LEMMA CalmStands ==
    ASSUME NEW q \in Requests, Stands(q), menu' = menu, who' = who,
           CalmApp(app[q], app'[q]), CalmBill(bill[q], bill'[q])
    PROVE  Stands(q)'
<1>1. PICK a, a2 : a = app[q] /\ a2 = app'[q] /\ CalmApp(a, a2)
  OBVIOUS
<1>2. PICK b, b2 : b = bill[q] /\ b2 = bill'[q] /\ CalmBill(b, b2)
  OBVIOUS
<1>3. ToldIsFresh(q)'
  <2> SUFFICES ASSUME a2.pc # "idle"
               PROVE  /\ a2.cart \in Carts
                      /\ ~a2.moved =>
                          /\ \A i \in DOMAIN a2.cart.products :
                               a2.cart.products[i].id \in DOMAIN menu.offers
                          /\ Quotable(menu, a2.cart.ids) => a2.told = PriceFor(a2.cart, a2.start)
                          /\ a2.pc \in {"hold", "confirm"} => a2.tender = a2.told.deposit
    BY <1>1 DEF ToldIsFresh, PriceFor, Lines
  <2>1. /\ a.cart \in Carts
        /\ ~a.moved =>
             /\ \A i \in DOMAIN a.cart.products : a.cart.products[i].id \in DOMAIN menu.offers
             /\ Quotable(menu, a.cart.ids) => a.told = PriceFor(a.cart, a.start)
             /\ a.pc \in {"hold", "confirm"} => a.tender = a.told.deposit
    BY <1>1 DEF Stands, ToldIsFresh, CalmApp
  <2>2. /\ a2.cart = a.cart /\ a2.start = a.start /\ a2.told = a.told
        /\ a2.tender = a.tender /\ a2.moved = a.moved
        /\ a2.pc \in {"hold", "confirm"} => a.pc \in {"hold", "confirm"}
    BY <1>1 DEF CalmApp
  <2> QED BY ONLY <2>1, <2>2
<1>4. BillIsTold(q)'
  <2> SUFFICES ASSUME b2.st = "pending_payment", b2.agreed PROVE BillIsTold(q)'
    BY <1>2 DEF BillIsTold
  <2>1. /\ b.st = "pending_payment" /\ b.agreed /\ b2.figures = b.figures
        /\ b2.items = b.items /\ b2.products = b.products
    BY <1>2 DEF CalmBill
  <2>2. /\ a2.cart = a.cart /\ a2.told = a.told /\ (a2.pc = "idle" <=> a.pc = "idle")
        /\ a2.pc \in {"present", "answered"} => a.pc \in {"present", "answered"}
    BY <1>1 DEF CalmApp
  <2>3. BillIsTold(q)
    BY DEF Stands
  <2> QED BY <1>1, <1>2, <2>1, <2>2, <2>3 DEF BillIsTold
<1> QED BY <1>1, <1>2, <1>3, <1>4 DEF Stands, CalmApp, CalmBill

\* The steps at which only where the request stands moves.
LEMMA CalmSteps ==
    ASSUME QuoteInv, NEW r \in Requests,
           \/ CreateHold(r) \/ Present(r) \/ CallFails(r) \/ Dies(r)
           \/ LinkCloses(r) \/ SweepUnpaid(r)
           \/ \E works \in BOOLEAN : GiveBackHold(r, works) \/ UndoBooking(r, works)
           \/ \E target \in {"PARTIALLY", "FULLY_PAID", "PAY_AFTER_CHECK_IN"} :
                \E paid \in {0, app[r].told.deposit, app[r].told.total} :
                  PaysInApp(r, target, paid)
    PROVE  QuoteInv'
<1>1. /\ IsMenu(menu) /\ DOMAIN app = Requests /\ DOMAIN bill = Requests
      /\ \A q \in Requests : Stands(q)
  BY QuoteInvIs
<1>2. menu' = menu /\ who' = who
  BY DEF CreateHold, Present, CallFails, Dies, LinkCloses, SweepUnpaid, GiveBackHold,
     UndoBooking, PaysInApp
<1>3. /\ DOMAIN app' = Requests /\ \A q \in Requests \ {r} : app'[q] = app[q]
      /\ CalmApp(app[r], app'[r])
  <2> DEFINE goal == /\ DOMAIN app' = Requests /\ \A q \in Requests \ {r} : app'[q] = app[q]
                     /\ CalmApp(app[r], app'[r])
             ok(pc) == /\ pc # "idle" /\ app[r].pc # "idle"
                       /\ \A steps \in {{"hold", "confirm"}, {"present", "answered"}} :
                            pc \in steps => app[r].pc \in steps
  <2>1. PICK a : /\ a = app[r]
                 /\ {"pc", "cart", "start", "told", "tender", "moved", "kept"} \subseteq DOMAIN a
    BY <1>1 DEF Stands
  <2>2. app' = app => goal
    BY <1>1 DEF CalmApp
  <2>3. ASSUME NEW pc, ok(pc), app' = [app EXCEPT ![r].pc = pc] PROVE goal
    <3>1. app'[r] = [a EXCEPT !.pc = pc] /\ DOMAIN app' = Requests
          /\ \A q \in Requests \ {r} : app'[q] = app[q]
      BY <1>1, <2>1, <2>3
    <3>2. CalmApp(a, [a EXCEPT !.pc = pc])
      BY <2>1, <2>3 DEF CalmApp
    <3> QED BY <2>1, <3>1, <3>2
  <2>4. ASSUME NEW pc, NEW kept, ok(pc), app' = [app EXCEPT ![r].pc = pc, ![r].kept = kept]
        PROVE  goal
    <3>1. app'[r] = [a EXCEPT !.pc = pc, !.kept = kept] /\ DOMAIN app' = Requests
          /\ \A q \in Requests \ {r} : app'[q] = app[q]
      BY <1>1, <2>1, <2>4
    <3>2. CalmApp(a, [a EXCEPT !.pc = pc, !.kept = kept])
      BY <2>1, <2>4 DEF CalmApp
    <3> QED BY <2>1, <3>1, <3>2
  <2> SUFFICES goal
    OBVIOUS
  <2> HIDE DEF goal, ok
  <2>5. CASE CreateHold(r)
    <3>1. app[r].pc = "hold" /\ \E pc \in {"confirm", "refused"} : app' = [app EXCEPT ![r].pc = pc]
      BY <2>5 DEF CreateHold, At, Goes
    <3>2. ok("confirm") /\ ok("refused")
      BY <3>1 DEF ok
    <3> QED BY <2>3, <3>1, <3>2
  <2>6. CASE Present(r) \/ Dies(r)
    <3>1. \/ app[r].pc = "present" /\ app' = [app EXCEPT ![r].pc = "answered"]
          \/ app[r].pc # "idle" /\ app' = [app EXCEPT ![r].pc = "died"]
      BY <2>6 DEF Present, Dies, At, Goes
    <3>2. app[r].pc = "present" => ok("answered")
      BY DEF ok
    <3>3. app[r].pc # "idle" => ok("died")
      BY DEF ok
    <3> QED BY <2>3, <3>1, <3>2, <3>3
  <2>7. CASE CallFails(r)
    <3>1. /\ app[r].pc # "idle"
          /\ \/ app' = [app EXCEPT ![r].pc = "give_back"]
             \/ app' = [app EXCEPT ![r].pc = "refused", ![r].kept = TRUE]
      BY <2>7 DEF CallFails, At, Goes
    <3>2. ok("give_back") /\ ok("refused")
      BY <3>1 DEF ok
    <3> QED BY <2>3, <2>4, <3>1, <3>2
  <2>8. CASE LinkCloses(r) \/ SweepUnpaid(r)
             \/ \E target \in {"PARTIALLY", "FULLY_PAID", "PAY_AFTER_CHECK_IN"} :
                  \E paid \in {0, app[r].told.deposit, app[r].told.total} :
                    PaysInApp(r, target, paid)
    BY <2>2, <2>8 DEF LinkCloses, SweepUnpaid, PaysInApp
  <2>9. CASE \E works \in BOOLEAN : GiveBackHold(r, works) \/ UndoBooking(r, works)
    <3>1. PICK works \in BOOLEAN : GiveBackHold(r, works) \/ UndoBooking(r, works)
      BY <2>9
    <3>2. \E pc \in {"refused", "undo"} : \E kept :
            app' = [app EXCEPT ![r].pc = pc, ![r].kept = kept]
      <4>1. CASE GiveBackHold(r, works)
        <5>1. PICK pc : pc = IF bill[r].st = "none" THEN "refused" ELSE "undo"
          OBVIOUS
        <5>2. PICK kept : kept = (app[r].kept \/ (slot = [by |-> r, as |-> "hold"] /\ ~works))
          OBVIOUS
        <5>3. app' = [app EXCEPT ![r].pc = pc, ![r].kept = kept]
          BY <1>1, <4>1, <5>1, <5>2, Zenon DEF GiveBackHold
        <5> QED BY <5>1, <5>3
      <4>2. CASE UndoBooking(r, works)
        <5>1. PICK kept : kept = (app[r].kept \/ ~works)
          OBVIOUS
        <5>2. app' = [app EXCEPT ![r].pc = "refused", ![r].kept = kept]
          BY <1>1, <4>2, <5>1, Zenon DEF UndoBooking
        <5> QED BY <5>2
      <4> QED BY <3>1, <4>1, <4>2
    <3>3. app[r].pc \in {"give_back", "undo"}
      BY <3>1 DEF GiveBackHold, UndoBooking, At
    <3>4. ok("refused") /\ ok("undo")
      BY <3>3 DEF ok
    <3> QED BY <2>4, <3>2, <3>4
  <2> QED BY <2>5, <2>6, <2>7, <2>8, <2>9
<1>5. /\ DOMAIN bill' = Requests /\ \A q \in Requests \ {r} : bill'[q] = bill[q]
      /\ CalmBill(bill[r], bill'[r])
  <2>1. PICK b : b = bill[r]
             /\ {"st", "pay", "items", "products", "figures", "open", "agreed"} \subseteq DOMAIN b
    BY <1>1 DEF Stands
  <2>2. CASE bill' = bill
    BY <1>1, <2>2 DEF CalmBill
  <2>3. CASE bill' = [bill EXCEPT ![r].open = FALSE]
    BY <1>1, <2>1, <2>3 DEF CalmBill
  <2>4. CASE bill' = [bill EXCEPT ![r].st = "expired"]
    BY <1>1, <2>1, <2>4 DEF CalmBill
  <2>5. ASSUME NEW pay, bill' = [bill EXCEPT ![r].st = "confirmed", ![r].pay = pay, ![r].open = FALSE]
        PROVE  /\ DOMAIN bill' = Requests /\ \A q \in Requests \ {r} : bill'[q] = bill[q]
               /\ CalmBill(bill[r], bill'[r])
    BY <1>1, <2>1, <2>5 DEF CalmBill
  <2> QED
    BY <2>2, <2>3, <2>4, <2>5 DEF CreateHold, Present, CallFails, Dies, LinkCloses, SweepUnpaid,
       GiveBackHold, UndoBooking, PaysInApp
<1>6. ASSUME NEW q \in Requests PROVE Stands(q)'
  <2>1. CalmApp(app[q], app'[q]) /\ CalmBill(bill[q], bill'[q])
    BY <1>3, <1>5 DEF CalmApp, CalmBill
  <2> QED BY <1>1, <1>2, <2>1, CalmStands
<1> QED BY <1>1, <1>2, <1>3, <1>5, <1>6 DEF QuoteInv, Columns, Stands
\* Prices or the customer's standing move: every request that was told
\* something is marked, and bills are as they were.
LEMMA MovesStand ==
    ASSUME QuoteInv, PriceMoves \/ CustomerMoves
    PROVE  QuoteInv'
<1>1. /\ IsMenu(menu) /\ DOMAIN app = Requests /\ DOMAIN bill = Requests
      /\ \A q \in Requests : Stands(q)
  BY QuoteInvIs
<1>2. IsMenu(menu')
  BY <1>1, AmountsAssumption DEF PriceMoves, CustomerMoves
<1>3. Moved /\ bill' = bill
  BY DEF PriceMoves, CustomerMoves
<1>4. ASSUME NEW q \in Requests PROVE Stands(q)'
  <2>1. PICK a : a = app[q] /\ {"pc", "cart", "start", "intent", "told", "tender", "moved", "kept"} \subseteq DOMAIN a
    BY <1>1 DEF Stands
  <2>2. app'[q] = IF a.pc = "idle" THEN a ELSE [a EXCEPT !.moved = TRUE]
    BY <1>3, <2>1 DEF Moved
  <2>3. PICK a2 : a2 = app'[q]
    OBVIOUS
  <2>4. /\ a2.pc = a.pc /\ a2.cart = a.cart /\ a2.told = a.told /\ DOMAIN a2 = DOMAIN a
        /\ a.pc # "idle" => a2.moved
    BY <2>1, <2>2, <2>3
  <2>5. ToldIsFresh(q)'
    <3>1. ToldIsFresh(q)
      BY <1>1 DEF Stands
    <3> QED BY <2>1, <2>3, <2>4, <3>1 DEF ToldIsFresh
  <2>6. BillIsTold(q)'
    <3>1. BillIsTold(q)
      BY <1>1 DEF Stands
    <3> QED BY <1>3, <2>1, <2>3, <2>4, <3>1 DEF BillIsTold
  <2> QED BY <1>1, <1>3, <2>1, <2>3, <2>4, <2>5, <2>6 DEF Stands
<1>5. DOMAIN app' = Requests
  BY <1>3 DEF Moved
<1> QED BY <1>1, <1>2, <1>3, <1>4, <1>5 DEF QuoteInv, Columns, Stands

\* A service leaves the menu: what can still be quoted costs what it did.
LEMMA RetiringStands ==
    ASSUME QuoteInv, NEW s, Retires(s)
    PROVE  QuoteInv'
<1>1. /\ IsMenu(menu) /\ DOMAIN app = Requests /\ DOMAIN bill = Requests
      /\ \A q \in Requests : Stands(q)
  BY QuoteInvIs
<1>2. /\ menu' = [menu EXCEPT !.price = [x \in DOMAIN @ \ {s} |-> @[x]]]
      /\ who' = who /\ app' = app /\ bill' = bill
  BY DEF Retires
<1>3. {"price", "rule", "packages", "offers"} \subseteq DOMAIN menu
  BY <1>1 DEF IsMenu
<1>4. /\ DOMAIN menu' = DOMAIN menu /\ menu'.packages = menu.packages
      /\ menu'.rule = menu.rule /\ menu'.offers = menu.offers
      /\ menu'.price = [x \in DOMAIN menu.price \ {s} |-> menu.price[x]]
  BY <1>2, <1>3
<1>5. IsMenu(menu') /\ Retired(menu', menu)
  BY <1>1, <1>4 DEF IsMenu, Retired
<1>6. ASSUME NEW q \in Requests PROVE Stands(q)'
  <2>1. PICK a : a = app[q]
    OBVIOUS
  <2>2. BillIsTold(q)'
    BY <1>1, <1>2 DEF Stands, BillIsTold
  <2>3. ToldIsFresh(q)
    BY <1>1 DEF Stands
  <2>4. ASSUME a.pc # "idle", ~a.moved, Quotable(menu', a.cart.ids)
        PROVE  a.told = PriceFor(a.cart, a.start)'
    <3>1. IsList(a.cart.ids)
      BY <2>1, <2>3, <2>4, AmountsAssumption DEF ToldIsFresh, IsCart
    <3>2. Missing(menu', Selection(menu', a.cart.ids)) = {}
      BY <2>4 DEF Quotable
    <3>3. Selection(menu', a.cart.ids) = Selection(menu, a.cart.ids)
      BY <1>1, <1>5, <3>1, <3>2, StillResolves
    <3>4. Missing(menu, Selection(menu, a.cart.ids)) = {}
      BY <1>5, <3>2, <3>3 DEF Missing, Retired
    <3>5. Quotable(menu, a.cart.ids)
      BY <2>4, <3>4 DEF Quotable
    <3>6. a.told = PriceFor(a.cart, a.start)
      BY <2>1, <2>3, <2>4, <3>5 DEF ToldIsFresh
    <3>7. QuoteBasket(menu', who', a.cart.ids, a.start) = QuoteBasket(menu, who, a.cart.ids, a.start)
      BY <1>2, <1>4, <3>3, Zenon DEF QuoteBasket
    <3>8. Lines(a.cart)' = Lines(a.cart)
      BY <1>2, <1>4, <2>1 DEF Lines
    <3> QED BY <1>2, <2>1, <3>6, <3>7, <3>8 DEF PriceFor
  <2>5. ToldIsFresh(q)'
    <3>1. app'[q] = a
      BY <1>2, <2>1
    <3>2. Quotable(menu', a.cart.ids) /\ a.pc # "idle" /\ ~a.moved => a.told = PriceFor(a.cart, a.start)'
      BY <2>4
    <3>3. PriceFor(a.cart, a.start)' = PriceFor(app[q].cart, app[q].start)'
      BY <1>2, <2>1, <3>1 DEF PriceFor, Lines
    <3>4. menu'.offers = menu.offers
      BY <1>4
    <3> QED BY <2>1, <2>3, <3>1, <3>2, <3>3, <3>4 DEF ToldIsFresh
  <2> QED BY <1>1, <1>2, <2>2, <2>5 DEF Stands
<1> QED BY <1>1, <1>2, <1>5, <1>6 DEF QuoteInv, Columns, Stands
\* A step of one request: the others' rows are as they were.
LEMMA OneStands ==
    ASSUME QuoteInv, NEW r \in Requests, menu' = menu, who' = who,
           DOMAIN app' = Requests, DOMAIN bill' = Requests,
           \A q \in Requests \ {r} : app'[q] = app[q] /\ bill'[q] = bill[q],
           Stands(r)'
    PROVE  QuoteInv'
<1>1. ASSUME NEW q \in Requests \ {r} PROVE Stands(q)'
  <2>1. CalmApp(app[q], app'[q]) /\ CalmBill(bill[q], bill'[q])
    BY DEF CalmApp, CalmBill
  <2> QED BY <2>1, QuoteInvIs, CalmStands
<1>2. IsMenu(menu')
  BY DEF QuoteInv
<1> QED BY <1>1, <1>2 DEF QuoteInv, Columns, Stands

\* quote() tells the app what priceFor() says; the request has no bill.
LEMMA AskStands ==
    ASSUME QuoteInv, NEW r \in Requests, NEW cart \in Carts, NEW start, AskQuote(r, cart, start)
    PROVE  QuoteInv'
<1>1. /\ IsMenu(menu) /\ DOMAIN app = Requests /\ DOMAIN bill = Requests
      /\ \A q \in Requests : Stands(q)
  BY QuoteInvIs
<1>2. /\ app[r].pc = "idle" /\ CheckProducts(menu, Lines(cart))
      /\ menu' = menu /\ who' = who /\ bill' = bill
      /\ app' = [app EXCEPT ![r] =
          [IdleApp EXCEPT !.pc = "quoted", !.cart = cart, !.start = start,
                          !.told = PriceFor(cart, start)]]
  BY DEF AskQuote, At
<1>3. PICK told : told = PriceFor(cart, start)
  OBVIOUS
<1>4. PICK a2 : a2 = [IdleApp EXCEPT !.pc = "quoted", !.cart = cart, !.start = start, !.told = told]
  OBVIOUS
<1>5. app'[r] = a2 /\ DOMAIN app' = Requests /\ \A q \in Requests \ {r} : app'[q] = app[q]
  BY <1>1, <1>2, <1>3, <1>4
<1>6. /\ a2.pc = "quoted" /\ a2.cart = cart /\ a2.start = start /\ a2.told = told
      /\ {"pc", "cart", "start", "intent", "told", "tender", "moved", "kept"} \subseteq DOMAIN a2
  BY <1>4 DEF IdleApp
<1>7. \A i \in DOMAIN cart.products : cart.products[i].id \in DOMAIN menu.offers
  BY <1>2 DEF CheckProducts, Lines
<1>8. PriceFor(a2.cart, a2.start)' = told
  BY <1>2, <1>3, <1>6 DEF PriceFor, Lines
<1>9. ToldIsFresh(r)'
  <2>1. PriceFor(app[r].cart, app[r].start)' = told
    BY <1>2, <1>5, <1>8 DEF PriceFor, Lines
  <2> QED BY <1>2, <1>5, <1>6, <1>7, <2>1 DEF ToldIsFresh
<1>10. BillIsTold(r)'
  <2>1. ~(bill[r].st = "pending_payment" /\ bill[r].agreed)
    BY <1>1, <1>2 DEF Stands, BillIsTold
  <2> QED BY <1>2, <2>1 DEF BillIsTold
<1>11. Stands(r)'
  BY <1>1, <1>2, <1>5, <1>6, <1>9, <1>10 DEF Stands
<1> QED BY <1>1, <1>2, <1>5, <1>11, OneStands

\* create() prices the cart again: where nothing moved it tenders the deposit
\* the app was told.
LEMMA CheckStands ==
    ASSUME QuoteInv, NEW r \in Requests, NEW intent, CreateCheck(r, intent)
    PROVE  QuoteInv'
<1>1. /\ IsMenu(menu) /\ DOMAIN app = Requests /\ DOMAIN bill = Requests
      /\ \A q \in Requests : Stands(q)
  BY QuoteInvIs
<1>2. app[r].pc = "quoted" /\ menu' = menu /\ who' = who /\ bill' = bill
  BY DEF CreateCheck, At
<1>3. PICK a : a = app[r]
             /\ {"pc", "cart", "start", "intent", "told", "tender", "moved", "kept"} \subseteq DOMAIN a
  BY <1>1 DEF Stands
<1>4. PICK wish : wish = CreateIntentOf(intent)
  OBVIOUS
<1>5. \/ app' = [app EXCEPT ![r].intent = wish, ![r].pc = "refused"]
      \/ \E tender : \E pc \in {"hold", "refused"} :
           /\ app' = [app EXCEPT ![r].intent = wish, ![r].pc = pc, ![r].tender = tender]
           /\ pc = "hold" => Quotable(menu, a.cart.ids) /\ tender = PriceFor(a.cart, a.start).deposit
  BY <1>3, <1>4 DEF CreateCheck
<1>6. \E tender : \E pc \in {"hold", "refused"} :
           /\ app'[r] = [a EXCEPT !.intent = wish, !.pc = pc, !.tender = tender]
           /\ pc = "hold" => Quotable(menu, a.cart.ids) /\ tender = PriceFor(a.cart, a.start).deposit
  <2>1. CASE app' = [app EXCEPT ![r].intent = wish, ![r].pc = "refused"]
    <3>1. app'[r] = [a EXCEPT !.intent = wish, !.pc = "refused"]
      BY <1>1, <1>3, <2>1
    <3>2. [a EXCEPT !.intent = wish, !.pc = "refused"]
            = [a EXCEPT !.intent = wish, !.pc = "refused", !.tender = a.tender]
      BY <1>3
    <3> QED BY <3>1, <3>2
  <2>2. ASSUME NEW tender, NEW pc,
               app' = [app EXCEPT ![r].intent = wish, ![r].pc = pc, ![r].tender = tender]
        PROVE  app'[r] = [a EXCEPT !.intent = wish, !.pc = pc, !.tender = tender]
    BY <1>1, <1>3, <2>2
  <2> QED BY <1>5, <2>1, <2>2
<1>7. PICK tender, pc :
           /\ pc \in {"hold", "refused"}
           /\ app'[r] = [a EXCEPT !.intent = wish, !.pc = pc, !.tender = tender]
           /\ pc = "hold" => Quotable(menu, a.cart.ids) /\ tender = PriceFor(a.cart, a.start).deposit
  BY <1>6
<1>8. DOMAIN app' = Requests /\ \A q \in Requests \ {r} : app'[q] = app[q]
  BY <1>1, <1>5
<1>9. PICK a2 : a2 = app'[r]
  OBVIOUS
<1>10. /\ a2.pc = pc /\ a2.tender = tender /\ a2.cart = a.cart /\ a2.start = a.start
       /\ a2.told = a.told /\ a2.moved = a.moved /\ DOMAIN a2 = DOMAIN a
  BY <1>3, <1>7, <1>9
<1>11. PriceFor(app[r].cart, app[r].start)' = PriceFor(a.cart, a.start)
  BY <1>2, <1>9, <1>10 DEF PriceFor, Lines
<1>12. ToldIsFresh(r)'
  <2>1. /\ a.cart \in Carts
        /\ ~a.moved =>
             /\ \A i \in DOMAIN a.cart.products : a.cart.products[i].id \in DOMAIN menu.offers
             /\ Quotable(menu, a.cart.ids) => a.told = PriceFor(a.cart, a.start)
    BY <1>1, <1>2, <1>3 DEF Stands, ToldIsFresh
  <2>2. ~a.moved /\ pc = "hold" => tender = a.told.deposit
    BY <1>7, <2>1
  <2>3. pc # "confirm"
    BY <1>7
  <2> QED BY <1>2, <1>9, <1>10, <1>11, <2>1, <2>2, <2>3 DEF ToldIsFresh
<1>13. BillIsTold(r)'
  <2>1. BillIsTold(r)
    BY <1>1 DEF Stands
  <2>2. a2.pc \notin {"idle", "present", "answered"}
    BY <1>7, <1>10
  <2> QED BY <1>2, <1>3, <1>9, <1>10, <2>1, <2>2 DEF BillIsTold
<1>14. Stands(r)'
  BY <1>1, <1>2, <1>3, <1>9, <1>10, <1>12, <1>13 DEF Stands
<1> QED BY <1>1, <1>2, <1>8, <1>14, OneStands

\* The link is sent for a booking that owes something.
LEMMA LinkStands ==
    ASSUME QuoteInv, NEW r \in Requests, CreateLink(r)
    PROVE  QuoteInv'
<1>1. /\ IsMenu(menu) /\ DOMAIN app = Requests /\ DOMAIN bill = Requests
      /\ \A q \in Requests : Stands(q)
  BY QuoteInvIs
<1>2. PICK a : a = app[r]
             /\ {"pc", "cart", "start", "intent", "told", "tender", "moved", "kept"} \subseteq DOMAIN a
  BY <1>1 DEF Stands
<1>3. PICK b : b = bill[r]
             /\ {"st", "pay", "items", "products", "figures", "open", "agreed"} \subseteq DOMAIN b
  BY <1>1 DEF Stands
<1>4. a.pc = "link" /\ menu' = menu /\ who' = who
  BY <1>2 DEF CreateLink, At
<1>5. \/ /\ app' = [app EXCEPT ![r].pc = "present"] /\ bill' = [bill EXCEPT ![r].open = TRUE]
         /\ b.figures.net > 0
      \/ app' = [app EXCEPT ![r].pc = "give_back"] /\ bill' = bill
  BY <1>3 DEF CreateLink, Goes
<1>6. /\ DOMAIN app' = Requests /\ DOMAIN bill' = Requests
      /\ \A q \in Requests \ {r} : app'[q] = app[q] /\ bill'[q] = bill[q]
  BY <1>1, <1>5
<1>7. PICK a2, b2 : a2 = app'[r] /\ b2 = bill'[r]
  OBVIOUS
<1>8. /\ a2.pc \in {"present", "give_back"} /\ a2.tender = a.tender /\ a2.cart = a.cart
      /\ a2.start = a.start /\ a2.told = a.told /\ a2.moved = a.moved /\ DOMAIN a2 = DOMAIN a
      /\ b2.st = b.st /\ b2.agreed = b.agreed /\ b2.figures = b.figures
      /\ b2.items = b.items /\ b2.products = b.products /\ DOMAIN b2 = DOMAIN b
      /\ a2.pc = "present" => b.figures.net > 0
  <2>1. CASE /\ app' = [app EXCEPT ![r].pc = "present"] /\ bill' = [bill EXCEPT ![r].open = TRUE]
             /\ b.figures.net > 0
    <3>1. a2 = [a EXCEPT !.pc = "present"] /\ b2 = [b EXCEPT !.open = TRUE]
      BY <1>1, <1>2, <1>3, <1>7, <2>1
    <3> QED BY <1>2, <1>3, <2>1, <3>1
  <2>2. CASE app' = [app EXCEPT ![r].pc = "give_back"] /\ bill' = bill
    <3>1. a2 = [a EXCEPT !.pc = "give_back"] /\ b2 = b
      BY <1>1, <1>2, <1>3, <1>7, <2>2
    <3> QED BY <1>2, <3>1
  <2> QED BY <1>5, <2>1, <2>2
<1>9. PriceFor(app[r].cart, app[r].start)' = PriceFor(a.cart, a.start)
  BY <1>4, <1>7, <1>8 DEF PriceFor, Lines
<1>10. ToldIsFresh(r)'
  <2>1. ToldIsFresh(r)
    BY <1>1 DEF Stands
  <2>2. a2.pc \notin {"idle", "hold", "confirm"}
    BY <1>8
  <2> QED BY <1>2, <1>4, <1>7, <1>8, <1>9, <2>1, <2>2 DEF ToldIsFresh
<1>11. BillIsTold(r)'
  <2>1. BillIsTold(r)
    BY <1>1 DEF Stands
  <2>2. a2.pc \notin {"idle", "answered"}
    BY <1>8
  <2> QED BY <1>2, <1>3, <1>7, <1>8, <2>1, <2>2 DEF BillIsTold
<1>12. Stands(r)'
  BY <1>2, <1>3, <1>7, <1>8, <1>10, <1>11 DEF Stands
<1> QED BY <1>4, <1>6, <1>12, OneStands
\* What confirm books of a cart told this price: its figures, with the deposit
\* told capped at the net.
Kept(cart, start, told, items) ==
    [QuoteBasket(menu, who, cart.ids, start) EXCEPT !.deposit = Least(told.deposit, NetOf(items))]
Covered(cart) ==
    \A i \in DOMAIN cart.products : cart.products[i].id \in DOMAIN menu.offers
Keeps(cart, told, items, f) ==
    /\ IsFigures(f) /\ AskedFor(items) = cart.ids
    /\ ProductMoney(Lines(cart)).total \in Nat
    /\ told.total = f.net + f.vat - f.discount + ProductMoney(Lines(cart)).total
    /\ told.deposit \in 1 .. told.total => f.deposit \in Int /\ f.deposit <= told.deposit

\* The bill of a confirm, where nothing had moved since the quote.
LEMMA BillOfTheTold ==
    ASSUME NEW cart \in Carts, NEW start, NEW told, NEW items, NEW f,
           IsMenu(menu), Covered(cart), told = PriceFor(cart, start),
           items = Selection(menu, cart.ids), f = Kept(cart, start, told, items)
    PROVE  Keeps(cart, told, items, f)
<1>1. IsList(cart.ids)
  BY AmountsAssumption DEF IsCart
<1>2. PICK quote : quote = QuoteBasket(menu, who, cart.ids, start)
  OBVIOUS
<1>3. /\ IsFigures(quote) /\ quote.net = NetOf(items)
      /\ DOMAIN quote = {"net", "discount", "vat", "total", "deposit"}
      /\ quote.total = quote.net + quote.vat - quote.discount
  BY <1>1, <1>2, QuotesAreFigures
<1>4. PICK extra : extra = ProductMoney(Lines(cart)) /\ extra.total \in Nat
  BY ProductsAreAmounts DEF Covered
<1>5. told = [quote EXCEPT !.net = @ + extra.net, !.vat = @ + extra.vat, !.total = @ + extra.total]
  BY <1>2, <1>4 DEF PriceFor, AddProducts
<1>6. told.total = quote.total + extra.total /\ told.deposit = quote.deposit
  BY <1>3, <1>5
<1>7. PICK kept : kept = Least(told.deposit, NetOf(items))
  OBVIOUS
<1>8. f = [quote EXCEPT !.deposit = kept]
  BY <1>2, <1>7 DEF Kept
<1>9. /\ f.net = quote.net /\ f.vat = quote.vat /\ f.discount = quote.discount
      /\ f.deposit = kept /\ DOMAIN f = DOMAIN quote
  BY <1>3, <1>8
<1>10. IsFigures(f)
  BY <1>3, <1>9 DEF IsFigures
<1>11. AskedFor(items) = cart.ids
  BY <1>1, SelectionReadsBack
<1>12. NetOf(items) \in Nat
  BY <1>1, NetIsAmount
<1>13. ASSUME told.deposit \in 1 .. told.total
       PROVE  f.deposit \in Int /\ f.deposit <= told.deposit
  <2>1. PICK n \in Nat : n = NetOf(items)
    BY <1>12
  <2>2. PICK d \in Int : d = told.deposit
    BY <1>13
  <2>3. Least(d, n) \in Int /\ Least(d, n) <= d
    BY DEF Least
  <2> QED BY <1>7, <1>9, <2>1, <2>2, <2>3
<1>14. told.total = f.net + f.vat - f.discount + extra.total
  BY <1>3, <1>6, <1>9
<1> QED BY <1>4, <1>10, <1>11, <1>13, <1>14 DEF Keeps

\* confirm resolves the cart again, against the menu as it is by then.
LEMMA ConfirmStands ==
    ASSUME QuoteInv, NEW r \in Requests, CreateConfirm(r)
    PROVE  QuoteInv'
<1>1. /\ IsMenu(menu) /\ DOMAIN app = Requests /\ DOMAIN bill = Requests
      /\ \A q \in Requests : Stands(q)
  BY QuoteInvIs
<1>2. PICK a : a = app[r]
             /\ {"pc", "cart", "start", "intent", "told", "tender", "moved", "kept"} \subseteq DOMAIN a
  BY <1>1 DEF Stands
<1>3. a.pc = "confirm" /\ menu' = menu /\ who' = who
  BY <1>2 DEF CreateConfirm, At
<1>4. PICK items : items = Selection(menu, a.cart.ids)
  OBVIOUS
<1>5. PICK tendered : tendered = IF a.intent = "link" THEN a.tender ELSE 0
  OBVIOUS
<1>6. PICK f : f = [QuoteBasket(menu, who, a.cart.ids, a.start) EXCEPT
                      !.deposit = Least(tendered, NetOf(items))]
  OBVIOUS
<1>7. PICK b2 : b2 = [st |-> IF a.intent = "link" THEN "pending_payment" ELSE "confirmed",
                  pay |-> IF a.intent = "link" THEN "unpaid" ELSE "none_required",
                  items |-> items, products |-> Lines(a.cart), figures |-> f,
                  open |-> a.intent = "link", agreed |-> ~a.moved]
  OBVIOUS
<1>8. \/ /\ Quotable(menu, a.cart.ids) /\ bill' = [bill EXCEPT ![r] = b2]
         /\ app' = [app EXCEPT ![r].pc = IF a.intent = "link" THEN "link" ELSE "present"]
      \/ app' = [app EXCEPT ![r].pc = "give_back"] /\ bill' = bill
  BY <1>2, <1>4, <1>5, <1>6, <1>7, Zenon DEF CreateConfirm, Goes
<1>9. /\ DOMAIN app' = Requests /\ DOMAIN bill' = Requests
      /\ \A q \in Requests \ {r} : app'[q] = app[q] /\ bill'[q] = bill[q]
  BY <1>1, <1>8
<1>10. PICK a2 : a2 = app'[r]
  OBVIOUS
<1>11. \E pc \in {"link", "present", "give_back"} : a2 = [a EXCEPT !.pc = pc]
  BY <1>1, <1>2, <1>8, <1>10
<1>12. /\ a2.tender = a.tender /\ a2.cart = a.cart /\ a2.start = a.start /\ a2.told = a.told
       /\ a2.moved = a.moved /\ DOMAIN a2 = DOMAIN a /\ a2.pc \in {"link", "present", "give_back"}
  BY <1>2, <1>11
<1>13. PriceFor(app[r].cart, app[r].start)' = PriceFor(a.cart, a.start)
  BY <1>3, <1>10, <1>12 DEF PriceFor, Lines
<1>14. ToldIsFresh(r)
  BY <1>1 DEF Stands
<1>15. ToldIsFresh(r)'
  <2>1. a2.pc \notin {"idle", "hold", "confirm"}
    BY <1>12
  <2> QED BY <1>2, <1>3, <1>10, <1>12, <1>13, <1>14, <2>1 DEF ToldIsFresh
<1>16. CASE /\ Quotable(menu, a.cart.ids) /\ bill' = [bill EXCEPT ![r] = b2]
            /\ app' = [app EXCEPT ![r].pc = IF a.intent = "link" THEN "link" ELSE "present"]
  <2>1. bill'[r] = b2
    BY <1>1, <1>16
  <2>2. /\ b2.items = items /\ b2.products = Lines(a.cart) /\ b2.figures = f
        /\ b2.agreed = (~a.moved)
        /\ {"st", "pay", "items", "products", "figures", "open", "agreed"} \subseteq DOMAIN b2
        /\ b2.st = "pending_payment" => a.intent = "link"
    BY <1>7
  <2>3. a.intent = "link" => a2.pc = "link"
    BY <1>1, <1>2, <1>10, <1>16
  <2>4. BillIsTold(r)'
    <3> SUFFICES ASSUME a.intent = "link", ~a.moved PROVE BillIsTold(r)'
      BY <2>1, <2>2 DEF BillIsTold
    <3>1. a2.pc = "link"
      BY <2>3
    <3>2. /\ a.cart \in Carts /\ a.told = PriceFor(a.cart, a.start) /\ a.tender = a.told.deposit
          /\ \A i \in DOMAIN a.cart.products : a.cart.products[i].id \in DOMAIN menu.offers
      BY <1>2, <1>3, <1>14, <1>16 DEF ToldIsFresh
    <3>3. tendered = a.told.deposit
      BY <1>5, <3>2
    <3>4. f = [QuoteBasket(menu, who, a.cart.ids, a.start) EXCEPT
                 !.deposit = Least(a.told.deposit, NetOf(items))]
      BY <1>6, <3>3
    <3>5. /\ IsFigures(f) /\ AskedFor(items) = a.cart.ids
          /\ ProductMoney(Lines(a.cart)).total \in Nat
          /\ a.told.total = f.net + f.vat - f.discount + ProductMoney(Lines(a.cart)).total
          /\ a.told.deposit \in 1 .. a.told.total => f.deposit \in Int /\ f.deposit <= a.told.deposit
      <4>1. PICK cart \in Carts : cart = a.cart
        BY <3>2
      <4>2. PICK start : start = a.start
        OBVIOUS
      <4>3. PICK told : told = a.told
        OBVIOUS
      <4>0. cart \in Carts
        BY <4>1
      <4>4. IsMenu(menu)
        BY <1>1
      <4>5. Covered(cart)
        BY <3>2, <4>1 DEF Covered
      <4>6. told = PriceFor(cart, start)
        BY <3>2, <4>1, <4>2, <4>3
      <4>7. items = Selection(menu, cart.ids)
        BY <1>4, <4>1
      <4>8. f = Kept(cart, start, told, items)
        BY <3>4, <4>1, <4>2, <4>3 DEF Kept
      <4>9. Keeps(cart, told, items, f)
        BY <4>0, <4>4, <4>5, <4>6, <4>7, <4>8, BillOfTheTold
      <4> QED BY <4>1, <4>3, <4>9 DEF Keeps
    <3>6. ProductMoney(bill'[r].products) = ProductMoney(Lines(a.cart))
      BY <2>1, <2>2
    <3> QED BY <1>10, <1>12, <2>1, <2>2, <3>1, <3>5, <3>6 DEF BillIsTold
  <2>5. Stands(r)'
    BY <1>2, <1>10, <1>12, <1>15, <2>1, <2>2, <2>4 DEF Stands
  <2> QED BY <1>3, <1>9, <2>5, OneStands
<1>17. CASE app' = [app EXCEPT ![r].pc = "give_back"] /\ bill' = bill
  <2>1. a2.pc = "give_back"
    BY <1>1, <1>2, <1>10, <1>17
  <2>2. BillIsTold(r)'
    BY <1>1, <1>2, <1>10, <1>12, <1>17, <2>1 DEF Stands, BillIsTold
  <2>3. Stands(r)'
    BY <1>1, <1>2, <1>10, <1>12, <1>15, <1>17, <2>2 DEF Stands
  <2> QED BY <1>3, <1>9, <2>3, OneStands
<1> QED BY <1>8, <1>16, <1>17

\* Every step leaves what was told standing, or says that it moved.
LEMMA QuoteInductive ==
    ASSUME QuoteInv, [CheckoutNext \/ PartyNext]_checkoutVars
    PROVE  QuoteInv'
<1>1. ASSUME menu' = menu, who' = who, app' = app, bill' = bill PROVE QuoteInv'
  <2>1. ASSUME NEW q \in Requests PROVE Stands(q)'
    <3>1. CalmApp(app[q], app'[q]) /\ CalmBill(bill[q], bill'[q])
      BY <1>1 DEF CalmApp, CalmBill
    <3> QED BY <1>1, <3>1, QuoteInvIs, CalmStands
  <2> QED BY <1>1, <2>1 DEF QuoteInv, Columns, Stands
<1>2. CASE UNCHANGED checkoutVars \/ PartyNext \/ WindowShuts \/ OtherHolds \/ SweepSlotHold
  BY <1>1, <1>2 DEF checkoutVars, PartyNext, JoinParty, WindowShuts, OtherHolds, SweepSlotHold
<1>3. CASE PriceMoves \/ CustomerMoves
  BY <1>3, MovesStand
<1>4. CASE \E s \in UNION {DOMAIN m.price : m \in Menus} : Retires(s)
  BY <1>4, RetiringStands
<1>5. CASE CheckoutNext /\ ~(PriceMoves \/ CustomerMoves \/ WindowShuts \/ OtherHolds \/ SweepSlotHold)
           /\ ~\E s \in UNION {DOMAIN m.price : m \in Menus} : Retires(s)
  <2>1. PICK q \in Requests :
         \/ \E cart \in Carts, start \in VisitStarts : AskQuote(q, cart, start)
         \/ \E intent \in Intents : CreateCheck(q, intent)
         \/ CreateHold(q) \/ CreateConfirm(q) \/ CreateLink(q) \/ Present(q)
         \/ CallFails(q) \/ Dies(q) \/ LinkCloses(q) \/ SweepUnpaid(q)
         \/ \E works \in BOOLEAN : GiveBackHold(q, works) \/ UndoBooking(q, works)
         \/ \E target \in {"PARTIALLY", "FULLY_PAID", "PAY_AFTER_CHECK_IN"} :
              \E paid \in {0, app[q].told.deposit, app[q].told.total} :
                PaysInApp(q, target, paid)
    BY <1>5, Zenon DEF CheckoutNext
  <2>2. CASE \E cart \in Carts, start \in VisitStarts : AskQuote(q, cart, start)
    BY <2>2, AskStands
  <2>3. CASE \E intent \in Intents : CreateCheck(q, intent)
    BY <2>3, CheckStands
  <2>4. CASE CreateConfirm(q)
    BY <2>4, ConfirmStands
  <2>5. CASE CreateLink(q)
    BY <2>5, LinkStands
  <2>6. CASE \/ CreateHold(q) \/ Present(q) \/ CallFails(q) \/ Dies(q)
             \/ LinkCloses(q) \/ SweepUnpaid(q)
             \/ \E works \in BOOLEAN : GiveBackHold(q, works) \/ UndoBooking(q, works)
             \/ \E target \in {"PARTIALLY", "FULLY_PAID", "PAY_AFTER_CHECK_IN"} :
                  \E paid \in {0, app[q].told.deposit, app[q].told.total} :
                    PaysInApp(q, target, paid)
    BY <2>6, CalmSteps, Zenon
  <2> QED BY <2>1, <2>2, <2>3, <2>4, <2>5, <2>6, Zenon
<1> QED BY <1>2, <1>3, <1>4, <1>5

\* mobile-booking.handler.ts: what the app was quoted it can pay.  For every
\* menu, cart, customer and hour, and whatever moved between quote, create
\* and payment: the agreed total is accepted, and so is the agreed deposit as
\* long as prices and standing are what they were, even after a service of
\* the basket has left the catalogue.  The argument goes through the stored
\* lines: they read back as the cart (SelectionReadsBack), and a cart that can
\* still be quoted resolves as it did (StillResolves).
THEOREM DepositsAlwaysStand ==
    ASSUME NEW menus, \A m \in menus : IsMenu(m)
    PROVE  CheckoutSpec(menus) => []DepositStands
<1>1. CheckoutInit(menus) => QuoteInv
  BY DEF CheckoutInit, QuoteInv, Columns, ToldIsFresh, BillIsTold, IdleApp, NoBill
<1> QED
  BY <1>1, ToldIsAccepted, QuoteInductive, PTL DEF CheckoutSpec
=============================================================================
