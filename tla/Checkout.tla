------------------------------ MODULE Checkout ------------------------------
(***************************************************************************)
(* One visit bought in the app: quoted, created (priced, held, confirmed,  *)
(* linked) and paid for, by requests that compete for one slot, while the  *)
(* menu and what is known of the customer move.  And the bill of a party.  *)
(*                                                                         *)
(* Sources: application/commands/mobile-booking.handler.ts (quote,         *)
(* execute, recordPayment), confirm-booking.handler.ts, payment-link       *)
(* .handler.ts and mobile-group-booking.handler.ts.  Every await of        *)
(* execute() is a step of its own.  The tables behind the calls are        *)
(* modelled in Holds and PaymentLinks; here the slot has one owner.        *)
(***************************************************************************)
EXTENDS Pricing

CONSTANTS
    Requests,     \* create requests
    Menus,        \* the menus the catalogue may show
    Customers,    \* what may be known of the customer
    Carts,        \* [ids, products] records
    VisitStarts,  \* minutes of the day
    Intents,      \* payment_status on create
    Members,      \* members of a party: [ids, child, products]
    MaxMembers,   \* bound on a party
    DepositPercents

\* A request is none of the slot's other owners.
ASSUME RequestsAssumption == "no one" \notin Requests /\ "other" \notin Requests

IsList(q) == q \in Seq(ToSet(q))

\* A menu has prices in whole fils, and packages that are lists of services:
\* expandPackage() refuses an empty one, and "none" stands for no package.
IsMenu(m) ==
    /\ {"price", "rule", "packages", "offers"} \subseteq DOMAIN m /\ "none" \notin DOMAIN m.packages
    /\ \A s \in DOMAIN m.price : m.price[s] \in Nat
    /\ \A k \in DOMAIN m.packages :
         /\ m.packages[k].price \in Nat
         /\ IsList(m.packages[k].parts) /\ m.packages[k].parts # <<>>
    /\ \A o \in DOMAIN m.offers : m.offers[o].price \in Nat
IsCart(c) ==
    /\ IsList(c.ids) /\ IsList(c.products)
    /\ \A i \in DOMAIN c.products : c.products[i].quantity \in Nat
IsMember(m) == IsCart(m) /\ \A i \in DOMAIN m.products : m.products[i].price \in Nat

\* Catalogue, carts, members and the salon's percentage are amounts one can
\* charge.
ASSUME AmountsAssumption ==
    /\ \A m \in Menus : IsMenu(m)
    /\ \A c \in Carts : IsCart(c)
    /\ \A m \in Members : IsMember(m)
    /\ DepositPercents \subseteq 0 .. 100

VARIABLES
    menu,     \* the catalogue
    who,      \* the customer
    slot,     \* who owns the time: [by, as]
    app,      \* request -> where it is, and what its app was told
    bill,     \* request -> its booking
    shut,     \* the link window of the visit has closed
    party     \* the members of the party so far

checkoutVars == <<menu, who, slot, app, bill, shut, party>>

NoOne     == "no one"
FreeSlot  == [by |-> NoOne, as |-> "free"]
NoFigures == [net |-> 0, discount |-> 0, vat |-> 0, total |-> 0, deposit |-> 0]
IdleApp   == [pc |-> "idle", cart |-> [ids |-> <<>>, products |-> <<>>], start |-> 0,
              intent |-> "none", told |-> NoFigures, tender |-> 0, moved |-> FALSE,
              kept |-> FALSE]
NoBill    == [st |-> "none", pay |-> "none", items |-> <<>>, products |-> <<>>,
              figures |-> NoFigures, open |-> FALSE, agreed |-> FALSE]

CheckoutInit(menus) ==
    /\ menu \in menus /\ who \in Customers
    /\ slot = FreeSlot /\ shut = FALSE /\ party = <<>>
    /\ app = [q \in Requests |-> IdleApp]
    /\ bill = [q \in Requests |-> NoBill]

-----------------------------------------------------------------------------
(* The world moves *)

\* Bound: nothing moves once every request is over.
Open == \E q \in Requests :
          app[q].pc \notin {"refused", "died"} /\ bill[q].st \notin {"confirmed", "expired"}

\* What the app was told is no longer what a fresh quote would say.
Moved == app' = [q \in Requests |->
                   IF app[q].pc = "idle" THEN app[q] ELSE [app[q] EXCEPT !.moved = TRUE]]

PriceMoves ==
    /\ Open /\ \E m \in Menus : DOMAIN m.price = DOMAIN menu.price /\ m # menu /\ menu' = m
    /\ Moved /\ UNCHANGED <<who, slot, bill, shut, party>>

CustomerMoves ==
    /\ Open /\ \E c \in Customers : c # who /\ who' = c
    /\ Moved /\ UNCHANGED <<menu, slot, bill, shut, party>>

\* A service leaves the catalogue.
Retires(s) ==
    /\ Open /\ s \in DOMAIN menu.price
    /\ menu' = [menu EXCEPT !.price = [x \in DOMAIN @ \ {s} |-> @[x]]]
    /\ UNCHANGED <<who, slot, app, bill, shut, party>>

WindowShuts ==
    /\ Open /\ ~shut /\ shut' = TRUE
    /\ UNCHANGED <<menu, who, slot, app, bill, party>>

\* Somebody else holds the time; requests meet only there.
OtherHolds ==
    /\ slot = FreeSlot /\ slot' = [by |-> "other", as |-> "hold"]
    /\ UNCHANGED <<menu, who, app, bill, shut, party>>

-----------------------------------------------------------------------------
(* quote() and execute() *)

At(q, pc) == app[q].pc = pc
Goes(q, pc) == app' = [app EXCEPT ![q].pc = pc]

Lines(cart) == [i \in DOMAIN cart.products |->
                  [id |-> cart.products[i].id, quantity |-> cart.products[i].quantity,
                   price |-> menu.offers[cart.products[i].id].price]]

\* priceFor(): the services' figures from the quote, plus the products'.
PriceFor(cart, start) ==
    AddProducts(QuoteBasket(menu, who, cart.ids, start), ProductMoney(Lines(cart)))

AskQuote(q, cart, start) ==
    /\ At(q, "idle") /\ Quotable(menu, cart.ids) /\ CheckProducts(menu, Lines(cart))
    /\ app' = [app EXCEPT ![q] =
          [IdleApp EXCEPT !.pc = "quoted", !.cart = cart, !.start = start,
                          !.told = PriceFor(cart, start)]]
    /\ UNCHANGED <<menu, who, slot, bill, shut, party>>

CreateIntentOf(intent) ==
    CASE intent = "DRAFT" -> "link"
      [] intent = "PAY_AFTER_CHECK_IN" -> "on_arrival"
      [] OTHER -> "none"

\* verifyMoney(): the deposit is not one of the figures create checks.
MoneyAgrees(told, fresh) ==
    /\ AmountsAgree(fresh.net, told.net) /\ AmountsAgree(fresh.vat, told.vat)
    /\ AmountsAgree(fresh.discount, told.discount)
    /\ AmountsAgree(fresh.total, told.total)

CreateCheck(q, intent) ==
    /\ At(q, "quoted")
    /\ \/ /\ CreateIntentOf(intent) # "none" /\ Quotable(menu, app[q].cart.ids)
          /\ \E fresh \in {PriceFor(app[q].cart, app[q].start)} :
               LET ok == MoneyAgrees(app[q].told, fresh) IN
               app' = [app EXCEPT ![q].intent = CreateIntentOf(intent),
                                  ![q].pc = IF ok THEN "hold" ELSE "refused",
                                  ![q].tender = IF ok THEN fresh.deposit ELSE 0]
       \/ /\ CreateIntentOf(intent) = "none" \/ ~Quotable(menu, app[q].cart.ids)
          /\ app' = [app EXCEPT ![q].intent = CreateIntentOf(intent), ![q].pc = "refused"]
    /\ UNCHANGED <<menu, who, slot, bill, shut, party>>

CreateHold(q) ==
    /\ At(q, "hold")
    /\ IF slot = FreeSlot
       THEN Goes(q, "confirm") /\ slot' = [by |-> q, as |-> "hold"]
       ELSE Goes(q, "refused") /\ UNCHANGED slot
    /\ UNCHANGED <<menu, who, bill, shut, party>>

\* ConfirmBookingHandler: resolved and priced again, against a hold that may
\* be gone; 402 below the ladder's bar unless the deposit is deferred, and no
\* link once its window has closed.
CreateConfirm(q) ==
    LET a == app[q]
        items == Selection(menu, a.cart.ids)
        fresh == QuoteBasket(menu, who, a.cart.ids, a.start)
        tendered == IF a.intent = "link" THEN a.tender ELSE 0
        ok == /\ Quotable(menu, a.cart.ids)
              /\ slot = [by |-> q, as |-> "hold"]
              /\ a.intent = "link" => fresh.deposit <= tendered /\ ~shut
    IN
    /\ At(q, "confirm")
    /\ IF ok
       THEN /\ bill' = [bill EXCEPT ![q] =
                 [st |-> IF a.intent = "link" THEN "pending_payment" ELSE "confirmed",
                  pay |-> IF a.intent = "link" THEN "unpaid" ELSE "none_required",
                  items |-> items, products |-> Lines(a.cart),
                  figures |-> [fresh EXCEPT !.deposit = Least(tendered, NetOf(items))],
                  open |-> a.intent = "link", agreed |-> ~a.moved]]
            /\ slot' = [by |-> q, as |-> "booking"]
            /\ Goes(q, IF a.intent = "link" THEN "link" ELSE "present")
       ELSE Goes(q, "give_back") /\ UNCHANGED <<bill, slot>>
    /\ UNCHANGED <<menu, who, shut, party>>

\* links.execute(): only a live booking that owes something, in time.
CreateLink(q) ==
    /\ At(q, "link")
    /\ IF bill[q].st \in {"confirmed", "pending_payment"} /\ bill[q].figures.net > 0 /\ ~shut
       THEN Goes(q, "present") /\ bill' = [bill EXCEPT ![q].open = TRUE]
       ELSE Goes(q, "give_back") /\ UNCHANGED bill
    /\ UNCHANGED <<menu, who, slot, shut, party>>

Present(q) ==
    /\ At(q, "present") /\ Goes(q, "answered")
    /\ UNCHANGED <<menu, who, slot, bill, shut, party>>

\* A call that fails for reasons of its own.  The answer is returned without
\* being awaited, so when it cannot be read back nothing is undone.
CallFails(q) ==
    /\ \/ At(q, "confirm") /\ Goes(q, "give_back")
       \/ At(q, "link") /\ Goes(q, "give_back")
       \/ At(q, "present")
            /\ app' = [app EXCEPT ![q].pc = "refused", ![q].kept = TRUE]
    /\ UNCHANGED <<menu, who, slot, bill, shut, party>>

\* The catch: the hold, whose release is allowed to fail ...
GiveBackHold(q, works) ==
    /\ At(q, "give_back")
    /\ app' = [app EXCEPT ![q].pc = IF bill[q].st = "none" THEN "refused" ELSE "undo",
                          ![q].kept = @ \/ (slot = [by |-> q, as |-> "hold"] /\ ~works)]
    /\ slot' = IF works /\ slot = [by |-> q, as |-> "hold"] THEN FreeSlot ELSE slot
    /\ UNCHANGED <<menu, who, bill, shut, party>>

\* Mutant: the catch as it first was, which left the booking.
ForgetsTheBooking(q, works) ==
    /\ At(q, "undo") /\ Goes(q, "refused")
    /\ UNCHANGED <<menu, who, slot, bill, shut, party>>

\* ... and the booking, if one was written: pending_payment -> expired.
UndoBooking(q, works) ==
    LET undone == works /\ bill[q].st = "pending_payment" IN
    /\ At(q, "undo")
    /\ app' = [app EXCEPT ![q].pc = "refused", ![q].kept = @ \/ ~works]
    /\ bill' = IF undone THEN [bill EXCEPT ![q].st = "expired"] ELSE bill
    /\ slot' = IF undone THEN FreeSlot ELSE slot
    /\ UNCHANGED <<menu, who, shut, party>>

Dies(q) ==
    /\ app[q].pc \in {"hold", "confirm", "link", "present", "give_back", "undo"}
    /\ Goes(q, "died")
    /\ UNCHANGED <<menu, who, slot, bill, shut, party>>

-----------------------------------------------------------------------------
(* The jobs, and the payment *)

SweepSlotHold ==
    /\ slot.as = "hold" /\ slot' = FreeSlot
    /\ UNCHANGED <<menu, who, app, bill, shut, party>>

LinkCloses(q) ==
    /\ bill[q].st = "pending_payment" /\ bill[q].open
    /\ bill' = [bill EXCEPT ![q].open = FALSE]
    /\ UNCHANGED <<menu, who, slot, app, shut, party>>

SweepUnpaid(q) ==
    /\ bill[q].st = "pending_payment" /\ ~bill[q].open
    /\ bill' = [bill EXCEPT ![q].st = "expired"]
    /\ slot' = FreeSlot
    /\ UNCHANGED <<menu, who, app, shut, party>>

\* moneyFor(): the stored breakdown is the total; the deposit is a fresh
\* quote's, or the stored one once the basket can no longer be quoted.
MoneyFor(q) ==
    LET b == bill[q]
        asked == AskedFor(b.items)
        deposit == IF Quotable(menu, asked)
                   THEN QuoteBasket(menu, who, asked, app[q].start).deposit
                   ELSE b.figures.deposit
    IN AddProducts([b.figures EXCEPT !.deposit = deposit,
                      !.total = b.figures.net + b.figures.vat - b.figures.discount],
                   ProductMoney(b.products))

PaymentStatusAfterPatch(target) ==
    CASE target = "PARTIALLY" -> "deposit_paid"
      [] target = "FULLY_PAID" -> "fully_paid"
      [] target = "PAY_AFTER_CHECK_IN" -> "none_required"

\* recordPayment()
PaysInApp(q, target, paid) ==
    /\ At(q, "answered") /\ bill[q].st = "pending_payment"
    /\ \E money \in {MoneyFor(q)} : CheckPatch(target, paid, money) = "ok"
    /\ bill[q].pay = "unpaid" /\ bill[q].open
    /\ bill' = [bill EXCEPT ![q].st = "confirmed",
                            ![q].pay = PaymentStatusAfterPatch(target),
                            ![q].open = FALSE]
    /\ UNCHANGED <<menu, who, slot, app, shut, party>>

-----------------------------------------------------------------------------
(* The party's bill *)

\* A member's lines as they were asked for, and the items that carry them.
LineFils(m, i) == NetOf(Selection(menu, <<m.ids[i]>>))
PricedMember(m) ==
    [lines |-> [i \in DOMAIN m.ids |-> LineFils(m, i)], child |-> m.child,
     products |-> m.products]
PartFils(m, i) ==
    LET parts == Selection(menu, <<m.ids[i]>>) IN
    SpreadOverParts(ChargedServiceFils(LineFils(m, i), m.child),
                    [k \in DOMAIN parts |-> parts[k].fils])

JoinParty(m) ==
    /\ Len(party) < MaxMembers /\ party' = Append(party, m)
    /\ UNCHANGED <<menu, who, slot, app, bill, shut>>

-----------------------------------------------------------------------------

CheckoutNext ==
    \/ PriceMoves \/ CustomerMoves \/ WindowShuts \/ OtherHolds \/ SweepSlotHold
    \/ \E s \in UNION {DOMAIN m.price : m \in Menus} : Retires(s)
    \/ \E q \in Requests :
         \/ \E cart \in Carts, start \in VisitStarts : AskQuote(q, cart, start)
         \/ \E intent \in Intents : CreateCheck(q, intent)
         \/ CreateHold(q) \/ CreateConfirm(q) \/ CreateLink(q) \/ Present(q)
         \/ CallFails(q) \/ Dies(q) \/ LinkCloses(q) \/ SweepUnpaid(q)
         \/ \E works \in BOOLEAN : GiveBackHold(q, works) \/ UndoBooking(q, works)
         \/ \E target \in {"PARTIALLY", "FULLY_PAID", "PAY_AFTER_CHECK_IN"} :
              \E paid \in {0, app[q].told.deposit, app[q].told.total} :
                PaysInApp(q, target, paid)

PartyNext == \E m \in Members : JoinParty(m)

-----------------------------------------------------------------------------
(* Properties *)

\* "Every failed checkout consumed a chair the salon could never sell": an
\* app that got an error owns no time, neither through its hold nor through a
\* booking it was not told of, unless the clean-up itself failed or the
\* answer could not be read back.
FailedCheckoutGivesBack ==
    \A q \in Requests : At(q, "refused") /\ ~app[q].kept => slot.by # q

\* What the app was told stands when it pays.  The agreed total is always
\* accepted, whatever menu, customer or service changed since; the agreed
\* deposit is accepted as long as neither prices nor the customer's standing
\* moved, even when the services can no longer be quoted.  (A deposit above
\* the discounted price is not: the ladder caps it at the price before it.)
DepositStands ==
    \A q \in Requests :
      LET told == app[q].told
          waits == At(q, "answered") /\ bill[q].st = "pending_payment" /\ bill[q].agreed
      IN waits =>
           /\ CheckPatch("FULLY_PAID", told.total, MoneyFor(q)) = "ok"
           /\ ~app[q].moved /\ told.deposit \in 1 .. told.total
                => CheckPatch("PARTIALLY", told.deposit, MoneyFor(q)) = "ok"

\* No fil is made or lost where an amount is shared: the members' totals and
\* deposits add up to the party's, nobody's deposit exceeds their own total,
\* the items of each line add up to what the line is charged, and a course of
\* as many visits is drawn down to exactly nothing.  At the register, what is
\* due less what is credited is the bill less what was tendered.
BillsAddUp ==
    \A p \in DepositPercents, priced \in {[i \in DOMAIN party |-> PricedMember(party[i])]} :
      \A money \in {GroupMoney(priced, p)} :
        LET draws == PlanDraws(money.total, Len(party))
            ticket == [services |-> money.total, retail |-> money.vat, gold |-> who.gold,
                       promo |-> p, tip |-> p, deposit |-> money.deposit, loyalty |-> 0]
            till == Settle(ticket)
        IN party # <<>> =>
           /\ Added(money.totals) = money.total
           /\ Added(money.deposits) = money.deposit
           /\ \A i \in DOMAIN party : money.deposits[i] \in 0 .. money.totals[i]
           /\ \A i \in DOMAIN party : \A k \in DOMAIN party[i].ids :
                Added(PartFils(party[i], k)) =
                  ChargedServiceFils(LineFils(party[i], k), party[i].child)
           /\ draws[Len(draws)].left = 0 /\ \A i \in DOMAIN draws : draws[i].gross >= 0
           /\ till.due - till.credit = (till.base + till.tip + till.vat) - money.deposit
=============================================================================
