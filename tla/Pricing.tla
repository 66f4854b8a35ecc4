------------------------------ MODULE Pricing ------------------------------
(***************************************************************************)
(* What a basket costs, what is asked for in advance and how an amount is  *)
(* shared out, in whole fils.                                              *)
(*                                                                         *)
(* Sources: domain/shared/money.ts and, under domain/booking, customer.ts, *)
(* quote.ts, package.ts, group-money.ts, course.ts, mobile-products.ts,    *)
(* stored-money.ts and mobile-contract.ts, with basket.ts.                 *)
(*                                                                         *)
(* A menu is a record: price (service -> fils), rule (service -> its       *)
(* deposit rule), packages (package -> [parts, price]) and offers (product *)
(* -> [price, left]).  A customer is a record [gold, flag, new, history].  *)
(***************************************************************************)
EXTENDS Integers, FiniteSets, SequencesExt

VAT_PERCENT             == 5
DEPOSIT_FLOOR           == 1000
DEPOSIT_CEILING         == 50000
RISK_FLAG_PERCENT       == 50
HIGH_RISK_PERCENT       == 30
FIRST_VISIT_PERCENT     == 20
PEAK_ESCALATION_PERCENT == 20
PeakWindow              == 1020 .. 1199
CHILD_SERVICE_PERCENT   == 50
AMOUNT_TOLERANCE_FILS   == 1

-----------------------------------------------------------------------------
(* Money *)

Least(a, b)   == IF a < b THEN a ELSE b
Largest(a, b) == IF a > b THEN a ELSE b
Added(fils)   == FoldLeft(LAMBDA n, f : n + f, 0, fils)

Percent(fils, p)     == (fils * p + 50) \div 100
RoundToDirhams(fils) == ((fils + 50) \div 100) * 100

\* Mutant: every share rounded on its own.
AllocateRounded(fils, weights) ==
    [i \in DOMAIN weights |->
       (fils * weights[i] + Added(weights) \div 2) \div Added(weights)]

\* The floors, and the fils left over to the largest fractions first.
Allocate(fils, weights) ==
    LET whole == Added(weights)
        share(i) == (fils * weights[i]) \div whole
        frac(i)  == (fils * weights[i]) % whole
        left == fils - Added([i \in DOMAIN weights |-> share(i)])
        before(i) == {j \in DOMAIN weights :
                        frac(j) > frac(i) \/ (frac(j) = frac(i) /\ j < i)}
    IN [i \in DOMAIN weights |->
          share(i) + IF Cardinality(before(i)) < left THEN 1 ELSE 0]

AllZero(fils) == \A i \in DOMAIN fils : fils[i] = 0

\* spread(), and spreadOverParts(), which shares evenly what weighs nothing.
Spread(fils, weights) ==
    IF fils = 0 \/ AllZero(weights) THEN [i \in DOMAIN weights |-> 0]
    ELSE Allocate(fils, weights)
SpreadOverParts(fils, parts) ==
    Allocate(fils, IF AllZero(parts) THEN [i \in DOMAIN parts |-> 1] ELSE parts)

-----------------------------------------------------------------------------
(* The deposit ladder *)

Band(h) ==
    LET raw == 80 - 30 * h.noShows - 15 * h.lateCancels + 2 * Least(h.visits, 10)
        score == Largest(0, Least(100, raw))
    IN IF score >= 75 THEN "LOW" ELSE IF score >= 45 THEN "WATCH" ELSE "HIGH"

KindOf(amount, total) ==
    IF amount = 0 THEN "none" ELSE IF amount < total THEN "deposit" ELSE "full"

Rung(amount, total)  == [amount |-> amount, kind |-> KindOf(amount, total)]
PercentRung(total, p) == Rung(RoundToDirhams(Percent(total, p)), total)

\* The larger of a service's percentage and its fixed amount.
ServiceRung(total, rule) ==
    Rung(Largest(RoundToDirhams(Percent(total, rule.percent)), rule.fixed), total)

Stricter(a, b) ==
    LET rank(k) == CASE k = "full" -> 2 [] k = "deposit" -> 1 [] OTHER -> 0 IN
    rank(a.kind) > rank(b.kind) \/ (a.kind = b.kind /\ a.amount > b.amount)

Rungs(total, who, rule) ==
    (IF who.flag THEN {PercentRung(total, RISK_FLAG_PERCENT)}
     ELSE IF Band(who.history) = "HIGH" THEN {PercentRung(total, HIGH_RISK_PERCENT)}
     ELSE {})
    \cup (IF rule.percent > 0 \/ rule.fixed > 0 THEN {ServiceRung(total, rule)} ELSE {})
    \cup (IF who.new THEN {PercentRung(total, FIRST_VISIT_PERCENT)} ELSE {})

NoRung == [amount |-> 0, kind |-> "none"]
Strictest(rungs) ==
    CHOOSE r \in {NoRung} \cup rungs : \A q \in rungs : ~Stricter(q, r)

Escalate(rung, total) ==
    CASE rung.kind = "full"    -> rung
      [] rung.kind = "none"    -> PercentRung(total, PEAK_ESCALATION_PERCENT)
      [] rung.kind = "deposit" -> [amount |-> total, kind |-> "full"]

ClampDeposit(amount, total) ==
    IF amount > total THEN total
    ELSE Least(Largest(amount, Least(DEPOSIT_FLOOR, total)),
               Least(DEPOSIT_CEILING, total))

\* requirementFor(): on the net total before any discount.
RequirementFor(total, who, rule, start) ==
    LET first  == Strictest(Rungs(total, who, rule))
        winner == IF start \in PeakWindow THEN Escalate(first, total) ELSE first
    IN IF winner.kind = "none" THEN 0 ELSE ClampDeposit(winner.amount, total)

-----------------------------------------------------------------------------
(* Quotes and bills *)

QuoteOf(net, who, requirement) ==
    LET discount == IF who.gold THEN Percent(net, 10) ELSE 0
        vat == Percent(net - discount, VAT_PERCENT)
    IN [net |-> net, discount |-> discount, vat |-> vat,
        total |-> (net - discount) + vat, deposit |-> requirement]

ProductMoney(lines) ==
    LET net == Added([i \in DOMAIN lines |-> lines[i].price * lines[i].quantity])
        vat == Percent(net, VAT_PERCENT)
    IN [net |-> net, vat |-> vat, total |-> net + vat]

AddProducts(figures, products) ==
    [figures EXCEPT !.net = @ + products.net, !.vat = @ + products.vat,
                    !.total = @ + products.total]

\* checkProducts(): every line is sold here at the price claimed, and the
\* shelf holds what all lines of the product want together.
CheckProducts(menu, lines) ==
    \A i \in DOMAIN lines :
      /\ lines[i].id \in DOMAIN menu.offers
      /\ lines[i].price - menu.offers[lines[i].id].price \in
           (0 - AMOUNT_TOLERANCE_FILS) .. AMOUNT_TOLERANCE_FILS
      /\ menu.offers[lines[i].id].left >=
           Added([j \in DOMAIN lines |->
                    IF lines[j].id = lines[i].id THEN lines[j].quantity ELSE 0])

\* resolveSelection(): every package as its parts, each carrying its share of
\* the package's price, the sales numbered in the order they were picked.
NoSale == [pkg |-> "none", seq |-> 0]
Selection(menu, ids) ==
    LET priceOf(id) == IF id \in DOMAIN menu.price THEN menu.price[id] ELSE 0
        expand(acc, id) ==
          IF id \notin DOMAIN menu.packages
          THEN [acc EXCEPT !.items = Append(@, [id |-> id, fils |-> priceOf(id), sale |-> NoSale])]
          ELSE LET parts  == menu.packages[id].parts
                   shares == SpreadOverParts(menu.packages[id].price,
                               [i \in DOMAIN parts |-> priceOf(parts[i])])
               IN [items |-> acc.items \o [i \in DOMAIN parts |->
                                [id |-> parts[i], fils |-> shares[i],
                                 sale |-> [pkg |-> id, seq |-> acc.sold]]],
                   sold |-> acc.sold + 1]
    IN FoldLeft(expand, [items |-> <<>>, sold |-> 0], ids).items

ItemIds(items)  == [i \in DOMAIN items |-> items[i].id]
NetOf(items)    == Added([i \in DOMAIN items |-> items[i].fils])
Missing(menu, items) == ToSet(ItemIds(items)) \ DOMAIN menu.price

\* Mutant: a booking read back as the parts it holds.
AskedForParts(items) == ItemIds(items)

\* askedFor(): each package sold once, in place of its parts.
AskedFor(items) ==
    LET asked(item) == IF item.sale = NoSale THEN item.id ELSE item.sale.pkg
        read(acc, item) ==
          IF item.sale # NoSale /\ item.sale = acc.last THEN acc
          ELSE [lines |-> Append(acc.lines, asked(item)), last |-> item.sale]
    IN FoldLeft(read, [lines |-> <<>>, last |-> NoSale], items).lines

\* GetQuoteHandler.execute(), of a basket with nothing missing: the deposit
\* rule is the first service's.
QuoteBasket(menu, who, ids, start) ==
    LET items == Selection(menu, ids)
        net == NetOf(items)
    IN QuoteOf(net, who,
               RequirementFor(net, who, menu.rule[items[1].id], start))

Quotable(menu, ids) == ids # <<>> /\ Missing(menu, Selection(menu, ids)) = {}

-----------------------------------------------------------------------------
(* What the app may report as paid *)

AmountsAgree(a, b) == a - b \in (0 - AMOUNT_TOLERANCE_FILS) .. AMOUNT_TOLERANCE_FILS

CheckPatch(target, paid, money) ==
    IF target = "PAY_AFTER_CHECK_IN"
    THEN IF paid = 0 THEN "ok" ELSE "amount_mismatch"
    ELSE IF paid <= 0 \/ (paid > money.total /\ ~AmountsAgree(paid, money.total))
         THEN "amount_mismatch"
    ELSE IF target = "FULLY_PAID" /\ ~AmountsAgree(paid, money.total)
         THEN "amount_mismatch"
    ELSE IF target = "PARTIALLY" /\ paid < money.deposit THEN "deposit_too_low"
    ELSE "ok"

-----------------------------------------------------------------------------
(* Parties, courses and the register *)

\* groupMoney(): VAT and deposit once for the party, then shared out.
ChargedServiceFils(fils, child) ==
    IF child THEN Percent(fils, CHILD_SERVICE_PERCENT) ELSE fils
MemberNet(m) ==
    Added([i \in DOMAIN m.lines |-> ChargedServiceFils(m.lines[i], m.child)])
      + ProductMoney(m.products).net
GroupMoney(members, depositPercent) ==
    LET nets == [i \in DOMAIN members |-> MemberNet(members[i])]
        vat == Percent(Added(nets), VAT_PERCENT)
        deposit == Percent(Added(nets) + vat, depositPercent)
        vats == Spread(vat, nets)
        totals == [i \in DOMAIN nets |-> nets[i] + vats[i]]
    IN [nets |-> nets, vats |-> vats, totals |-> totals, vat |-> vat,
        deposits |-> Spread(deposit, totals), deposit |-> deposit,
        total |-> Added(nets) + vat]

\* planDraws(): the course's price and its VAT, each shared over the visits.
PlanDraws(net, visits) ==
    LET vat == Percent(net, VAT_PERCENT)
        even == [i \in 1 .. visits |-> 1]
        nets == Allocate(net, even)
        vats == Allocate(vat, even)
        gross == [i \in 1 .. visits |-> nets[i] + vats[i]]
    IN [i \in 1 .. visits |->
          [gross |-> gross[i],
           left |-> (net + vat) - Added(SubSeq(gross, 1, i))]]

\* settle(): the deposit is tender, after VAT, and what is overpaid is credit.
Settle(t) ==
    LET discount == IF t.gold THEN Percent(t.services, 10) ELSE 0
        promo == Percent(t.services - discount, t.promo)
        base == (t.services + t.retail) - discount - promo
        tip == Percent(base - t.retail, t.tip)
        vat == Percent(base, VAT_PERCENT)
        raw == base + tip + vat - t.deposit - t.loyalty
    IN [base |-> base, tip |-> tip, vat |-> vat,
        due |-> Largest(0, raw), credit |-> Largest(0, 0 - raw)]
=============================================================================
