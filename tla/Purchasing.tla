----------------------------- MODULE Purchasing -----------------------------
(***************************************************************************)
(* Purchasing and the cost of stock: the receipts, supplier returns and     *)
(* reversals of purchasing.service.ts, the arithmetic of                    *)
(* purchasing-accounting.ts, the suppliers they name, and the function      *)
(* record_inventory_cost_movement that keeps the moving average.            *)
(*                                                                         *)
(* Each operation is one Serializable transaction, run again when it fails  *)
(* to serialize, so each is one action.  A request may arrive at any time   *)
(* and any number of times: under its own command (a repeated call) or      *)
(* under a new one (a second click, for which the page draws a new id).     *)
(* Sales, customer returns and transfers move the same stock in between.    *)
(* Money is counted in cents, unit costs in ten-thousandths of a cent (the  *)
(* six decimals of DECIMAL(18,6)).                                          *)
(***************************************************************************)
EXTENDS Integers, Sequences, FiniteSets, FiniteSetsExt, SequencesExt

CONSTANTS
    Variants,     \* numbers: lines are sorted by variant_id
    Suppliers,
    Papers,       \* what a user can type in: [supplier, number, items, discount]
    LegacyPapers, \* receipts booked before the cost ledger existed
    Commands,     \* command ids; NoCommand when the request has none
    NoCommand, NoNumber,
    Actors,       \* users: [role, branch]
    HomeBranch,   \* the branch the goods arrive at
    OpeningStock, OpeningCost,
    MaxSteps      \* bound: operations that change something

\* Ten-thousandths: of a cent in a unit cost, of the whole in a percentage.
Micro == 10000

\* What ReceivePurchaseDto lets through.
IsReceivePurchaseDto(p) ==
    /\ p.items \in Seq([variant : Variants, qty : Nat \ {0}, unit_cost : Nat])
    /\ p.items # <<>>
    /\ p.discount \in [amount : Nat] \cup [percent : 0 .. Micro]

ASSUME PurchasingAssumption ==
    /\ Variants \subseteq Nat /\ IsFiniteSet(Variants)
    /\ \A p \in Papers \cup LegacyPapers : IsReceivePurchaseDto(p)
    /\ IsFiniteSet(LegacyPapers)
    /\ OpeningStock \in Nat /\ OpeningCost \in Nat /\ MaxSteps \in Nat
    /\ NoCommand \notin Commands /\ Commands # {}

\* @@unique([supplier_id, normalized_invoice_number]): the receipts booked before
\* have numbers of their own.
ASSUME LegacyAssumption ==
    \A p, q \in LegacyPapers : p # q /\ p.number # NoNumber =>
        <<p.supplier, p.number>> # <<q.supplier, q.number>>

VARIABLES
    suppliers, \* Supplier rows
    invoices,  \* PurchaseInvoice rows with their items, in the order of creation
    returns,   \* SupplierReturn rows with their items
    stock,     \* InventoryStock.qty_on_hand of the receiving branch
    elsewhere, \* units in transit from it or on hand at other branches
    cost,      \* ProductVariant.cost_price
    costLog,   \* InventoryCostMovement of every variant, by sequence
    stockLog,  \* idempotency keys of InventoryMovement of every variant
    soldAt,    \* ReturnItem.unit_cost of the units sold and not brought back
    steps      \* operations so far

purVars == <<suppliers, invoices, returns, stock, elsewhere, cost, costLog,
          stockLog, soldAt, steps>>
-----------------------------------------------------------------------------
(* purchasing-accounting.ts                                                 *)

\* toDecimalPlaces and ROUND: half away from zero.
RoundDiv(a, b) == IF a >= 0 THEN (2*a + b) \div (2*b)
                            ELSE -((-2*a + b) \div (2*b))

LineVariants(p) == {p.items[i].variant : i \in DOMAIN p.items}
SumOver(f) == MapThenSumSet(LAMBDA x : f[x], DOMAIN f)
ItemsOf(p, v) == {i \in DOMAIN p.items : p.items[i].variant = v}

\* Lines of one variant are merged.
Qty(p) == [v \in LineVariants(p) |-> SumOver([i \in ItemsOf(p, v) |-> p.items[i].qty])]
Gross(p) == [v \in LineVariants(p) |->
    SumOver([i \in ItemsOf(p, v) |-> p.items[i].qty * p.items[i].unit_cost])]
Subtotal(p) == SumOver(Gross(p))

\* discount_amount, or discount_percent in hundredths of a percent.
Discount(p) ==
    IF "amount" \in DOMAIN p.discount THEN p.discount.amount
    ELSE RoundDiv(Subtotal(p) * p.discount.percent, Micro)

\* The discount by the largest remainder: each line its share rounded down, and
\* the cents left over to the lines with the largest remainders, a cent each,
\* smaller variant_id first.
Allocation(gross, subtotal, discount) ==
    LET Share(v) == IF subtotal = 0 THEN 0 ELSE (discount * gross[v]) \div subtotal
        Rest(v)  == IF subtotal = 0 THEN 0 ELSE (discount * gross[v]) % subtotal
        left     == discount - SumOver([v \in DOMAIN gross |-> Share(v)])
        Before(v) == {w \in DOMAIN gross :
                        Rest(w) > Rest(v) \/ (Rest(w) = Rest(v) /\ w < v)}
    IN [v \in DOMAIN gross |->
          Share(v) + IF Cardinality(Before(v)) < left THEN 1 ELSE 0]

\* preparePurchaseReceipt: what it works out for a paper, and its errors.
ReceiptLine(qty, gross, discount) ==
    [qty |-> qty, gross |-> gross, discount |-> discount, net |-> gross - discount,
     netUnit |-> RoundDiv((gross - discount) * Micro, qty)]
ReceiptLines(qty, gross, allocated) ==
    [v \in DOMAIN gross |-> ReceiptLine(qty[v], gross[v], allocated[v])]
PreparePurchaseReceipt(p) ==
    [subtotal |-> Subtotal(p), discount |-> Discount(p),
     lines |-> ReceiptLines(Qty(p), Gross(p), Allocation(Gross(p), Subtotal(p), Discount(p)))]
Prepared == [p \in Papers |-> PreparePurchaseReceipt(p)]
ReceiptIsValid(p, c) ==
    LET r == Prepared[p] IN
    /\ r.discount >= 0 /\ r.discount <= r.subtotal
    /\ SumOver([v \in DOMAIN r.lines |-> r.lines[v].discount]) = r.discount
    /\ c = NoCommand => p.number # NoNumber

\* A legacy line has no allocation: its credit is unit_cost times qty.
LegacyLines(p) ==
    ReceiptLines(Qty(p), Gross(p), [v \in LineVariants(p) |-> 0])

\* idempotencyKey of a receipt.
ReceiptKey(p, c) == IF c # NoCommand THEN <<"purchase-command", c>>
                    ELSE <<"purchase-invoice", p.supplier, p.number>>

\* A mutant: what earlier returns of the line credited is not taken off.
CreditForgets(l, back, credited, q) ==
    IF q = l.qty - back THEN l.net ELSE RoundDiv(l.netUnit * q, Micro)
\* calculateSupplierReturnCredit: the last units take what is left.
Credit(l, back, credited, q) ==
    LET left == l.net - credited IN
    IF q = l.qty - back THEN left ELSE Min({left, RoundDiv(l.netUnit * q, Micro)})
-----------------------------------------------------------------------------
(* record_inventory_movement and record_inventory_cost_movement             *)

\* The quantity the cost is an average over: every branch, and what is between.
Global(v) == stock[v] + elsewhere[v]

Latest(v) == costLog[v][Len(costLog[v])]
HasLedger(v) == costLog[v] # <<>>

\* The first movement of a variant with stock posts the stock it found.
Opening(v, before) ==
    IF ~HasLedger(v) /\ before > 0
    THEN <<[type |-> "opening_balance", key |-> <<"cost-auto-opening", v>>,
            delta |-> before, before |-> 0, after |-> before,
            costBefore |-> 0, costAfter |-> cost[v], value |-> before * cost[v],
            rounding |-> 0]>>
    ELSE <<>>

\* A mutant: the quantity after the movement weighs the old cost.
AverageOfAfter(v, before, delta, value) ==
    LET after == before + delta IN
    IF after <= 0 THEN cost[v]
    ELSE IF before < 0 THEN RoundDiv(value, delta)
    ELSE RoundDiv(cost[v] * after + value, after)
\* The moving average an incoming movement leads to.
MovingAverage(v, before, delta, value) ==
    LET after == before + delta IN
    IF after <= 0 THEN cost[v]
    ELSE IF before < 0 THEN RoundDiv(value, delta)
    ELSE RoundDiv(cost[v] * before + value, after)

Positive(n) == IF n > 0 THEN n ELSE 0
Movement(v, type, key, before, delta, value, next) ==
    LET valueBefore == Positive(before) * cost[v]
        valueAfter  == Positive(before + delta) * next
    IN [type |-> type, key |-> key, delta |-> delta, before |-> before,
        after |-> before + delta, costBefore |-> cost[v], costAfter |-> next,
        value |-> value, rounding |-> valueAfter - (valueBefore + value)]

\* The ledger agrees with cost_price, and the function does not raise.
CostFunctionAccepts(v, before, delta) ==
    /\ HasLedger(v) => Latest(v).costAfter = cost[v]
    /\ delta < 0 => before + delta >= 0

\* Postings of one transaction: the variants in DOMAIN move, by delta[v] at
\* value[v], to the cost next[v]; key[v] names the movement in both ledgers.
Post(type, key, delta, value, next) ==
    LET moved == DOMAIN delta IN
    /\ \A v \in moved : CostFunctionAccepts(v, Global(v), delta[v])
    /\ stock' = [v \in Variants |-> stock[v] + IF v \in moved THEN delta[v] ELSE 0]
    /\ cost' = [v \in Variants |-> IF v \in moved THEN next[v] ELSE cost[v]]
    /\ costLog' = [v \in Variants |->
         IF v \in moved
         THEN costLog[v] \o Opening(v, Global(v))
                \o <<Movement(v, type, key[v], Global(v), delta[v], value[v], next[v])>>
         ELSE costLog[v]]
    /\ stockLog' = [v \in Variants |->
         IF v \in moved THEN Append(stockLog[v], key[v]) ELSE stockLog[v]]
-----------------------------------------------------------------------------
Invoice(p, version, key, lines) ==
    [paper |-> p, version |-> version, key |-> key, lines |-> lines,
     status |-> "posted", reversal |-> NoCommand]

PurInit ==
    /\ suppliers = Suppliers
    /\ invoices = [i \in 1 .. Cardinality(LegacyPapers) |->
                     LET p == SetToSeq(LegacyPapers)[i]
                     IN Invoice(p, 1, <<"legacy", i>>, LegacyLines(p))]
    /\ returns = <<>>
    /\ stock = [v \in Variants |-> OpeningStock]
    /\ elsewhere = [v \in Variants |-> 0]
    /\ cost = [v \in Variants |-> OpeningCost]
    /\ costLog = [v \in Variants |-> <<>>]
    /\ stockLog = [v \in Variants |-> <<<<"opening", v>>>>]
    /\ soldAt = [v \in Variants |-> <<>>]
    /\ steps = 0

Within == steps < MaxSteps /\ steps' = steps + 1
-----------------------------------------------------------------------------
(* Receipts                                                                 *)

\* A mutant: only the command is looked up, not the supplier's number.
ReplayByCommand(p, c) == {i \in DOMAIN invoices : invoices[i].key = ReceiptKey(p, c)}
\* findReplay: the invoices that the command or the supplier's number names.
Replays(p, c) ==
    {i \in DOMAIN invoices :
        \/ invoices[i].key = ReceiptKey(p, c)
        \/ /\ p.number # NoNumber
           /\ invoices[i].paper.supplier = p.supplier
           /\ invoices[i].paper.number = p.number}

\* The controller's roles and branch, which the service checks again.
MayActFor(a, branch) ==
    \/ a.role \in {"owner", "warehouse_manager"}
    \/ a.role = "branch_manager" /\ a.branch = branch

\* What the lines of invoice i post to both ledgers.
PostReceipt(i, lines) ==
    LET delta == [v \in DOMAIN lines |-> lines[v].qty]
        value == [v \in DOMAIN lines |-> lines[v].net]
    IN Post("purchase_receipt", [v \in DOMAIN lines |-> <<"purchase", i, v>>],
            delta, value,
            [v \in DOMAIN lines |-> MovingAverage(v, Global(v), delta[v], value[v])])

\* receive.  A replay is answered with what is already booked, or refused when
\* its fingerprint differs; neither changes anything.
Receive(p, c) ==
    /\ Within
    /\ ReceiptIsValid(p, c)
    /\ Replays(p, c) = {}
    /\ p.supplier \in suppliers
    /\ invoices' = Append(invoices, Invoice(p, 2, ReceiptKey(p, c), Prepared[p].lines))
    /\ PostReceipt(Len(invoices) + 1, Prepared[p].lines)
    /\ UNCHANGED <<suppliers, returns, elsewhere, soldAt>>

\* The purchasing page: every click draws a new command id.
ClickReceive(p) == \E c \in Commands : Receive(p, c)
-----------------------------------------------------------------------------
(* Supplier returns                                                         *)

ReturnsOf(i, v) == {r \in DOMAIN returns : returns[r].invoice = i
                                           /\ v \in DOMAIN returns[r].qty}
ReturnedQty(i, v) == SumOver([r \in ReturnsOf(i, v) |-> returns[r].qty[v]])
ReturnedCredit(i, v) == SumOver([r \in ReturnsOf(i, v) |-> returns[r].credit[v]])

\* The guard of the UPDATE of InventoryStock; no code ever reserves stock, so
\* qty_reserved is 0.
OnHand(v, q) == stock[v] >= q

\* calculateSupplierReturnCredit refuses more than what is left of the line.
Returnable(i, v, q) == q <= invoices[i].lines[v].qty - ReturnedQty(i, v)

\* The checks of returnToSupplier before it prices the lines.  A return booked
\* under the same command is answered again.
SupplierReturnAccepted(i, q, c) ==
    /\ \A r \in DOMAIN returns : returns[r].key # c
    /\ invoices[i].status = "posted"
    /\ invoices[i].version < 2 => Discount(invoices[i].paper) = 0
    /\ DOMAIN q \subseteq DOMAIN invoices[i].lines

\* preparedItems: the credit of every line, at the price it was bought at.
SupplierReturnLines(i, q) ==
    [v \in DOMAIN q |-> Credit(invoices[i].lines[v], ReturnedQty(i, v),
                              ReturnedCredit(i, v), q[v])]

\* returnToSupplier, for the quantities q of some lines of invoice i: stock
\* leaves at the current cost, whatever is credited.
ReturnToSupplier(i, q, c) ==
    /\ Within
    /\ SupplierReturnAccepted(i, q, c)
    /\ \A v \in DOMAIN q : Returnable(i, v, q[v]) /\ OnHand(v, q[v])
    /\ returns' = Append(returns, [invoice |-> i, key |-> c, qty |-> q,
                                   credit |-> SupplierReturnLines(i, q)])
    /\ Post("supplier_return",
            [v \in DOMAIN q |-> <<"supplier-return", Len(returns) + 1, v>>],
            [v \in DOMAIN q |-> -q[v]],
            [v \in DOMAIN q |-> -q[v] * cost[v]],
            [v \in DOMAIN q |-> cost[v]])
    /\ UNCHANGED <<suppliers, invoices, elsewhere, soldAt>>

\* The invoice page: the quantities of the lines that were filled in, under a
\* new command id.
Requests(i) ==
    UNION {[S -> 1 .. 2] : S \in (SUBSET DOMAIN invoices[i].lines) \ {{}}}
ClickReturn(i) == \E q \in Requests(i), c \in Commands : ReturnToSupplier(i, q, c)
-----------------------------------------------------------------------------
(* Reversals                                                                *)

ReceiptRow(i, v) ==
    CHOOSE n \in DOMAIN costLog[v] : costLog[v][n].key = <<"purchase", i, v>>

\* A mutant: only later cost movements count as downstream activity.
NoLaterCost(i, v) ==
    \E n \in DOMAIN costLog[v] :
        /\ costLog[v][n].key = <<"purchase", i, v>> /\ n = Len(costLog[v])
\* The receipt is the last movement of the variant in both ledgers, and stock
\* and cost are what it left.
NothingDownstream(i, v) ==
    /\ \E n \in DOMAIN costLog[v] :
         /\ costLog[v][n].key = <<"purchase", i, v>> /\ n = Len(costLog[v])
         /\ Global(v) = costLog[v][n].after /\ cost[v] = costLog[v][n].costAfter
    /\ Last(stockLog[v]) = <<"purchase", i, v>>

\* What the reversal posts: the receipt's movements negated, at the cost the
\* receipt found.
PostReversal(i, lines) ==
    LET receipt == [v \in DOMAIN lines |-> costLog[v][ReceiptRow(i, v)]] IN
    Post("purchase_reversal",
         [v \in DOMAIN lines |-> <<"purchase-reversal", i, v>>],
         [v \in DOMAIN lines |-> -lines[v].qty],
         [v \in DOMAIN lines |-> -receipt[v].value],
         [v \in DOMAIN lines |-> receipt[v].costBefore])

\* reverse, of the whole invoice.  The key of a reversal is unique.
ReverseReceipt(i, c) ==
    LET lines == invoices[i].lines IN
    /\ Within
    /\ invoices[i].status = "posted"
    /\ \A j \in DOMAIN invoices : invoices[j].reversal # c
    /\ \A v \in DOMAIN lines : NothingDownstream(i, v) /\ OnHand(v, lines[v].qty)
    /\ PostReversal(i, lines)
    /\ invoices' = [invoices EXCEPT ![i].status = "reversed", ![i].reversal = c]
    /\ UNCHANGED <<suppliers, returns, elsewhere, soldAt>>
-----------------------------------------------------------------------------
(* What else moves the stock                                                *)

\* createSale: one unit leaves, below zero if need be, with no cost movement.
Sell(v) ==
    /\ Within
    /\ stock' = [stock EXCEPT ![v] = @ - 1]
    /\ stockLog' = [stockLog EXCEPT ![v] = Append(@, <<"sale", steps>>)]
    /\ soldAt' = [soldAt EXCEPT ![v] = Append(@, cost[v])]
    /\ UNCHANGED <<suppliers, invoices, returns, elsewhere, cost, costLog>>

\* createReturn: the unit comes back at the cost it was sold at.
CustomerReturn(v) ==
    /\ Within
    /\ soldAt[v] # <<>>
    /\ soldAt' = [soldAt EXCEPT ![v] = Tail(@)]
    /\ Post("customer_return", [w \in {v} |-> <<"customer-return", steps>>],
            [w \in {v} |-> 1], [w \in {v} |-> Head(soldAt[v])],
            [w \in {v} |-> MovingAverage(v, Global(v), 1, Head(soldAt[v]))])
    /\ UNCHANGED <<suppliers, invoices, returns, elsewhere>>

\* A transfer ships a unit to another branch: no cost movement, and the global
\* quantity is what it was.
Ship(v) ==
    /\ Within
    /\ OnHand(v, 1)
    /\ stock' = [stock EXCEPT ![v] = @ - 1]
    /\ elsewhere' = [elsewhere EXCEPT ![v] = @ + 1]
    /\ stockLog' = [stockLog EXCEPT ![v] = Append(@, <<"transfer_out", steps>>)]
    /\ UNCHANGED <<suppliers, invoices, returns, cost, costLog, soldAt>>
-----------------------------------------------------------------------------
(* suppliers.repository.ts                                                  *)

SaveSupplier(s) ==
    /\ Within
    /\ s \notin suppliers
    /\ suppliers' = suppliers \cup {s}
    /\ UNCHANGED <<invoices, returns, stock, elsewhere, cost, costLog, stockLog, soldAt>>

\* remove: the foreign key of PurchaseInvoice restricts it.
RemoveSupplier(s) ==
    /\ Within
    /\ s \in suppliers
    /\ \A i \in DOMAIN invoices : invoices[i].paper.supplier # s
    /\ suppliers' = suppliers \ {s}
    /\ UNCHANGED <<invoices, returns, stock, elsewhere, cost, costLog, stockLog, soldAt>>
-----------------------------------------------------------------------------
PurNext ==
    \/ \E a \in Actors :
         /\ MayActFor(a, HomeBranch)
         /\ \/ \E p \in Papers : ClickReceive(p) \/ Receive(p, NoCommand)
            \/ \E i \in DOMAIN invoices :
                 ClickReturn(i) \/ \E c \in Commands : ReverseReceipt(i, c)
    \/ \E v \in Variants : Sell(v) \/ CustomerReturn(v) \/ Ship(v)
    \/ \E s \in Suppliers : SaveSupplier(s) \/ RemoveSupplier(s)

-----------------------------------------------------------------------------
(* What it is for                                                           *)

\* A receipt is booked once: whatever is sent again under its command or under
\* the supplier's number, by a second click too, finds the first one.
ReceiptBookedOnce ==
    \A i, j \in DOMAIN invoices : i # j =>
        /\ invoices[i].key # invoices[j].key
        /\ invoices[i].paper.number # NoNumber
             => <<invoices[i].paper.supplier, invoices[i].paper.number>>
                  # <<invoices[j].paper.supplier, invoices[j].paper.number>>

\* preparePurchaseReceipt gives every line its part of the discount to within
\* a cent, no line more than it costs, and all of the discount: its own check
\* that the allocation is exact refuses no receipt (looked at after the first
\* operation: the papers stay the same).
DiscountAllocated ==
    /\ steps = 1 =>
         \A p \in Papers \ {invoices[i].paper : i \in DOMAIN invoices} :
            Prepared[p].discount \in 0 .. Prepared[p].subtotal
              => \E c \in Commands : ReceiptIsValid(p, c)
    /\ \A i \in DOMAIN invoices : invoices[i].version = 2 =>
         LET lines == invoices[i].lines
             subtotal == SumOver([v \in DOMAIN lines |-> lines[v].gross])
             discount == SumOver([v \in DOMAIN lines |-> lines[v].discount])
         IN \A v \in DOMAIN lines :
              LET off == lines[v].discount * subtotal - discount * lines[v].gross
              IN /\ lines[v].net \in 0 .. lines[v].gross
                 /\ subtotal > 0 => off < subtotal /\ -off < subtotal

\* However a line is sent back, in one return or unit by unit, the supplier's
\* credit never exceeds what the line cost, and is exactly that once all of it
\* went back.
SupplierCreditExact ==
    \A r \in DOMAIN returns : \A v \in DOMAIN returns[r].qty :
        LET i == returns[r].invoice
            l == invoices[i].lines[v] IN
        /\ ReturnedQty(i, v) <= l.qty
        /\ ReturnedCredit(i, v) \in 0 .. l.net
        /\ ReturnedQty(i, v) = l.qty => ReturnedCredit(i, v) = l.net

\* A reversed receipt leaves nothing behind: its reversal follows it directly in
\* the cost ledger, restores quantity and cost, and no unit of it was sold,
\* shipped or sent back before.
ReversalUndoesReceipt ==
    \A i \in DOMAIN invoices : invoices[i].status = "reversed" =>
        /\ \A r \in DOMAIN returns : returns[r].invoice # i
        /\ \A v \in DOMAIN invoices[i].lines :
             \E n \in DOMAIN costLog[v], m \in DOMAIN stockLog[v] :
               /\ n > 1 /\ m > 1
               /\ stockLog[v][m] = <<"purchase-reversal", i, v>>
               /\ stockLog[v][m - 1] = <<"purchase", i, v>>
               /\ costLog[v][n].key = <<"purchase-reversal", i, v>>
               /\ costLog[v][n - 1].key = <<"purchase", i, v>>
               /\ costLog[v][n].after = costLog[v][n - 1].before
               /\ costLog[v][n].costAfter = costLog[v][n - 1].costBefore
               /\ costLog[v][n].rounding = -costLog[v][n - 1].rounding

\* costReconciliation, of one variant.
Reconciled(v) == IF HasLedger(v) THEN Latest(v).costAfter = cost[v] ELSE Global(v) = 0

\* The cost ledger is a chain that ends at cost_price (costReconciliation finds
\* every variant it has a movement of reconciled), and rounding never makes or
\* loses more than half a cent per unit in stock, except where stock had been
\* sold below zero.
CostLedgerSound ==
    \A v \in Variants :
        /\ HasLedger(v) => Reconciled(v)
        /\ \A n \in DOMAIN costLog[v] :
             LET row == costLog[v][n] IN
             /\ n > 1 => row.costBefore = costLog[v][n - 1].costAfter
             /\ row.costAfter >= 0
             /\ row.before >= 0 /\ row.after >= 0 =>
                  2 * row.rounding \in -Max({row.before, row.after})
                                         .. Max({row.before, row.after})

\* To the cent: what a receipt discounts and what a supplier credits.
CentsExact == DiscountAllocated /\ SupplierCreditExact
=============================================================================
