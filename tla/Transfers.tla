------------------------------ MODULE Transfers ------------------------------
(***************************************************************************)
(* Transfers of stock between branches: the commands of                     *)
(* transfers.service.ts and the triggers that post what they do to the      *)
(* inventory ledger and to the in-transit ledger, and refuse documents that *)
(* do not add up.                                                           *)
(*                                                                         *)
(* Each command is one Serializable transaction that locks the transfer     *)
(* first, so each is one action; a transaction that fails to serialize      *)
(* changes nothing.  Any command may arrive at any time, under a new key or *)
(* again under a key already used: that is what a client that repeats or a  *)
(* network that delays its requests comes to.  A command that replayCommand *)
(* recognises, and one that is refused, change nothing either.  There is    *)
(* one line per variant (create merges the lines of a request).             *)
(***************************************************************************)
EXTENDS Integers, FiniteSets, FiniteSetsExt

CONSTANTS
    Branches, Variants,
    TransferIds,   \* transfers that may be created
    Keys,          \* idempotency keys
    MaxQty,        \* bound: the largest quantity a request names
    Orders,        \* the quantities a transfer may ask for, by variant
    OpeningStock,  \* what every branch holds of every variant at first
    MaxSold,       \* bound: units sold at the branches
    NoRoute

ASSUME TransfersAssumption ==
    /\ IsFiniteSet(Branches) /\ IsFiniteSet(Variants) /\ IsFiniteSet(TransferIds)
    /\ MaxQty \in Nat
    /\ Orders \subseteq [Variants -> 0 .. MaxQty]
    /\ \A o \in Orders : \E v \in Variants : o[v] > 0
    /\ OpeningStock \in Nat /\ MaxSold \in Nat

VARIABLES
    status,      \* Transfer.status, "none" before the transfer is created
    route,       \* from_branch_id and to_branch_id
    qty,         \* TransferItem.qty, 0 when the transfer has no such line
    line,        \* TransferItem.shipped_qty, received_qty, damaged_qty, missing_qty
    stock,       \* InventoryStock.qty_on_hand
    createKeys,  \* Transfer.idempotency_key of every transfer
    commandKeys, \* TransferCommand.idempotency_key of every command
    ledger,      \* the sum of InventoryMovement.on_hand_delta
    moved,       \* whether the stock row has a movement at all
    postings,    \* idempotency keys of InventoryMovement
    transit,     \* the sum of TransferTransitMovement.quantity_delta
    transitKeys, \* idempotency keys of TransferTransitMovement
    sold         \* history: units sold, by variant

documents == <<status, route, qty, line, createKeys, commandKeys>>
ledgers   == <<ledger, moved, postings, transit, transitKeys>>
vars      == <<documents, stock, ledgers, sold>>

Counts == [shipped : Nat, received : Nat, damaged : Nat, missing : Nat]
Blank  == [shipped |-> 0, received |-> 0, damaged |-> 0, missing |-> 0]
\* create refuses a transfer from a branch to itself.
Route  == {r \in Branches \X Branches : r[1] # r[2]}
From(t) == route[t][1]
To(t)   == route[t][2]
Lines(t) == {v \in Variants : qty[t][v] > 0}

Resolved(c) == c.received + c.damaged + c.missing
Outstanding(c) == c.shipped - c.received - c.damaged - c.missing
Total(f) == MapThenSumSet(LAMBDA v : f[v], Variants)

Init ==
    /\ status = [t \in TransferIds |-> "none"]
    /\ route = [t \in TransferIds |-> NoRoute]
    /\ qty = [t \in TransferIds |-> [v \in Variants |-> 0]]
    /\ line = [t \in TransferIds |-> [v \in Variants |-> Blank]]
    /\ stock = [b \in Branches |-> [v \in Variants |-> OpeningStock]]
    /\ createKeys = {} /\ commandKeys = {}
    /\ ledger = [b \in Branches |-> [v \in Variants |-> 0]]
    /\ moved = [b \in Branches |-> [v \in Variants |-> FALSE]]
    /\ postings = {} /\ transitKeys = {}
    /\ transit = [t \in TransferIds |-> [v \in Variants |-> 0]]
    /\ sold = [v \in Variants |-> 0]
-----------------------------------------------------------------------------
(* The triggers                                                             *)

\* record_inventory_movement: what the ledger of a stock row comes to with the
\* movement.  A row without movements first gets the opening balance the stock
\* implies, which may not be negative; the ledger must then equal the stock.
Booked(b, v, delta, after) ==
    (IF moved[b][v] THEN ledger[b][v] ELSE after - delta) + delta
MovementFits(b, v, delta, after) ==
    /\ moved[b][v] \/ after - delta >= 0
    /\ Booked(b, v, delta, after) = after

\* The movement it is asked for at branch b when line v of t becomes c.
Delta(t, v, c, b) ==
    CASE b = From(t) -> line[t][v].shipped - c.shipped
      [] b = To(t)   -> c.received - line[t][v].received
      [] OTHER       -> 0

\* The movements record_transfer_item_movements posts when the counts of line
\* v of t become c: the kind of each, and its cumulative quantity.
Grown(t, v, c) ==
    {k \in {"shipped", "received", "damaged", "missing"} : c[k] # line[t][v][k]}
Posting(t, v, c, kinds) ==
    {<<k, t, v, c[k]>> : k \in Grown(t, v, c) \cap kinds}

\* record_transfer_item_movements, which runs once per changed line when the
\* transaction commits: its own checks, and the uniqueness of what it inserts.
LineFits(t, v, c, next, stockAfter) ==
    LET old == line[t][v] IN
    /\ \A k \in DOMAIN c : c[k] >= old[k]
    /\ c.shipped > old.shipped =>
         next \in {"shipped", "partially_received", "received"}
    /\ Resolved(c) > Resolved(old) => next \in {"partially_received", "received"}
    /\ \A b \in Branches : Delta(t, v, c, b) # 0 =>
         MovementFits(b, v, Delta(t, v, c, b), stockAfter[b][v])
    /\ Posting(t, v, c, {"shipped", "received"}) \cap postings = {}
    /\ Posting(t, v, c, DOMAIN c) \cap transitKeys = {}

\* protect_transfer_posted_documents and the CHECK constraints of TransferItem.
Transition(old, next) ==
    \/ old = next
    \/ old = "pending" /\ next \in {"shipped", "cancelled"}
    \/ old = "shipped" /\ next \in {"partially_received", "received"}
    \/ old = "partially_received" /\ next = "received"

DocumentFits(t, counts, next) ==
    LET outstanding == Total([v \in Variants |-> Outstanding(counts[v])])
        resolved    == Total([v \in Variants |-> Resolved(counts[v])])
        complete    == \A v \in Variants : counts[v].shipped = qty[t][v]
    IN /\ Transition(status[t], next)
       /\ \A v \in Variants : /\ counts[v].shipped <= qty[t][v]
                              /\ Resolved(counts[v]) <= counts[v].shipped
       /\ CASE next \in {"pending", "cancelled"} -> resolved = 0 /\ outstanding = 0
            [] next = "shipped" -> complete /\ resolved = 0 /\ outstanding > 0
            [] next = "partially_received" ->
                 complete /\ resolved > 0 /\ outstanding > 0
            [] next = "received" -> complete /\ outstanding = 0

\* What the database checks of a command's writes.
DatabaseAccepts(t, counts, next, stockAfter) ==
    /\ DocumentFits(t, counts, next)
    /\ \A v \in Variants :
         counts[v] # line[t][v] => LineFits(t, v, counts[v], next, stockAfter)

\* A mutant: damaged and missing units are not posted.
TransitWithoutLosses(old, c) ==
    (c.shipped - old.shipped) - (c.received - old.received)
\* What the triggers post for them.
TransitDelta(old, c) ==
    (c.shipped - old.shipped) - (c.received - old.received)
       - (c.damaged - old.damaged) - (c.missing - old.missing)

Post(t, counts, stockAfter) ==
    /\ ledger' = [b \in Branches |-> [v \in Variants |->
                    IF Delta(t, v, counts[v], b) = 0 THEN ledger[b][v]
                    ELSE Booked(b, v, Delta(t, v, counts[v], b),
                                stockAfter[b][v])]]
    /\ moved' = [b \in Branches |-> [v \in Variants |->
                    moved[b][v] \/ Delta(t, v, counts[v], b) # 0]]
    /\ postings' = postings \cup UNION {
          Posting(t, v, counts[v], {"shipped", "received"}) : v \in Variants}
    /\ transitKeys' = transitKeys \cup UNION {
          Posting(t, v, counts[v], DOMAIN counts[v]) : v \in Variants}
    /\ transit' = [transit EXCEPT ![t] = [v \in Variants |->
                      @[v] + TransitDelta(line[t][v], counts[v])]]
-----------------------------------------------------------------------------
(* The commands                                                             *)

\* create: replayed or refused when the key created a transfer already.
Create(k, t, r, order) ==
    /\ k \notin createKeys
    /\ status[t] = "none"
    /\ status' = [status EXCEPT ![t] = "pending"]
    /\ route' = [route EXCEPT ![t] = r]
    /\ qty' = [qty EXCEPT ![t] = order]
    /\ createKeys' = createKeys \cup {k}
    /\ UNCHANGED <<line, commandKeys, stock, ledgers, sold>>

\* A mutant: the command table is not looked up.
AlwaysNew(k) == k \in Keys

\* replayCommand finds nothing under this key.  When it finds the command it
\* answers without an effect, and when it finds another one it refuses.
NotReplayed(k) == k \notin commandKeys

RecordCommand(k) == commandKeys' = commandKeys \cup {k}

\* Every line of a shipment is taken from the stock of the source branch, which
\* must cover it: sales may have taken that stock, or driven it below zero.
StockCovers(t) == \A v \in Lines(t) : stock[From(t)][v] >= qty[t][v]
MayShip(t) == status[t] = "pending" /\ StockCovers(t)
ShippedCounts(t) ==
    [v \in Variants |-> [line[t][v] EXCEPT !.shipped = qty[t][v]]]
StockShipped(t) ==
    [stock EXCEPT ![From(t)] = [v \in Variants |-> @[v] - qty[t][v]]]

Ship(k, t) ==
    /\ NotReplayed(k)
    /\ MayShip(t)
    /\ DatabaseAccepts(t, ShippedCounts(t), "shipped", StockShipped(t))
    /\ Post(t, ShippedCounts(t), StockShipped(t))
    /\ stock' = StockShipped(t)
    /\ line' = [line EXCEPT ![t] = ShippedCounts(t)]
    /\ status' = [status EXCEPT ![t] = "shipped"]
    /\ RecordCommand(k)
    /\ UNCHANGED <<route, qty, createKeys, sold>>

\* A receipt gives some lines quantities; one without lines asks for whatever
\* is outstanding on every line of the transfer.
Quantities == 0 .. MaxQty
Receipt == {q \in [received : Quantities, damaged : Quantities,
                   missing : Quantities] : Resolved(q) \in Quantities}
Everything(t) == [v \in Lines(t) |->
    [received |-> Outstanding(line[t][v]), damaged |-> 0, missing |-> 0]]
Requested(t, items) == IF DOMAIN items = {} THEN Everything(t) ELSE items

\* A mutant: what is outstanding is not looked at.
ReceiptOfSomething(t, items) ==
    \A v \in DOMAIN items : v \in Lines(t) /\ Resolved(items[v]) > 0

\* Every line of a receipt is one of the transfer's, resolves something, and no
\* more than is outstanding.
ReceiptFits(t, items) ==
    \A v \in DOMAIN items :
       /\ v \in Lines(t)
       /\ Resolved(items[v]) > 0
       /\ Resolved(items[v]) <= Outstanding(line[t][v])

MayReceive(t, items) ==
    /\ status[t] \in {"shipped", "partially_received"}
    /\ ReceiptFits(t, items)
ReceivedCounts(t, items) ==
    [v \in Variants |->
       IF v \notin DOMAIN items THEN line[t][v]
       ELSE [shipped  |-> line[t][v].shipped,
             received |-> line[t][v].received + items[v].received,
             damaged  |-> line[t][v].damaged + items[v].damaged,
             missing  |-> line[t][v].missing + items[v].missing]]

\* A mutant: damaged and missing units are put into stock.
StockResolved(t, items) ==
    [stock EXCEPT ![To(t)] = [v \in Variants |->
        @[v] + IF v \in DOMAIN items THEN Resolved(items[v]) ELSE 0]]
StockReceived(t, items) ==
    [stock EXCEPT ![To(t)] = [v \in Variants |->
        @[v] + IF v \in DOMAIN items THEN items[v].received ELSE 0]]
StatusReceived(counts) ==
    IF Total([v \in Variants |-> Outstanding(counts[v])]) = 0
    THEN "received" ELSE "partially_received"

Receive(k, t, request) ==
    LET items  == Requested(t, request)
        counts == ReceivedCounts(t, items)
        next   == StatusReceived(counts)
    IN /\ NotReplayed(k)
       /\ MayReceive(t, items)
       /\ DatabaseAccepts(t, counts, next, StockReceived(t, items))
       /\ Post(t, counts, StockReceived(t, items))
       /\ stock' = StockReceived(t, items)
       /\ line' = [line EXCEPT ![t] = counts]
       /\ status' = [status EXCEPT ![t] = next]
       /\ RecordCommand(k)
       /\ UNCHANGED <<route, qty, createKeys, sold>>

MayCancel(t) == status[t] = "pending"

Cancel(k, t) ==
    /\ NotReplayed(k)
    /\ MayCancel(t)
    /\ DatabaseAccepts(t, line[t], "cancelled", stock)
    /\ status' = [status EXCEPT ![t] = "cancelled"]
    /\ RecordCommand(k)
    /\ UNCHANGED <<route, qty, line, createKeys, stock, ledgers, sold>>

\* createSale takes a unit, below zero if need be, and posts its movement under
\* the key of its own line.
Sell(b, v) ==
    /\ Total(sold) < MaxSold
    /\ MovementFits(b, v, -1, stock[b][v] - 1)
    /\ stock' = [stock EXCEPT ![b][v] = @ - 1]
    /\ ledger' = [ledger EXCEPT ![b][v] = Booked(b, v, -1, stock[b][v] - 1)]
    /\ moved' = [moved EXCEPT ![b][v] = TRUE]
    /\ sold' = [sold EXCEPT ![v] = @ + 1]
    /\ UNCHANGED <<documents, postings, transit, transitKeys>>

Requests(t) == UNION {[S -> Receipt] : S \in SUBSET Lines(t)}

Next ==
    \/ \E k \in Keys, t \in TransferIds :
         \/ \E r \in Route, order \in Orders : Create(k, t, r, order)
         \/ Ship(k, t)
         \/ \E request \in Requests(t) : Receive(k, t, request)
         \/ Cancel(k, t)
    \/ \E b \in Branches, v \in Variants : Sell(b, v)

Spec == Init /\ [][Next]_vars
-----------------------------------------------------------------------------
(* Properties                                                               *)

Statuses == {"none", "pending", "shipped", "partially_received", "received",
             "cancelled"}

\* Type invariant: in particular no count of a line ever goes below zero, while
\* the stock, which sales may overdraw, may.
TypeOK ==
    /\ status \in [TransferIds -> Statuses]
    /\ route \in [TransferIds -> (Branches \X Branches) \cup {NoRoute}]
    /\ \A t \in TransferIds : status[t] # "none" =>
          From(t) \in Branches /\ To(t) \in Branches \ {From(t)}
    /\ qty \in [TransferIds -> [Variants -> Nat]]
    /\ line \in [TransferIds -> [Variants -> Counts]]
    /\ stock \in [Branches -> [Variants -> Int]]
    /\ createKeys \subseteq Keys /\ commandKeys \subseteq Keys
    /\ ledger \in [Branches -> [Variants -> Int]]
    /\ moved \in [Branches -> [Variants -> BOOLEAN]]
    /\ transit \in [TransferIds -> [Variants -> Int]]
    /\ sold \in [Variants -> Nat]

\* No unit appears or disappears: what the branches hold, what is on its way,
\* what arrived damaged or was lost and what was sold is what there was at
\* first, through any sequence of repeated and partial receipts.
SumOver(S, f) == MapThenSumSet(LAMBDA x : f[x], S)
Held(v) == [b \in Branches |-> stock[b][v]]
Away(v) == [t \in TransferIds |->
    Outstanding(line[t][v]) + line[t][v].damaged + line[t][v].missing]
Custody(v) ==
    SumOver(Branches, Held(v)) + SumOver(TransferIds, Away(v)) + sold[v]
       = Cardinality(Branches) * OpeningStock
UnitsConserved == \A v \in Variants : Custody(v)

\* reconcileInTransit: a line whose transit ledger is not what the line says.
InTransitMismatch(t, v) == transit[t][v] # Outstanding(line[t][v])

\* What reconcileInTransit and the inventory reconciliation look for is never
\* there: the transit ledger, posted movement by movement, equals what the
\* lines say, and the inventory ledger equals the stock.
LedgersReconcile ==
    /\ \A t \in TransferIds, v \in Variants : ~InTransitMismatch(t, v)
    /\ \A b \in Branches, v \in Variants :
          moved[b][v] => ledger[b][v] = stock[b][v]

\* Every command the service lets through is one the triggers and constraints
\* accept: none fails at commit with an exception, whatever came before.
DatabaseAgrees ==
    \A t \in TransferIds :
      /\ MayShip(t) =>
            DatabaseAccepts(t, ShippedCounts(t), "shipped", StockShipped(t))
      /\ MayCancel(t) => DatabaseAccepts(t, line[t], "cancelled", stock)
      /\ \A request \in Requests(t) :
            LET items == Requested(t, request)
                counts == ReceivedCounts(t, items)
            IN MayReceive(t, items) =>
                 DatabaseAccepts(t, counts, StatusReceived(counts),
                                 StockReceived(t, items))

\* A key that has been used never has an effect again, and a document that is
\* received or cancelled never changes again.
UsedKeysAreInert ==
    [][/\ commandKeys \subseteq commandKeys'
       /\ \A t \in TransferIds :
            /\ status[t] \in {"received", "cancelled"} =>
                 status'[t] = status[t] /\ line'[t] = line[t]
            /\ line'[t] # line[t] => commandKeys' # commandKeys]_vars
=============================================================================
