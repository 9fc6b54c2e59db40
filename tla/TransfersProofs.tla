--------------------------- MODULE TransfersProofs ---------------------------
(***************************************************************************)
(* Proofs about Transfers, for any branches, variants, transfers, keys and  *)
(* orders: the ledgers the triggers post always equal what they summarise,  *)
(* a command takes effect once, no unit appears or disappears, and the      *)
(* database refuses nothing that the service lets through.                  *)
(***************************************************************************)
EXTENDS Transfers, Sums, TLAPS

\* A transfer that has not been shipped has nothing on its lines: without this
\* the shipment, which sets shipped_qty to qty, would post less than it takes
\* from the stock.
Unshipped ==
    \A t \in TransferIds : status[t] \in {"none", "pending", "cancelled"} =>
        \A v \in Variants : line[t][v] = Blank

TransfersInv == TypeOK /\ Unshipped /\ LedgersReconcile

\* What a command hands to the database: counts for the lines of t, and stock
\* that differs only by the movements the triggers derive from those counts.
Consistent(t, counts, stockAfter) ==
    /\ counts \in [Variants -> Counts]
    /\ stockAfter \in [Branches -> [Variants -> Int]]
    /\ \A b \in Branches, v \in Variants :
          stockAfter[b][v] = stock[b][v] + Delta(t, v, counts[v], b)

\* The movements of a transfer that has a route are integers.
LEMMA DeltaIsInteger ==
    ASSUME TypeOK, NEW t \in TransferIds, status[t] # "none",
           NEW v \in Variants, NEW c \in Counts, NEW b \in Branches
    PROVE  Delta(t, v, c, b) \in Int
<1>1. line[t][v] \in Counts
  BY DEF TypeOK
<1>2. line[t][v].shipped - c.shipped \in Int /\ c.received - line[t][v].received \in Int
  BY <1>1 DEF Counts
<1> QED
  BY <1>2 DEF Delta

\* If a command's stock agrees with its counts and the database accepts it,
\* what the triggers post leaves every ledger equal to what it summarises.
LEMMA PostReconciles ==
    ASSUME TransfersInv, NEW t \in TransferIds, status[t] # "none",
           NEW counts, NEW next, NEW stockAfter,
           Consistent(t, counts, stockAfter),
           DatabaseAccepts(t, counts, next, stockAfter),
           Post(t, counts, stockAfter),
           stock' = stockAfter,
           line' = [line EXCEPT ![t] = counts]
    PROVE  /\ LedgersReconcile'
           /\ ledger' \in [Branches -> [Variants -> Int]]
           /\ moved' \in [Branches -> [Variants -> BOOLEAN]]
           /\ transit' \in [TransferIds -> [Variants -> Int]]
<1> USE DEF TransfersInv
<1> DEFINE D(b, v) == Delta(t, v, counts[v], b)
<1>1. \A b \in Branches, v \in Variants : D(b, v) \in Int
  BY DeltaIsInteger DEF Consistent
<1>2. \A b \in Branches, v \in Variants :
         D(b, v) # 0 => Booked(b, v, D(b, v), stockAfter[b][v]) = stockAfter[b][v]
  <2>1. SUFFICES ASSUME NEW b \in Branches, NEW v \in Variants, D(b, v) # 0
                 PROVE  Booked(b, v, D(b, v), stockAfter[b][v]) = stockAfter[b][v]
    OBVIOUS
  <2>2. counts[v] # line[t][v]
    <3>1. line[t][v] \in Counts
      BY DEF TypeOK
    <3>2. counts[v] = line[t][v] => D(b, v) = 0
      BY <3>1 DEF Delta, Counts
    <3> QED
      BY <3>2, <2>1
  <2>3. LineFits(t, v, counts[v], next, stockAfter)
    BY <2>2 DEF DatabaseAccepts
  <2> QED
    BY <2>3, <2>1 DEF LineFits, MovementFits
<1>3. ledger' = [b \in Branches |-> [v \in Variants |->
                   IF D(b, v) = 0 THEN ledger[b][v] ELSE stockAfter[b][v]]]
  BY <1>2 DEF Post
<1>4. moved' = [b \in Branches |-> [v \in Variants |-> moved[b][v] \/ D(b, v) # 0]]
  BY DEF Post
<1>5. \A b \in Branches, v \in Variants : moved'[b][v] => ledger'[b][v] = stock'[b][v]
  <2> SUFFICES ASSUME NEW b \in Branches, NEW v \in Variants, moved'[b][v]
               PROVE  ledger'[b][v] = stock'[b][v]
    OBVIOUS
  <2>1. CASE D(b, v) # 0
    BY <2>1, <1>3
  <2>2. CASE D(b, v) = 0
    <3>1. moved[b][v]
      BY <2>2, <1>4
    <3>2. stockAfter[b][v] = stock[b][v]
      BY <2>2 DEF Consistent, TypeOK
    <3> QED
      BY <3>1, <3>2, <2>2, <1>3 DEF LedgersReconcile, InTransitMismatch
  <2> QED
    BY <2>1, <2>2
<1>6. \A u \in TransferIds, v \in Variants :
         transit'[u][v] \in Int /\ transit'[u][v] = Outstanding(line'[u][v])
  <2> SUFFICES ASSUME NEW u \in TransferIds, NEW v \in Variants
               PROVE  transit'[u][v] \in Int /\ transit'[u][v] = Outstanding(line'[u][v])
    OBVIOUS
  <2>1. transit[u][v] = Outstanding(line[u][v]) /\ transit[u][v] \in Int
    BY DEF LedgersReconcile, InTransitMismatch, TypeOK
  <2>2. CASE u = t
    <3>1. transit'[t][v] = transit[t][v] + TransitDelta(line[t][v], counts[v])
      BY DEF Post, TypeOK
    <3>2. line'[t][v] = counts[v]
      BY DEF TypeOK
    <3>3. line[t][v] \in Counts /\ counts[v] \in Counts
      BY DEF TypeOK, Consistent
    <3> QED
      BY <3>1, <3>2, <3>3, <2>1, <2>2 DEF TransitDelta, Outstanding, Counts
  <2>3. CASE u # t
    BY <2>1, <2>3 DEF Post, TypeOK
  <2> QED
    BY <2>2, <2>3
<1>7. transit' \in [TransferIds -> [Variants -> Int]]
  <2>1. transit' = [u \in TransferIds |-> IF u = t
              THEN [v \in Variants |-> transit[t][v] + TransitDelta(line[t][v], counts[v])]
              ELSE transit[u]]
    BY DEF Post, TypeOK
  <2>2. \A v \in Variants : transit[t][v] + TransitDelta(line[t][v], counts[v]) \in Int
    BY <1>6, <2>1
  <2> QED
    BY <2>1, <2>2 DEF TypeOK
<1>8. ledger' \in [Branches -> [Variants -> Int]]
  BY <1>3 DEF Consistent, TypeOK
<1>9. moved' \in [Branches -> [Variants -> BOOLEAN]]
  BY <1>4 DEF TypeOK
<1> QED
  BY <1>5, <1>6, <1>7, <1>8, <1>9 DEF LedgersReconcile, InTransitMismatch

\* A shipment takes from the source what its counts say it ships.
LEMMA ShipmentIsConsistent ==
    ASSUME TransfersInv, NEW t \in TransferIds, MayShip(t)
    PROVE  Consistent(t, ShippedCounts(t), StockShipped(t))
<1>1. /\ From(t) \in Branches /\ To(t) \in Branches \ {From(t)}
      /\ qty[t] \in [Variants -> Nat]
      /\ \A v \in Variants : line[t][v] = Blank
  BY DEF MayShip, TransfersInv, TypeOK, Unshipped
<1>2. ASSUME NEW v \in Variants
      PROVE  /\ ShippedCounts(t)[v] \in Counts
             /\ ShippedCounts(t)[v].shipped = qty[t][v]
             /\ ShippedCounts(t)[v].received = 0
  <2>1. ShippedCounts(t)[v] = [Blank EXCEPT !.shipped = qty[t][v]]
    BY <1>1 DEF ShippedCounts
  <2>2. qty[t][v] \in Nat
    BY <1>1
  <2> QED
    BY <2>1, <2>2 DEF Blank, Counts
<1>3. ShippedCounts(t) \in [Variants -> Counts]
  BY <1>2 DEF ShippedCounts
<1>4. \A b \in Branches, v \in Variants :
         StockShipped(t)[b][v] = IF b = From(t) THEN stock[b][v] - qty[t][v] ELSE stock[b][v]
  BY <1>1 DEF StockShipped, TransfersInv, TypeOK
<1>5. StockShipped(t) \in [Branches -> [Variants -> Int]]
  BY <1>1 DEF StockShipped, TransfersInv, TypeOK
<1>6. ASSUME NEW b \in Branches, NEW v \in Variants
      PROVE  StockShipped(t)[b][v] = stock[b][v] + Delta(t, v, ShippedCounts(t)[v], b)
  <2>1. stock[b][v] \in Int /\ qty[t][v] \in Nat
    BY <1>1 DEF TransfersInv, TypeOK
  <2>2. line[t][v].shipped = 0 /\ line[t][v].received = 0
    BY <1>1 DEF Blank
  <2>3. ShippedCounts(t)[v].shipped = qty[t][v] /\ ShippedCounts(t)[v].received = 0
    BY <1>2
  <2>4. Delta(t, v, ShippedCounts(t)[v], b) = IF b = From(t) THEN 0 - qty[t][v] ELSE 0
    BY <2>2, <2>3, <1>1 DEF Delta
  <2> QED
    BY <2>1, <2>4, <1>4
<1> QED
  BY <1>3, <1>5, <1>6 DEF Consistent

\* The quantities a receipt comes to are naturals, whether the request names
\* them or leaves them to what is outstanding.
LEMMA ItemsAreNaturals ==
    ASSUME TransfersInv, NEW t \in TransferIds, NEW request \in Requests(t),
           MayReceive(t, Requested(t, request)),
           NEW v \in DOMAIN Requested(t, request)
    PROVE  /\ v \in Variants
           /\ Requested(t, request)[v] \in [received : Nat, damaged : Nat, missing : Nat]
<1>1. v \in Variants
  BY DEF MayReceive, ReceiptFits, Lines
<1>2. CASE DOMAIN request = {}
  <2>1. Requested(t, request)[v] =
           [received |-> Outstanding(line[t][v]), damaged |-> 0, missing |-> 0]
    BY <1>2 DEF Requested, Everything
  <2>2. Resolved(Requested(t, request)[v]) > 0
    BY DEF MayReceive, ReceiptFits
  <2>3. Outstanding(line[t][v]) \in Int
    <3>1. line[t][v] \in Counts
      BY <1>1 DEF TransfersInv, TypeOK
    <3> QED
      BY <3>1 DEF Outstanding, Counts
  <2>4. Outstanding(line[t][v]) \in Nat
    BY <2>1, <2>2, <2>3 DEF Resolved
  <2> QED
    BY <1>1, <2>1, <2>4
<1>3. CASE DOMAIN request # {}
  <2>1. Requested(t, request) = request
    BY <1>3 DEF Requested
  <2>2. request[v] \in Receipt
    BY <2>1 DEF Requests
  <2> QED
    BY <1>1, <2>1, <2>2, TransfersAssumption DEF Receipt, Quantities
<1> QED
  BY <1>2, <1>3

\* A receipt adds to the destination what its counts say it received.
LEMMA ReceiptIsConsistent ==
    ASSUME TransfersInv, NEW t \in TransferIds, NEW request \in Requests(t),
           MayReceive(t, Requested(t, request))
    PROVE  Consistent(t, ReceivedCounts(t, Requested(t, request)),
                      StockReceived(t, Requested(t, request)))
<1> DEFINE items == Requested(t, request)
           counts == ReceivedCounts(t, items)
           after == StockReceived(t, items)
<1>1. /\ From(t) \in Branches /\ To(t) \in Branches \ {From(t)}
      /\ \A v \in Variants : line[t][v] \in Counts
  BY DEF MayReceive, TransfersInv, TypeOK
<1>2. \A v \in DOMAIN items :
         items[v] \in [received : Nat, damaged : Nat, missing : Nat]
  BY ItemsAreNaturals
<1> HIDE DEF items
<1>3. \A v \in Variants : counts[v] \in Counts
  BY <1>1, <1>2 DEF ReceivedCounts, Counts
<1>4. \A v \in Variants :
         /\ counts[v].shipped = line[t][v].shipped
         /\ counts[v].received = line[t][v].received
               + IF v \in DOMAIN items THEN items[v].received ELSE 0
  BY <1>1, <1>2 DEF ReceivedCounts, Counts
<1>5. \A b \in Branches, v \in Variants :
         after[b][v] = stock[b][v]
            + IF b = To(t) /\ v \in DOMAIN items THEN items[v].received ELSE 0
  BY <1>1, <1>2 DEF StockReceived, TransfersInv, TypeOK
<1>6. after \in [Branches -> [Variants -> Int]]
  BY <1>1, <1>2 DEF StockReceived, TransfersInv, TypeOK
<1>7. counts \in [Variants -> Counts]
  BY <1>3 DEF ReceivedCounts
<1>8. ASSUME NEW b \in Branches, NEW v \in Variants
      PROVE  after[b][v] = stock[b][v] + Delta(t, v, counts[v], b)
  <2>1. line[t][v].shipped \in Nat /\ line[t][v].received \in Nat
    BY <1>1 DEF Counts
  <2>2. Delta(t, v, counts[v], b) =
           IF b = To(t) /\ v \in DOMAIN items THEN items[v].received ELSE 0
    BY <2>1, <1>1, <1>2, <1>4 DEF Delta
  <2> QED
    BY <2>2, <1>5
<1> QED
  BY <1>6, <1>7, <1>8 DEF Consistent, items

-----------------------------------------------------------------------------
\* Before any command every line is blank and no movement has been posted.
LEMMA InitTransfersInv == Init => TransfersInv
<1> SUFFICES ASSUME Init PROVE TransfersInv
  OBVIOUS
<1>1. Blank \in Counts /\ Outstanding(Blank) = 0
  BY DEF Blank, Counts, Outstanding
<1>2. TypeOK
  BY <1>1, TransfersAssumption DEF Init, TypeOK, Statuses
<1>3. Unshipped
  BY DEF Init, Unshipped
<1>4. LedgersReconcile
  BY <1>1 DEF Init, LedgersReconcile, InTransitMismatch
<1> QED
  BY <1>2, <1>3, <1>4 DEF TransfersInv

\* Every command, and a sale, preserves the invariant.
LEMMA NextTransfersInv == TransfersInv /\ [Next]_vars => TransfersInv'
<1> SUFFICES ASSUME TransfersInv, [Next]_vars PROVE TransfersInv'
  OBVIOUS
<1>1. ASSUME NEW k \in Keys, NEW t \in TransferIds, NEW r \in Route,
             NEW order \in Orders, Create(k, t, r, order)
      PROVE  TransfersInv'
  <2>1. order \in [Variants -> Nat]
    BY TransfersAssumption
  <2>2. r[1] \in Branches /\ r[2] \in Branches \ {r[1]}
    BY DEF Route
  <2>3. TypeOK'
    <3>1. \A u \in TransferIds : status'[u] # "none" =>
             From(u)' \in Branches /\ To(u)' \in Branches \ {From(u)'}
      <4> SUFFICES ASSUME NEW u \in TransferIds, status'[u] # "none",
                          route'[u] = IF u = t THEN r ELSE route[u]
                   PROVE  From(u)' \in Branches /\ To(u)' \in Branches \ {From(u)'}
        BY <1>1 DEF Create, TransfersInv, TypeOK
      <4> QED
        BY <1>1, <2>2 DEF Create, TransfersInv, TypeOK, From, To
    <3>2. route' \in [TransferIds -> (Branches \X Branches) \cup {NoRoute}]
      BY <1>1 DEF Create, TransfersInv, TypeOK, Route
    <3> QED
      BY <1>1, <2>1, <3>1, <3>2 DEF Create, TransfersInv, TypeOK, Statuses, ledgers
  <2>4. Unshipped'
    BY <1>1 DEF Create, TransfersInv, TypeOK, Unshipped
  <2>5. LedgersReconcile'
    BY <1>1 DEF Create, TransfersInv, LedgersReconcile, InTransitMismatch, ledgers
  <2> QED
    BY <2>3, <2>4, <2>5 DEF TransfersInv
<1>2. ASSUME NEW k \in Keys, NEW t \in TransferIds, Ship(k, t)
      PROVE  TransfersInv'
  <2>1. Consistent(t, ShippedCounts(t), StockShipped(t))
    BY <1>2, ShipmentIsConsistent DEF Ship
  <2>2. status[t] # "none"
    BY <1>2 DEF Ship, MayShip
  <2>3. /\ LedgersReconcile'
        /\ ledger' \in [Branches -> [Variants -> Int]]
        /\ moved' \in [Branches -> [Variants -> BOOLEAN]]
        /\ transit' \in [TransferIds -> [Variants -> Int]]
    BY <1>2, <2>1, <2>2, PostReconciles DEF Ship
  <2>4. TypeOK'
    <3>1. line' \in [TransferIds -> [Variants -> Counts]]
      BY <1>2, <2>1 DEF Ship, Consistent, TransfersInv, TypeOK
    <3>2. stock' \in [Branches -> [Variants -> Int]]
      BY <1>2, <2>1 DEF Ship, Consistent
    <3>3. \A u \in TransferIds : status'[u] # "none" => status[u] # "none"
      BY <1>2, <2>2 DEF Ship, TransfersInv, TypeOK
    <3> QED
      BY <1>2, <2>3, <3>1, <3>2, <3>3
      DEF Ship, TransfersInv, TypeOK, Statuses, RecordCommand, From, To
  <2>5. Unshipped'
    BY <1>2 DEF Ship, TransfersInv, TypeOK, Unshipped
  <2> QED
    BY <2>3, <2>4, <2>5 DEF TransfersInv
<1>3. ASSUME NEW k \in Keys, NEW t \in TransferIds, NEW request \in Requests(t),
             Receive(k, t, request)
      PROVE  TransfersInv'
  <2> DEFINE items == Requested(t, request)
             counts == ReceivedCounts(t, items)
             next == StatusReceived(counts)
             after == StockReceived(t, items)
  <2>1. /\ MayReceive(t, items)
        /\ DatabaseAccepts(t, counts, next, after)
        /\ Post(t, counts, after)
        /\ stock' = after
        /\ line' = [line EXCEPT ![t] = counts]
        /\ status' = [status EXCEPT ![t] = next]
        /\ commandKeys' = commandKeys \cup {k}
        /\ UNCHANGED <<route, qty, createKeys, sold>>
    BY <1>3 DEF Receive, RecordCommand
  <2>2. Consistent(t, counts, after)
    BY <2>1, ReceiptIsConsistent
  <2>3. next \in {"received", "partially_received"}
    BY DEF StatusReceived
  <2> HIDE DEF items, counts, next, after
  <2>4. status[t] # "none"
    BY <2>1 DEF MayReceive
  <2>5. /\ LedgersReconcile'
        /\ ledger' \in [Branches -> [Variants -> Int]]
        /\ moved' \in [Branches -> [Variants -> BOOLEAN]]
        /\ transit' \in [TransferIds -> [Variants -> Int]]
    BY <2>1, <2>2, <2>4, PostReconciles
  <2>6. TypeOK'
    <3>1. line' \in [TransferIds -> [Variants -> Counts]]
      BY <2>1, <2>2 DEF Consistent, TransfersInv, TypeOK
    <3>2. stock' \in [Branches -> [Variants -> Int]]
      BY <2>1, <2>2 DEF Consistent
    <3>3. \A u \in TransferIds : status'[u] # "none" => status[u] # "none"
      BY <2>1, <2>4 DEF TransfersInv, TypeOK
    <3> QED
      BY <2>1, <2>3, <2>5, <3>1, <3>2, <3>3
      DEF TransfersInv, TypeOK, Statuses, From, To
  <2>7. Unshipped'
    BY <2>1, <2>3 DEF TransfersInv, TypeOK, Unshipped
  <2> QED
    BY <2>5, <2>6, <2>7 DEF TransfersInv
<1>4. ASSUME NEW k \in Keys, NEW t \in TransferIds, Cancel(k, t)
      PROVE  TransfersInv'
  <2>1. TypeOK'
    BY <1>4 DEF Cancel, MayCancel, TransfersInv, TypeOK, Statuses, RecordCommand,
                From, To, ledgers
  <2>2. Unshipped'
    BY <1>4 DEF Cancel, MayCancel, TransfersInv, TypeOK, Unshipped
  <2>3. LedgersReconcile'
    BY <1>4 DEF Cancel, TransfersInv, LedgersReconcile, InTransitMismatch, ledgers
  <2> QED
    BY <2>1, <2>2, <2>3 DEF TransfersInv
<1>5. ASSUME NEW b \in Branches, NEW v \in Variants, Sell(b, v)
      PROVE  TransfersInv'
  <2>1. stock[b][v] \in Int /\ Booked(b, v, -1, stock[b][v] - 1) = stock[b][v] - 1
    BY <1>5 DEF Sell, MovementFits, TransfersInv, TypeOK
  <2>2. TypeOK'
    <3>1. ledger' \in [Branches -> [Variants -> Int]]
      BY <1>5, <2>1 DEF Sell, TransfersInv, TypeOK
    <3>2. moved' \in [Branches -> [Variants -> BOOLEAN]]
      BY <1>5 DEF Sell, TransfersInv, TypeOK
    <3>3. stock' \in [Branches -> [Variants -> Int]]
      BY <1>5, <2>1 DEF Sell, TransfersInv, TypeOK
    <3>4. sold' \in [Variants -> Nat]
      BY <1>5 DEF Sell, TransfersInv, TypeOK
    <3> QED
      BY <1>5, <3>1, <3>2, <3>3, <3>4
      DEF Sell, TransfersInv, TypeOK, documents, From, To
  <2>3. Unshipped'
    BY <1>5 DEF Sell, TransfersInv, Unshipped, documents
  <2>4. LedgersReconcile'
    <3>1. \A t \in TransferIds, w \in Variants :
             transit'[t][w] = Outstanding(line'[t][w])
      BY <1>5 DEF Sell, TransfersInv, LedgersReconcile, InTransitMismatch, documents
    <3>2. \A c \in Branches, w \in Variants :
             moved'[c][w] => ledger'[c][w] = stock'[c][w]
      BY <1>5, <2>1 DEF Sell, TransfersInv, TypeOK, LedgersReconcile, InTransitMismatch
    <3> QED
      BY <3>1, <3>2 DEF LedgersReconcile, InTransitMismatch
  <2> QED
    BY <2>2, <2>3, <2>4 DEF TransfersInv
<1>6. CASE UNCHANGED vars
  <2>1. TypeOK'
    BY <1>6 DEF vars, documents, ledgers, TransfersInv, TypeOK, From, To
  <2> QED
    BY <1>6, <2>1 DEF vars, documents, ledgers, TransfersInv, Unshipped, LedgersReconcile, InTransitMismatch
<1> QED
  BY <1>1, <1>2, <1>3, <1>4, <1>5, <1>6 DEF Next

\* The invariant holds throughout.
THEOREM TransfersInvariance == Spec => []TransfersInv
BY InitTransfersInv, NextTransfersInv, PTL DEF Spec

\* No count of a transfer line is ever negative, and a transfer's branches differ.
THEOREM TransfersTypeCorrect == Spec => []TypeOK
<1>1. TransfersInv => TypeOK
  BY DEF TransfersInv
<1> QED
  BY <1>1, TransfersInvariance, PTL

\* reconcileInTransit and the stock reconciliation never find a mismatch,
\* whatever commands and sales come in whatever order.
THEOREM LedgersAlwaysReconcile == Spec => []LedgersReconcile
<1>1. TransfersInv => LedgersReconcile
  BY DEF TransfersInv
<1> QED
  BY <1>1, TransfersInvariance, PTL

\* A command takes effect under a new key only, and a transfer that is received
\* or cancelled never changes again.
THEOREM KeysAreInert == Spec => UsedKeysAreInert
<1> DEFINE Step ==
      /\ commandKeys \subseteq commandKeys'
      /\ \A t \in TransferIds :
            /\ status[t] \in {"received", "cancelled"} =>
                 status'[t] = status[t] /\ line'[t] = line[t]
            /\ line'[t] # line[t] => commandKeys' # commandKeys
<1>1. ASSUME TypeOK, [Next]_vars PROVE [Step]_vars
  <2> SUFFICES ASSUME Next PROVE Step
    BY <1>1
  <2>1. ASSUME NEW k \in Keys, NEW t \in TransferIds, NEW r \in Route,
               NEW order \in Orders, Create(k, t, r, order)
        PROVE  Step
    BY <2>1 DEF Create, TypeOK
  <2>2. ASSUME NEW k \in Keys, NEW t \in TransferIds, Ship(k, t)
        PROVE  Step
    BY <2>2 DEF Ship, MayShip, NotReplayed, RecordCommand, TypeOK
  <2>3. ASSUME NEW k \in Keys, NEW t \in TransferIds, NEW request \in Requests(t),
               Receive(k, t, request)
        PROVE  Step
    BY <2>3 DEF Receive, MayReceive, NotReplayed, RecordCommand, TypeOK
  <2>4. ASSUME NEW k \in Keys, NEW t \in TransferIds, Cancel(k, t)
        PROVE  Step
    BY <2>4 DEF Cancel, MayCancel, NotReplayed, RecordCommand, TypeOK
  <2>5. ASSUME NEW b \in Branches, NEW v \in Variants, Sell(b, v)
        PROVE  Step
    BY <2>5 DEF Sell, documents
  <2> QED
    BY <2>1, <2>2, <2>3, <2>4, <2>5 DEF Next
<1> QED
  BY <1>1, TransfersTypeCorrect, PTL DEF Spec, UsedKeysAreInert
-----------------------------------------------------------------------------
(* Conservation of units                                                    *)

\* Custody is a sum over the branches and one over the transfers.
LEMMA CustodyIs ==
    ASSUME NEW v \in Variants
    PROVE  Custody(v) <=> SumOf(Held(v), Branches) + SumOf(Away(v), TransferIds) + sold[v]
                            = Cardinality(Branches) * OpeningStock
BY DEF Custody, SumOver, SumOf

\* The same after a step.
LEMMA CustodyNext ==
    ASSUME NEW v \in Variants
    PROVE  Custody(v)' <=>
             SumOf(Held(v)', Branches) + SumOf(Away(v)', TransferIds) + sold'[v]
                = Cardinality(Branches) * OpeningStock
<1>1. Custody(v) <=> SumOf(Held(v), Branches) + SumOf(Away(v), TransferIds) + sold[v]
                            = Cardinality(Branches) * OpeningStock
  BY CustodyIs
<1>2. (Custody(v) <=> SumOf(Held(v), Branches) + SumOf(Away(v), TransferIds) + sold[v]
                            = Cardinality(Branches) * OpeningStock)'
  BY <1>1, PTL
<1> QED
  BY <1>2

\* The terms of those sums: a transfer holds what was shipped and not received.
LEMMA CustodyTerms ==
    ASSUME TypeOK, NEW v \in Variants
    PROVE  /\ \A b \in Branches : Held(v)[b] = stock[b][v] /\ Held(v)[b] \in Int
           /\ \A t \in TransferIds :
                 /\ Away(v)[t] = line[t][v].shipped - line[t][v].received
                 /\ Away(v)[t] \in Int
           /\ sold[v] \in Int
<1>1. \A b \in Branches : Held(v)[b] = stock[b][v] /\ Held(v)[b] \in Int
  BY DEF Held, TypeOK
<1>2. ASSUME NEW t \in TransferIds
      PROVE  /\ Away(v)[t] = line[t][v].shipped - line[t][v].received
             /\ Away(v)[t] \in Int
  <2>1. line[t][v] \in Counts
    BY DEF TypeOK
  <2>2. Away(v)[t] = Outstanding(line[t][v]) + line[t][v].damaged + line[t][v].missing
    BY DEF Away
  <2> QED
    BY <2>1, <2>2 DEF Counts, Outstanding
<1> QED
  BY <1>1, <1>2 DEF TypeOK

\* The same after a step.
LEMMA CustodyTermsNext ==
    ASSUME TypeOK', NEW v \in Variants
    PROVE  /\ \A b \in Branches : Held(v)'[b] = stock'[b][v] /\ Held(v)'[b] \in Int
           /\ \A t \in TransferIds :
                 /\ Away(v)'[t] = line'[t][v].shipped - line'[t][v].received
                 /\ Away(v)'[t] \in Int
           /\ sold'[v] \in Int
<1>1. \A b \in Branches : Held(v)'[b] = stock'[b][v] /\ Held(v)'[b] \in Int
  BY DEF Held, TypeOK
<1>2. ASSUME NEW t \in TransferIds
      PROVE  /\ Away(v)'[t] = line'[t][v].shipped - line'[t][v].received
             /\ Away(v)'[t] \in Int
  <2>1. line'[t][v] \in Counts
    BY DEF TypeOK
  <2>2. Away(v)'[t] = Outstanding(line'[t][v]) + line'[t][v].damaged + line'[t][v].missing
    BY DEF Away, Outstanding
  <2> QED
    BY <2>1, <2>2 DEF Counts, Outstanding
<1> QED
  BY <1>1, <1>2 DEF TypeOK

\* What a command takes from the source or adds to the destination it adds to or
\* takes from what is on the way.
LEMMA CommandConserves ==
    ASSUME TypeOK, TypeOK', UnitsConserved,
           NEW t \in TransferIds, status[t] # "none",
           NEW counts, NEW after, Consistent(t, counts, after),
           stock' = after, line' = [line EXCEPT ![t] = counts], sold' = sold
    PROVE  UnitsConserved'
<1>1. SUFFICES ASSUME NEW v \in Variants PROVE Custody(v)'
  BY DEF UnitsConserved
<1>2. From(t) \in Branches /\ To(t) \in Branches \ {From(t)}
  BY DEF TypeOK
<1>3. IsFiniteSet(Branches) /\ IsFiniteSet(TransferIds)
  BY TransfersAssumption
<1>4. PICK f, g, a, c : f = Held(v) /\ g = Held(v)' /\ a = Away(v) /\ c = Away(v)'
  OBVIOUS
<1>5. /\ \A b \in Branches : f[b] \in Int /\ g[b] \in Int
      /\ \A u \in TransferIds : a[u] \in Int /\ c[u] \in Int
      /\ sold[v] \in Int
  BY <1>4, CustodyTerms, CustodyTermsNext
<1>6. line'[t][v] = counts[v] /\ \A u \in TransferIds \ {t} : line'[u] = line[u]
  BY DEF TypeOK
<1>7. line[t][v] \in Counts /\ counts[v] \in Counts
  BY DEF TypeOK, Consistent
<1>8. /\ g[From(t)] = f[From(t)] + (line[t][v].shipped - counts[v].shipped)
      /\ g[To(t)] = f[To(t)] + (counts[v].received - line[t][v].received)
      /\ \A b \in Branches \ {From(t), To(t)} : f[b] = g[b]
  <2>1. \A b \in Branches : g[b] = f[b] + Delta(t, v, counts[v], b)
    BY <1>4, CustodyTerms, CustodyTermsNext DEF Consistent
  <2>2. /\ Delta(t, v, counts[v], From(t)) = line[t][v].shipped - counts[v].shipped
        /\ Delta(t, v, counts[v], To(t)) = counts[v].received - line[t][v].received
        /\ \A b \in Branches \ {From(t), To(t)} : Delta(t, v, counts[v], b) = 0
    BY <1>2 DEF Delta
  <2> QED
    BY <1>2, <1>5, <2>1, <2>2
<1>9. /\ a[t] = line[t][v].shipped - line[t][v].received
      /\ c[t] = counts[v].shipped - counts[v].received
      /\ \A u \in TransferIds \ {t} : a[u] = c[u]
  BY <1>4, <1>6, CustodyTerms, CustodyTermsNext
<1>10. SumOf(g, Branches) = SumOf(f, Branches)
          + (g[From(t)] - f[From(t)]) + (g[To(t)] - f[To(t)])
  <2>1. PICK x, y : x = From(t) /\ y = To(t)
    OBVIOUS
  <2>2. x \in Branches /\ y \in Branches \ {x}
    BY <1>2, <2>1
  <2>3. /\ \A z \in Branches : f[z] \in Int /\ g[z] \in Int
        /\ \A z \in Branches \ {x, y} : f[z] = g[z]
    BY <1>5, <1>8, <2>1
  <2>4. SumOf(g, Branches) = SumOf(f, Branches) + (g[x] - f[x]) + (g[y] - f[y])
    BY <1>3, <2>2, <2>3, SumChangeTwo
  <2> QED
    BY <2>1, <2>4
<1>11. SumOf(c, TransferIds) = SumOf(a, TransferIds) + c[t] - a[t]
  BY <1>3, <1>5, <1>9, SumChange
<1>12. SumOf(f, Branches) \in Int /\ SumOf(a, TransferIds) \in Int
  BY <1>3, <1>5, SumType
<1>13. PICK p, q : p = SumOf(f, Branches) /\ q = SumOf(a, TransferIds)
  OBVIOUS
<1>14. PICK w, x, y, z : /\ w = line[t][v].shipped /\ x = line[t][v].received
                         /\ y = counts[v].shipped /\ z = counts[v].received
  OBVIOUS
<1>15. w \in Nat /\ x \in Nat /\ y \in Nat /\ z \in Nat /\ p \in Int /\ q \in Int
  BY <1>7, <1>12, <1>13, <1>14 DEF Counts
<1>16. SumOf(g, Branches) = p + (w - y) + (z - x)
  <2>1. g[From(t)] - f[From(t)] = w - y /\ g[To(t)] - f[To(t)] = z - x
    BY <1>2, <1>5, <1>8, <1>14, <1>15
  <2> QED
    BY <1>10, <1>13, <2>1
<1>17. SumOf(c, TransferIds) = q + (y - z) - (w - x)
  BY <1>9, <1>11, <1>13, <1>14
<1>18. p + q + sold[v] = Cardinality(Branches) * OpeningStock
  BY <1>4, <1>13, CustodyIs DEF UnitsConserved
<1>19. (p + (w - y) + (z - x)) + (q + (y - z) - (w - x)) + sold[v] = p + q + sold[v]
  BY <1>5, <1>15
<1>20. SumOf(g, Branches) + SumOf(c, TransferIds) + sold'[v] = Cardinality(Branches) * OpeningStock
  BY <1>16, <1>17, <1>18, <1>19
<1> QED
  BY <1>4, <1>20, CustodyNext

\* A sale takes one unit from one branch and counts it.
LEMMA SaleConserves ==
    ASSUME TypeOK, TypeOK', UnitsConserved, NEW b \in Branches, NEW w \in Variants, Sell(b, w)
    PROVE  UnitsConserved'
<1>1. SUFFICES ASSUME NEW v \in Variants PROVE Custody(v)'
  BY DEF UnitsConserved
<1>2. IsFiniteSet(Branches) /\ IsFiniteSet(TransferIds)
  BY TransfersAssumption
<1>3. PICK f, g, a, c : f = Held(v) /\ g = Held(v)' /\ a = Away(v) /\ c = Away(v)'
  OBVIOUS
<1>4. /\ \A x \in Branches : f[x] = stock[x][v] /\ f[x] \in Int
      /\ \A x \in Branches : g[x] = stock'[x][v] /\ g[x] \in Int
      /\ sold[v] \in Int
  BY <1>3, CustodyTerms, CustodyTermsNext
<1>5. line' = line /\ stock' = [stock EXCEPT ![b][w] = @ - 1]
      /\ sold' = [sold EXCEPT ![w] = @ + 1]
  BY DEF Sell, documents
<1>6. c = a
  BY <1>3, <1>5 DEF Away
<1>7. SumOf(f, Branches) \in Int
  BY <1>2, <1>4, SumType
<1>8. SumOf(a, TransferIds) \in Int
  BY <1>2, <1>3, CustodyTerms, SumType
<1>9. SumOf(f, Branches) + SumOf(a, TransferIds) + sold[v] = Cardinality(Branches) * OpeningStock
  BY <1>3, CustodyIs DEF UnitsConserved
<1>10. SumOf(g, Branches) + sold'[v] = SumOf(f, Branches) + sold[v]
  <2>1. CASE v = w
    <3>1. g[b] = f[b] - 1 /\ \A x \in Branches \ {b} : f[x] = g[x]
      BY <1>4, <1>5, <2>1 DEF TypeOK
    <3>2. sold'[v] = sold[v] + 1
      BY <1>5, <2>1 DEF TypeOK
    <3>3. SumOf(g, Branches) = SumOf(f, Branches) + g[b] - f[b]
      <4>1. /\ \A x \in Branches : f[x] \in Int /\ g[x] \in Int
            /\ \A x \in Branches \ {b} : f[x] = g[x]
        BY <1>4, <3>1
      <4> QED
        BY <1>2, <4>1, SumChange
    <3>4. f[b] \in Int
      BY <1>4
    <3> QED
      BY <1>4, <1>7, <3>1, <3>2, <3>3, <3>4
  <2>2. CASE v # w
    <3>1. \A x \in Branches : f[x] = g[x]
      BY <1>4, <1>5, <2>2 DEF TypeOK
    <3>2. sold'[v] = sold[v]
      BY <1>5, <2>2 DEF TypeOK
    <3>3. SumOf(f, Branches) = SumOf(g, Branches)
      BY <1>2, <1>4, <3>1, SumSame
    <3> QED
      BY <3>2, <3>3
  <2> QED
    BY <2>1, <2>2
<1>11. SumOf(g, Branches) \in Int /\ sold'[v] \in Int
  BY <1>2, <1>4, SumType, CustodyTermsNext
<1>12. SumOf(g, Branches) + SumOf(c, TransferIds) + sold'[v] = Cardinality(Branches) * OpeningStock
  BY <1>4, <1>6, <1>7, <1>8, <1>9, <1>10, <1>11
<1> QED
  BY <1>3, <1>12, CustodyNext

\* At first every branch holds the opening stock and nothing is on the way.
LEMMA InitConserves == Init => UnitsConserved
<1> SUFFICES ASSUME Init, NEW v \in Variants PROVE Custody(v)
  BY DEF UnitsConserved
<1>1. IsFiniteSet(Branches) /\ IsFiniteSet(TransferIds) /\ OpeningStock \in Int
  BY TransfersAssumption
<1>2. \A b \in Branches : Held(v)[b] = OpeningStock
  BY DEF Init, Held
<1>3. \A t \in TransferIds : Away(v)[t] = 0
  BY DEF Init, Away, Blank, Outstanding
<1>4. SumOf(Held(v), Branches) = Cardinality(Branches) * OpeningStock
  BY <1>1, <1>2, SumConstant
<1>5. SumOf(Away(v), TransferIds) = 0
  BY <1>1, <1>3, SumZero
<1>6. sold[v] = 0
  BY DEF Init
<1>7. Cardinality(Branches) \in Int
  BY <1>1, FS_CardinalityType
<1>8. Cardinality(Branches) * OpeningStock \in Int
  BY <1>1, <1>7
<1>9. SumOf(Held(v), Branches) + SumOf(Away(v), TransferIds) + sold[v]
         = Cardinality(Branches) * OpeningStock
  BY <1>4, <1>5, <1>6, <1>8
<1> QED
  BY <1>9, CustodyIs

\* Every command, and a sale, conserves the units of every variant.
LEMMA NextConserves ==
    TransfersInv /\ TypeOK' /\ UnitsConserved /\ [Next]_vars => UnitsConserved'
<1> SUFFICES ASSUME TransfersInv, TypeOK', UnitsConserved, [Next]_vars PROVE UnitsConserved'
  OBVIOUS
<1>0. TypeOK
  BY DEF TransfersInv
<1>1. ASSUME UNCHANGED <<stock, line, sold>> PROVE UnitsConserved'
  <2> SUFFICES ASSUME NEW v \in Variants PROVE Custody(v)'
    BY DEF UnitsConserved
  <2>1. Held(v)' = Held(v) /\ Away(v)' = Away(v) /\ sold'[v] = sold[v]
    BY <1>1 DEF Held, Away
  <2> QED
    BY <2>1, CustodyIs, CustodyNext DEF UnitsConserved
<1>2. ASSUME NEW k \in Keys, NEW t \in TransferIds, Ship(k, t) PROVE UnitsConserved'
  <2>1. Consistent(t, ShippedCounts(t), StockShipped(t))
    BY <1>2, ShipmentIsConsistent DEF Ship
  <2>2. status[t] # "none"
    BY <1>2 DEF Ship, MayShip
  <2> QED
    BY <1>0, <1>2, <2>1, <2>2, CommandConserves DEF Ship
<1>3. ASSUME NEW k \in Keys, NEW t \in TransferIds, NEW request \in Requests(t),
             Receive(k, t, request)
      PROVE  UnitsConserved'
  <2>1. MayReceive(t, Requested(t, request))
    BY <1>3 DEF Receive
  <2>2. Consistent(t, ReceivedCounts(t, Requested(t, request)),
                   StockReceived(t, Requested(t, request)))
    BY <2>1, ReceiptIsConsistent
  <2>3. status[t] # "none"
    BY <2>1 DEF MayReceive
  <2> QED
    BY <1>0, <1>3, <2>2, <2>3, CommandConserves DEF Receive
<1>4. ASSUME NEW b \in Branches, NEW v \in Variants, Sell(b, v) PROVE UnitsConserved'
  BY <1>0, <1>4, SaleConserves
<1>5. ASSUME NEW k \in Keys, NEW t \in TransferIds, Cancel(k, t) PROVE UnitsConserved'
  BY <1>1, <1>5 DEF Cancel
<1>6. ASSUME NEW k \in Keys, NEW t \in TransferIds, NEW r \in Route,
             NEW order \in Orders, Create(k, t, r, order)
      PROVE  UnitsConserved'
  BY <1>1, <1>6 DEF Create
<1>7. CASE UNCHANGED vars
  BY <1>1, <1>7 DEF vars, documents
<1> QED
  BY <1>2, <1>3, <1>4, <1>5, <1>6, <1>7 DEF Next

\* Units are conserved: shipping, partial receipts with damaged and missing units,
\* repeated commands and sales that overdraw the stock neither create nor lose one.
THEOREM UnitsAreConserved == Spec => []UnitsConserved
<1>1. TransfersInv => TypeOK
  BY DEF TransfersInv
<1> QED
  BY <1>1, TransfersInvariance, InitConserves, NextConserves, PTL DEF Spec

-----------------------------------------------------------------------------
(* The service and the database agree                                       *)

\* The counts of a line.
Kinds == {"shipped", "received", "damaged", "missing"}

\* The documents that hold in every reachable state and that the triggers
\* rely on: a transfer has a line, what was shipped is what was ordered, no
\* more was resolved than shipped, ...
DocumentsSound ==
    \A t \in TransferIds :
      /\ status[t] # "none" => \E v \in Variants : qty[t][v] > 0
      /\ status[t] \in {"shipped", "partially_received", "received"} =>
            \A v \in Variants : line[t][v].shipped = qty[t][v]
      /\ \A v \in Variants : Resolved(line[t][v]) <= line[t][v].shipped

\* a key was posted for a cumulative quantity the line has reached, ...
PostedReached ==
    \A p \in postings \cup transitKeys :
        \E k \in Kinds, t \in TransferIds, v \in Variants, n \in Nat :
            p = <<k, t, v, n>> /\ n <= line[t][v][k]

\* and a stock row without movements is as it was at first.
UnmovedIsOpening ==
    \A b \in Branches, v \in Variants : ~moved[b][v] => stock[b][v] = OpeningStock

\* The inductive invariant of DatabaseAgrees.
AcceptInv == TransfersInv /\ DocumentsSound /\ PostedReached /\ UnmovedIsOpening

\* The counts of a line as a function of their kinds.
LEMMA CountsByKind ==
    ASSUME NEW c \in Counts
    PROVE  /\ DOMAIN c = Kinds
           /\ \A k \in Kinds : c[k] \in Nat
           /\ c["shipped"] = c.shipped /\ c["received"] = c.received
           /\ c["damaged"] = c.damaged /\ c["missing"] = c.missing
BY DEF Counts, Kinds

\* A total of naturals is a natural, at least each term, and zero when all are.
LEMMA TotalIs ==
    ASSUME NEW f, \A v \in Variants : f[v] \in Nat
    PROVE  /\ Total(f) \in Nat
           /\ \A v \in Variants : f[v] <= Total(f)
           /\ (\A v \in Variants : f[v] = 0) => Total(f) = 0
<1>1. Total(f) = SumOf(f, Variants)
  BY DEF Total, SumOf
<1>2. IsFiniteSet(Variants)
  BY TransfersAssumption
<1> QED
  BY <1>1, <1>2, SumNonNegative, SumZero

\* record_inventory_movement accepts the movement at every branch: the ledger
\* equals the stock before it, or the row still has its opening stock.
LEMMA MovementAlwaysFits ==
    ASSUME AcceptInv, NEW t \in TransferIds, status[t] # "none",
           NEW counts, NEW after, Consistent(t, counts, after),
           NEW v \in Variants, NEW b \in Branches
    PROVE  MovementFits(b, v, Delta(t, v, counts[v], b), after[b][v])
<1>1. PICK d : d = Delta(t, v, counts[v], b)
  OBVIOUS
<1>2. d \in Int
  BY <1>1, DeltaIsInteger DEF AcceptInv, TransfersInv, Consistent
<1>3. after[b][v] = stock[b][v] + d /\ stock[b][v] \in Int
  BY <1>1 DEF Consistent, AcceptInv, TransfersInv, TypeOK
<1>4. moved[b][v] => ledger[b][v] = stock[b][v]
  BY DEF AcceptInv, TransfersInv, LedgersReconcile
<1>5. ~moved[b][v] => stock[b][v] >= 0
  BY TransfersAssumption DEF AcceptInv, UnmovedIsOpening
<1>6. after[b][v] - d = stock[b][v] /\ stock[b][v] + d = after[b][v]
  BY <1>2, <1>3
<1> QED
  BY <1>1, <1>4, <1>5, <1>6 DEF MovementFits, Booked

\* A count that grows is posted under a key that was never used: the keys used
\* so far are for quantities the line has already reached.
LEMMA PostingIsNew ==
    ASSUME AcceptInv, NEW t \in TransferIds, NEW v \in Variants, NEW c \in Counts,
           \A k \in Kinds : c[k] >= line[t][v][k], NEW S
    PROVE  Posting(t, v, c, S) \cap (postings \cup transitKeys) = {}
<1> SUFFICES ASSUME NEW p \in Posting(t, v, c, S), p \in postings \cup transitKeys
             PROVE  FALSE
  OBVIOUS
<1>1. PICK k \in Kinds : p = <<k, t, v, c[k]>> /\ c[k] # line[t][v][k]
  BY DEF Posting, Grown, Kinds
<1>2. PICK l \in Kinds, u \in TransferIds, w \in Variants, n \in Nat :
         p = <<l, u, w, n>> /\ n <= line[u][w][l]
  BY DEF AcceptInv, PostedReached
<1>3. l = k /\ u = t /\ w = v /\ n = c[k]
  BY <1>1, <1>2
<1>4. c[k] \in Nat /\ line[t][v][k] \in Nat
  <2>1. line[t][v] \in Counts
    BY DEF AcceptInv, TransfersInv, TypeOK
  <2> QED
    BY <2>1, CountsByKind
<1>5. c[k] <= line[t][v][k] /\ c[k] >= line[t][v][k]
  BY <1>2, <1>3
<1> QED
  BY <1>1, <1>4, <1>5

\* A changed line passes the triggers.
LEMMA LineAlwaysFits ==
    ASSUME AcceptInv, NEW t \in TransferIds, status[t] # "none",
           NEW counts, NEW after, Consistent(t, counts, after),
           NEW next, NEW v \in Variants,
           \A k \in Kinds : counts[v][k] >= line[t][v][k],
           counts[v].shipped > line[t][v].shipped =>
              next \in {"shipped", "partially_received", "received"},
           Resolved(counts[v]) > Resolved(line[t][v]) =>
              next \in {"partially_received", "received"}
    PROVE  LineFits(t, v, counts[v], next, after)
<1>1. counts[v] \in Counts
  BY DEF Consistent
<1>2. DOMAIN counts[v] = Kinds
  BY <1>1, CountsByKind
<1>3. \A S : Posting(t, v, counts[v], S) \cap (postings \cup transitKeys) = {}
  BY <1>1, PostingIsNew
<1>4. \A b \in Branches : MovementFits(b, v, Delta(t, v, counts[v], b), after[b][v])
  BY MovementAlwaysFits
<1>5. \A S : /\ Posting(t, v, counts[v], S) \cap postings = {}
             /\ Posting(t, v, counts[v], S) \cap transitKeys = {}
  BY <1>3
<1> QED
  BY <1>2, <1>4, <1>5 DEF LineFits

-----------------------------------------------------------------------------
\* The database accepts every shipment the service lets through: the transfer
\* orders something, so something is outstanding once it is shipped.
LEMMA ShipAccepted ==
    ASSUME AcceptInv, NEW t \in TransferIds, MayShip(t)
    PROVE  DatabaseAccepts(t, ShippedCounts(t), "shipped", StockShipped(t))
<1> DEFINE counts == ShippedCounts(t)
<1>1. status[t] = "pending"
  BY DEF MayShip
<1>2. Consistent(t, counts, StockShipped(t))
  BY ShipmentIsConsistent DEF AcceptInv
<1>3. ASSUME NEW v \in Variants
      PROVE  /\ line[t][v] = Blank /\ qty[t][v] \in Nat
             /\ counts[v] = [Blank EXCEPT !.shipped = qty[t][v]]
  <2>1. line[t][v] = Blank /\ qty[t][v] \in Nat
    BY <1>1 DEF AcceptInv, TransfersInv, TypeOK, Unshipped
  <2> QED
    BY <2>1 DEF ShippedCounts
<1> HIDE DEF counts
<1>4. ASSUME NEW v \in Variants
      PROVE  /\ Outstanding(counts[v]) = qty[t][v]
             /\ Resolved(counts[v]) = 0 /\ Resolved(line[t][v]) = 0
             /\ counts[v].shipped = qty[t][v]
             /\ \A k \in Kinds : counts[v][k] >= line[t][v][k]
  <2>1. PICK n, y : n = qty[t][v] /\ y = counts[v]
    OBVIOUS
  <2>2. n \in Nat /\ line[t][v] = Blank /\ y = [Blank EXCEPT !.shipped = n]
    BY <1>3, <2>1
  <2>3. y = [shipped |-> n, received |-> 0, damaged |-> 0, missing |-> 0]
    BY <2>2 DEF Blank
  <2>4. y.shipped = n /\ Resolved(y) = 0 /\ Outstanding(y) = n
    BY <2>2, <2>3 DEF Outstanding, Resolved
  <2>5. Resolved(Blank) = 0 /\ \A k \in Kinds : y[k] >= Blank[k]
    BY <2>2, <2>3 DEF Blank, Kinds, Resolved
  <2> QED
    BY <2>1, <2>2, <2>4, <2>5
<1>5. PICK f, g : f = [v \in Variants |-> Outstanding(counts[v])]
               /\ g = [v \in Variants |-> Resolved(counts[v])]
  OBVIOUS
<1>6. Total(g) = 0
  BY <1>4, <1>5, TotalIs
<1>7. Total(f) > 0
  <2>1. \A v \in Variants : f[v] \in Nat
    BY <1>3, <1>4, <1>5
  <2>2. PICK v \in Variants : qty[t][v] > 0
    BY <1>1 DEF AcceptInv, DocumentsSound
  <2>3. Total(f) \in Nat /\ f[v] <= Total(f)
    BY <2>1, TotalIs
  <2>4. f[v] = qty[t][v] /\ qty[t][v] \in Nat
    BY <1>3, <1>4, <1>5
  <2> QED
    BY <2>2, <2>3, <2>4
<1>8. DocumentFits(t, counts, "shipped")
  <2>1. Transition(status[t], "shipped")
    BY <1>1 DEF Transition
  <2>2. \A v \in Variants : /\ counts[v].shipped <= qty[t][v]
                            /\ Resolved(counts[v]) <= counts[v].shipped
    <3>1. ASSUME NEW v \in Variants
          PROVE  counts[v].shipped = qty[t][v] /\ Resolved(counts[v]) = 0 /\ qty[t][v] \in Nat
      BY <1>3, <1>4
    <3> QED
      BY <3>1
  <2>3. \A v \in Variants : counts[v].shipped = qty[t][v]
    BY <1>4
  <2> QED
    BY <1>5, <1>6, <1>7, <2>1, <2>2, <2>3 DEF DocumentFits
<1>9. ASSUME NEW v \in Variants PROVE LineFits(t, v, counts[v], "shipped", StockShipped(t))
  <2>1. \A k \in Kinds : counts[v][k] >= line[t][v][k]
    BY <1>4
  <2>2. ~(Resolved(counts[v]) > Resolved(line[t][v]))
    BY <1>4
  <2> QED
    BY <1>1, <1>2, <2>1, <2>2, LineAlwaysFits
<1> QED
  BY <1>8, <1>9 DEF DatabaseAccepts, counts

\* The database accepts every cancellation: nothing was shipped.
LEMMA CancelAccepted ==
    ASSUME AcceptInv, NEW t \in TransferIds, MayCancel(t)
    PROVE  DatabaseAccepts(t, line[t], "cancelled", stock)
<1>1. status[t] = "pending"
  BY DEF MayCancel
<1>2. \A v \in Variants : line[t][v] = Blank /\ qty[t][v] \in Nat
  BY <1>1 DEF AcceptInv, TransfersInv, TypeOK, Unshipped
<1>3. \A v \in Variants : /\ Outstanding(line[t][v]) = 0 /\ Resolved(line[t][v]) = 0
                          /\ line[t][v].shipped = 0
  BY <1>2 DEF Blank, Outstanding, Resolved
<1>4. PICK f, g : f = [v \in Variants |-> Outstanding(line[t][v])]
               /\ g = [v \in Variants |-> Resolved(line[t][v])]
  OBVIOUS
<1>5. Total(f) = 0 /\ Total(g) = 0
  BY <1>3, <1>4, TotalIs
<1>6. Transition(status[t], "cancelled")
  BY <1>1 DEF Transition
<1>7. \A v \in Variants : /\ line[t][v].shipped <= qty[t][v]
                          /\ Resolved(line[t][v]) <= line[t][v].shipped
  BY <1>2, <1>3
<1>8. DocumentFits(t, line[t], "cancelled")
  BY <1>4, <1>5, <1>6, <1>7 DEF DocumentFits
<1> QED
  BY <1>8 DEF DatabaseAccepts

\* The database accepts every receipt the service lets through, and the status
\* the service computed is the one the counts allow.
LEMMA ReceiveAccepted ==
    ASSUME AcceptInv, NEW t \in TransferIds, NEW request \in Requests(t),
           MayReceive(t, Requested(t, request))
    PROVE  DatabaseAccepts(t, ReceivedCounts(t, Requested(t, request)),
                           StatusReceived(ReceivedCounts(t, Requested(t, request))),
                           StockReceived(t, Requested(t, request)))
<1> DEFINE items == Requested(t, request)
           counts == ReceivedCounts(t, items)
           next == StatusReceived(counts)
           after == StockReceived(t, items)
<1>1. /\ status[t] \in {"shipped", "partially_received"}
      /\ \A v \in DOMAIN items : /\ v \in Lines(t) /\ Resolved(items[v]) > 0
                                 /\ Resolved(items[v]) <= Outstanding(line[t][v])
  BY DEF MayReceive, ReceiptFits
<1>2. Consistent(t, counts, after)
  BY ReceiptIsConsistent DEF AcceptInv
<1>3. \A v \in DOMAIN items :
         items[v] \in [received : Nat, damaged : Nat, missing : Nat]
  BY ItemsAreNaturals DEF AcceptInv
<1>4. \E v \in Variants : v \in DOMAIN items
  <2>1. CASE DOMAIN request = {}
    <3>1. DOMAIN items = Lines(t)
      BY <2>1 DEF Requested, Everything
    <3>2. \E v \in Variants : qty[t][v] > 0
      BY <1>1 DEF AcceptInv, DocumentsSound
    <3> QED
      BY <3>1, <3>2 DEF Lines
  <2>2. CASE DOMAIN request # {}
    <3>1. items = request
      BY <2>2 DEF Requested
    <3>2. DOMAIN request \subseteq Variants
      BY DEF Requests, Lines
    <3> QED
      BY <2>2, <3>1, <3>2
  <2> QED
    BY <2>1, <2>2
<1> HIDE DEF items
<1>5. ASSUME NEW v \in Variants
      PROVE  /\ line[t][v] \in Counts
             /\ line[t][v].shipped = qty[t][v]
             /\ Resolved(line[t][v]) <= line[t][v].shipped
             /\ qty[t][v] \in Nat
  BY <1>1 DEF AcceptInv, TransfersInv, TypeOK, DocumentsSound
<1>6. ASSUME NEW v \in Variants
      PROVE  /\ counts[v].shipped = qty[t][v]
             /\ Resolved(counts[v]) \in Nat
             /\ Outstanding(counts[v]) \in Nat
             /\ Resolved(counts[v]) <= counts[v].shipped
             /\ v \in DOMAIN items => Resolved(counts[v]) > 0
             /\ \A k \in Kinds : counts[v][k] >= line[t][v][k]
  <2>0. PICK a, b, c, d : /\ a = line[t][v].shipped /\ b = line[t][v].received
                          /\ c = line[t][v].damaged /\ d = line[t][v].missing
    OBVIOUS
  <2>1. a \in Nat /\ b \in Nat /\ c \in Nat /\ d \in Nat /\ a = qty[t][v] /\ b + c + d <= a
    BY <1>5, <2>0 DEF Counts, Resolved
  <2>2. line[t][v] = [shipped |-> a, received |-> b, damaged |-> c, missing |-> d]
    BY <1>5, <2>0 DEF Counts
  <2>3. CASE v \notin DOMAIN items
    <3>1. counts[v] = line[t][v]
      BY <2>3 DEF ReceivedCounts
    <3>2. PICK y : y = counts[v]
      OBVIOUS
    <3>3. y.shipped = a /\ Resolved(y) = b + c + d /\ Outstanding(y) = a - b - c - d
      BY <2>2, <3>1, <3>2 DEF Resolved, Outstanding
    <3>4. \A k \in Kinds : y[k] >= line[t][v][k]
      BY <2>1, <2>2, <3>1, <3>2 DEF Kinds
    <3> HIDE DEF counts
    <3>5. /\ y.shipped = qty[t][v] /\ Resolved(y) \in Nat /\ Outstanding(y) \in Nat
          /\ Resolved(y) <= y.shipped
      BY <2>1, <3>3
    <3> QED
      BY <2>3, <3>2, <3>4, <3>5
  <2>4. CASE v \in DOMAIN items
    <3>0. PICK x : x = items[v]
      OBVIOUS
    <3>1. PICK p, q, r : p = x.received /\ q = x.damaged /\ r = x.missing
      OBVIOUS
    <3>2. p \in Nat /\ q \in Nat /\ r \in Nat
      BY <1>3, <2>4, <3>0, <3>1
    <3>3. p + q + r > 0 /\ p + q + r <= a - b - c - d
      BY <1>1, <2>0, <2>4, <3>0, <3>1 DEF Resolved, Outstanding
    <3>4. counts[v] = [shipped |-> a, received |-> b + p, damaged |-> c + q, missing |-> d + r]
      BY <2>0, <2>4, <3>0, <3>1 DEF ReceivedCounts
    <3>5. PICK y : y = counts[v]
      OBVIOUS
    <3>6. /\ y.shipped = a /\ Resolved(y) = (b + p) + (c + q) + (d + r)
          /\ Outstanding(y) = a - (b + p) - (c + q) - (d + r)
      BY <3>4, <3>5 DEF Resolved, Outstanding
    <3>7. \A k \in Kinds : y[k] >= line[t][v][k]
      BY <2>1, <2>2, <3>2, <3>4, <3>5 DEF Kinds
    <3> HIDE DEF counts
    <3>8. /\ y.shipped = qty[t][v] /\ Resolved(y) \in Nat /\ Outstanding(y) \in Nat
          /\ Resolved(y) <= y.shipped /\ Resolved(y) > 0
      BY <2>1, <3>2, <3>3, <3>6
    <3> QED
      BY <3>5, <3>7, <3>8
  <2> QED
    BY <2>3, <2>4
<1>7. PICK f, g : f = [v \in Variants |-> Outstanding(counts[v])]
               /\ g = [v \in Variants |-> Resolved(counts[v])]
  OBVIOUS
<1>8. next = IF Total(f) = 0 THEN "received" ELSE "partially_received"
  BY <1>7 DEF StatusReceived
<1> HIDE DEF counts, next, after
<1>9. Total(f) \in Nat
  BY <1>6, <1>7, TotalIs
<1>10. Total(g) > 0
  <2>1. PICK v \in Variants : v \in DOMAIN items
    BY <1>4
  <2>2. Total(g) \in Nat /\ g[v] <= Total(g)
    BY <1>6, <1>7, TotalIs
  <2>3. g[v] > 0 /\ g[v] \in Nat
    BY <1>6, <1>7, <2>1
  <2> QED
    BY <2>2, <2>3
<1>11. DocumentFits(t, counts, next)
  <2>1. Transition(status[t], next)
    BY <1>1, <1>8 DEF Transition
  <2>2. \A v \in Variants : /\ counts[v].shipped <= qty[t][v]
                            /\ Resolved(counts[v]) <= counts[v].shipped
    BY <1>5, <1>6
  <2>3. \A v \in Variants : counts[v].shipped = qty[t][v]
    BY <1>6
  <2>4. CASE Total(f) = 0
    BY <1>7, <1>8, <2>1, <2>2, <2>3, <2>4 DEF DocumentFits
  <2>5. CASE Total(f) # 0
    <3>1. Total(f) > 0
      BY <1>9, <2>5
    <3> QED
      BY <1>7, <1>8, <1>10, <2>1, <2>2, <2>3, <2>5, <3>1 DEF DocumentFits
  <2> QED
    BY <2>4, <2>5
<1>12. ASSUME NEW v \in Variants PROVE LineFits(t, v, counts[v], next, after)
  <2>1. \A k \in Kinds : counts[v][k] >= line[t][v][k]
    BY <1>6
  <2>2. ~(counts[v].shipped > line[t][v].shipped)
    BY <1>5, <1>6
  <2>3. next \in {"partially_received", "received"} /\ status[t] # "none"
    BY <1>1, <1>8
  <2> QED
    BY <1>2, <2>1, <2>2, <2>3, LineAlwaysFits
<1> QED
  BY <1>11, <1>12 DEF DatabaseAccepts, items, counts, next, after

\* In a state of the invariant the database refuses nothing the service lets
\* through.
LEMMA InvariantAccepts == AcceptInv => DatabaseAgrees
BY ShipAccepted, CancelAccepted, ReceiveAccepted DEF DatabaseAgrees

-----------------------------------------------------------------------------
\* Nothing has been ordered, shipped or posted at first.
LEMMA InitAcceptInv == Init => AcceptInv
<1> SUFFICES ASSUME Init PROVE AcceptInv
  OBVIOUS
<1>1. TransfersInv
  BY InitTransfersInv
<1>2. DocumentsSound
  BY DEF Init, DocumentsSound, Resolved, Blank
<1>3. PostedReached /\ UnmovedIsOpening
  BY DEF Init, PostedReached, UnmovedIsOpening
<1> QED
  BY <1>1, <1>2, <1>3 DEF AcceptInv

\* A command the database accepted keeps the invariant.
LEMMA CommandKeepsAcceptInv ==
    ASSUME AcceptInv, TransfersInv', NEW t \in TransferIds, status[t] # "none",
           NEW counts, NEW next \in {"shipped", "partially_received", "received"}, NEW after,
           Consistent(t, counts, after),
           DatabaseAccepts(t, counts, next, after),
           Post(t, counts, after),
           stock' = after, line' = [line EXCEPT ![t] = counts],
           status' = [status EXCEPT ![t] = next], qty' = qty
    PROVE  AcceptInv'
<1>1. /\ status \in [TransferIds -> Statuses]
      /\ line \in [TransferIds -> [Variants -> Counts]]
      /\ stock \in [Branches -> [Variants -> Int]]
  BY DEF AcceptInv, TransfersInv, TypeOK
<1>2. /\ counts \in [Variants -> Counts]
      /\ line'[t] = counts
      /\ \A u \in TransferIds \ {t} : line'[u] = line[u] /\ status'[u] = status[u]
      /\ status'[t] = next
  BY <1>1 DEF Consistent
<1>3. /\ \A v \in Variants : counts[v].shipped = qty[t][v]
      /\ \A v \in Variants : Resolved(counts[v]) <= counts[v].shipped
  BY DEF DatabaseAccepts, DocumentFits
<1>4. ASSUME NEW v \in Variants, NEW k \in Kinds
      PROVE  counts[v][k] >= line[t][v][k] /\ counts[v][k] \in Nat /\ line[t][v][k] \in Nat
  <2>1. counts[v] \in Counts /\ line[t][v] \in Counts
    BY <1>1, <1>2
  <2>2. counts[v][k] \in Nat /\ line[t][v][k] \in Nat /\ k \in DOMAIN counts[v]
    BY <2>1, CountsByKind
  <2>3. CASE counts[v] = line[t][v]
    BY <2>2, <2>3
  <2>4. CASE counts[v] # line[t][v]
    BY <2>2, <2>4 DEF DatabaseAccepts, LineFits
  <2> QED
    BY <2>2, <2>3, <2>4
<1>5. DocumentsSound'
  <2>1. ASSUME NEW u \in TransferIds
        PROVE  /\ status'[u] # "none" => \E v \in Variants : qty'[u][v] > 0
               /\ status'[u] \in {"shipped", "partially_received", "received"} =>
                     \A v \in Variants : line'[u][v].shipped = qty'[u][v]
               /\ \A v \in Variants : Resolved(line'[u][v]) <= line'[u][v].shipped
    <3>1. CASE u = t
      BY <1>2, <1>3, <3>1 DEF AcceptInv, DocumentsSound
    <3>2. CASE u # t
      BY <1>2, <3>2 DEF AcceptInv, DocumentsSound
    <3> QED
      BY <3>1, <3>2
  <2> QED
    BY <2>1 DEF DocumentsSound, Resolved
<1>6. PostedReached'
  <2>1. ASSUME NEW p \in postings' \cup transitKeys'
        PROVE  \E k \in Kinds, u \in TransferIds, v \in Variants, n \in Nat :
                  p = <<k, u, v, n>> /\ n <= line'[u][v][k]
    <3>1. CASE p \in postings \cup transitKeys
      <4>1. PICK k \in Kinds, u \in TransferIds, v \in Variants, n \in Nat :
               p = <<k, u, v, n>> /\ n <= line[u][v][k]
        BY <3>1 DEF AcceptInv, PostedReached
      <4>2. CASE u = t
        <5>1. n <= line'[u][v][k]
          <6>1. line[u][v][k] \in Nat /\ line'[u][v][k] \in Nat /\ line'[u][v][k] >= line[u][v][k]
            BY <1>2, <1>4, <4>2
          <6> QED
            BY <4>1, <6>1
        <5> QED
          BY <4>1, <5>1
      <4>3. CASE u # t
        BY <1>2, <4>1, <4>3
      <4> QED
        BY <4>2, <4>3
    <3>2. CASE p \notin postings \cup transitKeys
      <4>1. PICK v \in Variants : \E S : p \in Posting(t, v, counts[v], S)
        BY ZenonT(30), <2>1, <3>2 DEF Post
      <4>2. PICK k \in Kinds : p = <<k, t, v, counts[v][k]>>
        BY <4>1 DEF Posting, Grown, Kinds
      <4>3. counts[v][k] \in Nat /\ counts[v][k] <= line'[t][v][k]
        BY <1>2, <1>4
      <4> QED
        BY <4>2, <4>3
    <3> QED
      BY <3>1, <3>2
  <2> QED
    BY <2>1 DEF PostedReached
<1>7. UnmovedIsOpening'
  <2> SUFFICES ASSUME NEW b \in Branches, NEW v \in Variants, ~moved'[b][v]
               PROVE  stock'[b][v] = OpeningStock
    BY DEF UnmovedIsOpening
  <2>1. moved'[b][v] = (moved[b][v] \/ Delta(t, v, counts[v], b) # 0)
    BY DEF Post
  <2>2. ~moved[b][v] /\ Delta(t, v, counts[v], b) = 0
    BY <2>1
  <2>3. stock'[b][v] = stock[b][v]
    BY <1>1, <2>2 DEF Consistent
  <2> QED
    BY <2>2, <2>3 DEF AcceptInv, UnmovedIsOpening
<1> QED
  BY <1>5, <1>6, <1>7 DEF AcceptInv

\* Every command, and a sale, preserves the invariant.
LEMMA NextAcceptInv == AcceptInv /\ TransfersInv' /\ [Next]_vars => AcceptInv'
<1> SUFFICES ASSUME AcceptInv, TransfersInv', [Next]_vars PROVE AcceptInv'
  OBVIOUS
<1>0. TransfersInv /\ TypeOK
  BY DEF AcceptInv, TransfersInv
<1>1. ASSUME NEW k \in Keys, NEW t \in TransferIds, NEW r \in Route,
             NEW order \in Orders, Create(k, t, r, order)
      PROVE  AcceptInv'
  <2>1. \E v \in Variants : order[v] > 0
    BY TransfersAssumption
  <2>2. /\ status' = [status EXCEPT ![t] = "pending"] /\ qty' = [qty EXCEPT ![t] = order]
        /\ UNCHANGED <<line, stock, moved, postings, transitKeys>>
    BY <1>1 DEF Create, ledgers
  <2>3. DocumentsSound'
    BY <1>0, <2>1, <2>2 DEF AcceptInv, TypeOK, DocumentsSound, Resolved
  <2>4. PostedReached' /\ UnmovedIsOpening'
    BY <2>2 DEF AcceptInv, PostedReached, UnmovedIsOpening
  <2> QED
    BY <2>3, <2>4 DEF AcceptInv
<1>2. ASSUME NEW k \in Keys, NEW t \in TransferIds, Ship(k, t) PROVE AcceptInv'
  <2>1. Consistent(t, ShippedCounts(t), StockShipped(t))
    BY <1>0, <1>2, ShipmentIsConsistent DEF Ship
  <2>2. status[t] # "none"
    BY <1>2 DEF Ship, MayShip
  <2>3. PICK next : next = "shipped"
    OBVIOUS
  <2> QED
    BY <1>2, <2>1, <2>2, <2>3, CommandKeepsAcceptInv DEF Ship
<1>3. ASSUME NEW k \in Keys, NEW t \in TransferIds, NEW request \in Requests(t),
             Receive(k, t, request)
      PROVE  AcceptInv'
  <2>1. PICK items, counts, next, after :
           /\ items = Requested(t, request) /\ counts = ReceivedCounts(t, items)
           /\ next = StatusReceived(counts) /\ after = StockReceived(t, items)
    OBVIOUS
  <2>2. /\ MayReceive(t, items)
        /\ DatabaseAccepts(t, counts, next, after)
        /\ Post(t, counts, after)
        /\ stock' = after
        /\ line' = [line EXCEPT ![t] = counts]
        /\ status' = [status EXCEPT ![t] = next]
        /\ qty' = qty
    BY <1>3, <2>1 DEF Receive
  <2>3. Consistent(t, counts, after)
    BY <1>0, <2>1, <2>2, ReceiptIsConsistent
  <2>4. next \in {"shipped", "partially_received", "received"} /\ status[t] # "none"
    BY <2>1, <2>2 DEF StatusReceived, MayReceive
  <2> QED
    BY <2>2, <2>3, <2>4, CommandKeepsAcceptInv
<1>4. ASSUME NEW k \in Keys, NEW t \in TransferIds, Cancel(k, t) PROVE AcceptInv'
  <2>1. /\ status[t] = "pending" /\ status' = [status EXCEPT ![t] = "cancelled"]
        /\ UNCHANGED <<qty, line, stock, moved, postings, transitKeys>>
    BY <1>4 DEF Cancel, MayCancel, ledgers
  <2>2. DocumentsSound'
    BY <1>0, <2>1 DEF AcceptInv, TypeOK, DocumentsSound, Resolved
  <2>3. PostedReached' /\ UnmovedIsOpening'
    BY <2>1 DEF AcceptInv, PostedReached, UnmovedIsOpening
  <2> QED
    BY <2>2, <2>3 DEF AcceptInv
<1>5. ASSUME NEW b \in Branches, NEW v \in Variants, Sell(b, v) PROVE AcceptInv'
  <2>1. /\ UNCHANGED <<status, qty, line, postings, transitKeys>>
        /\ stock' = [stock EXCEPT ![b][v] = @ - 1]
        /\ moved' = [moved EXCEPT ![b][v] = TRUE]
    BY <1>5 DEF Sell, documents
  <2>2. DocumentsSound'
    BY <2>1 DEF AcceptInv, DocumentsSound, Resolved
  <2>3. PostedReached'
    BY <2>1 DEF AcceptInv, PostedReached
  <2>4. UnmovedIsOpening'
    BY <1>0, <2>1 DEF AcceptInv, TypeOK, UnmovedIsOpening
  <2> QED
    BY <2>2, <2>3, <2>4 DEF AcceptInv
<1>6. CASE UNCHANGED vars
  <2>1. UNCHANGED <<status, qty, line, postings, transitKeys, stock, moved>>
    BY <1>6 DEF vars, documents, ledgers
  <2>2. DocumentsSound'
    BY <2>1 DEF AcceptInv, DocumentsSound, Resolved
  <2>3. PostedReached' /\ UnmovedIsOpening'
    BY <2>1 DEF AcceptInv, PostedReached, UnmovedIsOpening
  <2> QED
    BY <2>2, <2>3 DEF AcceptInv
<1> QED
  BY <1>1, <1>2, <1>3, <1>4, <1>5, <1>6 DEF Next

\* No command the service lets through is refused by the triggers and constraints
\* of the database, whatever came before it.
THEOREM DatabaseAlwaysAgrees == Spec => []DatabaseAgrees
BY InvariantAccepts, InitAcceptInv, NextAcceptInv, TransfersInvariance, PTL DEF Spec
=============================================================================
