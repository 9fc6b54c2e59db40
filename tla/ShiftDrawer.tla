----------------------------- MODULE ShiftDrawer -----------------------------
(***************************************************************************)
(* One branch's shifts, the cash they should hold and the customers'       *)
(* purchase totals, under concurrent requests to the server:               *)
(*                                                                         *)
(*   backend/src/shifts/shifts.service.ts     open, close                  *)
(*   backend/src/shifts/shifts.repository.ts  closeIfOpen, the cash sums   *)
(*   backend/src/sales/sales.service.ts       createSale, createReturn     *)
(*                                                                         *)
(* A step is a statement, or the statements between two that another       *)
(* request could make behave differently. createSale and createReturn run  *)
(* in READ COMMITTED transactions: a statement sees what was committed     *)
(* when it began, and a transaction's writes appear together when it       *)
(* commits. close runs three statements in no transaction at all. A sale's *)
(* price is one unit of cash a piece; replays are TillSync's subject, here *)
(* every command is tried once.                                            *)
(***************************************************************************)
EXTENDS Integers, FiniteSets, FiniteSetsExt

CONSTANTS
    Sales,      \* POST /pos/sale commands, each from a terminal of its own
    Returns,    \* POST /pos/return commands
    Staff,      \* users who open and close shifts
    Customers,  \* phone numbers
    Cash,       \* the sales with payment_method 'cash'
    Qty,        \* Qty[s]: pieces sold
    Buyer,      \* Buyer[s]: the customer_phone of s, or NoBuyer
    Original,   \* Original[r]: the sale that r returns pieces of
    Back,       \* Back[r]: how many pieces
    MaxShifts   \* bound on the shifts the branch opens

NoBuyer == "no buyer"
NoShift == 0
Shifts == 1..MaxShifts

ASSUME SaleAssumption ==
    /\ IsFiniteSet(Sales)
    /\ Cash \subseteq Sales /\ Qty \in [Sales -> Nat \ {0}]
    /\ NoBuyer \notin Customers /\ Buyer \in [Sales -> Customers \cup {NoBuyer}]
ASSUME ReturnAssumption ==
    /\ IsFiniteSet(Returns)
    /\ Original \in [Returns -> Sales] /\ Back \in [Returns -> Nat \ {0}]
ASSUME ShiftAssumption == MaxShifts \in Nat

VARIABLES
    status,     \* Shift.status, "none" before it is opened
    expected,   \* Shift.expected_cash (opening_cash is 0)
    known,      \* committed Customer rows
    spent,      \* Customer.total_spent
    spc,        \* where each createSale is; its invoice exists when "done"
    late,       \* it read its shift as closed
    shiftOf,    \* the shift_id of its command
    rpc,        \* where each createReturn is; its Return exists when "done"
    rshift,     \* the open shift it read, NoShift for an owner's return
    rspent,     \* the total_spent it read
    opc,        \* where each open() is
    cpc,        \* where each close() is
    closing,    \* the shift it closes
    sales,      \* the sum of cash sales it read, or Unread
    returns     \* the sum of cash returns it read, or Unread

vars == <<status, expected, known, spent, spc, late, shiftOf, rpc, rshift,
          rspent, opc, cpc, closing, sales, returns>>
shiftVars == <<status, expected, opc, cpc, closing, sales, returns>>
saleVars == <<known, spc, late, shiftOf>>
returnVars == <<rpc, rshift, rspent>>

Unread == -1
Open == {h \in Shifts : status[h] = "open"}
Opened == {h \in Shifts : status[h] # "none"}

-----------------------------------------------------------------------------
(* open: one transaction under the branch's advisory lock                   *)

\* the bug of opening without the advisory lock
NoLock == TRUE

BranchUnlocked == \A u \in Staff : opc[u] # "locked"

\* The lock is taken and the branch's open shift looked for.
OpenBegin(u) ==
    /\ opc[u] = "idle" /\ BranchUnlocked /\ Opened # Shifts
    /\ opc' = [opc EXCEPT ![u] = IF Open = {} THEN "locked" ELSE "idle"]
    /\ UNCHANGED <<status, expected, cpc, closing, sales, returns, saleVars,
                   returnVars, spent>>

\* The shift is created and the commit releases the lock.
OpenCommit(u) ==
    /\ opc[u] = "locked"
    /\ opc' = [opc EXCEPT ![u] = "idle"]
    /\ \E h \in Shifts :
         /\ \A g \in Shifts : g < h <=> g \in Opened
         /\ status' = [status EXCEPT ![h] = "open"]
    /\ UNCHANGED <<expected, cpc, closing, sales, returns, saleVars, returnVars,
                   spent>>

-----------------------------------------------------------------------------
(* close: a read, two sums in either order, a conditional update            *)

CashSales(h) ==
    MapThenSumSet(LAMBDA s : Qty[s],
                  {s \in Cash : spc[s] = "done" /\ shiftOf[s] = h})
CashReturns(h) ==
    MapThenSumSet(LAMBDA r : Back[r],
                  {r \in Returns : /\ rpc[r] = "done" /\ rshift[r] = h
                                   /\ Original[r] \in Cash})

CloseBegin(u) ==
    /\ cpc[u] = "idle"
    /\ \E h \in Open : closing' = [closing EXCEPT ![u] = h]
    /\ cpc' = [cpc EXCEPT ![u] = "sum"]
    /\ UNCHANGED <<status, expected, opc, sales, returns, saleVars, returnVars,
                   spent>>

SumCashSales(u) ==
    /\ cpc[u] = "sum" /\ sales[u] = Unread
    /\ sales' = [sales EXCEPT ![u] = CashSales(closing[u])]
    /\ UNCHANGED <<status, expected, opc, cpc, closing, returns, saleVars,
                   returnVars, spent>>

SumCashReturns(u) ==
    /\ cpc[u] = "sum" /\ returns[u] = Unread
    /\ returns' = [returns EXCEPT ![u] = CashReturns(closing[u])]
    /\ UNCHANGED <<status, expected, opc, cpc, closing, sales, saleVars,
                   returnVars, spent>>

\* the bug of closing whatever the shift's status is
CloseAnyway(h) == TRUE

StillOpen(h) == status[h] = "open"

\* closeIfOpen; when it changed no row the request is answered 409.
CloseIfOpen(u) ==
    /\ cpc[u] = "sum" /\ sales[u] # Unread /\ returns[u] # Unread
    /\ cpc' = [cpc EXCEPT ![u] = "idle"]
    /\ IF StillOpen(closing[u])
         THEN /\ status' = [status EXCEPT ![closing[u]] = "closed"]
              /\ expected' = [expected EXCEPT ![closing[u]] =
                                sales[u] - returns[u]]
         ELSE UNCHANGED <<status, expected>>
    /\ closing' = [closing EXCEPT ![u] = NoShift]
    /\ sales' = [sales EXCEPT ![u] = Unread]
    /\ returns' = [returns EXCEPT ![u] = Unread]
    /\ UNCHANGED <<opc, saleVars, returnVars, spent>>

-----------------------------------------------------------------------------
(* createSale                                                               *)

\* The till took the sale on a shift it was given a context for; createSale
\* reads that shift, whatever its status is by now.
SaleRead(s) ==
    /\ spc[s] = "new"
    /\ \E h \in Opened :
         /\ shiftOf' = [shiftOf EXCEPT ![s] = h]
         /\ late' = [late EXCEPT ![s] = status[h] = "closed"]
    /\ spc' = [spc EXCEPT ![s] = IF Buyer[s] = NoBuyer THEN "write" ELSE "find"]
    /\ UNCHANGED <<shiftVars, known, returnVars, spent>>

\* customer.findFirst by phone
FindCustomer(s) ==
    /\ spc[s] = "find"
    /\ spc' = [spc EXCEPT ![s] =
                 IF Buyer[s] \in known THEN "write" ELSE "create"]
    /\ UNCHANGED <<shiftVars, known, late, shiftOf, returnVars, spent>>

\* customer.create: the unique index on the phone makes it wait for another
\* transaction that inserted the same phone, and fail once that one commits.
\* The error filter answers 409, the till quarantines the sale.
CreateCustomer(s) ==
    /\ spc[s] = "create"
    /\ \A q \in Sales : Buyer[q] = Buyer[s] => spc[q] # "created"
    /\ spc' = [spc EXCEPT ![s] =
                 IF Buyer[s] \in known THEN "refused" ELSE "created"]
    /\ UNCHANGED <<shiftVars, known, late, shiftOf, returnVars, spent>>

\* invoice, movements, the reconciliation of a shift that was read as closed,
\* the customer's totals, and the commit: the increments of the shift and of
\* the customer are atomic, under row locks that are held until the commit.
SaleCommit(s) ==
    /\ spc[s] \in {"write", "created"}
    /\ spc' = [spc EXCEPT ![s] = "done"]
    /\ expected' = IF late[s] /\ s \in Cash
                     THEN [expected EXCEPT ![shiftOf[s]] = @ + Qty[s]]
                     ELSE expected
    /\ IF Buyer[s] = NoBuyer
         THEN UNCHANGED <<known, spent>>
         ELSE /\ known' = known \cup {Buyer[s]}
              /\ spent' = [spent EXCEPT ![Buyer[s]] = @ + Qty[s]]
    /\ late' = [late EXCEPT ![s] = FALSE]
    /\ UNCHANGED <<status, opc, cpc, closing, sales, returns, shiftOf,
                   returnVars>>

-----------------------------------------------------------------------------
(* createReturn                                                             *)

\* The invoice and the branch's open shift are read; an owner needs no shift.
ReturnRead(r) ==
    /\ rpc[r] = "new" /\ spc[Original[r]] = "done"
    /\ \/ /\ Open = {}
          /\ rpc' = [rpc EXCEPT ![r] = "refused"]
          /\ UNCHANGED rshift
       \/ /\ \E h \in Open \cup {NoShift} : rshift' = [rshift EXCEPT ![r] = h]
          /\ rpc' = [rpc EXCEPT ![r] = "lock"]
    /\ UNCHANGED <<shiftVars, saleVars, rspent, spent>>

\* the bug of counting the returned pieces without locking the line
LineNotLocked(r) == TRUE

\* SELECT ... FOR UPDATE on the SalesInvoiceItem
LineUnlocked(r) ==
    \A q \in Returns : Original[q] = Original[r] => rpc[q] # "locked"

Returned(s) ==
    MapThenSumSet(LAMBDA r : Back[r],
                  {r \in Returns : Original[r] = s /\ rpc[r] = "done"})

\* The line is locked and what was returned of it is added up.
ReturnLock(r) ==
    /\ rpc[r] = "lock" /\ LineUnlocked(r)
    /\ rpc' = [rpc EXCEPT ![r] =
                 IF Back[r] > Qty[Original[r]] - Returned(Original[r])
                   THEN "refused" ELSE "locked"]
    /\ UNCHANGED <<shiftVars, saleVars, rshift, rspent, spent>>

\* customer.findFirst, after the return, its stock and its QA flags
ReturnReadCustomer(r) ==
    /\ rpc[r] = "locked" /\ rspent[r] = Unread /\ Buyer[Original[r]] # NoBuyer
    /\ rspent' = [rspent EXCEPT ![r] = spent[Buyer[Original[r]]]]
    /\ UNCHANGED <<shiftVars, saleVars, rpc, rshift, spent>>

\* customer.update writes the difference it computed, not below zero.
ReturnCommit(r) ==
    /\ rpc[r] = "locked" /\ (Buyer[Original[r]] # NoBuyer => rspent[r] # Unread)
    /\ rpc' = [rpc EXCEPT ![r] = "done"]
    /\ spent' = IF Buyer[Original[r]] = NoBuyer THEN spent
                ELSE [spent EXCEPT ![Buyer[Original[r]]] =
                        IF rspent[r] > Back[r] THEN rspent[r] - Back[r] ELSE 0]
    /\ rspent' = [rspent EXCEPT ![r] = Unread]
    /\ UNCHANGED <<shiftVars, saleVars, rshift>>

-----------------------------------------------------------------------------
Init ==
    /\ status = [h \in Shifts |-> "none"]
    /\ expected = [h \in Shifts |-> 0]
    /\ known = {} /\ spent = [c \in Customers |-> 0]
    /\ spc = [s \in Sales |-> "new"] /\ late = [s \in Sales |-> FALSE]
    /\ shiftOf = [s \in Sales |-> NoShift]
    /\ rpc = [r \in Returns |-> "new"] /\ rshift = [r \in Returns |-> NoShift]
    /\ rspent = [r \in Returns |-> Unread]
    /\ opc = [u \in Staff |-> "idle"] /\ cpc = [u \in Staff |-> "idle"]
    /\ closing = [u \in Staff |-> NoShift]
    /\ sales = [u \in Staff |-> Unread] /\ returns = [u \in Staff |-> Unread]

SaleStep(s) == \/ SaleRead(s) \/ FindCustomer(s) \/ CreateCustomer(s)
               \/ SaleCommit(s)
ReturnStep(r) == \/ ReturnRead(r) \/ ReturnLock(r) \/ ReturnReadCustomer(r)
                 \/ ReturnCommit(r)
StaffStep(u) == \/ OpenBegin(u) \/ OpenCommit(u) \/ CloseBegin(u)
                \/ SumCashSales(u) \/ SumCashReturns(u) \/ CloseIfOpen(u)

Next == \/ \E s \in Sales : SaleStep(s)
        \/ \E r \in Returns : ReturnStep(r)
        \/ \E u \in Staff : StaffStep(u)

Spec == Init /\ [][Next]_vars
-----------------------------------------------------------------------------
(* Properties                                                               *)

\* Type invariant: a customer's total_spent, which createReturn clamps at zero,
\* and the sums close() reads are never negative; expected_cash may be.
TypeOK ==
    /\ status \in [Shifts -> {"none", "open", "closed"}]
    /\ expected \in [Shifts -> Int]
    /\ known \subseteq Customers /\ spent \in [Customers -> Nat]
    /\ spc \in [Sales -> {"new", "find", "create", "created", "write", "done",
                          "refused"}]
    /\ late \in [Sales -> BOOLEAN]
    /\ shiftOf \in [Sales -> Shifts \cup {NoShift}]
    /\ rpc \in [Returns -> {"new", "lock", "locked", "done", "refused"}]
    /\ rshift \in [Returns -> Shifts \cup {NoShift}]
    /\ rspent \in [Returns -> Nat \cup {Unread}]
    /\ opc \in [Staff -> {"idle", "locked"}]
    /\ cpc \in [Staff -> {"idle", "sum"}]
    /\ closing \in [Staff -> Shifts \cup {NoShift}]
    /\ sales \in [Staff -> Nat \cup {Unread}]
    /\ returns \in [Staff -> Nat \cup {Unread}]

\* A branch never has two open shifts, however many people open one at once:
\* open() looks and creates under the branch's advisory lock.
OneOpenShift == \A g, h \in Open : g = h

\* Concurrent returns never take back more pieces of a line than were sold.
ReturnsWithinSale == \A s \in Sales : Returned(s) <= Qty[s]

\* The stored expected cash of a closed shift is only ever added to, by late
\* cash sales: a second close() that still holds older sums cannot overwrite
\* what those sales added, nor reopen the shift.
ClosedShiftOnlyGrows ==
    [][\A h \in Shifts : status[h] = "closed" =>
           status'[h] = "closed" /\ expected'[h] >= expected[h]]_vars

\* A closed shift stays financially correct: with no request under way, its
\* expected cash accounts for every cash sale and return recorded on it.
ClosedShiftReconciled ==
    (/\ \A s \in Sales : spc[s] \in {"new", "done", "refused"}
     /\ \A r \in Returns : rpc[r] \in {"new", "done", "refused"})
    => \A h \in Shifts : status[h] = "closed" =>
           expected[h] = CashSales(h) - CashReturns(h)
=============================================================================
