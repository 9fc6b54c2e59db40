-------------------------- MODULE ShiftDrawerProofs --------------------------
(***************************************************************************)
(* Proofs about ShiftDrawer, for any number of people opening and closing  *)
(* shifts and any number of sales and returns: a branch has at most one    *)
(* open shift, a closed one only gains cash, and no line is returned more  *)
(* often than it was sold.                                                 *)
(***************************************************************************)
EXTENDS ShiftDrawer, Sums, TLAPS

\* Who holds the advisory lock found no open shift, and is alone.
LockInv ==
    /\ status \in [Shifts -> {"none", "open", "closed"}]
    /\ opc \in [Staff -> {"idle", "locked"}]
    /\ \A u, w \in Staff : opc[u] = "locked" /\ opc[w] = "locked" => u = w
    /\ \A u \in Staff : opc[u] = "locked" => Open = {}
    /\ OneOpenShift

USE DEF shiftVars, saleVars, returnVars

LEMMA LockStep == LockInv /\ [Next]_vars => LockInv'
<1> SUFFICES ASSUME LockInv, [Next]_vars PROVE LockInv'
  OBVIOUS
<1>1. ASSUME UNCHANGED <<status, opc>> PROVE LockInv'
  BY <1>1 DEF LockInv, Open, OneOpenShift
<1>2. ASSUME NEW u \in Staff, OpenBegin(u) PROVE LockInv'
  <2>1. UNCHANGED status /\ Open' = Open
    BY <1>2 DEF OpenBegin, Open
  <2>2. CASE Open = {}
    BY <1>2, <2>1, <2>2 DEF LockInv, OpenBegin, BranchUnlocked, OneOpenShift
  <2>3. CASE Open # {}
    <3>1. opc' = opc
      BY <1>2, <2>3 DEF OpenBegin, LockInv
    <3> QED  BY <1>1, <2>1, <3>1
  <2> QED  BY <2>2, <2>3
<1>3. ASSUME NEW u \in Staff, OpenCommit(u) PROVE LockInv'
  <2>1. PICK h \in Shifts : status' = [status EXCEPT ![h] = "open"]
    BY <1>3 DEF OpenCommit
  <2>2. Open = {} /\ Open' = {h}
    BY <1>3, <2>1 DEF LockInv, OpenCommit, Open
  <2>3. \A w \in Staff : opc'[w] = "idle"
    BY <1>3 DEF LockInv, OpenCommit
  <2>4. opc' \in [Staff -> {"idle", "locked"}]
    BY <1>3 DEF LockInv, OpenCommit
  <2>5. status' \in [Shifts -> {"none", "open", "closed"}]
    BY <2>1 DEF LockInv
  <2> QED  BY <2>2, <2>3, <2>4, <2>5 DEF LockInv, OneOpenShift
<1>4. ASSUME NEW u \in Staff, CloseIfOpen(u) PROVE LockInv'
  <2>1. UNCHANGED opc
    BY <1>4 DEF CloseIfOpen
  <2>2. /\ status' \in [Shifts -> {"none", "open", "closed"}]
        /\ Open' \subseteq Open
    BY <1>4 DEF CloseIfOpen, LockInv, Open
  <2> QED  BY <2>1, <2>2 DEF LockInv, OneOpenShift
<1>5. CASE \E s \in Sales : SaleStep(s)
  BY <1>1, <1>5
  DEF SaleStep, SaleRead, FindCustomer, CreateCustomer, SaleCommit
<1>6. CASE \E r \in Returns : ReturnStep(r)
  BY <1>1, <1>6
  DEF ReturnStep, ReturnRead, ReturnLock, ReturnReadCustomer, ReturnCommit
<1>7. CASE \E u \in Staff : StaffStep(u)
  BY <1>1, <1>2, <1>3, <1>4, <1>7
  DEF StaffStep, CloseBegin, SumCashSales, SumCashReturns
<1>8. CASE UNCHANGED vars
  BY <1>1, <1>8 DEF vars
<1> QED  BY <1>5, <1>6, <1>7, <1>8 DEF Next

\* open() never makes a second open shift.
THEOREM SingleShift == Spec => []OneOpenShift
<1>1. Init => LockInv
  BY DEF Init, LockInv, Open, OneOpenShift
<1>2. LockInv /\ [Next]_vars => LockInv'
  BY LockStep
<1>3. LockInv => OneOpenShift
  BY DEF LockInv
<1> QED  BY <1>1, <1>2, <1>3, PTL DEF Spec

-----------------------------------------------------------------------------
(* The types, closed shifts and returns                                     *)

\* The returns of a sale that are committed.
DoneReturns(s) == {r \in Returns : Original[r] = s /\ rpc[r] = "done"}

\* What was returned of a sale is a sum over them.
LEMMA ReturnedIs ==
    ASSUME NEW s \in Sales
    PROVE  Returned(s) = SumOf(Back, DoneReturns(s)) /\ Returned(s) \in Nat
<1>1. Returned(s) = SumOf(Back, DoneReturns(s))
  BY DEF Returned, SumOf, DoneReturns
<1>2. IsFiniteSet(DoneReturns(s))
  BY FS_Subset, ReturnAssumption DEF DoneReturns
<1>3. \A r \in DoneReturns(s) : Back[r] \in Nat
  BY ReturnAssumption DEF DoneReturns
<1> QED
  BY <1>1, <1>2, <1>3, SumNonNegative

\* The same after a step.
LEMMA ReturnedNext ==
    ASSUME NEW s \in Sales
    PROVE  Returned(s)' = SumOf(Back, DoneReturns(s)')
<1>1. Returned(s) = SumOf(Back, DoneReturns(s))
  BY ReturnedIs
<1>2. (Returned(s) = SumOf(Back, DoneReturns(s)))'
  BY <1>1, PTL
<1> QED
  BY <1>2

\* The sums close() reads are never negative.
LEMMA CashSumsAreNaturals ==
    ASSUME NEW h
    PROVE  CashSales(h) \in Nat /\ CashReturns(h) \in Nat
<1>1. CashSales(h) = SumOf(Qty, {s \in Cash : spc[s] = "done" /\ shiftOf[s] = h})
  BY DEF CashSales, SumOf
<1>2. CashReturns(h) = SumOf(Back, {r \in Returns : /\ rpc[r] = "done" /\ rshift[r] = h
                                                   /\ Original[r] \in Cash})
  BY DEF CashReturns, SumOf
<1>3. PICK A : A = {s \in Cash : spc[s] = "done" /\ shiftOf[s] = h}
  OBVIOUS
<1>4. PICK B : B = {r \in Returns : /\ rpc[r] = "done" /\ rshift[r] = h
                                    /\ Original[r] \in Cash}
  OBVIOUS
<1>5. A \subseteq Sales /\ B \subseteq Returns
  BY <1>3, <1>4, SaleAssumption
<1>6. IsFiniteSet(A) /\ IsFiniteSet(B)
  BY <1>5, FS_Subset, SaleAssumption, ReturnAssumption
<1>7. (\A s \in A : Qty[s] \in Nat) /\ (\A r \in B : Back[r] \in Nat)
  BY <1>5, SaleAssumption, ReturnAssumption
<1>8. SumOf(Qty, A) \in Nat /\ SumOf(Back, B) \in Nat
  BY <1>6, <1>7, SumNonNegative
<1> QED
  BY <1>1, <1>2, <1>3, <1>4, <1>8

\* close() that has begun holds the shift it found open.
ClosingKnown == \A u \in Staff : cpc[u] = "sum" => closing[u] \in Shifts
\* A sale that has read its shift has one.
ShiftRead == \A s \in Sales : spc[s] \in {"find", "create", "created", "write"} =>
                 shiftOf[s] \in Shifts

\* The types, and what a request knows at each of its steps.
DrawerInv == TypeOK /\ ClosingKnown /\ ShiftRead

\* Nothing is open, sold or returned at first.
LEMMA InitDrawerInv == Init => DrawerInv
  BY DEF Init, DrawerInv, TypeOK, ClosingKnown, ShiftRead, Unread, NoShift

\* createSale keeps the types.
LEMMA SaleDrawerInv ==
    ASSUME DrawerInv, NEW s \in Sales, SaleStep(s) PROVE DrawerInv'
<1> USE DEF DrawerInv
<1>1. CASE SaleRead(s)
  BY <1>1 DEF SaleRead, TypeOK, ClosingKnown, ShiftRead, Opened
<1>2. CASE FindCustomer(s)
  BY <1>2 DEF FindCustomer, TypeOK, ClosingKnown, ShiftRead
<1>3. CASE CreateCustomer(s)
  BY <1>3 DEF CreateCustomer, TypeOK, ClosingKnown, ShiftRead
<1>4. CASE SaleCommit(s)
  <2>1. Qty[s] \in Nat /\ shiftOf[s] \in Shifts
    BY <1>4, SaleAssumption DEF SaleCommit, ShiftRead
  <2>2. expected' \in [Shifts -> Int]
    <3>1. CASE late[s] /\ s \in Cash
      <4>1. expected[shiftOf[s]] + Qty[s] \in Int
        BY <2>1 DEF TypeOK
      <4>2. expected' = [expected EXCEPT ![shiftOf[s]] = expected[shiftOf[s]] + Qty[s]]
        BY <1>4, <3>1 DEF SaleCommit
      <4> QED
        BY <4>1, <4>2 DEF TypeOK
    <3>2. CASE ~(late[s] /\ s \in Cash)
      BY <1>4, <3>2 DEF SaleCommit, TypeOK
    <3> QED
      BY <3>1, <3>2
  <2>3. known' \subseteq Customers /\ spent' \in [Customers -> Nat]
    <3>1. CASE Buyer[s] = NoBuyer
      BY <1>4, <3>1 DEF SaleCommit, TypeOK
    <3>2. CASE Buyer[s] # NoBuyer
      <4>1. Buyer[s] \in Customers
        BY <3>2, SaleAssumption
      <4>2. spent' = [spent EXCEPT ![Buyer[s]] = spent[Buyer[s]] + Qty[s]]
            /\ known' = known \cup {Buyer[s]}
        BY <1>4, <3>2 DEF SaleCommit
      <4>3. spent[Buyer[s]] + Qty[s] \in Nat
        BY <2>1, <4>1 DEF TypeOK
      <4> QED
        BY <4>1, <4>2, <4>3 DEF TypeOK
    <3> QED
      BY <3>1, <3>2
  <2>4. late' \in [Sales -> BOOLEAN]
    BY <1>4 DEF SaleCommit, TypeOK
  <2>5. spc' = [spc EXCEPT ![s] = "done"]
    BY <1>4 DEF SaleCommit
  <2>6. UNCHANGED <<status, opc, cpc, closing, sales, returns, shiftOf, rpc, rshift, rspent>>
    BY <1>4 DEF SaleCommit
  <2> QED
    BY <2>2, <2>3, <2>4, <2>5, <2>6 DEF TypeOK, ClosingKnown, ShiftRead
<1> QED
  BY <1>1, <1>2, <1>3, <1>4 DEF SaleStep

\* createReturn keeps the types: the customer's total is clamped at zero.
LEMMA ReturnDrawerInv ==
    ASSUME DrawerInv, NEW r \in Returns, ReturnStep(r) PROVE DrawerInv'
<1> USE DEF DrawerInv
<1>1. CASE ReturnRead(r)
  BY <1>1 DEF ReturnRead, TypeOK, ClosingKnown, ShiftRead, Open, NoShift
<1>2. CASE ReturnLock(r)
  BY <1>2 DEF ReturnLock, TypeOK, ClosingKnown, ShiftRead
<1>3. CASE ReturnReadCustomer(r)
  <2>1. Buyer[Original[r]] \in Customers
    BY <1>3, SaleAssumption, ReturnAssumption DEF ReturnReadCustomer
  <2> QED
    BY <1>3, <2>1 DEF ReturnReadCustomer, TypeOK, ClosingKnown, ShiftRead
<1>4. CASE ReturnCommit(r)
  <2>1. spent' \in [Customers -> Nat]
    <3>1. CASE Buyer[Original[r]] = NoBuyer
      BY <1>4, <3>1 DEF ReturnCommit, TypeOK
    <3>2. CASE Buyer[Original[r]] # NoBuyer
      <4>1. Buyer[Original[r]] \in Customers
        BY <3>2, SaleAssumption, ReturnAssumption
      <4>2. rspent[r] \in Nat /\ Back[r] \in Nat
        BY <1>4, <3>2, ReturnAssumption DEF ReturnCommit, TypeOK
      <4>3. PICK n : n = IF rspent[r] > Back[r] THEN rspent[r] - Back[r] ELSE 0
        OBVIOUS
      <4>4. n \in Nat
        BY <4>2, <4>3
      <4>5. spent' = [spent EXCEPT ![Buyer[Original[r]]] = n]
        BY <1>4, <3>2, <4>3 DEF ReturnCommit
      <4> QED
        BY <4>4, <4>5 DEF TypeOK
    <3> QED
      BY <3>1, <3>2
  <2>2. rpc' = [rpc EXCEPT ![r] = "done"] /\ rspent' = [rspent EXCEPT ![r] = Unread]
    BY <1>4 DEF ReturnCommit
  <2>3. UNCHANGED <<shiftVars, saleVars, rshift>>
    BY <1>4 DEF ReturnCommit
  <2> QED
    BY <2>1, <2>2, <2>3 DEF TypeOK, ClosingKnown, ShiftRead
<1> QED
  BY <1>1, <1>2, <1>3, <1>4 DEF ReturnStep

\* open and close keep the types.
LEMMA StaffDrawerInv ==
    ASSUME DrawerInv, NEW u \in Staff, StaffStep(u) PROVE DrawerInv'
<1> USE DEF DrawerInv
<1>1. CASE OpenBegin(u)
  BY <1>1 DEF OpenBegin, TypeOK, ClosingKnown, ShiftRead
<1>2. CASE OpenCommit(u)
  BY <1>2 DEF OpenCommit, TypeOK, ClosingKnown, ShiftRead
<1>3. CASE CloseBegin(u)
  BY <1>3 DEF CloseBegin, TypeOK, ClosingKnown, ShiftRead, Open
<1>4. CASE SumCashSales(u)
  BY <1>4, CashSumsAreNaturals DEF SumCashSales, TypeOK, ClosingKnown, ShiftRead
<1>5. CASE SumCashReturns(u)
  BY <1>5, CashSumsAreNaturals DEF SumCashReturns, TypeOK, ClosingKnown, ShiftRead
<1>6. CASE CloseIfOpen(u)
  <2>1. sales[u] \in Nat /\ returns[u] \in Nat /\ closing[u] \in Shifts
    BY <1>6 DEF CloseIfOpen, TypeOK, ClosingKnown
  <2>2. sales[u] - returns[u] \in Int
    BY <2>1
  <2>3. /\ status' \in [Shifts -> {"none", "open", "closed"}]
        /\ expected' \in [Shifts -> Int]
    <3>1. CASE StillOpen(closing[u])
      BY <1>6, <2>2, <3>1 DEF CloseIfOpen, TypeOK
    <3>2. CASE ~StillOpen(closing[u])
      BY <1>6, <3>2 DEF CloseIfOpen, TypeOK
    <3> QED
      BY <3>1, <3>2
  <2>4. /\ cpc' = [cpc EXCEPT ![u] = "idle"]
        /\ closing' = [closing EXCEPT ![u] = NoShift]
        /\ sales' = [sales EXCEPT ![u] = Unread]
        /\ returns' = [returns EXCEPT ![u] = Unread]
        /\ UNCHANGED <<opc, saleVars, returnVars, spent>>
    BY <1>6 DEF CloseIfOpen
  <2> QED
    BY <2>3, <2>4 DEF TypeOK, ClosingKnown, ShiftRead
<1> QED
  BY <1>1, <1>2, <1>3, <1>4, <1>5, <1>6 DEF StaffStep

\* Every step preserves the types.
LEMMA NextDrawerInv == DrawerInv /\ [Next]_vars => DrawerInv'
<1> SUFFICES ASSUME DrawerInv, [Next]_vars PROVE DrawerInv'
  OBVIOUS
<1>1. CASE UNCHANGED vars
  BY <1>1 DEF vars, DrawerInv, TypeOK, ClosingKnown, ShiftRead
<1> QED
  BY <1>1, SaleDrawerInv, ReturnDrawerInv, StaffDrawerInv DEF Next

\* A customer's total_spent and the sums close() reads are never negative.
THEOREM DrawerTypeCorrect == Spec => []TypeOK
<1>1. DrawerInv => TypeOK
  BY DEF DrawerInv
<1> QED
  BY <1>1, InitDrawerInv, NextDrawerInv, PTL DEF Spec

\* The expected cash of a closed shift is only added to, however many people
\* close it at once with sums they read before.
THEOREM ClosedOnlyGrows == Spec => ClosedShiftOnlyGrows
<1> DEFINE Step ==
      \A h \in Shifts : status[h] = "closed" =>
          status'[h] = "closed" /\ expected'[h] >= expected[h]
<1>1. ASSUME DrawerInv, [Next]_vars PROVE [Step]_vars
  <2>1. \A h \in Shifts : expected[h] \in Int
    BY <1>1 DEF DrawerInv, TypeOK
  <2>2. ASSUME UNCHANGED <<status, expected>> PROVE Step
    BY <2>1, <2>2
  <2>3. ASSUME NEW s \in Sales, SaleStep(s) PROVE Step
    <3>1. CASE SaleRead(s) \/ FindCustomer(s) \/ CreateCustomer(s)
      BY <2>2, <3>1 DEF SaleRead, FindCustomer, CreateCustomer
    <3>2. CASE SaleCommit(s)
      <4>1. UNCHANGED status /\ Qty[s] \in Nat
        BY <3>2, SaleAssumption DEF SaleCommit
      <4>2. CASE late[s] /\ s \in Cash
        <5>1. expected' = [expected EXCEPT ![shiftOf[s]] = expected[shiftOf[s]] + Qty[s]]
          BY <3>2, <4>2 DEF SaleCommit
        <5>2. \A h \in Shifts : expected'[h] >= expected[h]
          BY <1>1, <2>1, <4>1, <5>1 DEF DrawerInv, TypeOK
        <5> QED
          BY <4>1, <5>2
      <4>3. CASE ~(late[s] /\ s \in Cash)
        BY <2>2, <3>2, <4>1, <4>3 DEF SaleCommit
      <4> QED
        BY <4>2, <4>3
    <3> QED
      BY <2>3, <3>1, <3>2 DEF SaleStep
  <2>4. ASSUME NEW r \in Returns, ReturnStep(r) PROVE Step
    BY <2>2, <2>4
    DEF ReturnStep, ReturnRead, ReturnLock, ReturnReadCustomer, ReturnCommit
  <2>5. ASSUME NEW u \in Staff, StaffStep(u) PROVE Step
    <3>1. CASE OpenCommit(u)
      <4>1. PICK h \in Shifts : /\ \A g \in Shifts : g < h <=> g \in Opened
                                /\ status' = [status EXCEPT ![h] = "open"]
        BY <3>1 DEF OpenCommit
      <4>2. status[h] = "none"
        <5>1. ~(h < h)
          BY ShiftAssumption DEF Shifts
        <5> QED
          BY <4>1, <5>1 DEF Opened
      <4>3. expected' = expected
        BY <3>1 DEF OpenCommit
      <4> QED
        BY <1>1, <2>1, <4>1, <4>2, <4>3 DEF DrawerInv, TypeOK
    <3>2. CASE CloseIfOpen(u)
      <4>1. CASE StillOpen(closing[u])
        BY <1>1, <2>1, <3>2, <4>1 DEF CloseIfOpen, StillOpen, DrawerInv, TypeOK
      <4>2. CASE ~StillOpen(closing[u])
        BY <2>2, <3>2, <4>2 DEF CloseIfOpen
      <4> QED
        BY <4>1, <4>2
    <3>3. CASE OpenBegin(u) \/ CloseBegin(u) \/ SumCashSales(u) \/ SumCashReturns(u)
      BY <2>2, <3>3 DEF OpenBegin, CloseBegin, SumCashSales, SumCashReturns
    <3> QED
      BY <2>5, <3>1, <3>2, <3>3 DEF StaffStep
  <2> QED
    BY <1>1, <2>3, <2>4, <2>5 DEF Next
<1> QED
  BY <1>1, InitDrawerInv, NextDrawerInv, PTL DEF Spec, ClosedShiftOnlyGrows

-----------------------------------------------------------------------------
\* Of a line at most one return holds the lock, and while it does what was
\* returned of the line leaves room for it.
LineHeld ==
    /\ \A q, r \in Returns :
          rpc[q] = "locked" /\ rpc[r] = "locked" /\ Original[q] = Original[r] => q = r
    /\ \A r \in Returns : rpc[r] = "locked" =>
          Returned(Original[r]) + Back[r] <= Qty[Original[r]]

\* The inductive invariant of ReturnsWithinSale.
ReturnsInv == TypeOK /\ LineHeld /\ ReturnsWithinSale

\* A step that neither locks nor commits a return preserves it.
LEMMA OthersUnmoved ==
    ASSUME ReturnsInv, TypeOK', \A r \in Returns : rpc'[r] # rpc[r] =>
              rpc[r] \notin {"locked", "done"} /\ rpc'[r] \notin {"locked", "done"}
    PROVE  ReturnsInv'
<1>1. ASSUME NEW s \in Sales PROVE Returned(s)' = Returned(s)
  <2>1. DoneReturns(s)' = DoneReturns(s)
    BY DEF DoneReturns
  <2> QED
    BY <2>1, ReturnedIs, ReturnedNext
<1>2. \A r \in Returns : Original[r] \in Sales
  BY ReturnAssumption
<1>3. \A r \in Returns : rpc'[r] = "locked" <=> rpc[r] = "locked"
  OBVIOUS
<1>4. LineHeld'
  BY <1>1, <1>2, <1>3 DEF ReturnsInv, LineHeld
<1>5. ReturnsWithinSale'
  BY <1>1 DEF ReturnsInv, ReturnsWithinSale
<1> QED
  BY <1>4, <1>5 DEF ReturnsInv

\* createReturn preserves it: the lock it takes is held from the sum to the commit.
LEMMA ReturnReturnsInv ==
    ASSUME ReturnsInv, TypeOK', NEW r \in Returns, ReturnStep(r) PROVE ReturnsInv'
<1>0. rpc \in [Returns -> {"new", "lock", "locked", "done", "refused"}]
  BY DEF ReturnsInv, TypeOK
<1>1. CASE ReturnRead(r)
  BY <1>0, <1>1, OthersUnmoved DEF ReturnRead
<1>2. CASE ReturnReadCustomer(r)
  BY <1>2, OthersUnmoved DEF ReturnReadCustomer
<1>3. CASE ReturnLock(r)
  <2>1. CASE Back[r] > Qty[Original[r]] - Returned(Original[r])
    BY <1>0, <1>3, <2>1, OthersUnmoved DEF ReturnLock
  <2>2. CASE ~(Back[r] > Qty[Original[r]] - Returned(Original[r]))
    <3>1. rpc[r] = "lock" /\ rpc' = [rpc EXCEPT ![r] = "locked"]
      BY <1>3, <2>2 DEF ReturnLock
    <3>2. ASSUME NEW s \in Sales PROVE Returned(s)' = Returned(s)
      <4>1. DoneReturns(s)' = DoneReturns(s)
        BY <1>0, <3>1 DEF DoneReturns
      <4> QED
        BY <4>1, ReturnedIs, ReturnedNext
    <3>3. \A q \in Returns : Original[q] \in Sales
      BY ReturnAssumption
    <3>4. Returned(Original[r]) \in Nat /\ Qty[Original[r]] \in Nat /\ Back[r] \in Nat
      BY <3>3, ReturnedIs, SaleAssumption, ReturnAssumption
    <3>5. Returned(Original[r]) + Back[r] <= Qty[Original[r]]
      BY <2>2, <3>4
    <3>6. \A q \in Returns : Original[q] = Original[r] => rpc[q] # "locked"
      BY <1>3 DEF ReturnLock, LineUnlocked
    <3>7. \A q \in Returns : rpc'[q] = "locked" <=> q = r \/ rpc[q] = "locked"
      BY <1>0, <3>1
    <3>8. LineHeld'
      <4>1. ASSUME NEW p \in Returns, NEW q \in Returns, rpc'[p] = "locked",
                   rpc'[q] = "locked", Original[p] = Original[q]
            PROVE  p = q
        BY <3>6, <3>7, <4>1 DEF ReturnsInv, LineHeld
      <4>2. ASSUME NEW q \in Returns, rpc'[q] = "locked"
            PROVE  Returned(Original[q])' + Back[q] <= Qty[Original[q]]
        BY <3>2, <3>3, <3>5, <3>7, <4>2 DEF ReturnsInv, LineHeld
      <4> QED
        BY <4>1, <4>2 DEF LineHeld
    <3>9. ReturnsWithinSale'
      BY <3>2 DEF ReturnsInv, ReturnsWithinSale
    <3> QED
      BY <3>8, <3>9 DEF ReturnsInv
  <2> QED
    BY <2>1, <2>2
<1>4. CASE ReturnCommit(r)
  <2>1. rpc[r] = "locked" /\ rpc' = [rpc EXCEPT ![r] = "done"]
    BY <1>4 DEF ReturnCommit
  <2>2. \A q \in Returns : Original[q] \in Sales
    BY ReturnAssumption
  <2>3. ASSUME NEW s \in Sales, s # Original[r] PROVE Returned(s)' = Returned(s)
    <3>1. DoneReturns(s)' = DoneReturns(s)
      BY <1>0, <2>1, <2>3 DEF DoneReturns
    <3> QED
      BY <3>1, ReturnedIs, ReturnedNext
  <2>4. Returned(Original[r])' = Returned(Original[r]) + Back[r]
    <3>1. PICK A : A = DoneReturns(Original[r])
      OBVIOUS
    <3>2. PICK B : B = DoneReturns(Original[r])'
      OBVIOUS
    <3>3. A = B \ {r} /\ r \in B /\ B \subseteq Returns
      BY <1>0, <2>1, <3>1, <3>2 DEF DoneReturns
    <3>4. IsFiniteSet(B) /\ \A q \in B : Back[q] \in Int
      BY <3>3, FS_Subset, ReturnAssumption
    <3>5. SumOf(Back, B) = Back[r] + SumOf(Back, A)
      BY <3>3, <3>4, SumSplit
    <3>6. Returned(Original[r])' = SumOf(Back, B)
      BY <2>2, <3>2, ReturnedNext
    <3>7. Returned(Original[r]) = SumOf(Back, A) /\ Returned(Original[r]) \in Nat
      BY <2>2, <3>1, ReturnedIs
    <3>8. Back[r] \in Nat
      BY ReturnAssumption
    <3> QED
      BY <3>5, <3>6, <3>7, <3>8
  <2>5. Returned(Original[r])' <= Qty[Original[r]]
    BY <2>1, <2>4 DEF ReturnsInv, LineHeld
  <2>6. \A q \in Returns : rpc'[q] = "locked" <=> q # r /\ rpc[q] = "locked"
    BY <1>0, <2>1
  <2>7. LineHeld'
    <3>1. ASSUME NEW p \in Returns, NEW q \in Returns, rpc'[p] = "locked",
                 rpc'[q] = "locked", Original[p] = Original[q]
          PROVE  p = q
      BY <2>6, <3>1 DEF ReturnsInv, LineHeld
    <3>2. ASSUME NEW q \in Returns, rpc'[q] = "locked"
          PROVE  Returned(Original[q])' + Back[q] <= Qty[Original[q]]
      <4>1. q # r /\ rpc[q] = "locked"
        BY <2>6, <3>2
      <4>2. Original[q] # Original[r]
        BY <2>1, <4>1 DEF ReturnsInv, LineHeld
      <4>3. Returned(Original[q])' = Returned(Original[q])
        BY <2>2, <2>3, <4>2
      <4> QED
        BY <4>1, <4>3 DEF ReturnsInv, LineHeld
    <3> QED
      BY <3>1, <3>2 DEF LineHeld
  <2>8. ReturnsWithinSale'
    <3>1. ASSUME NEW s \in Sales PROVE Returned(s)' <= Qty[s]
      <4>1. CASE s = Original[r]
        BY <2>5, <4>1
      <4>2. CASE s # Original[r]
        BY <2>3, <4>2 DEF ReturnsInv, ReturnsWithinSale
      <4> QED
        BY <4>1, <4>2
    <3> QED
      BY <3>1 DEF ReturnsWithinSale
  <2> QED
    BY <2>7, <2>8 DEF ReturnsInv
<1> QED
  BY <1>1, <1>2, <1>3, <1>4 DEF ReturnStep

\* Every step preserves it.
LEMMA NextReturnsInv == ReturnsInv /\ TypeOK' /\ [Next]_vars => ReturnsInv'
<1> SUFFICES ASSUME ReturnsInv, TypeOK', [Next]_vars PROVE ReturnsInv'
  OBVIOUS
<1>1. ASSUME rpc' = rpc PROVE ReturnsInv'
  BY <1>1, OthersUnmoved
<1>2. ASSUME NEW s \in Sales, SaleStep(s) PROVE rpc' = rpc
  BY <1>2 DEF SaleStep, SaleRead, FindCustomer, CreateCustomer, SaleCommit
<1>3. ASSUME NEW u \in Staff, StaffStep(u) PROVE rpc' = rpc
  BY <1>3 DEF StaffStep, OpenBegin, OpenCommit, CloseBegin, SumCashSales,
              SumCashReturns, CloseIfOpen
<1>4. CASE UNCHANGED vars
  BY <1>1, <1>4 DEF vars
<1> QED
  BY <1>1, <1>2, <1>3, <1>4, ReturnReturnsInv DEF Next

\* Nothing has been returned at first.
LEMMA InitReturnsInv == Init => ReturnsInv
<1> SUFFICES ASSUME Init PROVE ReturnsInv
  OBVIOUS
<1>1. TypeOK
  BY InitDrawerInv DEF DrawerInv
<1>2. LineHeld
  BY DEF Init, LineHeld
<1>3. ASSUME NEW s \in Sales PROVE Returned(s) <= Qty[s]
  <2>1. DoneReturns(s) = {}
    BY DEF Init, DoneReturns
  <2>2. SumOf(Back, {}) = 0
    BY FS_EmptySet, SumIs
  <2>3. Returned(s) = 0
    BY <2>1, <2>2, ReturnedIs
  <2>4. Qty[s] \in Nat
    BY SaleAssumption
  <2> QED
    BY <2>3, <2>4
<1> QED
  BY <1>1, <1>2, <1>3 DEF ReturnsInv, ReturnsWithinSale

\* No line is returned more often than it was sold, however many returns of it
\* are under way at once.
THEOREM NeverOverReturned == Spec => []ReturnsWithinSale
<1>1. ReturnsInv => ReturnsWithinSale
  BY DEF ReturnsInv
<1> QED
  BY <1>1, InitReturnsInv, NextReturnsInv, DrawerTypeCorrect, PTL DEF Spec
=============================================================================
