---------------------------- MODULE PriceExceptions ----------------------------
(***************************************************************************)
(* Decisions that depart from the price list: manual overrides, manual        *)
(* discounts and tax exemptions, the limits a role has for the first two,     *)
(* and the second identity that approves an override below the floor or an    *)
(* exemption.  Money is in cents.  A request that reads first and writes       *)
(* later is open in `excCalls`.                                                *)
(***************************************************************************)
EXTENDS Integers, FiniteSets

CONSTANTS
    Staff,          \* identities at work
    Trusted,        \* the ones with pricing.manual-override.above-threshold
    Quotations,     \* [base, floor] the pricing service may answer
    Asked,          \* prices and amounts a request may name
    Limits,         \* policies an owner may save for the role
    RowIds,         \* identifiers of override, discount and exemption rows
    ExcCalls,       \* requests that can be open at the same time
    MaxExcCalls     \* bound: requests that read before they write

ASSUME PriceExceptionsAssumption == Trusted \subseteq Staff /\ MaxExcCalls \in Nat

VARIABLES
    limits,     \* PriceOverridePolicy row of the role, or NoLimits
    rows,       \* PriceOverride, Discount and TaxExemption rows
    excCalls,   \* open requests: what each has read
    excCount    \* requests started

excVars == <<limits, rows, excCalls, excCount>>

Unapproved == "unapproved"
NoLimit == -1
NoLimits == [percent |-> NoLimit, amount |-> NoLimit, increase |-> TRUE]

ExcIdle == [op |-> "idle"]
ExcInit ==
    /\ limits = NoLimits
    /\ rows = <<>>
    /\ excCalls = [c \in ExcCalls |-> ExcIdle]
    /\ excCount = 0

\* A generated id: which one does not matter.
FreshRow == CHOOSE x \in RowIds : x \notin DOMAIN rows
Room == RowIds \ DOMAIN rows # {}
Insert(row) == rows' = [x \in DOMAIN rows \cup {FreshRow} |->
                           IF x \in DOMAIN rows THEN rows[x] ELSE row]
ExcOpen(c, call) ==
    /\ excCalls[c] = ExcIdle /\ excCount < MaxExcCalls
    /\ excCount' = excCount + 1
    /\ excCalls' = [excCalls EXCEPT ![c] = call]
    /\ UNCHANGED <<limits, rows>>
ExcClose(c) == excCalls' = [excCalls EXCEPT ![c] = ExcIdle] /\ UNCHANGED excCount

\* savePolicy: one row per role; find, then update or create.
SaveLimits(p) ==
    /\ limits # p /\ limits' = p
    /\ UNCHANGED <<rows, excCalls, excCount>>

-----------------------------------------------------------------------------
(* Overrides and discounts: the quote, then the limits, then the insert. *)

\* What a role may take off: a share of the base price and an amount.
WithinLimits(p, base, off) ==
    /\ p.percent # NoLimit => off * 100 <= p.percent * base \/ base <= 0
    /\ p.amount # NoLimit => off <= p.amount
OverrideWithin(p, base, price) ==
    /\ price > base => p.increase
    /\ price < base => WithinLimits(p, base, base - price)
MayAskBelowFloor(q, price, by) == price < q.floor => by \in Trusted

OverrideQuoted(c, by, q, price) ==
    /\ price >= 0 /\ Room
    /\ ExcOpen(c, [op |-> "override", by |-> by, quote |-> q, price |-> price])
OverrideRecorded(c) ==
    /\ excCalls[c].op = "override"
    /\ LET call == excCalls[c]  q == call.quote IN
       IF /\ OverrideWithin(limits, q.base, call.price)
          /\ MayAskBelowFloor(q, call.price, call.by) /\ Room
       THEN Insert([kind |-> "override", base |-> q.base, final |-> call.price,
                    pending |-> call.price < q.floor, by |-> call.by,
                    approvedBy |-> Unapproved])
       ELSE UNCHANGED rows
    /\ ExcClose(c) /\ UNCHANGED limits

\* Half a cent goes up, as Prisma.Decimal rounds it.
HalfUp(n, d) == (2 * n + d) \div (2 * d)
DiscountedPrice(base, basis, amount) ==
    IF basis = "percentage" THEN HalfUp(base * (100 - amount), 100) ELSE base - amount
DiscountPossible(base, basis, amount) ==
    /\ basis = "percentage" => amount <= 100
    /\ DiscountedPrice(base, basis, amount) >= 0

DiscountQuoted(c, by, q, basis, amount) ==
    /\ Room /\ DiscountPossible(q.base, basis, amount)
    /\ ExcOpen(c, [op |-> "discount", by |-> by, base |-> q.base,
                   final |-> DiscountedPrice(q.base, basis, amount)])
DiscountRecorded(c) ==
    /\ excCalls[c].op = "discount"
    /\ LET call == excCalls[c] IN
       IF WithinLimits(limits, call.base, call.base - call.final) /\ Room
       THEN Insert([kind |-> "discount", base |-> call.base, final |-> call.final,
                    pending |-> FALSE, by |-> call.by, approvedBy |-> Unapproved])
       ELSE UNCHANGED rows
    /\ ExcClose(c) /\ UNCHANGED limits

\* approveOverride looks first, then writes with everything it checked in the
\* statement's predicate.
AwaitsApproval(x) == rows[x].kind = "override" /\ rows[x].pending
                     /\ rows[x].approvedBy = Unapproved
\* A mutant: an override that has an approver can get another.
AnyPendingOverride(x, by) == rows[x].kind = "override" /\ rows[x].pending
                             /\ rows[x].by # by
OverrideApprovable(x, by) == AwaitsApproval(x) /\ rows[x].by # by
ApprovalLooked(c, x, by) ==
    /\ x \in DOMAIN rows /\ AwaitsApproval(x) /\ rows[x].by # by
    /\ ExcOpen(c, [op |-> "approve", id |-> x, by |-> by])
ApprovalRecorded(c) ==
    /\ excCalls[c].op = "approve"
    /\ LET call == excCalls[c] IN
       rows' = IF OverrideApprovable(call.id, call.by)
               THEN [rows EXCEPT ![call.id].approvedBy = call.by] ELSE rows
    /\ ExcClose(c) /\ UNCHANGED limits

-----------------------------------------------------------------------------
(* Exemptions of one customer in one category. *)

\* apply: always pending; TaxExemption_one_live_per_customer_category.
Live(x) == rows[x].kind = "exemption" /\ rows[x].status # "revoked"
ApplyExemption(by) ==
    /\ Room /\ \A x \in DOMAIN rows : ~Live(x)
    /\ Insert([kind |-> "exemption", status |-> "pending", by |-> by,
               approvedBy |-> Unapproved])
    /\ UNCHANGED <<limits, excCalls, excCount>>

ExemptionLooked(c, x, by) ==
    /\ x \in DOMAIN rows /\ rows[x].kind = "exemption" /\ rows[x].by # by
    /\ ExcOpen(c, [op |-> "exempt", id |-> x, by |-> by])
\* updateMany: only a row that is still pending.
ExemptionPending(x) == rows[x].status = "pending"
ExemptionApproved(c) ==
    /\ excCalls[c].op = "exempt"
    /\ LET call == excCalls[c] IN
       rows' = IF ExemptionPending(call.id)
               THEN [rows EXCEPT ![call.id].status = "approved",
                                 ![call.id].approvedBy = call.by] ELSE rows
    /\ ExcClose(c) /\ UNCHANGED limits

RevokeExemption(x) ==
    /\ x \in DOMAIN rows /\ Live(x)
    /\ rows' = [rows EXCEPT ![x].status = "revoked"]
    /\ UNCHANGED <<limits, excCalls, excCount>>

ExcNext ==
    \/ \E p \in Limits : SaveLimits(p)
    \/ \E by \in Staff : ApplyExemption(by)
    \/ \E x \in RowIds : RevokeExemption(x)
    \/ \E c \in ExcCalls :
          \/ \E by \in Staff :
                \/ \E q \in Quotations, n \in Asked :
                      \/ OverrideQuoted(c, by, q, n)
                      \/ \E basis \in {"percentage", "amount"} :
                            DiscountQuoted(c, by, q, basis, n)
                \/ \E x \in RowIds : ApprovalLooked(c, x, by) \/ ExemptionLooked(c, x, by)
          \/ OverrideRecorded(c) \/ DiscountRecorded(c)
          \/ ApprovalRecorded(c) \/ ExemptionApproved(c)

-----------------------------------------------------------------------------
(* Evidence is written once.  Whatever requests overlap, a row's approver is *)
(* never replaced and never who asked, only a below-floor override or an     *)
(* exemption gets one, a revoked exemption never comes back, and no row       *)
(* changes in any other way.                                                  *)
EvidenceOf(r) == [k \in DOMAIN r \ {"approvedBy", "status"} |-> r[k]]
EvidenceKept ==
    [][\A x \in DOMAIN rows :
          /\ x \in DOMAIN rows' /\ EvidenceOf(rows'[x]) = EvidenceOf(rows[x])
          /\ rows'[x].approvedBy # rows[x].approvedBy =>
                /\ rows[x].approvedBy = Unapproved /\ rows'[x].approvedBy # rows[x].by
                /\ rows[x].kind = "override" => rows[x].pending
          /\ rows[x].kind = "exemption" =>
                <<rows[x].status, rows'[x].status>> \notin
                   {<<"revoked", "pending">>, <<"revoked", "approved">>,
                    <<"approved", "pending">>}]_excVars

=============================================================================
