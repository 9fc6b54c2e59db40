--------------------------- MODULE SellerPeriods ----------------------------
(***************************************************************************)
(* Seller commissions: the report, the settings and the closing of a period *)
(* (sellers.service.ts, sellers.repository.ts).  closePeriod looks up the   *)
(* settings twice, once for itself and once in report(), and beside them    *)
(* reads sellers, sales and returns, all at once in statements of their     *)
(* own; then it saves the figures for good.  Sales made offline reach the   *)
(* server days after they happened and are counted on the day they happened. *)
(***************************************************************************)
EXTENDS Integers, Sequences, FiniteSets, FiniteSetsExt

CONSTANTS
    Sellers,
    Sales,      \* sales that are going to be made: [id, seller, day, amount]
    Plans,      \* commission terms: [rate, target, bonus]; target -1: none
    Default,    \* the terms a new settings row starts with
    Closers,    \* requests that use the settings at the same time
    LastDay,    \* bound: days
    MaxChanges  \* bound: requests that use the settings, and other tenants' first ones

ASSUME SellerAssumption ==
    /\ LastDay \in Nat /\ MaxChanges \in Nat
    /\ \A s \in Sales : s.seller \in Sellers /\ s.day \in 1 .. LastDay /\ s.amount \in Nat
    /\ Default \in Plans

VARIABLES
    today,
    arrived,   \* SalesInvoice: the sales the server has
    returns,   \* Return: <<sale, day>>, of the whole sale
    settings,  \* SellerCommissionSettings rows of the tenant: [id, terms]
    lastId,    \* the highest id of such a row, of any tenant
    override,  \* SellerCommissionOverride: terms of single sellers
    periods,   \* SellerCommissionPeriod with its rows
    closers,   \* what every request is doing
    look,      \* how far the getSettings calls of every request are
    changes,
    late,      \* history: sales that arrived after a closing had read their day
    firstUse   \* history: two lookups met the tenant without settings

selVars == <<today, arrived, returns, settings, lastId, override, periods, closers, look,
             changes, late, firstUse>>

\* getSettings runs twice in a closing: for the period itself and in its report.
Lookups == {"period", "report"}
Statements == {"sales", "returns", "terms"}

NoOverride == [rate |-> -1, target |-> -1, bonus |-> -1]
FreeCloser == [pc |-> "free"]
NotLooking == [pc |-> "idle", id |-> 0, plan |-> Default]

SelInit ==
    /\ today = 1
    /\ arrived = {} /\ returns = {} /\ settings = {} /\ lastId = 0 /\ periods = {}
    /\ override = [s \in Sellers |-> NoOverride]
    /\ closers = [c \in Closers |-> FreeCloser]
    /\ look = [x \in Closers \X Lookups |-> NotLooking]
    /\ changes = 0 /\ late = {} /\ firstUse = FALSE

\* businessDateRange: whole business days, the last one included.
InRange(day, from, to) == from <= day /\ day <= to

\* Money is in cents and rates in percent; money() rounds half up.
Money(a) == IF a >= 0 THEN (2*a + 100) \div 200 ELSE -((-2*a + 100) \div 200)

\* What report() works out for a seller from the sales and returns of a range:
\* the net sales, and with the terms the commission.
Net(seller, sold, back) ==
      MapThenSumSet(LAMBDA s : s.amount, {s \in sold : s.seller = seller})
    - MapThenSumSet(LAMBDA r : r[1].amount, {r \in back : r[1].seller = seller})
Row(seller, sold, back, terms) ==
    LET net     == Net(seller, sold, back)
        reached == terms.target # -1 /\ net >= terms.target
    IN [net |-> net, total |-> Money(net * terms.rate) + IF reached THEN terms.bonus ELSE 0]

\* The override wins term by term.
TermsOf(o, plan) ==
    LET Pick(own, shared) == IF own # -1 THEN own ELSE shared
    IN [rate |-> Pick(o.rate, plan.rate), target |-> Pick(o.target, plan.target),
        bonus |-> Pick(o.bonus, plan.bonus)]

\* listAttributedSales and listAttributedReturns
SalesIn(from, to) == {s \in arrived : InRange(s.day, from, to)}
ReturnsIn(from, to) == {r \in returns : InRange(r[2], from, to)}

\* findPeriod
IsClosed(from, to) == \E p \in periods : p.from = from /\ p.to = to

\* A closing has read the sales of that day.
HasRead(c, day) ==
    /\ closers[c].pc = "close" /\ "sales" \in closers[c].read
    /\ InRange(day, closers[c].from, closers[c].to)

\* A sale happens and is uploaded, on its day or later.
SaleArrives(s) ==
    /\ s.day <= today /\ s \notin arrived
    /\ arrived' = arrived \cup {s}
    /\ late' = IF \/ \E p \in periods : InRange(s.day, p.from, p.to)
                  \/ \E c \in Closers : HasRead(c, s.day)
               THEN late \cup {s} ELSE late
    /\ UNCHANGED <<today, returns, settings, lastId, override, periods, closers, look,
                   changes, firstUse>>

\* The server dates a return when it is made.
ReturnSale(s) ==
    /\ s \in arrived /\ ~\E r \in returns : r[1] = s
    /\ returns' = returns \cup {<<s, today>>}
    /\ UNCHANGED <<today, arrived, settings, lastId, override, periods, closers, look,
                   changes, late, firstUse>>

NextDay ==
    /\ today <= LastDay /\ today' = today + 1
    /\ UNCHANGED <<arrived, returns, settings, lastId, override, periods, closers, look,
                   changes, late, firstUse>>

\* A request begins, and with it some lookups of the settings.
BeginRequest(c, request, ls) ==
    /\ closers[c] = FreeCloser /\ changes < MaxChanges
    /\ closers' = [closers EXCEPT ![c] = request]
    /\ look' = [x \in Closers \X Lookups |->
            IF x[1] # c THEN look[x]
            ELSE IF x[2] \in ls THEN [pc |-> "find", id |-> 0, plan |-> Default]
            ELSE NotLooking]
    /\ changes' = changes + 1
    /\ UNCHANGED <<today, arrived, returns, settings, lastId, override, periods, late, firstUse>>

Closing(from, to) ==
    [pc |-> "close", from |-> from, to |-> to, read |-> {},
     sales |-> {}, returns |-> {}, terms |-> [s \in Sellers |-> NoOverride]]

\* A mutant: a period may be closed on its last day.
CloseEarly(c, from, to) ==
    from <= to /\ to <= today /\ ~IsClosed(from, to) /\ BeginRequest(c, Closing(from, to), Lookups)
\* closePeriod: the period is over and not closed yet.
ClosePeriod(c, from, to) ==
    from <= to /\ to < today /\ ~IsClosed(from, to) /\ BeginRequest(c, Closing(from, to), Lookups)
\* settings() and a report look the settings up, and so does updateSettings.
OpenReports(c) == BeginRequest(c, [pc |-> "page"], {"report"})
ChangeSettings(c, plan) == BeginRequest(c, [pc |-> "update", plan |-> plan], {"report"})

LookStep(c, l, to) ==
    /\ look' = [look EXCEPT ![<<c, l>>] = to]
    /\ UNCHANGED <<today, arrived, returns, override, periods, closers, changes, late>>
Found(r) == [pc |-> "done", id |-> r.id, plan |-> r.terms]
Creating(x) == look[x].pc \in {"allocate", "create"}

\* getSettings: any row of the tenant, or ...
FindSettings(c, l) ==
    /\ look[<<c, l>>].pc = "find"
    /\ \/ \E r \in settings : LookStep(c, l, Found(r))
       \/ settings = {} /\ LookStep(c, l, [NotLooking EXCEPT !.pc = "allocate"])
    /\ firstUse' = (firstUse \/ (settings = {} /\ \E x \in Closers \X Lookups : Creating(x)))
    /\ UNCHANGED <<settings, lastId>>
\* ... one above the highest id there is, of whatever tenant ...
HighestId(c, l) ==
    /\ look[<<c, l>>].pc = "allocate"
    /\ LookStep(c, l, [NotLooking EXCEPT !.pc = "create", !.id = lastId + 1])
    /\ UNCHANGED <<settings, lastId, firstUse>>
\* ... a new row with it, unless the id was taken meanwhile ...
CreateSettings(c, l) ==
    LET id == look[<<c, l>>].id
        row == [id |-> id, terms |-> Default]
    IN /\ look[<<c, l>>].pc = "create"
       /\ \/ /\ id > lastId
             /\ settings' = settings \cup {row} /\ lastId' = id
             /\ LookStep(c, l, Found(row))
          \/ /\ id <= lastId
             /\ LookStep(c, l, [NotLooking EXCEPT !.pc = "again"])
             /\ UNCHANGED <<settings, lastId>>
       /\ UNCHANGED firstUse
\* ... and then the tenant's row is read, which is there unless another
\* tenant took the id.
FindAgain(c, l) ==
    /\ look[<<c, l>>].pc = "again"
    /\ \/ \E r \in settings : LookStep(c, l, Found(r))
       \/ settings = {} /\ LookStep(c, l, [NotLooking EXCEPT !.pc = "failed"])
    /\ UNCHANGED <<settings, lastId, firstUse>>

\* Another tenant's first use of its settings takes an id.
OtherTenant ==
    /\ changes < MaxChanges /\ changes' = changes + 1
    /\ lastId' = lastId + 1
    /\ UNCHANGED <<today, arrived, returns, settings, override, periods, closers, look,
                   late, firstUse>>

\* report: one of its statements is answered.
ReadStep(c, statement, k) ==
    /\ closers[c].pc = "close" /\ statement \notin closers[c].read
    /\ closers' = [closers EXCEPT ![c] = [k EXCEPT !.read = @ \cup {statement}]]
    /\ UNCHANGED <<today, arrived, returns, settings, lastId, override, periods, look,
                   changes, late, firstUse>>
ReadSales(c) ==
    LET k == closers[c] IN ReadStep(c, "sales", [k EXCEPT !.sales = SalesIn(k.from, k.to)])
ReadReturns(c) ==
    LET k == closers[c] IN ReadStep(c, "returns", [k EXCEPT !.returns = ReturnsIn(k.from, k.to)])
ReadTerms(c) ==
    LET k == closers[c] IN ReadStep(c, "terms", [k EXCEPT !.terms = override])

LooksEnded(c, ends) == \A l \in Lookups : look[<<c, l>>].pc \in ends
Release(c) ==
    /\ closers' = [closers EXCEPT ![c] = FreeCloser]
    /\ look' = [x \in Closers \X Lookups |-> IF x[1] = c THEN NotLooking ELSE look[x]]

\* savePeriod, when everything is read; the unique dates refuse it a second time.
SavePeriod(c) ==
    /\ closers[c].pc = "close" /\ closers[c].read = Statements /\ LooksEnded(c, {"done"})
    /\ LET k == closers[c]
           rows == [s \in Sellers |->
                      Row(s, k.sales, k.returns, TermsOf(k.terms[s], look[<<c, "report">>].plan))]
       IN periods' = IF IsClosed(k.from, k.to) THEN periods
                     ELSE periods \cup {[from |-> k.from, to |-> k.to, rows |-> rows,
                                         terms |-> look[<<c, "period">>].plan]}
    /\ Release(c)
    /\ UNCHANGED <<today, arrived, returns, settings, lastId, override, changes, late, firstUse>>
\* updateSettings writes the row that was found.
UpdateSettings(c) ==
    /\ closers[c].pc = "update" /\ look[<<c, "report">>].pc = "done"
    /\ settings' = {IF r.id = look[<<c, "report">>].id
                    THEN [id |-> r.id, terms |-> closers[c].plan] ELSE r : r \in settings}
    /\ Release(c)
    /\ UNCHANGED <<today, arrived, returns, lastId, override, periods, changes, late, firstUse>>
\* A page is shown; or a lookup failed and nothing is saved, when the other one
\* of the request has ended as well.
Respond(c) ==
    /\ closers[c] # FreeCloser
    /\ LooksEnded(c, {"idle", "done", "failed"})
    /\ closers[c].pc = "page" \/ \E l \in Lookups : look[<<c, l>>].pc = "failed"
    /\ Release(c)
    /\ UNCHANGED <<today, arrived, returns, settings, lastId, override, periods, changes, late,
                   firstUse>>

\* updateSellerSettings upserts.
UpdateSellerSettings(s, plan) ==
    /\ changes < MaxChanges
    /\ override' = [override EXCEPT ![s] = plan]
    /\ changes' = changes + 1
    /\ UNCHANGED <<today, arrived, returns, settings, lastId, periods, closers, look, late,
                   firstUse>>

\* The seller reports page: any range can be closed, any terms saved.
SellerReportsPage(c) ==
    \/ \E f, t \in 1 .. LastDay : ClosePeriod(c, f, t)
    \/ OpenReports(c)
    \/ \E p \in Plans : ChangeSettings(c, p) \/ \E s \in Sellers : UpdateSellerSettings(s, p)

SelNext ==
    \/ \E s \in Sales : SaleArrives(s) \/ ReturnSale(s)
    \/ NextDay \/ OtherTenant
    \/ \E c \in Closers : SellerReportsPage(c)
    \/ \E c \in Closers, l \in Lookups : \/ FindSettings(c, l) \/ HighestId(c, l)
                                        \/ CreateSettings(c, l) \/ FindAgain(c, l)
    \/ \E c \in Closers : \/ ReadSales(c) \/ ReadReturns(c) \/ ReadTerms(c)
                          \/ SavePeriod(c) \/ UpdateSettings(c) \/ Respond(c)
-----------------------------------------------------------------------------
\* The net sales a closed period paid for are still what the books say of it,
\* for every sale that had reached the server when it was closed: neither a
\* return nor a sale can be added to a period that is over.  And the tenant has
\* one settings row, unless two lookups met it without any: those of two
\* requests, or the two that one closing makes.
CommissionReproducible ==
    /\ \A p \in periods, s \in Sellers :
         (\A x \in late : ~InRange(x.day, p.from, p.to)) =>
            p.rows[s].net = Net(s, SalesIn(p.from, p.to), ReturnsIn(p.from, p.to))
    /\ \A a, b \in settings : a.id # b.id => firstUse
=============================================================================
