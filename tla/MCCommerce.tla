------------------------------ MODULE MCCommerce ------------------------------
(***************************************************************************)
(* What the tenant sells at which price: price books and their entries, tax   *)
(* codes, exceptions granted at the counter, promotions and bundles, coupons,  *)
(* the arithmetic of a quote, the reference data behind the products, the lists *)
(* that count them, and what the goods cost: receipts, supplier returns and    *)
(* reversals.  No table is written by two of them, so one behaviour follows    *)
(* one part, chosen at the start.                                              *)
(***************************************************************************)
EXTENDS PriceBooks, PriceEntries, TaxCodes, PriceExceptions, Promotions, Coupons, Quotes,
        Catalogue, Listings, Purchasing

VARIABLE part

CONSTANTS s1, s2, n1, b1, b2

Line(v, q, c) == [variant |-> v, qty |-> q, unit_cost |-> c]
Paper(s, n, items, d) == [supplier |-> s, number |-> n, items |-> items, discount |-> d]

\* Three units in two lines of variant 1, one of variant 2: a discount of 10
\* cents on 3 x 101 + 50 does not divide evenly.
Discounted == Paper(s1, n1, <<Line(1, 2, 101), Line(2, 1, 50), Line(1, 1, 101)>>,
                    [amount |-> 10])
Mistyped   == Paper(s1, n1, <<Line(1, 3, 101)>>, [percent |-> 333])
Unnumbered == Paper(s2, NoNumber, <<Line(2, 2, 34)>>, [percent |-> 0])
TooCheap   == Paper(s2, NoNumber, <<Line(2, 1, 5)>>, [amount |-> 9])

SmallPapers == {Discounted, Mistyped, Unnumbered, TooCheap}
OldPapers == {Paper(s1, NoNumber, <<Line(1, 2, 33)>>, [amount |-> 0]),
              Paper(s1, NoNumber, <<Line(2, 1, 40)>>, [amount |-> 4])}

\* A manager of the branch, one of another branch, and a cashier.
Buyers == {[role |-> "branch_manager", branch |-> b1],
          [role |-> "branch_manager", branch |-> b2],
          [role |-> "cashier", branch |-> b1]}

OneQuotation == {[base |-> 5, floor |-> 4]}
TwoLimits == {[percent |-> 33, amount |-> NoLimit, increase |-> FALSE],
              [percent |-> NoLimit, amount |-> 2, increase |-> TRUE]}

Shape(t, m, p) == [type |-> t, boundTo |-> "sh", max |-> m, perCustomer |-> p]
Shapes == {Shape("single_use", 0, 0), Shape("public", 2, 1),
           Shape("customer_bound", 0, 2), Shape("public", 1, 0)}
OneShopper == [k \in Keys |-> "sh"]

Entry(l, m) == [level |-> l, minQty |-> m, price |-> 100 + m, mode |-> "inclusive",
                floor |-> IF l = "brand" THEN 90 ELSE Nothing]
Pool == {Entry("variant", 2), Entry("product", 1), Entry("product", 3), Entry("brand", 1),
         Entry("category", 2), Entry("global", 1), Entry("global", 3)}
Benefit(t, v, b, g, u, o) ==
    [type |-> t, value |-> v, buy |-> b, get |-> g, maxUnits |-> u, maxOff |-> o]
SevenBenefits ==
    {Benefit("percentage", 15, 0, 0, Nothing, Nothing), Benefit("percentage", 100, 0, 0, 2, 3),
     Benefit("percentage", 150, 0, 0, Nothing, Nothing),
     Benefit("fixed_amount", 4, 0, 0, Nothing, Nothing), Benefit("fixed_price", 2, 0, 0, 1, Nothing),
     Benefit("bogo", 50, 2, 1, Nothing, Nothing), Benefit("bogo", 100, 1, 1, 1, Nothing)}
Condition(sc, mq, ms, br, cu, cp) ==
    [scope |-> sc, minQty |-> mq, minSpend |-> ms, branch |-> br, customer |-> cu,
     needsCoupon |-> cp]
FourRunning ==
    <<Condition("brand", 1, TRUE, "any", "any", FALSE),
      Condition("brand", 3, FALSE, "any", "any", FALSE),
      Condition("all", 1, FALSE, "b1", "any", TRUE),
      Condition("all", 2, FALSE, "any", "c1", FALSE)>>
SmallLines == [scope: {"brand", "other"}, qty: {1, 2, 3}, branch: {"b1", "none"},
               customer: {"c1", "none"}, coupon: BOOLEAN]

comVars == <<pbVars, entVars, taxVars, excVars, prmVars, cpnVars, qtVars, catVars, lstVars, purVars,
             part>>

Init ==
    /\ PbInit /\ EntInit /\ TaxInit /\ ExcInit /\ PrmInit /\ CpnInit /\ QtInit /\ CatInit /\ LstInit
    /\ PurInit
    /\ part \in {"books", "entries", "taxes", "exceptions", "offers", "coupons", "quotes", "catalogue",
                "lists", "purchases"}
    /\ part # "catalogue" => desk = "offers"
    /\ part # "coupons" => coupon = NewCoupon(Shape("public", 1, 0))

Next ==
    /\ UNCHANGED part
    /\ \/ /\ part = "books"      /\ PbNext
          /\ UNCHANGED <<entVars, taxVars, excVars, prmVars, cpnVars, qtVars, catVars, lstVars, purVars>>
       \/ /\ part = "entries"    /\ EntNext
          /\ UNCHANGED <<pbVars, taxVars, excVars, prmVars, cpnVars, qtVars, catVars, lstVars, purVars>>
       \/ /\ part = "taxes"      /\ TaxNext
          /\ UNCHANGED <<pbVars, entVars, excVars, prmVars, cpnVars, qtVars, catVars, lstVars, purVars>>
       \/ /\ part = "exceptions" /\ ExcNext
          /\ UNCHANGED <<pbVars, entVars, taxVars, prmVars, cpnVars, qtVars, catVars, lstVars, purVars>>
       \/ /\ part = "offers"     /\ PrmNext
          /\ UNCHANGED <<pbVars, entVars, taxVars, excVars, cpnVars, qtVars, catVars, lstVars, purVars>>
       \/ /\ part = "coupons"    /\ CpnNext
          /\ UNCHANGED <<pbVars, entVars, taxVars, excVars, prmVars, qtVars, catVars, lstVars, purVars>>
       \/ /\ part = "quotes"     /\ QtNext
          /\ UNCHANGED <<pbVars, entVars, taxVars, excVars, prmVars, cpnVars, catVars, lstVars, purVars>>
       \/ /\ part = "catalogue"  /\ CatNext
          /\ UNCHANGED <<pbVars, entVars, taxVars, excVars, prmVars, cpnVars, qtVars, lstVars, purVars>>
       \/ /\ part = "lists"      /\ LstNext
          /\ UNCHANGED <<pbVars, entVars, taxVars, excVars, prmVars, cpnVars, qtVars, catVars, purVars>>
       \/ /\ part = "purchases"  /\ PurNext
          /\ UNCHANGED <<pbVars, entVars, taxVars, excVars, prmVars, cpnVars, qtVars, catVars, lstVars>>

Spec == Init /\ [][Next]_comVars

\* Two requests that are on their way are interchangeable; a behaviour uses
\* those of one part, so the two of every part are exchanged at once.  So are
\* two clerks who work on tax codes, whichever requests are theirs.
Twins == {BookCalls, ListSlots, Commands}
Exchanges(p, S) == \A x \in S : p[x] \in S \ {x}
Leaves(p, S) == \A x \in S : p[x] = x
Mirror ==
    {p \in Permutations(UNION Twins \cup TaxClerks) :
        /\ (\A S \in Twins : Exchanges(p, S)) \/ Leaves(p, UNION Twins)
        /\ Exchanges(p, TaxClerks) \/ Leaves(p, TaxClerks)}

-----------------------------------------------------------------------------
(* Nobody approves what they submitted, and nobody a price book they created: *)
(* only an approval that read the row before it was submitted gets past.  Who *)
(* drafted a tax code may approve it when a colleague submits it.             *)
ApprovedByAnother == IndependentApproval /\ TaxApprovedByAnother

(* There is one price and one rate in force, and a history behind it: one     *)
(* active default book per scope, one active version of an entry with its     *)
(* predecessors, one active tax code with the rate that was submitted.        *)
OneInForce == OneDefaultPerScope /\ EntryHistory /\ RateTraceable

(* A quote is right: the best entry, the exact tax, a promotion that leaves    *)
(* the price less its discount to pay, to the rounding of a unit, a bundle     *)
(* whose parts add up to the cent, and no cost in what a caller without cost   *)
(* visibility sees.                                                           *)
QuoteSound ==
    part = "quotes" => /\ QuoteIsBest /\ TaxExact /\ BenefitWithinLine
                       /\ BundleAddsUp /\ CostHidden

(* Books and codes go through one lifecycle, however their requests overlap:  *)
(* edited as drafts, approved once and not by the submitter (a book not by its *)
(* creator either), and in force in the step that retires what was in force   *)
(* before.                                                                    *)
OneLifecycle == BookVersions!Spec /\ CodeVersions!Spec

=============================================================================
