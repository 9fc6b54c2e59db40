-------------------------------- MODULE Quotes --------------------------------
(***************************************************************************)
(* What a line costs: the price entry that applies, the tax split, the        *)
(* promotion that is shown with it, the parts of a bundle's price, and what    *)
(* of all that a caller without cost visibility gets to see.  Pure functions    *)
(* of the service, one question and answer a behaviour; money in cents,         *)
(* rates in percent.                                                           *)
(***************************************************************************)
EXTENDS Integers, FiniteSets, Sequences, SequencesExt, FiniteSetsExt

CONSTANTS
    EntryPool,    \* price entries a tenant may have: [level, minQty, price, mode, floor]
    Amounts,      \* authored amounts and costs
    TaxRates,     \* rates
    Quantities,   \* quantities of a line
    Benefits,     \* benefits of a promotion: [type, value, buy, get, maxUnits, maxOff]
    Running,      \* active promotions in order of priority: a sequence of conditions
    Lines,        \* lines they are evaluated for
    BundlePrices, \* prices of a bundle
    BundleSizes,  \* how many components one may have
    Standalone    \* standalone totals of a bundle's components

VARIABLE asked    \* the question that was answered last

qtVars == <<asked>>
Nothing == -1
Levels == {"variant", "product", "brand", "category", "global"}
Modes == {"inclusive", "exclusive"}

(* Money is cents and never negative, a line has at least one unit and a      *)
(* bundle at least one component; a cap of zero is no cap.                    *)
ASSUME QuotesAssumption ==
    /\ \A e \in EntryPool :
          /\ e.level \in Levels /\ e.mode \in Modes
          /\ e.minQty \in Int /\ e.price \in Nat
    /\ Amounts \subseteq Nat /\ TaxRates \subseteq Nat
    /\ Quantities \subseteq Nat \ {0}
    /\ \A p \in Benefits :
          /\ p.type \in {"percentage", "bogo", "fixed_amount", "fixed_price"}
          /\ p.value \in Nat /\ p.buy \in Nat /\ p.get \in Nat
          /\ {p.maxUnits, p.maxOff} \subseteq (Nat \ {0}) \cup {Nothing}
    /\ Len(Running) \in Nat
    /\ BundlePrices \subseteq Nat /\ Standalone \subseteq Nat
    /\ BundleSizes \subseteq Nat \ {0}

-----------------------------------------------------------------------------
(* The entry that applies. *)

ScopePriority == <<"variant", "product", "brand", "category", "global">>
\* Entries at a level the variant has, whose quantity break the line clears.
Candidates(entries, levels, qty, level) ==
    {e \in entries : e.level = level /\ level \in levels /\ e.minQty <= qty}
Tightest(cands) == {e \in cands : \A f \in cands : f.minQty <= e.minQty}
\* quote: the first level with a candidate, there the highest break.
Winner(entries, levels, qty) ==
    LET hit == SelectInSeq(ScopePriority,
                   LAMBDA l : Candidates(entries, levels, qty, l) # {}) IN
    IF hit = 0 THEN {} ELSE Tightest(Candidates(entries, levels, qty, ScopePriority[hit]))

-----------------------------------------------------------------------------
(* The tax split. *)

\* money(n / d), half a cent up, for n >= 0.
Cents(n, d) == (2 * n + d) \div (2 * d)
InclusiveNet(gross, rate) == Cents(gross * 100, 100 + rate)
TaxSplit(authored, rate, mode, exempt) ==
    LET net == IF mode = "inclusive" THEN InclusiveNet(authored, rate) ELSE authored
        tax == CASE exempt -> 0
                 [] ~exempt /\ mode = "inclusive" -> authored - net
                 [] OTHER -> Cents(net * rate, 100) IN
    [net |-> net, tax |-> tax, gross |-> net + tax,
     rate |-> IF exempt THEN 0 ELSE rate, exempt |-> exempt]
\* assertNoSilentZero: a line whose tax rounds away is refused, not recorded.
Recordable(t) == t.tax # 0 \/ t.rate = 0 \/ t.net = 0 \/ t.exempt

-----------------------------------------------------------------------------
(* The benefit of a promotion on a line. *)

AtMost(n, cap) == IF cap # Nothing /\ cap < n THEN cap ELSE n
DiscountedUnits(p, qty) ==
    IF p.type = "bogo"
    THEN IF p.buy <= 0 \/ p.get <= 0 THEN 0
         ELSE AtMost((qty \div (p.buy + p.get)) * p.get, p.maxUnits)
    ELSE AtMost(qty, p.maxUnits)
RawDiscount(p, unit, qty) ==
    LET n == DiscountedUnits(p, qty) IN
    CASE p.type \in {"percentage", "bogo"} -> Cents(unit * n * p.value, 100)
      [] p.type = "fixed_amount" -> p.value * n
      [] p.type = "fixed_price"  -> IF p.value >= unit THEN 0 ELSE (unit - p.value) * n
Clamp(n, lo, hi) == IF n < lo THEN lo ELSE IF n > hi THEN hi ELSE n
CentsSigned(n, d) == IF n < 0 THEN -Cents(-n, d) ELSE Cents(n, d)
\* A mutant of UnitGross: every unit bears the discount of the whole line.
UnitGrossOfLine(unit, off, qty, rate) == Cents(unit * (100 + rate), 100) - off
\* With an inclusive price the discount, computed on the net, comes out of the
\* gross of a unit.
UnitGross(unit, off, qty, rate) == CentsSigned(Cents(unit * (100 + rate), 100) * qty - off, qty)
\* computeBenefit.
ComputeBenefit(p, unit, qty, rate, mode) ==
    LET off == AtMost(RawDiscount(p, unit, qty), p.maxOff)
        lineNet == Clamp(unit * qty - off, 0, unit * qty)
        tax == Cents(Cents(lineNet, qty) * rate * qty, 100)
        unitGross == UnitGross(unit, off, qty, rate) IN
    IF off <= 0 THEN [applied |-> FALSE]
    ELSE [applied |-> TRUE, off |-> off, units |-> DiscountedUnits(p, qty), net |-> lineNet,
          tax |-> IF mode = "exclusive" THEN tax
                  ELSE (unitGross - CentsSigned(unitGross * 100, 100 + rate)) * qty,
          gross |-> IF mode = "exclusive" THEN lineNet + tax ELSE unitGross * qty]

\* An order condition cannot be judged on one line; a coupon has to fit.
Eligible(p, line) ==
    /\ p.scope \in {"all", line.scope} /\ p.minQty <= line.qty
    /\ ~p.minSpend
    /\ p.branch \in {"any", line.branch} /\ p.customer \in {"any", line.customer}
    /\ p.needsCoupon => line.coupon
\* evaluate: the first eligible promotion in order of priority; a failure on
\* the way shows none.
Evaluate(ordered, line, fails) ==
    LET first == SelectInSeq(ordered, LAMBDA p : Eligible(p, line)) IN
    IF fails \/ first = 0 THEN {} ELSE {ordered[first]}

-----------------------------------------------------------------------------
(* The parts of a bundle's price. *)

SumSeq(s) == FoldSeq(+, 0, s)
\* Math.round of a share, for shares that are not negative.
Share(price, own, all) == Cents(price * own, all)
AllocatePrice(price, standalone) ==
    LET all == SumSeq(standalone)
        parts == [i \in DOMAIN standalone |-> Share(price, standalone[i], all)]
        rest == price - SumSeq(parts) IN
    [parts EXCEPT ![Len(parts)] = @ + rest]

-----------------------------------------------------------------------------
(* Cost visibility. *)

Without(row, fields) == [f \in DOMAIN row \ fields |-> row[f]]
\* offers: the floor or ninety percent of the price, whichever is more.
SuggestionRow(price, floor) ==
    [current |-> price, min_allowed_price |-> floor,
     suggested_price |-> LET cut == Cents(price * 90, 100) IN IF floor > cut THEN floor ELSE cut]
\* Both fields in one pass: the second test reads the first field.
StripSuggestion(row) ==
    Without(row, {"min_allowed_price"} \cup
                 IF row.suggested_price = row.min_allowed_price THEN {"suggested_price"} ELSE {})
\* A quote loses its floor and everything that says where the price came from.
ProjectQuote(q) == Without(q, {"min_allowed_price", "floor_is_cost_derived", "source"})
QuoteRow(e, rate, cost) ==
    LET t == TaxSplit(e.price, rate, e.mode, FALSE) IN
    [net_price |-> t.net, selling_price |-> t.gross, tax_amount |-> t.tax,
     min_allowed_price |-> IF e.floor = Nothing THEN cost ELSE e.floor,
     floor_is_cost_derived |-> e.floor = Nothing, source |-> e.level]

-----------------------------------------------------------------------------
QtInit == asked = [of |-> "nothing"]

AskPrice ==
    \E es \in SUBSET EntryPool, q \in Quantities, brand \in BOOLEAN :
        asked' = [of |-> "price", entries |-> es, qty |-> q,
                  levels |-> {"variant", "product", "category", "global"}
                             \cup IF brand THEN {"brand"} ELSE {}]
AskTax ==
    \E a \in Amounts, r \in TaxRates, m \in Modes, x \in BOOLEAN :
        asked' = [of |-> "tax", amount |-> a, rate |-> r, mode |-> m, exempt |-> x]
AskBenefit ==
    \E p \in Benefits, a \in Amounts, q \in Quantities, r \in TaxRates, m \in Modes :
        asked' = [of |-> "benefit", promo |-> p, amount |-> a, qty |-> q, rate |-> r, mode |-> m]
AskPromotion == \E l \in Lines : asked' = [of |-> "promotion", line |-> l]
AskBundle ==
    \E b \in BundlePrices, n \in BundleSizes : \E s \in [1..n -> Standalone] :
        /\ SumSeq(s) > 0
        /\ asked' = [of |-> "bundle", price |-> b, standalone |-> s]
AskMasked ==
    \E p, c \in Amounts : asked' = [of |-> "masked", price |-> p, cost |-> c]

QtNext ==
    /\ asked.of = "nothing"
    /\ AskPrice \/ AskTax \/ AskBenefit \/ AskPromotion \/ AskBundle \/ AskMasked

-----------------------------------------------------------------------------
(* The entry that prices a line is one no other entry beats: nothing that     *)
(* qualifies sits at a more specific level, or at the same level with a       *)
(* tighter quantity break; and a line has a price whenever anything           *)
(* qualifies, so that no sale is refused for want of one.                     *)
Rank(level) == CHOOSE i \in 1..5 : ScopePriority[i] = level
Beats(f, e) == Rank(f.level) < Rank(e.level) \/ (f.level = e.level /\ f.minQty > e.minQty)
QuoteIsBest ==
    asked.of = "price" =>
        LET fits == {e \in asked.entries : e.level \in asked.levels /\ e.minQty <= asked.qty}
        IN Winner(asked.entries, asked.levels, asked.qty)
             = {e \in fits : ~\E f \in fits : Beats(f, e)}

(* Tax: net and tax make the gross to the cent, an inclusive price is what    *)
(* the customer pays, the tax is within half a cent of the exact one, an      *)
(* exempt customer pays the net of the same price, and a line refused for a   *)
(* tax of zero is one whose exact tax is below half a cent.                   *)
Abs(n) == IF n < 0 THEN -n ELSE n
TaxExact ==
    asked.of = "tax" =>
        LET t == TaxSplit(asked.amount, asked.rate, asked.mode, asked.exempt)
            full == TaxSplit(asked.amount, asked.rate, asked.mode, FALSE) IN
        /\ t.gross = t.net + t.tax /\ t.net = full.net
        /\ asked.exempt => t.gross = full.gross - full.tax
        /\ ~asked.exempt =>
              /\ asked.mode = "inclusive" =>
                    /\ t.gross = asked.amount
                    /\ 2 * Abs(t.tax * (100 + asked.rate) - asked.amount * asked.rate)
                         <= 100 + asked.rate
              /\ asked.mode = "exclusive" =>
                    2 * Abs(t.tax * 100 - asked.amount * asked.rate) <= 100
        /\ ~Recordable(t) => 2 * asked.amount * asked.rate <= 100 + asked.rate

(* What a promotion leaves to pay.  It discounts no more units than the line   *)
(* has and keeps to its own caps; what is left is negative only if more came  *)
(* off than the line's net; where the price contains the tax, it is the price *)
(* on the shelf less the discount, to a cent and a half and half the tax of a *)
(* cent per unit; where the tax comes on top, it is the discounted net and    *)
(* its tax, to half a cent and half the tax of a cent per unit, and dearer     *)
(* than the shelf at most by the rounding.  Of the promotions that apply, the  *)
(* one with the highest priority is shown.                                     *)
BenefitWithinLine ==
    /\ asked.of = "benefit" =>
        LET rate == asked.rate
            qty == asked.qty
            shelf == TaxSplit(asked.amount, rate, asked.mode, FALSE)
            b == ComputeBenefit(asked.promo, shelf.net, qty, rate, asked.mode) IN
        b.applied =>
            /\ b.units <= qty
            /\ asked.promo.maxUnits # Nothing => b.units <= asked.promo.maxUnits
            /\ asked.promo.maxOff # Nothing => b.off <= asked.promo.maxOff
            /\ b.off <= shelf.net * qty => b.gross >= 0
            /\ asked.mode = "inclusive" =>
                  200 * Abs(b.gross - (shelf.gross * qty - b.off)) <= (300 + rate) * qty
            /\ asked.mode = "exclusive" =>
                  /\ 2 * Abs(100 * b.gross - (100 + rate) * b.net) <= 100 + rate * qty
                  /\ b.off <= shelf.net * qty =>
                        2 * (b.gross - shelf.gross * qty) <= qty + 1 - 2 * b.off
    /\ asked.of = "promotion" =>
        LET fit == {i \in 1..Len(Running) : Eligible(Running[i], asked.line)} IN
        Evaluate(Running, asked.line, FALSE)
            = {Running[i] : i \in {x \in fit : \A y \in fit : x <= y}}

(* The parts of a bundle's price add up to it, every part but the last is     *)
(* within half a cent of its share, and the last takes no more than the        *)
(* others' rounding.                                                           *)
BundleAddsUp ==
    asked.of = "bundle" =>
        LET s == asked.standalone
            all == SumSeq(s)
            parts == AllocatePrice(asked.price, s)
            error(i) == Abs(parts[i] * all - asked.price * s[i]) IN
        /\ SumSeq(parts) = asked.price
        /\ \A i \in 1..Len(s) - 1 : 2 * error(i) <= all
        /\ 2 * error(Len(s)) <= (Len(s) - 1) * all

(* A caller without cost visibility cannot tell two costs apart beyond the    *)
(* bound the field's absence gives: of two variants that differ in cost only,  *)
(* the masked quotes are the same, and the masked suggestions are the same     *)
(* or one is clamped and the other is not.                                     *)
CostHidden ==
    asked.of = "masked" =>
        \A other \in Amounts :
            LET mine == SuggestionRow(asked.price, asked.cost)
                theirs == SuggestionRow(asked.price, other)
                clamped(r) == r.suggested_price = r.min_allowed_price IN
            /\ clamped(mine) = clamped(theirs)
                  => StripSuggestion(mine) = StripSuggestion(theirs)
            /\ \A e \in EntryPool, r \in TaxRates :
                  ProjectQuote(QuoteRow(e, r, asked.cost)) = ProjectQuote(QuoteRow(e, r, other))

=============================================================================
