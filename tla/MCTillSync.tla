----------------------------- MODULE MCTillSync -----------------------------
(* Small instances of TillSync. *)
EXTENDS TillSync, TLC

CONSTANTS s1, s2, v1, v2

OneSale == {s1}
TwoSales == {s1, s2}
SameSales == Permutations(TwoSales)
OneVariant == {v1}
TwoVariants == {v1, v2}

\* every sale is one unit of every variant
UnitCarts == [s \in Sales |-> [v \in Variants |-> 1]]
\* s1 is one unit of v1, s2 one unit of v2
SplitCarts ==
    [s \in Sales |-> [v \in Variants |-> IF (s = s1) = (v = v1) THEN 1 ELSE 0]]
OneEach == [v \in Variants |-> 1]
TwoEach == [v \in Variants |-> 2]
=============================================================================
