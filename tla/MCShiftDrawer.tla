---------------------------- MODULE MCShiftDrawer ----------------------------
(* Small instances of ShiftDrawer. *)
EXTENDS ShiftDrawer

CONSTANTS s1, s2, r1, r2, u1, u2, c1

TwoSales == {s1, s2}
TwoReturns == {r1, r2}
NoReturns == {}
TwoStaff == {u1, u2}
OneStaff == {u1}
OneCustomer == {c1}
NoCustomers == {}
OnlyFirst == {s1}

TwoPieces == [s \in Sales |-> 2]
SameBuyer == [s \in Sales |-> c1]
NoBuyers == [s \in Sales |-> NoBuyer]
\* both returns are of s1: two pieces and one, of two
OfFirst == [r \in Returns |-> s1]
TwoAndOne == [r \in Returns |-> IF r = r1 THEN 2 ELSE 1]
=============================================================================
