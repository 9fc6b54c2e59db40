----------------------------- MODULE SaleLedger -----------------------------
(***************************************************************************)
(* What sales promise, without tills, outboxes, retries or crashes: a sale *)
(* is completed once, booked by the server at most once, and booking it    *)
(* takes exactly its cart from the branch stock.                           *)
(***************************************************************************)
EXTENDS Integers

CONSTANTS Sales, Variants, Cart, OpeningStock

VARIABLES
    sold,       \* sales completed at the counter
    booked,     \* sales with an invoice
    stock       \* branch stock

vars == <<sold, booked, stock>>

Init ==
    /\ sold = {} /\ booked = {}
    /\ stock = OpeningStock

\* A customer is served.
Sell(s) ==
    /\ s \notin sold
    /\ sold' = sold \cup {s}
    /\ UNCHANGED <<booked, stock>>

\* The invoice, its stock and its movements appear together, for a sale that
\* really happened and has no invoice yet.
Book(s) ==
    /\ s \in sold \ booked
    /\ booked' = booked \cup {s}
    /\ stock' = [v \in Variants |-> stock[v] - Cart[s][v]]
    /\ UNCHANGED sold

\* The stock changes for a reason of its own.
Move(v, d) ==
    /\ stock' = [stock EXCEPT ![v] = @ + d]
    /\ UNCHANGED <<sold, booked>>

Next ==
    \/ \E s \in Sales : Sell(s) \/ Book(s)
    \/ \E v \in Variants, d \in {-1, 1} : Move(v, d)

Spec == Init /\ [][Next]_vars
=============================================================================
