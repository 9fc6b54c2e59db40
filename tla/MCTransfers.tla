----------------------------- MODULE MCTransfers -----------------------------
(* Transfers between two branches, with orders of one and of two lines.     *)
EXTENDS Transfers, TLC

CONSTANTS v1, v2

\* Two units of one variant, and a unit of another with them.
SmallOrders == {v1 :> 2 @@ v2 :> 0, v1 :> 2 @@ v2 :> 1}

\* Branches, transfers and keys are interchangeable; no liveness is checked.
Interchangeable ==
    Permutations(Branches) \cup Permutations(TransferIds) \cup Permutations(Keys)
=============================================================================
