------------------------------ MODULE MCFeePool ------------------------------
(* Values for the constants of FeePool: a transfer its sender can post again, *)
(* a purchase and a transfer built by the API.                                *)
EXTENDS FeePool, TLC

CONSTANTS Ann, Bob, Auth

Shapes ==
    1 :> [type |-> "standard", from |-> Ann, to |-> Ann, amount |-> 2] @@
    2 :> [type |-> "standard", from |-> Ann, to |-> Bob, amount |-> 6] @@
    3 :> [type |-> "authority", from |-> Auth, to |-> Ann, amount |-> 1]

MCShape == [t \in Tx |-> Shapes[t]]

\* In step with the node, and ahead of it.
MCStamps == {-1, 0}

MCFunds == [a \in Account |-> IF a = Ann THEN 8 ELSE 0]
=============================================================================
