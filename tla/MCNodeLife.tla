------------------------------ MODULE MCNodeLife ------------------------------
(* Values for the constants of NodeLife: two peers whose chains fork.         *)
EXTENDS NodeLife, TLC

CONSTANTS p1, p2

B(i, hash, prev) == [index |-> i, hash |-> hash, prev |-> prev]

MCGenesis == B(0, "g", "none")
MCOwnGenesis == B(0, "o", "none")

Chains ==
    p1 :> <<MCGenesis, B(1, "a1", "g"), B(2, "a2", "a1")>> @@
    p2 :> <<MCGenesis, B(1, "a1", "g"), B(2, "b2", "a1")>>

MCHeld == [p \in Peer |-> Chains[p]]

MCStart == [p \in Peer |-> IF p = p1 THEN 3 ELSE 2]

OwnHash(i) == CASE i = 1 -> "n1" [] i = 2 -> "n2" [] i = 3 -> "n3" [] OTHER -> "n"

MCPlugins == <<"x", "y">>
===============================================================================
