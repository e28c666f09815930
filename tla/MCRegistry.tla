------------------------------ MODULE MCRegistry ------------------------------
(* Values for the constants of Registry: a node on each of two backends.      *)
EXTENDS Registry, TLC

CONSTANTS n1, n2

OnEach == n1 :> "sqlite" @@ n2 :> "supabase"

MCBackend == [b \in Node |-> OnEach[b]]

Wallets == Permutations(Wallet)
===============================================================================
