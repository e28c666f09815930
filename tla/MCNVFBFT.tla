------------------------------ MODULE MCNVFBFT ------------------------------
(* Values for the constants of NVFBFT that a configuration cannot write.   *)
EXTENDS NVFBFTClaims

Everyone == Node

AllPeers == [n \in Node |-> Node \ {n}]

NoPeers == [n \in Node |-> {}]

OneGenesis == [n \in Node |-> Authority]

AdmitsNobody == [t \in Tx |-> {}]

\* Transaction k is the node_register of wallet k.
AdmitsItself == [t \in Tx |-> {t} \intersect Node]

ClientsOfAll == Node \X Tx

ClientsOfFirst == {1} \X Tx

\* Every node may propose twice.
TwoEach == [n \in Node |-> 2]

\* Node k may propose k times.
ByWallet == [n \in Node |-> n]
=============================================================================
