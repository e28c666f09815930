---------------------------- MODULE MCBlockApply ----------------------------
(* Transactions and blocks for BlockApply.                                 *)
EXTENDS BlockApply

CONSTANTS Alice, Bob, Cid

Tx(h, type, from, to, amount, token) ==
    [hash |-> h, type |-> type, from |-> from, to |-> to, amount |-> amount, token |-> token]

\* A purchase credits Alice; her transfer is more than a balance can pay twice.
Purchase == Tx(1, "authority", Bob, Alice, 3, NoToken)
Transfer == Tx(2, "transfer", Alice, Bob, 2, NoToken)
Register == Tx(3, "content_register", Alice, Alice, 0, Cid)
Sale     == Tx(4, "ownership_transfer", Alice, Bob, 1, Cid)
ToSelf   == Tx(5, "transfer", Bob, Bob, 4, NoToken)

MCBlock(id, index, prev, txs) == [id |-> id, index |-> index, prev |-> prev, txs |-> txs]

MCGenesis == MCBlock(0, 0, 0, <<>>)

\* Two blocks for index 1, one of which has three successors.
MCOffered ==
    {MCBlock(1, 1, 0, <<Purchase, Register>>),
     MCBlock(2, 1, 0, <<Transfer>>),
     MCBlock(3, 2, 1, <<Transfer, Sale>>),
     MCBlock(4, 2, 1, <<Sale, ToSelf>>),
     MCBlock(5, 2, 1, <<Purchase>>)}
=============================================================================
