---------------------------- MODULE LedgerEffects ----------------------------
(***************************************************************************)
(* What storing a block changes in the books of a node: the balances, the  *)
(* transaction table and the owners of contents and editions.  The effects *)
(* of a block are a sequence, in the order add_block performs them.        *)
(***************************************************************************)
EXTENDS Integers, SequencesExt

CONSTANTS
    Account,    \* wallets
    Token,      \* contents (CIDs) and numbered editions
    NoOwner,    \* the token has no record
    NoToken,    \* a transaction without a CID
    Offered,    \* the blocks peers can post or a round can decide
    Genesis     \* the block every storage starts from

\* Types of transactions: "authority" are the AUTHORITY_TX_TYPES, "fee" and
\* "transfer" any other that only moves money.
Type == {"authority", "transfer", "fee", "content_register", "ownership_transfer", "edition_transfer"}

Transaction == [hash: Nat, type: Type, from: Account, to: Account,
                amount: Nat, token: Token \union {NoToken}]

LedgerBlock == [id: Nat, index: Nat, prev: Nat, txs: Seq(Transaction)]

ASSUME LedgerAssumption ==
    /\ NoOwner \notin Account
    /\ NoToken \notin Token
    /\ Offered \subseteq LedgerBlock
    /\ Genesis \in LedgerBlock

Books == [balance: [Account -> Nat], recorded: SUBSET Nat,
          owner: [Token -> Account \union {NoOwner}]]

Effect ==
    [op: {"debit", "credit"}, account: Account, amount: Nat]
        \union [op: {"record"}, hash: Nat]
        \union [op: {"own", "reown"}, token: Token, account: Account]

Debit(a, x) == [op |-> "debit", account |-> a, amount |-> x]

Credit(a, x) == [op |-> "credit", account |-> a, amount |-> x]

Record(h) == [op |-> "record", hash |-> h]

Own(k, a) == [op |-> "own", token |-> k, account |-> a]

Reown(k, a) == [op |-> "reown", token |-> k, account |-> a]

\* _apply_block_to_balances for one transaction: the transactions of the
\* authority credit without a debit, one without an amount is not recorded.
Money(tx) ==
    IF tx.amount = 0 THEN <<>>
    ELSE (IF tx.type = "authority" THEN <<>> ELSE <<Debit(tx.from, tx.amount)>>)
         \o <<Credit(tx.to, tx.amount), Record(tx.hash)>>

\* _apply_content_registry for one transaction: a registration and an edition
\* transfer write the owner, an ownership transfer only changes a record.
Ownership(tx) ==
    CASE tx.token = NoToken -> <<>>
      [] tx.token # NoToken /\ tx.type \in {"content_register", "edition_transfer"} ->
            <<Own(tx.token, tx.to)>>
      [] tx.token # NoToken /\ tx.type = "ownership_transfer" -> <<Reown(tx.token, tx.to)>>
      [] OTHER -> <<>>

\* All effects of a block, in the order of add_block.
Effects(b) ==
    FlattenSeq([i \in DOMAIN b.txs |-> Money(b.txs[i])])
        \o FlattenSeq([i \in DOMAIN b.txs |-> Ownership(b.txs[i])])

\* save_balance cuts a negative balance to zero.
Clamped(x) == IF x < 0 THEN 0 ELSE x

\* The books after one effect.
After(books, e) ==
    CASE e.op = "debit"  -> [books EXCEPT !.balance[e.account] = Clamped(@ - e.amount)]
      [] e.op = "credit" -> [books EXCEPT !.balance[e.account] = @ + e.amount]
      [] e.op = "record" -> [books EXCEPT !.recorded = @ \union {e.hash}]
      [] e.op = "own"    -> [books EXCEPT !.owner[e.token] = e.account]
      [] e.op = "reown"  -> [books EXCEPT !.owner[e.token] =
                                IF @ = NoOwner THEN @ ELSE e.account]

\* The books after each effect of a sequence, those at the positions in gone left out.
Course(books, effects, gone) ==
    LET course[n \in 0..Len(effects)] ==
            IF n = 0 THEN books
            ELSE IF n \in gone THEN course[n - 1] ELSE After(course[n - 1], effects[n])
    IN  course

\* The books after all of them.
Through(books, effects, gone) == Course(books, effects, gone)[Len(effects)]

\* The books of a network that has stored nothing but its genesis block.
EmptyBooks ==
    [balance |-> [a \in Account |-> 0], recorded |-> {}, owner |-> [k \in Token |-> NoOwner]]
=============================================================================
