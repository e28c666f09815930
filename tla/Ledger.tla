------------------------------- MODULE Ledger -------------------------------
(***************************************************************************)
(* What the storage of a node promises, whatever happens to the process:   *)
(* a chain of linked blocks and books that have all effects of every block *)
(* but, for blocks during which a call failed, some of their effects.  A   *)
(* failure reaches the effects of the block being stored, never those of   *)
(* an earlier one.                                                         *)
(***************************************************************************)
EXTENDS LedgerEffects

VARIABLES
    blocks,   \* the stored chain after the genesis block
    books,    \* balances, transactions and owners
    before,   \* the books before the last block
    last,     \* the effects of the last block
    lost      \* the positions in last of the effects that were lost

ledgerVars == <<blocks, books, before, last, lost>>

Tip == IF blocks = <<>> THEN Genesis ELSE blocks[Len(blocks)]

Follows(b) == b.prev = Tip.id /\ b.index = Tip.index + 1

LedgerInit ==
    /\ blocks = <<>>
    /\ books = EmptyBooks
    /\ before = EmptyBooks
    /\ last = <<>>
    /\ lost = {}

\* A block that follows the tip takes effect; it is missing from the chain when
\* its row could not be written.
Post(b) ==
    /\ Follows(b)
    /\ blocks' \in {Append(blocks, b), blocks}
    /\ before' = books
    /\ last' = Effects(b)
    /\ lost' = {}
    /\ books' = Through(books, Effects(b), {})

\* More effects of the last block turn out lost.
Lose ==
    /\ lost' \in SUBSET DOMAIN last
    /\ lost \subseteq lost'
    /\ books' = Through(before, last, lost')
    /\ UNCHANGED <<blocks, before, last>>

LedgerNext == Lose \/ \E b \in Offered : Post(b)

LedgerSpec == LedgerInit /\ [][LedgerNext]_ledgerVars
=============================================================================
