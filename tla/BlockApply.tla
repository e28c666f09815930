----------------------------- MODULE BlockApply -----------------------------
(***************************************************************************)
(* add_block inside one node, storage call by storage call.                *)
(*                                                                         *)
(* A thread is one that runs add_block: the handler of /peer/new_block, or *)
(* the one in which on_vote commits and which holds the consensus lock.    *)
(* The storage (SQLiteStorage) makes each call atomic and nothing more.  A *)
(* failed write is logged by the storage and ignored by the caller, a      *)
(* failed read raises.  The process may stop between any two calls.        *)
(***************************************************************************)
EXTENDS LedgerEffects, FiniteSets

CONSTANTS
    Thread,       \* threads that may run add_block
    NoBlock,      \* no row for an index
    FeesRefused,  \* ids of the blocks whose fees this node does not accept
    Client,       \* hashes of the transactions clients submit to this node
    MaxCrashes,   \* bound: times the process stops
    MaxErrors     \* bound: storage calls that fail

ASSUME ThreadAssumption ==
    /\ NoBlock \notin LedgerBlock
    /\ FeesRefused \subseteq Nat
    /\ Client \subseteq Nat
    /\ MaxCrashes \in Nat
    /\ MaxErrors \in Nat

VARIABLES
    table,     \* table[i]: the row of the blocks table with idx = i, or NoBlock
    books,     \* the other tables
    mempool,   \* hashes of the pending transactions
    checked,   \* those an add_transaction has looked for and not yet added
    thread,    \* thread[t]: the add_block call t is in
    decided,   \* ids of the blocks a round has committed
    crashes,   \* how often the process stopped
    errors,    \* how many storage calls failed
    before,    \* history: the books when the last block was saved
    last,      \* history: the effects of the last block saved
    lost,      \* history: the positions of its effects that were lost
    overtaken  \* history: the checked hashes that were recorded before they were added

history == <<before, last, lost>>

vars == <<table, books, mempool, checked, thread, decided, crashes, errors, before, last, lost,
          overtaken>>

Index == {b.index : b \in Offered} \union {Genesis.index}

\* A call of add_block: what is left to do of it and the balance it has read.
Call == [stage: {"idle", "entered", "valid", "applying", "read"}, via: {"post", "commit"},
         block: Offered \union {NoBlock},
         todo: Seq(Effect),
         read: Nat]

Idle == [stage |-> "idle", via |-> "post", block |-> NoBlock, todo |-> <<>>, read |-> 0]

TypeOK ==
    /\ table \in [Index -> Offered \union {Genesis, NoBlock}]
    /\ books \in Books
    /\ mempool \subseteq Client
    /\ checked \subseteq Client
    /\ overtaken \subseteq Client
    /\ thread \in [Thread -> Call]
    /\ decided \subseteq {b.id : b \in Offered}
    /\ crashes \in Nat
    /\ errors \in Nat

-----------------------------------------------------------------------------

Rows == {table[i] : i \in Index} \ {NoBlock}

\* get_chain_tip: the row with the largest index.
Tip == CHOOSE b \in Rows : \A c \in Rows : c.index <= b.index

\* Mutation of Valid: the hash link is not compared.
ValidByIndex(b) == b.index = Tip.index + 1

\* Mutation of Valid: a block may follow any stored block.
ValidAnywhere(b) == \E r \in Rows : b.prev = r.id /\ b.index = r.index + 1

\* Block.validate against the tip.
Valid(b) == b.prev = Tip.id /\ b.index = Tip.index + 1

Working(t) == thread[t].stage # "idle"

Set(t, call) == thread' = [thread EXCEPT ![t] = call]

\* The first storage call a thread has yet to make for its block.
Now(t) == Head(thread[t].todo)

\* t goes on to its next storage call.
Advance(t) ==
    Set(t, [thread[t] EXCEPT !.stage = "applying", !.todo = Tail(@), !.read = 0])

\* The position among the effects of the last block of what t does next.
Position(t) == Len(last) - Len(thread[t].todo) + 1

-----------------------------------------------------------------------------
(* The calls of add_block                                                  *)

\* /peer/new_block of b, once get_block has not found it.
NewBlock(t, b) ==
    /\ ~Working(t)
    /\ b \notin Rows
    /\ Set(t, [Idle EXCEPT !.stage = "entered", !.block = b])
    /\ UNCHANGED <<table, books, mempool, checked, overtaken, decided, crashes, errors, history>>

\* on_vote decides b and calls _commit: under the consensus lock, and once for
\* a round.
Commit(t, b) ==
    /\ ~Working(t)
    /\ b.id \notin decided
    /\ \A u \in Thread : ~(Working(u) /\ thread[u].via = "commit")
    /\ Set(t, [Idle EXCEPT !.stage = "entered", !.via = "commit", !.block = b])
    /\ decided' = decided \union {b.id}
    /\ UNCHANGED <<table, books, mempool, checked, overtaken, crashes, errors, history>>

\* add_block reads the tip and validates the block and its fees.
Validate(t) ==
    /\ thread[t].stage = "entered"
    /\ IF Valid(thread[t].block) /\ thread[t].block.id \notin FeesRefused
         THEN Set(t, [thread[t] EXCEPT !.stage = "valid"])
         ELSE Set(t, Idle)
    /\ UNCHANGED <<table, books, mempool, checked, overtaken, decided, crashes, errors, history>>

\* What follows save_block whatever it returned: the effects are to be applied.
StartEffects(t) ==
    LET effects == Effects(thread[t].block) IN
      /\ Set(t, [thread[t] EXCEPT !.stage = "applying", !.todo = effects])
      /\ before' = books
      /\ last' = effects
      /\ lost' = {}

\* save_block: INSERT OR REPLACE, the index is unique.
Save(t) ==
    /\ thread[t].stage = "valid"
    /\ table' = [table EXCEPT ![thread[t].block.index] = thread[t].block]
    /\ StartEffects(t)
    /\ UNCHANGED <<books, mempool, checked, overtaken, decided, crashes, errors>>

\* save_block returns False, which add_block does not look at.
SaveFails(t) ==
    /\ thread[t].stage = "valid"
    /\ errors < MaxErrors
    /\ errors' = errors + 1
    /\ StartEffects(t)
    /\ UNCHANGED <<table, books, mempool, checked, overtaken, decided, crashes>>

\* get_balance of the account to debit or credit.
Read(t) ==
    /\ thread[t].stage = "applying"
    /\ thread[t].todo # <<>>
    /\ Now(t).op \in {"debit", "credit"}
    /\ Set(t, [thread[t] EXCEPT !.stage = "read", !.read = books.balance[Now(t).account]])
    /\ UNCHANGED <<table, books, mempool, checked, overtaken, decided, crashes, errors, history>>

\* Mutation of Changed: save_balance stores what it is given.
ChangedUncut(read, e) == IF e.op = "debit" THEN read - e.amount ELSE read + e.amount

\* What save_balance stores for the balance read before it.
Changed(read, e) == IF e.op = "debit" THEN Clamped(read - e.amount) ELSE read + e.amount

\* save_balance.
Write(t) ==
    /\ thread[t].stage = "read"
    /\ books' = [books EXCEPT !.balance[Now(t).account] = Changed(thread[t].read, Now(t))]
    /\ Advance(t)
    /\ UNCHANGED <<table, mempool, checked, overtaken, decided, crashes, errors, history>>

\* save_transaction, save_content_record, save_edition_record: one call, or one
\* that only asks whether the record exists.
Store(t) ==
    /\ thread[t].stage = "applying"
    /\ thread[t].todo # <<>>
    /\ Now(t).op \notin {"debit", "credit"}
    /\ books' = After(books, Now(t))
    /\ overtaken' = overtaken \union (checked \intersect (books'.recorded \ books.recorded))
    /\ Advance(t)
    /\ UNCHANGED <<table, mempool, checked, decided, crashes, errors, history>>

\* One of these writes fails: it returns False, which nobody looks at.
WriteFails(t) ==
    /\ \/ thread[t].stage = "read"
       \/ /\ thread[t].stage = "applying"
          /\ thread[t].todo # <<>>
          /\ Now(t).op \notin {"debit", "credit"}
    /\ errors < MaxErrors
    /\ errors' = errors + 1
    /\ lost' = lost \union {Position(t)}
    /\ Advance(t)
    /\ UNCHANGED <<table, books, mempool, checked, overtaken, decided, crashes, before, last>>

\* get_balance raises: the call ends there.
ReadFails(t) ==
    /\ thread[t].stage = "applying"
    /\ thread[t].todo # <<>>
    /\ Now(t).op \in {"debit", "credit"}
    /\ errors < MaxErrors
    /\ errors' = errors + 1
    /\ lost' = lost \union (Position(t)..Len(last))
    /\ Set(t, Idle)
    /\ UNCHANGED <<table, books, mempool, checked, overtaken, decided, crashes, before, last>>

\* Mutation of Finish: the transactions stay in the mempool.
FinishKeeps(t) ==
    /\ thread[t].stage = "applying"
    /\ thread[t].todo = <<>>
    /\ Set(t, Idle)
    /\ UNCHANGED <<table, books, mempool, checked, overtaken, decided, crashes, errors, history>>

\* remove_batch and the return of add_block.
Finish(t) ==
    /\ thread[t].stage = "applying"
    /\ thread[t].todo = <<>>
    /\ mempool' = mempool \ {thread[t].block.txs[i].hash : i \in DOMAIN thread[t].block.txs}
    /\ Set(t, Idle)
    /\ UNCHANGED <<table, books, checked, overtaken, decided, crashes, errors, history>>

-----------------------------------------------------------------------------

\* add_transaction, called by the API, up to its look-up of the transaction table:
\* h is neither pending nor recorded.
Check(h) ==
    /\ h \notin mempool
    /\ h \notin books.recorded
    /\ checked' = checked \union {h}
    /\ UNCHANGED <<table, books, mempool, overtaken, thread, decided, crashes, errors, history>>

\* mempool.add, which changes nothing when h is pending by then.  Another request
\* for h may have got as far as this one.
Add(h) ==
    /\ h \in checked
    /\ checked' \in {checked, checked \ {h}}
    /\ mempool' = mempool \union {h}
    /\ UNCHANGED <<table, books, overtaken, thread, decided, crashes, errors, history>>

\* Mutation of Crash: the block under way is applied again from its start.
CrashReplays ==
    /\ crashes < MaxCrashes
    /\ crashes' = crashes + 1
    /\ mempool' = {}
    /\ checked' = {}
    /\ thread' = [t \in Thread |->
                     IF thread[t].todo = <<>> THEN Idle
                     ELSE [thread[t] EXCEPT !.stage = "applying", !.todo = Effects(thread[t].block)]]
    /\ UNCHANGED <<table, books, overtaken, decided, errors, before, last, lost>>

\* The process stops and starts again: the tables are what they were.
Crash ==
    /\ crashes < MaxCrashes
    /\ crashes' = crashes + 1
    /\ mempool' = {}
    /\ checked' = {}
    /\ thread' = [t \in Thread |-> Idle]
    /\ lost' = lost \union
         UNION {Position(t)..Len(last) : t \in {u \in Thread : thread[u].todo # <<>>}}
    /\ UNCHANGED <<table, books, overtaken, decided, errors, before, last>>

Init ==
    /\ table = [i \in Index |-> IF i = Genesis.index THEN Genesis ELSE NoBlock]
    /\ books = EmptyBooks
    /\ mempool = {}
    /\ checked = {}
    /\ thread = [t \in Thread |-> Idle]
    /\ decided = {}
    /\ crashes = 0
    /\ errors = 0
    /\ before = EmptyBooks
    /\ last = <<>>
    /\ lost = {}
    /\ overtaken = {}

Step(t) ==
    \/ \E b \in Offered : NewBlock(t, b) \/ Commit(t, b)
    \/ Validate(t)
    \/ Save(t) \/ SaveFails(t)
    \/ Read(t) \/ ReadFails(t)
    \/ Write(t) \/ Store(t) \/ WriteFails(t)
    \/ Finish(t)

Next ==
    \/ \E t \in Thread : Step(t)
    \/ \E h \in Client : Check(h) \/ Add(h)
    \/ Crash

Spec == Init /\ [][Next]_vars

-----------------------------------------------------------------------------
(* Correctness                                                             *)

AtRest == \A t \in Thread : ~Working(t)

\* The stored chain after the genesis block.
Blocks == [i \in 1..(Cardinality(Rows) - 1) |-> table[Genesis.index + i]]

\* What add_block checks of a new block is true of the table for good: every
\* stored block links to the one stored before it (Block.validate, save_block).
Linked ==
    \A i \in Index \ {Genesis.index} :
        table[i] # NoBlock => table[i - 1] # NoBlock /\ table[i].prev = table[i - 1].id

\* The books of a node that has applied every effect of some blocks, in order.
Replayed(blocks) ==
    LET replay[n \in 0..Len(blocks)] ==
            IF n = 0 THEN EmptyBooks ELSE Through(replay[n - 1], Effects(blocks[n]), {})
    IN  replay[Len(blocks)]

\* When no call has failed and none is under way, the balances, transactions
\* and owners are those of the stored blocks, each applied once and in order
\* (_apply_block_to_balances, _apply_content_registry).
BooksReplay == AtRest /\ crashes = 0 /\ errors = 0 => books = Replayed(Blocks)

\* When no call has failed and no add_block is under way, a transaction recorded on
\* chain is pending only if it was recorded while an add_transaction that had looked
\* for it had yet to add it: remove_batch reaches every other, also those submitted
\* while the block was being stored.
RecordedNotPending ==
    AtRest /\ crashes = 0 /\ errors = 0 =>
        mempool \intersect books.recorded \subseteq overtaken

\* The books once the call under way has made all its storage calls.
Completed ==
    IF \E t \in Thread : thread[t].todo # <<>>
      THEN Through(books, thread[CHOOSE t \in Thread : thread[t].todo # <<>>].todo, {})
      ELSE books

Abstract == INSTANCE Ledger WITH blocks <- Blocks, books <- Completed

\* One add_block at a time implements Ledger: storing a block takes effect when
\* its row is written, and a failed call or a crash loses effects of that block
\* and of no other.
ImplementsLedger == Abstract!LedgerSpec
=============================================================================
