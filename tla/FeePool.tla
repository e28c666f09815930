------------------------------- MODULE FeePool -------------------------------
(***************************************************************************)
(* The pending transactions of a node that mines alone (the authority      *)
(* before anybody has joined): how the API accepts a transaction, its two  *)
(* fee transactions, the batch loop, the cut of a batch, expiry, and what  *)
(* a stored batch does to the balances.                                    *)
(*                                                                         *)
(* Amounts are in halves of a PLWB.  Time is kept as ages: a Tick makes    *)
(* everything older by one unit, and the age of a stamp ahead of the node  *)
(* is negative.  A request holds no lock: its balance check, its duplicate *)
(* check, the add of the transaction and of each fee are steps, with the   *)
(* consensus thread and other requests between.                            *)
(***************************************************************************)
EXTENDS Integers, SequencesExt

CONSTANTS
    Account,        \* wallets
    Authority,      \* AUTHORITY_WALLET
    Operator,       \* the wallet of the node
    Signed,         \* transactions their sender stamps: they can be posted again
    Built,          \* transactions the node builds or stamps, one for each request
    Shape,          \* Shape[t]: type, sender, receiver and amount of t
    Funds,          \* the balances at the start
    Stamps,         \* ages a signed transaction can have when first posted, below 0
                    \* when the clock of its sender is ahead
    NotMade,        \* the transaction does not exist yet
    MaxAge,         \* TX_MAX_AGE
    BatchTimeout,   \* BATCH_TIMEOUT
    MaxTxPerBlock,  \* MAX_TX_PER_BLOCK
    MaxPosts,       \* bound: requests that pass the balance check
    MaxOpen,        \* bound: requests under way at once
    MaxCrashes      \* bound: times the process stops

Tx == Signed \union Built

\* "authority" stands for the AUTHORITY_TX_TYPES, "standard" for the transfers
\* and registrations.
Type == {"authority", "cv_link", "standard"}

ASSUME FeePoolAssumption ==
    /\ IsFiniteSet(Account)
    /\ {Authority, Operator} \subseteq Account
    /\ Signed \intersect Built = {}
    /\ Shape \in [Tx -> [type: Type, from: Account, to: Account, amount: Nat]]
    /\ Funds \in [Account -> Nat]
    /\ Stamps \subseteq Int
    /\ NotMade \notin Int
    /\ {MaxAge, BatchTimeout, MaxPosts, MaxOpen, MaxCrashes} \subseteq Nat
    /\ MaxTxPerBlock \in Nat \ {0}

\* The sum of the values of a function.
SumOf(f) ==
    LET sum[D \in SUBSET DOMAIN f] ==
            IF D = {} THEN 0
            ELSE LET x == CHOOSE x \in D : TRUE IN f[x] + sum[D \ {x}]
    IN  sum[DOMAIN f]

\* The entries of p at the positions in K, in order.
Kept(p, K) ==
    LET kept[n \in 0..Len(p)] ==
            IF n = 0 THEN <<>>
            ELSE IF n \in K THEN Append(kept[n - 1], p[n]) ELSE kept[n - 1]
    IN  kept[Len(p)]

VARIABLES
    covered,  \* transactions a request has found covered by the balance
    checked,  \* transactions a request has found to be new, and not yet added
    pool,     \* the mempool, in the order of insertion
    owed,     \* fee transactions a request has made and not yet added
    stamp,    \* stamp[t]: the age of t, or NotMade
    timer,    \* time since _batch_timer_start, or NotMade
    batch,    \* the transactions of the block under way
    chain,    \* the transactions of each stored block, in order
    balance,  \* the balances table
    posts,    \* requests so far
    crashes,  \* times the process stopped
    overdrawn, \* history: some sender was accepted with more pending than it owns
    overtaken, \* history: transactions added or stored between the check and the
               \* add of another request for them
    ahead      \* history: transactions added while their stamp was in the future

requests == <<covered, checked, posts, overtaken, ahead>>

vars == <<pool, owed, stamp, timer, batch, chain, balance, crashes, overdrawn, requests>>

Part == {"authority", "node"}

\* What the mempool holds: transactions and fees, with the request they came by.
Item == [kind: {"tx"} \union Part, for: Tx, post: 1..MaxPosts]

Pending == [item: Item, age: Int]

\* What a request carries: a transaction that has been made.
Posted == {i \in Item : i.kind = "tx" /\ stamp[i.for] # NotMade}

TypeOK ==
    /\ covered \subseteq Posted
    /\ checked \subseteq Posted
    /\ pool \in Seq(Pending)
    /\ owed \subseteq Item
    /\ stamp \in [Tx -> Int \union {NotMade}]
    /\ timer \in 0..BatchTimeout \union {NotMade}
    /\ batch \in Seq(Item)
    /\ chain \in Seq(Seq(Item))
    /\ balance \in [Account -> Nat]
    /\ posts \in 0..MaxPosts
    /\ crashes \in 0..MaxCrashes
    /\ overdrawn \in BOOLEAN
    /\ overtaken \subseteq Tx
    /\ ahead \subseteq Tx

-----------------------------------------------------------------------------
(* Transactions and fees                                                   *)

\* calculate_fee: 1 PLWB, 5 for a link, nothing for the authority's types.
FeeTotal(t) ==
    CASE Shape[t].type = "authority" -> 0
      [] Shape[t].type = "cv_link"   -> 10
      [] Shape[t].type = "standard"  -> 2

\* The two fee transactions of t, as request p makes them.
Fees(t, p) == IF FeeTotal(t) = 0 THEN {} ELSE [kind: Part, for: {t}, post: {p}]

\* What a hash distinguishes: a fee is made anew by each request, a transaction
\* stays the same.
Hash(i) == IF i.kind = "tx" THEN [i EXCEPT !.post = 0] ELSE i

Hashes(items) == {Hash(i) : i \in items}

Amount(i) == IF i.kind = "tx" THEN Shape[i.for].amount ELSE FeeTotal(i.for) \div 2

Sender(i) == Shape[i.for].from

Receiver(i) ==
    CASE i.kind = "tx"        -> Shape[i.for].to
      [] i.kind = "authority" -> Authority
      [] i.kind = "node"      -> Operator

\* The transactions of the authority credit without a debit.
Debited(i) == i.kind # "tx" \/ Shape[i.for].type # "authority"

Items(p) == {p[k].item : k \in DOMAIN p}

Stored == UNION {ToSet(chain[k]) : k \in DOMAIN chain}

-----------------------------------------------------------------------------
(* Requests                                                                *)

Due(i) == IF Debited(i) THEN Amount(i) ELSE 0

\* What sender a has to pay for items.
Debts(a, items) == SumOf([i \in {j \in items : Sender(j) = a} |-> Due(i)])

\* The balance check: for a positive amount, and against the stored balance.
Covered(t) ==
    \/ Shape[t].type = "authority"
    \/ Shape[t].amount = 0
    \/ balance[Shape[t].from] >= Shape[t].amount + FeeTotal(t)

\* Mutation of Known: the mempool alone is searched.
KnownPending(h) == h \in Hashes(Items(pool))

\* The duplicate check: only what has an amount is recorded when it is stored.
Known(h) ==
    \/ h \in Hashes(Items(pool))
    \/ h \in Hashes({i \in Stored : Amount(i) > 0})

\* The first part of add_transaction: t is checked against the balance.
Request(t) ==
    /\ posts < MaxPosts
    /\ Cardinality({i.post : i \in covered \union checked \union owed}) < MaxOpen
    /\ Covered(t)
    /\ covered' = covered \union {[kind |-> "tx", for |-> t, post |-> posts + 1]}
    /\ posts' = posts + 1
    /\ UNCHANGED <<checked, pool, owed, timer, batch, chain, balance, crashes>>
    /\ UNCHANGED <<overdrawn, overtaken, ahead>>

\* A transaction its sender has stamped and signed, for the first time or again:
\* POST /api/transaction, node.submit_transaction, a plugin's submit_transaction.
PostSigned(t) ==
    /\ t \in Signed
    /\ Request(t)
    /\ \E a \in IF stamp[t] = NotMade THEN Stamps ELSE {stamp[t]} :
         stamp' = [stamp EXCEPT ![t] = a]

\* A transaction without a time stamp gets that of the request: a repeated request
\* makes another transaction.
PostBuilt(t) ==
    /\ stamp[t] = NotMade
    /\ Request(t)
    /\ stamp' = [stamp EXCEPT ![t] = 0]

\* /api/transfer builds a transfer of a positive amount.
Transfer(t) ==
    /\ t \in Built
    /\ Shape[t].type = "standard" /\ Shape[t].amount > 0
    /\ PostBuilt(t)

\* The routes for what carries no fee and is not checked against a balance, such
\* as /api/anchor_spider_hash and /api/node/register.
Anchor(t) ==
    /\ t \in Built
    /\ Shape[t].type = "authority"
    /\ PostBuilt(t)

\* The duplicate check: the mempool, then the stored transactions.  What is not stored
\* at the second look-up was not at the first: a check that passes is the step of that.
Check(i) ==
    /\ i \in covered
    /\ covered' = covered \ {i}
    /\ checked' = IF Known(Hash(i)) THEN checked ELSE checked \union {i}
    /\ UNCHANGED <<pool, owed, stamp, timer, batch, chain, balance, crashes, overdrawn>>
    /\ UNCHANGED <<posts, overtaken, ahead>>

\* The requests for transaction t that have passed the duplicate check.
Waiting(t) == {i \in checked : i.for = t}

\* mempool.add enters the transaction and the request makes its fees.  An add that looked
\* before another one entered the same transaction replaces the entry by an equal one.
Add(i) ==
    /\ i \in checked
    /\ checked' = checked \ {i}
    /\ pool' = IF Hash(i) \in Hashes(Items(pool)) THEN pool
               ELSE Append(pool, [item |-> i, age |-> stamp[i.for]])
    /\ owed' = owed \union Fees(i.for, i.post)
    /\ overdrawn' = (overdrawn \/ Debts(Sender(i), Items(pool') \union owed' \union ToSet(batch))
                                     > balance[Sender(i)])
    /\ overtaken' = IF Waiting(i.for) = {i} THEN overtaken ELSE overtaken \union {i.for}
    /\ ahead' = IF stamp[i.for] < 0 THEN ahead \union {i.for} ELSE ahead
    /\ UNCHANGED <<covered, stamp, timer, batch, chain, balance, posts, crashes>>

\* mempool.add finds the transaction in the mempool.
AddRefused(i) ==
    /\ i \in checked
    /\ Hash(i) \in Hashes(Items(pool))
    /\ checked' = checked \ {i}
    /\ UNCHANGED <<pool, owed, stamp, timer, batch, chain, balance, crashes, overdrawn>>
    /\ UNCHANGED <<covered, posts, overtaken, ahead>>

\* The rest of add_transaction: the authority's fee, then the node's.
QueueFee(f) ==
    /\ f \in owed
    /\ f.kind = "node" => [f EXCEPT !.kind = "authority"] \notin owed
    /\ owed' = owed \ {f}
    /\ pool' = Append(pool, [item |-> f, age |-> 0])
    /\ UNCHANGED <<stamp, timer, batch, chain, balance, crashes, overdrawn, requests>>

-----------------------------------------------------------------------------
(* The mempool                                                             *)

\* _drop_expired.
Fresh(p) == Kept(p, {k \in DOMAIN p : p[k].age <= MaxAge})

\* Mutation of Before: the newest first.
BeforeNewest(p, k, m) == p[k].age < p[m].age \/ (p[k].age = p[m].age /\ k < m)

\* The k-th of p comes before the m-th: by time stamp, and sorted() is stable.
Before(p, k, m) == p[k].age > p[m].age \/ (p[k].age = p[m].age /\ k < m)

\* get_pending: the oldest, cut at the limit.
Oldest(p) ==
    LET place(k) == Cardinality({m \in DOMAIN p : Before(p, m, k)}) + 1 IN
      [n \in {place(k) : k \in DOMAIN p} \intersect 1..MaxTxPerBlock |->
          p[CHOOSE k \in DOMAIN p : place(k) = n].item]

\* A view of the pending transactions (/api/spider_hashes) drops the expired too.
View ==
    /\ Fresh(pool) # pool
    /\ pool' = Fresh(pool)
    /\ UNCHANGED <<owed, stamp, timer, batch, chain, balance, crashes, overdrawn, requests>>

-----------------------------------------------------------------------------
(* The batch loop                                                          *)

Started == IF timer = NotMade THEN 0 ELSE timer

\* Mutation of MustMine: the timer is not looked at.
MustMineFull == Len(pool) >= MaxTxPerBlock

MustMine == Len(pool) >= MaxTxPerBlock \/ Started >= BatchTimeout

\* A turn with nothing pending resets the timer.
Rest ==
    /\ batch = <<>>
    /\ pool = <<>>
    /\ timer # NotMade
    /\ timer' = NotMade
    /\ UNCHANGED <<pool, owed, stamp, batch, chain, balance, crashes, overdrawn, requests>>

\* A turn that only starts the timer.
Wait ==
    /\ batch = <<>>
    /\ pool # <<>>
    /\ ~MustMine
    /\ timer = NotMade
    /\ timer' = 0
    /\ UNCHANGED <<pool, owed, stamp, batch, chain, balance, crashes, overdrawn, requests>>

\* A turn that mines: _run_round up to the block that create_block returns, if any.
Draw ==
    /\ batch = <<>>
    /\ pool # <<>>
    /\ MustMine
    /\ pool' = Fresh(pool)
    /\ batch' = Oldest(pool')
    /\ timer' = IF pool' = <<>> THEN NotMade ELSE Started
    /\ UNCHANGED <<owed, stamp, chain, balance, crashes, overdrawn, requests>>

FeesOf(t, items) == {f \in items : f.kind # "tx" /\ f.for = t}

\* Mutation of FeesValid: a transaction may come without fees.
FeesValidOrNone(items) ==
    \A i \in items : i.kind = "tx" /\ FeeTotal(i.for) > 0 =>
        FeesOf(i.for, items) = {}
            \/ {Receiver(f) : f \in FeesOf(i.for, items)} = {Authority, Operator}

\* validate_fee_transactions: each transaction with its two fees.  A fee whose
\* transaction is elsewhere is not looked at.
FeesValid(items) ==
    \A i \in items : i.kind = "tx" /\ FeeTotal(i.for) > 0 =>
        /\ Cardinality(FeesOf(i.for, items)) = 2
        /\ {Receiver(f) : f \in FeesOf(i.for, items)} = {Authority, Operator}

Clamped(x) == IF x < 0 THEN 0 ELSE x

Debit(books, i) ==
    IF Debited(i) THEN [books EXCEPT ![Sender(i)] = Clamped(@ - Amount(i))] ELSE books

\* Mutation of Apply: both balances are read before either is written.
ApplyAtOnce(books, i) ==
    [Debit(books, i) EXCEPT ![Receiver(i)] = books[Receiver(i)] + Amount(i)]

\* Mutation of Apply: save_balance stores what it is given.
ApplyUncut(books, i) ==
    LET paid == IF Debited(i) THEN [books EXCEPT ![Sender(i)] = @ - Amount(i)] ELSE books IN
      [paid EXCEPT ![Receiver(i)] = @ + Amount(i)]

\* _apply_block_to_balances for one transaction.
Apply(books, i) == [Debit(books, i) EXCEPT ![Receiver(i)] = @ + Amount(i)]

\* The balances after a block.
Settled(books, items) ==
    LET after[n \in 0..Len(items)] ==
            IF n = 0 THEN books ELSE Apply(after[n - 1], items[n])
    IN  after[Len(items)]

\* The block decides with the node's own vote and goes to add_block, which
\* refuses it for its fees or stores it and removes its transactions.
Mine ==
    /\ batch # <<>>
    /\ IF FeesValid(ToSet(batch))
         THEN /\ chain' = Append(chain, batch)
              /\ balance' = Settled(balance, batch)
              /\ pool' = Kept(pool, {k \in DOMAIN pool :
                                       Hash(pool[k].item) \notin Hashes(ToSet(batch))})
              /\ overtaken' = overtaken \union
                                 {i.for : i \in {j \in checked : Hash(j) \in Hashes(ToSet(batch))}}
         ELSE UNCHANGED <<chain, balance, pool, overtaken>>
    /\ batch' = <<>>
    /\ timer' = NotMade
    /\ UNCHANGED <<owed, stamp, crashes, overdrawn, covered, checked, posts, ahead>>

-----------------------------------------------------------------------------

Older(a, limit) == IF a = NotMade THEN a ELSE IF a < limit THEN a + 1 ELSE limit

\* Time passes.  Ages above MaxAge are not told apart.
Tick ==
    /\ pool' = [k \in DOMAIN pool |-> [pool[k] EXCEPT !.age = Older(@, MaxAge + 1)]]
    /\ stamp' = [t \in Tx |-> Older(stamp[t], MaxAge + 1)]
    /\ timer' = Older(timer, BatchTimeout)
    /\ UNCHANGED <<owed, batch, chain, balance, crashes, overdrawn, requests>>

\* The process stops and starts again: the mempool is gone.
Crash ==
    /\ crashes < MaxCrashes
    /\ crashes' = crashes + 1
    /\ covered' = {}
    /\ checked' = {}
    /\ pool' = <<>>
    /\ owed' = {}
    /\ batch' = <<>>
    /\ timer' = NotMade
    /\ UNCHANGED <<stamp, chain, balance, posts, overdrawn, overtaken, ahead>>

Init ==
    /\ covered = {}
    /\ checked = {}
    /\ pool = <<>>
    /\ owed = {}
    /\ stamp = [t \in Tx |-> NotMade]
    /\ timer = NotMade
    /\ batch = <<>>
    /\ chain = <<>>
    /\ balance = Funds
    /\ posts = 0
    /\ crashes = 0
    /\ overdrawn = FALSE
    /\ overtaken = {}
    /\ ahead = {}

Turn == Rest \/ Wait \/ Draw \/ Mine

\* A request goes on.
Handle ==
    \/ \E i \in covered : Check(i)
    \/ \E i \in checked : Add(i) \/ AddRefused(i)
    \/ \E f \in owed : QueueFee(f)

Next ==
    \/ \E t \in Tx : PostSigned(t) \/ Transfer(t) \/ Anchor(t)
    \/ Handle
    \/ View
    \/ Turn
    \/ Tick
    \/ Crash

Fairness == WF_vars(Turn) /\ WF_vars(Tick) /\ WF_vars(Handle)

Spec == Init /\ [][Next]_vars /\ Fairness

-----------------------------------------------------------------------------
(* Properties                                                              *)

\* Whatever the retries, expiries, views and restarts in between, a transaction
\* that moves money is stored once by a node that mines alone, and so is a fee.  The
\* exception is what the unlocked add_transaction leaves open: while one request is
\* between its duplicate check and its add, another adds the same transaction or a
\* block stores it.
StoredOnce ==
    LET all == FlattenSeq(chain) IN
      \A k, m \in DOMAIN all :
        /\ Amount(all[k]) > 0 /\ Hash(all[k]) = Hash(all[m])
        /\ all[k].kind = "tx" => all[k].for \notin overtaken
        => k = m

\* A transaction that is still pending has not lost its fees: they are pending or
\* about to be, and neither the cut of a batch nor expiry takes them first
\* (add_transaction, get_pending).  A stamp ahead of the node's clock when the
\* transaction is added, which validate_fields lets pass, puts the fees first.
FeesWithTx ==
    \A i \in Items(pool) : i.kind = "tx" /\ i.for \notin ahead =>
        Fees(i.for, i.post) \subseteq Items(pool) \union owed

\* Until a paid transaction expires, its sender has been charged its two fees if
\* it was stored and nothing if it was not.  The exceptions are those of StoredOnce
\* (each request that gets through makes two fees) and of FeesWithTx.
ChargedOnce ==
    \A t \in Tx \ (overtaken \union ahead) :
      stamp[t] # NotMade /\ stamp[t] <= MaxAge /\ Shape[t].amount > 0 =>
        Cardinality({f \in Stored : f.kind # "tx" /\ f.for = t}) =
            IF \E i \in Stored : i.kind = "tx" /\ i.for = t
              THEN (IF FeeTotal(t) > 0 THEN 2 ELSE 0) ELSE 0

Total(books) == SumOf(books)

\* What the authority has credited out of nothing.
Issued == SumOf([i \in Stored |-> IF Debited(i) THEN 0 ELSE Amount(i)])

\* Money is neither made nor lost by storing blocks, as long as no sender was
\* accepted with more pending than it owns, which the balance check does not see
\* (blockchain.py: add_transaction, _apply_block_to_balances).
Conserved == overdrawn \/ Total(balance) = Total(Funds) + Issued

\* Once requests stop, the mempool empties, fees included, though a batch can be
\* refused at every turn: what is not mined expires.
PoolDrains == pool # <<>> ~> pool = <<>>

\* "Mines immediately at MAX_TX_PER_BLOCK" (consensus/nvf_bft.py:227): a full batch
\* ends in a stored block.
MinesWhenFull ==
    [][Len(batch) = MaxTxPerBlock /\ batch' = <<>> /\ crashes' = crashes
         => Len(chain') > Len(chain)]_vars
=============================================================================
