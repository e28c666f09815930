------------------------------- MODULE NVFBFT -------------------------------
(***************************************************************************)
(* The NVF-BFT consensus of a PlayWebit network: the consensus thread and  *)
(* the /peer handlers of every node, the messages between them, and the    *)
(* parts of a node they read and write (the stored chain, the mempool, the *)
(* peer table and the cache of registered validators).                     *)
(*                                                                         *)
(* A message is in msgs from the moment its sender posts it until its      *)
(* handler runs; a post that fails is one that is never handled.  Posts    *)
(* are not ordered.  A handler is one action, except where it reads the    *)
(* chain before it takes the consensus lock (on_propose, _propose) or      *)
(* before it changes the mempool without one (add_transaction): these are  *)
(* split there.  Two add_block calls on one node are not interleaved here, *)
(* and every post comes from a node that runs this code.                   *)
(***************************************************************************)
EXTENDS Integers, FiniteSets, Sequences

CONSTANTS
    Node,            \* wallets; naturals, so that < is the order of sorted()
    Authority,       \* AUTHORITY_WALLET
    InitRegistered,  \* validators registered by the common part of the chains
    InitPeers,       \* the peer table each node starts with
    InitUp,          \* the nodes running at the start
    Genesis,         \* who created the block each node's storage starts from
    Tx,              \* transactions
    Paid,            \* those with amount > 0: recorded by save_transaction
    FeeBearing,      \* those whose block must carry a fee split
    Expiring,        \* those that can outlive TX_MAX_AGE
    Registers,       \* the wallets a node_register transaction admits
    Clients,         \* <<n, t>>: a client posts t to the API of n
    Forwarded,       \* bound: the posts that forward other transactions are lost
    NoRound,         \* current_round is None
    MaxBlocks,       \* bound: MaxBlocks[n] is how many proposals n makes
    MaxCrashes       \* bound: crashes of the whole run

ASSUME NodeAssumption ==
    /\ Node \subseteq Nat
    /\ IsFiniteSet(Node)
    /\ Authority \in Node
    /\ InitRegistered \subseteq Node
    /\ InitUp \subseteq Node
    /\ InitPeers \in [Node -> SUBSET Node]
    /\ Genesis \in [Node -> Node]

ASSUME TxAssumption ==
    /\ Paid \subseteq Tx
    /\ FeeBearing \subseteq Tx
    /\ Expiring \subseteq Tx
    /\ Forwarded \subseteq Tx
    /\ Registers \in [Tx -> SUBSET Node]
    /\ Clients \subseteq Node \X Tx

ASSUME BoundAssumption == MaxBlocks \in [Node -> Nat] /\ MaxCrashes \in Nat

\* A block's hash is its proposer and how many blocks that proposer has made:
\* the timestamp keeps two blocks of one proposer apart.
BlockId == Node \X Nat

Block == [id: BlockId, index: Nat, prev: BlockId, proposer: Node, txs: SUBSET Tx]

\* A stored block, with the votes attached to it.
Entry == [block: Block, votes: SUBSET Node]

Round == [block: Block, votes: SUBSET Node, finalised: BOOLEAN]

\* Where the consensus thread is inside _run_round.
Job == [stage: {"idle", "elected", "drawn", "voting"}, txs: SUBSET Tx]

Message ==
    [type: {"tx"}, to: Node, from: Node, tx: Tx] \union
    [type: {"checked"}, to: Node, from: Node, tx: Tx, late: BOOLEAN] \union
    [type: {"propose"}, to: Node, from: Node, block: Block] \union
    [type: {"accepted"}, to: Node, block: Block] \union
    [type: {"vote"}, to: Node, from: Node, id: BlockId] \union
    [type: {"new_block"}, to: Node, block: Block, votes: SUBSET Node]

ASSUME RoundAssumption == NoRound \notin Round

VARIABLES
    chain,       \* chain[n]: the blocks in n's storage after its first block
    mempool,     \* mempool[n]: pending transactions, in RAM
    peers,       \* peers[n]: wallets of the active peers n knows, in RAM
    registered,  \* registered[n]: the validator cache _registered_nodes
    round,       \* round[n]: current_round, or NoRound
    job,         \* job[n]: the consensus thread
    made,        \* made[n]: proposals n has created
    msgs,        \* posts and pending continuations not yet handled
    up,          \* the running nodes
    crashes,     \* crashes so far
    cast         \* history: cast[n] is every block n has signed a vote for

vars == <<chain, mempool, peers, registered, round, job, made, msgs, up, crashes, cast>>

TypeOK ==
    /\ chain \in [Node -> Seq(Entry)]
    /\ mempool \in [Node -> SUBSET Tx]
    /\ peers \in [Node -> SUBSET Node]
    /\ registered \in [Node -> SUBSET Node]
    /\ round \in [Node -> Round \union {NoRound}]
    /\ job \in [Node -> Job]
    /\ made \in [Node -> Nat]
    /\ msgs \subseteq Message
    /\ up \subseteq Node
    /\ crashes \in Nat
    /\ cast \in [Node -> SUBSET BlockId]

-----------------------------------------------------------------------------
(* The chain a node stores                                                 *)

\* The hash of the tip of chain c stored by n.
LastId(n, c) == IF c = <<>> THEN <<Genesis[n], 0>> ELSE c[Len(c)].block.id

TipId(n) == LastId(n, chain[n])

\* Mutation of NextIndex: one block is counted off twice.
NextIndexLow(n) == Len(chain[n]) - 1

NextIndex(n) == Len(chain[n]) + 1

\* Mutation of Valid: the index alone, without the hash link.
ValidByIndex(n, b) == b.index = NextIndex(n)

\* Block.validate against the tip: the hash link and the index.
Valid(n, b) == b.prev = TipId(n) /\ b.index = NextIndex(n)

\* validate_fee_transactions: the fees of a block name its proposer's wallet,
\* and the node that validates looks for its own.
FeesValid(n, b) == b.txs \intersect FeeBearing # {} => b.proposer = n

StoredIds(n) == {chain[n][i].block.id : i \in DOMAIN chain[n]}

StoredTxs(c) == UNION {c[i].block.txs : i \in DOMAIN c}

\* The wallets the node_register transactions of a set admit.
Admitted(txs) == UNION {Registers[t] : t \in txs}

\* _load_registered_nodes: what a scan of chain c finds.
RegisteredOn(c) == {Authority} \union InitRegistered \union Admitted(StoredTxs(c))

-----------------------------------------------------------------------------
(* The validators a node sees                                              *)

\* The nodes n rotates leadership over.
ActiveNodes(n) == (peers[n] \union {n}) \intersect registered[n]

\* How many votes n measures a quorum against: itself always counts.
ActiveCount(n) == Cardinality(peers[n] \intersect registered[n]) + 1

\* The element at index % len in the sorted list of nodes.
Leader(index, nodes) ==
    CHOOSE n \in nodes :
        Cardinality({m \in nodes : m < n}) = index % Cardinality(nodes)

\* Mutation of HasQuorum: the votes needed are truncated to a whole number.
QuorumTruncated(n, votes, count) ==
    IF count = 1 THEN n = Authority /\ votes # {}
                 ELSE Cardinality(votes) >= (667 * count) \div 1000

\* Mutation of HasQuorum: any node may mine alone.
QuorumAnyoneAlone(n, votes, count) ==
    1000 * Cardinality(votes) >= 667 * count

\* votes / count >= CONSENSUS_QUORUM = 0.667; alone, only the authority mines.
HasQuorum(n, votes, count) ==
    IF count = 1 THEN n = Authority /\ votes # {}
                 ELSE 1000 * Cardinality(votes) >= 667 * count

-----------------------------------------------------------------------------
(* Posting                                                                 *)

\* The peers a post of n reaches: a post to a node that is down is refused.
Reach(n) == peers[n] \intersect up

\* Mutation of Gossip: a transaction is not forwarded.
GossipNowhere(n, t) == {}

Gossip(n, t) == [type: {"tx"}, to: Reach(n), from: {n}, tx: {t} \intersect Forwarded]

Proposal(n, b) == [type: {"propose"}, to: Reach(n), from: {n}, block: {b}]

\* The vote of n goes to its peers and, by a direct call, to n itself.
Vote(n, b) == [type: {"vote"}, to: Reach(n) \union {n}, from: {n}, id: {b.id}]

\* Mutation of Finalised: a committed block is not posted to the peers.
FinalisedNowhere(n, b, votes) == {}

Finalised(n, b, votes) ==
    [type: {"new_block"}, to: Reach(n), block: {b}, votes: {votes}]

Replace(m, sent) == msgs' = (msgs \ {m}) \union sent

-----------------------------------------------------------------------------
(* Transactions reach a mempool                                            *)

\* Mutation of Known: the mempool alone is searched.
KnownPending(n, t) == t \in mempool[n]

\* A zero-amount transaction is never recorded on chain, so only a paid one is
\* recognised there.
Known(n, t) == t \in mempool[n] \/ t \in Paid \intersect StoredTxs(chain[n])

\* /peer/new_transaction and the API's submit, up to the look-ups of add_transaction,
\* of which one that passes holds at the first.  Whether it ran after the transaction
\* was stored is history.
OnTransaction(n, m) ==
    /\ m.type = "tx"
    /\ Replace(m, IF Known(n, m.tx) THEN {}
                   ELSE [type: {"checked"}, to: {n}, from: {m.from}, tx: {m.tx},
                         late: {m.tx \in StoredTxs(chain[n])}])
    /\ UNCHANGED <<chain, mempool, peers, registered, round, job, made, up, crashes, cast>>

\* The rest of it: mempool.add, which looks at the mempool only, and the forward.
AddTransaction(n, m) ==
    /\ m.type = "checked"
    /\ mempool' = [mempool EXCEPT ![n] = @ \union {m.tx}]
    /\ Replace(m, Gossip(n, m.tx))
    /\ UNCHANGED <<chain, peers, registered, round, job, made, up, crashes, cast>>

\* mempool.add when another request has added the transaction since.
AddRefused(n, m) ==
    /\ m.type = "checked"
    /\ m.tx \in mempool[n]
    /\ Replace(m, {})
    /\ UNCHANGED <<chain, mempool, peers, registered, round, job, made, up, crashes, cast>>

-----------------------------------------------------------------------------
(* The consensus thread                                                    *)

Idle == [stage |-> "idle", txs |-> {}]

\* _run_round reads the tip and the peers, and goes on when n leads that index.
RunRound(n) ==
    /\ n \in up
    /\ job[n].stage = "idle"
    /\ mempool[n] # {}
    /\ made[n] < MaxBlocks[n]
    /\ n \in ActiveNodes(n)
    /\ Leader(NextIndex(n), ActiveNodes(n)) = n
    /\ job' = [job EXCEPT ![n] = [stage |-> "elected", txs |-> {}]]
    /\ UNCHANGED <<chain, mempool, peers, registered, round, made, msgs, up, crashes, cast>>

\* create_block takes the pending transactions, dropping the expired ones ...
GetPending(n) ==
    /\ n \in up
    /\ job[n].stage = "elected"
    /\ \E expired \in SUBSET (mempool[n] \intersect Expiring) :
         LET pending == mempool[n] \ expired IN
           /\ mempool' = [mempool EXCEPT ![n] = pending]
           /\ job' = [job EXCEPT ![n] =
                        IF pending = {} THEN Idle ELSE [stage |-> "drawn", txs |-> pending]]
    /\ UNCHANGED <<chain, peers, registered, round, made, msgs, up, crashes, cast>>

\* ... and then reads the tip again, to build on.
CreateBlock(n) ==
    [id |-> <<n, made[n] + 1>>, index |-> NextIndex(n), prev |-> TipId(n),
     proposer |-> n, txs |-> job[n].txs]

NewRound(b) == [block |-> b, votes |-> {}, finalised |-> FALSE]

\* The rest of _propose: the new round replaces whatever round was there, and
\* the thread goes on to hand its own vote to on_vote.
Propose(n) ==
    /\ n \in up
    /\ job[n].stage = "drawn"
    /\ LET b == CreateBlock(n) IN
         /\ round' = [round EXCEPT ![n] = NewRound(b)]
         /\ msgs' = msgs \union Proposal(n, b) \union Vote(n, b)
         /\ cast' = [cast EXCEPT ![n] = @ \union {b.id}]
    /\ made' = [made EXCEPT ![n] = @ + 1]
    /\ job' = [job EXCEPT ![n] = [stage |-> "voting", txs |-> {}]]
    /\ UNCHANGED <<chain, mempool, peers, registered, up, crashes>>

-----------------------------------------------------------------------------
(* Handlers of the consensus messages                                      *)

\* on_propose up to the lock: any registered node may propose.
OnPropose(n, m) ==
    /\ m.type = "propose"
    /\ IF m.from \in registered[n] /\ Valid(n, m.block)
         THEN Replace(m, [type: {"accepted"}, to: {n}, block: {m.block}])
         ELSE Replace(m, {})
    /\ UNCHANGED <<chain, mempool, peers, registered, round, job, made, up, crashes, cast>>

\* on_propose under the lock and _prepare_and_vote: replace the round and vote.
PrepareAndVote(n, m) ==
    /\ m.type = "accepted"
    /\ round' = [round EXCEPT ![n] = NewRound(m.block)]
    /\ Replace(m, Vote(n, m.block))
    /\ cast' = [cast EXCEPT ![n] = @ \union {m.block.id}]
    /\ UNCHANGED <<chain, mempool, peers, registered, job, made, up, crashes>>

\* Mutation of Counts: any wallet may vote.
CountsAnyVoter(n, m) ==
    /\ round[n] # NoRound
    /\ m.id = round[n].block.id
    /\ m.from \notin round[n].votes

\* Mutation of Counts: the block of the vote is not compared.
CountsAnyBlock(n, m) ==
    /\ round[n] # NoRound
    /\ m.from \in registered[n]
    /\ m.from \notin round[n].votes

\* The vote is one the current round of n counts.
Counts(n, m) ==
    /\ round[n] # NoRound
    /\ m.from \in registered[n]
    /\ m.id = round[n].block.id
    /\ m.from \notin round[n].votes

\* The consensus thread returns once its vote for its own block is handled.
Return(n, m) ==
    job' = IF m.from = n /\ m.id[1] = n THEN [job EXCEPT ![n] = Idle] ELSE job

IgnoreVote(n, m) ==
    /\ m.type = "vote"
    /\ ~Counts(n, m)
    /\ Replace(m, {})
    /\ Return(n, m)
    /\ UNCHANGED <<chain, mempool, peers, registered, round, made, up, crashes, cast>>

\* The votes of the current round of n once m is added.
VotesWith(n, m) == round[n].votes \union {m.from}

\* m is the vote that takes the current round of n over the quorum.
Decides(n, m) ==
    /\ Counts(n, m)
    /\ ~round[n].finalised
    /\ HasQuorum(n, VotesWith(n, m), ActiveCount(n))

AddVote(n, m) ==
    /\ m.type = "vote"
    /\ Counts(n, m)
    /\ ~Decides(n, m)
    /\ round' = [round EXCEPT ![n].votes = VotesWith(n, m)]
    /\ Replace(m, {})
    /\ Return(n, m)
    /\ UNCHANGED <<chain, mempool, peers, registered, made, up, crashes, cast>>

Decided(n, m) == [round[n] EXCEPT !.votes = VotesWith(n, m), !.finalised = TRUE]

\* add_block: store the block with its votes and forget its transactions.
AddBlock(n, b, votes) ==
    /\ chain' = [chain EXCEPT ![n] = Append(@, [block |-> b, votes |-> votes])]
    /\ mempool' = [mempool EXCEPT ![n] = @ \ b.txs]

\* _commit: store, update the validator cache, post the block to the peers.
Commit(n, m) ==
    /\ m.type = "vote"
    /\ Decides(n, m)
    /\ LET b == round[n].block IN
         /\ Valid(n, b)
         /\ FeesValid(n, b)
         /\ AddBlock(n, b, VotesWith(n, m))
         /\ registered' = [registered EXCEPT ![n] = @ \union Admitted(b.txs)]
         /\ Replace(m, Finalised(n, b, VotesWith(n, m)))
    /\ round' = [round EXCEPT ![n] = Decided(n, m)]
    /\ Return(n, m)
    /\ UNCHANGED <<peers, made, up, crashes, cast>>

\* _commit when add_block refuses: the round stays, finalised.
CommitFails(n, m) ==
    /\ m.type = "vote"
    /\ Decides(n, m)
    /\ ~(Valid(n, round[n].block) /\ FeesValid(n, round[n].block))
    /\ round' = [round EXCEPT ![n] = Decided(n, m)]
    /\ Replace(m, {})
    /\ Return(n, m)
    /\ UNCHANGED <<chain, mempool, peers, registered, made, up, crashes, cast>>

\* Mutation of OnNewBlock: the cache is updated from the block whether or not
\* add_block stores it.
OnNewBlockAdmits(n, m) ==
    /\ m.type = "new_block"
    /\ IF m.block.id \notin StoredIds(n) /\ Valid(n, m.block) /\ FeesValid(n, m.block)
         THEN AddBlock(n, m.block, m.votes)
         ELSE UNCHANGED <<chain, mempool>>
    /\ registered' = [registered EXCEPT ![n] = @ \union Admitted(m.block.txs)]
    /\ Replace(m, {})
    /\ UNCHANGED <<peers, round, job, made, up, crashes, cast>>

\* /peer/new_block: the same add_block, but the validator cache is left alone.
OnNewBlock(n, m) ==
    /\ m.type = "new_block"
    /\ IF m.block.id \notin StoredIds(n) /\ Valid(n, m.block) /\ FeesValid(n, m.block)
         THEN AddBlock(n, m.block, m.votes)
         ELSE UNCHANGED <<chain, mempool>>
    /\ Replace(m, {})
    /\ UNCHANGED <<peers, registered, round, job, made, up, crashes, cast>>

-----------------------------------------------------------------------------
(* Peers, crashes and restarts                                             *)

\* /peer/new_node: n learns of a peer; nothing ever marks one inactive.
OnNewNode(n, p) ==
    /\ n \in up
    /\ p \in Node \ (peers[n] \union {n})
    /\ peers' = [peers EXCEPT ![n] = @ \union {p}]
    /\ UNCHANGED <<chain, mempool, registered, round, job, made, msgs, up, crashes, cast>>

FromClient(m) == m.type = "tx" /\ m.from = m.to

\* The process of n stops: what it held in RAM and what was on its way to it
\* are lost; the storage, its own posts under way and what a client has yet to
\* post to it are not.
Crash(n) ==
    /\ n \in up
    /\ crashes < MaxCrashes
    /\ up' = up \ {n}
    /\ crashes' = crashes + 1
    /\ mempool' = [mempool EXCEPT ![n] = {}]
    /\ peers' = [peers EXCEPT ![n] = {}]
    /\ round' = [round EXCEPT ![n] = NoRound]
    /\ job' = [job EXCEPT ![n] = Idle]
    /\ msgs' = {m \in msgs : m.to # n \/ FromClient(m)}
    /\ UNCHANGED <<chain, registered, made, cast>>

\* Mutation of Extends: a longer chain is taken for a continuation.
ExtendsByLength(n, d, c) == Len(d) > Len(c)

\* Chain d has a block that links to the tip of chain c of n.
Extends(n, d, c) == Len(d) > Len(c) /\ d[Len(c) + 1].block.prev = LastId(n, c)

\* Chain c of n with the further blocks of d.
Grown(c, d) == c \o SubSeq(d, Len(c) + 1, Len(d))

\* Mutation of Synced: a longer chain is taken as the canonical one.
SyncedLongest(n, answering) ==
    {chain[q] : q \in {q \in answering \union {n} :
                         \A r \in answering : Len(chain[r]) <= Len(chain[q])}}

\* The chains sync can leave at n when the peers in answering respond: it takes
\* blocks from any of them while some block links to its tip.
Synced(n, answering) ==
    LET longer == {Grown(chain[n], d) :
                     d \in {chain[q] : q \in {q \in answering : Extends(n, chain[q], chain[n])}}}
    IN  IF longer = {} THEN {chain[n]}
        ELSE {c \in longer : \A d \in longer : ~Extends(n, d, c)}

\* start(): discover, sync, load the validators, serve.
Restart(n) ==
    /\ n \notin up
    /\ up' = up \union {n}
    /\ \E found \in SUBSET (Node \ {n}) : \E answering \in SUBSET (found \intersect up) :
         /\ peers' = [peers EXCEPT ![n] = found]
         /\ \E c \in Synced(n, answering) :
              /\ chain' = [chain EXCEPT ![n] = c]
              /\ registered' = [registered EXCEPT ![n] = RegisteredOn(c)]
    /\ UNCHANGED <<mempool, round, job, made, msgs, crashes, cast>>

-----------------------------------------------------------------------------

\* The network starts with storages that hold one common block (or, where
\* Genesis says so, their own); the nodes of InitUp have loaded their caches.
Init ==
    /\ chain = [n \in Node |-> <<>>]
    /\ mempool = [n \in Node |-> {}]
    /\ peers = InitPeers
    /\ registered = [n \in Node |-> RegisteredOn(<<>>)]
    /\ round = [n \in Node |-> NoRound]
    /\ job = [n \in Node |-> Idle]
    /\ made = [n \in Node |-> 0]
    /\ msgs = {[type |-> "tx", to |-> c[1], from |-> c[1], tx |-> c[2]] : c \in Clients}
    /\ up = InitUp
    /\ crashes = 0
    /\ cast = [n \in Node |-> {}]

\* n handles one of the messages addressed to it.
Handle(n) ==
    /\ n \in up
    /\ \E m \in msgs :
         /\ m.to = n
         /\ \/ OnTransaction(n, m)
            \/ AddTransaction(n, m)
            \/ AddRefused(n, m)
            \/ OnPropose(n, m)
            \/ PrepareAndVote(n, m)
            \/ IgnoreVote(n, m)
            \/ AddVote(n, m)
            \/ Commit(n, m)
            \/ CommitFails(n, m)
            \/ OnNewBlock(n, m)

Step(n) ==
    \/ RunRound(n)
    \/ GetPending(n)
    \/ Propose(n)
    \/ Handle(n)

Next ==
    \E n \in Node :
        \/ Step(n)
        \/ \E p \in Node : OnNewNode(n, p)
        \/ Crash(n)
        \/ Restart(n)

Spec == Init /\ [][Next]_vars

-----------------------------------------------------------------------------
(* Correctness                                                             *)

Stored(n, i) == chain[n][i].block.id

Prefix(c, i) == SubSeq(c, 1, i)

\* Whenever a node stores a block, more than two thirds of all validators have
\* signed a vote for it (has_quorum, counted over on_vote's votes and peers).
FinalityQuorum ==
    \A n \in Node : \A i \in DOMAIN chain[n] :
        3 * Cardinality({v \in Node : Stored(n, i) \in cast[v]}) > 2 * Cardinality(Node)

\* Every voter of a stored block really signed a vote for that block: the votes
\* _commit attaches, the ones /peer/new_block takes from a peer unread and the
\* ones a restart downloads are votes that were cast.  This is so among nodes that
\* run this code: /peer/new_block itself checks neither the votes nor who posts them.
CertificatesGenuine ==
    \A n \in Node : \A i \in DOMAIN chain[n] :
        \A v \in chain[n][i].votes : Stored(n, i) \in cast[v]

\* Two nodes can store different blocks at one index only when some validator
\* signed a vote for both: on_vote never lets two disjoint groups decide.
AccountableSafety ==
    \A n, m \in Node : \A i \in DOMAIN chain[n] \intersect DOMAIN chain[m] :
        Stored(n, i) # Stored(m, i) =>
            \E v \in Node : {Stored(n, i), Stored(m, i)} \subseteq cast[v]

\* Two chains that hold the same block at an index are the same up to it,
\* whichever of _commit, /peer/new_block and sync each block came by.
SameHistory ==
    \A n, m \in Node : \A i \in DOMAIN chain[n] \intersect DOMAIN chain[m] :
        Stored(n, i) = Stored(m, i) => \A j \in 1..i : Stored(n, j) = Stored(m, j)

\* Everyone who voted for a stored block was the authority or admitted by a
\* node_register transaction in the blocks before it, never by the block itself
\* or by a later one (the Sybil protection of on_vote).  Like CertificatesGenuine
\* it is about posts of nodes that run this code.
SybilCertificates ==
    \A n \in Node : \A i \in DOMAIN chain[n] :
        chain[n][i].votes \subseteq RegisteredOn(Prefix(chain[n], i - 1))

\* The validator cache of a node never runs ahead of the chain it stores.
RegisteredSound == \A n \in Node : registered[n] \subseteq RegisteredOn(chain[n])

\* A block decided by a single vote is one the authority itself committed:
\* no other node mines alone (has_quorum).
SoloOnlyAuthority ==
    \A n \in Node : \A i \in DOMAIN chain[n] :
        Cardinality(chain[n][i].votes) = 1 => Stored(n, i) \in StoredIds(Authority)

\* The paid transactions that are pending at n although n has stored them.
Returned(n) == mempool[n] \intersect Paid \intersect StoredTxs(chain[n])

\* A request at n has looked for t in the chain before t was stored, and has yet to add it.
Overtaken(n, t) ==
    \E m \in msgs : m.type = "checked" /\ m.to = n /\ m.tx = t /\ ~m.late

\* A stored paid transaction becomes pending again in one way only: a request was
\* between its look-up and mempool.add when the transaction was stored.  Late
\* forwards, retries, commits, sync and restarts never bring one back
\* (add_transaction's check against the chain, add_block's remove_batch).
OnlyOvertakenReturn ==
    [][\A n \in Node : \A t \in Returned(n)' \ Returned(n) : Overtaken(n, t)]_vars

\* A crash and a restart, like any other step, keep every stored block where it
\* is: sync only adds to the chain it finds in the storage.
Durable ==
    \A n \in Node : \A i \in DOMAIN chain[n] :
        i \in DOMAIN chain'[n] /\ chain'[n][i] = chain[n][i]

DurableProperty == [][Durable]_vars
=============================================================================
