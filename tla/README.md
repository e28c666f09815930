# A verification project for playwebit-net

TLA+ models of the PlayWebit Network node (`src/playweb`, `src/cloudflare_worker.js`),
checked with TLC on small instances, and theorems about them checked by TLAPS.
Names of state and actions are those of the source where TLA+ allows it;
`PROJECT.json` gives the source lines of every definition.

## 1. The system

A PlayWebit node is one Python process: a Flask server with a thread per
request, a consensus thread, a heartbeat thread, and threads that post to peers
and forget. There is no test in the repository. All storage access goes through a
`ChainStorage`; everything else a node knows is in RAM.

| component | state | operations | talks to |
|---|---|---|---|
| consensus engine (`consensus/nvf_bft.py`, `leader.py`, `vote.py`) | `current_round`, `_registered_nodes`, a lock | `_consensus_loop`, `_run_round`, `_propose`, `on_propose`, `on_vote`, `_commit` | blockchain, gossip, peer manager, plugins |
| gossip and `/peer` API (`network/gossip.py`, `api/node_api.py`) | none | post a transaction, proposal, vote, finalised block or new node; the handlers of these | all of the node |
| blockchain (`core/blockchain.py`, `block.py`) | storage, mempool | `add_transaction`, `create_block`, `add_block` | storage, mempool, fee engine |
| mempool (`core/mempool.py`) | `_pool` | add, get_pending, remove_batch | - |
| fee engine (`core/fee_engine.py`) | none | calculate, create and validate fee transactions | - |
| storage (`storage/*.py`) | blocks, transactions, balances, contents, editions | one call, one statement | a database |
| chain sync (`network/sync.py`) | flags | `sync` at the start of a node | peers, blockchain |
| peer manager (`network/peer_manager.py`) | `_peers` | add_peer, get_active_peers | - |
| bootstrap (`network/bootstrap.py`) and directory (`cloudflare_worker.js`) | records with a life of a day | discover, register, heartbeat, deregister, notify | peers |
| node (`node.py`) | `_running` | start, stop, submit_transaction | all |
| registries, royalty engine (`registry/`, `core/royalty_engine.py`) | in the storage | register a content, transfer it, split a sale | blockchain |
| plugins (`plugin/`) | list of plugins | notify | consensus, node |

A transaction enters by the API of any node, is forwarded by gossip, waits in the
mempools, is taken by the leader of the next index (sorted validators, index
modulo their number), proposed, voted for by everybody who finds the proposal
valid, and stored by each node that counts a quorum of votes. A node that stores a
block posts it to its peers, for those that missed the votes.

What is hard here:

- *Interleaving.* `on_propose` validates before it takes the lock, `_run_round`
  reads the tip twice, `create_block` reads the mempool and then the tip, and
  `/peer/new_block` runs `add_block` without the consensus lock.
- *Ordering and loss.* Posts are unordered, not retried and not acknowledged.
- *Failure.* A process may stop between any two storage calls; the mempool, the
  peers and the round are gone then. Failed writes are logged and ignored.
- *Waiting.* There is no view change: `check_timeout` has no caller. A new node
  is announced once.
- *Numbers.* The quorum is a float compared with 0.667, measured against the peers a
  node happens to know; balances are cut at zero.

What would make it correct: stored blocks carry genuine votes of a quorum of
validators admitted before them; chains that share a block share its past; stored
blocks survive; a pending transaction is stored with its fees, once, and not pending
again; the books are those of the stored blocks, and money is neither made nor lost;
owners follow the chain and creators stay; a node that says it is synced is; plugins
hear of stored blocks, of each once and in order; nodes that serve are listed and know
each other.

## 2. The modules

| module | what it is | code |
|---|---|---|
| `NVFBFT` | the consensus of a whole network, with gossip, mempools, chains, crashes and sync at restart | `nvf_bft.py`, `leader.py`, `node_api.py`, `gossip.py`, `blockchain.py`, `block.py`, `mempool.py`, `sync.py`, `node.py` |
| `NVFBFTLive` | the same in a timely network, with fairness and liveness | `_consensus_loop` |
| `NVFBFTClaims` | what comments and docs say and the code does not do | |
| `MCNVFBFT` | instances of the above for TLC | |
| `LedgerEffects` | what storing a block changes in balances, transactions and owners | `_apply_block_to_balances`, `_apply_content_registry`, `sqlite_storage.py` |
| `Ledger` | abstract: a chain of linked blocks whose effects are complete, but for those lost with a failure while the block was stored | |
| `BlockApply` | `add_block`, storage call by storage call, in several threads, with failing calls and crashes | `blockchain.py`, `sqlite_storage.py`, `node_api.py` |
| `MCBlockApply` | transactions and blocks for TLC | |
| `Directory` | start, heartbeat, stop and crash of nodes, the directory, peer tables, announcements | `cloudflare_worker.js`, `bootstrap.py`, `peer_manager.py`, `node.py` |
| `FeePool` | requests, the mempool, fees, the batch loop and the balances of a node that mines alone | `blockchain.py`, `mempool.py`, `fee_engine.py`, `nvf_bft.py`, `public_api.py` |
| `MCFeePool` | transactions and funds for TLC | |
| `Registry` | contents and editions: the registries, the royalty split, the client SDK, and the records of the three storage backends | `registry/`, `royalty_engine.py`, `client.py`, `blockchain.py`, `storage/` |
| `MCRegistry` | two nodes on two backends for TLC | |
| `ChainSync` | how a starting node catches up with its peers, chunk by chunk | `sync.py`, `node_api.py`, `block.py` |
| `NodeLife` | the life of one node around `ChainSync`: `start()`, commits under the lock, plugins, status requests, `stop()` | `node.py`, `nvf_bft.py`, `plugin_manager.py`, `base_plugin.py` |
| `MCNodeLife` | two forked peers for TLC | |
| `NVFBFT_proofs`, `NVFBFTChains_proofs`, `BlockApply_proofs`, `Directory_proofs`, `FeePool_proofs`, `NodeLife_proofs`, `Registry_proofs` | theorems | |
| `DataInduction` | lemmas on induction, recursive functions and `FlattenSeq`, for the theorems about loops | |

The modules share no state: each takes a component apart that another has as one step.
`NVFBFT` has a whole `add_block`, which `BlockApply` splits; it has a set of pending
transactions, which `FeePool` puts in order; it has any chain a sync can leave, which
`ChainSync` arrives at; its `Commit` ends where the notification of `NodeLife` begins.

### NVFBFT and the code

`chain[n]` is the blocks table of node `n` after its first block, each with its
votes; `mempool[n]`, `peers[n]`, `registered[n]` (`_registered_nodes`) and
`round[n]` (`current_round`) are RAM; `job[n]` is where the consensus thread is in
`_run_round`; `msgs` is every post that is on its way, the continuation of an
`on_propose` that waits for the lock, and that of an `add_transaction` that has looked
its transaction up and not yet added it (type "checked"). `cast` and `made` are bookkeeping: the votes
a node has signed and the number of its proposals, which makes block hashes unique.

| action | code |
|---|---|
| `OnTransaction` | `/peer/new_transaction`, `submit_transaction`, up to the look-up in mempool and transaction table |
| `AddTransaction`, `AddRefused` | `mempool.add` and the forward by gossip, later and without a lock |
| `RunRound`, `GetPending`, `Propose` | `_run_round`; `create_block` up to and after the second read of the tip, with the rest of `_propose` |
| `OnPropose`, `PrepareAndVote` | `on_propose` before and under the lock |
| `IgnoreVote`, `AddVote`, `Commit`, `CommitFails` | the outcomes of `on_vote` and `_commit` |
| `OnNewBlock` | `/peer/new_block` |
| `OnNewNode`, `Crash`, `Restart` | `/peer/new_node`, the end of a process, `start()` with its sync |

Abstractions, each on the side of more behaviours or named here: a message that is
lost is one that is never handled; every post comes from a node that runs this code
(the handlers take one from anybody, see section 4); a node that runs may start a round whenever
something is pending (the batch timer only delays it); `add_block` is one step here,
calls of it do not overlap, and it is taken apart in `BlockApply`; a block has a set of transactions, `FeeBearing`
marks those whose fee transactions must name the node that validates; sync leaves
any chain that the answering peers allow (no failure inside a chunk); more than
`GOSSIP_FANOUT` peers and more than 100000 blocks do not occur; votes and
transactions have valid signatures.

### BlockApply and the code

`table` is the `blocks` table by its unique `idx`, `books` the other tables,
`thread[t]` a call of `add_block`: entered, validated, then one step for each
`get_balance`, `save_balance`, `save_transaction` and registry call left in `todo`.
Threads come from `/peer/new_block` (after its look-up) or from `on_vote`, of which the
consensus lock lets one run. `SaveFails`, `WriteFails` and `ReadFails` are storage
errors as `SQLiteStorage` handles them: writes return False, which nobody looks at,
reads raise. `Check` is the look-up of `add_transaction` in the mempool and the transaction table,
`Add` its `mempool.add`; any steps of `add_block` may come between, and `checked` holds the
transactions that are there. `overtaken` has those that were recorded meanwhile. `before`, `last` and `lost` are history for the refinement. The effects of a block
are a sequence (`Effects`); `Course` gives the books after each of them, those at the positions in
`lost` left out, and `Through` after all. In `Ledger` a block takes all its effects when its row
is written, and a later `Lose` takes some of the last block back; `BlockApply` maps to it by
completing the call under way (`Completed`).

### Directory and the code

`left[n]` is what remains of the life of n's record, `since[n]` the time since its last
heartbeat, `peers[n][m]` what n has under the url of m: nothing, its wallet, or the
word "unknown" that the fallback list gives. Time passes in steps of an interval, once
starts, deliveries and due heartbeats are done. Left out: changes of url, the
eviction at `MAX_PEERS` (it looks for inactive peers and nothing marks one), the health
check (no caller), delays inside the key-value store.

### FeePool and the code

The node is the authority before anybody has joined, so that its own vote decides and
nothing but the mempool and the fees stands between a request and a stored block.
`pool` is `_pool` in the order of insertion with the age of every entry, `owed` the fee
transactions a running `add_transaction` has still to add, `timer` the batch timer,
`batch` the block under way, `chain` the transactions of the stored blocks. Ages
replace time stamps: `Tick` makes everything older, and a stamp ahead of the node's clock is
a negative age. `add_transaction` holds no lock and is taken apart: `Request` is its balance check
(`covered`), `Check` its duplicate check (`checked`), `Add` or `AddRefused` its `mempool.add` with the
making of the fees (`owed`), `QueueFee` the add of each fee; other requests and the consensus
thread come between. `PostSigned` comes with a stamp of its sender and can be repeated, at once
too; `Transfer` and `Anchor` are built by the node for each request anew. `overtaken` notes a
transaction that was added or stored between the check and the add of another request for it,
`ahead` one that was added with a stamp in the future. `Draw` is
`get_pending` with its expiry, its order and its cut; `Mine` the fee check, the balances
one transaction after the other (`Settled`), and `remove_batch`, as one step (`BlockApply` takes it apart). `Kept` is the pool without what a
step takes from it, in the same order. Amounts are whole multiples of half
a PLWB, so that a fee splits in two; the percentage of a PLWB redemption is left out, as
nothing reaches it (section 4).

### Registry and the code

The chain is `log`; node `b` has applied `applied[b]` of its transactions, and `content[b]`
and `edition[b]` are its records. A call of a registry checks against the records of the
node that is asked and queues its transactions in `rest`, which `Queue` adds to `pool` one
by one and `Refuse` drops for want of funds; `Split` is the royalty computation, which
reads the record a second time. The check of a call and its first transaction are one
step, so is the duplicate check of `add_transaction` with its add (`FeePool` takes them
apart), and calls come one after the other; blocks are stored and applied, and clients
post, between any two steps. A client posts unchecked and with a time stamp of
its own, hence `InsertAt`; `Repost` is a retry. `Saved` is `save_content_record` of the
three backends. Amounts are nothing, a part of the price, or all of it. `Expire` and
`Crash` lose pending transactions.

### ChainSync, NodeLife and the code

`chain` is the stored chain, `Held[p]` what peer p stores sooner or later and `height[p]`
how much of it it has; peers may be on a fork, not answer, or send a block that does not
match its hash. `stage`, `turn`, `target`, `cursor` and `todo` are the local variables of
`sync`, `_find_canonical_tip`, `_download_blocks` and `_apply_chunk`. `life` is the step
`start()` has reached; `ready` holds blocks made or validated before the lock is
taken, `round` the block of the current round, `commits` the commits under way with the
plugin and the hook each is at, `told` and `heard` what the plugins were told. `Decide` is
the vote that completes the quorum, in whichever thread; its `add_block` may refuse the
block because `Receive` (`/peer/new_block`) stored another. `Tell` is one hook,
which returns or raises; `Send` is the node's own callback, after the plugins, and the release of
the lock. `add_block` is one step: a `/peer/new_block` whose call overlaps that of a commit can replace
the row of a block that was told (`BlockApply`, run `race`), so `Linked`, and that what `ToldInOrder`
speaks of is stored, are shown for calls that do not overlap; the same is true of `DurableProperty` in
`NVFBFT`. `SyncTruth` compares lengths, as `sync` does: a node on a fork or on a genesis block of its own can
report itself synced. How votes come to a quorum is left to `NVFBFT`. Plugins are registered before the
start.

## 3. What is checked

Each run finishes in at most some three minutes (`restart` has a million states, `serial` 700,000, `feepool` half a million). Runs that are expected to fail state
something the repository says; the others hold.

| run | instance | shows |
|---|---|---|
| `fork` | 2 nodes, 1 transaction, 3 proposals each | every stored block was voted for by more than two thirds (`FinalityQuorum`); chains may fork, but share the past of what they share (`SameHistory`) |
| `join` | the authority and a wallet that registers, empty peer tables, fees, expiry | votes attached to a stored block were cast for it (`CertificatesGenuine`) by validators admitted in earlier blocks (`SybilCertificates`); the validator cache never runs ahead (`RegisteredSound`); only the authority decides alone (`SoloOnlyAuthority`) |
| `restart` | 2 nodes, 2 crashes anywhere, any peers found and answering | `SameHistory`; stored blocks stay (`DurableProperty`); a stored paid transaction becomes pending again only by a request that looked for it before it was stored and added it afterwards (`OnlyOvertakenReturn`) |
| `live` | 3 nodes, 2 transactions given to node 1, timely network | every pending transaction is stored by everybody (`PendingConfirmed`), settled nodes agree (`SettledAgreement`), all of three must vote (`FinalityQuorum`) |
| `serial` | 5 blocks with a fork, purchase, transfer, sale and registration; one call of `add_block` at a time, 1 crash, 1 failing call | the books replay the chain when nothing failed (`BooksReplay`), the chain is linked (`Linked`), recorded transactions are not pending unless they were recorded between the check and the add of a request (`RecordedNotPending`), and `BlockApply` implements `Ledger` (`ImplementsLedger`) |
| `directory` | 3 nodes, 3 starts, 1 lost call, life of two heartbeat intervals | without loss a serving node stays listed (`ListedWhileServing`) and nodes whose starts did not overlap know each other (`KnownUnlessOverlapped`); announcements end (`AnnouncementsEnd`) |
| `feepool` | a signed transfer to oneself, in step with the clock or ahead of it, a transfer and an issue built by the API; 2 requests, at once or not and for one transaction or two, batches of 3, 1 crash | fees, and transactions that no other request overtook, are stored once if they move money (`StoredOnce`); a pending transaction that was not ahead of the clock keeps its fees (`FeesWithTx`); until it expires, and but for both exceptions, its sender pays for what was stored and nothing else (`ChargedOnce`); money is conserved unless a sender has more pending than it owns (`Conserved`); the mempool drains (`PoolDrains`) |
| `registry` | a SQLite and a Supabase node, 2 wallets, 1 content with 1 edition, 3 calls, 1 of them from a client | owners follow the chain on every node (`OwnersReplay`), the creator stays on SQLite (`CreatorFixed`), what a registry checked holds when it is applied unless overtaken (`CheckedHolds`), royalties are stored before payments (`RoyaltyFirst`) |
| `nodelife` | 2 forked peers, chunks of 2, 2 plugins with 2 hooks, 1 stop | chains stay linked (`Linked`), a node that reports itself synced is (`SyncTruth`), plugins hear of stored blocks in order (`ToldInOrder`) and of all of them (`ToldAll`), sync ends (`SyncEnds`), a status request is answered (`StatusAnswered`) |
| `agreement` | as `fork`, 2 proposals each | violated: two nodes finalise different blocks at one index |
| `batchcut` | as `feepool`, batches of 4, 3 requests one after the other, no crash | violated: a batch cut between a transaction and its fees is refused at every turn |
| `race` | as `serial`, two threads, no failure | violated: a block that is posted twice at once, or posted and committed, is stored once and applied twice |

*Bounds.* A fork, a stale proposal and a late vote need two proposals for one index and
one for the next, hence up to three proposals per node (in `restart` two of node 2 and one of node 1); a validator that joins needs two
blocks; the quorum arithmetic differs from a plain majority from three nodes on. Two
crashes are needed for a node to come back from another that has itself come back. Two
threads suffice for every overlap of `add_block`; five blocks give a fork at both
indexes. Three nodes give an announcement someone to forward it. In `FeePool` a paid
transaction with its fees and another one make a batch of 4 that is full and cut in
`batchcut`; two requests give every interleaving of their checks, adds and fees, with the mining of the
one in the middle of the other, ages from -1 to 2 every order of stamps and every expiry, and
batches of 3 a full one with nothing left of a paid transaction, or a cut. In `Registry` three calls are a registration, something that overtakes and
something overtaken, or a sale and its two transactions; the run has the two persistent
backends, the theorems all three. In `NodeLife` two chunks and a fork at the third block give
a chunk that fails half-way; two plugins and two hooks give a failure before, within
and after a plugin. `MaxBlocks`, `MaxCrashes`, `MaxErrors`, `MaxStarts`, `MaxLost`,
`Forwarded`, `MaxPosts`, `MaxOpen`, `MaxTx`, `MaxLog`, `MaxReady`, `MaxHeight` and
`MaxStops` are the bounds; each is a guard or a set named in its module. The wallets of
`registry` are symmetric, and that run has no liveness property.

*Deadlock* is not checked in the runs of `NVFBFT`, `registry` and `nodelife`: a network
with nothing pending rests, and so does one at its bounds. It is checked in the others
(in `FeePool` time always passes, so there it says nothing).

*Fairness.* `TimelySpec` has weak fairness for the turns of the consensus thread, its two
further steps and the handlers of each node, in a network where a round starts only when no
post is on its way. That is what the five seconds between two turns give when posts take
less; the code promises nothing beyond (no timeout, no view change), and without this
assumption `PendingConfirmed` is false: proposals of two nodes can keep replacing each
other. Peers do not change and nodes do not stop in these runs. In `Directory` only the
handling or failure of a post is fair: an HTTP call ends. In `FeePool` the turns of the
consensus thread, the rest of a running request and time are weakly fair; requests and
crashes are not. In `NodeLife` the steps of `sync` are weakly fair, as each of its
requests has a time limit, and so are the hooks of plugins, which return or raise; the
answer to a status request is strongly fair, as it waits for a lock which other threads take in turn
and which is not withheld from one of them for ever. Nothing says that
blocks are made, that a stop happens or that peers grow.

Every property of a passing run has a mutant, a plausible slip in one definition
(operators marked "Mutation of"), under which TLC finds that property violated.

## 4. Disagreements found

Besides the three runs that fail, these were met while modelling and have no run of their own:

Consensus and blocks

- The quorum is 0.667, above two thirds: two of three votes do not decide (docstring
  `consensus/nvf_bft.py:70`, "Check if 2/3 quorum has been reached").
- `on_vote` counts votes of every registered wallet but measures them against the peers it
  knows, so with partial peer tables fewer than two thirds of the validators decide.
- `_run_round` elects for one tip and `create_block` builds on another: a node can propose an
  index it does not lead, and a block stored in between can leave its transactions, paid ones
  too, in the next block as well; `add_block` does not look for stored transactions.
- Transactions without an amount are never recorded, so a late copy is accepted again.
- `/peer/new_block` does not call `_refresh_registered_nodes` after it stores a block, so a node
  that gets a registration this way ignores the new validator's votes until its next commit or
  restart (`consensus/nvf_bft.py:123`, `api/node_api.py:183`).
- With one node of four down, the index it leads is never proposed: `check_timeout` has no caller
  (`consensus/nvf_bft.py:505`), although line 13 says that the consensus "Tolerates up to f < n/3 faulty nodes".
- "Any node that joins is automatically a validator — no permission needed" (`src/README.md:15`): `on_vote` and
  the election take registered wallets only, and `SybilCertificates` shows that nobody else's vote is ever in a block.
  Line 15 of `consensus/nvf_bft.py` has it right: a `node_register` transaction signed by the authority.
- "Attacker nodes are silently ignored even if connected" (`consensus/nvf_bft.py:18`): votes and proposals of
  unregistered nodes are, but `/peer/new_block` stores a valid next block from anybody, and keeps the votes
  posted with it unread (`api/node_api.py:173-187`). `CertificatesGenuine`, `SybilCertificates` and
  `FinalityQuorum` are therefore about networks in which every post comes from a node that runs this code.
- `add_transaction` looks a transaction up in the mempool and in the transaction table
  (`core/blockchain.py:109`, `:112`) and adds it at line 116 without a lock. When a commit or `/peer/new_block`
  stores the transaction in between, it is pending again though stored, and on a solo node it can be stored and
  paid a second time, with a second pair of fees. Two requests for one transaction that are between look-up and
  add at once make two pairs of fees for it when neither add finds the other's entry, and when the second add
  comes after the first was mined. `OnlyOvertakenReturn`, `RecordedNotPending`, `StoredOnce` and `ChargedOnce` show
  that nothing else leads there.
- Fees name the node that proposes and `validate_fee_transactions` looks for the wallet of the node that
  validates, so a fee-bearing block is stored by its proposer only (`core/fee_engine.py:259`).
- A call of `add_block` that a crash or a failing read interrupts is never completed; its
  transactions are then stored, possibly recorded, and may still be pending.

Fees and the mempool

- A batch that is cut between a transaction and its fees (`batchcut`) is refused until it expires.
  Fees whose transaction expired first are then mined and charged alone.
- A batch drawn between `mempool.add(tx)` and the addition of its fees is refused once. A
  client whose clock is ahead makes the fees sort before their transaction, as `validate_fields` looks
  at no time stamp in the future: a cut can then take the fees alone, and they can be mined, or expire, before
  their transaction (the exception `ahead` of `FeesWithTx` and `ChargedOnce`).
- A transaction that is drawn, dropped from the mempool by a view (`/api/spider_hashes`) when it
  expires, and posted again can be charged its fees twice.
- A request that the node stamps and that is repeated after a time-out is another transaction: it is
  paid twice.
- `save_balance` cuts a negative balance to zero, which makes money when more is pending than is owned.
- `plwb_redeem` is among `AUTHORITY_TX_TYPES`: its 5 % fee is never reached, and it credits without a
  debit. `eth_sendRawTransaction` builds nothing that validates.
- Nodes that never lead never call `get_pending`, and drop expired transactions only when somebody
  looks at them.

Directory

- The peers returned by a registration are not used, although `network/bootstrap.py:143` says
  so; two nodes that start together may not learn of each other.
- The heartbeat interval is half the life of a record: after one lost heartbeat the next finds
  no record, is answered 404, and the node is not registered again before it restarts.

Start, sync and plugins

- The genesis transaction carries the time it was made at (`core/blockchain.py:57`, and its time stamp
  of 0 counts as none): every fresh node has a genesis block of its own, to which no block of its peers
  links, and sync gets nowhere.
- `start()` does not look at the result of `sync()`, and a node without peers reports itself not
  synced. A chunk that fails half-way leaves its first blocks stored, and every other peer's copy of the
  chunk then fails on them; the next start goes on from there.
- Plugins are not told of blocks that come by sync or `/peer/new_block`, nor of a commit a stop
  cuts short, and may be told before `on_start` and after `on_stop`. A plugin that asks the node for its status in
  a hook waits for the lock of its own thread: with `Asking` not empty `StatusAnswered` says
  nothing and the node stands still.

Contents and editions

- `transfer_ownership` of the client with a price is one transfer from the holder to the new
  owner, amount included: the seller pays the buyer, and no royalty.
- A priced sale of the registry makes royalty and payment transfers of the content: the seller, and not
  the buyer, is its owner afterwards. A priced edition transfer does the same to the content, moves
  the edition even when royalty and payment are refused, and its own amount goes from seller to buyer.
- Two gifts queued by one owner are both stored, the check of the second having read the state
  before the first. A free signed transfer can be posted again after it was stored, and moves the
  content again.
- A second registration changes the owner and keeps the creator on SQLite, replaces everything on
  Supabase; in RAM a registration sets no owner, so `verify_ownership` fails until a transfer.
- `validate_royalty_transactions`, and `create_editions` and `transfer_edition` of the edition registry, have no
  caller in the repository.

## 5. What is proved

`tlapm` checks all proofs; none relies on a bound. Every safety property of the passing runs,
invariants and action properties and the refinement of `Ledger` among them, is a theorem; the runs
show them on small instances.

`NVFBFT_proofs`, for any finite set of nodes, any transactions, registrations, clients and
bounds (`NodeAssumption`, `TxAssumption`, `BoundAssumption`, `RoundAssumption`):

- `TypeInvariant`: `Spec => []TypeOK`.
- `GenuineInvariant`: `Spec => []CertificatesGenuine`. The property alone is not inductive: votes
  reach a chain from a round, from `/peer/new_block` or by sync. `GenuineInv` adds that a vote
  on its way was cast (`VotesSent`), that the votes of a round were cast for its block
  (`RoundGenuine`), and the same of the votes posted with a block (`PostsGenuine`).
- `FinalityInvariant`: `Spec => []FinalityQuorum` under `FixedMembership`: every node is
  registered from the start, nodes know each other, nobody is admitted and nobody crashes (a
  restarted node may find any subset of peers, and measures its quorum against it).
  `QuorumInv` carries the quorum through messages (`PostsDecided`) and chains
  (`ChainsDecided`); that the peers stay complete is its `MembershipFixed`.
- `AccountabilityInvariant`: under the same assumption, two different blocks stored at one index
  were both signed by some validator. It follows from `FinalityQuorum` and the fact that two
  sets of more than two thirds of a finite set intersect (`QuorumsIntersect`). So the fork
  of run `agreement` always has a witness, though the code keeps no record of it.

`NVFBFTChains_proofs`, under the same assumptions about constants and none about membership:
nodes join, crash, come back with any subset of peers, and sync with any of them; messages are
lost and reordered. One inductive invariant, `ChainsInv`, carries all state properties:

- `SameHistoryInvariant`: `Spec => []SameHistory`. A proposer numbers its blocks, so equal
  identities are equal blocks (`IdsMade`, `IdsUnique`), and each stored block names the one
  before it (`Links`).
- `RegisteredInvariant`: `Spec => []RegisteredSound`, and `SybilInvariant`: `Spec =>
  []SybilCertificates`. A round counts the votes of validators in the cache only
  (`RoundMembers`), and a block that is posted is stored somewhere with those votes
  (`PostsStored`), so the nodes that take it over find the same members on the same prefix.
- `SoloInvariant`: `Spec => []SoloOnlyAuthority`.
- `ReturnedOvertaken`: `Spec => OnlyOvertakenReturn`, an action property. A request that has looked and not yet added
  is noted with whether the transaction was in the chain by then (`LookedUpBefore`); a node that does not run has
  nothing in RAM (`DownEmpty`), so a sync cannot store what is still pending.
- `StoredForGood`: `Spec => DurableProperty`, an action property.
- `SettledChainsAgree`: `TimelySpec => []SettledAgreement`, under `FixedMembership` and `OneStart`: all
  nodes start from one first block, and no block has to carry fees, since with fees a block is stored by
  its proposer only (section 4). Agreement itself says nothing while posts are on their way, so
  `SettledInv` carries it through a round: a node is elected and proposes only while nothing is on its
  way, and then all have the same tip and elect the same one (`Elections`); there is one block on
  its way that some have stored on a common prefix (`Reached`); everything posted is about it,
  and who lacks it while another has it has a `/peer/new_block` coming (`UnderWay`). Without a
  timely network it is false, as run `agreement` shows.

`DataInduction` gives induction over data in a form the provers take: a property is the set of the values
that have it. `NatSet` (from the well-foundedness of `<`), `UpToSet` and `FinSet` are induction over
naturals, an interval and the subsets of a finite set; `CourseExists` gives the recursive function that a
loop over `1..n` computes; `FlattenCourse`, `FlattenType` and `FlattenAppend` say what `FlattenSeq` does;
`Places` numbers a finite set in an order, as a sort does. What a
loop of the code computes is a recursive function in the models (`Course`, `Kept`, `Settled`, `SumOf`), as the
folds of the libraries take an operator as a parameter, which the provers cannot instantiate.

`BlockApply_proofs`, for any accounts, tokens and blocks on offer, any number of threads, and any number
of failing calls and crashes:

- `BlockApplyType`: `Spec => []TypeOK`. A balance is never negative. `TypeInv` adds what each stage of a
  call has (`GoodCall`): the effects left to do are effects of its block.
- `NothingRecordedIsPending`: `Spec => []RecordedNotPending`, for overlapping calls of `add_block` and requests
  anywhere between their steps. `StillToRemove` says that a pending transaction that is recorded, and was not
  overtaken, belongs to a block whose call has yet to remove it; `CheckedOvertaken` that a transaction which a
  request has looked for and which is recorded was recorded since.
- `TableLinked`: `Spec /\ []Alone => []Linked`, `BooksFollowChain`: `Spec /\ []Alone => []BooksReplay`, and
  `ImplementsTheLedger`: `Spec /\ []Alone => ImplementsLedger`. `Alone` says that no two calls of
  `add_block` overlap, as it is with one thread; the code does not enforce it, and run `race` shows
  `add_block` going wrong without it. `LedgerInv` has the rows of the table without a gap (`IsTable`), a
  validated block that is still valid (`ValidKept`), how many effects the call under way has done
  (`Progress`), that the balance it has read is the stored one (`ReadFresh`), and the books of the chain
  (`BooksOfChain`). For the refinement, the write of the row, whether it fails or not, maps to `Post`, any other
  storage call to a stutter, and a failed one or a crash to `Lose`.

`FeePool_proofs`, for any finite set of wallets, any transactions and funds, any limits, ages, numbers of
requests and stops:

- `FeePoolType`: `Spec => []TypeOK`.
- `StoredAtMostOnce`: `Spec => []StoredOnce`. `OnceInv` adds that no hash is twice in the pool or in a
  batch (`Different`), that nothing in them with an amount is stored (`NotStoredYet`), that requests are
  numbered in order (`Numbered`, `AskedNew`), that what a request has found to be new still is unless it was
  overtaken (`CheckedNew`), and that what a request has put in the mempool is not stored, nor the fees still
  owed anywhere (`LiveIsNew`).
- `FeesStayWithTx`: `Spec => []FeesWithTx`. A fee is behind its transaction in the pool and no older
  (`Behind`) unless the transaction was ahead of the clock, so neither the cut nor expiry reaches it first;
  `CutBehind` is the same of a batch.
- `ChargedAtMostOnce`: `Spec => []ChargedOnce`. `ChargedInv` adds that a pending transaction is as old as
  its stamp, that nothing unmade is anywhere, and that the fees of a transaction that has not expired are
  pending only while it is (`FeesHaveTx`), the last for transactions that are neither `overtaken` nor `ahead`.
- `MoneyConserved`: `Spec => []Conserved`. Unless somebody was accepted with more pending than it owns, every
  sender owns what it still has to pay (`Solvent`); hence no balance is cut at zero, and each transaction moves
  what it takes (`ApplyMoves`, `SettledMoney`).

`Directory_proofs`, for any nodes and bounds and `Interval < NodeTtl`:

- `DirectoryType`: `Spec => []TypeOK`.
- `ListedInvariant`: `Spec => []ListedWhileServing`. It needs `Timely`: a registered node's record
  has its full life, and `left[n] + since[n] >= NodeTtl` while n serves.
- `KnownInvariant`: `Spec => []KnownUnlessOverlapped`. A node knows every listed one with which its start did
  not overlap, or an announcement is on its way to it (`Acquainted`): it found it listed, or was listed when the
  other announced itself. Nodes that start at the same time are noted as overlapping (`Overlapped`).

`NodeLife_proofs`, whose first part is lemmas about single steps of sync, for any
peers with linked chains on one genesis block, any plugins, those that ask back included, any chunk
size and any number of stops. The inductive invariant `Inv` is `TypeOK`, `SyncInv`, `NotBegun` and `Notices`.

- `ChainLinked`: `Spec => []Linked`, and `SyncTrue`: `Spec => []SyncTruth`. `SyncInv` adds what holds in
  the middle of a chunk: the chain reaches the cursor, and with the blocks still to be applied
  the end of the chunk.
- `PluginsInOrder`: `Spec => []ToldInOrder`, and `PluginsAll`: `Spec => []ToldAll`. `Notices` says why: there is one
  commit at a time (`OneCommit`, from the lock), its block is after all that were told before
  (`CommitsAhead`), and a plugin it has passed has heard of it (`HeardBefore`).
- `TypeCorrect`: `Spec => []TypeOK`.

`Registry_proofs`, for any nodes on any of the three backends, any wallets and contents and any
number of calls. `Inv` is `TypeOK`, `BooksFollow`, `OwnersReplay`, `RoyaltyFirst` and `RoyaltyAhead`.

- `OwnersFromChain`: `Spec => []OwnersReplay`, from `BooksFollow`: the history variable `books` is the log, replayed.
- `RoyaltyBeforePayment`: `Spec => []RoyaltyFirst`. `RoyaltyAhead` carries the order from `rest` through
  `pool` to `log`, wherever clients put transactions in between.
- `CreatorStays`: `Spec => CreatorFixed`, an action property.
- `TypeCorrect`: `Spec => []TypeOK`.
- `CheckStaysTrue`: `Spec => CheckedHolds`, an action property. `CheckedInv` says of each transaction that is
  queued, about to be queued or stored that its node has applied as much about the content as when it was checked,
  and then the check still holds, or more (`UpToDate`).

Only model-checked: liveness (`PendingConfirmed`, `AnnouncementsEnd`, `PoolDrains`, `SyncEnds`,
`StatusAnswered`), as fairness and ENABLED are outside the prover's reach. No module declares a
RECURSIVE operator.

## 6. What is not modelled, and the plan

Not modelled: JSON-RPC, metadata and ABI encoding (stateless views), the read-only routes of the
public and peer API and of the client, signatures and hashes (taken as sound), field
validation of transactions, PLWB redemption, the rows of the block tables of the three
backends side by side, failing reads of Supabase, the eviction of peers, configuration and examples.

Planned, in this order:

1. `CertifiedLog`, the abstract promise of the network (chains that only grow, by blocks that more than two
   thirds have signed), and the theorem that `NVFBFT` with a fixed membership implements it.
2. `BlockStore`: the rows of the backends side by side (a replaced block stays reachable by hash in
   RAM).
