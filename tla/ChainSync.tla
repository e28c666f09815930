------------------------------ MODULE ChainSync ------------------------------
(***************************************************************************)
(* How a starting node catches up: it asks the peers it has discovered for *)
(* their tips, then fetches the missing blocks in chunks, each chunk from  *)
(* the first peer whose blocks it can store.  Peers go on storing blocks,  *)
(* may be on a fork, may not answer, and may send a block that is no block.*)
(*                                                                         *)
(* NodeLife composes these actions with the rest of a node's life.         *)
(***************************************************************************)
EXTENDS Integers, Sequences, FiniteSets

CONSTANTS
    Hash,           \* hashes of blocks
    Mismatch,       \* stands for a hash its block does not have
    Peer,           \* the other nodes
    Held,           \* Held[p]: the chain p has or comes to have
    Start,          \* Start[p]: how much of it p has at first
    Genesis,        \* the block the chains of the peers begin with
    OwnGenesis,     \* the one the node makes when its storage is empty
    SyncChunkSize   \* SYNC_CHUNK_SIZE; a peer sends no more than 50 blocks either

Block == [index: Nat, hash: Hash, prev: Hash]

Elements(s) == {s[i] : i \in DOMAIN s}

\* validate against the tip: the hash, the index and the link.
Valid(b, tip) == b.hash # Mismatch /\ b.index = tip.index + 1 /\ b.prev = tip.hash

IsChain(c) ==
    /\ c # <<>>
    /\ \A i \in DOMAIN c : c[i].index = i - 1
    /\ \A i \in DOMAIN c : i > 1 => Valid(c[i], c[i - 1])

ASSUME ChainSyncAssumption ==
    /\ IsFiniteSet(Peer)
    /\ Mismatch \in Hash
    /\ {Genesis, OwnGenesis} \subseteq Block /\ Genesis.index = 0 /\ OwnGenesis.index = 0
    /\ Held \in [Peer -> Seq(Block)]
    /\ Start \in [Peer -> Nat]
    /\ \A p \in Peer : IsChain(Held[p]) /\ Held[p][1] = Genesis /\ Start[p] \in DOMAIN Held[p]
    /\ SyncChunkSize \in Nat \ {0}

VARIABLES
    chain,    \* the blocks the node has stored
    height,   \* height[p]: how many blocks of Held[p] p has
    peers,    \* the active peers, in the order of the table
    stage,    \* what sync() is doing
    turn,     \* the peer it turns to next
    target,   \* the highest index a peer told of, -1 when none did
    cursor,   \* current: the first index of the chunk
    todo,     \* blocks of the fetched chunk still to be applied
    fetched,  \* how many blocks the chunk had
    synced    \* _progress["synced"]

syncVars == <<chain, height, peers, stage, turn, target, cursor, todo, fetched, synced>>

Stage == {"off", "tips", "fetch", "apply", "ended"}

SyncTypeOK ==
    /\ chain \in Seq(Block)
    /\ height \in [Peer -> Nat] /\ \A p \in Peer : height[p] \in DOMAIN Held[p]
    /\ peers \in Seq(Peer)
    /\ stage \in Stage
    /\ turn \in 1..Len(peers) + 1
    /\ target \in Nat \union {-1}
    /\ cursor \in Nat
    /\ todo \in Seq(Block)
    /\ fetched \in Nat
    /\ synced \in BOOLEAN

Tip == chain[Len(chain)]

Smaller(m, n) == IF m < n THEN m ELSE n
Larger(m, n) == IF m < n THEN n ELSE m

-----------------------------------------------------------------------------

\* sync() with the peers found: a node without peers is done.
Begin ==
    /\ stage = "off"
    /\ stage' = IF peers = <<>> THEN "ended" ELSE "tips"
    /\ turn' = 1
    /\ target' = -1
    /\ UNCHANGED <<chain, height, peers, cursor, todo, fetched, synced>>

\* _find_canonical_tip, one peer: it answers or it does not.
AskTip ==
    /\ stage = "tips"
    /\ turn <= Len(peers)
    /\ \/ target' = Larger(target, height[peers[turn]] - 1)
       \/ target' = target
    /\ turn' = turn + 1
    /\ UNCHANGED <<chain, height, peers, stage, cursor, todo, fetched, synced>>

\* All asked: nothing to go by, nothing to fetch, or the first chunk.
Compare ==
    /\ stage = "tips"
    /\ turn > Len(peers)
    /\ IF target >= 0 /\ Len(chain) - 1 < target
         THEN /\ stage' = "fetch"
              /\ cursor' = Len(chain)
              /\ synced' = synced
         ELSE /\ stage' = "ended"
              /\ cursor' = cursor
              /\ synced' = (synced \/ target >= 0)
    /\ turn' = 1
    /\ UNCHANGED <<chain, height, peers, target, todo, fetched>>

\* What p has from index i to j, as /peer/blocks sends it.
Sent(p, i, j) == SubSeq(Held[p], i + 1, Smaller(j + 1, height[p]))

\* The answers a fetch can get: the blocks, the blocks with one that does not
\* match its hash, or none.
Answers(p, i, j) ==
    LET sent == Sent(p, i, j) IN
      {<<>>, sent} \union {[sent EXCEPT ![k].hash = Mismatch] : k \in DOMAIN sent}

\* Mutation of Usable: an answer without blocks is taken for a chunk.
UsableEmpty(blocks) == TRUE

Usable(blocks) == blocks # <<>>

\* _fetch_chunk from the next peer.
Fetch ==
    /\ stage = "fetch"
    /\ turn <= Len(peers)
    /\ \E blocks \in Answers(peers[turn], cursor, Smaller(cursor + SyncChunkSize - 1, target)) :
         IF Usable(blocks)
           THEN stage' = "apply" /\ todo' = blocks /\ fetched' = Len(blocks) /\ turn' = turn
           ELSE turn' = turn + 1 /\ UNCHANGED <<stage, todo, fetched>>
    /\ UNCHANGED <<chain, height, peers, target, cursor, synced>>

\* Mutation of AfterFailure: a chunk that no peer could give ends the loop only.
AfterFailureBreak == TRUE

AfterFailure == FALSE

\* No peer is left for the chunk.
GiveUp ==
    /\ stage = "fetch"
    /\ turn > Len(peers)
    /\ stage' = "ended"
    /\ synced' = AfterFailure
    /\ UNCHANGED <<chain, height, peers, turn, target, cursor, todo, fetched>>

\* Mutation of Fits: the link to the previous block is not looked at.
FitsUnlinked(b) == b.hash # Mismatch /\ b.index = Tip.index + 1

Fits(b) == Valid(b, Tip)

\* _apply_chunk, one block: stored, or refused, and then the next peer is asked
\* for the same chunk though its first blocks may be stored.
ApplyNext ==
    /\ stage = "apply"
    /\ todo # <<>>
    /\ IF Fits(Head(todo))
         THEN /\ chain' = Append(chain, Head(todo))
              /\ todo' = Tail(todo)
              /\ UNCHANGED <<stage, turn>>
         ELSE /\ stage' = "fetch"
              /\ turn' = turn + 1
              /\ todo' = <<>>
              /\ chain' = chain
    /\ UNCHANGED <<height, peers, target, cursor, fetched, synced>>

\* The chunk is applied: the next one, or the end.
NextChunk ==
    /\ stage = "apply"
    /\ todo = <<>>
    /\ cursor' = cursor + fetched
    /\ stage' = IF cursor' <= target THEN "fetch" ELSE "ended"
    /\ synced' = (synced \/ cursor' > target)
    /\ turn' = 1
    /\ UNCHANGED <<chain, height, peers, target, todo, fetched>>

SyncStep == AskTip \/ Compare \/ Fetch \/ GiveUp \/ ApplyNext \/ NextChunk

\* A peer stores another block.
Grow(p) ==
    /\ height[p] < Len(Held[p])
    /\ height' = [height EXCEPT ![p] = @ + 1]
    /\ UNCHANGED <<chain, peers, stage, turn, target, cursor, todo, fetched, synced>>

\* The node has the genesis block of its peers, or, when it started on an empty
\* storage, one of its own: the time stamp of the genesis transaction is the time.
SyncInit ==
    /\ chain \in {<<Genesis>>, <<OwnGenesis>>}
    /\ height = Start
    /\ peers = <<>>
    /\ stage = "off"
    /\ turn = 1
    /\ target = -1
    /\ cursor = 0
    /\ todo = <<>>
    /\ fetched = 0
    /\ synced = FALSE

\* The process stops: only the chain is kept.
SyncLost ==
    /\ peers' = <<>>
    /\ stage' = "off"
    /\ turn' = 1
    /\ target' = -1
    /\ cursor' = 0
    /\ todo' = <<>>
    /\ fetched' = 0
    /\ synced' = FALSE
    /\ UNCHANGED <<chain, height>>

-----------------------------------------------------------------------------
(* Properties                                                              *)

\* Whatever peers on forks send, and however often the node restarts, every block
\* of its chain is linked to the one before (validate, sync, add_block), as long as
\* calls of add_block do not overlap.
Linked == IsChain(chain)

\* A node that reports itself synced has a block at every index up to the highest it
\* was told of; a chunk that failed half-way or a peer that sent too few blocks
\* does not pass for it (sync, _download_blocks).  As in sync, lengths are compared
\* and not blocks: a node on a fork, or on a genesis of its own, can pass for synced.
SyncTruth == synced => Len(chain) > target

\* sync() returns, whoever does not answer.
SyncEnds == stage = "tips" ~> stage \in {"off", "ended"}
=============================================================================
