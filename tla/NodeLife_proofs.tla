---------------------------- MODULE NodeLife_proofs ----------------------------
(***************************************************************************)
(* Theorems about NodeLife, for every value of its constants: any number   *)
(* of peers, any forks of their chains, any plugins, chunks of any size,   *)
(* and any number of restarts.                                             *)
(***************************************************************************)
EXTENDS NodeLife, TLAPS, SequenceTheorems, FiniteSetTheorems

-----------------------------------------------------------------------------
(* The chain of a node: what its synchronisation keeps                     *)

\* The peer that sent a chunk, where its blocks belong, and how far the chain has come when some
\* of them are stored.
Chunk ==
    stage = "apply" =>
        /\ turn <= Len(peers)
        /\ fetched > 0
        /\ \A i \in 1..Len(todo) : todo[i].index = cursor + fetched - Len(todo) + i - 1
        /\ Len(todo) < fetched => Len(chain) >= cursor + fetched - Len(todo)

SyncInv ==
    /\ SyncTypeOK
    /\ Linked
    /\ SyncTruth
    /\ synced => stage = "ended"
    /\ Chunk

\* What any step of a node does to its chain.
KeepsChain ==
    \/ chain' = chain
    \/ \E b \in Block : Valid(b, Tip) /\ chain' = Append(chain, b)

-----------------------------------------------------------------------------
(* Chains                                                                  *)

\* The tip of a chain is a block, and its index is one less than the length.
LEMMA TipProperties ==
    ASSUME chain \in Seq(Block), Linked
    PROVE  /\ Len(chain) \in Nat \ {0}
           /\ Tip \in Block
           /\ Tip.index = Len(chain) - 1
<1>1. Len(chain) \in Nat \ {0} /\ DOMAIN chain = 1..Len(chain)
  BY EmptySeq, LenProperties DEF Linked, IsChain
<1>2. Tip \in Block
  BY <1>1, ElementOfSeq DEF Tip
<1> QED
  BY <1>1, <1>2 DEF Linked, IsChain, Tip

\* A chain that is kept, or grows by a block valid on its tip, stays a chain, and
\* keeps its blocks.
LEMMA KeepsChainLinked ==
    ASSUME chain \in Seq(Block), Linked, KeepsChain
    PROVE  /\ chain' \in Seq(Block)
           /\ Linked'
           /\ Len(chain') \in Nat /\ Len(chain') >= Len(chain)
           /\ Elements(chain) \subseteq Elements(chain')
<1>1. CASE chain' = chain
  BY <1>1, TipProperties DEF Linked
<1>2. ASSUME NEW b \in Block, Valid(b, Tip), chain' = Append(chain, b)
      PROVE  /\ chain' \in Seq(Block)
             /\ Linked'
             /\ Len(chain') \in Nat /\ Len(chain') >= Len(chain)
             /\ Elements(chain) \subseteq Elements(chain')
  <2>1. /\ Len(chain) \in Nat \ {0}
        /\ DOMAIN chain = 1..Len(chain)
        /\ Tip.index = Len(chain) - 1
    BY TipProperties, LenProperties
  <2>2. /\ chain' \in Seq(Block) /\ chain' # <<>>
        /\ Len(chain') = Len(chain) + 1
        /\ \A i \in 1..Len(chain) : chain'[i] = chain[i]
        /\ chain'[Len(chain) + 1] = b
    BY <1>2, AppendProperties
  <2>3. DOMAIN chain' = 1..Len(chain) + 1
    BY <2>2, LenProperties
  <2>4. b.index = Len(chain) /\ Tip = chain[Len(chain)]
    BY <1>2, <2>1 DEF Valid, Tip
  <2>5. \A i \in DOMAIN chain' : chain'[i].index = i - 1
    BY <2>1, <2>2, <2>3, <2>4 DEF Linked, IsChain
  <2>6. ASSUME NEW i \in DOMAIN chain', i > 1
        PROVE  Valid(chain'[i], chain'[i - 1])
    <3>1. CASE i = Len(chain) + 1
      <4>1. chain'[i] = b /\ chain'[i - 1] = chain[Len(chain)]
        BY <2>1, <2>2, <3>1
      <4> QED
        BY <1>2, <2>4, <4>1
    <3>2. CASE i # Len(chain) + 1
      <4>1. i \in 1..Len(chain) /\ i - 1 \in 1..Len(chain)
        BY <2>1, <2>3, <2>6, <3>2
      <4> QED
        BY <2>1, <2>2, <2>6, <4>1 DEF Linked, IsChain
    <3> QED
      BY <3>1, <3>2
  <2>7. Elements(chain) \subseteq Elements(chain')
    BY <2>1, <2>2, <2>3 DEF Elements
  <2> QED
    BY <2>1, <2>2, <2>5, <2>6, <2>7 DEF Linked, IsChain
<1> QED
  BY <1>1, <1>2 DEF KeepsChain

\* An answer with blocks is a chunk that starts at the index asked for.
LEMMA AnswersProperties ==
    ASSUME SyncTypeOK, NEW p \in Peer, NEW j \in Int,
           NEW blocks \in Answers(p, cursor, j), Usable(blocks)
    PROVE  /\ blocks \in Seq(Block)
           /\ Len(blocks) \in Nat \ {0}
           /\ \A i \in 1..Len(blocks) : blocks[i].index = cursor + i - 1
<1> DEFINE n == Smaller(j + 1, height[p])
           s == Sent(p, cursor, j)
<1>1. /\ Held[p] \in Seq(Block) /\ IsChain(Held[p])
      /\ Len(Held[p]) \in Nat /\ DOMAIN Held[p] = 1..Len(Held[p])
      /\ height[p] \in 1..Len(Held[p])
      /\ cursor \in Nat
  BY ChainSyncAssumption, LenProperties DEF SyncTypeOK
<1>2. n \in Int /\ n <= Len(Held[p])
  BY <1>1 DEF Smaller
<1>3. s = SubSeq(Held[p], cursor + 1, n)
  BY DEF Sent
<1> HIDE DEF n, s
<1>4. ASSUME NEW i \in cursor+1..n
      PROVE  Held[p][i] \in Block /\ Held[p][i].index = i - 1
  <2>1. i \in 1..Len(Held[p])
    BY <1>1, <1>2
  <2> QED
    BY <1>1, <2>1, ElementOfSeq DEF IsChain
<1>5. /\ s \in Seq(Block)
      /\ Len(s) \in Nat
      /\ \A i \in 1..Len(s) : s[i].index = cursor + i - 1
  <2>1. /\ s \in Seq(Block)
        /\ Len(s) = IF cursor + 1 <= n THEN n - (cursor + 1) + 1 ELSE 0
        /\ \A i \in 1..n - (cursor + 1) + 1 : s[i] = Held[p][cursor + 1 + i - 1]
    BY <1>1, <1>2, <1>3, <1>4, SubSeqProperties
  <2>2. ASSUME NEW i \in 1..Len(s)
        PROVE  s[i].index = cursor + i - 1
    <3>1. cursor + i \in cursor+1..n /\ s[i] = Held[p][cursor + i]
      BY <1>1, <1>2, <2>1
    <3> QED
      BY <1>1, <1>4, <3>1
  <2> QED
    BY <1>1, <1>2, <2>1, <2>2
<1>6. blocks # <<>> /\ (blocks = s \/ \E k \in DOMAIN s : blocks = [s EXCEPT ![k].hash = Mismatch])
  BY DEF Answers, Usable, s
<1>7. CASE blocks = s
  BY <1>5, <1>6, <1>7, EmptySeq
<1>8. ASSUME NEW k \in DOMAIN s, blocks = [s EXCEPT ![k].hash = Mismatch]
      PROVE  /\ blocks \in Seq(Block)
             /\ Len(blocks) \in Nat \ {0}
             /\ \A i \in 1..Len(blocks) : blocks[i].index = cursor + i - 1
  <2> DEFINE e == [s[k] EXCEPT !.hash = Mismatch]
  <2>1. k \in 1..Len(s) /\ s[k] \in Block
    BY <1>5, LenProperties, ElementOfSeq
  <2>2. e \in Block /\ e.index = s[k].index
    BY <2>1, ChainSyncAssumption DEF Block
  <2>3. blocks = [s EXCEPT ![k] = e]
    BY <1>8
  <2> HIDE DEF e
  <2>4. /\ blocks \in Seq(Block) /\ Len(blocks) = Len(s)
        /\ \A i \in 1..Len(s) : blocks[i] = IF i = k THEN e ELSE s[i]
    BY <1>5, <2>1, <2>2, <2>3, ExceptSeq
  <2> QED
    BY <1>5, <2>1, <2>2, <2>4
<1> QED
  BY <1>6, <1>7, <1>8

-----------------------------------------------------------------------------
(* The steps                                                               *)

\* The first state.
LEMMA SyncInitInv == SyncInit => SyncInv
<1> SUFFICES ASSUME SyncInit PROVE SyncInv
  OBVIOUS
<1>1. /\ Genesis \in Block /\ Genesis.index = 0
      /\ OwnGenesis \in Block /\ OwnGenesis.index = 0
  BY ChainSyncAssumption
<1>2. PICK g \in Block : chain = <<g>> /\ g.index = 0
  BY <1>1 DEF SyncInit
<1>3. chain \in Seq(Block) /\ chain # <<>> /\ DOMAIN chain = 1..1 /\ chain[1].index = 0
  BY <1>2
<1>4. Linked
  BY <1>3 DEF Linked, IsChain
<1>5. ASSUME NEW p \in Peer
      PROVE  Start[p] \in DOMAIN Held[p] /\ DOMAIN Held[p] = 1..Len(Held[p])
             /\ Len(Held[p]) \in Nat
  BY ChainSyncAssumption, LenProperties
<1>6. height \in [Peer -> Nat] /\ \A p \in Peer : height[p] \in DOMAIN Held[p]
  <2>1. height = Start /\ Start \in [Peer -> Nat]
    BY ChainSyncAssumption DEF SyncInit
  <2> QED
    BY <1>5, <2>1
<1>7. SyncTypeOK
  <2>1. peers \in Seq(Peer) /\ Len(peers) = 0 /\ todo \in Seq(Block)
    BY EmptySeq DEF SyncInit
  <2>2. /\ stage \in Stage /\ turn = 1 /\ target = -1
        /\ cursor \in Nat /\ fetched \in Nat /\ synced \in BOOLEAN
    BY DEF SyncInit, Stage
  <2> QED
    BY <1>3, <1>6, <2>1, <2>2 DEF SyncTypeOK
<1> QED
  BY <1>4, <1>7 DEF SyncInit, SyncInv, SyncTruth, Chunk

\* A block stored by other means than sync().
LEMMA StoreInv ==
    ASSUME SyncInv, KeepsChain,
           UNCHANGED <<height, peers, stage, turn, target, cursor, todo, fetched, synced>>
    PROVE  SyncInv'
<1>1. /\ chain' \in Seq(Block) /\ Linked'
      /\ Len(chain') \in Nat /\ Len(chain') >= Len(chain)
  BY KeepsChainLinked DEF SyncInv, SyncTypeOK
<1>2. Len(chain) \in Nat /\ Len(todo) \in Nat
  BY LenProperties DEF SyncInv, SyncTypeOK
<1>3. SyncTypeOK'
  BY <1>1 DEF SyncInv, SyncTypeOK
<1>4. SyncTruth'
  BY <1>1, <1>2 DEF SyncInv, SyncTypeOK, SyncTruth
<1>5. Chunk'
  BY <1>1, <1>2 DEF SyncInv, SyncTypeOK, Chunk
<1> QED
  BY <1>1, <1>3, <1>4, <1>5 DEF SyncInv

\* A peer's chain grows.
LEMMA GrowInv ==
    ASSUME SyncInv, NEW p \in Peer, Grow(p)
    PROVE  SyncInv'
<1>1. height[p] \in Nat /\ DOMAIN Held[p] = 1..Len(Held[p]) /\ Len(Held[p]) \in Nat
  BY ChainSyncAssumption, LenProperties DEF SyncInv, SyncTypeOK
<1>2. /\ height' \in [Peer -> Nat]
      /\ \A q \in Peer : height'[q] \in DOMAIN Held[q]
  BY <1>1 DEF Grow, SyncInv, SyncTypeOK
<1>3. SyncTypeOK'
  BY <1>2 DEF Grow, SyncInv, SyncTypeOK
<1> QED
  BY <1>3 DEF Grow, SyncInv, Linked, SyncTruth, Chunk

\* The process stops.
LEMMA LostInv ==
    ASSUME SyncInv, SyncLost
    PROVE  SyncInv'
<1>1. SyncTypeOK'
  <2>1. peers' \in Seq(Peer) /\ Len(peers') = 0 /\ todo' \in Seq(Block)
    BY EmptySeq DEF SyncLost
  <2>2. /\ chain' = chain /\ height' = height
        /\ stage' \in Stage /\ turn' = 1 /\ target' = -1
        /\ cursor' \in Nat /\ fetched' \in Nat /\ synced' \in BOOLEAN
    BY DEF SyncLost, Stage
  <2> QED
    BY <2>1, <2>2 DEF SyncInv, SyncTypeOK
<1> QED
  BY <1>1 DEF SyncLost, SyncInv, Linked, SyncTruth, Chunk

\* sync() begins.
LEMMA BeginInv ==
    ASSUME SyncInv, Begin
    PROVE  SyncInv' /\ KeepsChain
<1>1. Len(peers) \in Nat
  BY LenProperties DEF SyncInv, SyncTypeOK
<1>2. SyncTypeOK'
  BY <1>1 DEF Begin, SyncInv, SyncTypeOK, Stage
<1>3. stage' # "apply" /\ ~synced'
  BY DEF Begin, SyncInv
<1> QED
  BY <1>2, <1>3 DEF Begin, SyncInv, Linked, SyncTruth, Chunk, KeepsChain

\* sync() goes on.
LEMMA SyncStepInv ==
    ASSUME SyncInv, SyncStep
    PROVE  SyncInv' /\ KeepsChain
<1> USE DEF SyncInv
<1>1. /\ Len(chain) \in Nat \ {0} /\ Tip \in Block /\ Tip.index = Len(chain) - 1
      /\ Len(todo) \in Nat /\ Len(peers) \in Nat
      /\ SyncChunkSize \in Nat \ {0}
  BY TipProperties, LenProperties, ChainSyncAssumption DEF SyncTypeOK
<1>2. ASSUME turn <= Len(peers)
      PROVE  /\ peers[turn] \in Peer /\ turn + 1 \in 1..Len(peers) + 1
             /\ height[peers[turn]] - 1 \in Nat
  <2>1. turn \in 1..Len(peers)
    BY <1>1, <1>2 DEF SyncTypeOK
  <2>2. peers[turn] \in Peer
    BY <2>1, ElementOfSeq DEF SyncTypeOK
  <2>3. height[peers[turn]] \in 1..Len(Held[peers[turn]]) /\ Len(Held[peers[turn]]) \in Nat
    BY <2>2, ChainSyncAssumption, LenProperties DEF SyncTypeOK
  <2> QED
    BY <1>1, <2>1, <2>2, <2>3
<1>3. CASE AskTip
  <2>1. target' \in Nat \union {-1} /\ turn' \in 1..Len(peers) + 1
    <3>1. turn' \in 1..Len(peers) + 1
      BY <1>2, <1>3 DEF AskTip
    <3>2. target \in Nat \union {-1} /\ height[peers[turn]] - 1 \in Nat
      BY <1>2, <1>3 DEF AskTip, SyncTypeOK
    <3>3. Larger(target, height[peers[turn]] - 1) \in Nat \union {-1}
      BY <3>2 DEF Larger
    <3> QED
      BY <1>3, <3>1, <3>2, <3>3 DEF AskTip
  <2>2. SyncTypeOK'
    BY <1>3, <2>1 DEF AskTip, SyncTypeOK
  <2>3. stage' = "tips" /\ ~synced'
    BY <1>3 DEF AskTip
  <2> QED
    BY <1>3, <2>2, <2>3 DEF AskTip, Linked, SyncTruth, Chunk, KeepsChain
<1>4. CASE Compare
  <2>1. SyncTypeOK'
    <3>1. synced' \in BOOLEAN
      BY <1>4, Zenon DEF Compare, SyncTypeOK
    <3>2. stage' \in Stage /\ cursor' \in Nat
      BY <1>1, <1>4 DEF Compare, SyncTypeOK, Stage
    <3>3. turn' \in 1..Len(peers') + 1
      BY <1>1, <1>4 DEF Compare
    <3> QED
      BY <1>4, <3>1, <3>2, <3>3 DEF Compare, SyncTypeOK
  <2>2. SyncTruth' /\ (synced' => stage' = "ended") /\ stage' # "apply"
    BY <1>1, <1>4 DEF Compare, SyncTypeOK, SyncTruth
  <2> QED
    BY <1>4, <2>1, <2>2 DEF Compare, Linked, Chunk, KeepsChain
<1>5. CASE Fetch
  <2> DEFINE j == Smaller(cursor + SyncChunkSize - 1, target)
  <2>1. peers[turn] \in Peer /\ turn + 1 \in 1..Len(peers) + 1
    BY <1>2, <1>5 DEF Fetch
  <2>2. j \in Int
    BY <1>1 DEF SyncTypeOK, Smaller
  <2>3. PICK blocks \in Answers(peers[turn], cursor, j) :
          IF Usable(blocks)
            THEN stage' = "apply" /\ todo' = blocks /\ fetched' = Len(blocks) /\ turn' = turn
            ELSE turn' = turn + 1 /\ UNCHANGED <<stage, todo, fetched>>
    BY <1>5 DEF Fetch
  <2> HIDE DEF j
  <2>4. CASE Usable(blocks)
    <3>1. /\ blocks \in Seq(Block)
          /\ Len(blocks) \in Nat \ {0}
          /\ \A i \in 1..Len(blocks) : blocks[i].index = cursor + i - 1
      BY <2>1, <2>2, <2>4, AnswersProperties
    <3>2. SyncTypeOK'
      BY <1>5, <2>3, <2>4, <3>1 DEF Fetch, SyncTypeOK, Stage
    <3>3. Chunk'
      BY <1>1, <1>5, <2>3, <2>4, <3>1 DEF Fetch, SyncTypeOK, Chunk
    <3> QED
      BY <1>5, <3>2, <3>3 DEF Fetch, Linked, SyncTruth, KeepsChain
  <2>5. CASE ~Usable(blocks)
    <3>1. SyncTypeOK'
      BY <1>5, <2>1, <2>3, <2>5 DEF Fetch, SyncTypeOK
    <3> QED
      BY <1>5, <2>3, <2>5, <3>1 DEF Fetch, Linked, SyncTruth, Chunk, KeepsChain
  <2> QED
    BY <2>4, <2>5
<1>6. CASE GiveUp
  <2>1. SyncTypeOK'
    BY <1>6 DEF GiveUp, SyncTypeOK, Stage, AfterFailure
  <2> QED
    BY <1>6, <2>1 DEF GiveUp, AfterFailure, Linked, SyncTruth, Chunk, KeepsChain
<1>7. CASE ApplyNext
  <2>1. /\ Head(todo) \in Block /\ Tail(todo) \in Seq(Block)
        /\ Len(Tail(todo)) = Len(todo) - 1 /\ Len(todo) > 0
        /\ \A i \in 1..Len(Tail(todo)) : Tail(todo)[i] = todo[i + 1]
        /\ Head(todo) = todo[1]
    BY <1>7, HeadTailProperties, EmptySeq DEF ApplyNext, SyncTypeOK
  <2>2. CASE Fits(Head(todo))
    <3>1. chain' = Append(chain, Head(todo)) /\ todo' = Tail(todo) /\ stage' = stage
      BY <1>7, <2>2 DEF ApplyNext
    <3>2. KeepsChain
      BY <2>1, <2>2, <3>1 DEF KeepsChain, Fits
    <3>3. /\ chain' \in Seq(Block) /\ Linked'
          /\ Len(chain') = Len(chain) + 1
      BY <2>1, <3>1, <3>2, KeepsChainLinked, AppendProperties DEF SyncTypeOK
    <3>4. SyncTypeOK'
      BY <1>7, <2>1, <2>2, <3>1, <3>3 DEF ApplyNext, SyncTypeOK
    <3>5. todo[1].index = cursor + fetched - Len(todo)
      BY <1>1, <1>7, <2>1 DEF ApplyNext, Chunk, SyncTypeOK
    <3>6. todo[1].index = Len(chain)
      BY <1>1, <2>1, <2>2 DEF Fits, Valid
    <3>7. /\ turn' <= Len(peers') /\ fetched' = fetched /\ cursor' = cursor /\ fetched > 0
          /\ fetched \in Nat /\ cursor \in Nat
      BY <1>7, <2>2 DEF ApplyNext, SyncTypeOK, Chunk
    <3>8. \A i \in 1..Len(todo') : todo'[i].index = cursor' + fetched' - Len(todo') + i - 1
      <4>1. \A i \in 1..Len(todo) : todo[i].index = cursor + fetched - Len(todo) + i - 1
        BY <1>7 DEF ApplyNext, Chunk
      <4> SUFFICES ASSUME NEW i \in 1..Len(todo')
                   PROVE  todo'[i].index = cursor' + fetched' - Len(todo') + i - 1
        OBVIOUS
      <4>2. i + 1 \in 1..Len(todo) /\ todo'[i] = todo[i + 1]
        BY <1>1, <2>1, <3>1
      <4>3. todo'[i].index = cursor + fetched - Len(todo) + (i + 1) - 1
        BY <4>1, <4>2
      <4> QED
        BY <1>1, <2>1, <3>1, <3>7, <4>3
    <3>9. Len(chain') >= cursor' + fetched' - Len(todo')
      BY <1>1, <2>1, <3>1, <3>3, <3>5, <3>6, <3>7
    <3>10. Chunk'
      BY <3>7, <3>8, <3>9 DEF Chunk
    <3>11. ~synced'
      BY <1>7 DEF ApplyNext
    <3> QED
      BY <3>2, <3>3, <3>4, <3>10, <3>11 DEF SyncTruth
  <2>3. CASE ~Fits(Head(todo))
    <3>1. SyncTypeOK'
      <4>1. turn + 1 \in 1..Len(peers) + 1
        BY <1>1, <1>7 DEF ApplyNext, Chunk, SyncTypeOK
      <4> QED
        BY <1>1, <1>7, <2>3, <4>1, EmptySeq DEF ApplyNext, SyncTypeOK, Stage
    <3> QED
      BY <1>7, <2>3, <3>1 DEF ApplyNext, Linked, SyncTruth, Chunk, KeepsChain
  <2> QED
    BY <2>2, <2>3
<1>8. CASE NextChunk
  <2>1. cursor + fetched \in Nat
    BY DEF SyncTypeOK
  <2>2. SyncTypeOK'
    BY <1>1, <1>8, <2>1 DEF NextChunk, SyncTypeOK, Stage
  <2>3. Len(todo) = 0
    BY <1>8, EmptySeq DEF NextChunk
  <2>4. Len(chain) >= cursor + fetched
    BY <1>1, <1>8, <2>3 DEF NextChunk, Chunk, SyncTypeOK
  <2>5. SyncTruth' /\ (synced' => stage' = "ended") /\ stage' # "apply"
    BY <1>1, <1>8, <2>1, <2>4 DEF NextChunk, SyncTruth, SyncTypeOK
  <2> QED
    BY <1>8, <2>2, <2>5 DEF NextChunk, Linked, Chunk, KeepsChain
<1> QED
  BY <1>3, <1>4, <1>5, <1>6, <1>7, <1>8 DEF SyncStep

-----------------------------------------------------------------------------
(* The node                                                                *)

\* The lock keeps the commits apart.
OneCommit == \A c, d \in commits : c = d

\* A plugin that a commit has still to tell was told of earlier blocks only.
CommitsAhead ==
    \A c \in commits :
        /\ c.block \in Elements(chain)
        /\ \A k \in DOMAIN Plugins :
             k > c.plugin \/ (k = c.plugin /\ c.hook = 1) =>
                 \A i \in DOMAIN told[k] : told[k][i].index < c.block.index

\* The plugins a commit has left behind heard its block.
HeardBefore ==
    \A c \in commits : \A k \in DOMAIN Plugins : k < c.plugin => c.block \in heard[k]

Notices == OneCommit /\ CommitsAhead /\ ToldInOrder /\ HeardBefore /\ ToldAll

\* sync() has not begun when the peers are looked for.
NotBegun == life = "discover" => stage = "off" /\ turn = 1

Inv == TypeOK /\ SyncInv /\ NotBegun /\ Notices

-----------------------------------------------------------------------------
(* Lemmas                                                                  *)

\* The plugins are numbered, and have hooks.
LEMMA PluginsDomain ==
    /\ Len(Plugins) \in Nat
    /\ DOMAIN Plugins = 1..Len(Plugins)
    /\ Hooks \in Nat \ {0}
BY NodeLifeAssumption, LenProperties

\* The plugin and hook a commit comes to are those of a commit.
LEMMA CommitNext ==
    ASSUME NEW c \in Commit, c.plugin <= Len(Plugins),
           NEW next \in {AfterHook(c), AfterError(c)}
    PROVE  /\ next \in Commit
           /\ next.block = c.block
           /\ \/ next.plugin = c.plugin /\ next.hook # 1
              \/ next.plugin = c.plugin + 1
<1>1. /\ c.block \in Block /\ c.plugin \in 1..Len(Plugins) + 1 /\ c.hook \in 1..Hooks
      /\ DOMAIN c = {"block", "plugin", "hook"}
  BY DEF Commit
<1> DEFINE over == [c EXCEPT !.plugin = @ + 1, !.hook = 1]
           again == [c EXCEPT !.hook = @ + 1]
<1>2. over \in Commit /\ over.block = c.block /\ over.plugin = c.plugin + 1
  <2>1. c.plugin + 1 \in 1..Len(Plugins) + 1 /\ 1 \in 1..Hooks
    BY <1>1, PluginsDomain
  <2> QED
    BY <2>1 DEF Commit
<1>3. c.hook < Hooks =>
        again \in Commit /\ again.block = c.block /\ again.plugin = c.plugin /\ again.hook # 1
  <2> SUFFICES ASSUME c.hook < Hooks
               PROVE  /\ again \in Commit /\ again.block = c.block
                      /\ again.plugin = c.plugin /\ again.hook # 1
    OBVIOUS
  <2>1. c.hook + 1 \in 1..Hooks /\ c.hook + 1 # 1
    BY <1>1, PluginsDomain
  <2> QED
    BY <2>1 DEF Commit
<1>4. next = over \/ (c.hook < Hooks /\ next = again)
  BY DEF AfterHook, AfterError
<1> QED
  BY <1>2, <1>3, <1>4

\* What a plugin was told of are blocks of the chain.
LEMMA ToldBlocks ==
    ASSUME Inv, NEW k \in DOMAIN Plugins
    PROVE  /\ told[k] \in Seq(Block) /\ Len(told[k]) \in Nat
           /\ DOMAIN told[k] = 1..Len(told[k])
           /\ \A i \in DOMAIN told[k] :
                told[k][i] \in Block /\ told[k][i].index < Len(chain)
<1>1. /\ told[k] \in Seq(Block) /\ Len(told[k]) \in Nat
      /\ DOMAIN told[k] = 1..Len(told[k])
  BY LenProperties DEF Inv, TypeOK
<1>2. chain \in Seq(Block) /\ Linked /\ DOMAIN chain = 1..Len(chain) /\ Len(chain) \in Nat
  BY LenProperties DEF Inv, SyncInv, SyncTypeOK
<1>3. ASSUME NEW i \in DOMAIN told[k]
      PROVE  told[k][i] \in Block /\ told[k][i].index < Len(chain)
  <2>1. told[k][i] \in Block
    BY <1>1, ElementOfSeq
  <2>2. told[k][i] \in Elements(chain)
    BY DEF Inv, Notices, ToldInOrder, Elements
  <2>3. PICK j \in 1..Len(chain) : told[k][i] = chain[j]
    BY <1>2, <2>2 DEF Elements
  <2>4. chain[j].index = j - 1
    BY <1>2 DEF Linked, IsChain
  <2> QED
    BY <1>2, <2>1, <2>3, <2>4
<1> QED
  BY <1>1, <1>3

\* A step that tells no one keeps what was told.
LEMMA NoticesKept ==
    ASSUME Inv, KeepsChain, UNCHANGED <<commits, posted, told, heard, own, lost>>
    PROVE  Notices'
<1>1. Elements(chain) \subseteq Elements(chain')
  BY KeepsChainLinked DEF Inv, SyncInv, SyncTypeOK
<1>2. OneCommit' /\ HeardBefore' /\ ToldAll'
  BY DEF Inv, Notices, OneCommit, HeardBefore, ToldAll, Elements
<1>3. CommitsAhead'
  BY <1>1 DEF Inv, Notices, CommitsAhead
<1>4. ToldInOrder'
  BY <1>1 DEF Inv, Notices, ToldInOrder, Elements
<1> QED
  BY <1>2, <1>3, <1>4 DEF Notices

-----------------------------------------------------------------------------
(* The steps                                                               *)

\* The first state.
LEMMA InitInv == Init => Inv
<1> SUFFICES ASSUME Init PROVE Inv
  OBVIOUS
<1>1. SyncInv /\ NotBegun
  BY SyncInitInv DEF Init, SyncInit, NotBegun
<1>2. commits = {} /\ own = {} /\ told = [k \in DOMAIN Plugins |-> <<>>]
  BY DEF Init
<1>3. /\ told \in [DOMAIN Plugins -> Seq(Block)]
      /\ heard \in [DOMAIN Plugins -> SUBSET Block]
      /\ posted \in Seq(Block)
  BY EmptySeq DEF Init
<1>4. TypeOK
  <2>1. 0 \in 0..MaxStops
    BY NodeLifeAssumption
  <2>2. /\ life \in Life /\ ready \subseteq Block /\ round \in Block \union {NoBlock}
        /\ commits \subseteq Commit /\ locked = (commits # {}) /\ asked \in BOOLEAN
        /\ own \subseteq Block /\ lost \subseteq Block /\ stops \in 0..MaxStops
    BY <2>1 DEF Init, Life
  <2> QED
    BY <1>1, <1>3, <2>2 DEF TypeOK, SyncInv
<1>5. OneCommit /\ CommitsAhead /\ HeardBefore /\ ToldAll
  BY <1>2 DEF OneCommit, CommitsAhead, HeardBefore, ToldAll
<1>6. ToldInOrder
  BY <1>2 DEF ToldInOrder, Elements
<1> QED
  BY <1>1, <1>4, <1>5, <1>6 DEF Inv, Notices

\* The blocks of a peer are blocks.
LEMMA PeerBlocks ==
    ASSUME SyncTypeOK, NEW p \in Peer
    PROVE  {Held[p][i] : i \in 1..height[p]} \subseteq Block
<1>1. /\ Held[p] \in Seq(Block) /\ Len(Held[p]) \in Nat
      /\ height[p] \in 1..Len(Held[p])
  BY ChainSyncAssumption, LenProperties DEF SyncTypeOK
<1>2. \A i \in 1..height[p] : i \in 1..Len(Held[p])
  BY <1>1
<1> QED
  BY <1>1, <1>2, ElementOfSeq

\* A step that leaves the commits alone keeps the types.
LEMMA TypeKept ==
    ASSUME TypeOK, SyncTypeOK', life' \in Life, asked' \in BOOLEAN,
           ready' \subseteq Block, round' \in Block \union {NoBlock},
           UNCHANGED <<locked, commits, posted, told, heard, own, lost, stops>>
    PROVE  TypeOK'
BY DEF TypeOK

\* start() and sync().
LEMMA StartInv ==
    ASSUME Inv, Discover \/ Synchronise \/ Proceed
    PROVE  Inv'
<1>1. CASE Discover
  <2>1. PICK n \in 0..Cardinality(Peer) : \E found \in [1..n -> Peer] : peers' = found
    BY <1>1 DEF Discover
  <2>2. n \in Nat
    BY <2>1, ChainSyncAssumption, FS_CardinalityType
  <2>3. peers' \in Seq(Peer) /\ Len(peers') = n
    BY <2>1, <2>2
  <2>4. /\ turn' = 1 /\ turn' \in 1..Len(peers') + 1 /\ chain' = chain
        /\ UNCHANGED <<height, target, cursor, todo, fetched, synced>>
        /\ stage' = "off" /\ stage = "off" /\ life' = "sync"
    BY <1>1, <2>2, <2>3 DEF Discover, Inv, NotBegun
  <2>5. SyncTypeOK'
    BY <2>3, <2>4 DEF Inv, SyncInv, SyncTypeOK
  <2>6. SyncInv'
    BY <2>4, <2>5 DEF Inv, SyncInv, Linked, SyncTruth, Chunk
  <2>7. TypeOK'
    BY <1>1, <2>5, TypeKept DEF Discover, Inv, Life, TypeOK
  <2>8. Notices'
    BY <1>1, <2>4, NoticesKept DEF Discover, KeepsChain
  <2> QED
    BY <2>4, <2>6, <2>7, <2>8 DEF Inv, NotBegun
<1>2. CASE Synchronise
  <2>1. SyncInv' /\ KeepsChain
    BY <1>2, BeginInv, SyncStepInv DEF Synchronise, Inv
  <2>2. UNCHANGED lifeVars /\ life = "sync"
    BY <1>2 DEF Synchronise
  <2>3. TypeOK'
    BY <2>1, <2>2, TypeKept DEF Inv, SyncInv, TypeOK, lifeVars
  <2>4. Notices'
    BY <2>1, <2>2, NoticesKept DEF lifeVars
  <2> QED
    BY <2>1, <2>2, <2>3, <2>4 DEF Inv, NotBegun, lifeVars
<1>3. CASE Proceed
  <2>1. KeepsChain /\ SyncInv'
    BY <1>3, StoreInv DEF Proceed, syncVars, KeepsChain, Inv
  <2>2. life' \in Life /\ life' # "discover"
    BY <1>3 DEF Proceed, Life
  <2>3. TypeOK'
    BY <1>3, <2>1, <2>2, TypeKept DEF Proceed, Inv, SyncInv, TypeOK
  <2>4. Notices'
    BY <1>3, <2>1, NoticesKept DEF Proceed
  <2> QED
    BY <2>1, <2>2, <2>3, <2>4 DEF Inv, NotBegun
<1> QED
  BY <1>1, <1>2, <1>3

\* What peers and callers do, and blocks on their way to a round.
LEMMA QuietInv ==
    ASSUME Inv,
           \/ \E p \in Peer : (Grow(p) /\ UNCHANGED lifeVars) \/ Receive(p)
           \/ Prepare \/ (\E b \in ready : Enter(b))
           \/ Ask \/ Answer
    PROVE  Inv'
<1>1. ASSUME NEW p \in Peer, Grow(p), UNCHANGED lifeVars
      PROVE  Inv'
  <2>1. SyncInv' /\ KeepsChain /\ UNCHANGED <<stage, turn>>
    BY <1>1, GrowInv DEF Grow, KeepsChain, Inv
  <2>2. TypeOK'
    BY <1>1, <2>1, TypeKept DEF Inv, SyncInv, TypeOK, lifeVars
  <2>3. Notices'
    BY <1>1, <2>1, NoticesKept DEF lifeVars
  <2> QED
    BY <1>1, <2>1, <2>2, <2>3 DEF Inv, NotBegun, lifeVars
<1>2. ASSUME NEW p \in Peer, Receive(p)
      PROVE  Inv'
  <2>1. PICK b \in {Held[p][i] : i \in 1..height[p]} :
          Valid(b, Tip) /\ chain' = Append(chain, b)
    BY <1>2 DEF Receive
  <2>2. b \in Block
    BY <2>1, PeerBlocks DEF Inv, SyncInv
  <2>3. KeepsChain
    BY <2>1, <2>2 DEF KeepsChain
  <2>4. SyncInv' /\ UNCHANGED lifeVars /\ UNCHANGED <<stage, turn>>
    BY <1>2, <2>3, StoreInv DEF Receive, Inv
  <2>5. TypeOK'
    BY <2>4, TypeKept DEF Inv, SyncInv, TypeOK, lifeVars
  <2>6. Notices'
    BY <2>3, <2>4, NoticesKept DEF lifeVars
  <2> QED
    BY <2>4, <2>5, <2>6 DEF Inv, NotBegun, lifeVars
<1>3. ASSUME UNCHANGED syncVars, UNCHANGED life,
             asked' \in BOOLEAN, ready' \subseteq Block, round' \in Block \union {NoBlock},
             UNCHANGED <<locked, commits, posted, told, heard, own, lost, stops>>
      PROVE  Inv'
  <2>1. KeepsChain /\ SyncInv' /\ UNCHANGED <<stage, turn>>
    BY <1>3, StoreInv DEF syncVars, KeepsChain, Inv
  <2>2. TypeOK'
    BY <1>3, <2>1, TypeKept DEF Inv, SyncInv, TypeOK
  <2>3. Notices'
    BY <1>3, <2>1, NoticesKept
  <2> QED
    BY <1>3, <2>1, <2>2, <2>3 DEF Inv, NotBegun
<1>4. CASE Prepare
  <2>1. CASE ready' = ready \union
               {[index |-> Len(chain), hash |-> NewHash(Len(chain)), prev |-> Tip.hash]}
    <3>1. /\ Len(chain) \in 0..MaxHeight /\ Len(chain) \in Nat
          /\ Tip \in Block
      BY <1>4, TipProperties, NodeLifeAssumption DEF Prepare, Inv, SyncInv, SyncTypeOK
    <3>2. NewHash(Len(chain)) \in Hash
      BY <3>1, NodeLifeAssumption
    <3>3. ready' \subseteq Block
      BY <2>1, <3>1, <3>2 DEF Block, Inv, TypeOK
    <3> QED
      BY <1>3, <1>4, <3>3 DEF Prepare, Inv, TypeOK
  <2>2. ASSUME NEW p \in Peer, NEW b \in Elements(Held[p]), ready' = ready \union {b}
        PROVE  Inv'
    <3>1. b \in Block
      BY ChainSyncAssumption, LenProperties, ElementOfSeq DEF Elements
    <3>2. ready' \subseteq Block
      BY <2>2, <3>1 DEF Inv, TypeOK
    <3> QED
      BY <1>3, <1>4, <3>2 DEF Prepare, Inv, TypeOK
  <2> QED
    BY <1>4, <2>1, <2>2 DEF Prepare
<1>5. ASSUME NEW b \in ready, Enter(b)
      PROVE  Inv'
  <2>1. ready' \subseteq Block /\ round' \in Block \union {NoBlock}
    BY <1>5 DEF Enter, Inv, TypeOK
  <2> QED
    BY <1>3, <1>5, <2>1 DEF Enter, Inv, TypeOK
<1>6. CASE Ask \/ Answer
  BY <1>3, <1>6 DEF Ask, Answer, Inv, TypeOK
<1> QED
  BY <1>1, <1>2, <1>4, <1>5, <1>6

\* A vote that completes the quorum: no commit is under way, for the lock is free,
\* and the block's index is higher than that of any block the plugins know.
LEMMA DecideInv ==
    ASSUME Inv, Decide
    PROVE  Inv'
<1>1. /\ round \in Block /\ round' = NoBlock /\ commits = {}
      /\ UNCHANGED <<height, peers, stage, turn, target, cursor, todo, fetched, synced>>
      /\ UNCHANGED <<life, ready, posted, asked, told, heard, lost, stops>>
  BY DEF Decide, Inv, TypeOK
<1>2. CASE Valid(round, Tip)
  <2> DEFINE new == [block |-> round, plugin |-> 1, hook |-> 1]
  <2>1. /\ chain' = Append(chain, round) /\ own' = own \union {round}
        /\ commits' = {new} /\ locked'
    BY <1>1, <1>2 DEF Decide, LockedWhileTelling
  <2>2. KeepsChain
    BY <1>1, <1>2, <2>1 DEF KeepsChain
  <2>3. SyncInv'
    BY <1>1, <2>2, StoreInv DEF Inv
  <2>4. new \in Commit
    BY <1>1, PluginsDomain DEF Commit
  <2>5. TypeOK'
    BY <1>1, <2>1, <2>3, <2>4 DEF Inv, SyncInv, TypeOK
  <2>6. /\ Elements(chain) \subseteq Elements(chain')
        /\ round \in Elements(chain')
        /\ round.index = Len(chain)
    <3>1. chain \in Seq(Block) /\ Linked
      BY DEF Inv, SyncInv, SyncTypeOK
    <3>2. Len(chain) \in Nat \ {0} /\ Tip.index = Len(chain) - 1
      BY <3>1, TipProperties
    <3>3. /\ chain' \in Seq(Block) /\ Len(chain') = Len(chain) + 1
          /\ chain'[Len(chain) + 1] = round
      BY <1>1, <2>1, <3>1, AppendProperties
    <3>4. Len(chain) + 1 \in DOMAIN chain'
      BY <3>2, <3>3, LenProperties
    <3>5. round \in Elements(chain')
      BY <3>3, <3>4 DEF Elements
    <3>6. Elements(chain) \subseteq Elements(chain')
      BY <2>2, <3>1, KeepsChainLinked
    <3> QED
      BY <1>2, <3>2, <3>5, <3>6 DEF Valid
  <2>7. CommitsAhead'
    <3> SUFFICES ASSUME NEW k \in DOMAIN Plugins, NEW i \in DOMAIN told[k]
                 PROVE  told[k][i].index < round.index
      BY <1>1, <2>1, <2>6 DEF CommitsAhead
    <3> QED
      BY <2>6, ToldBlocks
  <2>8. ToldInOrder'
    BY <1>1, <2>6 DEF Inv, Notices, ToldInOrder, Elements
  <2>9. HeardBefore'
    BY <1>1, <2>1, PluginsDomain DEF HeardBefore
  <2>10. ToldAll'
    <3> SUFFICES ASSUME NEW b \in own' \ lost', b # round
                 PROVE  b \in Elements(posted') /\ \A k \in DOMAIN Plugins : b \in heard'[k]
      BY <2>1 DEF ToldAll
    <3>1. b \in own \ lost
      BY <1>1, <2>1
    <3> QED
      BY <1>1, <3>1 DEF Inv, Notices, ToldAll, Elements
  <2>11. OneCommit'
    BY <2>1 DEF OneCommit
  <2> QED
    BY <1>1, <2>3, <2>5, <2>7, <2>8, <2>9, <2>10, <2>11 DEF Inv, Notices, NotBegun
<1>3. CASE ~Valid(round, Tip)
  <2>1. UNCHANGED <<chain, own, commits>> /\ locked' = FALSE
    BY <1>3 DEF Decide, LockedAfterRefusal
  <2>2. KeepsChain /\ SyncInv'
    BY <1>1, <2>1, StoreInv DEF KeepsChain, Inv
  <2>3. TypeOK'
    BY <1>1, <2>1, <2>2 DEF Inv, SyncInv, TypeOK
  <2>4. Notices'
    BY <1>1, <2>1, <2>2, NoticesKept
  <2> QED
    BY <1>1, <2>2, <2>3, <2>4 DEF Inv, NotBegun
<1> QED
  BY <1>2, <1>3

\* A plugin is told: by CommitsAhead, of a block that comes after all it knows.
LEMMA TellInv ==
    ASSUME Inv, NEW c \in commits, Tell(c)
    PROVE  Inv'
<1>1. /\ c \in Commit /\ c.plugin <= Len(Plugins) /\ commits = {c}
      /\ UNCHANGED syncVars
      /\ UNCHANGED <<life, ready, round, locked, posted, asked, own, lost, stops>>
  BY DEF Tell, Inv, Notices, OneCommit, TypeOK
<1>2. PICK next \in {AfterHook(c), AfterError(c)} :
        /\ commits' = (commits \ {c}) \union {next}
        /\ heard' = IF next.plugin > c.plugin
                      THEN [heard EXCEPT ![c.plugin] = @ \union {c.block}] ELSE heard
  BY DEF Tell
<1>3. /\ next \in Commit /\ next.block = c.block /\ commits' = {next}
      /\ \/ next.plugin = c.plugin /\ next.hook # 1
         \/ next.plugin = c.plugin + 1
  BY <1>1, <1>2, CommitNext
<1>4. /\ c.block \in Block /\ c.plugin \in 1..Len(Plugins) /\ c.plugin \in DOMAIN Plugins
      /\ Len(Plugins) \in Nat /\ DOMAIN Plugins = 1..Len(Plugins)
      /\ next.plugin \in Nat
  BY <1>1, <1>3, PluginsDomain DEF Commit
<1>5. /\ told' = IF c.hook = 1 THEN [told EXCEPT ![c.plugin] = Append(@, c.block)] ELSE told
      /\ chain' = chain /\ Elements(chain') = Elements(chain)
  BY <1>1 DEF Tell, syncVars, Elements
<1>6. \A k \in DOMAIN Plugins :
        /\ k # c.plugin => told'[k] = told[k] /\ heard'[k] = heard[k]
        /\ heard[k] \subseteq heard'[k]
  BY <1>2, <1>4, <1>5 DEF Inv, TypeOK
<1>7. SyncInv'
  BY <1>1, StoreInv DEF syncVars, KeepsChain, Inv
<1>8. TypeOK'
  <2>1. told' \in [DOMAIN Plugins -> Seq(Block)]
    <3>1. Append(told[c.plugin], c.block) \in Seq(Block)
      BY <1>4, AppendProperties DEF Inv, TypeOK
    <3> QED
      BY <1>4, <1>5, <3>1 DEF Inv, TypeOK
  <2>2. heard' \in [DOMAIN Plugins -> SUBSET Block]
    BY <1>2, <1>4 DEF Inv, TypeOK
  <2>3. commits' \subseteq Commit /\ locked' = (commits' # {})
    BY <1>1, <1>3 DEF Inv, TypeOK
  <2> QED
    BY <1>1, <1>7, <2>1, <2>2, <2>3 DEF Inv, SyncInv, TypeOK
<1>9. OneCommit'
  BY <1>3 DEF OneCommit
<1>10. CommitsAhead'
  <2>1. next.block \in Elements(chain')
    BY <1>3, <1>5 DEF Inv, Notices, CommitsAhead
  <2>2. ASSUME NEW k \in DOMAIN Plugins,
               k > next.plugin \/ (k = next.plugin /\ next.hook = 1)
        PROVE  \A i \in DOMAIN told'[k] : told'[k][i].index < next.block.index
    <3>1. k > c.plugin
      BY <1>3, <1>4, <2>2
    <3>2. told'[k] = told[k]
      BY <1>4, <1>6, <3>1
    <3> QED
      BY <1>3, <3>1, <3>2 DEF Inv, Notices, CommitsAhead
  <2> QED
    BY <1>3, <2>1, <2>2 DEF CommitsAhead
<1>11. ToldInOrder'
  <2> SUFFICES ASSUME NEW k \in DOMAIN Plugins
               PROVE  /\ Elements(told'[k]) \subseteq Elements(chain)
                      /\ \A i, j \in DOMAIN told'[k] :
                           i < j => told'[k][i].index < told'[k][j].index
    BY <1>5 DEF ToldInOrder
  <2>1. CASE told'[k] = told[k]
    BY <2>1 DEF Inv, Notices, ToldInOrder
  <2>2. CASE c.hook = 1 /\ k = c.plugin
    <3> DEFINE n == Len(told[k])
    <3>1. /\ told[k] \in Seq(Block) /\ n \in Nat /\ DOMAIN told[k] = 1..n
      BY ToldBlocks
    <3>2. told'[k] = Append(told[k], c.block)
      BY <1>4, <1>5, <2>2 DEF Inv, TypeOK
    <3>3. /\ DOMAIN told'[k] = 1..n + 1
          /\ \A i \in 1..n : told'[k][i] = told[k][i]
          /\ told'[k][n + 1] = c.block
      BY <1>4, <3>1, <3>2, AppendProperties, LenProperties
    <3>4. \A i \in 1..n : told[k][i].index < c.block.index
      BY <2>2, <3>1 DEF Inv, Notices, CommitsAhead
    <3>5. /\ \A i \in 1..n : told[k][i] \in Elements(chain)
          /\ \A i, j \in 1..n : i < j => told[k][i].index < told[k][j].index
          /\ c.block \in Elements(chain)
      BY <3>1 DEF Inv, Notices, ToldInOrder, CommitsAhead, Elements
    <3> HIDE DEF n
    <3>6. Elements(told'[k]) \subseteq Elements(chain)
      <4> SUFFICES ASSUME NEW i \in 1..n + 1
                   PROVE  told'[k][i] \in Elements(chain)
        BY <3>3 DEF Elements
      <4>1. i \in 1..n \/ i = n + 1
        BY <3>1
      <4> QED
        BY <3>3, <3>5, <4>1
    <3>7. ASSUME NEW i \in 1..n + 1, NEW j \in 1..n + 1, i < j
          PROVE  told'[k][i].index < told'[k][j].index
      <4>1. i \in 1..n
        BY <3>1, <3>7
      <4>2. CASE j = n + 1
        BY <3>3, <3>4, <4>1, <4>2
      <4>3. CASE j \in 1..n
        BY <3>3, <3>5, <3>7, <4>1, <4>3
      <4> QED
        BY <3>1, <4>2, <4>3
    <3> QED
      BY <3>3, <3>6, <3>7
  <2> QED
    BY <1>5, <1>6, <2>1, <2>2
<1>12. HeardBefore'
  <2> SUFFICES ASSUME NEW k \in DOMAIN Plugins, k < next.plugin
               PROVE  c.block \in heard'[k]
    BY <1>3 DEF HeardBefore
  <2>1. CASE k < c.plugin
    BY <1>6, <2>1 DEF Inv, Notices, HeardBefore
  <2>2. CASE k = c.plugin
    BY <1>2, <1>4, <2>2 DEF Inv, TypeOK
  <2> QED
    BY <1>3, <1>4, <2>1, <2>2
<1>13. ToldAll'
  <2> SUFFICES ASSUME NEW b \in own \ lost, b # c.block
               PROVE  b \in Elements(posted') /\ \A k \in DOMAIN Plugins : b \in heard'[k]
    BY <1>1, <1>3 DEF ToldAll
  <2>1. b \in Elements(posted) /\ \A k \in DOMAIN Plugins : b \in heard[k]
    BY <1>1 DEF Inv, Notices, ToldAll
  <2> QED
    BY <1>1, <1>6, <2>1 DEF Elements
<1> QED
  BY <1>1, <1>7, <1>8, <1>9, <1>10, <1>11, <1>12, <1>13
  DEF Inv, Notices, NotBegun, syncVars

\* The peers are told when every plugin has been.
LEMMA SendInv ==
    ASSUME Inv, NEW c \in commits, Send(c)
    PROVE  Inv'
<1>1. /\ c \in Commit /\ c.plugin = Len(Plugins) + 1
      /\ commits = {c} /\ commits' = {} /\ locked' = FALSE
      /\ posted' = Append(posted, c.block)
      /\ UNCHANGED syncVars
      /\ UNCHANGED <<life, ready, round, asked, told, heard, own, lost, stops>>
  BY DEF Send, Inv, Notices, OneCommit, TypeOK
<1>2. /\ posted' \in Seq(Block)
      /\ Elements(posted) \union {c.block} \subseteq Elements(posted')
  <2>1. posted \in Seq(Block) /\ c.block \in Block
    BY <1>1 DEF Inv, TypeOK, Commit
  <2>2. /\ posted' \in Seq(Block) /\ Len(posted') = Len(posted) + 1
        /\ \A i \in 1..Len(posted) : posted'[i] = posted[i]
        /\ posted'[Len(posted) + 1] = c.block
    BY <1>1, <2>1, AppendProperties
  <2>3. /\ DOMAIN posted = 1..Len(posted) /\ DOMAIN posted' = 1..Len(posted) + 1
        /\ Len(posted) \in Nat
    BY <2>1, <2>2, LenProperties
  <2> QED
    BY <2>2, <2>3 DEF Elements
<1>3. SyncInv'
  BY <1>1, StoreInv DEF syncVars, KeepsChain, Inv
<1>4. TypeOK'
  BY <1>1, <1>2, <1>3 DEF Inv, SyncInv, TypeOK
<1>5. OneCommit' /\ CommitsAhead' /\ HeardBefore'
  BY <1>1 DEF OneCommit, CommitsAhead, HeardBefore
<1>6. ToldInOrder'
  BY <1>1 DEF syncVars, Inv, Notices, ToldInOrder, Elements
<1>7. ToldAll'
  <2> SUFFICES ASSUME NEW b \in own \ lost
               PROVE  b \in Elements(posted') /\ \A k \in DOMAIN Plugins : b \in heard[k]
    BY <1>1 DEF ToldAll
  <2>1. CASE b = c.block
    <3>1. \A k \in DOMAIN Plugins : k < c.plugin
      BY <1>1, PluginsDomain
    <3> QED
      BY <1>2, <2>1, <3>1 DEF Inv, Notices, HeardBefore
  <2>2. CASE b # c.block
    BY <1>1, <1>2, <2>2 DEF Inv, Notices, ToldAll
  <2> QED
    BY <2>1, <2>2
<1> QED
  BY <1>1, <1>3, <1>4, <1>5, <1>6, <1>7 DEF Inv, Notices, NotBegun, syncVars

\* The process stops.
LEMMA CrashInv ==
    ASSUME Inv, Crash
    PROVE  Inv'
<1>1. SyncInv'
  BY LostInv DEF Crash, Inv
<1>2. /\ commits' = {} /\ lost' = lost \union {c.block : c \in commits}
      /\ chain' = chain /\ stage' = "off" /\ turn' = 1
      /\ UNCHANGED <<posted, told, heard, own>>
  BY DEF Crash, SyncLost
<1>3. TypeOK'
  <2>1. lost' \subseteq Block /\ stops' \in 0..MaxStops
    BY <1>2, NodeLifeAssumption DEF Crash, Inv, TypeOK, Commit
  <2> QED
    BY <1>1, <1>2, <2>1 DEF Crash, Inv, SyncInv, TypeOK, Life
<1>4. OneCommit' /\ CommitsAhead' /\ HeardBefore'
  BY <1>2 DEF OneCommit, CommitsAhead, HeardBefore
<1>5. ToldInOrder'
  BY <1>2 DEF Inv, Notices, ToldInOrder, Elements
<1>6. ToldAll'
  BY <1>2 DEF Inv, Notices, ToldAll, Elements
<1> QED
  BY <1>1, <1>2, <1>3, <1>4, <1>5, <1>6 DEF Inv, Notices, NotBegun

\* Every step keeps the invariant.
LEMMA NextInv == Inv /\ [Next]_vars => Inv'
<1> SUFFICES ASSUME Inv, [Next]_vars PROVE Inv'
  OBVIOUS
<1>1. CASE Discover \/ Synchronise \/ Proceed
  BY <1>1, StartInv
<1>2. CASE \/ \E p \in Peer : (Grow(p) /\ UNCHANGED lifeVars) \/ Receive(p)
           \/ Prepare \/ (\E b \in ready : Enter(b))
           \/ Ask \/ Answer
  BY <1>2, QuietInv
<1>3. CASE Decide
  BY <1>3, DecideInv
<1>4. CASE Notify
  BY <1>4, TellInv, SendInv DEF Notify
<1>5. CASE Crash
  BY <1>5, CrashInv
<1>6. CASE UNCHANGED vars
  <2>1. SyncInv'
    BY <1>6, StoreInv DEF vars, syncVars, KeepsChain, Inv
  <2>2. Notices'
    BY <1>6, NoticesKept DEF vars, syncVars, lifeVars, KeepsChain
  <2>3. TypeOK'
    BY <1>6, <2>1 DEF vars, lifeVars, Inv, SyncInv, TypeOK
  <2> QED
    BY <1>6, <2>1, <2>2, <2>3 DEF vars, syncVars, lifeVars, Inv, NotBegun
<1> QED
  BY <1>1, <1>2, <1>3, <1>4, <1>5, <1>6 DEF Next

-----------------------------------------------------------------------------
(* Theorems                                                                *)

\* The invariant holds in every state of every run.
THEOREM Invariance == Spec => []Inv
BY InitInv, NextInv, PTL DEF Spec

\* The variables of a node have values of the right types, and the consensus lock is
\* held just while a commit is under way (TypeOK; _commit under on_vote's lock).
THEOREM TypeCorrect == Spec => []TypeOK
<1>1. Inv => TypeOK
  BY DEF Inv
<1> QED
  BY <1>1, Invariance, PTL

\* Whatever peers on forks send, and however often the node stops, its chain is a
\* chain (validate in add_block and in _apply_chunk).
THEOREM ChainLinked == Spec => []Linked
<1>1. Inv => Linked
  BY DEF Inv, SyncInv
<1> QED
  BY <1>1, Invariance, PTL

\* A node that reports itself synced has all it was told of, for chunks of any size
\* and any failures among any number of peers (sync, _download_blocks).
THEOREM SyncTrue == Spec => []SyncTruth
<1>1. Inv => SyncTruth
  BY DEF Inv, SyncInv
<1> QED
  BY <1>1, Invariance, PTL

\* The plugins are told of blocks in the order of the chain and of none twice
\* (notify_block_finalised, called by _commit with the lock held).
THEOREM PluginsInOrder == Spec => []ToldInOrder
<1>1. Inv => ToldInOrder
  BY DEF Inv, Notices
<1> QED
  BY <1>1, Invariance, PTL

\* A block whose commit was not cut short is with the peers, and all plugins were told
\* of it (notify_block_finalised, _on_block_finalised).
THEOREM PluginsAll == Spec => []ToldAll
<1>1. Inv => ToldAll
  BY DEF Inv, Notices
<1> QED
  BY <1>1, Invariance, PTL
================================================================================
