-------------------------- MODULE NVFBFTChains_proofs --------------------------
(***************************************************************************)
(* Theorems about the chains, caches and mempools of NVFBFT, for every     *)
(* value of its constants: any nodes that join, stop and come back, and    *)
(* any messages lost or reordered.                                         *)
(***************************************************************************)
EXTENDS NVFBFT_proofs, NVFBFTLive

\* Block b is stored by some node.
OnChain(b) == \E n \in Node : \E i \in DOMAIN chain[n] : chain[n][i].block = b

\* Block b is stored, or in a round, or on its way.
Extant(b) ==
    \/ OnChain(b)
    \/ \E n \in Node : round[n] # NoRound /\ round[n].block = b
    \/ \E m \in msgs : m.type \in {"propose", "accepted", "new_block"} /\ m.block = b

\* The identity of a block is one that its proposer has used, and for it alone.
IdsMade == \A b \in Block : Extant(b) => b.id[2] <= made[b.id[1]]
IdsUnique == \A a, b \in Block : Extant(a) /\ Extant(b) /\ a.id = b.id => a = b

\* Every stored block has the index of its place and links to the one before.
Links ==
    \A n \in Node : \A i \in DOMAIN chain[n] :
        /\ chain[n][i].block.index = i
        /\ i > 1 => chain[n][i].block.prev = chain[n][i - 1].block.id

\* A node that does not run has nothing in RAM.
DownEmpty == \A n \in Node \ up : round[n] = NoRound /\ mempool[n] = {}

\* A round counts votes of validators that the node knows to be registered.
RoundMembers ==
    \A n \in Node : round[n] # NoRound => round[n].votes \subseteq registered[n]

\* A posted block is stored, with the votes it is posted with.
PostsStored ==
    \A m \in msgs : m.type = "new_block" =>
        \E n \in Node : \E i \in DOMAIN chain[n] :
            chain[n][i] = [block |-> m.block, votes |-> m.votes]

\* A request that has looked for a paid transaction did so before it was stored.
LookedUpBefore == \A m \in msgs : m.type = "checked" /\ m.tx \in Paid => ~m.late

ChainsInv ==
    /\ IdsMade /\ IdsUnique /\ Links /\ SameHistory
    /\ DownEmpty /\ RegisteredSound /\ RoundMembers /\ PostsStored
    /\ SybilCertificates /\ SoloOnlyAuthority /\ LookedUpBefore

-----------------------------------------------------------------------------
(* The steps that touch a chain                                            *)

\* A step of a request that brings a transaction.
Requests(n, m) == OnTransaction(n, m) \/ AddTransaction(n, m) \/ AddRefused(n, m)

\* A stored entry is a block with votes.
LEMMA EntryType ==
    ASSUME TypeOK, NEW n \in Node, NEW i \in DOMAIN chain[n]
    PROVE  /\ chain[n][i] \in Entry /\ chain[n][i].block \in Block
           /\ chain[n][i].votes \in SUBSET Node
           /\ i \in Nat \ {0} /\ DOMAIN chain[n] = 1..Len(chain[n]) /\ Len(chain[n]) \in Nat
<1>1. chain[n] \in Seq(Entry)
  BY DEF TypeOK
<1>2. DOMAIN chain[n] = 1..Len(chain[n]) /\ Len(chain[n]) \in Nat
  BY <1>1, LenProperties
<1>3. chain[n][i] \in Entry
  BY <1>1, <1>2, ElementOfSeq
<1> QED
  BY <1>2, <1>3 DEF Entry

\* Node n stores block b with votes v.
Stores(n, b, v) ==
    /\ Extant(b) /\ b \in Block /\ v \in SUBSET Node
    /\ Valid(n, b)
    /\ AddBlock(n, b, v)

\* The step stores a block that is the round's, or one that was posted.
Commits(n) ==
    /\ n \in up
    /\ \E m \in msgs : m.type = "vote" /\ Commit(n, m) /\ Stores(n, round[n].block, VotesWith(n, m))

Receives(n) ==
    \E m \in msgs : /\ m.type = "new_block"
                    /\ Stores(n, m.block, m.votes)
                    /\ UNCHANGED <<peers, registered, round, up, made>>
                    /\ msgs' \subseteq msgs

\* A step stores a block, restarts a node or leaves the chains alone.
LEMMA ChainSteps ==
    ASSUME TypeOK, [Next]_vars
    PROVE  \/ \E n \in Node : Commits(n) \/ Receives(n) \/ Restart(n)
           \/ chain' = chain
<1>1. ASSUME NEW n \in Node, NEW m \in msgs, n \in up, Commit(n, m)
      PROVE  Commits(n)
  <2>1. Counts(n, m) /\ m.type = "vote" /\ round[n] # NoRound
    BY <1>1 DEF Commit, Decides, Counts
  <2>2. round[n].block \in Block /\ VotesWith(n, m) \in SUBSET Node
    BY <2>1, CountedType
  <2>3. Extant(round[n].block)
    BY <2>1 DEF Extant
  <2> QED
    BY <1>1, <2>1, <2>2, <2>3 DEF Commits, Stores, Commit
<1>2. ASSUME NEW n \in Node, NEW m \in msgs, OnNewBlock(n, m)
      PROVE  Receives(n) \/ chain' = chain
  <2>1. m.block \in Block /\ m.votes \in SUBSET Node
    BY <1>2, MessageKinds DEF OnNewBlock, TypeOK
  <2>2. Extant(m.block)
    BY <1>2 DEF OnNewBlock, Extant
  <2>3. CASE Valid(n, m.block) /\ AddBlock(n, m.block, m.votes)
    BY <1>2, <2>1, <2>2, <2>3 DEF OnNewBlock, Receives, Stores, Replace
  <2>4. CASE UNCHANGED <<chain, mempool>>
    BY <2>4
  <2> QED
    BY <1>2, <2>3, <2>4 DEF OnNewBlock
<1>3. ASSUME NEW n \in Node,
             RunRound(n) \/ GetPending(n) \/ Propose(n) \/ (\E p \in Node : OnNewNode(n, p)) \/ Crash(n)
      PROVE  chain' = chain
  BY <1>3 DEF RunRound, GetPending, Propose, OnNewNode, Crash
<1>4. ASSUME NEW n \in Node, NEW m,
             \/ Requests(n, m) \/ OnPropose(n, m) \/ PrepareAndVote(n, m)
             \/ IgnoreVote(n, m) \/ AddVote(n, m) \/ CommitFails(n, m)
      PROVE  chain' = chain
  BY <1>4 DEF Requests, OnTransaction, AddTransaction, AddRefused, OnPropose, PrepareAndVote, IgnoreVote, AddVote, CommitFails
<1>5. CASE UNCHANGED vars
  BY <1>5 DEF vars
<1> QED
  BY <1>1, <1>2, <1>3, <1>4, <1>5 DEF Next, Step, Handle, Requests

-----------------------------------------------------------------------------
(* Stored blocks survive                                                   *)

\* Every step keeps every stored block where it is.
LEMMA StepDurable == TypeOK /\ [Next]_vars => Durable
<1> SUFFICES ASSUME TypeOK, [Next]_vars
             PROVE  Durable
  OBVIOUS
<1>1. ASSUME NEW n \in Node, NEW b \in Block, NEW v \in SUBSET Node, AddBlock(n, b, v)
      PROVE  Durable
  BY <1>1, AddBlockEntries DEF Durable
<1>2. ASSUME NEW n \in Node, Commits(n)
      PROVE  Durable
  BY <1>1, <1>2 DEF Commits, Stores
<1>3. ASSUME NEW n \in Node, Receives(n)
      PROVE  Durable
  BY <1>1, <1>3 DEF Receives, Stores
<1>4. ASSUME NEW n \in Node, Restart(n)
      PROVE  Durable
  BY <1>4, RestartEntries DEF Durable
<1>5. CASE chain' = chain
  BY <1>5 DEF Durable
<1> QED
  BY <1>2, <1>3, <1>4, <1>5, ChainSteps

\* However often nodes stop and sync with peers on other forks, a stored block
\* stays where it is, with its votes.
THEOREM StoredForGood == Spec => DurableProperty
<1>1. TypeOK /\ TypeOK' /\ [Next]_vars => [Durable]_vars
  BY StepDurable
<1> QED
  BY <1>1, TypeInvariant, PTL DEF Spec, DurableProperty

-----------------------------------------------------------------------------
(* What a scan of a chain finds                                            *)

\* Every block of chain c is in chain d.
Within(c, d) == \A i \in DOMAIN c : \E j \in DOMAIN d : d[j].block = c[i].block

\* A scan finds what a scan of a part finds.
LEMMA ScanWithin ==
    ASSUME NEW c, NEW d, Within(c, d)
    PROVE  StoredTxs(c) \subseteq StoredTxs(d) /\ RegisteredOn(c) \subseteq RegisteredOn(d)
<1>1. StoredTxs(c) \subseteq StoredTxs(d)
  <2> SUFFICES ASSUME NEW t \in StoredTxs(c)
               PROVE  t \in StoredTxs(d)
    OBVIOUS
  <2>1. PICK i \in DOMAIN c : t \in c[i].block.txs
    BY DEF StoredTxs
  <2>2. PICK j \in DOMAIN d : d[j].block = c[i].block
    BY DEF Within
  <2> QED
    BY <2>1, <2>2 DEF StoredTxs
<1>2. Admitted(StoredTxs(c)) \subseteq Admitted(StoredTxs(d))
  BY <1>1 DEF Admitted
<1> QED
  BY <1>1, <1>2 DEF RegisteredOn

\* The first k entries of a chain.
LEMMA PrefixProperties ==
    ASSUME NEW c \in Seq(Entry), NEW k \in 0..Len(c)
    PROVE  /\ Prefix(c, k) \in Seq(Entry) /\ DOMAIN Prefix(c, k) = 1..k
           /\ \A i \in 1..k : Prefix(c, k)[i] = c[i]
<1>1. Len(c) \in Nat
  BY LenProperties
<1>2. \A i \in 1..k : c[i] \in Entry
  BY <1>1, ElementOfSeq
<1>3. /\ SubSeq(c, 1, k) \in Seq(Entry) /\ Len(SubSeq(c, 1, k)) = k
      /\ \A i \in 1..k : SubSeq(c, 1, k)[i] = c[i]
  BY <1>1, <1>2, SubSeqProperties
<1> QED
  BY <1>3, LenProperties DEF Prefix

\* The new chain of node p up to i is, block by block, that of q.
FollowsFrom(p, q, i) ==
    /\ i \in DOMAIN chain[q]
    /\ \A j \in 1..i : chain'[p][j].block = chain[q][j].block

\* Validators found before the last block of q's chain up to i are found in the
\* new one of p.
LEMMA ScanFollows ==
    ASSUME TypeOK, TypeOK', NEW p \in Node, NEW q \in Node, NEW i \in DOMAIN chain'[p],
           FollowsFrom(p, q, i)
    PROVE  RegisteredOn(Prefix(chain[q], i - 1)) \subseteq RegisteredOn(Prefix(chain'[p], i - 1))
<1>1. /\ chain[q] \in Seq(Entry) /\ chain'[p] \in Seq(Entry)
      /\ i - 1 \in 0..Len(chain[q]) /\ i - 1 \in 0..Len(chain'[p]) /\ i \in Nat
  BY LenProperties DEF TypeOK, FollowsFrom
<1>2. /\ DOMAIN Prefix(chain[q], i - 1) = 1..i - 1
      /\ \A j \in 1..i - 1 : Prefix(chain[q], i - 1)[j] = chain[q][j]
      /\ DOMAIN Prefix(chain'[p], i - 1) = 1..i - 1
      /\ \A j \in 1..i - 1 : Prefix(chain'[p], i - 1)[j] = chain'[p][j]
  BY <1>1, PrefixProperties
<1>3. Within(Prefix(chain[q], i - 1), Prefix(chain'[p], i - 1))
  <2> SUFFICES ASSUME NEW j \in 1..i - 1
               PROVE  Prefix(chain'[p], i - 1)[j].block = Prefix(chain[q], i - 1)[j].block
    BY <1>2 DEF Within
  <2>1. j \in 1..i
    BY <1>1
  <2> QED
    BY <1>2, <2>1 DEF FollowsFrom
<1> QED
  BY <1>3, ScanWithin

-----------------------------------------------------------------------------
(* Blocks and their identities                                             *)

\* What a chain comes to hold was stored, in a round or posted.
LEMMA NewStored ==
    ASSUME TypeOK, [Next]_vars, NEW b \in Block, OnChain(b)'
    PROVE  Extant(b)
<1>1. PICK p \in Node : \E i \in DOMAIN chain'[p] : chain'[p][i].block = b
  BY DEF OnChain
<1>2. PICK i \in DOMAIN chain'[p] : chain'[p][i].block = b
  BY <1>1
<1>3. ASSUME NEW q \in Node, i \in DOMAIN chain[q], chain'[p][i] = chain[q][i]
      PROVE  Extant(b)
  BY <1>2, <1>3 DEF Extant, OnChain
<1>4. ASSUME NEW n \in Node, NEW c, NEW v, Stores(n, c, v)
      PROVE  Extant(b)
  <2>1. c \in Block /\ v \in SUBSET Node /\ AddBlock(n, c, v) /\ Extant(c)
    BY <1>4 DEF Stores
  <2>2. CASE i \in DOMAIN chain[p] /\ chain'[p][i] = chain[p][i]
    BY <1>3, <2>2
  <2>3. CASE chain'[p][i] = [block |-> c, votes |-> v]
    BY <1>2, <2>1, <2>3
  <2> QED
    BY <2>1, <2>2, <2>3, AddBlockEntries
<1>5. ASSUME NEW n \in Node, Commits(n) \/ Receives(n)
      PROVE  Extant(b)
  BY <1>4, <1>5 DEF Commits, Receives
<1>6. ASSUME NEW n \in Node, Restart(n)
      PROVE  Extant(b)
  BY <1>3, <1>6, RestartEntries
<1>7. CASE chain' = chain
  BY <1>3, <1>7
<1> QED
  BY <1>5, <1>6, <1>7, ChainSteps

\* A block of a round or of a message.
InRound(b) == \E n \in Node : round[n] # NoRound /\ round[n].block = b

OnItsWay(b) == \E m \in msgs : m.type \in {"propose", "accepted", "new_block"} /\ m.block = b

\* Handling a message makes no block.
LEMMA HandlerBlocks ==
    ASSUME TypeOK, NEW n \in Node, NEW m \in msgs, NEW b \in Block, InRound(b)' \/ OnItsWay(b)',
           \/ Requests(n, m) \/ OnPropose(n, m) \/ PrepareAndVote(n, m)
           \/ IgnoreVote(n, m) \/ AddVote(n, m) \/ Commit(n, m) \/ CommitFails(n, m)
           \/ OnNewBlock(n, m)
    PROVE  Extant(b)
<1>1. ASSUME Requests(n, m)
      PROVE  Extant(b)
  BY <1>1, RequestEffect DEF Requests, InRound, OnItsWay, Extant
<1>2. ASSUME OnPropose(n, m)
      PROVE  Extant(b)
  BY <1>2 DEF OnPropose, Replace, InRound, OnItsWay, Extant
<1>3. ASSUME PrepareAndVote(n, m)
      PROVE  Extant(b)
  BY <1>3 DEF PrepareAndVote, Replace, Vote, NewRound, InRound, OnItsWay, Extant, TypeOK
<1>4. ASSUME IgnoreVote(n, m) \/ OnNewBlock(n, m)
      PROVE  Extant(b)
  BY <1>4 DEF IgnoreVote, OnNewBlock, Replace, InRound, OnItsWay, Extant
<1>5. ASSUME AddVote(n, m) \/ Commit(n, m) \/ CommitFails(n, m)
      PROVE  Extant(b)
  <2>1. Counts(n, m) /\ round[n] \in Round
    BY <1>5, CountedType DEF AddVote, Commit, CommitFails, Decides
  <2>2. /\ \A p \in Node \ {n} : round'[p] = round[p]
        /\ round'[n].block = round[n].block /\ round[n] # NoRound
    <3>1. round[n] # NoRound /\ round \in [Node -> Round \union {NoRound}]
      BY <2>1 DEF Counts, TypeOK
    <3>2. ASSUME NEW r, round' = [round EXCEPT ![n] = r], r.block = round[n].block
          PROVE  /\ \A p \in Node \ {n} : round'[p] = round[p]
                 /\ round'[n].block = round[n].block
      BY <3>1, <3>2
    <3>3. CASE AddVote(n, m)
      <4> DEFINE r == [round[n] EXCEPT !.votes = VotesWith(n, m)]
      <4>1. r.block = round[n].block
        BY <2>1 DEF Round
      <4>2. round' = [round EXCEPT ![n] = r]
        BY <3>3 DEF AddVote
      <4> QED
        BY <3>1, <3>2, <4>1, <4>2
    <3>4. CASE Commit(n, m) \/ CommitFails(n, m)
      <4>1. Decided(n, m).block = round[n].block
        BY <2>1 DEF Decided, Round
      <4>2. round' = [round EXCEPT ![n] = Decided(n, m)]
        BY <3>4 DEF Commit, CommitFails
      <4> QED
        BY <3>1, <3>2, <4>1, <4>2
    <3> QED
      BY <1>5, <3>3, <3>4
  <2>3. InRound(b)' => Extant(b)
    BY <2>2 DEF InRound, Extant
  <2>4. OnItsWay(b)' => OnItsWay(b) \/ b = round[n].block
    BY <1>5 DEF AddVote, Commit, CommitFails, Replace, Finalised, OnItsWay
  <2> QED
    BY <2>2, <2>3, <2>4 DEF OnItsWay, Extant
<1> QED
  BY <1>1, <1>2, <1>3, <1>4, <1>5

\* Only a proposal makes a block.
LEMMA NewBlocks ==
    ASSUME TypeOK, [Next]_vars, NEW b \in Block, Extant(b)'
    PROVE  Extant(b) \/ \E n \in Node : Propose(n) /\ b = CreateBlock(n)
<1>1. OnChain(b)' \/ InRound(b)' \/ OnItsWay(b)'
  BY DEF Extant, InRound, OnItsWay
<1>2. CASE OnChain(b)'
  BY <1>2, NewStored
<1>3. ASSUME InRound(b)' \/ OnItsWay(b)'
      PROVE  Extant(b) \/ \E n \in Node : Propose(n) /\ b = CreateBlock(n)
  <2>1. ASSUME NEW n \in Node, RunRound(n) \/ GetPending(n) \/ (\E p \in Node : OnNewNode(n, p))
                               \/ Restart(n)
        PROVE  Extant(b)
    BY <1>3, <2>1 DEF RunRound, GetPending, OnNewNode, Restart, InRound, OnItsWay, Extant
  <2>2. ASSUME NEW n \in Node, Crash(n)
        PROVE  Extant(b)
    <3>1. /\ \A p \in Node \ {n} : round'[p] = round[p]
          /\ round'[n] = NoRound /\ msgs' \subseteq msgs
      BY <2>2 DEF Crash, TypeOK
    <3>2. InRound(b)' => InRound(b)
      BY <3>1 DEF InRound
    <3>3. OnItsWay(b)' => OnItsWay(b)
      BY <3>1 DEF OnItsWay
    <3> QED
      BY <1>3, <3>2, <3>3 DEF Extant, InRound, OnItsWay
  <2>3. ASSUME NEW n \in Node, Propose(n)
        PROVE  Extant(b) \/ b = CreateBlock(n)
    <3> DEFINE c == CreateBlock(n)
    <3>1. /\ round' = [round EXCEPT ![n] = NewRound(c)]
          /\ msgs' = msgs \union Proposal(n, c) \union Vote(n, c)
      BY <2>3 DEF Propose
    <3> HIDE DEF c
    <3>2. InRound(b)' => Extant(b) \/ b = c
      BY <3>1 DEF NewRound, InRound, Extant, TypeOK
    <3>3. OnItsWay(b)' => OnItsWay(b) \/ b = c
      BY <3>1 DEF OnItsWay, Proposal, Vote
    <3> QED
      BY <1>3, <3>2, <3>3 DEF OnItsWay, Extant, c
  <2>4. ASSUME NEW n \in Node, Handle(n)
        PROVE  Extant(b)
    BY <1>3, <2>4, HandlerBlocks DEF Handle, Requests
  <2>5. CASE UNCHANGED vars
    BY <1>3, <2>5 DEF vars, InRound, OnItsWay, Extant
  <2> QED
    BY <2>1, <2>2, <2>3, <2>4, <2>5 DEF Next, Step
<1> QED
  BY <1>1, <1>2, <1>3

\* Nobody forgets how many blocks it has made.
LEMMA MadeGrows ==
    ASSUME TypeOK, [Next]_vars, NEW n \in Node
    PROVE  made[n] <= made'[n] /\ made[n] \in Nat
<1>1. made \in [Node -> Nat]
  BY DEF TypeOK
<1>2. ASSUME NEW p \in Node, Propose(p)
      PROVE  made[n] <= made'[n]
  BY <1>1, <1>2 DEF Propose
<1>3. ASSUME NEW p \in Node,
             \/ RunRound(p) \/ GetPending(p) \/ (\E q \in Node : OnNewNode(p, q))
             \/ Crash(p) \/ Restart(p) \/ Handle(p)
      PROVE  made' = made
  BY <1>3 DEF RunRound, GetPending, OnNewNode, Crash, Restart, Handle, OnTransaction, AddTransaction, AddRefused, OnPropose,
              PrepareAndVote, IgnoreVote, AddVote, Commit, CommitFails, OnNewBlock
<1>4. CASE UNCHANGED vars
  BY <1>1, <1>4 DEF vars
<1>5. made' = made => made[n] <= made'[n]
  BY <1>1
<1> QED
  BY <1>1, <1>2, <1>3, <1>4, <1>5 DEF Next, Step

\* A new block has an identity no block has had.
LEMMA StepIds ==
    ASSUME TypeOK, IdsMade, IdsUnique, [Next]_vars
    PROVE  IdsMade' /\ IdsUnique'
<1>1. ASSUME NEW b \in Block
      PROVE  b.id \in BlockId /\ b.id[1] \in Node /\ b.id[2] \in Nat
  BY DEF Block, BlockId
<1>2. ASSUME NEW n \in Node, Propose(n)
      PROVE  /\ CreateBlock(n).id = <<n, made[n] + 1>>
             /\ made[n] \in Nat /\ made'[n] = made[n] + 1
  BY <1>2 DEF Propose, CreateBlock, TypeOK
<1>3. IdsMade'
  <2> SUFFICES ASSUME NEW b \in Block, Extant(b)'
               PROVE  b.id[2] <= made'[b.id[1]]
    BY DEF IdsMade
  <2>1. CASE Extant(b)
    <3>1. b.id[2] <= made[b.id[1]] /\ made'[b.id[1]] \in Nat
      BY <1>1, <2>1, StepType DEF IdsMade, TypeOK
    <3> QED
      BY <1>1, <3>1, MadeGrows
  <2>2. ASSUME NEW n \in Node, Propose(n), b = CreateBlock(n)
        PROVE  b.id[2] <= made'[b.id[1]]
    BY <1>2, <2>2
  <2> QED
    BY <2>1, <2>2, NewBlocks
<1>4. IdsUnique'
  <2> SUFFICES ASSUME NEW a \in Block, NEW b \in Block, Extant(a)', Extant(b)', a.id = b.id
               PROVE  a = b
    BY DEF IdsUnique
  <2>1. CASE Extant(a) /\ Extant(b)
    BY <2>1 DEF IdsUnique
  <2>2. ASSUME NEW c \in Block, NEW n \in Node, Extant(c), Propose(n), c.id = CreateBlock(n).id
        PROVE  FALSE
    <3>1. c.id[2] <= made[n]
      BY <1>2, <2>2 DEF IdsMade
    <3> QED
      BY <1>2, <2>2, <3>1
  <2>3. ASSUME NEW n \in Node, NEW p \in Node, Propose(n), Propose(p),
               a = CreateBlock(n), b = CreateBlock(p)
        PROVE  a = b
    BY <1>2, <2>3
  <2>4. Extant(a) \/ \E n \in Node : Propose(n) /\ a = CreateBlock(n)
    BY NewBlocks
  <2>5. Extant(b) \/ \E n \in Node : Propose(n) /\ b = CreateBlock(n)
    BY NewBlocks
  <2>6. ASSUME Extant(a), ~Extant(b)
        PROVE  FALSE
    BY <2>2, <2>5, <2>6
  <2>7. ASSUME Extant(b), ~Extant(a)
        PROVE  FALSE
    BY <2>2, <2>4, <2>7
  <2> QED
    BY <2>1, <2>3, <2>4, <2>5, <2>6, <2>7
<1> QED
  BY <1>3, <1>4

-----------------------------------------------------------------------------
(* Chains and their pasts                                                  *)

\* A stored block is extant.
LEMMA StoredExtant ==
    ASSUME NEW n \in Node, NEW i \in DOMAIN chain[n]
    PROVE  Extant(chain[n][i].block)
BY DEF Extant, OnChain

\* A chain with a block that links to the tip of another has its past.
LEMMA JoinsHistory ==
    ASSUME TypeOK, Links, SameHistory, IdsUnique, NEW n \in Node, NEW q \in Node,
           NextIndex(n) \in DOMAIN chain[q], chain[q][NextIndex(n)].block.prev = TipId(n)
    PROVE  \A j \in 1..Len(chain[n]) : chain[q][j].block = chain[n][j].block
<1> DEFINE k == Len(chain[n])
<1>1. /\ k \in Nat /\ Len(chain[q]) \in Nat /\ DOMAIN chain[n] = 1..k
      /\ DOMAIN chain[q] = 1..Len(chain[q]) /\ k + 1 \in DOMAIN chain[q]
  BY LenProperties DEF TypeOK, NextIndex
<1> SUFFICES ASSUME NEW j \in 1..k
             PROVE  chain[q][j].block = chain[n][j].block
  OBVIOUS
<1>2. k \in DOMAIN chain[n] /\ k \in DOMAIN chain[q] /\ k + 1 > 1 /\ chain[n] # <<>>
  BY <1>1
<1>3. chain[q][k + 1].block.prev = chain[q][k].block.id
  <2>1. k + 1 - 1 = k
    BY <1>1
  <2> QED
    BY <1>1, <1>2, <2>1 DEF Links
<1>4. TipId(n) = chain[n][k].block.id
  BY <1>2 DEF TipId, LastId
<1>5. Stored(n, k) = Stored(q, k)
  BY <1>3, <1>4 DEF Stored, NextIndex
<1>6. Stored(n, j) = Stored(q, j)
  BY <1>2, <1>5 DEF SameHistory
<1>7. j \in DOMAIN chain[n] /\ j \in DOMAIN chain[q]
  BY <1>1
<1> QED
  BY <1>6, <1>7, EntryType, StoredExtant DEF Stored, IdsUnique

\* Where node p stores a block at i, on what it had.
StoresAt(p, i, b, v) ==
    /\ Stores(p, b, v)
    /\ i = NextIndex(p)
    /\ chain'[p][i] = [block |-> b, votes |-> v]
    /\ \A j \in 1..i - 1 : j \in DOMAIN chain[p] /\ chain'[p][j] = chain[p][j]

\* Stored so far by a chain with the same past.
Inherited(p, i) ==
    \E q \in Node : FollowsFrom(p, q, i) /\ chain'[p][i] = chain[q][i]

\* add_block adds one block to what is there.
LEMMA StoreFollows ==
    ASSUME TypeOK, NEW n \in Node, NEW b, NEW v, Stores(n, b, v),
           NEW p \in Node, NEW i \in DOMAIN chain'[p]
    PROVE  Inherited(p, i) \/ (p = n /\ StoresAt(p, i, b, v))
<1>1. b \in Block /\ v \in SUBSET Node /\ AddBlock(n, b, v)
  BY DEF Stores
<1>2. \A j \in DOMAIN chain[p] : j \in DOMAIN chain'[p] /\ chain'[p][j] = chain[p][j]
  BY <1>1, AddBlockEntries
<1>3. DOMAIN chain[p] = 1..Len(chain[p]) /\ Len(chain[p]) \in Nat
  BY LenProperties DEF TypeOK
<1>4. CASE i \in DOMAIN chain[p]
  <2>1. \A j \in 1..i : j \in DOMAIN chain[p]
    BY <1>3, <1>4
  <2> QED
    BY <1>2, <1>4, <2>1 DEF Inherited, FollowsFrom
<1>5. CASE p = n /\ i = NextIndex(n) /\ chain'[p][i] = [block |-> b, votes |-> v]
  <2>1. \A j \in 1..i - 1 : j \in DOMAIN chain[p]
    BY <1>3, <1>5 DEF NextIndex
  <2> QED
    BY <1>2, <1>5, <2>1 DEF StoresAt
<1> QED
  BY <1>1, <1>4, <1>5, AddBlockEntries

\* A restart adds what another chain has after the same past.
LEMMA RestartFollows ==
    ASSUME TypeOK, Links, SameHistory, IdsUnique, NEW n \in Node, Restart(n),
           NEW p \in Node, NEW i \in DOMAIN chain'[p]
    PROVE  Inherited(p, i)
<1>1. PICK c \in Seq(Entry) :
             /\ chain' = [chain EXCEPT ![n] = c]
             /\ \/ c = chain[n]
                \/ \E q \in Node :
                     /\ Extends(n, chain[q], chain[n])
                     /\ c = Grown(chain[n], chain[q])
  BY RestartEffect
<1>2. chain \in [Node -> Seq(Entry)]
  BY DEF TypeOK
<1>3. ASSUME chain'[p] = chain[p]
      PROVE  Inherited(p, i)
  BY <1>3 DEF Inherited, FollowsFrom
<1>4. p # n => chain'[p] = chain[p]
  BY <1>1, <1>2
<1>5. p = n => chain'[p] = c
  BY <1>1, <1>2
<1>6. ASSUME NEW q \in Node, Extends(n, chain[q], chain[n]), c = Grown(chain[n], chain[q]), p = n
      PROVE  Inherited(p, i)
  <2> DEFINE k == Len(chain[n])
  <2>1. /\ chain[n] \in Seq(Entry) /\ chain[q] \in Seq(Entry) /\ Len(chain[q]) > k
        /\ k \in Nat /\ Len(chain[q]) \in Nat
        /\ DOMAIN chain[n] = 1..k /\ DOMAIN chain[q] = 1..Len(chain[q])
    BY <1>2, <1>6, LenProperties DEF Extends
  <2>2. /\ Len(c) = Len(chain[q])
        /\ \A j \in 1..k : c[j] = chain[n][j]
        /\ \A j \in k + 1..Len(chain[q]) : c[j] = chain[q][j]
    BY <1>6, <2>1, GrownProperties
  <2>3. i \in 1..Len(chain[q])
    BY <1>5, <1>6, <2>1, <2>2, LenProperties
  <2>4. CASE i <= k
    <3>1. \A j \in 1..i : j \in 1..k
      BY <2>1, <2>3, <2>4
    <3>2. i \in 1..i
      BY <2>1, <2>3
    <3> QED
      BY <1>5, <1>6, <2>1, <2>2, <3>1, <3>2 DEF Inherited, FollowsFrom
  <2>5. CASE i > k
    <3>1. \A j \in 1..k : chain[q][j].block = chain[n][j].block
      <4>1. NextIndex(n) = k + 1 /\ k + 1 \in DOMAIN chain[q]
        BY <2>1 DEF NextIndex
      <4>2. chain[q][k + 1].block.prev = TipId(n)
        BY <1>6 DEF Extends, TipId
      <4> QED
        BY <4>1, <4>2, JoinsHistory
    <3>2. \A j \in 1..i : j \in 1..k \/ j \in k + 1..Len(chain[q])
      BY <2>1, <2>3, <2>5
    <3>3. \A j \in 1..i : c[j].block = chain[q][j].block
      BY <2>2, <3>1, <3>2
    <3>4. c[i] = chain[q][i] /\ i \in DOMAIN chain[q]
      BY <2>1, <2>2, <2>3, <2>5
    <3> QED
      BY <1>5, <1>6, <3>3, <3>4 DEF Inherited, FollowsFrom
  <2> QED
    BY <2>1, <2>3, <2>4, <2>5
<1> QED
  BY <1>1, <1>3, <1>4, <1>5, <1>6

\* How a block that a node has came there.
LEMMA StepHistory ==
    ASSUME TypeOK, Links, SameHistory, IdsUnique, [Next]_vars,
           NEW p \in Node, NEW i \in DOMAIN chain'[p]
    PROVE  \/ Inherited(p, i)
           \/ \E m \in msgs : /\ p \in up /\ m.type = "vote" /\ Commit(p, m)
                              /\ StoresAt(p, i, round[p].block, VotesWith(p, m))
           \/ \E m \in msgs : m.type = "new_block" /\ StoresAt(p, i, m.block, m.votes)
<1> DEFINE Goal == \/ Inherited(p, i)
                   \/ \E m \in msgs : /\ p \in up /\ m.type = "vote" /\ Commit(p, m)
                                      /\ StoresAt(p, i, round[p].block, VotesWith(p, m))
                   \/ \E m \in msgs : m.type = "new_block" /\ StoresAt(p, i, m.block, m.votes)
<1>1. ASSUME NEW n \in Node, Commits(n)
      PROVE  Goal
  <2>1. PICK m \in msgs : /\ n \in up /\ m.type = "vote" /\ Commit(n, m)
                          /\ Stores(n, round[n].block, VotesWith(n, m))
    BY <1>1 DEF Commits
  <2>2. Inherited(p, i) \/ (p = n /\ StoresAt(p, i, round[n].block, VotesWith(n, m)))
    BY <2>1, StoreFollows
  <2> QED
    BY <2>1, <2>2
<1>2. ASSUME NEW n \in Node, Receives(n)
      PROVE  Goal
  <2>1. PICK m \in msgs : m.type = "new_block" /\ Stores(n, m.block, m.votes)
    BY <1>2 DEF Receives
  <2>2. Inherited(p, i) \/ (p = n /\ StoresAt(p, i, m.block, m.votes))
    BY <2>1, StoreFollows
  <2> QED
    BY <2>1, <2>2
<1>3. ASSUME NEW n \in Node, Restart(n)
      PROVE  Goal
  BY <1>3, RestartFollows
<1>4. CASE chain' = chain
  BY <1>4 DEF Inherited, FollowsFrom
<1> QED
  BY <1>1, <1>2, <1>3, <1>4, ChainSteps

\* A block is stored where it links, and with the past it has elsewhere.
LEMMA StoresLinked ==
    ASSUME TypeOK, Links, SameHistory, IdsUnique, NEW p \in Node, NEW i \in DOMAIN chain'[p],
           NEW b, NEW v, StoresAt(p, i, b, v)
    PROVE  /\ b.index = i
           /\ i > 1 => b.prev = chain[p][i - 1].block.id
           /\ \A q \in Node : i \in DOMAIN chain[q] /\ chain[q][i].block.id = b.id
                => FollowsFrom(p, q, i)
<1>1. /\ i = Len(chain[p]) + 1 /\ i = NextIndex(p) /\ Len(chain[p]) \in Nat
      /\ b.index = i /\ b.prev = TipId(p) /\ b \in Block /\ Extant(b)
      /\ chain'[p][i].block = b
      /\ \A j \in 1..i - 1 : chain'[p][j] = chain[p][j]
  BY LenProperties DEF StoresAt, Stores, Valid, NextIndex, TypeOK
<1>2. ASSUME i > 1
      PROVE  b.prev = chain[p][i - 1].block.id
  <2>1. chain[p] # <<>> /\ i - 1 = Len(chain[p])
    BY <1>1, <1>2
  <2> QED
    BY <1>1, <2>1 DEF TipId, LastId
<1>3. ASSUME NEW q \in Node, i \in DOMAIN chain[q], chain[q][i].block.id = b.id
      PROVE  FollowsFrom(p, q, i)
  <2>1. chain[q][i].block = b
    BY <1>1, <1>3, EntryType, StoredExtant DEF IdsUnique
  <2>2. \A j \in 1..i - 1 : chain[q][j].block = chain[p][j].block
    <3>1. \A j \in 1..Len(chain[p]) : chain[q][j].block = chain[p][j].block
      BY <1>1, <1>3, <2>1, JoinsHistory
    <3> QED
      BY <1>1, <3>1
  <2>3. \A j \in 1..i : j \in 1..i - 1 \/ j = i
    BY <1>1
  <2> QED
    BY <1>1, <1>3, <2>1, <2>2, <2>3 DEF FollowsFrom
<1> QED
  BY <1>1, <1>2, <1>3

\* Every step keeps chains linked.
LEMMA StepLinks ==
    ASSUME TypeOK, TypeOK', Links, SameHistory, IdsUnique, [Next]_vars
    PROVE  Links'
<1> SUFFICES ASSUME NEW p \in Node, NEW i \in DOMAIN chain'[p]
             PROVE  /\ chain'[p][i].block.index = i
                    /\ i > 1 => chain'[p][i].block.prev = chain'[p][i - 1].block.id
  BY DEF Links
<1>1. i \in Nat /\ i > 0
  BY LenProperties DEF TypeOK
<1>2. ASSUME Inherited(p, i)
      PROVE  /\ chain'[p][i].block.index = i
             /\ i > 1 => chain'[p][i].block.prev = chain'[p][i - 1].block.id
  <2>1. PICK q \in Node : FollowsFrom(p, q, i)
    BY <1>2 DEF Inherited
  <2>2. i \in DOMAIN chain[q] /\ chain'[p][i].block = chain[q][i].block
    BY <1>1, <2>1 DEF FollowsFrom
  <2>3. i > 1 => chain'[p][i - 1].block = chain[q][i - 1].block
    BY <1>1, <2>1 DEF FollowsFrom
  <2> QED
    BY <2>2, <2>3 DEF Links
<1>3. ASSUME NEW b, NEW v, StoresAt(p, i, b, v)
      PROVE  /\ chain'[p][i].block.index = i
             /\ i > 1 => chain'[p][i].block.prev = chain'[p][i - 1].block.id
  <2>1. chain'[p][i].block = b
    BY <1>3 DEF StoresAt
  <2>2. i > 1 => chain'[p][i - 1] = chain[p][i - 1]
    BY <1>1, <1>3 DEF StoresAt
  <2> QED
    BY <1>3, <2>1, <2>2, StoresLinked
<1> QED
  BY <1>2, <1>3, StepHistory

\* Every step keeps the pasts of chains that meet the same.
LEMMA StepSameHistory ==
    ASSUME TypeOK, TypeOK', Links, SameHistory, IdsUnique, [Next]_vars
    PROVE  SameHistory'
<1> SUFFICES ASSUME NEW n \in Node, NEW m \in Node, NEW i \in DOMAIN chain'[n],
                    i \in DOMAIN chain'[m], chain'[n][i].block.id = chain'[m][i].block.id,
                    NEW j \in 1..i
             PROVE  chain'[n][j].block.id = chain'[m][j].block.id
  BY DEF SameHistory, Stored
<1> DEFINE New(p) == \E b, v : StoresAt(p, i, b, v)
<1>1. ASSUME NEW p \in Node, i \in DOMAIN chain'[p]
      PROVE  (\E q \in Node : FollowsFrom(p, q, i)) \/ New(p)
  BY <1>1, StepHistory DEF Inherited
<1>2. i \in 1..i
  BY LenProperties DEF TypeOK
<1>3. ASSUME NEW q \in Node, NEW r \in Node, FollowsFrom(n, q, i), FollowsFrom(m, r, i)
      PROVE  chain'[n][j].block.id = chain'[m][j].block.id
  <2>1. Stored(q, i) = Stored(r, i)
    BY <1>2, <1>3 DEF FollowsFrom, Stored
  <2>2. Stored(q, j) = Stored(r, j)
    BY <1>3, <2>1 DEF FollowsFrom, SameHistory
  <2> QED
    BY <1>3, <2>2 DEF FollowsFrom, Stored
<1>4. ASSUME NEW p \in Node, NEW o \in Node, i \in DOMAIN chain'[p], New(p),
             NEW q \in Node, FollowsFrom(o, q, i), chain'[p][i].block.id = chain'[o][i].block.id
      PROVE  FollowsFrom(p, q, i)
  <2>1. PICK b, v : StoresAt(p, i, b, v)
    BY <1>4
  <2>2. i \in DOMAIN chain[q] /\ chain[q][i].block.id = b.id
    BY <1>2, <1>4, <2>1 DEF FollowsFrom, StoresAt
  <2> QED
    BY <1>4, <2>1, <2>2, StoresLinked
<1>5. ASSUME New(n), New(m)
      PROVE  n = m
  <2>1. PICK b, v : StoresAt(n, i, b, v)
    BY <1>5
  <2>2. b \in Block /\ v \in SUBSET Node /\ AddBlock(n, b, v)
    BY <2>1 DEF StoresAt, Stores
  <2>3. i = NextIndex(m) /\ i \notin DOMAIN chain[m]
    BY <1>5, LenProperties DEF StoresAt, NextIndex, TypeOK
  <2>4. \A p \in Node : \A k \in DOMAIN chain'[p] : k \in DOMAIN chain[p] \/ p = n
    BY <2>2, AddBlockEntries
  <2> QED
    BY <2>3, <2>4
<1> QED
  BY <1>1, <1>3, <1>4, <1>5

-----------------------------------------------------------------------------
(* Caches, rounds and mempools                                             *)

\* add_block adds the transactions of its block to those stored.
LEMMA AddBlockScan ==
    ASSUME TypeOK, NEW n \in Node, NEW b \in Block, NEW v \in SUBSET Node, AddBlock(n, b, v)
    PROVE  /\ StoredTxs(chain'[n]) = StoredTxs(chain[n]) \union b.txs
           /\ \A p \in Node \ {n} : chain'[p] = chain[p]
           /\ NextIndex(n) \in DOMAIN chain'[n]
           /\ chain'[n][NextIndex(n)] = [block |-> b, votes |-> v]
<1> DEFINE e == [block |-> b, votes |-> v]
<1>1. chain[n] \in Seq(Entry) /\ e \in Entry /\ e.block = b
  BY DEF TypeOK, Entry
<1>2. chain' = [chain EXCEPT ![n] = Append(chain[n], e)] /\ chain \in [Node -> Seq(Entry)]
  BY DEF AddBlock, TypeOK
<1> HIDE DEF e
<1>3. chain'[n] = Append(chain[n], e) /\ \A p \in Node \ {n} : chain'[p] = chain[p]
  BY <1>2
<1>4. /\ DOMAIN chain'[n] = 1..Len(chain[n]) + 1 /\ Len(chain[n]) \in Nat
      /\ DOMAIN chain[n] = 1..Len(chain[n])
      /\ \A i \in 1..Len(chain[n]) : chain'[n][i] = chain[n][i]
      /\ chain'[n][Len(chain[n]) + 1] = e
  BY <1>1, <1>3, AppendProperties, LenProperties
<1>5. StoredTxs(chain'[n]) = StoredTxs(chain[n]) \union b.txs
  <2>1. ASSUME NEW t \in StoredTxs(chain'[n])
        PROVE  t \in StoredTxs(chain[n]) \union b.txs
    <3>1. PICK i \in DOMAIN chain'[n] : t \in chain'[n][i].block.txs
      BY DEF StoredTxs
    <3>2. i \in DOMAIN chain[n] \/ i = Len(chain[n]) + 1
      BY <1>4
    <3> QED
      BY <1>1, <1>4, <3>1, <3>2 DEF StoredTxs
  <2>2. StoredTxs(chain[n]) \subseteq StoredTxs(chain'[n])
    <3>1. \A i \in DOMAIN chain[n] : i \in DOMAIN chain'[n] /\ chain'[n][i] = chain[n][i]
      BY <1>4
    <3> QED
      BY <3>1 DEF StoredTxs
  <2>3. b.txs \subseteq StoredTxs(chain'[n])
    <3>1. Len(chain[n]) + 1 \in DOMAIN chain'[n] /\ chain'[n][Len(chain[n]) + 1].block = b
      BY <1>1, <1>4
    <3> QED
      BY <3>1 DEF StoredTxs
  <2> QED
    BY <2>1, <2>2, <2>3
<1> QED
  BY <1>3, <1>4, <1>5 DEF NextIndex, e

\* Only a commit and a restart change a validator cache, and a commit adds to it.
LEMMA CacheSteps ==
    ASSUME TypeOK, [Next]_vars
    PROVE  \/ registered' = registered
           \/ \E n \in Node, m \in msgs :
                Commit(n, m) /\ registered' = [registered EXCEPT ![n] =
                                                 @ \union Admitted(round[n].block.txs)]
           \/ \E n \in Node : Restart(n)
<1>1. ASSUME NEW n \in Node,
             RunRound(n) \/ GetPending(n) \/ Propose(n) \/ (\E p \in Node : OnNewNode(n, p)) \/ Crash(n)
      PROVE  registered' = registered
  BY <1>1 DEF RunRound, GetPending, Propose, OnNewNode, Crash
<1>2. ASSUME NEW n \in Node, NEW m,
             \/ Requests(n, m) \/ OnPropose(n, m) \/ PrepareAndVote(n, m)
             \/ IgnoreVote(n, m) \/ AddVote(n, m) \/ CommitFails(n, m) \/ OnNewBlock(n, m)
      PROVE  registered' = registered
  BY <1>2 DEF Requests, OnTransaction, AddTransaction, AddRefused, OnPropose, PrepareAndVote, IgnoreVote, AddVote, CommitFails, OnNewBlock
<1>3. ASSUME NEW n \in Node, NEW m \in msgs, Commit(n, m)
      PROVE  registered' = [registered EXCEPT ![n] = @ \union Admitted(round[n].block.txs)]
  BY <1>3 DEF Commit
<1>4. CASE UNCHANGED vars
  BY <1>4 DEF vars
<1> QED
  BY <1>1, <1>2, <1>3, <1>4 DEF Next, Step, Handle, Requests

\* A stored chain is within the one that replaces it.
LEMMA StepWithin ==
    ASSUME TypeOK, [Next]_vars, NEW n \in Node
    PROVE  RegisteredOn(chain[n]) \subseteq RegisteredOn(chain'[n])
<1>1. Within(chain[n], chain'[n])
  BY StepDurable DEF Durable, Within
<1> QED
  BY <1>1, ScanWithin

\* Every step keeps the caches behind the chains.
LEMMA StepRegistered ==
    ASSUME TypeOK, RegisteredSound, [Next]_vars
    PROVE  RegisteredSound'
<1> SUFFICES ASSUME NEW p \in Node
             PROVE  registered'[p] \subseteq RegisteredOn(chain'[p])
  BY DEF RegisteredSound
<1>1. registered[p] \subseteq RegisteredOn(chain'[p])
  BY StepWithin DEF RegisteredSound
<1>2. CASE registered' = registered
  BY <1>1, <1>2
<1>3. ASSUME NEW n \in Node, NEW m \in msgs, Commit(n, m),
             registered' = [registered EXCEPT ![n] = @ \union Admitted(round[n].block.txs)]
      PROVE  registered'[p] \subseteq RegisteredOn(chain'[p])
  <2> DEFINE b == round[n].block
  <2>1. b \in Block /\ VotesWith(n, m) \in SUBSET Node /\ AddBlock(n, b, VotesWith(n, m))
    BY <1>3, CountedType DEF Commit, Decides
  <2>2. b.txs \subseteq StoredTxs(chain'[n])
    BY <2>1, AddBlockScan
  <2>3. Admitted(b.txs) \subseteq RegisteredOn(chain'[n])
    BY <2>2 DEF RegisteredOn, Admitted
  <2>4. p # n => registered'[p] = registered[p]
    BY <1>3 DEF TypeOK
  <2>5. p = n => registered'[p] = registered[p] \union Admitted(b.txs)
    BY <1>3 DEF TypeOK
  <2> QED
    BY <1>1, <2>3, <2>4, <2>5
<1>4. ASSUME NEW n \in Node, Restart(n)
      PROVE  registered'[p] \subseteq RegisteredOn(chain'[p])
  <2>1. PICK c \in Seq(Entry) : /\ chain' = [chain EXCEPT ![n] = c]
                                /\ registered' = [registered EXCEPT ![n] = RegisteredOn(c)]
    BY <1>4, RestartEffect
  <2>2. chain \in [Node -> Seq(Entry)] /\ registered \in [Node -> SUBSET Node]
    BY DEF TypeOK
  <2>3. p = n => chain'[p] = c /\ registered'[p] = RegisteredOn(c)
    BY <2>1, <2>2
  <2>4. p # n => registered'[p] = registered[p]
    BY <2>1, <2>2
  <2> QED
    BY <1>1, <2>3, <2>4
<1> QED
  BY <1>2, <1>3, <1>4, CacheSteps

\* A step that is not a restart takes nothing out of a cache.
LEMMA CacheGrows ==
    ASSUME TypeOK, [Next]_vars, NEW p \in Node, ~Restart(p)
    PROVE  registered[p] \subseteq registered'[p]
<1>1. ASSUME NEW n \in Node, NEW m \in msgs, Commit(n, m),
             registered' = [registered EXCEPT ![n] = @ \union Admitted(round[n].block.txs)]
      PROVE  registered[p] \subseteq registered'[p]
  BY <1>1 DEF TypeOK
<1>2. ASSUME NEW n \in Node, Restart(n)
      PROVE  registered[p] \subseteq registered'[p]
  <2>1. PICK c \in Seq(Entry) : registered' = [registered EXCEPT ![n] = RegisteredOn(c)]
    BY <1>2, RestartEffect
  <2> QED
    BY <1>2, <2>1 DEF TypeOK
<1> QED
  BY <1>1, <1>2, CacheSteps

\* A node that stops loses its round and its mempool, and gets none while it is down.
LEMMA StepDown ==
    ASSUME TypeOK, DownEmpty, [Next]_vars
    PROVE  DownEmpty'
<1> USE DEF TypeOK, DownEmpty
<1>1. ASSUME NEW n \in Node, RunRound(n) \/ GetPending(n) \/ Propose(n)
      PROVE  DownEmpty'
  BY <1>1 DEF RunRound, GetPending, Propose
<1>2. ASSUME NEW n \in Node, NEW m \in msgs, n \in up,
             Requests(n, m) \/ OnPropose(n, m) \/ IgnoreVote(n, m) \/ OnNewBlock(n, m)
      PROVE  DownEmpty'
  <2>1. round' = round /\ up' = up
    BY <1>2 DEF Requests, OnTransaction, AddTransaction, AddRefused, OnPropose, IgnoreVote, OnNewBlock
  <2>2. \A p \in Node \ {n} : mempool'[p] = mempool[p]
    BY <1>2 DEF Requests, OnTransaction, AddTransaction, AddRefused, OnPropose, IgnoreVote, OnNewBlock, AddBlock
  <2> QED
    BY <1>2, <2>1, <2>2
<1>3. ASSUME NEW n \in Node, NEW m \in msgs, n \in up,
             PrepareAndVote(n, m) \/ AddVote(n, m) \/ Commit(n, m) \/ CommitFails(n, m)
      PROVE  DownEmpty'
  <2>1. up' = up /\ \E r : round' = [round EXCEPT ![n] = r]
    BY <1>3 DEF PrepareAndVote, AddVote, Commit, CommitFails
  <2>2. \A p \in Node \ {n} : mempool'[p] = mempool[p]
    BY <1>3 DEF PrepareAndVote, AddVote, Commit, CommitFails, AddBlock
  <2>3. \A p \in Node \ {n} : round'[p] = round[p]
    BY <2>1
  <2> QED
    BY <1>3, <2>1, <2>2, <2>3
<1>4. ASSUME NEW n \in Node, (\E p \in Node : OnNewNode(n, p)) \/ Restart(n)
      PROVE  DownEmpty'
  BY <1>4 DEF OnNewNode, Restart
<1>5. ASSUME NEW n \in Node, Crash(n)
      PROVE  DownEmpty'
  BY <1>5 DEF Crash
<1>6. CASE UNCHANGED vars
  BY <1>6 DEF vars
<1> QED
  BY <1>1, <1>2, <1>3, <1>4, <1>5, <1>6 DEF Next, Step, Handle, Requests

\* The votes of a round after a step were in it before, or are of a registered wallet.
LEMMA StepMembers ==
    ASSUME TypeOK, DownEmpty, RoundMembers, [Next]_vars
    PROVE  RoundMembers'
<1> SUFFICES ASSUME NEW p \in Node, round'[p] # NoRound
             PROVE  round'[p].votes \subseteq registered'[p]
  BY DEF RoundMembers
<1>1. round \in [Node -> Round \union {NoRound}]
  BY DEF TypeOK
<1>2. CASE Restart(p)
  BY <1>2 DEF Restart, DownEmpty
<1>3. CASE ~Restart(p)
  <2>1. registered[p] \subseteq registered'[p]
    BY <1>3, CacheGrows
  <2>2. ASSUME round'[p] = round[p]
        PROVE  round'[p].votes \subseteq registered'[p]
    BY <2>1, <2>2 DEF RoundMembers
  <2>3. ASSUME NEW n \in Node, NEW b, round' = [round EXCEPT ![n] = NewRound(b)]
        PROVE  round'[p].votes \subseteq registered'[p]
    <3>1. p = n => round'[p].votes = {}
      BY <1>1, <2>3 DEF NewRound
    <3>2. p # n => round'[p] = round[p]
      BY <1>1, <2>3
    <3> QED
      BY <2>2, <3>1, <3>2
  <2>4. ASSUME NEW n \in Node, NEW m, Counts(n, m), NEW r, r.votes = VotesWith(n, m),
               round' = [round EXCEPT ![n] = r]
        PROVE  round'[p].votes \subseteq registered'[p]
    <3>1. VotesWith(n, m) \subseteq registered[n]
      BY <2>4 DEF Counts, VotesWith, RoundMembers
    <3>2. p = n => round'[p].votes = VotesWith(n, m)
      BY <1>1, <2>4
    <3>3. p # n => round'[p] = round[p]
      BY <1>1, <2>4
    <3> QED
      BY <2>1, <2>2, <3>1, <3>2, <3>3
  <2>5. ASSUME NEW n \in Node,
               RunRound(n) \/ GetPending(n) \/ (\E q \in Node : OnNewNode(n, q)) \/ Restart(n)
        PROVE  round' = round
    BY <2>5 DEF RunRound, GetPending, OnNewNode, Restart
  <2>6. ASSUME NEW n \in Node, Propose(n)
        PROVE  round'[p].votes \subseteq registered'[p]
    BY <2>3, <2>6 DEF Propose
  <2>7. ASSUME NEW n \in Node, NEW m,
               Requests(n, m) \/ OnPropose(n, m) \/ IgnoreVote(n, m) \/ OnNewBlock(n, m)
        PROVE  round' = round
    BY <2>7 DEF Requests, OnTransaction, AddTransaction, AddRefused, OnPropose, IgnoreVote, OnNewBlock
  <2>8. ASSUME NEW n \in Node, NEW m, PrepareAndVote(n, m)
        PROVE  round'[p].votes \subseteq registered'[p]
    BY <2>3, <2>8 DEF PrepareAndVote
  <2>9. ASSUME NEW n \in Node, NEW m \in msgs, AddVote(n, m)
        PROVE  round'[p].votes \subseteq registered'[p]
    <3> DEFINE r == [round[n] EXCEPT !.votes = VotesWith(n, m)]
    <3>1. Counts(n, m) /\ round[n] \in Round
      BY <2>9, CountedType DEF AddVote
    <3>2. r.votes = VotesWith(n, m)
      BY <3>1 DEF Round
    <3>3. round' = [round EXCEPT ![n] = r]
      BY <2>9 DEF AddVote
    <3> QED
      BY <2>4, <3>1, <3>2, <3>3
  <2>10. ASSUME NEW n \in Node, NEW m \in msgs, Commit(n, m) \/ CommitFails(n, m)
         PROVE  round'[p].votes \subseteq registered'[p]
    <3>1. Counts(n, m) /\ round[n] \in Round
      BY <2>10, CountedType DEF Commit, CommitFails, Decides
    <3>2. Decided(n, m).votes = VotesWith(n, m)
      BY <3>1 DEF Decided, Round
    <3>3. round' = [round EXCEPT ![n] = Decided(n, m)]
      BY <2>10 DEF Commit, CommitFails
    <3> QED
      BY <2>4, <3>1, <3>2, <3>3
  <2>11. ASSUME NEW n \in Node, Crash(n)
         PROVE  round'[p] = round[p]
    BY <1>1, <2>11 DEF Crash
  <2>12. CASE UNCHANGED vars
    BY <2>2, <2>12 DEF vars
  <2> QED
    BY <2>2, <2>5, <2>6, <2>7, <2>8, <2>9, <2>10, <2>11, <2>12 DEF Next, Step, Handle, Requests
<1> QED
  BY <1>2, <1>3

\* A block is posted by the node that has just stored it.
LEMMA StepPosts ==
    ASSUME TypeOK, PostsStored, [Next]_vars
    PROVE  PostsStored'
<1> SUFFICES ASSUME NEW m \in msgs', m.type = "new_block"
             PROVE  \E n \in Node : \E i \in DOMAIN chain'[n] :
                      chain'[n][i] = [block |-> m.block, votes |-> m.votes]
  BY DEF PostsStored
<1>1. CASE m \in msgs
  <2>1. PICK n \in Node : \E i \in DOMAIN chain[n] :
               chain[n][i] = [block |-> m.block, votes |-> m.votes]
    BY <1>1 DEF PostsStored
  <2> QED
    BY <2>1, StepDurable DEF Durable
<1>2. ASSUME NEW n \in Node, NEW p \in msgs, Commit(n, p)
      PROVE  m \in msgs \/ \E i \in DOMAIN chain'[n] :
                             chain'[n][i] = [block |-> m.block, votes |-> m.votes]
  <2> DEFINE b == round[n].block
             v == VotesWith(n, p)
  <2>1. b \in Block /\ v \in SUBSET Node /\ AddBlock(n, b, v)
    BY <1>2, CountedType DEF Commit, Decides
  <2>2. NextIndex(n) \in DOMAIN chain'[n] /\ chain'[n][NextIndex(n)] = [block |-> b, votes |-> v]
    BY <2>1, AddBlockScan
  <2>3. m \in msgs \/ (m.block = b /\ m.votes = v)
    BY <1>2 DEF Commit, Replace, Finalised
  <2> QED
    BY <2>2, <2>3
<1>3. ASSUME NEW n \in Node,
             RunRound(n) \/ GetPending(n) \/ Propose(n) \/ (\E p \in Node : OnNewNode(n, p))
             \/ Crash(n) \/ Restart(n)
      PROVE  m \in msgs
  BY <1>3 DEF RunRound, GetPending, Propose, OnNewNode, Crash, Restart, Proposal, Vote
<1>4. ASSUME NEW n \in Node, NEW p \in msgs,
             \/ Requests(n, p) \/ OnPropose(n, p) \/ PrepareAndVote(n, p)
             \/ IgnoreVote(n, p) \/ AddVote(n, p) \/ CommitFails(n, p) \/ OnNewBlock(n, p)
      PROVE  m \in msgs
  BY <1>4 DEF Requests, OnTransaction, AddTransaction, AddRefused, OnPropose, PrepareAndVote, IgnoreVote, AddVote, CommitFails,
              OnNewBlock, Replace, Gossip, Vote
<1>5. CASE UNCHANGED vars
  BY <1>1, <1>5 DEF vars
<1> QED
  BY <1>1, <1>2, <1>3, <1>4, <1>5 DEF Next, Step, Handle, Requests

\* Every step keeps LookedUpBefore: only OnTransaction looks a transaction up.
LEMMA StepLookedUp ==
    ASSUME TypeOK, LookedUpBefore, [Next]_vars
    PROVE  LookedUpBefore'
<1> SUFFICES ASSUME NEW x \in msgs', x.type = "checked", x.tx \in Paid
             PROVE  ~x.late
  BY DEF LookedUpBefore
<1>1. ASSUME NEW n \in Node, NEW m \in msgs, Requests(n, m)
      PROVE  x \in msgs \/ ~x.late
  <2>1. CASE AddTransaction(n, m) \/ AddRefused(n, m)
    BY <2>1 DEF AddTransaction, AddRefused, Replace, Gossip
  <2>2. CASE OnTransaction(n, m)
    <3>1. CASE Known(n, m.tx)
      BY <2>2, <3>1 DEF OnTransaction, Replace
    <3>2. CASE ~Known(n, m.tx)
      <4> DEFINE l == m.tx \in StoredTxs(chain[n])
      <4>1. \A y \in [type: {"checked"}, to: {n}, from: {m.from}, tx: {m.tx}, late: {l}] :
               y.late = l /\ y.tx = m.tx
        OBVIOUS
      <4>2. x \in msgs \/ x \in [type: {"checked"}, to: {n}, from: {m.from}, tx: {m.tx}, late: {l}]
        BY <2>2, <3>2 DEF OnTransaction, Replace
      <4>3. m.tx \in Paid => ~l
        BY <3>2 DEF Known
      <4> HIDE DEF l
      <4> QED
        BY <4>1, <4>2, <4>3
    <3> QED
      BY <3>1, <3>2
  <2> QED
    BY <1>1, <2>1, <2>2 DEF Requests
<1>2. ASSUME NEW n \in Node, NEW m \in msgs,
             \/ OnPropose(n, m) \/ PrepareAndVote(n, m) \/ IgnoreVote(n, m) \/ AddVote(n, m)
             \/ Commit(n, m) \/ CommitFails(n, m) \/ OnNewBlock(n, m)
      PROVE  x \in msgs
  BY <1>2 DEF OnPropose, PrepareAndVote, IgnoreVote, AddVote, Commit, CommitFails, OnNewBlock,
              Replace, Vote, Finalised
<1>3. ASSUME NEW n \in Node,
             RunRound(n) \/ GetPending(n) \/ Propose(n) \/ (\E p \in Node : OnNewNode(n, p))
             \/ Crash(n) \/ Restart(n)
      PROVE  x \in msgs
  BY <1>3 DEF RunRound, GetPending, Propose, OnNewNode, Crash, Restart, Proposal, Vote
<1>4. CASE UNCHANGED vars
  BY <1>4 DEF vars, LookedUpBefore
<1>5. x \in msgs \/ ~x.late
  BY <1>1, <1>2, <1>3, <1>4 DEF Next, Step, Handle, Requests
<1> QED
  BY <1>5 DEF LookedUpBefore

\* A stored paid transaction is pending again only after a step of a request that
\* had looked for it before it was stored.
LEMMA StepReturned ==
    ASSUME TypeOK, DownEmpty, LookedUpBefore, [Next]_vars,
           NEW p \in Node, NEW t \in Returned(p)', t \notin Returned(p)
    PROVE  Overtaken(p, t)
<1>1. /\ mempool \in [Node -> SUBSET Tx]
      /\ t \in mempool'[p] /\ t \in Paid /\ t \in StoredTxs(chain'[p])
      /\ ~(t \in mempool[p] /\ t \in StoredTxs(chain[p]))
  BY DEF TypeOK, Returned
<1>2. ASSUME chain' = chain, mempool'[p] \subseteq mempool[p]
      PROVE  FALSE
  BY <1>1, <1>2
<1>3. ASSUME NEW n \in Node, NEW b \in Block, NEW v \in SUBSET Node, AddBlock(n, b, v)
      PROVE  FALSE
  <2>1. mempool' = [mempool EXCEPT ![n] = @ \ b.txs]
    BY <1>3 DEF AddBlock
  <2>2. p = n => /\ mempool'[p] = mempool[p] \ b.txs
                 /\ StoredTxs(chain'[p]) = StoredTxs(chain[p]) \union b.txs
    BY <1>1, <1>3, <2>1, AddBlockScan
  <2>3. p # n => mempool'[p] = mempool[p] /\ chain'[p] = chain[p]
    BY <1>1, <1>3, <2>1, AddBlockScan
  <2> QED
    BY <1>1, <2>2, <2>3
<1>4. ASSUME NEW n \in Node,
             RunRound(n) \/ GetPending(n) \/ Propose(n) \/ (\E q \in Node : OnNewNode(n, q)) \/ Crash(n)
      PROVE  FALSE
  BY <1>1, <1>2, <1>4 DEF RunRound, GetPending, Propose, OnNewNode, Crash
<1>5. ASSUME NEW n \in Node, NEW m \in msgs, m.to = n, AddTransaction(n, m)
      PROVE  Overtaken(p, t)
  <2>1. mempool' = [mempool EXCEPT ![n] = @ \union {m.tx}] /\ chain' = chain /\ m.type = "checked"
    BY <1>5 DEF AddTransaction
  <2>2. p = n /\ t = m.tx
    BY <1>1, <2>1
  <2>3. ~m.late
    BY <1>1, <2>1, <2>2 DEF LookedUpBefore
  <2> QED
    BY <1>5, <2>1, <2>2, <2>3 DEF Overtaken
<1>6. ASSUME NEW n \in Node, NEW m \in msgs,
             \/ OnTransaction(n, m) \/ AddRefused(n, m) \/ OnPropose(n, m) \/ PrepareAndVote(n, m)
             \/ IgnoreVote(n, m) \/ AddVote(n, m) \/ CommitFails(n, m)
      PROVE  FALSE
  BY <1>2, <1>6 DEF OnTransaction, AddRefused, OnPropose, PrepareAndVote, IgnoreVote, AddVote,
                    CommitFails
<1>7. ASSUME NEW n \in Node, NEW m \in msgs, Commit(n, m)
      PROVE  FALSE
  BY <1>3, <1>7, CountedType DEF Commit, Decides
<1>8. ASSUME NEW n \in Node, NEW m \in msgs, OnNewBlock(n, m)
      PROVE  FALSE
  <2>1. m.block \in Block /\ m.votes \in SUBSET Node
    BY <1>8, MessageKinds DEF OnNewBlock, TypeOK
  <2> QED
    BY <1>2, <1>3, <1>8, <2>1 DEF OnNewBlock
<1>9. ASSUME NEW n \in Node, Restart(n)
      PROVE  FALSE
  <2>1. PICK c \in Seq(Entry) : chain' = [chain EXCEPT ![n] = c]
    BY <1>9, RestartEffect
  <2>2. p # n => chain'[p] = chain[p]
    BY <2>1 DEF TypeOK
  <2>3. mempool' = mempool /\ mempool[n] = {}
    BY <1>9 DEF Restart, DownEmpty
  <2> QED
    BY <1>1, <2>2, <2>3
<1>10. CASE UNCHANGED vars
  BY <1>2, <1>10 DEF vars
<1> QED
  BY <1>4, <1>5, <1>6, <1>7, <1>8, <1>9, <1>10 DEF Next, Step, Handle

-----------------------------------------------------------------------------
(* Certificates                                                            *)

\* A posted block that a node stores is stored elsewhere with the same past.
LEMMA PostFollows ==
    ASSUME TypeOK, Links, SameHistory, IdsUnique, PostsStored,
           NEW p \in Node, NEW i \in DOMAIN chain'[p],
           NEW m \in msgs, m.type = "new_block", StoresAt(p, i, m.block, m.votes)
    PROVE  Inherited(p, i)
<1>1. PICK q \in Node : \E k \in DOMAIN chain[q] :
             chain[q][k] = [block |-> m.block, votes |-> m.votes]
  BY DEF PostsStored
<1>2. PICK k \in DOMAIN chain[q] : chain[q][k] = [block |-> m.block, votes |-> m.votes]
  BY <1>1
<1>3. chain[q][k].block = m.block
  BY <1>2
<1>4. m.block.index = i
  BY StoresLinked
<1>5. k = i
  BY <1>3, <1>4 DEF Links
<1>6. FollowsFrom(p, q, i)
  BY <1>3, <1>5, StoresLinked
<1>7. chain'[p][i] = chain[q][i]
  BY <1>2, <1>5 DEF StoresAt
<1> QED
  BY <1>6, <1>7 DEF Inherited

\* A new block is inherited, or committed with votes of members of the round.
LEMMA StepOrigin ==
    ASSUME TypeOK, Links, SameHistory, IdsUnique, PostsStored, [Next]_vars,
           NEW p \in Node, NEW i \in DOMAIN chain'[p]
    PROVE  \/ Inherited(p, i)
           \/ \E m \in msgs : /\ m.type = "vote" /\ Commit(p, m)
                              /\ StoresAt(p, i, round[p].block, VotesWith(p, m))
BY StepHistory, PostFollows

\* Every step keeps the certificates those of validators admitted before.
LEMMA StepSybil ==
    ASSUME TypeOK, TypeOK', Links, SameHistory, IdsUnique, PostsStored, RegisteredSound,
           RoundMembers, SybilCertificates, [Next]_vars
    PROVE  SybilCertificates'
<1> SUFFICES ASSUME NEW p \in Node, NEW i \in DOMAIN chain'[p]
             PROVE  chain'[p][i].votes \subseteq RegisteredOn(Prefix(chain'[p], i - 1))
  BY DEF SybilCertificates
<1>1. ASSUME Inherited(p, i)
      PROVE  chain'[p][i].votes \subseteq RegisteredOn(Prefix(chain'[p], i - 1))
  <2>1. PICK q \in Node : FollowsFrom(p, q, i) /\ chain'[p][i] = chain[q][i]
    BY <1>1 DEF Inherited
  <2>2. chain[q][i].votes \subseteq RegisteredOn(Prefix(chain[q], i - 1))
    BY <2>1 DEF FollowsFrom, SybilCertificates
  <2>3. RegisteredOn(Prefix(chain[q], i - 1)) \subseteq RegisteredOn(Prefix(chain'[p], i - 1))
    BY <2>1, ScanFollows
  <2> QED
    BY <2>1, <2>2, <2>3
<1>2. ASSUME NEW m \in msgs, Commit(p, m), StoresAt(p, i, round[p].block, VotesWith(p, m))
      PROVE  chain'[p][i].votes \subseteq RegisteredOn(Prefix(chain'[p], i - 1))
  <2>1. chain'[p][i].votes = VotesWith(p, m)
    BY <1>2 DEF StoresAt
  <2>2. VotesWith(p, m) \subseteq registered[p]
    BY <1>2 DEF Commit, Decides, Counts, VotesWith, RoundMembers
  <2>3. registered[p] \subseteq RegisteredOn(chain[p])
    BY DEF RegisteredSound
  <2>4. Within(chain[p], Prefix(chain'[p], i - 1))
    <3>1. /\ chain[p] \in Seq(Entry) /\ chain'[p] \in Seq(Entry)
          /\ DOMAIN chain[p] = 1..Len(chain[p]) /\ Len(chain[p]) \in Nat
          /\ DOMAIN chain'[p] = 1..Len(chain'[p]) /\ Len(chain'[p]) \in Nat
          /\ i = Len(chain[p]) + 1
      BY <1>2, LenProperties DEF TypeOK, StoresAt, NextIndex
    <3>2. i - 1 = Len(chain[p]) /\ i - 1 \in 0..Len(chain'[p])
      BY <3>1
    <3>3. /\ DOMAIN Prefix(chain'[p], i - 1) = 1..i - 1
          /\ \A j \in 1..i - 1 : Prefix(chain'[p], i - 1)[j] = chain'[p][j]
      BY <3>1, <3>2, PrefixProperties
    <3>4. \A j \in 1..i - 1 : chain'[p][j] = chain[p][j]
      BY <1>2 DEF StoresAt
    <3> QED
      BY <3>1, <3>2, <3>3, <3>4 DEF Within
  <2>5. RegisteredOn(chain[p]) \subseteq RegisteredOn(Prefix(chain'[p], i - 1))
    BY <2>4, ScanWithin
  <2> QED
    BY <2>1, <2>2, <2>3, <2>5
<1> QED
  BY <1>1, <1>2, StepOrigin

\* One vote decides only where nobody else is counted, and then at the authority.
LEMMA SingleVote ==
    ASSUME NEW n \in Node, TypeOK, NEW votes \in SUBSET Node, Cardinality(votes) = 1,
           HasQuorum(n, votes, ActiveCount(n))
    PROVE  n = Authority
<1>1. IsFiniteSet(peers[n] \intersect registered[n])
  BY NodeAssumption, FS_Subset DEF TypeOK
<1>2. Cardinality(peers[n] \intersect registered[n]) \in Nat
  BY <1>1, FS_CardinalityType
<1>3. ActiveCount(n) \in Nat /\ ActiveCount(n) >= 1
  BY <1>2 DEF ActiveCount
<1>4. CASE ActiveCount(n) = 1
  BY <1>4 DEF HasQuorum
<1>5. CASE ActiveCount(n) # 1
  <2>1. 1000 * 1 >= 667 * ActiveCount(n)
    BY <1>5 DEF HasQuorum
  <2> QED
    BY <1>3, <1>5, <2>1
<1> QED
  BY <1>4, <1>5

\* Every step keeps single-vote blocks those of the authority.
LEMMA StepSolo ==
    ASSUME TypeOK, TypeOK', Links, SameHistory, IdsUnique, PostsStored, SoloOnlyAuthority, [Next]_vars
    PROVE  SoloOnlyAuthority'
<1> SUFFICES ASSUME NEW p \in Node, NEW i \in DOMAIN chain'[p], Cardinality(chain'[p][i].votes) = 1
             PROVE  \E k \in DOMAIN chain'[Authority] :
                      chain'[Authority][k].block.id = chain'[p][i].block.id
  BY DEF SoloOnlyAuthority, StoredIds, Stored
<1>1. ASSUME Inherited(p, i)
      PROVE  \E k \in DOMAIN chain'[Authority] :
               chain'[Authority][k].block.id = chain'[p][i].block.id
  <2>1. PICK q \in Node : i \in DOMAIN chain[q] /\ chain'[p][i] = chain[q][i]
    BY <1>1 DEF Inherited, FollowsFrom
  <2>2. Stored(q, i) \in StoredIds(Authority)
    BY <2>1 DEF SoloOnlyAuthority
  <2>3. PICK k \in DOMAIN chain[Authority] : chain[Authority][k].block.id = chain'[p][i].block.id
    BY <2>1, <2>2 DEF StoredIds, Stored
  <2>4. k \in DOMAIN chain'[Authority] /\ chain'[Authority][k] = chain[Authority][k]
    BY <2>3, StepDurable, NodeAssumption DEF Durable
  <2> QED
    BY <2>3, <2>4
<1>2. ASSUME NEW m \in msgs, m.type = "vote", Commit(p, m),
             StoresAt(p, i, round[p].block, VotesWith(p, m))
      PROVE  p = Authority
  <2>1. VotesWith(p, m) \in SUBSET Node /\ HasQuorum(p, VotesWith(p, m), ActiveCount(p))
    BY <1>2, CountedType DEF Commit, Decides
  <2>2. chain'[p][i].votes = VotesWith(p, m)
    BY <1>2 DEF StoresAt
  <2> QED
    BY <2>1, <2>2, SingleVote
<1> QED
  BY <1>1, <1>2, StepOrigin

-----------------------------------------------------------------------------
(* The theorems                                                            *)

\* The network starts with empty chains.
LEMMA InitChains == Init => ChainsInv
<1> SUFFICES ASSUME Init
             PROVE  ChainsInv
  OBVIOUS
<1>1. \A n \in Node : DOMAIN chain[n] = {} /\ StoredTxs(chain[n]) = {}
  BY DEF Init, StoredTxs
<1>2. ~\E b : Extant(b)
  BY <1>1 DEF Init, Extant, OnChain
<1>3. IdsMade /\ IdsUnique
  BY <1>2 DEF IdsMade, IdsUnique
<1>4. Links /\ SameHistory /\ SybilCertificates /\ SoloOnlyAuthority
  BY <1>1 DEF Links, SameHistory, SybilCertificates, SoloOnlyAuthority
<1>5. DownEmpty /\ RegisteredSound /\ RoundMembers
  BY DEF Init, DownEmpty, RegisteredSound, RoundMembers
<1>6. PostsStored /\ LookedUpBefore
  BY <1>1 DEF Init, PostsStored, LookedUpBefore
<1> QED
  BY <1>3, <1>4, <1>5, <1>6 DEF ChainsInv

\* Every step keeps ChainsInv.
LEMMA StepChains == TypeOK /\ TypeOK' /\ ChainsInv /\ [Next]_vars => ChainsInv'
<1> SUFFICES ASSUME TypeOK, TypeOK', ChainsInv, [Next]_vars
             PROVE  ChainsInv'
  OBVIOUS
<1>1. IdsMade' /\ IdsUnique'
  BY StepIds DEF ChainsInv
<1>2. Links' /\ SameHistory'
  BY StepLinks, StepSameHistory DEF ChainsInv
<1>3. DownEmpty' /\ RegisteredSound' /\ RoundMembers'
  BY StepDown, StepRegistered, StepMembers DEF ChainsInv
<1>4. PostsStored' /\ LookedUpBefore'
  BY StepPosts, StepLookedUp DEF ChainsInv
<1>5. SybilCertificates' /\ SoloOnlyAuthority'
  BY StepSybil, StepSolo DEF ChainsInv
<1> QED
  BY <1>1, <1>2, <1>3, <1>4, <1>5 DEF ChainsInv

\* Whatever is lost, reordered or repeated, and whoever stops, syncs or joins, the
\* chains, caches and mempools are as ChainsInv says.
THEOREM ChainsInvariance == Spec => []ChainsInv
<1> QED
  BY InitChains, StepChains, TypeInvariant, PTL DEF Spec

\* Two nodes that store the same block at an index store the same blocks before it.
THEOREM SameHistoryInvariant == Spec => []SameHistory
<1>1. ChainsInv => SameHistory
  BY DEF ChainsInv
<1> QED
  BY <1>1, ChainsInvariance, PTL

\* Everyone who voted for a stored block was admitted in the blocks before it.
THEOREM SybilInvariant == Spec => []SybilCertificates
<1>1. ChainsInv => SybilCertificates
  BY DEF ChainsInv
<1> QED
  BY <1>1, ChainsInvariance, PTL

\* The validator cache of a node never runs ahead of its chain.
THEOREM RegisteredInvariant == Spec => []RegisteredSound
<1>1. ChainsInv => RegisteredSound
  BY DEF ChainsInv
<1> QED
  BY <1>1, ChainsInvariance, PTL

\* A block with a single vote is one the authority has stored.
THEOREM SoloInvariant == Spec => []SoloOnlyAuthority
<1>1. ChainsInv => SoloOnlyAuthority
  BY DEF ChainsInv
<1> QED
  BY <1>1, ChainsInvariance, PTL

\* At every node, with any number of requests that look a transaction up and add it
\* later, a stored paid transaction becomes pending again only by a request that had
\* looked for it before it was stored and had not added it yet.
THEOREM ReturnedOvertaken == Spec => OnlyOvertakenReturn
<1>1. /\ TypeOK /\ ChainsInv /\ [Next]_vars
      => \A n \in Node : \A t \in Returned(n)' \ Returned(n) : Overtaken(n, t)
  BY StepReturned DEF ChainsInv
<1>2. /\ TypeOK /\ ChainsInv /\ [Next]_vars
      => [\A n \in Node : \A t \in Returned(n)' \ Returned(n) : Overtaken(n, t)]_vars
  BY <1>1
<1> QED
  BY <1>2, ChainsInvariance, TypeInvariant, PTL DEF Spec, OnlyOvertakenReturn

-----------------------------------------------------------------------------
(* Agreement once the network has settled                                  *)

\* Everyone starts from the same first block, and no block has to carry fees: the
\* others would refuse a block whose fees name its proposer.
OneStart == FeeBearing = {} /\ \A n, m \in Node : Genesis[n] = Genesis[m]

\* Nobody but the leader of the next index is about to propose, and only while nothing
\* is on its way.
Elections ==
    \A n \in Node :
        job[n].stage \in {"elected", "drawn"} =>
            msgs = {} /\ Leader(NextIndex(n), ActiveNodes(n)) = n

\* The chains are the same up to b, which some of them have.
Reached(b) ==
    /\ b.index > 0
    /\ \A n \in Node :
         \/ Len(chain[n]) = b.index /\ chain[n][b.index].block = b
         \/ Len(chain[n]) = b.index - 1 /\ TipId(n) = b.prev /\ b.id \notin StoredIds(n)
    /\ \A n, m \in Node : \A i \in 1..(b.index - 1) : Stored(n, i) = Stored(m, i)

\* What m is about is b.
About(b, m) ==
    /\ m.type \in {"propose", "accepted", "new_block"} => m.block = b
    /\ m.type = "vote" => m.id = b.id

\* No other block is under way, and who has not stored it will hear that another has.
UnderWay(b) ==
    /\ \A m \in msgs : About(b, m)
    /\ \A n \in Node : round[n] # NoRound /\ round[n].block.id = b.id => round[n].block = b
    /\ \A n, m \in Node :
         Len(chain[n]) = b.index - 1 /\ Len(chain[m]) = b.index =>
            \E p \in msgs : p.type = "new_block" /\ p.to = n

SettledInv == Elections /\ \E b \in Block : Reached(b) /\ UnderWay(b)

\* What a block in the way of the invariant gives of the chains.
LEMMA ReachedChains ==
    ASSUME TypeOK, NEW b \in Block, Reached(b)
    PROVE  /\ b.index \in Nat \ {0} /\ b.index - 1 \in Nat
           /\ \A n \in Node : /\ chain[n] \in Seq(Entry) /\ DOMAIN chain[n] = 1..Len(chain[n])
                              /\ Len(chain[n]) \in {b.index - 1, b.index}
<1>1. b.index \in Nat
  BY DEF Block
<1>2. \A n \in Node : chain[n] \in Seq(Entry)
  BY DEF TypeOK
<1>3. \A n \in Node : DOMAIN chain[n] = 1..Len(chain[n])
  BY <1>2, LenProperties
<1> QED
  BY <1>1, <1>2, <1>3 DEF Reached

\* When nothing is on its way the chains hold the same blocks.
LEMMA SettledChains ==
    ASSUME TypeOK, NEW b \in Block, Reached(b), UnderWay(b), msgs = {},
           NEW n \in Node, NEW m \in Node
    PROVE  /\ Len(chain[n]) = Len(chain[m])
           /\ \A i \in 1..Len(chain[n]) : Stored(n, i) = Stored(m, i)
<1>1. /\ b.index \in Nat \ {0} /\ b.index - 1 \in Nat
      /\ Len(chain[n]) \in {b.index - 1, b.index} /\ Len(chain[m]) \in {b.index - 1, b.index}
  BY ReachedChains
<1>2. Len(chain[n]) = Len(chain[m])
  BY <1>1 DEF UnderWay
<1>3. \A i \in 1..(b.index - 1) : Stored(n, i) = Stored(m, i)
  BY DEF Reached
<1>4. CASE Len(chain[n]) = b.index - 1
  BY <1>2, <1>3, <1>4
<1>5. CASE Len(chain[n]) = b.index
  <2>0. b.index # b.index - 1
    BY <1>1
  <2>1. chain[n][b.index].block = b /\ chain[m][b.index].block = b
    BY <1>2, <1>5, <2>0 DEF Reached
  <2>2. \A i \in 1..b.index : i = b.index \/ i \in 1..(b.index - 1)
    BY <1>1
  <2> QED BY <1>2, <1>3, <1>5, <2>1, <2>2 DEF Stored
<1> QED
  BY <1>1, <1>2, <1>4, <1>5

\* A step that stores nothing and posts of no other block.
LEMMA QuietSettled ==
    ASSUME TypeOK, NEW b \in Block, Reached(b), UnderWay(b), chain' = chain,
           \A m \in msgs' : m \in msgs \/ About(b, m),
           \A m \in msgs : m.type = "new_block" => m \in msgs',
           \A n \in Node : round'[n] = round[n] \/ round'[n].block = b
                             \/ (round[n] # NoRound /\ round'[n].block = round[n].block)
    PROVE  Reached(b)' /\ UnderWay(b)'
<1>1. Reached(b)'
  BY DEF Reached, TipId, StoredIds, Stored
<1>2. UnderWay(b)'
  BY DEF UnderWay, About
<1> QED
  BY <1>1, <1>2

\* A node that stores b has the chain of those that have it.
LEMMA StoreSettled ==
    ASSUME TypeOK, NEW b \in Block, Reached(b), NEW n \in Node, NEW v \in SUBSET Node,
           AddBlock(n, b, v), Len(chain[n]) = b.index - 1
    PROVE  /\ Reached(b)'
           /\ Len(chain'[n]) = b.index
           /\ \A p \in Node : p # n => chain'[p] = chain[p]
<1>0. [block |-> b, votes |-> v] \in Entry
  BY DEF Entry
<1> DEFINE e == [block |-> b, votes |-> v]
           c == chain[n]
<1>1. /\ b.index \in Nat \ {0} /\ b.index - 1 \in Nat /\ c \in Seq(Entry) /\ e \in Entry
      /\ e.block = b
  BY <1>0, ReachedChains
<1>2. chain' = [chain EXCEPT ![n] = Append(c, e)]
  BY DEF AddBlock
<1> HIDE DEF e
<1>3. chain'[n] = Append(c, e) /\ \A p \in Node : p # n => chain'[p] = chain[p]
  <2> HIDE DEF c
  <2> QED BY <1>2 DEF TypeOK
<1>4. /\ Len(chain'[n]) = b.index /\ chain'[n][b.index] = e
      /\ \A i \in 1..(b.index - 1) : chain'[n][i] = chain[n][i]
  <2>1. Len(c) = b.index - 1
    OBVIOUS
  <2> HIDE DEF c
  <2>2. /\ Len(Append(c, e)) = Len(c) + 1 /\ Append(c, e)[Len(c) + 1] = e
        /\ \A i \in 1..Len(c) : Append(c, e)[i] = c[i]
    BY <1>1, AppendProperties
  <2>3. Len(c) + 1 = b.index
    BY <1>1, <2>1
  <2>4. chain'[n] = Append(c, e)
    BY <1>3
  <2>5. \A i \in 1..(b.index - 1) : chain'[n][i] = c[i]
    BY <2>1, <2>2, <2>4
  <2> QED BY <2>2, <2>3, <2>4, <2>5 DEF c
<1> HIDE DEF c
<1>5. \A p \in Node : \A i \in 1..(b.index - 1) : Stored(p, i)' = Stored(p, i)
  <2> TAKE p \in Node
  <2>1. CASE p = n
    BY <1>4, <2>1 DEF Stored
  <2>2. CASE p # n
    BY <1>3, <2>2 DEF Stored
  <2> QED BY <2>1, <2>2
<1>6. ASSUME NEW p \in Node
      PROVE  \/ Len(chain'[p]) = b.index /\ chain'[p][b.index].block = b
             \/ Len(chain'[p]) = b.index - 1 /\ TipId(p)' = b.prev /\ b.id \notin StoredIds(p)'
  <2>1. CASE p = n
    BY <1>1, <1>4, <2>1
  <2>2. CASE p # n
    <3>1. chain'[p] = chain[p]
      BY <1>3, <2>2
    <3>2. TipId(p)' = TipId(p) /\ StoredIds(p)' = StoredIds(p)
      BY <3>1 DEF TipId, StoredIds
    <3> QED BY <3>1, <3>2 DEF Reached
  <2> QED BY <2>1, <2>2
<1>7. Reached(b)'
  <2>1. \A p, q \in Node : \A i \in 1..(b.index - 1) : Stored(p, i)' = Stored(q, i)'
    BY <1>5 DEF Reached
  <2> QED BY <1>1, <1>6, <2>1 DEF Reached
<1> QED
  BY <1>3, <1>4, <1>7

\* The decision on b: the node stores it and tells everyone.
LEMMA CommitSettled ==
    ASSUME TypeOK, QuorumInv, NEW b \in Block, Reached(b), UnderWay(b),
           NEW n \in Node, NEW m \in msgs, Commit(n, m)
    PROVE  Reached(b)' /\ UnderWay(b)'
<1> DEFINE v == VotesWith(n, m)
<1>1. m.type = "vote" /\ Counts(n, m) /\ round[n] # NoRound /\ m.id = round[n].block.id
  BY DEF Commit, Decides, Counts
<1>2. round[n].block = b
  BY <1>1 DEF UnderWay, About
<1>3. v \in SUBSET Node
  BY <1>1, CountedType
<1>4. /\ Valid(n, b) /\ AddBlock(n, b, v)
      /\ msgs' = (msgs \ {m}) \union Finalised(n, b, v)
      /\ round' = [round EXCEPT ![n] = Decided(n, m)]
  BY <1>2 DEF Commit, Replace
<1> HIDE DEF v
<1>5. Len(chain[n]) = b.index - 1 /\ b.index \in Nat \ {0}
  BY <1>4, ReachedChains DEF Valid, NextIndex
<1>6. /\ Reached(b)' /\ Len(chain'[n]) = b.index
      /\ \A p \in Node : p # n => chain'[p] = chain[p]
  BY <1>3, <1>4, <1>5, StoreSettled
<1>7. Reach(n) = Node \ {n}
  BY DEF Reach, QuorumInv, MembershipFixed
<1>8. \A p \in msgs' : About(b, p)
  <2>1. \A p \in Finalised(n, b, v) : About(b, p)
    BY DEF Finalised, About
  <2> QED BY <1>4, <2>1 DEF UnderWay
<1>9. \A p \in Node : round'[p] # NoRound /\ round'[p].block.id = b.id => round'[p].block = b
  <2> TAKE p \in Node
  <2>1. CASE p = n
    <3>1. round'[n].block = round[n].block
      <4>1. round'[n] = Decided(n, m)
        BY <1>4 DEF TypeOK
      <4> QED BY <1>1, <4>1, CountedType DEF Decided, Round
    <3> QED BY <1>2, <2>1, <3>1
  <2>2. CASE p # n
    <3>1. round'[p] = round[p]
      BY <1>4, <2>2 DEF TypeOK
    <3> QED BY <3>1 DEF UnderWay
  <2> QED BY <2>1, <2>2
<1>10. ASSUME NEW p \in Node, Len(chain'[p]) = b.index - 1
       PROVE  \E q \in msgs' : q.type = "new_block" /\ q.to = p
  <2>1. p # n
    BY <1>5, <1>6, <1>10
  <2> DEFINE q == [type |-> "new_block", to |-> p, block |-> b, votes |-> v]
  <2>2. q \in Finalised(n, b, v)
    BY <1>7, <2>1 DEF Finalised
  <2>3. q \in msgs' /\ q.type = "new_block" /\ q.to = p
    BY <1>4, <2>2
  <2> QED BY <2>3
<1> QED
  BY <1>6, <1>8, <1>9, <1>10 DEF UnderWay, About

\* A posted block is stored wherever it is missing.
LEMMA ReceiveSettled ==
    ASSUME TypeOK, ChainsInv, OneStart, NEW b \in Block, Reached(b), UnderWay(b),
           NEW n \in Node, NEW m \in msgs, m.to = n, OnNewBlock(n, m)
    PROVE  Reached(b)' /\ UnderWay(b)'
<1>1. m.type = "new_block" /\ m.block = b /\ m.votes \in SUBSET Node
      /\ msgs' = msgs \ {m} /\ round' = round
  BY MessageKinds DEF OnNewBlock, UnderWay, About, Replace, TypeOK
<1>2. b.index \in Nat \ {0} /\ b.index # b.index - 1
  BY ReachedChains
<1>3. \A p \in msgs' : About(b, p)
  BY <1>1 DEF UnderWay
<1>4. \A p \in Node : round'[p] # NoRound /\ round'[p].block.id = b.id => round'[p].block = b
  BY <1>1 DEF UnderWay
<1>5. PICK q \in Node : Len(chain[q]) = b.index
  <2>1. PICK q \in Node : \E i \in DOMAIN chain[q] : chain[q][i] = [block |-> b, votes |-> m.votes]
    BY <1>1 DEF ChainsInv, PostsStored
  <2>2. PICK i \in DOMAIN chain[q] : chain[q][i].block = b
    BY <2>1
  <2>3. i = b.index
    BY <2>2 DEF ChainsInv, Links
  <2>4. b.index <= Len(chain[q]) /\ Len(chain[q]) \in {b.index - 1, b.index}
    BY <2>3, ReachedChains
  <2>5. Len(chain[q]) = b.index
    BY <1>2, <2>4
  <2> QED BY <2>5
<1>6. ASSUME NEW p \in Node, p # n, Len(chain[p]) = b.index - 1
      PROVE  \E x \in msgs' : x.type = "new_block" /\ x.to = p
  <2>1. PICK x \in msgs : x.type = "new_block" /\ x.to = p
    BY <1>5, <1>6 DEF UnderWay
  <2> QED BY <1>1, <1>6, <2>1
<1>7. CASE Len(chain[n]) = b.index - 1
  <2>1. TipId(n) = b.prev /\ b.id \notin StoredIds(n)
    BY <1>2, <1>7 DEF Reached
  <2>2. Valid(n, b) /\ FeesValid(n, b)
    <3>1. NextIndex(n) = b.index
      BY <1>2, <1>7 DEF NextIndex
    <3> QED BY <2>1, <3>1 DEF Valid, FeesValid, OneStart
  <2>3. AddBlock(n, b, m.votes)
    BY <1>1, <2>1, <2>2 DEF OnNewBlock
  <2>4. /\ Reached(b)' /\ Len(chain'[n]) = b.index
        /\ \A p \in Node : p # n => chain'[p] = chain[p]
    BY <1>1, <1>7, <2>3, StoreSettled
  <2>5. ASSUME NEW p \in Node, Len(chain'[p]) = b.index - 1
        PROVE  \E x \in msgs' : x.type = "new_block" /\ x.to = p
    <3>1. p # n
      BY <1>2, <2>4, <2>5
    <3>2. Len(chain[p]) = b.index - 1
      BY <2>4, <2>5, <3>1
    <3> QED BY <1>6, <3>1, <3>2
  <2> QED BY <1>3, <1>4, <2>4, <2>5 DEF UnderWay, About
<1>8. CASE Len(chain[n]) = b.index
  <2>1. chain[n][b.index].block = b /\ b.index \in DOMAIN chain[n]
    <3>1. DOMAIN chain[n] = 1..Len(chain[n])
      BY ReachedChains
    <3> QED BY <1>2, <1>8, <3>1 DEF Reached
  <2>2. b.id \in StoredIds(n)
    BY <2>1 DEF StoredIds
  <2>3. chain' = chain
    BY <1>1, <2>2 DEF OnNewBlock
  <2>4. Reached(b)'
    BY <2>3 DEF Reached, TipId, StoredIds, Stored
  <2>5. ASSUME NEW p \in Node, Len(chain'[p]) = b.index - 1
        PROVE  \E x \in msgs' : x.type = "new_block" /\ x.to = p
    BY <1>2, <1>6, <1>8, <2>3, <2>5
  <2> QED BY <1>3, <1>4, <2>4, <2>5 DEF UnderWay, About
<1> QED
  BY <1>7, <1>8, ReachedChains

\* Whatever a node handles, b stays the only block under way.
LEMMA HandleSettled ==
    ASSUME TypeOK, QuorumInv, ChainsInv, OneStart, NEW b \in Block, Reached(b), UnderWay(b),
           NEW n \in Node, Handle(n)
    PROVE  Reached(b)' /\ UnderWay(b)'
<1>1. PICK m \in msgs : /\ m.to = n
                        /\ \/ Requests(n, m) \/ OnPropose(n, m) \/ PrepareAndVote(n, m)
                           \/ IgnoreVote(n, m) \/ AddVote(n, m) \/ Commit(n, m)
                           \/ CommitFails(n, m) \/ OnNewBlock(n, m)
  BY DEF Handle, Requests
<1>2. About(b, m)
  BY DEF UnderWay
<1>3. CASE Requests(n, m)
  <2>1. /\ UNCHANGED <<chain, round>>
        /\ \A p \in msgs' : p \in msgs \/ p.type \in {"tx", "checked"}
    BY <1>3, RequestEffect DEF Requests
  <2>2. \A p \in msgs : p.type = "new_block" => p \in msgs'
    BY <1>3 DEF Requests, OnTransaction, AddTransaction, AddRefused, Replace
  <2>3. \A p \in msgs' : p \in msgs \/ About(b, p)
    BY <2>1 DEF About
  <2> QED BY <2>1, <2>2, <2>3, QuietSettled
<1>4. CASE OnPropose(n, m)
  <2>1. /\ \A p \in msgs' : p \in msgs \/ About(b, p)
        /\ \A p \in msgs : p.type = "new_block" => p \in msgs'
    BY <1>2, <1>4 DEF OnPropose, Replace, About
  <2>2. chain' = chain /\ round' = round
    BY <1>4 DEF OnPropose
  <2> QED BY <2>1, <2>2, QuietSettled
<1>5. CASE PrepareAndVote(n, m)
  <2>1. m.block = b /\ m.type = "accepted"
    BY <1>2, <1>5 DEF PrepareAndVote, About
  <2>2. \A p \in Vote(n, b) : About(b, p)
    BY DEF Vote, About
  <2>3. /\ \A p \in msgs' : p \in msgs \/ About(b, p)
        /\ \A p \in msgs : p.type = "new_block" => p \in msgs'
    BY <1>5, <2>1, <2>2 DEF PrepareAndVote, Replace
  <2>4. chain' = chain /\ round' = [round EXCEPT ![n] = NewRound(b)]
    BY <1>5, <2>1 DEF PrepareAndVote
  <2>5. \A p \in Node : round'[p] = round[p] \/ round'[p].block = b
    BY <2>4 DEF TypeOK, NewRound
  <2> QED BY <2>3, <2>4, <2>5, QuietSettled
<1>6. CASE IgnoreVote(n, m)
  <2>1. /\ \A p \in msgs' : p \in msgs
        /\ \A p \in msgs : p.type = "new_block" => p \in msgs'
        /\ chain' = chain /\ round' = round
    BY <1>6 DEF IgnoreVote, Replace
  <2> QED BY <2>1, QuietSettled
<1>7. CASE AddVote(n, m) \/ CommitFails(n, m)
  <2>1. /\ m.type = "vote" /\ Counts(n, m)
        /\ \A p \in msgs' : p \in msgs
        /\ \A p \in msgs : p.type = "new_block" => p \in msgs'
        /\ chain' = chain
    BY <1>7 DEF AddVote, CommitFails, Decides, Replace
  <2>2. round[n] # NoRound /\ round[n] \in Round
    BY <2>1, CountedType DEF Counts
  <2>3. \A p \in Node : \/ round'[p] = round[p]
                        \/ round[p] # NoRound /\ round'[p].block = round[p].block
    <3> DEFINE r == [round[n] EXCEPT !.votes = VotesWith(n, m)]
    <3>1. r.block = round[n].block /\ Decided(n, m).block = round[n].block
      BY <2>2 DEF Decided, Round
    <3>2. \/ round' = [round EXCEPT ![n] = r]
          \/ round' = [round EXCEPT ![n] = Decided(n, m)]
      BY <1>7 DEF AddVote, CommitFails
    <3> HIDE DEF r
    <3>3. round'[n].block = round[n].block /\ \A p \in Node : p # n => round'[p] = round[p]
      BY <3>1, <3>2 DEF TypeOK
    <3> QED BY <2>2, <3>3
  <2> QED BY <2>1, <2>3, QuietSettled
<1>8. CASE Commit(n, m)
  BY <1>8, CommitSettled
<1>9. CASE OnNewBlock(n, m)
  BY <1>1, <1>9, ReceiveSettled
<1> QED
  BY <1>1, <1>3, <1>4, <1>5, <1>6, <1>7, <1>8, <1>9

\* The one leader of the next index proposes on the chain that all nodes share.
LEMMA ProposeSettled ==
    ASSUME TypeOK, QuorumInv, ChainsInv, OneStart, SettledInv, NEW n \in Node, Propose(n)
    PROVE  SettledInv'
<1>1. PICK b \in Block : Reached(b) /\ UnderWay(b)
  BY DEF SettledInv
<1>2. msgs = {} /\ Leader(NextIndex(n), ActiveNodes(n)) = n
  BY DEF Propose, SettledInv, Elections
<1>3. PICK l \in Nat : l = Len(chain[n])
  BY ReachedChains, <1>1, LenProperties
<1>4. PICK new \in Block : new = CreateBlock(n)
  BY CreateBlockType
<1>5. new \in Block /\ new.id = <<n, made[n] + 1>> /\ new.index = l + 1 /\ new.prev = TipId(n)
  BY <1>3, <1>4 DEF CreateBlock, NextIndex
<1>6. /\ chain' = chain /\ made[n] \in Nat
      /\ round' = [round EXCEPT ![n] = NewRound(new)]
      /\ msgs' = Proposal(n, new) \union Vote(n, new)
      /\ job' = [job EXCEPT ![n] = [stage |-> "voting", txs |-> {}]]
      /\ UNCHANGED <<peers, registered>>
  BY <1>2, <1>4 DEF Propose, TypeOK
<1>7. \A p \in Node : /\ Len(chain[p]) = l
                      /\ \A q \in Node : \A i \in 1..l : Stored(p, i) = Stored(q, i)
  BY <1>1, <1>2, <1>3, SettledChains
<1>8. ASSUME NEW a \in Block, Extant(a) PROVE a.id # new.id
  <2>1. a.id[2] <= made[a.id[1]]
    BY <1>8 DEF ChainsInv, IdsMade
  <2>2. a.id = new.id => a.id[1] = n /\ a.id[2] = made[n] + 1
    BY <1>5
  <2> QED BY <1>6, <2>1, <2>2
<1>9. ASSUME NEW p \in Node
      PROVE  TipId(p) = new.prev /\ new.id \notin StoredIds(p)
  <2>1. TipId(p) = TipId(n)
    <3>1. chain[p] = <<>> <=> l = 0
      BY <1>7, EmptySeq, LenProperties DEF TypeOK
    <3>2. chain[n] = <<>> <=> l = 0
      BY <1>7, EmptySeq, LenProperties DEF TypeOK
    <3>3. CASE l = 0
      BY <3>1, <3>2, <3>3 DEF TipId, LastId, OneStart
    <3>4. CASE l # 0
      <4>1. l \in 1..l
        BY <1>3, <3>4
      <4> QED BY <1>7, <3>1, <3>2, <3>4, <4>1 DEF TipId, LastId, Stored
    <3> QED BY <3>3, <3>4
  <2>2. \A i \in DOMAIN chain[p] : chain[p][i].block.id # new.id
    <3> TAKE i \in DOMAIN chain[p]
    <3>1. Extant(chain[p][i].block)
      BY StoredExtant
    <3>2. chain[p][i].block \in Block
      BY EntryType
    <3> QED BY <1>8, <3>1, <3>2
  <2> QED BY <1>5, <2>1, <2>2 DEF StoredIds
<1>10. Reached(new)'
  <2>1. \A p \in Node : TipId(p)' = TipId(p) /\ StoredIds(p)' = StoredIds(p)
    BY <1>6 DEF TipId, StoredIds
  <2>2. new.index > 0 /\ new.index - 1 = l
    BY <1>5, <1>3
  <2>3. \A p, q \in Node : \A i \in 1..l : Stored(p, i)' = Stored(q, i)'
    BY <1>6, <1>7 DEF Stored
  <2> QED BY <1>6, <1>7, <1>9, <2>1, <2>2, <2>3 DEF Reached
<1>11. UnderWay(new)'
  <2>1. \A m \in msgs' : About(new, m)
    BY <1>6 DEF Proposal, Vote, About
  <2>2. ASSUME NEW p \in Node, round'[p] # NoRound, round'[p].block.id = new.id
        PROVE  round'[p].block = new
    <3>1. CASE p = n
      BY <1>6, <3>1 DEF TypeOK, NewRound
    <3>2. CASE p # n
      <4>1. round'[p] = round[p]
        BY <1>6, <3>2 DEF TypeOK
      <4>2. round[p].block \in Block
        BY <2>2, <4>1 DEF TypeOK, Round
      <4>3. Extant(round[p].block)
        BY <2>2, <4>1 DEF Extant
      <4> QED BY <1>8, <2>2, <4>1, <4>2, <4>3
    <3> QED BY <3>1, <3>2
  <2>3. \A p \in Node : Len(chain'[p]) # new.index
    BY <1>5, <1>6, <1>3, <1>7
  <2> QED BY <2>1, <2>2, <2>3 DEF UnderWay, About
<1>12. Elections'
  <2> SUFFICES ASSUME NEW p \in Node, job'[p].stage \in {"elected", "drawn"} PROVE FALSE
    BY DEF Elections
  <2>1. p # n
    BY <1>6 DEF TypeOK
  <2>2. job'[p] = job[p]
    BY <1>6, <2>1 DEF TypeOK
  <2>3. Leader(NextIndex(p), ActiveNodes(p)) = p
    BY <2>2 DEF SettledInv, Elections
  <2>4. NextIndex(p) = NextIndex(n)
    BY <1>7 DEF NextIndex
  <2>5. ActiveNodes(p) = Node /\ ActiveNodes(n) = Node
    BY DEF ActiveNodes, QuorumInv, MembershipFixed
  <2> QED BY <1>2, <2>1, <2>3, <2>4, <2>5
<1> QED
  BY <1>5, <1>10, <1>11, <1>12 DEF SettledInv

\* Every timely step keeps the invariant.
LEMMA StepSettled ==
    ASSUME FixedMembership, OneStart
    PROVE  TypeOK /\ QuorumInv /\ ChainsInv /\ SettledInv /\ [TimelyNext]_vars => SettledInv'
<1> SUFFICES ASSUME TypeOK, QuorumInv, ChainsInv, SettledInv, [TimelyNext]_vars
             PROVE  SettledInv'
  OBVIOUS
<1>1. ASSUME chain' = chain, round' = round, msgs' = msgs
      PROVE  \E b \in Block : Reached(b)' /\ UnderWay(b)'
  <2>1. PICK b \in Block : Reached(b) /\ UnderWay(b)
    BY DEF SettledInv
  <2>2. Reached(b)' /\ UnderWay(b)'
    BY <1>1, <2>1, QuietSettled
  <2> QED BY <2>2
<1>2. ASSUME NEW n \in Node, TimelyRound(n) PROVE SettledInv'
  <2>1. /\ msgs = {} /\ Leader(NextIndex(n), ActiveNodes(n)) = n
        /\ job' = [job EXCEPT ![n] = [stage |-> "elected", txs |-> {}]]
        /\ UNCHANGED <<chain, round, msgs, peers, registered>>
    BY <1>2 DEF TimelyRound, RunRound
  <2>2. Elections'
    <3> SUFFICES ASSUME NEW p \in Node, job'[p].stage \in {"elected", "drawn"}
                 PROVE  msgs' = {} /\ (Leader(NextIndex(p), ActiveNodes(p)) = p)'
      BY DEF Elections
    <3>1. Leader(NextIndex(p), ActiveNodes(p)) = p
      <4>1. CASE p = n
        BY <2>1, <4>1
      <4>2. CASE p # n
        <5>1. job'[p] = job[p]
          BY <2>1, <4>2 DEF TypeOK
        <5> QED BY <5>1 DEF SettledInv, Elections
      <4> QED BY <4>1, <4>2
    <3> QED BY <2>1, <3>1 DEF Leader, NextIndex, ActiveNodes
  <2> QED BY <1>1, <2>1, <2>2 DEF SettledInv
<1>3. ASSUME NEW n \in Node, GetPending(n) PROVE SettledInv'
  <2>1. /\ job[n].stage = "elected" /\ UNCHANGED <<chain, round, msgs, peers, registered>>
        /\ \A p \in Node : p # n => job'[p] = job[p]
    BY <1>3 DEF GetPending, TypeOK
  <2>2. Elections'
    <3> SUFFICES ASSUME NEW p \in Node, job'[p].stage \in {"elected", "drawn"}
                 PROVE  msgs' = {} /\ (Leader(NextIndex(p), ActiveNodes(p)) = p)'
      BY DEF Elections
    <3>1. job[p].stage \in {"elected", "drawn"}
      BY <2>1
    <3>2. msgs = {} /\ Leader(NextIndex(p), ActiveNodes(p)) = p
      BY <3>1 DEF SettledInv, Elections
    <3> QED BY <2>1, <3>2 DEF Leader, NextIndex, ActiveNodes
  <2> QED BY <1>1, <2>1, <2>2 DEF SettledInv
<1>4. ASSUME NEW n \in Node, Propose(n) PROVE SettledInv'
  BY <1>4, ProposeSettled
<1>5. ASSUME NEW n \in Node, Handle(n) PROVE SettledInv'
  <2>1. PICK b \in Block : Reached(b) /\ UnderWay(b)
    BY DEF SettledInv
  <2>2. Reached(b)' /\ UnderWay(b)'
    BY <1>5, <2>1, HandleSettled
  <2>3. msgs # {}
    BY <1>5 DEF Handle
  <2>4. \A p \in Node : job'[p] = job[p] \/ job'[p] = Idle
    BY <1>5 DEF Handle, OnTransaction, AddTransaction, AddRefused, OnPropose, PrepareAndVote, IgnoreVote, AddVote, Commit,
                CommitFails, OnNewBlock, Return, TypeOK
  <2>5. Elections'
    BY <2>3, <2>4 DEF SettledInv, Elections, Idle
  <2> QED BY <2>2, <2>5 DEF SettledInv
<1>6. CASE UNCHANGED vars
  <2>1. Elections'
    BY <1>6 DEF SettledInv, Elections, Leader, NextIndex, ActiveNodes, vars
  <2> QED BY <1>1, <1>6, <2>1 DEF SettledInv, vars
<1> QED
  BY <1>2, <1>3, <1>4, <1>5, <1>6 DEF TimelyNext, TimelyStep

\* The network starts settled.
LEMMA InitSettled ==
    ASSUME OneStart, Init
    PROVE  SettledInv
<1> DEFINE b == [id |-> <<Authority, 0>>, index |-> 1, prev |-> <<Genesis[Authority], 0>>,
                 proposer |-> Authority, txs |-> {}]
<1>1. b \in Block /\ b.index = 1 /\ b.prev = <<Genesis[Authority], 0>>
  BY NodeAssumption DEF Block, BlockId
<1> HIDE DEF b
<1>2. \A n \in Node : Len(chain[n]) = 0 /\ chain[n] = <<>> /\ round[n] = NoRound
  BY EmptySeq DEF Init
<1>3. \A n \in Node : TipId(n) = b.prev /\ StoredIds(n) = {}
  <2>1. \A n \in Node : LastId(n, chain[n]) = <<Genesis[Authority], 0>>
    BY <1>2, NodeAssumption DEF LastId, OneStart
  <2>2. \A n \in Node : DOMAIN chain[n] = {}
    BY <1>2
  <2> QED
    BY <1>1, <2>1, <2>2 DEF TipId, StoredIds
<1>4. Reached(b)
  BY <1>1, <1>2, <1>3 DEF Reached
<1>5. UnderWay(b)
  BY <1>1, <1>2 DEF Init, UnderWay, About
<1>6. Elections
  BY DEF Init, Elections, Idle
<1> QED
  BY <1>1, <1>4, <1>5, <1>6 DEF SettledInv

\* With a fixed membership of any size and a network that delivers before the next turn,
\* in whatever order, the nodes store the same chain whenever nothing is on its way: no
\* block is stored by some and missed by others (_commit, /peer/new_block).
THEOREM SettledChainsAgree ==
    ASSUME FixedMembership, OneStart
    PROVE  TimelySpec => []SettledAgreement
<1> DEFINE Inv == TypeOK /\ QuorumInv /\ ChainsInv /\ SettledInv
<1>1. Init => Inv
  BY InitType, InitDecided, InitChains, InitSettled
<1>2. Inv /\ [TimelyNext]_vars => Inv'
  <2> SUFFICES ASSUME Inv, [TimelyNext]_vars PROVE Inv'
    OBVIOUS
  <2>1. [Next]_vars
    BY DEF TimelyNext, TimelyStep, TimelyRound, Next, Step
  <2>2. TypeOK' /\ QuorumInv'
    BY <2>1, StepType, StepDecided
  <2>3. ChainsInv'
    BY <2>1, <2>2, StepChains
  <2>4. SettledInv'
    BY StepSettled
  <2> QED BY <2>2, <2>3, <2>4
<1>3. Inv => SettledAgreement
  <2> SUFFICES ASSUME TypeOK, SettledInv, msgs = {}, NEW n \in up, NEW m \in up
               PROVE  [i \in DOMAIN chain[n] |-> Stored(n, i)]
                        = [i \in DOMAIN chain[m] |-> Stored(m, i)]
    BY DEF SettledAgreement
  <2>1. n \in Node /\ m \in Node
    BY DEF TypeOK
  <2>2. PICK b \in Block : Reached(b) /\ UnderWay(b)
    BY DEF SettledInv
  <2>3. /\ Len(chain[n]) = Len(chain[m])
        /\ \A i \in 1..Len(chain[n]) : Stored(n, i) = Stored(m, i)
    BY <2>1, <2>2, SettledChains
  <2>4. DOMAIN chain[n] = 1..Len(chain[n]) /\ DOMAIN chain[m] = 1..Len(chain[m])
    BY <2>1, <2>2, ReachedChains
  <2> QED BY <2>3, <2>4
<1> QED
  BY <1>1, <1>2, <1>3, PTL DEF TimelySpec
================================================================================
