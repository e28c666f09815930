---------------------------- MODULE NVFBFT_proofs ----------------------------
(***************************************************************************)
(* Theorems about NVFBFT, for every value of its constants.                *)
(***************************************************************************)
EXTENDS NVFBFT, TLAPS, FiniteSetTheorems, SequenceTheorems

-----------------------------------------------------------------------------
(* What the operators of NVFBFT return                                     *)

\* The hash of the tip of a chain is the identity of some block.
LEMMA LastIdType ==
    ASSUME NEW n \in Node, NEW c \in Seq(Entry)
    PROVE  LastId(n, c) \in BlockId
<1>1. CASE c = <<>>
  BY <1>1, NodeAssumption DEF LastId, BlockId
<1>2. CASE c # <<>>
  <2>1. Len(c) \in 1..Len(c)
    BY <1>2, EmptySeq, LenProperties
  <2>2. c[Len(c)] \in Entry
    BY <2>1, ElementOfSeq
  <2> QED
    BY <1>2, <2>2 DEF LastId, Entry, Block
<1> QED
  BY <1>1, <1>2

\* A set of transactions admits wallets only.
LEMMA AdmittedType ==
    ASSUME NEW txs \in SUBSET Tx
    PROVE  Admitted(txs) \subseteq Node
BY TxAssumption DEF Admitted

\* The transactions of a chain are transactions, and what a scan of it finds
\* are wallets.
LEMMA RegisteredOnType ==
    ASSUME NEW c \in Seq(Entry)
    PROVE  StoredTxs(c) \subseteq Tx /\ RegisteredOn(c) \subseteq Node
<1>1. \A i \in DOMAIN c : c[i] \in Entry
  BY ElementOfSeq, LenProperties
<1>2. StoredTxs(c) \subseteq Tx
  BY <1>1 DEF StoredTxs, Entry, Block
<1> QED
  BY <1>2, AdmittedType, NodeAssumption DEF RegisteredOn

\* Growing a chain keeps its blocks and adds those of the other chain.
LEMMA GrownProperties ==
    ASSUME NEW c \in Seq(Entry), NEW d \in Seq(Entry), Len(d) > Len(c)
    PROVE  /\ Grown(c, d) \in Seq(Entry)
           /\ Len(Grown(c, d)) = Len(d)
           /\ \A i \in 1..Len(c) : Grown(c, d)[i] = c[i]
           /\ \A i \in Len(c)+1..Len(d) : Grown(c, d)[i] = d[i]
<1> DEFINE s == SubSeq(d, Len(c) + 1, Len(d))
<1>1. Len(c) \in Nat /\ Len(d) \in Nat
  BY LenProperties
<1>2. \A i \in Len(c)+1..Len(d) : d[i] \in Entry
  BY <1>1, ElementOfSeq
<1>3. /\ s \in Seq(Entry)
      /\ Len(s) = Len(d) - Len(c)
      /\ \A i \in 1..Len(d) - Len(c) : s[i] = d[Len(c) + i]
  BY <1>1, <1>2, SubSeqProperties
<1> HIDE DEF s
<1>4. /\ c \o s \in Seq(Entry)
      /\ Len(c \o s) = Len(d)
      /\ \A i \in 1..Len(d) : (c \o s)[i] = IF i <= Len(c) THEN c[i] ELSE s[i - Len(c)]
  BY <1>1, <1>3, ConcatProperties
<1>5. \A i \in Len(c)+1..Len(d) : s[i - Len(c)] = d[i]
  BY <1>1, <1>3
<1> QED
  BY <1>1, <1>4, <1>5 DEF Grown, s

\* What sync leaves at a node is the chain it found there, or that chain grown
\* by one of the chains that answered and link to it.
LEMMA SyncedCases ==
    ASSUME NEW n \in Node, NEW answering \in SUBSET Node, NEW c \in Synced(n, answering)
    PROVE  \/ c = chain[n]
           \/ \E q \in answering :
                /\ Extends(n, chain[q], chain[n])
                /\ c = Grown(chain[n], chain[q])
BY DEF Synced

\* The kind of a message tells its fields.
LEMMA MessageKinds ==
    ASSUME NEW m \in Message
    PROVE  /\ m.to \in Node
           /\ m.type \in {"tx", "checked"} => m.from \in Node /\ m.tx \in Tx
           /\ m.type = "propose" => m.from \in Node /\ m.block \in Block
           /\ m.type = "accepted" => m.block \in Block
           /\ m.type = "vote" => m.from \in Node /\ m.id \in BlockId
           /\ m.type = "new_block" => m.block \in Block /\ m.votes \in SUBSET Node
BY DEF Message

\* What a node posts are messages.
LEMMA PostTypes ==
    ASSUME TypeOK, NEW n \in Node
    PROVE  /\ \A t \in Tx : Gossip(n, t) \subseteq Message
           /\ \A b \in Block : Proposal(n, b) \subseteq Message
           /\ \A b \in Block : Vote(n, b) \subseteq Message
           /\ \A b \in Block : \A v \in SUBSET Node : Finalised(n, b, v) \subseteq Message
           /\ \A b \in Block : [type: {"accepted"}, to: {n}, block: {b}] \subseteq Message
<1>1. Reach(n) \subseteq Node
  BY DEF TypeOK, Reach
<1>2. \A t \in Tx : Gossip(n, t) \subseteq Message
  BY <1>1 DEF Gossip, Message
<1>3. \A b \in Block : Proposal(n, b) \subseteq Message
  BY <1>1 DEF Proposal, Message
<1>4. \A b \in Block : Vote(n, b) \subseteq Message
  BY <1>1 DEF Vote, Message, Block
<1>5. \A b \in Block : \A v \in SUBSET Node : Finalised(n, b, v) \subseteq Message
  BY <1>1 DEF Finalised, Message
<1>6. \A b \in Block : [type: {"accepted"}, to: {n}, block: {b}] \subseteq Message
  BY DEF Message
<1> QED
  BY <1>2, <1>3, <1>4, <1>5, <1>6

\* The block a node creates is a block.
LEMMA CreateBlockType ==
    ASSUME TypeOK, NEW n \in Node
    PROVE  CreateBlock(n) \in Block
<1>1. /\ chain[n] \in Seq(Entry) 
      /\ made[n] \in Nat 
      /\ job[n].txs \in SUBSET Tx
  BY DEF TypeOK, Job
<1>2. TipId(n) \in BlockId
  BY <1>1, LastIdType DEF TipId
<1>3. NextIndex(n) \in Nat
  BY <1>1, LenProperties DEF NextIndex
<1>4. <<n, made[n] + 1>> \in BlockId
  BY <1>1 DEF BlockId
<1> QED
  BY <1>1, <1>2, <1>3, <1>4 DEF CreateBlock, Block

-----------------------------------------------------------------------------
(* Type correctness                                                        *)

\* The network starts with values of the right types.
LEMMA InitType == Init => TypeOK
<1> SUFFICES ASSUME Init PROVE TypeOK
  OBVIOUS
<1>1. chain \in [Node -> Seq(Entry)]
  BY EmptySeq DEF Init
<1>2. registered \in [Node -> SUBSET Node]
  BY EmptySeq, RegisteredOnType DEF Init
<1>3. round \in [Node -> Round \union {NoRound}] /\ job \in [Node -> Job]
  BY DEF Init, Idle, Job
<1>4. msgs \subseteq Message
  BY TxAssumption DEF Init, Message
<1> QED
  BY <1>1, <1>2, <1>3, <1>4, NodeAssumption DEF Init, TypeOK

\* Storing a block with a set of votes.
LEMMA AddBlockType ==
    ASSUME TypeOK, NEW n \in Node, NEW b \in Block, NEW v \in SUBSET Node, AddBlock(n, b, v)
    PROVE  chain' \in [Node -> Seq(Entry)] /\ mempool' \in [Node -> SUBSET Tx]
<1>1. [block |-> b, votes |-> v] \in Entry
  BY DEF Entry
<1>2. Append(chain[n], [block |-> b, votes |-> v]) \in Seq(Entry)
  BY <1>1, AppendProperties DEF TypeOK
<1> QED
  BY <1>2 DEF TypeOK, AddBlock

\* The end of a vote's handler leaves the consensus thread where it was or idle.
LEMMA ReturnType ==
    ASSUME TypeOK, NEW n \in Node, NEW m, Return(n, m)
    PROVE  job' \in [Node -> Job]
BY DEF TypeOK, Return, Idle, Job

\* The round of a node that counts a vote, and the votes with that vote.
LEMMA CountedType ==
    ASSUME TypeOK, NEW n \in Node, NEW m \in msgs, m.type = "vote", Counts(n, m)
    PROVE  /\ round[n] \in Round
           /\ round[n].block \in Block
           /\ VotesWith(n, m) \in SUBSET Node
           /\ Decided(n, m) \in Round
           /\ [round[n] EXCEPT !.votes = VotesWith(n, m)] \in Round
<1>1. round[n] \in Round
  BY DEF TypeOK, Counts
<1>2. m.from \in Node
  BY MessageKinds DEF TypeOK
<1>3. VotesWith(n, m) \in SUBSET Node
  BY <1>1, <1>2 DEF VotesWith, Round
<1> QED
  BY <1>1, <1>3 DEF Decided, Round

\* A restart leaves a node with the chain it stored, or with that chain grown by
\* the chain of one node, and with the validators that chain admits.
LEMMA RestartEffect ==
    ASSUME TypeOK, NEW n \in Node, Restart(n)
    PROVE  \E c \in Seq(Entry) :
             /\ chain' = [chain EXCEPT ![n] = c]
             /\ registered' = [registered EXCEPT ![n] = RegisteredOn(c)]
             /\ \/ c = chain[n]
                \/ \E q \in Node :
                     /\ Extends(n, chain[q], chain[n])
                     /\ c = Grown(chain[n], chain[q])
<1>1. PICK found \in SUBSET (Node \ {n}) :
             \E answering \in SUBSET (found \intersect up) : \E c \in Synced(n, answering) :
               /\ chain' = [chain EXCEPT ![n] = c]
               /\ registered' = [registered EXCEPT ![n] = RegisteredOn(c)]
  BY DEF Restart
<1>2. PICK answering \in SUBSET (found \intersect up) : \E c \in Synced(n, answering) :
               /\ chain' = [chain EXCEPT ![n] = c]
               /\ registered' = [registered EXCEPT ![n] = RegisteredOn(c)]
  BY <1>1
<1>3. PICK c \in Synced(n, answering) :
               /\ chain' = [chain EXCEPT ![n] = c]
               /\ registered' = [registered EXCEPT ![n] = RegisteredOn(c)]
  BY <1>2
<1>4. \/ c = chain[n]
      \/ \E q \in answering : Extends(n, chain[q], chain[n]) /\ c = Grown(chain[n], chain[q])
  BY SyncedCases
<1>5. ASSUME NEW q \in answering, Extends(n, chain[q], chain[n]), c = Grown(chain[n], chain[q])
      PROVE  c \in Seq(Entry)
  <2>1. chain[n] \in Seq(Entry) /\ chain[q] \in Seq(Entry)
    BY DEF TypeOK
  <2>2. Len(chain[q]) > Len(chain[n])
    BY <1>5 DEF Extends
  <2> QED
    BY <1>5, <2>1, <2>2, GrownProperties
<1>6. c \in Seq(Entry)
  BY <1>4, <1>5 DEF TypeOK
<1> QED
  BY <1>3, <1>4, <1>6

\* A request that brings a transaction changes the mempool and what is posted,
\* and posts nothing of the consensus.
LEMMA RequestEffect ==
    ASSUME NEW n \in Node, NEW m \in msgs,
           OnTransaction(n, m) \/ AddTransaction(n, m) \/ AddRefused(n, m)
    PROVE  /\ UNCHANGED <<chain, peers, registered, round, job, made, up, crashes, cast>>
           /\ \A p \in msgs' : p \in msgs \/ p.type \in {"tx", "checked"}
BY DEF OnTransaction, AddTransaction, AddRefused, Replace, Gossip

\* Every step keeps the types.
LEMMA StepType == TypeOK /\ [Next]_vars => TypeOK'
<1> SUFFICES ASSUME TypeOK, [Next]_vars
             PROVE  TypeOK'
  OBVIOUS
<1> USE DEF TypeOK
<1>0. CASE UNCHANGED vars
  BY <1>0 DEF vars
<1>1. ASSUME NEW n \in Node, RunRound(n)
      PROVE  TypeOK'
  BY <1>1 DEF RunRound, Job
<1>2. ASSUME NEW n \in Node, GetPending(n)
      PROVE  TypeOK'
  <2>1. mempool' \in [Node -> SUBSET Tx] /\ job' \in [Node -> Job]
    BY <1>2 DEF GetPending, Job, Idle
  <2> QED
    BY <1>2, <2>1 DEF GetPending
<1>3. ASSUME NEW n \in Node, Propose(n)
      PROVE  TypeOK'
  <2>1. CreateBlock(n) \in Block
    BY CreateBlockType
  <2>2. round' \in [Node -> Round \union {NoRound}]
    BY <1>3, <2>1 DEF Propose, NewRound, Round
  <2>3. msgs' \subseteq Message
    BY <1>3, <2>1, PostTypes DEF Propose
  <2>4. cast' \in [Node -> SUBSET BlockId]
    BY <1>3, <2>1 DEF Propose, Block
  <2>5. job' \in [Node -> Job] /\ made' \in [Node -> Nat]
    BY <1>3 DEF Propose, Job
  <2> QED
    BY <1>3, <2>2, <2>3, <2>4, <2>5 DEF Propose
<1>4. ASSUME NEW n \in Node, NEW m \in msgs,
             OnTransaction(n, m) \/ AddTransaction(n, m) \/ AddRefused(n, m)
      PROVE  TypeOK'
  <2>1. m.tx \in Tx /\ m.from \in Node
    BY <1>4, MessageKinds DEF OnTransaction, AddTransaction, AddRefused
  <2>2. \A b \in BOOLEAN :
           [type: {"checked"}, to: {n}, from: {m.from}, tx: {m.tx}, late: {b}] \subseteq Message
    BY <2>1 DEF Message
  <2>3. (m.tx \in StoredTxs(chain[n])) \in BOOLEAN
    OBVIOUS
  <2>4. msgs' \subseteq Message
    BY <1>4, <2>1, <2>2, <2>3, PostTypes DEF OnTransaction, AddTransaction, AddRefused, Replace
  <2>5. mempool' \in [Node -> SUBSET Tx]
    <3>1. mempool' = mempool \/ mempool' = [mempool EXCEPT ![n] = mempool[n] \union {m.tx}]
      BY <1>4 DEF OnTransaction, AddTransaction, AddRefused
    <3>2. mempool[n] \union {m.tx} \in SUBSET Tx /\ mempool \in [Node -> SUBSET Tx]
      BY <2>1
    <3> QED
      BY <3>1, <3>2
  <2> QED
    BY <2>4, <2>5, RequestEffect, <1>4
<1>5. ASSUME NEW n \in Node, NEW m \in msgs, OnPropose(n, m)
      PROVE  TypeOK'
  <2>1. m.block \in Block
    BY <1>5, MessageKinds DEF OnPropose
  <2>2. msgs' \subseteq Message
    BY <1>5, <2>1, PostTypes DEF OnPropose, Replace
  <2> QED
    BY <1>5, <2>2 DEF OnPropose
<1>6. ASSUME NEW n \in Node, NEW m \in msgs, PrepareAndVote(n, m)
      PROVE  TypeOK'
  <2>1. m.block \in Block
    BY <1>6, MessageKinds DEF PrepareAndVote
  <2>2. msgs' \subseteq Message
    BY <1>6, <2>1, PostTypes DEF PrepareAndVote, Replace
  <2>3. round' \in [Node -> Round \union {NoRound}]
    BY <1>6, <2>1 DEF PrepareAndVote, NewRound, Round
  <2>4. cast' \in [Node -> SUBSET BlockId]
    BY <1>6, <2>1 DEF PrepareAndVote, Block
  <2> QED
    BY <1>6, <2>2, <2>3, <2>4 DEF PrepareAndVote
<1>7. ASSUME NEW n \in Node, NEW m \in msgs, IgnoreVote(n, m)
      PROVE  TypeOK'
  <2>1. job' \in [Node -> Job]
    BY <1>7, ReturnType DEF IgnoreVote
  <2> QED
    BY <1>7, <2>1 DEF IgnoreVote, Replace
<1>8. ASSUME NEW n \in Node, NEW m \in msgs, AddVote(n, m)
      PROVE  TypeOK'
  <2>1. job' \in [Node -> Job]
    BY <1>8, ReturnType DEF AddVote
  <2>2. [round[n] EXCEPT !.votes = VotesWith(n, m)] \in Round
    BY <1>8, CountedType DEF AddVote
  <2>3. round' \in [Node -> Round \union {NoRound}]
    BY <1>8, <2>2 DEF AddVote
  <2> QED
    BY <1>8, <2>1, <2>3 DEF AddVote, Replace
<1>9. ASSUME NEW n \in Node, NEW m \in msgs, Commit(n, m)
      PROVE  TypeOK'
  <2> DEFINE b == round[n].block
             v == VotesWith(n, m)
  <2>1. b \in Block /\ v \in SUBSET Node /\ Decided(n, m) \in Round
    BY <1>9, CountedType DEF Commit, Decides
  <2>2. AddBlock(n, b, v)
    BY <1>9 DEF Commit
  <2>3. chain' \in [Node -> Seq(Entry)] /\ mempool' \in [Node -> SUBSET Tx]
    BY <2>1, <2>2, AddBlockType
  <2>4. Admitted(b.txs) \subseteq Node
    BY <2>1, AdmittedType DEF Block
  <2>5. registered' \in [Node -> SUBSET Node]
    BY <1>9, <2>4 DEF Commit
  <2>6. msgs' \subseteq Message
    BY <1>9, <2>1, PostTypes DEF Commit, Replace
  <2>7. round' \in [Node -> Round \union {NoRound}]
    BY <1>9, <2>1 DEF Commit
  <2>8. job' \in [Node -> Job]
    BY <1>9, ReturnType DEF Commit
  <2> QED
    BY <1>9, <2>3, <2>5, <2>6, <2>7, <2>8 DEF Commit
<1>10. ASSUME NEW n \in Node, NEW m \in msgs, CommitFails(n, m)
       PROVE  TypeOK'
  <2>1. Decided(n, m) \in Round
    BY <1>10, CountedType DEF CommitFails, Decides
  <2>2. round' \in [Node -> Round \union {NoRound}]
    BY <1>10, <2>1 DEF CommitFails
  <2>3. job' \in [Node -> Job]
    BY <1>10, ReturnType DEF CommitFails
  <2> QED
    BY <1>10, <2>2, <2>3 DEF CommitFails, Replace
<1>11. ASSUME NEW n \in Node, NEW m \in msgs, OnNewBlock(n, m)
       PROVE  TypeOK'
  <2>1. m.block \in Block /\ m.votes \in SUBSET Node
    BY <1>11, MessageKinds DEF OnNewBlock
  <2>2. chain' \in [Node -> Seq(Entry)] /\ mempool' \in [Node -> SUBSET Tx]
    <3>1. CASE AddBlock(n, m.block, m.votes)
      BY <2>1, <3>1, AddBlockType
    <3>2. CASE UNCHANGED <<chain, mempool>>
      BY <3>2
    <3> QED
      BY <1>11, <3>1, <3>2 DEF OnNewBlock
  <2> QED
    BY <1>11, <2>2 DEF OnNewBlock, Replace
<1>12. ASSUME NEW n \in Node, NEW p \in Node, OnNewNode(n, p)
       PROVE  TypeOK'
  BY <1>12 DEF OnNewNode
<1>13. ASSUME NEW n \in Node, Crash(n)
       PROVE  TypeOK'
  <2>1. job' \in [Node -> Job]
    BY <1>13 DEF Crash, Idle, Job
  <2> QED
    BY <1>13, <2>1 DEF Crash
<1>14. ASSUME NEW n \in Node, Restart(n)
       PROVE  TypeOK'
  <2>1. PICK c \in Seq(Entry) :
               /\ chain' = [chain EXCEPT ![n] = c]
               /\ registered' = [registered EXCEPT ![n] = RegisteredOn(c)]
    BY <1>14, RestartEffect
  <2>2. chain' \in [Node -> Seq(Entry)] /\ registered' \in [Node -> SUBSET Node]
    BY <2>1, RegisteredOnType
  <2>3. peers' \in [Node -> SUBSET Node]
    BY <1>14 DEF Restart
  <2> QED
    BY <1>14, <2>2, <2>3 DEF Restart
<1> QED
  BY <1>0, <1>1, <1>2, <1>3, <1>4, <1>5, <1>6, <1>7, <1>8, <1>9, <1>10, <1>11,
     <1>12, <1>13, <1>14
     DEF Next, Step, Handle

\* Every state the code reaches has the types of TypeOK: whatever the members,
\* the transactions and the bounds.
THEOREM TypeInvariant == Spec => []TypeOK
<1> QED
  BY InitType, StepType, PTL DEF Spec

-----------------------------------------------------------------------------
(* What a step does to the stored chains                                   *)

\* add_block leaves every stored block where it is and adds one at one node.
LEMMA AddBlockEntries ==
    ASSUME TypeOK, NEW n \in Node, NEW b \in Block, NEW v \in SUBSET Node, AddBlock(n, b, v)
    PROVE  /\ \A p \in Node : \A i \in DOMAIN chain[p] :
                i \in DOMAIN chain'[p] /\ chain'[p][i] = chain[p][i]
           /\ \A p \in Node : \A i \in DOMAIN chain'[p] :
                \/ i \in DOMAIN chain[p] /\ chain'[p][i] = chain[p][i]
                \/ /\ p = n 
                   /\ i = NextIndex(n)
                   /\ chain'[p][i] = [block |-> b, votes |-> v]
<1> DEFINE e == [block |-> b, votes |-> v]
<1>1. e \in Entry
  BY DEF Entry
<1>2. chain' = [chain EXCEPT ![n] = Append(chain[n], e)]
  BY DEF AddBlock
<1> HIDE DEF e
<1>3. chain \in [Node -> Seq(Entry)]
  BY DEF TypeOK
<1>4. /\ \A i \in DOMAIN chain[n] : i \in DOMAIN chain'[n] /\ chain'[n][i] = chain[n][i]
      /\ \A i \in DOMAIN chain'[n] :
            \/ i \in DOMAIN chain[n] /\ chain'[n][i] = chain[n][i]
            \/ i = NextIndex(n) /\ chain'[n][i] = e
  BY <1>1, <1>2, <1>3, AppendProperties, LenProperties DEF NextIndex
<1>5. \A p \in Node \ {n} : chain'[p] = chain[p]
  BY <1>2, <1>3
<1> QED
  BY <1>4, <1>5 DEF e

\* A restart leaves every stored block where it is, and takes any further block
\* from the same place of another chain.
LEMMA RestartEntries ==
    ASSUME TypeOK, NEW n \in Node, Restart(n)
    PROVE  /\ \A p \in Node : \A i \in DOMAIN chain[p] :
                i \in DOMAIN chain'[p] /\ chain'[p][i] = chain[p][i]
           /\ \A p \in Node : \A i \in DOMAIN chain'[p] :
                \E q \in Node : i \in DOMAIN chain[q] /\ chain'[p][i] = chain[q][i]
<1>1. chain \in [Node -> Seq(Entry)]
  BY DEF TypeOK
<1>2. PICK c \in Seq(Entry) :
             /\ chain' = [chain EXCEPT ![n] = c]
             /\ \/ c = chain[n]
                \/ \E q \in Node :
                     /\ Extends(n, chain[q], chain[n])
                     /\ c = Grown(chain[n], chain[q])
  BY RestartEffect
<1>3. CASE c = chain[n]
  BY <1>1, <1>2, <1>3
<1>4. ASSUME NEW q \in Node, Extends(n, chain[q], chain[n]), c = Grown(chain[n], chain[q])
      PROVE  /\ \A i \in DOMAIN chain[n] : i \in DOMAIN c /\ c[i] = chain[n][i]
             /\ \A i \in DOMAIN c :
                  \/ i \in DOMAIN chain[n] /\ c[i] = chain[n][i]
                  \/ i \in DOMAIN chain[q] /\ c[i] = chain[q][i]
  <2>1. chain[n] \in Seq(Entry) /\ chain[q] \in Seq(Entry) /\ Len(chain[q]) > Len(chain[n])
    BY <1>1, <1>4 DEF Extends
  <2>2. /\ Len(c) = Len(chain[q])
        /\ \A i \in 1..Len(chain[n]) : c[i] = chain[n][i]
        /\ \A i \in Len(chain[n])+1..Len(chain[q]) : c[i] = chain[q][i]
    BY <1>4, <2>1, GrownProperties
  <2>3. /\ DOMAIN c = 1..Len(c) /\ DOMAIN chain[n] = 1..Len(chain[n])
        /\ DOMAIN chain[q] = 1..Len(chain[q])
        /\ Len(chain[n]) \in Nat /\ Len(chain[q]) \in Nat
    BY <2>1, LenProperties
  <2> QED
    BY <2>1, <2>2, <2>3
<1>5. \A p \in Node \ {n} : chain'[p] = chain[p]
  BY <1>1, <1>2
<1>6. chain'[n] = c
  BY <1>1, <1>2
<1> QED
  BY <1>2, <1>3, <1>4, <1>5, <1>6

-----------------------------------------------------------------------------
(* The votes attached to a block were cast for it                          *)

VotesSent == \A m \in msgs : m.type = "vote" => m.id \in cast[m.from]

RoundGenuine ==
    \A n \in Node : round[n] # NoRound =>
        \A v \in round[n].votes : round[n].block.id \in cast[v]

PostsGenuine ==
    \A m \in msgs : m.type = "new_block" => \A v \in m.votes : m.block.id \in cast[v]

\* CertificatesGenuine and what it takes on the way from a vote to a chain: the
\* votes under way, those of a round and those of a block posted to peers.
GenuineInv == VotesSent /\ RoundGenuine /\ PostsGenuine /\ CertificatesGenuine

\* Storing a block whose voters voted for it keeps the certificates genuine.
LEMMA AddBlockGenuine ==
    ASSUME TypeOK, CertificatesGenuine, UNCHANGED cast, NEW n \in Node,
           NEW b \in Block, NEW v \in SUBSET Node, AddBlock(n, b, v),
           \A w \in v : b.id \in cast[w]
    PROVE  CertificatesGenuine'
<1> SUFFICES ASSUME NEW p \in Node, NEW i \in DOMAIN chain'[p]
             PROVE  \A w \in chain'[p][i].votes : chain'[p][i].block.id \in cast[w]
  BY DEF CertificatesGenuine, Stored
<1>1. CASE i \in DOMAIN chain[p] /\ chain'[p][i] = chain[p][i]
  BY <1>1 DEF CertificatesGenuine, Stored
<1>2. CASE chain'[p][i] = [block |-> b, votes |-> v]
  BY <1>2
<1> QED
  BY <1>1, <1>2, AddBlockEntries

\* A step that only posts messages of other kinds keeps GenuineInv.
LEMMA QuietGenuine ==
    ASSUME GenuineInv, UNCHANGED <<chain, round, cast>>,
           \A m \in msgs' : m \in msgs \/ m.type \notin {"vote", "new_block"}
    PROVE  GenuineInv'
BY DEF GenuineInv, VotesSent, RoundGenuine, PostsGenuine, CertificatesGenuine, Stored

\* A node that starts a round and votes for its block keeps GenuineInv.
LEMMA NewRoundGenuine ==
    ASSUME TypeOK, GenuineInv, NEW n \in Node, NEW b \in Block,
           cast' = [cast EXCEPT ![n] = @ \union {b.id}],
           round' = [round EXCEPT ![n] = NewRound(b)],
           chain' = chain,
           \A m \in msgs' : m \in msgs \union Vote(n, b) \/ m.type \notin {"vote", "new_block"}
    PROVE  GenuineInv'
<1>1. /\ \A v \in Node : cast[v] \subseteq cast'[v]
      /\ b.id \in cast'[n]
  BY DEF TypeOK
<1>2. VotesSent'
  <2> SUFFICES ASSUME NEW m \in msgs', m.type = "vote"
               PROVE  m.id \in cast'[m.from]
    BY DEF VotesSent
  <2>1. CASE m \in msgs
    BY <1>1, <2>1, MessageKinds DEF GenuineInv, VotesSent, TypeOK
  <2>2. CASE m \in Vote(n, b)
    BY <1>1, <2>2 DEF Vote
  <2> QED
    BY <2>1, <2>2
<1>3. RoundGenuine'
  <2> SUFFICES ASSUME NEW p \in Node, round'[p] # NoRound, NEW v \in round'[p].votes
               PROVE  round'[p].block.id \in cast'[v]
    BY DEF RoundGenuine
  <2>1. CASE p = n
    BY <2>1 DEF NewRound, TypeOK
  <2>2. CASE p # n
    <3>1. round'[p] = round[p] /\ v \in Node
      BY <2>2 DEF TypeOK, Round
    <3> QED
      BY <1>1, <3>1 DEF GenuineInv, RoundGenuine
  <2> QED
    BY <2>1, <2>2
<1>4. PostsGenuine'
  <2> SUFFICES ASSUME NEW m \in msgs', m.type = "new_block", NEW v \in m.votes
               PROVE  m.block.id \in cast'[v]
    BY DEF PostsGenuine
  <2>1. m \in msgs
    BY DEF Vote
  <2>2. v \in Node
    BY <2>1, MessageKinds DEF TypeOK
  <2> QED
    BY <1>1, <2>1, <2>2 DEF GenuineInv, PostsGenuine
<1>5. CertificatesGenuine'
  <2> SUFFICES ASSUME NEW p \in Node, NEW i \in DOMAIN chain[p], NEW v \in chain[p][i].votes
               PROVE  chain[p][i].block.id \in cast'[v]
    BY DEF CertificatesGenuine, Stored
  <2>1. chain[p][i] \in Entry
    BY ElementOfSeq, LenProperties DEF TypeOK
  <2>2. v \in Node
    BY <2>1 DEF Entry
  <2> QED
    BY <1>1, <2>2 DEF GenuineInv, CertificatesGenuine, Stored
<1> QED
  BY <1>2, <1>3, <1>4, <1>5 DEF GenuineInv

\* A vote that a round counts, with the votes counted before it, was cast for
\* the block of the round.
LEMMA CountedGenuine ==
    ASSUME TypeOK, GenuineInv, NEW n \in Node, NEW m \in msgs, m.type = "vote", Counts(n, m)
    PROVE  \A v \in VotesWith(n, m) : round[n].block.id \in cast[v]
BY DEF GenuineInv, VotesSent, RoundGenuine, Counts, VotesWith

\* Adding that vote to the round, decided or not, keeps RoundGenuine.
LEMMA CountGenuine ==
    ASSUME TypeOK, GenuineInv, NEW n \in Node, NEW m \in msgs, m.type = "vote", Counts(n, m),
           NEW r \in Round, r.block = round[n].block, r.votes = VotesWith(n, m),
           round' = [round EXCEPT ![n] = r], cast' = cast
    PROVE  RoundGenuine'
BY CountedGenuine DEF GenuineInv, RoundGenuine, TypeOK

\* Every step keeps the certificates and what leads to them genuine.
LEMMA StepGenuine == TypeOK /\ GenuineInv /\ [Next]_vars => GenuineInv'
<1> SUFFICES ASSUME TypeOK, GenuineInv, [Next]_vars
             PROVE  GenuineInv'
  OBVIOUS
<1>0. CASE UNCHANGED vars
  BY <1>0, QuietGenuine DEF vars
<1>1. ASSUME NEW n \in Node, RunRound(n) \/ GetPending(n) \/ \E p \in Node : OnNewNode(n, p)
      PROVE  GenuineInv'
  BY <1>1, QuietGenuine DEF RunRound, GetPending, OnNewNode
<1>2. ASSUME NEW n \in Node, Propose(n)
      PROVE  GenuineInv'
  <2> DEFINE b == CreateBlock(n)
  <2>1. b \in Block
    BY CreateBlockType
  <2>2. /\ cast' = [cast EXCEPT ![n] = @ \union {b.id}]
        /\ round' = [round EXCEPT ![n] = NewRound(b)]
        /\ msgs' = msgs \union Proposal(n, b) \union Vote(n, b)
        /\ chain' = chain
    BY <1>2 DEF Propose
  <2> HIDE DEF b
  <2>3. \A m \in Proposal(n, b) : m.type \notin {"vote", "new_block"}
    BY DEF Proposal
  <2> QED
    BY <2>1, <2>2, <2>3, NewRoundGenuine
<1>3. ASSUME NEW n \in Node, NEW m \in msgs,
             OnTransaction(n, m) \/ AddTransaction(n, m) \/ AddRefused(n, m)
      PROVE  GenuineInv'
  BY <1>3, RequestEffect, QuietGenuine
<1>4. ASSUME NEW n \in Node, NEW m \in msgs, OnPropose(n, m)
      PROVE  GenuineInv'
  BY <1>4, QuietGenuine DEF OnPropose, Replace
<1>5. ASSUME NEW n \in Node, NEW m \in msgs, PrepareAndVote(n, m)
      PROVE  GenuineInv'
  <2>1. m.block \in Block
    BY <1>5, MessageKinds DEF PrepareAndVote, TypeOK
  <2> QED
    BY <1>5, <2>1, NewRoundGenuine DEF PrepareAndVote, Replace
<1>6. ASSUME NEW n \in Node, NEW m \in msgs, IgnoreVote(n, m)
      PROVE  GenuineInv'
  BY <1>6, QuietGenuine DEF IgnoreVote, Replace
<1>7. ASSUME NEW n \in Node, NEW m \in msgs, AddVote(n, m)
      PROVE  GenuineInv'
  <2> DEFINE r == [round[n] EXCEPT !.votes = VotesWith(n, m)]
  <2>1. r \in Round /\ r.block = round[n].block /\ r.votes = VotesWith(n, m)
    BY <1>7, CountedType DEF AddVote, Round
  <2>2. RoundGenuine'
    BY <1>7, <2>1, CountGenuine DEF AddVote
  <2> QED
    BY <1>7, <2>2 DEF AddVote, Replace, GenuineInv, VotesSent, PostsGenuine,
                      CertificatesGenuine, Stored
<1>8. ASSUME NEW n \in Node, NEW m \in msgs, m.type = "vote", Decides(n, m),
             round' = [round EXCEPT ![n] = Decided(n, m)], cast' = cast
      PROVE  RoundGenuine'
  <2>1. /\ Decided(n, m) \in Round
        /\ Decided(n, m).block = round[n].block
        /\ Decided(n, m).votes = VotesWith(n, m)
    BY <1>8, CountedType DEF Decides, Decided, Round
  <2> QED
    BY <1>8, <2>1, CountGenuine DEF Decides
<1>9. ASSUME NEW n \in Node, NEW m \in msgs, Commit(n, m)
      PROVE  GenuineInv'
  <2> DEFINE b == round[n].block
             v == VotesWith(n, m)
  <2>1. b \in Block /\ v \in SUBSET Node
    BY <1>9, CountedType DEF Commit, Decides
  <2>2. \A w \in v : b.id \in cast[w]
    BY <1>9, CountedGenuine DEF Commit, Decides
  <2>3. CertificatesGenuine'
    BY <1>9, <2>1, <2>2, AddBlockGenuine DEF Commit, GenuineInv
  <2>4. RoundGenuine'
    BY <1>8, <1>9 DEF Commit
  <2>5. VotesSent'
    BY <1>9 DEF Commit, Replace, Finalised, VotesSent, GenuineInv
  <2>6. PostsGenuine'
    <3> SUFFICES ASSUME NEW p \in msgs', p.type = "new_block"
                 PROVE  \A w \in p.votes : p.block.id \in cast[w]
      BY <1>9 DEF Commit, PostsGenuine
    <3>1. CASE p \in msgs
      BY <3>1 DEF GenuineInv, PostsGenuine
    <3>2. CASE p \in Finalised(n, b, v)
      BY <2>2, <3>2 DEF Finalised
    <3> QED
      BY <1>9, <3>1, <3>2 DEF Commit, Replace
  <2> QED
    BY <2>3, <2>4, <2>5, <2>6 DEF GenuineInv
<1>10. ASSUME NEW n \in Node, NEW m \in msgs, CommitFails(n, m)
       PROVE  GenuineInv'
  <2>1. RoundGenuine'
    BY <1>8, <1>10 DEF CommitFails
  <2> QED
    BY <1>10, <2>1 DEF CommitFails, Replace, GenuineInv, VotesSent, PostsGenuine,
                       CertificatesGenuine, Stored
<1>11. ASSUME NEW n \in Node, NEW m \in msgs, OnNewBlock(n, m)
       PROVE  GenuineInv'
  <2>1. m.block \in Block /\ m.votes \in SUBSET Node
    BY <1>11, MessageKinds DEF OnNewBlock, TypeOK
  <2>2. \A w \in m.votes : m.block.id \in cast[w]
    BY <1>11 DEF OnNewBlock, GenuineInv, PostsGenuine
  <2>3. CertificatesGenuine'
    <3>1. CASE AddBlock(n, m.block, m.votes)
      BY <1>11, <2>1, <2>2, <3>1, AddBlockGenuine DEF OnNewBlock, GenuineInv
    <3>2. CASE UNCHANGED <<chain, mempool>>
      BY <1>11, <3>2 DEF OnNewBlock, GenuineInv, CertificatesGenuine, Stored
    <3> QED
      BY <1>11, <3>1, <3>2 DEF OnNewBlock
  <2> QED
    BY <1>11, <2>3 DEF OnNewBlock, Replace, GenuineInv, VotesSent, RoundGenuine, PostsGenuine
<1>12. ASSUME NEW n \in Node, Crash(n)
       PROVE  GenuineInv'
  <2>1. RoundGenuine'
    BY <1>12 DEF Crash, GenuineInv, RoundGenuine, TypeOK
  <2> QED
    BY <1>12, <2>1 DEF Crash, GenuineInv, VotesSent, PostsGenuine, CertificatesGenuine, Stored
<1>13. ASSUME NEW n \in Node, Restart(n)
       PROVE  GenuineInv'
  <2>1. CertificatesGenuine'
    <3> SUFFICES ASSUME NEW p \in Node, NEW i \in DOMAIN chain'[p]
                 PROVE  \A v \in chain'[p][i].votes : chain'[p][i].block.id \in cast[v]
      BY <1>13 DEF Restart, CertificatesGenuine, Stored
    <3>1. PICK q \in Node : i \in DOMAIN chain[q] /\ chain'[p][i] = chain[q][i]
      BY <1>13, RestartEntries
    <3> QED
      BY <3>1 DEF GenuineInv, CertificatesGenuine, Stored
  <2> QED
    BY <1>13, <2>1 DEF Restart, GenuineInv, VotesSent, RoundGenuine, PostsGenuine
<1> QED
  BY <1>0, <1>1, <1>2, <1>3, <1>4, <1>5, <1>6, <1>7, <1>9, <1>10, <1>11, <1>12, <1>13
     DEF Next, Step, Handle

\* Every voter of a stored block really signed a vote for that block, whatever
\* is lost or reordered, whoever joins, stops or restarts, and whether the block
\* came to the node by its own commit, by a post or by sync.
THEOREM GenuineInvariant == Spec => []CertificatesGenuine
<1>1. Init => GenuineInv
  BY DEF Init, GenuineInv, VotesSent, RoundGenuine, PostsGenuine, CertificatesGenuine
<1>2. GenuineInv => CertificatesGenuine
  BY DEF GenuineInv
<1> QED
  BY <1>1, <1>2, StepGenuine, TypeInvariant, PTL DEF Spec

-----------------------------------------------------------------------------
(* Finality with a fixed membership                                        *)

\* Every node is registered, knows every other node, runs and never stops. Only
\* then does what a node counts its quorum against measure the whole network.
FixedMembership ==
    /\ InitRegistered = Node
    /\ InitPeers = [n \in Node |-> Node \ {n}]
    /\ InitUp = Node
    /\ MaxCrashes = 0

\* More than two thirds of all nodes.
IsQuorum(votes) == 3 * Cardinality(votes) > 2 * Cardinality(Node)

MembershipFixed ==
    /\ peers = [n \in Node |-> Node \ {n}]
    /\ registered = [n \in Node |-> Node]
    /\ up = Node
    /\ crashes = 0

PostsDecided == \A m \in msgs : m.type = "new_block" => IsQuorum(m.votes)

ChainsDecided == \A n \in Node : \A i \in DOMAIN chain[n] : IsQuorum(chain[n][i].votes)

\* Nobody comes or goes, and no block is posted or stored without a quorum.
QuorumInv == MembershipFixed /\ PostsDecided /\ ChainsDecided

\* 0.667 of the validators a node counts are more than two thirds of all nodes.
LEMMA QuorumOfAll ==
    ASSUME MembershipFixed, NEW n \in Node, NEW votes \in SUBSET Node,
           HasQuorum(n, votes, ActiveCount(n))
    PROVE  IsQuorum(votes)
<1>1. IsFiniteSet(Node) /\ IsFiniteSet(votes)
  BY NodeAssumption, FS_Subset
<1>2. Cardinality(Node) \in Nat /\ Cardinality(votes) \in Nat
  BY <1>1, FS_CardinalityType
<1>3. peers[n] \intersect registered[n] = Node \ {n}
  BY DEF MembershipFixed
<1>4. ActiveCount(n) = Cardinality(Node)
  <2>1. Cardinality(Node \ {n}) = Cardinality(Node) - 1
    BY <1>1, FS_RemoveElement
  <2> QED
    BY <1>2, <1>3, <2>1 DEF ActiveCount
<1>5. votes # {} => Cardinality(votes) # 0
  BY <1>1, FS_EmptySet
<1>6. Cardinality(Node) # 0
  BY <1>1, FS_EmptySet
<1>7. CASE Cardinality(Node) = 1
  BY <1>2, <1>4, <1>5, <1>7 DEF HasQuorum, IsQuorum
<1>8. CASE Cardinality(Node) # 1
  <2>1. 1000 * Cardinality(votes) >= 667 * Cardinality(Node)
    BY <1>4, <1>8 DEF HasQuorum
  <2> QED
    BY <1>2, <1>6, <2>1 DEF IsQuorum
<1> QED
  BY <1>7, <1>8

\* Storing a block with a quorum of votes.
LEMMA AddBlockDecided ==
    ASSUME TypeOK, ChainsDecided, NEW n \in Node, NEW b \in Block, NEW v \in SUBSET Node,
           AddBlock(n, b, v), IsQuorum(v)
    PROVE  ChainsDecided'
<1> SUFFICES ASSUME NEW p \in Node, NEW i \in DOMAIN chain'[p]
             PROVE  IsQuorum(chain'[p][i].votes)
  BY DEF ChainsDecided, IsQuorum
<1>1. CASE i \in DOMAIN chain[p] /\ chain'[p][i] = chain[p][i]
  BY <1>1 DEF ChainsDecided
<1>2. CASE chain'[p][i] = [block |-> b, votes |-> v]
  BY <1>2
<1> QED
  BY <1>1, <1>2, AddBlockEntries

\* A step that touches no chain, no member and posts no finalised block.
LEMMA QuietDecided ==
    ASSUME QuorumInv, UNCHANGED <<chain, peers, registered, up, crashes>>,
           \A m \in msgs' : m \in msgs \/ m.type # "new_block"
    PROVE  QuorumInv'
BY DEF QuorumInv, MembershipFixed, PostsDecided, ChainsDecided, IsQuorum

\* With a fixed membership every step keeps QuorumInv.
LEMMA StepDecided ==
    ASSUME FixedMembership, TypeOK, QuorumInv, [Next]_vars
    PROVE  QuorumInv'
<1>0. CASE UNCHANGED vars
  BY <1>0, QuietDecided DEF vars
<1>1. ASSUME NEW n \in Node, RunRound(n) \/ GetPending(n)
      PROVE  QuorumInv'
  BY <1>1, QuietDecided DEF RunRound, GetPending
<1>2. ASSUME NEW n \in Node, Propose(n)
      PROVE  QuorumInv'
  <2>1. \A m \in Proposal(n, CreateBlock(n)) \union Vote(n, CreateBlock(n)) : m.type # "new_block"
    BY DEF Proposal, Vote
  <2> QED
    BY <1>2, <2>1, QuietDecided DEF Propose
<1>3. ASSUME NEW n \in Node, NEW m \in msgs,
             OnTransaction(n, m) \/ AddTransaction(n, m) \/ AddRefused(n, m)
      PROVE  QuorumInv'
  BY <1>3, RequestEffect, QuietDecided
<1>4. ASSUME NEW n \in Node, NEW m \in msgs, OnPropose(n, m)
      PROVE  QuorumInv'
  BY <1>4, QuietDecided DEF OnPropose, Replace
<1>5. ASSUME NEW n \in Node, NEW m \in msgs, PrepareAndVote(n, m)
      PROVE  QuorumInv'
  <2>1. \A p \in Vote(n, m.block) : p.type # "new_block"
    BY DEF Vote
  <2> QED
    BY <1>5, <2>1, QuietDecided DEF PrepareAndVote, Replace
<1>6. ASSUME NEW n \in Node, NEW m \in msgs, IgnoreVote(n, m) \/ AddVote(n, m) \/ CommitFails(n, m)
      PROVE  QuorumInv'
  BY <1>6, QuietDecided DEF IgnoreVote, AddVote, CommitFails, Replace
<1>7. ASSUME NEW n \in Node, NEW m \in msgs, Commit(n, m)
      PROVE  QuorumInv'
  <2> DEFINE b == round[n].block
             v == VotesWith(n, m)
  <2>1. b \in Block /\ v \in SUBSET Node
    BY <1>7, CountedType DEF Commit, Decides
  <2>2. IsQuorum(v)
    BY <1>7, <2>1, QuorumOfAll DEF Commit, Decides, QuorumInv
  <2>3. ChainsDecided'
    BY <1>7, <2>1, <2>2, AddBlockDecided DEF Commit, QuorumInv
  <2>4. MembershipFixed'
    <3>1. Admitted(b.txs) \subseteq Node
      BY <2>1, AdmittedType DEF Block
    <3>2. registered' = [registered EXCEPT ![n] = Node \union Admitted(b.txs)]
      BY <1>7 DEF Commit, QuorumInv, MembershipFixed
    <3>3. registered' = [p \in Node |-> Node]
      BY <3>1, <3>2 DEF QuorumInv, MembershipFixed
    <3> QED
      BY <1>7, <3>3 DEF Commit, QuorumInv, MembershipFixed
  <2>5. PostsDecided'
    <3> SUFFICES ASSUME NEW p \in msgs', p.type = "new_block"
                 PROVE  IsQuorum(p.votes)
      BY DEF PostsDecided, IsQuorum
    <3>1. CASE p \in msgs
      BY <3>1 DEF QuorumInv, PostsDecided
    <3>2. CASE p \in Finalised(n, b, v)
      BY <2>2, <3>2 DEF Finalised
    <3> QED
      BY <1>7, <3>1, <3>2 DEF Commit, Replace
  <2> QED
    BY <2>3, <2>4, <2>5 DEF QuorumInv
<1>8. ASSUME NEW n \in Node, NEW m \in msgs, OnNewBlock(n, m)
      PROVE  QuorumInv'
  <2>1. m.block \in Block /\ m.votes \in SUBSET Node
    BY <1>8, MessageKinds DEF OnNewBlock, TypeOK
  <2>2. IsQuorum(m.votes)
    BY <1>8 DEF OnNewBlock, QuorumInv, PostsDecided
  <2>3. ChainsDecided'
    <3>1. CASE AddBlock(n, m.block, m.votes)
      BY <2>1, <2>2, <3>1, AddBlockDecided DEF QuorumInv
    <3>2. CASE UNCHANGED <<chain, mempool>>
      BY <3>2 DEF QuorumInv, ChainsDecided, IsQuorum
    <3> QED
      BY <1>8, <3>1, <3>2 DEF OnNewBlock
  <2> QED
    BY <1>8, <2>3 DEF OnNewBlock, Replace, QuorumInv, MembershipFixed, PostsDecided, IsQuorum
<1>9. ASSUME NEW n \in Node, (\E p \in Node : OnNewNode(n, p)) \/ Crash(n) \/ Restart(n)
      PROVE  FALSE
  BY <1>9 DEF OnNewNode, Crash, Restart, QuorumInv, MembershipFixed, FixedMembership
<1> QED
  BY <1>0, <1>1, <1>2, <1>3, <1>4, <1>5, <1>6, <1>7, <1>8, <1>9 DEF Next, Step, Handle

\* With a fixed membership the network starts in QuorumInv.
LEMMA InitDecided ==
    ASSUME FixedMembership, Init
    PROVE  QuorumInv
<1>1. RegisteredOn(<<>>) = Node
  BY EmptySeq, RegisteredOnType DEF RegisteredOn, FixedMembership
<1>2. \A n \in Node : DOMAIN chain[n] = {}
  BY DEF Init
<1> QED
  BY <1>1, <1>2 DEF Init, FixedMembership, QuorumInv, MembershipFixed, PostsDecided, ChainsDecided

\* The voters of a stored block, all of whom signed for it, are a quorum.
LEMMA SignersAreQuorum ==
    ASSUME TypeOK, CertificatesGenuine, ChainsDecided,
           NEW n \in Node, NEW i \in DOMAIN chain[n]
    PROVE  IsQuorum({v \in Node : Stored(n, i) \in cast[v]})
<1> DEFINE signers == {v \in Node : Stored(n, i) \in cast[v]}
           votes == chain[n][i].votes
<1>1. chain[n][i] \in Entry
  BY ElementOfSeq, LenProperties DEF TypeOK
<1>2. votes \subseteq signers
  BY <1>1 DEF CertificatesGenuine, Entry
<1>3. IsFiniteSet(signers) /\ IsFiniteSet(Node)
  BY NodeAssumption, FS_Subset
<1>4. Cardinality(votes) <= Cardinality(signers) /\ IsFiniteSet(votes)
  BY <1>2, <1>3, FS_Subset
<1>5. Cardinality(votes) \in Nat /\ Cardinality(signers) \in Nat /\ Cardinality(Node) \in Nat
  BY <1>3, <1>4, FS_CardinalityType
<1>6. IsQuorum(votes)
  BY DEF ChainsDecided
<1> HIDE DEF signers, votes
<1>7. IsQuorum(signers)
  BY <1>4, <1>5, <1>6 DEF IsQuorum
<1> QED
  BY <1>7 DEF signers

\* Two quorums of nodes have a node in common.
LEMMA QuorumsIntersect ==
    ASSUME NEW S \in SUBSET Node, NEW T \in SUBSET Node, IsQuorum(S), IsQuorum(T)
    PROVE  S \intersect T # {}
<1>1. IsFiniteSet(Node) /\ IsFiniteSet(S) /\ IsFiniteSet(T)
  BY NodeAssumption, FS_Subset
<1>2. Cardinality(Node) \in Nat /\ Cardinality(S) \in Nat /\ Cardinality(T) \in Nat
  BY <1>1, FS_CardinalityType
<1>3. Cardinality(S) + Cardinality(T) > Cardinality(Node)
  BY <1>2 DEF IsQuorum
<1> QED
  BY <1>1, <1>3, FS_MajoritiesIntersect

\* With a fixed membership the chains only ever hold decided blocks.
LEMMA DecidedInvariant ==
    ASSUME FixedMembership
    PROVE  Spec => []QuorumInv
<1>1. Init => QuorumInv
  BY InitDecided
<1>2. TypeOK /\ QuorumInv /\ [Next]_vars => QuorumInv'
  BY StepDecided
<1> QED
  BY <1>1, <1>2, TypeInvariant, PTL DEF Spec

\* With a fixed membership of any size, whatever is lost or reordered, a block
\* is stored only if more than two thirds of all validators signed for it.
THEOREM FinalityInvariant ==
    ASSUME FixedMembership
    PROVE  Spec => []FinalityQuorum
<1>1. TypeOK /\ CertificatesGenuine /\ QuorumInv => FinalityQuorum
  BY SignersAreQuorum DEF QuorumInv, FinalityQuorum, IsQuorum
<1> QED
  BY <1>1, TypeInvariant, GenuineInvariant, DecidedInvariant, PTL

\* With a fixed membership of any size, two nodes store different blocks at one
\* index only if some validator signed for both.
THEOREM AccountabilityInvariant ==
    ASSUME FixedMembership
    PROVE  Spec => []AccountableSafety
<1>1. TypeOK /\ CertificatesGenuine /\ QuorumInv => AccountableSafety
  <2> SUFFICES ASSUME TypeOK, CertificatesGenuine, QuorumInv, NEW n \in Node, NEW m \in Node,
                      NEW i \in DOMAIN chain[n] \intersect DOMAIN chain[m]
               PROVE  \E v \in Node : {Stored(n, i), Stored(m, i)} \subseteq cast[v]
    BY DEF AccountableSafety
  <2> DEFINE S(p) == {v \in Node : Stored(p, i) \in cast[v]}
  <2>1. IsQuorum(S(n)) /\ IsQuorum(S(m))
    BY SignersAreQuorum DEF QuorumInv
  <2>2. S(n) \intersect S(m) # {}
    BY <2>1, QuorumsIntersect
  <2> QED
    BY <2>2
<1> QED
  BY <1>1, TypeInvariant, GenuineInvariant, DecidedInvariant, PTL
=============================================================================
