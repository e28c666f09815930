------------------------------ MODULE NodeLife ------------------------------
(***************************************************************************)
(* The life of one node: the steps of start(), blocks committed under the  *)
(* consensus lock with the plugins told before the peers, blocks taken     *)
(* from peers without, status requests, stop(), and the process stopping.  *)
(*                                                                         *)
(* How a round comes to its quorum is left to NVFBFT: here any thread that *)
(* handles a vote may find that the round's block has it.  add_block is    *)
(* one step: what happens when two calls of it overlap, one under the lock *)
(* and one of /peer/new_block without, is in BlockApply, and a stored row  *)
(* can then be replaced.                                                   *)
(***************************************************************************)
EXTENDS ChainSync

CONSTANTS
    Plugins,    \* the registered plugins, in order
    Asking,     \* those that ask the node for its status when told of a block
    Hooks,      \* hook calls of a block: on_block_finalised and its transactions'
    NewHash(_), \* NewHash(i): the hash of a block of this node at index i
    NoBlock,
    MaxReady,   \* bound: blocks that wait to become that of the round
    MaxHeight,  \* bound: length of the chain
    MaxStops    \* bound: times the process stops

ASSUME NodeLifeAssumption ==
    /\ Plugins \in Seq(Elements(Plugins)) /\ Asking \subseteq Elements(Plugins)
    /\ \A i \in 0..MaxHeight : NewHash(i) \in Hash \ {Mismatch}
    /\ NoBlock \notin Block
    /\ {Hooks, MaxReady, MaxHeight, MaxStops} \subseteq Nat \ {0}

VARIABLES
    life,     \* where start() is, or the node is
    ready,    \* blocks made or validated, and not yet the block of a round
    round,    \* the block of the current round, or NoBlock
    locked,   \* the consensus lock is held
    commits,  \* commits under way: block, plugin and hook they are at
    posted,   \* blocks sent to the peers, in order
    asked,    \* a status request waits
    told,     \* told[k]: the blocks plugin k was told of, in order
    heard,    \* heard[k]: the blocks of which plugin k heard all, or failed
    own,      \* history: blocks the node committed
    lost,     \* history: blocks whose commit was cut by a stop
    stops     \* times the process stopped

lifeVars == <<life, ready, round, locked, commits, posted, asked, told, heard, own, lost, stops>>
vars == <<syncVars, lifeVars>>

\* "serving" once the API is up, "mining" once the consensus thread runs too.
Life == {"discover", "sync", "serving", "mining", "stopped"}

Commit == [block: Block, plugin: 1..Len(Plugins) + 1, hook: 1..Hooks]

TypeOK ==
    /\ SyncTypeOK
    /\ life \in Life
    /\ ready \subseteq Block
    /\ round \in Block \union {NoBlock}
    /\ commits \subseteq Commit
    /\ locked = (commits # {})
    /\ posted \in Seq(Block)
    /\ asked \in BOOLEAN
    /\ told \in [DOMAIN Plugins -> Seq(Block)]
    /\ heard \in [DOMAIN Plugins -> SUBSET Block]
    /\ own \subseteq Block
    /\ lost \subseteq Block
    /\ stops \in 0..MaxStops

-----------------------------------------------------------------------------
(* start() and stop()                                                      *)

\* Steps 1 and 2: any of the peers are found, and load_peers_from_list keeps them
\* in the order of the answers.
Discover ==
    /\ life = "discover"
    /\ \E n \in 0..Cardinality(Peer) : \E found \in [1..n -> Peer] :
         /\ \A i, j \in 1..n : found[i] = found[j] => i = j
         /\ peers' = found
    /\ life' = "sync"
    /\ UNCHANGED <<chain, height, stage, turn, target, cursor, todo, fetched, synced>>
    /\ UNCHANGED <<ready, round, locked, commits, posted, asked, told, heard, own, lost, stops>>

\* Step 3.
Synchronise ==
    /\ life = "sync"
    /\ SyncStep \/ Begin
    /\ UNCHANGED lifeVars

\* Step 4 follows whatever sync() returned, and step 5 follows step 4.  stop() waits
\* for a commit under way for five seconds and no longer, and the API stays up.
Proceed ==
    /\ \/ life = "sync" /\ stage = "ended" /\ life' = "serving"
       \/ life = "serving" /\ life' = "mining"
       \/ life = "mining" /\ life' = "stopped"
    /\ UNCHANGED syncVars
    /\ UNCHANGED <<ready, round, locked, commits, posted, asked, told, heard, own, lost, stops>>

Serving == life \in {"serving", "mining", "stopped"}

-----------------------------------------------------------------------------
(* Blocks                                                                  *)

\* _propose and on_propose up to the lock: a block made on the tip by this node, or
\* proposed by a peer and validated against the tip.
Prepare ==
    /\ Len(chain) < MaxHeight
    /\ Cardinality(ready) < MaxReady
    /\ \/ /\ life = "mining"
          /\ ready' = ready \union
               {[index |-> Len(chain), hash |-> NewHash(Len(chain)), prev |-> Tip.hash]}
       \/ /\ Serving
          /\ \E p \in Peer : \E b \in Elements(Held[p]) :
               Valid(b, Tip) /\ ready' = ready \union {b}
    /\ UNCHANGED syncVars
    /\ UNCHANGED <<life, round, locked, commits, posted, asked, told, heard, own, lost, stops>>

\* The rest, with the lock: the block is that of the round.
Enter(b) ==
    /\ b \in ready
    /\ ~locked
    /\ ready' = ready \ {b}
    /\ round' = b
    /\ UNCHANGED syncVars
    /\ UNCHANGED <<life, locked, commits, posted, asked, told, heard, own, lost, stops>>

\* /peer/new_block: a block of p is stored, without the lock and the plugins.
Receive(p) ==
    /\ Serving
    /\ Len(chain) < MaxHeight
    /\ \E b \in {Held[p][i] : i \in 1..height[p]} :
         Valid(b, Tip) /\ chain' = Append(chain, b)
    /\ UNCHANGED <<height, peers, stage, turn, target, cursor, todo, fetched, synced>>
    /\ UNCHANGED lifeVars

\* Mutation of LockedWhileTelling: the lock is released before the plugins are told.
LockedOnlyToStore == FALSE

LockedWhileTelling == TRUE

\* Mutation of LockedAfterRefusal: the early return keeps the lock.
LockedForGood == TRUE

LockedAfterRefusal == FALSE

\* on_vote finds the quorum, and _commit stores the block or add_block refuses it
\* because a block came in since.
Decide ==
    /\ round # NoBlock
    /\ ~locked
    /\ round' = NoBlock
    /\ IF Valid(round, Tip)
         THEN /\ chain' = Append(chain, round)
              /\ own' = own \union {round}
              /\ commits' = commits \union {[block |-> round, plugin |-> 1, hook |-> 1]}
              /\ locked' = LockedWhileTelling
         ELSE /\ locked' = LockedAfterRefusal
              /\ UNCHANGED <<chain, own, commits>>
    /\ UNCHANGED <<height, peers, stage, turn, target, cursor, todo, fetched, synced>>
    /\ UNCHANGED <<life, ready, posted, asked, told, heard, lost, stops>>

-----------------------------------------------------------------------------
(* Telling the plugins and the peers                                       *)

\* Mutation of AfterError: an error in one plugin ends the notification.
AfterErrorEnd(c) == [c EXCEPT !.plugin = Len(Plugins) + 1, !.hook = 1]

\* An error skips the plugin's other hooks.
AfterError(c) == [c EXCEPT !.plugin = @ + 1, !.hook = 1]

AfterHook(c) == IF c.hook < Hooks THEN [c EXCEPT !.hook = @ + 1] ELSE AfterError(c)

\* notify_block_finalised, one hook of one plugin, which returns or raises.  A
\* plugin that asks for the status waits for the lock its own thread holds.
Tell(c) ==
    /\ c \in commits
    /\ c.plugin <= Len(Plugins)
    /\ ~(Plugins[c.plugin] \in Asking /\ locked)
    /\ told' = IF c.hook = 1 THEN [told EXCEPT ![c.plugin] = Append(@, c.block)] ELSE told
    /\ \E next \in {AfterHook(c), AfterError(c)} :
         /\ commits' = (commits \ {c}) \union {next}
         /\ heard' = IF next.plugin > c.plugin
                       THEN [heard EXCEPT ![c.plugin] = @ \union {c.block}] ELSE heard
    /\ UNCHANGED syncVars
    /\ UNCHANGED <<life, ready, round, locked, posted, asked, own, lost, stops>>

\* _on_block_finalised sends the block to the peers, and on_vote returns.
Send(c) ==
    /\ c \in commits
    /\ c.plugin = Len(Plugins) + 1
    /\ posted' = Append(posted, c.block)
    /\ commits' = commits \ {c}
    /\ locked' = FALSE
    /\ UNCHANGED syncVars
    /\ UNCHANGED <<life, ready, round, asked, told, heard, own, lost, stops>>

-----------------------------------------------------------------------------

\* A request for the status, which needs the lock.
Ask ==
    /\ Serving
    /\ ~asked
    /\ asked' = TRUE
    /\ UNCHANGED syncVars
    /\ UNCHANGED <<life, ready, round, locked, commits, posted, told, heard, own, lost, stops>>

Answer ==
    /\ asked
    /\ ~locked
    /\ asked' = FALSE
    /\ UNCHANGED syncVars
    /\ UNCHANGED <<life, ready, round, locked, commits, posted, told, heard, own, lost, stops>>

\* The process stops and is started again.
Crash ==
    /\ stops < MaxStops
    /\ stops' = stops + 1
    /\ SyncLost
    /\ life' = "discover"
    /\ ready' = {}
    /\ round' = NoBlock
    /\ locked' = FALSE
    /\ lost' = lost \union {c.block : c \in commits}
    /\ commits' = {}
    /\ asked' = FALSE
    /\ UNCHANGED <<posted, told, heard, own>>

Init ==
    /\ SyncInit
    /\ life = "discover"
    /\ ready = {}
    /\ round = NoBlock
    /\ locked = FALSE
    /\ commits = {}
    /\ posted = <<>>
    /\ asked = FALSE
    /\ told = [k \in DOMAIN Plugins |-> <<>>]
    /\ heard = [k \in DOMAIN Plugins |-> {}]
    /\ own = {}
    /\ lost = {}
    /\ stops = 0

Notify == \E c \in commits : Tell(c) \/ Send(c)

Next ==
    \/ Discover \/ Synchronise \/ Proceed
    \/ \E p \in Peer : (Grow(p) /\ UNCHANGED lifeVars) \/ Receive(p)
    \/ Prepare \/ (\E b \in ready : Enter(b)) \/ Decide
    \/ Notify
    \/ Ask \/ Answer
    \/ Crash

\* Every request of sync() has a time limit, hooks return or raise, and the lock is
\* not withheld for ever from a request that waits for it.
Fairness == WF_vars(Synchronise) /\ WF_vars(Notify) /\ SF_vars(Answer)

Spec == Init /\ [][Next]_vars /\ Fairness

-----------------------------------------------------------------------------
(* Properties                                                              *)

\* Each plugin is told of blocks in the order of the chain, of none twice, and only
\* of blocks that are stored, across restarts and whichever threads handle votes:
\* this is what telling under the lock is for (on_vote, notify_block_finalised).
\* The blocks stay stored as long as calls of add_block do not overlap.
ToldInOrder ==
    \A k \in DOMAIN Plugins :
        /\ Elements(told[k]) \subseteq Elements(chain)
        /\ \A i, j \in DOMAIN told[k] : i < j => told[k][i].index < told[k][j].index

\* "Never let a plugin crash the node" (plugin/plugin_manager.py:115): a block this
\* node committed goes to the peers after every plugin has heard all of it or has
\* failed on it itself, unless the process stopped in between.
ToldAll ==
    \A b \in own \ lost :
        \/ \E c \in commits : c.block = b
        \/ b \in Elements(posted) /\ \A k \in DOMAIN Plugins : b \in heard[k]

\* A status request is answered, if no plugin asks for the status itself.
StatusAnswered == Asking = {} => (asked ~> ~asked)
=============================================================================
