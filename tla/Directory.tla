------------------------------ MODULE Directory ------------------------------
(***************************************************************************)
(* How nodes find each other: the node directory (cloudflare_worker.js),   *)
(* the start, heartbeat and stop of a node (node.py, bootstrap.py), the    *)
(* peer tables (peer_manager.py) and the announcements of new nodes.       *)
(*                                                                         *)
(* A node has one url and one wallet, so both are the node itself.  Time   *)
(* passes in steps that are long compared with a start or a delivery.      *)
(***************************************************************************)
EXTENDS Integers, FiniteSets

CONSTANTS
    Node,        \* wallets
    Fallback,    \* BOOTSTRAP_FALLBACK_NODES
    NodeTtl,     \* NODE_TTL, in steps
    Interval,    \* BOOTSTRAP_HEARTBEAT_INTERVAL, in steps
    MaxStarts,   \* bound: starts of the whole run
    MaxLost      \* bound: calls that fail although the callee runs

ASSUME DirectoryAssumption ==
    /\ IsFiniteSet(Node)
    /\ Fallback \subseteq Node
    /\ NodeTtl \in Nat \ {0}
    /\ Interval \in Nat \ {0}
    /\ Interval < NodeTtl
    /\ MaxStarts \in Nat
    /\ MaxLost \in Nat

VARIABLES
    stage,    \* stage[n]: how far n is in start()
    left,     \* left[n]: steps until the record of n expires; 0, no record
    since,    \* since[n]: steps since the last heartbeat of n
    peers,    \* peers[n][m]: what n has under the url of m
    msgs,     \* posts to /peer/new_node on their way
    starts,   \* starts so far
    lost,     \* calls lost so far
    overlap   \* history: the pairs of nodes whose starts overlapped

vars == <<stage, left, since, peers, msgs, starts, lost, overlap>>

Stage == {"off", "discovered", "registered", "serving"}

\* An entry of a peer table has the wallet of the peer or the word "unknown",
\* which no validator is called.
Entry == {"none", "wallet", "unknown"}

Announcement == [to: Node, new: Node]

TypeOK ==
    /\ stage \in [Node -> Stage]
    /\ left \in [Node -> 0..NodeTtl]
    /\ since \in [Node -> 0..Interval]
    /\ peers \in [Node -> [Node -> Entry]]
    /\ msgs \subseteq Announcement
    /\ starts \in 0..MaxStarts
    /\ lost \in 0..MaxLost
    /\ overlap \subseteq SUBSET Node

-----------------------------------------------------------------------------

\* listNodes: the records that have not expired.
Listed == {n \in Node : left[n] > 0}

Starting == {n \in Node : stage[n] \in {"discovered", "registered"}}

NoPeers == [m \in Node |-> "none"]

Losing == lost < MaxLost /\ lost' = lost + 1

\* start() begins: the peer table is empty and other starts may be under way.
Begin(n) ==
    /\ stage[n] = "off"
    /\ starts < MaxStarts
    /\ starts' = starts + 1
    /\ stage' = [stage EXCEPT ![n] = "discovered"]
    /\ overlap' = overlap \union {{n, m} : m \in Starting}

\* discover_peers and load_peers_from_list.
Discover(n) ==
    /\ Begin(n)
    /\ peers' = [peers EXCEPT ![n] =
                   [m \in Node |-> IF m \in Listed \ {n} THEN "wallet" ELSE "none"]]
    /\ UNCHANGED <<left, since, msgs, lost>>

\* The directory does not answer: the fallback nodes are taken, without wallets.
DiscoverFallback(n) ==
    /\ Begin(n)
    /\ Losing
    /\ peers' = [peers EXCEPT ![n] =
                   [m \in Node |-> IF m \in Fallback \ {n} THEN "unknown" ELSE "none"]]
    /\ UNCHANGED <<left, since, msgs>>

\* Mutation of Announced: whether the wallet is new is asked once its record is
\* written.
AnnouncedLate(n) == IF n \in Listed \union {n} THEN {} ELSE [to: Listed \ {n}, new: {n}]

\* notifyExistingNodes: only for a wallet that has no record.
Announced(n) == IF n \in Listed THEN {} ELSE [to: Listed \ {n}, new: {n}]

\* register_node: the list of nodes that the directory returns is not used.
Register(n) ==
    /\ stage[n] = "discovered"
    /\ stage' = [stage EXCEPT ![n] = "registered"]
    /\ left' = [left EXCEPT ![n] = NodeTtl]
    /\ msgs' = msgs \union Announced(n)
    /\ UNCHANGED <<since, peers, starts, lost, overlap>>

\* The registration fails: start() goes on all the same.
RegisterLost(n) ==
    /\ stage[n] = "discovered"
    /\ Losing
    /\ stage' = [stage EXCEPT ![n] = "registered"]
    /\ UNCHANGED <<left, since, peers, msgs, starts, overlap>>

\* The rest of start(): the API, the consensus and the heartbeat.
Serve(n) ==
    /\ stage[n] = "registered"
    /\ stage' = [stage EXCEPT ![n] = "serving"]
    /\ UNCHANGED <<left, since, peers, msgs, starts, lost, overlap>>

HeartbeatDue(n) == stage[n] = "serving" /\ since[n] = Interval

\* Mutation of Renewed: the record keeps the expiry it had.
NotRenewed(n) == left[n]

\* /nodes/heartbeat: the record is written again with a full life; without a
\* record the answer is 404.
Renewed(n) == IF n \in Listed THEN NodeTtl ELSE 0

\* _send_heartbeat, whatever the directory answers.
Heartbeat(n) ==
    /\ HeartbeatDue(n)
    /\ since' = [since EXCEPT ![n] = 0]
    /\ left' = [left EXCEPT ![n] = Renewed(n)]
    /\ UNCHANGED <<stage, peers, msgs, starts, lost, overlap>>

\* The heartbeat does not arrive: the next one is due an interval later.
HeartbeatLost(n) ==
    /\ HeartbeatDue(n)
    /\ Losing
    /\ since' = [since EXCEPT ![n] = 0]
    /\ UNCHANGED <<stage, left, peers, msgs, starts, overlap>>

Gone(n) ==
    /\ stage' = [stage EXCEPT ![n] = "off"]
    /\ peers' = [peers EXCEPT ![n] = NoPeers]
    /\ since' = [since EXCEPT ![n] = 0]
    /\ UNCHANGED <<msgs, starts, lost, overlap>>

\* stop(): deregister.
Stop(n) ==
    /\ stage[n] = "serving"
    /\ Gone(n)
    /\ left' = [left EXCEPT ![n] = 0]

\* The process ends, or its deregistration does not arrive.
Crash(n) ==
    /\ stage[n] # "off"
    /\ Gone(n)
    /\ UNCHANGED left

\* Mutation of Forwarded: a known node is announced again.
ForwardedAlways(n, new) == [to: {p \in Node : peers[n][p] # "none"} \union {new}, new: {new}]

\* broadcast_new_node goes to the peers known by then, the new one among them,
\* and only when add_peer has added it.
Forwarded(n, new) ==
    IF new = n \/ peers[n][new] # "none" THEN {}
    ELSE [to: {p \in Node : peers[n][p] # "none"} \union {new}, new: {new}]

\* add_peer: the url is the key, and the entry under it is not written again.
Entered(n, new) ==
    IF new = n \/ peers[n][new] # "none" THEN peers[n][new] ELSE "wallet"

\* /peer/new_node.
OnNewNode(n, m) ==
    /\ stage[n] = "serving"
    /\ m.to = n
    /\ peers' = [peers EXCEPT ![n][m.new] = Entered(n, m.new)]
    /\ msgs' = (msgs \ {m}) \union Forwarded(n, m.new)
    /\ UNCHANGED <<stage, left, since, starts, lost, overlap>>

\* A post to a node that does not serve fails and is forgotten.
Refused(m) ==
    /\ stage[m.to] # "serving"
    /\ msgs' = msgs \ {m}
    /\ UNCHANGED <<stage, left, since, peers, starts, lost, overlap>>

\* A post to a node that serves fails.
Lose(m) ==
    /\ stage[m.to] = "serving"
    /\ Losing
    /\ msgs' = msgs \ {m}
    /\ UNCHANGED <<stage, left, since, peers, starts, overlap>>

\* Mutation of Aged: a record only expires after its last step.
AgedBelow(k) == k - 1

\* What is left of a record after a step; an expired one is gone.
Aged(k) == IF k = 0 THEN 0 ELSE k - 1

\* Time passes: starts, deliveries and heartbeats that are due come first.
Tick ==
    /\ Starting = {}
    /\ msgs = {}
    /\ \A n \in Node : ~HeartbeatDue(n)
    /\ left' = [n \in Node |-> Aged(left[n])]
    /\ since' = [n \in Node |-> IF stage[n] = "serving" THEN since[n] + 1 ELSE since[n]]
    /\ UNCHANGED <<stage, peers, msgs, starts, lost, overlap>>

-----------------------------------------------------------------------------

Init ==
    /\ stage = [n \in Node |-> "off"]
    /\ left = [n \in Node |-> 0]
    /\ since = [n \in Node |-> 0]
    /\ peers = [n \in Node |-> NoPeers]
    /\ msgs = {}
    /\ starts = 0
    /\ lost = 0
    /\ overlap = {}

Deliver == \E m \in msgs : OnNewNode(m.to, m) \/ Refused(m)

Step(n) ==
    \/ Discover(n) \/ DiscoverFallback(n)
    \/ Register(n) \/ RegisterLost(n)
    \/ Serve(n)
    \/ Heartbeat(n) \/ HeartbeatLost(n)
    \/ Stop(n) \/ Crash(n)

Next ==
    \/ \E n \in Node : Step(n)
    \/ Deliver
    \/ \E m \in msgs : Lose(m)
    \/ Tick

\* Every post is answered or fails in the end.
Fairness == WF_vars(Deliver)

Spec == Init /\ [][Next]_vars /\ Fairness

-----------------------------------------------------------------------------
(* Correctness                                                             *)

\* While no call is lost a node that serves is listed: its heartbeats are close
\* enough for the life of a record (_heartbeat_loop, NODE_TTL).
ListedWhileServing == lost = 0 => \A n \in Node : stage[n] = "serving" => n \in Listed

\* Once the announcements have settled and no call was lost, two nodes that
\* serve know each other with their wallets, whatever crashed, expired or
\* started again before, unless their starts have overlapped.
KnownUnlessOverlapped ==
    lost = 0 /\ msgs = {} =>
        \A n, m \in Node :
            /\ n # m
            /\ stage[n] = "serving"
            /\ stage[m] = "serving"
            /\ {n, m} \notin overlap
            => peers[n][m] = "wallet"

\* The announcements that nodes forward to each other come to an end.
AnnouncementsEnd == msgs # {} ~> msgs = {}
=============================================================================
