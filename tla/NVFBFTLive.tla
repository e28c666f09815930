----------------------------- MODULE NVFBFTLive -----------------------------
(***************************************************************************)
(* Progress of the consensus of NVFBFT.                                    *)
(*                                                                         *)
(* The engine has no timeout and no view change (check_timeout is never    *)
(* called), so it can only promise progress when the network is timely:    *)
(* posts are delivered and handled well within the five seconds between    *)
(* two turns of _consensus_loop, hence a round starts when none is under   *)
(* way.  Peers do not change and no node stops.                            *)
(***************************************************************************)
EXTENDS NVFBFT

\* A turn of _consensus_loop in a network that has settled.
TimelyRound(n) == msgs = {} /\ RunRound(n)

TimelyStep(n) ==
    \/ TimelyRound(n)
    \/ GetPending(n)
    \/ Propose(n)
    \/ Handle(n)

TimelyNext == \E n \in Node : TimelyStep(n)

\* The consensus thread never stops looping and every post made to a running
\* node is handled: msgs only ever holds finitely many.
Fairness ==
    \A n \in Node :
        /\ WF_vars(TimelyRound(n))
        /\ WF_vars(GetPending(n))
        /\ WF_vars(Propose(n))
        /\ WF_vars(Handle(n))

TimelySpec == Init /\ [][TimelyNext]_vars /\ Fairness

StoredAt(n, t) == t \in StoredTxs(chain[n])

\* A transaction pending at any node ends up in the chain of every node: the
\* leader of the next index has it, gets the votes and the others follow.
PendingConfirmed ==
    \A n \in Node : \A t \in Tx :
        t \in mempool[n] ~> \A m \in Node : StoredAt(m, t)

\* Once the network has settled, the running nodes store the same chain.
SettledAgreement ==
    msgs = {} =>
        \A n, m \in up : [i \in DOMAIN chain[n] |-> Stored(n, i)]
                       = [i \in DOMAIN chain[m] |-> Stored(m, i)]
=============================================================================
