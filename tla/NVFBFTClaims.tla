---------------------------- MODULE NVFBFTClaims ----------------------------
(***************************************************************************)
(* What a comment of the repository says of the consensus, where the code, *)
(* as NVFBFT models it, does otherwise.                                    *)
(***************************************************************************)
EXTENDS NVFBFTLive

\* "quorum = finality" (consensus/nvf_bft.py:400): two nodes never finalise
\* different blocks at one index.
Agreement ==
    \A n, m \in Node : \A i \in DOMAIN chain[n] \intersect DOMAIN chain[m] :
        Stored(n, i) = Stored(m, i)
=============================================================================
