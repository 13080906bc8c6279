------------------------------ MODULE HashGate ------------------------------
(***************************************************************************)
(* What the consensus promises to the rest of a peer (the interface        *)
(* HashGate of irohad/consensus/yac/yac_gate.hpp): peers vote for hashes   *)
(* and a hash is reported as committed only when more than two thirds of   *)
(* the peers have voted for it. There are no messages, leaders or timers   *)
(* here.                                                                   *)
(***************************************************************************)
EXTENDS Integers, FiniteSets

CONSTANTS Peer,    \* the peers of the ledger
          Hash,    \* the hashes that may be voted for
          height,  \* the height of the block of each hash
          Revote   \* may a peer vote for two blocks of one height

N == Cardinality(Peer)

VARIABLES cast,    \* the hashes each peer has voted for
          decided  \* the hashes each peer has reported as committed

vars == <<cast, decided>>

Init ==
    /\ cast = [p \in Peer |-> {}]
    /\ decided = [p \in Peer |-> {}]

\* The peers that have voted for h.
Voters(h) == {p \in Peer : h \in cast[p]}

vote(p, h) ==
    /\ h \notin cast[p]
    /\ Revote \/ \A g \in cast[p] : height[g] # height[h]
    /\ cast' = [cast EXCEPT ![p] = @ \cup {h}]
    /\ UNCHANGED decided

on_commit(p, h) ==
    /\ 3 * Cardinality(Voters(h)) > 2 * N
    /\ decided' = [decided EXCEPT ![p] = @ \cup {h}]
    /\ UNCHANGED cast

Next == \E p \in Peer : \E h \in Hash : vote(p, h) \/ on_commit(p, h)

Spec == Init /\ [][Next]_vars
-----------------------------------------------------------------------------
\* Two peers report different blocks of one height only if more than a third
\* of the peers voted for both.
Agreement ==
    \A p, q \in Peer : \A h \in decided[p] : \A g \in decided[q] :
        height[h] = height[g] /\ h # g
            => 3 * Cardinality(Voters(h) \cap Voters(g)) >= N + 2

\* If no peer votes for two blocks of one height, all the peers report the
\* same block of each height.
Consistency ==
    ~Revote => \A p, q \in Peer : \A h \in decided[p] : \A g \in decided[q] :
                   height[h] = height[g] => h = g
=============================================================================
