-------------------------------- MODULE Yac --------------------------------
(***************************************************************************)
(* Yac, the consensus of irohad (irohad/consensus/yac): every peer votes   *)
(* for the hash of a block at the leader of the round, changes the leader  *)
(* when its timer fires, and a peer that holds a supermajority of votes    *)
(* propagates them as a commit.                                            *)
(*                                                                         *)
(* Each peer runs one Yac object; a step is one of its entry points:       *)
(* vote() called by the gate, on_vote() and on_commit() called by the      *)
(* network, and the handler of its timer.                                  *)
(***************************************************************************)
EXTENDS YacStorage, Sequences

CONSTANTS Peer,       \* the peers of the ledger
          Order,      \* ClusterOrdering: the peers in the order of leadership
          getVote,    \* signatures the crypto provider may put on a vote of a peer
          Up,         \* the peers that are up; the others never take a step
          height,     \* the height of the block of each hash
          Revote,     \* may a peer vote for two blocks of one height
          MaxLeader,  \* bound: timers fire only below this leader index
          NoHash      \* no timer is armed

N == Cardinality(Peer)

ASSUME PeerAssumption == IsFiniteSet(Peer) /\ Peer # {}

ASSUME OrderAssumption == /\ Order \in [1 .. N -> Peer]
                          /\ \A p \in Peer : \E i \in 1 .. N : Order[i] = p

ASSUME VoteAssumption == getVote \in [Peer -> SUBSET Voter]

\* The contract of YacCryptoProvider: a peer signs its votes with its own key.
OwnKeys == Voter = Peer /\ \A p \in Peer : getVote[p] = {p}

ASSUME UpAssumption == Up \subseteq Peer

ASSUME HeightAssumption == height \in [Hash -> Nat]

ASSUME BoundAssumption == /\ Revote \in BOOLEAN
                          /\ MaxLeader \in Nat
                          /\ NoHash \notin Hash

VARIABLES
    vote_storage,  \* vote_storage_ of each peer
    index,         \* index_ of the cluster_order_ of each peer
    timer,         \* the hash the armed timer of each peer will vote for
    notified,      \* commits emitted by on_commit() of each peer, in order
    net,           \* messages sent and not delivered
    cast           \* hashes each peer has called vote() for

vars == <<vote_storage, index, timer, notified, net, cast>>

VoteMessage ==
    [type : {"vote"}, from : Peer, to : Peer, hash : Hash, signature : Voter]

CommitMessage ==
    [type : {"commit"}, from : Peer, to : Peer, hash : Hash, votes : SUBSET Voter]

Message == VoteMessage \cup CommitMessage

\* Variant: the signature is not copied.
send_vote_unsigned(p, q, h, s) ==
    [type |-> "vote", from |-> p, to |-> q, hash |-> h]

send_vote(p, q, h, s) ==
    [type |-> "vote", from |-> p, to |-> q, hash |-> h, signature |-> s]

send_commit(p, q, c) ==
    [type |-> "commit", from |-> p, to |-> q, hash |-> c.hash, votes |-> c.votes]

Init ==
    /\ vote_storage = [p \in Peer |-> NewVoteStorage]
    /\ index = [p \in Peer |-> 0]
    /\ timer = [p \in Peer |-> NoHash]
    /\ notified = [p \in Peer |-> <<>>]
    /\ net = {}
    /\ cast = [p \in Peer |-> {}]
-----------------------------------------------------------------------------
(* ClusterOrdering                                                         *)

\* currentLeader() wraps an index past the end of the order to its start.
WrapIndex(i) == IF i >= N THEN 0 ELSE i

currentLeader(i) == Order[WrapIndex(i) + 1]

\* Variant: there is always a next leader.
hasNext_always(i) == TRUE

hasNext(i) == i # N
-----------------------------------------------------------------------------
(* Steps of a peer                                                         *)

\* votingStep(hash) of peer p with leader index i: nothing but the index is
\* written if the proposal is committed; otherwise the vote goes to the leader
\* and the timer is armed again.
votingStep(p, h, i, disarmed) ==
    IF findProposal(vote_storage[p], h).state = "committed"
    THEN /\ index' = [index EXCEPT ![p] = i]
         /\ timer' = disarmed
         /\ UNCHANGED net
    ELSE /\ index' = [index EXCEPT ![p] = WrapIndex(i)]
         /\ timer' = [timer EXCEPT ![p] = h]
         /\ \E s \in getVote[p] :
               net' = net \cup {send_vote(p, currentLeader(i), h, s)}

\* The simulator makes a block only on top of the last committed one, so p
\* has been told of a commit for every lower height.
HasLowerBlocks(p, h) ==
    \A g \in Hash : height[g] < height[h] =>
        \E k \in DOMAIN notified[p] : height[notified[p][k].hash] = height[g]

\* Yac::vote(hash, order), called by YacGateImpl::vote for a block of the
\* simulator: the order is replaced by a new one, whose index is 0.
Vote(p, h) ==
    /\ p \in Up
    /\ h \notin cast[p]
    /\ HasLowerBlocks(p, h)
    /\ Revote \/ \A g \in cast[p] : height[g] # height[h]
    /\ cast' = [cast EXCEPT ![p] = @ \cup {h}]
    /\ votingStep(p, h, 0, timer)
    /\ UNCHANGED <<vote_storage, notified>>

\* Variant: the leader is not changed.
Timeout_sameLeader(p) ==
    /\ timer[p] # NoHash
    /\ index[p] < MaxLeader
    /\ votingStep(p, timer[p], index[p], [timer EXCEPT ![p] = NoHash])
    /\ UNCHANGED <<vote_storage, notified, cast>>

\* The handler that votingStep gives to the timer.
Timeout(p) ==
    /\ timer[p] # NoHash
    /\ index[p] < MaxLeader
    /\ LET i        == index[p] + 1
           disarmed == [timer EXCEPT ![p] = NoHash]
       IN  IF hasNext(i)
           THEN votingStep(p, timer[p], i, disarmed)
           ELSE /\ index' = [index EXCEPT ![p] = i]
                /\ timer' = disarmed
                /\ UNCHANGED net
    /\ UNCHANGED <<vote_storage, notified, cast>>

\* applyVote: a decision reached by this vote goes to every peer, an earlier
\* one only to the peer that sent the vote.
propagate(p, from, result) ==
    IF result.commit = nullopt THEN {}
    ELSE CASE result.state = "not_committed"    -> {}
           [] result.state = "committed"        ->
                {send_commit(p, Order[i], result.commit) : i \in 1 .. N}
           [] result.state = "committed_before" ->
                {send_commit(p, from, result.commit)}

\* on_vote(from, vote); the crypto provider of the program verifies
\* everything.
OnVote(m) ==
    LET p      == m.to
        result == storeVoteResult(vote_storage[p], m.hash, m.signature, N)
    IN
    /\ m \in net
    /\ p \in Up
    /\ m.type = "vote"
    /\ vote_storage' = [vote_storage EXCEPT ![p] = storeVote(@, m.hash, m.signature, N)]
    /\ net' = (net \ {m}) \cup propagate(p, m.from, result)
    /\ UNCHANGED <<index, timer, notified, cast>>

\* on_commit(from, commit): subscribers are told when the storage answers
\* "committed"; the timer is stopped in every case.
OnCommit(m) ==
    LET p      == m.to
        result == applyCommitResult(vote_storage[p], m.hash, m.votes, N)
    IN
    /\ m \in net
    /\ p \in Up
    /\ m.type = "commit"
    /\ vote_storage' = [vote_storage EXCEPT ![p] = applyCommit(@, m.hash, m.votes, N)]
    /\ notified' = IF result.state = "committed"
                   THEN [notified EXCEPT ![p] = Append(@, result.commit)]
                   ELSE notified
    /\ timer' = [timer EXCEPT ![p] = NoHash]
    /\ net' = net \ {m}
    /\ UNCHANGED <<index, cast>>

\* A call that fails is never looked at again: a lost message is one that
\* stays in net.
Next ==
    \/ \E p \in Peer : \E h \in Hash : Vote(p, h)
    \/ \E p \in Peer : Timeout(p)
    \/ \E m \in net : OnVote(m) \/ OnCommit(m)

Spec == Init /\ [][Next]_vars

\* Deliver some message to p.
Deliver(p) == \E m \in net : m.to = p /\ (OnVote(m) \/ OnCommit(m))

\* The calls to a peer that is up complete, its event loop fires its timer and
\* its simulator hands it a block.
Fairness == \A p \in Up : /\ WF_vars(Deliver(p))
                          /\ WF_vars(Timeout(p))
                          /\ WF_vars(\E h \in Hash : Vote(p, h))

FairSpec == Spec /\ Fairness
-----------------------------------------------------------------------------
\* The state is well typed.
TypeOK ==
    /\ vote_storage \in [Peer -> VoteStorage]
    /\ index \in [Peer -> 0 .. N]
    /\ timer \in [Peer -> Hash \cup {NoHash}]
    /\ notified \in [Peer -> Seq(Commit)]
    /\ net \subseteq Message
    /\ cast \in [Peer -> SUBSET Hash]

\* The hashes p has reported.
Decided(p) == {notified[p][k].hash : k \in DOMAIN notified[p]}

Gate == INSTANCE HashGate WITH decided <- [p \in Peer |-> Decided(p)]

\* Whatever order votes, commits and timeouts arrive in, Yac behaves like the
\* HashGate: a hash goes to the subscribers of on_commit() only after a
\* supermajority of the peers called vote() with it.
GateSpec == Gate!Spec

\* Two peers report different blocks of one height only if more than a third
\* of the peers voted for both.
Agreement == Gate!Agreement

\* If no peer votes for two blocks of one height, all the peers report the
\* same block of each height.
Consistency == Gate!Consistency

\* If the peers that are up are enough for a supermajority and all get the same
\* block, each of them reports a commit: the peers move past a leader that is
\* down, and a peer that missed the decision is told when it votes.
EveryoneDecides == <>(\A p \in Up : notified[p] # <<>>)

\* yac.cpp, applyCommit, "already committed nothing to notify": the
\* subscribers know of the block when the storage answers committed_before.
NothingToNotify ==
    \A m \in net :
        /\ m.type = "commit"
        /\ applyCommitResult(vote_storage[m.to], m.hash, m.votes, N).state
              = "committed_before"
        => m.hash \in Decided(m.to)

\* yac.hpp, votingStep, "propagating vote until commit/reject": a peer that
\* voted for a block and holds no commit of it has a timer armed to vote again.
PropagatesUntilCommit ==
    \A p \in Peer : \A h \in cast[p] :
        findProposal(vote_storage[p], h).state = "not_committed" => timer[p] = h
=============================================================================
