----------------------------- MODULE YacProofs -----------------------------
(***************************************************************************)
(* Yac implements the HashGate when every peer signs with its own key, for *)
(* every number of peers, set of blocks and order of leaders.              *)
(***************************************************************************)
EXTENDS Yac, YacStorageProofs, YacCommonProofs

\* The votes that have been given for each hash: the peers that called vote().
VotersOf == [h \in Hash |-> {p \in Peer : h \in cast[p]}]

\* Messages carry only votes that were given.
NetOK ==
    \A m \in net :
        /\ m.type = "vote"   => m.signature \in VotersOf[m.hash]
        /\ m.type = "commit" => m.votes \subseteq VotersOf[m.hash]

StoragesOK == \A p \in Peer : StorageOK(vote_storage[p], VotersOf, N)

\* Every reported commit is a proof.
NotifiedOK ==
    \A p \in Peer : \A k \in DOMAIN notified[p] : ProofIn(notified[p][k], VotersOf, N)

\* A timer is armed only while there is a leader left.
TimerOK == \A p \in Peer : timer[p] # NoHash => index[p] < N

\* The timer votes again for a hash the peer has voted for.
TimerWasCast == \A p \in Peer : timer[p] # NoHash => timer[p] \in cast[p]

VotedOnce ==
    ~Revote => \A p \in Peer : \A g, h \in cast[p] : height[g] = height[h] => g = h

\* The inductive invariant: no vote is invented on its way from vote() through
\* messages and storages to a reported commit.
IInv ==
    /\ TypeOK
    /\ NetOK
    /\ StoragesOK
    /\ NotifiedOK
    /\ TimerOK
    /\ TimerWasCast
    /\ VotedOnce

\* The number of peers is positive and, with own keys, is that of the signers.
LEMMA PeerCount ==
    ASSUME OwnKeys
    PROVE  /\ N \in Nat \ {0}
           /\ Cardinality(Voter) <= N
<1>1. N \in Nat /\ N # 0
  BY PeerAssumption, FS_CardinalityType, FS_EmptySet DEF N
<1> QED
  BY <1>1 DEF OwnKeys, N

\* The votes given so far are what the lemmas about the storage ask for.
LEMMA VotersGiven ==
    ASSUME OwnKeys
    PROVE  Given(VotersOf, N)
BY PeerCount DEF Given, VotersOf, OwnKeys

LEMMA InitIInv ==
    ASSUME OwnKeys, Init
    PROVE  IInv
<1>1. StorageOK(NewVoteStorage, VotersOf, N)
  BY VotersGiven, NewStorageOK
<1>2. NewVoteStorage \in VoteStorage
  BY <1>1 DEF StorageOK
<1>3. TypeOK
  BY <1>2, PeerCount DEF Init, TypeOK
<1>4. NetOK /\ NotifiedOK /\ TimerOK /\ TimerWasCast /\ VotedOnce
  BY DEF Init, NetOK, NotifiedOK, TimerOK, TimerWasCast, VotedOnce
<1>5. StoragesOK
  BY <1>1 DEF Init, StoragesOK
<1> QED
  BY <1>3, <1>4, <1>5 DEF IInv

\* The index and the timer after a voting step, and the vote it may send.
LEMMA VotingStep ==
    ASSUME OwnKeys, TypeOK, TimerOK,
           NEW p \in Peer, NEW h \in Hash, NEW i \in 0 .. N - 1,
           NEW disarmed \in [Peer -> Hash \cup {NoHash}],
           \A q \in Peer : q # p => disarmed[q] = timer[q],
           votingStep(p, h, i, disarmed)
    PROVE  /\ index' \in [Peer -> 0 .. N]
           /\ timer' \in [Peer -> Hash \cup {NoHash}]
           /\ \A q \in Peer : timer'[q] # NoHash => index'[q] < N
           /\ \A q \in Peer : timer'[q] = disarmed[q] \/ (q = p /\ timer'[q] = h)
           /\ \A m \in net' : m \in net \/ (/\ m \in VoteMessage
                                            /\ m.hash = h
                                            /\ m.signature = p)
<1>1. N \in Nat \ {0}
  BY PeerCount
<1>2. WrapIndex(i) = i
  BY <1>1 DEF WrapIndex
<1>3. currentLeader(i) \in Peer
  BY <1>1, <1>2, OrderAssumption DEF currentLeader
<1>4. CASE findProposal(vote_storage[p], h).state = "committed"
  <2>1. /\ index' = [index EXCEPT ![p] = i]
        /\ timer' = disarmed
        /\ net' = net
    BY <1>4 DEF votingStep
  <2>2. \A q \in Peer : timer'[q] # NoHash => index'[q] < N
    BY <1>1, <2>1 DEF TypeOK, TimerOK
  <2> QED
    BY <1>1, <2>1, <2>2 DEF TypeOK
<1>5. CASE findProposal(vote_storage[p], h).state # "committed"
  <2>1. /\ index' = [index EXCEPT ![p] = i]
        /\ timer' = [timer EXCEPT ![p] = h]
        /\ net' = net \cup {send_vote(p, currentLeader(i), h, p)}
    BY <1>2, <1>5 DEF votingStep, OwnKeys
  <2>2. send_vote(p, currentLeader(i), h, p) \in VoteMessage
    BY <1>3 DEF send_vote, VoteMessage, OwnKeys
  <2>3. \A m \in net' : m \in net \/ (m \in VoteMessage /\ m.hash = h /\ m.signature = p)
    BY <2>1, <2>2 DEF send_vote
  <2> QED
    BY <1>1, <2>1, <2>3 DEF TypeOK, TimerOK
<1> QED
  BY <1>4, <1>5

\* A step that sends only given votes and leaves votes, storages and reports
\* alone.
LEMMA VoteIInv ==
    ASSUME OwnKeys, IInv, NEW p \in Peer, NEW h \in Hash, Vote(p, h)
    PROVE  IInv'
<1> USE DEF IInv
<1>1. /\ index' \in [Peer -> 0 .. N]
      /\ timer' \in [Peer -> Hash \cup {NoHash}]
      /\ TimerOK'
      /\ \A q \in Peer : timer'[q] = timer[q] \/ (q = p /\ timer'[q] = h)
      /\ \A m \in net' : m \in net \/ (m \in VoteMessage /\ m.hash = h /\ m.signature = p)
  <2>1. 0 \in 0 .. N - 1
    BY PeerCount
  <2> QED
    BY SMTT(40), <2>1, VotingStep DEF Vote, TypeOK, TimerOK
<1>2. /\ cast' \in [Peer -> SUBSET Hash]
      /\ \A g \in Hash : VotersOf[g] \subseteq VotersOf'[g]
      /\ p \in VotersOf'[h]
  BY DEF Vote, TypeOK, VotersOf
<1>3. TypeOK'
  BY <1>1, <1>2 DEF Vote, TypeOK, Message
<1>4. NetOK'
  <2> SUFFICES ASSUME NEW m \in net'
               PROVE  /\ m.type = "vote"   => m.signature \in VotersOf'[m.hash]
                      /\ m.type = "commit" => m.votes \subseteq VotersOf'[m.hash]
    BY DEF NetOK
  <2>1. CASE m \in net
    <3>1. m.hash \in Hash
      BY <2>1 DEF TypeOK, Message, VoteMessage, CommitMessage
    <3> QED
      BY <1>2, <2>1, <3>1 DEF NetOK
  <2>2. CASE m \in VoteMessage /\ m.hash = h /\ m.signature = p
    BY <1>2, <2>2 DEF VoteMessage
  <2> QED
    BY <1>1, <2>1, <2>2
<1>5. StoragesOK'
  <2> SUFFICES ASSUME NEW q \in Peer
               PROVE  StorageOK(vote_storage[q], VotersOf', N)
    BY DEF StoragesOK, Vote
  <2>1. StorageOK(vote_storage[q], VotersOf, N)
    BY DEF StoragesOK
  <2> QED
    BY <1>2, <2>1, StorageOKGrows
<1>6. NotifiedOK'
  <2> SUFFICES ASSUME NEW q \in Peer, NEW k \in DOMAIN notified[q]
               PROVE  ProofIn(notified[q][k], VotersOf', N)
    BY DEF NotifiedOK, Vote
  <2>1. ProofIn(notified[q][k], VotersOf, N)
    BY DEF NotifiedOK
  <2>2. notified[q][k] \in Commit
    <3>1. notified[q] \in Seq(Commit)
      BY DEF TypeOK
    <3> QED
      BY <3>1
  <2>3. notified[q][k].hash \in Hash
    BY <2>2 DEF Commit
  <2> QED
    BY <1>2, <2>1, <2>3 DEF ProofIn
<1>7. VotedOnce'
  BY DEF Vote, VotedOnce, TypeOK
<1>8. TimerWasCast'
  BY <1>1 DEF Vote, TimerWasCast, TypeOK
<1> QED
  BY <1>1, <1>3, <1>4, <1>5, <1>6, <1>7, <1>8


\* The timer moves to the next leader or stops.
LEMMA TimeoutIInv ==
    ASSUME OwnKeys, IInv, NEW p \in Peer, Timeout(p)
    PROVE  IInv'
<1> USE DEF IInv
<1> DEFINE i == index[p] + 1
           disarmed == [timer EXCEPT ![p] = NoHash]
<1>1. /\ N \in Nat \ {0}
      /\ timer[p] \in Hash
      /\ index[p] \in 0 .. N - 1
  BY PeerCount DEF Timeout, TypeOK, TimerOK
<1>2. /\ disarmed \in [Peer -> Hash \cup {NoHash}]
      /\ \A q \in Peer : q # p => disarmed[q] = timer[q]
      /\ disarmed[p] = NoHash
  BY DEF TypeOK
<1>3. /\ index' \in [Peer -> 0 .. N]
      /\ timer' \in [Peer -> Hash \cup {NoHash}]
      /\ TimerOK'
      /\ \A q \in Peer : timer'[q] \in {timer[q], NoHash}
      /\ \A m \in net' : m \in net \/ (/\ m \in VoteMessage
                                       /\ m.hash = timer[p]
                                       /\ m.signature = p)
  <2>1. CASE hasNext(i)
    <3>1. i \in 0 .. N - 1
      BY <1>1, <2>1 DEF hasNext
    <3>2. votingStep(p, timer[p], i, disarmed)
      BY <2>1 DEF Timeout
    <3> HIDE DEF i, disarmed
    <3> QED
      BY <1>1, <1>2, <3>1, <3>2, VotingStep DEF TimerOK
  <2>2. CASE ~hasNext(i)
    <3>1. /\ index' = [index EXCEPT ![p] = i]
          /\ timer' = disarmed
          /\ net' = net
      BY <2>2 DEF Timeout
    <3>2. i \in 0 .. N
      BY <1>1
    <3> QED
      BY <1>2, <3>1, <3>2 DEF TypeOK, TimerOK
  <2> QED
    BY <2>1, <2>2
<1>4. UNCHANGED <<vote_storage, notified, cast>> /\ VotersOf' = VotersOf
  BY DEF Timeout, VotersOf
<1>5. TypeOK'
  BY <1>3, <1>4 DEF TypeOK, Message
<1>6. NetOK'
  <2> SUFFICES ASSUME NEW m \in net'
               PROVE  /\ m.type = "vote"   => m.signature \in VotersOf[m.hash]
                      /\ m.type = "commit" => m.votes \subseteq VotersOf[m.hash]
    BY <1>4 DEF NetOK
  <2>1. CASE m \in net
    BY <2>1 DEF NetOK
  <2>2. CASE m \in VoteMessage /\ m.hash = timer[p] /\ m.signature = p
    <3>1. timer[p] \in cast[p]
      BY DEF Timeout, TimerWasCast
    <3> QED
      BY <1>1, <2>2, <3>1 DEF VoteMessage, VotersOf
  <2> QED
    BY <1>3, <2>1, <2>2
<1> QED
  BY SMTT(40), <1>3, <1>4, <1>5, <1>6 DEF StoragesOK, NotifiedOK, TimerWasCast, VotedOnce

\* The commits that a sound result makes a peer send carry only given votes.
LEMMA PropagateOK ==
    ASSUME OwnKeys, TypeOK,
           NEW p \in Peer, NEW from \in Peer,
           NEW r, ResultOK(r, VotersOf, N),
           NEW m \in propagate(p, from, r)
    PROVE  /\ m \in CommitMessage
           /\ m.votes \subseteq VotersOf[m.hash]
<1>1. /\ r.commit # nullopt
      /\ r.commit \in Commit
      /\ ProofIn(r.commit, VotersOf, N)
  BY DEF propagate, ResultOK, StorageResult
<1>2. r.state \in CommitState
  BY DEF ResultOK, StorageResult
<1>3. \E q \in Peer : m = send_commit(p, q, r.commit)
  <2>1. CASE r.state = "not_committed"
    BY <1>1, <2>1 DEF propagate
  <2>2. CASE r.state = "committed"
    BY <1>1, <2>2, OrderAssumption DEF propagate
  <2>3. CASE r.state = "committed_before"
    BY <1>1, <2>3 DEF propagate
  <2> QED
    BY <1>2, <2>1, <2>2, <2>3 DEF CommitState
<1> QED
  BY <1>1, <1>3 DEF send_commit, CommitMessage, Commit, ProofIn

\* A delivered vote goes to the storage, and from there to commits.
LEMMA OnVoteIInv ==
    ASSUME OwnKeys, IInv, NEW m \in net, OnVote(m)
    PROVE  IInv'
<1> USE DEF IInv
<1> DEFINE p      == m.to
           result == storeVoteResult(vote_storage[p], m.hash, m.signature, N)
           new    == storeVote(vote_storage[p], m.hash, m.signature, N)
<1>1. /\ m \in VoteMessage
      /\ p \in Peer /\ m.from \in Peer /\ m.hash \in Hash
      /\ m.signature \in VotersOf[m.hash]
  BY SMTT(40) DEF OnVote, TypeOK, NetOK, Message, VoteMessage, CommitMessage
<1>2. /\ StorageOK(new, VotersOf, N)
      /\ ResultOK(result, VotersOf, N)
  BY SMTT(40), <1>1, VotersGiven, StoreVoteOK DEF StoragesOK
<1>3. /\ vote_storage' = [vote_storage EXCEPT ![p] = new]
      /\ net' = (net \ {m}) \cup propagate(p, m.from, result)
      /\ UNCHANGED <<index, timer, notified, cast>>
      /\ VotersOf' = VotersOf
  BY DEF OnVote, VotersOf
<1> HIDE DEF new, result
<1>4. \A n \in net' : n \in net \/ (/\ n \in CommitMessage
                                    /\ n.votes \subseteq VotersOf[n.hash])
  BY SMTT(40), <1>1, <1>2, <1>3, PropagateOK
<1>5. TypeOK'
  <2>1. net' \subseteq Message
    BY <1>4 DEF TypeOK, Message
  <2>2. vote_storage' \in [Peer -> VoteStorage]
    BY <1>1, <1>2, <1>3 DEF TypeOK, StorageOK
  <2> QED
    BY <1>3, <2>1, <2>2 DEF TypeOK
<1>6. NetOK'
  BY <1>3, <1>4 DEF NetOK, CommitMessage
<1>7. StoragesOK'
  BY SMTT(40), <1>1, <1>2, <1>3 DEF StoragesOK, TypeOK
<1> QED
  BY <1>3, <1>5, <1>6, <1>7 DEF NotifiedOK, TimerOK, TimerWasCast, VotedOnce

\* What a delivered commit reports is a proof.
LEMMA OnCommitResult ==
    ASSUME OwnKeys, IInv, NEW m \in net, OnCommit(m)
    PROVE  /\ m \in CommitMessage
           /\ m.to \in Peer
           /\ StorageOK(applyCommit(vote_storage[m.to], m.hash, m.votes, N),
                        VotersOf, N)
           /\ ResultOK(applyCommitResult(vote_storage[m.to], m.hash, m.votes, N),
                       VotersOf, N)
<1>1. /\ m \in CommitMessage
      /\ m.to \in Peer /\ m.hash \in Hash
      /\ m.votes \in SUBSET VotersOf[m.hash]
  BY SMTT(40) DEF OnCommit, IInv, TypeOK, NetOK, Message, VoteMessage, CommitMessage
<1> QED
  BY SMTT(40), <1>1, VotersGiven, ApplyCommitOK DEF IInv, StoragesOK

\* A delivered commit goes to the storage and, if it decides, is reported.
LEMMA OnCommitIInv ==
    ASSUME OwnKeys, IInv, NEW m \in net, OnCommit(m)
    PROVE  IInv'
<1> USE DEF IInv
<1> DEFINE p      == m.to
           result == applyCommitResult(vote_storage[p], m.hash, m.votes, N)
           new    == applyCommit(vote_storage[p], m.hash, m.votes, N)
<1>1. /\ p \in Peer
      /\ StorageOK(new, VotersOf, N)
      /\ ResultOK(result, VotersOf, N)
  BY SMTT(40), OnCommitResult
<1>2. /\ vote_storage' = [vote_storage EXCEPT ![p] = new]
      /\ notified' = IF result.state = "committed"
                     THEN [notified EXCEPT ![p] = Append(@, result.commit)]
                     ELSE notified
      /\ timer' = [timer EXCEPT ![p] = NoHash]
      /\ net' = net \ {m}
      /\ UNCHANGED <<index, cast>>
      /\ VotersOf' = VotersOf
  BY SMTT(40) DEF OnCommit, VotersOf
<1>3. result.state = "committed" => /\ result.commit \in Commit
                                    /\ ProofIn(result.commit, VotersOf, N)
  BY SMTT(40), <1>1 DEF ResultOK, StorageResult
<1> HIDE DEF new, result
<1>4. TypeOK'
  <2>1. vote_storage' \in [Peer -> VoteStorage]
    BY <1>1, <1>2 DEF TypeOK, StorageOK
  <2>2. notified' \in [Peer -> Seq(Commit)]
    BY <1>1, <1>2, <1>3 DEF TypeOK
  <2> QED
    BY SMTT(40), <1>1, <1>2, <2>1, <2>2 DEF TypeOK
<1>5. NetOK'
  BY <1>2 DEF NetOK
<1>6. StoragesOK'
  BY <1>1, <1>2 DEF StoragesOK, TypeOK
<1>7. NotifiedOK'
  <2> SUFFICES ASSUME NEW q \in Peer, NEW k \in DOMAIN notified'[q]
               PROVE  ProofIn(notified'[q][k], VotersOf, N)
    BY <1>2 DEF NotifiedOK
  <2>1. notified[q] \in Seq(Commit)
    BY DEF TypeOK
  <2>2. CASE result.state = "committed" /\ q = p
    <3>1. notified'[q] = Append(notified[q], result.commit)
      BY SMTT(40), <1>1, <1>2, <2>2 DEF TypeOK
    <3>2. \/ k \in DOMAIN notified[q] /\ notified'[q][k] = notified[q][k]
          \/ notified'[q][k] = result.commit
      BY <2>1, <3>1
    <3> QED
      BY <1>3, <2>2, <3>2 DEF NotifiedOK
  <2>3. CASE ~(result.state = "committed" /\ q = p)
    <3>1. notified'[q] = notified[q]
      BY SMTT(40), <1>1, <1>2, <2>3 DEF TypeOK
    <3> QED
      BY <3>1 DEF NotifiedOK
  <2> QED
    BY <2>2, <2>3
<1>8. TimerOK' /\ TimerWasCast'
  BY SMTT(40), <1>1, <1>2 DEF TimerOK, TimerWasCast, TypeOK
<1> QED
  BY SMTT(40), <1>2, <1>4, <1>5, <1>6, <1>7, <1>8 DEF VotedOnce

LEMMA NextIInv ==
    ASSUME OwnKeys, IInv, [Next]_vars
    PROVE  IInv'
<1>1. ASSUME NEW p \in Peer, NEW h \in Hash, Vote(p, h)
      PROVE  IInv'
  BY <1>1, VoteIInv
<1>2. ASSUME NEW p \in Peer, Timeout(p)
      PROVE  IInv'
  BY <1>2, TimeoutIInv
<1>3. ASSUME NEW m \in net, OnVote(m)
      PROVE  IInv'
  BY <1>3, OnVoteIInv
<1>4. ASSUME NEW m \in net, OnCommit(m)
      PROVE  IInv'
  BY <1>4, OnCommitIInv
<1>5. CASE UNCHANGED vars
  <2>1. VotersOf' = VotersOf
    BY <1>5 DEF vars, VotersOf
  <2>2. TypeOK'
    BY <1>5 DEF vars, IInv, TypeOK
  <2>3. NetOK' /\ StoragesOK' /\ NotifiedOK'
    BY SMTT(40), <1>5, <2>1 DEF vars, IInv, NetOK, StoragesOK, NotifiedOK
  <2>4. TimerOK' /\ TimerWasCast' /\ VotedOnce'
    BY <1>5 DEF vars, IInv, TimerOK, TimerWasCast, VotedOnce
  <2> QED
    BY <2>2, <2>3, <2>4 DEF IInv
<1> QED
  BY <1>1, <1>2, <1>3, <1>4, <1>5 DEF Next

\* The HashGate counts as Yac does.
LEMMA GateCounts ==
    /\ \A S : Gate!Cardinality(S) = Cardinality(S)
    /\ Gate!N = N
<1>1. ASSUME NEW S
      PROVE  Gate!Cardinality(S) = Cardinality(S)
  BY DEF Gate!Cardinality, Cardinality
<1> QED
  BY <1>1 DEF Gate!N, N

\* A proof is a supermajority of the peers that voted.
LEMMA ProofMeansVoters ==
    ASSUME OwnKeys, NEW c \in Commit, ProofIn(c, VotersOf, N)
    PROVE  /\ hasSupermajority(Cardinality(Gate!Voters(c.hash)), N)
           /\ 3 * Cardinality(Gate!Voters(c.hash)) > 2 * N
<1>1. Gate!Voters(c.hash) = VotersOf[c.hash]
  BY DEF Gate!Voters, VotersOf, Commit
<1>2. Gate!Voters(c.hash) \in SUBSET Peer
  BY DEF Gate!Voters
<1>3. hasSupermajority(Cardinality(Gate!Voters(c.hash)), N)
  BY SMTT(40), <1>1, <1>2, PeerAssumption, SupermajorityGrows DEF ProofIn, N
<1>4. Cardinality(Gate!Voters(c.hash)) \in Nat /\ N \in Nat
  BY <1>2, PeerAssumption, SubsetCardinality, FS_CardinalityType DEF N
<1> QED
  BY <1>3, <1>4 DEF hasSupermajority

\* Every step of Yac is a step of the HashGate or leaves it alone.
LEMMA StepRefines ==
    ASSUME OwnKeys, IInv, [Next]_vars
    PROVE  [Gate!Next]_Gate!vars
<1> DEFINE decided == [p \in Peer |-> Decided(p)]
<1>1. ASSUME NEW p \in Peer, NEW h \in Hash, Vote(p, h)
      PROVE  Gate!vote(p, h)
  BY SMTT(40), <1>1 DEF Vote, Gate!vote, Decided
<1>2. ASSUME UNCHANGED <<cast, notified>>
      PROVE  UNCHANGED Gate!vars
  BY <1>2 DEF Gate!vars, Decided
<1>3. ASSUME NEW m \in net, OnCommit(m)
      PROVE  UNCHANGED Gate!vars \/ \E p \in Peer, h \in Hash : Gate!on_commit(p, h)
  <2> DEFINE p      == m.to
             result == applyCommitResult(vote_storage[p], m.hash, m.votes, N)
             c      == result.commit
  <2>1. p \in Peer /\ ResultOK(result, VotersOf, N)
    BY SMTT(40), <1>3, OnCommitResult
  <2>2. CASE result.state # "committed"
    BY <1>2, <1>3, <2>2 DEF OnCommit
  <2>3. CASE result.state = "committed"
    <3>1. c \in Commit /\ ProofIn(c, VotersOf, N)
      BY SMTT(40), <2>1, <2>3 DEF ResultOK, StorageResult
    <3>2. notified' = [notified EXCEPT ![p] = Append(notified[p], c)] /\ cast' = cast
      BY <1>3, <2>3 DEF OnCommit
    <3> HIDE DEF result
    <3>3. c.hash \in Hash
      BY <3>1 DEF Commit
    <3>4. decided' = [decided EXCEPT ![p] = @ \cup {c.hash}]
      <4>1. ASSUME NEW q \in Peer
            PROVE  Decided(q)' = IF q = p THEN Decided(p) \cup {c.hash} ELSE Decided(q)
        <5>1. notified[q] \in Seq(Commit)
          BY DEF IInv, TypeOK
        <5>2. CASE q # p
          BY SMTT(40), <2>1, <3>2, <5>2 DEF Decided, IInv, TypeOK
        <5>3. CASE q = p
          <6>1. notified'[p] = Append(notified[p], c)
            BY <2>1, <3>2 DEF IInv, TypeOK
          <6>2. /\ DOMAIN notified'[p] = DOMAIN notified[p] \cup {Len(notified[p]) + 1}
                /\ notified'[p][Len(notified[p]) + 1] = c
                /\ \A k \in DOMAIN notified[p] : notified'[p][k] = notified[p][k]
            BY SMTT(40), <3>1, <5>1, <5>3, <6>1
          <6> QED
            BY <5>3, <6>2 DEF Decided
        <5> QED
          BY <5>2, <5>3
      <4> QED
        BY ZenonT(60), <2>1, <4>1
    <3>5. 3 * Cardinality(Gate!Voters(c.hash)) > 2 * N
      BY <3>1, ProofMeansVoters
    <3>6. 3 * Gate!Cardinality(Gate!Voters(c.hash)) > 2 * Gate!N
      BY <3>5, GateCounts
    <3>7. Gate!on_commit(p, c.hash)
      BY <3>2, <3>4, <3>6 DEF Gate!on_commit
    <3> QED
      BY <2>1, <3>3, <3>7
  <2> QED
    BY SMTT(40), <2>2, <2>3
<1>4. ASSUME NEW p \in Peer, Timeout(p)
      PROVE  UNCHANGED Gate!vars
  BY <1>2, <1>4 DEF Timeout
<1>5. ASSUME NEW m \in net, OnVote(m)
      PROVE  UNCHANGED Gate!vars
  BY <1>2, <1>5 DEF OnVote
<1>6. CASE UNCHANGED vars
  BY <1>2, <1>6 DEF vars
<1> QED
  BY <1>1, <1>3, <1>4, <1>5, <1>6 DEF Next, Gate!Next

LEMMA InitRefines ==
    ASSUME Init
    PROVE  Gate!Init
BY DEF Init, Gate!Init, Decided

\* TypeOK: every reachable state is well typed.
THEOREM YacTypeOK ==
    ASSUME OwnKeys
    PROVE  Spec => []TypeOK
<1>1. Init => IInv
  BY InitIInv
<1>2. IInv /\ [Next]_vars => IInv'
  BY NextIInv
<1>3. IInv => TypeOK
  BY DEF IInv
<1> QED
  BY <1>1, <1>2, <1>3, PTL DEF Spec

\* GateSpec: whatever the order of deliveries, losses and timeouts, Yac reports
\* only hashes that a supermajority of the peers voted for.
THEOREM YacImplementsGate ==
    ASSUME OwnKeys
    PROVE  Spec => GateSpec
<1>1. Init => IInv /\ Gate!Init
  BY InitIInv, InitRefines
<1>2. IInv /\ [Next]_vars => IInv'
  BY NextIInv
<1>3. IInv /\ [Next]_vars => [Gate!Next]_Gate!vars
  BY StepRefines
<1> QED
  BY <1>1, <1>2, <1>3, PTL DEF Spec, GateSpec, Gate!Spec

\* Two reported hashes have the votes of more than a third of the peers in
\* common.
LEMMA IInvOverlap ==
    ASSUME OwnKeys, IInv,
           NEW p \in Peer, NEW q \in Peer,
           NEW h \in Decided(p), NEW g \in Decided(q)
    PROVE  3 * Cardinality(Gate!Voters(h) \cap Gate!Voters(g)) >= N + 2
<1>1. ASSUME NEW r \in Peer, NEW e \in Decided(r)
      PROVE  hasSupermajority(Cardinality(Gate!Voters(e)), N)
  <2>1. PICK k \in DOMAIN notified[r] : e = notified[r][k].hash
    BY DEF Decided
  <2>2. notified[r] \in Seq(Commit)
    BY DEF IInv, TypeOK
  <2>3. notified[r][k] \in Commit
    BY <2>2
  <2>4. ProofIn(notified[r][k], VotersOf, N)
    BY DEF IInv, NotifiedOK
  <2> QED
    BY <2>1, <2>3, <2>4, ProofMeansVoters
<1>2. Gate!Voters(h) \in SUBSET Peer /\ Gate!Voters(g) \in SUBSET Peer
  BY DEF Gate!Voters
<1> QED
  BY <1>1, <1>2, PeerAssumption, SupermajoritiesOverlap DEF N

\* Agreement: two peers report different blocks of one height only if more
\* than a third of the peers voted for both.
THEOREM YacAgreement ==
    ASSUME OwnKeys
    PROVE  Spec => []Agreement
<1>1. Init => IInv
  BY InitIInv
<1>2. IInv /\ [Next]_vars => IInv'
  BY NextIInv
<1>3. IInv => Agreement
  BY IInvOverlap, GateCounts DEF Agreement, Gate!Agreement
<1> QED
  BY <1>1, <1>2, <1>3, PTL DEF Spec

\* Consistency: if every peer votes once per height, all the peers report the
\* same block of each height.
THEOREM YacConsistency ==
    ASSUME OwnKeys
    PROVE  Spec => []Consistency
<1>1. Init => IInv
  BY InitIInv
<1>2. IInv /\ [Next]_vars => IInv'
  BY NextIInv
<1>3. ASSUME IInv, ~Revote,
             NEW p \in Peer, NEW q \in Peer,
             NEW h \in Decided(p), NEW g \in Decided(q),
             height[h] = height[g]
      PROVE  h = g
  <2>1. 3 * Cardinality(Gate!Voters(h) \cap Gate!Voters(g)) >= N + 2
    BY <1>3, IInvOverlap
  <2>2. Gate!Voters(h) \cap Gate!Voters(g) # {}
    <3>1. N \in Nat
      BY PeerCount
    <3> SUFFICES ASSUME Gate!Voters(h) \cap Gate!Voters(g) = {}
                 PROVE  FALSE
      OBVIOUS
    <3>2. Cardinality(Gate!Voters(h) \cap Gate!Voters(g)) = 0
      BY FS_EmptySet
    <3> QED
      BY <2>1, <3>1, <3>2
  <2>3. PICK r \in Peer : h \in cast[r] /\ g \in cast[r]
    BY <2>2 DEF Gate!Voters
  <2> QED
    BY <1>3, <2>3 DEF IInv, VotedOnce
<1>4. IInv => Consistency
  BY <1>3 DEF Consistency, Gate!Consistency
<1> QED
  BY <1>1, <1>2, <1>4, PTL DEF Spec
=============================================================================
