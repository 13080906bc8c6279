-------------------------- MODULE YacStorageProofs --------------------------
(***************************************************************************)
(* The vote storage never answers with more than it was given: if every    *)
(* vote inserted for a hash h is in C[h], so are the votes of every answer *)
(* about h, and an answer always has a supermajority of them.              *)
(***************************************************************************)
EXTENDS YacStorage, FiniteSetTheorems, TLAPS

\* A commit whose votes were all given and are a supermajority.
ProofIn(c, C, all) ==
    /\ c.votes \subseteq C[c.hash]
    /\ hasSupermajority(Cardinality(c.votes), all)

\* A result has an answer exactly when it is decided, and the answer is a proof.
ResultOK(r, C, all) ==
    /\ r \in StorageResult
    /\ r.state = "not_committed" <=> r.commit = nullopt
    /\ r.commit # nullopt => ProofIn(r.commit, C, all)

\* A block storage holds votes that were given, and a supermajority of them
\* once it is decided.
BlockOK(b, h, C, all) ==
    /\ b \in BlockStorage
    /\ b.votes \subseteq C[h]
    /\ ResultOK(b.current_state, C, all)
    /\ b.current_state.state # "not_committed"
          => hasSupermajority(Cardinality(b.votes), all)

ProposalOK(ps, C, all) ==
    /\ ps \in ProposalStorage
    /\ ps.peers_in_round \in {0, all}
    /\ ResultOK(ps.current_state, C, all)
    /\ \A h \in Hash : BlockOK(ps.block_votes[h], h, C, all)

StorageOK(vs, C, all) ==
    /\ vs \in VoteStorage
    /\ \A ph \in ProposalHash : ProposalOK(vs[ph], C, all)

\* What the operations are applied to: votes given so far and a number of
\* peers that is at least the number of signers.
Given(C, all) ==
    /\ C \in [Hash -> SUBSET Voter]
    /\ all \in Nat \ {0}
    /\ Cardinality(Voter) <= all

\* Cardinalities of sets of votes are naturals up to the number of signers.
LEMMA VoteSets ==
    ASSUME NEW S \in SUBSET Voter
    PROVE  /\ IsFiniteSet(S)
           /\ Cardinality(S) \in Nat
           /\ Cardinality(Voter) \in Nat
           /\ Cardinality(S) <= Cardinality(Voter)
BY VoterAssumption, FS_Subset, FS_CardinalityType

\* Among at most as many signers as peers, more votes keep a supermajority.
LEMMA MoreVotes ==
    ASSUME NEW T \in SUBSET Voter, NEW n \in Nat, NEW all \in Nat,
           Cardinality(Voter) <= all,
           n <= Cardinality(T),
           hasSupermajority(n, all)
    PROVE  hasSupermajority(Cardinality(T), all)
BY VoteSets DEF hasSupermajority

\* The result after an insertion is a proof if the insertion reached a
\* supermajority or the storage was decided before.
LEMMA StateAfterInsertOK ==
    ASSUME NEW C, NEW all, Given(C, all),
           NEW h \in Hash, NEW r, ResultOK(r, C, all),
           NEW votes \in SUBSET C[h], NEW majority \in BOOLEAN,
           majority \/ r.state # "not_committed"
              => hasSupermajority(Cardinality(votes), all)
    PROVE  LET s == StateAfterInsert(r, h, votes, majority)
           IN  /\ ResultOK(s, C, all)
               /\ s.state # "not_committed"
                     => hasSupermajority(Cardinality(votes), all)
<1> DEFINE c == [hash |-> h, votes |-> votes]
<1>1. c \in Commit /\ c # nullopt /\ c.votes = votes /\ c.hash = h
  BY NulloptAssumption DEF Commit, Given
<1>2. c.votes \subseteq C[c.hash]
  BY <1>1
<1>3. CASE r.state # "not_committed"
  BY <1>1, <1>2, <1>3
  DEF StateAfterInsert, ResultOK, StorageResult, CommitState, ProofIn
<1>4. CASE r.state = "not_committed" /\ majority
  BY <1>1, <1>2, <1>4
  DEF StateAfterInsert, ResultOK, StorageResult, CommitState, ProofIn
<1>5. CASE r.state = "not_committed" /\ ~majority
  BY <1>5 DEF StateAfterInsert
<1> QED
  BY <1>3, <1>4, <1>5

\* YacBlockStorage::insert(VoteMessage) keeps a block storage sound.
LEMMA InsertVoteOK ==
    ASSUME NEW C, NEW all, Given(C, all),
           NEW h \in Hash, NEW b, BlockOK(b, h, C, all),
           NEW voter \in C[h]
    PROVE  BlockOK(InsertVote(b, h, voter, all), h, C, all)
<1> DEFINE votes == b.votes \cup {voter}
           majority == hasSupermajority(Cardinality(votes), all)
           s == StateAfterInsert(b.current_state, h, votes, majority)
<1>1. CASE voter \in b.votes
  BY <1>1 DEF InsertVote
<1>2. CASE voter \notin b.votes
  <2>1. InsertVote(b, h, voter, all) = [votes |-> votes, current_state |-> s]
    BY <1>2 DEF InsertVote
  <2>2. votes \in SUBSET C[h] /\ votes \in SUBSET Voter /\ b.votes \in SUBSET votes
    BY DEF BlockOK, Given
  <2>3. b.current_state.state # "not_committed" => majority
    <3>1. Cardinality(b.votes) \in Nat /\ Cardinality(b.votes) <= Cardinality(votes)
      BY <2>2, VoteSets, FS_Subset
    <3> QED
      BY <2>2, <3>1, MoreVotes DEF BlockOK, Given
  <2>4. majority \in BOOLEAN
    BY DEF hasSupermajority
  <2>5. ResultOK(b.current_state, C, all)
    BY DEF BlockOK
  <2> HIDE DEF votes, majority
  <2>6. majority => hasSupermajority(Cardinality(votes), all)
    BY DEF majority
  <2>7. /\ ResultOK(s, C, all)
        /\ s.state # "not_committed" => hasSupermajority(Cardinality(votes), all)
    BY ZenonT(60), <2>2, <2>3, <2>4, <2>5, <2>6, StateAfterInsertOK
  <2> HIDE DEF s
  <2> QED
    BY <2>1, <2>2, <2>7 DEF BlockOK, BlockStorage, ResultOK
<1> QED
  BY <1>1, <1>2

\* YacBlockStorage::insert(CommitMessage) keeps a block storage sound, and
\* what it returns is a proof or nothing.
LEMMA InsertCommitOK ==
    ASSUME NEW C, NEW all, Given(C, all),
           NEW h \in Hash, NEW b, BlockOK(b, h, C, all),
           NEW votes \in SUBSET C[h]
    PROVE  /\ BlockOK(InsertCommit(b, h, votes, all), h, C, all)
           /\ ResultOK(InsertCommitResult(b, h, votes, all), C, all)
<1> DEFINE new == b.votes \cup votes
           majority == \E n \in Cardinality(b.votes) + 1 .. Cardinality(new) :
                          hasSupermajority(n, all)
           s == StateAfterInsert(b.current_state, h, new, majority)
<1>1. BlockOK(InsertCommit(b, h, votes, all), h, C, all)
  <2>1. CASE ~checkCommitScheme(votes, all) \/ new = b.votes
    BY <2>1 DEF InsertCommit
  <2>2. CASE checkCommitScheme(votes, all) /\ new # b.votes
    <3>1. InsertCommit(b, h, votes, all) = [votes |-> new, current_state |-> s]
      BY <2>2 DEF InsertCommit
    <3>2. new \in SUBSET C[h] /\ new \in SUBSET Voter /\ b.votes \in SUBSET new
      BY DEF BlockOK, Given
    <3>3. /\ Cardinality(b.votes) \in Nat
          /\ Cardinality(b.votes) <= Cardinality(new)
          /\ Cardinality(new) \in Nat
      BY <3>2, VoteSets, FS_Subset
    <3>4. ResultOK(b.current_state, C, all)
      BY DEF BlockOK
    <3>5. b.current_state.state # "not_committed"
             => hasSupermajority(Cardinality(new), all)
      BY <3>2, <3>3, MoreVotes DEF BlockOK, Given
    <3>6. majority => hasSupermajority(Cardinality(new), all)
      <4> SUFFICES ASSUME NEW n \in Cardinality(b.votes) + 1 .. Cardinality(new),
                          hasSupermajority(n, all)
                   PROVE  hasSupermajority(Cardinality(new), all)
        OBVIOUS
      <4>1. n \in Nat /\ n <= Cardinality(new)
        BY <3>3
      <4> QED
        BY <3>2, <4>1, MoreVotes DEF Given
    <3>7. majority \in BOOLEAN
      OBVIOUS
    <3> HIDE DEF new, majority
    <3>8. /\ ResultOK(s, C, all)
          /\ s.state # "not_committed" => hasSupermajority(Cardinality(new), all)
      BY ZenonT(60), <3>2, <3>4, <3>5, <3>6, <3>7, StateAfterInsertOK
    <3> HIDE DEF s
    <3> QED
      BY <3>1, <3>2, <3>8 DEF BlockOK, BlockStorage, ResultOK
  <2> QED
    BY <2>1, <2>2
<1>2. ResultOK(EmptyResult, C, all)
  BY DEF ResultOK, EmptyResult, StorageResult, CommitState
<1> QED
  BY <1>1, <1>2 DEF InsertCommitResult, BlockOK

\* A storage that was just created is sound.
LEMMA NewStorageOK ==
    ASSUME NEW C, NEW all, Given(C, all)
    PROVE  StorageOK(NewVoteStorage, C, all)
<1>1. ResultOK(EmptyResult, C, all)
  BY DEF ResultOK, EmptyResult, StorageResult, CommitState
<1>2. ASSUME NEW h \in Hash
      PROVE  BlockOK(NewBlockStorage, h, C, all)
  BY <1>1 DEF BlockOK, NewBlockStorage, BlockStorage, ResultOK, EmptyResult
<1>3. NewBlockStorage \in BlockStorage
  BY <1>1 DEF NewBlockStorage, BlockStorage, ResultOK
<1>4. NewProposalStorage \in ProposalStorage
  BY <1>1, <1>3 DEF NewProposalStorage, ProposalStorage, ResultOK
<1>5. ProposalOK(NewProposalStorage, C, all)
  BY <1>1, <1>2, <1>4 DEF ProposalOK, NewProposalStorage
<1> QED
  BY <1>4, <1>5 DEF StorageOK, NewVoteStorage, VoteStorage

\* More given votes leave a sound storage sound.
LEMMA StorageOKGrows ==
    ASSUME NEW C, NEW D, NEW all, NEW vs, StorageOK(vs, C, all),
           \A h \in Hash : C[h] \subseteq D[h]
    PROVE  StorageOK(vs, D, all)
<1>1. ASSUME NEW r, ResultOK(r, C, all)
      PROVE  ResultOK(r, D, all)
  <2>1. CASE r.commit = nullopt
    BY <1>1, <2>1 DEF ResultOK
  <2>2. CASE r.commit # nullopt
    <3>1. r.commit.hash \in Hash
      BY <1>1, <2>2 DEF ResultOK, StorageResult, Commit
    <3> QED
      BY <1>1, <2>2, <3>1 DEF ResultOK, ProofIn
  <2> QED
    BY <2>1, <2>2
<1>2. ASSUME NEW b, NEW h \in Hash, BlockOK(b, h, C, all)
      PROVE  BlockOK(b, h, D, all)
  BY <1>1, <1>2 DEF BlockOK
<1>3. ASSUME NEW ps, ProposalOK(ps, C, all)
      PROVE  ProposalOK(ps, D, all)
  BY <1>1, <1>2, <1>3 DEF ProposalOK
<1> QED
  BY <1>3 DEF StorageOK

\* findProposalStorage keeps a sound storage sound, and the proposal it
\* returns has the number of peers it was given.
LEMMA FindProposalStorageOK ==
    ASSUME NEW C, NEW all, Given(C, all),
           NEW vs, StorageOK(vs, C, all), NEW ph \in ProposalHash
    PROVE  LET fs == findProposalStorage(vs, ph, all)
           IN  StorageOK(fs, C, all) /\ fs[ph].peers_in_round = all
<1>1. vs[ph] \in ProposalStorage /\ ProposalOK(vs[ph], C, all)
  BY DEF StorageOK, VoteStorage
<1>2. CASE vs[ph].peers_in_round = 0
  <2> DEFINE ps == [vs[ph] EXCEPT !.peers_in_round = all]
  <2>1. findProposalStorage(vs, ph, all) = [vs EXCEPT ![ph] = ps]
    BY <1>2 DEF findProposalStorage
  <2>2. /\ ps \in ProposalStorage
        /\ ps.peers_in_round = all
        /\ ps.current_state = vs[ph].current_state
        /\ ps.block_votes = vs[ph].block_votes
    BY <1>1 DEF ProposalStorage, Given
  <2>3. ProposalOK(ps, C, all)
    BY <1>1, <2>2 DEF ProposalOK
  <2> HIDE DEF ps
  <2> QED
    BY <2>1, <2>2, <2>3 DEF StorageOK, VoteStorage
<1>3. CASE vs[ph].peers_in_round # 0
  BY <1>1, <1>3 DEF findProposalStorage, ProposalOK
<1> QED
  BY <1>2, <1>3

\* Replacing a block storage and the state of a sound proposal by sound ones
\* gives a sound proposal.
LEMMA ReplaceBlockOK ==
    ASSUME NEW C, NEW all, NEW ps, ProposalOK(ps, C, all),
           NEW h \in Hash, NEW b, BlockOK(b, h, C, all),
           NEW r, ResultOK(r, C, all)
    PROVE  ProposalOK([ps EXCEPT !.block_votes[h] = b, !.current_state = r], C, all)
<1> DEFINE new == [ps EXCEPT !.block_votes[h] = b, !.current_state = r]
<1>1. /\ ps \in ProposalStorage
      /\ b \in BlockStorage
      /\ r \in StorageResult
  BY DEF ProposalOK, BlockOK, ResultOK
<1>2. /\ new \in ProposalStorage
      /\ new.peers_in_round = ps.peers_in_round
      /\ new.current_state = r
      /\ new.block_votes = [ps.block_votes EXCEPT ![h] = b]
  BY ZenonT(60), <1>1 DEF ProposalStorage
<1>3. ASSUME NEW g \in Hash
      PROVE  BlockOK(new.block_votes[g], g, C, all)
  BY <1>1, <1>2 DEF ProposalOK, ProposalStorage
<1> HIDE DEF new
<1>4. ProposalOK(new, C, all)
  BY <1>2, <1>3 DEF ProposalOK
<1> QED
  BY <1>4 DEF new

\* YacVoteStorage::storeVote: inserting a given vote keeps the storage sound,
\* and the returned result is a proof or nothing.
THEOREM StoreVoteOK ==
    ASSUME NEW C, NEW all, Given(C, all),
           NEW vs, StorageOK(vs, C, all),
           NEW h \in Hash, NEW voter \in C[h]
    PROVE  /\ StorageOK(storeVote(vs, h, voter, all), C, all)
           /\ ResultOK(storeVoteResult(vs, h, voter, all), C, all)
<1> DEFINE ph == proposal_hash[h]
           fs == findProposalStorage(vs, ph, all)
           ps == fs[ph]
           b  == InsertVote(ps.block_votes[h], h, voter, ps.peers_in_round)
           r  == IF b.current_state.state = "not_committed"
                 THEN ps.current_state ELSE b.current_state
           new == [ps EXCEPT !.block_votes[h] = b, !.current_state = r]
<1>1. ph \in ProposalHash
  BY HashAssumption
<1>2. StorageOK(fs, C, all) /\ ps.peers_in_round = all
  BY <1>1, FindProposalStorageOK
<1>3. ProposalOK(ps, C, all)
  BY <1>1, <1>2 DEF StorageOK
<1>4. BlockOK(b, h, C, all)
  BY <1>2, <1>3, InsertVoteOK DEF ProposalOK
<1>5. ResultOK(r, C, all)
  BY ZenonT(60), <1>3, <1>4 DEF ProposalOK, BlockOK
<1>6. ProposalInsert(ps, h, voter) = new
  BY DEF ProposalInsert
<1>7. storeVote(vs, h, voter, all) = [fs EXCEPT ![ph] = new]
  BY <1>6 DEF storeVote
<1> HIDE DEF b, r
<1>8. ProposalOK(new, C, all)
  BY ZenonT(60), <1>3, <1>4, <1>5, ReplaceBlockOK
<1> HIDE DEF new, ps, fs, ph
<1>9. /\ [fs EXCEPT ![ph] = new] \in VoteStorage
      /\ [fs EXCEPT ![ph] = new][ph] = new
      /\ \A o \in ProposalHash : ProposalOK([fs EXCEPT ![ph] = new][o], C, all)
  BY <1>1, <1>2, <1>8 DEF StorageOK, VoteStorage, ProposalOK
<1> QED
  BY <1>7, <1>8, <1>9 DEF StorageOK, storeVoteResult, ph, ProposalOK

\* YacVoteStorage::applyCommit: inserting a commit of given votes keeps the
\* storage sound, and the returned result is a proof or nothing.
THEOREM ApplyCommitOK ==
    ASSUME NEW C, NEW all, Given(C, all),
           NEW vs, StorageOK(vs, C, all),
           NEW h \in Hash, NEW votes \in SUBSET C[h]
    PROVE  /\ StorageOK(applyCommit(vs, h, votes, all), C, all)
           /\ ResultOK(applyCommitResult(vs, h, votes, all), C, all)
<1> DEFINE ph == proposal_hash[h]
           fs == findProposalStorage(vs, ph, all)
           ps == fs[ph]
           b  == InsertCommit(ps.block_votes[h], h, votes, ps.peers_in_round)
           a  == InsertCommitResult(ps.block_votes[h], h, votes, ps.peers_in_round)
           r  == IF a.state = "committed" THEN a ELSE ps.current_state
           new == [ps EXCEPT !.block_votes[h] = b, !.current_state = r]
<1>1. ph \in ProposalHash
  BY HashAssumption
<1>2. StorageOK(fs, C, all) /\ ps.peers_in_round = all
  BY <1>1, FindProposalStorageOK
<1>3. ProposalOK(ps, C, all)
  BY <1>1, <1>2 DEF StorageOK
<1>4. BlockOK(b, h, C, all) /\ ResultOK(a, C, all)
  BY <1>2, <1>3, InsertCommitOK DEF ProposalOK
<1>5. ResultOK(r, C, all)
  BY SMTT(40), <1>3, <1>4 DEF ProposalOK
<1>6. ProposalApplyCommit(ps, h, votes) = new
  BY DEF ProposalApplyCommit
<1>7. /\ applyCommit(vs, h, votes, all)
            = IF votes = {} THEN vs ELSE [fs EXCEPT ![ph] = new]
      /\ applyCommitResult(vs, h, votes, all)
            = IF votes = {} THEN EmptyResult ELSE a
  BY <1>6 DEF applyCommit, applyCommitResult
<1>8. ResultOK(EmptyResult, C, all)
  BY DEF ResultOK, EmptyResult, StorageResult, CommitState
<1> HIDE DEF a, b, r
<1>9. ProposalOK(new, C, all)
  BY ZenonT(60), <1>3, <1>4, <1>5, ReplaceBlockOK
<1> HIDE DEF new, ps, fs, ph
<1>10. /\ [fs EXCEPT ![ph] = new] \in VoteStorage
       /\ \A o \in ProposalHash : ProposalOK([fs EXCEPT ![ph] = new][o], C, all)
  BY <1>1, <1>2, <1>9 DEF StorageOK, VoteStorage, ProposalOK
<1> QED
  BY <1>4, <1>7, <1>8, <1>10 DEF StorageOK
=============================================================================
