----------------------------- MODULE YacStorage -----------------------------
(***************************************************************************)
(* The vote storage of Yac (irohad/consensus/yac/storage): the state a     *)
(* peer keeps for every proposal, as records, and its operations, as       *)
(* operators from a storage to the updated storage and the returned        *)
(* StorageResult.                                                          *)
(*                                                                         *)
(* A VoteMessage is a pair of a YacHash and the signature of its signer;   *)
(* inside one block storage the hash is fixed, so a vote is its signer.    *)
(* The code keeps votes_ as a vector without duplicates whose order is     *)
(* never read, so it is a set here.                                        *)
(*                                                                         *)
(* hasRejectProof() and applyReject() are stubs (return false, return an   *)
(* empty result): no RejectMessage is ever built, and the answer of a      *)
(* StorageResult is a commit or nothing.                                   *)
(***************************************************************************)
EXTENDS YacCommon, FiniteSets

CONSTANTS Voter,          \* signers of votes: the peers' keys
          Hash,           \* YacHash values: a proposal hash and a block hash
          ProposalHash,   \* proposal hashes
          proposal_hash,  \* the proposal_hash field of each YacHash
          nullopt         \* the empty optional

ASSUME VoterAssumption == IsFiniteSet(Voter)

ASSUME HashAssumption == proposal_hash \in [Hash -> ProposalHash]

-----------------------------------------------------------------------------
CommitState == {"not_committed", "committed", "committed_before"}

\* The commit of an Answer: the common hash and the signers, or nothing.
Commit == [hash : Hash, votes : SUBSET Voter]

ASSUME NulloptAssumption == nullopt \notin Commit

StorageResult == [state : CommitState, commit : Commit \cup {nullopt}]

EmptyResult == [state |-> "not_committed", commit |-> nullopt]

BlockStorage == [votes : SUBSET Voter, current_state : StorageResult]

NewBlockStorage == [votes |-> {}, current_state |-> EmptyResult]

ProposalStorage == [peers_in_round : Nat,
                    current_state  : StorageResult,
                    block_votes    : [Hash -> BlockStorage]]

\* peers_in_round = 0 marks a proposal for which no storage exists yet.
NewProposalStorage == [peers_in_round |-> 0,
                       current_state  |-> EmptyResult,
                       block_votes    |-> [h \in Hash |-> NewBlockStorage]]

VoteStorage == [ProposalHash -> ProposalStorage]

NewVoteStorage == [ph \in ProposalHash |-> NewProposalStorage]
-----------------------------------------------------------------------------
(* YacBlockStorage                                                         *)

\* Variant: the answer is not updated after the decision.
StateAfterInsert_firstAnswer(result, h, votes, majority) ==
    IF result.state # "not_committed"
    THEN [result EXCEPT !.state = "committed_before"]
    ELSE IF majority
         THEN [state |-> "committed", commit |-> [hash |-> h, votes |-> votes]]
         ELSE result

\* The result once the storage of hash h was extended to votes; majority says
\* whether a supermajority was reached while extending it.
StateAfterInsert(result, h, votes, majority) ==
    LET commit == [hash |-> h, votes |-> votes]
    IN  IF result.state # "not_committed"
        THEN [state |-> "committed_before", commit |-> commit]
        ELSE IF majority THEN [state |-> "committed", commit |-> commit]
                         ELSE result

\* insert(VoteMessage): a vote that is already there changes nothing.
InsertVote(b, h, voter, all) ==
    LET votes    == b.votes \cup {voter}
        majority == hasSupermajority(Cardinality(votes), all)
    IN  IF voter \in b.votes
        THEN b
        ELSE [votes         |-> votes,
              current_state |->
                 StateAfterInsert(b.current_state, h, votes, majority)]

\* checkCommitScheme(commit): every commit of the model has one common hash,
\* so only the number of votes is left to test.
checkCommitScheme(votes, all) == hasSupermajority(Cardinality(votes), all)

\* Variant: a commit without new votes is taken for one with new votes.
InsertCommit_noNews(b, h, votes, all) ==
    LET new      == b.votes \cup votes
        majority == hasSupermajority(Cardinality(new), all)
    IN  IF ~checkCommitScheme(votes, all)
        THEN b
        ELSE [votes         |-> new,
              current_state |->
                 StateAfterInsert(b.current_state, h, new, majority)]

\* Variant: the state is set back to committed whatever it was before.
InsertCommit_setBack(b, h, votes, all) ==
    LET new == b.votes \cup votes
    IN  IF ~checkCommitScheme(votes, all)
        THEN b
        ELSE [votes         |-> new,
              current_state |-> [state  |-> "committed",
                                 commit |-> [hash |-> h, votes |-> new]]]

\* insert(CommitMessage): the votes are inserted one after the other. The
\* storage becomes committed if it was not and one of the sizes it goes
\* through is a supermajority; the votes after that one turn it into
\* committed_before, which the code sets back to committed.
InsertCommit(b, h, votes, all) ==
    LET new      == b.votes \cup votes
        majority == \E n \in Cardinality(b.votes) + 1 .. Cardinality(new) :
                       hasSupermajority(n, all)
    IN  IF ~checkCommitScheme(votes, all) \/ new = b.votes
        THEN b
        ELSE [votes         |-> new,
              current_state |->
                 StateAfterInsert(b.current_state, h, new, majority)]

InsertCommitResult(b, h, votes, all) ==
    IF checkCommitScheme(votes, all)
    THEN InsertCommit(b, h, votes, all).current_state
    ELSE EmptyResult
-----------------------------------------------------------------------------
(* YacProposalStorage and YacVoteStorage                                   *)

\* findProposalStorage: the number of peers is the one given with the first
\* message of the proposal.
findProposalStorage(vs, ph, peers) ==
    IF vs[ph].peers_in_round = 0
    THEN [vs EXCEPT ![ph].peers_in_round = peers]
    ELSE vs

\* YacProposalStorage::insert: the state of the block storage becomes the
\* state of the proposal once it is decided.
ProposalInsert(ps, h, voter) ==
    LET b == InsertVote(ps.block_votes[h], h, voter, ps.peers_in_round)
    IN  [ps EXCEPT !.block_votes[h] = b,
                   !.current_state  = IF b.current_state.state = "not_committed"
                                      THEN @
                                      ELSE b.current_state]

storeVote(vs, h, voter, peers) ==
    LET ph == proposal_hash[h]
        fs == findProposalStorage(vs, ph, peers)
    IN  [fs EXCEPT ![ph] = ProposalInsert(@, h, voter)]

storeVoteResult(vs, h, voter, peers) ==
    storeVote(vs, h, voter, peers)[proposal_hash[h]].current_state

\* Variant: the state of the proposal is left alone.
ProposalApplyCommit_blockOnly(ps, h, votes) ==
    [ps EXCEPT !.block_votes[h] = InsertCommit(@, h, votes, ps.peers_in_round)]

\* YacProposalStorage::applyCommit: only a result "committed" becomes the
\* state of the proposal, and the result of the block storage is returned.
ProposalApplyCommit(ps, h, votes) ==
    LET b == InsertCommit(ps.block_votes[h], h, votes, ps.peers_in_round)
        r == InsertCommitResult(ps.block_votes[h], h, votes, ps.peers_in_round)
    IN  [ps EXCEPT !.block_votes[h] = b,
                   !.current_state  = IF r.state = "committed" THEN r ELSE @]

applyCommit(vs, h, votes, peers) ==
    LET ph == proposal_hash[h]
        fs == findProposalStorage(vs, ph, peers)
    IN  IF votes = {} THEN vs
        ELSE [fs EXCEPT ![ph] = ProposalApplyCommit(@, h, votes)]

applyCommitResult(vs, h, votes, peers) ==
    LET ps == findProposalStorage(vs, proposal_hash[h], peers)[proposal_hash[h]]
    IN  IF votes = {} THEN EmptyResult
        ELSE InsertCommitResult(ps.block_votes[h], h, votes, ps.peers_in_round)

\* findProposal(hash): a proposal without storage has no state; for votingStep
\* this is the same as one that is not committed.
findProposal(vs, h) == vs[proposal_hash[h]].current_state
=============================================================================
