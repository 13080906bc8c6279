---------------------------- MODULE MCYacStorage ----------------------------
(***************************************************************************)
(* One YacVoteStorage under every sequence of insertions: votes of any     *)
(* signer for any block, and commits with any set of votes, also ones that *)
(* no peer of a running system would send. Two blocks share one proposal.  *)
(***************************************************************************)
EXTENDS YacStorage, SequencesExt

CONSTANTS Peers,  \* the number of peers given with every insertion
          x       \* the proposal

OneProposal == [h \in Hash |-> x]

VARIABLE storage

InitStorage == storage = NewVoteStorage

StoreVote(h, v) == storage' = storeVote(storage, h, v, Peers)

ApplyCommit(h, votes) == storage' = applyCommit(storage, h, votes, Peers)

NextStorage ==
    \/ \E h \in Hash : \E v \in Voter : StoreVote(h, v)
    \/ \E h \in Hash : \E votes \in SUBSET Voter : ApplyCommit(h, votes)

SpecStorage == InitStorage /\ [][NextStorage]_storage

-----------------------------------------------------------------------------
\* The loop of YacBlockStorage::insert(CommitMessage) over a sequence of votes,
\* and the correction of the state after it.
InsertEach(b, h, seq) ==
    LET last == FoldLeft(LAMBDA c, v : InsertVote(c, h, v, Peers), b, seq)
    IN  IF /\ b.current_state.state = "not_committed"
           /\ last.current_state.state = "committed_before"
        THEN [last EXCEPT !.current_state.state = "committed"]
        ELSE last

\* InsertCommit is what the loop computes, whatever the order of the votes in
\* the message and whatever was inserted before.
InsertCommitIsTheLoop ==
    \A ph \in ProposalHash : \A h \in Hash : \A votes \in SUBSET Voter :
        LET b == storage[ph].block_votes[h]
        IN  checkCommitScheme(votes, Peers) =>
                \A seq \in SetToSeqs(votes) :
                    InsertCommit(b, h, votes, Peers) = InsertEach(b, h, seq)

Decided(result) == result.state # "not_committed"

\* A block storage answers with a commit exactly when it holds enough votes,
\* and the commit has all the votes it holds: a peer that asks late gets the
\* votes that came after the decision too.
AnswerHasAllVotes ==
    \A ph \in ProposalHash : \A h \in Hash :
        LET b == storage[ph].block_votes[h]
        IN  /\ Decided(b.current_state) <=> 3 * Cardinality(b.votes) >= 2 * Peers + 1
            /\ b.current_state.commit = IF Decided(b.current_state)
                                        THEN [hash |-> h, votes |-> b.votes]
                                        ELSE nullopt

\* A proposal is decided exactly when one of its blocks is, and its answer is
\* a supermajority of votes that the storage of that block holds.
ProposalFollowsBlocks ==
    \A ph \in ProposalHash :
        LET ps == storage[ph]
            c  == ps.current_state.commit
        IN  /\ Decided(ps.current_state) <=>
                  \E h \in Hash : Decided(ps.block_votes[h].current_state)
            /\ Decided(ps.current_state) =>
                  /\ c.votes \subseteq ps.block_votes[c.hash].votes
                  /\ 3 * Cardinality(c.votes) >= 2 * Peers + 1

Rank(result) == CASE result.state = "not_committed"    -> 0
                  [] result.state = "committed"        -> 1
                  [] result.state = "committed_before" -> 2

\* No insertion takes back a vote, the decision of a proposal or the state of
\* a block storage.
NothingIsTakenBack ==
    [][\A ph \in ProposalHash :
         /\ Decided(storage[ph].current_state) => Decided(storage'[ph].current_state)
         /\ \A h \in Hash :
              LET old == storage[ph].block_votes[h]
                  new == storage'[ph].block_votes[h]
              IN  /\ old.votes \subseteq new.votes
                  /\ Rank(old.current_state) <= Rank(new.current_state)]_storage
=============================================================================
