CONSTANTS
    x = x
    Voter = {v1, v2, v3, v4, v5}
    Hash = {a, b}
    ProposalHash = {x}
    proposal_hash <- OneProposal
    nullopt = nullopt
    Peers = 4
SPECIFICATION SpecStorage
INVARIANTS InsertCommitIsTheLoop AnswerHasAllVotes ProposalFollowsBlocks
PROPERTIES NothingIsTakenBack
