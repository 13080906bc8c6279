CONSTANTS
    p1 = p1
    p2 = p2
    p3 = p3
    p4 = p4
    h1 = h1
    h2 = h2
    Peer = {p1, p2, p3, p4}
    Voter = {p1, p2, p3, p4}
    Up = {p2, p3, p4}
    Order <- Order4
    Hash = {h1}
    ProposalHash = {h1}
    proposal_hash <- SameHash
    height <- OneHeight
    getVote <- OwnKey
    Revote = FALSE
    MaxLeader = 2
    NoHash = NoHash
    nullopt = nullopt
SPECIFICATION FairSpec
PROPERTIES EveryoneDecides
CHECK_DEADLOCK FALSE
