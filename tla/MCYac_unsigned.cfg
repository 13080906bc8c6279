CONSTANTS
    p1 = p1
    p2 = p2
    p3 = p3
    p4 = p4
    h1 = h1
    h2 = h2
    Peer = {p1, p2}
    Voter = {p1, p2}
    Up = {p1, p2}
    Order <- Order2
    Hash = {h1, h2}
    ProposalHash = {h1, h2}
    proposal_hash <- SameHash
    height <- TwoHeights
    getVote <- AnyKey
    Revote = FALSE
    MaxLeader = 2
    NoHash = NoHash
    nullopt = nullopt
SPECIFICATION Spec
INVARIANTS TypeOK
PROPERTIES GateSpec
CHECK_DEADLOCK FALSE
