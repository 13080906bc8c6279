CONSTANTS
    Peer = {p1, p2, p3, p4}
    Tx = {x, y, z}
    Valid = {x, y}
    max_size = 2
    Thread = {t1}
    NoBlock = NoBlock
SPECIFICATION Spec
SYMMETRY Symmetric
INVARIANTS VotesOncePerHeight LedgersAgree LedgerIsVoted LedgerKeepsOrder

CHECK_DEADLOCK FALSE
