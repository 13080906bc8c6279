CONSTANTS
    Peer = {p1, p2, p3, p4}
    Tx = {x, y}
    Valid = {x, y}
    max_size = 1
    Thread = {t1}
    NoBlock = NoBlock
SPECIFICATION Spec
SYMMETRY Symmetric
INVARIANTS EmitsCommittedBlocks
CHECK_DEADLOCK FALSE
