CONSTANTS
    g = g
    b2 = b2
    c2 = c2
    b3 = b3
    Block = {g, b2, c2, b3}
    Genesis = g
    height <- Heights
    prev_hash <- Previous
    zero = zero
    Repeatable = {b2}
    MaxId = 3
    MaxChain = 1
    MaxCrash = 3
    MaxFault = 1
    absent = absent
    partial = partial
    nullptr = nullptr
SPECIFICATION Spec
INVARIANTS TypeOK AgreeUntilRestart Chained GenesisOnce
PROPERTIES CommittedIsOnDisk NeverRewritten
CHECK_DEADLOCK FALSE
