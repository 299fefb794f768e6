SPECIFICATION FairSpec
CONSTANTS
    i1 = i1
    j1 = j1
    j2 = j2
    w1 = w1
    w2 = w2
    idle = idle
    unused = unused
    Invoices = {i1}
    Jobs = {j1, j2}
    Workers = {w1, w2}
    MaxRetries = 2
    MaxFaults = 2
    Idle = idle
    Unused = unused
INVARIANTS
    AcceptedIsSomewhere
    OneMailPerRequest
PROPERTIES
    EveryChainEnds
    ImplementsChains
CHECK_DEADLOCK FALSE
