\* Four events, a reader, and every fault.
CHECK_DEADLOCK FALSE
SPECIFICATION Spec
CONSTANTS
    e1 = e1
    e2 = e2
    e3 = e3
    e4 = e4
    r1 = r1
    NoHash = NoHash
    Entries = {e1, e2, e3, e4}
    Reporters = {"action-engine", "policy-engine", "client"}
    Readers = {r1}
    Limit = 1
    Retention = 1
    MaxTime = 2
    Faults = {"network", "clock", "crash"}
SYMMETRY Symmetry
INVARIANTS
    TypeOK
    ChainFollowsHistory
    PagingSkipsNothing
