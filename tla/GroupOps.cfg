SPECIFICATION Spec
SYMMETRY Calls
CONSTANTS
    Call = {c1, c2, c3}
    NoCall = NoCall
    MaxCallFaults = 2
    Rate = 1
    Capacity = 2
    Cost = 1
    Ttl = 2
    MaxSkew = 1
    MaxTime = 3
INVARIANTS TypeOK OneGroupOp NoOrphanLock RequestsApart GrantsBounded
CHECK_DEADLOCK FALSE
