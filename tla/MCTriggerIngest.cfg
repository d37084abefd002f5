CONSTANTS
    d1 = d1
    d2 = d2
    d3 = d3
    d4 = d4
    k1 = k1
    k2 = k2
    Deliveries = {d1, d2, d3, d4}
    Key = {k1, k2}
    KeyOf <- SomeKeys
    TTL = 1
    MaxTime = 2
SPECIFICATION Spec
SYMMETRY SameVideo
CHECK_DEADLOCK FALSE
INVARIANTS
    TypeOK
    LoneTriggerOnce
    DuplicateOfAccepted
    NotDroppedLate
