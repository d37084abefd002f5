SPECIFICATION FairSpec
CONSTANTS
    Zone = {1, 2}
    WireKey = {wire1}
    MaxSessions = 2
    MaxJobs = 2
    CloseGrace = 1
    CloseTimeout = 1
    StallTimeout = 2
    KeepSessions = 1
    BlockPayment = TRUE
    Seqs <- FirstSeq
    Watermarks <- ReachFirst
    Expectations <- ExpectOne
INVARIANTS
    TypeOK
    BarrierAccounting
    CleanBillIsComplete
    PaidAtMostOnce
    SignalsHonoured
PROPERTIES
    SettledLogIsFrozen
    NoTimeoutWhileWorking
    KeepsContract
    ClosedDoorResolves
