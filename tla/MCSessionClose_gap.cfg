CONSTANTS
    Zone = {1}
    WireKey = {}
    MaxSessions = 1
    MaxJobs = 2
    CloseGrace = 1
    CloseTimeout = 1
    StallTimeout = 2
    KeepSessions = 4
    BlockPayment = TRUE
    Seqs <- SomeSeqs
    Watermarks <- ReachOne
    Expectations <- NoSignal
SPECIFICATION Spec
INVARIANT NothingBelowWatermarkIsLate
