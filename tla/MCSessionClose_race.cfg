CONSTANTS
    Zone = {1}
    WireKey = {}
    MaxSessions = 2
    MaxJobs = 2
    CloseGrace = 1
    CloseTimeout = 1
    StallTimeout = 2
    KeepSessions = 4
    BlockPayment = TRUE
    Seqs <- NoSeqs
    Watermarks <- NoSignal
    Expectations <- NoSignal
SPECIFICATION Spec
INVARIANT EveryBillIsComplete
