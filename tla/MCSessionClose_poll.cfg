CONSTANTS
    Zone = {1}
    WireKey = {}
    MaxSessions = 1
    MaxJobs = 1
    CloseGrace = 1
    CloseTimeout = 1
    StallTimeout = 2
    KeepSessions = 4
    BlockPayment = TRUE
    Seqs <- NoSeqs
    Watermarks <- NoSignal
    Expectations <- NoSignal
SPECIFICATION Spec
INVARIANT NullPollsPayNothing
