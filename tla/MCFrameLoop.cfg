CONSTANTS
    EntryConf <- Floor70
    HandFloor <- NoFloor
    SideMaxX = 400
    HandMargin = 10
    FloorPx = 10
    MaxJump = 40
    ReassocWindow = 2
    HeadFrames = 1
    HeldMinHead = 1
    HeldMinStream = 9
    MeasurableMinObs = 3
    EvidenceOn = TRUE
    ExemptUnmeasured = FALSE
    HeldDemotion = FALSE
    HandWindow = FALSE
    MinLead = 2
    LeadMargin = 1
    HandExit = 1
    Scene = {"s", "t"}
    View <- Views
    MaxFrames <- SomeFrames
    BatchSize = 2
    Keepalive = 2
    ExitConfirm = 1
    EarlyAllowed = TRUE
    Delta <- Deltas
    Products <- Stock
    Tolerance = 5
SPECIFICATION Spec
CHECK_DEADLOCK FALSE
INVARIANTS
    TypeOK
    EveryPassedFrameVotes
    HandSeenInTime
    BatchesLikeFrames
    StopIsFinal
    ShelfHasNoVote
