CONSTANTS
    SegmentCombo = TRUE
    RetryGap = 5
    Sessions <- Logs
    ProfileOf <- Profiles
    Products <- OnSale
    GhostMode <- Modes
    CrossZone = TRUE
SPECIFICATION ReviewSpec
CHECK_DEADLOCK FALSE
INVARIANTS
    ReviewTypeOK
    ReviewImproves
    SharedSurvives
    EventsHaveNoOrder
    OneSceneIsNoEvidence
