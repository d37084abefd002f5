CONSTANTS
    SegmentCombo = TRUE
    Profile <- Both
    Shop <- Shops
    Candidates <- Seens
    Events <- SomeEvents
    RetryGap = 5
SPECIFICATION Spec
CHECK_DEADLOCK FALSE
INVARIANT ReturnsAreNotCharged
