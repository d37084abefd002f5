SPECIFICATION FairSpec
CONSTANTS
    Depth = 2
    MaxFrames = 4
INVARIANTS
    TypeOK
    Pipeline
    LittleLeftBehind
PROPERTIES
    KeepsStream
    StopReachesSource
    LoopNotStarved
