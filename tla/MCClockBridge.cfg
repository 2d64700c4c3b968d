SPECIFICATION Spec
CONSTANTS
    Base = 4
    Tolerance = 2
    BurstLength = 1
    Divider = 2
    Jitter = 0
    StepSizes <- MCSteps
    StallSize = 4
    MaxSteps = 1
    MaxStalls = 1
    MaxPosts = 1
    MaxEdges = 2
    MaxAutoHits = 1
INVARIANTS
    TypeOK
    JudgedOnTime
    NoSnapshotLeftBehind
PROPERTIES
    OffsetSettles
