SPECIFICATION Spec
CONSTANTS
    s1 = s1
    s2 = s2
    s3 = s3
    Streams <- ThreeStreams
    Limit = 2
    Nobody = Nobody
    MaxOutages = 1
SYMMETRY Symmetry
INVARIANTS
    OnlyLateHandlersLeak
    OverrunNeedsOverlap
    OpenStreamsHear
    IdleRecordIsForgotten
CHECK_DEADLOCK FALSE
