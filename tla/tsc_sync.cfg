CONSTANTS
    Skew <- MCSkew
    Start = 3
    warmup = 1
    samples = 2
    threshold_cycles = 1
    MaxTime = 9
    online_cores = 3
    CoreLists <- MCCoreLists
    ReferenceCores = {0, 3}
SPECIFICATION CheckSpec
INVARIANTS SkewWithinBounds VerdictSound Handshake ExitCodeSound
PROPERTY ToolEnds
CHECK_DEADLOCK FALSE
