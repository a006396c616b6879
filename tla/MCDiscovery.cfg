CONSTANTS
    None = None
    Series <- TwoSeries
    Window = 14
    FastInterval = 1
    FastWindow = 8
    Lead = 1
    RestTimeout = 1
    INITIAL_BACKOFF = 1
    MAX_BACKOFF = 2
    ListedBy = 1
    StrikeBy = 2
    StartTimes <- AtStart
    MaybeUndated <- OneMaybe
    MaxTime = 40
    MaxFaults = 1
    MaxSinkFaults = 1
    MaxRestarts = 1
SPECIFICATION Spec
INVARIANTS
    TypeOK
    MarkedOnce
    SeenIsMarked
    MapIsCurrent
    EveryWindowMarked
