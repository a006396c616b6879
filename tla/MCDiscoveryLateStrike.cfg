CONSTANTS
    None = None
    Series <- OneSeries
    Window = 10
    FastInterval = 1
    FastWindow = 5
    Lead = 1
    RestTimeout = 1
    INITIAL_BACKOFF = 1
    MAX_BACKOFF = 3
    ListedBy = 1
    StrikeBy = 8
    StartTimes <- AtStart
    MaybeUndated <- Nobody
    MaxTime = 11
    MaxFaults = 0
    MaxSinkFaults = 0
    MaxRestarts = 0
SPECIFICATION Spec
INVARIANT
    EveryWindowMarked
