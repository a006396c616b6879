CONSTANTS
    None = None
    t1 = t1
    t2 = t2
    Tickers <- OneMarket
    INITIAL_BACKOFF = 1
    MAX_BACKOFF = 3
    InitActive <- OneMarket
    LossyTypes <- DeltaFrames
    MaxVer = 3
    MaxLoss = 1
    MaxFaults = 0
    MaxReject = 0
    MaxRoll = 0
    MayStop = FALSE
SPECIFICATION Spec
PROPERTY
    NoUpdateWhileStale
