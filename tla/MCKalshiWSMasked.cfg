CONSTANTS
    None = None
    t1 = t1
    t2 = t2
    Tickers = {t1, t2}
    INITIAL_BACKOFF = 1
    MAX_BACKOFF = 3
    InitActive = {t1, t2}
    LossyTypes <- DeltaFrames
    MaxVer = 3
    MaxLoss = 1
    MaxFaults = 0
    MaxReject = 0
    MaxRoll = 0
    MayStop = FALSE
SPECIFICATION Spec
INVARIANT
    EveryLossIsNoticed
