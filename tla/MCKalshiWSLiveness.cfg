CONSTANTS
    None = None
    t1 = t1
    t2 = t2
    Tickers = {t1, t2}
    INITIAL_BACKOFF = 1
    MAX_BACKOFF = 3
    InitActive <- OneMarket
    LossyTypes <- DeltaFrames
    MaxVer = 2
    MaxLoss = 1
    MaxFaults = 1
    MaxReject = 0
    MaxRoll = 1
    MayStop = TRUE
SPECIFICATION FairSpec
INVARIANT
    LossIsNoticed
PROPERTIES
    ActiveMarketsMirrored
    Converges
    GapRepaired
    StopTerminates
