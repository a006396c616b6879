CONSTANTS
    None = None
    t1 = t1
    t2 = t2
    Tickers = {t1, t2}
    INITIAL_BACKOFF = 2
    MAX_BACKOFF = 3
    InitActive = {}
    LossyTypes <- FrameTypes
    MaxVer = 2
    MaxLoss = 1
    MaxFaults = 1
    MaxReject = 1
    MaxRoll = 2
    MayStop = FALSE
SPECIFICATION Spec
SYMMETRY TickerSymmetry
INVARIANTS
    TypeOK
    StreamInv
    MirrorExact
    MirrorCaughtUp
    BooksOfThisConnection
    SubscriptionAgreement
PROPERTY
    RefinesLaggingMirror
