CONSTANTS
    btc = btc
    eth = eth
    Series <- TwoSeries
    Lookback = 2
    INITIAL_BACKOFF = 2
    MAX_BACKOFF = 3
    Undated <- OneUndated
    MaxWindows = 3
    LastWindow <- ThreeAndNone
    Earlier <- TwoEarlier
    MaxFaults = 1
    MaxSinkFaults = 1
    MaxRestarts = 1
SPECIFICATION FairSpec
INVARIANTS
    TypeOK
    OneRecordPerWindow
    SeenIsLabelled
    
PROPERTY
    EveryLabelStored
