CONSTANTS
    book = book
    trade = trade
    Keys <- BothKeys
    MaxRows = 2
    Base = 10
    Limit = 100
    Fits <- AllRowsFit
    MaxWritten = 2
    MaxFaults = 1
    MaxCrashes = 0
SPECIFICATION Spec
PROPERTY
    FlushReachesEveryKey
