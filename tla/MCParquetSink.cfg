CONSTANTS
    book = book
    trade = trade
    Keys <- BothKeys
    MaxRows = 2
    Base = 10
    Limit = 100
    Fits <- SomeRowsFit
    MaxWritten = 3
    MaxFaults = 1
    MaxCrashes = 1
SPECIFICATION FairSpec
INVARIANTS
    TypeOK
    RowsOnceInOrder
    BoundedBuffers
PROPERTIES
    FlushEmptiesBuffers
    RefinesDurableLog
    ReachesDisk
