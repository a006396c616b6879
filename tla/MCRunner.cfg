CONSTANTS
    book = book
    trade = trade
    Keys <- BothCollectors
    Collectors <- BothCollectors
    KeyOf <- OwnKeys
    MaxRows <- TwoAndOne
    MaxRaises = 1
    MaxDamage = 1
SPECIFICATION FairSpec
INVARIANTS
    TypeOK
    DamageIsLocal
    StoppedMeansStored
PROPERTIES
    StoppedIsLast
    RowsReachFile
    StopEndsMain
