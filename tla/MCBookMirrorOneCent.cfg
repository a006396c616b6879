CONSTANTS
    None = None
    Cents <- LowCents
    Variants <- BothVariants
    MaxSize = 2
    MaxMissed = 2
SPECIFICATION Spec
INVARIANT
    BookExact
