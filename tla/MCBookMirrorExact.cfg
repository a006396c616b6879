CONSTANTS
    None = None
    Cents <- SafeCents
    Variants <- BothVariants
    MaxSize = 2
    MaxMissed = 2
SPECIFICATION Spec
INVARIANTS
    TypeOK
    BookExact
    QuotesTrue
