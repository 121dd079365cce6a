\* Two cycles; three units, at least two of them per order and none left as dust;
\* without a quantity, with one below the minimum, and with one above the request.
CONSTANTS
    Requested = 3
    Quantities = {0, 1, 4}
    MaxCycles = 2
    Lot = 2
    Dust = 0
SPECIFICATION FairSpec
INVARIANTS
    TypeOK
    OnlyNewestWorks
    OverfillExplained
    FinalWordIsTrue
PROPERTIES
    LoopEnds
CHECK_DEADLOCK FALSE
