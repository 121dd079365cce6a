\* Trades up to two minutes late; the feed ends.
CONSTANTS
    MinuteLength = 3
    GapThreshold = 1
    Derived <- DerivedSeq
    Wired <- WiredSet
    Multiplier <- Lengths
    NoBar = NoBar
    MaxTime = 18
    MaxLate = 6
    MaxTrades = 5
SPECIFICATION Spec
CHECK_DEADLOCK FALSE
INVARIANTS
    TypeOK
    DerivedFollowsBase
    PublishedOnceAndTrue
    NothingSkipped
