\* Two attempts, for one order or for two; the daily budget is worth two orders,
\* the backlog one pending approval.  One restart, one copy of a command.
CONSTANTS
    c1 = c1
    c2 = c2
    btc = btc
    Commands = {c1, c2}
    MaxCopies = 1
    Orders = {o1, o2}
    OrderOf <- FullSize
    Symbols = {btc}
    MaxTrade = 10
    DailyLimit = 20
    SymbolCap <- NoCaps
    Operators = {alice, bob}
    None = none
    MaxPending = 1
    MaxApiErrors = 2
    MaxRestarts = 1
SYMMETRY Symmetry
SPECIFICATION Spec
INVARIANTS
    TypeOK
    ExecutedMeansFilled
    FourEyes
    OpenOrdersAreCharged
    LeaksAreTraced
