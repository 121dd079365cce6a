\* A daily budget worth one order, nothing restarts.
CONSTANTS
    c1 = c1
    c2 = c2
    btc = btc
    Commands = {c1, c2}
    MaxCopies = 1
    Orders = {o1, o2}
    OrderOf <- FullSize
    Symbols = {btc}
    MaxTrade = 10
    DailyLimit = 10
    SymbolCap <- NoCaps
    Operators = {alice, bob}
    None = none
    MaxPending = 1
    MaxApiErrors = 2
    MaxRestarts = 0
SYMMETRY Symmetry
SPECIFICATION Spec
INVARIANTS
    FillsWithinDailyLimit
