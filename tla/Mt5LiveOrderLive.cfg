\* Two attempts for one order, with fairness.
CONSTANTS
    c1 = c1
    c2 = c2
    btc = btc
    Commands = {c1, c2}
    MaxCopies = 1
    Orders = {o1}
    OrderOf <- FullSize
    Symbols = {btc}
    MaxTrade = 10
    DailyLimit = 10
    SymbolCap <- NoCaps
    Operators = {alice, bob}
    None = none
    MaxPending = 1
    MaxApiErrors = 2
    MaxRestarts = 1
SPECIFICATION FairSpec
PROPERTIES
    AttemptsEnd
