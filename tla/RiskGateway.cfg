\* Three kinds of order under the limits of config/risk_policy.json, and up to
\* three reservations of each outstanding across restarts.
CONSTANTS
    btc = btc
    sol = sol
    buyBtc = buyBtc
    sellBtc = sellBtc
    buySol = buySol
    Orders = {buyBtc, sellBtc, buySol}
    Symbols = {btc, sol}
    OrderOf <- SomeOrders
    MaxTrade = 10
    DailyLimit = 30
    SymbolCap <- Caps
    MaxOwed = 3
SPECIFICATION Spec
INVARIANTS
    TypeOK
    DailyLimitHolds
    LedgerIsExact
