\* Two instruments on two public venues and a private one, in four feeds.
CONSTANTS
    btc = btc
    eth = eth
    binance = binance
    okx = okx
    broker = broker
    Instrument = {btc, eth}
    Venue = {binance, okx, broker}
    PublicVenue = {binance, okx}
    Feed <- MCFeed
    None = None
    MaxTimers = 2
    MaxRefreshes = 1
SPECIFICATION FairSpec
INVARIANTS
    TypeOK
    OneMainOrTimer
PROPERTIES
    StraySocketsAreTraced
    LostStreamIsRetried
