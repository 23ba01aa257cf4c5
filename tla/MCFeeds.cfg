\* What brings information into the platform, and the life of an order.
SPECIFICATION FeedsSpec
CONSTANTS
    Ids = {1, 2}
    MaxQty = 3
    MarketSources = {"ws"}
    NewsSources = {"rss"}
    MaxEvents = 2
    MaxQueue = 2
    MaxObserved = 1
    Venues = {"binance", "bybit", "coinbase", "gateio", "kraken", "mexc", "deriv", "oanda", "fxcm", "central_bank", "forex_factory", "gdelt", "crypto_rss"}
    Guids = {"g1", "g2", "g3"}
    SeenMax = 2
    MaxAttempts = 2
    Items = {"whole", "one_sided", "zero", "zero_text", "nameless", "forming", "bad"}
    BusSize = 2
    MaxPublished = 4
    MaxRestarts = 1
CHECK_DEADLOCK FALSE
INVARIANT FillIsExact
INVARIANT MarketPathComplete
INVARIANT StopIsFinal
PROPERTY PublishEnds
PROPERTY SourcesAreHeard
PROPERTY ShutdownIsClean
