CONSTANTS
    MaxOrders = 2
    Symbols = {"btc"}
    Gateways = {"ccxt", "mt5", "ea", "paper"}
    MaxQty = 2
    MaxStarts = 2
    live_trading_authorized = TRUE
    Markets = {"eurusd"}
    Clients = {"c1", "c2"}
    MaxPosition = 1
    MaxRestarts = 1
SPECIFICATION MCSpec
CHECK_DEADLOCK FALSE
INVARIANT ReportIsBacked
INVARIANT NoLeftoverOrder
PROPERTY SubmitReturns
PROPERTY MismatchIsVetoed
