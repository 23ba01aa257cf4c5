\* The ledger's closed rows after a restart.
CONSTANTS
    Symbols = {"btc", "eth"}
    Marks = {4, 5, 7}
    Proposals <- TwoSymbols
    MaxQty = 3
    DaysPerMonth = 2
    MaxDailyLoss = 25
    MaxMonthlyLoss = 50
    HalfSpread = 1
    Depth = 2
    gateway_fee_rate = 1
    taker_fee_rate = 1
    StartingEquity = 100
    MaxSequence = 4
    MaxRestarts = 1
SPECIFICATION Spec
CHECK_DEADLOCK FALSE
PROPERTY ClosedRowsImmutable
