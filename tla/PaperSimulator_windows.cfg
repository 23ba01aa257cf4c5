\* The loss windows over three days and a restart.
CONSTANTS
    Symbols = {"btc"}
    Marks = {3, 5}
    Proposals <- ThreeDays
    MaxQty = 3
    DaysPerMonth = 2
    MaxDailyLoss = 4
    MaxMonthlyLoss = 12
    HalfSpread = 0
    Depth = 2
    gateway_fee_rate = 1
    taker_fee_rate = 1
    StartingEquity = 100
    MaxSequence = 3
    MaxRestarts = 1
SPECIFICATION Spec
CHECK_DEADLOCK FALSE
PROPERTY LossWindowsHold
