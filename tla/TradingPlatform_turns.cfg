\* Turns with the lock, with a clock: cooldown and stale data.
CONSTANTS
    Consumers = {c1}
    Drives = {d1}
    Operator = operator
    Free = free
    Markets = {"BTC"}
    Prices = {1}
    StopDistance = 1
    TargetDistance = 2
    min_decision_interval = 1
    max_data_age = 0
    Delays = {0, 1}
    MaxNow = 1
SPECIFICATION Spec
PROPERTY LockPassedOn
