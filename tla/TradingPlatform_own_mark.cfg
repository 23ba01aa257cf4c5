\* Two markets and a manual close.
CONSTANTS
    Consumers = {c1}
    Drives = {}
    Operator = operator
    Free = free
    Markets = {"BTC", "ETH"}
    Prices = {1, 2}
    StopDistance = 1
    TargetDistance = 2
    min_decision_interval = 0
    max_data_age = 0
    Delays = {0}
    MaxNow = 0
SPECIFICATION Spec
PROPERTY ClosedAtOwnMark
