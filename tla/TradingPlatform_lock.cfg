\* One market under its two names, two consumers, a drive and the operator.
CONSTANTS
    Consumers = {c1, c2}
    Drives = {d1}
    Operator = operator
    Free = free
    Markets = {"BTC"}
    Prices = {1, 2}
    StopDistance = 1
    TargetDistance = 2
    min_decision_interval = 0
    max_data_age = 0
    Delays = {0}
    MaxNow = 0
SPECIFICATION Spec
PROPERTY ActsAsOneDesk
INVARIANT KillLag
INVARIANT AdmittedBracketsFire
PROPERTY ListedFeedPositionsClosed
