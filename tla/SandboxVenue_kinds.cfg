\* Every kind of order, its lifecycle, cancellation and expiry.
CONSTANTS
    Ids = {1, 2}
    MaxPrice = 3
    MaxQty = 2
    MaxTime = 1
    resting_ttl = 1
    Books <- DeepBooks
    Requests <- EveryKind
SPECIFICATION Spec
PROPERTY RecordsAgree
PROPERTY OrderLife
