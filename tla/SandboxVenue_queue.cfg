\* Competition in the queue: three limit orders, two books.
CONSTANTS
    Ids = {1, 2, 3}
    MaxPrice = 3
    MaxQty = 2
    MaxTime = 0
    resting_ttl = 1
    Books <- TwoBooks
    Requests <- LimitOrders
SPECIFICATION Spec
PROPERTY PriceTimePriority
PROPERTY DepthConserved
PROPERTY AdvanceExhausts
