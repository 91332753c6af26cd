CONSTANTS
    Reqs = {r}
    Nums = {1}
    TimeOut = 1
    TotalTimes = 1
    None = None
    MaxDeliveries = 1
SPECIFICATION CloudSpec
INVARIANT UnansweredOnly
