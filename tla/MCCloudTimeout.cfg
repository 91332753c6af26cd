CONSTANTS
    Reqs = {r, s}
    Nums = {1}
    TimeOut = 2
    TotalTimes = 1
    None = None
    MaxDeliveries = 3
SPECIFICATION CloudSpec
INVARIANT KeptForTheTimeOut
