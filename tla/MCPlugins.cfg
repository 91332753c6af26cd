SPECIFICATION FairSpec
CONSTANTS
    Producers = {p, q}
    Keys = {k, z}
    Zero = z
    Sizes <- TwoWorkers
    Strategies = {"RoundRobin", "Any"}
    Overflow = 1
    Capacity = 2
    MaxMessages = 2
    Stops = TRUE
    Reqs = {r, s}
    Nums = {1, 2}
    TimeOut = 1
    TotalTimes = 2
    None = None
    MaxDeliveries = 2
    Frequencies = {1, 3}
    WakeUp = 2
    MaxAge = 6
    NoKey = NoKey
CHECK_DEADLOCK FALSE
INVARIANTS TypeOK CountCovers AssignmentReleased NeverSilentForLong
PROPERTIES InputServed AwakeDelivers TcmsGoForAReason EveryTcmSettled
