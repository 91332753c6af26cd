CONSTANTS
    Producers = {p}
    Keys = {k, z}
    Zero = z
    Sizes <- Two
    Strategies = {"RoundRobin"}
    Overflow = 0
    Capacity = 4
    MaxMessages = 3
    Stops = FALSE
SPECIFICATION ManagerSpec
CHECK_DEADLOCK FALSE
INVARIANT OneThreadPerSource
