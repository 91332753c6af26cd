CONSTANTS
    Producers = {p}
    Keys = {k, z}
    Zero = z
    Sizes <- Growing
    Strategies = {"Any"}
    Overflow = 0
    Capacity = 4
    MaxMessages = 2
    Stops = FALSE
SPECIFICATION ManagerSpec
CHECK_DEADLOCK FALSE
INVARIANT AllStarted
