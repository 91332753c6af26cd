CONSTANTS
    Producers = {p, q}
    Keys = {k, z}
    Zero = z
    Sizes <- Two
    Strategies = {"Any"}
    Overflow = 0
    Capacity = 4
    MaxMessages = 2
    Stops = FALSE
SPECIFICATION ManagerSpec
CHECK_DEADLOCK FALSE
INVARIANT OneProducerPerQueue
