CONSTANTS
    Producers = {p}
    Keys = {k, z}
    Zero = z
    Sizes <- Two
    Strategies = {"Any"}
    Overflow = 0
    Capacity = 4
    MaxMessages = 2
    Stops = FALSE
SPECIFICATION ManagerFairSpec
CHECK_DEADLOCK FALSE
PROPERTY OutputDelivered
