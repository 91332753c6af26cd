CONSTANTS
    Producers = {p}
    Keys = {k, z}
    Zero = z
    Sizes <- Two
    Strategies = {"Any"}
    Overflow = 0
    Capacity = 4
    MaxMessages = 1
    Stops = TRUE
SPECIFICATION ManagerFairSpec
CHECK_DEADLOCK FALSE
PROPERTY StopCompletes
