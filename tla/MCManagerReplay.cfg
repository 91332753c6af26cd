CONSTANTS
    Producers = {p, q}
    Keys = {k, z}
    Zero = z
    Sizes <- One
    Strategies = {"Any"}
    Overflow = 0
    Capacity = 2
    MaxMessages = 3
    Stops = FALSE
SPECIFICATION ManagerSpec
CHECK_DEADLOCK FALSE
INVARIANT CountNeverWraps
