CONSTANTS
    Producers = {p}
    Keys = {k, z}
    Zero = z
    Sizes <- Two
    Strategies = {"Any"}
    Overflow = 1
    Capacity = 4
    MaxMessages = 3
    Stops = FALSE
SPECIFICATION ManagerSpec
CHECK_DEADLOCK FALSE
INVARIANT AssignmentNeverKept
