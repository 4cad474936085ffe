SPECIFICATION FairSpec
CONSTANTS
    L = 7
    R = 2
    H = 2
    SizeAt = 1
    Sizes = {2, 3, 8}
    MaxPkts = 3
    Faults = {"dbl", "stall", "restart"}
INVARIANTS TypeOK RingExact Intact
PROPERTIES Delivered RingIsQueue
CHECK_DEADLOCK FALSE
