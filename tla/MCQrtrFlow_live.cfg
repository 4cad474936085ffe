SPECIFICATION FairSpec
CONSTANTS
    s1 = s1
    s2 = s2
    Senders = {s1, s2}
    Timed = {s2}
    HIGH = 3
    LOW = 2
    Faults = {"unreg"}
    WireCap = 2
    RcvBuf = 6
    MaxStrays = 0
PROPERTIES SleeperReleased WaiterNotified
