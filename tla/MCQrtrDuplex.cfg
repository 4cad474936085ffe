SPECIFICATION DuplexSpec
CONSTANTS
    s1 = s1
    r = r
    Local = s1
    Remote = r
    Senders = {s1}
    Timed = {s1}
    HIGH = 2
    LOW = 1
    Faults = {"unreg"}
    WireCap = 1
    RcvBuf = 6
    MaxStrays = 0
PROPERTIES StandoffMutual TimerBreaksStandoff
