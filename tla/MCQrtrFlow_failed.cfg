SPECIFICATION FairSpec
CONSTANTS
    s1 = s1
    s2 = s2
    Senders = {s1, s2}
    Timed = {}
    HIGH = 3
    LOW = 2
    Faults = {"xmit"}
    WireCap = 2
    RcvBuf = 6
    MaxStrays = 0
PROPERTIES FailedConfirmRecovers
