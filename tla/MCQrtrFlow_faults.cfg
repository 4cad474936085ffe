SPECIFICATION Spec
CONSTANTS
    s1 = s1
    s2 = s2
    Senders = {s1, s2}
    Timed = {s2}
    HIGH = 3
    LOW = 2
    Faults = {"alloc", "xmit", "rmem", "close", "resume", "peek", "signal", "unreg"}
    WireCap = 3
    RcvBuf = 4
    MaxStrays = 2
INVARIANTS TypeOK ResumeOwed SingleConfirm SleepJustified ReceiveBound
