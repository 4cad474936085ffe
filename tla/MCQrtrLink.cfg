SPECIFICATION FairSpec
CONSTANTS
    Kinds = {"mhi", "smd", "tun"}
    Cap = 2
    MaxSends = 5
INVARIANTS PostSafe RefExact RetryBound WaitCovered RemovedClean RingThere
PROPERTIES SendEnds
CHECK_DEADLOCK FALSE
