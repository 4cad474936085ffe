SPECIFICATION FairSpec
CONSTANTS
    n1 = n1
    l1 = l1
    NoNode = NoNode
    Nodes = {n1}
    Locals = {l1}
    RcvBuf = 1
    Faults = {"xmit", "alloc"}
INVARIANTS SignalAsked ReaderAwake HelloCounted
PROPERTIES WriterSignalled HelloSaid
CHECK_DEADLOCK FALSE
