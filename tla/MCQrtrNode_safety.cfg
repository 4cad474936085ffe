SPECIFICATION Spec
CONSTANTS
    e1 = e1
    e2 = e2
    u1 = u1
    u2 = u2
    o1 = o1
    o2 = o2
    AUTO = AUTO
    NULL = NULL
    Eps = {e1, e2}
    Users = {u1}
    Objs = {o1, o2}
    Nids = {1, 2}
    NetId <- FarApart
    Events = {"alloc", "late", "forward", "wakeups"}
INVARIANTS NoUseAfterFree RefsAccounted
SYMMETRY Symmetry
CHECK_DEADLOCK FALSE
