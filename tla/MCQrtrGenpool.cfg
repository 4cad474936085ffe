SPECIFICATION FairSpec
CONSTANTS
    Cap = 2
    Sizes = {2, 3}
    LenMod = 3
    MaxFails = 1
    MaxCrashes = 1
INVARIANTS SafeAccess IrqBalanced StateShared Framed
 
CONSTRAINT TwoIrregularities
CHECK_DEADLOCK FALSE
