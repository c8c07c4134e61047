SPECIFICATION SlotSpec
CONSTANTS
    z1 = z1
    r1 = r1
    r2 = r2
    e1 = e1
    Zombies = {z1}
    Runners = {r1, r2}
    Events = {e1}
    NoRunner = NoRunner
    NoEvent = NoEvent
    SweptRunners = {r1, r2}
    LeaseTTL = 1
    MaxRuntime = 2
    MaxStall = 1
    MaxTime = 4
    MaxClaims = 3
SYMMETRY MCSymmetry
INVARIANTS SlotTypeOK HolderProtected RuntimeCap
PROPERTIES SupersededIsInert OnlyLateRowsDouble ImplementsFencedResource
CHECK_DEADLOCK FALSE
