SPECIFICATION SealedSpec
CONSTANTS
    z1 = z1
    r1 = r1
    r2 = r2
    i1 = i1
    i2 = i2
    Zombies = {z1}
    Runners = {r1}
    Events = {1, 2}
    NoRunner = NoRunner
    NoEvent = 0
    SweptRunners = {r1}
    LeaseTTL = 1
    MaxRuntime = 1
    MaxStall = 0
    MaxTime = 3
    MaxClaims = 2
    Instances = {i1, i2}
    NoInstance = NoInstance
    Home <- MCHome
    MinIdle = 2
SYMMETRY MCSymmetry
INVARIANTS DeliveryTypeOK AckedMeansSettled DebitedOnce
PROPERTIES InOrder TerminalIsFinal SettledNeverReleased
CHECK_DEADLOCK FALSE
