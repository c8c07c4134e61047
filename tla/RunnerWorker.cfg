SPECIFICATION WorkerSpec
CONSTANTS
    h = h
    w1 = w1
    w2 = w2
    z1 = z1
    e1 = e1
    Zombies = {z1}
    Runners = {h}
    Events = {e1}
    NoRunner = NoRunner
    NoEvent = NoEvent
    SweptRunners = {}
    LeaseTTL = 2
    MaxRuntime = 2
    MaxStall = 1
    MaxTime = 6
    MaxClaims = 2
    Workers = {w1, w2}
    Host <- MCHost
    NoZombie = NoZombie
    Window = 1
    LastClaim = 3
    MaxUpsets = 1
INVARIANTS  RunsAlone
PROPERTIES DrainEnds
CHECK_DEADLOCK FALSE
