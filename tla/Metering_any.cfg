SPECIFICATION MeteringSpec
CONSTANTS
    z1 = z1
    z2 = z2
    r1 = r1
    r2 = r2
    e1 = e1
    e2 = e2
    x1 = x1
    x2 = x2
    id1 = id1
    id2 = id2
    Zombies = {z1}
    Runners = {r1}
    Events = {e1}
    NoRunner = NoRunner
    NoEvent = NoEvent
    SweptRunners = {r1}
    LeaseTTL = 1
    MaxRuntime = 2
    MaxStall = 1
    MaxTime = 4
    MaxClaims = 2
    Tenants = {x1}
    Tenant <- MCTenant
    Home <- MCHome
    StreamId <- MCDistinctIds
    Balance = 3
    RunRate = 1
    TokRate = 1
    MaxTokens = 1
    MaxSlices = 3
    Retries = TRUE
    StopPolicy = FALSE
INVARIANTS MeteringTypeOK BooksAgree TimeMeteredOnce
CHECK_DEADLOCK FALSE
