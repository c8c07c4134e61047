SPECIFICATION FleetSpec
CONSTANTS
    h = h
    r1 = r1
    r2 = r2
    z1 = z1
    s1 = s1
    s2 = s2
    Runners = {h, r1, r2}
    Zombies = {z1}
    Replicas = {s1}
    Nobody = Nobody
    Healthy = {h}
    BatchLimit = 1
    Scrapped = {r2}
    MaxEpisodes = 1
INVARIANTS FleetInvariant
PROPERTIES RevokedIsFinal FleetSettles
CHECK_DEADLOCK FALSE
