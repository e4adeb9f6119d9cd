SPECIFICATION EnrichFairSpec
CONSTANTS
    i1 = i1  i2 = i2  dead = dead
    r1 = r1  r2 = r2
    p1 = p1  p2 = p2
    Ips = {i1, i2, dead}
    Known <- OneDead
    Reports <- Crossed
    Threads = {p1, p2}
    Limit = 2
    BackfillLimit = 2
    MaxFailures = 2
INVARIANTS EnrichTypeOK
PROPERTIES NothingForgotten EveryOwnerIsNamed
