SPECIFICATION FairSpec
CONSTANTS
    unrouted = unrouted  main = main
    n1 = n1  k1 = k1  k2 = k2
    q1 = q1  q2 = q2  m1 = m1
    Backend = "postgresql"
    Mode = "multi"
    Services = {"web", "smtp"}
    Pages = {q1, q2}
    Sessions = {m1}
    Slugs = {unrouted, main}
    Unrouted = unrouted
    Default = main
    Names = {n1}
    Keys = {k1, k2}
    NoRow = NoRow
    MaxTenants = 2
    MaxDomains = 2
    MaxCrashes = 1
INVARIANTS TypeOK EverythingHasItsTenant
PROPERTIES EveryServiceStarts
