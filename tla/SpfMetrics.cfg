SPECIFICATION FairSpec
CONSTANTS
    d1 = d1  d2 = d2  shared = shared
    x1 = x1  x2 = x2  x3 = x3
    s1 = s1  s2 = s2
    Names = {d1, d2, shared}
    Nets = {x1, x2, x3}
    Self = self
    Zones <- SomeZones
    MaxTerms = 5
    MaxExchanges = 1
    Domains = {d1, d2}
    Statuses = {"ok", "missing"}
    Scrapers = {s1}
    Nothing = nothing
    MaxRounds = 1
    MaxFailures = 2
INVARIANTS TypeOK NothingInvented WalkIsExact
PROPERTIES SnapshotIsWhole EveryRoundIsPublished
