SPECIFICATION FairSpec
CONSTANTS
    w1 = w1  w2 = w2
    m1 = m1  m2 = m2  m3 = m3
    l1 = l1  l2 = l2  typo = typo
    n1 = n1  t1 = t1  k1 = k1  k2 = k2
    Unrouted = unrouted  NoRow = NoRow
    Backend = "postgresql"
    Workers = {w1, w2}
    Mail = {m1, m2}
    Rcpt <- MixedRcpt
    Docs <- PlainDocs
    LocalParts = {l1}
    Typos = {typo}
    MaxDomains = 1
    Names = {n1}
    Tenants = {unrouted}
    Keys = {k1, k2}
    MaxFailures = 1
INVARIANTS NothingAckedIsLost
PROPERTIES EveryMailIsAccepted
