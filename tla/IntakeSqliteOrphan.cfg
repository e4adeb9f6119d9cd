SPECIFICATION FairSpec
CONSTANTS
    w1 = w1  w2 = w2
    m1 = m1  m2 = m2  m3 = m3
    l1 = l1  l2 = l2  typo = typo
    n1 = n1  t1 = t1  k1 = k1  k2 = k2
    Unrouted = unrouted  NoRow = NoRow
    Backend = "sqlite"
    Workers = {w1}
    Mail = {m1}
    Rcpt <- OneRcpt
    Docs <- OneDocs
    LocalParts = {l1, l2}
    Typos = {}
    MaxDomains = 2
    Names = {n1}
    Tenants = {unrouted, t1}
    Keys = {k1, k2}
    MaxFailures = 1
PROPERTIES EveryMailIsAccepted
