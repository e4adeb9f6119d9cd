SPECIFICATION Spec
CONSTANTS
    w1 = w1  w2 = w2
    m1 = m1  m2 = m2  m3 = m3
    l1 = l1  l2 = l2  typo = typo
    n1 = n1  t1 = t1  k1 = k1  k2 = k2
    Unrouted = unrouted  NoRow = NoRow
    Backend = "postgresql"
    Workers = {w1, w2}
    Mail = {m1, m2}
    Rcpt <- MixedRcpt
    Docs <- CrossedDocs
    LocalParts = {l1, l2}
    Typos = {typo}
    MaxDomains = 2
    Names = {n1}
    Tenants = {unrouted, t1}
    Keys = {k1, k2}
    MaxFailures = 0
INVARIANTS TypeOK FiledMeansHeld HeldOnce
INVARIANTS RoutedBroughtReports LinkedToLiveDomain MintedNeverQuarantined
PROPERTIES HistoryIsKept ImplementsLedger
