SPECIFICATION FairSpec
CONSTANTS
    m1 = m1  m2 = m2  m3 = m3  m4 = m4
    l1 = l1  k1 = k1  k2 = k2  r1 = r1
    NoRow = NoRow
    Mail = {m1, m2, m3, m4}
    Rcpt <- MixedRcpt
    Form <- MixedForm
    Docs <- MixedDocs
    LocalParts = {l1}
    Keys = {k1, k2}
    Runners = {r1}
    Limit = 2
    MaxRelease = 1
INVARIANTS TypeOK LabelsAreTrue
PROPERTIES ReplayIsAtomic Replayed
