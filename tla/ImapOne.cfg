SPECIFICATION FairSpec
CONSTANTS
    m1 = m1  m2 = m2  m3 = m3  p1 = p1  p2 = p2
    NoMail = NoMail
    Mail = {m1, m2, m3}
    Reports = {m1, m2}
    Pollers = {p1}
    Filing = TRUE
    CopyMayFail = TRUE
    MaxFailures = 2
INVARIANTS TypeOK AckedIsStored RemovedIsFiled
PROPERTIES EveryMailIsStored
