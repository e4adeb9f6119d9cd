SPECIFICATION Spec
CONSTANTS
    t1 = t1  t2 = t2
    dmarc = dmarc  verification = verification
    failed = failed
    Required <- TwoRecords
    Reporting = {dmarc}
    Led = {dmarc}
    Addresses = {1, 2}
    Active = {}
    Retired = {1}
    Shared = NoValue
    Answers <- SomeAnswers
    Failed = failed
    Threads = {t1, t2}
    TTL = 2
    Interval = 1
    MaxLookup = 1
    MaxTime = 3
    NoValue = NoValue
SYMMETRY Symmetry
INVARIANTS TypeOK ShownIsRecent RecheckIsFresh PublishedIsLive
CHECK_DEADLOCK FALSE
