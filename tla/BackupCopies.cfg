SPECIFICATION Spec
CONSTANTS
    a = a  b = b  p1 = p1  p2 = p2
    Backend = "postgresql"
    Sites = {a, b}
    Lists <- Apart
    Runs = {p1, p2}
    Retention = 2
    NoSite = NoSite
    MaxTime = 4
    MaxDumps = 4
SYMMETRY Symmetry
INVARIANTS TypeOK WindowIsKept
CHECK_DEADLOCK FALSE
