SPECIFICATION Spec
CONSTANTS
    e1 = e1  e2 = e2  e3 = e3  r1 = r1  r2 = r2
    Nobody = Nobody
    Emails = {e1, e2, e3}
    Requests = {r1, r2}
    Cli = TRUE
    Seeded = 1
    MaxProviders = 5
SYMMETRY Symmetry
INVARIANTS TypeOK ProvidersBounded
PROPERTIES OnlyStaleCountsLoseAdmins FirstAccountIsAdmin
CHECK_DEADLOCK FALSE
