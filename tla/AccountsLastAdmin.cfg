SPECIFICATION Spec
CONSTANTS
    e1 = e1  e2 = e2  e3 = e3  r1 = r1  r2 = r2
    Nobody = Nobody
    Emails = {e1, e2, e3}
    Requests = {r1, r2}
    Cli = FALSE
    Seeded = 0
    MaxProviders = 1
PROPERTIES LastAdminStays
CHECK_DEADLOCK FALSE
