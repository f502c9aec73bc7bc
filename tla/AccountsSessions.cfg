CONSTANTS
    a1 = a1
    a2 = a2
    a3 = a3
    n1 = n1
    n2 = n2
    e1 = e1
    e2 = e2
    p1 = p1
    p2 = p2
    r1 = r1
    r2 = r2
    NULL = NULL
    Deleted = Deleted
    Ids = {a1, a2, a3}
    Names = {n1, n2}
    Emails = {e1, e2}
    Passwords = {p1, p2}
    SeedName = n1
    SeedEmail = e1
    SeedPassword = p1
    Registers <- RegistersHere
    Updates <- UpdatesHere
    Requests = {r1, r2}
    AccessLife = 1
    RefreshLife = 2
    MaxTime = 2
    MaxTokens = 1
SPECIFICATION Spec
SYMMETRY Symmetry
INVARIANTS SessionsEnd AccountsConsistent
PROPERTIES ChangesWereAsked
\* Out of ids, a server that is down stays down.
CHECK_DEADLOCK FALSE
