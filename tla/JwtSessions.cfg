CONSTANTS
    r1 = r1
    r2 = r2
    r3 = r3
    first = first
    e1 = e1
    e2 = e2
    None = None
    Requests = {r1, r2, r3}
    First = first
    Emails = {e1, e2}
    FirstEmail = e1
    Modes = {"memory", "database"}
    PerSecond = 2
    AccessTtl = 1
    RefreshTtl = 3
    MaxNow = 3
SYMMETRY RequestSymmetry
SPECIFICATION Spec
INVARIANTS TypeOK   DeletionEndsSessions
    EmailRegisteredOnce DatabaseConsistent
CHECK_DEADLOCK FALSE
