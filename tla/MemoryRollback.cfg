CONSTANTS
    r1 = r1
    r2 = r2
    r3 = r3
    p1 = p1
    p2 = p2
    NoRow = NoRow
    Unset = Unset
    Requests = {r1, r2}
    Products = {p1, p2}
    InitialStock = 3
    Initial = "draft"
    Transitions <- OrderFlow
    Bodies <- Posts
    TxVerbs = {"POST"}
    SoftDelete = FALSE
SPECIFICATION Spec
INVARIANTS RollbackVisible
CHECK_DEADLOCK FALSE
