CONSTANTS
    r1 = r1
    r2 = r2
    r3 = r3
    p1 = p1
    p2 = p2
    NoRow = NoRow
    Unset = Unset
    Requests = {r1, r2, r3}
    Products = {p1, p2}
    InitialStock = 3
    Initial = "draft"
    Transitions <- OrderFlow
    Bodies <- MixedBodies
    TxVerbs = {"POST", "PUT"}
    SoftDelete = TRUE
SPECIFICATION FairSpec
INVARIANTS TypeOK TransactionsAtomic RoleGated
PROPERTIES EveryRequestAnswered
CHECK_DEADLOCK FALSE
