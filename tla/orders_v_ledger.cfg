SPECIFICATION Spec
CONSTANTS
    p1 = p1
    p2 = p2
    s1 = s1
    Products = {p1}
    Services = {s1}
    Carts <- OneProduct
    OrderIds = {o1, o2}
    NoOrder = NoOrder
    Invoices = {i1}
    NoInvoice = NoInvoice
    Requests = {r1, r2}
    Factors = {0}
    Open = 2
    Opening <- OpenAll
    Levels = {0, 3}
    Deltas <- UpAndDown
    MaxStock = 3
    Ops = {"create", "setLevel"}
    Overlap = FALSE
    Failing = {}
    Crashing = {}
INVARIANTS
    LedgerExplainsStock
CHECK_DEADLOCK FALSE
