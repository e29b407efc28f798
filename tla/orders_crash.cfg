SPECIFICATION Spec
CONSTANTS
    p1 = p1
    p2 = p2
    s1 = s1
    Products = {p1, p2}
    Services = {}
    Carts <- TwoProducts
    OrderIds = {o1, o2, o3}
    NoOrder = NoOrder
    Invoices = {i1}
    NoInvoice = NoInvoice
    Requests = {r1, r2, r3}
    Factors = {0}
    Open = 2
    Opening <- OpenAll
    Levels = {}
    Deltas <- UpAndDown
    MaxStock = 3
    Ops = {"create", "edit", "complete", "cancel", "delete"}
    Overlap = FALSE
    Failing = {"persist"}
    Crashing = {"build", "reserve", "release", "persist"}
SYMMETRY Symmetric
INVARIANTS
    NothingOversold
    StockNeverNegative
CHECK_DEADLOCK FALSE
