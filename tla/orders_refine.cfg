SPECIFICATION FairSpec
CONSTANTS
    p1 = p1
    p2 = p2
    s1 = s1
    Products = {p1}
    Services = {s1}
    Carts <- OneProduct
    OrderIds = {o1, o2}
    NoOrder = NoOrder
    Invoices = {i1}
    NoInvoice = NoInvoice
    Requests = {r1, r2}
    Factors = {2, 0}
    Open = 2
    Opening <- OpenAll
    Levels = {}
    Deltas <- UpAndDown
    MaxStock = 3
    Ops = {"create", "edit", "complete", "cancel", "adjust", "setUnits"}
    Overlap = FALSE
    Failing = {"persist"}
    Crashing = {}
    Quantities = {0, 1, 2, 3, 4, 5, 6, 7, 8}
    Supplies = {0, 1, 2, 3, 4, 5, 6, 7, 8}
INVARIANTS
    LedgerExplainsStock
PROPERTIES
    EveryRequestEnds
    ImplementsOrderBook
