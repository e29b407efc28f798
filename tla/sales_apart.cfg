SPECIFICATION Spec
CONSTANTS
    p1 = p1
    o1 = o1
    o2 = o2
    OrderIds = {o1, o2}
    Products = {p1}
    Services = {}
    NoOrder = NoOrder
    OrderRequests = {r1, r2}
    Carts <- OneOrTwo
    Factors = {0}
    Opening <- OpenTwo
    Levels = {}
    Deltas <- NoDeltas
    MaxStock = 2
    Ops = {"create", "edit", "complete", "cancel"}
    Failing = {"reconcile", "saveItems"}
    CustomerOf <- Customers
    InvoiceIds = {i1, i2}
    NoInvoice = NoInvoice
    InvoiceRequests = {q1, q2}
    Totals = {1}
    Payments = {}
    InvoiceOps = {"status"}
    MaxReceived = 1
    Overlap = FALSE
    Meet = FALSE
SYMMETRY Symmetric
INVARIANTS
    BilledOrdersStand
CHECK_DEADLOCK FALSE
