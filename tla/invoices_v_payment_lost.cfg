SPECIFICATION Spec
CONSTANTS
    o1 = o1
    o2 = o2
    o3 = o3
    OrderIds = {o1}
    CustomerOf <- Customers
    InvoiceIds = {i1}
    NoInvoice = NoInvoice
    Requests = {r1, r2}
    Totals = {2}
    Payments = {1}
    InvoiceOps = {"pay", "send", "status"}
    MaxReceived = 3
    Overlap = TRUE
    Crashing = {}
INVARIANTS
    PaymentsAddUp
CHECK_DEADLOCK FALSE
