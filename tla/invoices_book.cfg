SPECIFICATION Spec
CONSTANTS
    o1 = o1
    o2 = o2
    o3 = o3
    OrderIds = {o1, o2}
    CustomerOf <- Customers
    InvoiceIds = {i1, i2}
    NoInvoice = NoInvoice
    Requests = {r1, r2}
    Totals = {0, 3}
    Payments = {1, 2}
    InvoiceOps = {"pay", "send", "status"}
    MaxReceived = 3
    Overlap = FALSE
    Crashing = {"mail", "read", "flush"}
SYMMETRY Symmetric
INVARIANTS
    PaymentsAddUp
    StatusAgreesWithPayments
PROPERTIES
    SettledIsKept
    ImplementsInvoiceBook

CHECK_DEADLOCK FALSE
