SPECIFICATION FairSpec
CONSTANTS
    o1 = o1
    o2 = o2
    o3 = o3
    OrderIds = {o1, o2}
    CustomerOf <- Customers
    InvoiceIds = {i1, i2}
    NoInvoice = NoInvoice
    Requests = {r1, r2}
    Totals = {1}
    Payments = {1}
    InvoiceOps = {"status"}
    MaxReceived = 0
    Overlap = FALSE
    Crashing = {"insert", "attach", "detach"}
INVARIANTS
    BilledOnce
    LinksAgree
PROPERTIES
    CancellationReleases
CHECK_DEADLOCK FALSE
