----------------------------- MODULE MCInvoices -----------------------------
(* Instances of Invoices for TLC. *)
EXTENDS InvoicesRefinement, TLC

CONSTANTS o1, o2, o3

\* o1 and o2 are orders of one customer, o3 is of another.
Customers == [o \in OrderIds |-> IF o = o3 THEN "beta" ELSE "alpha"]

Symmetric == Permutations(InvoiceIds) \cup Permutations(Requests)

=============================================================================
