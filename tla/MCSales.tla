------------------------------ MODULE MCSales -------------------------------
(* Instances of Sales for TLC: orders of one or two units of one product. *)
EXTENDS Sales, TLC

CONSTANTS p1, o1, o2

OneOrTwo == {<<[res |-> p1, bulk |-> FALSE, quantity |-> n]>> : n \in 1..2}
OpenTwo == [p \in Products |-> 2]
NoDeltas == {}
Customers == [o \in OrderIds |-> "alpha"]

Symmetric == Permutations(OrderIds) \cup Permutations(InvoiceIds)
             \cup Permutations(OrderRequests) \cup Permutations(InvoiceRequests)

=============================================================================
