------------------------------ MODULE MCOrders ------------------------------
(* Instances of Orders for TLC: the item lists the runs use. *)
EXTENDS Orders, TLC

CONSTANTS p1, p2, s1, \* two products and a service
          Open        \* what every product is created with

\* A line of single units and one of the bulk unit.
Base(x, n) == [res |-> x, bulk |-> FALSE, quantity |-> n]
Bulk(x, n) == [res |-> x, bulk |-> TRUE, quantity |-> n]

\* One product: one unit, the same product on two lines next to a service, and
\* the bulk unit.
OneProduct == {<<Base(p1, 1)>>, <<Base(p1, 1), Base(s1, 1), Base(p1, 1)>>,
               <<Bulk(p1, 1)>>}

\* One product, and more of it with a second one, in both orders: an edit takes
\* units or gives units back, never both.
TwoProducts == {<<Base(p1, 1)>>, <<Base(p1, 2), Base(p2, 1)>>,
                <<Base(p2, 1), Base(p1, 2)>>}

\* One unit of either product: an edit can swap one for the other.
EitherProduct == {<<Base(p1, 1)>>, <<Base(p2, 1)>>}

OpenAll == [p \in Products |-> Open]

UpAndDown == {1, -1}

Symmetric == Permutations(OrderIds) \cup Permutations(Requests)

=============================================================================
