----------------------------- MODULE OrderBook ------------------------------
(***************************************************************************)
(* What the order flow promises: an order holds its units from the moment  *)
(* it is placed until it is cancelled, each step taking or returning all   *)
(* of them at once, and a product never gives out more than it has.        *)
(*                                                                         *)
(* Orders implements this specification when requests on one order take    *)
(* turns, no edit moves more than one product, the saves of edits do not   *)
(* fail and handlers die only before they moved stock (BookProofs).        *)
(***************************************************************************)
EXTENDS Integers

CONSTANTS
    Products, OrderIds,
    Quantities,  \* units of a product an order may hold
    Supplies     \* units of a product that may have come in so far

VARIABLES
    supply,  \* units of each product that came in, net of what was written off
    stock,   \* units of each product nobody holds
    status,  \* of each order
    holds    \* units of each product an order holds, or held when cancelled

bookVars == <<supply, stock, status, holds>>

Nothing == [p \in Products |-> 0]

\* Exchanging what is given back for what is taken leaves no product short.
Exchange(back, taken) ==
    LET left == [p \in Products |-> stock[p] + back[p] - taken[p]]
    IN  /\ \A p \in Products : left[p] >= 0
        /\ stock' = left

Place(o, units) ==
    /\ status[o] = "absent"
    /\ Exchange(Nothing, units)
    /\ status' = [status EXCEPT ![o] = "pending"]
    /\ holds' = [holds EXCEPT ![o] = units]
    /\ UNCHANGED supply

Change(o, units) ==
    /\ status[o] = "pending"
    /\ Exchange(holds[o], units)
    /\ holds' = [holds EXCEPT ![o] = units]
    /\ UNCHANGED <<supply, status>>

Complete(o) ==
    /\ status[o] = "pending"
    /\ status' = [status EXCEPT ![o] = "completed"]
    /\ UNCHANGED <<supply, stock, holds>>

Cancel(o) ==
    /\ status[o] \in {"pending", "completed"}
    /\ Exchange(holds[o], Nothing)
    /\ status' = [status EXCEPT ![o] = "cancelled"]
    /\ UNCHANGED <<supply, holds>>

\* Stock arrives, or is written off, outside the order flow.
Adjust(p) ==
    /\ \E n \in Supplies :
          /\ supply' = [supply EXCEPT ![p] = n]
          /\ stock' = [stock EXCEPT ![p] = @ + n - supply[p]]
    /\ stock'[p] >= 0
    /\ UNCHANGED <<status, holds>>

BookInit ==
    /\ supply = Nothing
    /\ stock = Nothing
    /\ status = [o \in OrderIds |-> "absent"]
    /\ holds = [o \in OrderIds |-> Nothing]

BookNext ==
    \/ \E o \in OrderIds :
          \/ \E units \in [Products -> Quantities] : Place(o, units) \/ Change(o, units)
          \/ Complete(o)
          \/ Cancel(o)
    \/ \E p \in Products : Adjust(p)

BookSpec == BookInit /\ [][BookNext]_bookVars

=============================================================================
