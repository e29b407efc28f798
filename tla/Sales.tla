------------------------------- MODULE Sales --------------------------------
(***************************************************************************)
(* Orders and Invoices over one table of orders: what InvoiceService reads *)
(* of an order, OrderService may be changing, and the other way round.     *)
(*                                                                         *)
(* Each service keeps its handlers and its own tables; they meet in the    *)
(* rows of `order`, whose invoiceId only Invoices writes and whose status  *)
(* and items only Orders writes.                                           *)
(***************************************************************************)
EXTENDS Integers, Sequences, FiniteSets

CONSTANTS
    OrderIds,
    Products, Services, NoOrder, OrderRequests, Carts, Factors, Opening, Levels,
    Deltas, MaxStock, Ops, Failing,
    CustomerOf, InvoiceIds, NoInvoice, InvoiceRequests, Totals, Payments,
    InvoiceOps, MaxReceived,
    Overlap,  \* whether two requests to one service may work on one row at once
    Meet      \* whether requests to both services may work on one order at once

ASSUME SalesAssumption ==
    /\ Overlap \in BOOLEAN /\ Meet \in BOOLEAN
    /\ NoOrder \notin OrderIds /\ NoInvoice \notin InvoiceIds

VARIABLES resource, ledger, order, req, invoice, ireq, received, cutOff

O == INSTANCE Orders WITH
         Invoices <- InvoiceIds, Requests <- OrderRequests, Crashing <- {}

I == INSTANCE Invoices WITH Requests <- InvoiceRequests, Crashing <- {}

orderSide == <<resource, ledger, req>>
invoiceSide == <<invoice, ireq, received, cutOff>>
vars == <<order, orderSide, invoiceSide>>

\* No order is in the hands of both services, unless the clients let them meet.
Apart ==
    Meet \/ \A o \in OrderIds, r \in OrderRequests, q \in InvoiceRequests :
                ~(req[r].oid = o /\ o \in ireq[q].orders)

Init == O!Init /\ I!InvoiceInit

OrderSide == (O!OrderStep \/ O!ResourceStep) /\ UNCHANGED invoiceSide

InvoiceSide == I!InvoiceStep /\ UNCHANGED orderSide

Next == (OrderSide \/ InvoiceSide) /\ Apart'

Spec == Init /\ [][Next]_vars

\* "Cancelled orders must not be billed - their stock was already restored": what
\* a standing invoice bills is an order whose units are still out of stock.  It
\* takes both services: create turns cancelled orders away, and updateStatus
\* refuses to cancel an order whose invoiceId, which only the first one writes,
\* is set.
BilledOrdersStand ==
    \A i \in InvoiceIds : I!Standing(i) =>
        \A o \in invoice[i].orders : order[o].status \in {"pending", "completed"}

=============================================================================
