-------------------------- MODULE OrdersRefinement --------------------------
(***************************************************************************)
(* The handlers of Orders implement OrderBook: to everyone who looks at    *)
(* the book, placing, changing and cancelling an order are atomic.         *)
(*                                                                         *)
(*  - An order is placed when its row is inserted; until then what the     *)
(*    handler has reserved still counts as stock.                          *)
(*  - It is changed when the last stock movement of the edit took effect.  *)
(*  - It is cancelled when the handler has read and accepted it: from then *)
(*    on the units it has yet to give back count as stock.                 *)
(***************************************************************************)
EXTENDS Orders

CONSTANTS
    Quantities, Supplies \* units an order can hold, and a product can have got

Cancelling(o) == \E r \in Requests : req[r].oid = o /\ req[r].target = "cancelled"

Saving(o, r) == req[r].oid = o /\ req[r].pc = "saveItems"

bookSupply ==
    [p \in Products |->
        IF resource[p].state = "absent" THEN 0 ELSE Opening[p] + ledger[p].manual]

bookStatus ==
    [o \in OrderIds |-> IF Cancelling(o) THEN "cancelled" ELSE order[o].status]

bookHolds ==
    [o \in OrderIds |->
        IF \E r \in Requests : Saving(o, r)
        THEN req[CHOOSE r \in Requests : Saving(o, r)].items.units
        ELSE order[o].items.units]

\* Units of p that the handler q has yet to put on the book: what it took that no
\* stored order shows, and what a cancellation has yet to give back.
Pending(p, q) ==
    IF q.pc = "saveItems" THEN 0
    ELSE Held(p, q) + (IF q.target = "cancelled" THEN q.old.units[p] ELSE 0)

bookStock ==
    [p \in Products |->
        resource[p].available
            + SumFunctionOnSet([r \in Requests |-> Pending(p, req[r])], Requests)]

Book == INSTANCE OrderBook WITH
    supply <- bookSupply, stock <- bookStock, status <- bookStatus, holds <- bookHolds

\* Every step of the order flow is a step of OrderBook, or changes nothing a
\* reader of the book could see.
ImplementsOrderBook == Book!BookSpec

=============================================================================
