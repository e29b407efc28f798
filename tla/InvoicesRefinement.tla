------------------------- MODULE InvoicesRefinement -------------------------
(* How the tables and handlers of Invoices stand for an InvoiceBook. *)
EXTENDS Invoices

\* The handlers that are to write `step` for order o.
Writing(step, o) == {r \in Requests : ireq[r].pc = step /\ o \in ireq[r].orders}

\* An order is on an invoice from the insert of the invoice on, though the link
\* is written later, and off it from the write of CANCELLED on.
BilledTo(o) ==
    IF Writing("attach", o) # {} THEN ireq[CHOOSE r \in Writing("attach", o) : TRUE].iid
    ELSE IF Writing("detach", o) # {} THEN NoInvoice
    ELSE order[o].invoice

bookStatus == [i \in InvoiceIds |-> invoice[i].status]

bookTotal == [i \in InvoiceIds |-> invoice[i].total]

bookPaid == [i \in InvoiceIds |-> invoice[i].paid]

bookBilledTo == [o \in OrderIds |-> BilledTo(o)]

Book == INSTANCE InvoiceBook WITH
    status <- bookStatus, total <- bookTotal, paid <- bookPaid, billedTo <- bookBilledTo

\* Requests that take turns on an invoice do what the book says and nothing else:
\* every step of a handler, of the job and of the clock is one of the book's, or
\* cannot be seen in it.
ImplementsInvoiceBook == Book!Spec

=============================================================================
