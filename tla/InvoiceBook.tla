----------------------------- MODULE InvoiceBook -----------------------------
(***************************************************************************)
(* What the invoice flow promises: an order is on one invoice or on none,  *)
(* and issuing an invoice, recording a payment, flagging what is late and  *)
(* cancelling happen at once, with nothing of a change to be seen before   *)
(* the rest of it.                                                         *)
(***************************************************************************)
EXTENDS Integers

CONSTANTS OrderIds, InvoiceIds, NoInvoice, Totals, Payments

VARIABLES
    status,   \* of each invoice
    total,    \* what it comes to
    paid,     \* how much of that is paid
    billedTo  \* the invoice each order is on

bookVars == <<status, total, paid, billedTo>>

Init ==
    /\ status = [i \in InvoiceIds |-> "absent"]
    /\ total = [i \in InvoiceIds |-> 0]
    /\ paid = [i \in InvoiceIds |-> 0]
    /\ billedTo = [o \in OrderIds |-> NoInvoice]

Open(i) == status[i] \notin {"absent", "cancelled"}

\* The orders os go from invoice i to invoice j, where no invoice is one too.
Rebill(os, i, j) ==
    /\ \A o \in os : billedTo[o] = i
    /\ billedTo' = [o \in OrderIds |-> IF o \in os THEN j ELSE billedTo[o]]

Issue(i) ==
    /\ status[i] = "absent"
    /\ status' = [status EXCEPT ![i] = "draft"]
    /\ \E t \in Totals : total' = [total EXCEPT ![i] = t]
    /\ \E os \in (SUBSET OrderIds) \ {{}} : Rebill(os, NoInvoice, i)
    /\ UNCHANGED paid

\* A payment settles the invoice or leaves it open, and does not undo a flag.
Pay(i, amount) ==
    /\ Open(i)
    /\ paid[i] + amount <= total[i]
    /\ paid' = [paid EXCEPT ![i] = @ + amount]
    /\ \E s \in IF paid'[i] = total[i] THEN {"paid"} ELSE {"partially_paid", "overdue"} :
          status' = [status EXCEPT ![i] = s]
    /\ UNCHANGED <<total, billedTo>>

\* A draft is sent; a flag is taken back.
Send(i) ==
    /\ status[i] \in {"draft", "overdue"}
    /\ \/ status' = [status EXCEPT ![i] = "sent"]
       \/ /\ status[i] = "overdue" /\ 0 < paid[i] /\ paid[i] < total[i]
          /\ status' = [status EXCEPT ![i] = "partially_paid"]
    /\ UNCHANGED <<total, paid, billedTo>>

\* Invoices that wait for their money are flagged, all that are late at once.
Flag(is) ==
    /\ \A i \in is : status[i] \in {"sent", "partially_paid"}
    /\ status' = [i \in InvoiceIds |-> IF i \in is THEN "overdue" ELSE status[i]]
    /\ UNCHANGED <<total, paid, billedTo>>

\* Whatever was paid, all orders of the invoice are free with the same step.
Cancel(i) ==
    /\ Open(i)
    /\ status' = [status EXCEPT ![i] = "cancelled"]
    /\ Rebill({o \in OrderIds : billedTo[o] = i}, i, NoInvoice)
    /\ UNCHANGED <<total, paid>>

Next ==
    \/ \E i \in InvoiceIds :
          \/ Issue(i) \/ Send(i) \/ Cancel(i)
          \/ \E amount \in Payments : Pay(i, amount)
    \/ \E is \in SUBSET InvoiceIds : Flag(is)

Spec == Init /\ [][Next]_bookVars

=============================================================================
