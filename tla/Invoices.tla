------------------------------ MODULE Invoices ------------------------------
(***************************************************************************)
(* Invoices, their payments and the orders they bill: InvoiceService over  *)
(* its Postgres repository, the order rows it links, and the daily job     *)
(* that flags overdue invoices, for one business.                          *)
(*                                                                         *)
(* As in Orders, one action is one database round trip of a handler.  A    *)
(* repository `update` is two: it reads the row again, and its flush       *)
(* writes only the columns whose patched value differs from that reading.  *)
(*                                                                         *)
(* Amounts are in pesewas.  What an invoice comes to is any of Totals (see *)
(* Vat for the arithmetic); the recipient's address, the payment method    *)
(* and dates other than the due date decide nothing that is stated here.   *)
(***************************************************************************)
EXTENDS Integers, FiniteSets

CONSTANTS
    OrderIds,
    CustomerOf,            \* the customer of each order
    InvoiceIds, NoInvoice, \* uuids the database can hand out, and a null
    Requests,              \* concurrently running handlers
    Totals,                \* totalAmount values an invoice can come to
    Payments,              \* amounts a payment can have
    InvoiceOps,            \* what clients ask of an invoice once it is issued
    MaxReceived,           \* bound: payments received on one invoice
    Overlap,               \* whether two requests may work on one invoice at once
    Crashing               \* awaits at which a handler may end for good

InvoiceSteps == {"insert", "attach", "mail", "read", "flush", "detach"}

ASSUME InvoicesAssumption ==
    /\ NoInvoice \notin InvoiceIds
    /\ Totals \subseteq Nat
    /\ Payments \subseteq Nat \ {0}
    /\ InvoiceOps \subseteq {"pay", "send", "status"}
    /\ MaxReceived \in Nat
    /\ Overlap \in BOOLEAN
    /\ Crashing \subseteq InvoiceSteps

VARIABLES
    invoice,  \* table invoices
    order,    \* table orders: status and invoiceId
    ireq,     \* the running handlers of InvoiceService
    received, \* history: the payments answered with success, per invoice
    cutOff    \* history: orders whose linking or release a handler left undone

invoiceVars == <<invoice, order, ireq, received, cutOff>>

-----------------------------------------------------------------------------

InvoiceStatus == {"draft", "sent", "paid", "partially_paid", "overdue", "cancelled"}

INVOICE_TRANSITIONS ==
    [draft          |-> {"sent", "cancelled"},
     sent           |-> {"overdue", "cancelled"},
     partially_paid |-> {"overdue", "cancelled"},
     overdue        |-> {"sent", "cancelled"},
     paid           |-> {"cancelled"},
     cancelled      |-> {}]

Unissued == [status |-> "absent", orders |-> {}, total |-> 0, paid |-> 0, due |-> "none"]

\* `status` and `paid` are the patch, `base` what the update's own read saw.
Waiting == [pc |-> "idle", op |-> "none", iid |-> NoInvoice, orders |-> {},
            status |-> "draft", paid |-> 0, amount |-> 0,
            base |-> [status |-> "draft", paid |-> 0]]

EndRequest(r) == ireq' = [ireq EXCEPT ![r] = Waiting]

Existing(i) == invoice[i].status # "absent"

Standing(i) == invoice[i].status \notin {"absent", "cancelled"}

\* No other handler works on invoice i, or is billing or releasing the orders
\* os, unless the clients let them overlap.
FreeInvoice(i) == Overlap \/ \A r \in Requests : ireq[r].iid # i

FreeOrders(os) == Overlap \/ \A r \in Requests : ireq[r].orders \cap os = {}

-----------------------------------------------------------------------------
(* create *)

\* Mutant: an order that is on an invoice already can be billed again.
BillableAgain(o) == order[o].status \in {"pending", "completed"}

\* Mutant: cancelled orders are not turned away.
BillableCancelled(o) == order[o].status # "absent" /\ order[o].invoice = NoInvoice

Billable(o) ==
    /\ order[o].status \in {"pending", "completed"}
    /\ order[o].invoice = NoInvoice

SameCustomer(os) == \A o, p \in os : CustomerOf[o] = CustomerOf[p]

\* Reads the orders and checks them.
CreateInvoice(r) ==
    /\ ireq[r].pc = "idle"
    /\ \E os \in (SUBSET OrderIds) \ {{}} :
          /\ FreeOrders(os)
          /\ \A o \in os : Billable(o)
          /\ SameCustomer(os)
          /\ ireq' = [ireq EXCEPT ![r] = [Waiting EXCEPT !.pc = "insert",
                                                         !.op = "create",
                                                         !.orders = os]]
    /\ UNCHANGED <<invoice, order, received, cutOff>>

InsertInvoice(r) ==
    /\ ireq[r].pc = "insert"
    /\ \E i \in InvoiceIds, t \in Totals, d \in {"none", "ahead", "past"} :
          /\ invoice[i].status = "absent"
          /\ invoice' = [invoice EXCEPT ![i] =
                 [status |-> "draft", orders |-> ireq[r].orders,
                  total |-> t, paid |-> 0, due |-> d]]
          /\ ireq' = [ireq EXCEPT ![r].pc = "attach", ![r].iid = i]
    /\ UNCHANGED <<order, received, cutOff>>

\* One UPDATE over a set of orders, whoever holds them.
LinkOrders(os, i) ==
    order' = [o \in OrderIds |->
                 IF o \in os THEN [order[o] EXCEPT !.invoice = i] ELSE order[o]]

\* Mutant: only one of the orders is linked.
AttachOne(r) ==
    /\ ireq[r].pc = "attach"
    /\ LinkOrders({CHOOSE o \in ireq[r].orders : TRUE}, ireq[r].iid)
    /\ EndRequest(r)
    /\ UNCHANGED <<invoice, received, cutOff>>

AttachOrders(r) ==
    /\ ireq[r].pc = "attach"
    /\ LinkOrders(ireq[r].orders, ireq[r].iid)
    /\ EndRequest(r)
    /\ UNCHANGED <<invoice, received, cutOff>>

-----------------------------------------------------------------------------
(* recordPayment, send, updateStatus: read, decide, update *)

\* Mutant: the payment replaces what was paid before.
NewPaidReplaces(i, amount) == amount

NewPaid(i, amount) == invoice[i].paid + amount

\* Mutant: what was paid before is compared with the total.
PayableOnce(i, amount) == Standing(i) /\ invoice[i].paid <= invoice[i].total

Payable(i, amount) == Standing(i) /\ NewPaid(i, amount) <= invoice[i].total

\* Mutant: > for >=.
StatusBeyond(i, newPaid) ==
    IF newPaid > invoice[i].total THEN "paid" ELSE "partially_paid"

StatusOnceAt(i, newPaid) ==
    IF newPaid >= invoice[i].total THEN "paid" ELSE "partially_paid"

RecordPayment(r) ==
    /\ "pay" \in InvoiceOps
    /\ ireq[r].pc = "idle"
    /\ \E i \in InvoiceIds, amount \in Payments :
          /\ FreeInvoice(i)
          /\ Payable(i, amount)
          /\ received[i] + amount <= MaxReceived
          /\ ireq' = [ireq EXCEPT ![r] =
                 [Waiting EXCEPT !.pc = "read", !.op = "pay", !.iid = i,
                                 !.paid = NewPaid(i, amount), !.amount = amount,
                                 !.status = StatusOnceAt(i, NewPaid(i, amount))]]
    /\ UNCHANGED <<invoice, order, received, cutOff>>

\* Mutant: sending makes any invoice SENT.
StatusAlwaysSent(i) == "sent"

StatusOnceSent(i) ==
    IF invoice[i].status = "draft" THEN "sent" ELSE invoice[i].status

\* The mail is handed to the provider before the row is updated.
SendInvoice(r) ==
    /\ "send" \in InvoiceOps
    /\ ireq[r].pc = "idle"
    /\ \E i \in InvoiceIds :
          /\ FreeInvoice(i)
          /\ Standing(i)
          /\ ireq' = [ireq EXCEPT ![r] =
                 [Waiting EXCEPT !.pc = "mail", !.op = "send", !.iid = i,
                                 !.status = StatusOnceSent(i)]]
    /\ UNCHANGED <<invoice, order, received, cutOff>>

MailSent(r) ==
    /\ ireq[r].pc = "mail"
    /\ ireq' = [ireq EXCEPT ![r].pc = "read"]
    /\ UNCHANGED <<invoice, order, received, cutOff>>

UpdateInvoiceStatus(r) ==
    /\ "status" \in InvoiceOps
    /\ ireq[r].pc = "idle"
    /\ \E i \in InvoiceIds, target \in InvoiceStatus :
          /\ FreeInvoice(i)
          /\ Existing(i)
          /\ target \in INVOICE_TRANSITIONS[invoice[i].status]
          /\ ireq' = [ireq EXCEPT ![r] =
                 [Waiting EXCEPT !.pc = "read", !.op = "status", !.iid = i,
                                 !.status = target, !.orders = invoice[i].orders]]
    /\ UNCHANGED <<invoice, order, received, cutOff>>

\* The repository's update: its own read of the row ...
ReadRow(r) ==
    LET i == ireq[r].iid
    IN  /\ ireq[r].pc = "read"
        /\ ireq' = [ireq EXCEPT ![r].pc = "flush",
                                ![r].base = [status |-> invoice[i].status,
                                             paid |-> invoice[i].paid]]
        /\ UNCHANGED <<invoice, order, received, cutOff>>

\* A column is written when it was patched and the patch differs from the read.
Written(q, column, patched) == patched /\ q[column] # q.base[column]

\* Mutant: the orders are released only if the row was cancelled before.
FlushRowKeeping(r) ==
    LET q == ireq[r]
        i == q.iid
    IN  /\ q.pc = "flush"
        /\ invoice' = [invoice EXCEPT
               ![i].status = IF Written(q, "status", TRUE) THEN q.status ELSE @,
               ![i].paid = IF Written(q, "paid", q.op = "pay") THEN q.paid ELSE @]
        /\ received' = [received EXCEPT ![i] = @ + q.amount]
        /\ IF q.op = "status" /\ q.base.status = "cancelled"
           THEN ireq' = [ireq EXCEPT ![r].pc = "detach"]
           ELSE EndRequest(r)
        /\ UNCHANGED <<order, cutOff>>

\* ... and its flush.  A cancellation then releases the orders.
FlushRow(r) ==
    LET q == ireq[r]
        i == q.iid
    IN  /\ q.pc = "flush"
        /\ invoice' = [invoice EXCEPT
               ![i].status = IF Written(q, "status", TRUE) THEN q.status ELSE @,
               ![i].paid = IF Written(q, "paid", q.op = "pay") THEN q.paid ELSE @]
        /\ received' = [received EXCEPT ![i] = @ + q.amount]
        /\ IF q.op = "status" /\ q.status = "cancelled"
           THEN ireq' = [ireq EXCEPT ![r].pc = "detach"]
           ELSE EndRequest(r)
        /\ UNCHANGED <<order, cutOff>>

DetachOrders(r) ==
    /\ ireq[r].pc = "detach"
    /\ LinkOrders(ireq[r].orders, NoInvoice)
    /\ EndRequest(r)
    /\ UNCHANGED <<invoice, received, cutOff>>

\* The process dies, or an await throws: what the handler did so far stays.
CrashRequest(r) ==
    /\ ireq[r].pc \in Crashing
    /\ cutOff' = IF ireq[r].pc \in {"attach", "detach"}
                 THEN cutOff \cup ireq[r].orders ELSE cutOff
    /\ EndRequest(r)
    /\ UNCHANGED <<invoice, order, received>>

-----------------------------------------------------------------------------
(* The clock and the daily job *)

DueDatePasses(i) ==
    /\ invoice[i].due = "ahead"
    /\ invoice' = [invoice EXCEPT ![i].due = "past"]
    /\ UNCHANGED <<order, ireq, received, cutOff>>

\* The rows markOverdue's one UPDATE matches.
Late(i) == invoice[i].status \in {"sent", "partially_paid"} /\ invoice[i].due = "past"

\* Mutant: partially paid invoices are left alone.
MarkOverdueUnpaid ==
    /\ \E i \in InvoiceIds : Late(i) /\ invoice[i].status = "sent"
    /\ invoice' = [i \in InvoiceIds |->
                      IF Late(i) /\ invoice[i].status = "sent"
                      THEN [invoice[i] EXCEPT !.status = "overdue"] ELSE invoice[i]]
    /\ UNCHANGED <<order, ireq, received, cutOff>>

MarkOverdue ==
    /\ \E i \in InvoiceIds : Late(i)
    /\ invoice' = [i \in InvoiceIds |->
                      IF Late(i) THEN [invoice[i] EXCEPT !.status = "overdue"]
                      ELSE invoice[i]]
    /\ UNCHANGED <<order, ireq, received, cutOff>>

-----------------------------------------------------------------------------

InvoiceInit ==
    /\ invoice = [i \in InvoiceIds |-> Unissued]
    /\ ireq = [r \in Requests |-> Waiting]
    /\ received = [i \in InvoiceIds |-> 0]
    /\ cutOff = {}

\* The orders are placed; their own life is in Orders.
Init ==
    /\ InvoiceInit
    /\ order \in [OrderIds -> [status : {"pending", "completed", "cancelled"},
                               invoice : {NoInvoice}]]

BeginRequest(r) ==
    \/ CreateInvoice(r) \/ RecordPayment(r) \/ SendInvoice(r) \/ UpdateInvoiceStatus(r)

ContinueRequest(r) ==
    \/ InsertInvoice(r) \/ AttachOrders(r) \/ MailSent(r)
    \/ ReadRow(r) \/ FlushRow(r) \/ DetachOrders(r)

InvoiceStep ==
    \/ \E r \in Requests : BeginRequest(r) \/ ContinueRequest(r) \/ CrashRequest(r)
    \/ \E i \in InvoiceIds : DueDatePasses(i)
    \/ MarkOverdue

Spec == Init /\ [][InvoiceStep]_invoiceVars

\* Every await is answered, and the daily job keeps running.
FairSpec ==
    /\ Spec
    /\ \A r \in Requests : WF_invoiceVars(ContinueRequest(r))
    /\ WF_invoiceVars(MarkOverdue)

-----------------------------------------------------------------------------
(* Properties *)

InvoiceRow == [status : InvoiceStatus \cup {"absent"}, orders : SUBSET OrderIds,
               total : Nat, paid : Nat, due : {"none", "ahead", "past"}]

LinkedOrder == [status : {"absent", "pending", "completed", "cancelled"},
                invoice : InvoiceIds \cup {NoInvoice}]

Request == [pc : InvoiceSteps \cup {"idle"},
            op : {"none", "create", "pay", "send", "status"},
            iid : InvoiceIds \cup {NoInvoice}, orders : SUBSET OrderIds,
            status : InvoiceStatus, paid : Nat, amount : Nat,
            base : [status : InvoiceStatus, paid : Nat]]

\* Every column and every local variable of a handler has its type; a handler
\* that works on an invoice knows which.
TypeOK ==
    /\ invoice \in [InvoiceIds -> InvoiceRow]
    /\ order \in [OrderIds -> LinkedOrder]
    /\ received \in [InvoiceIds -> Nat]
    /\ cutOff \subseteq OrderIds
    /\ ireq \in [Requests -> Request]
    /\ \A r \in Requests : ireq[r].pc \in InvoiceSteps \ {"insert"} =>
           ireq[r].iid \in InvoiceIds /\ Existing(ireq[r].iid)

\* "Overpaying ... is rejected": however requests interleave or die, no invoice
\* is paid more than it comes to.
NeverOverpaid == \A i \in InvoiceIds : invoice[i].paid <= invoice[i].total

\* "Increases amountPaid": the amount paid is all that was received.
PaymentsAddUp == \A i \in InvoiceIds : invoice[i].paid = received[i]

\* The status says how much was paid, whatever the daily job does in between: an
\* invoice is PAID exactly when it is paid in full, a DRAFT has no payment, and
\* PARTIALLY_PAID is neither.
StatusAgreesWithPayments ==
    \A i \in InvoiceIds :
        LET v == invoice[i]
        IN  /\ v.status = "draft" => v.paid = 0
            /\ v.status = "partially_paid" => v.paid > 0 /\ v.paid < v.total
            /\ Standing(i) => (v.status = "paid" <=> v.paid > 0 /\ v.paid = v.total)

\* Cancelling is final, and "without downgrading an already-paid invoice": PAID is
\* only left by a cancellation (send, updateStatus, recordPayment, the daily job).
SettledIsKept ==
    [][\A i \in InvoiceIds :
          /\ invoice[i].status = "cancelled" => invoice'[i].status = "cancelled"
          /\ invoice[i].status = "paid" => invoice'[i].status \in {"paid", "cancelled"}]_invoiceVars

\* "not already invoiced": no order is billed by two invoices that stand, wherever
\* handlers end, but for the orders one of them left half linked or half released:
\* an order that an unlinked invoice bills is free to be billed again, and the
\* damage goes no further.
BilledOnce ==
    \A i, j \in InvoiceIds : i # j /\ Standing(i) /\ Standing(j) =>
        invoice[i].orders \cap invoice[j].orders \subseteq cutOff

\* An order knows the standing invoice that bills it, but for the moment its
\* attachment takes; an order that a cancelled invoice still holds is about to
\* be released.  A handler that ends in between leaves its own orders behind only.
LinksAgree ==
    /\ \A i \in InvoiceIds : Standing(i) => \A o \in invoice[i].orders \ cutOff :
           \/ order[o].invoice = i
           \/ \E r \in Requests : ireq[r].pc = "attach" /\ ireq[r].iid = i
    /\ \A o \in OrderIds, i \in InvoiceIds : order[o].invoice = i =>
           /\ o \in invoice[i].orders
           /\ \/ Standing(i) \/ o \in cutOff
              \/ \E r \in Requests : ireq[r].pc = "detach" /\ ireq[r].iid = i

OnCancelledInvoice(o) ==
    \E i \in InvoiceIds : order[o].invoice = i /\ invoice[i].status = "cancelled"

\* "Cancelling an invoice releases its orders": an order does not stay on a
\* cancelled invoice, unless a handler died over its link.
CancellationReleases ==
    \A o \in OrderIds :
        OnCancelledInvoice(o) ~> ~OnCancelledInvoice(o) \/ o \in cutOff

\* The daily job catches every invoice that stays unpaid past its due date, even
\* one whose status a slow request sets back.
LateIsFlagged == \A i \in InvoiceIds : Late(i) ~> ~Late(i)

=============================================================================
