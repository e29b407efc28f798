--------------------------- MODULE InvoicesProofs ---------------------------
(***************************************************************************)
(* Theorems about Invoices, for every number of orders, invoices, requests *)
(* and every set of totals and payments.                                   *)
(***************************************************************************)
EXTENDS InvoicesRefinement, TLAPS

-----------------------------------------------------------------------------
(* Types *)

\* An idle handler is a handler.
LEMMA WaitingType == Waiting \in Request
BY DEF Waiting, Request, InvoiceStatus

\* A handler that ends keeps the table of handlers typed.
LEMMA EndType ==
  ASSUME TypeOK, NEW r \in Requests, EndRequest(r)
  PROVE  /\ ireq' \in [Requests -> Request]
         /\ \A q \in Requests : ireq'[q] = IF q = r THEN Waiting ELSE ireq[q]
BY WaitingType DEF TypeOK, EndRequest

\* One UPDATE over the orders keeps them typed.
LEMMA LinkType ==
  ASSUME TypeOK, NEW os, NEW i \in InvoiceIds \cup {NoInvoice}, LinkOrders(os, i)
  PROVE  order' \in [OrderIds -> LinkedOrder]
BY DEF TypeOK, LinkOrders, LinkedOrder

\* A handler that works on an existing invoice is typed.
LEMMA HandlerType ==
  ASSUME TypeOK, NEW r \in Requests, NEW q \in Request,
         q.iid \in InvoiceIds, Existing(q.iid),
         ireq' = [ireq EXCEPT ![r] = q], UNCHANGED <<invoice, order, received, cutOff>>
  PROVE  TypeOK'
BY DEF TypeOK, Existing

\* Reading and accepting a request keeps the types.
LEMMA BeginTyped ==
  ASSUME TypeOK, NEW r \in Requests, BeginRequest(r)
  PROVE  TypeOK'
<1>. USE InvoicesAssumption
<1>1. CASE CreateInvoice(r)
  <2>1. PICK os \in SUBSET OrderIds :
            ireq' = [ireq EXCEPT ![r] = [Waiting EXCEPT !.pc = "insert",
                                                        !.op = "create",
                                                        !.orders = os]]
    BY <1>1 DEF CreateInvoice
  <2>2. [Waiting EXCEPT !.pc = "insert", !.op = "create", !.orders = os] \in Request
    BY DEF Waiting, Request, InvoiceStatus, InvoiceSteps
  <2>. QED
    BY <1>1, <2>1, <2>2 DEF CreateInvoice, TypeOK, InvoiceSteps, Existing, Waiting
<1>2. CASE RecordPayment(r)
  <2>1. PICK i \in InvoiceIds, amount \in Payments :
            /\ Payable(i, amount)
            /\ ireq' = [ireq EXCEPT ![r] =
                 [Waiting EXCEPT !.pc = "read", !.op = "pay", !.iid = i,
                                 !.paid = NewPaid(i, amount), !.amount = amount,
                                 !.status = StatusOnceAt(i, NewPaid(i, amount))]]
    BY <1>2 DEF RecordPayment
  <2>2. amount \in Nat /\ NewPaid(i, amount) \in Nat
    BY DEF NewPaid, TypeOK, InvoiceRow
  <2>3. StatusOnceAt(i, NewPaid(i, amount)) \in InvoiceStatus
    BY DEF StatusOnceAt, InvoiceStatus
  <2>. DEFINE q == [Waiting EXCEPT !.pc = "read", !.op = "pay", !.iid = i,
                                 !.paid = NewPaid(i, amount), !.amount = amount,
                                 !.status = StatusOnceAt(i, NewPaid(i, amount))]
  <2>4. q \in Request /\ q.iid = i
    BY <2>2, <2>3 DEF Waiting, Request, InvoiceStatus, InvoiceSteps
  <2>5. ireq' = [ireq EXCEPT ![r] = q] /\ Existing(i)
    BY <2>1 DEF Payable, Standing, Existing
  <2>. HIDE DEF q
  <2>. QED
    BY <1>2, <2>4, <2>5, HandlerType DEF RecordPayment
<1>3. CASE SendInvoice(r)
  <2>1. PICK i \in InvoiceIds :
            /\ Standing(i)
            /\ ireq' = [ireq EXCEPT ![r] =
                 [Waiting EXCEPT !.pc = "mail", !.op = "send", !.iid = i,
                                 !.status = StatusOnceSent(i)]]
    BY <1>3 DEF SendInvoice
  <2>2. StatusOnceSent(i) \in InvoiceStatus
    BY <2>1 DEF StatusOnceSent, Standing, InvoiceStatus, TypeOK, InvoiceRow
  <2>. DEFINE q == [Waiting EXCEPT !.pc = "mail", !.op = "send", !.iid = i,
                                 !.status = StatusOnceSent(i)]
  <2>3. q \in Request /\ q.iid = i
    BY <2>2 DEF Waiting, Request, InvoiceStatus, InvoiceSteps
  <2>4. ireq' = [ireq EXCEPT ![r] = q] /\ Existing(i)
    BY <2>1 DEF Standing, Existing
  <2>. HIDE DEF q
  <2>. QED
    BY <1>3, <2>3, <2>4, HandlerType DEF SendInvoice
<1>4. CASE UpdateInvoiceStatus(r)
  <2>1. PICK i \in InvoiceIds, target \in InvoiceStatus :
            /\ Existing(i)
            /\ ireq' = [ireq EXCEPT ![r] =
                 [Waiting EXCEPT !.pc = "read", !.op = "status", !.iid = i,
                                 !.status = target, !.orders = invoice[i].orders]]
    BY <1>4 DEF UpdateInvoiceStatus
  <2>. DEFINE q == [Waiting EXCEPT !.pc = "read", !.op = "status", !.iid = i,
                                 !.status = target, !.orders = invoice[i].orders]
  <2>2. q \in Request /\ q.iid = i
    BY <2>1 DEF Waiting, Request, InvoiceStatus, InvoiceSteps, TypeOK, InvoiceRow
  <2>3. ireq' = [ireq EXCEPT ![r] = q]
    BY <2>1
  <2>. HIDE DEF q
  <2>. QED
    BY <1>4, <2>1, <2>2, <2>3, HandlerType DEF UpdateInvoiceStatus
<1>. QED
  BY <1>1, <1>2, <1>3, <1>4 DEF BeginRequest

LEMMA ContinueTyped ==
  ASSUME TypeOK, NEW r \in Requests, ContinueRequest(r)
  PROVE  TypeOK'
<1>. USE InvoicesAssumption
<1>. DEFINE q == ireq[r]
<1>0. q \in Request
  BY DEF TypeOK
<1>1. CASE InsertInvoice(r)
  <2>1. PICK i \in InvoiceIds, t \in Totals, d \in {"none", "ahead", "past"} :
            /\ invoice' = [invoice EXCEPT ![i] =
                   [status |-> "draft", orders |-> q.orders,
                    total |-> t, paid |-> 0, due |-> d]]
            /\ ireq' = [ireq EXCEPT ![r].pc = "attach", ![r].iid = i]
    BY <1>1 DEF InsertInvoice
  <2>2. [status |-> "draft", orders |-> q.orders,
         total |-> t, paid |-> 0, due |-> d] \in InvoiceRow
    BY <1>0 DEF InvoiceRow, InvoiceStatus, Request
  <2>3. [q EXCEPT !.pc = "attach", !.iid = i] \in Request
    BY <1>0 DEF Request, InvoiceSteps
  <2>4. ireq' = [ireq EXCEPT ![r] = [q EXCEPT !.pc = "attach", !.iid = i]]
    BY <2>1 DEF TypeOK
  <2>5. invoice' \in [InvoiceIds -> InvoiceRow] /\ ireq' \in [Requests -> Request]
    BY <2>1, <2>2, <2>3, <2>4 DEF TypeOK
  <2>6. \A j \in InvoiceIds : Existing(j) => Existing(j)'
    BY <2>1 DEF Existing, TypeOK
  <2>7. ireq'[r].iid = i /\ Existing(i)'
    BY <1>0, <2>1, <2>4 DEF Existing, TypeOK, Request
  <2>. QED
    BY <1>1, <2>4, <2>5, <2>6, <2>7 DEF InsertInvoice, TypeOK
<1>2. CASE AttachOrders(r)
  <2>1. q.iid \in InvoiceIds
    BY <1>2 DEF AttachOrders, TypeOK, InvoiceSteps
  <2>2. order' \in [OrderIds -> LinkedOrder]
    BY <1>2, <2>1, LinkType DEF AttachOrders
  <2>. QED
    BY <1>2, <2>2, EndType DEF AttachOrders, TypeOK, Existing, Waiting, InvoiceSteps
<1>3. CASE MailSent(r)
  <2>1. [q EXCEPT !.pc = "read"] \in Request
    BY <1>0 DEF Request, InvoiceSteps
  <2>2. q.iid \in InvoiceIds /\ Existing(q.iid)
    BY <1>3 DEF MailSent, TypeOK, InvoiceSteps
  <2>. QED
    BY <1>0, <1>3, <2>1, <2>2 DEF MailSent, TypeOK, Existing, Request
<1>4. CASE ReadRow(r)
  <2>1. q.iid \in InvoiceIds /\ Existing(q.iid)
    BY <1>4 DEF ReadRow, TypeOK, InvoiceSteps
  <2>. DEFINE b == [status |-> invoice[q.iid].status, paid |-> invoice[q.iid].paid]
  <2>2. b \in [status : InvoiceStatus, paid : Nat]
    BY <2>1 DEF TypeOK, InvoiceRow, Existing
  <2>3. ireq' = [ireq EXCEPT ![r] = [q EXCEPT !.pc = "flush", !.base = b]]
    BY <1>4 DEF ReadRow, TypeOK
  <2>. HIDE DEF b
  <2>4. [q EXCEPT !.pc = "flush", !.base = b] \in Request
    BY <1>0, <2>2 DEF Request, InvoiceSteps
  <2>5. [q EXCEPT !.pc = "flush", !.base = b].iid = q.iid
    BY <1>0 DEF Request
  <2>. QED
    BY <1>4, <2>1, <2>3, <2>4, <2>5, HandlerType DEF ReadRow
<1>5. CASE FlushRow(r)
  <2>1. q.iid \in InvoiceIds /\ Existing(q.iid)
    BY <1>5 DEF FlushRow, TypeOK, InvoiceSteps
  <2>2. PICK s \in InvoiceStatus, p \in Nat :
            invoice' = [invoice EXCEPT ![q.iid].status = s, ![q.iid].paid = p]
    <3>. DEFINE s == IF Written(q, "status", TRUE) THEN q.status
                     ELSE invoice[q.iid].status
                p == IF Written(q, "paid", q.op = "pay") THEN q.paid
                     ELSE invoice[q.iid].paid
    <3>1. s \in InvoiceStatus /\ p \in Nat
      BY <1>0, <2>1 DEF Request, TypeOK, InvoiceRow, Existing
    <3>2. invoice' = [invoice EXCEPT ![q.iid].status = s, ![q.iid].paid = p]
      BY <1>5, <2>1 DEF FlushRow, TypeOK, InvoiceRow
    <3>. QED
      BY <3>1, <3>2
  <2>3. [invoice[q.iid] EXCEPT !.status = s, !.paid = p] \in InvoiceRow
    BY <2>1 DEF TypeOK, InvoiceRow
  <2>4. invoice' = [invoice EXCEPT ![q.iid] =
                       [invoice[q.iid] EXCEPT !.status = s, !.paid = p]]
    BY <2>2 DEF TypeOK
  <2>5. invoice' \in [InvoiceIds -> InvoiceRow]
    BY <2>1, <2>3, <2>4 DEF TypeOK
  <2>6. \A j \in InvoiceIds : Existing(j) => Existing(j)'
    BY <2>1, <2>3, <2>4 DEF Existing, TypeOK, InvoiceRow, InvoiceStatus
  <2>7. received' \in [InvoiceIds -> Nat]
    BY <1>0, <1>5, <2>1 DEF FlushRow, TypeOK, Request
  <2>8. CASE q.op = "status" /\ q.status = "cancelled"
    <3>1. ireq' = [ireq EXCEPT ![r] = [q EXCEPT !.pc = "detach"]]
      BY <1>5, <2>8 DEF FlushRow, TypeOK
    <3>2. [q EXCEPT !.pc = "detach"] \in Request
          /\ [q EXCEPT !.pc = "detach"].iid = q.iid
      BY <1>0 DEF Request, InvoiceSteps
    <3>. QED
      BY <1>5, <2>1, <2>5, <2>6, <2>7, <3>1, <3>2 DEF FlushRow, TypeOK
  <2>9. CASE ~(q.op = "status" /\ q.status = "cancelled")
    <3>1. EndRequest(r)
      BY <1>5, <2>9 DEF FlushRow
    <3>. QED
      BY <1>5, <2>5, <2>6, <2>7, <3>1, EndType
      DEF FlushRow, TypeOK, Waiting, InvoiceSteps
  <2>. QED
    BY <2>8, <2>9
<1>6. CASE DetachOrders(r)
  <2>1. order' \in [OrderIds -> LinkedOrder]
    BY <1>6, LinkType DEF DetachOrders
  <2>. QED
    BY <1>6, <2>1, EndType DEF DetachOrders, TypeOK, Existing, Waiting, InvoiceSteps
<1>. QED
  BY <1>1, <1>2, <1>3, <1>4, <1>5, <1>6 DEF ContinueRequest

\* A due date that passes, and the daily job, change one column of rows.
LEMMA ClockTyped ==
  ASSUME TypeOK, MarkOverdue \/ \E i \in InvoiceIds : DueDatePasses(i)
  PROVE  TypeOK'
<1>1. CASE MarkOverdue
  <2>1. invoice' \in [InvoiceIds -> InvoiceRow]
    BY <1>1 DEF MarkOverdue, TypeOK, InvoiceRow, InvoiceStatus
  <2>2. \A i \in InvoiceIds : Existing(i) => Existing(i)'
    BY <1>1 DEF MarkOverdue, Existing, TypeOK, InvoiceRow
  <2>. QED
    BY <1>1, <2>1, <2>2 DEF MarkOverdue, TypeOK
<1>2. ASSUME NEW i \in InvoiceIds, DueDatePasses(i)
      PROVE  TypeOK'
  <2>1. invoice' \in [InvoiceIds -> InvoiceRow]
    BY <1>2 DEF DueDatePasses, TypeOK, InvoiceRow
  <2>2. \A j \in InvoiceIds : Existing(j) => Existing(j)'
    BY <1>2 DEF DueDatePasses, Existing, TypeOK, InvoiceRow
  <2>. QED
    BY <1>2, <2>1, <2>2 DEF DueDatePasses, TypeOK
<1>. QED
  BY <1>1, <1>2

LEMMA StepTyped == TypeOK /\ [InvoiceStep]_invoiceVars => TypeOK'
<1>. SUFFICES ASSUME TypeOK, [InvoiceStep]_invoiceVars PROVE TypeOK'
  OBVIOUS
<1>1. ASSUME NEW r \in Requests, CrashRequest(r)
      PROVE  TypeOK'
  <2>1. cutOff' \subseteq OrderIds
    BY <1>1 DEF CrashRequest, TypeOK, Request
  <2>. QED
    BY <1>1, <2>1, EndType DEF CrashRequest, TypeOK, Existing, Waiting, InvoiceSteps
<1>2. CASE UNCHANGED invoiceVars
  BY <1>2 DEF invoiceVars, TypeOK, Existing
<1>. QED
  BY <1>1, <1>2, BeginTyped, ContinueTyped, ClockTyped DEF InvoiceStep

LEMMA InitTyped == Init => TypeOK
<1>. SUFFICES ASSUME Init PROVE TypeOK
  OBVIOUS
<1>1. invoice \in [InvoiceIds -> InvoiceRow]
  BY DEF Init, InvoiceInit, Unissued, InvoiceRow
<1>2. order \in [OrderIds -> LinkedOrder]
  BY DEF Init, LinkedOrder
<1>3. \A r \in Requests : ireq[r].pc = "idle"
  BY DEF Init, InvoiceInit, Waiting
<1>. QED
  BY <1>1, <1>2, <1>3, WaitingType DEF Init, InvoiceInit, TypeOK, InvoiceSteps

\* Every column of the invoices and orders, and every local variable of a
\* handler of InvoiceService, keeps its type.
THEOREM InvoiceTypesHold == Spec => []TypeOK
BY InitTyped, StepTyped, PTL DEF Spec


-----------------------------------------------------------------------------
(* What a step writes *)

\* What a handler has decided, and keeps while it waits.
Decided(w, q) ==
    /\ w.op = q.op /\ w.iid = q.iid /\ w.orders = q.orders
    /\ w.status = q.status /\ w.paid = q.paid /\ w.amount = q.amount

\* The columns a flush writes, each by itself.
LEMMA FlushWrites ==
  ASSUME TypeOK, NEW r \in Requests, FlushRow(r)
  PROVE  LET q == ireq[r]
             v == invoice[q.iid]
             w == invoice'[q.iid]
         IN  /\ q.iid \in InvoiceIds
             /\ \A j \in InvoiceIds \ {q.iid} : invoice'[j] = invoice[j]
             /\ w.total = v.total /\ w.orders = v.orders
             /\ w.status = IF q.status # q.base.status THEN q.status ELSE v.status
             /\ w.paid = IF q.op = "pay" /\ q.paid # q.base.paid THEN q.paid ELSE v.paid
             /\ received' = [received EXCEPT ![q.iid] = @ + q.amount]
             /\ order' = order
<1>. DEFINE q == ireq[r]
            v == invoice[q.iid]
            s == IF q.status # q.base.status THEN q.status ELSE v.status
            p == IF q.op = "pay" /\ q.paid # q.base.paid THEN q.paid ELSE v.paid
<1>1. q.iid \in InvoiceIds
  BY DEF FlushRow, TypeOK, InvoiceSteps
<1>2. v \in InvoiceRow
  BY <1>1 DEF TypeOK
<1>3. invoice' = [invoice EXCEPT ![q.iid].status = s, ![q.iid].paid = p]
  BY <1>1, <1>2 DEF FlushRow, Written, TypeOK, InvoiceRow
<1>4. invoice' = [invoice EXCEPT ![q.iid] = [v EXCEPT !.status = s, !.paid = p]]
  BY <1>1, <1>3 DEF TypeOK
<1>5. invoice'[q.iid] = [v EXCEPT !.status = s, !.paid = p]
  BY <1>1, <1>4 DEF TypeOK
<1>6. \A j \in InvoiceIds \ {q.iid} : invoice'[j] = invoice[j]
  BY <1>1, <1>4 DEF TypeOK
<1>7. /\ [v EXCEPT !.status = s, !.paid = p].status = s
      /\ [v EXCEPT !.status = s, !.paid = p].paid = p
      /\ [v EXCEPT !.status = s, !.paid = p].total = v.total
      /\ [v EXCEPT !.status = s, !.paid = p].orders = v.orders
  BY <1>2 DEF InvoiceRow
<1>8. received' = [received EXCEPT ![q.iid] = @ + q.amount] /\ order' = order
  BY DEF FlushRow
<1>. QED
  BY <1>1, <1>5, <1>6, <1>7, <1>8

\* Where a flush leaves its handler.
LEMMA FlushGoesOn ==
  ASSUME TypeOK, NEW r \in Requests, FlushRow(r)
  PROVE  /\ ireq[r].pc = "flush"
         /\ \A x \in Requests \ {r} : ireq'[x] = ireq[x]
         /\ \/ /\ ireq[r].op = "status" /\ ireq[r].status = "cancelled"
               /\ ireq'[r].pc = "detach" /\ Decided(ireq'[r], ireq[r])
            \/ /\ ~(ireq[r].op = "status" /\ ireq[r].status = "cancelled")
               /\ ireq'[r] = Waiting
<1>1. ireq[r] \in Request
  BY DEF TypeOK
<1>2. LET w == [ireq[r] EXCEPT !.pc = "detach"]
      IN  w.pc = "detach" /\ Decided(w, ireq[r])
  BY <1>1 DEF Request, Decided
<1>. QED
  BY <1>2 DEF FlushRow, EndRequest, TypeOK

\* Inserting adds one row and nothing else.
LEMMA InsertWrites ==
  ASSUME TypeOK, NEW r \in Requests, InsertInvoice(r)
  PROVE  \E i \in InvoiceIds :
            /\ ~Existing(i)
            /\ invoice'[i].status = "draft" /\ invoice'[i].paid = 0
            /\ invoice'[i].total \in Nat /\ invoice'[i].orders = ireq[r].orders
            /\ \A j \in InvoiceIds \ {i} : invoice'[j] = invoice[j]
            /\ ireq'[r].pc = "attach" /\ ireq'[r].iid = i
            /\ ireq'[r].orders = ireq[r].orders
            /\ \A x \in Requests \ {r} : ireq'[x] = ireq[x]
            /\ UNCHANGED <<order, received>>
<1>1. PICK i \in InvoiceIds, t \in Totals, d \in {"none", "ahead", "past"} :
          /\ invoice[i].status = "absent"
          /\ invoice' = [invoice EXCEPT ![i] =
                 [status |-> "draft", orders |-> ireq[r].orders,
                  total |-> t, paid |-> 0, due |-> d]]
          /\ ireq' = [ireq EXCEPT ![r].pc = "attach", ![r].iid = i]
  BY DEF InsertInvoice
<1>2. ireq' = [ireq EXCEPT ![r] = [ireq[r] EXCEPT !.pc = "attach", !.iid = i]]
  BY <1>1 DEF TypeOK
<1>3. t \in Nat
  BY InvoicesAssumption
<1>4. invoice'[i] = [status |-> "draft", orders |-> ireq[r].orders,
                     total |-> t, paid |-> 0, due |-> d]
  BY <1>1 DEF TypeOK
<1>5. /\ ireq'[r].pc = "attach" /\ ireq'[r].iid = i
      /\ ireq'[r].orders = ireq[r].orders
      /\ \A x \in Requests \ {r} : ireq'[x] = ireq[x]
  <2>1. ireq'[r] = [ireq[r] EXCEPT !.pc = "attach", !.iid = i] /\ ireq[r] \in Request
    BY <1>2 DEF TypeOK
  <2>. QED
    BY <1>2, <2>1 DEF TypeOK, Request
<1>6. \A j \in InvoiceIds \ {i} : invoice'[j] = invoice[j]
  BY <1>1 DEF TypeOK
<1>7. UNCHANGED <<order, received>> /\ ~Existing(i)
  BY <1>1 DEF InsertInvoice, Existing
<1>8. /\ invoice'[i].status = "draft" /\ invoice'[i].paid = 0
      /\ invoice'[i].total \in Nat /\ invoice'[i].orders = ireq[r].orders
  BY <1>3, <1>4
<1>. QED
  BY <1>5, <1>6, <1>7, <1>8

\* The clock and the daily job write two columns, and no handler.
LEMMA ClockWrites ==
  ASSUME TypeOK, MarkOverdue \/ \E i \in InvoiceIds : DueDatePasses(i)
  PROVE  /\ UNCHANGED <<order, ireq, received>>
         /\ \A i \in InvoiceIds :
               /\ invoice'[i].total = invoice[i].total
               /\ invoice'[i].orders = invoice[i].orders
               /\ invoice'[i].paid = invoice[i].paid
               /\ \/ invoice'[i].status = invoice[i].status
                  \/ /\ invoice[i].status \in {"sent", "partially_paid"}
                     /\ invoice'[i].status = "overdue"
<1>1. CASE MarkOverdue
  BY <1>1 DEF MarkOverdue, Late, TypeOK, InvoiceRow
<1>2. ASSUME NEW i \in InvoiceIds, DueDatePasses(i)
      PROVE  /\ UNCHANGED <<order, ireq, received>>
             /\ \A j \in InvoiceIds :
                   /\ invoice'[j].total = invoice[j].total
                   /\ invoice'[j].orders = invoice[j].orders
                   /\ invoice'[j].paid = invoice[j].paid
                   /\ invoice'[j].status = invoice[j].status
  BY <1>2 DEF DueDatePasses, TypeOK, InvoiceRow
<1>. QED
  BY <1>1, <1>2

\* Attaching, detaching and dying end a handler and write no invoice.
LEMMA EndingWrites ==
  ASSUME TypeOK, NEW r \in Requests,
         AttachOrders(r) \/ DetachOrders(r) \/ CrashRequest(r)
  PROVE  /\ UNCHANGED <<invoice, received>>
         /\ ireq'[r] = Waiting
         /\ \A x \in Requests \ {r} : ireq'[x] = ireq[x]
BY DEF AttachOrders, DetachOrders, CrashRequest, EndRequest, TypeOK

\* Reading the row again remembers its status and its amount paid.
LEMMA ReadWrites ==
  ASSUME TypeOK, NEW r \in Requests, ReadRow(r)
  PROVE  LET i == ireq[r].iid
         IN  /\ UNCHANGED <<invoice, order, received>>
             /\ i \in InvoiceIds
             /\ ireq'[r].pc = "flush" /\ Decided(ireq'[r], ireq[r])
             /\ ireq'[r].base.status = invoice[i].status
             /\ ireq'[r].base.paid = invoice[i].paid
             /\ \A x \in Requests \ {r} : ireq'[x] = ireq[x]
<1>. DEFINE q == ireq[r]
            b == [status |-> invoice[q.iid].status, paid |-> invoice[q.iid].paid]
<1>1. q \in Request /\ q.iid \in InvoiceIds
  BY DEF ReadRow, TypeOK, InvoiceSteps
<1>2. ireq' = [ireq EXCEPT ![r] = [q EXCEPT !.pc = "flush", !.base = b]]
  BY DEF ReadRow, TypeOK
<1>3. UNCHANGED <<invoice, order, received>>
  BY DEF ReadRow
<1>4. b.status = invoice[q.iid].status /\ b.paid = invoice[q.iid].paid
  OBVIOUS
<1>. HIDE DEF b
<1>5. LET w == [q EXCEPT !.pc = "flush", !.base = b]
      IN  w.pc = "flush" /\ w.base = b /\ Decided(w, q)
  BY <1>1 DEF Request, Decided
<1>6. ireq'[r] = [q EXCEPT !.pc = "flush", !.base = b]
  BY <1>2 DEF TypeOK
<1>7. \A x \in Requests \ {r} : ireq'[x] = ireq[x]
  BY <1>2 DEF TypeOK
<1>. QED
  BY <1>1, <1>3, <1>4, <1>5, <1>6, <1>7

LEMMA MailWrites ==
  ASSUME TypeOK, NEW r \in Requests, MailSent(r)
  PROVE  /\ UNCHANGED <<invoice, order, received>>
         /\ ireq'[r].pc = "read" /\ Decided(ireq'[r], ireq[r])
         /\ \A x \in Requests \ {r} : ireq'[x] = ireq[x]
<1>1. ireq[r] \in Request
  BY DEF TypeOK
<1>2. ireq'[r] = [ireq[r] EXCEPT !.pc = "read"]
  BY DEF MailSent, TypeOK
<1>3. ireq'[r].pc = "read" /\ Decided(ireq'[r], ireq[r])
  BY <1>1, <1>2 DEF Request, Decided
<1>. QED
  BY <1>3 DEF MailSent, TypeOK

\* Accepting a request writes no table.
LEMMA BeginWrites ==
  ASSUME TypeOK, NEW r \in Requests, BeginRequest(r)
  PROVE  /\ UNCHANGED <<invoice, order, received>>
         /\ ireq[r].pc = "idle"
         /\ \A x \in Requests \ {r} : ireq'[x] = ireq[x]
BY DEF BeginRequest, CreateInvoice, RecordPayment, SendInvoice, UpdateInvoiceStatus, TypeOK

-----------------------------------------------------------------------------
(* No invoice is overpaid *)

\* The amount a handler is about to write is one its invoice allows.
PatchesAllowed ==
    \A r \in Requests : ireq[r].pc \in {"mail", "read", "flush"} =>
        ireq[r].paid <= invoice[ireq[r].iid].total

PaidInv == TypeOK /\ NeverOverpaid /\ PatchesAllowed

LEMMA BeginAllowed ==
  ASSUME PaidInv, NEW r \in Requests, BeginRequest(r)
  PROVE  PatchesAllowed'
<1>. TypeOK
  BY DEF PaidInv
<1>1. CASE CreateInvoice(r)
  BY <1>1 DEF CreateInvoice, Waiting, PaidInv, PatchesAllowed, TypeOK
<1>2. CASE RecordPayment(r)
  <2>1. PICK i \in InvoiceIds, amount \in Payments :
            /\ Payable(i, amount)
            /\ ireq' = [ireq EXCEPT ![r] =
                 [Waiting EXCEPT !.pc = "read", !.op = "pay", !.iid = i,
                                 !.paid = NewPaid(i, amount), !.amount = amount,
                                 !.status = StatusOnceAt(i, NewPaid(i, amount))]]
    BY <1>2 DEF RecordPayment
  <2>2. ireq'[r].iid = i /\ ireq'[r].paid = NewPaid(i, amount)
    BY <2>1 DEF TypeOK, Waiting
  <2>. QED
    BY <1>2, <2>1, <2>2, BeginWrites DEF PaidInv, PatchesAllowed, Payable
<1>3. CASE SendInvoice(r)
  <2>1. ireq'[r].iid \in InvoiceIds /\ ireq'[r].paid = 0
    BY <1>3 DEF SendInvoice, Waiting, TypeOK
  <2>. QED
    BY <1>3, <2>1, BeginWrites DEF PaidInv, PatchesAllowed, TypeOK, InvoiceRow
<1>4. CASE UpdateInvoiceStatus(r)
  <2>1. ireq'[r].iid \in InvoiceIds /\ ireq'[r].paid = 0
    BY <1>4 DEF UpdateInvoiceStatus, Waiting, TypeOK
  <2>. QED
    BY <1>4, <2>1, BeginWrites DEF PaidInv, PatchesAllowed, TypeOK, InvoiceRow
<1>. QED
  BY <1>1, <1>2, <1>3, <1>4 DEF BeginRequest

LEMMA StepAllowed == PaidInv /\ [InvoiceStep]_invoiceVars => PaidInv'
<1>. SUFFICES ASSUME PaidInv, [InvoiceStep]_invoiceVars PROVE PaidInv'
  OBVIOUS
<1>. TypeOK /\ NeverOverpaid /\ PatchesAllowed /\ TypeOK'
  BY StepTyped DEF PaidInv
<1>0. \A r \in Requests : ireq[r].pc \in {"mail", "read", "flush"} =>
          /\ ireq[r].iid \in InvoiceIds /\ Existing(ireq[r].iid)
          /\ ireq[r].paid <= invoice[ireq[r].iid].total
  BY DEF TypeOK, InvoiceSteps, PatchesAllowed
<1>1. ASSUME NEW r \in Requests, BeginRequest(r)
      PROVE  NeverOverpaid' /\ PatchesAllowed'
  BY <1>1, BeginWrites, BeginAllowed DEF NeverOverpaid
<1>2. ASSUME NEW r \in Requests, InsertInvoice(r)
      PROVE  NeverOverpaid' /\ PatchesAllowed'
  <2>1. PICK i \in InvoiceIds :
            /\ ~Existing(i)
            /\ invoice'[i].status = "draft" /\ invoice'[i].paid = 0
            /\ invoice'[i].total \in Nat
            /\ \A j \in InvoiceIds \ {i} : invoice'[j] = invoice[j]
            /\ ireq'[r].pc = "attach"
            /\ \A x \in Requests \ {r} : ireq'[x] = ireq[x]
    BY <1>2, InsertWrites
  <2>2. NeverOverpaid'
    BY <2>1 DEF NeverOverpaid
  <2>3. ASSUME NEW x \in Requests, ireq'[x].pc \in {"mail", "read", "flush"}
        PROVE  ireq'[x].paid <= invoice'[ireq'[x].iid].total
    BY <1>0, <2>1, <2>3
  <2>. QED
    BY <2>2, <2>3 DEF PatchesAllowed
<1>3. ASSUME NEW r \in Requests, FlushRow(r)
      PROVE  NeverOverpaid' /\ PatchesAllowed'
  <2>1. ireq[r].pc = "flush"
    BY <1>3 DEF FlushRow
  <2>2. ireq'[r].pc \in {"detach", "idle"}
    BY <1>3, FlushGoesOn DEF Waiting
  <2>3. \A j \in InvoiceIds : /\ invoice'[j].total = invoice[j].total
                             /\ invoice'[j].paid <= invoice'[j].total
    BY <1>0, <1>3, <2>1, FlushWrites DEF NeverOverpaid
  <2>4. ASSUME NEW x \in Requests, ireq'[x].pc \in {"mail", "read", "flush"}
        PROVE  ireq'[x].paid <= invoice'[ireq'[x].iid].total
    <3>1. x # r /\ ireq'[x] = ireq[x]
      BY <1>3, <2>2, <2>4, FlushGoesOn
    <3>. QED
      BY <1>0, <2>3, <2>4, <3>1
  <2>. QED
    BY <2>3, <2>4 DEF NeverOverpaid, PatchesAllowed
<1>4. ASSUME NEW r \in Requests, AttachOrders(r) \/ DetachOrders(r) \/ CrashRequest(r)
      PROVE  NeverOverpaid' /\ PatchesAllowed'
  BY <1>4, EndingWrites DEF NeverOverpaid, PatchesAllowed, Waiting
<1>5. ASSUME NEW r \in Requests, MailSent(r)
      PROVE  NeverOverpaid' /\ PatchesAllowed'
  <2>1. ireq[r].pc = "mail"
    BY <1>5 DEF MailSent
  <2>2. ireq'[r].iid = ireq[r].iid /\ ireq'[r].paid = ireq[r].paid
    BY <1>5, MailWrites DEF Decided
  <2>. QED
    BY <1>0, <1>5, <2>1, <2>2, MailWrites DEF NeverOverpaid, PatchesAllowed
<1>6. ASSUME NEW r \in Requests, ReadRow(r)
      PROVE  NeverOverpaid' /\ PatchesAllowed'
  <2>1. ireq[r].pc = "read"
    BY <1>6 DEF ReadRow
  <2>2. ireq'[r].iid = ireq[r].iid /\ ireq'[r].paid = ireq[r].paid
    BY <1>6, ReadWrites DEF Decided
  <2>. QED
    BY <1>0, <1>6, <2>1, <2>2, ReadWrites DEF NeverOverpaid, PatchesAllowed
<1>7. CASE MarkOverdue \/ \E i \in InvoiceIds : DueDatePasses(i)
  BY <1>0, <1>7, ClockWrites DEF NeverOverpaid, PatchesAllowed, PaidInv
<1>8. CASE UNCHANGED invoiceVars
  BY <1>8 DEF invoiceVars, NeverOverpaid, PatchesAllowed, PaidInv
<1>. QED
  BY <1>1, <1>2, <1>3, <1>4, <1>5, <1>6, <1>7, <1>8
  DEF InvoiceStep, ContinueRequest, PaidInv

\* However payments, sendings, status changes and the daily job interleave, and
\* wherever handlers die, no invoice is paid more than it comes to: the amount
\* checked by recordPayment is the very amount it writes, and totals never change.
THEOREM InvoicesAreNeverOverpaid == Spec => []NeverOverpaid
<1>1. Init => PaidInv
  <2>1. Init => NeverOverpaid /\ PatchesAllowed
    BY DEF Init, InvoiceInit, NeverOverpaid, PatchesAllowed, Unissued, Waiting
  <2>. QED
    BY <2>1, InitTyped DEF PaidInv
<1>2. PaidInv => NeverOverpaid
  BY DEF PaidInv
<1>. QED
  BY <1>1, <1>2, StepAllowed, PTL DEF Spec


-----------------------------------------------------------------------------
(* Requests that do not overlap: payments and status *)

\* The status s tells how much of the total t is paid.
Tells(s, p, t) ==
    /\ s = "draft" => p = 0
    /\ s = "partially_paid" => p > 0 /\ p < t
    /\ s # "cancelled" => (s = "paid" <=> p > 0 /\ p = t)

\* The amount paid once handler r has written its patch.
PaidAfter(r) ==
    IF ireq[r].op = "pay" THEN ireq[r].paid ELSE invoice[ireq[r].iid].paid

\* What handler r has read and decided still holds, up to what the daily job
\* may have done to the status.
StillGood(r) ==
    LET q == ireq[r]
        v == invoice[q.iid]
    IN  /\ Standing(q.iid)
        /\ q.status # "draft"
        /\ q.op # "status" => q.status # "cancelled"
        /\ Tells(q.status, PaidAfter(r), v.total)
        /\ v.status = "paid" => q.op # "pay" /\ q.status \in {"paid", "cancelled"}
        /\ IF q.op = "pay" THEN q.paid = v.paid + q.amount ELSE q.amount = 0
        /\ q.pc = "flush" =>
              /\ q.base.paid = v.paid
              /\ \/ q.base.status = v.status
                 \/ v.status = "overdue" /\ q.base.status \in {"sent", "partially_paid"}

Alone ==
    /\ \A r \in Requests : ireq[r].pc \in {"idle", "insert"} => ireq[r].iid = NoInvoice
    /\ \A r, x \in Requests :
          r # x /\ ireq[r].iid = ireq[x].iid => ireq[r].iid = NoInvoice

RowsTell ==
    \A i \in InvoiceIds :
        /\ invoice[i].paid = received[i]
        /\ IF Existing(i) THEN Tells(invoice[i].status, invoice[i].paid, invoice[i].total)
           ELSE invoice[i].paid = 0

PatchesGood ==
    \A r \in Requests : ireq[r].pc \in {"mail", "read", "flush"} => StillGood(r)

AloneInv == TypeOK /\ Alone /\ RowsTell /\ PatchesGood

\* What the transition table allows.
LEMMA Transitions ==
  ASSUME NEW s \in InvoiceStatus, NEW t \in INVOICE_TRANSITIONS[s]
  PROVE  /\ s # "cancelled"
         /\ t \in {"sent", "overdue", "cancelled"}
         /\ s = "paid" => t = "cancelled"
BY DEF InvoiceStatus, INVOICE_TRANSITIONS

\* A handler that accepts a request on an invoice works on it alone, and what it
\* decided is good.
LEMMA BeginGood ==
  ASSUME AloneInv, ~Overlap, NEW r \in Requests, BeginRequest(r)
  PROVE  /\ ireq'[r].iid # NoInvoice => \A x \in Requests : ireq[x].iid # ireq'[r].iid
         /\ ireq'[r].pc = "insert" => ireq'[r].iid = NoInvoice
         /\ ireq'[r].pc \in {"insert", "mail", "read"}
         /\ ireq'[r].pc \in {"mail", "read"} => StillGood(r)'
<1>. TypeOK /\ RowsTell
  BY DEF AloneInv
<1>1. CASE CreateInvoice(r)
  BY <1>1 DEF CreateInvoice, Waiting, TypeOK
<1>2. CASE RecordPayment(r)
  <2>1. PICK i \in InvoiceIds, amount \in Payments :
            /\ FreeInvoice(i)
            /\ Payable(i, amount)
            /\ ireq' = [ireq EXCEPT ![r] =
                 [Waiting EXCEPT !.pc = "read", !.op = "pay", !.iid = i,
                                 !.paid = NewPaid(i, amount), !.amount = amount,
                                 !.status = StatusOnceAt(i, NewPaid(i, amount))]]
    BY <1>2 DEF RecordPayment
  <2>2. /\ ireq'[r].pc = "read" /\ ireq'[r].op = "pay" /\ ireq'[r].iid = i
        /\ ireq'[r].paid = NewPaid(i, amount) /\ ireq'[r].amount = amount
        /\ ireq'[r].status = StatusOnceAt(i, NewPaid(i, amount))
    BY <2>1 DEF TypeOK, Waiting
  <2>3. /\ amount \in Nat \ {0} /\ invoice[i].paid \in Nat /\ invoice[i].total \in Nat
        /\ invoice[i].status \in InvoiceStatus
    BY <2>1, InvoicesAssumption DEF TypeOK, InvoiceRow, Payable, Standing
  <2>4. Tells(StatusOnceAt(i, NewPaid(i, amount)), NewPaid(i, amount), invoice[i].total)
    BY <2>1, <2>3 DEF Payable, NewPaid, StatusOnceAt, Tells
  <2>5. invoice[i].status # "paid"
    BY <2>1, <2>3 DEF RowsTell, Tells, Payable, Standing, Existing, NewPaid
  <2>6. invoice' = invoice
    BY <1>2 DEF RecordPayment
  <2>7. StillGood(r)'
    BY <2>1, <2>2, <2>4, <2>5, <2>6
    DEF StillGood, PaidAfter, Payable, Standing, StatusOnceAt, NewPaid
  <2>. QED
    BY <2>1, <2>2, <2>7 DEF FreeInvoice
<1>3. CASE SendInvoice(r)
  <2>1. PICK i \in InvoiceIds :
            /\ FreeInvoice(i)
            /\ Standing(i)
            /\ ireq' = [ireq EXCEPT ![r] =
                 [Waiting EXCEPT !.pc = "mail", !.op = "send", !.iid = i,
                                 !.status = StatusOnceSent(i)]]
    BY <1>3 DEF SendInvoice
  <2>2. /\ ireq'[r].pc = "mail" /\ ireq'[r].op = "send" /\ ireq'[r].iid = i
        /\ ireq'[r].amount = 0 /\ ireq'[r].status = StatusOnceSent(i)
    BY <2>1 DEF TypeOK, Waiting
  <2>3. Tells(StatusOnceSent(i), invoice[i].paid, invoice[i].total)
    BY <2>1 DEF RowsTell, Tells, Standing, Existing, StatusOnceSent
  <2>4. invoice' = invoice
    BY <1>3 DEF SendInvoice
  <2>5. StillGood(r)'
    BY <2>1, <2>2, <2>3, <2>4 DEF StillGood, PaidAfter, Standing, StatusOnceSent
  <2>. QED
    BY <2>1, <2>2, <2>5 DEF FreeInvoice
<1>4. CASE UpdateInvoiceStatus(r)
  <2>1. PICK i \in InvoiceIds, target \in InvoiceStatus :
            /\ FreeInvoice(i)
            /\ Existing(i)
            /\ target \in INVOICE_TRANSITIONS[invoice[i].status]
            /\ ireq' = [ireq EXCEPT ![r] =
                 [Waiting EXCEPT !.pc = "read", !.op = "status", !.iid = i,
                                 !.status = target, !.orders = invoice[i].orders]]
    BY <1>4 DEF UpdateInvoiceStatus
  <2>2. /\ ireq'[r].pc = "read" /\ ireq'[r].op = "status" /\ ireq'[r].iid = i
        /\ ireq'[r].amount = 0 /\ ireq'[r].status = target
    BY <2>1 DEF TypeOK, Waiting
  <2>3. invoice[i].status \in InvoiceStatus
    BY <2>1 DEF TypeOK, InvoiceRow, Existing
  <2>4. /\ invoice[i].status # "cancelled" /\ target \in {"sent", "overdue", "cancelled"}
        /\ invoice[i].status = "paid" => target = "cancelled"
    BY <2>1, <2>3, Transitions
  <2>5. Tells(target, invoice[i].paid, invoice[i].total)
    BY <2>1, <2>4 DEF RowsTell, Tells
  <2>6. invoice' = invoice
    BY <1>4 DEF UpdateInvoiceStatus
  <2>7. StillGood(r)'
    BY <2>1, <2>2, <2>4, <2>5, <2>6 DEF StillGood, PaidAfter, Standing, Existing
  <2>. QED
    BY <2>1, <2>2, <2>7 DEF FreeInvoice
<1>. QED
  BY <1>1, <1>2, <1>3, <1>4 DEF BeginRequest

\* What a handler decided stays good while its row and it stay as they are.
LEMMA GoodStays ==
  ASSUME NEW r \in Requests, StillGood(r),
         ireq'[r] = ireq[r], invoice'[ireq[r].iid] = invoice[ireq[r].iid]
  PROVE  StillGood(r)'
BY DEF StillGood, PaidAfter, Standing

\* The flush of a handler that works alone: the new row tells what is paid.
LEMMA FlushTells ==
  ASSUME AloneInv, NEW r \in Requests, FlushRow(r)
  PROVE  LET i == ireq[r].iid
             w == invoice'[i]
         IN  /\ i \in InvoiceIds
             /\ w.status # "absent"
             /\ w.paid = PaidAfter(r)
             /\ w.paid = received'[i]
             /\ Tells(w.status, w.paid, w.total)
             /\ w.status = "cancelled" <=> ireq[r].op = "status" /\ ireq[r].status = "cancelled"
             /\ invoice[i].status = "paid" => w.status \in {"paid", "cancelled"}
<1>. DEFINE q == ireq[r]
            i == q.iid
            v == invoice[i]
            w == invoice'[i]
<1>1. /\ i \in InvoiceIds /\ StillGood(r) /\ q.pc = "flush"
      /\ q \in Request /\ v \in InvoiceRow
      /\ v.paid = received[i] /\ Tells(v.status, v.paid, v.total)
  <2>1. i \in InvoiceIds /\ q.pc = "flush"
    BY FlushWrites DEF AloneInv, FlushRow
  <2>2. StillGood(r)
    BY <2>1 DEF AloneInv, PatchesGood
  <2>3. Existing(i)
    BY <2>2 DEF StillGood, Standing, Existing
  <2>4. q \in Request /\ v \in InvoiceRow
    BY <2>1 DEF AloneInv, TypeOK
  <2>. QED
    BY <2>1, <2>2, <2>3, <2>4 DEF AloneInv, RowsTell
<1>2. /\ w.total = v.total
      /\ w.status = IF q.status # q.base.status THEN q.status ELSE v.status
      /\ w.paid = IF q.op = "pay" /\ q.paid # q.base.paid THEN q.paid ELSE v.paid
      /\ received'[i] = received[i] + q.amount
  BY FlushWrites DEF AloneInv, TypeOK
<1>3. /\ v.paid \in Nat /\ v.total \in Nat /\ q.paid \in Nat /\ q.amount \in Nat
      /\ q.status \in InvoiceStatus
  BY <1>1 DEF Request, InvoiceRow
<1>4. w.paid = PaidAfter(r) /\ w.paid = received'[i]
  BY <1>1, <1>2, <1>3 DEF StillGood, PaidAfter
<1>5. \/ w.status = q.status
      \/ w.status = "overdue" /\ q.status \in {"sent", "partially_paid"}
  BY <1>1, <1>2 DEF StillGood
<1>6. Tells(w.status, w.paid, w.total)
  BY <1>1, <1>2, <1>3, <1>4, <1>5 DEF StillGood, Tells
<1>7. w.status = "cancelled" <=> q.op = "status" /\ q.status = "cancelled"
  BY <1>1, <1>5 DEF StillGood
<1>8. /\ w.status # "absent"
      /\ v.status = "paid" => w.status \in {"paid", "cancelled"}
  BY <1>1, <1>3, <1>5 DEF StillGood, InvoiceStatus
<1>. QED
  BY <1>1, <1>4, <1>6, <1>7, <1>8


\* Each step keeps the requests apart, the rows telling and the patches good.
LEMMA StepAlone ==
  ~Overlap => (AloneInv /\ [InvoiceStep]_invoiceVars => AloneInv')
<1>. SUFFICES ASSUME ~Overlap, AloneInv, [InvoiceStep]_invoiceVars PROVE AloneInv'
  OBVIOUS
<1>. TypeOK /\ Alone /\ RowsTell /\ PatchesGood /\ TypeOK'
  BY StepTyped DEF AloneInv
<1>0. \A r \in Requests :
          /\ ireq[r].pc \notin {"idle", "insert"} =>
                ireq[r].iid \in InvoiceIds /\ Existing(ireq[r].iid)
          /\ ireq[r].pc \in {"idle", "insert"} => ireq[r].iid = NoInvoice
          /\ ireq[r].pc \in {"mail", "read", "flush"} => StillGood(r)
  BY DEF TypeOK, InvoiceSteps, Request, Alone, PatchesGood
<1>1. ASSUME NEW r \in Requests, BeginRequest(r)
      PROVE  Alone' /\ RowsTell' /\ PatchesGood'
  <2>1. /\ UNCHANGED <<invoice, order, received>> /\ ireq[r].pc = "idle"
        /\ \A x \in Requests \ {r} : ireq'[x] = ireq[x]
    BY <1>1, BeginWrites
  <2>2. /\ ireq'[r].iid # NoInvoice => \A x \in Requests : ireq[x].iid # ireq'[r].iid
        /\ ireq'[r].pc = "insert" => ireq'[r].iid = NoInvoice
        /\ ireq'[r].pc \in {"insert", "mail", "read"}
        /\ ireq'[r].pc \in {"mail", "read"} => StillGood(r)'
    BY <1>1, BeginGood
  <2>3. Alone'
    BY <1>0, <2>1, <2>2 DEF Alone
  <2>4. RowsTell'
    BY <2>1 DEF RowsTell, Existing
  <2>5. PatchesGood'
    BY <1>0, <2>1, <2>2, GoodStays DEF PatchesGood
  <2>. QED
    BY <2>3, <2>4, <2>5
<1>2. ASSUME NEW r \in Requests, InsertInvoice(r)
      PROVE  Alone' /\ RowsTell' /\ PatchesGood'
  <2>1. PICK i \in InvoiceIds :
            /\ ~Existing(i)
            /\ invoice'[i].status = "draft" /\ invoice'[i].paid = 0
            /\ invoice'[i].total \in Nat
            /\ \A j \in InvoiceIds \ {i} : invoice'[j] = invoice[j]
            /\ ireq'[r].pc = "attach" /\ ireq'[r].iid = i
            /\ \A x \in Requests \ {r} : ireq'[x] = ireq[x]
            /\ UNCHANGED received
    BY <1>2, InsertWrites
  <2>2. \A x \in Requests : ireq[x].iid # i
    BY <1>0, <2>1, InvoicesAssumption
  <2>3. Alone'
    BY <1>0, <2>1, <2>2 DEF Alone
  <2>4. RowsTell'
    <3>1. ASSUME NEW j \in InvoiceIds \ {i}
          PROVE  /\ invoice'[j].paid = received'[j]
                 /\ IF Existing(j)'
                    THEN Tells(invoice'[j].status, invoice'[j].paid, invoice'[j].total)
                    ELSE invoice'[j].paid = 0
      BY <2>1 DEF RowsTell, Existing
    <3>2. /\ invoice'[i].paid = received'[i] /\ Existing(i)'
          /\ Tells(invoice'[i].status, invoice'[i].paid, invoice'[i].total)
      BY <2>1 DEF RowsTell, Existing, Tells
    <3>. QED
      BY <3>1, <3>2 DEF RowsTell
  <2>5. PatchesGood'
    BY <1>0, <2>1, <2>2, GoodStays DEF PatchesGood
  <2>. QED
    BY <2>3, <2>4, <2>5
<1>3. ASSUME NEW r \in Requests, FlushRow(r)
      PROVE  Alone' /\ RowsTell' /\ PatchesGood'
  <2>. DEFINE i == ireq[r].iid
  <2>1. /\ i \in InvoiceIds
        /\ invoice'[i].status # "absent"
        /\ invoice'[i].paid = received'[i]
        /\ Tells(invoice'[i].status, invoice'[i].paid, invoice'[i].total)
    BY <1>3, FlushTells
  <2>2. /\ \A j \in InvoiceIds \ {i} : invoice'[j] = invoice[j] /\ received'[j] = received[j]
        /\ ireq[r].pc = "flush"
    BY <1>3, FlushWrites, FlushGoesOn DEF TypeOK
  <2>3. /\ \A x \in Requests \ {r} : ireq'[x] = ireq[x]
        /\ \/ ireq'[r].pc = "detach" /\ ireq'[r].iid = i
           \/ ireq'[r].pc = "idle" /\ ireq'[r].iid = NoInvoice
    BY <1>3, FlushGoesOn DEF Decided, Waiting
  <2>4. Alone'
    BY <1>0, <2>2, <2>3 DEF Alone
  <2>5. RowsTell'
    BY <2>1, <2>2 DEF RowsTell, Existing
  <2>6. PatchesGood'
    <3>1. ASSUME NEW x \in Requests, ireq'[x].pc \in {"mail", "read", "flush"}
          PROVE  StillGood(x)'
      <4>1. x # r /\ ireq'[x] = ireq[x]
        BY <2>3, <3>1
      <4>2. ireq[x].iid \in InvoiceIds \ {i}
        BY <1>0, <2>2, <3>1, <4>1, InvoicesAssumption DEF Alone
      <4>. QED
        BY <1>0, <2>2, <3>1, <4>1, <4>2, GoodStays
    <3>. QED
      BY <3>1 DEF PatchesGood
  <2>. QED
    BY <2>4, <2>5, <2>6
<1>4. ASSUME NEW r \in Requests, AttachOrders(r) \/ DetachOrders(r) \/ CrashRequest(r)
      PROVE  Alone' /\ RowsTell' /\ PatchesGood'
  <2>1. /\ UNCHANGED <<invoice, received>>
        /\ ireq'[r].pc = "idle" /\ ireq'[r].iid = NoInvoice
        /\ \A x \in Requests \ {r} : ireq'[x] = ireq[x]
    BY <1>4, EndingWrites DEF Waiting
  <2>2. Alone'
    BY <1>0, <2>1 DEF Alone
  <2>3. RowsTell'
    BY <2>1 DEF RowsTell, Existing
  <2>4. PatchesGood'
    BY <1>0, <2>1, GoodStays DEF PatchesGood
  <2>. QED
    BY <2>2, <2>3, <2>4
<1>5. ASSUME NEW r \in Requests, MailSent(r) \/ ReadRow(r)
      PROVE  Alone' /\ RowsTell' /\ PatchesGood'
  <2>1. /\ UNCHANGED <<invoice, received>>
        /\ Decided(ireq'[r], ireq[r])
        /\ \A x \in Requests \ {r} : ireq'[x] = ireq[x]
        /\ \/ ireq'[r].pc = "read"
           \/ /\ ireq'[r].pc = "flush"
              /\ ireq'[r].base.status = invoice[ireq[r].iid].status
              /\ ireq'[r].base.paid = invoice[ireq[r].iid].paid
    BY <1>5, MailWrites, ReadWrites
  <2>2. ireq[r].pc \in {"mail", "read"}
    BY <1>5 DEF MailSent, ReadRow
  <2>3. Alone'
    BY <1>0, <2>1, <2>2 DEF Alone, Decided
  <2>4. RowsTell'
    BY <2>1 DEF RowsTell, Existing
  <2>5. StillGood(r)'
    BY <1>0, <2>1, <2>2 DEF StillGood, Decided, PaidAfter, Standing
  <2>6. PatchesGood'
    BY <1>0, <2>1, <2>5, GoodStays DEF PatchesGood
  <2>. QED
    BY <2>3, <2>4, <2>6
<1>6. CASE MarkOverdue \/ \E i \in InvoiceIds : DueDatePasses(i)
  <2>1. /\ UNCHANGED <<order, ireq, received>>
        /\ \A i \in InvoiceIds :
              /\ invoice'[i].total = invoice[i].total
              /\ invoice'[i].paid = invoice[i].paid
              /\ \/ invoice'[i].status = invoice[i].status
                 \/ /\ invoice[i].status \in {"sent", "partially_paid"}
                    /\ invoice'[i].status = "overdue"
    BY <1>6, ClockWrites
  <2>2. Alone'
    BY <2>1 DEF Alone
  <2>3. RowsTell'
    <3>1. ASSUME NEW i \in InvoiceIds
          PROVE  /\ invoice'[i].paid = received'[i]
                 /\ Existing(i)' <=> Existing(i)
                 /\ Existing(i) =>
                       Tells(invoice'[i].status, invoice'[i].paid, invoice'[i].total)
                 /\ ~Existing(i) => invoice'[i].paid = 0
      <4>1. invoice[i].paid \in Nat /\ invoice[i].total \in Nat
        BY DEF TypeOK, InvoiceRow
      <4>. QED
        BY <2>1, <4>1 DEF RowsTell, Existing, Tells
    <3>. QED
      BY <3>1 DEF RowsTell
  <2>4. PatchesGood'
    <3>1. ASSUME NEW r \in Requests, ireq[r].pc \in {"mail", "read", "flush"}
          PROVE  StillGood(r)'
      BY <1>0, <2>1, <3>1 DEF StillGood, PaidAfter, Standing
    <3>. QED
      BY <2>1, <3>1 DEF PatchesGood
  <2>. QED
    BY <2>2, <2>3, <2>4 DEF AloneInv
<1>7. CASE UNCHANGED invoiceVars
  BY <1>7, GoodStays DEF invoiceVars, Alone, RowsTell, Existing, PatchesGood, AloneInv
<1>. QED
  BY <1>1, <1>2, <1>3, <1>4, <1>5, <1>6, <1>7
  DEF InvoiceStep, ContinueRequest, AloneInv

LEMMA InitAlone == Init => AloneInv
BY InitTyped
DEF Init, InvoiceInit, AloneInv, Alone, RowsTell, Existing, PatchesGood, Unissued, Waiting

LEMMA AloneHolds ==
  ASSUME ~Overlap
  PROVE  Spec => []AloneInv
BY InitAlone, StepAlone, PTL DEF Spec


\* When no two requests work on one invoice, whatever the daily job does in
\* between and wherever a handler dies: the amount paid is the sum of the payments
\* answered with success, none is lost or counted twice.
THEOREM PaymentsAreAccountedFor ==
  ASSUME ~Overlap
  PROVE  Spec => []PaymentsAddUp
<1>1. AloneInv => PaymentsAddUp
  BY DEF AloneInv, RowsTell, PaymentsAddUp
<1>. QED
  BY <1>1, AloneHolds, PTL

\* ... and the status says how much of the total that is.
THEOREM StatusTellsPayments ==
  ASSUME ~Overlap
  PROVE  Spec => []StatusAgreesWithPayments
<1>1. AloneInv => StatusAgreesWithPayments
  <2>. SUFFICES ASSUME AloneInv, NEW i \in InvoiceIds
                PROVE  LET v == invoice[i]
                       IN  /\ v.status = "draft" => v.paid = 0
                           /\ v.status = "partially_paid" => v.paid > 0 /\ v.paid < v.total
                           /\ Standing(i) => (v.status = "paid" <=> v.paid > 0 /\ v.paid = v.total)
    BY DEF StatusAgreesWithPayments
  <2>. QED
    BY DEF AloneInv, RowsTell, Existing, Tells, Standing
<1>. QED
  BY <1>1, AloneHolds, PTL

\* A step on rows that are worked on alone neither reopens a cancelled invoice nor
\* takes PAID back other than by cancelling.
LEMMA StepKeepsFinal ==
  ASSUME AloneInv, ~Overlap, [InvoiceStep]_invoiceVars, NEW i \in InvoiceIds
  PROVE  /\ invoice[i].status = "cancelled" => invoice'[i].status = "cancelled"
         /\ invoice[i].status = "paid" => invoice'[i].status \in {"paid", "cancelled"}
<1>. TypeOK
  BY DEF AloneInv
<1>1. ASSUME NEW r \in Requests, FlushRow(r)
      PROVE  /\ invoice[i].status = "cancelled" => invoice'[i].status = "cancelled"
             /\ invoice[i].status = "paid" => invoice'[i].status \in {"paid", "cancelled"}
  <2>1. CASE i = ireq[r].iid
    <3>1. ireq[r].pc = "flush" /\ StillGood(r)
      BY <1>1, FlushGoesOn DEF AloneInv, PatchesGood
    <3>. QED
      BY <1>1, <2>1, <3>1, FlushTells DEF StillGood, Standing
  <2>2. CASE i # ireq[r].iid
    BY <1>1, <2>2, FlushWrites
  <2>. QED
    BY <2>1, <2>2
<1>2. ASSUME NEW r \in Requests, InsertInvoice(r)
      PROVE  invoice[i].status # "absent" => invoice'[i] = invoice[i]
  BY <1>2, InsertWrites DEF Existing
<1>3. ASSUME NEW r \in Requests,
             BeginRequest(r) \/ MailSent(r) \/ ReadRow(r)
             \/ AttachOrders(r) \/ DetachOrders(r) \/ CrashRequest(r)
      PROVE  invoice' = invoice
  BY <1>3, BeginWrites, MailWrites, ReadWrites, EndingWrites
<1>4. CASE MarkOverdue \/ \E j \in InvoiceIds : DueDatePasses(j)
  BY <1>4, ClockWrites
<1>5. CASE UNCHANGED invoiceVars
  BY <1>5 DEF invoiceVars
<1>. QED
  BY <1>1, <1>2, <1>3, <1>4, <1>5 DEF InvoiceStep, ContinueRequest

\* Without overlapping requests a cancelled invoice stays cancelled, and a paid one
\* is only ever cancelled: neither sending it nor the daily job takes PAID back.
THEOREM SettledInvoicesStay ==
  ASSUME ~Overlap
  PROVE  Spec => SettledIsKept
<1>1. AloneInv /\ [InvoiceStep]_invoiceVars =>
        [\A i \in InvoiceIds :
             /\ invoice[i].status = "cancelled" => invoice'[i].status = "cancelled"
             /\ invoice[i].status = "paid" => invoice'[i].status \in {"paid", "cancelled"}]_invoiceVars
  BY StepKeepsFinal
<1>. QED
  BY <1>1, AloneHolds, PTL DEF Spec, SettledIsKept

-----------------------------------------------------------------------------
(* Requests that do not overlap: invoices and their orders *)

\* No order is in the hands of two handlers, but for those a death cut off.
HandsApart ==
    \A r, x \in Requests : r # x => ireq[r].orders \cap ireq[x].orders \subseteq cutOff

\* What a handler knows of the orders it has in hand.
HandsRight(r) ==
    LET q == ireq[r]
        i == q.iid
    IN  /\ q.pc = "idle" => q.orders = {}
        /\ q.pc \in {"insert", "attach"} =>
              \A o \in q.orders \ cutOff : order[o].invoice = NoInvoice
        /\ q.pc = "attach" => Standing(i) /\ q.orders = invoice[i].orders
        /\ q.pc \in {"mail", "read", "flush"} =>
              q.orders = IF q.op = "status" THEN invoice[i].orders ELSE {}
        /\ q.pc = "detach" => /\ invoice[i].status = "cancelled"
                              /\ q.orders = invoice[i].orders
                              /\ \A o \in q.orders \ cutOff : order[o].invoice = i

\* A row that no invoice has yet bills nothing.
UnissuedBillNothing == \A i \in InvoiceIds : ~Existing(i) => invoice[i].orders = {}

LinkInv ==
    /\ AloneInv
    /\ UnissuedBillNothing
    /\ HandsApart
    /\ \A r \in Requests : HandsRight(r)
    /\ LinksAgree

\* The orders of a standing invoice that no handler works on are linked to it, and
\* in nobody's hands, but for those cut off.
LEMMA FreeHands ==
  ASSUME LinkInv, NEW i \in InvoiceIds, Standing(i), \A x \in Requests : ireq[x].iid # i,
         NEW x \in Requests
  PROVE  ireq[x].orders \cap invoice[i].orders \subseteq cutOff
<1>. SUFFICES ASSUME NEW o \in ireq[x].orders, o \in invoice[i].orders, o \notin cutOff
              PROVE  FALSE
  OBVIOUS
<1>. DEFINE q == ireq[x]
<1>1. q \in Request
  BY DEF LinkInv, AloneInv, TypeOK
<1>2. order[o].invoice = i
  BY DEF LinkInv, LinksAgree
<1>3. q.pc \notin {"idle", "insert", "attach"}
  BY <1>2, InvoicesAssumption DEF LinkInv, HandsRight
<1>4. q.pc # "detach"
  BY <1>2 DEF LinkInv, HandsRight
<1>5. CASE q.pc \in {"mail", "read", "flush"}
  <2>1. o \in invoice[q.iid].orders
    BY <1>5 DEF LinkInv, HandsRight
  <2>2. q.iid \in InvoiceIds /\ Standing(q.iid)
    BY <1>5 DEF LinkInv, AloneInv, TypeOK, InvoiceSteps, PatchesGood, StillGood
  <2>3. ~\E y \in Requests : ireq[y].pc = "attach" /\ ireq[y].iid = q.iid
    BY <1>5, <2>2, InvoicesAssumption DEF LinkInv, AloneInv, Alone
  <2>4. order[o].invoice = q.iid
    BY <2>1, <2>2, <2>3 DEF LinkInv, LinksAgree
  <2>. QED
    BY <1>2, <2>4
<1>. QED
  BY <1>1, <1>3, <1>4, <1>5 DEF Request, InvoiceSteps

\* The links agree as long as neither the invoices' orders and standing nor the
\* links change, and nobody stops attaching or detaching.
LEMMA LinksStay ==
  ASSUME LinksAgree, order' = order, cutOff' = cutOff,
         \A i \in InvoiceIds : /\ invoice'[i].orders = invoice[i].orders
                               /\ Standing(i)' <=> Standing(i),
         \A r \in Requests : ireq[r].pc \in {"attach", "detach"} => ireq'[r] = ireq[r]
  PROVE  LinksAgree'
BY DEF LinksAgree

\* ... and so does what a handler knows.
LEMMA HandsStay ==
  ASSUME NEW r \in Requests, HandsRight(r), ireq'[r] = ireq[r], cutOff \subseteq cutOff',
         \A o \in ireq[r].orders \ cutOff : order'[o].invoice = order[o].invoice,
         ireq[r].pc \notin {"idle", "insert"} =>
            /\ invoice'[ireq[r].iid].orders = invoice[ireq[r].iid].orders
            /\ Standing(ireq[r].iid)' <=> Standing(ireq[r].iid)
            /\ invoice[ireq[r].iid].status = "cancelled" =>
                  invoice'[ireq[r].iid].status = "cancelled"
  PROVE  HandsRight(r)'
BY DEF HandsRight

LEMMA BeginLinked ==
  ASSUME LinkInv, ~Overlap, NEW r \in Requests, BeginRequest(r)
  PROVE  /\ \A x \in Requests \ {r} : ireq'[r].orders \cap ireq[x].orders \subseteq cutOff
         /\ HandsRight(r)'
<1>. TypeOK /\ AloneInv
  BY DEF LinkInv, AloneInv
<1>1. CASE CreateInvoice(r)
  <2>1. PICK os \in SUBSET OrderIds :
            /\ FreeOrders(os)
            /\ \A o \in os : Billable(o)
            /\ ireq' = [ireq EXCEPT ![r] = [Waiting EXCEPT !.pc = "insert",
                                                        !.op = "create",
                                                        !.orders = os]]
    BY <1>1 DEF CreateInvoice
  <2>2. ireq'[r].pc = "insert" /\ ireq'[r].orders = os
    BY <2>1 DEF TypeOK, Waiting
  <2>3. order' = order
    BY <1>1 DEF CreateInvoice
  <2>4. \A x \in Requests : os \cap ireq[x].orders = {}
    BY <2>1 DEF FreeOrders
  <2>. QED
    BY <2>1, <2>2, <2>3, <2>4 DEF Billable, HandsRight
<1>2. CASE RecordPayment(r)
  <2>1. ireq'[r].pc = "read" /\ ireq'[r].op = "pay" /\ ireq'[r].orders = {}
    BY <1>2 DEF RecordPayment, TypeOK, Waiting
  <2>. QED
    BY <2>1 DEF HandsRight
<1>3. CASE SendInvoice(r)
  <2>1. ireq'[r].pc = "mail" /\ ireq'[r].op = "send" /\ ireq'[r].orders = {}
    BY <1>3 DEF SendInvoice, TypeOK, Waiting
  <2>. QED
    BY <2>1 DEF HandsRight
<1>4. CASE UpdateInvoiceStatus(r)
  <2>1. PICK i \in InvoiceIds, target \in InvoiceStatus :
            /\ FreeInvoice(i)
            /\ Existing(i)
            /\ target \in INVOICE_TRANSITIONS[invoice[i].status]
            /\ ireq' = [ireq EXCEPT ![r] =
                 [Waiting EXCEPT !.pc = "read", !.op = "status", !.iid = i,
                                 !.status = target, !.orders = invoice[i].orders]]
    BY <1>4 DEF UpdateInvoiceStatus
  <2>2. /\ ireq'[r].pc = "read" /\ ireq'[r].op = "status" /\ ireq'[r].iid = i
        /\ ireq'[r].orders = invoice[i].orders
    BY <2>1 DEF TypeOK, Waiting
  <2>3. invoice[i].status \in InvoiceStatus
    BY <2>1 DEF TypeOK, InvoiceRow, Existing
  <2>4. Standing(i)
    BY <2>1, <2>3, Transitions DEF Standing, Existing
  <2>5. \A x \in Requests : ireq[x].orders \cap invoice[i].orders \subseteq cutOff
    BY <2>1, <2>4, FreeHands DEF FreeInvoice
  <2>6. invoice' = invoice
    BY <1>4 DEF UpdateInvoiceStatus
  <2>. QED
    BY <2>2, <2>5, <2>6 DEF HandsRight
<1>. QED
  BY <1>1, <1>2, <1>3, <1>4 DEF BeginRequest


\* Linking orders to an invoice writes their link and nothing else of them.
LEMMA LinkWrites ==
  ASSUME TypeOK, NEW os, NEW i, LinkOrders(os, i), NEW o \in OrderIds
  PROVE  order'[o].invoice = IF o \in os THEN i ELSE order[o].invoice
BY DEF LinkOrders, TypeOK, LinkedOrder

LEMMA AttachLinked ==
  ASSUME LinkInv, NEW r \in Requests, AttachOrders(r)
  PROVE  HandsApart' /\ (\A x \in Requests : HandsRight(x)') /\ LinksAgree'
<1>. DEFINE i == ireq[r].iid
            os == ireq[r].orders
<1>. cutOff' = cutOff
  BY DEF AttachOrders
<1>. TypeOK /\ Alone /\ HandsApart /\ LinksAgree
  BY DEF LinkInv, AloneInv
<1>1. /\ UNCHANGED invoice /\ ireq'[r] = Waiting
      /\ \A x \in Requests \ {r} : ireq'[x] = ireq[x]
      /\ ireq[r].pc = "attach" /\ LinkOrders(os, i)
  BY EndingWrites DEF AttachOrders
<1>2. /\ i \in InvoiceIds /\ Standing(i) /\ os = invoice[i].orders
      /\ \A o \in os \ cutOff : order[o].invoice = NoInvoice
      /\ os \subseteq OrderIds
  BY <1>1 DEF LinkInv, HandsRight, TypeOK, InvoiceSteps, Request
<1>3. \A o \in OrderIds : order'[o].invoice = IF o \in os THEN i ELSE order[o].invoice
  BY <1>1, LinkWrites
<1>4. HandsApart'
  BY <1>1 DEF HandsApart, Waiting
<1>5. ASSUME NEW x \in Requests PROVE HandsRight(x)'
  <2>1. CASE x = r
    BY <1>1, <2>1 DEF HandsRight, Waiting
  <2>2. CASE x # r
    <3>1. HandsRight(x) /\ ireq'[x] = ireq[x] /\ ireq[x].orders \subseteq OrderIds
      BY <1>1, <2>2 DEF LinkInv, TypeOK, Request
    <3>2. \A o \in ireq[x].orders \ cutOff : order'[o].invoice = order[o].invoice
      BY <1>3, <2>2, <3>1 DEF HandsApart
    <3>. QED
      BY <1>1, <3>1, <3>2, HandsStay DEF Standing
  <2>. QED
    BY <2>1, <2>2
<1>6. LinksAgree'
  <2>1. ASSUME NEW j \in InvoiceIds, Standing(j)', NEW o \in invoice'[j].orders, o \notin cutOff
        PROVE  \/ order'[o].invoice = j
               \/ \E x \in Requests : ireq'[x].pc = "attach" /\ ireq'[x].iid = j
    <3>1. Standing(j) /\ o \in invoice[j].orders /\ o \in OrderIds
      BY <1>1, <2>1 DEF Standing, TypeOK, InvoiceRow
    <3>2. CASE \E x \in Requests : ireq[x].pc = "attach" /\ ireq[x].iid = j
      BY <1>1, <1>2, <1>3, <3>1, <3>2
    <3>3. CASE order[o].invoice = j
      BY <2>1, <1>2, <1>3, <3>1, <3>3, InvoicesAssumption
    <3>. QED
      BY <2>1, <3>1, <3>2, <3>3 DEF LinksAgree
  <2>2. ASSUME NEW o \in OrderIds, NEW j \in InvoiceIds, order'[o].invoice = j
        PROVE  /\ o \in invoice'[j].orders
               /\ \/ Standing(j)' \/ o \in cutOff
                  \/ \E x \in Requests : ireq'[x].pc = "detach" /\ ireq'[x].iid = j
    <3>1. CASE o \in os
      BY <1>1, <1>2, <1>3, <2>2, <3>1 DEF Standing
    <3>2. CASE o \notin os
      <4>1. /\ o \in invoice[j].orders
            /\ \/ Standing(j) \/ o \in cutOff
               \/ \E x \in Requests : ireq[x].pc = "detach" /\ ireq[x].iid = j
        BY <1>3, <2>2, <3>2 DEF LinksAgree
      <4>. QED
        BY <1>1, <4>1 DEF Standing
    <3>. QED
      BY <3>1, <3>2
  <2>. QED
    BY <2>1, <2>2 DEF LinksAgree
<1>. QED
  BY <1>4, <1>5, <1>6

LEMMA DetachLinked ==
  ASSUME LinkInv, NEW r \in Requests, DetachOrders(r)
  PROVE  HandsApart' /\ (\A x \in Requests : HandsRight(x)') /\ LinksAgree'
<1>. DEFINE i == ireq[r].iid
            os == ireq[r].orders
<1>. cutOff' = cutOff
  BY DEF DetachOrders
<1>. TypeOK /\ Alone /\ HandsApart /\ LinksAgree
  BY DEF LinkInv, AloneInv
<1>1. /\ UNCHANGED invoice /\ ireq'[r] = Waiting
      /\ \A x \in Requests \ {r} : ireq'[x] = ireq[x]
      /\ ireq[r].pc = "detach" /\ LinkOrders(os, NoInvoice)
  BY EndingWrites DEF DetachOrders
<1>2. /\ i \in InvoiceIds /\ invoice[i].status = "cancelled" /\ os = invoice[i].orders
      /\ \A o \in os \ cutOff : order[o].invoice = i
      /\ os \subseteq OrderIds
  BY <1>1 DEF LinkInv, HandsRight, TypeOK, InvoiceSteps, Request
<1>3. \A o \in OrderIds :
          order'[o].invoice = IF o \in os THEN NoInvoice ELSE order[o].invoice
  BY <1>1, LinkWrites
<1>4. HandsApart'
  BY <1>1 DEF HandsApart, Waiting
<1>5. ASSUME NEW x \in Requests PROVE HandsRight(x)'
  <2>1. CASE x = r
    BY <1>1, <2>1 DEF HandsRight, Waiting
  <2>2. CASE x # r
    <3>1. HandsRight(x) /\ ireq'[x] = ireq[x] /\ ireq[x].orders \subseteq OrderIds
      BY <1>1, <2>2 DEF LinkInv, TypeOK, Request
    <3>2. \A o \in ireq[x].orders \ cutOff : order'[o].invoice = order[o].invoice
      BY <1>3, <2>2, <3>1 DEF HandsApart
    <3>. QED
      BY <1>1, <3>1, <3>2, HandsStay DEF Standing
  <2>. QED
    BY <2>1, <2>2
<1>6. LinksAgree'
  <2>1. ASSUME NEW j \in InvoiceIds, Standing(j)', NEW o \in invoice'[j].orders, o \notin cutOff
        PROVE  \/ order'[o].invoice = j
               \/ \E x \in Requests : ireq'[x].pc = "attach" /\ ireq'[x].iid = j
    <3>1. Standing(j) /\ o \in invoice[j].orders /\ o \in OrderIds /\ j # i
      BY <1>1, <1>2, <2>1 DEF Standing, TypeOK, InvoiceRow
    <3>2. CASE \E x \in Requests : ireq[x].pc = "attach" /\ ireq[x].iid = j
      BY <1>1, <3>2
    <3>3. CASE order[o].invoice = j
      BY <2>1, <1>2, <1>3, <3>1, <3>3
    <3>. QED
      BY <2>1, <3>1, <3>2, <3>3 DEF LinksAgree
  <2>2. ASSUME NEW o \in OrderIds, NEW j \in InvoiceIds, order'[o].invoice = j
        PROVE  /\ o \in invoice'[j].orders
               /\ \/ Standing(j)' \/ o \in cutOff
                  \/ \E x \in Requests : ireq'[x].pc = "detach" /\ ireq'[x].iid = j
    <3>1. o \notin os /\ order[o].invoice = j
      BY <1>3, <2>2, InvoicesAssumption
    <3>2. /\ o \in invoice[j].orders
          /\ \/ Standing(j) \/ o \in cutOff
             \/ \E x \in Requests : ireq[x].pc = "detach" /\ ireq[x].iid = j
      BY <3>1 DEF LinksAgree
    <3>3. j # i
      BY <1>2, <3>1, <3>2
    <3>. QED
      BY <1>1, <3>2, <3>3 DEF Standing
  <2>. QED
    BY <2>1, <2>2 DEF LinksAgree
<1>. QED
  BY <1>4, <1>5, <1>6

LEMMA InsertLinked ==
  ASSUME LinkInv, NEW r \in Requests, InsertInvoice(r)
  PROVE  HandsApart' /\ (\A x \in Requests : HandsRight(x)') /\ LinksAgree'
<1>. cutOff' = cutOff
  BY DEF InsertInvoice
<1>. TypeOK /\ Alone /\ HandsApart /\ LinksAgree
  BY DEF LinkInv, AloneInv
<1>1. PICK i \in InvoiceIds :
          /\ ~Existing(i)
          /\ invoice'[i].status = "draft" /\ invoice'[i].orders = ireq[r].orders
          /\ \A j \in InvoiceIds \ {i} : invoice'[j] = invoice[j]
          /\ ireq'[r].pc = "attach" /\ ireq'[r].iid = i
          /\ ireq'[r].orders = ireq[r].orders
          /\ \A x \in Requests \ {r} : ireq'[x] = ireq[x]
          /\ UNCHANGED order
  BY InsertWrites
<1>2. ireq[r].pc = "insert"
  BY DEF InsertInvoice
<1>3. \A o \in ireq[r].orders \ cutOff : order[o].invoice = NoInvoice
  BY <1>2 DEF LinkInv, HandsRight
<1>4. HandsApart'
  BY <1>1 DEF HandsApart
<1>5. ASSUME NEW x \in Requests PROVE HandsRight(x)'
  <2>1. CASE x = r
    BY <1>1, <1>3, <2>1 DEF HandsRight, Standing
  <2>2. CASE x # r
    <3>1. HandsRight(x) /\ ireq'[x] = ireq[x]
      BY <1>1, <2>2 DEF LinkInv
    <3>2. ireq[x].pc \notin {"idle", "insert"} =>
              ireq[x].iid \in InvoiceIds \ {i}
      BY <1>1 DEF TypeOK, Request, InvoiceSteps
    <3>. QED
      BY <1>1, <3>1, <3>2, HandsStay DEF Standing
  <2>. QED
    BY <2>1, <2>2
<1>6. LinksAgree'
  <2>1. ASSUME NEW j \in InvoiceIds, Standing(j)', NEW o \in invoice'[j].orders, o \notin cutOff
        PROVE  \/ order'[o].invoice = j
               \/ \E x \in Requests : ireq'[x].pc = "attach" /\ ireq'[x].iid = j
    <3>1. CASE j = i
      BY <1>1, <3>1
    <3>2. CASE j # i
      <4>1. Standing(j) /\ o \in invoice[j].orders
        BY <1>1, <2>1, <3>2 DEF Standing
      <4>2. \/ order[o].invoice = j
            \/ \E x \in Requests : ireq[x].pc = "attach" /\ ireq[x].iid = j
        BY <2>1, <4>1 DEF LinksAgree
      <4>. QED
        BY <1>1, <1>2, <4>2
    <3>. QED
      BY <3>1, <3>2
  <2>2. ASSUME NEW o \in OrderIds, NEW j \in InvoiceIds, order'[o].invoice = j
        PROVE  /\ o \in invoice'[j].orders
               /\ \/ Standing(j)' \/ o \in cutOff
                  \/ \E x \in Requests : ireq'[x].pc = "detach" /\ ireq'[x].iid = j
    <3>1. /\ o \in invoice[j].orders
          /\ \/ Standing(j) \/ o \in cutOff
             \/ \E x \in Requests : ireq[x].pc = "detach" /\ ireq[x].iid = j
      BY <1>1, <2>2 DEF LinksAgree
    <3>2. j # i
      BY <1>1, <3>1 DEF LinkInv, UnissuedBillNothing
    <3>. QED
      BY <1>1, <1>2, <3>1, <3>2 DEF Standing
  <2>. QED
    BY <2>1, <2>2 DEF LinksAgree
<1>. QED
  BY <1>4, <1>5, <1>6

LEMMA FlushLinked ==
  ASSUME LinkInv, NEW r \in Requests, FlushRow(r)
  PROVE  HandsApart' /\ (\A x \in Requests : HandsRight(x)') /\ LinksAgree'
<1>. DEFINE i == ireq[r].iid
            cancels == ireq[r].op = "status" /\ ireq[r].status = "cancelled"
<1>. cutOff' = cutOff
  BY DEF FlushRow
<1>. TypeOK /\ Alone /\ HandsApart /\ LinksAgree
  BY DEF LinkInv, AloneInv
<1>1. /\ i \in InvoiceIds /\ ireq[r].pc = "flush"
      /\ \A j \in InvoiceIds \ {i} : invoice'[j] = invoice[j]
      /\ invoice'[i].orders = invoice[i].orders
      /\ order' = order
      /\ \A x \in Requests \ {r} : ireq'[x] = ireq[x]
      /\ invoice'[i].status # "absent"
      /\ invoice'[i].status = "cancelled" <=> cancels
  BY FlushWrites, FlushGoesOn, FlushTells DEF LinkInv
<1>2. Standing(i) /\ ireq[r].orders = IF ireq[r].op = "status" THEN invoice[i].orders ELSE {}
  BY <1>1 DEF LinkInv, HandsRight, AloneInv, PatchesGood, StillGood
<1>3. \/ cancels /\ ireq'[r].pc = "detach" /\ ireq'[r].iid = i /\ ireq'[r].orders = ireq[r].orders
      \/ ~cancels /\ ireq'[r] = Waiting
  BY FlushGoesOn DEF Decided
<1>. HIDE DEF cancels
<1>4. HandsApart'
  BY <1>1, <1>3 DEF HandsApart, Waiting
<1>5. \A x \in Requests \ {r} : ireq[x].iid # i
  BY <1>1, InvoicesAssumption DEF Alone
<1>6. \A o \in invoice[i].orders \ cutOff : order[o].invoice = i
  BY <1>1, <1>2, <1>5 DEF LinksAgree
<1>7. ASSUME NEW x \in Requests PROVE HandsRight(x)'
  <2>1. CASE x = r
    BY <1>1, <1>2, <1>3, <1>6, <2>1 DEF HandsRight, Waiting, cancels
  <2>2. CASE x # r
    <3>1. HandsRight(x) /\ ireq'[x] = ireq[x]
      BY <1>1, <2>2 DEF LinkInv
    <3>2. ireq[x].pc \notin {"idle", "insert"} => ireq[x].iid \in InvoiceIds \ {i}
      BY <1>5, <2>2 DEF TypeOK, Request, InvoiceSteps
    <3>. QED
      BY <1>1, <3>1, <3>2, HandsStay DEF Standing
  <2>. QED
    BY <2>1, <2>2
<1>8. LinksAgree'
  <2>1. ASSUME NEW j \in InvoiceIds, Standing(j)', NEW o \in invoice'[j].orders, o \notin cutOff
        PROVE  \/ order'[o].invoice = j
               \/ \E x \in Requests : ireq'[x].pc = "attach" /\ ireq'[x].iid = j
    <3>1. Standing(j) /\ o \in invoice[j].orders
      BY <1>1, <1>2, <2>1 DEF Standing
    <3>2. \/ order[o].invoice = j
          \/ \E x \in Requests : ireq[x].pc = "attach" /\ ireq[x].iid = j
      BY <2>1, <3>1 DEF LinksAgree
    <3>. QED
      BY <1>1, <3>2
  <2>2. ASSUME NEW o \in OrderIds, NEW j \in InvoiceIds, order'[o].invoice = j
        PROVE  /\ o \in invoice'[j].orders
               /\ \/ Standing(j)' \/ o \in cutOff
                  \/ \E x \in Requests : ireq'[x].pc = "detach" /\ ireq'[x].iid = j
    <3>1. /\ o \in invoice[j].orders
          /\ \/ Standing(j) \/ o \in cutOff
             \/ \E x \in Requests : ireq[x].pc = "detach" /\ ireq[x].iid = j
      BY <1>1, <2>2 DEF LinksAgree
    <3>2. CASE j = i
      BY <1>1, <1>3, <3>1, <3>2 DEF Standing
    <3>3. CASE j # i
      BY <1>1, <3>1, <3>3 DEF Standing
    <3>. QED
      BY <3>2, <3>3
  <2>. QED
    BY <2>1, <2>2 DEF LinksAgree
<1>. QED
  BY <1>4, <1>7, <1>8

\* What an unissued row bills stays nothing.
LEMMA StepUnissued ==
  ASSUME LinkInv, ~Overlap, [InvoiceStep]_invoiceVars
  PROVE  UnissuedBillNothing'
<1>. TypeOK /\ UnissuedBillNothing
  BY DEF LinkInv, AloneInv
<1>1. ASSUME NEW r \in Requests, InsertInvoice(r)
      PROVE  UnissuedBillNothing'
  BY <1>1, InsertWrites DEF UnissuedBillNothing, Existing
<1>2. ASSUME NEW r \in Requests, FlushRow(r)
      PROVE  UnissuedBillNothing'
  BY <1>2, FlushWrites, FlushTells DEF LinkInv, UnissuedBillNothing, Existing
<1>3. ASSUME NEW r \in Requests,
             BeginRequest(r) \/ MailSent(r) \/ ReadRow(r)
             \/ AttachOrders(r) \/ DetachOrders(r) \/ CrashRequest(r)
      PROVE  UnissuedBillNothing'
  <2>1. invoice' = invoice
    BY <1>3, BeginWrites, MailWrites, ReadWrites, EndingWrites
  <2>. QED
    BY <2>1 DEF UnissuedBillNothing, Existing
<1>4. CASE MarkOverdue \/ \E i \in InvoiceIds : DueDatePasses(i)
  BY <1>4, ClockWrites DEF UnissuedBillNothing, Existing
<1>5. CASE UNCHANGED invoiceVars
  BY <1>5 DEF invoiceVars, UnissuedBillNothing, Existing
<1>. QED
  BY <1>1, <1>2, <1>3, <1>4, <1>5 DEF InvoiceStep, ContinueRequest

\* A handler that ends for good takes its orders out of the agreement, if it had
\* begun with them.
LEMMA CrashLinked ==
  ASSUME LinkInv, NEW r \in Requests, CrashRequest(r)
  PROVE  HandsApart' /\ (\A x \in Requests : HandsRight(x)') /\ LinksAgree'
<1>. TypeOK /\ HandsApart /\ LinksAgree
  BY DEF LinkInv, AloneInv
<1>1. /\ UNCHANGED <<invoice, order>> /\ ireq'[r] = Waiting
      /\ \A x \in Requests \ {r} : ireq'[x] = ireq[x]
      /\ cutOff \subseteq cutOff'
      /\ ireq[r].pc \in {"attach", "detach"} => ireq[r].orders \subseteq cutOff'
  BY EndingWrites DEF CrashRequest
<1>2. HandsApart'
  BY <1>1 DEF HandsApart, Waiting
<1>3. ASSUME NEW x \in Requests PROVE HandsRight(x)'
  <2>1. CASE x = r
    BY <1>1, <2>1 DEF HandsRight, Waiting
  <2>2. CASE x # r
    BY <1>1, <2>2, HandsStay DEF LinkInv, Standing
  <2>. QED
    BY <2>1, <2>2
<1>4. ireq[r].pc \in {"attach", "detach"} => ireq[r].orders = invoice[ireq[r].iid].orders
  BY DEF LinkInv, HandsRight
<1>5. LinksAgree'
  <2>1. ASSUME NEW j \in InvoiceIds, Standing(j)', NEW o \in invoice'[j].orders, o \notin cutOff'
        PROVE  \/ order'[o].invoice = j
               \/ \E x \in Requests : ireq'[x].pc = "attach" /\ ireq'[x].iid = j
    <3>1. \/ order[o].invoice = j
          \/ \E x \in Requests : ireq[x].pc = "attach" /\ ireq[x].iid = j
      BY <1>1, <2>1 DEF LinksAgree, Standing
    <3>2. ~(ireq[r].pc = "attach" /\ ireq[r].iid = j)
      BY <1>1, <1>4, <2>1
    <3>. QED
      BY <1>1, <3>1, <3>2
  <2>2. ASSUME NEW o \in OrderIds, NEW j \in InvoiceIds, order'[o].invoice = j
        PROVE  /\ o \in invoice'[j].orders
               /\ \/ Standing(j)' \/ o \in cutOff'
                  \/ \E x \in Requests : ireq'[x].pc = "detach" /\ ireq'[x].iid = j
    <3>1. /\ o \in invoice[j].orders
          /\ \/ Standing(j) \/ o \in cutOff
             \/ \E x \in Requests : ireq[x].pc = "detach" /\ ireq[x].iid = j
      BY <1>1, <2>2 DEF LinksAgree
    <3>2. ireq[r].pc = "detach" /\ ireq[r].iid = j => o \in cutOff'
      BY <1>1, <1>4, <3>1
    <3>. QED
      BY <1>1, <3>1, <3>2 DEF Standing
  <2>. QED
    BY <2>1, <2>2 DEF LinksAgree
<1>. QED
  BY <1>2, <1>3, <1>5

LEMMA StepLinked ==
  ~Overlap => (LinkInv /\ [InvoiceStep]_invoiceVars => LinkInv')
<1>. SUFFICES ASSUME ~Overlap, LinkInv, [InvoiceStep]_invoiceVars
              PROVE  LinkInv'
  OBVIOUS
<1>. TypeOK /\ HandsApart /\ LinksAgree /\ AloneInv' /\ UnissuedBillNothing'
  BY StepAlone, StepUnissued DEF LinkInv, AloneInv
<1>. DEFINE Linked == HandsApart /\ (\A x \in Requests : HandsRight(x)) /\ LinksAgree
<1>1. ASSUME NEW r \in Requests, BeginRequest(r)
      PROVE  Linked'
  <2>1. /\ UNCHANGED <<invoice, order, cutOff>> /\ ireq[r].pc = "idle"
        /\ \A x \in Requests \ {r} : ireq'[x] = ireq[x]
    BY <1>1, BeginWrites
    DEF BeginRequest, CreateInvoice, RecordPayment, SendInvoice, UpdateInvoiceStatus
  <2>2. /\ \A x \in Requests \ {r} : ireq'[r].orders \cap ireq[x].orders \subseteq cutOff
        /\ HandsRight(r)'
    BY <1>1, BeginLinked
  <2>3. HandsApart'
    BY <2>1, <2>2 DEF HandsApart
  <2>4. \A x \in Requests : HandsRight(x)'
    BY <2>1, <2>2, HandsStay DEF LinkInv, Standing
  <2>5. LinksAgree'
    BY <2>1, LinksStay DEF Standing
  <2>. QED
    BY <2>3, <2>4, <2>5
<1>2. ASSUME NEW r \in Requests, MailSent(r) \/ ReadRow(r)
      PROVE  Linked'
  <2>1. /\ UNCHANGED <<invoice, order, cutOff>> /\ Decided(ireq'[r], ireq[r])
        /\ \A x \in Requests \ {r} : ireq'[x] = ireq[x]
        /\ ireq'[r].pc \in {"read", "flush"}
    BY <1>2, MailWrites, ReadWrites DEF MailSent, ReadRow
  <2>2. ireq[r].pc \in {"mail", "read"}
    BY <1>2 DEF MailSent, ReadRow
  <2>3. HandsApart'
    BY <2>1 DEF HandsApart, Decided
  <2>4. HandsRight(r)'
    BY <2>1, <2>2 DEF LinkInv, HandsRight, Decided
  <2>5. \A x \in Requests : HandsRight(x)'
    BY <2>1, <2>4, HandsStay DEF LinkInv, Standing
  <2>6. LinksAgree'
    BY <2>1, <2>2, LinksStay DEF Standing
  <2>. QED
    BY <2>3, <2>5, <2>6
<1>3. CASE MarkOverdue \/ \E i \in InvoiceIds : DueDatePasses(i)
  <2>1. /\ UNCHANGED <<order, ireq, cutOff>>
        /\ \A i \in InvoiceIds :
              /\ invoice'[i].orders = invoice[i].orders
              /\ Standing(i)' <=> Standing(i)
              /\ invoice[i].status = "cancelled" => invoice'[i].status = "cancelled"
    BY <1>3, ClockWrites DEF Standing, MarkOverdue, DueDatePasses
  <2>2. HandsApart'
    BY <2>1 DEF HandsApart
  <2>3. ASSUME NEW x \in Requests PROVE HandsRight(x)'
    <3>1. ireq[x].pc \notin {"idle", "insert"} => ireq[x].iid \in InvoiceIds
      BY DEF TypeOK, Request, InvoiceSteps
    <3>. QED
      BY <2>1, <3>1, HandsStay DEF LinkInv
  <2>4. LinksAgree'
    BY <2>1, LinksStay
  <2>. QED
    BY <2>2, <2>3, <2>4 DEF LinkInv
<1>4. CASE UNCHANGED invoiceVars
  <2>1. UNCHANGED <<invoice, order, ireq, cutOff>>
    BY <1>4 DEF invoiceVars
  <2>. QED
    BY <2>1, HandsStay, LinksStay DEF LinkInv, HandsApart, Standing
<1>. QED
  BY <1>1, <1>2, <1>3, <1>4, InsertLinked, FlushLinked, AttachLinked, DetachLinked,
     CrashLinked
  DEF InvoiceStep, ContinueRequest, LinkInv

LEMMA InitLinked == Init => LinkInv
<1>. SUFFICES ASSUME Init PROVE LinkInv
  OBVIOUS
<1>1. HandsApart
  BY DEF Init, InvoiceInit, HandsApart, Waiting
<1>2. \A r \in Requests : HandsRight(r)
  BY DEF Init, InvoiceInit, HandsRight, Waiting
<1>3. LinksAgree
  BY InvoicesAssumption DEF Init, InvoiceInit, LinksAgree, Standing, Unissued
<1>4. UnissuedBillNothing
  BY DEF Init, InvoiceInit, UnissuedBillNothing, Unissued
<1>. QED
  BY <1>1, <1>2, <1>3, <1>4, InitAlone DEF LinkInv

LEMMA LinksHold ==
  ASSUME ~Overlap
  PROVE  Spec => []LinkInv
BY InitLinked, StepLinked, PTL DEF Spec

\* When requests do not overlap, wherever they end, an order knows the standing
\* invoice that bills it, and one on a cancelled invoice is about to be released:
\* only the orders in the hands of a handler that ended over them may disagree ...
THEOREM OrdersKnowTheirInvoice ==
  ASSUME ~Overlap
  PROVE  Spec => []LinksAgree
<1>1. LinkInv => LinksAgree
  BY DEF LinkInv
<1>. QED
  BY <1>1, LinksHold, PTL

\* ... so no other order is billed by two standing invoices.
THEOREM OrdersAreBilledOnce ==
  ASSUME ~Overlap
  PROVE  Spec => []BilledOnce
<1>1. LinkInv => BilledOnce
  <2>. SUFFICES ASSUME LinkInv, NEW i \in InvoiceIds, NEW j \in InvoiceIds, i # j,
                       Standing(i), Standing(j),
                       NEW o \in invoice[i].orders, o \in invoice[j].orders, o \notin cutOff
                PROVE  FALSE
    BY DEF BilledOnce
  <2>1. \A k \in InvoiceIds, x \in Requests :
            ireq[x].pc = "attach" /\ ireq[x].iid = k /\ o \in invoice[k].orders =>
                order[o].invoice = NoInvoice /\ o \in ireq[x].orders
    BY DEF LinkInv, HandsRight
  <2>2. \/ order[o].invoice = i
        \/ \E x \in Requests : ireq[x].pc = "attach" /\ ireq[x].iid = i
    BY DEF LinkInv, LinksAgree
  <2>3. \/ order[o].invoice = j
        \/ \E x \in Requests : ireq[x].pc = "attach" /\ ireq[x].iid = j
    BY DEF LinkInv, LinksAgree
  <2>. QED
    BY <2>1, <2>2, <2>3, InvoicesAssumption DEF LinkInv, HandsApart
<1>. QED
  BY <1>1, LinksHold, PTL

-----------------------------------------------------------------------------
(* Requests that do not overlap, and end for good only where no order is left *)
(* half linked or half released: the invoice book                             *)

\* Orders are the only thing a handler could leave behind half done.
WholeLinks == ~Overlap /\ Crashing \cap {"attach", "detach"} = {}

\* What a handler has decided is a step of the book from the row as it is now,
\* whatever the daily job did to it since it was decided.
StepPlanned(r) ==
    LET q == ireq[r]
        now == invoice[q.iid].status
    IN  /\ q.op = "pay" =>
              q.amount \in Payments /\ q.status \in {"paid", "partially_paid"}
        /\ q.op # "pay" =>
              \/ q.status = now
              \/ q.op = "status" /\ q.status = "cancelled"
              \/ now \in {"draft", "overdue"} /\ q.status = "sent"
              \/ now = "overdue" /\ q.status = "partially_paid"
              \/ now \in {"sent", "partially_paid"} /\ q.status = "overdue"

StepsPlanned ==
    \A r \in Requests : ireq[r].pc \in {"mail", "read", "flush"} => StepPlanned(r)

\* A handler that issues an invoice has orders for it.
SomethingToBill == \A r \in Requests : ireq[r].pc = "insert" => ireq[r].orders # {}

WholeInv ==
    /\ LinkInv
    /\ cutOff = {}
    /\ StepsPlanned
    /\ SomethingToBill

LEMMA BeginPlanned ==
  ASSUME WholeInv, ~Overlap, NEW r \in Requests, BeginRequest(r)
  PROVE  /\ ireq'[r].pc \in {"mail", "read", "flush"} => StepPlanned(r)'
         /\ ireq'[r].pc = "insert" => ireq'[r].orders # {}
<1>. TypeOK /\ AloneInv
  BY DEF WholeInv, LinkInv, AloneInv
<1>1. CASE CreateInvoice(r)
  <2>1. PICK os \in SUBSET OrderIds :
            /\ os # {}
            /\ ireq' = [ireq EXCEPT ![r] = [Waiting EXCEPT !.pc = "insert",
                                                           !.op = "create",
                                                           !.orders = os]]
    BY <1>1 DEF CreateInvoice
  <2>2. ireq'[r].pc = "insert" /\ ireq'[r].orders = os
    BY <2>1 DEF TypeOK, Waiting
  <2>. QED
    BY <2>1, <2>2
<1>2. CASE RecordPayment(r)
  <2>1. PICK i \in InvoiceIds, amount \in Payments :
            ireq' = [ireq EXCEPT ![r] =
                 [Waiting EXCEPT !.pc = "read", !.op = "pay", !.iid = i,
                                 !.paid = NewPaid(i, amount), !.amount = amount,
                                 !.status = StatusOnceAt(i, NewPaid(i, amount))]]
    BY <1>2 DEF RecordPayment
  <2>2. /\ ireq'[r].pc = "read" /\ ireq'[r].op = "pay" /\ ireq'[r].amount = amount
        /\ ireq'[r].status = StatusOnceAt(i, NewPaid(i, amount))
    BY <2>1 DEF TypeOK, Waiting
  <2>. QED
    BY <2>1, <2>2 DEF StepPlanned, StatusOnceAt
<1>3. CASE SendInvoice(r)
  <2>1. PICK i \in InvoiceIds :
            ireq' = [ireq EXCEPT ![r] =
                 [Waiting EXCEPT !.pc = "mail", !.op = "send", !.iid = i,
                                 !.status = StatusOnceSent(i)]]
    BY <1>3 DEF SendInvoice
  <2>2. /\ ireq'[r].pc = "mail" /\ ireq'[r].op = "send" /\ ireq'[r].iid = i
        /\ ireq'[r].status = StatusOnceSent(i) /\ invoice' = invoice
    BY <1>3, <2>1 DEF TypeOK, Waiting, SendInvoice
  <2>. QED
    BY <2>2 DEF StepPlanned, StatusOnceSent
<1>4. CASE UpdateInvoiceStatus(r)
  <2>1. PICK i \in InvoiceIds, target \in InvoiceStatus :
            /\ Existing(i)
            /\ target \in INVOICE_TRANSITIONS[invoice[i].status]
            /\ ireq' = [ireq EXCEPT ![r] =
                 [Waiting EXCEPT !.pc = "read", !.op = "status", !.iid = i,
                                 !.status = target, !.orders = invoice[i].orders]]
    BY <1>4 DEF UpdateInvoiceStatus
  <2>2. /\ ireq'[r].pc = "read" /\ ireq'[r].op = "status" /\ ireq'[r].iid = i
        /\ ireq'[r].status = target /\ invoice' = invoice
    BY <1>4, <2>1 DEF TypeOK, Waiting, UpdateInvoiceStatus
  <2>3. invoice[i].status \in InvoiceStatus
    BY <2>1 DEF TypeOK, InvoiceRow, Existing
  <2>4. \/ target = "cancelled"
        \/ invoice[i].status \in {"draft", "overdue"} /\ target = "sent"
        \/ invoice[i].status \in {"sent", "partially_paid"} /\ target = "overdue"
    BY <2>1, <2>3 DEF INVOICE_TRANSITIONS, InvoiceStatus
  <2>. QED
    BY <2>2, <2>4 DEF StepPlanned
<1>. QED
  BY <1>1, <1>2, <1>3, <1>4 DEF BeginRequest

\* A plan stays one while its row stays, or is flagged by the daily job.
LEMMA PlanStays ==
  ASSUME NEW r \in Requests, StepPlanned(r), Decided(ireq'[r], ireq[r]),
         \/ invoice'[ireq[r].iid].status = invoice[ireq[r].iid].status
         \/ /\ invoice[ireq[r].iid].status \in {"sent", "partially_paid"}
            /\ invoice'[ireq[r].iid].status = "overdue"
  PROVE  StepPlanned(r)'
BY DEF StepPlanned, Decided

LEMMA StepWhole ==
  WholeLinks => (WholeInv /\ [InvoiceStep]_invoiceVars => WholeInv')
<1>. SUFFICES ASSUME WholeLinks, WholeInv, [InvoiceStep]_invoiceVars
              PROVE  WholeInv'
  OBVIOUS
<1>0. /\ ~Overlap /\ LinkInv /\ LinkInv' /\ TypeOK /\ AloneInv
      /\ cutOff = {} /\ StepsPlanned /\ SomethingToBill
  BY StepLinked DEF WholeLinks, WholeInv, LinkInv, AloneInv
<1>. USE <1>0
<1>a. \A x \in Requests : ireq[x].pc \in {"mail", "read", "flush"} =>
          /\ StepPlanned(x) /\ ireq[x].iid \in InvoiceIds /\ Existing(ireq[x].iid)
          /\ Decided(ireq[x], ireq[x])
  BY DEF StepsPlanned, TypeOK, InvoiceSteps, Decided
<1>. DEFINE Planned == cutOff = {} /\ StepsPlanned /\ SomethingToBill
<1>1. ASSUME NEW r \in Requests, BeginRequest(r)
      PROVE  Planned'
  <2>1. /\ UNCHANGED <<invoice, cutOff>>
        /\ \A x \in Requests \ {r} : ireq'[x] = ireq[x]
    BY <1>1, BeginWrites
    DEF BeginRequest, CreateInvoice, RecordPayment, SendInvoice, UpdateInvoiceStatus
  <2>2. StepsPlanned'
    BY <1>a, <1>1, <2>1, BeginPlanned, PlanStays DEF StepsPlanned
  <2>3. SomethingToBill'
    BY <1>1, <2>1, BeginPlanned DEF SomethingToBill
  <2>. QED
    BY <2>1, <2>2, <2>3
<1>2. ASSUME NEW r \in Requests, InsertInvoice(r)
      PROVE  Planned'
  <2>1. PICK i \in InvoiceIds :
            /\ ~Existing(i)
            /\ \A j \in InvoiceIds \ {i} : invoice'[j] = invoice[j]
            /\ ireq'[r].pc = "attach"
            /\ \A x \in Requests \ {r} : ireq'[x] = ireq[x]
    BY <1>2, InsertWrites
  <2>2. cutOff' = cutOff
    BY <1>2 DEF InsertInvoice
  <2>3. StepsPlanned'
    BY <1>a, <2>1, PlanStays DEF StepsPlanned
  <2>. QED
    BY <2>1, <2>2, <2>3 DEF SomethingToBill
<1>3. ASSUME NEW r \in Requests, FlushRow(r)
      PROVE  Planned'
  <2>1. /\ ireq[r].iid \in InvoiceIds /\ ireq[r].pc = "flush"
        /\ \A j \in InvoiceIds \ {ireq[r].iid} : invoice'[j] = invoice[j]
        /\ \A x \in Requests \ {r} : ireq'[x] = ireq[x]
        /\ ireq'[r].pc \in {"detach", "idle"}
    BY <1>3, FlushWrites, FlushGoesOn DEF Waiting
  <2>2. cutOff' = cutOff
    BY <1>3 DEF FlushRow
  <2>3. \A x \in Requests \ {r} :
            ireq[x].pc \in {"mail", "read", "flush"} => ireq[x].iid # ireq[r].iid
    BY <1>a, <2>1, InvoicesAssumption DEF AloneInv, Alone
  <2>4. StepsPlanned'
    BY <1>a, <2>1, <2>3, PlanStays DEF StepsPlanned
  <2>. QED
    BY <2>1, <2>2, <2>4 DEF SomethingToBill
<1>4. ASSUME NEW r \in Requests, AttachOrders(r) \/ DetachOrders(r) \/ CrashRequest(r)
      PROVE  Planned'
  <2>1. /\ UNCHANGED invoice /\ ireq'[r].pc = "idle"
        /\ \A x \in Requests \ {r} : ireq'[x] = ireq[x]
    BY <1>4, EndingWrites DEF Waiting
  <2>2. cutOff' = cutOff
    BY <1>4 DEF AttachOrders, DetachOrders, CrashRequest, WholeLinks
  <2>3. StepsPlanned'
    BY <1>a, <2>1, PlanStays DEF StepsPlanned
  <2>. QED
    BY <2>1, <2>2, <2>3 DEF SomethingToBill
<1>5. ASSUME NEW r \in Requests, MailSent(r) \/ ReadRow(r)
      PROVE  Planned'
  <2>1. /\ UNCHANGED <<invoice, cutOff>> /\ Decided(ireq'[r], ireq[r])
        /\ \A x \in Requests \ {r} : ireq'[x] = ireq[x]
        /\ ireq[r].pc \in {"mail", "read"} /\ ireq'[r].pc \in {"read", "flush"}
    BY <1>5, MailWrites, ReadWrites DEF MailSent, ReadRow
  <2>2. StepsPlanned'
    BY <1>a, <2>1, PlanStays DEF StepsPlanned
  <2>. QED
    BY <2>1, <2>2 DEF SomethingToBill
<1>6. CASE MarkOverdue \/ \E i \in InvoiceIds : DueDatePasses(i)
  <2>1. /\ UNCHANGED <<ireq, cutOff>>
        /\ \A i \in InvoiceIds :
              \/ invoice'[i].status = invoice[i].status
              \/ /\ invoice[i].status \in {"sent", "partially_paid"}
                 /\ invoice'[i].status = "overdue"
    BY <1>6, ClockWrites DEF MarkOverdue, DueDatePasses
  <2>2. ASSUME NEW x \in Requests, ireq[x].pc \in {"mail", "read", "flush"}
        PROVE  StepPlanned(x)'
    BY <1>a, <2>1, <2>2, PlanStays
  <2>. QED
    BY <2>1, <2>2 DEF StepsPlanned, SomethingToBill, WholeInv
<1>7. ASSUME UNCHANGED invoiceVars
      PROVE  Planned'
  BY <1>a, <1>7, PlanStays DEF invoiceVars, StepsPlanned, SomethingToBill
<1>. QED
  BY <1>1, <1>2, <1>3, <1>4, <1>5, <1>6, <1>7
  DEF InvoiceStep, ContinueRequest, WholeInv

LEMMA InitWhole == Init => WholeInv
BY InitLinked
DEF Init, InvoiceInit, WholeInv, StepsPlanned, SomethingToBill, Waiting

\* Between handlers that keep apart, an order is billed by the handler that is to
\* link it, by nobody once it is to be released, and by its link else.
LEMMA BilledByHand ==
  ASSUME WholeInv, NEW o \in OrderIds, NEW r \in Requests, o \in ireq[r].orders
  PROVE  BilledTo(o) = IF ireq[r].pc = "attach" THEN ireq[r].iid
                       ELSE IF ireq[r].pc = "detach" THEN NoInvoice
                       ELSE order[o].invoice
<1>1. \A x \in Requests : o \in ireq[x].orders => x = r
  BY DEF WholeInv, LinkInv, HandsApart
<1>2. \A step : Writing(step, o) = IF ireq[r].pc = step THEN {r} ELSE {}
  BY <1>1 DEF Writing
<1>. QED
  BY <1>2 DEF BilledTo

LEMMA BilledByLink ==
  ASSUME NEW o \in OrderIds, \A x \in Requests : o \notin ireq[x].orders
  PROVE  BilledTo(o) = order[o].invoice
BY DEF BilledTo, Writing

\* Whom an order is billed to can be told from the invoices alone.
BillsAreRows ==
    \A o \in OrderIds :
        /\ BilledTo(o) \in InvoiceIds \cup {NoInvoice}
        /\ \A i \in InvoiceIds : BilledTo(o) = i <=> Standing(i) /\ o \in invoice[i].orders

LEMMA BilledByRow == WholeInv => BillsAreRows
<1>. SUFFICES ASSUME WholeInv, NEW o \in OrderIds
              PROVE  /\ BilledTo(o) \in InvoiceIds \cup {NoInvoice}
                     /\ \A i \in InvoiceIds :
                           BilledTo(o) = i <=> Standing(i) /\ o \in invoice[i].orders
  BY DEF BillsAreRows
<1>. /\ TypeOK /\ LinksAgree /\ HandsApart /\ cutOff = {}
     /\ \A x \in Requests : HandsRight(x)
  BY DEF WholeInv, LinkInv, AloneInv
<1>1. BilledTo(o) \in InvoiceIds \cup {NoInvoice}
  <2>1. order[o].invoice \in InvoiceIds \cup {NoInvoice}
    BY DEF TypeOK, LinkedOrder
  <2>2. ASSUME NEW r \in Requests, o \in ireq[r].orders
        PROVE  BilledTo(o) \in InvoiceIds \cup {NoInvoice}
    <3>1. ireq[r].pc = "attach" => ireq[r].iid \in InvoiceIds
      BY DEF TypeOK, InvoiceSteps
    <3>. QED
      BY <2>1, <2>2, <3>1, BilledByHand
  <2>. QED
    BY <2>1, <2>2, BilledByLink
<1>2. ASSUME NEW i \in InvoiceIds, BilledTo(o) = i
      PROVE  Standing(i) /\ o \in invoice[i].orders
  <2>1. i # NoInvoice
    BY InvoicesAssumption
  <2>2. CASE \E r \in Requests : o \in ireq[r].orders /\ ireq[r].pc = "attach"
    BY <1>2, <2>2, BilledByHand DEF HandsRight
  <2>3. CASE ~\E r \in Requests : o \in ireq[r].orders /\ ireq[r].pc = "attach"
    <3>1. order[o].invoice = i
      BY <1>2, <2>1, <2>3, BilledByHand, BilledByLink
    <3>2. ~\E r \in Requests : ireq[r].pc = "detach" /\ o \in ireq[r].orders
      BY <1>2, <2>1, BilledByHand
    <3>3. /\ o \in invoice[i].orders
          /\ \/ Standing(i)
             \/ \E r \in Requests : ireq[r].pc = "detach" /\ ireq[r].iid = i
      BY <3>1 DEF LinksAgree
    <3>. QED
      BY <3>2, <3>3 DEF HandsRight
  <2>. QED
    BY <2>2, <2>3
<1>3. ASSUME NEW i \in InvoiceIds, Standing(i), o \in invoice[i].orders
      PROVE  BilledTo(o) = i
  <2>1. CASE \E r \in Requests : ireq[r].pc = "attach" /\ ireq[r].iid = i
    BY <1>3, <2>1, BilledByHand DEF HandsRight
  <2>2. CASE ~\E r \in Requests : ireq[r].pc = "attach" /\ ireq[r].iid = i
    <3>1. order[o].invoice = i
      BY <1>3, <2>2 DEF LinksAgree
    <3>2. ASSUME NEW r \in Requests, o \in ireq[r].orders
          PROVE  BilledTo(o) = i
      <4>1. ireq[r].pc # "attach"
        BY <3>1, <3>2, InvoicesAssumption DEF HandsRight
      <4>2. ireq[r].pc # "detach"
        BY <1>3, <3>1, <3>2 DEF HandsRight, Standing
      <4>. QED
        BY <3>1, <3>2, <4>1, <4>2, BilledByHand
    <3>. QED
      BY <3>1, <3>2, BilledByLink
  <2>. QED
    BY <2>1, <2>2
<1>. QED
  BY <1>1, <1>2, <1>3

\* ... so it changes only with the invoices.
LEMMA BilledStays ==
  ASSUME BillsAreRows, BillsAreRows',
         \A i \in InvoiceIds : /\ invoice'[i].orders = invoice[i].orders
                               /\ Standing(i)' <=> Standing(i)
  PROVE  bookBilledTo' = bookBilledTo
<1>1. \A o \in OrderIds : BilledTo(o)' = BilledTo(o)
  BY DEF BillsAreRows
<1>. QED
  BY <1>1 DEF bookBilledTo

\* A step that writes no status, total or payment, and no row, is not in the book.
LEMMA Unseen ==
  ASSUME BillsAreRows, BillsAreRows',
         \A i \in InvoiceIds : /\ invoice'[i].status = invoice[i].status
                               /\ invoice'[i].total = invoice[i].total
                               /\ invoice'[i].paid = invoice[i].paid
                               /\ invoice'[i].orders = invoice[i].orders
  PROVE  UNCHANGED Book!bookVars
<1>1. bookBilledTo' = bookBilledTo
  BY BilledStays DEF Standing
<1>2. bookStatus' = bookStatus /\ bookTotal' = bookTotal /\ bookPaid' = bookPaid
  BY DEF bookStatus, bookTotal, bookPaid
<1>. QED
  BY <1>1, <1>2 DEF Book!bookVars

\* The insert of an invoice issues it, its orders with it.
LEMMA InsertOnBook ==
  ASSUME WholeInv, BillsAreRows, BillsAreRows', NEW r \in Requests, InsertInvoice(r)
  PROVE  \E i \in InvoiceIds : Book!Issue(i)
<1>. DEFINE os == ireq[r].orders
<1>. TypeOK /\ AloneInv
  BY DEF WholeInv, LinkInv, AloneInv
<1>1. PICK i \in InvoiceIds, t \in Totals :
          /\ ~Existing(i)
          /\ invoice'[i].status = "draft" /\ invoice'[i].paid = 0
          /\ invoice'[i].total = t /\ invoice'[i].orders = os
          /\ \A j \in InvoiceIds \ {i} : invoice'[j] = invoice[j]
  BY DEF InsertInvoice, TypeOK, Existing
<1>2. /\ ireq[r].pc = "insert"
      /\ os # {} /\ os \subseteq OrderIds
  BY DEF InsertInvoice, WholeInv, SomethingToBill, TypeOK, Request
<1>3. invoice[i].paid = 0
  BY <1>1 DEF AloneInv, RowsTell
<1>4. /\ bookStatus' = [bookStatus EXCEPT ![i] = "draft"]
      /\ bookTotal' = [bookTotal EXCEPT ![i] = t]
      /\ bookPaid' = bookPaid
  BY <1>1, <1>3 DEF bookStatus, bookTotal, bookPaid
<1>5. \A o \in os : bookBilledTo[o] = NoInvoice
  <2>1. \A o \in os : order[o].invoice = NoInvoice
    BY <1>2 DEF WholeInv, LinkInv, HandsRight
  <2>. QED
    BY <1>2, <2>1, BilledByHand DEF bookBilledTo
<1>6. bookBilledTo' = [o \in OrderIds |-> IF o \in os THEN i ELSE bookBilledTo[o]]
  <2>1. ASSUME NEW o \in OrderIds
        PROVE  BilledTo(o)' = IF o \in os THEN i ELSE BilledTo(o)
    <3>1. /\ BilledTo(o) \in InvoiceIds \cup {NoInvoice}
          /\ BilledTo(o)' \in InvoiceIds \cup {NoInvoice}
          /\ \A j \in InvoiceIds : BilledTo(o) = j <=> Standing(j) /\ o \in invoice[j].orders
          /\ \A j \in InvoiceIds :
                BilledTo(o)' = j <=> Standing(j)' /\ o \in invoice'[j].orders
      BY DEF BillsAreRows
    <3>2. Standing(i)' /\ ~Standing(i)
      BY <1>1 DEF Standing, Existing
    <3>3. \A j \in InvoiceIds \ {i} :
              /\ Standing(j)' <=> Standing(j)
              /\ invoice'[j].orders = invoice[j].orders
      BY <1>1 DEF Standing
    <3>. QED
      BY <1>1, <3>1, <3>2, <3>3
  <2>. QED
    BY <2>1 DEF bookBilledTo
<1>7. bookStatus[i] = "absent"
  BY <1>1 DEF bookStatus, Existing
<1>8. Book!Rebill(os, NoInvoice, i)
  BY <1>5, <1>6 DEF Book!Rebill
<1>. QED
  BY <1>2, <1>4, <1>7, <1>8 DEF Book!Issue

\* The flush of a payment is the payment.
LEMMA PaymentOnBook ==
  ASSUME WholeInv, BillsAreRows, BillsAreRows', NEW r \in Requests, FlushRow(r),
         ireq[r].op = "pay"
  PROVE  \E i \in InvoiceIds, amount \in Payments : Book!Pay(i, amount)
<1>. DEFINE q == ireq[r]
            i == q.iid
            v == invoice[i]
            w == invoice'[i]
<1>. TypeOK /\ AloneInv
  BY DEF WholeInv, LinkInv, AloneInv
<1>1. /\ i \in InvoiceIds /\ q.pc = "flush"
      /\ \A j \in InvoiceIds \ {i} : invoice'[j] = invoice[j]
      /\ w.total = v.total /\ w.orders = v.orders
      /\ w.status = IF q.status # q.base.status THEN q.status ELSE v.status
      /\ w.paid = q.paid
  <2>1. StillGood(r)
    BY FlushGoesOn DEF AloneInv, PatchesGood
  <2>2. q.base.paid = v.paid
    BY <2>1, FlushGoesOn DEF StillGood
  <2>. QED
    BY <2>2, FlushWrites, FlushGoesOn
<1>2. StillGood(r) /\ StepPlanned(r)
  BY <1>1 DEF AloneInv, PatchesGood, WholeInv, StepsPlanned
<1>3. /\ q.amount \in Payments /\ q.paid = v.paid + q.amount
      /\ v.paid \in Nat /\ v.total \in Nat /\ q.amount \in Nat \ {0}
      /\ Standing(i)
  BY <1>1, <1>2, InvoicesAssumption DEF StillGood, StepPlanned, TypeOK, InvoiceRow
<1>4. /\ q.status \in {"paid", "partially_paid"}
      /\ Tells(q.status, q.paid, v.total)
      /\ \/ w.status = q.status
         \/ w.status = "overdue" /\ q.status = "partially_paid"
  BY <1>1, <1>2 DEF StillGood, StepPlanned, PaidAfter
<1>5. q.paid <= v.total
  BY <1>3, <1>4 DEF Tells
<1>6. w.status \in IF w.paid = w.total THEN {"paid"} ELSE {"partially_paid", "overdue"}
  BY <1>1, <1>3, <1>4, <1>5 DEF Tells
<1>7. /\ bookStatus' = [bookStatus EXCEPT ![i] = w.status]
      /\ bookPaid' = [bookPaid EXCEPT ![i] = bookPaid[i] + q.amount]
      /\ bookTotal' = bookTotal
      /\ bookPaid'[i] = w.paid /\ bookTotal[i] = w.total
      /\ bookPaid[i] + q.amount <= bookTotal[i]
      /\ bookStatus[i] = v.status
  BY <1>1, <1>3, <1>5 DEF bookStatus, bookTotal, bookPaid
<1>8. bookBilledTo' = bookBilledTo
  <2>1. \A j \in InvoiceIds : Standing(j)' <=> Standing(j)
    BY <1>1, <1>3, <1>4 DEF Standing
  <2>. QED
    BY <1>1, <2>1, BilledStays
<1>. HIDE DEF w
<1>9. Book!Open(i)
  BY <1>3, <1>7 DEF Book!Open, Standing
<1>10. \E s \in IF bookPaid'[i] = bookTotal[i] THEN {"paid"} ELSE {"partially_paid", "overdue"} :
           bookStatus' = [bookStatus EXCEPT ![i] = s]
  BY <1>6, <1>7
<1>11. Book!Pay(i, q.amount)
  BY <1>7, <1>8, <1>9, <1>10 DEF Book!Pay
<1>. QED
  BY <1>1, <1>3, <1>11

\* The flush of a cancellation releases the orders in the book.
LEMMA CancellationOnBook ==
  ASSUME WholeInv, BillsAreRows, BillsAreRows', NEW r \in Requests, FlushRow(r),
         ireq[r].op = "status", ireq[r].status = "cancelled"
  PROVE  \E i \in InvoiceIds : Book!Cancel(i)
<1>. TypeOK /\ AloneInv
  BY DEF WholeInv, LinkInv, AloneInv
<1>1. PICK i \in InvoiceIds :
      /\ Standing(i)
      /\ \A j \in InvoiceIds \ {i} : invoice'[j] = invoice[j]
      /\ invoice'[i].total = invoice[i].total /\ invoice'[i].orders = invoice[i].orders
      /\ invoice'[i].paid = invoice[i].paid
      /\ invoice'[i].status = "cancelled"
  BY FlushWrites, FlushGoesOn, FlushTells DEF AloneInv, PatchesGood, StillGood
<1>2. /\ bookStatus' = [bookStatus EXCEPT ![i] = "cancelled"]
      /\ bookTotal' = bookTotal /\ bookPaid' = bookPaid
      /\ bookStatus[i] \notin {"absent", "cancelled"}
  BY <1>1 DEF bookStatus, bookTotal, bookPaid, Standing
<1>3. bookBilledTo' = [o \in OrderIds |-> IF bookBilledTo[o] = i THEN NoInvoice
                                          ELSE bookBilledTo[o]]
  <2>1. ASSUME NEW o \in OrderIds
        PROVE  BilledTo(o)' = IF BilledTo(o) = i THEN NoInvoice ELSE BilledTo(o)
    <3>1. /\ BilledTo(o) \in InvoiceIds \cup {NoInvoice}
          /\ BilledTo(o)' \in InvoiceIds \cup {NoInvoice}
          /\ \A j \in InvoiceIds : BilledTo(o) = j <=> Standing(j) /\ o \in invoice[j].orders
          /\ \A j \in InvoiceIds :
                BilledTo(o)' = j <=> Standing(j)' /\ o \in invoice'[j].orders
      BY DEF BillsAreRows
    <3>2. ~Standing(i)'
      BY <1>1 DEF Standing
    <3>3. \A j \in InvoiceIds \ {i} :
              /\ Standing(j)' <=> Standing(j)
              /\ invoice'[j].orders = invoice[j].orders
      BY <1>1 DEF Standing
    <3>. QED
      BY <1>1, <3>1, <3>2, <3>3, InvoicesAssumption
  <2>. QED
    BY <2>1 DEF bookBilledTo
<1>4. Book!Rebill({o \in OrderIds : bookBilledTo[o] = i}, i, NoInvoice)
  BY <1>3 DEF Book!Rebill
<1>. QED
  BY <1>1, <1>2, <1>4 DEF Book!Cancel, Book!Open

\* Any other flush sends the invoice, flags it, or writes what is there already.
LEMMA StatusOnBook ==
  ASSUME WholeInv, BillsAreRows, BillsAreRows', NEW r \in Requests, FlushRow(r),
         ireq[r].op # "pay", ~(ireq[r].op = "status" /\ ireq[r].status = "cancelled")
  PROVE  [Book!Next]_(Book!bookVars)
<1>. DEFINE q == ireq[r]
            i == q.iid
            v == invoice[i]
            w == invoice'[i]
<1>. TypeOK /\ AloneInv
  BY DEF WholeInv, LinkInv, AloneInv
<1>1. /\ i \in InvoiceIds /\ q.pc = "flush"
      /\ \A j \in InvoiceIds \ {i} : invoice'[j] = invoice[j]
      /\ w.total = v.total /\ w.orders = v.orders /\ w.paid = v.paid
      /\ w.status = IF q.status # q.base.status THEN q.status ELSE v.status
  BY FlushWrites, FlushGoesOn
<1>2. StillGood(r) /\ StepPlanned(r)
  BY <1>1 DEF AloneInv, PatchesGood, WholeInv, StepsPlanned
<1>3. \/ w.status = v.status
      \/ v.status \in {"draft", "overdue"} /\ w.status = "sent"
      \/ /\ v.status = "overdue" /\ w.status = "partially_paid"
         /\ 0 < v.paid /\ v.paid < v.total
      \/ v.status \in {"sent", "partially_paid"} /\ w.status = "overdue"
  <2>1. q.status = "partially_paid" => 0 < v.paid /\ v.paid < v.total
    BY <1>2 DEF StillGood, PaidAfter, Tells
  <2>. QED
    BY <1>1, <1>2, <2>1 DEF StepPlanned
<1>4. /\ bookStatus' = [bookStatus EXCEPT ![i] = w.status]
      /\ bookTotal' = bookTotal /\ bookPaid' = bookPaid
      /\ bookStatus[i] = v.status /\ bookTotal[i] = v.total /\ bookPaid[i] = v.paid
  BY <1>1 DEF bookStatus, bookTotal, bookPaid
<1>5. bookBilledTo' = bookBilledTo
  <2>1. \A j \in InvoiceIds : Standing(j)' <=> Standing(j)
    BY <1>1, <1>2, <1>3 DEF Standing, StillGood
  <2>. QED
    BY <1>1, <2>1, BilledStays
<1>. HIDE DEF w, v
<1>6. CASE w.status = v.status
  <2>1. bookStatus' = bookStatus
    BY <1>4, <1>6 DEF bookStatus
  <2>. QED
    BY <1>4, <1>5, <2>1 DEF Book!bookVars
<1>7. CASE \/ v.status \in {"draft", "overdue"} /\ w.status = "sent"
           \/ /\ v.status = "overdue" /\ w.status = "partially_paid"
              /\ 0 < v.paid /\ v.paid < v.total
  <2>1. Book!Send(i)
    BY <1>4, <1>5, <1>7 DEF Book!Send
  <2>. QED
    BY <1>1, <2>1 DEF Book!Next
<1>8. CASE v.status \in {"sent", "partially_paid"} /\ w.status = "overdue"
  <2>1. bookStatus' = [j \in InvoiceIds |-> IF j \in {i} THEN "overdue" ELSE bookStatus[j]]
    BY <1>4, <1>8 DEF bookStatus
  <2>2. Book!Flag({i})
    BY <1>4, <1>5, <1>8, <2>1 DEF Book!Flag
  <2>3. {i} \in SUBSET InvoiceIds
    BY <1>1
  <2>. QED
    BY <2>2, <2>3 DEF Book!Next
<1>. QED
  BY <1>3, <1>6, <1>7, <1>8

\* The daily job flags, the clock cannot be seen.
LEMMA ClockOnBook ==
  ASSUME WholeInv, BillsAreRows, BillsAreRows',
         MarkOverdue \/ \E i \in InvoiceIds : DueDatePasses(i)
  PROVE  [Book!Next]_(Book!bookVars)
<1>. TypeOK
  BY DEF WholeInv, LinkInv, AloneInv
<1>. DEFINE is == {i \in InvoiceIds : invoice'[i].status # invoice[i].status}
<1>1. \A i \in InvoiceIds :
          /\ invoice'[i].total = invoice[i].total
          /\ invoice'[i].orders = invoice[i].orders
          /\ invoice'[i].paid = invoice[i].paid
          /\ \/ invoice'[i].status = invoice[i].status
             \/ /\ invoice[i].status \in {"sent", "partially_paid"}
                /\ invoice'[i].status = "overdue"
  BY ClockWrites
<1>2. bookTotal' = bookTotal /\ bookPaid' = bookPaid
  BY <1>1 DEF bookTotal, bookPaid
<1>3. bookBilledTo' = bookBilledTo
  BY <1>1, BilledStays DEF Standing
<1>4. bookStatus' = [i \in InvoiceIds |-> IF i \in is THEN "overdue" ELSE bookStatus[i]]
  BY <1>1 DEF bookStatus
<1>5. \A i \in is : bookStatus[i] \in {"sent", "partially_paid"}
  BY <1>1 DEF bookStatus
<1>6. Book!Flag(is)
  BY <1>2, <1>3, <1>4, <1>5 DEF Book!Flag
<1>7. is \in SUBSET InvoiceIds
  OBVIOUS
<1>. HIDE DEF is
<1>. QED
  BY <1>6, <1>7 DEF Book!Next

LEMMA StepOnBook ==
  WholeInv /\ BillsAreRows /\ BillsAreRows' /\ [InvoiceStep]_invoiceVars
      => [Book!Next]_(Book!bookVars)
<1>. SUFFICES ASSUME WholeInv, BillsAreRows, BillsAreRows', [InvoiceStep]_invoiceVars
              PROVE  [Book!Next]_(Book!bookVars)
  OBVIOUS
<1>. TypeOK
  BY DEF WholeInv, LinkInv, AloneInv
<1>1. ASSUME NEW r \in Requests, InsertInvoice(r)
      PROVE  Book!Next
  BY <1>1, InsertOnBook DEF Book!Next
<1>2. ASSUME NEW r \in Requests, FlushRow(r)
      PROVE  [Book!Next]_(Book!bookVars)
  <2>1. CASE ireq[r].op = "pay"
    BY <1>2, <2>1, PaymentOnBook DEF Book!Next
  <2>2. CASE ireq[r].op = "status" /\ ireq[r].status = "cancelled"
    BY <1>2, <2>2, CancellationOnBook DEF Book!Next
  <2>. QED
    BY <1>2, <2>1, <2>2, StatusOnBook
<1>3. ASSUME NEW r \in Requests,
             BeginRequest(r) \/ MailSent(r) \/ ReadRow(r)
             \/ AttachOrders(r) \/ DetachOrders(r) \/ CrashRequest(r)
      PROVE  UNCHANGED Book!bookVars
  <2>1. invoice' = invoice
    BY <1>3, BeginWrites, MailWrites, ReadWrites, EndingWrites
  <2>. QED
    BY <2>1, Unseen
<1>4. CASE UNCHANGED invoiceVars
  BY <1>4, Unseen DEF invoiceVars
<1>. QED
  BY <1>1, <1>2, <1>3, <1>4, ClockOnBook DEF InvoiceStep, ContinueRequest

LEMMA InitOnBook == Init => Book!Init
<1>. SUFFICES ASSUME Init PROVE Book!Init
  OBVIOUS
<1>1. \A o \in OrderIds : BilledTo(o) = NoInvoice
  BY BilledByLink DEF Init, InvoiceInit, Waiting
<1>. QED
  BY <1>1
  DEF Init, InvoiceInit, Unissued, Book!Init, bookStatus, bookTotal, bookPaid, bookBilledTo

\* The invoice flow implements the invoice book, for any number of orders, invoices,
\* requests and any amounts: where requests on one invoice take turns, and handlers
\* end for good only where no order is left half linked or half released, every step
\* of a handler, of the daily job and of the clock is a step of InvoiceBook or cannot
\* be seen in it.
THEOREM InvoiceBookIsImplemented ==
  ASSUME ~Overlap, Crashing \cap {"attach", "detach"} = {}
  PROVE  Spec => ImplementsInvoiceBook
<1>1. Init => WholeInv /\ Book!Init
  BY InitWhole, InitOnBook
<1>2. WholeInv /\ [InvoiceStep]_invoiceVars => WholeInv'
  BY StepWhole DEF WholeLinks
<1>. QED
  BY <1>1, <1>2, BilledByRow, StepOnBook, PTL DEF Spec, ImplementsInvoiceBook, Book!Spec

=============================================================================
