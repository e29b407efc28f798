---------------------------- MODULE SalesProofs -----------------------------
(***************************************************************************)
(* What an invoice bills stands, for every number of orders, invoices and  *)
(* requests, when no two requests work on one row at once.                 *)
(***************************************************************************)
EXTENDS Sales, TLAPS

-----------------------------------------------------------------------------
(* The inductive invariant *)

\* The columns of orders and invoices, and the local variables of handlers, are
\* there; those the argument looks at have their types.
OrderShape(w) == w = [status |-> w.status, items |-> w.items, invoice |-> w.invoice]

HandlerShape(h) ==
    /\ h = [pc |-> h.pc, oid |-> h.oid, target |-> h.target, cart |-> h.cart,
            items |-> h.items, old |-> h.old, moves |-> h.moves, done |-> h.done]
    /\ h.target \in O!OrderStatus
    /\ h.oid \in (IF h.pc = "idle" THEN {NoOrder} ELSE OrderIds)

InvoiceShape(v) ==
    /\ v = [status |-> v.status, orders |-> v.orders, total |-> v.total,
            paid |-> v.paid, due |-> v.due]
    /\ v.orders \subseteq OrderIds

RequestShape(h) ==
    /\ h = [pc |-> h.pc, op |-> h.op, iid |-> h.iid, orders |-> h.orders,
            status |-> h.status, paid |-> h.paid, amount |-> h.amount,
            base |-> h.base]
    /\ h.pc \in I!InvoiceSteps \cup {"idle"}
    /\ h.orders \subseteq OrderIds
    /\ h.iid \in (IF h.pc \in {"idle", "insert"} THEN {NoInvoice} ELSE InvoiceIds)

Shapes ==
    /\ order = [o \in OrderIds |-> order[o]]
    /\ \A o \in OrderIds : OrderShape(order[o])
    /\ req = [r \in OrderRequests |-> req[r]]
    /\ \A r \in OrderRequests : HandlerShape(req[r])
    /\ invoice = [i \in InvoiceIds |-> invoice[i]]
    /\ \A i \in InvoiceIds : InvoiceShape(invoice[i])
    /\ ireq = [q \in InvoiceRequests |-> ireq[q]]
    /\ \A q \in InvoiceRequests : RequestShape(ireq[q])

\* No row is in the hands of two requests.
Alone ==
    /\ \A r, s \in OrderRequests :
          r # s /\ req[r].oid \in OrderIds => req[s].oid # req[r].oid
    /\ \A r, s \in InvoiceRequests :
          r # s /\ ireq[r].iid \in InvoiceIds => ireq[s].iid # ireq[r].iid
    /\ \A r \in OrderRequests, q \in InvoiceRequests : req[r].oid \notin ireq[q].orders

Live(o) == order[o].status \in {"pending", "completed"}

Bills(i, o) == I!Standing(i) /\ o \in invoice[i].orders

\* A request that creates or removes an order, and one that cancels it, may:
\* nothing bills the order.
Creators ==
    \A r \in OrderRequests : req[r].pc \in {"reserve", "release", "persist"} =>
        order[req[r].oid].status = "absent"

Cancellers ==
    \A r \in OrderRequests :
        req[r].pc \in {"restore", "saveStatus"} /\ req[r].target = "cancelled" =>
            \A i \in InvoiceIds : ~Bills(i, req[r].oid)

\* The orders a new invoice is made for are live and free, and no other new
\* invoice is made for them.
Billers ==
    \A q \in InvoiceRequests : ireq[q].pc \in {"insert", "attach"} =>
        \A o \in ireq[q].orders :
            /\ Live(o) /\ order[o].invoice = NoInvoice
            /\ \A s \in InvoiceRequests \ {q} : o \notin ireq[s].orders

\* A request that updates an invoice found it standing, and it still does; when
\* it is to release the orders, it holds those linked to that invoice.
Updaters ==
    \A q \in InvoiceRequests :
        /\ ireq[q].pc \in {"attach", "detach"} => I!Existing(ireq[q].iid)
        /\ ireq[q].pc \in {"mail", "read", "flush"} => I!Standing(ireq[q].iid)
        /\ ireq[q].pc = "flush" => ireq[q].base.status # "cancelled"
        /\ ireq[q].pc = "detach" => ~I!Standing(ireq[q].iid)
        /\ ireq[q].pc \in {"mail", "read", "flush", "detach"} =>
               \A o \in ireq[q].orders : order[o].invoice = ireq[q].iid

\* A billed order knows its invoice, or is about to.
Links ==
    \A i \in InvoiceIds, o \in OrderIds : Bills(i, o) =>
        \/ order[o].invoice = i
        \/ \E q \in InvoiceRequests : /\ ireq[q].pc = "attach" /\ ireq[q].iid = i
                                      /\ o \in ireq[q].orders

SalesInv ==
    /\ Shapes /\ Alone /\ Creators /\ Cancellers /\ Billers /\ Updaters /\ Links
    /\ BilledOrdersStand

-----------------------------------------------------------------------------
(* Steps of the order service *)

\* A handler that reads, moves stock or ends, and writes no order.
LEMMA HandlerKeeps ==
  ASSUME SalesInv, ~Meet, Apart', UNCHANGED <<order, invoiceSide>>,
         NEW r \in OrderRequests, NEW h, HandlerShape(h),
         req' = [req EXCEPT ![r] = h],
         h.oid \in OrderIds => \A s \in OrderRequests \ {r} : req[s].oid # h.oid,
         h.pc \in {"reserve", "release", "persist"} => order[h.oid].status = "absent",
         h.pc \in {"restore", "saveStatus"} /\ h.target = "cancelled" =>
             \A i \in InvoiceIds : ~Bills(i, h.oid)
  PROVE  SalesInv'
<1>. USE DEF SalesInv, invoiceSide
<1>1. /\ \A s \in OrderRequests : req'[s] = IF s = r THEN h ELSE req[s]
      /\ req' = [s \in OrderRequests |-> req'[s]]
  BY DEF Shapes
<1>2. Shapes'
  BY <1>1 DEF Shapes
<1>3. Alone'
  <2>1. \A s \in OrderRequests, q \in InvoiceRequests : req'[s].oid \notin ireq'[q].orders
    <3>1. \A s \in OrderRequests, q \in InvoiceRequests, o \in OrderIds :
             ~(req'[s].oid = o /\ o \in ireq'[q].orders)
      BY DEF Apart
    <3>2. \A q \in InvoiceRequests : ireq'[q].orders \subseteq OrderIds
      BY DEF Shapes, RequestShape
    <3>. QED
      BY <3>1, <3>2
  <2>. QED
    BY <1>1, <2>1 DEF Alone
<1>4. \A i \in InvoiceIds : \A o : Bills(i, o)' <=> Bills(i, o)
  BY DEF Bills, I!Standing
<1>5. Creators' /\ Cancellers'
  BY <1>1, <1>4 DEF Creators, Cancellers
<1>6. Billers' /\ Updaters'
  BY DEF Billers, Updaters, Live, I!Standing, I!Existing
<1>7. Links' /\ BilledOrdersStand'
  BY <1>4 DEF Links, BilledOrdersStand, I!Standing
<1>. QED
  BY <1>2, <1>3, <1>5, <1>6, <1>7

\* A handler that ends.
LEMMA FinishKeeps ==
  ASSUME SalesInv, ~Meet, Apart', UNCHANGED <<order, invoiceSide>>,
         NEW r \in OrderRequests, O!Finish(r)
  PROVE  SalesInv'
<1>1. HandlerShape(O!Idle) /\ O!Idle.oid = NoOrder /\ O!Idle.pc = "idle"
  BY DEF O!Idle, HandlerShape, O!OrderStatus
<1>. QED
  BY <1>1, HandlerKeeps, SalesAssumption DEF O!Finish

\* A handler goes on with the same order, at a step of the same part of its work.
LEMMA GoesOnKeeps ==
  ASSUME SalesInv, ~Meet, Apart', UNCHANGED <<order, invoiceSide>>,
         NEW r \in OrderRequests, NEW h, req' = [req EXCEPT ![r] = h],
         h = [pc |-> h.pc, oid |-> req[r].oid, target |-> req[r].target,
              cart |-> h.cart, items |-> h.items, old |-> h.old,
              moves |-> h.moves, done |-> h.done],
         req[r].pc # "idle", h.pc # "idle",
         h.pc \in {"reserve", "release", "persist"} =>
             \/ req[r].pc \in {"reserve", "release", "persist"}
             \/ O!Creating(req[r]),
         h.pc \in {"restore", "saveStatus"} => req[r].pc \in {"restore", "saveStatus"}
  PROVE  SalesInv'
<1>1. HandlerShape(req[r])
  BY DEF SalesInv, Shapes
<1>2. h.oid = req[r].oid /\ h.target = req[r].target
  OBVIOUS
<1>3. HandlerShape(h)
  BY <1>1, <1>2 DEF HandlerShape
<1>4. \A s \in OrderRequests \ {r} : req[s].oid # h.oid
  BY <1>1, <1>2 DEF HandlerShape, SalesInv, Alone
<1>5. h.pc \in {"reserve", "release", "persist"} => order[h.oid].status = "absent"
  BY <1>2 DEF SalesInv, Creators, O!Creating
<1>6. h.pc \in {"restore", "saveStatus"} /\ h.target = "cancelled" =>
          \A i \in InvoiceIds : ~Bills(i, h.oid)
  BY <1>2 DEF SalesInv, Cancellers
<1>. HIDE DEF SalesInv
<1>. QED
  BY <1>3, <1>4, <1>5, <1>6, HandlerKeeps

\* A handler that writes its order and ends.
LEMMA WriteKeeps ==
  ASSUME SalesInv, ~Meet, Apart', UNCHANGED invoiceSide,
         NEW r \in OrderRequests, O!Finish(r), req[r].pc # "idle",
         NEW w, OrderShape(w), order' = [order EXCEPT ![req[r].oid] = w],
         \/ w.status \in {"pending", "completed"}
         \/ w.status = order[req[r].oid].status
         \/ \A i \in InvoiceIds : ~Bills(i, req[r].oid),
         \/ w.invoice = order[req[r].oid].invoice
         \/ order[req[r].oid].status = "absent"
  PROVE  SalesInv'
<1>. USE DEF SalesInv, invoiceSide
<1>. DEFINE o0 == req[r].oid
<1>1. o0 \in OrderIds
  BY DEF Shapes, HandlerShape
<1>2. /\ \A s \in OrderRequests : req'[s] = IF s = r THEN O!Idle ELSE req[s]
      /\ req' = [s \in OrderRequests |-> req'[s]]
      /\ O!Idle.pc = "idle" /\ O!Idle.oid = NoOrder /\ HandlerShape(O!Idle)
  BY DEF Shapes, O!Finish, O!Idle, HandlerShape, O!OrderStatus
<1>3. /\ \A o \in OrderIds : order'[o] = IF o = o0 THEN w ELSE order[o]
      /\ order' = [o \in OrderIds |-> order'[o]]
  BY <1>1 DEF Shapes
<1>. HIDE DEF o0
<1>4. Shapes'
  BY <1>2, <1>3 DEF Shapes
<1>5. Alone'
  <2>1. \A q \in InvoiceRequests : ireq[q].orders \subseteq OrderIds
    BY DEF Shapes, RequestShape
  <2>. QED
    BY <1>2, <2>1, SalesAssumption DEF Alone
<1>6. \A i \in InvoiceIds : \A o : Bills(i, o)' <=> Bills(i, o)
  BY DEF Bills, I!Standing
<1>7. /\ Creators'
      /\ Cancellers'
  <2>1. \A s \in OrderRequests \ {r} : req[s].pc # "idle" =>
            req[s].oid \in OrderIds /\ req[s].oid # o0
    BY <1>1 DEF Alone, Shapes, HandlerShape, o0
  <2>. QED
    BY <1>2, <1>3, <1>6, <2>1 DEF Creators, Cancellers
<1>8. \A q \in InvoiceRequests : \A o \in ireq[q].orders : order'[o] = order[o]
  BY <1>3 DEF Alone, Shapes, RequestShape, o0
<1>9. Billers' /\ Updaters'
  BY <1>8 DEF Billers, Updaters, Live, I!Standing, I!Existing
<1>10. \A i \in InvoiceIds, o \in OrderIds : Bills(i, o) =>
           order'[o].invoice = order[o].invoice
  <2>1. \A i \in InvoiceIds, o \in OrderIds : Bills(i, o) =>
            order[o].status # "absent"
    BY DEF BilledOrdersStand, Bills
  <2>. QED
    BY <1>3, <2>1 DEF o0
<1>11. Links'
  BY <1>6, <1>10 DEF Links
<1>12. BilledOrdersStand'
  <2>1. \A i \in InvoiceIds, o \in OrderIds : Bills(i, o) =>
            order'[o].status \in {"pending", "completed"}
    BY <1>1, <1>3 DEF BilledOrdersStand, Bills, o0
  <2>2. \A i \in InvoiceIds : invoice[i].orders \subseteq OrderIds
    BY DEF Shapes, InvoiceShape
  <2>. QED
    BY <2>1, <2>2 DEF BilledOrdersStand, Bills, I!Standing
<1>. QED
  BY <1>4, <1>5, <1>7, <1>9, <1>11, <1>12

\* A handler with given local variables, in the form the provers find it in.
At(pc, oid, target, cart, items, old, moves, done) ==
    [pc : {pc}, oid : {oid}, target : {target}, cart : {cart}, items : {items},
     old : {old}, moves : {moves}, done : {done}]

LEMMA AtFields ==
  \A h, pc, oid, target, cart, items, old, moves, done :
      h \in At(pc, oid, target, cart, items, old, moves, done) =>
          /\ h = [pc |-> pc, oid |-> oid, target |-> target, cart |-> cart,
                  items |-> items, old |-> old, moves |-> moves, done |-> done]
          /\ h.pc = pc /\ h.oid = oid /\ h.target = target
          /\ h.cart = cart /\ h.items = items /\ h.old = old
          /\ h.moves = moves /\ h.done = done
BY DEF At

\* The handlers that start, go on and end do so as the lemmas above say.
LEMMA BeginOrderKeeps ==
  ASSUME SalesInv, ~Meet, ~Overlap, Apart', UNCHANGED invoiceSide,
         NEW r \in OrderRequests, O!Begin(r)
  PROVE  SalesInv'
<1>1. ASSUME NEW o \in OrderIds, NEW pc, NEW target \in O!OrderStatus, NEW cart,
             NEW old, NEW moves, NEW h \in At(pc, o, target, cart, O!NoItems, old, moves, {}),
             pc # "idle"
      PROVE  HandlerShape(h) /\ h.oid = o /\ h.pc = pc /\ h.target = target
  BY <1>1, AtFields DEF HandlerShape
<1>2. CASE O!CreateOrder(r) \/ O!EditOrder(r)
  <2>1. PICK o \in OrderIds :
            /\ \A s \in OrderRequests : req[s].oid # o
            /\ \E cart, old :
                  \E h \in At("build", o, "pending", cart, O!NoItems, old, <<>>, {}) :
                      req' = [req EXCEPT ![r] = h]
            /\ UNCHANGED order
    <3>1. CASE O!CreateOrder(r)
      <4>1. PICK o \in OrderIds, cart \in Carts :
                /\ \A s \in OrderRequests : req[s].oid # o
                /\ req' = [req EXCEPT ![r] =
                              [O!Idle EXCEPT !.pc = "build", !.oid = o, !.cart = cart]]
                /\ UNCHANGED order
        BY <3>1 DEF O!CreateOrder
      <4>2. [O!Idle EXCEPT !.pc = "build", !.oid = o, !.cart = cart]
                \in At("build", o, "pending", cart, O!NoItems, O!NoItems, <<>>, {})
        BY DEF O!Idle, At
      <4>. QED
        BY <4>1, <4>2
    <3>2. CASE O!EditOrder(r)
      <4>1. PICK o \in OrderIds, cart \in Carts :
                /\ O!Free(o)
                /\ req' = [req EXCEPT ![r] =
                              [O!Idle EXCEPT !.pc = "build", !.oid = o, !.cart = cart,
                                             !.old = order[o].items]]
                /\ UNCHANGED order
        BY <3>2 DEF O!EditOrder
      <4>2. [O!Idle EXCEPT !.pc = "build", !.oid = o, !.cart = cart,
                           !.old = order[o].items]
                \in At("build", o, "pending", cart, O!NoItems, order[o].items, <<>>, {})
        BY DEF O!Idle, At
      <4>3. \A s \in OrderRequests : req[s].oid # o
        BY <4>1 DEF O!Free
      <4>. QED
        BY <4>1, <4>2, <4>3
    <3>. QED
      BY <1>2, <3>1, <3>2
  <2>2. PICK cart, old :
            \E h \in At("build", o, "pending", cart, O!NoItems, old, <<>>, {}) :
                req' = [req EXCEPT ![r] = h]
    BY <2>1
  <2>3. PICK h \in At("build", o, "pending", cart, O!NoItems, old, <<>>, {}) :
            req' = [req EXCEPT ![r] = h]
    BY <2>2
  <2>4. HandlerShape(h) /\ h.oid = o /\ h.pc = "build"
    BY <1>1 DEF O!OrderStatus
  <2>. QED
    BY <2>1, <2>3, <2>4, HandlerKeeps
<1>3. ASSUME NEW target \in {"completed", "cancelled"}, O!UpdateStatus(r, target)
      PROVE  SalesInv'
  <2>1. PICK o \in OrderIds :
            /\ O!Free(o)
            /\ target = "cancelled" => order[o].invoice = NoInvoice
            /\ LET q == [O!Idle EXCEPT !.oid = o, !.target = target,
                                       !.old = order[o].items]
                   moves == IF target = "cancelled" THEN O!Restore(q.old) ELSE <<>>
               IN  req' = [req EXCEPT ![r] = O!Plan(q, moves, "restore", "saveStatus")]
            /\ UNCHANGED order
    BY <1>3 DEF O!UpdateStatus
  <2>2. \E pc \in {"restore", "saveStatus"} : \E moves :
            \E h \in At(pc, o, target, <<>>, O!NoItems, order[o].items, moves, {}) :
                req' = [req EXCEPT ![r] = h]
    <3>. DEFINE q == [O!Idle EXCEPT !.oid = o, !.target = target,
                                    !.old = order[o].items]
                moves == IF target = "cancelled" THEN O!Restore(q.old) ELSE <<>>
                pc == IF O!ToMake(moves) = {} THEN "saveStatus" ELSE "restore"
    <3>1. req' = [req EXCEPT ![r] = [q EXCEPT !.moves = moves, !.done = {}, !.pc = pc]]
      BY <2>1 DEF O!Plan
    <3>. HIDE DEF moves, pc
    <3>2. [q EXCEPT !.moves = moves, !.done = {}, !.pc = pc]
             \in At(pc, o, target, <<>>, O!NoItems, order[o].items, moves, {})
      BY DEF O!Idle, At
    <3>3. pc \in {"restore", "saveStatus"}
      BY DEF pc
    <3>. QED
      BY <3>1, <3>2, <3>3
  <2>3. PICK pc \in {"restore", "saveStatus"} :
            \E moves : \E h \in At(pc, o, target, <<>>, O!NoItems, order[o].items, moves, {}) :
                req' = [req EXCEPT ![r] = h]
    BY <2>2
  <2>4. PICK moves : \E h \in At(pc, o, target, <<>>, O!NoItems, order[o].items, moves, {}) :
                         req' = [req EXCEPT ![r] = h]
    BY <2>3
  <2>5. PICK h \in At(pc, o, target, <<>>, O!NoItems, order[o].items, moves, {}) :
            req' = [req EXCEPT ![r] = h]
    BY <2>4
  <2>6. HandlerShape(h) /\ h.oid = o /\ h.pc = pc /\ h.target = target
    <3>1. target \in O!OrderStatus /\ pc # "idle"
      BY DEF O!OrderStatus
    <3>. QED
      BY <1>1, <2>5, <3>1
  <2>7. \A s \in OrderRequests : req[s].oid # o
    BY <2>1 DEF O!Free
  <2>8. target = "cancelled" => \A i \in InvoiceIds : ~Bills(i, o)
    <3>1. \A q \in InvoiceRequests : o \notin ireq[q].orders
      <4>1. req'[r].oid = o
        BY <2>5, <2>6 DEF SalesInv, Shapes
      <4>. QED
        BY <4>1 DEF Apart, invoiceSide
    <3>. QED
      BY <2>1, <3>1, SalesAssumption DEF SalesInv, Links
  <2>. QED
    BY <2>1, <2>5, <2>6, <2>7, <2>8, HandlerKeeps
<1>. QED
  BY <1>2, <1>3 DEF O!Begin, O!CompleteOrder, O!CancelOrder

LEMMA MoveOrderKeeps ==
  ASSUME SalesInv, ~Meet, Apart', UNCHANGED invoiceSide, NEW r \in OrderRequests,
         \/ O!BuildLine(r) \/ O!ReserveLine(r) \/ O!ReleaseLine(r)
         \/ O!ReconcileLine(r) \/ O!RollbackLine(r) \/ O!RestoreLine(r)
  PROVE  SalesInv'
<1>. DEFINE With(pc, cart, items, moves, done) ==
              At(pc, req[r].oid, req[r].target, cart, items, req[r].old, moves, done)
<1>0. /\ HandlerShape(req[r])
      /\ req = [s \in OrderRequests |-> req[s]]
  BY DEF SalesInv, Shapes
<1>1. ASSUME NEW pc, NEW cart, NEW items, NEW moves, NEW done,
             NEW h \in With(pc, cart, items, moves, done),
             req' = [req EXCEPT ![r] = h],
             UNCHANGED order, req[r].pc # "idle", pc # "idle",
             pc \in {"reserve", "release", "persist"} =>
                 \/ req[r].pc \in {"reserve", "release", "persist"}
                 \/ O!Creating(req[r]),
             pc \in {"restore", "saveStatus"} => req[r].pc \in {"restore", "saveStatus"}
      PROVE  SalesInv'
  <2>1. /\ h = [pc |-> h.pc, oid |-> req[r].oid, target |-> req[r].target,
                cart |-> h.cart, items |-> h.items, old |-> h.old,
                moves |-> h.moves, done |-> h.done]
        /\ h.pc = pc
    BY AtFields
  <2>. QED
    BY <1>1, <2>1, GoesOnKeeps
<1>2. ASSUME NEW i, NEW next, O!Progress(r, i, next), UNCHANGED order,
             req[r].pc # "idle", next # "idle",
             next \in {"reserve", "release", "persist"} =>
                 req[r].pc \in {"reserve", "release", "persist"},
             next \in {"restore", "saveStatus"} => req[r].pc \in {"restore", "saveStatus"}
      PROVE  SalesInv'
  <2>. DEFINE done == req[r].done \cup {i}
              pc == IF O!Left(r) = {i} THEN next ELSE req[r].pc
              h == [req[r] EXCEPT !.done = done, !.pc = pc]
  <2>1. req' = [req EXCEPT ![r] = h]
    BY <1>0, <1>2 DEF O!Progress
  <2>. HIDE DEF done, pc
  <2>2. h \in With(pc, req[r].cart, req[r].items, req[r].moves, done)
    BY <1>0 DEF HandlerShape, At
  <2>3. pc \in {next, req[r].pc}
    BY DEF pc
  <2>. HIDE DEF h, With
  <2>. QED
    BY <1>1, <1>2, <2>1, <2>2, <2>3
<1>3. ASSUME NEW step, O!Abort(r, step), UNCHANGED order, req[r].pc # "idle",
             step # "idle", step \notin {"restore", "saveStatus"},
             step \in {"reserve", "release", "persist"} =>
                 req[r].pc \in {"reserve", "release", "persist"}
      PROVE  SalesInv'
  <2>1. CASE req[r].done = {}
    BY <1>3, <2>1, FinishKeeps DEF O!Abort, O!Finish
  <2>2. CASE req[r].done # {}
    <3>. DEFINE h == [req[r] EXCEPT !.pc = step]
    <3>1. req' = [req EXCEPT ![r] = h]
      BY <1>0, <1>3, <2>2 DEF O!Abort
    <3>2. h \in With(step, req[r].cart, req[r].items, req[r].moves, req[r].done)
      BY <1>0 DEF HandlerShape, At
    <3>. HIDE DEF h, With
    <3>. QED
      BY <1>1, <1>3, <3>1, <3>2
  <2>. QED
    BY <2>1, <2>2
<1>4. ASSUME NEW i, O!Regress(r, i), UNCHANGED order,
             req[r].pc \in {"release", "rollback"}
      PROVE  SalesInv'
  <2>. DEFINE undone == req[r].done \ {i}
  <2>1. CASE undone = {}
    BY <1>4, <2>1, FinishKeeps DEF O!Regress, O!Finish
  <2>2. CASE undone # {}
    <3>. DEFINE h == [req[r] EXCEPT !.done = undone]
    <3>1. req' = [req EXCEPT ![r] = h]
      BY <1>0, <1>4, <2>2 DEF O!Regress
    <3>. HIDE DEF undone
    <3>2. h \in With(req[r].pc, req[r].cart, req[r].items, req[r].moves, undone)
      BY <1>0 DEF HandlerShape, At
    <3>. HIDE DEF h, With
    <3>. QED
      BY <1>1, <1>4, <3>1, <3>2
  <2>. QED
    BY <2>1, <2>2
<1>5. CASE O!BuildLine(r)
  <2>. DEFINE built == O!PushLine(req[r])
  <2>1. req[r].pc = "build" /\ UNCHANGED order
    BY <1>5 DEF O!BuildLine
  <2>2. PICK cart, items :
            built \in With("build", cart, items, req[r].moves, req[r].done)
    <3>. DEFINE line == Head(req[r].cart)
                items == O!Push(req[r].items, line.res, O!BaseUnits(line))
                cart == Tail(req[r].cart)
    <3>1. built = [req[r] EXCEPT !.items = items, !.cart = cart]
      BY DEF O!PushLine
    <3>. HIDE DEF items, cart, built
    <3>2. built \in With("build", cart, items, req[r].moves, req[r].done)
      BY <1>0, <2>1, <3>1 DEF HandlerShape, At
    <3>. QED
      BY <3>2
  <2>. HIDE DEF built
  <2>3. \A moves, step, next : \E pc \in {step, next} :
            O!Plan(built, moves, step, next) \in With(pc, cart, items, moves, {})
    <3>. SUFFICES ASSUME NEW moves, NEW step, NEW next
                  PROVE  \E pc \in {step, next} :
                           O!Plan(built, moves, step, next) \in With(pc, cart, items, moves, {})
      OBVIOUS
    <3>. DEFINE pc == IF O!ToMake(moves) = {} THEN next ELSE step
    <3>1. O!Plan(built, moves, step, next)
             = [built EXCEPT !.moves = moves, !.done = {}, !.pc = pc]
      BY DEF O!Plan
    <3>. HIDE DEF pc
    <3>2. [built EXCEPT !.moves = moves, !.done = {}, !.pc = pc]
             \in With(pc, cart, items, moves, {})
      BY <2>2 DEF At
    <3>3. pc \in {step, next}
      BY DEF pc
    <3>. QED
      BY <3>1, <3>2, <3>3
  <2>4. CASE O!Finish(r)
    BY <2>1, <2>4, FinishKeeps
  <2>5. CASE req' = [req EXCEPT ![r] = built]
    <3>. HIDE DEF With
    <3>. QED
      BY <1>1, <2>1, <2>2, <2>5
  <2>6. CASE /\ O!Creating(req[r])
             /\ req' = [req EXCEPT ![r] =
                           O!Plan(built, O!Reserve(built.items), "reserve", "persist")]
    <3>. DEFINE h == O!Plan(built, O!Reserve(built.items), "reserve", "persist")
    <3>1. PICK pc \in {"reserve", "persist"} :
              h \in With(pc, cart, items, O!Reserve(built.items), {})
      BY <2>3
    <3>2. req' = [req EXCEPT ![r] = h]
      BY <2>6
    <3>. HIDE DEF h, With
    <3>. QED
      BY <1>1, <2>1, <2>6, <3>1, <3>2
  <2>7. CASE req' = [req EXCEPT ![r] =
                        O!Plan(built, O!Reconcile(req[r].old, built.items),
                               "reconcile", "saveItems")]
    <3>. DEFINE h == O!Plan(built, O!Reconcile(req[r].old, built.items),
                            "reconcile", "saveItems")
    <3>1. PICK pc \in {"reconcile", "saveItems"} :
              h \in With(pc, cart, items, O!Reconcile(req[r].old, built.items), {})
      BY <2>3
    <3>2. req' = [req EXCEPT ![r] = h]
      BY <2>7
    <3>. HIDE DEF h, With
    <3>. QED
      BY <1>1, <2>1, <3>1, <3>2
  <2>. QED
    BY <1>5, <2>4, <2>5, <2>6, <2>7 DEF O!BuildLine, built
<1>6. CASE O!ReserveLine(r)
  BY <1>2, <1>3, <1>6 DEF O!ReserveLine
<1>7. CASE O!ReleaseLine(r)
  BY <1>4, <1>7 DEF O!ReleaseLine
<1>8. CASE O!ReconcileLine(r)
  BY <1>2, <1>3, <1>8 DEF O!ReconcileLine
<1>9. CASE O!RollbackLine(r)
  BY <1>4, <1>9 DEF O!RollbackLine
<1>10. CASE O!RestoreLine(r)
  BY <1>2, <1>10 DEF O!RestoreLine
<1>. QED
  BY <1>5, <1>6, <1>7, <1>8, <1>9, <1>10

LEMMA SaveOrderKeeps ==
  ASSUME SalesInv, ~Meet, Apart', UNCHANGED invoiceSide, NEW r \in OrderRequests,
         O!PersistOrder(r) \/ O!SaveItems(r) \/ O!SaveStatus(r)
  PROVE  SalesInv'
<1>. DEFINE o0 == req[r].oid
            row == order[o0]
<1>0. /\ HandlerShape(req[r]) /\ o0 \in (IF req[r].pc = "idle" THEN {NoOrder} ELSE OrderIds)
      /\ \A o \in OrderIds : OrderShape(order[o])
      /\ order = [o \in OrderIds |-> order[o]]
  BY DEF SalesInv, Shapes, HandlerShape
<1>1. ASSUME NEW step, O!Abort(r, step), UNCHANGED order, req[r].pc # "idle",
             step \in {"release", "rollback"},
             step = "release" => req[r].pc = "persist"
      PROVE  SalesInv'
  <2>1. CASE req[r].done = {}
    BY <1>1, <2>1, FinishKeeps DEF O!Abort, O!Finish
  <2>2. CASE req[r].done # {}
    <3>. DEFINE h == [req[r] EXCEPT !.pc = step]
    <3>1. req' = [req EXCEPT ![r] = h]
      BY <1>1, <2>2 DEF O!Abort, SalesInv, Shapes
    <3>. HIDE DEF h
    <3>2. h \in At(step, req[r].oid, req[r].target, req[r].cart, req[r].items,
                   req[r].old, req[r].moves, req[r].done)
      BY <1>0 DEF HandlerShape, At, h
    <3>3. /\ h = [pc |-> h.pc, oid |-> req[r].oid, target |-> req[r].target,
                  cart |-> h.cart, items |-> h.items, old |-> h.old,
                  moves |-> h.moves, done |-> h.done]
          /\ h.pc = step
      BY <3>2, AtFields
    <3>. QED
      BY <1>1, <3>1, <3>3, GoesOnKeeps
  <2>. QED
    BY <2>1, <2>2
<1>2. CASE O!PersistOrder(r)
  <2>1. req[r].pc = "persist"
    BY <1>2 DEF O!PersistOrder
  <2>2. CASE O!Abort(r, "release") /\ UNCHANGED order
    BY <1>1, <2>1, <2>2
  <2>3. CASE O!Finish(r) /\ ~UNCHANGED order
    <3>. DEFINE w == [status |-> "pending", items |-> req[r].items, invoice |-> NoInvoice]
    <3>1. order' = [order EXCEPT ![req[r].oid] = w]
      BY <1>2, <2>3 DEF O!PersistOrder
    <3>2. OrderShape(w) /\ w.status = "pending"
      BY DEF OrderShape
    <3>3. order[req[r].oid].status = "absent"
      BY <2>1 DEF SalesInv, Creators
    <3>. HIDE DEF w
    <3>. QED
      BY <2>1, <2>3, <3>1, <3>2, <3>3, WriteKeeps
  <2>4. CASE O!Finish(r) /\ UNCHANGED order
    BY <2>4, FinishKeeps
  <2>. QED
    BY <1>2, <2>2, <2>3, <2>4 DEF O!PersistOrder
<1>3. CASE O!SaveItems(r)
  <2>1. req[r].pc = "saveItems"
    BY <1>3 DEF O!SaveItems
  <2>2. CASE O!Abort(r, "rollback") /\ UNCHANGED order
    BY <1>1, <2>1, <2>2
  <2>3. CASE /\ O!Finish(r)
             /\ order' = [order EXCEPT ![req[r].oid].items = req[r].items]
    <3>. DEFINE w == [row EXCEPT !.items = req[r].items]
    <3>1. order' = [order EXCEPT ![req[r].oid] = w]
      BY <2>3, <1>0
    <3>2. w = [status |-> row.status, items |-> req[r].items, invoice |-> row.invoice]
      BY <1>0, <2>1 DEF OrderShape
    <3>3. OrderShape(w) /\ w.status = row.status /\ w.invoice = row.invoice
      BY <3>2 DEF OrderShape
    <3>. HIDE DEF w
    <3>. QED
      BY <2>1, <2>3, <3>1, <3>3, WriteKeeps
  <2>. QED
    BY <1>3, <2>2, <2>3 DEF O!SaveItems
<1>4. CASE O!SaveStatus(r)
  <2>1. /\ req[r].pc = "saveStatus" /\ O!Finish(r)
        /\ order' = [order EXCEPT ![req[r].oid].status = req[r].target]
    BY <1>4 DEF O!SaveStatus
  <2>. DEFINE w == [row EXCEPT !.status = req[r].target]
  <2>2. order' = [order EXCEPT ![req[r].oid] = w]
    BY <2>1, <1>0
  <2>3. w = [status |-> req[r].target, items |-> row.items, invoice |-> row.invoice]
    BY <1>0, <2>1 DEF OrderShape
  <2>4. OrderShape(w) /\ w.status = req[r].target /\ w.invoice = row.invoice
    BY <2>3 DEF OrderShape
  <2>5. \/ w.status \in {"pending", "completed"}
        \/ \A i \in InvoiceIds : ~Bills(i, req[r].oid)
    BY <1>0, <2>1, <2>4 DEF SalesInv, Cancellers, HandlerShape, O!OrderStatus
  <2>. HIDE DEF w
  <2>. QED
    BY <2>1, <2>2, <2>4, <2>5, WriteKeeps
<1>. QED
  BY <1>2, <1>3, <1>4

LEMMA OrderSideKeeps == ~Meet /\ ~Overlap /\ SalesInv /\ OrderSide /\ Apart' => SalesInv'
<1>. SUFFICES ASSUME ~Meet, ~Overlap, SalesInv, OrderSide, Apart'
              PROVE  SalesInv'
  OBVIOUS
<1>1. UNCHANGED invoiceSide
  BY DEF OrderSide
<1>2. ASSUME UNCHANGED <<order, req>>
      PROVE  SalesInv'
  <2>1. order' = order /\ req' = req /\ invoice' = invoice /\ ireq' = ireq
    BY <1>1, <1>2 DEF invoiceSide
  <2>2. /\ \A i : (I!Standing(i) <=> I!Standing(i)') /\ (I!Existing(i) <=> I!Existing(i)')
        /\ \A i, o : Bills(i, o) <=> Bills(i, o)'
        /\ \A o : Live(o) <=> Live(o)'
    BY <2>1 DEF Bills, Live, I!Standing, I!Existing
  <2>3. Shapes' /\ Alone' /\ Creators'
    BY <2>1 DEF SalesInv, Shapes, Alone, Creators
  <2>4. Cancellers' /\ Links'
    BY <2>1, <2>2 DEF SalesInv, Cancellers, Links
  <2>5. Billers'
    BY <2>1, <2>2 DEF SalesInv, Billers
  <2>6. Updaters'
    BY <2>1, <2>2 DEF SalesInv, Updaters
  <2>7. BilledOrdersStand
    BY DEF SalesInv
  <2>8. BilledOrdersStand'
    BY <2>1, <2>2, <2>7 DEF BilledOrdersStand
  <2>. QED
    BY <2>3, <2>4, <2>5, <2>6, <2>8 DEF SalesInv
<1>3. CASE O!ResourceStep
  BY <1>2, <1>3 DEF O!ResourceStep, O!CreateResource, O!DeleteResource,
     O!UpdateResource, O!AdjustStock
<1>4. CASE O!OrderStep
  <2>1. PICK r \in OrderRequests : O!Begin(r) \/ O!Continue(r) \/ O!Crash(r)
    BY <1>4 DEF O!OrderStep
  <2>2. ~O!Crash(r)
    BY DEF O!Crash
  <2>. QED
    BY <1>1, <2>1, <2>2, BeginOrderKeeps, MoveOrderKeeps, SaveOrderKeeps DEF O!Continue
<1>. QED
  BY <1>3, <1>4 DEF OrderSide

-----------------------------------------------------------------------------
(* Steps of the invoice service *)

\* A request with given local variables, in the form the provers find it in.
Doing(pc, op, iid, orders, status, paid, amount, base) ==
    [pc : {pc}, op : {op}, iid : {iid}, orders : {orders}, status : {status},
     paid : {paid}, amount : {amount}, base : {base}]

LEMMA DoingFields ==
  \A h, pc, op, iid, orders, status, paid, amount, base :
      h \in Doing(pc, op, iid, orders, status, paid, amount, base) =>
          /\ h = [pc |-> pc, op |-> op, iid |-> iid, orders |-> orders,
                  status |-> status, paid |-> paid, amount |-> amount, base |-> base]
          /\ h.pc = pc /\ h.op = op /\ h.iid = iid /\ h.orders = orders
          /\ h.status = status /\ h.paid = paid /\ h.amount = amount /\ h.base = base
BY DEF Doing

\* What a request that waits at a step knows of its invoice and of its orders.
Knows(h) ==
    /\ h.pc \in {"attach", "detach"} => I!Existing(h.iid)
    /\ h.pc \in {"mail", "read", "flush"} => I!Standing(h.iid)
    /\ h.pc = "flush" => h.base.status # "cancelled"
    /\ h.pc = "detach" => ~I!Standing(h.iid)
    /\ h.pc \in {"mail", "read", "flush", "detach"} =>
           \A o \in h.orders : order[o].invoice = h.iid

\* A request that reads or sends, and writes no row.
LEMMA RequestKeeps ==
  ASSUME SalesInv, ~Meet, Apart', UNCHANGED <<order, invoice, orderSide>>,
         NEW q \in InvoiceRequests, NEW h, RequestShape(h),
         ireq' = [ireq EXCEPT ![q] = h], ireq[q].pc # "attach",
         h.iid \in InvoiceIds => \A s \in InvoiceRequests \ {q} : ireq[s].iid # h.iid,
         h.pc \in {"insert", "attach"} =>
             \A o \in h.orders :
                 /\ Live(o) /\ order[o].invoice = NoInvoice
                 /\ \A s \in InvoiceRequests \ {q} : o \notin ireq[s].orders,
         \A s \in InvoiceRequests \ {q} :
             ireq[s].pc \in {"insert", "attach"} => \A o \in ireq[s].orders : o \notin h.orders,
         Knows(h)
  PROVE  SalesInv'
<1>. USE DEF SalesInv, orderSide
<1>1. /\ \A s \in InvoiceRequests : ireq'[s] = IF s = q THEN h ELSE ireq[s]
      /\ ireq' = [s \in InvoiceRequests |-> ireq'[s]]
  BY DEF Shapes
<1>2. Shapes'
  BY <1>1 DEF Shapes
<1>3. Alone'
  <2>1. \A r \in OrderRequests, s \in InvoiceRequests : req'[r].oid \notin ireq'[s].orders
    <3>1. \A r \in OrderRequests, s \in InvoiceRequests, o \in OrderIds :
             ~(req'[r].oid = o /\ o \in ireq'[s].orders)
      BY DEF Apart
    <3>2. \A s \in InvoiceRequests : ireq'[s].orders \subseteq OrderIds
      BY <1>2 DEF Shapes, RequestShape
    <3>. QED
      BY <3>1, <3>2
  <2>. QED
    BY <1>1, <2>1 DEF Alone
<1>4. \A i \in InvoiceIds : \A o : Bills(i, o)' <=> Bills(i, o)
  BY DEF Bills, I!Standing
<1>5. Creators' /\ Cancellers'
  BY <1>4 DEF Creators, Cancellers
<1>6. Billers'
  BY <1>1 DEF Billers, Live
<1>7. Updaters'
  BY <1>1 DEF Updaters, Knows, I!Standing, I!Existing
<1>8. Links'
  BY <1>1, <1>4 DEF Links
<1>9. BilledOrdersStand'
  BY DEF BilledOrdersStand, I!Standing
<1>. QED
  BY <1>2, <1>3, <1>5, <1>6, <1>7, <1>8, <1>9

LEMMA CreateInvoiceKeeps ==
  ASSUME SalesInv, ~Meet, ~Overlap, Apart', UNCHANGED orderSide,
         NEW q \in InvoiceRequests, I!CreateInvoice(q)
  PROVE  SalesInv'
<1>1. PICK os \in SUBSET OrderIds :
          /\ I!FreeOrders(os)
          /\ \A o \in os : I!Billable(o)
          /\ ireq' = [ireq EXCEPT ![q] = [I!Waiting EXCEPT !.pc = "insert",
                                                           !.op = "create",
                                                           !.orders = os]]
  BY DEF I!CreateInvoice
<1>. DEFINE h == [I!Waiting EXCEPT !.pc = "insert", !.op = "create", !.orders = os]
<1>2. h \in Doing("insert", "create", NoInvoice, os, "draft", 0, 0,
                  [status |-> "draft", paid |-> 0])
  BY DEF I!Waiting, Doing
<1>3. ireq' = [ireq EXCEPT ![q] = h]
  BY <1>1
<1>. HIDE DEF h
<1>4. RequestShape(h) /\ h.pc = "insert" /\ h.orders = os /\ h.iid = NoInvoice
  BY <1>2, DoingFields DEF RequestShape, I!InvoiceSteps
<1>5. \A o \in os : /\ Live(o) /\ order[o].invoice = NoInvoice
                    /\ \A s \in InvoiceRequests : o \notin ireq[s].orders
  BY <1>1 DEF I!FreeOrders, I!Billable, Live
<1>6. Knows(h)
  BY <1>4 DEF Knows
<1>7. ireq[q].pc # "attach" /\ UNCHANGED <<order, invoice, orderSide>>
  BY DEF I!CreateInvoice
<1>. QED
  BY <1>3, <1>4, <1>5, <1>6, <1>7, SalesAssumption, RequestKeeps

\* The three requests that begin with reading an invoice.
LEMMA UpdateRequestKeeps ==
  ASSUME SalesInv, ~Meet, ~Overlap, Apart', UNCHANGED orderSide,
         NEW q \in InvoiceRequests,
         I!RecordPayment(q) \/ I!SendInvoice(q) \/ I!UpdateInvoiceStatus(q)
  PROVE  SalesInv'
<1>0. ireq[q].pc # "attach" /\ UNCHANGED <<order, invoice, orderSide>>
  BY DEF I!RecordPayment, I!SendInvoice, I!UpdateInvoiceStatus
<1>1. ASSUME NEW i \in InvoiceIds, I!FreeInvoice(i), I!Standing(i),
             NEW pc \in {"mail", "read"}, NEW op, NEW status,
             NEW orders \in {{}, invoice[i].orders}, NEW paid, NEW amount, NEW base,
             NEW h \in Doing(pc, op, i, orders, status, paid, amount, base),
             ireq' = [ireq EXCEPT ![q] = h]
      PROVE  SalesInv'
  <2>1. h.pc = pc /\ h.iid = i /\ h.orders = orders /\ RequestShape(h)
    <3>1. orders \subseteq OrderIds
      BY DEF SalesInv, Shapes, InvoiceShape
    <3>. QED
      BY <1>1, <3>1, DoingFields DEF RequestShape, I!InvoiceSteps
  <2>2. \A s \in InvoiceRequests : ireq[s].iid # i
    BY <1>1 DEF I!FreeInvoice
  <2>3. \A o \in orders : order[o].invoice = i
    <3>1. \A o \in orders : o \in OrderIds /\ Bills(i, o)
      BY <1>1 DEF Bills, SalesInv, Shapes, InvoiceShape
    <3>. QED
      BY <2>2, <3>1 DEF SalesInv, Links
  <2>4. Knows(h)
    BY <1>1, <2>1, <2>3 DEF Knows
  <2>5. \A s \in InvoiceRequests : ireq[s].pc \in {"insert", "attach"} =>
            \A o \in ireq[s].orders : o \notin h.orders
    BY <2>1, <2>3, SalesAssumption DEF SalesInv, Billers
  <2>. QED
    BY <1>0, <1>1, <2>1, <2>2, <2>4, <2>5, RequestKeeps
<1>. DEFINE base == [status |-> "draft", paid |-> 0]
<1>2. CASE I!RecordPayment(q)
  <2>1. PICK i \in InvoiceIds, amount \in Payments :
            /\ I!FreeInvoice(i)
            /\ I!Payable(i, amount)
            /\ ireq' = [ireq EXCEPT ![q] =
                 [I!Waiting EXCEPT !.pc = "read", !.op = "pay", !.iid = i,
                                   !.paid = I!NewPaid(i, amount), !.amount = amount,
                                   !.status = I!StatusOnceAt(i, I!NewPaid(i, amount))]]
    BY <1>2 DEF I!RecordPayment
  <2>. DEFINE paid == I!NewPaid(i, amount)
              status == I!StatusOnceAt(i, paid)
  <2>. HIDE DEF paid, status
  <2>. DEFINE h == [I!Waiting EXCEPT !.pc = "read", !.op = "pay", !.iid = i,
                                     !.paid = paid, !.amount = amount,
                                     !.status = status]
  <2>3. h \in Doing("read", "pay", i, {}, status, paid, amount, base)
    BY DEF I!Waiting, Doing
  <2>4. ireq' = [ireq EXCEPT ![q] = h]
    BY <2>1 DEF paid, status
  <2>5. I!Standing(i)
    BY <2>1 DEF I!Payable
  <2>. HIDE DEF h, base
  <2>. QED
    BY <1>1, <2>1, <2>3, <2>4, <2>5
<1>3. CASE I!SendInvoice(q)
  <2>1. PICK i \in InvoiceIds :
            /\ I!FreeInvoice(i)
            /\ I!Standing(i)
            /\ ireq' = [ireq EXCEPT ![q] =
                 [I!Waiting EXCEPT !.pc = "mail", !.op = "send", !.iid = i,
                                   !.status = I!StatusOnceSent(i)]]
    BY <1>3 DEF I!SendInvoice
  <2>. DEFINE status == I!StatusOnceSent(i)
  <2>. HIDE DEF status
  <2>. DEFINE h == [I!Waiting EXCEPT !.pc = "mail", !.op = "send", !.iid = i,
                                     !.status = status]
  <2>3. h \in Doing("mail", "send", i, {}, status, 0, 0, base)
    BY DEF I!Waiting, Doing
  <2>4. ireq' = [ireq EXCEPT ![q] = h]
    BY <2>1 DEF status
  <2>. HIDE DEF h, base
  <2>. QED
    BY <1>1, <2>1, <2>3, <2>4
<1>4. CASE I!UpdateInvoiceStatus(q)
  <2>1. PICK i \in InvoiceIds, target \in I!InvoiceStatus :
            /\ I!FreeInvoice(i)
            /\ I!Existing(i)
            /\ target \in I!INVOICE_TRANSITIONS[invoice[i].status]
            /\ ireq' = [ireq EXCEPT ![q] =
                 [I!Waiting EXCEPT !.pc = "read", !.op = "status", !.iid = i,
                                   !.status = target, !.orders = invoice[i].orders]]
    BY <1>4 DEF I!UpdateInvoiceStatus
  <2>. DEFINE h == [I!Waiting EXCEPT !.pc = "read", !.op = "status", !.iid = i,
                                     !.status = target, !.orders = invoice[i].orders]
  <2>2. h \in Doing("read", "status", i, invoice[i].orders, target, 0, 0, base)
    BY DEF I!Waiting, Doing
  <2>3. ireq' = [ireq EXCEPT ![q] = h]
    BY <2>1
  <2>4. I!Standing(i)
    BY <2>1 DEF I!Existing, I!Standing, I!INVOICE_TRANSITIONS
  <2>. HIDE DEF h, base
  <2>. QED
    BY <1>1, <2>1, <2>2, <2>3, <2>4
<1>. QED
  BY <1>2, <1>3, <1>4

LEMMA ReadInvoiceKeeps ==
  ASSUME SalesInv, ~Meet, Apart', UNCHANGED orderSide,
         NEW q \in InvoiceRequests, I!MailSent(q) \/ I!ReadRow(q)
  PROVE  SalesInv'
<1>. DEFINE g == ireq[q]
<1>0. /\ RequestShape(g) /\ ireq = [s \in InvoiceRequests |-> ireq[s]]
      /\ g.pc \in {"mail", "read"} /\ UNCHANGED <<order, invoice, orderSide>>
  BY DEF SalesInv, Shapes, I!MailSent, I!ReadRow
<1>1. /\ g.iid \in InvoiceIds /\ I!Standing(g.iid)
      /\ \A o \in g.orders : order[o].invoice = g.iid
  BY <1>0 DEF SalesInv, Updaters, RequestShape
<1>2. ASSUME NEW pc \in {"read", "flush"}, NEW base,
             NEW h \in Doing(pc, g.op, g.iid, g.orders, g.status, g.paid, g.amount, base),
             ireq' = [ireq EXCEPT ![q] = h], pc = "flush" => base.status # "cancelled"
      PROVE  SalesInv'
  <2>1. /\ h.pc = pc /\ h.iid = g.iid /\ h.orders = g.orders /\ h.base = base
        /\ RequestShape(h)
    BY <1>0, <1>1, <1>2, DoingFields DEF RequestShape, I!InvoiceSteps
  <2>2. Knows(h)
    BY <1>1, <1>2, <2>1 DEF Knows
  <2>3. \A s \in InvoiceRequests \ {q} :
            /\ ireq[s].iid # g.iid
            /\ ireq[s].pc \in {"insert", "attach"} => \A o \in ireq[s].orders : o \notin g.orders
    BY <1>0, <1>1 DEF SalesInv, Alone, Billers
  <2>. HIDE DEF g
  <2>. QED
    BY <1>0, <1>1, <1>2, <2>1, <2>2, <2>3, RequestKeeps DEF g
<1>3. CASE I!MailSent(q)
  <2>. DEFINE h == [g EXCEPT !.pc = "read"]
  <2>1. ireq' = [ireq EXCEPT ![q] = h]
    BY <1>0, <1>3 DEF I!MailSent
  <2>2. h \in Doing("read", g.op, g.iid, g.orders, g.status, g.paid, g.amount, g.base)
    BY <1>0 DEF RequestShape, Doing
  <2>. HIDE DEF h, g
  <2>. QED
    BY <1>2, <2>1, <2>2
<1>4. CASE I!ReadRow(q)
  <2>. DEFINE base == [status |-> invoice[g.iid].status, paid |-> invoice[g.iid].paid]
              h == [g EXCEPT !.pc = "flush", !.base = base]
  <2>1. ireq' = [ireq EXCEPT ![q] = h]
    BY <1>0, <1>4 DEF I!ReadRow
  <2>2. base.status # "cancelled"
    BY <1>1 DEF I!Standing
  <2>. HIDE DEF base
  <2>3. h \in Doing("flush", g.op, g.iid, g.orders, g.status, g.paid, g.amount, base)
    BY <1>0 DEF RequestShape, Doing
  <2>. HIDE DEF h, g
  <2>. QED
    BY <1>2, <2>1, <2>2, <2>3
<1>. QED
  BY <1>3, <1>4


LEMMA InsertInvoiceKeeps ==
  ASSUME SalesInv, ~Meet, Apart', UNCHANGED orderSide,
         NEW q \in InvoiceRequests, I!InsertInvoice(q)
  PROVE  SalesInv'
<1>. DEFINE g == ireq[q]
<1>0. /\ RequestShape(g) /\ ireq = [s \in InvoiceRequests |-> ireq[s]]
      /\ invoice = [i \in InvoiceIds |-> invoice[i]]
      /\ g.pc = "insert" /\ UNCHANGED <<order, orderSide>>
  BY DEF SalesInv, Shapes, I!InsertInvoice
<1>1. PICK i \in InvoiceIds, t \in Totals, d \in {"none", "ahead", "past"} :
          /\ invoice[i].status = "absent"
          /\ invoice' = [invoice EXCEPT ![i] =
                 [status |-> "draft", orders |-> g.orders,
                  total |-> t, paid |-> 0, due |-> d]]
          /\ ireq' = [ireq EXCEPT ![q].pc = "attach", ![q].iid = i]
  BY DEF I!InsertInvoice
<1>. DEFINE v == [status |-> "draft", orders |-> g.orders, total |-> t, paid |-> 0, due |-> d]
            h == [g EXCEPT !.pc = "attach", !.iid = i]
<1>2. h \in Doing("attach", g.op, i, g.orders, g.status, g.paid, g.amount, g.base)
  BY <1>0 DEF RequestShape, Doing
<1>3. /\ ireq' = [ireq EXCEPT ![q] = h]
      /\ invoice' = [invoice EXCEPT ![i] = v]
  BY <1>0, <1>1
<1>4. InvoiceShape(v) /\ v.status = "draft" /\ v.orders = g.orders
  BY <1>0 DEF InvoiceShape, RequestShape
<1>. HIDE DEF v, h
<1>5. RequestShape(h) /\ h.pc = "attach" /\ h.iid = i /\ h.orders = g.orders
  BY <1>0, <1>2, DoingFields DEF RequestShape, I!InvoiceSteps
<1>6. /\ \A s \in InvoiceRequests : ireq'[s] = IF s = q THEN h ELSE ireq[s]
      /\ ireq' = [s \in InvoiceRequests |-> ireq'[s]]
      /\ \A j \in InvoiceIds : invoice'[j] = IF j = i THEN v ELSE invoice[j]
      /\ invoice' = [j \in InvoiceIds |-> invoice'[j]]
  BY <1>0, <1>3
<1>. HIDE DEF g
<1>. USE DEF orderSide
<1>7. Shapes'
  BY <1>0, <1>4, <1>5, <1>6 DEF SalesInv, Shapes
<1>8. \A s \in InvoiceRequests : ireq[s].iid # i
  <2>. SUFFICES ASSUME NEW s \in InvoiceRequests, ireq[s].iid = i
                PROVE  FALSE
    OBVIOUS
  <2>1. ireq[s].pc \in {"attach", "detach", "mail", "read", "flush"}
    BY SalesAssumption DEF SalesInv, Shapes, RequestShape, I!InvoiceSteps
  <2>. QED
    BY <1>1, <2>1 DEF SalesInv, Updaters, I!Existing, I!Standing
<1>9. Alone'
  BY <1>0, <1>5, <1>6, <1>8 DEF SalesInv, Alone, g
<1>10. \A j \in InvoiceIds : \A o : Bills(j, o)' <=> Bills(j, o) \/ (j = i /\ o \in g.orders)
  <2>1. \A o : (Bills(i, o)' <=> o \in g.orders) /\ ~Bills(i, o)
    BY <1>1, <1>4, <1>6 DEF Bills, I!Standing
  <2>. SUFFICES ASSUME NEW j \in InvoiceIds, NEW o
                PROVE  Bills(j, o)' <=> Bills(j, o) \/ (j = i /\ o \in g.orders)
    OBVIOUS
  <2>3. CASE j = i
    BY <2>1, <2>3
  <2>4. CASE j # i
    <3>1. invoice'[j] = invoice[j]
      BY <1>6, <2>4
    <3>. QED
      BY <2>4, <3>1 DEF Bills, I!Standing
  <2>. QED
    BY <2>3, <2>4
<1>11. Creators' /\ Cancellers'
  <2>1. \A r \in OrderRequests : req[r].oid \notin g.orders
    BY DEF SalesInv, Alone, g
  <2>. QED
    BY <1>0, <1>10, <2>1 DEF SalesInv, Creators, Cancellers
<1>12. Billers'
  BY <1>0, <1>5, <1>6 DEF SalesInv, Billers, Live, g
<1>13. Updaters'
  <2>1. \A s \in InvoiceRequests \ {q} : ireq[s].pc \notin {"idle", "insert"} =>
            invoice'[ireq[s].iid] = invoice[ireq[s].iid]
    BY <1>6, <1>8 DEF SalesInv, Shapes, RequestShape
  <2>2. I!Existing(i)'
    BY <1>4, <1>6 DEF I!Existing
  <2>. QED
    BY <1>0, <1>5, <1>6, <2>1, <2>2 DEF SalesInv, Updaters, I!Standing, I!Existing
<1>14. Links'
  <2>. SUFFICES ASSUME NEW j \in InvoiceIds, NEW o \in OrderIds, Bills(j, o)'
                PROVE  \/ order'[o].invoice = j
                       \/ \E s \in InvoiceRequests : /\ ireq'[s].pc = "attach"
                                                     /\ ireq'[s].iid = j
                                                     /\ o \in ireq'[s].orders
    BY DEF Links
  <2>1. CASE j = i /\ o \in g.orders
    BY <1>5, <1>6, <2>1
  <2>2. CASE Bills(j, o)
    <3>1. CASE order[o].invoice = j
      BY <1>0, <3>1
    <3>2. CASE order[o].invoice # j
      <4>1. PICK s \in InvoiceRequests :
                ireq[s].pc = "attach" /\ ireq[s].iid = j /\ o \in ireq[s].orders
        BY <2>2, <3>2 DEF SalesInv, Links
      <4>2. s # q
        BY <1>0, <4>1 DEF g
      <4>. QED
        BY <1>6, <4>1, <4>2
    <3>. QED
      BY <3>1, <3>2
  <2>. QED
    BY <1>10, <2>1, <2>2
<1>15. BilledOrdersStand'
  <2>1. \A o \in g.orders : Live(o)
    BY <1>0 DEF SalesInv, Billers, g
  <2>. QED
    BY <1>0, <1>1, <1>4, <1>6, <2>1 DEF SalesInv, BilledOrdersStand, I!Standing, Live
<1>. QED
  BY <1>7, <1>9, <1>11, <1>12, <1>13, <1>14, <1>15 DEF SalesInv

\* The link of some orders is written, and the request ends.
LEMMA LinkKeeps ==
  ASSUME SalesInv, UNCHANGED <<invoice, orderSide>>,
         NEW q \in InvoiceRequests, I!EndRequest(q),
         NEW i \in InvoiceIds \cup {NoInvoice}, I!LinkOrders(ireq[q].orders, i),
         \A s \in InvoiceRequests \ {q} :
             ireq[s].pc # "idle" => \A o \in ireq[q].orders : o \notin ireq[s].orders,
         \A j \in InvoiceIds : \A o \in ireq[q].orders : Bills(j, o) => i = j,
         ireq[q].pc = "attach" => i = ireq[q].iid
  PROVE  SalesInv'
<1>. USE DEF orderSide
<1>1. /\ \A s \in InvoiceRequests : ireq'[s] = IF s = q THEN I!Waiting ELSE ireq[s]
      /\ ireq' = [s \in InvoiceRequests |-> ireq'[s]]
  BY DEF SalesInv, Shapes, I!EndRequest
<1>2. /\ RequestShape(I!Waiting) /\ I!Waiting.pc = "idle" /\ I!Waiting.iid = NoInvoice
      /\ I!Waiting.orders = {}
  BY DEF RequestShape, I!InvoiceSteps, I!Waiting
<1>3. \A o \in OrderIds :
          /\ OrderShape(order'[o]) /\ order'[o].status = order[o].status
          /\ order'[o].invoice = IF o \in ireq[q].orders THEN i ELSE order[o].invoice
  <2>1. \A w : OrderShape(w) => /\ OrderShape([w EXCEPT !.invoice = i])
                                /\ [w EXCEPT !.invoice = i].status = w.status
                                /\ [w EXCEPT !.invoice = i].invoice = i
    BY DEF OrderShape
  <2>. QED
    BY <2>1 DEF SalesInv, Shapes, I!LinkOrders
<1>4. order' = [o \in OrderIds |-> order'[o]]
  BY DEF I!LinkOrders
<1>5. Shapes'
  BY <1>1, <1>2, <1>3, <1>4 DEF SalesInv, Shapes
<1>6. Alone'
  BY <1>1, <1>2, SalesAssumption DEF SalesInv, Alone
<1>7. \A j \in InvoiceIds : \A o : Bills(j, o)' <=> Bills(j, o)
  BY DEF Bills, I!Standing
<1>8. Creators'
  <2>1. \A r \in OrderRequests : req[r].pc # "idle" => req[r].oid \in OrderIds
    BY DEF SalesInv, Shapes, HandlerShape
  <2>. QED
    BY <1>3, <2>1 DEF SalesInv, Creators
<1>9. Cancellers'
  BY <1>7 DEF SalesInv, Cancellers
<1>10. \A s \in InvoiceRequests \ {q} : ireq[s].pc # "idle" => \A o \in ireq[s].orders :
           order'[o].status = order[o].status /\ order'[o].invoice = order[o].invoice
  BY <1>3 DEF SalesInv, Shapes, RequestShape
<1>11. Billers'
  BY <1>1, <1>2, <1>10 DEF SalesInv, Billers, Live
<1>12. Updaters'
  BY <1>1, <1>2, <1>10 DEF SalesInv, Updaters, I!Standing, I!Existing
<1>13. Links'
  <2>. SUFFICES ASSUME NEW j \in InvoiceIds, NEW o \in OrderIds, Bills(j, o)
                PROVE  \/ order'[o].invoice = j
                       \/ \E s \in InvoiceRequests : /\ ireq'[s].pc = "attach"
                                                     /\ ireq'[s].iid = j
                                                     /\ o \in ireq'[s].orders
    BY <1>7 DEF Links
  <2>1. CASE o \in ireq[q].orders
    BY <1>3, <2>1
  <2>2. CASE o \notin ireq[q].orders
    BY <1>1, <1>3, <2>2 DEF SalesInv, Links
  <2>. QED
    BY <2>1, <2>2
<1>14. BilledOrdersStand'
  <2>1. \A j \in InvoiceIds : invoice[j].orders \subseteq OrderIds
    BY DEF SalesInv, Shapes, InvoiceShape
  <2>. QED
    BY <1>3, <2>1 DEF SalesInv, BilledOrdersStand, I!Standing
<1>. QED
  BY <1>5, <1>6, <1>8, <1>9, <1>11, <1>12, <1>13, <1>14 DEF SalesInv

LEMMA AttachKeeps ==
  ASSUME SalesInv, UNCHANGED orderSide, NEW q \in InvoiceRequests, I!AttachOrders(q)
  PROVE  SalesInv'
<1>0. /\ ireq[q].pc = "attach" /\ I!EndRequest(q) /\ UNCHANGED invoice
      /\ I!LinkOrders(ireq[q].orders, ireq[q].iid)
  BY DEF I!AttachOrders
<1>1. ireq[q].iid \in InvoiceIds /\ ireq[q].orders \subseteq OrderIds
  BY <1>0 DEF SalesInv, Shapes, RequestShape
<1>2. \A o \in ireq[q].orders :
          /\ order[o].invoice = NoInvoice
          /\ \A s \in InvoiceRequests \ {q} : o \notin ireq[s].orders
  BY <1>0 DEF SalesInv, Billers
<1>3. \A j \in InvoiceIds : \A o \in ireq[q].orders : Bills(j, o) => ireq[q].iid = j
  <2>. SUFFICES ASSUME NEW j \in InvoiceIds, NEW o \in ireq[q].orders, Bills(j, o)
                PROVE  ireq[q].iid = j
    OBVIOUS
  <2>1. order[o].invoice # j
    BY <1>2, SalesAssumption
  <2>2. PICK s \in InvoiceRequests : ireq[s].iid = j /\ o \in ireq[s].orders
    BY <1>1, <2>1 DEF SalesInv, Links
  <2>. QED
    BY <1>2, <2>2
<1>. QED
  BY <1>0, <1>1, <1>2, <1>3, LinkKeeps

LEMMA DetachKeeps ==
  ASSUME SalesInv, UNCHANGED orderSide, NEW q \in InvoiceRequests, I!DetachOrders(q)
  PROVE  SalesInv'
<1>0. /\ ireq[q].pc = "detach" /\ I!EndRequest(q) /\ UNCHANGED invoice
      /\ I!LinkOrders(ireq[q].orders, NoInvoice)
  BY DEF I!DetachOrders
<1>1. ireq[q].iid \in InvoiceIds /\ ireq[q].orders \subseteq OrderIds
  BY <1>0 DEF SalesInv, Shapes, RequestShape
<1>2. /\ ~I!Standing(ireq[q].iid)
      /\ \A o \in ireq[q].orders : order[o].invoice = ireq[q].iid
  BY <1>0 DEF SalesInv, Updaters
<1>3. \A s \in InvoiceRequests \ {q} : ireq[s].pc # "idle" =>
          \A o \in ireq[q].orders : o \notin ireq[s].orders
  <2>. SUFFICES ASSUME NEW s \in InvoiceRequests \ {q}, NEW o \in ireq[q].orders,
                       ireq[s].pc # "idle", o \in ireq[s].orders
                PROVE  FALSE
    OBVIOUS
  <2>1. ireq[s].pc \notin {"insert", "attach"}
    BY DEF SalesInv, Billers
  <2>2. ireq[s].pc \in {"mail", "read", "flush", "detach"}
    BY <2>1 DEF SalesInv, Shapes, RequestShape, I!InvoiceSteps
  <2>3. order[o].invoice = ireq[s].iid
    BY <2>2 DEF SalesInv, Updaters
  <2>. QED
    BY <1>1, <1>2, <2>3 DEF SalesInv, Alone
<1>4. \A j \in InvoiceIds : \A o \in ireq[q].orders : ~Bills(j, o)
  <2>. SUFFICES ASSUME NEW j \in InvoiceIds, NEW o \in ireq[q].orders, Bills(j, o)
                PROVE  FALSE
    OBVIOUS
  <2>1. order[o].invoice # j
    BY <1>2 DEF Bills
  <2>2. PICK s \in InvoiceRequests : ireq[s].pc = "attach" /\ o \in ireq[s].orders
    BY <1>1, <2>1 DEF SalesInv, Links
  <2>3. order[o].invoice = NoInvoice
    BY <2>2 DEF SalesInv, Billers
  <2>. QED
    BY <1>1, <1>2, <2>3, SalesAssumption
<1>. QED
  BY <1>0, <1>3, <1>4, LinkKeeps

\* The flush writes the row a request has read, and no invoice that did not
\* stand stands after it.
LEMMA FlushKeeps ==
  ASSUME SalesInv, UNCHANGED orderSide, NEW q \in InvoiceRequests, I!FlushRow(q)
  PROVE  SalesInv'
<1>. DEFINE g == ireq[q]
            i == g.iid
            row == invoice[i]
            s0 == IF I!Written(g, "status", TRUE) THEN g.status ELSE row.status
            p0 == IF I!Written(g, "paid", g.op = "pay") THEN g.paid ELSE row.paid
            v == [row EXCEPT !.status = s0, !.paid = p0]
<1>0. /\ RequestShape(g) /\ g.pc = "flush" /\ UNCHANGED <<order, orderSide>>
      /\ ireq = [s \in InvoiceRequests |-> ireq[s]]
      /\ invoice = [j \in InvoiceIds |-> invoice[j]]
      /\ \A j \in InvoiceIds : InvoiceShape(invoice[j])
  BY DEF SalesInv, Shapes, I!FlushRow
<1>1. /\ i \in InvoiceIds /\ I!Standing(i) /\ g.base.status # "cancelled"
      /\ \A o \in g.orders : order[o].invoice = i
  BY <1>0 DEF SalesInv, Updaters, RequestShape
<1>2. invoice' = [invoice EXCEPT ![i] = v]
  <2>1. invoice' = [invoice EXCEPT ![i].status = s0, ![i].paid = p0]
    BY <1>0, <1>1 DEF I!FlushRow, InvoiceShape
  <2>. HIDE DEF s0, p0
  <2>. QED
    BY <1>0, <1>1, <2>1
<1>3. v \in [status : {s0}, orders : {row.orders}, total : {row.total}, paid : {p0},
             due : {row.due}]
  <2>1. InvoiceShape(row)
    BY <1>0, <1>1
  <2>. HIDE DEF s0, p0, row
  <2>. QED
    BY <2>1 DEF InvoiceShape
<1>4. g.status = "cancelled" => s0 = "cancelled"
  BY <1>1 DEF I!Written
<1>5. \/ I!EndRequest(q)
      \/ g.status = "cancelled" /\ ireq' = [ireq EXCEPT ![q].pc = "detach"]
  BY DEF I!FlushRow
<1>. HIDE DEF s0, p0, v
<1>6. /\ InvoiceShape(v) /\ v.orders = row.orders /\ v.status = s0
  <2>1. row.orders \subseteq OrderIds
    BY <1>0, <1>1 DEF InvoiceShape
  <2>. HIDE DEF row
  <2>. QED
    BY <1>3, <2>1 DEF InvoiceShape
<1>7. /\ \A j \in InvoiceIds : invoice'[j] = IF j = i THEN v ELSE invoice[j]
      /\ invoice' = [j \in InvoiceIds |-> invoice'[j]]
  BY <1>0, <1>2
<1>8. PICK h : /\ ireq' = [ireq EXCEPT ![q] = h] /\ RequestShape(h)
               /\ \/ h.pc = "idle" /\ h.iid = NoInvoice /\ h.orders = {}
                  \/ /\ h.pc = "detach" /\ h.iid = i /\ h.orders = g.orders
                     /\ s0 = "cancelled"
  <2>1. CASE I!EndRequest(q)
    <3>1. /\ RequestShape(I!Waiting) /\ I!Waiting.pc = "idle"
          /\ I!Waiting.iid = NoInvoice /\ I!Waiting.orders = {}
      BY DEF RequestShape, I!InvoiceSteps, I!Waiting
    <3>. QED
      BY <2>1, <3>1 DEF I!EndRequest
  <2>2. CASE g.status = "cancelled" /\ ireq' = [ireq EXCEPT ![q].pc = "detach"]
    <3>. DEFINE h == [g EXCEPT !.pc = "detach"]
    <3>1. ireq' = [ireq EXCEPT ![q] = h]
      BY <1>0, <2>2
    <3>2. h \in Doing("detach", g.op, g.iid, g.orders, g.status, g.paid, g.amount, g.base)
      BY <1>0 DEF RequestShape, Doing
    <3>. HIDE DEF h
    <3>3. /\ h.pc = "detach" /\ h.iid = i /\ h.orders = g.orders
          /\ RequestShape(h)
      BY <1>0, <1>1, <3>2, DoingFields DEF RequestShape, I!InvoiceSteps
    <3>. QED
      BY <1>4, <2>2, <3>1, <3>3
  <2>. QED
    BY <1>5, <2>1, <2>2
<1>9. /\ \A s \in InvoiceRequests : ireq'[s] = IF s = q THEN h ELSE ireq[s]
      /\ ireq' = [s \in InvoiceRequests |-> ireq'[s]]
  BY <1>0, <1>8
<1>. HIDE DEF g, i, row
<1>. USE DEF orderSide
<1>10. Shapes'
  BY <1>0, <1>6, <1>7, <1>8, <1>9 DEF SalesInv, Shapes
<1>11. Alone'
  BY <1>0, <1>1, <1>8, <1>9, SalesAssumption DEF SalesInv, Alone, g, i
<1>12. \A j \in InvoiceIds : /\ I!Standing(j)' => I!Standing(j)
                             /\ invoice'[j].orders = invoice[j].orders
  BY <1>1, <1>6, <1>7 DEF I!Standing, row
<1>13. \A j \in InvoiceIds : \A o : Bills(j, o)' => Bills(j, o)
  BY <1>12 DEF Bills
<1>14. Creators' /\ Cancellers'
  BY <1>0, <1>13 DEF SalesInv, Creators, Cancellers
<1>15. Billers'
  BY <1>0, <1>8, <1>9 DEF SalesInv, Billers, Live, g
<1>16. Updaters'
  <2>1. \A s \in InvoiceRequests \ {q} : ireq[s].pc \notin {"idle", "insert"} =>
            invoice'[ireq[s].iid] = invoice[ireq[s].iid]
    BY <1>1, <1>7 DEF SalesInv, Alone, Shapes, RequestShape, g, i
  <2>2. h.pc = "detach" => /\ I!Existing(h.iid)' /\ ~I!Standing(h.iid)'
                           /\ \A o \in h.orders : order[o].invoice = h.iid
    BY <1>1, <1>6, <1>7, <1>8 DEF I!Existing, I!Standing
  <2>. QED
    BY <1>0, <1>8, <1>9, <2>1, <2>2 DEF SalesInv, Updaters, I!Standing, I!Existing
<1>17. Links'
  BY <1>0, <1>9, <1>13 DEF SalesInv, Links, g
<1>18. BilledOrdersStand'
  BY <1>0, <1>12 DEF SalesInv, BilledOrdersStand
<1>. QED
  BY <1>10, <1>11, <1>14, <1>15, <1>16, <1>17, <1>18 DEF SalesInv

\* The clock and the daily job make no invoice stand or fall.
LEMMA ClockKeeps ==
  ASSUME SalesInv, UNCHANGED orderSide,
         I!MarkOverdue \/ \E i \in InvoiceIds : I!DueDatePasses(i)
  PROVE  SalesInv'
<1>. USE DEF orderSide
<1>1. UNCHANGED <<order, ireq>>
  BY DEF I!MarkOverdue, I!DueDatePasses
<1>2. /\ \A j \in InvoiceIds : InvoiceShape(invoice[j])
      /\ invoice = [j \in InvoiceIds |-> invoice[j]]
  BY DEF SalesInv, Shapes
<1>3. /\ invoice' = [j \in InvoiceIds |-> invoice'[j]]
      /\ \A j \in InvoiceIds :
            \/ invoice'[j] = invoice[j]
            \/ invoice'[j] = [invoice[j] EXCEPT !.due = "past"]
            \/ I!Late(j) /\ invoice'[j] = [invoice[j] EXCEPT !.status = "overdue"]
  BY <1>2 DEF I!MarkOverdue, I!DueDatePasses
<1>4. \A j \in InvoiceIds : /\ InvoiceShape(invoice'[j])
                            /\ invoice'[j].orders = invoice[j].orders
                            /\ \/ invoice'[j].status = invoice[j].status
                               \/ I!Late(j) /\ invoice'[j].status = "overdue"
  <2>. SUFFICES ASSUME NEW j \in InvoiceIds
                PROVE  /\ InvoiceShape(invoice'[j])
                       /\ invoice'[j].orders = invoice[j].orders
                       /\ \/ invoice'[j].status = invoice[j].status
                          \/ I!Late(j) /\ invoice'[j].status = "overdue"
    OBVIOUS
  <2>1. CASE invoice'[j] = invoice[j]
    BY <1>2, <2>1
  <2>2. CASE invoice'[j] = [invoice[j] EXCEPT !.due = "past"]
    BY <1>2, <2>2 DEF InvoiceShape
  <2>3. CASE I!Late(j) /\ invoice'[j] = [invoice[j] EXCEPT !.status = "overdue"]
    BY <1>2, <2>3 DEF InvoiceShape
  <2>. QED
    BY <1>3, <2>1, <2>2, <2>3
<1>5. \A j \in InvoiceIds : /\ I!Standing(j)' <=> I!Standing(j)
                            /\ I!Existing(j)' <=> I!Existing(j)
  BY <1>4 DEF I!Standing, I!Existing, I!Late
<1>6. \A j \in InvoiceIds : \A o : Bills(j, o)' <=> Bills(j, o)
  BY <1>4, <1>5 DEF Bills
<1>7. Shapes'
  BY <1>1, <1>3, <1>4 DEF SalesInv, Shapes
<1>8. Alone' /\ Creators' /\ Cancellers' /\ Billers'
  BY <1>1, <1>6 DEF SalesInv, Alone, Creators, Cancellers, Billers, Live
<1>9. Updaters'
  <2>1. \A s \in InvoiceRequests : ireq[s].pc \notin {"idle", "insert"} =>
            ireq[s].iid \in InvoiceIds
    BY DEF SalesInv, Shapes, RequestShape
  <2>. QED
    BY <1>1, <1>5, <2>1 DEF SalesInv, Updaters
<1>10. Links'
  BY <1>1, <1>6 DEF SalesInv, Links
<1>11. BilledOrdersStand'
  BY <1>1, <1>4, <1>5 DEF SalesInv, BilledOrdersStand
<1>. QED
  BY <1>7, <1>8, <1>9, <1>10, <1>11 DEF SalesInv

LEMMA InvoiceSideKeeps ==
  ~Meet /\ ~Overlap /\ SalesInv /\ InvoiceSide /\ Apart' => SalesInv'
<1>. SUFFICES ASSUME ~Meet, ~Overlap, SalesInv, InvoiceSide, Apart'
              PROVE  SalesInv'
  OBVIOUS
<1>1. UNCHANGED orderSide
  BY DEF InvoiceSide
<1>2. \A q \in InvoiceRequests : ~I!CrashRequest(q)
  BY DEF I!CrashRequest
<1>3. CASE I!MarkOverdue \/ \E i \in InvoiceIds : I!DueDatePasses(i)
  BY <1>1, <1>3, ClockKeeps
<1>4. ASSUME NEW q \in InvoiceRequests, I!BeginRequest(q)
      PROVE  SalesInv'
  BY <1>1, <1>4, CreateInvoiceKeeps, UpdateRequestKeeps DEF I!BeginRequest
<1>5. ASSUME NEW q \in InvoiceRequests, I!ContinueRequest(q)
      PROVE  SalesInv'
  BY <1>1, <1>5, InsertInvoiceKeeps, AttachKeeps, ReadInvoiceKeeps, FlushKeeps,
     DetachKeeps DEF I!ContinueRequest
<1>. QED
  BY <1>2, <1>3, <1>4, <1>5 DEF InvoiceSide, I!InvoiceStep

-----------------------------------------------------------------------------

LEMMA SalesInitKeeps == Init => SalesInv
<1>. SUFFICES ASSUME Init PROVE SalesInv
  OBVIOUS
<1>1. /\ \A o \in OrderIds : order[o] = O!NoRow
      /\ \A r \in OrderRequests : req[r] = O!Idle
      /\ \A i \in InvoiceIds : invoice[i] = I!Unissued
      /\ \A q \in InvoiceRequests : ireq[q] = I!Waiting
  BY DEF Init, O!Init, I!InvoiceInit
<1>2. /\ OrderShape(O!NoRow) /\ HandlerShape(O!Idle)
      /\ InvoiceShape(I!Unissued) /\ RequestShape(I!Waiting)
  BY DEF OrderShape, O!NoRow, HandlerShape, O!Idle, O!OrderStatus, InvoiceShape,
     I!Unissued, RequestShape, I!Waiting, I!InvoiceSteps
<1>3. Shapes
  BY <1>1, <1>2 DEF Shapes, Init, O!Init, I!InvoiceInit
<1>4. /\ O!Idle.pc = "idle" /\ O!Idle.oid = NoOrder /\ I!Unissued.status = "absent"
      /\ I!Waiting.pc = "idle" /\ I!Waiting.iid = NoInvoice /\ I!Waiting.orders = {}
  BY DEF O!Idle, I!Unissued, I!Waiting
<1>5. Alone
  BY <1>1, <1>4, SalesAssumption DEF Alone
<1>6. Creators /\ Cancellers /\ Billers /\ Updaters
  BY <1>1, <1>4 DEF Creators, Cancellers, Billers, Updaters
<1>7. Links /\ BilledOrdersStand
  BY <1>1, <1>4 DEF Links, BilledOrdersStand, Bills, I!Standing
<1>. QED
  BY <1>3, <1>5, <1>6, <1>7 DEF SalesInv

LEMMA SalesStutterKeeps == SalesInv /\ UNCHANGED vars => SalesInv'
<1>. SUFFICES ASSUME SalesInv, UNCHANGED vars PROVE SalesInv'
  OBVIOUS
<1>1. order' = order /\ req' = req /\ invoice' = invoice /\ ireq' = ireq
  BY DEF vars, orderSide, invoiceSide
<1>2. Shapes' /\ Alone'
  BY <1>1 DEF SalesInv, Shapes, Alone
<1>3. Creators' /\ Cancellers' /\ Billers'
  BY <1>1 DEF SalesInv, Creators, Cancellers, Billers, Bills, Live, I!Standing
<1>4. Updaters' /\ Links' /\ BilledOrdersStand'
  BY <1>1 DEF SalesInv, Updaters, Links, BilledOrdersStand, Bills, I!Standing, I!Existing
<1>. QED
  BY <1>2, <1>3, <1>4 DEF SalesInv

\* What a standing invoice bills is an order that was not cancelled, whatever the
\* two services do meanwhile, as long as no two requests to one of them work on
\* one row at once and no order is in the hands of both.
THEOREM BilledOrdersDoStand ==
  ASSUME ~Overlap, ~Meet
  PROVE  Spec => []BilledOrdersStand
<1>1. SalesInv /\ [Next]_vars => SalesInv'
  BY OrderSideKeeps, InvoiceSideKeeps, SalesStutterKeeps DEF Next
<1>2. SalesInv => BilledOrdersStand
  BY DEF SalesInv
<1>. QED
  BY <1>1, <1>2, SalesInitKeeps, PTL DEF Spec

=============================================================================
