------------------------------- MODULE Orders -------------------------------
(***************************************************************************)
(* Orders, the products and services they sell, and the stock ledger:      *)
(* OrderService and ResourceService over their Postgres repositories, for  *)
(* one business.                                                           *)
(*                                                                         *)
(* Every request is a handler that runs between `await`s on the database.  *)
(* One action is one round trip: a read, a flushed write, or one           *)
(* transaction (recordAdjustment); everything the handler computes up to   *)
(* its next await belongs to that action.  A request that the code rejects *)
(* before it changed anything leaves no trace, so only the accepting reads *)
(* are actions.                                                            *)
(*                                                                         *)
(* Prices, names and customers are left out: no stock or status decision   *)
(* reads them.                                                             *)
(***************************************************************************)
EXTENDS Integers, Sequences, FiniteSets, Functions

CONSTANTS
    Products, Services,  \* resource ids, by their immutable type
    OrderIds, NoOrder,   \* uuids the database can hand out, and the absence of one
    Invoices, NoInvoice, \* what an order's invoiceId can be
    Requests,            \* concurrently running handlers
    Carts,               \* item lists a request body carries (no two identical ids needed)
    Factors,             \* base units in the bulk unit; 0: the product lists no such unit
    Opening,             \* availableQuantity each product is created with
    Levels,              \* availableQuantity values a PATCH carries
    Deltas,              \* signed manual adjustments
    MaxStock,            \* bound: no adjustment or edit starts above it
    Ops,                 \* the operations clients use
    Overlap,             \* whether two requests may work on one order at once
    Failing,             \* awaits that may throw where the code catches
    Crashing             \* awaits at which the handler may end for good

Resources == Products \cup Services

Line == [res : Resources, bulk : BOOLEAN, quantity : Nat \ {0}]

AllOps == {"create", "edit", "complete", "cancel", "invoice", "adjust",
           "setLevel", "setUnits", "delete"}
CatchingSteps == {"persist", "reconcile", "saveItems"}
Steps == CatchingSteps \cup
         {"build", "reserve", "release", "rollback", "restore", "saveStatus"}

ASSUME OrdersAssumption ==
    /\ Products \cap Services = {}
    /\ IsFiniteSet(OrderIds) /\ IsFiniteSet(Requests)
    /\ NoOrder \notin OrderIds
    /\ NoInvoice \notin Invoices
    /\ Carts \subseteq Seq(Line) \ {<<>>}
    /\ Factors \subseteq Nat
    /\ Opening \in [Products -> Nat]
    /\ Levels \subseteq Nat
    /\ Deltas \subseteq Int \ {0}
    /\ MaxStock \in Nat
    /\ Ops \subseteq AllOps
    /\ Overlap \in BOOLEAN
    /\ Failing \subseteq CatchingSteps
    /\ Crashing \subseteq Steps

VARIABLES
    resource,  \* table resources: state of the row, stock, bulk unit factor
    ledger,    \* table stock_adjustments: net delta per product, by kind of reason
    order,     \* table orders
    req        \* the running handlers: their local variables and where they wait

vars == <<resource, ledger, order, req>>

-----------------------------------------------------------------------------
(* Rows *)

\* `items` as stored: a snapshot per line, in base units, and their sum per
\* product, which updateItems and cancellation recompute from the lines.
Snapshot == [res : Resources, base : Nat]
Items == [lines : Seq(Snapshot), units : [Products -> Nat]]
NoItems == [lines |-> <<>>, units |-> [p \in Products |-> 0]]

Push(items, res, base) ==
    [lines |-> Append(items.lines, [res |-> res, base |-> base]),
     units |-> [p \in Products |->
                   items.units[p] + (IF p = res THEN base ELSE 0)]]

OrderStatus == {"pending", "completed", "cancelled"}

ORDER_TRANSITIONS == [pending   |-> {"completed", "cancelled"},
                      completed |-> {"cancelled"},
                      cancelled |-> {}]

NoRow == [status |-> "absent", items |-> NoItems, invoice |-> NoInvoice]

(* Handlers: `moves` are the stock movements a handler is to make, in the  *)
(* code's order, with delta 0 for a line that moves nothing; `done` are    *)
(* those that took effect.                                                 *)

Move == [res : Resources, delta : Int]

Idle == [pc |-> "idle", oid |-> NoOrder, target |-> "pending", cart |-> <<>>,
         items |-> NoItems, old |-> NoItems, moves |-> <<>>, done |-> {}]

Earliest(i, S) == i \in S /\ \A j \in S : i <= j

Finish(r) == req' = [req EXCEPT ![r] = Idle]

ToMake(moves) == {i \in DOMAIN moves : moves[i].delta # 0}

Left(r) == ToMake(req[r].moves) \ req[r].done

\* A movement of r took effect; the handler goes on to `next` after the last.
Progress(r, i, next) ==
    LET done == req[r].done \cup {i}
    IN  req' = [req EXCEPT ![r].done = done,
                           ![r].pc = IF Left(r) = {i} THEN next ELSE @]

\* Mutant: the handler does not throw after its last undone movement.
RegressNoThrow(r, i) == req' = [req EXCEPT ![r].done = @ \ {i}]

\* A movement of r was undone; the handler ends (by throwing) after the last.
Regress(r, i) ==
    LET undone == req[r].done \ {i}
    IN  req' = [req EXCEPT ![r] = IF undone = {} THEN Idle
                                  ELSE [@ EXCEPT !.done = undone]]

\* The handler starts undoing what it did at `step`, if it did anything.
Abort(r, step) ==
    req' = [req EXCEPT ![r] = IF @.done = {} THEN Idle
                              ELSE [@ EXCEPT !.pc = step]]

\* The handler r, with its plan of movements made, waits at `step`, or at
\* `next` when there is nothing to move.
Plan(q, moves, step, next) ==
    [q EXCEPT !.moves = moves, !.done = {},
              !.pc = IF ToMake(moves) = {} THEN next ELSE step]

-----------------------------------------------------------------------------
(* Stock *)

\* Mutant: the UPDATE without its `available_quantity >= quantity` guard.
AdjustableUnguarded(p, delta) == p \in Products /\ resource[p].state = "live"

Adjustable(p, delta) ==
    /\ p \in Products
    /\ resource[p].state = "live"
    /\ delta < 0 => resource[p].available >= -delta

\* Mutant: the ledger row is inserted whether or not the UPDATE matched.
RecordAdjustmentLoose(p, delta, kind) ==
    /\ resource' = IF Adjustable(p, delta)
                   THEN [resource EXCEPT ![p].available = @ + delta] ELSE resource
    /\ ledger' = IF p \in Products
                 THEN [ledger EXCEPT ![p][kind] = @ + delta] ELSE ledger

\* One transaction: the guarded UPDATE and its ledger row, or neither.
RecordAdjustment(p, delta, kind) ==
    IF Adjustable(p, delta)
    THEN /\ resource' = [resource EXCEPT ![p].available = @ + delta]
         /\ ledger' = [ledger EXCEPT ![p][kind] = @ + delta]
    ELSE UNCHANGED <<resource, ledger>>

CreateResource(x) ==
    /\ resource[x].state = "absent"
    /\ \E f \in Factors :
          resource' = [resource EXCEPT ![x] =
              IF x \in Products
              THEN [state |-> "live", available |-> Opening[x], factor |-> f]
              ELSE [state |-> "live", available |-> 0, factor |-> 0]]
    /\ UNCHANGED <<ledger, order, req>>

\* PATCH writes the columns it names, absolutely.  The re-read and the flush
\* are one step: a column equal to the re-read value is not written, which is
\* the same as writing it at the re-read.
UpdateResource(p) ==
    /\ resource[p].state = "live"
    /\ \/ /\ "setLevel" \in Ops
          /\ \E v \in Levels : resource' = [resource EXCEPT ![p].available = v]
       \/ /\ "setUnits" \in Ops
          /\ \E f \in Factors : resource' = [resource EXCEPT ![p].factor = f]
    /\ UNCHANGED <<ledger, order, req>>

\* Mutant: the row is gone, and what refers to it has no row to find.
DeleteResourceRow(x) ==
    /\ "delete" \in Ops
    /\ resource[x].state = "live"
    /\ resource' = [y \in Resources \ {x} |-> resource[y]]
    /\ UNCHANGED <<ledger, order, req>>

DeleteResource(x) ==
    /\ "delete" \in Ops
    /\ resource[x].state = "live"
    /\ resource' = [resource EXCEPT ![x] =
                       [state |-> "deleted", available |-> 0, factor |-> 0]]
    /\ UNCHANGED <<ledger, order, req>>

AdjustStock(p) ==
    /\ "adjust" \in Ops
    /\ \E d \in Deltas :
          /\ Adjustable(p, d)
          /\ resource[p].available + d <= MaxStock
          /\ RecordAdjustment(p, d, "manual")
    /\ UNCHANGED <<order, req>>

-----------------------------------------------------------------------------
(* Handlers of OrderService *)

\* No other handler works on order o, unless the clients let them overlap.
Free(o) == Overlap \/ \A r \in Requests : req[r].oid # o

\* The stock movements that reserve the product lines of `items`, line by line,
\* and those that give them back.
Reserve(items) ==
    [i \in DOMAIN items.lines |->
        LET l == items.lines[i]
        IN  [res |-> l.res, delta |-> IF l.res \in Products THEN -l.base ELSE 0]]

\* Mutant: lines are collected by product, a second line replacing the first.
RestoreByProduct(items) ==
    [i \in DOMAIN items.lines |->
        LET l == items.lines[i]
            again == \E k \in DOMAIN items.lines : k > i /\ items.lines[k].res = l.res
        IN  [res |-> l.res,
             delta |-> IF l.res \in Products /\ ~again THEN l.base ELSE 0]]

Restore(items) ==
    [i \in DOMAIN items.lines |->
        LET l == items.lines[i]
        IN  [res |-> l.res, delta |-> IF l.res \in Products THEN l.base ELSE 0]]

\* Mutant: a product that is met on several lines is moved once per line.
ReconcileEveryLine(old, new) ==
    LET lines == old.lines \o new.lines
    IN  [i \in DOMAIN lines |->
            LET p == lines[i].res
            IN  [res |-> p,
                 delta |-> IF p \in Products THEN old.units[p] - new.units[p] ELSE 0]]

\* The movements that turn the reservation of `old` into that of `new`: one
\* per product whose total changes, where its id is first met.
Reconcile(old, new) ==
    LET lines == old.lines \o new.lines
        Moves(i) == /\ lines[i].res \in Products
                    /\ \A k \in 1 .. i - 1 : lines[k].res # lines[i].res
    IN  [i \in DOMAIN lines |->
            LET p == lines[i].res
            IN  [res |-> p,
                 delta |-> IF Moves(i) THEN old.units[p] - new.units[p] ELSE 0]]

\* create: the handler starts, with the id its row will get.
CreateOrder(r) ==
    /\ "create" \in Ops
    /\ req[r].pc = "idle"
    /\ \E o \in OrderIds, cart \in Carts :
          /\ order[o].status = "absent"
          /\ \A q \in Requests : req[q].oid # o
          /\ req' = [req EXCEPT ![r] =
                        [Idle EXCEPT !.pc = "build", !.oid = o, !.cart = cart]]
    /\ UNCHANGED <<resource, ledger, order>>

\* Mutant: updateItems does not look at the status.
EditAnyOrder(r) ==
    /\ "edit" \in Ops
    /\ req[r].pc = "idle"
    /\ \E o \in OrderIds, cart \in Carts :
          /\ Free(o)
          /\ order[o].status \in OrderStatus
          /\ \A p \in Products : resource[p].available <= MaxStock
          /\ req' = [req EXCEPT ![r] =
                        [Idle EXCEPT !.pc = "build", !.oid = o, !.cart = cart,
                                     !.old = order[o].items]]
    /\ UNCHANGED <<resource, ledger, order>>

\* updateItems: reads the order, which must be pending.
EditOrder(r) ==
    /\ "edit" \in Ops
    /\ req[r].pc = "idle"
    /\ \A p \in Products : resource[p].available <= MaxStock
    /\ \E o \in OrderIds, cart \in Carts :
          /\ Free(o)
          /\ order[o].status = "pending"
          /\ req' = [req EXCEPT ![r] =
                        [Idle EXCEPT !.pc = "build", !.oid = o, !.cart = cart,
                                     !.old = order[o].items]]
    /\ UNCHANGED <<resource, ledger, order>>

Creating(q) == order[q.oid].status = "absent"

\* resolveUnit: whether the unit of a line is one the resource sells in, and
\* baseUnits: what the line moves in the unit stock is counted in.
Sells(line) == line.bulk => resource[line.res].factor > 0

BaseUnits(line) ==
    line.quantity * (IF line.bulk THEN resource[line.res].factor ELSE 1)

\* The handler q with the snapshot of its next line.
PushLine(q) ==
    LET line == Head(q.cart)
    IN  [q EXCEPT !.items = Push(q.items, line.res, BaseUnits(line)),
                  !.cart = Tail(q.cart)]

\* buildItems: reads the resource of one line and snapshots it; after the
\* last line the movements are planned.  An unknown resource or unit ends it.
BuildLine(r) ==
    LET q == req[r]
        line == Head(q.cart)
        built == PushLine(q)
    IN  /\ q.pc = "build"
        /\ IF resource[line.res].state # "live" \/ ~Sells(line)
           THEN Finish(r)
           ELSE req' = [req EXCEPT ![r] =
                   IF built.cart # <<>> THEN built
                   ELSE IF Creating(q)
                   THEN Plan(built, Reserve(built.items), "reserve", "persist")
                   ELSE Plan(built, Reconcile(q.old, built.items),
                             "reconcile", "saveItems")]
        /\ UNCHANGED <<resource, ledger, order>>

\* Mutant: a line counts as reserved before the answer is looked at.
ReserveLineEarly(r) ==
    /\ req[r].pc = "reserve"
    /\ \E i \in Left(r) :
          LET m == req[r].moves[i]
          IN  /\ Earliest(i, Left(r))
              /\ RecordAdjustment(m.res, m.delta, "orders")
              /\ IF Adjustable(m.res, m.delta)
                 THEN Progress(r, i, "persist")
                 ELSE req' = [req EXCEPT ![r].done = @ \cup {i}, ![r].pc = "release"]
    /\ UNCHANGED order

\* create, reservation loop: a shortage releases the lines already reserved.
ReserveLine(r) ==
    /\ req[r].pc = "reserve"
    /\ \E i \in Left(r) :
          LET m == req[r].moves[i]
          IN  /\ Earliest(i, Left(r))
              /\ RecordAdjustment(m.res, m.delta, "orders")
              /\ IF Adjustable(m.res, m.delta)
                 THEN Progress(r, i, "persist")
                 ELSE Abort(r, "release")
    /\ UNCHANGED order

\* restoreStock after a failed create: the increments run concurrently.
ReleaseLine(r) ==
    /\ req[r].pc = "release"
    /\ \E i \in req[r].done :
          /\ RecordAdjustment(req[r].moves[i].res, -req[r].moves[i].delta, "orders")
          /\ Regress(r, i)
    /\ UNCHANGED order

PersistOrder(r) ==
    /\ req[r].pc = "persist"
    /\ \/ /\ order' = [order EXCEPT ![req[r].oid] =
                 [status |-> "pending", items |-> req[r].items, invoice |-> NoInvoice]]
          /\ Finish(r)
       \/ /\ "persist" \in Failing
          /\ Abort(r, "release")
          /\ UNCHANGED order
    /\ UNCHANGED <<resource, ledger>>

\* updateItems, reconciliation loop: an increment always counts as applied
\* (on a deleted product it changes nothing), a decrement may fall short.
ReconcileLine(r) ==
    /\ req[r].pc = "reconcile"
    /\ \/ \E i \in Left(r) :
             LET m == req[r].moves[i]
             IN  /\ Earliest(i, Left(r))
                 /\ RecordAdjustment(m.res, m.delta, "orders")
                 /\ IF m.delta > 0 \/ Adjustable(m.res, m.delta)
                    THEN Progress(r, i, "saveItems")
                    ELSE Abort(r, "rollback")
       \/ /\ "reconcile" \in Failing
          /\ Abort(r, "rollback")
          /\ UNCHANGED <<resource, ledger>>
    /\ UNCHANGED order

\* rollback: undoes the applied movements in turn.  Whether a decrement fell
\* short is not looked at.
RollbackLine(r) ==
    /\ req[r].pc = "rollback"
    /\ \E i \in req[r].done :
          /\ Earliest(i, req[r].done)
          /\ RecordAdjustment(req[r].moves[i].res, -req[r].moves[i].delta, "orders")
          /\ Regress(r, i)
    /\ UNCHANGED order

SaveItems(r) ==
    /\ req[r].pc = "saveItems"
    /\ \/ /\ order' = [order EXCEPT ![req[r].oid].items = req[r].items]
          /\ Finish(r)
       \/ /\ "saveItems" \in Failing
          /\ Abort(r, "rollback")
          /\ UNCHANGED order
    /\ UNCHANGED <<resource, ledger>>

\* Mutant: updateStatus does not check the transition.
UpdateAnyStatus(r, target) ==
    /\ req[r].pc = "idle"
    /\ \E o \in OrderIds :
          /\ Free(o)
          /\ order[o].status \in OrderStatus \ {target}
          /\ target = "cancelled" => order[o].invoice = NoInvoice
          /\ LET q == [Idle EXCEPT !.oid = o, !.target = target,
                                   !.old = order[o].items]
                 moves == IF target = "cancelled" THEN Restore(q.old) ELSE <<>>
             IN  req' = [req EXCEPT ![r] = Plan(q, moves, "restore", "saveStatus")]
    /\ UNCHANGED <<resource, ledger, order>>

\* updateStatus: reads the order and checks the transition; a cancellation
\* first gives the reserved stock back.
UpdateStatus(r, target) ==
    /\ req[r].pc = "idle"
    /\ \E o \in OrderIds :
          /\ Free(o)
          /\ order[o].status \in OrderStatus
          /\ target \in ORDER_TRANSITIONS[order[o].status]
          /\ target = "cancelled" => order[o].invoice = NoInvoice
          /\ LET q == [Idle EXCEPT !.oid = o, !.target = target,
                                   !.old = order[o].items]
                 moves == IF target = "cancelled" THEN Restore(q.old) ELSE <<>>
             IN  req' = [req EXCEPT ![r] = Plan(q, moves, "restore", "saveStatus")]
    /\ UNCHANGED <<resource, ledger, order>>

CompleteOrder(r) == "complete" \in Ops /\ UpdateStatus(r, "completed")
CancelOrder(r) == "cancel" \in Ops /\ UpdateStatus(r, "cancelled")

\* restoreStock of a cancellation: the increments run concurrently.
RestoreLine(r) ==
    /\ req[r].pc = "restore"
    /\ \E i \in Left(r) :
          /\ RecordAdjustment(req[r].moves[i].res, req[r].moves[i].delta, "orders")
          /\ Progress(r, i, "saveStatus")
    /\ UNCHANGED order

SaveStatus(r) ==
    /\ req[r].pc = "saveStatus"
    /\ order' = [order EXCEPT ![req[r].oid].status = req[r].target]
    /\ Finish(r)
    /\ UNCHANGED <<resource, ledger>>

\* The process dies, or an await throws where nothing catches: the handler
\* ends and what it did so far stays.
Crash(r) ==
    /\ req[r].pc \in Crashing
    /\ Finish(r)
    /\ UNCHANGED <<resource, ledger, order>>

\* attachInvoice / detachInvoice: one UPDATE over a set of orders, whoever
\* holds them.  Called by the invoice flow.
LinkInvoice(os, i) ==
    /\ order' = [o \in OrderIds |->
                    IF o \in os THEN [order[o] EXCEPT !.invoice = i] ELSE order[o]]
    /\ UNCHANGED <<resource, ledger, req>>

AttachInvoice ==
    /\ "invoice" \in Ops
    /\ \E o \in OrderIds, i \in Invoices :
          order[o].status \in OrderStatus /\ LinkInvoice({o}, i)

DetachInvoice ==
    /\ "invoice" \in Ops
    /\ \E o \in OrderIds :
          order[o].invoice # NoInvoice /\ LinkInvoice({o}, NoInvoice)

-----------------------------------------------------------------------------

Init ==
    /\ resource = [x \in Resources |->
                      [state |-> "absent", available |-> 0, factor |-> 0]]
    /\ ledger = [p \in Products |-> [orders |-> 0, manual |-> 0]]
    /\ order = [o \in OrderIds |-> NoRow]
    /\ req = [r \in Requests |-> Idle]

ResourceStep ==
    \/ \E x \in Resources : CreateResource(x) \/ DeleteResource(x)
    \/ \E p \in Products : UpdateResource(p) \/ AdjustStock(p)

Begin(r) == CreateOrder(r) \/ EditOrder(r) \/ CompleteOrder(r) \/ CancelOrder(r)

Continue(r) ==
    \/ BuildLine(r) \/ ReserveLine(r) \/ ReleaseLine(r) \/ PersistOrder(r)
    \/ ReconcileLine(r) \/ RollbackLine(r) \/ SaveItems(r)
    \/ RestoreLine(r) \/ SaveStatus(r)

OrderStep == \E r \in Requests : Begin(r) \/ Continue(r) \/ Crash(r)

Next == ResourceStep \/ OrderStep \/ AttachInvoice \/ DetachInvoice

Spec == Init /\ [][Next]_vars

\* Every await of a handler is answered.
FairSpec == Spec /\ \A r \in Requests : WF_vars(Continue(r))

-----------------------------------------------------------------------------
(* Properties *)

ResourceRow == [state : {"absent", "live", "deleted"}, available : Int, factor : Nat]

OrderRow == [status : OrderStatus \cup {"absent"}, items : Items,
             invoice : Invoices \cup {NoInvoice}]

Handler == [pc : Steps \cup {"idle"}, oid : OrderIds \cup {NoOrder},
            target : OrderStatus, cart : Seq(Line), items : Items, old : Items,
            moves : Seq(Move), done : SUBSET Nat]

\* Every column, and every local variable of a handler, has its type.
TypeOK ==
    /\ resource \in [Resources -> ResourceRow]
    /\ ledger \in [Products -> [orders : Int, manual : Int]]
    /\ order \in [OrderIds -> OrderRow]
    /\ req \in [Requests -> Handler]

\* The local variables of a handler agree: while it builds its items there is
\* a line left to read, and only planned movements are ever done.
LocalsAgree ==
    \A r \in Requests : /\ req[r].pc = "build" => req[r].cart # <<>>
                        /\ req[r].done \subseteq DOMAIN req[r].moves

\* However requests interleave, fail or die, no product is taken below zero
\* (the guard of recordAdjustment's UPDATE).
StockNeverNegative == \A x \in Resources : resource[x].available >= 0

\* The stock of a product is what it was created with plus its ledger rows:
\* "Every change to a product's availableQuantity records one row".
LedgerExplainsStock ==
    \A p \in Products : resource[p].state = "live" =>
        resource[p].available = Opening[p] + ledger[p].orders + ledger[p].manual

LiveOrders == {o \in OrderIds : order[o].status \in {"pending", "completed"}}

\* Units of p that orders hold, by their stored items.
Reserved(p) ==
    SumFunctionOnSet([o \in OrderIds |-> order[o].items.units[p]], LiveOrders)

\* Units of p that the handler q has taken out of stock, net of those it put back,
\* and that no stored order shows yet.
Held(p, q) ==
    SumFunctionOnSet([i \in DOMAIN q.moves |-> -q.moves[i].delta],
                     {i \in q.done : q.moves[i].res = p})

InFlight(p) == SumFunctionOnSet([r \in Requests |-> Held(p, req[r])], Requests)

\* Stock reservation is exact: the units the order rows of the ledger took out
\* are those the live orders hold, plus what the running handlers moved.  No
\* shortage, failed save, edit or cancellation loses or invents a unit.
ReservationsBalance ==
    \A p \in Products : resource[p].state = "live" =>
        -ledger[p].orders = Reserved(p) + InFlight(p)

\* Nothing is sold twice: a unit may be stranded by a handler that died, but
\* every unit a live order holds was taken out of stock and not put back.
NothingOversold ==
    \A p \in Products : resource[p].state = "live" =>
        -ledger[p].orders >= Reserved(p) + InFlight(p)

\* The statuses of its order that a handler has checked, or implied by
\* creating it, and on which its remaining steps rely.
Expected(q) ==
    CASE q.pc = "build" -> {"absent", "pending"}
      [] q.pc \in {"reserve", "release", "persist"} -> {"absent"}
      [] q.pc \in {"reconcile", "rollback", "saveItems"} -> {"pending"}
      [] OTHER -> {s \in OrderStatus : q.target \in ORDER_TRANSITIONS[s]}

\* What a handler read of its order before its awaits still holds when it
\* acts on it: no check is stale, and it is the only handler on the order.
ReadsStayTrue ==
    \A r \in Requests : req[r].pc # "idle" =>
        /\ req[r].oid \in OrderIds
        /\ order[req[r].oid].status \in Expected(req[r])
        /\ order[req[r].oid].items = req[r].old
        /\ \A q \in Requests \ {r} : req[q].oid # req[r].oid

\* The status of an order only follows ORDER_TRANSITIONS from the pending it
\* is created with; in particular "CANCELLED is terminal".
StatusFollowsTransitions ==
    [][\A o \in OrderIds : order'[o].status # order[o].status =>
          IF order[o].status = "absent" THEN order'[o].status = "pending"
          ELSE order'[o].status \in ORDER_TRANSITIONS[order[o].status]]_vars

\* Finished work is not re-priced: the items of an order change only while it
\* is pending.
FinishedWorkIsFrozen ==
    [][\A o \in OrderIds : order'[o].items # order[o].items =>
          order[o].status \in {"absent", "pending"}]_vars

\* Every request is answered: no handler waits for ever.
EveryRequestEnds == \A r \in Requests : req[r].pc # "idle" ~> req[r].pc = "idle"

=============================================================================
