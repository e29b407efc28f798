---------------------------- MODULE OrdersProofs ----------------------------
(***************************************************************************)
(* Theorems about Orders, for every number of products, orders, requests   *)
(* and item lists.                                                         *)
(***************************************************************************)
EXTENDS Orders, SumLemmas, SequenceTheorems

-----------------------------------------------------------------------------
(* Types *)

\* An idle handler is a handler.
LEMMA IdleType == Idle \in Handler
<1>. NoItems \in Items
  BY DEF NoItems, Items, Snapshot
<1>. QED
  BY DEF Idle, Handler, OrderStatus

\* Snapshotting one more line gives items again.
LEMMA PushType ==
  ASSUME NEW items \in Items, NEW res \in Resources, NEW base \in Nat
  PROVE  Push(items, res, base) \in Items
BY DEF Push, Items, Snapshot

\* The three plans are sequences of movements.
LEMMA ReserveType ==
  ASSUME NEW items \in Items
  PROVE  Reserve(items) \in Seq(Move) /\ Restore(items) \in Seq(Move)
<1>1. /\ items.lines \in Seq(Snapshot)
      /\ \A i \in DOMAIN items.lines :
            items.lines[i].res \in Resources /\ items.lines[i].base \in Nat
  <2>1. items.lines \in Seq(Snapshot)
    BY DEF Items
  <2>2. \A i \in DOMAIN items.lines : items.lines[i] \in Snapshot
    BY <2>1
  <2>. QED
    BY <2>1, <2>2 DEF Snapshot
<1>2. PICK n \in Nat : DOMAIN items.lines = 1 .. n
  BY <1>1
<1>3. Reserve(items) \in [1 .. n -> Move]
  BY <1>1, <1>2 DEF Reserve, Move
<1>4. Restore(items) \in [1 .. n -> Move]
  BY <1>1, <1>2 DEF Restore, Move
<1>. QED
  BY <1>2, <1>3, <1>4

LEMMA ReconcileType ==
  ASSUME NEW old \in Items, NEW new \in Items
  PROVE  Reconcile(old, new) \in Seq(Move)
<1>. DEFINE lines == old.lines \o new.lines
            Moves(i) == /\ lines[i].res \in Products
                        /\ \A k \in 1 .. i - 1 : lines[k].res # lines[i].res
            units(p) == old.units[p] - new.units[p]
            move(i) == [res |-> lines[i].res,
                        delta |-> IF Moves(i) THEN units(lines[i].res) ELSE 0]
<1>1. lines \in Seq(Snapshot)
  BY DEF Items
<1>2. \A p \in Products : units(p) \in Int
  BY DEF Items
<1>3. Reconcile(old, new) = [i \in DOMAIN lines |-> move(i)]
  BY DEF Reconcile
<1>. HIDE DEF lines, Moves, units
<1>4. PICK n \in Nat : DOMAIN lines = 1 .. n
  BY <1>1
<1>5. ASSUME NEW i \in 1 .. n
      PROVE  move(i) \in Move
  <2>1. lines[i] \in Snapshot
    BY <1>1, <1>4
  <2>2. lines[i].res \in Resources
    BY <2>1 DEF Snapshot
  <2>3. Moves(i) => units(lines[i].res) \in Int
    BY <1>2 DEF Moves
  <2>. QED
    BY <2>2, <2>3 DEF Move
<1>6. [i \in 1 .. n |-> move(i)] \in [1 .. n -> Move]
  BY <1>5
<1>. QED
  BY <1>3, <1>4, <1>6

\* A handler that goes on, falls back or ends is still a handler.
LEMMA ProgressType ==
  ASSUME TypeOK, NEW r \in Requests, NEW i \in Nat, NEW next \in Steps,
         Progress(r, i, next)
  PROVE  req' \in [Requests -> Handler]
<1>1. req[r] \in Handler
  BY DEF TypeOK
<1>2. \A pc \in Steps \cup {"idle"} :
          [req[r] EXCEPT !.done = req[r].done \cup {i}, !.pc = pc] \in Handler
  BY <1>1 DEF Handler
<1>3. req[r].pc \in Steps \cup {"idle"}
  BY <1>1 DEF Handler
<1>. QED
  BY <1>2, <1>3 DEF TypeOK, Progress

LEMMA RegressType ==
  ASSUME TypeOK, NEW r \in Requests, NEW i \in Nat, Regress(r, i)
  PROVE  req' \in [Requests -> Handler]
<1>1. req[r] \in Handler
  BY DEF TypeOK
<1>2. [req[r] EXCEPT !.done = req[r].done \ {i}] \in Handler
  BY <1>1 DEF Handler
<1>. QED
  BY <1>2, IdleType DEF TypeOK, Regress

LEMMA AbortType ==
  ASSUME TypeOK, NEW r \in Requests, NEW step \in Steps, Abort(r, step)
  PROVE  req' \in [Requests -> Handler]
BY IdleType DEF TypeOK, Abort, Handler

LEMMA FinishType ==
  ASSUME TypeOK, NEW r \in Requests, Finish(r)
  PROVE  req' \in [Requests -> Handler]
BY IdleType DEF TypeOK, Finish

LEMMA PlanType ==
  ASSUME NEW q \in Handler, NEW moves \in Seq(Move), NEW step \in Steps,
         NEW next \in Steps
  PROVE  Plan(q, moves, step, next) \in Handler
BY DEF Plan, Handler

\* A stock movement keeps the types of the tables it writes.
LEMMA AdjustmentType ==
  ASSUME TypeOK, NEW p, NEW delta \in Int, NEW kind \in {"orders", "manual"},
         RecordAdjustment(p, delta, kind)
  PROVE  /\ resource' \in [Resources -> ResourceRow]
         /\ ledger' \in [Products -> [orders : Int, manual : Int]]
BY DEF TypeOK, RecordAdjustment, Adjustable, ResourceRow, Resources

\* A handler that snapshots one more line is still a handler.
LEMMA PushLineType ==
  ASSUME TypeOK, NEW q \in Handler, q.cart # <<>>
  PROVE  PushLine(q) \in Handler
<1>. DEFINE line == Head(q.cart)
<1>1. line \in Line /\ Tail(q.cart) \in Seq(Line)
  BY DEF Handler
<1>2. resource[line.res] \in ResourceRow
  BY <1>1 DEF TypeOK, Line
<1>3. BaseUnits(line) \in Nat
  <2>1. line.quantity \in Nat /\ resource[line.res].factor \in Nat
    BY <1>1, <1>2 DEF Line, ResourceRow
  <2>. HIDE DEF line
  <2>. QED
    BY <2>1 DEF BaseUnits
<1>4. Push(q.items, line.res, BaseUnits(line)) \in Items
  BY <1>1, <1>3, PushType DEF Handler, Line
<1>. QED
  BY <1>1, <1>4 DEF PushLine, Handler

LEMMA BuildLineType ==
  ASSUME TypeOK, NEW r \in Requests, BuildLine(r), req[r].cart # <<>>
  PROVE  req' \in [Requests -> Handler]
<1>. DEFINE q == req[r]
            built == PushLine(q)
            reserving == Plan(built, Reserve(built.items), "reserve", "persist")
            editing == Plan(built, Reconcile(q.old, built.items),
                            "reconcile", "saveItems")
<1>1. q \in Handler
  BY DEF TypeOK
<1>2. built \in Handler
  BY <1>1, PushLineType
<1>3. reserving \in Handler /\ editing \in Handler
  <2>1. /\ Reserve(built.items) \in Seq(Move)
        /\ Reconcile(q.old, built.items) \in Seq(Move)
    <3>1. built.items \in Items /\ q.old \in Items
      BY <1>1, <1>2 DEF Handler
    <3>. QED
      BY <3>1, ReserveType, ReconcileType
  <2>2. {"reserve", "persist", "reconcile", "saveItems"} \subseteq Steps
    BY DEF Steps, CatchingSteps
  <2>. QED
    BY <1>2, <2>1, <2>2, PlanType
<1>4. CASE Finish(r)
  BY <1>4, FinishType
<1>5. CASE req' = [req EXCEPT ![r] = IF built.cart # <<>> THEN built
                                     ELSE IF Creating(q) THEN reserving
                                     ELSE editing]
  <2>. HIDE DEF q, built, reserving, editing
  <2>. QED
    BY <1>2, <1>3, <1>5 DEF TypeOK
<1>. QED
  BY <1>4, <1>5 DEF BuildLine

\* The steps of the resource service keep the types.
LEMMA ResourceStepType ==
  ASSUME TypeOK, ResourceStep
  PROVE  TypeOK'
<1>. USE DEF TypeOK
<1>1. ASSUME NEW x \in Resources, CreateResource(x)
      PROVE  TypeOK'
  BY <1>1, OrdersAssumption DEF CreateResource, ResourceRow
<1>2. ASSUME NEW x \in Resources, DeleteResource(x)
      PROVE  TypeOK'
  BY <1>2 DEF DeleteResource, ResourceRow
<1>3. ASSUME NEW p \in Products, UpdateResource(p)
      PROVE  TypeOK'
  <2>1. p \in Resources /\ resource[p] \in ResourceRow
    BY DEF Resources
  <2>2. Levels \subseteq Int /\ Factors \subseteq Nat
    BY OrdersAssumption
  <2>3. /\ \A v \in Levels : [resource[p] EXCEPT !.available = v] \in ResourceRow
        /\ \A f \in Factors : [resource[p] EXCEPT !.factor = f] \in ResourceRow
    BY <2>1, <2>2 DEF ResourceRow
  <2>. QED
    BY <1>3, <2>1, <2>3 DEF UpdateResource
<1>4. ASSUME NEW p \in Products, AdjustStock(p)
      PROVE  TypeOK'
  <2>1. PICK d \in Deltas : RecordAdjustment(p, d, "manual")
    BY <1>4 DEF AdjustStock
  <2>2. d \in Int
    BY OrdersAssumption
  <2>. QED
    BY <1>4, <2>1, <2>2, AdjustmentType DEF AdjustStock
<1>. QED
  BY <1>1, <1>2, <1>3, <1>4 DEF ResourceStep

\* So do the reads a handler begins with.
LEMMA BeginType ==
  ASSUME TypeOK, NEW r \in Requests, Begin(r)
  PROVE  TypeOK'
<1>1. /\ {"build", "restore", "saveStatus"} \subseteq Steps
      /\ \A o \in OrderIds : order[o] \in OrderRow
      /\ Carts \subseteq Seq(Line)
  BY OrdersAssumption DEF TypeOK, Steps
<1>2. CASE CreateOrder(r)
  <2>1. \A o \in OrderIds, cart \in Carts :
          [Idle EXCEPT !.pc = "build", !.oid = o, !.cart = cart] \in Handler
    BY <1>1, IdleType DEF Handler
  <2>. QED
    BY <1>2, <2>1 DEF CreateOrder, TypeOK
<1>3. CASE EditOrder(r)
  <2>1. \A o \in OrderIds, cart \in Carts :
          [Idle EXCEPT !.pc = "build", !.oid = o, !.cart = cart,
                       !.old = order[o].items] \in Handler
    BY <1>1, IdleType DEF Handler, OrderRow
  <2>. QED
    BY <1>3, <2>1 DEF EditOrder, TypeOK
<1>4. ASSUME NEW target \in OrderStatus, UpdateStatus(r, target)
      PROVE  TypeOK'
  <2>1. PICK o \in OrderIds :
          LET q == [Idle EXCEPT !.oid = o, !.target = target,
                                !.old = order[o].items]
              moves == IF target = "cancelled" THEN Restore(q.old) ELSE <<>>
          IN  req' = [req EXCEPT ![r] = Plan(q, moves, "restore", "saveStatus")]
    BY <1>4 DEF UpdateStatus
  <2>. DEFINE q == [Idle EXCEPT !.oid = o, !.target = target,
                                !.old = order[o].items]
              moves == IF target = "cancelled" THEN Restore(q.old) ELSE <<>>
  <2>2. order[o].items \in Items
    BY <1>1 DEF OrderRow
  <2>3. q \in Handler /\ q.old \in Items
    BY <2>2, IdleType DEF Handler
  <2>4. moves \in Seq(Move)
    BY <2>3, ReserveType
  <2>5. Plan(q, moves, "restore", "saveStatus") \in Handler
    BY <1>1, <2>3, <2>4, PlanType
  <2>. QED
    BY <1>4, <2>1, <2>5 DEF UpdateStatus, TypeOK
<1>5. CASE CompleteOrder(r)
  BY <1>4, <1>5 DEF CompleteOrder, OrderStatus
<1>6. CASE CancelOrder(r)
  BY <1>4, <1>6 DEF CancelOrder, OrderStatus
<1>. QED
  BY <1>2, <1>3, <1>5, <1>6 DEF Begin

\* A movement of a handler, made or undone, keeps the types of the tables.
LEMMA MovementType ==
  ASSUME TypeOK, NEW r \in Requests, NEW i \in DOMAIN req[r].moves
  PROVE  /\ i \in Nat
         /\ req[r].moves[i].res \in Resources
         /\ req[r].moves[i].delta \in Int
         /\ -req[r].moves[i].delta \in Int
<1>1. req[r].moves \in Seq(Move)
  BY DEF TypeOK, Handler
<1>2. i \in Nat /\ req[r].moves[i] \in Move
  BY <1>1
<1>. QED
  BY <1>2 DEF Move

LEMMA ContinueType ==
  ASSUME TypeOK, LocalsAgree, NEW r \in Requests, Continue(r)
  PROVE  TypeOK'
<1>1. \A pc \in {"persist", "saveItems", "saveStatus", "release", "rollback"} :
         pc \in Steps
  BY DEF Steps, CatchingSteps
<1>2. /\ Left(r) \subseteq DOMAIN req[r].moves
      /\ req[r].done \subseteq DOMAIN req[r].moves
  BY DEF Left, ToMake, LocalsAgree
<1>3. CASE BuildLine(r)
  <2>1. req[r].cart # <<>>
    BY <1>3 DEF LocalsAgree, BuildLine
  <2>2. req' \in [Requests -> Handler]
    BY <1>3, <2>1, BuildLineType
  <2>. QED
    BY <1>3, <2>2 DEF BuildLine, TypeOK
<1>4. CASE ReserveLine(r)
  <2>1. PICK i \in Left(r) :
          LET m == req[r].moves[i]
          IN  /\ RecordAdjustment(m.res, m.delta, "orders")
              /\ Progress(r, i, "persist") \/ Abort(r, "release")
    BY <1>4 DEF ReserveLine
  <2>. QED
    BY <1>1, <1>2, <1>4, <2>1, MovementType, AdjustmentType, ProgressType,
       AbortType DEF ReserveLine, TypeOK
<1>5. CASE ReleaseLine(r)
  <2>1. PICK i \in req[r].done :
          /\ RecordAdjustment(req[r].moves[i].res, -req[r].moves[i].delta, "orders")
          /\ Regress(r, i)
    BY <1>5 DEF ReleaseLine
  <2>. QED
    BY <1>2, <1>5, <2>1, MovementType, AdjustmentType, RegressType
    DEF ReleaseLine, TypeOK
<1>6. CASE PersistOrder(r)
  <2>1. req' \in [Requests -> Handler]
    BY <1>1, <1>6, FinishType, AbortType DEF PersistOrder
  <2>2. [status |-> "pending", items |-> req[r].items, invoice |-> NoInvoice]
            \in OrderRow
    BY DEF TypeOK, Handler, OrderRow, OrderStatus
  <2>. QED
    BY <1>6, <2>1, <2>2 DEF PersistOrder, TypeOK
<1>7. CASE ReconcileLine(r)
  <2>1. CASE \E i \in Left(r) :
               LET m == req[r].moves[i]
               IN  /\ RecordAdjustment(m.res, m.delta, "orders")
                   /\ Progress(r, i, "saveItems") \/ Abort(r, "rollback")
    BY <1>1, <1>2, <1>7, <2>1, MovementType, AdjustmentType, ProgressType,
       AbortType DEF ReconcileLine, TypeOK
  <2>2. CASE Abort(r, "rollback") /\ UNCHANGED <<resource, ledger>>
    BY <1>1, <1>7, <2>2, AbortType DEF ReconcileLine, TypeOK
  <2>. QED
    BY <1>7, <2>1, <2>2 DEF ReconcileLine
<1>8. CASE RollbackLine(r)
  <2>1. PICK i \in req[r].done :
          /\ RecordAdjustment(req[r].moves[i].res, -req[r].moves[i].delta, "orders")
          /\ Regress(r, i)
    BY <1>8 DEF RollbackLine
  <2>. QED
    BY <1>2, <1>8, <2>1, MovementType, AdjustmentType, RegressType
    DEF RollbackLine, TypeOK
<1>9. CASE SaveItems(r)
  <2>1. req' \in [Requests -> Handler]
    BY <1>1, <1>9, FinishType, AbortType DEF SaveItems
  <2>2. \A o \in OrderIds : [order[o] EXCEPT !.items = req[r].items] \in OrderRow
    <3>1. req[r].items \in Items
      BY DEF TypeOK, Handler
    <3>2. \A o \in OrderIds : order[o] \in OrderRow
      BY DEF TypeOK
    <3>. QED
      BY <3>1, <3>2 DEF OrderRow
  <2>. QED
    BY <1>9, <2>1, <2>2 DEF SaveItems, TypeOK
<1>10. CASE RestoreLine(r)
  <2>1. PICK i \in Left(r) :
          /\ RecordAdjustment(req[r].moves[i].res, req[r].moves[i].delta, "orders")
          /\ Progress(r, i, "saveStatus")
    BY <1>10 DEF RestoreLine
  <2>. QED
    BY <1>1, <1>2, <1>10, <2>1, MovementType, AdjustmentType, ProgressType
    DEF RestoreLine, TypeOK
<1>11. CASE SaveStatus(r)
  <2>1. req' \in [Requests -> Handler]
    BY <1>11, FinishType DEF SaveStatus
  <2>2. \A o \in OrderIds : [order[o] EXCEPT !.status = req[r].target] \in OrderRow
    <3>1. req[r].target \in OrderStatus
      BY DEF TypeOK, Handler
    <3>2. \A o \in OrderIds : order[o] \in OrderRow
      BY DEF TypeOK
    <3>. QED
      BY <3>1, <3>2 DEF OrderRow
  <2>. QED
    BY <1>11, <2>1, <2>2 DEF SaveStatus, TypeOK
<1>. QED
  BY <1>3, <1>4, <1>5, <1>6, <1>7, <1>8, <1>9, <1>10, <1>11 DEF Continue

LEMMA OtherStepsType ==
  ASSUME TypeOK,
         \/ \E r \in Requests : Crash(r)
         \/ AttachInvoice
         \/ DetachInvoice
         \/ UNCHANGED vars
  PROVE  TypeOK'
<1>1. ASSUME NEW r \in Requests, Crash(r)
      PROVE  TypeOK'
  BY <1>1, FinishType DEF Crash, TypeOK
<1>2. ASSUME NEW os \in SUBSET OrderIds, NEW i \in Invoices \cup {NoInvoice},
             LinkInvoice(os, i)
      PROVE  TypeOK'
  <2>1. \A o \in OrderIds : [order[o] EXCEPT !.invoice = i] \in OrderRow
    BY DEF TypeOK, OrderRow
  <2>. QED
    BY <1>2, <2>1 DEF LinkInvoice, TypeOK
<1>. QED
  BY <1>1, <1>2 DEF AttachInvoice, DetachInvoice, vars, TypeOK

\* Every step keeps the types, given that the local variables agree.
LEMMA StepType ==
  ASSUME TypeOK, LocalsAgree, [Next]_vars
  PROVE  TypeOK'
BY ResourceStepType, BeginType, ContinueType, OtherStepsType DEF Next, OrderStep

-----------------------------------------------------------------------------
(* Local variables *)

\* A step that changes one handler keeps LocalsAgree if that handler's new
\* local variables agree.
LEMMA OneHandler ==
  ASSUME TypeOK, LocalsAgree, NEW r \in Requests, NEW q,
         req' = [req EXCEPT ![r] = q],
         q.pc = "build" => q.cart # <<>>,
         q.done \subseteq DOMAIN q.moves
  PROVE  LocalsAgree'
BY DEF TypeOK, LocalsAgree

\* The ways a handler goes on, falls back or ends.
LEMMA ProgressAgrees ==
  ASSUME TypeOK, LocalsAgree, NEW r \in Requests, NEW i \in DOMAIN req[r].moves,
         NEW next \in Steps \ {"build"}, req[r].pc # "build",
         Progress(r, i, next)
  PROVE  LocalsAgree'
<1>. DEFINE q == [req[r] EXCEPT !.done = req[r].done \cup {i},
                                !.pc = IF Left(r) = {i} THEN next ELSE @]
<1>1. req[r] \in Handler /\ req[r].done \subseteq DOMAIN req[r].moves
  BY DEF TypeOK, LocalsAgree
<1>2. req' = [req EXCEPT ![r] = q]
  BY <1>1 DEF Progress, TypeOK, Handler
<1>3. q.pc # "build" /\ q.done \subseteq DOMAIN q.moves
  BY <1>1 DEF Handler
<1>. QED
  BY <1>2, <1>3, OneHandler

LEMMA FallbackAgrees ==
  ASSUME TypeOK, LocalsAgree, NEW r \in Requests,
         \/ \E i \in req[r].done : req[r].pc # "build" /\ Regress(r, i)
         \/ \E step \in Steps \ {"build"} : Abort(r, step)
         \/ Finish(r)
  PROVE  LocalsAgree'
<1>1. req[r] \in Handler /\ req[r].done \subseteq DOMAIN req[r].moves
  BY DEF TypeOK, LocalsAgree
<1>2. Idle.pc # "build" /\ Idle.done \subseteq DOMAIN Idle.moves
  BY DEF Idle
<1>3. ASSUME NEW i, req[r].pc # "build", Regress(r, i)
      PROVE  LocalsAgree'
  <2>. DEFINE q == [req[r] EXCEPT !.done = req[r].done \ {i}]
  <2>1. q.pc # "build" /\ q.done \subseteq DOMAIN q.moves
    BY <1>1, <1>3 DEF Handler
  <2>. QED
    BY <1>2, <1>3, <2>1, OneHandler DEF Regress
<1>4. ASSUME NEW step \in Steps \ {"build"}, Abort(r, step)
      PROVE  LocalsAgree'
  <2>. DEFINE q == [req[r] EXCEPT !.pc = step]
  <2>1. q.pc # "build" /\ q.done \subseteq DOMAIN q.moves
    BY <1>1 DEF Handler
  <2>. QED
    BY <1>2, <1>4, <2>1, OneHandler DEF Abort
<1>5. CASE Finish(r)
  BY <1>2, <1>5, OneHandler DEF Finish
<1>. QED
  BY <1>3, <1>4, <1>5

\* A freshly planned handler agrees with its plan.
LEMMA PlanAgrees ==
  ASSUME NEW q \in Handler, NEW moves, NEW step, NEW next,
         step # "build", next # "build"
  PROVE  /\ Plan(q, moves, step, next).pc # "build"
         /\ Plan(q, moves, step, next).done
               \subseteq DOMAIN Plan(q, moves, step, next).moves
BY DEF Plan, Handler

LEMMA BeginAgrees ==
  ASSUME TypeOK, LocalsAgree, NEW r \in Requests, Begin(r)
  PROVE  LocalsAgree'
<1>1. \A cart \in Carts : cart # <<>>
  BY OrdersAssumption
<1>2. CASE CreateOrder(r)
  <2>1. PICK o \in OrderIds, cart \in Carts :
          req' = [req EXCEPT ![r] =
                     [Idle EXCEPT !.pc = "build", !.oid = o, !.cart = cart]]
    BY <1>2 DEF CreateOrder
  <2>. QED
    BY <1>1, <2>1, OneHandler DEF Idle
<1>3. CASE EditOrder(r)
  <2>1. PICK o \in OrderIds, cart \in Carts :
          req' = [req EXCEPT ![r] =
                     [Idle EXCEPT !.pc = "build", !.oid = o, !.cart = cart,
                                  !.old = order[o].items]]
    BY <1>3 DEF EditOrder
  <2>. QED
    BY <1>1, <2>1, OneHandler DEF Idle
<1>4. ASSUME NEW target \in OrderStatus, UpdateStatus(r, target)
      PROVE  LocalsAgree'
  <2>1. PICK o \in OrderIds :
          LET q == [Idle EXCEPT !.oid = o, !.target = target,
                                !.old = order[o].items]
              moves == IF target = "cancelled" THEN Restore(q.old) ELSE <<>>
          IN  req' = [req EXCEPT ![r] = Plan(q, moves, "restore", "saveStatus")]
    BY <1>4 DEF UpdateStatus
  <2>. DEFINE q == [Idle EXCEPT !.oid = o, !.target = target,
                                !.old = order[o].items]
              moves == IF target = "cancelled" THEN Restore(q.old) ELSE <<>>
  <2>2. q \in Handler
    BY IdleType DEF Handler, TypeOK, OrderRow
  <2>3. req' = [req EXCEPT ![r] = Plan(q, moves, "restore", "saveStatus")]
    BY <2>1
  <2>. HIDE DEF q, moves
  <2>. QED
    BY <2>2, <2>3, PlanAgrees, OneHandler
<1>. QED
  BY <1>2, <1>3, <1>4 DEF Begin, CompleteOrder, CancelOrder, OrderStatus

LEMMA BuildAgrees ==
  ASSUME TypeOK, LocalsAgree, NEW r \in Requests, BuildLine(r)
  PROVE  LocalsAgree'
<1>. DEFINE q == req[r]
            built == PushLine(q)
            reserving == Plan(built, Reserve(built.items), "reserve", "persist")
            editing == Plan(built, Reconcile(q.old, built.items),
                            "reconcile", "saveItems")
<1>1. q \in Handler /\ q.done \subseteq DOMAIN q.moves
  BY DEF TypeOK, LocalsAgree
<1>2. built \in Handler
  BY <1>1, PushLineType DEF BuildLine, LocalsAgree
<1>3. built.done \subseteq DOMAIN built.moves
  BY <1>1 DEF PushLine, Handler
<1>4. CASE Finish(r)
  BY <1>4, FallbackAgrees
<1>5. CASE built.cart # <<>> /\ req' = [req EXCEPT ![r] = built]
  BY <1>3, <1>5, OneHandler
<1>6. CASE req' = [req EXCEPT ![r] = reserving]
  <2>1. /\ reserving.pc # "build"
        /\ reserving.done \subseteq DOMAIN reserving.moves
    BY <1>2, PlanAgrees
  <2>. HIDE DEF reserving
  <2>. QED
    BY <1>6, <2>1, OneHandler
<1>7. CASE req' = [req EXCEPT ![r] = editing]
  <2>1. editing.pc # "build" /\ editing.done \subseteq DOMAIN editing.moves
    BY <1>2, PlanAgrees
  <2>. HIDE DEF editing
  <2>. QED
    BY <1>7, <2>1, OneHandler
<1>. QED
  BY <1>4, <1>5, <1>6, <1>7 DEF BuildLine

\* Every step keeps the local variables in agreement.
LEMMA StepAgrees ==
  ASSUME TypeOK, LocalsAgree, [Next]_vars
  PROVE  LocalsAgree'
<1>1. {"persist", "saveItems", "saveStatus", "release", "rollback"}
         \subseteq Steps \ {"build"}
  BY DEF Steps, CatchingSteps
<1>2. \A r \in Requests : Left(r) \subseteq DOMAIN req[r].moves
  BY DEF Left, ToMake
<1>3. CASE req' = req
  BY <1>3 DEF LocalsAgree
<1>4. ASSUME NEW r \in Requests, Begin(r)
      PROVE  LocalsAgree'
  BY <1>4, BeginAgrees
<1>5. ASSUME NEW r \in Requests, Continue(r)
      PROVE  LocalsAgree'
  <2>1. CASE BuildLine(r)
    BY <2>1, BuildAgrees
  <2>2. CASE ReserveLine(r) \/ ReconcileLine(r) \/ RestoreLine(r)
    BY <1>1, <1>2, <2>2, ProgressAgrees, FallbackAgrees
    DEF ReserveLine, ReconcileLine, RestoreLine
  <2>3. CASE ReleaseLine(r) \/ RollbackLine(r)
    BY <2>3, FallbackAgrees DEF ReleaseLine, RollbackLine
  <2>4. CASE PersistOrder(r) \/ SaveItems(r) \/ SaveStatus(r)
    BY <1>1, <2>4, FallbackAgrees DEF PersistOrder, SaveItems, SaveStatus
  <2>. QED
    BY <1>5, <2>1, <2>2, <2>3, <2>4 DEF Continue
<1>6. ASSUME NEW r \in Requests, Crash(r)
      PROVE  LocalsAgree'
  BY <1>6, FallbackAgrees DEF Crash
<1>. QED
  BY <1>3, <1>4, <1>5, <1>6
  DEF Next, OrderStep, ResourceStep, CreateResource, DeleteResource,
      UpdateResource, AdjustStock, AttachInvoice, DetachInvoice, LinkInvoice, vars

\* The types hold of the empty tables.
LEMMA InitTyped == Init => TypeOK /\ LocalsAgree
<1>. SUFFICES ASSUME Init PROVE TypeOK /\ LocalsAgree
  OBVIOUS
<1>1. NoRow \in OrderRow
  BY IdleType DEF NoRow, OrderRow, Idle, Handler
<1>. QED
  BY <1>1, IdleType DEF Init, TypeOK, LocalsAgree, ResourceRow, Idle

\* The types, and the agreement of each handler's local variables, hold in
\* every reachable state, however the requests interleave, fail or die.
THEOREM TypesHold == Spec => [](TypeOK /\ LocalsAgree)
BY InitTyped, StepType, StepAgrees, PTL DEF Spec

-----------------------------------------------------------------------------
(* Stock *)

\* recordAdjustment keeps stock non-negative, whatever its delta.
LEMMA AdjustmentNonNegative ==
  ASSUME TypeOK, StockNeverNegative, NEW p, NEW delta \in Int, NEW kind,
         RecordAdjustment(p, delta, kind)
  PROVE  StockNeverNegative'
BY DEF TypeOK, StockNeverNegative, RecordAdjustment, Adjustable, ResourceRow,
       Resources

\* recordAdjustment changes stock and ledger by the same amount.
LEMMA AdjustmentExplained ==
  ASSUME TypeOK, LedgerExplainsStock, NEW p, NEW delta \in Int,
         NEW kind \in {"orders", "manual"}, RecordAdjustment(p, delta, kind)
  PROVE  LedgerExplainsStock'
<1>1. \A x \in Products : /\ x \in Resources
                          /\ resource[x] \in ResourceRow
                          /\ ledger[x] \in [orders : Int, manual : Int]
                          /\ Opening[x] \in Int
  BY OrdersAssumption DEF TypeOK, Resources
<1>. QED
  BY <1>1 DEF TypeOK, LedgerExplainsStock, RecordAdjustment, Adjustable, ResourceRow

\* The steps that touch no stock, and those that touch it by an adjustment.
LEMMA StockSteps ==
  ASSUME TypeOK, LocalsAgree, [Next]_vars
  PROVE  \/ UNCHANGED <<resource, ledger>>
         \/ \E x \in Resources : CreateResource(x) \/ DeleteResource(x)
         \/ \E p \in Products : UpdateResource(p)
         \/ \E p \in Resources, delta \in Int, kind \in {"orders", "manual"} :
               RecordAdjustment(p, delta, kind)
<1>. DEFINE Adjusts == \E p \in Resources, delta \in Int, kind \in {"orders", "manual"} :
                          RecordAdjustment(p, delta, kind)
<1>1. ASSUME NEW p \in Products, AdjustStock(p)
      PROVE  Adjusts
  <2>1. PICK d \in Deltas : RecordAdjustment(p, d, "manual")
    BY <1>1 DEF AdjustStock
  <2>2. d \in Int /\ p \in Resources
    BY OrdersAssumption DEF Resources
  <2>. QED
    BY <2>1, <2>2
<1>2. ASSUME NEW r \in Requests, NEW i \in DOMAIN req[r].moves,
             \/ RecordAdjustment(req[r].moves[i].res, req[r].moves[i].delta, "orders")
             \/ RecordAdjustment(req[r].moves[i].res, -req[r].moves[i].delta, "orders")
      PROVE  Adjusts
  BY <1>2, MovementType
<1>3. \A r \in Requests : /\ Left(r) \subseteq DOMAIN req[r].moves
                          /\ req[r].done \subseteq DOMAIN req[r].moves
  BY DEF Left, ToMake, LocalsAgree
<1>4. ASSUME NEW r \in Requests, Continue(r)
      PROVE  UNCHANGED <<resource, ledger>> \/ Adjusts
  <2>1. CASE BuildLine(r) \/ PersistOrder(r) \/ SaveItems(r) \/ SaveStatus(r)
    BY <2>1 DEF BuildLine, PersistOrder, SaveItems, SaveStatus
  <2>2. CASE ReserveLine(r) \/ RestoreLine(r)
    BY <1>2, <1>3, <2>2 DEF ReserveLine, RestoreLine
  <2>3. CASE ReconcileLine(r)
    BY <1>2, <1>3, <2>3 DEF ReconcileLine
  <2>4. CASE ReleaseLine(r) \/ RollbackLine(r)
    BY <1>2, <1>3, <2>4 DEF ReleaseLine, RollbackLine
  <2>. QED
    BY <1>4, <2>1, <2>2, <2>3, <2>4 DEF Continue
<1>5. ASSUME NEW r \in Requests, Begin(r) \/ Crash(r)
      PROVE  UNCHANGED <<resource, ledger>>
  BY <1>5 DEF Begin, CreateOrder, EditOrder, CompleteOrder, CancelOrder,
              UpdateStatus, Crash
<1>6. ASSUME AttachInvoice \/ DetachInvoice \/ UNCHANGED vars
      PROVE  UNCHANGED <<resource, ledger>>
  BY <1>6 DEF AttachInvoice, DetachInvoice, LinkInvoice, vars
<1>. QED
  BY <1>1, <1>4, <1>5, <1>6 DEF Next, OrderStep, ResourceStep

LEMMA StepNonNegative ==
  ASSUME TypeOK, LocalsAgree, StockNeverNegative, [Next]_vars
  PROVE  StockNeverNegative'
<1>1. CASE UNCHANGED <<resource, ledger>>
  BY <1>1 DEF StockNeverNegative
<1>2. ASSUME NEW x \in Resources, CreateResource(x) \/ DeleteResource(x)
      PROVE  StockNeverNegative'
  <2>1. \A p \in Products : Opening[p] >= 0
    BY OrdersAssumption
  <2>2. resource'[x].available >= 0
    BY <1>2, <2>1 DEF CreateResource, DeleteResource, TypeOK
  <2>3. \A y \in Resources \ {x} : resource'[y] = resource[y]
    BY <1>2 DEF CreateResource, DeleteResource, TypeOK
  <2>. QED
    BY <2>2, <2>3 DEF StockNeverNegative
<1>3. ASSUME NEW p \in Products, UpdateResource(p)
      PROVE  StockNeverNegative'
  <2>1. p \in Resources /\ resource[p] \in ResourceRow
        /\ \A v \in Levels : v >= 0
    BY OrdersAssumption DEF Resources, TypeOK
  <2>2. resource'[p].available >= 0
    BY <1>3, <2>1 DEF UpdateResource, StockNeverNegative, TypeOK, ResourceRow
  <2>3. \A y \in Resources \ {p} : resource'[y] = resource[y]
    BY <1>3 DEF UpdateResource, TypeOK
  <2>. QED
    BY <2>2, <2>3 DEF StockNeverNegative
<1>4. ASSUME NEW p, NEW delta \in Int, NEW kind \in {"orders", "manual"},
             RecordAdjustment(p, delta, kind)
      PROVE  StockNeverNegative'
  BY <1>4, AdjustmentNonNegative
<1>. QED
  BY <1>1, <1>2, <1>3, <1>4, StockSteps

\* No product is ever taken below zero: whatever requests run, on however many
\* products and orders, overlapping, failing and dying anywhere.
THEOREM StockIsNeverNegative == Spec => []StockNeverNegative
<1>1. Init => StockNeverNegative
  BY DEF Init, StockNeverNegative
<1>2. TypeOK /\ LocalsAgree /\ StockNeverNegative /\ [Next]_vars
         => StockNeverNegative'
  BY StepNonNegative
<1>. QED
  BY <1>1, <1>2, TypesHold, PTL DEF Spec

\* A product that does not exist yet has no ledger rows.
NoRowsYet ==
    \A p \in Products : resource[p].state = "absent" =>
        ledger[p].orders = 0 /\ ledger[p].manual = 0

LEMMA StepExplained ==
  ASSUME TypeOK, LocalsAgree, NoRowsYet, LedgerExplainsStock,
         "setLevel" \notin Ops, [Next]_vars
  PROVE  NoRowsYet' /\ LedgerExplainsStock'
<1>. USE DEF NoRowsYet
<1>1. CASE UNCHANGED <<resource, ledger>>
  BY <1>1 DEF LedgerExplainsStock
<1>2. ASSUME NEW x \in Resources, CreateResource(x) \/ DeleteResource(x)
      PROVE  NoRowsYet' /\ LedgerExplainsStock'
  <2>1. /\ \A p \in Products : p \in Resources /\ Opening[p] \in Int
        /\ ledger' = ledger
    BY <1>2, OrdersAssumption DEF Resources, CreateResource, DeleteResource
  <2>2. CASE CreateResource(x)
    BY <2>1, <2>2 DEF CreateResource, LedgerExplainsStock, TypeOK
  <2>3. CASE DeleteResource(x)
    BY <2>1, <2>3 DEF DeleteResource, LedgerExplainsStock, TypeOK
  <2>. QED
    BY <1>2, <2>2, <2>3
<1>3. ASSUME NEW p \in Products, UpdateResource(p)
      PROVE  NoRowsYet' /\ LedgerExplainsStock'
  <2>1. PICK f \in Factors : resource' = [resource EXCEPT ![p].factor = f]
    BY <1>3 DEF UpdateResource
  <2>2. \A x \in Products : /\ resource'[x].state = resource[x].state
                            /\ resource'[x].available = resource[x].available
    BY <2>1 DEF TypeOK, ResourceRow, Resources
  <2>. QED
    BY <1>3, <2>2 DEF UpdateResource, LedgerExplainsStock
<1>4. ASSUME NEW p, NEW delta \in Int, NEW kind \in {"orders", "manual"},
             RecordAdjustment(p, delta, kind)
      PROVE  NoRowsYet' /\ LedgerExplainsStock'
  <2>1. LedgerExplainsStock'
    BY <1>4, AdjustmentExplained
  <2>2. NoRowsYet'
    BY <1>4 DEF RecordAdjustment, Adjustable, TypeOK, ResourceRow, Resources
  <2>. QED
    BY <2>1, <2>2
<1>. QED
  BY <1>1, <1>2, <1>3, <1>4, StockSteps

\* As long as nobody sets a product's stock by a PATCH, its ledger explains it,
\* row by row, in every reachable state of every instance.
THEOREM StockIsExplained ==
  ASSUME "setLevel" \notin Ops
  PROVE  Spec => []LedgerExplainsStock
<1>1. Init => NoRowsYet /\ LedgerExplainsStock
  BY DEF Init, NoRowsYet, LedgerExplainsStock, Resources
<1>2. TypeOK /\ LocalsAgree /\ NoRowsYet /\ LedgerExplainsStock /\ [Next]_vars
         => NoRowsYet' /\ LedgerExplainsStock'
  BY StepExplained
<1>. QED
  BY <1>1, <1>2, TypesHold, PTL DEF Spec

-----------------------------------------------------------------------------
(* One request at a time on each order *)

\* A row that has not been inserted has no items.
EmptyRows == \A o \in OrderIds : order[o].status = "absent" => order[o].items = NoItems

Sound == TypeOK /\ LocalsAgree /\ EmptyRows /\ ReadsStayTrue

\* A handler that acts on no order, or alone on one that is as it expects.
Alone(r, q) ==
    \/ q = Idle
    \/ /\ q.oid \in OrderIds
       /\ order[q.oid].status \in Expected(q)
       /\ order[q.oid].items = q.old
       /\ \A p \in Requests \ {r} : req[p].oid # q.oid

\* A step that only replaces handler r by such a handler leaves every read true.
LEMMA ReadsGoOn ==
  ASSUME TypeOK, ReadsStayTrue, NEW r \in Requests, NEW q,
         req' = [req EXCEPT ![r] = q],
         \A o \in OrderIds : /\ order'[o].status = order[o].status
                             /\ order'[o].items = order[o].items,
         Alone(r, q)
  PROVE  ReadsStayTrue'
<1>1. req'[r] = q /\ \A p \in Requests \ {r} : req'[p] = req[p]
  BY DEF TypeOK
<1>2. Idle.oid = NoOrder /\ Idle.pc = "idle" /\ NoOrder \notin OrderIds
  BY OrdersAssumption DEF Idle
<1>3. ASSUME NEW p \in Requests \ {r}, req[p].pc # "idle"
      PROVE  q.oid # req[p].oid
  BY <1>2, <1>3 DEF Alone, ReadsStayTrue
<1>. QED
  BY <1>1, <1>2, <1>3 DEF ReadsStayTrue, Alone

\* So does a step that ends handler r and changes its order.
LEMMA ReadsFinish ==
  ASSUME TypeOK, ReadsStayTrue, NEW r \in Requests, Finish(r),
         \A o \in OrderIds \ {req[r].oid} : order'[o] = order[o]
  PROVE  ReadsStayTrue'
<1>1. req'[r] = Idle /\ \A p \in Requests \ {r} : req'[p] = req[p]
  BY DEF TypeOK, Finish
<1>2. Idle.oid = NoOrder /\ Idle.pc = "idle" /\ NoOrder \notin OrderIds
  BY OrdersAssumption DEF Idle
<1>. QED
  BY <1>1, <1>2 DEF ReadsStayTrue

\* A busy handler that only moves on expects no more of its order.
LEMMA MovesOn ==
  ASSUME TypeOK, ReadsStayTrue, NEW r \in Requests, req[r].pc # "idle", NEW q,
         q.oid = req[r].oid, q.old = req[r].old,
         order[req[r].oid].status \in Expected(q)
  PROVE  Alone(r, q)
BY DEF Alone, ReadsStayTrue

LEMMA BeginReads ==
  ASSUME Sound, ~Overlap, NEW r \in Requests, Begin(r)
  PROVE  ReadsStayTrue'
<1>. USE DEF Sound
<1>1. order' = order
  BY DEF Begin, CreateOrder, EditOrder, CompleteOrder, CancelOrder, UpdateStatus
<1>2. CASE CreateOrder(r)
  <2>1. PICK o \in OrderIds, cart \in Carts :
          /\ order[o].status = "absent"
          /\ \A q \in Requests : req[q].oid # o
          /\ req' = [req EXCEPT ![r] =
                        [Idle EXCEPT !.pc = "build", !.oid = o, !.cart = cart]]
    BY <1>2 DEF CreateOrder
  <2>. DEFINE q == [Idle EXCEPT !.pc = "build", !.oid = o, !.cart = cart]
  <2>2. q.pc = "build" /\ q.oid = o /\ q.old = NoItems
    BY DEF Idle
  <2>3. Alone(r, q)
    BY <2>1, <2>2 DEF Alone, Expected, EmptyRows
  <2>. QED
    BY <1>1, <2>1, <2>3, ReadsGoOn
<1>3. CASE EditOrder(r)
  <2>1. PICK o \in OrderIds, cart \in Carts :
          /\ Free(o)
          /\ order[o].status = "pending"
          /\ req' = [req EXCEPT ![r] =
                        [Idle EXCEPT !.pc = "build", !.oid = o, !.cart = cart,
                                     !.old = order[o].items]]
    BY <1>3 DEF EditOrder
  <2>. DEFINE q == [Idle EXCEPT !.pc = "build", !.oid = o, !.cart = cart,
                                !.old = order[o].items]
  <2>2. q.pc = "build" /\ q.oid = o /\ q.old = order[o].items
    BY DEF Idle
  <2>3. Alone(r, q)
    BY <2>1, <2>2 DEF Alone, Expected, Free
  <2>. QED
    BY <1>1, <2>1, <2>3, ReadsGoOn
<1>4. ASSUME NEW target \in OrderStatus, UpdateStatus(r, target)
      PROVE  ReadsStayTrue'
  <2>1. PICK o \in OrderIds :
          /\ Free(o)
          /\ order[o].status \in OrderStatus
          /\ target \in ORDER_TRANSITIONS[order[o].status]
          /\ LET q == [Idle EXCEPT !.oid = o, !.target = target,
                                   !.old = order[o].items]
                 moves == IF target = "cancelled" THEN Restore(q.old) ELSE <<>>
             IN  req' = [req EXCEPT ![r] = Plan(q, moves, "restore", "saveStatus")]
    BY <1>4 DEF UpdateStatus
  <2>. DEFINE q == [Idle EXCEPT !.oid = o, !.target = target,
                                !.old = order[o].items]
              moves == IF target = "cancelled" THEN Restore(q.old) ELSE <<>>
              planned == Plan(q, moves, "restore", "saveStatus")
  <2>2. /\ planned.pc \in {"restore", "saveStatus"}
        /\ planned.oid = o
        /\ planned.target = target
        /\ planned.old = order[o].items
    <3>1. /\ q.oid = o /\ q.target = target /\ q.old = order[o].items
          /\ DOMAIN q = DOMAIN Idle
      BY DEF Idle
    <3>2. q \in Handler
      BY IdleType DEF Handler, TypeOK, OrderRow
    <3>. HIDE DEF q, moves
    <3>. QED
      BY <3>1, <3>2 DEF Plan, Handler
  <2>3. Alone(r, planned)
    <3>. HIDE DEF planned
    <3>. QED
      BY <2>1, <2>2 DEF Alone, Expected, Free
  <2>4. req' = [req EXCEPT ![r] = planned]
    BY <2>1
  <2>. HIDE DEF planned
  <2>. QED
    BY <1>1, <2>3, <2>4, ReadsGoOn
<1>. QED
  BY <1>2, <1>3, <1>4 DEF Begin, CompleteOrder, CancelOrder, OrderStatus

\* A handler that moves stock, falls back or ends, and leaves its order alone.
LEMMA MovingReads ==
  ASSUME Sound, NEW r \in Requests, req[r].pc # "idle", order' = order,
         NEW i, NEW next,
         Progress(r, i, next) \/ Regress(r, i) \/ Abort(r, next) \/ Finish(r),
         \A q : q.pc = next /\ q.target = req[r].target
                  => order[req[r].oid].status \in Expected(q)
  PROVE  ReadsStayTrue'
<1>. USE DEF Sound
<1>1. req[r] \in Handler
  BY DEF TypeOK
<1>2. order[req[r].oid].status \in Expected(req[r])
  BY DEF ReadsStayTrue
<1>3. Alone(r, Idle)
  BY DEF Alone
<1>4. CASE Progress(r, i, next)
  <2>. DEFINE q == [req[r] EXCEPT !.done = req[r].done \cup {i},
                                  !.pc = IF Left(r) = {i} THEN next ELSE @]
  <2>1. req' = [req EXCEPT ![r] = q]
    BY <1>1, <1>4 DEF Progress, TypeOK, Handler
  <2>2. /\ q.oid = req[r].oid /\ q.old = req[r].old /\ q.target = req[r].target
        /\ q.pc = next \/ q.pc = req[r].pc
    BY <1>1 DEF Handler
  <2>. HIDE DEF q
  <2>3. order[req[r].oid].status \in Expected(q)
    BY <1>2, <2>2 DEF Expected
  <2>. QED
    BY <2>1, <2>2, <2>3, MovesOn, ReadsGoOn
<1>5. CASE Regress(r, i)
  <2>. DEFINE q == [req[r] EXCEPT !.done = req[r].done \ {i}]
  <2>1. req' = [req EXCEPT ![r] = Idle] \/ req' = [req EXCEPT ![r] = q]
    BY <1>5 DEF Regress
  <2>2. /\ q.oid = req[r].oid /\ q.old = req[r].old /\ q.target = req[r].target
        /\ q.pc = req[r].pc
    BY <1>1 DEF Handler
  <2>. HIDE DEF q
  <2>3. order[req[r].oid].status \in Expected(q)
    BY <1>2, <2>2 DEF Expected
  <2>. QED
    BY <1>3, <2>1, <2>2, <2>3, MovesOn, ReadsGoOn
<1>6. CASE Abort(r, next)
  <2>. DEFINE q == [req[r] EXCEPT !.pc = next]
  <2>1. req' = [req EXCEPT ![r] = Idle] \/ req' = [req EXCEPT ![r] = q]
    BY <1>6 DEF Abort
  <2>2. /\ q.oid = req[r].oid /\ q.old = req[r].old /\ q.target = req[r].target
        /\ q.pc = next
    BY <1>1 DEF Handler
  <2>. HIDE DEF q
  <2>. QED
    BY <1>3, <2>1, <2>2, MovesOn, ReadsGoOn
<1>7. CASE Finish(r)
  BY <1>3, <1>7, ReadsGoOn DEF Finish
<1>. QED
  BY <1>4, <1>5, <1>6, <1>7

LEMMA BuildReads ==
  ASSUME Sound, NEW r \in Requests, BuildLine(r)
  PROVE  ReadsStayTrue'
<1>. USE DEF Sound
<1>. DEFINE q == req[r]
            built == PushLine(q)
            reserving == Plan(built, Reserve(built.items), "reserve", "persist")
            editing == Plan(built, Reconcile(q.old, built.items),
                            "reconcile", "saveItems")
<1>1. q \in Handler /\ q.pc = "build" /\ order' = order
  BY DEF TypeOK, BuildLine
<1>2. /\ order[q.oid].status \in {"absent", "pending"}
      /\ Creating(q) <=> order[q.oid].status = "absent"
  BY <1>1 DEF ReadsStayTrue, Expected, Creating
<1>3. /\ built \in Handler
      /\ built.oid = q.oid /\ built.old = q.old /\ built.pc = "build"
  BY <1>1, PushLineType DEF LocalsAgree, PushLine, Handler
<1>4. CASE Finish(r)
  <2>1. Alone(r, Idle)
    BY DEF Alone
  <2>. QED
    BY <1>1, <1>4, <2>1, ReadsGoOn DEF Finish
<1>5. CASE req' = [req EXCEPT ![r] = built]
  <2>. HIDE DEF built
  <2>1. Alone(r, built)
    BY <1>1, <1>2, <1>3, MovesOn DEF Expected
  <2>. QED
    BY <1>1, <1>5, <2>1, ReadsGoOn
<1>6. CASE Creating(q) /\ req' = [req EXCEPT ![r] = reserving]
  <2>1. /\ reserving.oid = q.oid /\ reserving.old = q.old
        /\ reserving.pc \in {"reserve", "persist"}
    BY <1>3 DEF Plan, Handler
  <2>. HIDE DEF reserving
  <2>2. Alone(r, reserving)
    BY <1>1, <1>2, <1>6, <2>1, MovesOn DEF Expected
  <2>. QED
    BY <1>1, <1>6, <2>2, ReadsGoOn
<1>7. CASE ~Creating(q) /\ req' = [req EXCEPT ![r] = editing]
  <2>1. /\ editing.oid = q.oid /\ editing.old = q.old
        /\ editing.pc \in {"reconcile", "saveItems"}
    BY <1>3 DEF Plan, Handler
  <2>. HIDE DEF editing
  <2>2. Alone(r, editing)
    BY <1>1, <1>2, <1>7, <2>1, MovesOn DEF Expected
  <2>. QED
    BY <1>1, <1>7, <2>2, ReadsGoOn
<1>. QED
  BY <1>4, <1>5, <1>6, <1>7 DEF BuildLine

LEMMA ContinueReads ==
  ASSUME Sound, NEW r \in Requests, Continue(r)
  PROVE  ReadsStayTrue'
<1>. USE DEF Sound
<1>1. order[req[r].oid].status \in Expected(req[r]) \/ req[r].pc = "idle"
  BY DEF ReadsStayTrue
<1>2. CASE BuildLine(r)
  BY <1>2, BuildReads
<1>3. CASE ReserveLine(r)
  <2>1. PICK i \in Left(r) : Progress(r, i, "persist") \/ Abort(r, "release")
    BY <1>3 DEF ReserveLine
  <2>2. req[r].pc = "reserve" /\ order' = order
    BY <1>3 DEF ReserveLine
  <2>. QED
    BY <1>1, <2>1, <2>2, MovingReads DEF Expected
<1>4. CASE ReleaseLine(r)
  <2>1. PICK i \in req[r].done : Regress(r, i)
    BY <1>4 DEF ReleaseLine
  <2>2. req[r].pc = "release" /\ order' = order
    BY <1>4 DEF ReleaseLine
  <2>. QED
    BY <1>1, <2>1, <2>2, MovingReads DEF Expected
<1>5. CASE PersistOrder(r)
  <2>1. req[r].pc = "persist"
    BY <1>5 DEF PersistOrder
  <2>2. CASE Abort(r, "release") /\ UNCHANGED order
    BY <1>1, <2>1, <2>2, MovingReads DEF Expected
  <2>3. CASE Finish(r)
    BY <1>5, <2>3, ReadsFinish DEF PersistOrder, TypeOK
  <2>. QED
    BY <1>5, <2>2, <2>3 DEF PersistOrder
<1>6. CASE ReconcileLine(r)
  <2>1. PICK i : Progress(r, i, "saveItems") \/ Abort(r, "rollback")
    BY <1>6 DEF ReconcileLine
  <2>2. req[r].pc = "reconcile" /\ order' = order
    BY <1>6 DEF ReconcileLine
  <2>. QED
    BY <1>1, <2>1, <2>2, MovingReads DEF Expected
<1>7. CASE RollbackLine(r)
  <2>1. PICK i \in req[r].done : Regress(r, i)
    BY <1>7 DEF RollbackLine
  <2>2. req[r].pc = "rollback" /\ order' = order
    BY <1>7 DEF RollbackLine
  <2>. QED
    BY <1>1, <2>1, <2>2, MovingReads DEF Expected
<1>8. CASE SaveItems(r)
  <2>1. req[r].pc = "saveItems"
    BY <1>8 DEF SaveItems
  <2>2. CASE Abort(r, "rollback") /\ UNCHANGED order
    BY <1>1, <2>1, <2>2, MovingReads DEF Expected
  <2>3. CASE Finish(r)
    BY <1>8, <2>3, ReadsFinish DEF SaveItems, TypeOK
  <2>. QED
    BY <1>8, <2>2, <2>3 DEF SaveItems
<1>9. CASE RestoreLine(r)
  <2>1. PICK i \in Left(r) : Progress(r, i, "saveStatus")
    BY <1>9 DEF RestoreLine
  <2>2. req[r].pc = "restore" /\ order' = order
    BY <1>9 DEF RestoreLine
  <2>. QED
    BY <1>1, <2>1, <2>2, MovingReads DEF Expected
<1>10. CASE SaveStatus(r)
  BY <1>10, ReadsFinish DEF SaveStatus, TypeOK
<1>. QED
  BY <1>2, <1>3, <1>4, <1>5, <1>6, <1>7, <1>8, <1>9, <1>10 DEF Continue

\* What a step does to an order row: nothing, a new invoice link, or the write
\* of a handler that has checked what it needs.
RowStep(o) ==
    LET old == order[o]
        new == order'[o]
    IN  \/ new.status = old.status /\ new.items = old.items
        \/ old.status = "absent" /\ new.status = "pending"
        \/ old.status = "pending" /\ new.status = "pending"
        \/ /\ old.status \in OrderStatus
           /\ new.status \in ORDER_TRANSITIONS[old.status]
           /\ new.items = old.items

LEMMA StepRow ==
  ASSUME Sound, [Next]_vars
  PROVE  \A o \in OrderIds : RowStep(o)
<1>. USE DEF Sound
<1>1. CASE order' = order
  BY <1>1 DEF RowStep
<1>2. ASSUME NEW r \in Requests, Continue(r), order' # order
      PROVE  \A o \in OrderIds : RowStep(o)
  <2>. DEFINE o == req[r].oid
  <2>1. PersistOrder(r) \/ SaveItems(r) \/ SaveStatus(r)
    BY <1>2 DEF Continue, BuildLine, ReserveLine, ReleaseLine, ReconcileLine,
                RollbackLine, RestoreLine
  <2>2. o \in OrderIds /\ order[o].status \in Expected(req[r])
    BY <2>1 DEF ReadsStayTrue, PersistOrder, SaveItems, SaveStatus
  <2>3. order[o] \in OrderRow /\ \A x \in OrderIds \ {o} : order'[x] = order[x]
    BY <2>1, <2>2 DEF TypeOK, PersistOrder, SaveItems, SaveStatus
  <2>. HIDE DEF o
  <2>4. CASE PersistOrder(r)
    <3>1. order[o].status = "absent"
      BY <2>2, <2>4 DEF PersistOrder, Expected
    <3>2. order'[o].status = "pending"
      BY <1>2, <2>2, <2>4 DEF PersistOrder, TypeOK, o
    <3>. QED
      BY <2>3, <3>1, <3>2 DEF RowStep
  <2>5. CASE SaveItems(r)
    <3>1. order[o].status = "pending"
      BY <2>2, <2>5 DEF SaveItems, Expected
    <3>2. order'[o].status = order[o].status
      BY <1>2, <2>2, <2>3, <2>5 DEF SaveItems, TypeOK, o, OrderRow
    <3>. QED
      BY <2>3, <3>1, <3>2 DEF RowStep
  <2>6. CASE SaveStatus(r)
    <3>1. /\ order[o].status \in OrderStatus
          /\ req[r].target \in ORDER_TRANSITIONS[order[o].status]
      BY <2>2, <2>6 DEF SaveStatus, Expected
    <3>2. order'[o].status = req[r].target /\ order'[o].items = order[o].items
      BY <2>2, <2>3, <2>6 DEF SaveStatus, TypeOK, o, OrderRow
    <3>. QED
      BY <2>3, <3>1, <3>2 DEF RowStep
  <2>. QED
    BY <2>1, <2>4, <2>5, <2>6
<1>3. ASSUME NEW os, NEW i, LinkInvoice(os, i)
      PROVE  \A o \in OrderIds : RowStep(o)
  <2>1. \A o \in OrderIds : order[o] \in OrderRow
    BY DEF TypeOK
  <2>. QED
    BY <1>3, <2>1 DEF LinkInvoice, RowStep, OrderRow
<1>. QED
  BY <1>1, <1>2, <1>3
  DEF Next, OrderStep, Begin, CreateOrder, EditOrder, CompleteOrder, CancelOrder,
      UpdateStatus, Crash, ResourceStep, CreateResource, DeleteResource,
      UpdateResource, AdjustStock, AttachInvoice, DetachInvoice, vars

LEMMA StepReads ==
  ASSUME Sound, ~Overlap, [Next]_vars
  PROVE  ReadsStayTrue'
<1>. USE DEF Sound
<1>1. CASE /\ req' = req
           /\ \A o \in OrderIds : /\ order'[o].status = order[o].status
                                  /\ order'[o].items = order[o].items
  BY <1>1 DEF ReadsStayTrue
<1>2. ASSUME NEW os, NEW i, LinkInvoice(os, i)
      PROVE  \A o \in OrderIds : /\ order'[o].status = order[o].status
                                 /\ order'[o].items = order[o].items
  <2>1. \A o \in OrderIds : order[o] \in OrderRow
    BY DEF TypeOK
  <2>. QED
    BY <1>2, <2>1 DEF LinkInvoice, OrderRow
<1>3. ASSUME NEW r \in Requests, Crash(r)
      PROVE  ReadsStayTrue'
  <2>1. \A o \in OrderIds \ {req[r].oid} : order'[o] = order[o]
    BY <1>3 DEF Crash
  <2>. QED
    BY <1>3, <2>1, ReadsFinish DEF Crash
<1>4. CASE ResourceStep \/ UNCHANGED vars
  BY <1>1, <1>4 DEF ResourceStep, CreateResource, DeleteResource, UpdateResource,
                    AdjustStock, vars
<1>5. CASE AttachInvoice \/ DetachInvoice
  <2>1. PICK os, i : LinkInvoice(os, i)
    BY <1>5 DEF AttachInvoice, DetachInvoice
  <2>. QED
    BY <1>1, <1>2, <2>1 DEF LinkInvoice
<1>. QED
  BY <1>3, <1>4, <1>5, BeginReads, ContinueReads DEF Next, OrderStep

\* Rows that were never inserted stay empty.
LEMMA StepEmpty ==
  ASSUME Sound, [Next]_vars
  PROVE  EmptyRows'
<1>1. \A o \in OrderIds : RowStep(o)
  BY StepRow
<1>. QED
  BY <1>1 DEF Sound, RowStep, EmptyRows, OrderStatus, ORDER_TRANSITIONS

\* With at most one request at a time on each order, the reads stay true.
LEMMA SoundHolds ==
  ASSUME ~Overlap
  PROVE  Spec => []Sound
<1>1. Init => Sound
  BY InitTyped DEF Init, Sound, EmptyRows, ReadsStayTrue, NoRow, Idle
<1>2. Sound /\ [Next]_vars => Sound'
  BY StepType, StepAgrees, StepEmpty, StepReads DEF Sound
<1>. QED
  BY <1>1, <1>2, PTL DEF Spec

\* If clients never send two requests on one order at once, nothing a handler
\* read of its order is stale when it acts on it.
THEOREM ReadsAreNeverStale ==
  ASSUME ~Overlap
  PROVE  Spec => []ReadsStayTrue
<1>1. Sound => ReadsStayTrue
  BY DEF Sound
<1>. QED
  BY <1>1, SoundHolds, PTL

\* Under the same condition every status change follows ORDER_TRANSITIONS, so a
\* cancelled order stays cancelled.
THEOREM TransitionsAreFollowed ==
  ASSUME ~Overlap
  PROVE  Spec => StatusFollowsTransitions
<1>1. Sound /\ [Next]_vars =>
         [\A o \in OrderIds : order'[o].status # order[o].status =>
             IF order[o].status = "absent" THEN order'[o].status = "pending"
             ELSE order'[o].status \in ORDER_TRANSITIONS[order[o].status]]_vars
  <2>1. ASSUME Sound, [Next]_vars, NEW o \in OrderIds,
               order'[o].status # order[o].status
        PROVE  IF order[o].status = "absent" THEN order'[o].status = "pending"
               ELSE order'[o].status \in ORDER_TRANSITIONS[order[o].status]
    <3>1. RowStep(o)
      BY <2>1, StepRow
    <3>. QED
      BY <2>1, <3>1 DEF RowStep, OrderStatus
  <2>. QED
    BY <2>1
<1>. QED
  BY <1>1, SoundHolds, PTL DEF Spec, StatusFollowsTransitions

\* Under the same condition the items of an order never change once it is
\* completed or cancelled.
THEOREM FinishedWorkStaysFrozen ==
  ASSUME ~Overlap
  PROVE  Spec => FinishedWorkIsFrozen
<1>1. Sound /\ [Next]_vars =>
         [\A o \in OrderIds : order'[o].items # order[o].items =>
             order[o].status \in {"absent", "pending"}]_vars
  <2>1. ASSUME Sound, [Next]_vars, NEW o \in OrderIds,
               order'[o].items # order[o].items
        PROVE  order[o].status \in {"absent", "pending"}
    <3>1. RowStep(o)
      BY <2>1, StepRow
    <3>. QED
      BY <2>1, <3>1 DEF RowStep
  <2>. QED
    BY <2>1
<1>. QED
  BY <1>1, SoundHolds, PTL DEF Spec, FinishedWorkIsFrozen

-----------------------------------------------------------------------------
(* Lines and units *)

LinesOf(items, p) == {i \in DOMAIN items.lines : items.lines[i].res = p}

Bases(items) == [i \in DOMAIN items.lines |-> items.lines[i].base]

\* The units of an item list are those of its lines.
ItemsAgree(items) ==
    \A p \in Products :
        items.units[p] = SumFunctionOnSet(Bases(items), LinesOf(items, p))

\* The domain of a sequence is a finite set of naturals.
LEMMA DomainFinite ==
  ASSUME NEW S, NEW s \in Seq(S), NEW T \in SUBSET DOMAIN s
  PROVE  IsFiniteSet(T) /\ DOMAIN s \in SUBSET Nat
<1>1. PICK n \in Nat : DOMAIN s = 1 .. n
  OBVIOUS
<1>2. IsFiniteSet(1 .. n)
  BY FS_Interval
<1>. QED
  BY <1>1, <1>2, FS_Subset

LEMMA LineFacts ==
  ASSUME NEW items \in Items
  PROVE  /\ items.lines \in Seq(Snapshot)
         /\ \A i \in DOMAIN items.lines : /\ items.lines[i].res \in Resources
                                          /\ items.lines[i].base \in Nat
         /\ items.units \in [Products -> Nat]
         /\ \A T \in SUBSET DOMAIN items.lines :
               IsFiniteSet(T) /\ IntegerOn(Bases(items), T)
<1>1. items.lines \in Seq(Snapshot) /\ items.units \in [Products -> Nat]
  BY DEF Items
<1>2. \A i \in DOMAIN items.lines : items.lines[i] \in Snapshot
  BY <1>1
<1>3. \A i \in DOMAIN items.lines : /\ items.lines[i].res \in Resources
                                    /\ items.lines[i].base \in Nat
  BY <1>2 DEF Snapshot
<1>4. \A T \in SUBSET DOMAIN items.lines :
         IsFiniteSet(T) /\ IntegerOn(Bases(items), T)
  BY <1>1, <1>3, DomainFinite DEF Bases, IntegerOn
<1>. QED
  BY <1>1, <1>3, <1>4

LEMMA NoItemsAgree == NoItems \in Items /\ ItemsAgree(NoItems)
<1>1. NoItems \in Items
  BY DEF NoItems, Items, Snapshot
<1>2. \A p \in Products : LinesOf(NoItems, p) = {} /\ NoItems.units[p] = 0
  BY DEF NoItems, LinesOf
<1>. QED
  BY <1>1, <1>2, SumEmpty DEF ItemsAgree

\* One more line adds its units.
LEMMA PushAgrees ==
  ASSUME NEW items \in Items, ItemsAgree(items), NEW res \in Resources, NEW base \in Nat
  PROVE  ItemsAgree(Push(items, res, base))
<1>. DEFINE more == Push(items, res, base)
<1>1. items.lines \in Seq(Snapshot) /\ items.units \in [Products -> Nat]
  BY LineFacts
<1>2. PICK n \in Nat : n = Len(items.lines) /\ DOMAIN items.lines = 1 .. n
  BY <1>1
<1>3. /\ more.lines = Append(items.lines, [res |-> res, base |-> base])
      /\ more.units = [p \in Products |->
                          items.units[p] + (IF p = res THEN base ELSE 0)]
  BY DEF Push
<1>4. /\ DOMAIN more.lines = 1 .. n + 1
      /\ \A i \in 1 .. n : more.lines[i] = items.lines[i]
      /\ more.lines[n + 1] = [res |-> res, base |-> base]
  BY <1>1, <1>2, <1>3
<1>5. more \in Items
  BY PushType
<1>. HIDE DEF more
<1>6. ASSUME NEW p \in Products
      PROVE  more.units[p] = SumFunctionOnSet(Bases(more), LinesOf(more, p))
  <2>. DEFINE T == LinesOf(items, p)
  <2>1. T \subseteq DOMAIN items.lines /\ T \subseteq DOMAIN more.lines
    BY <1>2, <1>4 DEF LinesOf
  <2>2. IsFiniteSet(T)
    BY <2>1, LineFacts
  <2>3. items.units[p] = SumFunctionOnSet(Bases(items), T)
    BY DEF ItemsAgree
  <2>4. \A i \in T : Bases(more)[i] = Bases(items)[i]
    BY <1>2, <1>4, <2>1 DEF Bases
  <2>5. SumFunctionOnSet(Bases(more), T) = items.units[p]
    BY <2>2, <2>3, <2>4, SumSame
  <2>6. CASE p # res
    <3>1. LinesOf(more, p) = T
      BY <1>2, <1>4, <2>6 DEF LinesOf
    <3>. QED
      BY <1>1, <1>3, <2>5, <2>6, <3>1
  <2>7. CASE p = res
    <3>1. LinesOf(more, p) = T \cup {n + 1}
      BY <1>2, <1>4, <2>7 DEF LinesOf
    <3>2. n + 1 \notin T
      BY <1>2, <2>1
    <3>3. IntegerOn(Bases(more), T \cup {n + 1})
      BY <1>5, <3>1, LineFacts DEF LinesOf
    <3>4. Bases(more)[n + 1] = base
      BY <1>4 DEF Bases
    <3>5. SumFunctionOnSet(Bases(more), T \cup {n + 1})
             = base + SumFunctionOnSet(Bases(more), T)
      BY <2>2, <3>2, <3>3, <3>4, SumAdd
    <3>. QED
      BY <1>1, <1>3, <2>5, <2>7, <3>1, <3>5
  <2>. QED
    BY <2>6, <2>7
<1>. QED
  BY <1>6 DEF ItemsAgree, more

\* A product on no line has no units.
LEMMA UnlistedHasNoUnits ==
  ASSUME NEW items \in Items, ItemsAgree(items), NEW p \in Products, LinesOf(items, p) = {}
  PROVE  items.units[p] = 0
BY SumEmpty DEF ItemsAgree

-----------------------------------------------------------------------------
(* Planned movements *)

Takings(moves) == [i \in DOMAIN moves |-> -moves[i].delta]

MovesOf(moves, p, T) == {i \in T : moves[i].res = p}

\* What a plan takes of p when all of it is made.
Planned(moves, p) == SumFunctionOnSet(Takings(moves), MovesOf(moves, p, ToMake(moves)))

LEMMA MoveFacts ==
  ASSUME NEW moves \in Seq(Move)
  PROVE  /\ \A i \in DOMAIN moves : moves[i].res \in Resources /\ moves[i].delta \in Int
         /\ ToMake(moves) \subseteq DOMAIN moves
         /\ DOMAIN moves \in SUBSET Nat
         /\ \A T \in SUBSET DOMAIN moves :
               IsFiniteSet(T) /\ IntegerOn(Takings(moves), T)
<1>1. \A i \in DOMAIN moves : moves[i] \in Move
  OBVIOUS
<1>2. \A i \in DOMAIN moves : moves[i].res \in Resources /\ moves[i].delta \in Int
  BY <1>1 DEF Move
<1>3. \A T \in SUBSET DOMAIN moves :
         IsFiniteSet(T) /\ IntegerOn(Takings(moves), T)
  BY <1>2, DomainFinite DEF Takings, IntegerOn
<1>4. DOMAIN moves \in SUBSET Nat
  BY DomainFinite
<1>. QED
  BY <1>2, <1>3, <1>4 DEF ToMake

\* Reserving takes the units of the list, restoring gives them back.
LEMMA ReservePlans ==
  ASSUME NEW items \in Items, ItemsAgree(items), NEW p \in Products
  PROVE  Planned(Reserve(items), p) = items.units[p]
<1>. DEFINE moves == Reserve(items)
            T == MovesOf(moves, p, ToMake(moves))
<1>1. /\ DOMAIN moves = DOMAIN items.lines
      /\ \A i \in DOMAIN moves :
            /\ moves[i].res = items.lines[i].res
            /\ moves[i].delta = IF items.lines[i].res \in Products
                                THEN -items.lines[i].base ELSE 0
  BY DEF Reserve
<1>2. T \in SUBSET LinesOf(items, p) /\ LinesOf(items, p) \in SUBSET DOMAIN items.lines
  BY <1>1 DEF MovesOf, ToMake, LinesOf
<1>3. \A i \in LinesOf(items, p) : items.lines[i].base \in Int
  BY <1>2, LineFacts
<1>4. \A i \in LinesOf(items, p) \ T : Bases(items)[i] = 0
  BY <1>1, <1>2, <1>3 DEF MovesOf, ToMake, LinesOf, Bases
<1>5. \A i \in T : Takings(moves)[i] = Bases(items)[i]
  BY <1>1, <1>2, <1>3 DEF LinesOf, Takings, Bases
<1>6. /\ IsFiniteSet(T) /\ IsFiniteSet(LinesOf(items, p))
      /\ IntegerOn(Bases(items), LinesOf(items, p))
  BY <1>2, LineFacts
<1>. HIDE DEF moves, T
<1>7. SumFunctionOnSet(Takings(moves), T) = SumFunctionOnSet(Bases(items), T)
  BY <1>5, <1>6, SumSame
<1>8. SumFunctionOnSet(Bases(items), LinesOf(items, p)) = SumFunctionOnSet(Bases(items), T)
  BY <1>2, <1>4, <1>6, SumWithout
<1>. QED
  BY <1>7, <1>8 DEF Planned, ItemsAgree, moves, T

LEMMA RestorePlans ==
  ASSUME NEW items \in Items, ItemsAgree(items), NEW p \in Products
  PROVE  Planned(Restore(items), p) = -items.units[p]
<1>. DEFINE taken == Reserve(items)
            given == Restore(items)
            T == MovesOf(given, p, ToMake(given))
            f == Takings(given)
            g == Takings(taken)
<1>1. DOMAIN given = DOMAIN items.lines /\ DOMAIN taken = DOMAIN items.lines
  BY DEF Reserve, Restore
<1>2. \A i \in DOMAIN items.lines :
         /\ given[i].res = taken[i].res
         /\ taken[i].delta \in Int
         /\ given[i].delta = -taken[i].delta
  BY LineFacts DEF Reserve, Restore
<1>3. T = MovesOf(taken, p, ToMake(taken))
  BY <1>1, <1>2 DEF MovesOf, ToMake
<1>4. T \in SUBSET DOMAIN items.lines /\ IsFiniteSet(T)
  BY <1>1, LineFacts DEF MovesOf, ToMake
<1>5. \A i \in T : f[i] \in Int /\ g[i] \in Int /\ f[i] = -g[i]
  BY <1>1, <1>2, <1>4 DEF Takings
<1>6. SumFunctionOnSet(g, T) = items.units[p]
  BY <1>3, ReservePlans DEF Planned
<1>7. SumFunctionOnSet(f, T) = -SumFunctionOnSet(g, T)
  <2>. HIDE DEF f, g, T
  <2>. QED
    BY <1>4, <1>5, SumNegated
<1>. QED
  BY <1>6, <1>7 DEF Planned

\* Reconciling takes what the new list has more than the old one, product by product.
LEMMA ReconcilePlans ==
  ASSUME NEW old \in Items, ItemsAgree(old), NEW new \in Items, ItemsAgree(new),
         NEW p \in Products
  PROVE  Planned(Reconcile(old, new), p) = new.units[p] - old.units[p]
<1>. DEFINE lines == old.lines \o new.lines
            First(i) == \A k \in 1 .. i - 1 : lines[k].res # lines[i].res
            moves == Reconcile(old, new)
            more == new.units[p] - old.units[p]
            T == MovesOf(moves, p, ToMake(moves))
<1>1. /\ old.lines \in Seq(Snapshot) /\ new.lines \in Seq(Snapshot)
      /\ old.units[p] \in Nat /\ new.units[p] \in Nat
  BY LineFacts
<1>2. PICK m \in Nat, n \in Nat : /\ DOMAIN old.lines = 1 .. m /\ Len(old.lines) = m
                                  /\ DOMAIN new.lines = 1 .. n /\ Len(new.lines) = n
  BY <1>1
<1>3. /\ DOMAIN lines = 1 .. m + n
      /\ \A i \in 1 .. m : lines[i] = old.lines[i]
      /\ \A i \in 1 .. n : lines[m + i] = new.lines[i]
  <2>1. /\ Len(lines) = m + n /\ lines \in Seq(Snapshot)
        /\ \A i \in 1 .. m + n :
              lines[i] = IF i <= m THEN old.lines[i] ELSE new.lines[i - m]
    BY <1>1, <1>2, ConcatProperties
  <2>. HIDE DEF lines
  <2>2. DOMAIN lines = 1 .. m + n
    BY <2>1
  <2>3. ASSUME NEW i \in 1 .. m PROVE lines[i] = old.lines[i]
    BY <2>1
  <2>4. ASSUME NEW i \in 1 .. n PROVE lines[m + i] = new.lines[i]
    <3>1. m + i \in 1 .. m + n /\ ~(m + i <= m) /\ (m + i) - m = i
      OBVIOUS
    <3>. QED
      BY <2>1, <3>1
  <2>. QED
    BY <2>2, <2>3, <2>4
<1>. HIDE DEF lines
<1>4. /\ DOMAIN moves = 1 .. m + n
      /\ \A i \in 1 .. m + n : moves[i].res = lines[i].res
      /\ \A i \in 1 .. m + n : lines[i].res = p =>
            moves[i].delta = IF First(i) THEN old.units[p] - new.units[p] ELSE 0
  BY <1>3 DEF Reconcile, lines
<1>5. moves \in Seq(Move)
  BY ReconcileType
<1>. HIDE DEF First, moves
<1>6. /\ T \in SUBSET (1 .. m + n) /\ IsFiniteSet(T)
      /\ \A i \in T : lines[i].res = p /\ First(i) /\ Takings(moves)[i] = more /\ more # 0
  <2>1. T \in SUBSET (1 .. m + n)
    BY <1>4 DEF MovesOf, ToMake
  <2>2. IsFiniteSet(T)
    BY <1>4, <1>5, <2>1, MoveFacts
  <2>3. ASSUME NEW i \in T
        PROVE  lines[i].res = p /\ First(i) /\ Takings(moves)[i] = more /\ more # 0
    <3>1. i \in 1 .. m + n /\ moves[i].res = p /\ moves[i].delta # 0
      BY <2>1 DEF MovesOf, ToMake
    <3>2. lines[i].res = p
      BY <1>4, <3>1
    <3>3. First(i) /\ moves[i].delta = old.units[p] - new.units[p]
      BY <1>4, <3>1, <3>2
    <3>4. Takings(moves)[i] = -moves[i].delta
      BY <1>4, <3>1 DEF Takings
    <3>. QED
      BY <1>1, <3>1, <3>2, <3>3, <3>4
  <2>. QED
    BY <2>1, <2>2, <2>3
<1>7. CASE T # {}
  <2>1. PICK k \in T : TRUE
    BY <1>7
  <2>2. T = {k}
    <3>1. ASSUME NEW i \in T, i # k PROVE FALSE
      <4>1. i < k \/ k < i
        BY <1>6, <3>1
      <4>2. i \in 1 .. k - 1 \/ k \in 1 .. i - 1
        BY <1>6, <4>1
      <4>. QED
        BY <1>6, <4>2 DEF First
    <3>. QED
      BY <3>1
  <2>3. Takings(moves)[k] = more /\ more \in Int
    BY <1>1, <1>6
  <2>4. Planned(moves, p) = SumFunctionOnSet(Takings(moves), T)
    BY DEF Planned
  <2>. HIDE DEF T, more
  <2>5. SumFunctionOnSet(Takings(moves), {k}) = more
    BY <2>3, SumOfOne
  <2>. QED
    BY <2>2, <2>4, <2>5 DEF moves, more
<1>8. CASE T = {}
  <2>1. more = 0
    <3>. SUFFICES ASSUME more # 0 PROVE FALSE
      OBVIOUS
    <3>. DEFINE P == {i \in 1 .. m + n : lines[i].res = p}
    <3>1. CASE P = {}
      <4>1. \A i \in 1 .. m : old.lines[i].res # p
        BY <1>3, <3>1
      <4>2. \A i \in 1 .. n : new.lines[i].res # p
        <5>1. \A i \in 1 .. n : m + i \in 1 .. m + n
          OBVIOUS
        <5>. QED
          BY <1>3, <3>1, <5>1
      <4>3. LinesOf(old, p) = {} /\ LinesOf(new, p) = {}
        BY <1>2, <4>1, <4>2 DEF LinesOf
      <4>. QED
        BY <3>1, <4>3, UnlistedHasNoUnits
    <3>2. CASE P # {}
      <4>0. P \in SUBSET Nat
        OBVIOUS
      <4>1. PICK k \in P : \A i \in P : k <= i
        <5>. HIDE DEF P
        <5>. QED
          BY <3>2, <4>0, LeastNatural
      <4>2. First(k)
        BY <4>1 DEF First
      <4>3. moves[k].delta # 0
        BY <1>1, <1>4, <4>1, <4>2
      <4>. QED
        BY <1>4, <1>8, <4>1, <4>3 DEF MovesOf, ToMake
    <3>. QED
      BY <3>1, <3>2
  <2>2. Planned(moves, p) = SumFunctionOnSet(Takings(moves), T)
    BY DEF Planned
  <2>. HIDE DEF T, more
  <2>3. SumFunctionOnSet(Takings(moves), {}) = 0
    BY SumEmpty
  <2>. QED
    BY <1>8, <2>1, <2>2, <2>3 DEF moves, more
<1>. QED
  BY <1>7, <1>8

-----------------------------------------------------------------------------
(* What handlers hold *)

LEMMA HeldFacts ==
  ASSUME NEW q \in Handler, q.done \subseteq DOMAIN q.moves, NEW p
  PROVE  /\ Held(p, q) = SumFunctionOnSet(Takings(q.moves), MovesOf(q.moves, p, q.done))
         /\ Held(p, q) \in Int
         /\ q.done = {} => Held(p, q) = 0
         /\ q.done = ToMake(q.moves) => Held(p, q) = Planned(q.moves, p)
<1>. DEFINE T == MovesOf(q.moves, p, q.done)
<1>1. q.moves \in Seq(Move)
  BY DEF Handler
<1>2. T \in SUBSET DOMAIN q.moves
  BY DEF MovesOf
<1>3. IsFiniteSet(T) /\ IntegerOn(Takings(q.moves), T)
  BY <1>1, <1>2, MoveFacts
<1>4. Held(p, q) = SumFunctionOnSet(Takings(q.moves), T)
  BY DEF Held, Takings, MovesOf
<1>5. q.done = {} => T = {}
  BY DEF MovesOf
<1>. HIDE DEF T
<1>6. q.done = {} => Held(p, q) = 0
  BY <1>4, <1>5, SumEmpty
<1>7. Held(p, q) \in Int
  BY <1>3, <1>4, SumInt
<1>. QED
  BY <1>4, <1>6, <1>7 DEF Planned, T

\* One more movement done changes what is held by what the movement took.
LEMMA HeldOneMore ==
  ASSUME NEW q \in Handler, q.done \subseteq DOMAIN q.moves,
         NEW i \in DOMAIN q.moves \ q.done, NEW u \in Handler,
         u.moves = q.moves, u.done = q.done \cup {i}, NEW p
  PROVE  Held(p, u) = Held(p, q) + (IF q.moves[i].res = p THEN -q.moves[i].delta ELSE 0)
<1>. DEFINE f == Takings(q.moves)
            T == MovesOf(q.moves, p, q.done)
            U == MovesOf(q.moves, p, q.done \cup {i})
<1>1. q.moves \in Seq(Move)
  BY DEF Handler
<1>2. /\ Held(p, q) = SumFunctionOnSet(f, T) /\ Held(p, q) \in Int
      /\ Held(p, u) = SumFunctionOnSet(f, U)
  BY HeldFacts
<1>3. T \in SUBSET DOMAIN q.moves /\ U \in SUBSET DOMAIN q.moves /\ i \notin T
  BY DEF MovesOf
<1>4. IsFiniteSet(T) /\ IntegerOn(f, U) /\ q.moves[i].delta \in Int
  BY <1>1, <1>3, MoveFacts
<1>5. f[i] = -q.moves[i].delta
  BY DEF Takings
<1>6. CASE q.moves[i].res = p
  <2>1. U = T \cup {i}
    BY <1>6 DEF MovesOf
  <2>2. SumFunctionOnSet(f, U) = f[i] + SumFunctionOnSet(f, T)
    <3>. HIDE DEF T, U, f
    <3>. QED
      BY <1>3, <1>4, <2>1, SumAdd
  <2>. QED
    BY <1>2, <1>4, <1>5, <1>6, <2>2
<1>7. CASE q.moves[i].res # p
  <2>1. U = T
    BY <1>7 DEF MovesOf
  <2>. QED
    BY <1>2, <1>7, <2>1
<1>. QED
  BY <1>6, <1>7

\* When one handler changes, what is in flight changes by what it holds.
LEMMA InFlightChange ==
  ASSUME TypeOK, LocalsAgree, NEW r \in Requests, NEW q \in Handler,
         q.done \subseteq DOMAIN q.moves, req' = [req EXCEPT ![r] = q], NEW p
  PROVE  /\ InFlight(p) \in Int
         /\ InFlight(p)' = InFlight(p) - Held(p, req[r]) + Held(p, q)
<1>. DEFINE f == [s \in Requests |-> Held(p, req[s])]
            g == [s \in Requests |-> Held(p, req'[s])]
<1>1. \A s \in Requests : Held(p, req[s]) \in Int
  BY HeldFacts DEF TypeOK, LocalsAgree
<1>2. Held(p, q) \in Int
  BY HeldFacts
<1>3. req'[r] = q /\ \A s \in Requests \ {r} : req'[s] = req[s]
  BY DEF TypeOK
<1>4. IntegerOn(f, Requests) /\ IsFiniteSet(Requests)
  BY <1>1, OrdersAssumption DEF IntegerOn
<1>5. f[r] = Held(p, req[r]) /\ g[r] = Held(p, q) /\ \A s \in Requests \ {r} : g[s] = f[s]
  BY <1>3
<1>6. InFlight(p) = SumFunctionOnSet(f, Requests) /\ InFlight(p)' = SumFunctionOnSet(g, Requests)
  BY DEF InFlight
<1>. HIDE DEF f, g
<1>7. SumFunctionOnSet(g, Requests) = SumFunctionOnSet(f, Requests) - f[r] + g[r]
  BY <1>2, <1>4, <1>5, SumChange
<1>. QED
  BY <1>4, <1>5, <1>6, <1>7, SumInt

-----------------------------------------------------------------------------
(* What orders hold *)

Share(row, p) == IF row.status \in {"pending", "completed"} THEN row.items.units[p] ELSE 0

LEMMA ShareType ==
  ASSUME NEW row \in OrderRow, NEW p \in Products
  PROVE  Share(row, p) \in Nat
<1>1. row.items \in Items
  BY DEF OrderRow
<1>. QED
  BY <1>1, LineFacts DEF Share

LEMMA SharesSum ==
  ASSUME NEW table \in [OrderIds -> OrderRow], NEW p \in Products
  PROVE  LET live == {o \in OrderIds : table[o].status \in {"pending", "completed"}}
         IN  /\ SumFunctionOnSet([o \in OrderIds |-> table[o].items.units[p]], live)
                  = SumFunctionOnSet([o \in OrderIds |-> Share(table[o], p)], OrderIds)
             /\ SumFunctionOnSet([o \in OrderIds |-> Share(table[o], p)], OrderIds) \in Int
<1>. DEFINE live == {o \in OrderIds : table[o].status \in {"pending", "completed"}}
            f == [o \in OrderIds |-> Share(table[o], p)]
            g == [o \in OrderIds |-> table[o].items.units[p]]
<1>1. IntegerOn(f, OrderIds) /\ IsFiniteSet(OrderIds)
  BY ShareType, OrdersAssumption DEF IntegerOn
<1>2. live \in SUBSET OrderIds /\ IsFiniteSet(live)
  BY <1>1, FS_Subset
<1>3. \A o \in OrderIds \ live : f[o] = 0
  BY DEF Share
<1>4. \A o \in live : f[o] = g[o]
  BY DEF Share
<1>. HIDE DEF f, g, live
<1>6. SumFunctionOnSet(f, OrderIds) = SumFunctionOnSet(f, live)
  BY <1>1, <1>2, <1>3, SumWithout
<1>7. SumFunctionOnSet(f, live) = SumFunctionOnSet(g, live)
  BY <1>2, <1>4, SumSame
<1>8. SumFunctionOnSet(f, OrderIds) \in Int
  BY <1>1, SumInt
<1>. QED
  BY <1>6, <1>7, <1>8 DEF f, g, live

\* When one order row changes, what is reserved changes by its share.
LEMMA ReservedChange ==
  ASSUME TypeOK, NEW o \in OrderIds, NEW row \in OrderRow,
         order' = [order EXCEPT ![o] = row], NEW p \in Products
  PROVE  /\ Reserved(p) \in Int
         /\ Reserved(p)' = Reserved(p) - Share(order[o], p) + Share(row, p)
<1>. DEFINE f == [x \in OrderIds |-> Share(order[x], p)]
            g == [x \in OrderIds |-> Share(order'[x], p)]
<1>1. order \in [OrderIds -> OrderRow] /\ order' \in [OrderIds -> OrderRow]
  BY DEF TypeOK
<1>2. Reserved(p) = SumFunctionOnSet(f, OrderIds) /\ Reserved(p) \in Int
  BY <1>1, SharesSum DEF Reserved, LiveOrders
<1>3. Reserved(p)' = SumFunctionOnSet(g, OrderIds)
  BY <1>1, SharesSum DEF Reserved, LiveOrders
<1>4. order'[o] = row /\ \A x \in OrderIds \ {o} : order'[x] = order[x]
  BY DEF TypeOK
<1>5. g[o] \in Int /\ IntegerOn(f, OrderIds) /\ IsFiniteSet(OrderIds)
  BY <1>1, <1>4, ShareType, OrdersAssumption DEF IntegerOn
<1>6. f[o] = Share(order[o], p) /\ g[o] = Share(row, p) /\ \A x \in OrderIds \ {o} : g[x] = f[x]
  BY <1>4
<1>. HIDE DEF f, g
<1>7. SumFunctionOnSet(g, OrderIds) = SumFunctionOnSet(f, OrderIds) - f[o] + g[o]
  BY <1>5, <1>6, SumChange
<1>. QED
  BY <1>2, <1>3, <1>6, <1>7

-----------------------------------------------------------------------------
(* Plans and items fit what is known *)

Known == {x \in Resources : resource[x].state # "absent"}

\* A list of items whose units are those of its lines, each of a known resource.
Fits(items, K) == /\ ItemsAgree(items)
                  /\ \A i \in DOMAIN items.lines : items.lines[i].res \in K

\* What a handler has done is part of what it planned, all of it once it saves.
PlanFits(q) ==
    /\ q.done \subseteq ToMake(q.moves)
    /\ q.pc \in {"idle", "build"} => q.done = {}
    /\ q.pc \in {"reserve", "release", "persist"} => q.moves = Reserve(q.items)
    /\ q.pc \in {"reconcile", "rollback", "saveItems"} => q.moves = Reconcile(q.old, q.items)
    /\ q.pc \in {"restore", "saveStatus"} =>
          q.moves = IF q.target = "cancelled" THEN Restore(q.old) ELSE <<>>
    /\ q.pc \in {"persist", "saveItems", "saveStatus"} => q.done = ToMake(q.moves)

HandlerFits(q, K) == Fits(q.items, K) /\ Fits(q.old, K) /\ PlanFits(q)

Fitting == /\ \A o \in OrderIds : Fits(order[o].items, Known)
           /\ \A r \in Requests : HandlerFits(req[r], Known)

LEMMA IdleFits ==
  /\ Idle \in Handler /\ Idle.done \subseteq DOMAIN Idle.moves
  /\ \A K : HandlerFits(Idle, K)
  /\ \A p : Held(p, Idle) = 0
<1>1. Idle.done = {} /\ Idle.moves = <<>> /\ Idle.pc = "idle"
      /\ Idle.items = NoItems /\ Idle.old = NoItems
  BY DEF Idle
<1>2. ItemsAgree(NoItems) /\ DOMAIN NoItems.lines = {}
  BY NoItemsAgree DEF NoItems
<1>3. \A p : Held(p, Idle) = 0
  BY <1>1, IdleType, HeldFacts
<1>. QED
  BY <1>1, <1>2, <1>3, IdleType DEF HandlerFits, Fits, PlanFits

LEMMA FitsMore ==
  ASSUME NEW K, NEW L, K \subseteq L
  PROVE  /\ \A items : Fits(items, K) => Fits(items, L)
         /\ \A q : HandlerFits(q, K) => HandlerFits(q, L)
BY DEF Fits, HandlerFits

\* A resource that is known stays known, deleted or not.
LEMMA KnownStays ==
  ASSUME TypeOK, LocalsAgree, [Next]_vars
  PROVE  Known \subseteq Known'
<1>1. CASE UNCHANGED <<resource, ledger>>
  BY <1>1 DEF Known
<1>2. ASSUME NEW x \in Resources, CreateResource(x) \/ DeleteResource(x)
      PROVE  Known \subseteq Known'
  BY <1>2 DEF Known, CreateResource, DeleteResource, TypeOK
<1>3. ASSUME NEW p \in Products, UpdateResource(p)
      PROVE  Known \subseteq Known'
  <2>1. resource \in [Resources -> ResourceRow] /\ p \in Resources
    BY DEF TypeOK, Resources
  <2>2. resource'[p].state = resource[p].state
    BY <1>3, <2>1 DEF UpdateResource, ResourceRow
  <2>3. \A x \in Resources \ {p} : resource'[x] = resource[x]
    BY <1>3, <2>1 DEF UpdateResource
  <2>. QED
    BY <2>2, <2>3 DEF Known
<1>4. ASSUME NEW p \in Resources, NEW delta \in Int, NEW kind \in {"orders", "manual"},
             RecordAdjustment(p, delta, kind)
      PROVE  Known \subseteq Known'
  <2>1. resource \in [Resources -> ResourceRow]
    BY DEF TypeOK
  <2>. QED
    BY <1>4, <2>1 DEF RecordAdjustment, ResourceRow, Known
<1>. QED
  BY <1>1, <1>2, <1>3, <1>4, StockSteps

LEMMA JoinedLines ==
  ASSUME NEW s \in Seq(Snapshot), NEW t \in Seq(Snapshot), NEW u, u = s \o t,
         NEW i \in DOMAIN u
  PROVE  \/ i \in DOMAIN s /\ u[i] = s[i]
         \/ \E j \in DOMAIN t : u[i] = t[j]
<1>1. /\ Len(u) = Len(s) + Len(t) /\ u \in Seq(Snapshot)
      /\ \A k \in 1 .. Len(s) + Len(t) :
            u[k] = IF k <= Len(s) THEN s[k] ELSE t[k - Len(s)]
  BY ConcatProperties
<1>2. /\ DOMAIN s = 1 .. Len(s) /\ Len(s) \in Nat
      /\ DOMAIN t = 1 .. Len(t) /\ Len(t) \in Nat
  OBVIOUS
<1>3. DOMAIN u = 1 .. Len(s) + Len(t)
  BY <1>1
<1>4. i \in 1 .. Len(s) + Len(t)
  BY <1>3
<1>5. CASE i <= Len(s)
  <2>1. i \in DOMAIN s
    BY <1>2, <1>4, <1>5
  <2>. QED
    BY <1>1, <1>4, <1>5, <2>1
<1>6. CASE ~(i <= Len(s))
  <2>1. i - Len(s) \in 1 .. Len(t)
    BY <1>2, <1>4, <1>6
  <2>2. u[i] = t[i - Len(s)]
    BY <1>1, <1>4, <1>6
  <2>. QED
    BY <1>2, <2>1, <2>2
<1>. QED
  BY <1>5, <1>6

\* A plan only moves resources its lists name.
LEMMA PlansNameLines ==
  ASSUME NEW old \in Items, NEW new \in Items
  PROVE  /\ \A i \in DOMAIN Reserve(new) :
               \E j \in DOMAIN new.lines : Reserve(new)[i].res = new.lines[j].res
         /\ \A i \in DOMAIN Restore(old) :
               \E j \in DOMAIN old.lines : Restore(old)[i].res = old.lines[j].res
         /\ \A i \in DOMAIN Reconcile(old, new) :
               \/ \E j \in DOMAIN old.lines : Reconcile(old, new)[i].res = old.lines[j].res
               \/ \E j \in DOMAIN new.lines : Reconcile(old, new)[i].res = new.lines[j].res
<1>1. old.lines \in Seq(Snapshot) /\ new.lines \in Seq(Snapshot)
  BY LineFacts
<1>2. ASSUME NEW i \in DOMAIN Reconcile(old, new)
      PROVE  \/ \E j \in DOMAIN old.lines : Reconcile(old, new)[i].res = old.lines[j].res
             \/ \E j \in DOMAIN new.lines : Reconcile(old, new)[i].res = new.lines[j].res
  <2>. DEFINE lines == old.lines \o new.lines
  <2>1. i \in DOMAIN lines /\ Reconcile(old, new)[i].res = lines[i].res
    BY DEF Reconcile
  <2>2. PICK s \in Seq(Snapshot), t \in Seq(Snapshot) : s = old.lines /\ t = new.lines
    BY <1>1
  <2>3. lines = s \o t
    BY <2>2
  <2>. HIDE DEF lines
  <2>4. \/ i \in DOMAIN s /\ lines[i] = s[i]
        \/ \E j \in DOMAIN t : lines[i] = t[j]
    BY <2>1, <2>3, JoinedLines
  <2>. QED
    BY <2>1, <2>2, <2>4
<1>. QED
  BY <1>2 DEF Reserve, Restore

\* A product no known list names is in no plan that fits, so nobody holds it.
LEMMA UnknownIsNotHeld ==
  ASSUME NEW q \in Handler, NEW K, HandlerFits(q, K), NEW p \in Products, p \notin K
  PROVE  Held(p, q) = 0
<1>1. q.done \subseteq ToMake(q.moves) /\ q.moves \in Seq(Move) /\ q.items \in Items /\ q.old \in Items
  BY DEF HandlerFits, PlanFits, Handler
<1>2. CASE q.done = {}
  BY <1>1, <1>2, HeldFacts DEF ToMake
<1>3. ASSUME \A i \in DOMAIN q.moves : q.moves[i].res # p
      PROVE  Held(p, q) = 0
  <2>1. MovesOf(q.moves, p, q.done) = {}
    BY <1>1, <1>3 DEF MovesOf, ToMake
  <2>2. Held(p, q) = SumFunctionOnSet(Takings(q.moves), {})
    BY <1>1, <2>1, HeldFacts DEF ToMake
  <2>. QED
    BY <2>2, SumEmpty
<1>4. \A i \in DOMAIN q.items.lines : q.items.lines[i].res # p
  BY DEF HandlerFits, Fits
<1>5. \A i \in DOMAIN q.old.lines : q.old.lines[i].res # p
  BY DEF HandlerFits, Fits
<1>6. CASE q.moves \in {Reserve(q.items), Restore(q.old), Reconcile(q.old, q.items)}
  BY <1>1, <1>3, <1>4, <1>5, <1>6, PlansNameLines
<1>7. CASE q.moves = <<>>
  BY <1>1, <1>2, <1>7 DEF ToMake
<1>10. q.pc \in Steps \cup {"idle"}
  BY DEF Handler
<1>. QED
  BY <1>2, <1>6, <1>7, <1>10 DEF HandlerFits, PlanFits, Steps, CatchingSteps

-----------------------------------------------------------------------------
(* Steps keep the balance *)

Live(p) == resource[p].state = "live"

\* Units the ledger says orders took, that neither an order nor a handler has.
Slack(p) == -ledger[p].orders - Reserved(p) - InFlight(p)

\* Handler r takes a step that loses and invents no unit, and its plan still fits.
Balances(r) ==
    /\ \E q \in Handler : req' = [req EXCEPT ![r] = q] /\ HandlerFits(q, Known)
    /\ \A o \in OrderIds : Fits(order'[o].items, Known)
    /\ \A p \in Products : Live(p) => Slack(p)' = Slack(p)

LEMMA ReservedSame ==
  ASSUME TypeOK, NEW p \in Products,
         \A o \in OrderIds : /\ order'[o].status = order[o].status
                             /\ order'[o].items = order[o].items
  PROVE  Reserved(p) \in Int /\ Reserved(p)' = Reserved(p)
<1>. DEFINE live == {o \in OrderIds : order[o].status \in {"pending", "completed"}}
            live2 == {o \in OrderIds : order'[o].status \in {"pending", "completed"}}
            f == [o \in OrderIds |-> order[o].items.units[p]]
            g == [o \in OrderIds |-> order'[o].items.units[p]]
<1>1. Reserved(p) = SumFunctionOnSet(f, live)
  BY DEF Reserved, LiveOrders
<1>2. Reserved(p)' = SumFunctionOnSet(g, live2)
  BY DEF Reserved, LiveOrders
<1>3. live = live2 /\ f = g
  OBVIOUS
<1>4. SumFunctionOnSet(f, live) \in Int
  BY SharesSum DEF TypeOK
<1>. QED
  BY <1>1, <1>2, <1>3, <1>4

\* A handler that moves stock and leaves the orders alone.
LEMMA StockMoves ==
  ASSUME Sound, TypeOK', Fitting, NEW r \in Requests, NEW q, req' = [req EXCEPT ![r] = q],
         HandlerFits(q, Known), order' = order,
         \A p \in Products : Live(p) =>
             ledger'[p].orders + Held(p, q) = ledger[p].orders + Held(p, req[r])
  PROVE  Balances(r)
<1>. USE DEF Sound
<1>1. q = req'[r] /\ q \in Handler
  BY DEF TypeOK
<1>2. q.done \subseteq DOMAIN q.moves
  BY DEF HandlerFits, PlanFits, ToMake
<1>3. req[r] \in Handler /\ req[r].done \subseteq DOMAIN req[r].moves
  BY DEF TypeOK, LocalsAgree
<1>4. ASSUME NEW p \in Products, Live(p) PROVE Slack(p)' = Slack(p)
  <2>1. /\ InFlight(p) \in Int
        /\ InFlight(p)' = InFlight(p) - Held(p, req[r]) + Held(p, q)
    BY <1>1, <1>2, InFlightChange
  <2>2. Held(p, req[r]) \in Int /\ Held(p, q) \in Int
    BY <1>1, <1>2, <1>3, HeldFacts
  <2>3. Reserved(p) \in Int /\ Reserved(p)' = Reserved(p)
    BY ReservedSame
  <2>4. ledger[p].orders \in Int /\ ledger'[p].orders \in Int
    BY DEF TypeOK
  <2>5. ledger'[p].orders + Held(p, q) = ledger[p].orders + Held(p, req[r])
    BY <1>4
  <2>6. /\ Slack(p) = -ledger[p].orders - Reserved(p) - InFlight(p)
        /\ Slack(p)' = -ledger'[p].orders - Reserved(p)' - InFlight(p)'
    BY DEF Slack
  <2>. QED
    BY <2>1, <2>2, <2>3, <2>4, <2>5, <2>6
<1>. QED
  BY <1>1, <1>4 DEF Balances, Fitting

\* A handler that ends by writing its order.
LEMMA RowMoves ==
  ASSUME Sound, TypeOK', Fitting, NEW r \in Requests, Finish(r),
         NEW o \in OrderIds, NEW row \in OrderRow, order' = [order EXCEPT ![o] = row],
         Fits(row.items, Known), ledger' = ledger,
         \A p \in Products : Share(row, p) = Share(order[o], p) + Held(p, req[r])
  PROVE  Balances(r)
<1>. USE DEF Sound
<1>1. req[r] \in Handler /\ req[r].done \subseteq DOMAIN req[r].moves
  BY DEF TypeOK, LocalsAgree
<1>2. req' = [req EXCEPT ![r] = Idle]
  BY DEF Finish
<1>3. ASSUME NEW p \in Products PROVE Slack(p)' = Slack(p)
  <2>1. /\ InFlight(p) \in Int
        /\ InFlight(p)' = InFlight(p) - Held(p, req[r]) + Held(p, Idle)
    BY <1>2, IdleFits, InFlightChange
  <2>2. Held(p, req[r]) \in Int /\ Held(p, Idle) = 0
    BY <1>1, IdleFits, HeldFacts
  <2>3. /\ Reserved(p) \in Int
        /\ Reserved(p)' = Reserved(p) - Share(order[o], p) + Share(row, p)
    BY ReservedChange
  <2>4. ledger[p].orders \in Int /\ ledger'[p].orders = ledger[p].orders
    BY DEF TypeOK
  <2>5. Share(row, p) = Share(order[o], p) + Held(p, req[r])
    OBVIOUS
  <2>6. Share(order[o], p) \in Int
    BY ShareType DEF TypeOK
  <2>7. /\ Slack(p) = -ledger[p].orders - Reserved(p) - InFlight(p)
        /\ Slack(p)' = -ledger'[p].orders - Reserved(p)' - InFlight(p)'
    BY DEF Slack
  <2>. QED
    BY <2>1, <2>2, <2>3, <2>4, <2>5, <2>6, <2>7
<1>4. \A x \in OrderIds : order'[x] = IF x = o THEN row ELSE order[x]
  BY DEF TypeOK
<1>. QED
  BY <1>2, <1>3, <1>4, IdleFits DEF Balances, Fitting

\* A movement of another resource, or one that took effect, on the ledger of p.
LEMMA LedgerMoves ==
  ASSUME TypeOK, NEW x \in Resources, NEW delta \in Int, RecordAdjustment(x, delta, "orders"),
         NEW p \in Products, x = p => Adjustable(x, delta)
  PROVE  ledger'[p].orders = ledger[p].orders + (IF x = p THEN delta ELSE 0)
<1>1. ledger \in [Products -> [orders : Int, manual : Int]]
  BY DEF TypeOK
<1>2. CASE x = p
  <2>1. ledger' = [ledger EXCEPT ![p]["orders"] = @ + delta]
    BY <1>2 DEF RecordAdjustment
  <2>. QED
    BY <1>1, <1>2, <2>1
<1>3. CASE x # p
  <2>1. ledger'[p] = ledger[p]
    BY <1>1, <1>3 DEF RecordAdjustment
  <2>. QED
    BY <1>1, <1>3, <2>1
<1>. QED
  BY <1>2, <1>3

\* A handler starts, or goes on without having moved anything.
LEMMA FreshHandler ==
  ASSUME Sound, TypeOK', Fitting, NEW r \in Requests, NEW q, req' = [req EXCEPT ![r] = q],
         HandlerFits(q, Known), q.done = {}, req[r].pc \in {"idle", "build"},
         UNCHANGED <<ledger, order>>
  PROVE  Balances(r)
<1>1. q \in Handler /\ req[r] \in Handler
  BY DEF TypeOK, Sound
<1>2. req[r].done = {}
  BY DEF Fitting, HandlerFits, PlanFits
<1>3. \A p : Held(p, q) = 0 /\ Held(p, req[r]) = 0
  BY <1>1, <1>2, HeldFacts
<1>. QED
  BY <1>3, StockMoves

\* A handler that plans has done nothing yet, or had nothing to do.
LEMMA PlanningFits ==
  ASSUME NEW q \in Handler, NEW moves \in Seq(Move), NEW step, NEW next, NEW K,
         Fits(q.items, K), Fits(q.old, K),
         \/ step = "reserve" /\ next = "persist" /\ moves = Reserve(q.items)
         \/ step = "reconcile" /\ next = "saveItems" /\ moves = Reconcile(q.old, q.items)
         \/ /\ step = "restore" /\ next = "saveStatus"
            /\ moves = IF q.target = "cancelled" THEN Restore(q.old) ELSE <<>>
  PROVE  /\ HandlerFits(Plan(q, moves, step, next), K)
         /\ Plan(q, moves, step, next).done = {}
<1>. DEFINE u == Plan(q, moves, step, next)
<1>1. /\ u.done = {} /\ u.moves = moves /\ u.items = q.items /\ u.old = q.old
      /\ u.target = q.target /\ u.pc = IF ToMake(moves) = {} THEN next ELSE step
  BY DEF Plan, Handler
<1>. HIDE DEF u
<1>2. PlanFits(u)
  BY <1>1 DEF PlanFits
<1>. QED
  BY <1>1, <1>2 DEF HandlerFits, u

LEMMA BeginBalances ==
  ASSUME Sound, TypeOK', Fitting, NEW r \in Requests, Begin(r)
  PROVE  Balances(r)
<1>. USE DEF Sound
<1>1. UNCHANGED <<ledger, order>> /\ req[r].pc = "idle"
  BY DEF Begin, CreateOrder, EditOrder, CompleteOrder, CancelOrder, UpdateStatus
<1>2. /\ Fits(NoItems, Known)
      /\ \A o \in OrderIds : Fits(order[o].items, Known)
  BY IdleFits DEF HandlerFits, Fitting, Idle
<1>3. CASE CreateOrder(r)
  <2>1. PICK o \in OrderIds, cart \in Carts :
          req' = [req EXCEPT ![r] =
                     [Idle EXCEPT !.pc = "build", !.oid = o, !.cart = cart]]
    BY <1>3 DEF CreateOrder
  <2>. DEFINE q == [Idle EXCEPT !.pc = "build", !.oid = o, !.cart = cart]
  <2>2. q.pc = "build" /\ q.done = {} /\ q.items = NoItems /\ q.old = NoItems
    BY DEF Idle
  <2>. HIDE DEF q
  <2>3. HandlerFits(q, Known)
    BY <1>2, <2>2 DEF HandlerFits, PlanFits
  <2>. QED
    BY <1>1, <2>1, <2>2, <2>3, FreshHandler DEF q
<1>4. CASE EditOrder(r)
  <2>1. PICK o \in OrderIds, cart \in Carts :
          req' = [req EXCEPT ![r] =
                     [Idle EXCEPT !.pc = "build", !.oid = o, !.cart = cart,
                                  !.old = order[o].items]]
    BY <1>4 DEF EditOrder
  <2>. DEFINE q == [Idle EXCEPT !.pc = "build", !.oid = o, !.cart = cart,
                                !.old = order[o].items]
  <2>2. q.pc = "build" /\ q.done = {} /\ q.items = NoItems /\ q.old = order[o].items
    BY DEF Idle
  <2>. HIDE DEF q
  <2>3. HandlerFits(q, Known)
    BY <1>2, <2>2 DEF HandlerFits, PlanFits
  <2>. QED
    BY <1>1, <2>1, <2>2, <2>3, FreshHandler DEF q
<1>5. ASSUME NEW target \in OrderStatus, UpdateStatus(r, target)
      PROVE  Balances(r)
  <2>1. PICK o \in OrderIds :
          LET q == [Idle EXCEPT !.oid = o, !.target = target, !.old = order[o].items]
              moves == IF target = "cancelled" THEN Restore(q.old) ELSE <<>>
          IN  req' = [req EXCEPT ![r] = Plan(q, moves, "restore", "saveStatus")]
    BY <1>5 DEF UpdateStatus
  <2>. DEFINE q == [Idle EXCEPT !.oid = o, !.target = target, !.old = order[o].items]
              moves == IF target = "cancelled" THEN Restore(q.old) ELSE <<>>
  <2>2. /\ q \in Handler /\ q.old \in Items
        /\ q.items = NoItems /\ q.old = order[o].items /\ q.target = target
    BY IdleType DEF Handler, TypeOK, OrderRow, Idle
  <2>3. moves \in Seq(Move)
    BY <2>2, ReserveType
  <2>4. req' = [req EXCEPT ![r] = Plan(q, moves, "restore", "saveStatus")]
    BY <2>1
  <2>5. moves = IF q.target = "cancelled" THEN Restore(q.old) ELSE <<>>
    BY <2>2
  <2>. HIDE DEF q, moves
  <2>6. /\ HandlerFits(Plan(q, moves, "restore", "saveStatus"), Known)
        /\ Plan(q, moves, "restore", "saveStatus").done = {}
    BY <1>2, <2>2, <2>3, <2>5, PlanningFits
  <2>. QED
    BY <1>1, <2>4, <2>6, FreshHandler
<1>. QED
  BY <1>3, <1>4, <1>5 DEF Begin, CompleteOrder, CancelOrder, OrderStatus

LEMMA BuildBalances ==
  ASSUME Sound, TypeOK', Fitting, NEW r \in Requests, BuildLine(r)
  PROVE  Balances(r)
<1>. USE DEF Sound
<1>. DEFINE q == req[r]
            line == Head(q.cart)
            built == PushLine(q)
            reserving == Plan(built, Reserve(built.items), "reserve", "persist")
            editing == Plan(built, Reconcile(q.old, built.items),
                            "reconcile", "saveItems")
<1>1. /\ q \in Handler /\ q.pc = "build" /\ q.cart # <<>>
      /\ UNCHANGED <<ledger, order>>
      /\ HandlerFits(q, Known) /\ q.done = {}
  BY DEF TypeOK, LocalsAgree, BuildLine, Fitting, HandlerFits, PlanFits
<1>2. CASE Finish(r)
  BY <1>1, <1>2, IdleFits, FreshHandler DEF Finish, Idle
<1>3. CASE ~Finish(r)
  <2>1. /\ resource[line.res].state = "live"
        /\ req' = [req EXCEPT ![r] = IF built.cart # <<>> THEN built
                                     ELSE IF Creating(q) THEN reserving ELSE editing]
    BY <1>3 DEF BuildLine
  <2>2. /\ built \in Handler /\ built.old = q.old /\ built.pc = "build"
        /\ built.done = {} /\ built.items = Push(q.items, line.res, BaseUnits(line))
    BY <1>1, PushLineType DEF PushLine, Handler
  <2>3. line \in Line /\ line.res \in Resources
    <3>1. line \in Line
      BY <1>1 DEF Handler
    <3>. QED
      BY <3>1 DEF Line
  <2>4. BaseUnits(line) \in Nat
    <3>1. /\ line.quantity \in Nat /\ resource[line.res].factor \in Nat
      BY <2>3 DEF TypeOK, ResourceRow, Line
    <3>. HIDE DEF line
    <3>. QED
      BY <3>1 DEF BaseUnits
  <2>5. Fits(built.items, Known)
    <3>1. q.items \in Items /\ Fits(q.items, Known)
      BY <1>1 DEF HandlerFits, Handler
    <3>. DEFINE items == q.items
                more == Push(items, line.res, BaseUnits(line))
    <3>. HIDE DEF items, line
    <3>2. ItemsAgree(more)
      BY <2>3, <2>4, <3>1, PushAgrees DEF Fits, items
    <3>3. more.lines = Append(items.lines, [res |-> line.res, base |-> BaseUnits(line)])
      BY DEF Push
    <3>4. items.lines \in Seq(Snapshot)
      BY <3>1, LineFacts DEF items
    <3>5. PICK s \in Seq(Snapshot) : s = items.lines
      BY <3>4
    <3>6. \A i \in DOMAIN more.lines : \/ i \in DOMAIN s /\ more.lines[i] = s[i]
                                       \/ more.lines[i].res = line.res
      BY <3>3, <3>5
    <3>7. line.res \in Known
      BY <2>1, <2>3 DEF Known
    <3>8. \A i \in DOMAIN s : s[i].res \in Known
      BY <3>1, <3>5 DEF Fits, items
    <3>9. \A i \in DOMAIN more.lines : more.lines[i].res \in Known
      BY <3>6, <3>7, <3>8
    <3>. QED
      BY <2>2, <3>2, <3>9 DEF Fits, items
  <2>6. Fits(q.old, Known)
    BY <1>1 DEF HandlerFits
  <2>7. HandlerFits(built, Known)
    <3>. HIDE DEF built
    <3>. QED
      BY <1>1, <2>2, <2>5, <2>6, PushLineType DEF HandlerFits, PlanFits, built, PushLine, Handler
  <2>8. /\ HandlerFits(reserving, Known) /\ reserving.done = {}
        /\ HandlerFits(editing, Known) /\ editing.done = {}
    <3>1. /\ built.items \in Items /\ built.old \in Items
      BY <2>2 DEF Handler
    <3>2. /\ Reserve(built.items) \in Seq(Move)
          /\ Reconcile(built.old, built.items) \in Seq(Move)
      BY <3>1, ReserveType, ReconcileType
    <3>. HIDE DEF built, q
    <3>. QED
      BY <2>2, <2>5, <2>6, <3>2, PlanningFits
  <2>. HIDE DEF built, reserving, editing, q
  <2>9. \E u \in {built, reserving, editing} : req' = [req EXCEPT ![r] = u]
    BY <2>1
  <2>. QED
    BY <1>1, <2>2, <2>7, <2>8, <2>9, FreshHandler DEF q
<1>. QED
  BY <1>2, <1>3

\* A movement of handler r takes effect (or its product is gone), and r goes on.
LEMMA MakeBalances ==
  ASSUME Sound, TypeOK', Fitting, NEW r \in Requests, NEW i \in Left(r), NEW next,
         RecordAdjustment(req[r].moves[i].res, req[r].moves[i].delta, "orders"),
         Progress(r, i, next), order' = order,
         \/ req[r].pc = "reserve" /\ next = "persist"
         \/ req[r].pc = "reconcile" /\ next = "saveItems"
         \/ req[r].pc = "restore" /\ next = "saveStatus",
         \A p \in Products : Live(p) /\ req[r].moves[i].res = p =>
             Adjustable(p, req[r].moves[i].delta)
  PROVE  Balances(r)
<1>. USE DEF Sound
<1>. DEFINE m == req[r].moves[i]
            q == [req[r] EXCEPT !.done = req[r].done \cup {i},
                                !.pc = IF Left(r) = {i} THEN next ELSE @]
<1>1. /\ req[r] \in Handler /\ HandlerFits(req[r], Known)
      /\ req[r].done \subseteq DOMAIN req[r].moves
      /\ i \in DOMAIN req[r].moves \ req[r].done /\ i \in ToMake(req[r].moves)
  BY DEF TypeOK, Fitting, LocalsAgree, Left, ToMake
<1>2. req' = [req EXCEPT ![r] = q]
  BY <1>1 DEF Progress, TypeOK, Handler
<1>3. q \in Handler
  BY <1>2 DEF TypeOK
<1>4. /\ q.moves = req[r].moves /\ q.done = req[r].done \cup {i}
      /\ q.items = req[r].items /\ q.old = req[r].old /\ q.target = req[r].target
      /\ q.pc = IF Left(r) = {i} THEN next ELSE req[r].pc
  BY <1>1 DEF Handler
<1>. HIDE DEF q
<1>5. Left(r) = {i} => q.done = ToMake(q.moves)
  BY <1>1, <1>4 DEF Left, HandlerFits, PlanFits
<1>6. HandlerFits(q, Known)
  BY <1>1, <1>4, <1>5 DEF HandlerFits, PlanFits
<1>7. m.res \in Resources /\ m.delta \in Int
  BY <1>1, MovementType
<1>8. ASSUME NEW p \in Products, Live(p)
      PROVE  ledger'[p].orders + Held(p, q) = ledger[p].orders + Held(p, req[r])
  <2>1. Held(p, q) = Held(p, req[r]) + (IF m.res = p THEN -m.delta ELSE 0)
    BY <1>1, <1>3, <1>4, HeldOneMore
  <2>2. ledger'[p].orders = ledger[p].orders + (IF m.res = p THEN m.delta ELSE 0)
    BY <1>7, <1>8, LedgerMoves
  <2>3. Held(p, req[r]) \in Int /\ ledger[p].orders \in Int
    BY <1>1, HeldFacts DEF TypeOK
  <2>. HIDE DEF m
  <2>. QED
    BY <1>7, <2>1, <2>2, <2>3
<1>. QED
  BY <1>2, <1>6, <1>8, StockMoves

\* A movement of handler r is undone (or its product is gone).
LEMMA UndoBalances ==
  ASSUME Sound, TypeOK', Fitting, NEW r \in Requests, NEW i \in req[r].done,
         RecordAdjustment(req[r].moves[i].res, -req[r].moves[i].delta, "orders"),
         Regress(r, i), order' = order, req[r].pc \in {"release", "rollback"},
         \A p \in Products : Live(p) /\ req[r].moves[i].res = p =>
             Adjustable(p, -req[r].moves[i].delta)
  PROVE  Balances(r)
<1>. USE DEF Sound
<1>. DEFINE m == req[r].moves[i]
            u == [req[r] EXCEPT !.done = req[r].done \ {i}]
            q == IF u.done = {} THEN Idle ELSE u
<1>1. /\ req[r] \in Handler /\ HandlerFits(req[r], Known)
      /\ req[r].done \subseteq DOMAIN req[r].moves
  BY DEF TypeOK, Fitting, LocalsAgree
<1>2. /\ u.moves = req[r].moves /\ u.done = req[r].done \ {i} /\ u.pc = req[r].pc
      /\ u.items = req[r].items /\ u.old = req[r].old /\ u.target = req[r].target
      /\ u \in Handler
  BY <1>1 DEF Handler
<1>3. req' = [req EXCEPT ![r] = q]
  BY <1>2 DEF Regress
<1>. HIDE DEF u
<1>4. HandlerFits(u, Known)
  BY <1>1, <1>2 DEF HandlerFits, PlanFits
<1>5. HandlerFits(q, Known)
  BY <1>4, IdleFits
<1>6. m.res \in Resources /\ m.delta \in Int /\ -m.delta \in Int
  BY <1>1, MovementType
<1>7. ASSUME NEW p \in Products, Live(p)
      PROVE  ledger'[p].orders + Held(p, q) = ledger[p].orders + Held(p, req[r])
  <2>1. Held(p, req[r]) = Held(p, u) + (IF m.res = p THEN -m.delta ELSE 0)
    <3>1. u.done \subseteq DOMAIN u.moves /\ i \in DOMAIN u.moves \ u.done
      BY <1>1, <1>2
    <3>2. req[r].moves = u.moves /\ req[r].done = u.done \cup {i}
      BY <1>2
    <3>. DEFINE w == req[r]
    <3>3. w \in Handler /\ w.moves = u.moves /\ w.done = u.done \cup {i} /\ u \in Handler
      BY <1>1, <1>2, <3>2
    <3>. HIDE DEF w
    <3>4. Held(p, w) = Held(p, u) + (IF u.moves[i].res = p THEN -u.moves[i].delta ELSE 0)
      BY <3>1, <3>3, HeldOneMore
    <3>5. Held(p, req[r]) = Held(p, u) + (IF u.moves[i].res = p THEN -u.moves[i].delta ELSE 0)
      BY <3>4 DEF w
    <3>. QED
      BY <3>2, <3>5
  <2>2. ledger'[p].orders = ledger[p].orders + (IF m.res = p THEN -m.delta ELSE 0)
    BY <1>6, <1>7, LedgerMoves
  <2>3. Held(p, u) \in Int /\ ledger[p].orders \in Int
    BY <1>1, <1>2, HeldFacts DEF TypeOK
  <2>4. Held(p, q) = Held(p, u)
    BY <1>1, <1>2, IdleFits, HeldFacts
  <2>. HIDE DEF m, q
  <2>. QED
    BY <1>6, <2>1, <2>2, <2>3, <2>4
<1>. HIDE DEF q
<1>. QED
  BY <1>3, <1>5, <1>7, StockMoves

\* A handler falls back: what it did stays held, if it did anything.
LEMMA AbortBalances ==
  ASSUME Sound, TypeOK', Fitting, NEW r \in Requests, NEW step, Abort(r, step),
         UNCHANGED <<ledger, order>>,
         \/ req[r].pc \in {"reserve", "persist"} /\ step = "release"
         \/ req[r].pc \in {"reconcile", "saveItems"} /\ step = "rollback"
  PROVE  Balances(r)
<1>. USE DEF Sound
<1>. DEFINE u == [req[r] EXCEPT !.pc = step]
            q == IF req[r].done = {} THEN Idle ELSE u
<1>1. /\ req[r] \in Handler /\ HandlerFits(req[r], Known)
      /\ req[r].done \subseteq DOMAIN req[r].moves
  BY DEF TypeOK, Fitting, LocalsAgree
<1>2. /\ u.moves = req[r].moves /\ u.done = req[r].done /\ u.pc = step
      /\ u.items = req[r].items /\ u.old = req[r].old /\ u.target = req[r].target
      /\ u \in Handler
  BY <1>1 DEF Handler, Steps, CatchingSteps
<1>3. req' = [req EXCEPT ![r] = q]
  BY DEF Abort
<1>. HIDE DEF u
<1>4. HandlerFits(u, Known)
  BY <1>1, <1>2 DEF HandlerFits, PlanFits
<1>5. HandlerFits(q, Known)
  BY <1>4, IdleFits
<1>6. ASSUME NEW p \in Products
      PROVE  Held(p, q) = Held(p, req[r])
  <2>1. Held(p, u) = Held(p, req[r])
    BY <1>1, <1>2, HeldFacts
  <2>2. req[r].done = {} => Held(p, req[r]) = 0 /\ Held(p, Idle) = 0
    BY <1>1, IdleFits, HeldFacts
  <2>. QED
    BY <2>1, <2>2
<1>. HIDE DEF q
<1>. QED
  BY <1>3, <1>5, <1>6, StockMoves

\* The rollback of handler r meets a product that has sold what an edit gave back.
ShortRollback(r) ==
    /\ RollbackLine(r)
    /\ \E i \in req[r].done :
          LET m == req[r].moves[i]
          IN  /\ Earliest(i, req[r].done)
              /\ m.res \in Products /\ Live(m.res)
              /\ ~Adjustable(m.res, -m.delta)

\* The directions in which plans move stock.
LEMMA PlanSigns ==
  ASSUME NEW items \in Items
  PROVE  /\ \A i \in DOMAIN Reserve(items) : Reserve(items)[i].delta <= 0
         /\ \A i \in DOMAIN Restore(items) : Restore(items)[i].delta >= 0
<1>1. \A i \in DOMAIN items.lines : items.lines[i].base \in Nat
  BY LineFacts
<1>2. ASSUME NEW i \in DOMAIN Reserve(items) PROVE Reserve(items)[i].delta <= 0
  <2>1. i \in DOMAIN items.lines
    BY DEF Reserve
  <2>2. Reserve(items)[i].delta = IF items.lines[i].res \in Products
                                  THEN -items.lines[i].base ELSE 0
    BY <2>1 DEF Reserve
  <2>. QED
    BY <1>1, <2>1, <2>2
<1>3. ASSUME NEW i \in DOMAIN Restore(items) PROVE Restore(items)[i].delta >= 0
  <2>1. i \in DOMAIN items.lines
    BY DEF Restore
  <2>2. Restore(items)[i].delta = IF items.lines[i].res \in Products
                                  THEN items.lines[i].base ELSE 0
    BY <2>1 DEF Restore
  <2>. QED
    BY <1>1, <2>1, <2>2
<1>. QED
  BY <1>2, <1>3

LEMMA MovingBalances ==
  ASSUME Sound, TypeOK', Fitting, NEW r \in Requests, ~ShortRollback(r),
         \/ ReserveLine(r) \/ ReleaseLine(r) \/ ReconcileLine(r)
         \/ RollbackLine(r) \/ RestoreLine(r)
  PROVE  Balances(r)
<1>. USE DEF Sound
<1>1. /\ req[r] \in Handler /\ HandlerFits(req[r], Known) /\ PlanFits(req[r])
      /\ req[r].items \in Items /\ req[r].old \in Items
      /\ req[r].done \subseteq DOMAIN req[r].moves
      /\ Left(r) \subseteq DOMAIN req[r].moves
  BY DEF TypeOK, Fitting, HandlerFits, LocalsAgree, Left, ToMake, Handler
<1>2. \A i \in DOMAIN req[r].moves : req[r].moves[i].delta \in Int
  BY MovementType
<1>3. CASE ReserveLine(r)
  <2>1. PICK i \in Left(r) :
          LET m == req[r].moves[i]
          IN  /\ RecordAdjustment(m.res, m.delta, "orders")
              /\ IF Adjustable(m.res, m.delta)
                 THEN Progress(r, i, "persist")
                 ELSE Abort(r, "release")
    BY <1>3 DEF ReserveLine
  <2>2. req[r].pc = "reserve" /\ order' = order
    BY <1>3 DEF ReserveLine
  <2>3. CASE Adjustable(req[r].moves[i].res, req[r].moves[i].delta)
    BY <2>1, <2>2, <2>3, MakeBalances
  <2>4. CASE ~Adjustable(req[r].moves[i].res, req[r].moves[i].delta)
    BY <2>1, <2>2, <2>4, AbortBalances DEF RecordAdjustment
  <2>. QED
    BY <2>3, <2>4
<1>4. CASE ReleaseLine(r)
  <2>1. PICK i \in req[r].done :
          /\ RecordAdjustment(req[r].moves[i].res, -req[r].moves[i].delta, "orders")
          /\ Regress(r, i)
    BY <1>4 DEF ReleaseLine
  <2>2. req[r].pc = "release" /\ order' = order
    BY <1>4 DEF ReleaseLine
  <2>3. req[r].moves[i].delta <= 0
    BY <1>1, <2>2, PlanSigns DEF PlanFits
  <2>4. ~(-req[r].moves[i].delta < 0)
    BY <1>1, <1>2, <2>3
  <2>5. \A p \in Products : Live(p) => Adjustable(p, -req[r].moves[i].delta)
    BY <2>4 DEF Adjustable, Live
  <2>. QED
    BY <2>1, <2>2, <2>5, UndoBalances
<1>5. CASE ReconcileLine(r)
  <2>1. req[r].pc = "reconcile" /\ order' = order
    BY <1>5 DEF ReconcileLine
  <2>2. CASE Abort(r, "rollback") /\ UNCHANGED <<resource, ledger>>
    BY <2>1, <2>2, AbortBalances
  <2>3. CASE ~(Abort(r, "rollback") /\ UNCHANGED <<resource, ledger>>)
    <3>1. PICK i \in Left(r) :
            LET m == req[r].moves[i]
            IN  /\ RecordAdjustment(m.res, m.delta, "orders")
                /\ IF m.delta > 0 \/ Adjustable(m.res, m.delta)
                   THEN Progress(r, i, "saveItems")
                   ELSE Abort(r, "rollback")
      BY <1>5, <2>3 DEF ReconcileLine
    <3>2. CASE req[r].moves[i].delta > 0 \/ Adjustable(req[r].moves[i].res, req[r].moves[i].delta)
      <4>1. ASSUME NEW p \in Products, Live(p), req[r].moves[i].res = p
            PROVE  Adjustable(p, req[r].moves[i].delta)
        <5>1. CASE req[r].moves[i].delta > 0
          <6>1. ~(req[r].moves[i].delta < 0)
            BY <1>1, <1>2, <5>1
          <6>. QED
            BY <4>1, <6>1 DEF Adjustable, Live
        <5>. QED
          BY <3>2, <4>1, <5>1
      <4>. QED
        BY <2>1, <3>1, <3>2, <4>1, MakeBalances
    <3>3. CASE ~(req[r].moves[i].delta > 0 \/ Adjustable(req[r].moves[i].res, req[r].moves[i].delta))
      BY <2>1, <3>1, <3>3, AbortBalances DEF RecordAdjustment
    <3>. QED
      BY <3>2, <3>3
  <2>. QED
    BY <2>2, <2>3
<1>6. CASE RollbackLine(r)
  <2>1. PICK i \in req[r].done :
          /\ Earliest(i, req[r].done)
          /\ RecordAdjustment(req[r].moves[i].res, -req[r].moves[i].delta, "orders")
          /\ Regress(r, i)
    BY <1>6 DEF RollbackLine
  <2>2. req[r].pc = "rollback" /\ order' = order
    BY <1>6 DEF RollbackLine
  <2>3. \A p \in Products : Live(p) /\ req[r].moves[i].res = p =>
           Adjustable(p, -req[r].moves[i].delta)
    BY <1>6, <2>1 DEF ShortRollback
  <2>. QED
    BY <2>1, <2>2, <2>3, UndoBalances
<1>7. CASE RestoreLine(r)
  <2>1. PICK i \in Left(r) :
          /\ RecordAdjustment(req[r].moves[i].res, req[r].moves[i].delta, "orders")
          /\ Progress(r, i, "saveStatus")
    BY <1>7 DEF RestoreLine
  <2>2. req[r].pc = "restore" /\ order' = order
    BY <1>7 DEF RestoreLine
  <2>3. i \in DOMAIN req[r].moves
    BY <1>1
  <2>4. req[r].moves = Restore(req[r].old)
    BY <1>1, <2>2, <2>3 DEF PlanFits
  <2>5. req[r].moves[i].delta >= 0
    BY <1>1, <2>3, <2>4, PlanSigns
  <2>6. ~(req[r].moves[i].delta < 0)
    BY <1>2, <2>3, <2>5
  <2>7. \A p \in Products : Live(p) => Adjustable(p, req[r].moves[i].delta)
    BY <2>6 DEF Adjustable, Live
  <2>. QED
    BY <2>1, <2>2, <2>7, MakeBalances
<1>. QED
  BY <1>3, <1>4, <1>5, <1>6, <1>7

LEMMA SavingBalances ==
  ASSUME Sound, TypeOK', Fitting, NEW r \in Requests,
         PersistOrder(r) \/ SaveItems(r) \/ SaveStatus(r)
  PROVE  Balances(r)
<1>. USE DEF Sound
<1>. DEFINE q == req[r]
            o == q.oid
<1>1. /\ q \in Handler /\ HandlerFits(q, Known) /\ PlanFits(q)
      /\ q.items \in Items /\ q.old \in Items
      /\ Fits(q.items, Known) /\ Fits(q.old, Known)
      /\ q.done \subseteq DOMAIN q.moves
  BY DEF TypeOK, Fitting, HandlerFits, LocalsAgree, Handler
<1>2. UNCHANGED <<resource, ledger>>
  BY DEF PersistOrder, SaveItems, SaveStatus
<1>3. CASE Abort(r, "release") /\ order' = order /\ q.pc = "persist"
  BY <1>2, <1>3, AbortBalances
<1>4. CASE Abort(r, "rollback") /\ order' = order /\ q.pc = "saveItems"
  BY <1>2, <1>4, AbortBalances
<1>5. CASE q.pc # "idle"
  <2>1. /\ o \in OrderIds /\ order[o].status \in Expected(q) /\ order[o].items = q.old
        /\ order[o] \in OrderRow
    BY <1>5 DEF ReadsStayTrue, TypeOK
  <2>2. q.pc \in {"persist", "saveItems", "saveStatus"} =>
           \A p \in Products : Held(p, q) = Planned(q.moves, p)
    BY <1>1, HeldFacts DEF PlanFits
  <2>3. ASSUME q.pc = "persist", Finish(r),
               order' = [order EXCEPT ![o] = [status |-> "pending", items |-> q.items,
                                              invoice |-> NoInvoice]]
        PROVE  Balances(r)
    <3>. DEFINE row == [status |-> "pending", items |-> q.items, invoice |-> NoInvoice]
    <3>1. order[o].status = "absent"
      BY <2>1, <2>3 DEF Expected
    <3>2. row \in OrderRow
      BY <1>1 DEF OrderRow, OrderStatus
    <3>3. ASSUME NEW p \in Products
          PROVE  Share(row, p) = Share(order[o], p) + Held(p, q)
      <4>1. Held(p, q) = q.items.units[p]
        BY <1>1, <2>2, <2>3, ReservePlans DEF PlanFits, Fits
      <4>2. q.items.units[p] \in Int
        BY <1>1, LineFacts
      <4>. QED
        BY <3>1, <4>1, <4>2 DEF Share
    <3>4. row.items = q.items
      OBVIOUS
    <3>5. order' = [order EXCEPT ![o] = row]
      BY <2>3
    <3>. HIDE DEF row, o
    <3>. QED
      BY <1>1, <1>2, <2>1, <2>3, <3>2, <3>3, <3>4, <3>5, RowMoves
  <2>4. ASSUME q.pc = "saveItems", Finish(r),
               order' = [order EXCEPT ![o].items = q.items]
        PROVE  Balances(r)
    <3>. DEFINE row == [order[o] EXCEPT !.items = q.items]
    <3>1. order[o].status = "pending"
      BY <2>1, <2>4 DEF Expected
    <3>2. row \in OrderRow /\ row.items = q.items /\ row.status = "pending"
      BY <1>1, <2>1, <3>1 DEF OrderRow
    <3>3. ASSUME NEW p \in Products
          PROVE  Share(row, p) = Share(order[o], p) + Held(p, q)
      <4>1. Held(p, q) = q.items.units[p] - q.old.units[p]
        BY <1>1, <2>2, <2>4, ReconcilePlans DEF PlanFits, Fits
      <4>2. q.items.units[p] \in Int /\ q.old.units[p] \in Int
        BY <1>1, LineFacts
      <4>3. Share(row, p) = q.items.units[p] /\ Share(order[o], p) = q.old.units[p]
        BY <2>1, <3>1, <3>2 DEF Share
      <4>. QED
        BY <4>1, <4>2, <4>3
    <3>5. order' = [order EXCEPT ![o] = row]
      BY <2>1, <2>4 DEF TypeOK
    <3>. HIDE DEF row, o
    <3>. QED
      BY <1>1, <1>2, <2>1, <2>4, <3>2, <3>3, <3>5, RowMoves
  <2>5. ASSUME q.pc = "saveStatus", Finish(r),
               order' = [order EXCEPT ![o].status = q.target]
        PROVE  Balances(r)
    <3>. DEFINE row == [order[o] EXCEPT !.status = q.target]
    <3>1. order[o].status \in OrderStatus /\ q.target \in ORDER_TRANSITIONS[order[o].status]
      BY <2>1, <2>5 DEF Expected
    <3>2. row \in OrderRow /\ row.items = order[o].items /\ row.status = q.target
      BY <1>1, <2>1 DEF OrderRow, Handler
    <3>3. ASSUME NEW p \in Products
          PROVE  Share(row, p) = Share(order[o], p) + Held(p, q)
      <4>1. Share(order[o], p) = q.old.units[p] /\ q.old.units[p] \in Int
        BY <1>1, <2>1, <3>1, LineFacts DEF Share, ORDER_TRANSITIONS, OrderStatus
      <4>2. CASE q.target = "cancelled"
        <5>1. Held(p, q) = -q.old.units[p]
          BY <1>1, <2>2, <2>5, <4>2, RestorePlans DEF PlanFits, Fits
        <5>2. Share(row, p) = 0
          BY <3>2, <4>2 DEF Share
        <5>. QED
          BY <4>1, <5>1, <5>2
      <4>3. CASE q.target # "cancelled"
        <5>1. q.done = {}
          BY <1>1, <2>5, <4>3 DEF PlanFits, ToMake
        <5>2. Held(p, q) = 0
          BY <1>1, <5>1, HeldFacts
        <5>3. q.target \in {"pending", "completed"}
          BY <1>1, <4>3 DEF Handler, OrderStatus
        <5>4. Share(row, p) = q.old.units[p]
          BY <2>1, <3>2, <5>3 DEF Share
        <5>. QED
          BY <4>1, <5>2, <5>4
      <4>. QED
        BY <4>2, <4>3
    <3>5. order' = [order EXCEPT ![o] = row]
      BY <2>1, <2>5 DEF TypeOK
    <3>6. Fits(row.items, Known)
      BY <2>1, <3>2 DEF Fitting
    <3>. HIDE DEF row, o
    <3>. QED
      BY <1>1, <1>2, <2>1, <2>5, <3>2, <3>3, <3>5, <3>6, RowMoves
  <2>. QED
    BY <1>3, <1>4, <2>3, <2>4, <2>5 DEF PersistOrder, SaveItems, SaveStatus
<1>. QED
  BY <1>5 DEF PersistOrder, SaveItems, SaveStatus

\* A step outside the handlers, and what it does to a product: nothing to the
\* units of a live one, and no product comes to life with units taken.
LEMMA TableSteps ==
  ASSUME Sound, ResourceStep \/ AttachInvoice \/ DetachInvoice \/ UNCHANGED vars
  PROVE  /\ req' = req
         /\ \A o \in OrderIds : /\ order'[o].status = order[o].status
                                /\ order'[o].items = order[o].items
         /\ \A p \in Products : ledger'[p].orders = ledger[p].orders
<1>. USE DEF Sound
<1>1. ASSUME NEW os, NEW i, LinkInvoice(os, i)
      PROVE  /\ req' = req /\ ledger' = ledger
             /\ \A o \in OrderIds : /\ order'[o].status = order[o].status
                                    /\ order'[o].items = order[o].items
  <2>1. \A o \in OrderIds : order[o] \in OrderRow
    BY DEF TypeOK
  <2>. QED
    BY <1>1, <2>1 DEF LinkInvoice, OrderRow
<1>2. ASSUME NEW p \in Products, AdjustStock(p)
      PROVE  /\ req' = req /\ order' = order
             /\ \A x \in Products : ledger'[x].orders = ledger[x].orders
  <2>1. PICK d \in Deltas : RecordAdjustment(p, d, "manual")
    BY <1>2 DEF AdjustStock
  <2>2. ledger \in [Products -> [orders : Int, manual : Int]]
    BY DEF TypeOK
  <2>3. \/ ledger' = ledger
        \/ ledger' = [ledger EXCEPT ![p]["manual"] = @ + d]
    BY <2>1 DEF RecordAdjustment
  <2>4. \A x \in Products : ledger'[x].orders = ledger[x].orders
    BY <2>2, <2>3
  <2>. QED
    BY <1>2, <2>4 DEF AdjustStock
<1>3. CASE \E x \in Resources : CreateResource(x) \/ DeleteResource(x)
  BY <1>3 DEF CreateResource, DeleteResource
<1>4. CASE \E p \in Products : UpdateResource(p)
  BY <1>4 DEF UpdateResource
<1>. QED
  BY <1>1, <1>2, <1>3, <1>4 DEF ResourceStep, AttachInvoice, DetachInvoice, vars

LEMMA TableBalances ==
  ASSUME Sound, ResourceStep \/ AttachInvoice \/ DetachInvoice \/ UNCHANGED vars,
         NEW p \in Products
  PROVE  Slack(p)' = Slack(p)
<1>1. Reserved(p)' = Reserved(p)
  BY TableSteps, ReservedSame DEF Sound
<1>2. InFlight(p)' = InFlight(p)
  BY TableSteps DEF InFlight
<1>3. ledger'[p].orders = ledger[p].orders
  BY TableSteps
<1>. QED
  BY <1>1, <1>2, <1>3 DEF Slack

LEMMA HandlerBalances ==
  ASSUME Sound, Sound', Fitting, NEW r \in Requests, ~ShortRollback(r),
         Begin(r) \/ Continue(r)
  PROVE  Balances(r)
<1>1. TypeOK'
  BY DEF Sound
<1>. QED
  BY <1>1, BeginBalances, BuildBalances, MovingBalances, SavingBalances DEF Continue

\* The plans, and the items orders and handlers carry, go on fitting.
LEMMA StepFits ==
  ASSUME Sound, Sound', Fitting, [Next]_vars, \A r \in Requests : ~ShortRollback(r)
  PROVE  Fitting'
<1>1. Known \subseteq Known'
  BY KnownStays DEF Sound
<1>2. ASSUME req' = req, \A o \in OrderIds : order'[o].items = order[o].items
      PROVE  Fitting'
  BY <1>1, <1>2, FitsMore DEF Fitting
<1>3. ASSUME NEW r \in Requests, Balances(r)
      PROVE  Fitting'
  <2>1. PICK q \in Handler : req' = [req EXCEPT ![r] = q] /\ HandlerFits(q, Known)
    BY <1>3 DEF Balances
  <2>2. req'[r] = q /\ \A s \in Requests \ {r} : req'[s] = req[s]
    BY <2>1 DEF TypeOK, Sound
  <2>. QED
    BY <1>1, <1>3, <2>1, <2>2, FitsMore DEF Fitting, Balances
<1>4. ASSUME NEW r \in Requests, Crash(r)
      PROVE  Fitting'
  <2>1. req'[r] = Idle /\ \A s \in Requests \ {r} : req'[s] = req[s]
    BY <1>4 DEF TypeOK, Crash, Finish, Sound
  <2>. QED
    BY <1>1, <1>4, <2>1, FitsMore, IdleFits DEF Fitting, Crash
<1>5. CASE ResourceStep \/ AttachInvoice \/ DetachInvoice \/ UNCHANGED vars
  BY <1>2, <1>5, TableSteps
<1>6. CASE OrderStep
  BY <1>3, <1>4, <1>6, HandlerBalances DEF OrderStep
<1>. QED
  BY <1>5, <1>6 DEF Next

\* What a step does to the balance of a live product: only a handler that ends
\* for good moves it, by the units it held.
LEMMA StepSlack ==
  ASSUME Sound, Sound', Fitting, [Next]_vars, \A r \in Requests : ~ShortRollback(r),
         NEW p \in Products, Live(p)
  PROVE  \/ Slack(p)' = Slack(p)
         \/ \E r \in Requests : Crash(r) /\ Slack(p)' = Slack(p) + Held(p, req[r])
<1>1. ASSUME NEW r \in Requests, Crash(r)
      PROVE  Slack(p)' = Slack(p) + Held(p, req[r])
  <2>1. req' = [req EXCEPT ![r] = Idle] /\ UNCHANGED <<ledger, order>>
    BY <1>1 DEF Crash, Finish
  <2>2. /\ InFlight(p) \in Int
        /\ InFlight(p)' = InFlight(p) - Held(p, req[r]) + Held(p, Idle)
    BY <2>1, IdleFits, InFlightChange DEF Sound
  <2>3. Held(p, Idle) = 0 /\ Held(p, req[r]) \in Int
    BY IdleFits, HeldFacts DEF Sound, TypeOK, LocalsAgree
  <2>4. Reserved(p)' = Reserved(p) /\ Reserved(p) \in Int
    BY <2>1, ReservedSame DEF Sound
  <2>5. ledger[p].orders \in Int /\ ledger'[p].orders = ledger[p].orders
    BY <2>1 DEF Sound, TypeOK
  <2>6. /\ Slack(p) = -ledger[p].orders - Reserved(p) - InFlight(p)
        /\ Slack(p)' = -ledger'[p].orders - Reserved(p)' - InFlight(p)'
    BY DEF Slack
  <2>. QED
    BY <2>2, <2>3, <2>4, <2>5, <2>6
<1>2. ASSUME NEW r \in Requests, Begin(r) \/ Continue(r)
      PROVE  Slack(p)' = Slack(p)
  BY <1>2, HandlerBalances DEF Balances
<1>3. CASE ResourceStep \/ AttachInvoice \/ DetachInvoice \/ UNCHANGED vars
  BY <1>3, TableBalances
<1>. QED
  BY <1>1, <1>2, <1>3 DEF Next, OrderStep

\* A product that does not exist yet has no units anywhere.
LEMMA UnbornHasNothing ==
  ASSUME Sound, Fitting, NoRowsYet, NEW p \in Products, resource[p].state = "absent"
  PROVE  ledger[p].orders = 0 /\ Reserved(p) = 0 /\ InFlight(p) = 0
<1>. USE DEF Sound
<1>1. p \notin Known
  BY DEF Known
<1>2. ledger[p].orders = 0
  BY DEF NoRowsYet
<1>3. Reserved(p) = 0
  <2>. DEFINE f == [o \in OrderIds |-> Share(order[o], p)]
  <2>1. ASSUME NEW o \in OrderIds PROVE f[o] = 0
    <3>1. Fits(order[o].items, Known) /\ order[o].items \in Items
      BY DEF Fitting, TypeOK, OrderRow
    <3>2. LinesOf(order[o].items, p) = {}
      BY <1>1, <3>1 DEF Fits, LinesOf
    <3>3. order[o].items.units[p] = 0
      BY <3>1, <3>2, UnlistedHasNoUnits DEF Fits
    <3>. QED
      BY <3>3 DEF Share
  <2>2. Reserved(p) = SumFunctionOnSet(f, OrderIds)
    BY SharesSum DEF Reserved, LiveOrders, TypeOK
  <2>3. IsFiniteSet(OrderIds)
    BY OrdersAssumption
  <2>. HIDE DEF f
  <2>. QED
    BY <2>1, <2>2, <2>3, SumOfZeros
<1>4. InFlight(p) = 0
  <2>. DEFINE f == [r \in Requests |-> Held(p, req[r])]
  <2>1. \A r \in Requests : f[r] = 0
    BY <1>1, UnknownIsNotHeld DEF Fitting, TypeOK
  <2>2. InFlight(p) = SumFunctionOnSet(f, Requests)
    BY DEF InFlight
  <2>3. IsFiniteSet(Requests)
    BY OrdersAssumption
  <2>. HIDE DEF f
  <2>. QED
    BY <2>1, <2>2, <2>3, SumOfZeros
<1>. QED
  BY <1>2, <1>3, <1>4

\* A product comes to life with no units taken.
LEMMA NewProductBalances ==
  ASSUME Sound, Fitting, NoRowsYet, [Next]_vars, NEW p \in Products, ~Live(p), Live(p)'
  PROVE  Slack(p)' = 0
<1>. USE DEF Sound
<1>1. /\ resource \in [Resources -> ResourceRow] /\ p \in Resources
      /\ \A x \in Products : x \in Resources
  BY DEF TypeOK, Resources
<1>2. CASE \E x \in Resources : CreateResource(x)
  <2>1. resource[p].state = "absent"
    BY <1>1, <1>2 DEF CreateResource, Live
  <2>2. UNCHANGED <<ledger, order, req>>
    BY <1>2 DEF CreateResource
  <2>3. ledger[p].orders = 0 /\ Reserved(p) = 0 /\ InFlight(p) = 0
    BY <2>1, UnbornHasNothing
  <2>4. Slack(p)' = Slack(p)
    BY <1>2, TableBalances DEF ResourceStep
  <2>. QED
    BY <2>3, <2>4 DEF Slack
<1>3. CASE ~\E x \in Resources : CreateResource(x)
  <2>1. ASSUME NEW x \in Resources, DeleteResource(x) PROVE Live(p)' => Live(p)
    BY <1>1, <2>1 DEF DeleteResource, Live
  <2>2. ASSUME NEW x \in Products, UpdateResource(x) PROVE Live(p)' => Live(p)
    <3>1. x \in Resources /\ resource'[x].state = "live" /\ resource[x].state = "live"
      BY <1>1, <2>2 DEF UpdateResource, ResourceRow
    <3>2. \A y \in Resources \ {x} : resource'[y] = resource[y]
      BY <1>1, <2>2 DEF UpdateResource
    <3>. QED
      BY <1>1, <3>1, <3>2 DEF Live
  <2>3. ASSUME NEW x \in Resources, NEW delta \in Int, NEW kind, RecordAdjustment(x, delta, kind)
        PROVE  Live(p)' => Live(p)
    BY <1>1, <2>3 DEF RecordAdjustment, ResourceRow, Live
  <2>4. UNCHANGED <<resource, ledger>> => (Live(p)' => Live(p))
    BY DEF Live
  <2>. QED
    BY <1>3, <2>1, <2>2, <2>3, <2>4, StockSteps
<1>. QED
  BY <1>2, <1>3

\* A product that does not exist yet keeps having no ledger rows.
LEMMA StepNoRows ==
  ASSUME TypeOK, LocalsAgree, NoRowsYet, [Next]_vars
  PROVE  NoRowsYet'
<1>1. CASE UNCHANGED <<resource, ledger>>
  BY <1>1 DEF NoRowsYet
<1>2. ASSUME NEW x \in Resources, CreateResource(x) \/ DeleteResource(x)
      PROVE  NoRowsYet'
  BY <1>2 DEF NoRowsYet, CreateResource, DeleteResource, TypeOK, Resources
<1>3. ASSUME NEW p \in Products, UpdateResource(p)
      PROVE  NoRowsYet'
  <2>1. resource \in [Resources -> ResourceRow] /\ \A x \in Products : x \in Resources
    BY DEF TypeOK, Resources
  <2>2. resource'[p].state = resource[p].state
    BY <1>3, <2>1 DEF UpdateResource, ResourceRow
  <2>3. \A x \in Resources \ {p} : resource'[x] = resource[x]
    BY <1>3, <2>1 DEF UpdateResource
  <2>. QED
    BY <1>3, <2>1, <2>2, <2>3 DEF NoRowsYet, UpdateResource
<1>4. ASSUME NEW p, NEW delta \in Int, NEW kind \in {"orders", "manual"},
             RecordAdjustment(p, delta, kind)
      PROVE  NoRowsYet'
  BY <1>4 DEF NoRowsYet, RecordAdjustment, Adjustable, TypeOK, ResourceRow, Resources
<1>. QED
  BY <1>1, <1>2, <1>3, <1>4, StockSteps

LEMMA InitFits == Init => Fitting /\ NoRowsYet /\ \A p \in Products : ~Live(p)
<1>. SUFFICES ASSUME Init PROVE Fitting /\ NoRowsYet /\ \A p \in Products : ~Live(p)
  OBVIOUS
<1>1. /\ \A o \in OrderIds : order[o].items = NoItems
      /\ \A r \in Requests : req[r] = Idle
  BY DEF Init, NoRow
<1>2. Fits(NoItems, Known)
  BY IdleFits DEF HandlerFits, Idle
<1>3. Fitting
  BY <1>1, <1>2, IdleFits DEF Fitting
<1>. QED
  BY <1>3 DEF Init, NoRowsYet, Live, Resources

\* Units are integers.
LEMMA SlackType ==
  ASSUME Sound, NEW p \in Products
  PROVE  /\ Slack(p) \in Int /\ ledger[p].orders \in Int
         /\ Reserved(p) \in Int /\ InFlight(p) \in Int
         /\ -ledger[p].orders = Slack(p) + (Reserved(p) + InFlight(p))
<1>1. ledger[p].orders \in Int
  BY DEF Sound, TypeOK
<1>2. Reserved(p) \in Int
  BY SharesSum DEF Sound, TypeOK, Reserved, LiveOrders
<1>3. InFlight(p) \in Int
  <2>. DEFINE f == [r \in Requests |-> Held(p, req[r])]
  <2>1. IntegerOn(f, Requests) /\ IsFiniteSet(Requests)
    BY HeldFacts, OrdersAssumption DEF IntegerOn, Sound, TypeOK, LocalsAgree
  <2>2. InFlight(p) = SumFunctionOnSet(f, Requests)
    BY DEF InFlight
  <2>. HIDE DEF f
  <2>. QED
    BY <2>1, <2>2, SumInt
<1>4. Slack(p) = -ledger[p].orders - Reserved(p) - InFlight(p)
  BY DEF Slack
<1>. QED
  BY <1>1, <1>2, <1>3, <1>4

\* No rollback meets a product that has sold what the edit gave back.
RollbacksSucceed == [][\A r \in Requests : ~ShortRollback(r)]_vars

\* Types, true reads, fitting plans, and no ledger rows of unborn products.
Orderly == Sound /\ Fitting /\ NoRowsYet

\* A step of [Next]_vars in which no rollback falls short.
LEMMA NoShortRollback ==
  ASSUME Sound, [Next]_vars, [\A r \in Requests : ~ShortRollback(r)]_vars
  PROVE  \A r \in Requests : ~ShortRollback(r)
<1>1. ASSUME NEW r \in Requests, ShortRollback(r) PROVE req' # req
  <2>1. PICK i \in req[r].done : Regress(r, i)
    BY <1>1 DEF ShortRollback, RollbackLine
  <2>2. req[r].pc = "rollback" /\ req[r] \in Handler /\ req \in [Requests -> Handler]
    BY <1>1 DEF ShortRollback, RollbackLine, Sound, TypeOK
  <2>. QED
    BY <2>1, <2>2 DEF Regress, Idle, Handler
<1>. QED
  BY <1>1 DEF vars

LEMMA StepOrderly ==
  ASSUME ~Overlap, Orderly, [Next]_vars, \A r \in Requests : ~ShortRollback(r)
  PROVE  Orderly'
<1>1. Sound'
  BY StepType, StepAgrees, StepEmpty, StepReads DEF Orderly, Sound
<1>. QED
  BY <1>1, StepFits, StepNoRows DEF Orderly, Sound

LEMMA InitOrderly == Init => Orderly /\ \A p \in Products : ~Live(p)
<1>1. Init => Sound
  BY InitTyped DEF Init, Sound, EmptyRows, ReadsStayTrue, NoRow, Idle
<1>. QED
  BY <1>1, InitFits DEF Orderly

UnitsAgree == \A p \in Products :
    /\ -ledger[p].orders = Slack(p) + (Reserved(p) + InFlight(p))
    /\ Reserved(p) \in Int /\ InFlight(p) \in Int /\ Slack(p) \in Int

LEMMA UnitsDoAgree == Sound => UnitsAgree
BY SlackType DEF UnitsAgree

\* Where only handlers end for good that did nothing, no step moves the balance of a
\* product.
LEMMA StepBalanced ==
  ASSUME \A r \in Requests : Crash(r) => req[r].done = {}, Orderly, Orderly', [Next]_vars, \A r \in Requests : ~ShortRollback(r),
         ReservationsBalance
  PROVE  ReservationsBalance'
<1>1. ASSUME NEW p \in Products, Live(p)' PROVE Slack(p)' = 0
  <2>1. CASE Live(p)
    <3>1. Slack(p) = 0
      BY <2>1, SlackType DEF ReservationsBalance, Live, Orderly
    <3>2. ASSUME NEW r \in Requests, Crash(r), Slack(p)' = Slack(p) + Held(p, req[r])
          PROVE  Slack(p)' = 0
      <4>1. Held(p, req[r]) = 0
        BY <3>2, HeldFacts DEF Orderly, Sound, TypeOK
      <4>. QED
        BY <3>1, <3>2, <4>1
    <3>. QED
      BY <2>1, <3>1, <3>2, StepSlack DEF Orderly
  <2>2. CASE ~Live(p)
    BY <1>1, <2>2, NewProductBalances DEF Orderly
  <2>. QED
    BY <2>1, <2>2
<1>2. Sound' => UnitsAgree'
  BY UnitsDoAgree, PTL
<1>4. ASSUME NEW p \in Products, Live(p)'
      PROVE  -ledger'[p].orders = Reserved(p)' + InFlight(p)'
  BY <1>1, <1>2, <1>4 DEF Orderly, UnitsAgree
<1>. QED
  BY <1>4 DEF ReservationsBalance, Live

\* Stock reservation is exact: with one request at a time on each order, and no
\* handler that dies, the only way to lose or invent a unit is a rollback that falls
\* short.  For every set of products, orders, requests and carts, failing anywhere.
THEOREM ReservationsDoBalance ==
  ASSUME ~Overlap, Crashing = {}
  PROVE  Spec /\ RollbacksSucceed => []ReservationsBalance
<1>1. Init => Orderly /\ ReservationsBalance
  BY InitOrderly DEF ReservationsBalance, Live
<1>2. Orderly /\ [Next]_vars /\ [\A r \in Requests : ~ShortRollback(r)]_vars => Orderly'
  BY NoShortRollback, StepOrderly DEF Orderly
<1>3. ReservationsBalance /\ Orderly /\ Orderly' /\ [Next]_vars
         /\ [\A r \in Requests : ~ShortRollback(r)]_vars => ReservationsBalance'
  BY NoShortRollback, StepBalanced DEF Orderly, Crash
<1>. QED
  BY <1>1, <1>2, <1>3, PTL DEF Spec, RollbacksSucceed

\* What a handler that creates an order holds is never negative.
LEMMA CreatorHolds ==
  ASSUME Orderly, NEW r \in Requests, req[r].pc \in {"build", "reserve", "release", "persist"},
         NEW p \in Products
  PROVE  Held(p, req[r]) >= 0
<1>. DEFINE q == req[r]
            T == MovesOf(q.moves, p, q.done)
            f == Takings(q.moves)
            none == [i \in T |-> 0]
<1>1. /\ q \in Handler /\ PlanFits(q) /\ q.items \in Items /\ q.moves \in Seq(Move)
      /\ q.done \subseteq DOMAIN q.moves
  BY DEF Orderly, Sound, TypeOK, LocalsAgree, Fitting, HandlerFits, Handler
<1>2. CASE q.pc = "build"
  <2>1. q.done = {}
    BY <1>1, <1>2 DEF PlanFits
  <2>. QED
    BY <1>1, <2>1, HeldFacts
<1>3. CASE q.pc # "build"
  <2>1. q.moves = Reserve(q.items)
    BY <1>1, <1>3 DEF PlanFits
  <2>2. T \in SUBSET DOMAIN q.moves
    BY <1>1 DEF MovesOf
  <2>3. IsFiniteSet(T) /\ IntegerOn(f, T)
    BY <1>1, <2>2, MoveFacts
  <2>4. \A i \in T : q.moves[i].delta <= 0 /\ q.moves[i].delta \in Int
    BY <1>1, <2>1, <2>2, PlanSigns, MoveFacts
  <2>5. \A i \in T : f[i] = -q.moves[i].delta
    BY <2>2 DEF Takings
  <2>6. Held(p, q) = SumFunctionOnSet(f, T)
    BY <1>1, HeldFacts
  <2>7. IntegerOn(none, T) /\ \A i \in T : none[i] = 0
    BY DEF IntegerOn
  <2>. HIDE DEF q, T, f, none
  <2>8. \A i \in T : none[i] <= f[i]
    BY <2>4, <2>5, <2>7
  <2>9. SumFunctionOnSet(none, T) = 0
    BY <2>3, <2>7, SumOfZeros
  <2>10. SumFunctionOnSet(none, T) <= SumFunctionOnSet(f, T) /\ SumFunctionOnSet(f, T) \in Int
    BY <2>3, <2>7, <2>8, SumAtMost, SumInt
  <2>. QED
    BY <2>6, <2>9, <2>10 DEF q
<1>. QED
  BY <1>2, <1>3

LEMMA StepCovered ==
  ASSUME Crashing \subseteq {"build", "reserve", "release", "persist"},
         Orderly, Orderly', [Next]_vars, \A r \in Requests : ~ShortRollback(r),
         NothingOversold
  PROVE  NothingOversold'
<1>1. UnitsAgree
  BY UnitsDoAgree DEF Orderly
<1>2. Sound' => UnitsAgree'
  BY UnitsDoAgree, PTL
<1>3. ASSUME NEW p \in Products, Live(p)' PROVE Slack(p)' >= 0
  <2>1. CASE Live(p)
    <3>1. Slack(p) >= 0 /\ Slack(p) \in Int
      BY <1>1, <2>1 DEF NothingOversold, Live, UnitsAgree
    <3>2. ASSUME NEW r \in Requests, Crash(r), Slack(p)' = Slack(p) + Held(p, req[r])
          PROVE  Slack(p)' >= 0
      <4>1. req[r].pc \in {"build", "reserve", "release", "persist"}
        BY <3>2 DEF Crash
      <4>2. Held(p, req[r]) >= 0 /\ Held(p, req[r]) \in Int
        BY <4>1, CreatorHolds, HeldFacts DEF Orderly, Sound, TypeOK, LocalsAgree
      <4>. QED
        BY <3>1, <3>2, <4>2
    <3>. QED
      BY <2>1, <3>1, <3>2, StepSlack DEF Orderly
  <2>2. CASE ~Live(p)
    BY <1>3, <2>2, NewProductBalances DEF Orderly
  <2>. QED
    BY <2>1, <2>2
<1>4. ASSUME NEW p \in Products, Live(p)'
      PROVE  -ledger'[p].orders >= Reserved(p)' + InFlight(p)'
  BY <1>2, <1>3, <1>4 DEF Orderly, UnitsAgree
<1>. QED
  BY <1>4 DEF NothingOversold, Live

\* Nothing is sold twice: even when handlers die while they create an order, every
\* unit a live order holds was taken out of stock and not put back.
THEOREM NothingIsOversold ==
  ASSUME ~Overlap, Crashing \subseteq {"build", "reserve", "release", "persist"}
  PROVE  Spec /\ RollbacksSucceed => []NothingOversold
<1>1. Init => Orderly /\ NothingOversold
  BY InitOrderly DEF NothingOversold, Live
<1>2. Orderly /\ [Next]_vars /\ [\A r \in Requests : ~ShortRollback(r)]_vars => Orderly'
  BY NoShortRollback, StepOrderly DEF Orderly
<1>3. NothingOversold /\ Orderly /\ Orderly' /\ [Next]_vars
         /\ [\A r \in Requests : ~ShortRollback(r)]_vars => NothingOversold'
  BY NoShortRollback, StepCovered DEF Orderly
<1>. QED
  BY <1>1, <1>2, <1>3, PTL DEF Spec, RollbacksSucceed

-----------------------------------------------------------------------------
(* An edit that changes the total of one product makes at most one movement, *)
(* so none is ever undone                                                   *)

\* No running edit moves more than one product.
EditsOneProduct ==
    \A r \in Requests : req[r].pc = "reconcile" =>
        \A i \in ToMake(req[r].moves) : \A k \in ToMake(req[r].moves) : i = k

NoRollback == \A r \in Requests : /\ req[r].pc # "rollback"
                                  /\ req[r].pc = "reconcile" => req[r].done = {}

LEMMA OneMovement ==
  ASSUME NEW old \in Items, NEW new \in Items, NEW p, Products \subseteq {p},
         NEW i \in ToMake(Reconcile(old, new)), NEW k \in ToMake(Reconcile(old, new))
  PROVE  i = k
<1>. DEFINE moves == Reconcile(old, new)
            lines == old.lines \o new.lines
            First(n) == /\ lines[n].res \in Products
                        /\ \A j \in 1 .. n - 1 : lines[j].res # lines[n].res
<1>1. moves \in Seq(Move)
  BY ReconcileType
<1>2. \A n \in DOMAIN moves : moves[n].delta # 0 => First(n)
  BY DEF Reconcile
<1>3. i \in DOMAIN moves /\ k \in DOMAIN moves /\ moves[i].delta # 0 /\ moves[k].delta # 0
  BY DEF ToMake
<1>4. First(i) /\ First(k)
  BY <1>2, <1>3
<1>. HIDE DEF moves
<1>5. DOMAIN moves \in SUBSET Nat /\ DOMAIN moves = 1 .. Len(moves) /\ Len(moves) \in Nat
  BY <1>1
<1>6. lines[i].res = lines[k].res
  BY <1>4
<1>. HIDE DEF lines
<1>7. i \in Nat \ {0} /\ k \in Nat \ {0}
  BY <1>3, <1>5
<1>8. ~(i < k) /\ ~(k < i)
  <2>1. i < k => i \in 1 .. k - 1
    BY <1>7
  <2>2. k < i => k \in 1 .. i - 1
    BY <1>7
  <2>. QED
    BY <1>4, <1>6, <2>1, <2>2
<1>. QED
  BY <1>7, <1>8

LEMMA OneHandlerRollsBack ==
  ASSUME TypeOK, NoRollback, NEW r \in Requests, NEW q, req' = [req EXCEPT ![r] = q],
         q.pc # "rollback", q.pc = "reconcile" => q.done = {}
  PROVE  NoRollback'
BY DEF TypeOK, NoRollback

LEMMA BeginRollsNothingBack ==
  ASSUME Sound, NoRollback, NEW r \in Requests, Begin(r)
  PROVE  NoRollback'
<1>. USE DEF Sound
<1>1. CASE CreateOrder(r)
  <2>1. PICK o \in OrderIds, cart \in Carts :
          req' = [req EXCEPT ![r] =
                     [Idle EXCEPT !.pc = "build", !.oid = o, !.cart = cart]]
    BY <1>1 DEF CreateOrder
  <2>. DEFINE q == [Idle EXCEPT !.pc = "build", !.oid = o, !.cart = cart]
  <2>2. q.pc = "build"
    BY DEF Idle
  <2>3. req' = [req EXCEPT ![r] = q]
    BY <2>1
  <2>. HIDE DEF q
  <2>. QED
    BY <2>2, <2>3, OneHandlerRollsBack
<1>2. CASE EditOrder(r)
  <2>1. PICK o \in OrderIds, cart \in Carts :
          req' = [req EXCEPT ![r] =
                     [Idle EXCEPT !.pc = "build", !.oid = o, !.cart = cart,
                                  !.old = order[o].items]]
    BY <1>2 DEF EditOrder
  <2>. DEFINE q == [Idle EXCEPT !.pc = "build", !.oid = o, !.cart = cart,
                                !.old = order[o].items]
  <2>2. q.pc = "build"
    BY DEF Idle
  <2>3. req' = [req EXCEPT ![r] = q]
    BY <2>1
  <2>. HIDE DEF q
  <2>. QED
    BY <2>2, <2>3, OneHandlerRollsBack
<1>3. ASSUME NEW target \in OrderStatus, UpdateStatus(r, target)
      PROVE  NoRollback'
  <2>1. PICK o \in OrderIds :
          LET q == [Idle EXCEPT !.oid = o, !.target = target, !.old = order[o].items]
              moves == IF target = "cancelled" THEN Restore(q.old) ELSE <<>>
          IN  req' = [req EXCEPT ![r] = Plan(q, moves, "restore", "saveStatus")]
    BY <1>3 DEF UpdateStatus
  <2>. DEFINE q == [Idle EXCEPT !.oid = o, !.target = target, !.old = order[o].items]
              moves == IF target = "cancelled" THEN Restore(q.old) ELSE <<>>
              u == Plan(q, moves, "restore", "saveStatus")
  <2>2. q \in Handler
    BY IdleType DEF Handler, TypeOK, OrderRow
  <2>3. req' = [req EXCEPT ![r] = u]
    BY <2>1
  <2>. HIDE DEF q, moves
  <2>4. u.pc \in {"restore", "saveStatus"}
    BY <2>2 DEF Plan, Handler
  <2>. HIDE DEF u
  <2>. QED
    BY <2>3, <2>4, OneHandlerRollsBack
<1>. QED
  BY <1>1, <1>2, <1>3 DEF Begin, CompleteOrder, CancelOrder, OrderStatus

\* A handler that goes on, falls back or ends, and does not wait to roll back.
LEMMA MovingRollsNothingBack ==
  ASSUME Sound, NoRollback, NEW r \in Requests, NEW i, NEW next,
         next \notin {"rollback", "reconcile"}, req[r].pc # "reconcile" \/ Left(r) = {i},
         Progress(r, i, next) \/ Regress(r, i) \/ Abort(r, next) \/ Finish(r)
  PROVE  NoRollback'
<1>. USE DEF Sound
<1>1. req[r] \in Handler /\ req[r].pc # "rollback"
  BY DEF TypeOK, NoRollback
<1>2. Idle.pc = "idle"
  BY DEF Idle
<1>3. CASE Progress(r, i, next)
  <2>. DEFINE q == [req[r] EXCEPT !.done = req[r].done \cup {i},
                                  !.pc = IF Left(r) = {i} THEN next ELSE @]
  <2>1. req' = [req EXCEPT ![r] = q]
    BY <1>1, <1>3 DEF Progress, TypeOK, Handler
  <2>2. q.pc = IF Left(r) = {i} THEN next ELSE req[r].pc
    BY <1>1 DEF Handler
  <2>. HIDE DEF q
  <2>. QED
    BY <1>1, <2>1, <2>2, OneHandlerRollsBack
<1>4. CASE Regress(r, i)
  <2>. DEFINE q == [req[r] EXCEPT !.done = req[r].done \ {i}]
  <2>1. req' = [req EXCEPT ![r] = Idle] \/ req' = [req EXCEPT ![r] = q]
    BY <1>4 DEF Regress
  <2>2. q.pc = req[r].pc /\ q.done = req[r].done \ {i}
    BY <1>1 DEF Handler
  <2>3. req[r].pc = "reconcile" => req[r].done = {}
    BY DEF NoRollback
  <2>. HIDE DEF q
  <2>. QED
    BY <1>1, <1>2, <2>1, <2>2, <2>3, OneHandlerRollsBack
<1>5. CASE Abort(r, next)
  <2>. DEFINE q == [req[r] EXCEPT !.pc = next]
  <2>1. req' = [req EXCEPT ![r] = Idle] \/ req' = [req EXCEPT ![r] = q]
    BY <1>5 DEF Abort
  <2>2. q.pc = next
    BY <1>1 DEF Handler
  <2>. HIDE DEF q
  <2>. QED
    BY <1>2, <2>1, <2>2, OneHandlerRollsBack
<1>6. CASE Finish(r)
  BY <1>2, <1>6, OneHandlerRollsBack DEF Finish
<1>. QED
  BY <1>3, <1>4, <1>5, <1>6

LEMMA BuildRollsNothingBack ==
  ASSUME Sound, NoRollback, NEW r \in Requests, BuildLine(r)
  PROVE  NoRollback'
<1>. USE DEF Sound
<1>. DEFINE q == req[r]
            built == PushLine(q)
            reserving == Plan(built, Reserve(built.items), "reserve", "persist")
            editing == Plan(built, Reconcile(q.old, built.items),
                            "reconcile", "saveItems")
<1>1. q \in Handler /\ q.pc = "build" /\ q.cart # <<>>
  BY DEF TypeOK, LocalsAgree, BuildLine
<1>2. built \in Handler /\ built.pc = "build"
  BY <1>1, PushLineType DEF PushLine, Handler
<1>3. /\ reserving.pc \in {"reserve", "persist"}
      /\ editing.pc \in {"reconcile", "saveItems"} /\ editing.done = {}
  BY <1>2 DEF Plan, Handler
<1>4. CASE Finish(r)
  <2>1. Idle.pc = "idle"
    BY DEF Idle
  <2>. QED
    BY <1>4, <2>1, OneHandlerRollsBack DEF Finish
<1>5. CASE ~Finish(r)
  <2>1. req' = [req EXCEPT ![r] = IF built.cart # <<>> THEN built
                                  ELSE IF Creating(q) THEN reserving ELSE editing]
    BY <1>5 DEF BuildLine
  <2>. HIDE DEF q, built, reserving, editing
  <2>2. \E u \in {built, reserving, editing} : req' = [req EXCEPT ![r] = u]
    BY <2>1
  <2>. QED
    BY <1>2, <1>3, <2>2, OneHandlerRollsBack
<1>. QED
  BY <1>4, <1>5

LEMMA StepRollsNothingBack ==
  ASSUME EditsOneProduct, "saveItems" \notin Failing, Sound, Fitting, NoRollback, [Next]_vars
  PROVE  NoRollback'
<1>. USE DEF Sound
<1>1. CASE req' = req
  BY <1>1 DEF NoRollback
<1>2. ASSUME NEW r \in Requests, Continue(r)
      PROVE  NoRollback'
  <2>1. CASE BuildLine(r)
    BY <2>1, BuildRollsNothingBack
  <2>2. CASE ReserveLine(r)
    <3>1. PICK i : Progress(r, i, "persist") \/ Abort(r, "release")
      BY <2>2 DEF ReserveLine
    <3>. QED
      BY <2>2, <3>1, MovingRollsNothingBack DEF ReserveLine
  <2>3. CASE ReleaseLine(r)
    <3>1. PICK i : Regress(r, i)
      BY <2>3 DEF ReleaseLine
    <3>2. req[r].pc = "release"
      BY <2>3 DEF ReleaseLine
    <3>3. "none" \notin {"rollback", "reconcile"}
      OBVIOUS
    <3>. QED
      BY <3>1, <3>2, <3>3, MovingRollsNothingBack
  <2>4. CASE PersistOrder(r)
    <3>1. req[r].pc = "persist" /\ (Finish(r) \/ Abort(r, "release"))
      BY <2>4 DEF PersistOrder
    <3>. QED
      BY <3>1, MovingRollsNothingBack
  <2>5. CASE ReconcileLine(r)
    <3>1. req[r].pc = "reconcile" /\ req[r].done = {}
      BY <2>5 DEF ReconcileLine, NoRollback
    <3>2. CASE Abort(r, "rollback")
      <4>1. Finish(r)
        BY <3>1, <3>2 DEF Abort, Finish
      <4>2. Idle.pc = "idle"
        BY DEF Idle
      <4>. QED
        BY <4>1, <4>2, OneHandlerRollsBack DEF Finish
    <3>3. CASE ~Abort(r, "rollback")
      <4>1. PICK i \in Left(r) : Progress(r, i, "saveItems")
        BY <2>5, <3>3 DEF ReconcileLine
      <4>2. Left(r) = {i}
        BY <3>1, <4>1 DEF Left, EditsOneProduct
      <4>. QED
        BY <4>1, <4>2, MovingRollsNothingBack
    <3>. QED
      BY <3>2, <3>3
  <2>6. CASE RollbackLine(r)
    BY <2>6 DEF RollbackLine, NoRollback
  <2>7. CASE SaveItems(r)
    <3>1. req[r].pc = "saveItems" /\ Finish(r)
      BY <2>7 DEF SaveItems
    <3>2. Idle.pc = "idle"
      BY DEF Idle
    <3>. QED
      BY <3>1, <3>2, OneHandlerRollsBack DEF Finish
  <2>8. CASE RestoreLine(r)
    <3>1. PICK i : Progress(r, i, "saveStatus")
      BY <2>8 DEF RestoreLine
    <3>2. req[r].pc = "restore"
      BY <2>8 DEF RestoreLine
    <3>. QED
      BY <3>1, <3>2, MovingRollsNothingBack
  <2>9. CASE SaveStatus(r)
    <3>1. Finish(r) /\ Idle.pc = "idle"
      BY <2>9 DEF SaveStatus, Idle
    <3>. QED
      BY <3>1, OneHandlerRollsBack DEF Finish
  <2>. QED
    BY <1>2, <2>1, <2>2, <2>3, <2>4, <2>5, <2>6, <2>7, <2>8, <2>9 DEF Continue
<1>3. ASSUME NEW r \in Requests, Crash(r)
      PROVE  NoRollback'
  <2>1. Finish(r) /\ Idle.pc = "idle"
    BY <1>3 DEF Crash, Idle
  <2>. QED
    BY <2>1, OneHandlerRollsBack DEF Finish
<1>4. CASE ResourceStep \/ AttachInvoice \/ DetachInvoice \/ UNCHANGED vars
  BY <1>1, <1>4, TableSteps
<1>. QED
  BY <1>2, <1>3, <1>4, BeginRollsNothingBack DEF Next, OrderStep

LEMMA NoRollbackNoneShort ==
  ASSUME NoRollback
  PROVE  \A r \in Requests : ~ShortRollback(r)
BY DEF NoRollback, ShortRollback, RollbackLine

LEMMA InitBalances == Init => Orderly /\ NoRollback /\ ReservationsBalance
BY InitOrderly DEF ReservationsBalance, Live, Init, NoRollback, Idle

LEMMA StepOneProduct ==
  ASSUME ~Overlap, "saveItems" \notin Failing, EditsOneProduct, Orderly, NoRollback,
         [Next]_vars
  PROVE  /\ Orderly' /\ NoRollback'
         /\ (\A r \in Requests : Crash(r) => req[r].done = {}) /\ ReservationsBalance
               => ReservationsBalance'
<1>1. Orderly' /\ NoRollback' /\ \A r \in Requests : ~ShortRollback(r)
  BY NoRollbackNoneShort, StepOrderly, StepRollsNothingBack DEF Orderly
<1>. QED
  BY <1>1, StepBalanced

\* Where every edit moves one product at most and its saves succeed, no assumption on
\* rollbacks is left: no unit is ever lost or invented, whatever other awaits fail.
THEOREM NarrowEditsBalance ==
  ASSUME ~Overlap, Crashing = {}, "saveItems" \notin Failing
  PROVE  Spec /\ []EditsOneProduct => []ReservationsBalance
<1>1. Orderly /\ NoRollback /\ ReservationsBalance /\ EditsOneProduct /\ [Next]_vars
         => Orderly' /\ NoRollback' /\ ReservationsBalance'
  BY StepOneProduct DEF Crash
<1>. QED
  BY <1>1, InitBalances, PTL DEF Spec

\* A plan that reconciles two lists of one product's lines.
LEMMA OneProductEdits ==
  ASSUME NEW p, Products \subseteq {p}, Orderly
  PROVE  EditsOneProduct
<1>1. ASSUME NEW r \in Requests, req[r].pc = "reconcile",
             NEW i \in ToMake(req[r].moves), NEW k \in ToMake(req[r].moves)
      PROVE  i = k
  <2>1. PICK old \in Items, new \in Items : old = req[r].old /\ new = req[r].items
    BY DEF Orderly, Sound, TypeOK, Handler
  <2>2. req[r].moves = Reconcile(old, new)
    BY <1>1, <2>1 DEF Orderly, Fitting, HandlerFits, PlanFits
  <2>. QED
    BY <1>1, <2>2, OneMovement
<1>. QED
  BY <1>1 DEF EditsOneProduct

\* In particular for a business with one product.
THEOREM OneProductBalances ==
  ASSUME ~Overlap, Crashing = {}, NEW p, Products \subseteq {p}, "saveItems" \notin Failing
  PROVE  Spec => []ReservationsBalance
<1>1. Orderly => EditsOneProduct
  BY OneProductEdits
<1>2. Orderly /\ NoRollback /\ ReservationsBalance /\ EditsOneProduct /\ [Next]_vars
         => Orderly' /\ NoRollback' /\ ReservationsBalance'
  BY StepOneProduct DEF Crash
<1>. QED
  BY <1>1, <1>2, InitBalances, PTL DEF Spec

=============================================================================
