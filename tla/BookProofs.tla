----------------------------- MODULE BookProofs -----------------------------
(***************************************************************************)
(* Theorems about OrdersRefinement: the handlers of Orders implement       *)
(* OrderBook, for every number of products, orders and requests.           *)
(***************************************************************************)
EXTENDS OrdersProofs, OrdersRefinement

-----------------------------------------------------------------------------
(* The order book: what the steps of handlers are to it *)

\* A handler at rest has forgotten everything; one that creates or edits is to leave
\* its order pending, one that updates the status has another status to write.
Purposeful(q) ==
    /\ q.pc = "idle" => q = Idle
    /\ q.pc \in {"build", "reserve", "release", "persist",
                 "reconcile", "rollback", "saveItems"} => q.target = "pending"
    /\ q.pc \in {"restore", "saveStatus"} => q.target \in {"completed", "cancelled"}

Purposes == \A r \in Requests : Purposeful(req[r])

\* The awaits a handler can go on to from each of its awaits.
Onward == [build |-> {"build", "reserve", "persist", "reconcile", "saveItems"},
           reserve |-> {"reserve", "persist", "release"},
           release |-> {"release"},
           persist |-> {"release"},
           reconcile |-> {"reconcile", "rollback", "saveItems"},
           rollback |-> {"rollback"},
           saveItems |-> {"rollback"},
           restore |-> {"restore", "saveStatus"},
           saveStatus |-> {}]

\* A handler goes on from q to u, for the same order and with the same purpose.
GoesOn(q, u) == /\ u.oid = q.oid /\ u.target = q.target
                /\ u.pc \in Onward[q.pc]

\* What a busy handler does to itself and to the orders.
Handled(r) ==
    LET q == req[r]
        u == req'[r]
    IN  /\ q.pc \in Steps
        /\ req' = [req EXCEPT ![r] = u]
        /\ \/ order' = order /\ GoesOn(q, u)
           \/ /\ order' = order /\ u = Idle
              /\ q.pc \in {"build", "reserve", "release", "persist", "reconcile", "rollback"}
           \/ /\ q.pc = "persist" /\ u = Idle
              /\ order' = [order EXCEPT ![q.oid] =
                     [status |-> "pending", items |-> q.items, invoice |-> NoInvoice]]
           \/ /\ q.pc = "saveItems" /\ u = Idle
              /\ order' = [order EXCEPT ![q.oid].items = q.items]
           \/ /\ q.pc = "saveStatus" /\ u = Idle
              /\ order' = [order EXCEPT ![q.oid].status = q.target]

LEMMA MovingHandled ==
  ASSUME TypeOK, NEW r \in Requests, order' = order, NEW i, NEW next,
         req[r].pc \in {"build", "reserve", "release", "persist", "reconcile",
                        "rollback", "restore"},
         \/ req[r].pc # "persist" /\ {next, req[r].pc} \subseteq Onward[req[r].pc]
               /\ Progress(r, i, next)
         \/ req[r].pc \in {"release", "rollback"} /\ Regress(r, i)
         \/ req[r].pc # "restore" /\ next \in Onward[req[r].pc] /\ Abort(r, next)
         \/ req[r].pc # "restore" /\ Finish(r)
  PROVE  Handled(r)
<1>1. req[r] \in Handler /\ req \in [Requests -> Handler] /\ req[r].pc \in Steps
  BY DEF TypeOK, Steps, CatchingSteps
<1>2. CASE /\ {next, req[r].pc} \subseteq Onward[req[r].pc]
           /\ Progress(r, i, next)
  <2>. DEFINE u == [req[r] EXCEPT !.done = req[r].done \cup {i},
                                  !.pc = IF Left(r) = {i} THEN next ELSE @]
  <2>1. req' = [req EXCEPT ![r] = u]
    BY <1>1, <1>2 DEF Progress, Handler
  <2>2. u.oid = req[r].oid /\ u.target = req[r].target /\ u.pc \in {next, req[r].pc}
    BY <1>1 DEF Handler
  <2>. HIDE DEF u
  <2>3. req'[r] = u
    BY <1>1, <2>1
  <2>. QED
    BY <1>1, <1>2, <2>1, <2>2, <2>3 DEF Handled, GoesOn
<1>3. CASE req[r].pc \in {"release", "rollback"} /\ Regress(r, i)
  <2>. DEFINE u == [req[r] EXCEPT !.done = req[r].done \ {i}]
  <2>1. req' = [req EXCEPT ![r] = Idle] \/ req' = [req EXCEPT ![r] = u]
    BY <1>3 DEF Regress
  <2>2. u.oid = req[r].oid /\ u.target = req[r].target /\ u.pc = req[r].pc
    BY <1>1 DEF Handler
  <2>. HIDE DEF u
  <2>3. /\ req' = [req EXCEPT ![r] = req'[r]]
        /\ req'[r] = Idle \/ req'[r] = u
    BY <1>1, <2>1
  <2>. QED
    BY <1>1, <1>3, <2>2, <2>3 DEF Handled, GoesOn, Onward
<1>4. CASE req[r].pc # "restore" /\ next \in Onward[req[r].pc] /\ Abort(r, next)
  <2>. DEFINE u == [req[r] EXCEPT !.pc = next]
  <2>1. req' = [req EXCEPT ![r] = Idle] \/ req' = [req EXCEPT ![r] = u]
    BY <1>4 DEF Abort
  <2>2. u.oid = req[r].oid /\ u.target = req[r].target /\ u.pc = next
    BY <1>1 DEF Handler
  <2>. HIDE DEF u
  <2>3. /\ req' = [req EXCEPT ![r] = req'[r]]
        /\ req'[r] = Idle \/ req'[r] = u
    BY <1>1, <2>1
  <2>. QED
    BY <1>1, <1>4, <2>2, <2>3 DEF Handled, GoesOn
<1>5. CASE req[r].pc # "restore" /\ Finish(r)
  <2>1. req' = [req EXCEPT ![r] = req'[r]] /\ req'[r] = Idle
    BY <1>1, <1>5 DEF Finish
  <2>. QED
    BY <1>1, <1>5, <2>1 DEF Handled
<1>. QED
  BY <1>2, <1>3, <1>4, <1>5

LEMMA BuildHandled ==
  ASSUME Sound, NEW r \in Requests, BuildLine(r)
  PROVE  Handled(r)
<1>. USE DEF Sound
<1>. DEFINE q == req[r]
            built == PushLine(q)
            reserving == Plan(built, Reserve(built.items), "reserve", "persist")
            editing == Plan(built, Reconcile(q.old, built.items),
                            "reconcile", "saveItems")
<1>1. q \in Handler /\ q.pc = "build" /\ q.cart # <<>> /\ order' = order
      /\ req \in [Requests -> Handler]
  BY DEF TypeOK, LocalsAgree, BuildLine
<1>2. CASE Finish(r)
  BY <1>1, <1>2, MovingHandled
<1>3. CASE ~Finish(r)
  <2>1. req' = [req EXCEPT ![r] = IF built.cart # <<>> THEN built
                                  ELSE IF Creating(q) THEN reserving ELSE editing]
    BY <1>3 DEF BuildLine
  <2>2. /\ built \in Handler /\ built.pc = "build"
        /\ built.oid = q.oid /\ built.target = q.target
    BY <1>1, PushLineType DEF PushLine, Handler
  <2>. HIDE DEF q, built
  <2>3. \A u \in {built, reserving, editing} :
          /\ u.oid = q.oid /\ u.target = q.target
          /\ u.pc \in {"build", "reserve", "persist", "reconcile", "saveItems"}
    BY <2>2 DEF Plan, Handler
  <2>. HIDE DEF reserving, editing
  <2>4. \E u \in {built, reserving, editing} : req' = [req EXCEPT ![r] = u]
    BY <2>1
  <2>5. req'[r] \in {built, reserving, editing} /\ req' = [req EXCEPT ![r] = req'[r]]
    BY <1>1, <2>4
  <2>. QED
    BY <1>1, <2>3, <2>5 DEF Handled, GoesOn, Onward, Steps, q
<1>. QED
  BY <1>2, <1>3

LEMMA ContinueHandled ==
  ASSUME Sound, "saveItems" \notin Failing, Crashing \subseteq {"build", "reconcile"},
         NEW r \in Requests, Continue(r) \/ Crash(r)
  PROVE  Handled(r)
<1>. USE DEF Sound
<1>1. req[r] \in Handler /\ req \in [Requests -> Handler]
  BY DEF TypeOK
<1>2. CASE BuildLine(r)
  BY <1>2, BuildHandled
<1>3. CASE ReserveLine(r)
  <2>1. PICK i : Progress(r, i, "persist") \/ Abort(r, "release")
    BY <1>3 DEF ReserveLine
  <2>2. req[r].pc = "reserve" /\ order' = order
    BY <1>3 DEF ReserveLine
  <2>. QED
    BY <2>1, <2>2, MovingHandled DEF Onward
<1>4. CASE ReleaseLine(r)
  <2>1. PICK i : Regress(r, i)
    BY <1>4 DEF ReleaseLine
  <2>2. req[r].pc = "release" /\ order' = order
    BY <1>4 DEF ReleaseLine
  <2>. QED
    BY <2>1, <2>2, MovingHandled DEF Onward
<1>5. CASE PersistOrder(r)
  <2>1. req[r].pc = "persist"
    BY <1>5 DEF PersistOrder
  <2>2. CASE Abort(r, "release") /\ order' = order
    BY <2>1, <2>2, MovingHandled DEF Onward
  <2>3. CASE Finish(r)
    <3>1. req' = [req EXCEPT ![r] = req'[r]] /\ req'[r] = Idle
      BY <1>1, <2>3 DEF Finish
    <3>2. \/ order' = order
          \/ order' = [order EXCEPT ![req[r].oid] =
                 [status |-> "pending", items |-> req[r].items, invoice |-> NoInvoice]]
      BY <1>5 DEF PersistOrder
    <3>. QED
      BY <2>1, <3>1, <3>2 DEF Handled, Steps, CatchingSteps
  <2>. QED
    BY <1>5, <2>2, <2>3 DEF PersistOrder
<1>6. CASE ReconcileLine(r)
  <2>1. PICK i : Progress(r, i, "saveItems") \/ Abort(r, "rollback")
    BY <1>6 DEF ReconcileLine
  <2>2. req[r].pc = "reconcile" /\ order' = order
    BY <1>6 DEF ReconcileLine
  <2>. QED
    BY <2>1, <2>2, MovingHandled DEF Onward
<1>7. CASE RollbackLine(r)
  <2>1. PICK i : Regress(r, i)
    BY <1>7 DEF RollbackLine
  <2>2. req[r].pc = "rollback" /\ order' = order
    BY <1>7 DEF RollbackLine
  <2>. QED
    BY <2>1, <2>2, MovingHandled DEF Onward
<1>8. CASE SaveItems(r)
  <2>1. /\ req[r].pc = "saveItems" /\ Finish(r)
        /\ order' = [order EXCEPT ![req[r].oid].items = req[r].items]
    BY <1>8 DEF SaveItems
  <2>2. req' = [req EXCEPT ![r] = req'[r]] /\ req'[r] = Idle
    BY <1>1, <2>1 DEF Finish
  <2>. QED
    BY <2>1, <2>2 DEF Handled, Steps, CatchingSteps
<1>9. CASE RestoreLine(r)
  <2>1. PICK i : Progress(r, i, "saveStatus")
    BY <1>9 DEF RestoreLine
  <2>2. req[r].pc = "restore" /\ order' = order
    BY <1>9 DEF RestoreLine
  <2>. QED
    BY <2>1, <2>2, MovingHandled DEF Onward
<1>10. CASE SaveStatus(r)
  <2>1. /\ req[r].pc = "saveStatus" /\ Finish(r)
        /\ order' = [order EXCEPT ![req[r].oid].status = req[r].target]
    BY <1>10 DEF SaveStatus
  <2>2. req' = [req EXCEPT ![r] = req'[r]] /\ req'[r] = Idle
    BY <1>1, <2>1 DEF Finish
  <2>. QED
    BY <2>1, <2>2 DEF Handled, Steps
<1>11. CASE Crash(r)
  <2>1. req[r].pc \in {"build", "reconcile"} /\ Finish(r) /\ order' = order
    BY <1>11 DEF Crash
  <2>. QED
    BY <2>1, MovingHandled
<1>. QED
  BY <1>2, <1>3, <1>4, <1>5, <1>6, <1>7, <1>8, <1>9, <1>10, <1>11 DEF Continue

\* What a handler that starts does: it takes an order nobody works on, and leaves the
\* orders alone.
Started(r) ==
    LET u == req'[r]
    IN  /\ req[r].pc = "idle"
        /\ req' = [req EXCEPT ![r] = u]
        /\ order' = order
        /\ u.oid \in OrderIds /\ \A s \in Requests : req[s].oid # u.oid
        /\ \/ u.pc = "build" /\ u.target = "pending"
           \/ u.pc \in {"restore", "saveStatus"} /\ u.target = "completed"
           \/ /\ u.pc \in {"restore", "saveStatus"} /\ u.target = "cancelled"
              /\ order[u.oid].status \in {"pending", "completed"}

LEMMA UpdateStarted ==
  ASSUME Sound, ~Overlap, NEW r \in Requests, NEW target \in {"completed", "cancelled"},
         UpdateStatus(r, target)
  PROVE  Started(r)
<1>. USE DEF Sound
<1>1. PICK o \in OrderIds :
        /\ Free(o)
        /\ order[o].status \in OrderStatus
        /\ target \in ORDER_TRANSITIONS[order[o].status]
        /\ LET q == [Idle EXCEPT !.oid = o, !.target = target, !.old = order[o].items]
               moves == IF target = "cancelled" THEN Restore(q.old) ELSE <<>>
           IN  req' = [req EXCEPT ![r] = Plan(q, moves, "restore", "saveStatus")]
  BY DEF UpdateStatus
<1>. DEFINE q == [Idle EXCEPT !.oid = o, !.target = target, !.old = order[o].items]
            moves == IF target = "cancelled" THEN Restore(q.old) ELSE <<>>
            u == Plan(q, moves, "restore", "saveStatus")
<1>2. req' = [req EXCEPT ![r] = u]
  BY <1>1
<1>3. q \in Handler /\ q.oid = o /\ q.target = target
  BY IdleType DEF Handler, TypeOK, OrderRow, Idle, OrderStatus
<1>. HIDE DEF q, moves
<1>4. u.pc \in {"restore", "saveStatus"} /\ u.oid = o /\ u.target = target
  BY <1>3 DEF Plan, Handler
<1>. HIDE DEF u
<1>5. req' = [req EXCEPT ![r] = req'[r]] /\ req'[r] = u
  BY <1>2 DEF TypeOK
<1>6. \A s \in Requests : req[s].oid # o
  BY <1>1 DEF Free
<1>7. target = "cancelled" => order[o].status \in {"pending", "completed"}
  BY <1>1 DEF ORDER_TRANSITIONS, OrderStatus
<1>8. req[r].pc = "idle" /\ order' = order
  BY DEF UpdateStatus
<1>. QED
  BY <1>4, <1>5, <1>6, <1>7, <1>8 DEF Started

LEMMA BeginStarted ==
  ASSUME Sound, ~Overlap, NEW r \in Requests, Begin(r)
  PROVE  Started(r)
<1>. USE DEF Sound
<1>1. CASE CreateOrder(r)
  <2>1. PICK o \in OrderIds, cart \in Carts :
          /\ \A s \in Requests : req[s].oid # o
          /\ req' = [req EXCEPT ![r] =
                        [Idle EXCEPT !.pc = "build", !.oid = o, !.cart = cart]]
    BY <1>1 DEF CreateOrder
  <2>. DEFINE u == [Idle EXCEPT !.pc = "build", !.oid = o, !.cart = cart]
  <2>2. u.pc = "build" /\ u.oid = o /\ u.target = "pending"
    BY DEF Idle
  <2>3. req' = [req EXCEPT ![r] = u]
    BY <2>1
  <2>. HIDE DEF u
  <2>4. req' = [req EXCEPT ![r] = req'[r]] /\ req'[r] = u
    BY <2>3 DEF TypeOK
  <2>. QED
    BY <1>1, <2>1, <2>2, <2>4 DEF Started, CreateOrder
<1>2. CASE EditOrder(r)
  <2>1. PICK o \in OrderIds, cart \in Carts :
          /\ Free(o)
          /\ req' = [req EXCEPT ![r] =
                        [Idle EXCEPT !.pc = "build", !.oid = o, !.cart = cart,
                                     !.old = order[o].items]]
    BY <1>2 DEF EditOrder
  <2>. DEFINE u == [Idle EXCEPT !.pc = "build", !.oid = o, !.cart = cart,
                                !.old = order[o].items]
  <2>2. u.pc = "build" /\ u.oid = o /\ u.target = "pending"
    BY DEF Idle
  <2>3. req' = [req EXCEPT ![r] = u]
    BY <2>1
  <2>. HIDE DEF u
  <2>4. req' = [req EXCEPT ![r] = req'[r]] /\ req'[r] = u
    BY <2>3 DEF TypeOK
  <2>5. \A s \in Requests : req[s].oid # o
    BY <2>1 DEF Free
  <2>. QED
    BY <1>2, <2>2, <2>4, <2>5 DEF Started, EditOrder
<1>. QED
  BY <1>1, <1>2, UpdateStarted DEF Begin, CompleteOrder, CancelOrder

\* Nobody deletes a product, and one that is not there yet has no stock.
Undeleted ==
    \A p \in Products : /\ resource[p].state \in {"absent", "live"}
                        /\ resource[p].state = "absent" => resource[p].available = 0

BookInv ==
    /\ Orderly /\ NoRollback /\ Purposes /\ Undeleted
    /\ StockNeverNegative /\ LedgerExplainsStock /\ ReservationsBalance

LEMMA StepPurposes ==
  ASSUME Sound, Purposes, NEW r \in Requests, Started(r) \/ Handled(r)
  PROVE  Purposes'
<1>. DEFINE u == req'[r]
<1>1. \A s \in Requests \ {r} : req'[s] = req[s]
  BY DEF Started, Handled, Sound, TypeOK
<1>2. CASE Started(r)
  <2>1. Purposeful(u)
    BY <1>2 DEF Started, Purposeful
  <2>. QED
    BY <1>1, <2>1 DEF Purposes
<1>3. CASE Handled(r)
  <2>1. Purposeful(Idle)
    BY DEF Purposeful, Idle
  <2>2. ASSUME GoesOn(req[r], u) PROVE Purposeful(u)
    <3>1. Purposeful(req[r]) /\ req[r].pc \in Steps
      BY <1>3 DEF Purposes, Handled
    <3>. DEFINE q == req[r]
    <3>. HIDE DEF q, u
    <3>. QED
      BY <2>2, <3>1 DEF Purposeful, GoesOn, Onward, Steps, CatchingSteps, q
  <2>3. Purposeful(u)
    BY <1>3, <2>1, <2>2 DEF Handled
  <2>. QED
    BY <1>1, <2>3 DEF Purposes
<1>. QED
  BY <1>2, <1>3

\* Products are neither deleted nor given a level.
LEMMA StepUndeleted ==
  ASSUME TypeOK, LocalsAgree, Undeleted, "delete" \notin Ops, "setLevel" \notin Ops,
         [Next]_vars
  PROVE  Undeleted'
<1>1. CASE UNCHANGED <<resource, ledger>>
  BY <1>1 DEF Undeleted
<1>2. ASSUME NEW x \in Resources, CreateResource(x) \/ DeleteResource(x)
      PROVE  Undeleted'
  BY <1>2 DEF Undeleted, CreateResource, DeleteResource, TypeOK, Resources
<1>3. ASSUME NEW p \in Products, UpdateResource(p)
      PROVE  Undeleted'
  <2>1. PICK f \in Factors : resource' = [resource EXCEPT ![p].factor = f]
    BY <1>3 DEF UpdateResource
  <2>2. \A x \in Products : /\ resource'[x].state = resource[x].state
                            /\ resource'[x].available = resource[x].available
    BY <2>1 DEF TypeOK, ResourceRow, Resources
  <2>. QED
    BY <2>2 DEF Undeleted
<1>4. ASSUME NEW p, NEW delta \in Int, NEW kind \in {"orders", "manual"},
             RecordAdjustment(p, delta, kind)
      PROVE  Undeleted'
  BY <1>4 DEF RecordAdjustment, Adjustable, TypeOK, ResourceRow, Resources, Undeleted
<1>. QED
  BY <1>1, <1>2, <1>3, <1>4, StockSteps

\* What the theorem asks of an instance.
OneAtATime ==
    /\ ~Overlap
    /\ "saveItems" \notin Failing
    /\ Crashing \subseteq {"build", "reconcile"}
    /\ {"delete", "setLevel"} \cap Ops = {}

LEMMA StepBookInv ==
  ASSUME OneAtATime, BookInv, EditsOneProduct, [Next]_vars
  PROVE  BookInv'
<1>. USE DEF BookInv, OneAtATime
<1>1. Sound /\ Fitting /\ NoRowsYet /\ TypeOK /\ LocalsAgree
  BY DEF Orderly, Sound
<1>2. ASSUME NEW r \in Requests, Crash(r) PROVE req[r].done = {}
  BY <1>1, <1>2 DEF Crash, Fitting, HandlerFits, PlanFits, NoRollback
<1>3. Orderly' /\ NoRollback' /\ ReservationsBalance'
  BY <1>2, StepOneProduct
<1>4. Undeleted' /\ StockNeverNegative' /\ LedgerExplainsStock'
  BY <1>1, StepUndeleted, StepNonNegative, StepExplained
<1>5. Purposes'
  <2>1. CASE ResourceStep \/ AttachInvoice \/ DetachInvoice \/ UNCHANGED vars
    <3>1. req' = req
      BY <1>1, <2>1, TableSteps
    <3>. QED
      BY <3>1 DEF Purposes
  <2>2. ASSUME NEW r \in Requests, Begin(r) \/ Continue(r) \/ Crash(r)
        PROVE  Purposes'
    BY <1>1, <2>2, BeginStarted, ContinueHandled, StepPurposes
  <2>. QED
    BY <2>1, <2>2 DEF Next, OrderStep
<1>. QED
  BY <1>3, <1>4, <1>5

LEMMA InitBookInv == Init => BookInv
<1>1. Init => Undeleted /\ StockNeverNegative /\ LedgerExplainsStock /\ Purposes
  BY DEF Init, Undeleted, StockNeverNegative, LedgerExplainsStock, Resources, Purposes,
         Purposeful, Idle
<1>. QED
  BY <1>1, InitBalances DEF BookInv

-----------------------------------------------------------------------------
(* The order book: what a reader of it sees *)

BookShare(o, p) ==
    IF bookStatus[o] \in {"pending", "completed"} THEN bookHolds[o][p] ELSE 0

\* The book shows an order as it is stored, but for the handler that works on it: its
\* cancellation is done once it has begun, its items once they are paid for.
Shown ==
    /\ \A o \in OrderIds : (\A s \in Requests : req[s].oid # o) =>
          bookStatus[o] = order[o].status /\ bookHolds[o] = order[o].items.units
    /\ \A s \in Requests : req[s].pc # "idle" =>
          LET q == req[s]
              o == q.oid
          IN  /\ bookStatus[o] = IF q.target = "cancelled" THEN "cancelled" ELSE order[o].status
              /\ bookHolds[o] = IF q.pc = "saveItems" THEN q.items.units
                                ELSE order[o].items.units
    /\ \A s \in Requests : req[s].oid \in OrderIds <=> req[s].pc # "idle"

LEMMA BookShows == BookInv => Shown
<1>. SUFFICES ASSUME BookInv PROVE Shown
  OBVIOUS
<1>1. Sound /\ Purposes /\ ReadsStayTrue
  BY DEF BookInv, Orderly, Sound
<1>2. \A s \in Requests : req[s].oid \in OrderIds <=> req[s].pc # "idle"
  BY <1>1, OrdersAssumption DEF Purposes, Purposeful, ReadsStayTrue, Idle
<1>3. ASSUME NEW o \in OrderIds, \A s \in Requests : req[s].oid # o
      PROVE  bookStatus[o] = order[o].status /\ bookHolds[o] = order[o].items.units
  BY <1>3 DEF bookStatus, bookHolds, Cancelling, Saving
<1>4. ASSUME NEW s \in Requests, req[s].pc # "idle", NEW o, o = req[s].oid
      PROVE  /\ bookStatus[o] = IF req[s].target = "cancelled" THEN "cancelled"
                                ELSE order[o].status
             /\ bookHolds[o] = IF req[s].pc = "saveItems" THEN req[s].items.units
                               ELSE order[o].items.units
  <2>1. o \in OrderIds /\ \A x \in Requests : req[x].oid = o => x = s
    BY <1>1, <1>4 DEF ReadsStayTrue
  <2>2. Cancelling(o) <=> req[s].target = "cancelled"
    BY <1>4, <2>1 DEF Cancelling
  <2>3. \A x \in Requests : Saving(o, x) => x = s
    BY <2>1 DEF Saving
  <2>4. Saving(o, s) <=> req[s].pc = "saveItems"
    BY <1>4 DEF Saving
  <2>5. (\E x \in Requests : Saving(o, x)) =>
           /\ req[s].pc = "saveItems"
           /\ (CHOOSE x \in Requests : Saving(o, x)) = s
    BY <2>3, <2>4
  <2>6. bookStatus[o] = IF req[s].target = "cancelled" THEN "cancelled" ELSE order[o].status
    BY <2>1, <2>2 DEF bookStatus
  <2>7. bookHolds[o] = IF req[s].pc = "saveItems" THEN req[s].items.units
                       ELSE order[o].items.units
    BY <2>1, <2>4, <2>5 DEF bookHolds
  <2>. QED
    BY <2>6, <2>7
<1>. QED
  BY <1>2, <1>3, <1>4 DEF Shown

\* What a busy handler has read, planned and done.
LEMMA BusyFacts ==
  ASSUME BookInv, NEW r \in Requests, req[r].pc # "idle"
  PROVE  /\ req[r] \in Handler /\ req[r].items \in Items /\ req[r].old \in Items
         /\ req[r].oid \in OrderIds /\ order[req[r].oid] \in OrderRow
         /\ order[req[r].oid].items = req[r].old
         /\ order[req[r].oid].status \in Expected(req[r])
         /\ PlanFits(req[r]) /\ Fits(req[r].items, Known) /\ Fits(req[r].old, Known)
         /\ req[r].done \subseteq DOMAIN req[r].moves
         /\ Purposeful(req[r])
BY DEF BookInv, Orderly, Sound, TypeOK, LocalsAgree, Handler, ReadsStayTrue, Fitting,
       HandlerFits, Purposes

\* A cancellation has not given back more than the order holds.
LEMMA CancellerHolds ==
  ASSUME NEW q \in Handler, q.done \subseteq ToMake(q.moves), q.old \in Items,
         ItemsAgree(q.old), q.moves = Restore(q.old), NEW p \in Products
  PROVE  Held(p, q) \in Int /\ q.old.units[p] + Held(p, q) >= 0
<1>. DEFINE f == Takings(q.moves)
            T == MovesOf(q.moves, p, ToMake(q.moves))
            U == MovesOf(q.moves, p, q.done)
            h == [i \in T |-> IF i \in U THEN f[i] ELSE 0]
<1>1. /\ q.moves \in Seq(Move) /\ ToMake(q.moves) \subseteq DOMAIN q.moves
      /\ q.done \subseteq DOMAIN q.moves
  BY DEF Handler, ToMake
<1>2. /\ T \in SUBSET DOMAIN q.moves /\ U \in SUBSET T
      /\ U \in SUBSET DOMAIN q.moves
  BY <1>1 DEF MovesOf
<1>3. IsFiniteSet(T) /\ IsFiniteSet(U) /\ IntegerOn(f, T) /\ IntegerOn(f, U)
  BY <1>1, <1>2, MoveFacts
<1>4. Held(p, q) = SumFunctionOnSet(f, U) /\ Held(p, q) \in Int
  BY <1>1, HeldFacts
<1>5. SumFunctionOnSet(f, T) = -q.old.units[p]
  BY RestorePlans DEF Planned
<1>6. \A i \in T : q.moves[i].delta >= 0 /\ q.moves[i].delta \in Int
  BY <1>1, <1>2, PlanSigns, MoveFacts
<1>7. \A i \in T : f[i] = -q.moves[i].delta
  BY <1>2 DEF Takings
<1>8. \A i \in T : f[i] <= h[i] /\ h[i] \in Int
  <2>. HIDE DEF f, T, U
  <2>. QED
    BY <1>6, <1>7
<1>9. (\A i \in U : h[i] = f[i]) /\ \A i \in T \ U : h[i] = 0
  BY <1>2
<1>. HIDE DEF f, T, U, h
<1>10. IntegerOn(h, T)
  BY <1>8 DEF IntegerOn
<1>11. SumFunctionOnSet(f, T) <= SumFunctionOnSet(h, T)
  BY <1>3, <1>8, <1>10, SumAtMost
<1>12. SumFunctionOnSet(h, T) = SumFunctionOnSet(h, U)
  BY <1>2, <1>3, <1>9, <1>10, SumWithout
<1>13. SumFunctionOnSet(h, U) = SumFunctionOnSet(f, U)
  BY <1>3, <1>9, SumSame
<1>14. q.old.units[p] \in Int
  BY LineFacts
<1>. QED
  BY <1>4, <1>5, <1>11, <1>12, <1>13, <1>14

\* What a handler has yet to put on the book is not negative, and differs from what
\* it holds by what the book already shows of its order.
LEMMA PendingFacts ==
  ASSUME BookInv, Shown, NEW r \in Requests, NEW p \in Products
  PROVE  /\ Pending(p, req[r]) \in Nat /\ Held(p, req[r]) \in Int
         /\ req[r].pc = "idle" => Pending(p, req[r]) = 0 /\ Held(p, req[r]) = 0
         /\ req[r].pc # "idle" =>
               /\ BookShare(req[r].oid, p) \in Int
               /\ Held(p, req[r]) - Pending(p, req[r])
                    = BookShare(req[r].oid, p) - Share(order[req[r].oid], p)
<1>. DEFINE q == req[r]
            o == q.oid
<1>1. CASE q.pc = "idle"
  <2>1. q = Idle
    BY <1>1 DEF BookInv, Purposes, Purposeful
  <2>2. Held(p, q) = 0
    BY <2>1, IdleFits
  <2>3. Pending(p, q) = Held(p, q)
    BY <2>1, <2>2 DEF Pending, Idle
  <2>. QED
    BY <1>1, <2>2, <2>3
<1>2. CASE q.pc # "idle"
  <2>1. /\ q \in Handler /\ q.items \in Items /\ q.old \in Items
        /\ order[o].items = q.old /\ order[o].status \in Expected(q)
        /\ PlanFits(q) /\ Fits(q.items, Known) /\ Fits(q.old, Known)
        /\ q.done \subseteq DOMAIN q.moves /\ Purposeful(q)
    BY <1>2, BusyFacts
  <2>2. Held(p, q) \in Int /\ (q.done = {} => Held(p, q) = 0)
    BY <2>1, HeldFacts
  <2>3. q.old.units[p] \in Nat /\ q.items.units[p] \in Nat
    BY <2>1, LineFacts
  <2>4. /\ bookStatus[o] = IF q.target = "cancelled" THEN "cancelled" ELSE order[o].status
        /\ bookHolds[o] = IF q.pc = "saveItems" THEN q.items.units ELSE q.old.units
    BY <1>2, <2>1 DEF Shown
  <2>5. CASE q.pc = "saveItems"
    <3>1. Pending(p, q) = 0
      BY <2>5 DEF Pending
    <3>2. q.target = "pending" /\ order[o].status = "pending"
      BY <2>1, <2>5 DEF Purposeful, Expected
    <3>3. Held(p, q) = Planned(q.moves, p) /\ q.moves = Reconcile(q.old, q.items)
      BY <2>1, <2>5, HeldFacts DEF PlanFits
    <3>4. Held(p, q) = q.items.units[p] - q.old.units[p]
      BY <2>1, <3>3, ReconcilePlans DEF Fits
    <3>5. BookShare(o, p) = q.items.units[p] /\ Share(order[o], p) = q.old.units[p]
      BY <2>1, <2>4, <2>5, <3>2 DEF BookShare, Share
    <3>. QED
      BY <1>2, <2>2, <2>3, <3>1, <3>4, <3>5
  <2>6. CASE q.pc # "saveItems" /\ q.target = "cancelled"
    <3>1. q.pc \in {"restore", "saveStatus"}
      BY <1>2, <2>1, <2>6 DEF Purposeful, Handler, Steps, CatchingSteps
    <3>2. order[o].status \in {"pending", "completed"}
      BY <2>1, <2>6, <3>1 DEF Expected, ORDER_TRANSITIONS, OrderStatus
    <3>3. q.moves = Restore(q.old) /\ q.done \subseteq ToMake(q.moves)
      BY <2>1, <2>6, <3>1 DEF PlanFits
    <3>4. q.old.units[p] + Held(p, q) >= 0
      BY <2>1, <3>3, CancellerHolds DEF Fits
    <3>5. Pending(p, q) = q.old.units[p] + Held(p, q)
      BY <2>2, <2>3, <2>6 DEF Pending
    <3>6. BookShare(o, p) = 0 /\ Share(order[o], p) = q.old.units[p]
      BY <2>1, <2>4, <2>6, <3>2 DEF BookShare, Share
    <3>. QED
      BY <1>2, <2>2, <2>3, <3>4, <3>5, <3>6
  <2>7. CASE q.pc # "saveItems" /\ q.target # "cancelled"
    <3>1. Pending(p, q) = Held(p, q)
      BY <2>2, <2>7 DEF Pending
    <3>2. BookShare(o, p) = Share(order[o], p) /\ BookShare(o, p) \in Nat
      BY <2>1, <2>3, <2>4, <2>7 DEF BookShare, Share
    <3>3. Held(p, q) >= 0
      <4>1. CASE q.pc \in {"build", "reserve", "release", "persist"}
        BY <4>1, CreatorHolds DEF BookInv
      <4>2. CASE q.pc \in {"reconcile", "rollback"}
        BY <2>2, <4>2 DEF BookInv, NoRollback
      <4>3. CASE q.pc \in {"restore", "saveStatus"}
        <5>1. q.done = {}
          BY <2>1, <2>7, <4>3 DEF PlanFits, ToMake
        <5>. QED
          BY <2>2, <5>1
      <4>. QED
        BY <1>2, <2>1, <2>7, <4>1, <4>2, <4>3 DEF Handler, Steps, CatchingSteps
    <3>. QED
      BY <1>2, <2>2, <3>1, <3>2, <3>3
  <2>. QED
    BY <2>5, <2>6, <2>7
<1>. QED
  BY <1>1, <1>2

SharesOnBook(p) == SumFunctionOnSet([o \in OrderIds |-> BookShare(o, p)], OrderIds)

\* The book adds up: its stock is its supply less what its live orders hold.
AddsUp ==
    /\ \A p \in Products :
          /\ bookStock[p] = bookSupply[p] - SharesOnBook(p)
          /\ bookStock[p] \in Nat /\ bookSupply[p] \in Int /\ SharesOnBook(p) \in Int
          /\ \A o \in OrderIds : BookShare(o, p) \in Int
    /\ \A o \in OrderIds : bookHolds[o] \in [Products -> Nat]

LEMMA HoldsUnits ==
  ASSUME BookInv, Shown, NEW o \in OrderIds
  PROVE  bookHolds[o] \in [Products -> Nat]
<1>1. order[o].items.units \in [Products -> Nat]
  BY LineFacts DEF BookInv, Orderly, Sound, TypeOK, OrderRow
<1>2. \A s \in Requests : req[s].items.units \in [Products -> Nat]
  BY LineFacts DEF BookInv, Orderly, Sound, TypeOK, Handler
<1>. QED
  BY <1>1, <1>2 DEF Shown

\* What handlers have yet to put on the book makes up for what it already shows.
LEMMA SharesCompare ==
  ASSUME BookInv, Shown, NEW p \in Products
  PROVE  /\ SumFunctionOnSet([r \in Requests |-> Pending(p, req[r])], Requests) \in Nat
         /\ SharesOnBook(p) \in Int
         /\ SharesOnBook(p) = Reserved(p) + InFlight(p)
              - SumFunctionOnSet([r \in Requests |-> Pending(p, req[r])], Requests)
<1>. DEFINE pend == [r \in Requests |-> Pending(p, req[r])]
            held == [r \in Requests |-> Held(p, req[r])]
            ahead == [r \in Requests |-> Held(p, req[r]) - Pending(p, req[r])]
            none == [r \in Requests |-> 0]
            share == [o \in OrderIds |-> Share(order[o], p)]
            book == [o \in OrderIds |-> BookShare(o, p)]
            more == [o \in OrderIds |-> BookShare(o, p) - Share(order[o], p)]
            oid == [r \in Requests |-> req[r].oid]
            B == {r \in Requests : req[r].pc # "idle"}
<1>1. IsFiniteSet(Requests) /\ IsFiniteSet(OrderIds) /\ B \in SUBSET Requests
  BY OrdersAssumption
<1>2. IsFiniteSet(B)
  BY <1>1, FS_Subset
<1>3. \A r \in Requests : /\ pend[r] \in Nat /\ held[r] \in Int
                          /\ ahead[r] = held[r] - pend[r] /\ none[r] = 0
  BY PendingFacts
<1>4. \A o \in OrderIds : /\ share[o] \in Int /\ book[o] \in Int
                          /\ more[o] = book[o] - share[o]
  <2>1. ASSUME NEW o \in OrderIds PROVE share[o] \in Int /\ book[o] \in Int
    <3>1. Share(order[o], p) \in Nat
      BY ShareType DEF BookInv, Orderly, Sound, TypeOK
    <3>2. bookHolds[o][p] \in Nat
      BY HoldsUnits
    <3>. QED
      BY <3>1, <3>2 DEF BookShare
  <2>. QED
    BY <2>1
<1>5. \A r \in B : oid[r] \in OrderIds /\ more[oid[r]] = ahead[r]
  BY PendingFacts, BusyFacts
<1>6. \A r, s \in B : oid[r] = oid[s] => r = s
  BY DEF BookInv, Orderly, Sound, ReadsStayTrue
<1>7. \A r \in Requests \ B : ahead[r] = 0
  BY PendingFacts
<1>8. ASSUME NEW o \in OrderIds, \A r \in B : oid[r] # o
      PROVE  more[o] = 0
  <2>1. \A s \in Requests : req[s].oid # o
    BY <1>8 DEF Shown
  <2>2. bookStatus[o] = order[o].status /\ bookHolds[o] = order[o].items.units
    BY <2>1 DEF Shown
  <2>3. BookShare(o, p) = Share(order[o], p)
    BY <2>2 DEF BookShare, Share
  <2>. QED
    BY <1>4, <2>3
<1>9. /\ InFlight(p) = SumFunctionOnSet(held, Requests)
      /\ Reserved(p) = SumFunctionOnSet(share, OrderIds)
      /\ SharesOnBook(p) = SumFunctionOnSet(book, OrderIds)
  BY SharesSum DEF InFlight, Reserved, LiveOrders, SharesOnBook, BookInv, Orderly, Sound, TypeOK
<1>. HIDE DEF pend, held, ahead, none, share, book, more, oid, B
<1>10. /\ IntegerOn(pend, Requests) /\ IntegerOn(held, Requests)
       /\ IntegerOn(ahead, Requests) /\ IntegerOn(ahead, B) /\ IntegerOn(none, Requests)
       /\ IntegerOn(share, OrderIds) /\ IntegerOn(book, OrderIds) /\ IntegerOn(more, OrderIds)
  BY <1>1, <1>3, <1>4 DEF IntegerOn
<1>11. SumFunctionOnSet(held, Requests)
          = SumFunctionOnSet(ahead, Requests) + SumFunctionOnSet(pend, Requests)
  <2>1. \A r \in Requests : held[r] = ahead[r] + pend[r]
    BY <1>3
  <2>. QED
    BY <1>1, <1>10, <2>1, SumOfSums
<1>12. SumFunctionOnSet(book, OrderIds)
          = SumFunctionOnSet(share, OrderIds) + SumFunctionOnSet(more, OrderIds)
  <2>1. \A o \in OrderIds : book[o] = share[o] + more[o]
    BY <1>4
  <2>. QED
    BY <1>1, <1>10, <2>1, SumOfSums
<1>13. SumFunctionOnSet(ahead, Requests) = SumFunctionOnSet(ahead, B)
  BY <1>1, <1>7, <1>10, SumWithout
<1>14. SumFunctionOnSet(ahead, B) = SumFunctionOnSet(more, OrderIds)
  BY <1>1, <1>2, <1>5, <1>6, <1>8, <1>10, SumRenamed
<1>15. /\ SumFunctionOnSet(pend, Requests) \in Int /\ SumFunctionOnSet(ahead, Requests) \in Int
       /\ SumFunctionOnSet(book, OrderIds) \in Int /\ SumFunctionOnSet(share, OrderIds) \in Int
  BY <1>1, <1>10, SumInt
<1>16. SumFunctionOnSet(pend, Requests) >= 0
  <2>1. SumFunctionOnSet(none, Requests) = 0
    BY <1>1, <1>3, SumOfZeros
  <2>2. \A r \in Requests : none[r] <= pend[r]
    BY <1>3
  <2>3. SumFunctionOnSet(none, Requests) <= SumFunctionOnSet(pend, Requests)
    BY <1>1, <1>10, <2>2, SumAtMost
  <2>. QED
    BY <1>15, <2>1, <2>3
<1>17. /\ SumFunctionOnSet(pend, Requests) \in Nat /\ SharesOnBook(p) \in Int
       /\ SharesOnBook(p) = Reserved(p) + InFlight(p) - SumFunctionOnSet(pend, Requests)
  BY <1>9, <1>11, <1>12, <1>13, <1>14, <1>15, <1>16
<1>. QED
  BY <1>17 DEF pend

LEMMA BookAddsUp == BookInv => AddsUp
<1>. SUFFICES ASSUME BookInv, NEW p \in Products
              PROVE  /\ bookStock[p] = bookSupply[p] - SharesOnBook(p)
                     /\ bookStock[p] \in Nat /\ bookSupply[p] \in Int
                     /\ SharesOnBook(p) \in Int
                     /\ \A o \in OrderIds : BookShare(o, p) \in Int
  BY BookShows, HoldsUnits DEF AddsUp
<1>. DEFINE yet == SumFunctionOnSet([r \in Requests |-> Pending(p, req[r])], Requests)
<1>1. Shown
  BY BookShows
<1>2. /\ yet \in Nat /\ SharesOnBook(p) \in Int
      /\ SharesOnBook(p) = Reserved(p) + InFlight(p) - yet
  BY <1>1, SharesCompare
<1>3. bookStock[p] = resource[p].available + yet
  BY DEF bookStock
<1>4. /\ p \in Resources /\ resource[p] \in ResourceRow /\ Opening[p] \in Nat
      /\ ledger[p].orders \in Int /\ ledger[p].manual \in Int
  BY OrdersAssumption DEF BookInv, Orderly, Sound, TypeOK, Resources
<1>5. /\ resource[p].available \in Int /\ resource[p].available >= 0
      /\ Reserved(p) \in Int /\ InFlight(p) \in Int
  BY <1>4, SlackType DEF BookInv, Orderly, StockNeverNegative, ResourceRow
<1>. HIDE DEF yet
<1>6. /\ bookSupply[p] \in Int
      /\ resource[p].available = bookSupply[p] - Reserved(p) - InFlight(p)
  <2>1. CASE resource[p].state = "absent"
    <3>1. ledger[p].orders = 0 /\ Reserved(p) = 0 /\ InFlight(p) = 0
      BY <2>1, UnbornHasNothing DEF BookInv, Orderly
    <3>2. bookSupply[p] = 0 /\ resource[p].available = 0
      BY <2>1 DEF bookSupply, BookInv, Undeleted
    <3>. QED
      BY <3>1, <3>2
  <2>2. CASE resource[p].state = "live"
    <3>1. bookSupply[p] = Opening[p] + ledger[p].manual
      BY <2>2 DEF bookSupply
    <3>2. /\ resource[p].available = Opening[p] + ledger[p].orders + ledger[p].manual
          /\ -ledger[p].orders = Reserved(p) + InFlight(p)
      BY <2>2 DEF BookInv, LedgerExplainsStock, ReservationsBalance
    <3>. QED
      BY <1>4, <1>5, <3>1, <3>2
  <2>. QED
    BY <2>1, <2>2 DEF BookInv, Undeleted
<1>7. bookStock[p] = bookSupply[p] - SharesOnBook(p) /\ bookStock[p] \in Nat
  BY <1>2, <1>3, <1>5, <1>6
<1>8. ASSUME NEW o \in OrderIds
      PROVE  BookShare(o, p) \in Int
  <2>1. bookHolds[o] \in [Products -> Nat]
    BY <1>1, HoldsUnits
  <2>. QED
    BY <2>1 DEF BookShare
<1>. QED
  BY <1>2, <1>6, <1>7, <1>8

-----------------------------------------------------------------------------
(* Steps of the order book *)

\* The book is four tables, over the products and over the orders.
BookTables ==
    /\ bookSupply = [p \in Products |-> bookSupply[p]]
    /\ bookStock = [p \in Products |-> bookStock[p]]
    /\ bookStatus = [o \in OrderIds |-> bookStatus[o]]
    /\ bookHolds = [o \in OrderIds |-> bookHolds[o]]

LEMMA BookHasTables == BookTables /\ BookTables'
BY DEF BookTables, bookSupply, bookStock, bookStatus, bookHolds

\* When the supply and all orders but o are as before, the stock changes by what o
\* holds.
LEMMA StockFollowsOrder ==
  ASSUME AddsUp, AddsUp', bookSupply' = bookSupply, NEW o \in OrderIds,
         \A x \in OrderIds \ {o} : /\ bookStatus'[x] = bookStatus[x]
                                   /\ bookHolds'[x] = bookHolds[x],
         NEW p \in Products
  PROVE  bookStock'[p] = bookStock[p] + BookShare(o, p) - BookShare(o, p)'
<1>. DEFINE f == [x \in OrderIds |-> BookShare(x, p)]
            g == [x \in OrderIds |-> BookShare(x, p)']
<1>1. /\ IsFiniteSet(OrderIds) /\ IntegerOn(f, OrderIds) /\ g[o] \in Int
      /\ \A x \in OrderIds \ {o} : g[x] = f[x]
  BY OrdersAssumption DEF AddsUp, IntegerOn, BookShare
<1>2. SharesOnBook(p) = SumFunctionOnSet(f, OrderIds)
      /\ SharesOnBook(p)' = SumFunctionOnSet(g, OrderIds)
  BY DEF SharesOnBook
<1>3. f[o] = BookShare(o, p) /\ g[o] = BookShare(o, p)'
  OBVIOUS
<1>. HIDE DEF f, g
<1>4. SharesOnBook(p)' = SharesOnBook(p) - f[o] + g[o]
  BY <1>1, <1>2, SumChange
<1>5. /\ bookStock[p] = bookSupply[p] - SharesOnBook(p) /\ bookSupply[p] \in Int
      /\ SharesOnBook(p) \in Int /\ BookShare(o, p) \in Int
  BY DEF AddsUp
<1>6. bookStock'[p] = bookSupply[p] - SharesOnBook(p)' /\ BookShare(o, p)' \in Int
  BY DEF AddsUp
<1>. QED
  BY <1>3, <1>4, <1>5, <1>6

LEMMA BookUnchanged ==
  ASSUME AddsUp, AddsUp', bookSupply' = bookSupply, bookStatus' = bookStatus,
         bookHolds' = bookHolds
  PROVE  UNCHANGED Book!bookVars
<1>1. \A p \in Products : SharesOnBook(p)' = SharesOnBook(p)
  BY DEF SharesOnBook, BookShare
<1>2. \A p \in Products : bookStock'[p] = bookStock[p]
  BY <1>1 DEF AddsUp
<1>3. bookStock' = bookStock
  BY <1>2, BookHasTables DEF BookTables
<1>. QED
  BY <1>3 DEF Book!bookVars

\* A table with one entry changed.
LEMMA OneEntry ==
  ASSUME NEW S, NEW f, NEW g, f = [x \in S |-> f[x]], g = [x \in S |-> g[x]],
         NEW a \in S, \A x \in S \ {a} : g[x] = f[x]
  PROVE  g = [f EXCEPT ![a] = g[a]]
OBVIOUS

\* What a step may do to one order of the book.
OrderMoves(o) ==
    \/ bookStatus'[o] = bookStatus[o] /\ bookHolds'[o] = bookHolds[o]
    \/ bookStatus[o] = "absent" /\ bookStatus'[o] = "pending"
    \/ bookStatus[o] = "pending" /\ bookStatus'[o] = "pending"
    \/ /\ bookStatus[o] = "pending" /\ bookStatus'[o] = "completed"
       /\ bookHolds'[o] = bookHolds[o]
    \/ /\ bookStatus[o] \in {"pending", "completed"} /\ bookStatus'[o] = "cancelled"
       /\ bookHolds'[o] = bookHolds[o]

\* The book changes at most at the order o.
OnlyOrder(o) ==
    \A x \in OrderIds \ {o} : bookStatus'[x] = bookStatus[x] /\ bookHolds'[x] = bookHolds[x]

LEMMA Exchanged ==
  ASSUME NEW back, NEW taken,
         \A p \in Products : /\ bookStock'[p] = bookStock[p] + back[p] - taken[p]
                             /\ bookStock'[p] \in Nat
  PROVE  Book!Exchange(back, taken)
<1>1. bookStock' = [p \in Products |-> bookStock[p] + back[p] - taken[p]]
  BY BookHasTables DEF BookTables
<1>. QED
  BY <1>1 DEF Book!Exchange

LEMMA OneOrderSteps ==
  ASSUME AddsUp, AddsUp', bookSupply' = bookSupply, Nat \subseteq Quantities,
         NEW o \in OrderIds, OnlyOrder(o), OrderMoves(o)
  PROVE  [Book!BookNext]_(Book!bookVars)
<1>. USE DEF OnlyOrder
<1>1. \A p \in Products : /\ bookStock'[p] = bookStock[p] + BookShare(o, p) - BookShare(o, p)'
                          /\ bookStock'[p] \in Nat /\ bookStock[p] \in Nat
                          /\ BookShare(o, p) \in Int /\ BookShare(o, p)' \in Int
  <2>1. \A p \in Products : BookShare(o, p)' \in Int /\ bookStock'[p] \in Nat
    BY DEF AddsUp
  <2>. QED
    BY <2>1, StockFollowsOrder DEF AddsUp
<1>2. bookHolds[o] \in [Products -> Nat] /\ bookHolds'[o] \in [Products -> Nat]
  <2>1. \A x \in OrderIds : bookHolds'[x] \in [Products -> Nat]
    BY DEF AddsUp
  <2>. QED
    BY <2>1 DEF AddsUp
<1>3. /\ bookStock' = [p \in Products |-> bookStock'[p]]
      /\ bookStatus' = [bookStatus EXCEPT ![o] = bookStatus'[o]]
      /\ bookHolds' = [bookHolds EXCEPT ![o] = bookHolds'[o]]
  BY BookHasTables, OneEntry DEF BookTables
<1>4. bookHolds'[o] = bookHolds[o] => bookHolds' = bookHolds
  BY BookHasTables, OneEntry DEF BookTables
<1>5. CASE bookStatus'[o] = bookStatus[o] /\ bookHolds'[o] = bookHolds[o]
  <2>1. bookStatus' = bookStatus /\ bookHolds' = bookHolds
    BY <1>4, <1>5, BookHasTables, OneEntry DEF BookTables
  <2>. QED
    BY <2>1, BookUnchanged
<1>6. CASE bookStatus[o] = "absent" /\ bookStatus'[o] = "pending"
  <2>1. \A p \in Products : BookShare(o, p) = 0 /\ BookShare(o, p)' = bookHolds'[o][p]
    BY <1>6 DEF BookShare
  <2>2. Book!Exchange(Book!Nothing, bookHolds'[o])
    <3>1. \A p \in Products : Book!Nothing[p] = 0
      BY DEF Book!Nothing
    <3>. QED
      BY <1>1, <2>1, <3>1, Exchanged
  <2>3. Book!Place(o, bookHolds'[o])
    BY <1>3, <1>6, <2>2 DEF Book!Place
  <2>. QED
    BY <1>2, <2>3 DEF Book!BookNext
<1>7. CASE bookStatus[o] = "pending" /\ bookStatus'[o] = "pending"
  <2>1. \A p \in Products : /\ BookShare(o, p) = bookHolds[o][p]
                            /\ BookShare(o, p)' = bookHolds'[o][p]
    BY <1>7 DEF BookShare
  <2>2. Book!Exchange(bookHolds[o], bookHolds'[o])
    BY <1>1, <2>1, Exchanged
  <2>3. bookStatus' = bookStatus
    BY <1>7, BookHasTables, OneEntry DEF BookTables
  <2>4. Book!Change(o, bookHolds'[o])
    BY <1>3, <1>7, <2>2, <2>3 DEF Book!Change
  <2>. QED
    BY <1>2, <2>4 DEF Book!BookNext
<1>8. CASE /\ bookStatus[o] = "pending" /\ bookStatus'[o] = "completed"
           /\ bookHolds'[o] = bookHolds[o]
  <2>1. \A p \in Products : BookShare(o, p)' = BookShare(o, p)
    BY <1>8 DEF BookShare
  <2>2. bookStock' = bookStock
    <3>1. \A p \in Products : bookStock'[p] = bookStock[p]
      BY <1>1, <2>1
    <3>. QED
      BY <3>1, BookHasTables DEF BookTables
  <2>3. Book!Complete(o)
    BY <1>3, <1>4, <1>8, <2>2 DEF Book!Complete
  <2>. QED
    BY <2>3 DEF Book!BookNext
<1>9. CASE /\ bookStatus[o] \in {"pending", "completed"} /\ bookStatus'[o] = "cancelled"
           /\ bookHolds'[o] = bookHolds[o]
  <2>1. \A p \in Products : BookShare(o, p) = bookHolds[o][p] /\ BookShare(o, p)' = 0
    BY <1>9 DEF BookShare
  <2>2. Book!Exchange(bookHolds[o], Book!Nothing)
    <3>1. \A p \in Products : Book!Nothing[p] = 0
      BY DEF Book!Nothing
    <3>. QED
      BY <1>1, <2>1, <3>1, Exchanged
  <2>3. Book!Cancel(o)
    BY <1>3, <1>4, <1>9, <2>2 DEF Book!Cancel
  <2>. QED
    BY <2>3 DEF Book!BookNext
<1>. QED
  BY <1>5, <1>6, <1>7, <1>8, <1>9 DEF OrderMoves

\* Where only the supply of one product changes, its stock follows.
LEMMA OneProductSteps ==
  ASSUME AddsUp, AddsUp', bookStatus' = bookStatus, bookHolds' = bookHolds,
         Int \subseteq Supplies, NEW p \in Products,
         \A x \in Products \ {p} : bookSupply'[x] = bookSupply[x]
  PROVE  [Book!BookNext]_(Book!bookVars)
<1>1. \A x \in Products : SharesOnBook(x)' = SharesOnBook(x)
  BY DEF SharesOnBook, BookShare
<1>2. /\ \A x \in Products \ {p} : bookStock'[x] = bookStock[x]
      /\ bookStock'[p] = bookStock[p] + bookSupply'[p] - bookSupply[p]
      /\ bookStock'[p] \in Nat /\ bookSupply'[p] \in Int
  <2>1. \A x \in Products : /\ bookStock[x] = bookSupply[x] - SharesOnBook(x)
                            /\ bookSupply[x] \in Int /\ SharesOnBook(x) \in Int
    BY DEF AddsUp
  <2>2. \A x \in Products : /\ bookStock'[x] = bookSupply'[x] - SharesOnBook(x)
                            /\ bookSupply'[x] \in Int /\ bookStock'[x] \in Nat
    BY <1>1 DEF AddsUp
  <2>. QED
    BY <2>1, <2>2
<1>3. /\ bookSupply' = [bookSupply EXCEPT ![p] = bookSupply'[p]]
      /\ bookStock' = [bookStock EXCEPT ![p] = bookStock'[p]]
  BY <1>2, BookHasTables, OneEntry DEF BookTables
<1>4. bookStock' = [bookStock EXCEPT ![p] = @ + bookSupply'[p] - bookSupply[p]]
  BY <1>2, <1>3, BookHasTables DEF BookTables
<1>5. Book!Adjust(p)
  <2>1. PICK n \in Supplies : n = bookSupply'[p]
    BY <1>2
  <2>2. /\ bookSupply' = [bookSupply EXCEPT ![p] = n]
        /\ bookStock' = [bookStock EXCEPT ![p] = @ + n - bookSupply[p]]
    BY <1>3, <1>4, <2>1
  <2>3. bookStock'[p] >= 0
    BY <1>2
  <2>. QED
    BY <2>2, <2>3 DEF Book!Adjust
<1>. QED
  BY <1>5 DEF Book!BookNext

\* The orders a handler does not work on stay as the book shows them.
LEMMA OthersSame ==
  ASSUME Shown, Shown', NEW r \in Requests, NEW o \in OrderIds,
         \A s \in Requests \ {r} : req'[s] = req[s],
         req[r].oid = o \/ req[r].oid \notin OrderIds,
         req'[r].oid = o \/ req'[r].oid \notin OrderIds,
         \A x \in OrderIds \ {o} : order'[x] = order[x]
  PROVE  OnlyOrder(o)
<1>1. SUFFICES ASSUME NEW x \in OrderIds \ {o}
               PROVE  bookStatus'[x] = bookStatus[x] /\ bookHolds'[x] = bookHolds[x]
  BY DEF OnlyOrder
<1>2. order'[x] = order[x] /\ req[r].oid # x /\ req'[r].oid # x
  OBVIOUS
<1>3. CASE \A s \in Requests : req[s].oid # x
  <2>1. \A s \in Requests : req'[s].oid # x
    BY <1>2, <1>3
  <2>2. bookStatus[x] = order[x].status /\ bookHolds[x] = order[x].items.units
    BY <1>3 DEF Shown
  <2>3. bookStatus'[x] = order'[x].status /\ bookHolds'[x] = order'[x].items.units
    BY <2>1 DEF Shown
  <2>. QED
    BY <1>2, <2>2, <2>3
<1>4. CASE \E s \in Requests : req[s].oid = x
  <2>1. PICK s \in Requests : req[s].oid = x
    BY <1>4
  <2>2. req'[s] = req[s]
    BY <1>2, <2>1
  <2>3. req[s].pc # "idle"
    BY <2>1 DEF Shown
  <2>4. /\ bookStatus[x] = IF req[s].target = "cancelled" THEN "cancelled"
                           ELSE order[x].status
        /\ bookHolds[x] = IF req[s].pc = "saveItems" THEN req[s].items.units
                          ELSE order[x].items.units
    BY <2>1, <2>3 DEF Shown
  <2>5. /\ bookStatus'[x] = IF req'[s].target = "cancelled" THEN "cancelled"
                            ELSE order'[x].status
        /\ bookHolds'[x] = IF req'[s].pc = "saveItems" THEN req'[s].items.units
                           ELSE order'[x].items.units
    BY <2>1, <2>2, <2>3 DEF Shown
  <2>. QED
    BY <1>2, <2>2, <2>4, <2>5
<1>. QED
  BY <1>3, <1>4

\* A handler that starts changes nothing but what it cancels.
LEMMA StartedOnBook ==
  ASSUME BookInv, Shown, Shown', NEW r \in Requests, Started(r)
  PROVE  OnlyOrder(req'[r].oid) /\ OrderMoves(req'[r].oid)
<1>. DEFINE u == req'[r]
            o == u.oid
<1>1. /\ req[r].pc = "idle" /\ order' = order
      /\ o \in OrderIds /\ \A s \in Requests : req[s].oid # o
      /\ \/ u.pc = "build" /\ u.target = "pending"
         \/ u.pc \in {"restore", "saveStatus"} /\ u.target = "completed"
         \/ /\ u.pc \in {"restore", "saveStatus"} /\ u.target = "cancelled"
            /\ order[o].status \in {"pending", "completed"}
  BY DEF Started
<1>2. /\ req[r].oid \notin OrderIds
      /\ \A s \in Requests \ {r} : req'[s] = req[s]
  <2>1. req' = [req EXCEPT ![r] = req'[r]] /\ req \in [Requests -> Handler]
    BY DEF Started, BookInv, Orderly, Sound, TypeOK
  <2>. QED
    BY <1>1, <2>1 DEF Shown
<1>3. OnlyOrder(o)
  BY <1>1, <1>2, OthersSame
<1>4. bookStatus[o] = order[o].status /\ bookHolds[o] = order[o].items.units
  BY <1>1 DEF Shown
<1>5. /\ bookStatus'[o] = IF u.target = "cancelled" THEN "cancelled" ELSE order'[o].status
      /\ bookHolds'[o] = IF u.pc = "saveItems" THEN u.items.units ELSE order'[o].items.units
  BY <1>1 DEF Shown
<1>6. OrderMoves(o)
  BY <1>1, <1>4, <1>5 DEF OrderMoves
<1>. QED
  BY <1>3, <1>6

\* A handler that goes on, gives up or ends.
LEMMA HandledOnBook ==
  ASSUME BookInv, BookInv', Shown, Shown', NEW r \in Requests, Handled(r)
  PROVE  OnlyOrder(req[r].oid) /\ OrderMoves(req[r].oid)
<1>. DEFINE q == req[r]
            u == req'[r]
            o == q.oid
<1>1. q.pc \in Steps /\ q.pc # "idle" /\ \A s \in Requests \ {r} : req'[s] = req[s]
  <2>1. req' = [req EXCEPT ![r] = req'[r]] /\ req \in [Requests -> Handler]
    BY DEF Handled, BookInv, Orderly, Sound, TypeOK
  <2>. QED
    BY <2>1 DEF Handled, Steps, CatchingSteps
<1>2. o \in OrderIds /\ order[o].status \in Expected(q) /\ Purposeful(q)
      /\ order[o] \in OrderRow /\ q.items \in Items
  BY <1>1, BusyFacts
<1>3. /\ bookStatus[o] = IF q.target = "cancelled" THEN "cancelled" ELSE order[o].status
      /\ bookHolds[o] = IF q.pc = "saveItems" THEN q.items.units ELSE order[o].items.units
  BY <1>1 DEF Shown
<1>4. Idle.oid \notin OrderIds
  BY OrdersAssumption DEF Idle
<1>5. order \in [OrderIds -> OrderRow]
  BY DEF BookInv, Orderly, Sound, TypeOK
<1>6. ASSUME u = Idle, \A x \in OrderIds \ {o} : order'[x] = order[x]
      PROVE  /\ OnlyOrder(o)
             /\ bookStatus'[o] = order'[o].status /\ bookHolds'[o] = order'[o].items.units
  <2>1. OnlyOrder(o)
    BY <1>1, <1>2, <1>4, <1>6, OthersSame
  <2>2. \A s \in Requests \ {r} : req[s].oid # o
    BY <1>1 DEF BookInv, Orderly, Sound, ReadsStayTrue
  <2>3. \A s \in Requests : req'[s].oid # o
    BY <1>1, <1>2, <1>4, <1>6, <2>2
  <2>. QED
    BY <1>2, <2>1, <2>3 DEF Shown
<1>7. CASE order' = order /\ GoesOn(q, u)
  <2>1. u.oid = o /\ u.target = q.target /\ u.pc \in Onward[q.pc]
    BY <1>7 DEF GoesOn
  <2>2. u.pc # "idle" /\ (u.pc = "saveItems" => q.pc \in {"build", "reconcile"})
    BY <1>1, <2>1 DEF Onward, Steps, CatchingSteps
  <2>3. OnlyOrder(o)
    BY <1>1, <1>2, <1>7, <2>1, OthersSame
  <2>4. /\ bookStatus'[o] = IF u.target = "cancelled" THEN "cancelled" ELSE order'[o].status
        /\ bookHolds'[o] = IF u.pc = "saveItems" THEN u.items.units ELSE order'[o].items.units
    BY <2>1, <2>2 DEF Shown
  <2>5. order'[o].status \in Expected(u)
    BY <2>1, <2>2 DEF BookInv, Orderly, Sound, ReadsStayTrue
  <2>6. CASE u.pc = "saveItems" \/ q.pc = "saveItems"
    <3>1. q.target = "pending"
      BY <1>2, <2>2, <2>6 DEF Purposeful
    <3>2. order[o].status = "pending"
      BY <1>2, <1>7, <2>5, <2>6 DEF Expected
    <3>. QED
      BY <1>3, <1>7, <2>1, <2>3, <2>4, <3>1, <3>2 DEF OrderMoves
  <2>7. CASE u.pc # "saveItems" /\ q.pc # "saveItems"
    BY <1>3, <1>7, <2>1, <2>3, <2>4, <2>7 DEF OrderMoves
  <2>. QED
    BY <2>6, <2>7
<1>8. CASE /\ order' = order /\ u = Idle
           /\ q.pc \in {"build", "reserve", "release", "persist", "reconcile", "rollback"}
  <2>1. q.target = "pending" /\ q.pc # "saveItems"
    BY <1>2, <1>8 DEF Purposeful
  <2>. QED
    BY <1>3, <1>6, <1>8, <2>1 DEF OrderMoves
<1>9. CASE /\ q.pc = "persist" /\ u = Idle
           /\ order' = [order EXCEPT ![o] =
                  [status |-> "pending", items |-> q.items, invoice |-> NoInvoice]]
  <2>1. order[o].status = "absent" /\ q.target = "pending"
    BY <1>2, <1>9 DEF Expected, Purposeful
  <2>2. order'[o].status = "pending" /\ \A x \in OrderIds \ {o} : order'[x] = order[x]
    BY <1>2, <1>5, <1>9
  <2>. QED
    BY <1>3, <1>6, <1>9, <2>1, <2>2 DEF OrderMoves
<1>10. CASE /\ q.pc = "saveItems" /\ u = Idle
            /\ order' = [order EXCEPT ![o].items = q.items]
  <2>1. q.target = "pending"
    BY <1>2, <1>10 DEF Purposeful
  <2>2. /\ order'[o].status = order[o].status /\ order'[o].items = q.items
        /\ \A x \in OrderIds \ {o} : order'[x] = order[x]
    BY <1>2, <1>5, <1>10 DEF OrderRow
  <2>. QED
    BY <1>3, <1>6, <1>10, <2>1, <2>2 DEF OrderMoves
<1>11. CASE /\ q.pc = "saveStatus" /\ u = Idle
            /\ order' = [order EXCEPT ![o].status = q.target]
  <2>1. /\ q.target \in {"completed", "cancelled"}
        /\ q.target = "completed" => order[o].status = "pending"
    BY <1>2, <1>11 DEF Purposeful, Expected, ORDER_TRANSITIONS, OrderStatus
  <2>2. /\ order'[o].status = q.target /\ order'[o].items = order[o].items
        /\ \A x \in OrderIds \ {o} : order'[x] = order[x]
    BY <1>2, <1>5, <1>11 DEF OrderRow
  <2>. QED
    BY <1>3, <1>6, <1>11, <2>1, <2>2 DEF OrderMoves
<1>. QED
  BY <1>7, <1>8, <1>9, <1>10, <1>11 DEF Handled

\* The supply is made of two columns no handler writes.
LEMMA SupplySame ==
  ASSUME NEW p \in Products, resource'[p].state = resource[p].state,
         ledger'[p].manual = ledger[p].manual
  PROVE  bookSupply'[p] = bookSupply[p]
BY DEF bookSupply

LEMMA MovementSupply ==
  ASSUME TypeOK, NEW x, NEW delta, RecordAdjustment(x, delta, "orders")
  PROVE  bookSupply' = bookSupply
<1>1. \A p \in Products : /\ resource'[p].state = resource[p].state
                          /\ ledger'[p].manual = ledger[p].manual
  BY DEF RecordAdjustment, Adjustable, TypeOK, ResourceRow, Resources
<1>. QED
  BY <1>1 DEF bookSupply

LEMMA HandlerSupply ==
  ASSUME TypeOK, NEW r \in Requests, Begin(r) \/ Continue(r) \/ Crash(r)
  PROVE  bookSupply' = bookSupply
<1>1. CASE UNCHANGED <<resource, ledger>>
  BY <1>1 DEF bookSupply
<1>2. CASE ReserveLine(r) \/ ReleaseLine(r) \/ ReconcileLine(r)
              \/ RollbackLine(r) \/ RestoreLine(r)
  <2>1. \/ UNCHANGED <<resource, ledger>>
        \/ \E x, delta : RecordAdjustment(x, delta, "orders")
    BY <1>2 DEF ReserveLine, ReleaseLine, ReconcileLine, RollbackLine, RestoreLine
  <2>. QED
    BY <1>1, <2>1, MovementSupply
<1>3. CASE Begin(r) \/ BuildLine(r) \/ PersistOrder(r) \/ SaveItems(r)
              \/ SaveStatus(r) \/ Crash(r)
  <2>1. UNCHANGED <<resource, ledger>>
    BY <1>3 DEF Begin, CreateOrder, EditOrder, CompleteOrder, CancelOrder, UpdateStatus,
                BuildLine, PersistOrder, SaveItems, SaveStatus, Crash
  <2>. QED
    BY <1>1, <2>1
<1>. QED
  BY <1>2, <1>3 DEF Continue

\* What clients do to products and invoices changes the supply of one product at most,
\* and no order.
LEMMA TableOnBook ==
  ASSUME OneAtATime, Sound,
         ResourceStep \/ AttachInvoice \/ DetachInvoice \/ UNCHANGED vars
  PROVE  /\ bookStatus' = bookStatus /\ bookHolds' = bookHolds
         /\ \/ bookSupply' = bookSupply
            \/ \E p \in Products : \A x \in Products \ {p} : bookSupply'[x] = bookSupply[x]
<1>1. TypeOK
  BY DEF Sound
<1>2. /\ req' = req
      /\ \A o \in OrderIds : /\ order'[o].status = order[o].status
                             /\ order'[o].items = order[o].items
  BY TableSteps
<1>3. bookStatus' = bookStatus /\ bookHolds' = bookHolds
  BY <1>2 DEF bookStatus, bookHolds, Cancelling, Saving
<1>4. CASE UNCHANGED <<resource, ledger>>
  BY <1>3, <1>4 DEF bookSupply
<1>5. ASSUME NEW x \in Resources, CreateResource(x)
      PROVE  \/ bookSupply' = bookSupply
             \/ \E p \in Products : \A y \in Products \ {p} : bookSupply'[y] = bookSupply[y]
  <2>1. ledger' = ledger /\ \A y \in Resources \ {x} : resource'[y] = resource[y]
    BY <1>1, <1>5 DEF CreateResource, TypeOK
  <2>2. \A p \in Products \ {x} : bookSupply'[p] = bookSupply[p]
    BY <2>1, SupplySame DEF Resources
  <2>3. CASE x \in Products
    BY <2>2, <2>3
  <2>4. CASE x \notin Products
    <3>1. \A p \in Products : bookSupply'[p] = bookSupply[p]
      BY <2>2, <2>4
    <3>. QED
      BY <3>1, BookHasTables DEF BookTables
  <2>. QED
    BY <2>3, <2>4
<1>6. ASSUME NEW x \in Resources, DeleteResource(x) PROVE FALSE
  BY <1>6 DEF DeleteResource, OneAtATime
<1>7. ASSUME NEW p \in Products, UpdateResource(p) \/ AdjustStock(p)
      PROVE  \A x \in Products \ {p} : bookSupply'[x] = bookSupply[x]
  <2>1. \A x \in Products \ {p} : /\ resource'[x] = resource[x]
                                  /\ ledger'[x] = ledger[x]
    BY <1>1, <1>7 DEF UpdateResource, AdjustStock, RecordAdjustment, TypeOK, Resources
  <2>. QED
    BY <2>1, SupplySame
<1>8. CASE ResourceStep
  BY <1>3, <1>5, <1>6, <1>7, <1>8 DEF ResourceStep
<1>9. CASE AttachInvoice \/ DetachInvoice \/ UNCHANGED vars
  <2>1. UNCHANGED <<resource, ledger>>
    BY <1>9 DEF AttachInvoice, DetachInvoice, LinkInvoice, vars
  <2>. QED
    BY <1>4, <2>1
<1>. QED
  BY <1>8, <1>9

\* Every step is a step of the book.
LEMMA StepOnBook ==
  ASSUME OneAtATime, Nat \subseteq Quantities, Int \subseteq Supplies,
         BookInv, BookInv', Shown, Shown', AddsUp, AddsUp', [Next]_vars
  PROVE  [Book!BookNext]_(Book!bookVars)
<1>1. Sound /\ TypeOK
  BY DEF BookInv, Orderly, Sound
<1>2. ASSUME NEW r \in Requests, Begin(r) \/ Continue(r) \/ Crash(r)
      PROVE  \E o \in OrderIds : OnlyOrder(o) /\ OrderMoves(o)
  <2>1. CASE Begin(r)
    <3>1. Started(r) /\ req'[r].oid \in OrderIds
      BY <1>1, <2>1, BeginStarted DEF OneAtATime, Started
    <3>. QED
      BY <3>1, StartedOnBook
  <2>2. CASE Continue(r) \/ Crash(r)
    <3>1. Handled(r)
      BY <1>1, <2>2, ContinueHandled DEF OneAtATime
    <3>2. req[r].oid \in OrderIds
      BY <3>1 DEF Handled, Steps, CatchingSteps, Shown
    <3>. QED
      BY <3>1, <3>2, HandledOnBook
  <2>. QED
    BY <1>2, <2>1, <2>2
<1>3. CASE OrderStep
  <2>1. PICK r \in Requests : Begin(r) \/ Continue(r) \/ Crash(r)
    BY <1>3 DEF OrderStep
  <2>2. PICK o \in OrderIds : OnlyOrder(o) /\ OrderMoves(o)
    BY <1>2, <2>1
  <2>. QED
    BY <1>1, <2>1, <2>2, HandlerSupply, OneOrderSteps
<1>4. CASE ResourceStep \/ AttachInvoice \/ DetachInvoice \/ UNCHANGED vars
  BY <1>1, <1>4, TableOnBook, BookUnchanged, OneProductSteps
<1>. QED
  BY <1>3, <1>4 DEF Next

LEMMA InitOnBook == Init => Book!BookInit
<1>. SUFFICES ASSUME Init PROVE Book!BookInit
  OBVIOUS
<1>1. /\ \A p \in Products : resource[p].state = "absent" /\ resource[p].available = 0
      /\ \A r \in Requests : req[r] = Idle
      /\ \A o \in OrderIds : order[o] = NoRow
  BY DEF Init, Resources
<1>2. bookSupply = Book!Nothing
  BY <1>1 DEF bookSupply, Book!Nothing
<1>3. bookStock = Book!Nothing
  <2>1. ASSUME NEW p \in Products PROVE bookStock[p] = 0
    <3>. DEFINE f == [r \in Requests |-> Pending(p, req[r])]
    <3>1. Pending(p, Idle) = 0
      <4>1. Idle.pc # "saveItems" /\ Idle.target # "cancelled"
        BY DEF Idle
      <4>. QED
        BY <4>1, IdleFits DEF Pending
    <3>2. /\ IsFiniteSet(Requests) /\ bookStock[p] = 0 + SumFunctionOnSet(f, Requests)
          /\ \A r \in Requests : f[r] = 0
      BY <1>1, <3>1, OrdersAssumption DEF bookStock
    <3>. HIDE DEF f
    <3>3. SumFunctionOnSet(f, Requests) = 0
      BY <3>2, SumOfZeros
    <3>. QED
      BY <3>2, <3>3
  <2>. QED
    BY <2>1, BookHasTables DEF BookTables, Book!Nothing
<1>4. /\ \A r \in Requests : req[r].target # "cancelled" /\ req[r].pc # "saveItems"
      /\ \A o \in OrderIds : order[o].status = "absent" /\ order[o].items.units = Book!Nothing
  BY <1>1 DEF Idle, NoRow, NoItems, Book!Nothing
<1>5. /\ bookStatus = [o \in OrderIds |-> "absent"]
      /\ bookHolds = [o \in OrderIds |-> Book!Nothing]
  BY <1>4 DEF bookStatus, bookHolds, Cancelling, Saving
<1>. QED
  BY <1>2, <1>3, <1>5 DEF Book!BookInit

\* The order flow implements the order book, for any number of orders, products and
\* requests: where requests on one order take turns, saves of edited items do not fail,
\* handlers end for good only before they moved stock, and no edit moves more than one
\* product, every step of every handler is a step of OrderBook or invisible in it.
THEOREM BookIsImplemented ==
  ASSUME OneAtATime, Nat \subseteq Quantities, Int \subseteq Supplies
  PROVE  Spec /\ []EditsOneProduct => ImplementsOrderBook
<1>1. Init => BookInv /\ Book!BookInit
  BY InitBookInv, InitOnBook
<1>2. BookInv /\ EditsOneProduct /\ [Next]_vars => BookInv'
  BY StepBookInv
<1>3. BookInv => Shown /\ AddsUp
  BY BookShows, BookAddsUp
<1>4. /\ BookInv /\ BookInv' /\ Shown /\ Shown' /\ AddsUp /\ AddsUp' /\ [Next]_vars
         => [Book!BookNext]_(Book!bookVars)
  BY StepOnBook
<1>. QED
  BY <1>1, <1>2, <1>3, <1>4, PTL DEF Spec, ImplementsOrderBook, Book!BookSpec

\* In particular for a business with one product.
THEOREM OneProductBook ==
  ASSUME OneAtATime, Nat \subseteq Quantities, Int \subseteq Supplies,
         NEW p, Products \subseteq {p}
  PROVE  Spec => ImplementsOrderBook
<1>1. Init => BookInv /\ Book!BookInit
  BY InitBookInv, InitOnBook
<1>2. BookInv /\ [Next]_vars => BookInv'
  BY StepBookInv, OneProductEdits DEF BookInv
<1>3. BookInv => Shown /\ AddsUp
  BY BookShows, BookAddsUp
<1>4. /\ BookInv /\ BookInv' /\ Shown /\ Shown' /\ AddsUp /\ AddsUp' /\ [Next]_vars
         => [Book!BookNext]_(Book!bookVars)
  BY StepOnBook
<1>. QED
  BY <1>1, <1>2, <1>3, <1>4, PTL DEF Spec, ImplementsOrderBook, Book!BookSpec

=============================================================================
