----------------------------- MODULE SalesOrders -----------------------------
(***************************************************************************)
(* SalesOrdersService: a sale's journey from draft to delivery, one person *)
(* at each step, with the requests of several people in flight at once.    *)
(*                                                                         *)
(* Every handler reads the order and checks its conditions BEFORE it opens *)
(* its database transaction, so a request is at least two steps: Begin,    *)
(* which reads and remembers, and a commit that acts on what it remembers. *)
(* assignWarehouse reads twice more in between (the balance, then the      *)
(* reservations of other orders); cancel runs three statements, the last   *)
(* of which takes the order's row.  The other transactions write nothing   *)
(* another request could see or block on before they hold the order's row  *)
(* (or, in fulfill, the ledger's number row), so each commits in one step. *)
(*                                                                         *)
(* An order has one line: Bags[o] bags of the one product.  One assignment *)
(* makes one reservation and one task, so both have the same index.        *)
(***************************************************************************)
EXTENDS Integers, Sequences, FiniteSets, FiniteSetsExt

CONSTANTS
    Order, User, Warehouse,
    Request,        \* HTTP requests in flight
    Nobody,         \* no user
    Nowhere,        \* no warehouse
    Bags,           \* [Order -> Nat]: what each order asks for
    Opening,        \* [Warehouse -> Nat]: bags in stock at the start
    Holder,         \* [Permission -> SUBSET User]: sales.<it>, tasks.assign, tasks.complete
    Team,           \* [Warehouse -> SUBSET User]: WAREHOUSE scope grants
    Everywhere,     \* users whose role has the GLOBAL scope
    Movable,        \* bound: the statuses tasks are moved to by hand
    MaxAssign       \* bound: assignments of one order

Permission == {"create", "approve", "release", "assign", "fulfill", "view", "tasks", "complete"}

ASSUME PeopleAssumption ==
    /\ Nobody \notin User /\ Nowhere \notin Warehouse
    /\ Holder \in [Permission -> SUBSET User]
    /\ Team \in [Warehouse -> SUBSET User]
    /\ Everywhere \subseteq User
ASSUME StockAssumption ==
    /\ Bags \in [Order -> Nat \ {0}]
    /\ Opening \in [Warehouse -> Nat]
    /\ MaxAssign \in Nat
    /\ Movable \subseteq {"TODO", "IN_PROGRESS", "REVIEW", "COMPLETED"}

VARIABLES
    status,         \* SalesOrder.status; "NONE" until the order is created
    submittedBy,    \* SalesOrder.submittedById
    allocated,      \* SalesOrder.allocatedWarehouseId
    reservation,    \* its StockReservation rows, oldest first
    task,           \* the status of its Task rows, oldest first
    trail,          \* its SalesOrderEvent rows that move it, oldest first
    stock,          \* the balance of each warehouse, in bags
    shipped,        \* history: what left each warehouse for each order
    call,           \* what each request is doing and what it has read
    crossed         \* history: orders that two requests acted on at once

orders == <<status, submittedBy, allocated, reservation, task, trail>>
vars == <<orders, stock, shipped, call, crossed>>

Op == {"submit", "approve", "release", "reject", "assign", "start",
       "dispatch", "fulfill", "cancel"}
Cancellable == {"DRAFT", "SUBMITTED", "APPROVED", "RELEASED", "RESERVED"}

\* TaskStatus by who still closes it: what is being done (BLOCKED too) ends with
\* any end of the order, what was handed in (SUBMITTED, REVIEW) only with its
\* delivery, what is COMPLETED (or REJECTED) never.
OpenTask == {"TODO", "IN_PROGRESS"}
HandedIn == {"REVIEW"}

Idle == [step |-> "idle"]
Active(o) == {i \in DOMAIN reservation[o] : reservation[o][i].state = "ACTIVE"}
Open(o) == {i \in DOMAIN task[o] : task[o][i] \in OpenTask}

\* canSee(orderVisibility(actor), order): findById hides every other order.
CanSee(u, o) ==
    \/ \E p \in {"approve", "release", "assign", "view"} : u \in Holder[p]
    \/ /\ u \in Holder["fulfill"]
       /\ u \in Everywhere \/ (allocated[o] # Nowhere /\ u \in Team[allocated[o]])
    \/ u \in Holder["create"] \ Holder["fulfill"] /\ submittedBy[o] = u

\* assertWarehouseDuty, on the order as the request has read it.
OnDuty(u, o) ==
    u \in Everywhere \/ (allocated[o] # Nowhere /\ u \in Team[allocated[o]])

-----------------------------------------------------------------------------
(* The conditions each handler checks on the order it reads, with the      *)
(* permission its route requires.                                          *)

MaySubmit(u, o) ==
    u \in Holder["create"] /\ status[o] = "DRAFT" /\ submittedBy[o] = u

\* Seeded mistake: the Finance Director may approve an order of their own.
MayApproveOwn(u, o) == u \in Holder["approve"] /\ status[o] = "SUBMITTED"
MayApprove(u, o) ==
    u \in Holder["approve"] /\ status[o] = "SUBMITTED" /\ submittedBy[o] # u

MayRelease(u, o) == u \in Holder["release"] /\ status[o] = "APPROVED"

MayReject(u, o) ==
    /\ \/ status[o] = "SUBMITTED" /\ u \in Holder["approve"]
       \/ status[o] = "APPROVED" /\ u \in Holder["release"]
    /\ submittedBy[o] # u

MayAssign(u, o, w) ==
    /\ u \in Holder["assign"]
    /\ \/ status[o] = "RELEASED"
       \/ status[o] = "RESERVED" /\ allocated[o] # w
    /\ Len(reservation[o]) < MaxAssign

MayStart(u, o) == u \in Holder["fulfill"] /\ status[o] = "RESERVED" /\ OnDuty(u, o)
MayDispatch(u, o) == u \in Holder["fulfill"] /\ status[o] = "PROCESSING" /\ OnDuty(u, o)

MayFulfil(u, o) ==
    /\ u \in Holder["fulfill"] /\ status[o] = "ON_TRACK"
    /\ allocated[o] # Nowhere /\ OnDuty(u, o)

MayCancel(u, o) ==
    /\ u \in Holder["create"] \cup Holder["release"]
    /\ status[o] \in Cancellable
    /\ submittedBy[o] = u \/ u \in Holder["release"]

\* `w` is the warehouse of an assignment and Nowhere in any other request.
MayAsk(op, u, o, w) ==
    /\ CanSee(u, o)
    /\ (op = "assign") = (w # Nowhere)
    /\ \/ op = "submit" /\ MaySubmit(u, o)
       \/ op = "approve" /\ MayApprove(u, o)
       \/ op = "release" /\ MayRelease(u, o)
       \/ op = "reject" /\ MayReject(u, o)
       \/ op = "assign" /\ MayAssign(u, o, w)
       \/ op = "start" /\ MayStart(u, o)
       \/ op = "dispatch" /\ MayDispatch(u, o)
       \/ op = "fulfill" /\ MayFulfil(u, o)
       \/ op = "cancel" /\ MayCancel(u, o)

-----------------------------------------------------------------------------
Init ==
    /\ status = [o \in Order |-> "NONE"]
    /\ submittedBy = [o \in Order |-> Nobody]
    /\ allocated = [o \in Order |-> Nowhere]
    /\ reservation = [o \in Order |-> <<>>]
    /\ task = [o \in Order |-> <<>>]
    /\ trail = [o \in Order |-> <<>>]
    /\ stock = Opening
    /\ shipped = [o \in Order |-> [w \in Warehouse |-> 0]]
    /\ call = [r \in Request |-> Idle]
    /\ crossed = {}

\* record(): one line in the order's activity trail.
Record(o, type, from, to, u) ==
    trail' = [trail EXCEPT ![o] =
                 Append(@, [type |-> type, from |-> from, to |-> to, by |-> u])]

\* transition(): the row is updated only if it still has the status read.
TransitionUnguarded(o, from) == TRUE    \* seeded mistake: update, not updateMany
Transition(o, from) == status[o] = from

\* The request ends and answers.
Return(r) == call' = [call EXCEPT ![r] = Idle]

\* create
Create(o, u) ==
    /\ status[o] = "NONE"
    /\ u \in Holder["create"]
    /\ status' = [status EXCEPT ![o] = "DRAFT"]
    /\ submittedBy' = [submittedBy EXCEPT ![o] = u]
    /\ Record(o, "CREATED", "NONE", "DRAFT", u)
    /\ UNCHANGED <<allocated, reservation, task, stock, shipped, call>>

\* The first half of every other handler: read, check, remember.
Begin(r, op, u, o, w) ==
    /\ call[r] = Idle
    /\ MayAsk(op, u, o, w)
    /\ call' = [call EXCEPT ![r] =
          [step |-> "read", op |-> op, by |-> u, order |-> o, from |-> status[o],
           at |-> IF op = "assign" THEN w ELSE allocated[o],
           lines |-> IF op = "fulfill" THEN Active(o) ELSE {},
           tasks |-> {}, have |-> 0]]
    /\ crossed' = IF \E q \in Request : call[q] # Idle /\ call[q].order = o
                  THEN crossed \cup {o} ELSE crossed
    /\ UNCHANGED <<orders, stock, shipped>>

Doing(r, op, step) == call[r].step = step /\ call[r].op = op

\* submit, approve, release, reject and dispatch: the status and the trail.
Move(r, op, type, to) ==
    LET c == call[r] IN
    /\ Doing(r, op, "read")
    /\ Transition(c.order, c.from)
    /\ status' = [status EXCEPT ![c.order] = to]
    /\ Record(c.order, type, c.from, to, c.by)
    /\ Return(r)
    /\ UNCHANGED <<submittedBy, allocated, reservation, task, stock, shipped>>

Submit(r) == Move(r, "submit", "SUBMITTED", "SUBMITTED")
Approve(r) == Move(r, "approve", "APPROVED", "APPROVED")
Release(r) == Move(r, "release", "RELEASED", "RELEASED")
Reject(r) == Move(r, "reject", "REJECTED", "REJECTED")
Dispatch(r) == Move(r, "dispatch", "ON_TRACK", "ON_TRACK")

\* Rows that a cancellation in progress has updated stay locked until it ends.
Cancelling(q, o) == call[q] # Idle /\ call[q].op = "cancel" /\ call[q].order = o
LineLocked(r, o, i) == \E q \in Request \ {r} : Cancelling(q, o) /\ i \in call[q].lines
TaskLocked(r, o, i) == \E q \in Request \ {r} : Cancelling(q, o) /\ i \in call[q].tasks

\* The status a set of reservations or tasks is given.
Marked(rows, S, state) ==
    [i \in DOMAIN rows |-> IF i \in S THEN [rows[i] EXCEPT !.state = state] ELSE rows[i]]
Set(rows, S, state) == [i \in DOMAIN rows |-> IF i \in S THEN state ELSE rows[i]]

\* availableToSell, first read: the balance of the chosen warehouse.
CountStock(r) ==
    /\ Doing(r, "assign", "read")
    /\ call' = [call EXCEPT ![r].step = "counted", ![r].have = stock[call[r].at]]
    /\ UNCHANGED <<orders, stock, shipped>>

\* The bags that ACTIVE reservations hold at a warehouse.
HeldBy(o, w) == Bags[o] * Cardinality({i \in Active(o) : reservation[o][i].at = w})
Held(w) == MapThenSumSet(LAMBDA o : HeldBy(o, w), Order)

\* `available`: what was counted, less what is held by now.
Available(r) == call[r].have - Held(call[r].at)

\* availableToSell, second read, and the check of shortfalls.
CheckStock(r) ==
    /\ Doing(r, "assign", "counted")
    /\ Available(r) >= Bags[call[r].order]
    /\ call' = [call EXCEPT ![r].step = "checked"]
    /\ UNCHANGED <<orders, stock, shipped>>

\* assignWarehouse's transaction: the first assignment, or a move.
Assign(r) ==
    LET c == call[r]
        o == c.order
        moved == c.from = "RESERVED"
        freed == IF moved THEN Active(o) ELSE {}
        closed == IF moved THEN Open(o) ELSE {} IN
    /\ Doing(r, "assign", "checked")
    /\ Transition(o, c.from)
    /\ \A i \in freed : ~LineLocked(r, o, i)
    /\ \A i \in closed : ~TaskLocked(r, o, i)
    /\ status' = [status EXCEPT ![o] = "RESERVED"]
    /\ allocated' = [allocated EXCEPT ![o] = c.at]
    /\ reservation' = [reservation EXCEPT ![o] =
          Append(Marked(@, freed, "RELEASED"), [at |-> c.at, state |-> "ACTIVE"])]
    /\ task' = [task EXCEPT ![o] = Append(Set(@, closed, "CANCELLED"), "TODO")]
    /\ Record(o, IF moved THEN "REASSIGNED" ELSE "ASSIGNED", c.from, "RESERVED", c.by)
    /\ Return(r)
    /\ UNCHANGED <<submittedBy, stock, shipped>>

\* startProcessing
Start(r) ==
    LET c == call[r]
        o == c.order
        waiting == {i \in DOMAIN task[o] : task[o][i] = "TODO"} IN
    /\ Doing(r, "start", "read")
    /\ Transition(o, c.from)
    /\ \A i \in waiting : ~TaskLocked(r, o, i)
    /\ status' = [status EXCEPT ![o] = "PROCESSING"]
    /\ task' = [task EXCEPT ![o] = Set(@, waiting, "IN_PROGRESS")]
    /\ Record(o, "PROCESSING", c.from, "PROCESSING", c.by)
    /\ Return(r)
    /\ UNCHANGED <<submittedBy, allocated, reservation, stock, shipped>>

InStock(w, n) == stock[w] >= n      \* adjustBalance, RULE 1

\* fulfill: what was ACTIVE when the order was read leaves the warehouse the
\* order had then.  The order's status is not looked at again.
Fulfil(r) ==
    LET c == call[r]
        o == c.order
        n == Bags[o] * Cardinality(c.lines)
        unfinished == {i \in DOMAIN task[o] : task[o][i] \in OpenTask \cup HandedIn} IN
    /\ Doing(r, "fulfill", "read")
    /\ \A i \in c.lines : ~LineLocked(r, o, i)
    /\ \A i \in unfinished : ~TaskLocked(r, o, i)
    /\ InStock(c.at, n)
    /\ stock' = [stock EXCEPT ![c.at] = @ - n]
    /\ shipped' = [shipped EXCEPT ![o][c.at] = @ + n]
    /\ reservation' = [reservation EXCEPT ![o] = Marked(@, c.lines, "CONSUMED")]
    /\ status' = [status EXCEPT ![o] = "FULFILLED"]
    /\ task' = [task EXCEPT ![o] = Set(@, unfinished, "COMPLETED")]
    /\ Record(o, "DELIVERED", "ON_TRACK", "FULFILLED", c.by)
    /\ Return(r)
    /\ UNCHANGED <<submittedBy, allocated>>

\* cancel, first statement: UPDATE of the ACTIVE reservations it can see.
FreeHolds(r) ==
    LET o == call[r].order IN
    /\ Doing(r, "cancel", "read")
    /\ \A i \in Active(o) : ~LineLocked(r, o, i)
    /\ call' = [call EXCEPT ![r].step = "freed", ![r].lines = Active(o)]
    /\ UNCHANGED <<orders, stock, shipped>>

\* cancel, second statement: UPDATE of the open tasks it can see.
CloseTasksNever(r) ==           \* seeded mistake: the tasks are forgotten
    /\ Doing(r, "cancel", "freed")
    /\ call' = [call EXCEPT ![r].step = "closed"]
    /\ UNCHANGED <<orders, stock, shipped>>
CloseTasks(r) ==
    LET o == call[r].order IN
    /\ Doing(r, "cancel", "freed")
    /\ \A i \in Open(o) : ~TaskLocked(r, o, i)
    /\ call' = [call EXCEPT ![r].step = "closed", ![r].tasks = Open(o)]
    /\ UNCHANGED <<orders, stock, shipped>>

\* cancel, last statement and commit.  The order's status is not looked at.
Cancel(r) ==
    LET c == call[r]  o == c.order IN
    /\ Doing(r, "cancel", "closed")
    /\ reservation' = [reservation EXCEPT ![o] = Marked(@, c.lines, "RELEASED")]
    /\ task' = [task EXCEPT ![o] = Set(@, c.tasks, "CANCELLED")]
    /\ status' = [status EXCEPT ![o] = "CANCELLED"]
    /\ Record(o, "CANCELLED", c.from, "CANCELLED", c.by)
    /\ Return(r)
    /\ UNCHANGED <<submittedBy, allocated, stock, shipped>>

\* TasksService.updateStatus: who gave the task, or anyone who gives tasks, moves
\* it from wherever it is, whatever has become of its order.
Giver(o, i) ==
    LET given == SelectSeq(trail[o], LAMBDA e : e.type \in {"ASSIGNED", "REASSIGNED"})
    IN  given[i].by

MoveTask(u, o, i, to) ==
    /\ u = Giver(o, i) \/ u \in Holder["tasks"]
    /\ to = "COMPLETED" => u \in Holder["tasks"] \cup Holder["complete"]
    /\ task[o][i] # to
    /\ \A q \in Request : ~(Cancelling(q, o) /\ i \in call[q].tasks)
    /\ task' = [task EXCEPT ![o][i] = to]
    /\ crossed' = IF status[o] = "CANCELLED" \/ \E q \in Request : Cancelling(q, o)
                  THEN crossed \cup {o} ELSE crossed
    /\ UNCHANGED <<status, submittedBy, allocated, reservation, trail, stock, shipped, call>>

\* Any other end: a shortfall, the ConflictException of transition(), a
\* balance that would go negative, a duplicate task number, a database
\* deadlock or timeout, a crash.  The transaction leaves nothing behind.
Fail(r) ==
    /\ call[r] # Idle
    /\ Return(r)
    /\ UNCHANGED <<orders, stock, shipped>>

Next ==
    \/ \E o \in Order, u \in User : Create(o, u) /\ UNCHANGED crossed
    \/ \E u \in User, o \in Order, to \in Movable : \E i \in DOMAIN task[o] : MoveTask(u, o, i, to)
    \/ \E r \in Request, op \in Op, u \in User, o \in Order,
          w \in Warehouse \cup {Nowhere} : Begin(r, op, u, o, w)
    \/ \E r \in Request :
          /\ \/ Submit(r) \/ Approve(r) \/ Release(r) \/ Reject(r)
             \/ CountStock(r) \/ CheckStock(r) \/ Assign(r)
             \/ Start(r) \/ Dispatch(r) \/ Fulfil(r)
             \/ FreeHolds(r) \/ CloseTasks(r) \/ Cancel(r)
             \/ Fail(r)
          /\ UNCHANGED crossed

Spec == Init /\ [][Next]_vars

-----------------------------------------------------------------------------
(* Properties. *)

Did(o, type) == \E i \in DOMAIN trail[o] : trail[o][i].type = type
Shipped(o) == MapThenSumSet(LAMBDA w : shipped[o][w], Warehouse)

\* However requests interleave, an order that a warehouse is to prepare, is
\* preparing or has sent holds stock exactly once, at the warehouse it is
\* assigned to (assignWarehouse, which moves the hold, and transition()).
HeldOnce ==
    \A o \in Order : status[o] \in {"RESERVED", "PROCESSING", "ON_TRACK"} =>
        \E i \in DOMAIN reservation[o] :
            /\ Active(o) = {i}
            /\ reservation[o][i].at = allocated[o]

\* Separation of duties (approve, line 410, with every later guard): no bag
\* leaves for an order unless somebody other than its maker approved it and
\* it was then released, assigned, picked and sent, whatever raced with what.
NothingLeavesUnapproved ==
    \A o \in Order : (\E w \in Warehouse : shipped[o][w] > 0) =>
        /\ \A type \in {"SUBMITTED", "RELEASED", "ASSIGNED", "PROCESSING", "ON_TRACK"} :
              Did(o, type)
        /\ \E i \in DOMAIN trail[o] : /\ trail[o][i].type = "APPROVED"
                                      /\ trail[o][i].by # submittedBy[o]

\* The header of SalesOrdersService: "every transition is guarded so two
\* people can never act on the same order at once".  An order's bags leave
\* at most once.
ShippedOnce == \A o \in Order : Shipped(o) <= Bags[o]

\* cancel: "nobody should still be chasing a delivery for an order that no
\* longer exists".  A cancelled order has no task in hand and holds no stock,
\* where no two requests acted on it at once and nobody took up a task of an
\* order already cancelled.
NobodyChasesCancelled ==
    \A o \in Order \ crossed : status[o] = "CANCELLED" => Open(o) = {} /\ Active(o) = {}

\* The same comment, of every task that is not finished: one that was handed in
\* before the cancellation (SUBMITTED, REVIEW) stays in hand for good.
NoTaskOutlivesOrder ==
    \A o \in Order \ crossed : status[o] = "CANCELLED" =>
        \A i \in DOMAIN task[o] : task[o][i] \in {"COMPLETED", "CANCELLED"}

-----------------------------------------------------------------------------
(* The invariant behind them. *)

Status == {"NONE", "DRAFT", "SUBMITTED", "APPROVED", "RELEASED", "RESERVED", "PROCESSING",
           "ON_TRACK", "FULFILLED", "REJECTED", "CANCELLED"}
Hold == [at : Warehouse, state : {"ACTIVE", "RELEASED", "CONSUMED"}]
TaskState == {"TODO", "IN_PROGRESS", "REVIEW", "COMPLETED", "CANCELLED"}
EventType == {"CREATED", "SUBMITTED", "APPROVED", "RELEASED", "REJECTED", "ASSIGNED",
              "REASSIGNED", "PROCESSING", "ON_TRACK", "DELIVERED", "CANCELLED"}
Event == [type : EventType, from : Status, to : Status, by : User]
Call == [step : {"read", "counted", "checked", "freed", "closed"}, op : Op, by : User,
         order : Order, from : Status, at : Warehouse \cup {Nowhere},
         lines : SUBSET Nat, tasks : SUBSET Nat, have : Int]

TypeOK ==
    /\ status \in [Order -> Status]
    /\ submittedBy \in [Order -> User \cup {Nobody}]
    /\ allocated \in [Order -> Warehouse \cup {Nowhere}]
    /\ reservation \in [Order -> Seq(Hold)]
    /\ task \in [Order -> Seq(TaskState)]
    /\ trail \in [Order -> Seq(Event)]
    /\ stock \in [Warehouse -> Nat]
    /\ shipped \in [Order -> [Warehouse -> Nat]]
    /\ call \in [Request -> {Idle} \cup Call]
    /\ crossed \subseteq Order

\* Somebody took that step of the order; who approved it is not who made it.
Passed(o, type) ==
    \E i \in DOMAIN trail[o] :
        /\ trail[o][i].type = type
        /\ type = "APPROVED" => trail[o][i].by # submittedBy[o]

\* The steps behind an order that has this status.
Chain == {"SUBMITTED", "APPROVED", "RELEASED", "ASSIGNED", "PROCESSING", "ON_TRACK"}
Behind(s) ==
    CASE s = "SUBMITTED" -> {"SUBMITTED"}
      [] s = "APPROVED" -> {"SUBMITTED", "APPROVED"}
      [] s = "RELEASED" -> {"SUBMITTED", "APPROVED", "RELEASED"}
      [] s = "RESERVED" -> {"SUBMITTED", "APPROVED", "RELEASED", "ASSIGNED"}
      [] s = "PROCESSING" -> Chain \ {"ON_TRACK"}
      [] s = "ON_TRACK" -> Chain
      [] OTHER -> {}
TrailOK(o) ==
    /\ \A type \in Behind(status[o]) : Passed(o, type)
    /\ (\E w \in Warehouse : shipped[o][w] > 0) => \A type \in Chain : Passed(o, type)
    /\ status[o] = "NONE" => \A w \in Warehouse : shipped[o][w] = 0

\* One hold, where the order is, once it is assigned, and none before.
HoldOK(o) ==
    /\ status[o] \in {"NONE", "DRAFT", "SUBMITTED", "APPROVED", "RELEASED"} => Active(o) = {}
    /\ status[o] \in {"RESERVED", "PROCESSING", "ON_TRACK"} =>
          \E i \in DOMAIN reservation[o] : Active(o) = {i} /\ reservation[o][i].at = allocated[o]

\* The statuses in which an order may be read by a request of this kind.
ReadIn(op) ==
    CASE op = "submit" -> {"DRAFT"}
      [] op = "approve" -> {"SUBMITTED"}
      [] op = "release" -> {"APPROVED"}
      [] op = "reject" -> {"SUBMITTED", "APPROVED"}
      [] op = "assign" -> {"RELEASED", "RESERVED"}
      [] op = "start" -> {"RESERVED"}
      [] op = "dispatch" -> {"PROCESSING"}
      [] op = "fulfill" -> {"ON_TRACK"}
      [] op = "cancel" -> Cancellable

\* What a request in flight has read of its order still holds of its trail.
CallOK(c) ==
    c # Idle =>
        /\ status[c.order] # "NONE"
        /\ c.from \in ReadIn(c.op)
        /\ c.op = "approve" => c.by # submittedBy[c.order]
        /\ c.op \in {"assign", "fulfill"} => c.at # Nowhere
        /\ c.op = "fulfill" =>
              /\ c.lines \subseteq DOMAIN reservation[c.order]
              /\ \A type \in Chain : Passed(c.order, type)

\* As long as no two requests acted on an order at once, a request finds it as
\* it read it, and a cancellation has taken all there is to take.
About(q, o) == call[q] # Idle /\ call[q].order = o
AloneOK(o) ==
    o \notin crossed =>
        /\ \A q, r \in Request : About(q, o) /\ About(r, o) => q = r
        /\ \A q \in Request : About(q, o) =>
              /\ status[o] = call[q].from
              /\ call[q].op = "cancel" =>
                    /\ call[q].step \in {"freed", "closed"} => call[q].lines = Active(o)
                    /\ call[q].step = "closed" => call[q].tasks = Open(o)
        /\ status[o] = "CANCELLED" => Open(o) = {} /\ Active(o) = {}

IInv ==
    /\ TypeOK
    /\ \A o \in Order : TrailOK(o) /\ HoldOK(o) /\ AloneOK(o)
    /\ \A r \in Request : CallOK(call[r])
=============================================================================
