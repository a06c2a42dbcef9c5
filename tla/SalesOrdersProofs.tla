-------------------------- MODULE SalesOrdersProofs --------------------------
(***************************************************************************)
(* Proofs about SalesOrders.tla and SalesDesk.tla, for every number of     *)
(* orders, people, warehouses and requests in flight: what survives every  *)
(* interleaving of the handlers, what a cancellation that nothing raced    *)
(* with leaves, and that the page shows what was done and who may go on.   *)
(***************************************************************************)
EXTENDS SalesDesk, SequenceTheorems, FiniteSetTheorems, TLAPS

USE PeopleAssumption, StockAssumption

-----------------------------------------------------------------------------
(* Rows, tasks and the trail. *)

LEMMA FunctionIsSeq ==
  ASSUME NEW T, NEW n \in Nat, NEW f \in [1 .. n -> T]
  PROVE  f \in Seq(T) /\ Len(f) = n /\ DOMAIN f = 1 .. n
<1>1. f \in Seq(T)
  BY SeqDef
<1>2. DOMAIN f = 1 .. Len(f) /\ Len(f) \in Nat
  BY <1>1, LenProperties
<1>3. DOMAIN f = 1 .. n
  OBVIOUS
<1>4. Len(f) = n
  BY <1>2, <1>3
<1> QED  BY <1>1, <1>3, <1>4

LEMMA MarkedSeq ==
  ASSUME NEW rows \in Seq(Hold), NEW S, NEW state \in {"ACTIVE", "RELEASED", "CONSUMED"}
  PROVE  /\ Marked(rows, S, state) \in Seq(Hold)
         /\ Len(Marked(rows, S, state)) = Len(rows)
         /\ DOMAIN Marked(rows, S, state) = DOMAIN rows
         /\ \A i \in DOMAIN rows : LET row == Marked(rows, S, state)[i] IN
               IF i \in S THEN row.state = state /\ row.at = rows[i].at ELSE row = rows[i]
<1>1. Len(rows) \in Nat /\ DOMAIN rows = 1 .. Len(rows) /\ \A i \in DOMAIN rows : rows[i] \in Hold
  BY LenProperties, ElementOfSeq
<1>2. \A i \in DOMAIN rows : [rows[i] EXCEPT !.state = state] \in Hold
  BY <1>1 DEF Hold
<1>3. Marked(rows, S, state) \in [1 .. Len(rows) -> Hold]
  BY <1>1, <1>2 DEF Marked
<1>4. \A i \in DOMAIN rows : i \in S => /\ [rows[i] EXCEPT !.state = state].state = state
                                        /\ [rows[i] EXCEPT !.state = state].at = rows[i].at
  BY <1>1 DEF Hold
<1>5. \A i \in DOMAIN rows : IF i \in S
          THEN /\ Marked(rows, S, state)[i].state = state
               /\ Marked(rows, S, state)[i].at = rows[i].at
          ELSE Marked(rows, S, state)[i] = rows[i]
  BY <1>4, Zenon DEF Marked
<1>6. Marked(rows, S, state) \in Seq(Hold) /\ Len(Marked(rows, S, state)) = Len(rows)
      /\ DOMAIN Marked(rows, S, state) = DOMAIN rows
  <2> DEFINE f == Marked(rows, S, state)
  <2> HIDE DEF f
  <2>1. f \in Seq(Hold) /\ Len(f) = Len(rows) /\ DOMAIN f = 1 .. Len(rows)
    BY <1>1, <1>3, FunctionIsSeq DEF f
  <2> QED  BY <1>1, <2>1 DEF f
<1> QED  BY <1>5, <1>6

LEMMA SetSeq ==
  ASSUME NEW rows \in Seq(TaskState), NEW S, NEW state \in TaskState
  PROVE  /\ Set(rows, S, state) \in Seq(TaskState)
         /\ DOMAIN Set(rows, S, state) = DOMAIN rows
         /\ \A i \in DOMAIN rows : Set(rows, S, state)[i] = IF i \in S THEN state ELSE rows[i]
<1>1. Len(rows) \in Nat /\ DOMAIN rows = 1 .. Len(rows) /\ \A i \in DOMAIN rows : rows[i] \in TaskState
  BY LenProperties, ElementOfSeq
<1>2. Set(rows, S, state) \in [1 .. Len(rows) -> TaskState]
  BY <1>1 DEF Set
<1> QED  BY <1>1, <1>2 DEF Set

\* A line of the trail is never lost, and the new one is there.
LEMMA TrailGrows ==
  ASSUME TypeOK, NEW o \in Order, NEW e \in Event,
         trail' = [trail EXCEPT ![o] = Append(@, e)], submittedBy' = submittedBy
  PROVE  /\ \A p \in Order, type \in Chain : Passed(p, type) => Passed(p, type)'
         /\ e.type # "APPROVED" \/ e.by # submittedBy[o] => Passed(o, e.type)'
<1>1. trail[o] \in Seq(Event) /\ trail'[o] = Append(trail[o], e)
  BY DEF TypeOK
<1>2. /\ DOMAIN trail[o] \subseteq DOMAIN trail'[o]
      /\ \A i \in DOMAIN trail[o] : trail'[o][i] = trail[o][i]
      /\ Len(trail[o]) + 1 \in DOMAIN trail'[o] /\ trail'[o][Len(trail[o]) + 1] = e
  BY <1>1, AppendProperties, LenProperties
<1>3. \A p \in Order : p # o => trail'[p] = trail[p]
  BY DEF TypeOK
<1>4. ASSUME NEW p \in Order, NEW type \in Chain, Passed(p, type)
      PROVE  Passed(p, type)'
  <2>1. PICK i \in DOMAIN trail[p] :
            trail[p][i].type = type /\ (type = "APPROVED" => trail[p][i].by # submittedBy[p])
    BY <1>4 DEF Passed
  <2>2. i \in DOMAIN trail'[p] /\ trail'[p][i] = trail[p][i]
    BY <1>2, <1>3, <2>1
  <2> QED  BY <2>1, <2>2 DEF Passed
<1>5. e.type # "APPROVED" \/ e.by # submittedBy[o] => Passed(o, e.type)'
  BY <1>2 DEF Passed
<1> QED  BY <1>4, <1>5

LEMMA TrailSame ==
  ASSUME trail' = trail, submittedBy' = submittedBy
  PROVE  \A p \in Order, type \in Chain : Passed(p, type) => Passed(p, type)'
BY DEF Passed

LEMMA SameOrders ==
  ASSUME status' = status, submittedBy' = submittedBy, allocated' = allocated,
         reservation' = reservation, task' = task, trail' = trail, shipped' = shipped
  PROVE  /\ \A p \in Order : TrailOK(p) => TrailOK(p)'
         /\ \A p \in Order : HoldOK(p) => HoldOK(p)'
         /\ \A p \in Order : Active(p)' = Active(p) /\ Open(p)' = Open(p)
<1>2. \A p \in Order : Active(p)' = Active(p) /\ Open(p)' = Open(p)
  BY DEF Active, Open
<1>3. ASSUME NEW p \in Order, HoldOK(p) PROVE HoldOK(p)'
  BY <1>2, <1>3 DEF HoldOK
<1>4. ASSUME NEW p \in Order, TrailOK(p) PROVE TrailOK(p)'
  <2>1. \A type : Passed(p, type)' <=> Passed(p, type)
    BY DEF Passed
  <2> QED  BY <1>4, <2>1 DEF TrailOK
<1> QED  BY <1>2, <1>3, <1>4

\* A request in flight has an order, and knows what it has read of it.
LEMMA Remembers ==
  ASSUME TypeOK, NEW r \in Request, call[r].step # "idle"
  PROVE  call[r] \in Call
BY DEF TypeOK, Idle

LEMMA InCall ==
  ASSUME NEW c \in Call
  PROVE  /\ c # Idle /\ c.step # "idle" /\ c.order \in Order /\ c.by \in User /\ c.from \in Status
         /\ c.at \in Warehouse \cup {Nowhere} /\ c.lines \subseteq Nat /\ c.tasks \subseteq Nat
BY DEF Call, Idle

-----------------------------------------------------------------------------
(* What a commit leaves of the other orders and of the other requests.     *)

\* The order moves on by one hand-off that its trail records.
LEMMA TrailStep ==
  ASSUME IInv, NEW o \in Order, NEW e \in Event, NEW to \in Status \ {"NONE"},
         trail' = [trail EXCEPT ![o] = Append(@, e)], submittedBy' = submittedBy,
         status' = [status EXCEPT ![o] = to], shipped' = shipped,
         \A type \in Behind(to) :
             \/ type \in Behind(status[o])
             \/ type = e.type /\ (e.type # "APPROVED" \/ e.by # submittedBy[o])
  PROVE  \A p \in Order : TrailOK(p)'
<1>1. TypeOK /\ \A p \in Order : TrailOK(p)
  BY DEF IInv
<1>2. \A s \in Status : Behind(s) \subseteq Chain
  BY DEF Behind, Chain, Status
<1> SUFFICES ASSUME NEW p \in Order PROVE TrailOK(p)'
  OBVIOUS
<1>3. status[p] \in Status /\ status'[p] = IF p = o THEN to ELSE status[p]
  BY <1>1 DEF TypeOK
<1>4. \A type \in Behind(status'[p]) : Passed(p, type)'
  <2>1. CASE p = o
    <3> SUFFICES ASSUME NEW type \in Behind(to) PROVE Passed(o, type)'
      BY <1>3, <2>1
    <3>1. CASE type \in Behind(status[o])
      BY <1>1, <1>2, <1>3, <2>1, <3>1, TrailGrows DEF TrailOK
    <3>2. CASE type = e.type /\ (e.type # "APPROVED" \/ e.by # submittedBy[o])
      <4>1. Passed(o, e.type)'
        BY <1>1, <3>2, TrailGrows
      <4> QED  BY <3>2, <4>1
    <3> QED  BY <3>1, <3>2
  <2>2. CASE p # o
    BY <1>1, <1>2, <1>3, <2>2, TrailGrows DEF TrailOK
  <2> QED  BY <2>1, <2>2
<1>5. (\E w \in Warehouse : shipped'[p][w] > 0) => \A type \in Chain : Passed(p, type)'
  BY <1>1, TrailGrows DEF TrailOK
<1>6. status'[p] = "NONE" => \A w \in Warehouse : shipped'[p][w] = 0
  BY <1>1, <1>3 DEF TrailOK
<1> QED  BY <1>4, <1>5, <1>6 DEF TrailOK

\* Its reservations stay as they were.
Early == {"NONE", "DRAFT", "SUBMITTED", "APPROVED", "RELEASED"}
Assigned == {"RESERVED", "PROCESSING", "ON_TRACK"}
LEMMA HoldStep ==
  ASSUME IInv, NEW o \in Order, NEW to \in Status,
         status' = [status EXCEPT ![o] = to], reservation' = reservation, allocated' = allocated,
         to \in Early => status[o] \in Early, to \in Assigned => status[o] \in Assigned
  PROVE  \A p \in Order : HoldOK(p)'
<1> SUFFICES ASSUME NEW p \in Order PROVE HoldOK(p)'
  OBVIOUS
<1>1. HoldOK(p) /\ HoldOK(o) /\ status'[p] = IF p = o THEN to ELSE status[p]
  BY DEF IInv, TypeOK
<1>2. Active(p)' = Active(p)
  BY DEF Active
<1> QED  BY <1>1, <1>2 DEF HoldOK, Early, Assigned

\* The request ends; the others are about other orders, or two met.
LEMMA EndStep ==
  ASSUME IInv, NEW r \in Request, NEW o \in Order, call[r] \in Call, call[r].order = o,
         Return(r), crossed' = crossed, submittedBy' = submittedBy,
         status'[o] # "NONE", DOMAIN reservation[o] \subseteq DOMAIN reservation'[o],
         \A p \in Order \ {o} : /\ status'[p] = status[p] /\ task'[p] = task[p]
                                /\ reservation'[p] = reservation[p],
         \A p \in Order, type \in Chain : Passed(p, type) => Passed(p, type)',
         status'[o] = "CANCELLED" /\ o \notin crossed => Open(o)' = {} /\ Active(o)' = {}
  PROVE  /\ \A p \in Order : AloneOK(p)'
         /\ \A q \in Request : CallOK(call[q])'
<1>1. call' = [call EXCEPT ![r] = Idle] /\ call \in [Request -> {Idle} \cup Call]
  BY DEF Return, IInv, TypeOK
<1>2. \A q \in Request : call'[q] = IF q = r THEN Idle ELSE call[q]
  BY <1>1
<1>3. ASSUME NEW q \in Request PROVE CallOK(call[q])'
  <2>1. CASE call'[q] = Idle
    BY <2>1 DEF CallOK
  <2>2. CASE call'[q] # Idle
    <3>1. call'[q] = call[q] /\ call[q] \in Call /\ CallOK(call[q])
      BY <1>1, <1>2, <2>2 DEF IInv
    <3>2. PICK p \in Order : p = call[q].order
      BY <3>1, InCall
    <3>3. status'[p] # "NONE" /\ DOMAIN reservation[p] \subseteq DOMAIN reservation'[p]
      BY <2>2, <3>1, <3>2 DEF CallOK
    <3> QED  BY <2>2, <3>1, <3>2, <3>3 DEF CallOK
  <2> QED  BY <2>1, <2>2
<1>4. ASSUME NEW p \in Order PROVE AloneOK(p)'
  <2> SUFFICES ASSUME p \notin crossed PROVE AloneOK(p)'
    BY DEF AloneOK
  <2>1. AloneOK(p)
    BY DEF IInv
  <2>2. \A q \in Request : About(q, p)' => About(q, p) /\ q # r /\ call'[q] = call[q]
    BY <1>2 DEF About
  <2>3. CASE p = o
    <3>1. About(r, o)
      BY InCall DEF About
    <3>2. \A q \in Request : ~About(q, p)'
      BY <2>1, <2>2, <2>3, <3>1 DEF AloneOK
    <3> QED  BY <2>3, <3>2 DEF AloneOK
  <2>4. CASE p # o
    <3>1. status'[p] = status[p] /\ Active(p)' = Active(p) /\ Open(p)' = Open(p)
      BY <2>4 DEF Active, Open
    <3> QED  BY <2>1, <2>2, <3>1 DEF AloneOK
  <2> QED  BY <2>3, <2>4
<1> QED  BY <1>3, <1>4

-----------------------------------------------------------------------------
(* The handlers' transactions. *)

\* submit, approve, release, reject and dispatch.
LEMMA MoveInv ==
  ASSUME IInv, NEW r \in Request, NEW op \in Op, NEW type, NEW to, Move(r, op, type, to),
         <<op, type, to>> \in {<<"submit", "SUBMITTED", "SUBMITTED">>,
            <<"approve", "APPROVED", "APPROVED">>, <<"release", "RELEASED", "RELEASED">>,
            <<"reject", "REJECTED", "REJECTED">>, <<"dispatch", "ON_TRACK", "ON_TRACK">>},
         UNCHANGED crossed
  PROVE  IInv'
<1>1. TypeOK
  BY DEF IInv
<1>2. call[r] \in Call
  BY <1>1, Remembers DEF Move, Doing
<1>3. PICK c \in Call : c = call[r]
  BY <1>2
<1>4. PICK o \in Order : o = c.order
  BY InCall
<1>5. c.from = status[o] /\ c.from \in ReadIn(op) /\ c.by \in User
      /\ (op = "approve" => c.by # submittedBy[o])
  BY <1>3, <1>4, InCall DEF IInv, CallOK, Move, Doing, Transition
<1> DEFINE e == [type |-> type, from |-> c.from, to |-> to, by |-> c.by]
<1>6. e \in Event /\ to \in Status
  BY <1>5, InCall DEF Event, EventType, Status
<1>7. PICK d \in Event : d = e
  BY <1>6
<1>8. /\ status' = [status EXCEPT ![o] = to] /\ trail' = [trail EXCEPT ![o] = Append(@, d)]
      /\ submittedBy' = submittedBy /\ allocated' = allocated /\ reservation' = reservation
      /\ task' = task /\ stock' = stock /\ shipped' = shipped /\ Return(r)
  BY <1>3, <1>4, <1>7 DEF Move, Record
<1>9. TypeOK'
  BY <1>1, <1>6, <1>8, AppendProperties DEF TypeOK, Return
<1>10. \A p \in Order : TrailOK(p)'
  <2>1. \A t \in Behind(to) :
            \/ t \in Behind(status[o])
            \/ t = d.type /\ (d.type # "APPROVED" \/ d.by # submittedBy[o])
    BY <1>5, <1>7 DEF Behind, ReadIn, Chain
  <2> QED  BY <1>6, <1>8, <2>1, TrailStep
<1>11. \A p \in Order : HoldOK(p)'
  <2>1. (to \in Early => status[o] \in Early) /\ (to \in Assigned => status[o] \in Assigned)
    BY <1>5 DEF ReadIn, Early, Assigned
  <2> QED  BY <1>6, <1>8, <2>1, HoldStep
<1>12. (\A p \in Order : AloneOK(p)') /\ (\A q \in Request : CallOK(call[q])')
  <2>1. \A p \in Order, t \in Chain : Passed(p, t) => Passed(p, t)'
    BY <1>1, <1>8, TrailGrows
  <2>2. status'[o] = to /\ to # "NONE" /\ to # "CANCELLED"
    BY <1>1, <1>8 DEF TypeOK
  <2>3. \A p \in Order \ {o} : status'[p] = status[p]
    BY <1>1, <1>8 DEF TypeOK
  <2> QED  BY <1>3, <1>4, <1>8, <2>1, <2>2, <2>3, EndStep
<1> QED  BY <1>9, <1>10, <1>11, <1>12 DEF IInv

\* assignWarehouse: what was held is free, and one new row is.
LEMMA AssignInv ==
  ASSUME IInv, NEW r \in Request, Assign(r), UNCHANGED crossed
  PROVE  IInv'
<1>1. TypeOK
  BY DEF IInv
<1>2. call[r] \in Call
  BY <1>1, Remembers DEF Assign, Doing
<1>3. PICK c \in Call : c = call[r]
  BY <1>2
<1>4. PICK o \in Order : o = c.order
  BY InCall
<1>5. /\ c.from = status[o] /\ c.from \in {"RELEASED", "RESERVED"}
      /\ c.by \in User /\ c.at \in Warehouse
  BY <1>3, <1>4, InCall DEF IInv, CallOK, Assign, Doing, Transition, ReadIn
<1> DEFINE moved == c.from = "RESERVED"
           freed == IF moved THEN Active(o) ELSE {}
           closed == IF moved THEN Open(o) ELSE {}
           rows == Marked(reservation[o], freed, "RELEASED")
           new == [at |-> c.at, state |-> "ACTIVE"]
           tasks == Set(task[o], closed, "CANCELLED")
           e == [type |-> IF moved THEN "REASSIGNED" ELSE "ASSIGNED", from |-> c.from,
                 to |-> "RESERVED", by |-> c.by]
<1>6. e \in Event /\ new \in Hold
  BY <1>5, InCall DEF Event, EventType, Status, Hold
<1>7. PICK d \in Event : d = e
  BY <1>6
<1>8. /\ status' = [status EXCEPT ![o] = "RESERVED"]
      /\ allocated' = [allocated EXCEPT ![o] = c.at]
      /\ reservation' = [reservation EXCEPT ![o] = Append(rows, new)]
      /\ task' = [task EXCEPT ![o] = Append(tasks, "TODO")]
      /\ trail' = [trail EXCEPT ![o] = Append(@, d)]
      /\ submittedBy' = submittedBy /\ stock' = stock /\ shipped' = shipped /\ Return(r)
  BY <1>3, <1>4, <1>7 DEF Assign, Record
<1>9. /\ rows \in Seq(Hold) /\ Len(rows) = Len(reservation[o])
      /\ DOMAIN rows = DOMAIN reservation[o]
      /\ \A i \in DOMAIN rows :
            IF i \in freed THEN rows[i].state = "RELEASED" ELSE rows[i] = reservation[o][i]
  <2>1. reservation[o] \in Seq(Hold)
    BY <1>1 DEF TypeOK
  <2> HIDE DEF freed
  <2> QED  BY <2>1, MarkedSeq
<1>10. tasks \in Seq(TaskState)
  BY <1>1, SetSeq DEF TypeOK, TaskState
<1>11. TypeOK'
  <2>1. Append(rows, new) \in Seq(Hold) /\ Append(tasks, "TODO") \in Seq(TaskState)
        /\ Append(trail[o], d) \in Seq(Event)
    BY <1>1, <1>6, <1>9, <1>10, AppendProperties DEF TypeOK, TaskState
  <2> HIDE DEF rows, new, tasks
  <2> QED  BY <1>1, <1>5, <1>8, <2>1 DEF TypeOK, Return, Status
<1>12. \A p \in Order : TrailOK(p)'
  <2>1. \A t \in Behind("RESERVED") :
            \/ t \in Behind(status[o])
            \/ t = d.type /\ (d.type # "APPROVED" \/ d.by # submittedBy[o])
    BY <1>5, <1>7 DEF Behind, Chain
  <2> QED  BY <1>8, <2>1, TrailStep DEF Status
<1>13. ASSUME NEW p \in Order PROVE HoldOK(p)'
  <2>1. CASE p = o
    <3> DEFINE n == Len(reservation[o]) + 1
    <3>1. reservation'[o] = Append(rows, new) /\ allocated'[o] = c.at /\ status'[o] = "RESERVED"
      BY <1>1, <1>8 DEF TypeOK
    <3>2. /\ DOMAIN reservation'[o] = DOMAIN rows \cup {n} /\ n \notin DOMAIN rows
          /\ reservation'[o][n] = new
          /\ \A i \in DOMAIN rows : reservation'[o][i] = rows[i]
      <4> HIDE DEF rows, new
      <4> QED  BY <1>6, <1>9, <3>1, AppendProperties, LenProperties
    <3>3. \A i \in DOMAIN rows : rows[i].state # "ACTIVE"
      <4> SUFFICES ASSUME NEW i \in DOMAIN reservation[o] PROVE rows[i].state # "ACTIVE"
        BY <1>9
      <4>1. reservation[o][i] \in Hold
        BY <1>1, ElementOfSeq, LenProperties DEF TypeOK
      <4>2. CASE moved
        BY <1>9, <4>1, <4>2 DEF Active, Hold
      <4>3. CASE ~moved
        <5>1. Active(o) = {}
          BY <1>5, <4>3 DEF IInv, HoldOK
        <5> QED  BY <1>9, <4>3, <5>1 DEF Active
      <4> QED  BY <4>2, <4>3
    <3>4. Active(o)' = {n}
      <4>1. new.state = "ACTIVE"
        OBVIOUS
      <4> HIDE DEF rows, new, n
      <4> QED  BY <3>2, <3>3, <4>1 DEF Active
    <3> QED  BY <2>1, <3>1, <3>2, <3>4 DEF HoldOK
  <2>2. CASE p # o
    <3>1. status'[p] = status[p] /\ reservation'[p] = reservation[p] /\ allocated'[p] = allocated[p]
      BY <1>1, <1>8, <2>2 DEF TypeOK
    <3> QED  BY <3>1 DEF IInv, HoldOK, Active
  <2> QED  BY <2>1, <2>2
<1>14. (\A p \in Order : AloneOK(p)') /\ (\A q \in Request : CallOK(call[q])')
  <2>1. \A p \in Order, t \in Chain : Passed(p, t) => Passed(p, t)'
    BY <1>1, <1>8, TrailGrows
  <2>2. status'[o] = "RESERVED"
    BY <1>1, <1>8 DEF TypeOK
  <2>3. \A p \in Order \ {o} : /\ status'[p] = status[p] /\ task'[p] = task[p]
                               /\ reservation'[p] = reservation[p]
    BY <1>1, <1>8 DEF TypeOK
  <2>4. DOMAIN reservation[o] \subseteq DOMAIN reservation'[o]
    <3>1. reservation'[o] = Append(rows, new)
      BY <1>1, <1>8 DEF TypeOK
    <3> HIDE DEF rows, new
    <3> QED  BY <1>6, <1>9, <3>1, AppendProperties, LenProperties
  <2> QED  BY <1>3, <1>4, <1>8, <2>1, <2>2, <2>3, <2>4, EndStep
<1> QED  BY <1>11, <1>12, <1>13, <1>14 DEF IInv

\* startProcessing: tasks are taken up.
LEMMA StartInv ==
  ASSUME IInv, NEW r \in Request, Start(r), UNCHANGED crossed
  PROVE  IInv'
<1>1. TypeOK
  BY DEF IInv
<1>2. call[r] \in Call
  BY <1>1, Remembers DEF Start, Doing
<1>3. PICK c \in Call : c = call[r]
  BY <1>2
<1>4. PICK o \in Order : o = c.order
  BY InCall
<1>5. c.from = status[o] /\ c.from = "RESERVED" /\ c.by \in User
  BY <1>3, <1>4, InCall DEF IInv, CallOK, Start, Doing, Transition, ReadIn
<1> DEFINE waiting == {i \in DOMAIN task[o] : task[o][i] = "TODO"}
           tasks == Set(task[o], waiting, "IN_PROGRESS")
           e == [type |-> "PROCESSING", from |-> c.from, to |-> "PROCESSING", by |-> c.by]
<1>6. e \in Event
  BY <1>5, InCall DEF Event, EventType, Status
<1>7. PICK d \in Event : d = e
  BY <1>6
<1>8. /\ status' = [status EXCEPT ![o] = "PROCESSING"]
      /\ task' = [task EXCEPT ![o] = tasks] /\ trail' = [trail EXCEPT ![o] = Append(@, d)]
      /\ submittedBy' = submittedBy /\ allocated' = allocated /\ reservation' = reservation
      /\ stock' = stock /\ shipped' = shipped /\ Return(r)
  BY <1>3, <1>4, <1>7 DEF Start, Record
<1>9. TypeOK'
  <2>1. tasks \in Seq(TaskState) /\ Append(trail[o], d) \in Seq(Event)
    BY <1>1, SetSeq, AppendProperties DEF TypeOK, TaskState
  <2> HIDE DEF tasks
  <2> QED  BY <1>1, <1>8, <2>1 DEF TypeOK, Return, Status
<1>10. \A p \in Order : TrailOK(p)'
  <2>1. \A t \in Behind("PROCESSING") :
            \/ t \in Behind(status[o])
            \/ t = d.type /\ (d.type # "APPROVED" \/ d.by # submittedBy[o])
    BY <1>5, <1>7 DEF Behind, Chain
  <2> QED  BY <1>8, <2>1, TrailStep DEF Status
<1>11. \A p \in Order : HoldOK(p)'
  <2>1. "PROCESSING" \notin Early /\ status[o] \in Assigned
    BY <1>5 DEF Early, Assigned
  <2> QED  BY <1>8, <2>1, HoldStep DEF Status
<1>12. (\A p \in Order : AloneOK(p)') /\ (\A q \in Request : CallOK(call[q])')
  <2>1. \A p \in Order, t \in Chain : Passed(p, t) => Passed(p, t)'
    BY <1>1, <1>8, TrailGrows
  <2>2. status'[o] = "PROCESSING"
    BY <1>1, <1>8 DEF TypeOK
  <2>3. \A p \in Order \ {o} : status'[p] = status[p] /\ task'[p] = task[p]
    BY <1>1, <1>8 DEF TypeOK
  <2> QED  BY <1>3, <1>4, <1>8, <2>1, <2>2, <2>3, EndStep
<1> QED  BY <1>9, <1>10, <1>11, <1>12 DEF IInv

\* fulfill: whatever has become of the order, everybody had passed it on when
\* it was read, so what leaves may leave.
LEMMA FulfilInv ==
  ASSUME IInv, NEW r \in Request, Fulfil(r), UNCHANGED crossed
  PROVE  IInv'
<1>1. TypeOK
  BY DEF IInv
<1>2. call[r] \in Call
  BY <1>1, Remembers DEF Fulfil, Doing
<1>3. PICK c \in Call : c = call[r]
  BY <1>2
<1>4. PICK o \in Order : o = c.order
  BY InCall
<1>5. /\ c.by \in User /\ c.at \in Warehouse /\ c.lines \subseteq DOMAIN reservation[o]
      /\ \A type \in Chain : Passed(o, type)
  BY <1>3, <1>4, InCall DEF IInv, CallOK, Fulfil, Doing
<1> DEFINE n == Bags[o] * Cardinality(c.lines)
           unfinished == {i \in DOMAIN task[o] : task[o][i] \in OpenTask \cup HandedIn}
           rows == Marked(reservation[o], c.lines, "CONSUMED")
           tasks == Set(task[o], unfinished, "COMPLETED")
           e == [type |-> "DELIVERED", from |-> "ON_TRACK", to |-> "FULFILLED", by |-> c.by]
<1>6. e \in Event
  BY <1>5, InCall DEF Event, EventType, Status
<1>7. PICK d \in Event : d = e
  BY <1>6
<1>8. /\ status' = [status EXCEPT ![o] = "FULFILLED"]
      /\ reservation' = [reservation EXCEPT ![o] = rows] /\ task' = [task EXCEPT ![o] = tasks]
      /\ trail' = [trail EXCEPT ![o] = Append(@, d)]
      /\ stock[c.at] >= n /\ stock' = [stock EXCEPT ![c.at] = @ - n]
      /\ shipped' = [shipped EXCEPT ![o][c.at] = @ + n]
      /\ submittedBy' = submittedBy /\ allocated' = allocated /\ Return(r)
  BY <1>3, <1>4, <1>7 DEF Fulfil, Record, InStock
<1>9. rows \in Seq(Hold) /\ DOMAIN rows = DOMAIN reservation[o]
  <2>1. reservation[o] \in Seq(Hold)
    BY <1>1 DEF TypeOK
  <2> QED  BY <2>1, MarkedSeq
<1>10. n \in Nat
  <2>1. DOMAIN reservation[o] = 1 .. Len(reservation[o]) /\ Len(reservation[o]) \in Nat
    BY <1>1, LenProperties DEF TypeOK
  <2>2. IsFiniteSet(1 .. Len(reservation[o]))
    BY <2>1, FS_Interval
  <2>3. Cardinality(c.lines) \in Nat
    BY <1>5, <2>1, <2>2, FS_Subset, FS_CardinalityType
  <2>4. \A a, b \in Nat : a * b \in Nat
    OBVIOUS
  <2> QED  BY <2>3, <2>4
<1>11. TypeOK'
  <2>1. tasks \in Seq(TaskState) /\ Append(trail[o], d) \in Seq(Event)
    BY <1>1, SetSeq, AppendProperties DEF TypeOK, TaskState
  <2> HIDE DEF tasks, rows, n
  <2>2. stock' \in [Warehouse -> Nat]
    BY <1>1, <1>5, <1>8, <1>10 DEF TypeOK
  <2>3. shipped' \in [Order -> [Warehouse -> Nat]]
    <3>1. shipped[o] \in [Warehouse -> Nat] /\ shipped[o][c.at] + n \in Nat
      BY <1>1, <1>5, <1>10 DEF TypeOK
    <3>2. [shipped[o] EXCEPT ![c.at] = shipped[o][c.at] + n] \in [Warehouse -> Nat]
      BY <3>1
    <3> QED  BY <1>1, <1>8, <3>2 DEF TypeOK
  <2> QED  BY <1>1, <1>8, <1>9, <2>1, <2>2, <2>3 DEF TypeOK, Return, Status
<1>12. \A p \in Order, t \in Chain : Passed(p, t) => Passed(p, t)'
  BY <1>1, <1>8, TrailGrows
<1>13. status'[o] = "FULFILLED"
       /\ \A p \in Order : p # o => /\ status'[p] = status[p] /\ task'[p] = task[p]
                                    /\ reservation'[p] = reservation[p] /\ shipped'[p] = shipped[p]
  BY <1>1, <1>8 DEF TypeOK
<1>14. ASSUME NEW p \in Order PROVE TrailOK(p)' /\ HoldOK(p)'
  <2>1. CASE p = o
    <3>1. Behind("FULFILLED") = {}
      BY DEF Behind
    <3> QED  BY <1>5, <1>12, <1>13, <2>1, <3>1 DEF TrailOK, HoldOK
  <2>2. CASE p # o
    <3>1. TrailOK(p) /\ HoldOK(p) /\ status'[p] = status[p] /\ status[p] \in Status
      BY <1>1, <1>13, <2>2 DEF IInv, TypeOK
    <3>2. Behind(status[p]) \subseteq Chain
      BY <3>1 DEF Behind, Chain, Status
    <3>3. Active(p)' = Active(p)
      BY <1>13, <2>2 DEF Active
    <3>4. TrailOK(p)'
      BY <1>12, <1>13, <2>2, <3>1, <3>2 DEF TrailOK
    <3>5. HoldOK(p)'
      BY <1>8, <1>13, <2>2, <3>1, <3>3 DEF HoldOK
    <3> QED  BY <3>4, <3>5
  <2> QED  BY <2>1, <2>2
<1>15. (\A p \in Order : AloneOK(p)') /\ (\A q \in Request : CallOK(call[q])')
  <2>1. DOMAIN reservation[o] \subseteq DOMAIN reservation'[o]
    <3> HIDE DEF rows
    <3> QED  BY <1>1, <1>8, <1>9 DEF TypeOK
  <2> QED  BY <1>3, <1>4, <1>8, <1>12, <1>13, <2>1, EndStep
<1> QED  BY <1>11, <1>14, <1>15 DEF IInv

\* cancel: without a race it has taken every hold and every open task.
LEMMA CancelInv ==
  ASSUME IInv, NEW r \in Request, Cancel(r), UNCHANGED crossed
  PROVE  IInv'
<1>1. TypeOK
  BY DEF IInv
<1>2. call[r] \in Call
  BY <1>1, Remembers DEF Cancel, Doing
<1>3. PICK c \in Call : c = call[r]
  BY <1>2
<1>4. PICK o \in Order : o = c.order
  BY InCall
<1> DEFINE rows == Marked(reservation[o], c.lines, "RELEASED")
           tasks == Set(task[o], c.tasks, "CANCELLED")
           e == [type |-> "CANCELLED", from |-> c.from, to |-> "CANCELLED", by |-> c.by]
<1>5. e \in Event
  BY InCall DEF Event, EventType, Status
<1>6. PICK d \in Event : d = e
  BY <1>5
<1>7. /\ status' = [status EXCEPT ![o] = "CANCELLED"]
      /\ reservation' = [reservation EXCEPT ![o] = rows] /\ task' = [task EXCEPT ![o] = tasks]
      /\ trail' = [trail EXCEPT ![o] = Append(@, d)]
      /\ submittedBy' = submittedBy /\ allocated' = allocated /\ stock' = stock
      /\ shipped' = shipped /\ Return(r)
  BY <1>3, <1>4, <1>6 DEF Cancel, Record
<1>8. reservation[o] \in Seq(Hold) /\ task[o] \in Seq(TaskState)
  BY <1>1 DEF TypeOK
<1>9. /\ rows \in Seq(Hold) /\ DOMAIN rows = DOMAIN reservation[o]
      /\ \A i \in DOMAIN rows :
            IF i \in c.lines THEN rows[i].state = "RELEASED" ELSE rows[i] = reservation[o][i]
  BY <1>8, MarkedSeq
<1>10. /\ tasks \in Seq(TaskState) /\ DOMAIN tasks = DOMAIN task[o]
       /\ \A i \in DOMAIN tasks : tasks[i] = IF i \in c.tasks THEN "CANCELLED" ELSE task[o][i]
  BY <1>8, SetSeq DEF TaskState
<1>11. TypeOK'
  <2>1. Append(trail[o], d) \in Seq(Event)
    BY <1>1, AppendProperties DEF TypeOK
  <2> HIDE DEF tasks, rows
  <2> QED  BY <1>1, <1>7, <1>9, <1>10, <2>1 DEF TypeOK, Return, Status
<1>12. \A p \in Order : TrailOK(p)'
  <2>1. Behind("CANCELLED") = {}
    BY DEF Behind
  <2> QED  BY <1>7, <2>1, TrailStep DEF Status
<1>13. /\ status'[o] = "CANCELLED" /\ reservation'[o] = rows /\ task'[o] = tasks
       /\ \A p \in Order : p # o => /\ status'[p] = status[p] /\ task'[p] = task[p]
                                    /\ reservation'[p] = reservation[p]
  <2> HIDE DEF tasks, rows
  <2> QED  BY <1>1, <1>7 DEF TypeOK
<1>14. ASSUME NEW p \in Order PROVE HoldOK(p)'
  <2>1. CASE p = o
    BY <1>13, <2>1 DEF HoldOK
  <2>2. CASE p # o
    BY <1>7, <1>13, <2>2 DEF IInv, HoldOK, Active
  <2> QED  BY <2>1, <2>2
<1>15. ASSUME o \notin crossed PROVE Open(o)' = {} /\ Active(o)' = {}
  <2>1. c.lines = Active(o) /\ c.tasks = Open(o)
    <3>1. AloneOK(o) /\ About(r, o) /\ c.op = "cancel" /\ c.step = "closed"
      BY <1>3, <1>4, InCall DEF IInv, About, Cancel, Doing
    <3> QED  BY <1>3, <1>15, <3>1 DEF AloneOK
  <2> HIDE DEF tasks, rows
  <2>2. Active(o)' = {}
    <3>1. \A i \in DOMAIN rows : rows[i].state # "ACTIVE"
      BY <1>9, <2>1 DEF Active
    <3> QED  BY <1>13, <3>1 DEF Active
  <2>3. Open(o)' = {}
    BY <1>10, <1>13, <2>1 DEF Open, OpenTask
  <2> QED  BY <2>2, <2>3
<1>16. (\A p \in Order : AloneOK(p)') /\ (\A q \in Request : CallOK(call[q])')
  <2>1. \A p \in Order, t \in Chain : Passed(p, t) => Passed(p, t)'
    BY <1>1, <1>7, TrailGrows
  <2>2. DOMAIN reservation[o] \subseteq DOMAIN reservation'[o] /\ status'[o] # "NONE"
    BY <1>9, <1>13
  <2>3. status'[o] = "CANCELLED" /\ o \notin crossed => Open(o)' = {} /\ Active(o)' = {}
    BY <1>15
  <2> QED  BY <1>3, <1>4, <1>7, <1>13, <2>1, <2>2, <2>3, EndStep
<1> QED  BY <1>11, <1>12, <1>14, <1>16 DEF IInv

\* A request that fails changes no order.
LEMMA FailInv ==
  ASSUME IInv, NEW r \in Request, Fail(r), UNCHANGED crossed
  PROVE  IInv'
<1>1. call[r] \in Call /\ TypeOK
  BY DEF IInv, TypeOK, Fail
<1>2. PICK o \in Order : o = call[r].order
  BY <1>1, InCall
<1>3. UNCHANGED <<orders, stock, shipped, crossed>> /\ Return(r)
  BY DEF Fail
<1>4. TypeOK'
  BY <1>1, <1>3 DEF TypeOK, Return, orders
<1>5. \A p \in Order : TrailOK(p)' /\ HoldOK(p)'
  <2>1. /\ status' = status /\ submittedBy' = submittedBy /\ allocated' = allocated
        /\ reservation' = reservation /\ task' = task /\ trail' = trail /\ shipped' = shipped
    BY <1>3 DEF orders
  <2> QED  BY <2>1, SameOrders DEF IInv
<1>6. (\A p \in Order : AloneOK(p)') /\ (\A q \in Request : CallOK(call[q])')
  <2>1. \A p \in Order, t \in Chain : Passed(p, t) => Passed(p, t)'
    BY <1>3, TrailSame DEF orders
  <2>2. status[o] # "NONE"
    BY <1>1, <1>2, InCall DEF IInv, CallOK
  <2>3. AloneOK(o) /\ About(r, o)
    BY <1>1, <1>2, InCall DEF IInv, About
  <2>4. status'[o] = "CANCELLED" /\ o \notin crossed => Open(o)' = {} /\ Active(o)' = {}
    BY <1>3, <2>3 DEF orders, AloneOK, Open, Active
  <2> QED  BY <1>1, <1>2, <1>3, <2>1, <2>2, <2>4, EndStep DEF orders
<1> QED  BY <1>4, <1>5, <1>6 DEF IInv

-----------------------------------------------------------------------------
(* The steps before them. *)

\* A request reads on, or takes rows that it will change when it commits.
LEMMA ReadInv ==
  ASSUME IInv, NEW r \in Request, NEW d \in Call, call[r] \in Call,
         call' = [call EXCEPT ![r] = d], UNCHANGED <<orders, stock, shipped, crossed>>,
         d.op = call[r].op, d.order = call[r].order, d.from = call[r].from,
         d.by = call[r].by, d.at = call[r].at, d.op # "cancel" => d.lines = call[r].lines,
         d.op = "cancel" /\ d.order \notin crossed =>
             /\ d.step \in {"freed", "closed"} => d.lines = Active(d.order)
             /\ d.step = "closed" => d.tasks = Open(d.order)
  PROVE  IInv'
<1>1. TypeOK /\ call \in [Request -> {Idle} \cup Call]
  BY DEF IInv, TypeOK
<1>2. TypeOK'
  BY <1>1 DEF TypeOK, orders
<1>3. \A q \in Request : call'[q] = IF q = r THEN d ELSE call[q]
  BY <1>1
<1> /\ status' = status /\ submittedBy' = submittedBy /\ allocated' = allocated
    /\ reservation' = reservation /\ task' = task /\ trail' = trail /\ shipped' = shipped
  BY DEF orders
<1>4. \A p \in Order : TrailOK(p)' /\ HoldOK(p)'
  BY SameOrders DEF IInv
<1>5. ASSUME NEW q \in Request PROVE CallOK(call[q])'
  <2>1. \A p \in Order, t \in Chain : Passed(p, t) => Passed(p, t)'
    BY TrailSame DEF orders
  <2>2. CallOK(call[q]) /\ CallOK(call[r]) /\ call[r] # Idle /\ call[r].order \in Order
    BY InCall DEF IInv
  <2>3. CASE q = r
    <3>1. call'[q] = d /\ d # Idle
      BY <1>3, <2>3, InCall
    <3>2. PICK p \in Order : p = d.order
      BY InCall
    <3>3. /\ status[p] # "NONE" /\ d.from \in ReadIn(d.op)
          /\ d.op = "approve" => d.by # submittedBy[p]
          /\ d.op \in {"assign", "fulfill"} => d.at # Nowhere
          /\ d.op = "fulfill" => /\ d.lines \subseteq DOMAIN reservation[p]
                                 /\ \A type \in Chain : Passed(p, type)
      BY <2>2, <3>2 DEF CallOK
    <3> QED  BY <2>1, <3>1, <3>2, <3>3 DEF CallOK, orders
  <2>4. CASE q # r
    <3>1. CASE call[q] = Idle
      BY <1>3, <2>4, <3>1 DEF CallOK
    <3>2. CASE call[q] # Idle
      <4>1. call[q] \in Call /\ call'[q] = call[q]
        BY <1>1, <1>3, <2>4, <3>2
      <4>2. PICK p \in Order : p = call[q].order
        BY <4>1, InCall
      <4> QED  BY <2>1, <2>2, <3>2, <4>1, <4>2 DEF CallOK, orders
    <3> QED  BY <3>1, <3>2
  <2> QED  BY <2>3, <2>4
<1>6. ASSUME NEW p \in Order PROVE AloneOK(p)'
  <2>1. AloneOK(p)
    BY DEF IInv
  <2>2. \A q \in Request : About(q, p)' <=> About(q, p)
    BY <1>3, InCall DEF About
  <2>3. Active(p)' = Active(p) /\ Open(p)' = Open(p) /\ status' = status /\ crossed' = crossed
    BY SameOrders DEF orders
  <2>4. ASSUME p \notin crossed, NEW q \in Request, About(q, p)
        PROVE /\ status[p] = call'[q].from
              /\ call'[q].op = "cancel" =>
                    /\ call'[q].step \in {"freed", "closed"} => call'[q].lines = Active(p)
                    /\ call'[q].step = "closed" => call'[q].tasks = Open(p)
    <3>1. CASE q = r
      BY <1>3, <2>1, <2>4, <3>1 DEF AloneOK, About
    <3>2. CASE q # r
      BY <1>3, <2>1, <2>4, <3>2 DEF AloneOK
    <3> QED  BY <3>1, <3>2
  <2> QED  BY <2>1, <2>2, <2>3, <2>4 DEF AloneOK
<1> QED  BY <1>2, <1>4, <1>5, <1>6 DEF IInv

LEMMA CallExcept ==
  ASSUME NEW c \in Call, NEW step \in {"counted", "checked", "freed", "closed"}
  PROVE  /\ \A have \in Int : [c EXCEPT !.step = step, !.have = have] \in Call
         /\ \A S \in SUBSET Nat : /\ [c EXCEPT !.step = step, !.lines = S] \in Call
                                  /\ [c EXCEPT !.step = step, !.tasks = S] \in Call
BY Zenon DEF Call

LEMMA CountStockInv ==
  ASSUME IInv, NEW r \in Request, CountStock(r), UNCHANGED crossed
  PROVE  IInv'
<1>1. TypeOK /\ call[r] \in Call
  BY Remembers DEF IInv, CountStock, Doing
<1>2. call[r].at \in Warehouse
  BY <1>1, InCall DEF IInv, CallOK, CountStock, Doing
<1> DEFINE d == [call[r] EXCEPT !.step = "counted", !.have = stock[call[r].at]]
<1>3. stock[call[r].at] \in Int
  BY <1>1, <1>2 DEF TypeOK
<1>4. d \in Call /\ call' = [call EXCEPT ![r] = d]
  BY <1>1, <1>3, CallExcept DEF CountStock
<1>5. PICK e \in Call : e = d
  BY <1>4
<1>6. /\ e.op = call[r].op /\ e.order = call[r].order /\ e.from = call[r].from /\ e.by = call[r].by
      /\ e.at = call[r].at /\ e.lines = call[r].lines /\ e.op = "assign"
  BY <1>1, <1>5 DEF Call, CountStock, Doing
<1> QED  BY <1>1, <1>4, <1>5, <1>6, ReadInv DEF CountStock

LEMMA CheckStockInv ==
  ASSUME IInv, NEW r \in Request, CheckStock(r), UNCHANGED crossed
  PROVE  IInv'
<1>1. TypeOK /\ call[r] \in Call
  BY Remembers DEF IInv, CheckStock, Doing
<1> DEFINE d == [call[r] EXCEPT !.step = "checked"]
<1>2. d \in Call /\ call' = [call EXCEPT ![r] = d]
  BY <1>1 DEF Call, CheckStock
<1>3. PICK e \in Call : e = d
  BY <1>2
<1>4. /\ e.op = call[r].op /\ e.order = call[r].order /\ e.from = call[r].from /\ e.by = call[r].by
      /\ e.at = call[r].at /\ e.lines = call[r].lines /\ e.op = "assign"
  BY <1>1, <1>3 DEF Call, CheckStock, Doing
<1> QED  BY <1>1, <1>2, <1>3, <1>4, ReadInv DEF CheckStock

LEMMA FreeHoldsInv ==
  ASSUME IInv, NEW r \in Request, FreeHolds(r), UNCHANGED crossed
  PROVE  IInv'
<1>1. TypeOK /\ call[r] \in Call /\ call[r].order \in Order
  BY Remembers, InCall DEF IInv, FreeHolds, Doing
<1> DEFINE d == [call[r] EXCEPT !.step = "freed", !.lines = Active(call[r].order)]
<1>2. Active(call[r].order) \subseteq Nat
  BY <1>1, LenProperties DEF TypeOK, Active
<1>3. d \in Call /\ call' = [call EXCEPT ![r] = d]
  BY <1>1, <1>2, CallExcept, "freed" \in {"counted", "checked", "freed", "closed"} DEF FreeHolds
<1>4. PICK e \in Call : e = d
  BY <1>3
<1>5. /\ e.op = call[r].op /\ e.order = call[r].order /\ e.from = call[r].from /\ e.by = call[r].by
      /\ e.at = call[r].at /\ e.op = "cancel" /\ e.step = "freed" /\ e.lines = Active(e.order)
  BY <1>1, <1>4 DEF Call, FreeHolds, Doing
<1> QED  BY <1>1, <1>3, <1>4, <1>5, ReadInv DEF FreeHolds

\* The holds it took are still those that are active: no one else was there.
LEMMA CloseTasksInv ==
  ASSUME IInv, NEW r \in Request, CloseTasks(r), UNCHANGED crossed
  PROVE  IInv'
<1>1. TypeOK /\ call[r] \in Call /\ call[r].order \in Order
  BY Remembers, InCall DEF IInv, CloseTasks, Doing
<1> DEFINE d == [call[r] EXCEPT !.step = "closed", !.tasks = Open(call[r].order)]
<1>2. PICK o \in Order : o = call[r].order
  BY <1>1
<1>3. Open(o) \in SUBSET Nat
  BY LenProperties, <1>1 DEF TypeOK, Open
<1>4. d \in Call /\ call' = [call EXCEPT ![r] = d]
  BY <1>1, <1>2, <1>3, CallExcept DEF CloseTasks
<1>5. PICK e \in Call : e = d
  BY <1>4
<1>6. /\ e.op = call[r].op /\ e.order = call[r].order /\ e.from = call[r].from /\ e.by = call[r].by
      /\ e.at = call[r].at /\ e.op = "cancel" /\ e.step = "closed" /\ e.lines = call[r].lines
      /\ e.tasks = Open(o)
  BY <1>1, <1>2, <1>5 DEF Call, CloseTasks, Doing
<1>7. o \notin crossed => call[r].lines = Active(o)
  <2>1. AloneOK(o) /\ About(r, o)
    BY <1>1, <1>2, InCall DEF IInv, About
  <2> QED  BY <2>1 DEF AloneOK, CloseTasks, Doing
<1>8. e.op = "cancel" /\ e.order \notin crossed => e.lines = Active(e.order) /\ e.tasks = Open(e.order)
  BY <1>2, <1>6, <1>7
<1>9. call' = [call EXCEPT ![r] = e]
  BY <1>4, <1>5
<1> HIDE DEF d
<1> QED  BY <1>1, <1>6, <1>8, <1>9, ReadInv DEF CloseTasks

\* Who opens a request has read the order; two about one order have crossed.
LEMMA BeginInv ==
  ASSUME IInv, NEW r \in Request, NEW op \in Op, NEW u \in User, NEW o \in Order,
         NEW w \in Warehouse \cup {Nowhere}, Begin(r, op, u, o, w)
  PROVE  IInv'
<1>1. TypeOK /\ TrailOK(o) /\ AloneOK(o) /\ status[o] \in Status
  BY DEF IInv, TypeOK
<1> DEFINE d == [step |-> "read", op |-> op, by |-> u, order |-> o, from |-> status[o],
                 at |-> IF op = "assign" THEN w ELSE allocated[o],
                 lines |-> IF op = "fulfill" THEN Active(o) ELSE {},
                 tasks |-> {}, have |-> 0]
<1>2. d \in Call
  <2>1. Active(o) \subseteq Nat
    BY <1>1, LenProperties DEF TypeOK, Active
  <2>2. (IF op = "assign" THEN w ELSE allocated[o]) \in Warehouse \cup {Nowhere}
    BY <1>1 DEF TypeOK
  <2> QED  BY <1>1, <2>1, <2>2 DEF Call
<1>3. PICK e \in Call : e = d
  BY <1>2
<1>4. /\ e.op = op /\ e.order = o /\ e.from = status[o] /\ e.by = u /\ e.step = "read"
      /\ e.at = (IF op = "assign" THEN w ELSE allocated[o])
      /\ e.lines = (IF op = "fulfill" THEN Active(o) ELSE {})
  BY <1>3
<1>5. call' = [call EXCEPT ![r] = e] /\ UNCHANGED <<orders, stock, shipped>> /\ call[r] = Idle
      /\ crossed' = IF \E q \in Request : About(q, o) THEN crossed \cup {o} ELSE crossed
  BY <1>3 DEF Begin, About
<1>6. \A q \in Request : call'[q] = IF q = r THEN e ELSE call[q]
  BY <1>1, <1>5 DEF TypeOK
<1>7. TypeOK'
  BY <1>1, <1>5 DEF TypeOK, orders
<1> /\ status' = status /\ submittedBy' = submittedBy /\ allocated' = allocated
    /\ reservation' = reservation /\ task' = task /\ trail' = trail /\ shipped' = shipped
  BY <1>5 DEF orders
<1>8. \A p \in Order : TrailOK(p)' /\ HoldOK(p)'
  BY SameOrders DEF IInv
<1>9. \A p \in Order, t \in Chain : Passed(p, t) => Passed(p, t)'
  BY TrailSame
<1>10. CallOK(e)'
  <2>1. /\ status[o] \in ReadIn(op)
        /\ op = "approve" => u # submittedBy[o]
        /\ op = "fulfill" => allocated[o] # Nowhere
        /\ op = "assign" => w # Nowhere
    BY DEF Begin, MayAsk, MaySubmit, MayApprove, MayRelease, MayReject, MayAssign, MayStart,
           MayDispatch, MayFulfil, MayCancel, ReadIn
  <2>2. status[o] # "NONE"
    BY <2>1 DEF ReadIn, Op, Cancellable
  <2>3. op = "fulfill" => \A t \in Chain : Passed(o, t)
    <3>1. op = "fulfill" => status[o] = "ON_TRACK"
      BY <2>1 DEF ReadIn
    <3> QED  BY <1>1, <3>1 DEF TrailOK, Behind
  <2>4. op = "fulfill" => Active(o) \subseteq DOMAIN reservation[o]
    BY DEF Active
  <2> QED  BY <1>4, <1>9, <2>1, <2>2, <2>3, <2>4 DEF CallOK
<1>11. ASSUME NEW q \in Request PROVE CallOK(call[q])'
  <2>1. CASE q = r
    BY <1>6, <1>10, <2>1
  <2>2. CASE q # r
    <3>1. call'[q] = call[q] /\ CallOK(call[q])
      BY <1>6, <2>2 DEF IInv
    <3>2. CASE call[q] = Idle
      BY <3>1, <3>2 DEF CallOK
    <3>3. CASE call[q] # Idle
      <4>1. call[q] \in Call
        BY <1>1, <3>3 DEF TypeOK
      <4>2. PICK p \in Order : p = call[q].order
        BY <4>1, InCall
      <4> QED  BY <1>9, <3>1, <3>3, <4>2 DEF CallOK
    <3> QED  BY <3>2, <3>3
  <2> QED  BY <2>1, <2>2
<1>12. ASSUME NEW p \in Order PROVE AloneOK(p)'
  <2> SUFFICES ASSUME p \notin crossed' PROVE AloneOK(p)'
    BY DEF AloneOK
  <2>1. AloneOK(p) /\ p \notin crossed
    BY <1>5 DEF IInv
  <2>2. Active(p)' = Active(p) /\ Open(p)' = Open(p)
    BY SameOrders
  <2>3. \A q \in Request : q # r => (About(q, p)' <=> About(q, p)) /\ call'[q] = call[q]
    BY <1>6 DEF About
  <2>4. CASE p = o
    <3>1. \A q \in Request : ~About(q, o)
      BY <1>5, <2>4
    <3>2. \A q \in Request : About(q, o)' => q = r
      BY <2>3, <2>4, <3>1
    <3>3. call'[r] = e
      BY <1>6
    <3> QED  BY <1>4, <2>1, <2>2, <2>4, <3>2, <3>3 DEF AloneOK
  <2>5. CASE p # o
    <3>1. ~About(r, p)'
      BY <1>4, <1>6, <2>5 DEF About
    <3> QED  BY <2>1, <2>2, <2>3, <3>1 DEF AloneOK
  <2> QED  BY <2>4, <2>5
<1> QED  BY <1>7, <1>8, <1>11, <1>12 DEF IInv

-----------------------------------------------------------------------------
(* Steps that need no request in flight. *)

\* create: the row is new, and no request can be about it yet.
LEMMA CreateInv ==
  ASSUME IInv, NEW o \in Order, NEW u \in User, Create(o, u), UNCHANGED crossed
  PROVE  IInv'
<1>1. TypeOK /\ TrailOK(o) /\ status[o] = "NONE" /\ call \in [Request -> {Idle} \cup Call]
  BY DEF IInv, TypeOK, Create
<1> DEFINE e == [type |-> "CREATED", from |-> "NONE", to |-> "DRAFT", by |-> u]
<1>2. e \in Event
  BY DEF Event, EventType, Status
<1>3. PICK d \in Event : d = e
  BY <1>2
<1>4. /\ status' = [status EXCEPT ![o] = "DRAFT"] /\ submittedBy' = [submittedBy EXCEPT ![o] = u]
      /\ trail' = [trail EXCEPT ![o] = Append(@, d)] /\ allocated' = allocated
      /\ reservation' = reservation /\ task' = task /\ stock' = stock /\ shipped' = shipped
      /\ call' = call
  BY <1>3 DEF Create, Record
<1>5. TypeOK'
  <2>1. Append(trail[o], d) \in Seq(Event)
    BY <1>1, AppendProperties DEF TypeOK
  <2> QED  BY <1>1, <1>4, <2>1 DEF TypeOK, Status
<1>6. \A p \in Order : p # o => /\ status'[p] = status[p] /\ trail'[p] = trail[p]
                                /\ submittedBy'[p] = submittedBy[p]
  BY <1>1, <1>4 DEF TypeOK
<1>7. status'[o] = "DRAFT"
  BY <1>1, <1>4 DEF TypeOK
<1>8. ASSUME NEW p \in Order PROVE TrailOK(p)' /\ HoldOK(p)'
  <2>1. TrailOK(p) /\ HoldOK(p) /\ Active(p)' = Active(p)
    BY <1>4 DEF IInv, Active
  <2>2. CASE p = o
    <3>1. \A w \in Warehouse : shipped'[o][w] = 0
      BY <1>1, <1>4 DEF TrailOK
    <3>2. Behind("DRAFT") = {}
      BY DEF Behind
    <3>3. TrailOK(o)'
      BY <1>7, <3>1, <3>2 DEF TrailOK
    <3> QED  BY <1>1, <1>7, <2>1, <2>2, <3>3 DEF HoldOK
  <2>3. CASE p # o
    <3>1. \A t : Passed(p, t)' <=> Passed(p, t)
      BY <1>6, <2>3 DEF Passed
    <3>2. TrailOK(p)'
      BY <1>4, <1>6, <2>1, <2>3, <3>1 DEF TrailOK
    <3> QED  BY <1>4, <1>6, <2>1, <2>3, <3>2 DEF HoldOK
  <2> QED  BY <2>2, <2>3
<1>9. \A q \in Request : ~About(q, o)
  BY <1>1 DEF IInv, CallOK, About
<1>10. ASSUME NEW q \in Request PROVE CallOK(call[q])'
  <2>1. CallOK(call[q])
    BY DEF IInv
  <2>2. CASE call[q] = Idle
    BY <1>4, <2>2 DEF CallOK
  <2>3. CASE call[q] # Idle
    <3>1. PICK p \in Order : p = call[q].order
      BY <1>1, <2>3, InCall
    <3>2. p # o
      BY <1>9, <2>3, <3>1 DEF About
    <3>3. \A t : Passed(p, t)' <=> Passed(p, t)
      BY <1>6, <3>2 DEF Passed
    <3> QED  BY <1>4, <1>6, <2>1, <2>3, <3>1, <3>2, <3>3 DEF CallOK
  <2> QED  BY <2>2, <2>3
<1>11. ASSUME NEW p \in Order PROVE AloneOK(p)'
  <2>1. AloneOK(p) /\ Active(p)' = Active(p) /\ Open(p)' = Open(p)
    BY <1>4 DEF IInv, Active, Open
  <2>2. \A q \in Request : (About(q, p)' <=> About(q, p))
    BY <1>4 DEF About
  <2>3. CASE p = o
    BY <1>7, <1>9, <2>2, <2>3 DEF AloneOK
  <2>4. CASE p # o
    BY <1>4, <1>6, <2>1, <2>2, <2>4 DEF AloneOK
  <2> QED  BY <2>3, <2>4
<1> QED  BY <1>5, <1>8, <1>10, <1>11 DEF IInv

\* A task moved by hand: the order stays as it is, and a cancelled one, or one
\* that is being cancelled, counts as crossed.
LEMMA MoveTaskInv ==
  ASSUME IInv, NEW u \in User, NEW o \in Order, NEW to \in Movable,
         NEW i \in DOMAIN task[o], MoveTask(u, o, i, to)
  PROVE  IInv'
<1>1. TypeOK /\ task[o] \in Seq(TaskState)
  BY DEF IInv, TypeOK
<1> DEFINE tasks == [task[o] EXCEPT ![i] = to]
<1>2. /\ task' = [task EXCEPT ![o] = tasks] /\ status' = status /\ submittedBy' = submittedBy
      /\ allocated' = allocated /\ reservation' = reservation /\ trail' = trail
      /\ stock' = stock /\ shipped' = shipped /\ call' = call
      /\ crossed' = IF status[o] = "CANCELLED" \/ \E q \in Request : Cancelling(q, o)
                    THEN crossed \cup {o} ELSE crossed
  BY DEF MoveTask
<1>3. tasks \in Seq(TaskState)
  <2>1. to \in TaskState
    BY DEF TaskState
  <2> QED  BY <1>1, <2>1, ExceptSeq
<1>4. TypeOK'
  <2> HIDE DEF tasks
  <2> QED  BY <1>1, <1>2, <1>3 DEF TypeOK
<1>5. \A p \in Order : Active(p)' = Active(p)
  BY <1>2 DEF Active
<1>6. \A t, p : Passed(p, t)' <=> Passed(p, t)
  BY <1>2 DEF Passed
<1>7. ASSUME NEW p \in Order PROVE TrailOK(p)' /\ HoldOK(p)'
  <2>1. TrailOK(p)'
    BY <1>2, <1>6 DEF IInv, TrailOK
  <2>2. HoldOK(p)'
    BY <1>2, <1>5 DEF IInv, HoldOK
  <2> QED  BY <2>1, <2>2
<1>8. ASSUME NEW q \in Request PROVE CallOK(call[q])'
  BY <1>2, <1>6 DEF IInv, CallOK
<1>9. ASSUME NEW p \in Order PROVE AloneOK(p)'
  <2>1. AloneOK(p) /\ \A q \in Request : About(q, p)' <=> About(q, p)
    BY <1>2 DEF IInv, About
  <2>2. CASE p = o
    <3> SUFFICES ASSUME o \notin crossed' PROVE AloneOK(o)'
      BY <2>2 DEF AloneOK
    <3>1. o \notin crossed /\ status[o] # "CANCELLED" /\ \A q \in Request : ~Cancelling(q, o)
      BY <1>2
    <3>2. \A q \in Request : About(q, o) => call[q].op # "cancel"
      BY <3>1 DEF About, Cancelling
    <3> QED  BY <1>2, <2>1, <2>2, <3>1, <3>2 DEF AloneOK
  <2>3. CASE p # o
    <3>1. Open(p)' = Open(p)
      BY <1>1, <1>2, <2>3 DEF Open, TypeOK
    <3>2. p \in crossed' <=> p \in crossed
      BY <1>2, <2>3
    <3> QED  BY <1>2, <1>5, <2>1, <3>1, <3>2 DEF AloneOK
  <2> QED  BY <2>2, <2>3
<1> QED  BY <1>4, <1>7, <1>8, <1>9 DEF IInv

LEMMA InitInv == Init => IInv
<1> SUFFICES ASSUME Init PROVE IInv
  OBVIOUS
<1>1. TypeOK
  BY DEF Init, TypeOK, Status, Idle
<1>2. ASSUME NEW o \in Order PROVE TrailOK(o) /\ HoldOK(o) /\ AloneOK(o)
  BY DEF Init, TrailOK, HoldOK, AloneOK, Behind, Active, Open, About
<1>3. \A r \in Request : CallOK(call[r])
  BY DEF Init, CallOK
<1> QED  BY <1>1, <1>2, <1>3 DEF IInv

-----------------------------------------------------------------------------
(* Every step, and what follows. *)

LEMMA InvStep == IInv /\ [Next]_vars => IInv'
<1> SUFFICES ASSUME IInv, [Next]_vars PROVE IInv'
  OBVIOUS
<1>1. ASSUME NEW o \in Order, NEW u \in User, Create(o, u), UNCHANGED crossed PROVE IInv'
  BY <1>1, CreateInv
<1>2. ASSUME NEW u \in User, NEW o \in Order, NEW to \in Movable, NEW i \in DOMAIN task[o],
             MoveTask(u, o, i, to)
      PROVE  IInv'
  BY <1>2, MoveTaskInv
<1>3. ASSUME NEW r \in Request, NEW op \in Op, NEW u \in User, NEW o \in Order,
             NEW w \in Warehouse \cup {Nowhere}, Begin(r, op, u, o, w)
      PROVE  IInv'
  BY <1>3, BeginInv
<1>4. ASSUME NEW r \in Request, UNCHANGED crossed,
             Submit(r) \/ Approve(r) \/ Release(r) \/ Reject(r) \/ Dispatch(r)
      PROVE  IInv'
  <2>1. CASE Submit(r)
    BY <1>4, <2>1, MoveInv DEF Submit, Op
  <2>2. CASE Approve(r)
    BY <1>4, <2>2, MoveInv DEF Approve, Op
  <2>3. CASE Release(r)
    BY <1>4, <2>3, MoveInv DEF Release, Op
  <2>4. CASE Reject(r)
    BY <1>4, <2>4, MoveInv DEF Reject, Op
  <2>5. CASE Dispatch(r)
    BY <1>4, <2>5, MoveInv DEF Dispatch, Op
  <2> QED  BY <1>4, <2>1, <2>2, <2>3, <2>4, <2>5
<1>5. ASSUME NEW r \in Request, UNCHANGED crossed,
             \/ CountStock(r) \/ CheckStock(r) \/ Assign(r) \/ Start(r) \/ Fulfil(r)
             \/ FreeHolds(r) \/ CloseTasks(r) \/ Cancel(r) \/ Fail(r)
      PROVE  IInv'
  BY <1>5, CountStockInv, CheckStockInv, AssignInv, StartInv, FulfilInv, FreeHoldsInv,
     CloseTasksInv, CancelInv, FailInv
<1>6. CASE UNCHANGED vars
  <2>1. /\ status' = status /\ submittedBy' = submittedBy /\ allocated' = allocated
        /\ reservation' = reservation /\ task' = task /\ trail' = trail /\ stock' = stock
        /\ shipped' = shipped /\ call' = call /\ crossed' = crossed
    BY <1>6 DEF vars, orders
  <2>2. TypeOK'
    BY <2>1 DEF IInv, TypeOK
  <2>3. \A p \in Order : TrailOK(p)' /\ HoldOK(p)'
    BY <2>1, SameOrders DEF IInv
  <2>4. ASSUME NEW p \in Order PROVE AloneOK(p)'
    <3>1. \A q \in Request : About(q, p)' <=> About(q, p)
      BY <2>1 DEF About
    <3> QED  BY <2>1, <3>1, SameOrders DEF IInv, AloneOK
  <2>5. ASSUME NEW r \in Request PROVE CallOK(call[r])'
    <3>1. \A p, t : Passed(p, t)' <=> Passed(p, t)
      BY <2>1 DEF Passed
    <3> QED  BY <2>1, <3>1 DEF IInv, CallOK
  <2> QED  BY <2>2, <2>3, <2>4, <2>5 DEF IInv
<1> QED  BY <1>1, <1>2, <1>3, <1>4, <1>5, <1>6 DEF Next

\* The invariant of SalesOrdersService: whatever requests and hand-moved tasks
\* interleave, every order's status is backed by its trail, an assigned order
\* has one hold where it is assigned, and an order that no two requests acted
\* on at once is as its request has read it.
THEOREM SalesInductive == Spec => []IInv
<1> QED  BY InitInv, InvStep, PTL DEF Spec

\* assignWarehouse and transition(): an order that is to be prepared, is being
\* prepared or was sent holds stock exactly once, at its warehouse.
THEOREM HeldOnceAlways == Spec => []HeldOnce
<1>1. IInv => HeldOnce
  BY DEF IInv, HoldOK, HeldOnce
<1> QED  BY <1>1, SalesInductive, PTL

\* Separation of duties: no bag leaves for an order that somebody other than
\* its maker has not approved, or that one of the later hands has not passed on.
THEOREM OnlyApprovedLeaves == Spec => []NothingLeavesUnapproved
<1>1. IInv => NothingLeavesUnapproved
  <2> SUFFICES ASSUME IInv, NEW o \in Order, \E w \in Warehouse : shipped[o][w] > 0
               PROVE  /\ \A type \in Chain : Did(o, type)
                      /\ \E i \in DOMAIN trail[o] : /\ trail[o][i].type = "APPROVED"
                                                    /\ trail[o][i].by # submittedBy[o]
    BY DEF NothingLeavesUnapproved, Chain
  <2>1. \A type \in Chain : Passed(o, type)
    BY DEF IInv, TrailOK
  <2>2. Passed(o, "APPROVED")
    BY <2>1 DEF Chain
  <2> QED  BY <2>1, <2>2 DEF Passed, Did
<1> QED  BY <1>1, SalesInductive, PTL

\* cancel: an order that was cancelled while no one else acted on it, and whose
\* tasks nobody took up afterwards, has no task in hand and holds no stock.
THEOREM CancelledIsLeftAlone == Spec => []NobodyChasesCancelled
<1>1. IInv => NobodyChasesCancelled
  BY DEF IInv, AloneOK, NobodyChasesCancelled
<1> QED  BY <1>1, SalesInductive, PTL

-----------------------------------------------------------------------------
(* SalesDesk: what the trail has, given the status. *)

LEMMA StepsAre ==
  /\ Steps = 1 .. 7
  /\ STEPS[1].events = {"SUBMITTED"} /\ STEPS[2].events = {"APPROVED"}
  /\ STEPS[3].events = {"RELEASED"} /\ STEPS[4].events = {"ASSIGNED", "REASSIGNED"}
  /\ STEPS[5].events = {"PROCESSING"} /\ STEPS[6].events = {"ON_TRACK"}
  /\ STEPS[7].events = {"DELIVERED"}
<1>1. Steps = 1 .. 7
  BY DEF Steps, STEPS
<1>2. STEPS[1].events = {"SUBMITTED"}
  BY DEF STEPS
<1>3. STEPS[2].events = {"APPROVED"}
  BY DEF STEPS
<1>4. STEPS[3].events = {"RELEASED"}
  BY DEF STEPS
<1>5. STEPS[4].events = {"ASSIGNED", "REASSIGNED"}
  BY DEF STEPS
<1>6. STEPS[5].events = {"PROCESSING"}
  BY DEF STEPS
<1>7. STEPS[6].events = {"ON_TRACK"}
  BY DEF STEPS
<1>8. STEPS[7].events = {"DELIVERED"}
  BY DEF STEPS
<1> QED  BY <1>1, <1>2, <1>3, <1>4, <1>5, <1>6, <1>7, <1>8

LEMMA CurrentAre ==
  /\ DOMAIN CURRENT = {"DRAFT", "SUBMITTED", "APPROVED", "RELEASED", "RESERVED", "PROCESSING",
                       "ON_TRACK"}
  /\ CURRENT["DRAFT"] = 1 /\ CURRENT["SUBMITTED"] = 2 /\ CURRENT["APPROVED"] = 3
  /\ CURRENT["RELEASED"] = 4 /\ CURRENT["RESERVED"] = 5 /\ CURRENT["PROCESSING"] = 6
  /\ CURRENT["ON_TRACK"] = 7
BY DEF CURRENT

\* One line more: one hand-off more, or one refusal more, or neither.
LEMMA TrailAdds ==
  ASSUME TypeOK, NEW o \in Order, NEW e \in Event, trail' = [trail EXCEPT ![o] = Append(@, e)]
  PROVE  /\ \A p \in Order \ {o} : /\ \A k \in Steps : Happened(p, k)' <=> Happened(p, k)
                                   /\ TurnedDown(p)' <=> TurnedDown(p)
         /\ \A k \in Steps : Happened(o, k)' <=> Happened(o, k) \/ e.type \in STEPS[k].events
         /\ TurnedDown(o)' <=> TurnedDown(o) \/ (e.type = "REJECTED" /\ e.from = "APPROVED")
<1>1. trail[o] \in Seq(Event) /\ trail'[o] = Append(trail[o], e)
  BY DEF TypeOK
<1>2. /\ \A i \in DOMAIN trail[o] : i \in DOMAIN trail'[o] /\ trail'[o][i] = trail[o][i]
      /\ \A i \in DOMAIN trail'[o] : i \in DOMAIN trail[o] \/ trail'[o][i] = e
      /\ \E i \in DOMAIN trail'[o] : trail'[o][i] = e
  BY <1>1, AppendProperties, LenProperties
<1>3. \A p \in Order \ {o} : trail'[p] = trail[p]
  BY DEF TypeOK
<1>4. \A p \in Order \ {o} : /\ \A k \in Steps : Happened(p, k)' <=> Happened(p, k)
                             /\ TurnedDown(p)' <=> TurnedDown(p)
  BY <1>3 DEF Happened, TurnedDown
<1>5. ASSUME NEW k \in Steps
      PROVE  Happened(o, k)' <=> Happened(o, k) \/ e.type \in STEPS[k].events
  BY <1>2 DEF Happened
<1>6. TurnedDown(o)' <=> TurnedDown(o) \/ (e.type = "REJECTED" /\ e.from = "APPROVED")
  BY <1>2 DEF TurnedDown
<1> QED  BY <1>4, <1>5, <1>6

\* What a step does to the other orders, and to all when it leaves them alone.
LEMMA OthersTrack ==
  ASSUME NEW p \in Order, TrackOK(p), status'[p] = status[p], submittedBy'[p] = submittedBy[p],
         \A k \in Steps : Happened(p, k)' <=> Happened(p, k), TurnedDown(p)' <=> TurnedDown(p)
  PROVE  TrackOK(p)'
<1>1. InFlight(p)' <=> InFlight(p)
  BY DEF InFlight
<1>2. RejectedAt(p)' = RejectedAt(p)
  BY DEF RejectedAt
<1>3. Steps \subseteq Nat /\ \A k \in Steps : 1 .. k \subseteq Steps
  BY StepsAre
<1> QED  BY <1>1, <1>2, <1>3 DEF TrackOK

LEMMA SameTrack ==
  ASSUME \A p \in Order : TrackOK(p), status' = status, submittedBy' = submittedBy, trail' = trail
  PROVE  \A p \in Order : TrackOK(p)'
<1> SUFFICES ASSUME NEW p \in Order PROVE TrackOK(p)'
  OBVIOUS
<1>1. /\ \A k \in Steps : Happened(p, k)' <=> Happened(p, k)
      /\ TurnedDown(p)' <=> TurnedDown(p)
  BY DEF Happened, TurnedDown
<1> QED  BY <1>1, OthersTrack

\* An order in flight is handed on, by the hand-off that is recorded.
LEMMA HandedOn ==
  ASSUME TypeOK, NEW o \in Order, TrackOK(o), NEW e \in Event, NEW to \in DOMAIN CURRENT,
         status[o] \in DOMAIN CURRENT, e.type # "REJECTED",
         trail' = [trail EXCEPT ![o] = Append(@, e)],
         submittedBy'[o] = submittedBy[o], status'[o] = to,
         \A k \in 1 .. 7 : k < CURRENT[to] <=>
             k < CURRENT[status[o]] \/ e.type \in STEPS[k].events
  PROVE  TrackOK(o)'
<1>1. \A k \in Steps : Happened(o, k)' <=> Happened(o, k) \/ e.type \in STEPS[k].events
  BY TrailAdds
<1>2. \A k \in Steps : Happened(o, k) <=> k < CURRENT[status[o]]
  BY DEF TrackOK, InFlight
<1>3. \A k \in Steps : Happened(o, k)' <=> k < CURRENT[to]
  BY <1>1, <1>2, StepsAre
<1>4. CURRENT[to] \in 1 .. 7
  BY CurrentAre
<1>5. \A k \in Steps : Happened(o, k)' => \A j \in 1 .. k : Happened(o, j)'
  BY <1>3, <1>4, StepsAre
<1>6. ~TurnedDown(o)'
  BY TrailAdds, CurrentAre DEF TrackOK
<1>7. submittedBy'[o] \in Holder["create"]
  BY CurrentAre DEF TrackOK
<1>8. to \notin {"NONE", "REJECTED", "FULFILLED"} /\ (InFlight(o)' => CURRENT[to] = CURRENT[status'[o]])
  BY CurrentAre
<1> QED  BY <1>3, <1>5, <1>6, <1>7, <1>8 DEF TrackOK

\* What a commit writes of its order.
Wrote(r, type, from, to) ==
    /\ status' = [status EXCEPT ![call[r].order] = to]
    /\ submittedBy' = submittedBy
    /\ trail' = [trail EXCEPT ![call[r].order] =
                   Append(@, [type |-> type, from |-> from, to |-> to, by |-> call[r].by])]

LEMMA WroteOne ==
  ASSUME TypeOK, \A p \in Order : TrackOK(p), NEW r \in Request, call[r] \in Call,
         NEW type \in EventType, NEW from \in Status, NEW to \in Status, Wrote(r, type, from, to),
         NEW o \in Order, o = call[r].order, TrackOK(o)'
  PROVE  \A p \in Order : TrackOK(p)'
<1>1. PICK e \in Event : e = [type |-> type, from |-> from, to |-> to, by |-> call[r].by]
  BY InCall DEF Event
<1>2. trail' = [trail EXCEPT ![o] = Append(@, e)]
  BY <1>1 DEF Wrote
<1> SUFFICES ASSUME NEW p \in Order, p # o PROVE TrackOK(p)'
  OBVIOUS
<1>3. status'[p] = status[p] /\ submittedBy'[p] = submittedBy[p]
  BY DEF Wrote, TypeOK
<1>4. /\ \A k \in Steps : Happened(p, k)' <=> Happened(p, k)
      /\ TurnedDown(p)' <=> TurnedDown(p)
  BY <1>2, TrailAdds
<1> QED  BY <1>3, <1>4, OthersTrack

\* submit, approve, release, dispatch, startProcessing and assignWarehouse.
LEMMA HandOnTrack ==
  ASSUME IInv, \A p \in Order : TrackOK(p), NEW r \in Request, call[r] \in Call,
         NEW type \in EventType, NEW to \in Status, Wrote(r, type, call[r].from, to),
         status[call[r].order] = call[r].from,
         <<call[r].from, type, to>> \in
             {<<"DRAFT", "SUBMITTED", "SUBMITTED">>, <<"SUBMITTED", "APPROVED", "APPROVED">>,
              <<"APPROVED", "RELEASED", "RELEASED">>, <<"RELEASED", "ASSIGNED", "RESERVED">>,
              <<"RESERVED", "REASSIGNED", "RESERVED">>, <<"RESERVED", "PROCESSING", "PROCESSING">>,
              <<"PROCESSING", "ON_TRACK", "ON_TRACK">>}
  PROVE  \A p \in Order : TrackOK(p)'
<1>1. PICK o \in Order : o = call[r].order
  BY InCall
<1>2. PICK from \in Status : from = call[r].from
  BY InCall
<1>3. PICK e \in Event : e = [type |-> type, from |-> from, to |-> to, by |-> call[r].by]
  BY InCall DEF Event
<1>4. TypeOK /\ status[o] = from /\ e.type = type
  BY <1>1, <1>2, <1>3 DEF IInv
<1>5. /\ trail' = [trail EXCEPT ![o] = Append(@, e)]
      /\ submittedBy'[o] = submittedBy[o] /\ status'[o] = to
  BY <1>1, <1>2, <1>3, <1>4 DEF Wrote, TypeOK
<1>6. \/ from = "DRAFT" /\ type = "SUBMITTED" /\ to = "SUBMITTED"
      \/ from = "SUBMITTED" /\ type = "APPROVED" /\ to = "APPROVED"
      \/ from = "APPROVED" /\ type = "RELEASED" /\ to = "RELEASED"
      \/ from = "RELEASED" /\ type = "ASSIGNED" /\ to = "RESERVED"
      \/ from = "RESERVED" /\ type = "REASSIGNED" /\ to = "RESERVED"
      \/ from = "RESERVED" /\ type = "PROCESSING" /\ to = "PROCESSING"
      \/ from = "PROCESSING" /\ type = "ON_TRACK" /\ to = "ON_TRACK"
  BY <1>2
<1>7. from \in DOMAIN CURRENT /\ to \in DOMAIN CURRENT /\ type # "REJECTED"
  BY <1>6, CurrentAre
<1>8. \A k \in 1 .. 7 : k < CURRENT[to] <=> k < CURRENT[from] \/ type \in STEPS[k].events
  <2>1. /\ 1 < CURRENT[to] <=> 1 < CURRENT[from] \/ type \in STEPS[1].events
        /\ 2 < CURRENT[to] <=> 2 < CURRENT[from] \/ type \in STEPS[2].events
        /\ 3 < CURRENT[to] <=> 3 < CURRENT[from] \/ type \in STEPS[3].events
        /\ 4 < CURRENT[to] <=> 4 < CURRENT[from] \/ type \in STEPS[4].events
        /\ 5 < CURRENT[to] <=> 5 < CURRENT[from] \/ type \in STEPS[5].events
        /\ 6 < CURRENT[to] <=> 6 < CURRENT[from] \/ type \in STEPS[6].events
        /\ 7 < CURRENT[to] <=> 7 < CURRENT[from] \/ type \in STEPS[7].events
    BY <1>6, CurrentAre, StepsAre
  <2>2. \A k \in 1 .. 7 : k = 1 \/ k = 2 \/ k = 3 \/ k = 4 \/ k = 5 \/ k = 6 \/ k = 7
    OBVIOUS
  <2> QED  BY <2>1, <2>2
<1>9. TrackOK(o)'
  BY <1>4, <1>5, <1>7, <1>8, HandedOn
<1>10. Wrote(r, type, from, to)
  BY <1>2
<1> QED  BY <1>1, <1>4, <1>9, <1>10, WroteOne

\* reject: by Finance, or by the Managing Director.
LEMMA RejectTrack ==
  ASSUME IInv, \A p \in Order : TrackOK(p), NEW r \in Request, call[r] \in Call,
         Wrote(r, "REJECTED", call[r].from, "REJECTED"),
         status[call[r].order] = call[r].from, call[r].from \in {"SUBMITTED", "APPROVED"}
  PROVE  \A p \in Order : TrackOK(p)'
<1>1. PICK o \in Order : o = call[r].order
  BY InCall
<1>2. PICK from \in {"SUBMITTED", "APPROVED"} : from = call[r].from
  OBVIOUS
<1>3. PICK e \in Event :
          e = [type |-> "REJECTED", from |-> from, to |-> "REJECTED", by |-> call[r].by]
  BY InCall DEF Event, EventType, Status
<1>4. TypeOK /\ status[o] = from /\ e.type = "REJECTED" /\ e.from = from
  BY <1>1, <1>2, <1>3 DEF IInv
<1>5. /\ trail' = [trail EXCEPT ![o] = Append(@, e)]
      /\ submittedBy'[o] = submittedBy[o] /\ status'[o] = "REJECTED"
  BY <1>1, <1>2, <1>3, <1>4 DEF Wrote, TypeOK
<1>6. \A k \in Steps : "REJECTED" \notin STEPS[k].events
  <2>1. \A k \in 1 .. 7 : k = 1 \/ k = 2 \/ k = 3 \/ k = 4 \/ k = 5 \/ k = 6 \/ k = 7
    OBVIOUS
  <2> QED  BY <2>1, StepsAre
<1>7. \A k \in Steps : Happened(o, k)' <=> k < CURRENT[from]
  <2>1. \A k \in Steps : Happened(o, k)' <=> Happened(o, k) \/ e.type \in STEPS[k].events
    BY <1>4, <1>5, TrailAdds
  <2>2. \A k \in Steps : Happened(o, k) <=> k < CURRENT[from]
    BY <1>4, CurrentAre DEF TrackOK, InFlight
  <2> QED  BY <1>4, <1>6, <2>1, <2>2
<1>8. TurnedDown(o)' <=> from = "APPROVED"
  BY <1>4, <1>5, TrailAdds DEF TrackOK
<1>9. RejectedAt(o)' = CURRENT[from]
  BY <1>8, CurrentAre DEF RejectedAt
<1>10. CURRENT[from] \in 2 .. 3 /\ ~InFlight(o)'
  BY <1>5, CurrentAre DEF InFlight
<1>11. submittedBy'[o] \in Holder["create"]
  BY <1>4, <1>5 DEF TrackOK
<1>12. \A k \in Steps : Happened(o, k)' => \A j \in 1 .. k : Happened(o, j)'
  BY <1>7, <1>10, StepsAre
<1>13. TrackOK(o)'
  BY <1>5, <1>7, <1>9, <1>10, <1>11, <1>12 DEF TrackOK
<1>14. Wrote(r, "REJECTED", from, "REJECTED") /\ from \in Status
  BY <1>2 DEF Status
<1> QED  BY <1>1, <1>4, <1>13, <1>14, WroteOne DEF EventType, Status

\* cancel, whatever the order's status is by then.
LEMMA CancelTrack ==
  ASSUME IInv, \A p \in Order : TrackOK(p), NEW r \in Request, call[r] \in Call,
         Wrote(r, "CANCELLED", call[r].from, "CANCELLED")
  PROVE  \A p \in Order : TrackOK(p)'
<1>1. PICK o \in Order : o = call[r].order
  BY InCall
<1>2. PICK from \in Status : from = call[r].from
  BY InCall
<1>3. PICK e \in Event :
          e = [type |-> "CANCELLED", from |-> from, to |-> "CANCELLED", by |-> call[r].by]
  BY InCall DEF Event, EventType, Status
<1>4. TypeOK /\ status[o] # "NONE" /\ e.type = "CANCELLED"
  <2>1. CallOK(call[r]) /\ call[r] # Idle
    BY InCall DEF IInv
  <2> QED  BY <1>1, <1>3, <2>1 DEF IInv, CallOK
<1>5. /\ trail' = [trail EXCEPT ![o] = Append(@, e)]
      /\ submittedBy'[o] = submittedBy[o] /\ status'[o] = "CANCELLED"
  BY <1>1, <1>2, <1>3, <1>4 DEF Wrote, TypeOK
<1>6. \A k \in Steps : "CANCELLED" \notin STEPS[k].events
  <2>1. \A k \in 1 .. 7 : k = 1 \/ k = 2 \/ k = 3 \/ k = 4 \/ k = 5 \/ k = 6 \/ k = 7
    OBVIOUS
  <2> QED  BY <2>1, StepsAre
<1>7. \A k \in Steps : Happened(o, k)' <=> Happened(o, k)
  BY <1>4, <1>5, <1>6, TrailAdds
<1>8. \A k \in Steps : Happened(o, k)' => \A j \in 1 .. k : Happened(o, j)'
  <2>1. \A k \in Steps : 1 .. k \subseteq Steps
    BY StepsAre
  <2> QED  BY <1>7, <2>1 DEF TrackOK
<1>9. ~InFlight(o)' /\ submittedBy'[o] \in Holder["create"]
  BY <1>4, <1>5, CurrentAre DEF TrackOK, InFlight
<1>10. TrackOK(o)'
  BY <1>5, <1>8, <1>9 DEF TrackOK
<1> QED  BY <1>1, <1>2, <1>4, <1>10, WroteOne DEF EventType, Status

\* fulfill, whatever the order's status is by then: it was on its way once.
LEMMA FulfilTrack ==
  ASSUME IInv, \A p \in Order : TrackOK(p), NEW r \in Request, call[r] \in Call,
         call[r].op = "fulfill", Wrote(r, "DELIVERED", "ON_TRACK", "FULFILLED")
  PROVE  \A p \in Order : TrackOK(p)'
<1>1. PICK o \in Order : o = call[r].order
  BY InCall
<1>2. PICK e \in Event :
          e = [type |-> "DELIVERED", from |-> "ON_TRACK", to |-> "FULFILLED", by |-> call[r].by]
  BY InCall DEF Event, EventType, Status
<1>3. /\ TypeOK /\ status[o] # "NONE" /\ e.type = "DELIVERED"
      /\ \A type \in Chain : Passed(o, type)
  <2>1. CallOK(call[r]) /\ call[r] # Idle
    BY InCall DEF IInv
  <2> QED  BY <1>1, <1>2, <2>1 DEF IInv, CallOK
<1>4. /\ trail' = [trail EXCEPT ![o] = Append(@, e)]
      /\ submittedBy'[o] = submittedBy[o] /\ status'[o] = "FULFILLED"
  BY <1>1, <1>2, <1>3 DEF Wrote, TypeOK
<1>5. \A type \in Chain, k \in Steps : type \in STEPS[k].events => Happened(o, k)
  BY <1>3 DEF Passed, Happened
<1>6. \A k \in Steps : Happened(o, k)'
  <2>1. \A k \in Steps : Happened(o, k)' <=> Happened(o, k) \/ e.type \in STEPS[k].events
    BY <1>3, <1>4, TrailAdds
  <2>2. Happened(o, 1) /\ Happened(o, 2) /\ Happened(o, 3) /\ Happened(o, 4)
        /\ Happened(o, 5) /\ Happened(o, 6) /\ e.type \in STEPS[7].events
    BY <1>3, <1>5, StepsAre DEF Chain
  <2>3. \A k \in 1 .. 7 : k = 1 \/ k = 2 \/ k = 3 \/ k = 4 \/ k = 5 \/ k = 6 \/ k = 7
    OBVIOUS
  <2> QED  BY <2>1, <2>2, <2>3, StepsAre
<1>7. ~InFlight(o)' /\ submittedBy'[o] \in Holder["create"]
  BY <1>3, <1>4, CurrentAre DEF TrackOK, InFlight
<1>8. \A k \in Steps : Happened(o, k)' => \A j \in 1 .. k : Happened(o, j)'
  BY <1>6, StepsAre
<1>9. TrackOK(o)'
  BY <1>4, <1>6, <1>7, <1>8 DEF TrackOK
<1> QED  BY <1>1, <1>3, <1>9, WroteOne DEF EventType, Status

\* create
LEMMA CreateTrack ==
  ASSUME IInv, \A p \in Order : TrackOK(p), NEW o \in Order, NEW u \in User, Create(o, u)
  PROVE  \A p \in Order : TrackOK(p)'
<1>1. TypeOK /\ status[o] = "NONE" /\ u \in Holder["create"]
  BY DEF IInv, Create
<1>2. PICK e \in Event : e = [type |-> "CREATED", from |-> "NONE", to |-> "DRAFT", by |-> u]
  BY DEF Event, EventType, Status
<1>3. /\ trail' = [trail EXCEPT ![o] = Append(@, e)]
      /\ submittedBy'[o] = u /\ status'[o] = "DRAFT"
      /\ \A p \in Order \ {o} : status'[p] = status[p] /\ submittedBy'[p] = submittedBy[p]
  BY <1>1, <1>2 DEF Create, Record, TypeOK
<1>4. \A k \in Steps : e.type \notin STEPS[k].events
  <2>1. \A k \in 1 .. 7 : k = 1 \/ k = 2 \/ k = 3 \/ k = 4 \/ k = 5 \/ k = 6 \/ k = 7
    OBVIOUS
  <2> QED  BY <1>2, <2>1, StepsAre
<1>5. \A k \in Steps : ~Happened(o, k)'
  BY <1>1, <1>3, <1>4, TrailAdds DEF TrackOK
<1>6. ~TurnedDown(o)'
  BY <1>1, <1>2, <1>3, TrailAdds DEF TrackOK
<1>7. \A k \in Steps : ~(k < CURRENT["DRAFT"])
  BY StepsAre, CurrentAre
<1>8. TrackOK(o)'
  BY <1>1, <1>3, <1>5, <1>6, <1>7 DEF TrackOK
<1>9. ASSUME NEW p \in Order, p # o PROVE TrackOK(p)'
  <2>1. /\ \A k \in Steps : Happened(p, k)' <=> Happened(p, k)
        /\ TurnedDown(p)' <=> TurnedDown(p)
    BY <1>1, <1>3, <1>9, TrailAdds
  <2>2. status'[p] = status[p] /\ submittedBy'[p] = submittedBy[p]
    BY <1>3, <1>9
  <2> QED  BY <2>1, <2>2, OthersTrack
<1> QED  BY <1>8, <1>9

LEMMA MoveTrack ==
  ASSUME IInv, \A p \in Order : TrackOK(p), NEW r \in Request,
         Submit(r) \/ Approve(r) \/ Release(r) \/ Reject(r) \/ Dispatch(r)
  PROVE  \A p \in Order : TrackOK(p)'
<1>1. ASSUME NEW op, NEW type, NEW to, Move(r, op, type, to)
      PROVE  /\ call[r] \in Call /\ call[r].from \in ReadIn(op)
             /\ Wrote(r, type, call[r].from, to) /\ status[call[r].order] = call[r].from
  <2>1. TypeOK /\ call[r].step = "read" /\ call[r].op = op
    BY <1>1 DEF IInv, Move, Doing
  <2>2. call[r] \in Call
    BY <2>1, Remembers
  <2>3. CallOK(call[r]) /\ call[r] # Idle
    BY <2>2, InCall DEF IInv
  <2> QED  BY <1>1, <2>1, <2>2, <2>3 DEF Move, Wrote, Record, Transition, CallOK
<1>2. CASE Submit(r)
  BY <1>1, <1>2, HandOnTrack DEF Submit, ReadIn, EventType, Status
<1>3. CASE Approve(r)
  BY <1>1, <1>3, HandOnTrack DEF Approve, ReadIn, EventType, Status
<1>4. CASE Release(r)
  BY <1>1, <1>4, HandOnTrack DEF Release, ReadIn, EventType, Status
<1>5. CASE Reject(r)
  BY <1>1, <1>5, RejectTrack DEF Reject, ReadIn
<1>6. CASE Dispatch(r)
  BY <1>1, <1>6, HandOnTrack DEF Dispatch, ReadIn, EventType, Status
<1> QED  BY <1>2, <1>3, <1>4, <1>5, <1>6

LEMMA CommitTrack ==
  ASSUME IInv, \A p \in Order : TrackOK(p), NEW r \in Request,
         Assign(r) \/ Start(r) \/ Fulfil(r) \/ Cancel(r)
  PROVE  \A p \in Order : TrackOK(p)'
<1>1. call[r].step # "idle"
  BY DEF Assign, Start, Fulfil, Cancel, Doing
<1>2. call[r] \in Call
  BY <1>1, Remembers DEF IInv
<1>3. CallOK(call[r]) /\ call[r] # Idle
  BY <1>2, InCall DEF IInv
<1>4. CASE Assign(r)
  <2>1. call[r].op = "assign" /\ status[call[r].order] = call[r].from
    BY <1>4 DEF Assign, Doing, Transition
  <2>2. call[r].from = "RELEASED" \/ call[r].from = "RESERVED"
    BY <1>3, <2>1 DEF CallOK, ReadIn
  <2>3. CASE call[r].from = "RELEASED"
    <3>1. Wrote(r, "ASSIGNED", call[r].from, "RESERVED")
      BY <1>4, <2>3 DEF Assign, Wrote, Record
    <3> QED  BY <1>2, <2>1, <2>3, <3>1, HandOnTrack DEF EventType, Status
  <2>4. CASE call[r].from = "RESERVED"
    <3>1. Wrote(r, "REASSIGNED", call[r].from, "RESERVED")
      BY <1>4, <2>4 DEF Assign, Wrote, Record
    <3> QED  BY <1>2, <2>1, <2>4, <3>1, HandOnTrack DEF EventType, Status
  <2> QED  BY <2>2, <2>3, <2>4
<1>5. CASE Start(r)
  <2>1. call[r].op = "start" /\ status[call[r].order] = call[r].from
    BY <1>5 DEF Start, Doing, Transition
  <2>2. call[r].from = "RESERVED"
    BY <1>3, <2>1 DEF CallOK, ReadIn
  <2>3. Wrote(r, "PROCESSING", call[r].from, "PROCESSING")
    BY <1>5 DEF Start, Wrote, Record
  <2> QED  BY <1>2, <2>1, <2>2, <2>3, HandOnTrack DEF EventType, Status
<1>6. CASE Fulfil(r)
  <2>1. call[r].op = "fulfill" /\ Wrote(r, "DELIVERED", "ON_TRACK", "FULFILLED")
    BY <1>6 DEF Fulfil, Doing, Wrote, Record
  <2> QED  BY <1>2, <2>1, FulfilTrack
<1>7. CASE Cancel(r)
  <2>1. Wrote(r, "CANCELLED", call[r].from, "CANCELLED")
    BY <1>7 DEF Cancel, Wrote, Record
  <2> QED  BY <1>2, <2>1, CancelTrack
<1> QED  BY <1>4, <1>5, <1>6, <1>7

\* Every other step leaves the status, the maker and the trail as they are.
LEMMA DeskStep == DeskInv /\ [Next]_vars => DeskInv'
<1> SUFFICES ASSUME IInv, \A p \in Order : TrackOK(p), [Next]_vars
             PROVE  \A p \in Order : TrackOK(p)'
  BY InvStep DEF DeskInv
<1>1. ASSUME NEW o \in Order, NEW u \in User, Create(o, u)
      PROVE  \A p \in Order : TrackOK(p)'
  BY <1>1, CreateTrack
<1>2. ASSUME NEW r \in Request,
             Submit(r) \/ Approve(r) \/ Release(r) \/ Reject(r) \/ Dispatch(r)
      PROVE  \A p \in Order : TrackOK(p)'
  BY <1>2, MoveTrack
<1>3. ASSUME NEW r \in Request, Assign(r) \/ Start(r) \/ Fulfil(r) \/ Cancel(r)
      PROVE  \A p \in Order : TrackOK(p)'
  BY <1>3, CommitTrack
<1>4. ASSUME NEW r \in Request,
             CountStock(r) \/ CheckStock(r) \/ FreeHolds(r) \/ CloseTasks(r) \/ Fail(r)
      PROVE  \A p \in Order : TrackOK(p)'
  BY <1>4, SameTrack DEF CountStock, CheckStock, FreeHolds, CloseTasks, Fail, orders
<1>5. ASSUME NEW r \in Request, NEW op \in Op, NEW u \in User, NEW o \in Order,
             NEW w \in Warehouse \cup {Nowhere}, Begin(r, op, u, o, w)
      PROVE  \A p \in Order : TrackOK(p)'
  BY <1>5, SameTrack DEF Begin, orders
<1>6. ASSUME NEW u \in User, NEW o \in Order, NEW to \in Movable, NEW i \in DOMAIN task[o],
             MoveTask(u, o, i, to)
      PROVE  \A p \in Order : TrackOK(p)'
  BY <1>6, SameTrack DEF MoveTask
<1>7. CASE UNCHANGED vars
  BY <1>7, SameTrack DEF vars, orders
<1> QED  BY <1>1, <1>2, <1>3, <1>4, <1>5, <1>6, <1>7 DEF Next

\* record() and the statuses: whatever races, hand-offs are done in order, and
\* the status of an order in flight says exactly which were done.
THEOREM DeskInductive == Spec => []DeskInv
<1>1. Init => DeskInv
  <2> SUFFICES ASSUME Init, NEW o \in Order PROVE TrackOK(o)
    BY InitInv DEF DeskInv
  <2>1. status[o] = "NONE" /\ trail[o] = <<>>
    BY DEF Init
  <2>2. ~TurnedDown(o) /\ \A k \in Steps : ~Happened(o, k)
    BY <2>1 DEF TurnedDown, Happened
  <2>3. ~InFlight(o)
    BY <2>1, CurrentAre DEF InFlight
  <2> QED  BY <2>1, <2>2, <2>3 DEF TrackOK
<1> QED  BY <1>1, DeskStep, PTL DEF Spec

-----------------------------------------------------------------------------
(* What the page shows. *)

\* The journey: the hand-offs shown as done, and whose desk the order is on.
LEMMA TrackerTrue ==
  ASSUME DeskInv PROVE TrackerTellsTruth
<1> SUFFICES ASSUME NEW o \in Order, status[o] # "NONE"
             PROVE  /\ DoneSteps(o) = {k \in Steps : Happened(o, k)}
                    /\ InFlight(o) => STEPS[CURRENT[status[o]]].actor = WaitingOn(o)
  BY DEF TrackerTellsTruth
<1>1. TrackOK(o) /\ status[o] \in Status
  BY DEF DeskInv, IInv, TypeOK
<1>2. CASE InFlight(o)
  <2>1. CURRENT[status[o]] \in 1 .. 7
    BY <1>2, CurrentAre DEF InFlight
  <2>2. DoneSteps(o) = 1 .. (CURRENT[status[o]] - 1)
    BY <1>2, CurrentAre DEF DoneSteps, InFlight
  <2>3. \A k \in Steps : Happened(o, k) <=> k < CURRENT[status[o]]
    BY <1>1, <1>2 DEF TrackOK
  <2>4. \A k : k \in 1 .. (CURRENT[status[o]] - 1) <=> k \in Steps /\ k < CURRENT[status[o]]
    BY <2>1, StepsAre
  <2>5. DoneSteps(o) = {k \in Steps : Happened(o, k)}
    BY <2>2, <2>3, <2>4
  <2>6. /\ STEPS[1].actor = "Sales Officer" /\ STEPS[2].actor = "Finance Director"
        /\ STEPS[3].actor = "Managing Director" /\ STEPS[4].actor = "Warehouse Supervisor"
        /\ STEPS[5].actor = "Warehouse team" /\ STEPS[6].actor = "Warehouse team"
        /\ STEPS[7].actor = "Warehouse team"
    BY DEF STEPS
  <2>7. STEPS[CURRENT[status[o]]].actor = WaitingOn(o)
    BY <1>2, <2>6, CurrentAre DEF InFlight, WaitingOn, WarehouseStage
  <2> QED  BY <2>5, <2>7
<1>3. CASE status[o] = "FULFILLED"
  <2>1. ~InFlight(o)
    BY <1>3, CurrentAre DEF InFlight
  <2> QED  BY <1>1, <1>3, <2>1 DEF DoneSteps, TrackOK
<1>4. CASE status[o] = "REJECTED"
  <2>1. ~InFlight(o)
    BY <1>4, CurrentAre DEF InFlight
  <2>2. DoneSteps(o) = 1 .. (RejectedAt(o) - 1)
    BY <1>4, <2>1 DEF DoneSteps
  <2>3. RejectedAt(o) \in 2 .. 3
    BY DEF RejectedAt
  <2>4. \A k : k \in 1 .. (RejectedAt(o) - 1) <=> k \in Steps /\ k < RejectedAt(o)
    BY <2>3, StepsAre
  <2> QED  BY <1>1, <1>4, <2>1, <2>2, <2>4 DEF TrackOK
<1>5. CASE status[o] = "CANCELLED"
  <2>1. ~InFlight(o)
    BY <1>5, CurrentAre DEF InFlight
  <2>2. DoneSteps(o) = Reached(o)
    BY <1>5, <2>1 DEF DoneSteps
  <2>3. \A k \in Steps : k \in 1 .. k
    BY StepsAre
  <2> QED  BY <1>1, <2>1, <2>2, <2>3 DEF Reached, TrackOK
<1> QED  BY <1>1, <1>2, <1>3, <1>4, <1>5, CurrentAre DEF Status, InFlight

\* Whoever delivers and sees an order that is assigned works at its warehouse.
LEMMA SeesOnDuty ==
  ASSUME Staffed, DeskInv, NEW o \in Order, NEW u \in Holder["fulfill"], CanSee(u, o)
  PROVE  OnDuty(u, o)
<1>1. u \in Everywhere \/ \A p \in {"approve", "release", "assign", "view", "create"} : u \notin Holder[p]
  BY DEF Staffed
<1> QED  BY <1>1 DEF CanSee, OnDuty

LEMMA AssignedSomewhere ==
  ASSUME DeskInv, NEW o \in Order, status[o] \in WarehouseStage
  PROVE  allocated[o] \in Warehouse
<1>1. TypeOK /\ HoldOK(o)
  BY DEF DeskInv, IInv
<1>2. PICK i \in DOMAIN reservation[o] : reservation[o][i].at = allocated[o]
  BY <1>1 DEF HoldOK, WarehouseStage
<1>3. reservation[o] \in Seq(Hold)
  BY <1>1 DEF TypeOK
<1>4. reservation[o][i] \in Hold
  BY <1>2, <1>3, ElementOfSeq, LenProperties
<1> QED  BY <1>2, <1>4 DEF Hold

\* The panel: no button is refused, and none is missing.
LEMMA ButtonsTrue ==
  ASSUME Staffed, DeskInv PROVE ButtonsWork
<1> SUFFICES ASSUME NEW o \in Order, NEW u \in User, NEW op \in Op,
                    NEW w \in IF op = "assign" THEN Choosable(o) ELSE {Nowhere}, CanSee(u, o),
                    op = "assign" => Len(reservation[o]) < MaxAssign,
                    ~(op = "reject" /\ submittedBy[o] = u)
             PROVE  Shows(op, u, o, w) <=> MayAsk(op, u, o, w)
  BY DEF ButtonsWork
<1>1. (op = "assign") = (w # Nowhere)
  BY DEF Choosable
<1>2. u \in Holder["fulfill"] => OnDuty(u, o)
  BY SeesOnDuty
<1>3. status[o] = "ON_TRACK" => allocated[o] # Nowhere
  BY AssignedSomewhere DEF WarehouseStage
<1>4. CASE op = "submit"
  BY <1>1, <1>4 DEF Shows, MayAsk, MaySubmit
<1>5. CASE op = "approve"
  BY <1>1, <1>5 DEF Shows, MayAsk, MayApprove
<1>6. CASE op = "release"
  BY <1>1, <1>6 DEF Shows, MayAsk, MayRelease
<1>7. CASE op = "reject"
  BY <1>1, <1>7 DEF Shows, MayAsk, MayReject
<1>8. CASE op = "assign"
  <2>1. w \in Choosable(o) /\ allocated[o] # w
    BY <1>8 DEF Choosable
  <2> QED  BY <1>1, <1>8, <2>1 DEF Shows, MayAsk, MayAssign
<1>9. CASE op = "start"
  BY <1>1, <1>2, <1>9 DEF Shows, MayAsk, MayStart
<1>10. CASE op = "dispatch"
  BY <1>1, <1>2, <1>10 DEF Shows, MayAsk, MayDispatch
<1>11. CASE op = "fulfill"
  BY <1>1, <1>2, <1>3, <1>11 DEF Shows, MayAsk, MayFulfil
<1>12. CASE op = "cancel"
  BY <1>1, <1>12 DEF Shows, MayAsk, MayCancel
<1> QED  BY <1>4, <1>5, <1>6, <1>7, <1>8, <1>9, <1>10, <1>11, <1>12 DEF Op

\* An order in flight can be taken a step further, or called off by its maker.
LEMMA TurnTrue ==
  ASSUME Staffed, DeskInv PROVE SomebodysTurn
<1> SUFFICES ASSUME NEW o \in Order, InFlight(o)
             PROVE  \/ \E u \in User : NeedsMyAction(u, o) /\ CanSee(u, o)
                           /\ \E op \in Op \ {"reject", "cancel"}, w \in Choosable(o) \cup {Nowhere} :
                                 MayAsk(op, u, o, w)
                    \/ \E u \in User : MayAsk("cancel", u, o, Nowhere)
  BY DEF SomebodysTurn
<1>1. CASE status[o] \in Cancellable
  <2>1. PICK u \in Holder["create"] : u = submittedBy[o]
    BY <1>1 DEF DeskInv, TrackOK, Cancellable
  <2>2. u \in User
    BY DEF Permission
  <2>3. CanSee(u, o)
    BY <2>1 DEF Staffed, CanSee
  <2>4. MayAsk("cancel", u, o, Nowhere)
    BY <1>1, <2>1, <2>3 DEF MayAsk, MayCancel
  <2> QED  BY <2>2, <2>4
<1>2. CASE status[o] \in {"PROCESSING", "ON_TRACK"}
  <2>1. allocated[o] \in Warehouse /\ allocated[o] # Nowhere
    BY <1>2, AssignedSomewhere DEF WarehouseStage
  <2>2. PICK u \in (Everywhere \cup Team[allocated[o]]) \cap (Holder["fulfill"] \ Holder["assign"]) :
            TRUE
    BY <2>1 DEF Staffed
  <2>3. u \in User /\ CanSee(u, o) /\ OnDuty(u, o)
    BY <2>1, <2>2 DEF CanSee, OnDuty, Permission
  <2>4. NeedsMyAction(u, o)
    BY <1>2, <2>2 DEF NeedsMyAction, WarehouseStage
  <2>5. CASE status[o] = "PROCESSING"
    <3>1. MayAsk("dispatch", u, o, Nowhere)
      BY <2>2, <2>3, <2>5 DEF MayAsk, MayDispatch
    <3> QED  BY <2>3, <2>4, <3>1 DEF Op
  <2>6. CASE status[o] = "ON_TRACK"
    <3>1. MayAsk("fulfill", u, o, Nowhere)
      BY <2>1, <2>2, <2>3, <2>6 DEF MayAsk, MayFulfil
    <3> QED  BY <2>3, <2>4, <3>1 DEF Op
  <2> QED  BY <1>2, <2>5, <2>6
<1> QED  BY <1>1, <1>2, CurrentAre DEF InFlight, Cancellable

\* The control center counts what is a person's turn, and little besides.
LEMMA TilesTrue ==
  ASSUME Staffed, DeskInv PROVE TilesCountTurns
<1> SUFFICES ASSUME NEW o \in Order, NEW u \in User
             PROVE  /\ NeedsMyAction(u, o) /\ CanSee(u, o) /\ status[o] \notin {"DRAFT", "ON_TRACK"}
                          => Counted(u, o)
                    /\ Counted(u, o) =>
                          \/ status[o] = "SUBMITTED" /\ submittedBy[o] = u
                          \/ status[o] = "RELEASED" /\ u \in Holder["assign"]
                          \/ \E op \in Op \ {"assign", "reject", "cancel"} : MayAsk(op, u, o, Nowhere)
  BY DEF TilesCountTurns
<1>1. status[o] \in WarehouseStage => allocated[o] \in Warehouse /\ allocated[o] # Nowhere
  BY AssignedSomewhere
<1>2. ASSUME NeedsMyAction(u, o), CanSee(u, o), status[o] \notin {"DRAFT", "ON_TRACK"}
      PROVE  Counted(u, o)
  <2>1. CASE status[o] \in WarehouseStage
    <3>1. u \in Holder["fulfill"] /\ OnDuty(u, o)
      BY <1>2, <2>1, SeesOnDuty DEF NeedsMyAction, WarehouseStage
    <3> QED  BY <1>2, <2>1, <3>1 DEF OnDuty, Counted, WarehouseStage
  <2>2. CASE status[o] \notin WarehouseStage
    BY <1>2, <2>2 DEF NeedsMyAction, Counted
  <2> QED  BY <2>1, <2>2
<1>3. ASSUME Counted(u, o), status[o] \in {"RESERVED", "PROCESSING"}
      PROVE  \E op \in Op \ {"assign", "reject", "cancel"} : MayAsk(op, u, o, Nowhere)
  <2>1. u \in Holder["fulfill"] /\ OnDuty(u, o) /\ CanSee(u, o)
    BY <1>1, <1>3 DEF Counted, OnDuty, CanSee, WarehouseStage
  <2>2. CASE status[o] = "RESERVED"
    <3>1. MayAsk("start", u, o, Nowhere)
      BY <2>1, <2>2 DEF MayAsk, MayStart
    <3> QED  BY <3>1 DEF Op
  <2>3. CASE status[o] = "PROCESSING"
    <3>1. MayAsk("dispatch", u, o, Nowhere)
      BY <2>1, <2>3 DEF MayAsk, MayDispatch
    <3> QED  BY <3>1 DEF Op
  <2> QED  BY <1>3, <2>2, <2>3
<1>4. ASSUME Counted(u, o), status[o] = "SUBMITTED", submittedBy[o] # u
      PROVE  MayAsk("approve", u, o, Nowhere)
  BY <1>4 DEF Counted, MayAsk, MayApprove
<1>5. ASSUME Counted(u, o), status[o] = "APPROVED"
      PROVE  MayAsk("release", u, o, Nowhere)
  BY <1>5 DEF Counted, MayAsk, MayRelease
<1>6. {"approve", "release"} \subseteq Op \ {"assign", "reject", "cancel"}
  BY DEF Op
<1>7. Counted(u, o) =>
         \/ status[o] \in {"SUBMITTED", "APPROVED", "RESERVED", "PROCESSING"}
         \/ status[o] = "RELEASED" /\ u \in Holder["assign"]
  BY DEF Counted
<1> QED  BY <1>2, <1>3, <1>4, <1>5, <1>6, <1>7

\* sales-flow.ts, the order's panel and the control center: given people as the
\* seed makes them, for every number of orders, people and warehouses and
\* whatever races, the page shows the hand-offs that were done, names whose
\* turn it is, offers the buttons that work, and leaves no order in flight
\* with nobody to move it.
THEOREM ScreensAreTrue == ASSUME Staffed PROVE Spec => []ScreensTellTruth
<1>1. DeskInv => ScreensTellTruth
  BY TrackerTrue, ButtonsTrue, TurnTrue, TilesTrue DEF ScreensTellTruth
<1> QED  BY <1>1, DeskInductive, PTL
=============================================================================
