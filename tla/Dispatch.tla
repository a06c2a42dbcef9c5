------------------------------- MODULE Dispatch -------------------------------
(***************************************************************************)
(* Paddy on its way from a farm to a warehouse (DeliveryOrdersService and  *)
(* DeliveryReportsService): a dispatch is asked for, one order per size;   *)
(* the farm manager loads a truck, one report per size, tied together by a *)
(* dispatch reference; the Farm Director approves it or sends it back, and *)
(* on approval the bags leave the farm.  Reports may also be made and      *)
(* decided one at a time.  The farm manager's task follows the work.       *)
(*                                                                         *)
(* One request for paddy is modelled, from one farm to one warehouse: all  *)
(* orders here carry its reference.  Each handler reads the reports and    *)
(* checks them ("Begin"), writes them in one transaction by their ids      *)
(* alone ("Commit"), and follows up afterwards, as best it can.  Counting  *)
(* a shipment in is one step here; ReceiptReviews.tla takes it apart.      *)
(***************************************************************************)
EXTENDS Integers, SequencesExt, Roles

CONSTANTS
    Size,           \* sizes of paddy
    Opening,        \* [Size -> Nat]: bags at the farm
    Farm,           \* the id of the farm
    Manager,        \* the farm's manager, who gets the task
    Request,        \* HTTP requests in flight
    MaxOrders, MaxReports,  \* bounds: rows of each table
    MaxBags,        \* bound: bags of one report
    Loader,         \* bound: the people who prepare loads and reports
    MovedTo         \* bound: where people move the task by hand

ASSUME BoundAssumption ==
    /\ MaxOrders \in Nat /\ MaxReports \in Nat /\ MaxBags \in Nat \ {0}
    /\ IsFiniteSet(Size) /\ Opening \in [Size -> Nat] /\ Loader \subseteq User
    /\ MovedTo \subseteq {"TODO", "IN_PROGRESS", "COMPLETED", "CANCELLED"}

VARIABLES
    orders,         \* the delivery orders: the size of each, in the order they are made
    reports,        \* the delivery reports, in the order they are made
    ship,           \* the shipment of each report that was approved
    trips,          \* how many dispatch references were given out
    farm,           \* bags of each size at the farm
    task,           \* the farm manager's task; history: it is where a person put it
    call,           \* what each HTTP request is about to do
    history         \* what happened that the rows do not tell

vars == <<orders, reports, ship, trips, farm, task, call, history>>

\* crossed: two requests worked on one size at once; lost: a follow-up was
\* lost; apart: dispatches whose reports were not always handled together;
\* sentBack: orders with a report that was once sent back.  What comes after
\* a crossing or a loss is not told.
Quiet == [apart |-> {}, sentBack |-> {}]
Crossed == [crossed |-> TRUE]
Lost == [lost |-> TRUE]
Orderly == history \notin {Crossed, Lost}

Status == {"DRAFT", "SUPERVISOR_REVIEW", "IN_TRANSIT", "RECONCILED", "REJECTED", "CANCELLED"}
EDITABLE_STATUSES == {"DRAFT", "SUPERVISOR_REVIEW", "REJECTED"}
IN_FLIGHT == {"SUPERVISOR_REVIEW", "IN_TRANSIT", "RECONCILED"}
Out == {"IN_TRANSIT", "RECONCILED"}

Order == DOMAIN orders
Report == DOMAIN reports
SizeOf(i) == orders[reports[i].order]
OfTrip(d) == {i \in Report : reports[i].trip = d}
OfOrder(o) == {i \in Report : reports[i].order = o}
Idle == [op |-> "none"]
NoShip == [at |-> "farm", bags |-> 0]

\* "In progress" stands for blocked, in review and the rest as well: what
\* follows tells them from the others only by what they are not.
TaskStatus == {"TODO", "IN_PROGRESS", "COMPLETED", "CANCELLED"}
NoTask == [at |-> "NONE", byHand |-> FALSE]

Init ==
    /\ orders = <<>> /\ reports = <<>> /\ ship = <<>>
    /\ trips = 0
    /\ farm = Opening
    /\ task = NoTask
    /\ call = [r \in Request |-> Idle]
    /\ history = Quiet

-----------------------------------------------------------------------------
(* createRequest: one order per size, and a task unless they asked themselves. *)

Ask(u, sizes) ==
    /\ orders = <<>>
    /\ \A r \in Request : call[r].op # "load"
    /\ HoldsAny(u, {"delivery.create"}) /\ InScope(u, Farm)
    /\ sizes # {} /\ \A s \in sizes : farm[s] >= 1
    /\ orders' = SetToSeq(sizes)
    /\ task' = IF u = Manager THEN NoTask ELSE [at |-> "TODO", by |-> u, byHand |-> FALSE]
    /\ UNCHANGED <<reports, ship, trips, farm, call, history>>

-----------------------------------------------------------------------------
(* The handlers up to their transactions.  Bounds: once requests have      *)
(* crossed they come one at a time; none comes after a lost follow-up, or  *)
(* a crossing with more than one report.                                   *)

\* The sizes that a request, past its checks, is about to work on.
Touched == UNION {call[q].sizes : q \in {q \in Request : call[q] # Idle /\ call[q].step = 1}}
Crossing(sizes) == history' = IF sizes \cap Touched # {} THEN Crossed ELSE history

CanBegin(r) ==
    /\ call[r] = Idle
    /\ history # Lost
    /\ history = Crossed => Len(reports) <= 1 /\ \A q \in Request : call[q] = Idle
Begin(r, c) ==
    /\ call' = [call EXCEPT ![r] = c]
    /\ Crossing(c.sizes)
    /\ UNCHANGED <<orders, reports, ship, trips, farm, task>>

Loaders == {u \in Loader : HoldsAny(u, {"delivery.create"}) /\ InScope(u, Farm)}
Deciders == [op \in {"approve", "reject"} |->
    {u \in User : /\ HoldsAny(u, {IF op = "approve" THEN "delivery.approve" ELSE "delivery.reject"})
                  /\ InScope(u, Farm)}]

\* An order with such a report "already has a dispatch under way".
UnderWayUnsent(o) == \E i \in OfOrder(o) : reports[i].status \in Out    \* seeded mistake
UnderWay(o) == \E i \in OfOrder(o) : reports[i].status \in IN_FLIGHT

\* createDispatch: a truck with some sizes, each for an order that has no
\* dispatch under way or, when its size has no order, for one made with it.
BeginLoad(r, u, line, submit) ==
    /\ Len(reports) + Cardinality(DOMAIN line) <= MaxReports
    /\ \A s \in DOMAIN line :
          \/ line[s] \in Order /\ orders[line[s]] = s /\ ~UnderWay(line[s])
          \/ line[s] = 0 /\ (\A o \in Order : orders[o] # s) /\ farm[s] >= 1
    /\ Begin(r, [op |-> "load", step |-> 1, by |-> u, sizes |-> DOMAIN line, line |-> line,
                 submit |-> submit])

\* create: one report for an order, whatever other reports it has.
BeginReport(r, u, o) ==
    /\ Len(reports) < MaxReports
    /\ Begin(r, [op |-> "report", step |-> 1, by |-> u, sizes |-> {orders[o]}, order |-> o])

\* What a route is about: one report by its id, or a dispatch by its reference.
Subjects == {<<0, {i}>> : i \in Report} \cup {<<d, OfTrip(d)>> : d \in 1 .. trips}
BeginOn(r, op, u, d, set) ==
    Begin(r, [op |-> op, step |-> 1, by |-> u, sizes |-> {SizeOf(i) : i \in set}, on |-> set,
              trip |-> d, bags |-> [i \in set |-> reports[i].bags]])

\* submit and submitDispatch: the second refuses what is already in review.
BeginSubmit(r, u, d, set) ==
    /\ \A i \in set :
          /\ reports[i].by = u
          /\ reports[i].status \in IF d = 0 THEN EDITABLE_STATUSES ELSE {"DRAFT", "REJECTED"}
    /\ BeginOn(r, "submit", u, d, set)

\* approve, reject and the same of a whole dispatch.
InReviewOrDraft(i) == reports[i].status \in {"DRAFT", "SUPERVISOR_REVIEW"}  \* seeded mistake
InReview(i) == reports[i].status = "SUPERVISOR_REVIEW"
BeginDecide(r, op, u, d, set) ==
    /\ \A i \in set : InReview(i) /\ reports[i].by # u
    /\ BeginOn(r, op, u, d, set)

\* update: the bags of a report, until it is approved.
EditableAnyway(i) == reports[i].status # "CANCELLED"    \* seeded mistake
Editable(i) == reports[i].status \in EDITABLE_STATUSES
BeginEdit(r, u, i) ==
    /\ Editable(i) /\ reports[i].by = u
    /\ BeginOn(r, "edit", u, 0, {i})

-----------------------------------------------------------------------------
(* Their transactions. *)

At(r, op) == call[r].op = op /\ call[r].step = 1
Finish(r) == call' = [call EXCEPT ![r] = Idle]
ToFollowUp(r) == call' = [call EXCEPT ![r] = [op |-> call[r].op, step |-> 2]]

\* For the history: whether reports of a dispatch are handled one by one.
Apart(of, sentBack) ==
    history' = IF Orderly THEN [apart |-> history.apart \cup (of \ {0}),
                                sentBack |-> history.sentBack \cup sentBack]
               ELSE history
OneByOne(r) == IF call[r].trip = 0 THEN {reports[i].trip : i \in call[r].on} ELSE {}

NewReport(o, trip, u, status) == [order |-> o, trip |-> trip, by |-> u, bags |-> 1, status |-> status]
Unshipped(rows) == ship' = ship \o [k \in DOMAIN rows |-> NoShip]

\* The same person's drafts for these orders are replaced; other people's stay.
CommitLoad(r) ==
    LET c == call[r]
        new == SetToSeq({s \in c.sizes : c.line[s] = 0})
        orderOf(s) == IF c.line[s] # 0 THEN c.line[s]
                      ELSE Len(orders) + CHOOSE k \in DOMAIN new : new[k] = s
        mine == {c.line[s] : s \in c.sizes} \ {0}
        status == IF c.submit THEN "SUPERVISOR_REVIEW" ELSE "DRAFT"
        replaced(i) == reports[i].order \in mine /\ reports[i].by = c.by /\ reports[i].status = "DRAFT"
        rows == [k \in 1 .. Cardinality(c.sizes) |->
                    NewReport(orderOf(SetToSeq(c.sizes)[k]), trips + 1, c.by, status)]
    IN  /\ At(r, "load")
        /\ Len(orders) + Len(new) <= MaxOrders /\ Len(reports) + Len(rows) <= MaxReports
        /\ orders' = orders \o new
        /\ reports' = [i \in Report |-> IF replaced(i) THEN [reports[i] EXCEPT !.status = "CANCELLED"]
                                        ELSE reports[i]] \o rows
        /\ Unshipped(rows)
        /\ trips' = trips + 1
        /\ Apart({reports[i].trip : i \in {i \in Report : replaced(i)}}, {})
        /\ ToFollowUp(r)
        /\ UNCHANGED <<farm, task>>

CommitReport(r) ==
    LET rows == <<NewReport(call[r].order, 0, call[r].by, "DRAFT")>> IN
    /\ At(r, "report")
    /\ Len(reports) < MaxReports
    /\ reports' = reports \o rows
    /\ Unshipped(rows)
    /\ ToFollowUp(r)
    /\ UNCHANGED <<orders, trips, farm, task, history>>

SetStatus(set, status) ==
    reports' = [i \in Report |-> IF i \in set THEN [reports[i] EXCEPT !.status = status]
                                 ELSE reports[i]]

CommitSubmit(r) ==
    /\ At(r, "submit")
    /\ SetStatus(call[r].on, "SUPERVISOR_REVIEW")
    /\ Apart(OneByOne(r), {})
    /\ ToFollowUp(r)
    /\ UNCHANGED <<orders, ship, trips, farm, task>>

CommitReject(r) ==
    /\ At(r, "reject")
    /\ SetStatus(call[r].on, "REJECTED")
    /\ Apart(OneByOne(r), {reports[i].order : i \in call[r].on})
    /\ Finish(r)
    /\ UNCHANGED <<orders, ship, trips, farm, task>>

\* Bound: one edit.
CommitEdit(r, n) ==
    /\ At(r, "edit") /\ \A i \in Report : reports[i].bags = 1
    /\ reports' = [i \in Report |-> IF i \in call[r].on THEN [reports[i] EXCEPT !.bags = n]
                                    ELSE reports[i]]
    /\ Finish(r)
    /\ UNCHANGED <<orders, ship, trips, farm, task, history>>

\* approveInTx, once per report: a report has one shipment at most (unique
\* key), the bags are those that were read, and the farm must have them all.
HasShipNever(i) == FALSE    \* seeded mistake: without the unique key
HasShip(i) == ship[i].at # "farm"
LeavingSome(r) == {CHOOSE i \in call[r].on : TRUE}   \* seeded mistake: the first size only
Leaving(r) == call[r].on
Load(r, set, s) ==
    SumFunctionOnSet([i \in set |-> IF SizeOf(i) = s THEN call[r].bags[i] ELSE 0], set)
CommitApprove(r) ==
    /\ At(r, "approve")
    /\ \A i \in call[r].on : ~HasShip(i)
    /\ \A s \in Size : Load(r, Leaving(r), s) <= farm[s]
    /\ farm' = [s \in Size |-> farm[s] - Load(r, Leaving(r), s)]
    /\ ship' = [i \in Report |-> IF i \in Leaving(r) THEN [at |-> "road", bags |-> call[r].bags[i]]
                                 ELSE ship[i]]
    /\ SetStatus(Leaving(r), "IN_TRANSIT")
    /\ Apart(OneByOne(r), {})
    /\ ToFollowUp(r)
    /\ UNCHANGED <<orders, trips, task>>

\* afterReportStep: the task is in progress once there is a report, and done
\* once every order of the request has one that is out.
AllOutOnRoad == \A o \in Order : \E i \in OfOrder(o) : reports[i].status = "IN_TRANSIT"   \* seeded mistake
AllOut == \A o \in Order : \E i \in OfOrder(o) : reports[i].status \in Out
Closes(r) == call[r].op = "approve" /\ task.at \in {"TODO", "IN_PROGRESS"} /\ AllOut
Starts(r) == call[r].op # "approve" /\ task.at = "TODO"
FollowUp(r) ==
    /\ call[r] # Idle /\ call[r].step = 2
    /\ task' = IF Closes(r) THEN [task EXCEPT !.at = "COMPLETED", !.byHand = FALSE]
               ELSE IF Starts(r) THEN [task EXCEPT !.at = "IN_PROGRESS"] ELSE task
    /\ Finish(r)
    /\ UNCHANGED <<orders, reports, ship, trips, farm, history>>

\* TasksService.updateStatus: whoever has the task, gave it or gives tasks
\* moves it from wherever it is to wherever they say.  Bound: once until an
\* approval closes it.
MoveTask(u, to) ==
    /\ task.at # "NONE" /\ ~task.byHand
    /\ u \in {Manager, task.by} \/ HoldsAny(u, {"tasks.assign"})
    /\ to = "COMPLETED" => HoldsAny(u, {"tasks.complete", "tasks.assign"})
    /\ to # task.at
    /\ task' = [task EXCEPT !.at = to, !.byHand = TRUE]
    /\ UNCHANGED <<orders, reports, ship, trips, farm, call, history>>

\* A handler is refused, rolled back, or its process dies.
Fail(r) ==
    /\ call[r] # Idle
    /\ history' = IF Orderly /\ call[r].step = 2 THEN Lost ELSE history
    /\ Finish(r)
    /\ UNCHANGED <<orders, reports, ship, trips, farm, task>>

\* ShipmentsService.receive.
CountIn(i) ==
    /\ i \in Report /\ ship[i].at = "road"
    /\ ship' = [ship EXCEPT ![i].at = "there"]
    /\ SetStatus({i}, "RECONCILED")
    /\ Crossing({SizeOf(i)})
    /\ UNCHANGED <<orders, trips, farm, task, call>>

Prepare(r, u) ==
    \/ \E some \in SUBSET Size \ {{}}, submit \in BOOLEAN :
          \E line \in [some -> 0 .. Len(orders)] : BeginLoad(r, u, line, submit)
    \/ \E o \in Order : BeginReport(r, u, o)
    \/ \E on \in Subjects : BeginSubmit(r, u, on[1], on[2])
    \/ \E i \in Report : BeginEdit(r, u, i)

Decide(r) ==
    \E op \in {"approve", "reject"}, on \in Subjects :
        \E u \in Deciders[op] : BeginDecide(r, op, u, on[1], on[2])

Next ==
    \/ \E u \in User, sizes \in SUBSET Size : Ask(u, sizes)
    \/ \E r \in Request :
          \/ CanBegin(r) /\ (Decide(r) \/ \E u \in Loaders : Prepare(r, u))
          \/ CommitLoad(r) \/ CommitReport(r) \/ CommitSubmit(r) \/ CommitReject(r)
          \/ \E n \in 2 .. MaxBags : CommitEdit(r, n)
          \/ CommitApprove(r) \/ FollowUp(r) \/ Fail(r)
    \/ \E i \in Report : CountIn(i)
    \/ \E u \in User, to \in MovedTo : MoveTask(u, to)

Spec == Init /\ [][Next]_vars
-----------------------------------------------------------------------------
(* What the Dispatch desk shows: trackingOf and buildRequestCards. *)

\* The current report of an order is its newest that was not replaced.
Current(o) == Max({i \in OfOrder(o) : reports[i].status # "CANCELLED"} \cup {0})
STAGE_RANK == [PREPARING |-> 1, IN_REVIEW |-> 2, ON_THE_WAY |-> 3, ARRIVED |-> 4]
StageOfReport(i) ==
    CASE reports[i].status = "RECONCILED" \/ ship[i].at = "there" -> "ARRIVED"
      [] OTHER -> [IN_TRANSIT |-> "ON_THE_WAY", SUPERVISOR_REVIEW |-> "IN_REVIEW",
                   DRAFT |-> "PREPARING", REJECTED |-> "PREPARING"][reports[i].status]
Stage(o) == IF Current(o) = 0 THEN "PREPARING" ELSE StageOfReport(Current(o))

\* A request is as far along as its slowest size.
Card == Min({STAGE_RANK[Stage(o)] : o \in Order})

-----------------------------------------------------------------------------
(* Properties. *)

OfSize(s) == {i \in Report : SizeOf(i) = s}
Shipped == [i \in Report |-> ship[i].bags]

\* approveInTx and receive: however handlers race, each bag that is no longer
\* at the farm is on the one shipment of the report that it left with.
BagsConserved ==
    \A s \in Size : farm[s] + SumFunctionOnSet(Shipped, OfSize(s)) = Opening[s]

\* "... already has a dispatch under way": an order whose loads are prepared
\* by one person, as whole dispatches, has one under way at most, as long
\* as none was sent back and no two requests for its size overlap.
OneUnderWay ==
    Orderly => \A o \in Order :
        \/ o \in history.sentBack
        \/ \E i, j \in OfOrder(o) : reports[i].by # reports[j].by \/ reports[i].trip = 0
        \/ Cardinality({i \in OfOrder(o) : reports[i].status \in IN_FLIGHT}) <= 1

\* The same without the exception for what was sent back, and for dispatches
\* that are only handled as one, as the message of createDispatch has it.
OneDispatchPerOrder ==
    Orderly => \A o \in Order : Cardinality({i \in OfOrder(o) :
        reports[i].trip \notin history.apart \cup {0} /\ reports[i].status \in IN_FLIGHT}) <= 1

\* "saved, submitted, approved or sent back together, all or none": the
\* sizes of a dispatch that is only handled as one, without overlap, are all
\* at the same point until they are counted in.
Together ==
    Orderly => \A d \in 1 .. trips \ history.apart : \A i, j \in OfTrip(d) :
        \/ reports[i].status = reports[j].status
        \/ {reports[i].status, reports[j].status} \subseteq Out

\* update and submit: what left stays as it was approved.  Without overlap
\* the report of a shipment still says as many bags, and that they left.
WhatLeftStands ==
    Orderly => \A i \in Report : ship[i].at # "farm" =>
        reports[i].bags = ship[i].bags /\ reports[i].status \in Out

\* The farm manager's task is done once the last size is out, in whichever
\* order approvals end, and never stays "to do" once there is a report,
\* unless a follow-up is lost or still to come, or somebody moved the task by
\* hand and no approval closed it since.
TaskFollows ==
    \/ ~Orderly \/ task.at = "NONE" \/ task.byHand
    \/ \E r \in Request : call[r] # Idle /\ call[r].step = 2
    \/ /\ reports # <<>> => task.at # "TODO"
       /\ (\A o \in Order : \E i \in OfOrder(o) : ship[i].at # "farm") => task.at = "COMPLETED"

\* What Supply.tla takes for granted of a dispatch: its card goes back only
\* for another load, and forward only by review, approval and arrival.
CardMoves ==
    [][<<reports, ship>>' # <<reports, ship>> /\ Orderly' =>
        LET before == IF orders = <<>> THEN 1 ELSE Card
            after == Card'
        IN  \/ after = before
            \/ after <= STAGE_RANK.IN_REVIEW
            \/ <<before, after>> = <<STAGE_RANK.IN_REVIEW, STAGE_RANK.ON_THE_WAY>>
            \/ <<before, after>> = <<STAGE_RANK.ON_THE_WAY, STAGE_RANK.ARRIVED>>]_vars

-----------------------------------------------------------------------------
(* The inductive invariants: why the properties hold. *)

Op == {"load", "report", "submit", "approve", "reject", "edit"}
Task == [at : TaskStatus, by : User, byHand : BOOLEAN]
Told == [apart : SUBSET Nat, sentBack : SUBSET Nat]
Row == [order : Nat, trip : Nat, by : User, bags : Nat, status : Status]
Carried == [at : {"farm", "road", "there"}, bags : Nat]

\* What a request past its checks works on.
AimOK(c) ==
    /\ c.sizes \subseteq Size
    /\ c.op = "load" =>
          /\ c.by \in User /\ c.submit \in BOOLEAN
          /\ c.line \in [c.sizes -> {0} \cup Order]
          /\ \A s \in c.sizes : c.line[s] # 0 => orders[c.line[s]] = s
    /\ c.op = "report" => c.by \in User /\ c.order \in Order /\ c.sizes = {orders[c.order]}
    /\ c.op \notin {"load", "report"} =>
          /\ c.on \subseteq Report /\ c.sizes = {SizeOf(i) : i \in c.on}
          /\ c.bags \in [c.on -> Nat]
          /\ c.trip \in 0 .. trips /\ (c.trip # 0 => c.on = OfTrip(c.trip))

TypeOK ==
    /\ orders \in Seq(Size) /\ reports \in Seq(Row) /\ ship \in Seq(Carried)
    /\ Len(ship) = Len(reports)
    /\ trips \in Nat
    /\ \A i \in Report : reports[i].order \in Order /\ reports[i].trip \in 0 .. trips
    /\ task \in {NoTask} \cup Task
    /\ history \in {Crossed, Lost} \cup Told
    /\ DOMAIN call = Request
    /\ \A r \in Request : call[r] # Idle =>
          /\ call[r].op \in Op /\ call[r].step \in {1, 2}
          /\ call[r].step = 1 => AimOK(call[r])

\* While nothing crossed, requests past their checks work on different sizes,
\* and what they have checked still holds.
Working(r) == call[r] # Idle /\ call[r].step = 1
ReadStill(c) ==
    /\ c.op = "load" => \A s \in c.sizes : c.line[s] # 0 => ~UnderWay(c.line[s])
    /\ c.op \in {"submit", "edit"} => \A i \in c.on : Editable(i)
    /\ c.op \in {"approve", "reject"} => \A i \in c.on : InReview(i)
    /\ c.op = "approve" => \A i \in c.on : reports[i].bags = c.bags[i]
WorkOK ==
    /\ \A q, r \in Request : q # r /\ Working(q) /\ Working(r) => call[q].sizes \cap call[r].sizes = {}
    /\ \A r \in Request : Working(r) => ReadStill(call[r])

\* An order has one report that counts, unless it was sent back or other
\* people, or single reports, have to do with it.
Mixed(o) == \E i, j \in OfOrder(o) : reports[i].by # reports[j].by \/ reports[i].trip = 0
Counts(i) == reports[i].status # "CANCELLED"
OneCounts ==
    /\ \A o \in Order \ history.sentBack :
          Mixed(o) \/ \A i, j \in OfOrder(o) : Counts(i) /\ Counts(j) => i = j
    /\ \A i \in Report : reports[i].status = "REJECTED" => reports[i].order \in history.sentBack

\* Somebody's follow-up is still to come, or the task is as it should be,
\* or where somebody put it.
Following(r) == call[r] # Idle /\ call[r].step = 2
TaskOK ==
    /\ task.at = "TODO" /\ reports # <<>> /\ ~task.byHand =>
          \E r \in Request : Following(r) /\ call[r].op # "approve"
    /\ task.at \notin {"NONE", "COMPLETED"} /\ ~task.byHand =>
          \/ \E o \in Order : \A i \in OfOrder(o) : ship[i].at = "farm"
          \/ \E r \in Request : Following(r) /\ call[r].op = "approve"
    /\ task.at = "CANCELLED" => task.byHand

\* What has not left is on no shipment, and the farm never owes bags.
StockOK ==
    /\ farm \in [Size -> Nat]
    /\ \A i \in Report : ship[i].at = "farm" => ship[i].bags = 0
    /\ BagsConserved

IInv == TypeOK /\ Together /\ WhatLeftStands /\ (Orderly => WorkOK /\ OneCounts /\ TaskOK)
=============================================================================
