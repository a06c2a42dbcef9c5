------------------------------ MODULE SalesDesk ------------------------------
(***************************************************************************)
(* What the Sales page shows each person of an order: whose turn it is,    *)
(* the seven hand-offs of its journey, and the buttons of the order's      *)
(* panel.  The page works all of it out from the order and its trail, with *)
(* rules of its own; nothing here has state.  The list holds the orders    *)
(* that SalesOrdersService.list lets the person see.                       *)
(***************************************************************************)
EXTENDS SalesOrders

WarehouseStage == {"RESERVED", "PROCESSING", "ON_TRACK"}

\* STEPS: who hands the order on, and the events that say it was done.
STEPS ==
    <<[actor |-> "Sales Officer", events |-> {"SUBMITTED"}],
      [actor |-> "Finance Director", events |-> {"APPROVED"}],
      [actor |-> "Managing Director", events |-> {"RELEASED"}],
      [actor |-> "Warehouse Supervisor", events |-> {"ASSIGNED", "REASSIGNED"}],
      [actor |-> "Warehouse team", events |-> {"PROCESSING"}],
      [actor |-> "Warehouse team", events |-> {"ON_TRACK"}],
      [actor |-> "Warehouse team", events |-> {"DELIVERED"}]>>
Steps == DOMAIN STEPS

\* CURRENT: the hand-off an order in flight is waiting at.
CURRENT ==
    [DRAFT |-> 1, SUBMITTED |-> 2, APPROVED |-> 3, RELEASED |-> 4,
     RESERVED |-> 5, PROCESSING |-> 6, ON_TRACK |-> 7]
InFlight(o) == status[o] \in DOMAIN CURRENT

\* waitingOn: whose desk the order is on.
WaitingOn(o) ==
    CASE status[o] = "DRAFT" -> "Sales Officer"
      [] status[o] = "SUBMITTED" -> "Finance Director"
      [] status[o] = "APPROVED" -> "Managing Director"
      [] status[o] = "RELEASED" -> "Warehouse Supervisor"
      [] status[o] \in WarehouseStage -> "Warehouse team"
      [] OTHER -> "nobody"

\* needsMyAction: "It is your turn".
NeedsMyAction(u, o) ==
    \/ status[o] = "DRAFT" /\ u \in Holder["create"] /\ submittedBy[o] = u
    \/ status[o] = "SUBMITTED" /\ u \in Holder["approve"] /\ submittedBy[o] # u
    \/ status[o] = "APPROVED" /\ u \in Holder["release"]
    \/ status[o] = "RELEASED" /\ u \in Holder["assign"]
    \/ status[o] \in WarehouseStage /\ u \in Holder["fulfill"] \ Holder["assign"]

-----------------------------------------------------------------------------
(* chainSteps: which hand-offs are shown as done, and the one the order    *)
(* waits at (current) or ended at (stopped).                               *)

Happened(o, k) == \E i \in DOMAIN trail[o] : trail[o][i].type \in STEPS[k].events

\* rejectedAt, from the trail: by Finance, or by the Managing Director.
TurnedDown(o) ==
    \E i \in DOMAIN trail[o] : trail[o][i].type = "REJECTED" /\ trail[o][i].from = "APPROVED"
RejectedAt(o) == IF TurnedDown(o) THEN 3 ELSE 2

\* How far a cancelled order got: the steps before the first that did not happen.
ReachedAny(o) == {k \in Steps : Happened(o, k) \/ k < RejectedAt(o)}    \* seeded mistake
Reached(o) == {k \in Steps : \A j \in 1..k : Happened(o, j)}

DoneSteps(o) ==
    CASE InFlight(o) -> 1..(CURRENT[status[o]] - 1)
      [] status[o] = "FULFILLED" -> Steps
      [] status[o] = "REJECTED" -> 1..(RejectedAt(o) - 1)
      [] status[o] = "CANCELLED" -> Reached(o)

-----------------------------------------------------------------------------
(* OrderDetail: the buttons of an order's panel.                           *)

\* availability: the bags of the order are free at the warehouse.
CanFulfillAll(o, w) == stock[w] - Held(w) >= Bags[o]

\* AssignWarehouse offers every warehouse that can send it and does not have it.
Choosable(o) == {w \in Warehouse : CanFulfillAll(o, w) /\ allocated[o] # w}

Shows(op, u, o, w) ==
    CASE op = "submit" -> status[o] = "DRAFT" /\ submittedBy[o] = u /\ u \in Holder["create"]
      [] op = "approve" -> status[o] = "SUBMITTED" /\ u \in Holder["approve"] /\ submittedBy[o] # u
      [] op = "release" -> status[o] = "APPROVED" /\ u \in Holder["release"]
      [] op = "reject" ->     \* beside each of the two decisions
            \/ status[o] = "SUBMITTED" /\ u \in Holder["approve"] /\ submittedBy[o] # u
            \/ status[o] = "APPROVED" /\ u \in Holder["release"]
      [] op = "assign" ->
            status[o] \in {"RELEASED", "RESERVED"} /\ u \in Holder["assign"] /\ w \in Choosable(o)
      [] op = "start" -> status[o] = "RESERVED" /\ u \in Holder["fulfill"]
      [] op = "dispatch" -> status[o] = "PROCESSING" /\ u \in Holder["fulfill"]
      [] op = "fulfill" -> status[o] = "ON_TRACK" /\ u \in Holder["fulfill"]
      [] op = "cancel" ->
            /\ status[o] \in Cancellable
            /\ \/ submittedBy[o] = u /\ u \in Holder["create"]
               \/ u \in Holder["release"]

-----------------------------------------------------------------------------
(* The tiles of the control center: orders-approve, orders-release,        *)
(* orders-assign and orders-prepare.                                       *)

Counted(u, o) ==
    \/ /\ CanSee(u, o)
       /\ \/ status[o] = "SUBMITTED" /\ u \in Holder["approve"]
          \/ status[o] = "APPROVED" /\ u \in Holder["release"]
          \/ status[o] = "RELEASED" /\ u \in Holder["assign"]
    \/ /\ status[o] \in {"RESERVED", "PROCESSING"} /\ u \in Holder["fulfill"]
       /\ u \in Everywhere \cup Team[allocated[o]]

-----------------------------------------------------------------------------
(* Properties. *)

\* The hand-offs shown as done are exactly those that somebody did, whatever
\* raced with what, and an order in flight is with the person whose hand-off
\* comes next (chainSteps, waitingOn).
TrackerTellsTruth ==
    \A o \in Order : status[o] # "NONE" =>
        /\ DoneSteps(o) = {k \in Steps : Happened(o, k)}
        /\ InFlight(o) => STEPS[CURRENT[status[o]]].actor = WaitingOn(o)

\* The panel offers each person who sees an order every step they may take, and
\* nothing that would be refused; but rejecting one's own order, when it has
\* come to oneself to release, is offered and refused.
ButtonsWork ==
    \A o \in Order, u \in User, op \in Op :
        \A w \in IF op = "assign" THEN Choosable(o) ELSE {Nowhere} :
            (/\ CanSee(u, o)
             /\ op = "assign" => Len(reservation[o]) < MaxAssign
             /\ ~(op = "reject" /\ submittedBy[o] = u))
            => (Shows(op, u, o, w) <=> MayAsk(op, u, o, w))

\* No order in flight is left without a next step: somebody whose turn the
\* page says it is may take it there, or its maker or the Managing Director
\* may still call it off.
SomebodysTurn ==
    \A o \in Order : InFlight(o) =>
        \/ \E u \in User : NeedsMyAction(u, o) /\ CanSee(u, o)
                           /\ \E op \in Op \ {"reject", "cancel"}, w \in Choosable(o) \cup {Nowhere} :
                                 MayAsk(op, u, o, w)
        \/ \E u \in User : MayAsk("cancel", u, o, Nowhere)

\* The control center counts what the page says is a person's turn, except a
\* draft and an order on the road, and counts nothing that they could not take
\* a step further, except what a Finance Director submitted.
TilesCountTurns ==
    \A o \in Order, u \in User :
        /\ NeedsMyAction(u, o) /\ CanSee(u, o) /\ status[o] \notin {"DRAFT", "ON_TRACK"}
              => Counted(u, o)
        /\ Counted(u, o) =>
              \/ status[o] = "SUBMITTED" /\ submittedBy[o] = u
              \/ status[o] = "RELEASED" /\ u \in Holder["assign"]
              \/ \E op \in Op \ {"assign", "reject", "cancel"} : MayAsk(op, u, o, Nowhere)

ScreensTellTruth == TrackerTellsTruth /\ ButtonsWork /\ SomebodysTurn /\ TilesCountTurns

\* ControlCenterService: "a figure here is never different from the list it
\* opens", which is what the page says is that person's turn.
TilesMatchPage ==
    \A o \in Order, u \in User :
        Counted(u, o) <=> NeedsMyAction(u, o) /\ CanSee(u, o) /\ status[o] # "DRAFT"

-----------------------------------------------------------------------------
(* Why the page is right: what the trail has, given the status.  And of    *)
(* whom: the people as the seed makes them.                                *)

\* Hand-offs are done in order and never undone; the status of an order in
\* flight says exactly which were done, that of a rejected one who refused it.
TrackOK(o) ==
    /\ \A k \in Steps : Happened(o, k) => \A j \in 1 .. k : Happened(o, j)
    /\ status[o] = "NONE" => \A k \in Steps : ~Happened(o, k)
    /\ InFlight(o) => \A k \in Steps : Happened(o, k) <=> k < CURRENT[status[o]]
    /\ status[o] = "REJECTED" => \A k \in Steps : Happened(o, k) <=> k < RejectedAt(o)
    /\ status[o] = "FULFILLED" => \A k \in Steps : Happened(o, k)
    /\ status[o] \notin {"REJECTED", "CANCELLED", "FULFILLED"} => ~TurnedDown(o)
    /\ status[o] # "NONE" => submittedBy[o] \in Holder["create"]

DeskInv == IInv /\ \A o \in Order : TrackOK(o)

\* Whoever delivers and may see the orders of every warehouse, or make orders,
\* works for every warehouse (a supervisor's scope is GLOBAL), and every
\* warehouse has a team.
Staffed ==
    /\ \A u \in Holder["fulfill"] :
          (\E p \in {"approve", "release", "assign", "view", "create"} : u \in Holder[p])
              => u \in Everywhere
    /\ \A w \in Warehouse :
          (Everywhere \cup Team[w]) \cap (Holder["fulfill"] \ Holder["assign"]) # {}
=============================================================================
