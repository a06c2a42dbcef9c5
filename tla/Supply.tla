-------------------------------- MODULE Supply --------------------------------
(***************************************************************************)
(* Paddy requests (SupplyRequestsService): a warehouse or a mill asks, a   *)
(* reviewer sends it on, a supplier answers, by asking a farm to dispatch, *)
(* by asking another warehouse to send, or by saying that the paddy is     *)
(* ready; a supervisor who is short asks the Farm Director in turn, with a *)
(* request of their own.  Also what everybody is shown of it: the stage,   *)
(* and "your move".                                                       *)
(*                                                                         *)
(* Each handler reads the row and checks it, and updates it later, by its  *)
(* id alone except for the mill's confirmation.  How a farm's dispatch and *)
(* a transfer of paddy move is left to other modules: here a transfer is a *)
(* trip of Haulage.tla, and stock is there or not.                         *)
(***************************************************************************)
EXTENDS Integers, SequencesExt, Roles

CONSTANTS
    N,              \* bound: requests for paddy
    MaxAsked,       \* bound: those that do not come from another request
    MaxSent,        \* bound: dispatches and transfers for one request
    MaxBusy,        \* bound: HTTP requests in flight once one request led to another
    BoardLimit,     \* the rows that a board takes, the newest first: 200 in the code
    Warehouse, Mill, WarehouseOf, Farm,
    Request,        \* HTTP requests in flight
    None

Ask == 1 .. N
DrawnFrom == {WarehouseOf[m] : m \in Mill}

ASSUME BoundAssumption == N \in Nat /\ MaxAsked \in Nat /\ MaxSent \in Nat /\ BoardLimit \in Nat
ASSUME MillAssumption == WarehouseOf \in [Mill -> Warehouse] /\ None \notin User \cup Mill \cup Warehouse

VARIABLES
    req,            \* the rows, in the order they are made
    dispatch,       \* [Ask -> Seq]: the stage of each dispatch asked of a farm
    sent,           \* [Ask -> Seq]: where each transfer that answers is
    enough,         \* [DrawnFrom -> BOOLEAN]: the paddy that a mill needs is there
    readied,        \* history: how often the supervisor has said "ready"
    receipts,       \* the mill's own records of paddy received
    call,           \* what each HTTP request is about to do
    crossed         \* history: two of them worked on it at once, or one died halfway

vars == <<req, dispatch, sent, enough, readied, receipts, call, crossed>>
answers == <<dispatch, sent, enough, readied, receipts>>

Status == {"SUBMITTED", "FORWARDED", "ASSIGNED", "READY", "RECEIVED", "DECLINED", "CANCELLED"}
\* A dispatch that is only asked for is shown as one that is being prepared,
\* and nothing cancels a delivery order.
DispatchStage == {"PREPARING", "IN_REVIEW", "ON_THE_WAY", "ARRIVED"}
Dead == {"DECLINED", "CANCELLED"}
NoRow == [status |-> "NONE"]
Idle == [op |-> "none", on |-> 0]

Made(q) == req[q].status # "NONE"
NextAsk == Cardinality({q \in Ask : Made(q)}) + 1
IsMill(q) == req[q].mill # None
Children(q) == {c \in Ask : Made(c) /\ req[c].parent = q}
LiveChildren(q) == {c \in Children(q) : req[c].status \notin Dead}
LiveTrips(q) == {i \in DOMAIN sent[q] : sent[q][i] # "back"}

Init ==
    /\ req = [q \in Ask |-> NoRow]
    /\ dispatch = [q \in Ask |-> <<>>]
    /\ sent = [q \in Ask |-> <<>>]
    /\ enough \in [DrawnFrom -> BOOLEAN]
    /\ readied = [q \in Ask |-> 0]
    /\ receipts = [q \in Ask |-> 0]
    /\ call = [r \in Request |-> Idle]
    /\ crossed = [q \in Ask |-> FALSE]

-----------------------------------------------------------------------------
(* Who may do what: the checks of each handler. *)

ReviewerOf(mill) == IF mill = None THEN "WAREHOUSE_SUPERVISOR" ELSE "OPERATIONS_MANAGER"
SupplierOf(mill) == IF mill = None THEN "FARM_DIRECTOR" ELSE "WAREHOUSE_SUPERVISOR"
MayReview(u, q) == HasRole(u, {ReviewerOf(req[q].mill)})
MaySupply(u, q) == HasRole(u, {SupplierOf(req[q].mill)})

MayForward(u, q) ==
    /\ HoldsAny(u, {"supply.forward"})
    /\ req[q].status = "SUBMITTED"
    /\ MayReview(u, q)
    /\ IsMill(q) \/ InScope(u, req[q].wh)

MayDecline(u, q) ==
    /\ HoldsAny(u, {"supply.forward", "supply.fulfil"})
    /\ \/ /\ req[q].status = "SUBMITTED" /\ MayReview(u, q)
          /\ IsMill(q) \/ InScope(u, req[q].wh)
       \/ /\ req[q].status = "FORWARDED" /\ MaySupply(u, q)
          /\ IsMill(q) => InScope(u, req[q].wh)

MayAssign(u, q) ==
    /\ HoldsAny(u, {"supply.fulfil"})
    /\ req[q].status = "FORWARDED" /\ ~IsMill(q)
    /\ MaySupply(u, q)
MayAssignFarm(u, q) == MayAssign(u, q) /\ \E f \in Farm : InScope(u, f)
MayAssignTo(u, q, w) == MayAssign(u, q) /\ w # req[q].wh

MayAnswerMill(u, q) ==
    /\ HoldsAny(u, {"supply.fulfil"})
    /\ req[q].status = "FORWARDED" /\ IsMill(q)
    /\ MaySupply(u, q) /\ InScope(u, req[q].wh)
MayReady(u, q) == MayAnswerMill(u, q) /\ enough[req[q].wh]
MayAskMore(u, q) == MayAnswerMill(u, q) /\ LiveChildren(q) = {} /\ ~enough[req[q].wh]

MayCancel(u, q) ==
    /\ HoldsAny(u, {"supply.request"})
    /\ req[q].by = u \/ IsAdmin(u)
    /\ req[q].status \in {"SUBMITTED", "FORWARDED"}

MayReceive(u, q) ==
    /\ HoldsAny(u, {"supply.request"})
    /\ req[q].status = "READY" /\ IsMill(q)
    /\ HasRole(u, {"OPERATIONS_OFFICER", "OPERATIONS_MANAGER"})
    /\ InScope(u, req[q].mill)

\* PaddyTransfersService.send with the number of a request.
AnsweredTwice(q) == FALSE   \* seeded mistake: a transfer on its way is not looked for
Answered(q) == LiveTrips(q) # {}
MaySend(u, q) ==
    /\ HoldsAny(u, {"warehouse.transfer"})
    /\ req[q].status = "ASSIGNED" /\ req[q].src # None
    /\ InScope(u, req[q].src)
    /\ ~Answered(q)

Op == {"forward", "decline", "assignFarm", "assignTo", "ready", "askMore", "cancel", "receive", "send"}
May(op, u, q, w) ==
    CASE op = "forward" -> MayForward(u, q)
      [] op = "decline" -> MayDecline(u, q)
      [] op = "assignFarm" -> MayAssignFarm(u, q)
      [] op = "assignTo" -> MayAssignTo(u, q, w)
      [] op = "ready" -> MayReady(u, q)
      [] op = "askMore" -> MayAskMore(u, q)
      [] op = "cancel" -> MayCancel(u, q)
      [] op = "receive" -> MayReceive(u, q)
      [] op = "send" -> MaySend(u, q)

-----------------------------------------------------------------------------
(* The handlers. *)

NewRow(mill, wh, u, passedOn, parent) ==
    [status |-> IF passedOn THEN "FORWARDED" ELSE "SUBMITTED", mill |-> mill, wh |-> wh, by |-> u,
     fwd |-> IF passedOn THEN u ELSE None, farm |-> 0, src |-> None, parent |-> parent]

\* Someone who reviews does not send it to themselves first.
SelfReviewAsker(u) == HoldsAny(u, {"supply.request"})   \* seeded mistake
SelfReview(u) == HoldsAny(u, {"supply.forward"})

Create(u, mill, wh) ==
    /\ NextAsk <= N
    /\ Cardinality({q \in Ask : Made(q) /\ req[q].parent = 0}) < MaxAsked
    /\ HoldsAny(u, {"supply.request"})
    /\ IF mill = None THEN InScope(u, wh) ELSE InScope(u, mill) /\ wh = WarehouseOf[mill]
    /\ req' = [req EXCEPT ![NextAsk] = NewRow(mill, wh, u, SelfReview(u), 0)]
    /\ UNCHANGED <<answers, call, crossed>>

\* A handler reads the row, and what else it looks at, and checks.
Begin(r, op, u, q, w) ==
    /\ call[r] = Idle
    /\ NextAsk > MaxAsked + 1 => Cardinality({s \in Request : call[s] # Idle}) < MaxBusy
    /\ Made(q)
    /\ May(op, u, q, w)
    /\ call' = [call EXCEPT ![r] = [op |-> op, by |-> u, on |-> q, step |-> 1, ref |-> 0,
                                    to |-> IF op = "assignTo" THEN w ELSE None]]
    /\ crossed' = [crossed EXCEPT ![q] = @ \/ \E s \in Request : call[s].on = q]
    /\ UNCHANGED <<req, answers>>

At(r, op, step) == call[r].op = op /\ call[r].step = step
End(r) == call' = [call EXCEPT ![r] = Idle]
SetStatus(r, status) == req' = [req EXCEPT ![call[r].on].status = status]

Forward(r) ==
    /\ At(r, "forward", 1)
    /\ req' = [req EXCEPT ![call[r].on].status = "FORWARDED", ![call[r].on].fwd = call[r].by]
    /\ End(r)
    /\ UNCHANGED <<answers, crossed>>

DeclineOrCancel(r) ==
    /\ \/ At(r, "decline", 1) /\ SetStatus(r, "DECLINED")
       \/ At(r, "cancel", 1) /\ SetStatus(r, "CANCELLED")
    /\ End(r)
    /\ UNCHANGED <<answers, crossed>>

\* assign: the dispatch is asked of the farm, in its own transaction ...
AskFarm(r) ==
    /\ At(r, "assignFarm", 1)
    /\ Len(dispatch[call[r].on]) < MaxSent
    /\ dispatch' = [dispatch EXCEPT ![call[r].on] = Append(@, "PREPARING")]
    /\ call' = [call EXCEPT ![r].step = 2, ![r].ref = Len(dispatch'[call[r].on])]
    /\ UNCHANGED <<req, sent, enough, readied, receipts, crossed>>

\* ... and then noted on the request.
NoteFarm(r) ==
    /\ At(r, "assignFarm", 2)
    /\ req' = [req EXCEPT ![call[r].on].status = "ASSIGNED",
                          ![call[r].on].farm = call[r].ref]
    /\ End(r)
    /\ UNCHANGED <<answers, crossed>>

AssignTo(r) ==
    /\ At(r, "assignTo", 1)
    /\ req' = [req EXCEPT ![call[r].on].status = "ASSIGNED", ![call[r].on].src = call[r].to]
    /\ End(r)
    /\ UNCHANGED <<answers, crossed>>

Ready(r) ==
    /\ At(r, "ready", 1)
    /\ SetStatus(r, "READY")
    /\ readied' = [readied EXCEPT ![call[r].on] = @ + 1]
    /\ End(r)
    /\ UNCHANGED <<dispatch, sent, enough, receipts, crossed>>

\* askFarmDirector: a request of the supervisor's own, already sent on.
AskMore(r) ==
    /\ At(r, "askMore", 1)
    /\ NextAsk <= N
    /\ req' = [req EXCEPT ![NextAsk] =
                  NewRow(None, req[call[r].on].wh, call[r].by, TRUE, call[r].on)]
    /\ End(r)
    /\ UNCHANGED <<answers, crossed>>

\* receivedAtMill: the request is claimed, then the mill's receipt is made;
\* if that fails the claim is taken back.
ClaimAnyway(r) == TRUE      \* seeded mistake
Claimable(r) == req[call[r].on].status = "READY"
Claim(r) ==
    /\ At(r, "receive", 1)
    /\ Claimable(r)
    /\ SetStatus(r, "RECEIVED")
    /\ call' = [call EXCEPT ![r].step = 2]
    /\ UNCHANGED <<answers, crossed>>

MakeReceipt(r) ==
    /\ At(r, "receive", 2)
    /\ receipts' = [receipts EXCEPT ![call[r].on] = @ + 1]
    /\ End(r)
    /\ UNCHANGED <<req, dispatch, sent, enough, readied, crossed>>

TakeBackClaim(r) ==
    /\ At(r, "receive", 2)
    /\ SetStatus(r, "READY")
    /\ End(r)
    /\ UNCHANGED <<answers, crossed>>

Send(r) ==
    /\ At(r, "send", 1)
    /\ Len(sent[call[r].on]) < MaxSent
    /\ sent' = [sent EXCEPT ![call[r].on] = Append(@, "road")]
    /\ End(r)
    /\ UNCHANGED <<req, dispatch, enough, readied, receipts, crossed>>

\* A handler fails or its process dies; halfway, what it did stays.
Fail(r) ==
    /\ call[r] # Idle
    /\ crossed' = [crossed EXCEPT ![call[r].on] = @ \/ call[r].step = 2]
    /\ End(r)
    /\ UNCHANGED <<req, answers>>

-----------------------------------------------------------------------------
(* What other components do meanwhile. *)

\* The farm's dispatch moves as Dispatch.tla shows its card to (CardMoves):
\* back for another load, forward by review, approval and arrival.
DispatchMoves(q, i, to) ==
    /\ i \in DOMAIN dispatch[q]
    /\ \/ to \in {"PREPARING", "IN_REVIEW"}
       \/ dispatch[q][i] = "IN_REVIEW" /\ to = "ON_THE_WAY"
       \/ dispatch[q][i] = "ON_THE_WAY" /\ to = "ARRIVED"
    /\ dispatch' = [dispatch EXCEPT ![q][i] = to]
    /\ UNCHANGED <<req, sent, enough, readied, receipts, call, crossed>>

\* Haulage: a transfer arrives or is called back, once.
TripEnds(q, i, at) ==
    /\ i \in DOMAIN sent[q] /\ sent[q][i] = "road"
    /\ sent' = [sent EXCEPT ![q][i] = at]
    /\ UNCHANGED <<req, dispatch, enough, readied, receipts, call, crossed>>

StockChanges(w) ==
    /\ enough' = [enough EXCEPT ![w] = ~@]
    /\ UNCHANGED <<req, dispatch, sent, readied, receipts, call, crossed>>

Next ==
    \/ \E u \in User, mill \in Mill \cup {None}, wh \in Warehouse : Create(u, mill, wh)
    \/ \E r \in Request :
          \/ \E op \in Op, u \in User, q \in Ask, w \in Warehouse : Begin(r, op, u, q, w)
          \/ Forward(r) \/ DeclineOrCancel(r) \/ AskFarm(r) \/ NoteFarm(r) \/ AssignTo(r)
          \/ Ready(r) \/ AskMore(r) \/ Claim(r) \/ MakeReceipt(r) \/ TakeBackClaim(r)
          \/ Send(r) \/ Fail(r)
    \/ \E q \in Ask, i \in 1 .. MaxSent :
          (\E to \in DispatchStage : DispatchMoves(q, i, to)) \/ \E at \in {"there", "back"} : TripEnds(q, i, at)
    \/ \E w \in DrawnFrom : StockChanges(w)

Spec == Init /\ [][Next]_vars
-----------------------------------------------------------------------------
(* What everybody is shown: buildSupplyView and counts. *)

\* The newest child that still counts, or else the newest.
HasChild(q) == Children(q) # {}
Child(q) == IF LiveChildren(q) # {} THEN Max(LiveChildren(q)) ELSE Max(Children(q))

\* The transfer that is shown is the last that was not called back.
Trip(q) == sent[q][Max(LiveTrips(q))]

Stage(q) ==
    CASE req[q].status \in Dead \cup {"RECEIVED", "READY"} -> req[q].status
      [] req[q].status = "SUBMITTED" -> "WITH_REVIEWER"
      [] req[q].status = "FORWARDED" -> "WITH_SUPPLIER"
      [] req[q].status = "ASSIGNED" /\ req[q].src # None ->
            IF LiveTrips(q) = {} THEN "DISPATCHING"
            ELSE IF Trip(q) = "there" THEN "RECEIVED" ELSE "ON_THE_WAY"
      [] req[q].status = "ASSIGNED" /\ req[q].src = None ->
            CASE dispatch[q][req[q].farm] = "ARRIVED" -> "RECEIVED"
              [] dispatch[q][req[q].farm] = "ON_THE_WAY" -> "ON_THE_WAY"
              [] dispatch[q][req[q].farm] \in {"PREPARING", "IN_REVIEW"} -> "DISPATCHING"

\* visibleWhere: the requests that a person may see.
InSight(u, q) ==
    \/ HasRole(u, {"ADMIN", "MD", "CEO", "AUDITOR"})
    \/ req[q].by = u
    \/ HasRole(u, {"FARM_DIRECTOR"}) /\ ~IsMill(q)
    \/ HasRole(u, {"OPERATIONS_MANAGER"}) /\ IsMill(q)
    \/ HasRole(u, {"OPERATIONS_OFFICER"}) /\ IsMill(q) /\ InScope(u, req[q].mill)
    \/ HasRole(u, {"WAREHOUSE_SUPERVISOR"}) /\ (InScope(u, req[q].wh) \/ InScope(u, req[q].src))
    \/ HasRole(u, {"WAREHOUSE_MANAGER"}) /\ ~IsMill(q) /\ InScope(u, req[q].wh)

\* The board takes the newest of them; the count is made from the board.
CutOff(u, q) == Cardinality({c \in Ask : c > q /\ Made(c) /\ InSight(u, c)}) >= BoardLimit
Visible(u, q) == InSight(u, q) /\ ~CutOff(u, q)

WaitsOnFarms(q) ==
    IsMill(q) /\ HasChild(q) /\ Stage(Child(q)) \notin Dead \cup {"RECEIVED"}

\* counts: the requests that wait for this person's move.
Mine(u, q) ==
    /\ Visible(u, q)
    /\ \/ req[q].status = "SUBMITTED" /\ HoldsAny(u, {"supply.forward"}) /\ MayReview(u, q)
       \/ /\ req[q].status = "FORWARDED" /\ HoldsAny(u, {"supply.fulfil"}) /\ MaySupply(u, q)
          /\ ~WaitsOnFarms(q)
       \/ /\ req[q].status = "ASSIGNED" /\ req[q].src # None /\ LiveTrips(q) = {}
          /\ HasRole(u, {"ADMIN", "WAREHOUSE_SUPERVISOR"}) /\ InScope(u, req[q].src)
       \/ /\ IsMill(q) /\ req[q].status = "READY"
          /\ HasRole(u, {"ADMIN", "OPERATIONS_OFFICER", "OPERATIONS_MANAGER"})
          /\ InScope(u, req[q].mill)

-----------------------------------------------------------------------------
(* SupplyDesk: the cards of a person's board, and the buttons on them. *)

\* The desk takes the administrator for everybody; mayReview and maySupply
\* of the service do not.
DeskMayReview(u, q) == HasRole(u, {"ADMIN", ReviewerOf(req[q].mill)})
DeskMaySupply(u, q) == HasRole(u, {"ADMIN", SupplierOf(req[q].mill)})

SendsFor(u, q) ==
    /\ Visible(u, q)
    /\ req[q].status = "ASSIGNED" /\ req[q].src # None /\ LiveTrips(q) = {}
    /\ HasRole(u, {"ADMIN", "WAREHOUSE_SUPERVISOR"}) /\ InScope(u, req[q].src)
MayCount(u, q) ==
    /\ Visible(u, q)
    /\ IsMill(q) /\ req[q].status = "READY"
    /\ HasRole(u, {"ADMIN", "OPERATIONS_OFFICER", "OPERATIONS_MANAGER"}) /\ InScope(u, req[q].mill)

\* needsMe: the cards under "Your move".
Decides(u, q) ==
    /\ Visible(u, q)
    /\ \/ req[q].status = "SUBMITTED" /\ HoldsAny(u, {"supply.forward"}) /\ DeskMayReview(u, q)
       \/ /\ req[q].status = "FORWARDED" /\ HoldsAny(u, {"supply.fulfil"}) /\ DeskMaySupply(u, q)
          /\ ~WaitsOnFarms(q)
NeedsMe(u, q) == Decides(u, q) \/ SendsFor(u, q) \/ MayCount(u, q)

\* canCover is what the card was told of the stock when it was first shown.
DecisionButtons(q, canCover) ==
    CASE req[q].status = "SUBMITTED" -> {"forward", "decline"}
      [] req[q].status = "FORWARDED" /\ ~IsMill(q) -> {"assignFarm", "assignTo", "decline"}
      [] req[q].status = "FORWARDED" /\ IsMill(q) ->
            {"decline"} \cup (IF canCover THEN {"ready"} ELSE IF HasChild(q) THEN {} ELSE {"askMore"})
Buttons(u, q, canCover) ==
    (IF Decides(u, q) THEN DecisionButtons(q, canCover) ELSE {})
        \cup {b \in {"send"} : SendsFor(u, q)}
        \cup {b \in {"receive"} : MayCount(u, q)}
        \cup {b \in {"cancel"} : /\ Visible(u, q) /\ req[q].by = u
                                  /\ req[q].status \in {"SUBMITTED", "FORWARDED"}}

-----------------------------------------------------------------------------
(* Properties. *)

\* receivedAtMill: however the handlers race, fail and retry, the mill books
\* the paddy of a request in once for each time that the supervisor said it
\* was ready, and never without that.
MillBooksWhatWasReady == \A q \in Ask : receipts[q] <= readied[q]

\* "A request is answered once": as long as one person at a time works on
\* it, and nobody's server dies halfway, a request that was declined,
\* cancelled or not decided yet has no paddy coming, and one that was
\* assigned has one dispatch, or at most one transfer, never both.
AnsweredOnce ==
    \A q \in Ask : Made(q) /\ ~crossed[q] =>
        /\ receipts[q] <= 1
        /\ Len(dispatch[q]) + Cardinality(LiveTrips(q)) <= 1
        /\ req[q].status = "ASSIGNED" => (req[q].farm > 0) # (req[q].src # None)
        /\ req[q].status # "ASSIGNED" /\ (\A r \in Request : call[r].on # q)
              => Len(dispatch[q]) + Len(sent[q]) = 0

\* What carries a request on, or answers it.
Onward == Op \ {"decline", "cancel"}
Allowed(op, u, q) == \E w \in Warehouse : May(op, u, q, w)

\* "Their move" is right: what counts tells a person (other than the
\* administrator) waits for them is something they may then do, and who
\* could carry a request on is told so, unless it waits for a farm or newer
\* requests fill their board.  The desk agrees: its buttons do what the
\* service allows, if the stock is still as the card says, and a request that
\* waits for somebody has the buttons that carry it on; only that for the
\* rest is gone once it was asked for.
OnTheRightDesk ==
    \A u \in User, q \in Ask : Made(q) /\ ~IsAdmin(u) =>
        LET carriesOn == MayAnswerMill(u, q) \/ \E op \in Onward : Allowed(op, u, q)
            buttons == Buttons(u, q, IsMill(q) /\ enough[req[q].wh])
        IN  /\ Mine(u, q) => carriesOn
            /\ carriesOn => Mine(u, q) \/ WaitsOnFarms(q) \/ CutOff(u, q)
            /\ \A b \in buttons : Allowed(b, u, q)
            /\ Mine(u, q) =>
                 \A op \in Onward \ buttons : Allowed(op, u, q) => op = "askMore" /\ HasChild(q)

\* "Their move" is the rule the desk uses for its own list, "so the two
\* numbers can never disagree": for everybody, the administrator included.
CountMatchesDesk ==
    \A u \in User, q \in Ask : Made(q) => (Mine(u, q) <=> NeedsMe(u, q))

\* "Every hand-off": no request reaches a supplier that its own kind of
\* reviewer has not sent on, or asked for themselves.
ReviewedFirst ==
    \A q \in Ask : Made(q) /\ req[q].status \in {"FORWARDED", "ASSIGNED", "READY", "RECEIVED"} =>
        req[q].fwd # None /\ HasRole(req[q].fwd, {ReviewerOf(req[q].mill)})

-----------------------------------------------------------------------------
(* The inductive invariant: why the properties hold. *)

Row == [status : Status, mill : Mill \cup {None}, wh : Warehouse, by : User,
        fwd : User \cup {None}, farm : Nat, src : Warehouse \cup {None}, parent : Nat]
CallType == [op : Op, by : User, on : Ask, step : {1, 2}, ref : Nat, to : Warehouse \cup {None}]

TypeOK ==
    /\ req \in [Ask -> Row \cup {NoRow}]
    /\ dispatch \in [Ask -> Seq(DispatchStage)]
    /\ sent \in [Ask -> Seq({"road", "there", "back"})]
    /\ enough \in [DrawnFrom -> BOOLEAN]
    /\ readied \in [Ask -> Nat]
    /\ receipts \in [Ask -> Nat]
    /\ call \in [Request -> {Idle} \cup CallType]
    /\ crossed \in [Ask -> BOOLEAN]

\* Rows are made in order, so that the next one is always a new one.
MadeInOrder == \E k \in 0 .. N : \A q \in Ask : Made(q) <=> q <= k

\* The confirmations of a request that have claimed it and not booked it yet.
Claims(q) == {r \in Request : call[r].on = q /\ At(r, "receive", 2)}

\* Each "ready" is spent once: on the status, on a claim, or on a receipt.
BookedOK(q) ==
    /\ IsFiniteSet(Claims(q))
    /\ receipts[q] + Cardinality(Claims(q)) + (IF req[q].status = "READY" THEN 1 ELSE 0)
          <= readied[q]

\* Who sent a request on reviews such requests, or made it where they review.
PlaceOf(q) == IF IsMill(q) THEN req[q].mill ELSE req[q].wh
Vouched(q) ==
    /\ req[q].fwd # None
    /\ \/ HasRole(req[q].fwd, {ReviewerOf(req[q].mill)})
       \/ req[q].fwd = req[q].by /\ SelfReview(req[q].by) /\ InScope(req[q].by, PlaceOf(q))
VouchedOK(q) ==
    Made(q) /\ req[q].status \in {"FORWARDED", "ASSIGNED", "READY", "RECEIVED"} => Vouched(q)

\* What a request in flight has read, of what never changes afterwards.
CallOK(r) ==
    call[r] # Idle =>
        /\ Made(call[r].on)
        /\ call[r].op = "forward" => MayReview(call[r].by, call[r].on)
        /\ call[r].op \in {"assignFarm", "assignTo", "ready", "askMore", "receive", "send"}
              => Vouched(call[r].on)
        /\ call[r].op = "askMore" => IsMill(call[r].on) /\ MaySupply(call[r].by, call[r].on)
        /\ call[r].op = "assignTo" => call[r].to # None
        /\ call[r].step = 2 => call[r].op \in {"assignFarm", "receive"}

\* What it has read still holds, where nothing crossed.
ReadStill(r) ==
    LET c == call[r]  row == req[c.on] IN
    /\ c.op = "forward" => row.status = "SUBMITTED"
    /\ c.op \in {"decline", "cancel"} => row.status \in {"SUBMITTED", "FORWARDED"}
    /\ c.op \in {"assignFarm", "assignTo", "ready", "askMore"} => row.status = "FORWARDED"
    /\ c.op = "assignFarm" /\ c.step = 2 => c.ref > 0
    /\ c.op = "receive" => row.status = IF c.step = 1 THEN "READY" ELSE "RECEIVED"
    /\ c.op = "send" => row.status = "ASSIGNED" /\ row.src # None /\ LiveTrips(c.on) = {}

\* One dispatch or one transfer, once it is assigned; before, nothing, except
\* a dispatch that is about to be noted.
Noting(q) == \E r \in Request : call[r].on = q /\ At(r, "assignFarm", 2)
AnswerOK(q) ==
    IF req[q].status = "ASSIGNED"
    THEN \/ req[q].farm > 0 /\ req[q].src = None /\ Len(dispatch[q]) = 1 /\ Len(sent[q]) = 0
         \/ /\ req[q].farm = 0 /\ req[q].src # None /\ Len(dispatch[q]) = 0
            /\ \E i \in 0 .. MaxSent : LiveTrips(q) \subseteq {i}
    ELSE /\ req[q].farm = 0 /\ req[q].src = None /\ Len(sent[q]) = 0
         /\ Len(dispatch[q]) = IF Noting(q) THEN 1 ELSE 0

AloneOK(q) ==
    Made(q) /\ ~crossed[q] =>
        /\ \A r, s \in Request : call[r].on = q /\ call[s].on = q => r = s
        /\ \A r \in Request : call[r].on = q => ReadStill(r)
        /\ AnswerOK(q)
        /\ receipts[q] <= 1
        /\ req[q].status # "RECEIVED" \/ Claims(q) # {} => receipts[q] = 0

Untouched(q) == ~Made(q) => Len(dispatch[q]) = 0 /\ Len(sent[q]) = 0 /\ receipts[q] = 0

IInv ==
    /\ TypeOK
    /\ MadeInOrder
    /\ \A q \in Ask : BookedOK(q) /\ VouchedOK(q) /\ AloneOK(q) /\ Untouched(q)
    /\ \A r \in Request : CallOK(r)

\* Whoever asked may ask, for a mill of theirs; a mill's request stays with
\* the warehouse it draws from and no other is asked to send for it; who
\* reviews has nothing of their own to review.
Asked(q) ==
    Made(q) =>
        /\ HoldsAny(req[q].by, {"supply.request"})
        /\ IsMill(q) => /\ req[q].src = None /\ req[q].wh = WarehouseOf[req[q].mill]
                        /\ InScope(req[q].by, req[q].mill)
        /\ req[q].status = "SUBMITTED" => req[q].src = None /\ ~SelfReview(req[q].by)

\* Another warehouse is only ever asked to send to a warehouse.
SendsToWarehouse(r) == call[r].op = "assignTo" => ~IsMill(call[r].on)

AskedInv == (\A q \in Ask : Asked(q)) /\ \A r \in Request : SendsToWarehouse(r)
=============================================================================
