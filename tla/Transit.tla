------------------------------- MODULE Transit -------------------------------
(***************************************************************************)
(* Stock on its way between two places, by the three services that send    *)
(* it: packaged rice between warehouses (StockTransfersService), paddy     *)
(* between warehouses (PaddyTransfersService), and what a warehouse and    *)
(* its mill send each other once it is approved (MillDispatchService).     *)
(* Packs in a warehouse are also promised to customers and sold.           *)
(*                                                                         *)
(* Each handler reads and checks the row outside its transaction ("Ask")   *)
(* and then writes ("Commit").  The ledger's number row serialises the     *)
(* transactions that move stock (Ledger.tla), so a Commit is one step.     *)
(* One line stands for all the lines of a delivery: they share its fate.   *)
(***************************************************************************)
EXTENDS Integers, Functions, Roles

CONSTANTS
    Haul,           \* rows of the three tables that may be made
    KindOf,         \* [Haul -> Kind]
    Warehouse,      \* active warehouses
    Mill,           \* active milling centers
    WarehouseOf,    \* [Mill -> Warehouse]
    Request,        \* HTTP requests in flight
    Nobody,
    Opening,        \* [Place -> [Good -> Nat]]: what each place starts with
    PaddyLimit,     \* rows of the list of paddy transfers: 100
    MillLimit,      \* rows of the list of mill dispatches: 150
    MaxBags,        \* bound: bags of one haul, or of one line of an order
    MaxPromised     \* bound: packs of one warehouse that are promised at once

Kind == {"STOCK", "PADDY", "TO_MILL", "TO_WAREHOUSE"}
MillKind == {"TO_MILL", "TO_WAREHOUSE"}
Good == {"paddy", "packs"}
Place == Warehouse \cup Mill

ASSUME HaulAssumption == KindOf \in [Haul -> Kind] /\ IsFiniteSet(Haul)
ASSUME PlaceAssumption ==
    /\ Warehouse \cap Mill = {} /\ WarehouseOf \in [Mill -> Warehouse]
    /\ IsFiniteSet(Place)
ASSUME OpeningAssumption ==
    Opening \in [Place -> [Good -> Nat]] /\ MaxBags \in Nat /\ Nobody \notin User
ASSUME LimitAssumption == PaddyLimit \in Nat /\ MillLimit \in Nat

VARIABLES
    haul,           \* the rows
    stock,          \* bags at each place
    bucket,         \* bags in the in-transit bucket of each haul
    reserved,       \* packs promised to customers: active stock_reservations
    call,           \* what each request is about to do
    loose           \* history: packs there were promised or written off unchecked

vars == <<haul, stock, bucket, reserved, call, loose>>

\* DISPATCHED is what StockTransfersService calls IN_TRANSIT.
Status == {"PENDING_APPROVAL", "IN_TRANSIT", "RECEIVED", "REJECTED", "CANCELLED"}
\* after: the rows of the same table that were there first (requestedAt, sentAt).
Row == [status : Status, from : Place, to : Place, bags : 1 .. MaxBags, got : 0 .. MaxBags,
        by : User, approver : User \cup {Nobody}, after : SUBSET Haul]
NoRow == [status |-> "NONE", after |-> {}]
Idle == [op |-> "none"]
HaulCall == [op : {"send", "approve", "reject", "cancel", "receive"}, by : User,
             haul : Haul, from : Place, to : Place, bags : 0 .. MaxBags, seen : Status \cup {"NONE"}]
HoldCall == [op : {"hold"}, from : Warehouse, bags : 1 .. 2 * MaxBags]

SameTable(h, k) == KindOf[h] = KindOf[k] \/ {KindOf[h], KindOf[k]} = MillKind
GoodOf == [h \in Haul |-> IF KindOf[h] \in {"PADDY", "TO_MILL"} THEN "paddy" ELSE "packs"]
OnRoad(h) == haul[h].status = "IN_TRANSIT"

Init ==
    /\ haul = [h \in Haul |-> NoRow]
    /\ stock = Opening
    /\ bucket = [h \in Haul |-> 0]
    /\ reserved = [w \in Warehouse |-> 0]
    /\ call = [r \in Request |-> Idle]
    /\ loose = [w \in Warehouse |-> FALSE]

-----------------------------------------------------------------------------
(* Who may do each step. *)

\* The two ends of what a mill and its warehouse send each other.
MillEnds(kind, m) ==
    IF kind = "TO_MILL" THEN [from |-> WarehouseOf[m], to |-> m]
    ELSE [from |-> m, to |-> WarehouseOf[m]]

\* RULES and ALSO: roles, and which end of the dispatch they must be at.
Rules(kind, step) ==
    CASE kind = "TO_MILL" /\ step = "request" ->
            {[roles |-> {"WAREHOUSE_MANAGER"}, at |-> "from"],
             [roles |-> {"OPERATIONS_OFFICER"}, at |-> "to"]}
      [] kind = "TO_MILL" /\ step = "approve" ->
            {[roles |-> {"WAREHOUSE_SUPERVISOR"}, at |-> "from"]}
      [] kind = "TO_MILL" /\ step = "receive" ->
            {[roles |-> {"OPERATIONS_OFFICER"}, at |-> "to"]}
      [] kind = "TO_WAREHOUSE" /\ step = "request" ->
            {[roles |-> {"OPERATIONS_OFFICER"}, at |-> "from"]}
      [] kind = "TO_WAREHOUSE" /\ step = "approve" ->
            {[roles |-> {"OPERATIONS_MANAGER"}, at |-> "from"]}
      [] kind = "TO_WAREHOUSE" /\ step = "receive" ->
            {[roles |-> {"WAREHOUSE_MANAGER", "WAREHOUSE_SUPERVISOR"}, at |-> "to"]}

May(u, kind, step, from, to) ==
    \E rule \in Rules(kind, step) :
        /\ HasRole(u, rule.roles)
        /\ InScope(u, IF rule.at = "from" THEN from ELSE to)
MayHaul(u, h, step) == May(u, KindOf[h], step, haul[h].from, haul[h].to)

Permission(kind, step) ==
    CASE kind = "STOCK" -> {"warehouse.transfer"}
      [] kind = "PADDY" -> IF step = "receive" THEN {"warehouse.receive", "warehouse.transfer"}
                           ELSE {"warehouse.transfer"}
      [] kind \in MillKind ->
            [request |-> {"milldispatch.request"}, approve |-> {"milldispatch.approve"},
             cancel |-> {"milldispatch.request", "milldispatch.approve"},
             receive |-> {"milldispatch.receive"}][step]

\* Packs nobody has promised to a customer.
FreePacksAnyway(w) == stock[w]["packs"]     \* seeded mistake
FreePacks(w) == stock[w]["packs"] - reserved[w]

MaySend(u, kind, from, to, n) ==
    \/ /\ kind \in {"STOCK", "PADDY"}
       /\ HoldsAny(u, Permission(kind, "send"))
       /\ InScope(u, from)
       /\ from \in Warehouse /\ to \in Warehouse \ {from}
       /\ n <= IF kind = "STOCK" THEN FreePacks(from) ELSE stock[from]["paddy"]
    \/ /\ kind \in MillKind
       /\ HoldsAny(u, Permission(kind, "request"))
       /\ \E m \in Mill : MillEnds(kind, m) = [from |-> from, to |-> to]
       /\ May(u, kind, "request", from, to)
       /\ n <= stock[from][IF kind = "TO_MILL" THEN "paddy" ELSE "packs"]

MayDecide(u, h) ==
    /\ KindOf[h] \in MillKind
    /\ haul[h].status = "PENDING_APPROVAL"
    /\ HoldsAny(u, Permission(KindOf[h], "approve"))
    /\ MayHaul(u, h, "approve")
    /\ haul[h].by # u

MayCancelOnRoad(u, h) ==    \* seeded mistake: the asker may still call it back
    /\ KindOf[h] \in MillKind /\ HoldsAny(u, Permission(KindOf[h], "cancel"))
    /\ haul[h].status \in {"PENDING_APPROVAL", "IN_TRANSIT"}
    /\ haul[h].by = u \/ MayHaul(u, h, "approve")
MayCancel(u, h) ==
    /\ \/ /\ KindOf[h] = "PADDY" /\ OnRoad(h)
          /\ InScope(u, haul[h].from)
          /\ haul[h].by = u \/ IsAdmin(u)
       \/ /\ KindOf[h] \in MillKind
          /\ \/ haul[h].status = "PENDING_APPROVAL" /\ (haul[h].by = u \/ MayHaul(u, h, "approve"))
             \/ OnRoad(h) /\ MayHaul(u, h, "approve")
    /\ HoldsAny(u, Permission(KindOf[h], "cancel"))

\* Only StockTransfersService lets more arrive than was sent.
MayReceive(u, h, got) ==
    /\ OnRoad(h)
    /\ HoldsAny(u, Permission(KindOf[h], "receive"))
    /\ IF KindOf[h] \in MillKind THEN MayHaul(u, h, "receive") ELSE InScope(u, haul[h].to)
    /\ got <= haul[h].bags \/ KindOf[h] = "STOCK"

-----------------------------------------------------------------------------
(* The handlers up to their transactions. *)

HaulRequest(r, op, u, h, from, to, n) ==
    /\ call' = [call EXCEPT ![r] = [op |-> op, by |-> u, haul |-> h, from |-> from,
                                    to |-> to, bags |-> n, seen |-> haul[h].status]]
    /\ UNCHANGED <<haul, stock, bucket, reserved>>

\* Requests that have looked at the packs of a warehouse to take some.
Chooses(q, w) ==
    /\ call[q].op \in {"send", "hold"}
    /\ call[q].from = w
    /\ call[q].op = "send" => KindOf[call[q].haul] = "STOCK"
\* What is promised of n packs chosen from those that are free.
Choosing(w, n) ==
    loose' = [loose EXCEPT ![w] = @ \/ n > FreePacks(w) \/ \E q \in Request : Chooses(q, w)]

\* create, send and request, of a row that does not exist yet.
AskSend(r, u, h, from, to, n) ==
    /\ call[r] = Idle
    /\ haul[h].status = "NONE"
    /\ \A q \in Request : call[q] # Idle /\ call[q].op = "send" => call[q].haul # h
    /\ MaySend(u, KindOf[h], from, to, n)
    /\ HaulRequest(r, "send", u, h, from, to, n)
    /\ IF KindOf[h] = "STOCK" THEN Choosing(from, n) ELSE UNCHANGED loose

AskDecide(r, u, h, op) ==
    /\ call[r] = Idle
    /\ op \in {"approve", "reject"}
    /\ MayDecide(u, h)
    /\ HaulRequest(r, op, u, h, haul[h].from, haul[h].to, 0)
    /\ UNCHANGED loose

AskCancel(r, u, h) ==
    /\ call[r] = Idle
    /\ MayCancel(u, h)
    /\ HaulRequest(r, "cancel", u, h, haul[h].from, haul[h].to, 0)
    /\ UNCHANGED loose

AskReceive(r, u, h, got) ==
    /\ call[r] = Idle
    /\ MayReceive(u, h, got)
    /\ HaulRequest(r, "receive", u, h, haul[h].from, haul[h].to, got)
    /\ UNCHANGED loose

-----------------------------------------------------------------------------
(* Their transactions. *)

EndCall(r) == call' = [call EXCEPT ![r] = Idle]

\* updateMany with the status that was read: the paddy and mill services
\* claim the row; StockTransfersService updates it by its id alone.
ClaimedAnyway(r) == TRUE    \* seeded mistake
Claimed(r) ==
    LET h == call[r].haul IN KindOf[h] = "STOCK" \/ haul[h].status = call[r].seen

\* recordTransaction and adjustBalance, from the place to the bucket.
Leave(h, from, n) ==
    /\ stock[from][GoodOf[h]] >= n
    /\ stock' = [stock EXCEPT ![from][GoodOf[h]] = @ - n]
    /\ bucket' = [bucket EXCEPT ![h] = @ + n]

\* From the bucket, which is closed, to a place.
InBucket(h) == bucket[h] >= haul[h].bags
Arrive(h, to, n) ==
    /\ InBucket(h)
    /\ bucket' = [bucket EXCEPT ![h] = @ - haul[h].bags]
    /\ stock' = [stock EXCEPT ![to][GoodOf[h]] = @ + n]

\* A mill dispatch is only asked for; the others leave at once.
CommitSend(r) ==
    LET c == call[r]  h == c.haul  asked == KindOf[h] \in MillKind IN
    /\ c.op = "send"
    /\ haul' = [haul EXCEPT ![h] = [status |-> IF asked THEN "PENDING_APPROVAL" ELSE "IN_TRANSIT",
                  from |-> c.from, to |-> c.to, bags |-> c.bags, got |-> 0,
                  by |-> c.by, approver |-> Nobody,
                  after |-> {k \in Haul : haul[k].status # "NONE" /\ SameTable(h, k)}]]
    /\ IF asked THEN UNCHANGED <<stock, bucket>> ELSE Leave(h, c.from, c.bags)
    /\ EndCall(r)
    /\ UNCHANGED <<reserved, loose>>

CommitApprove(r) ==
    LET c == call[r]  h == c.haul IN
    /\ c.op = "approve"
    /\ Claimed(r)
    /\ haul' = [haul EXCEPT ![h].status = "IN_TRANSIT", ![h].approver = c.by]
    /\ Leave(h, haul[h].from, haul[h].bags)
    /\ EndCall(r)
    /\ UNCHANGED <<reserved, loose>>

CommitReject(r) ==
    LET c == call[r]  h == c.haul IN
    /\ c.op = "reject"
    /\ Claimed(r)
    /\ haul' = [haul EXCEPT ![h].status = "REJECTED", ![h].approver = c.by]
    /\ EndCall(r)
    /\ UNCHANGED <<stock, bucket, reserved, loose>>

\* The bags go back if they were on the road when the row was read.
CommitCancel(r) ==
    LET c == call[r]  h == c.haul IN
    /\ c.op = "cancel"
    /\ Claimed(r)
    /\ haul' = [haul EXCEPT ![h].status = "CANCELLED"]
    /\ IF c.seen = "IN_TRANSIT" THEN Arrive(h, haul[h].from, haul[h].bags)
       ELSE UNCHANGED <<stock, bucket>>
    /\ EndCall(r)
    /\ UNCHANGED <<reserved, loose>>

CommitReceive(r) ==
    LET c == call[r]  h == c.haul IN
    /\ c.op = "receive"
    /\ Claimed(r)
    /\ haul' = [haul EXCEPT ![h].status = "RECEIVED", ![h].got = c.bags]
    /\ Arrive(h, haul[h].to, c.bags)
    /\ EndCall(r)
    /\ UNCHANGED <<reserved, loose>>

\* Negative inventory, a duplicate number, a timeout, a crash.
Fail(r) ==
    /\ call[r] # Idle
    /\ EndCall(r)
    /\ UNCHANGED <<haul, stock, bucket, reserved, loose>>

-----------------------------------------------------------------------------
(* What the sales chain does to the packs of a warehouse (SalesOrders.tla   *)
(* is about the orders themselves).                                         *)

\* assignWarehouse: choose from the free packs, then promise them.  An order
\* may have two lines of one product, n and m packs: each is compared with
\* all that is free.
AskHold(r, w, n, m) ==
    /\ call[r] = Idle
    /\ n <= FreePacks(w) /\ m <= FreePacks(w)
    /\ call' = [call EXCEPT ![r] = [op |-> "hold", from |-> w, bags |-> n + m]]
    /\ Choosing(w, n + m)
    /\ UNCHANGED <<haul, stock, bucket, reserved>>

CommitHold(r) ==
    /\ call[r].op = "hold"
    /\ reserved[call[r].from] + call[r].bags <= MaxPromised
    /\ reserved' = [reserved EXCEPT ![call[r].from] = @ + call[r].bags]
    /\ EndCall(r)
    /\ UNCHANGED <<haul, stock, bucket, loose>>

\* fulfill: promised packs leave, if they are there.
Deliver(w, n) ==
    /\ n <= reserved[w] /\ n <= stock[w]["packs"]
    /\ reserved' = [reserved EXCEPT ![w] = @ - n]
    /\ stock' = [stock EXCEPT ![w]["packs"] = @ - n]
    /\ UNCHANGED <<haul, bucket, call, loose>>

\* cancel, or another warehouse: the promise is taken back.
Release(w, n) ==
    /\ n <= reserved[w]
    /\ reserved' = [reserved EXCEPT ![w] = @ - n]
    /\ UNCHANGED <<haul, stock, bucket, call, loose>>

\* An approved adjustment finds packs missing; it asks for no promises.
WriteOff(w, n) ==
    /\ n <= stock[w]["packs"]
    /\ stock' = [stock EXCEPT ![w]["packs"] = @ - n]
    /\ loose' = [loose EXCEPT ![w] = TRUE]
    /\ UNCHANGED <<haul, bucket, reserved, call>>

Next ==
    \/ \E r \in Request :
          \/ \E u \in User, h \in Haul :
                \/ \E from, to \in Place, n \in 1 .. MaxBags : AskSend(r, u, h, from, to, n)
                \/ \E op \in {"approve", "reject"} : AskDecide(r, u, h, op)
                \/ AskCancel(r, u, h)
                \/ \E got \in 0 .. MaxBags : AskReceive(r, u, h, got)
          \/ CommitSend(r) \/ CommitApprove(r) \/ CommitReject(r)
          \/ CommitCancel(r) \/ CommitReceive(r)
          \/ \E w \in Warehouse, n \in 1 .. MaxBags, m \in 0 .. MaxBags : AskHold(r, w, n, m)
          \/ CommitHold(r) \/ Fail(r)
    \/ \E w \in Warehouse, n \in 1 .. 2 * MaxBags : Deliver(w, n) \/ Release(w, n)
    \/ \E w \in Warehouse, n \in 1 .. MaxBags : WriteOff(w, n)

Spec == Init /\ [][Next]_vars

-----------------------------------------------------------------------------
(* What the screens show. *)

\* The three list queries, and how many newer rows that match hide a row.
Matches(u, h) ==
    /\ haul[h].status # "NONE"
    /\ CASE KindOf[h] = "STOCK" -> HoldsAny(u, {"warehouse.transfer"})
         [] KindOf[h] = "PADDY" -> HoldsAny(u, {"warehouse.transfer", "warehouse.receive"})
         [] KindOf[h] \in MillKind -> HoldsAny(u, {"milldispatch.view"})
    /\ \/ InScope(u, haul[h].from) \/ InScope(u, haul[h].to)
       \/ KindOf[h] \in MillKind /\ HasRole(u, {"ADMIN", "MD", "CEO"})
CutOff(u, h) ==
    /\ KindOf[h] # "STOCK"
    /\ Cardinality({k \in Haul : h \in haul[k].after /\ Matches(u, k)})
          >= IF KindOf[h] = "PADDY" THEN PaddyLimit ELSE MillLimit
Listed(u, h) == Matches(u, h) /\ ~CutOff(u, h)

\* The buttons of MillDispatchView.
CanApprove(u, h) ==
    haul[h].status = "PENDING_APPROVAL" /\ haul[h].by # u /\ MayHaul(u, h, "approve")
CanReceive(u, h) == OnRoad(h) /\ MayHaul(u, h, "receive")
CanCancel(u, h) ==
    IF haul[h].status = "PENDING_APPROVAL" THEN haul[h].by = u \/ MayHaul(u, h, "approve")
    ELSE OnRoad(h) /\ MayHaul(u, h, "approve")

\* The buttons of DeliveriesDesk, on a paddy transfer to one's own warehouses
\* and on one from them: "Paddy arrived" and "Cancel this delivery".
OffersCount(u, h) ==
    /\ Listed(u, h) /\ OnRoad(h) /\ InScope(u, haul[h].to)
    /\ HoldsAny(u, {"warehouse.receive", "warehouse.transfer"})
OffersCancel(u, h) ==
    /\ Listed(u, h) /\ OnRoad(h) /\ InScope(u, haul[h].from)
    /\ HoldsAny(u, {"warehouse.transfer"})

\* The tiles of the control center that count deliveries: mill-approvals,
\* mill-paddy-coming, milled-rice-coming, transfers-coming and rice-coming.
Counted(u, h) ==
    \/ /\ haul[h].status = "PENDING_APPROVAL" /\ HoldsAny(u, {"milldispatch.approve"})
       /\ \/ KindOf[h] = "TO_MILL" /\ HasRole(u, {"WAREHOUSE_SUPERVISOR"})
          \/ KindOf[h] = "TO_WAREHOUSE" /\ HasRole(u, {"OPERATIONS_MANAGER"})
       /\ InScope(u, haul[h].from)
    \/ /\ OnRoad(h) /\ InScope(u, haul[h].to)
       /\ CASE KindOf[h] = "STOCK" -> HoldsAny(u, {"warehouse.transfer"})
            [] KindOf[h] = "PADDY" -> HoldsAny(u, {"warehouse.receive", "warehouse.transfer"})
            [] KindOf[h] = "TO_MILL" ->
                  HoldsAny(u, {"milldispatch.receive"}) /\ HasRole(u, {"OPERATIONS_OFFICER"})
            [] KindOf[h] = "TO_WAREHOUSE" ->
                  HoldsAny(u, {"milldispatch.receive"})
                      /\ HasRole(u, {"WAREHOUSE_MANAGER", "WAREHOUSE_SUPERVISOR"})

\* PaddyWhereaboutsService: the places a person sees, and the paddy between
\* warehouses on its way from or to one of them.
WhereaboutsRoad(u) ==
    {h \in Haul : /\ KindOf[h] = "PADDY" /\ OnRoad(h)
                  /\ InScope(u, haul[h].from) \/ InScope(u, haul[h].to)}
OnTrucks(hauls) == SumFunction([h \in hauls |-> haul[h].bags])
Whereabouts(u) ==
    SumFunction([p \in {p \in Place : InScope(u, p)} |-> stock[p]["paddy"]])
        + OnTrucks(WhereaboutsRoad(u))

-----------------------------------------------------------------------------
(* Properties. *)

\* StockTransfersService.create: "transferring away stock a pending sale is
\* already counting on would silently break that sale's ability to be
\* fulfilled later".  What is promised of the packs of a warehouse is there,
\* as long as the requests that choose from them do not overlap, no order
\* asks in two lines for more of a product than is free, and no adjustment
\* writes packs off.
PromisedPacksStay ==
    \A w \in Warehouse : ~loose[w] => reserved[w] <= stock[w]["packs"]

\* Whoever may move a delivery on finds it on their list, unless as many newer
\* ones as the list is long have pushed it off; and the buttons on it are the
\* steps that the handlers would let them take, no more, no less; only calling
\* paddy back is offered to everybody where it came from.
\* What they may decide or count in is on a tile of their control center even
\* where it is off the list, and nothing else is but what they asked for.
ListsShowWork ==
    \A u \in User, h \in Haul : haul[h].status # "NONE" =>
        /\ ~CutOff(u, h) =>
              /\ MayDecide(u, h) \/ MayCancel(u, h) \/ MayReceive(u, h, 0) => Listed(u, h)
              /\ KindOf[h] = "PADDY" =>
                    /\ OffersCount(u, h) <=> MayReceive(u, h, 0)
                    /\ MayCancel(u, h) => OffersCancel(u, h)
        /\ KindOf[h] \in MillKind =>
              /\ CanApprove(u, h) <=> MayDecide(u, h)
              /\ CanCancel(u, h) <=> MayCancel(u, h)
              /\ CanReceive(u, h) <=> MayReceive(u, h, 0)
        /\ HasCenter(u) /\ (MayDecide(u, h) \/ MayReceive(u, h, 0)) => Counted(u, h)
        /\ Counted(u, h) => MayDecide(u, h) \/ MayReceive(u, h, 0) \/ haul[h].by = u

\* Bags that did not arrive with what carried them.
Short(h) == IF haul[h].status = "RECEIVED" THEN haul[h].bags - haul[h].got ELSE 0
PaddyHauls == {h \in Haul : GoodOf[h] = "paddy"}
AllShort == SumFunction([h \in PaddyHauls |-> Short(h)])
AllPaddy == SumFunction([p \in Place |-> Opening[p]["paddy"]])

\* PaddyWhereaboutsService: "it can never disagree" with the stock.  To
\* somebody who sees everything it shows every bag once, wherever it has
\* got to, except the bags short counted and those on the road to a mill.
WhereaboutsAgree ==
    \A u \in User : "GLOBAL" \in ScopesOf[u] =>
        Whereabouts(u) + OnTrucks({h \in Haul : KindOf[h] = "TO_MILL" /\ OnRoad(h)})
            + AllShort = AllPaddy

\* The same without the exception for what is on its way to a mill.
EveryBagIsSomewhere ==
    \A u \in User : "GLOBAL" \in ScopesOf[u] =>
        Whereabouts(u) + AllShort = AllPaddy

\* Bags have left: the row says so, or a cancelled one was approved before.
Left(h) ==
    \/ haul[h].status \in {"IN_TRANSIT", "RECEIVED"}
    \/ /\ haul[h].status = "CANCELLED"
       /\ KindOf[h] = "PADDY" \/ haul[h].approver # Nobody

TripOf(h) ==
    IF ~Left(h) THEN [at |-> "waiting"]
    ELSE [at |-> CASE OnRoad(h) -> "road"
                   [] haul[h].status = "RECEIVED" -> "there"
                   [] OTHER -> "back",
          from |-> haul[h].from, to |-> haul[h].to, bags |-> haul[h].bags]
Trip == [h \in Haul |-> TripOf(h)]

Bags == INSTANCE Haulage WITH
    trip <- Trip, Sold <- {"packs"}, Uncapped <- {h \in Haul : KindOf[h] = "STOCK"}

\* All three services implement Haulage: whatever requests race, the bags of
\* a delivery leave once, and then arrive or go back, once.
ImplementsHaulage == Bags!Spec

-----------------------------------------------------------------------------
(* The invariant behind it. *)

TypeOK ==
    /\ haul \in [Haul -> {NoRow} \cup Row]
    /\ stock \in [Place -> [Good -> Nat]]
    /\ bucket \in [Haul -> Nat]
    /\ reserved \in [Warehouse -> Nat]
    /\ call \in [Request -> {Idle} \cup HaulCall \cup HoldCall]
    /\ loose \in [Warehouse -> BOOLEAN]

\* What a row can look like: which kinds pass through an approval, which is
\* never that of the person who asked; the bucket holds the bags on the road;
\* only packs may arrive that were not sent.
RowOK(h) ==
    /\ bucket[h] = IF OnRoad(h) THEN haul[h].bags ELSE 0
    /\ haul[h].status # "NONE" =>
          /\ haul[h].from # haul[h].to
          /\ KindOf[h] = "TO_WAREHOUSE" => haul[h].from \in Mill
          /\ haul[h].approver # haul[h].by
          /\ haul[h].got <= haul[h].bags \/ KindOf[h] = "STOCK"
          /\ IF KindOf[h] \in MillKind
             THEN /\ haul[h].status = "PENDING_APPROVAL" => haul[h].approver = Nobody
                  /\ haul[h].status \in {"IN_TRANSIT", "RECEIVED", "REJECTED"}
                        => haul[h].approver # Nobody
             ELSE /\ haul[h].status \notin {"PENDING_APPROVAL", "REJECTED"}
                  /\ KindOf[h] = "STOCK" => haul[h].status # "CANCELLED"

\* What a request has read of the row that it is about to change.
CallOK(c) ==
    /\ c.op = "send" =>
          /\ haul[c.haul].status = "NONE"
          /\ c.from # c.to /\ c.bags > 0
          /\ KindOf[c.haul] = "TO_WAREHOUSE" => c.from \in Mill
    /\ c.op \in {"approve", "reject", "cancel", "receive"} => haul[c.haul].status # "NONE"
    /\ c.op \in {"approve", "reject"} =>
          KindOf[c.haul] \in MillKind /\ c.seen = "PENDING_APPROVAL" /\ c.by # haul[c.haul].by
    /\ c.op = "cancel" =>
          \/ KindOf[c.haul] = "PADDY" /\ c.seen = "IN_TRANSIT"
          \/ KindOf[c.haul] \in MillKind /\ c.seen \in {"PENDING_APPROVAL", "IN_TRANSIT"}
    /\ c.op = "receive" =>
          c.seen = "IN_TRANSIT" /\ (c.bags <= haul[c.haul].bags \/ KindOf[c.haul] = "STOCK")
OneSender ==
    \A q, r \in Request :
        call[q].op = "send" /\ call[r].op = "send" /\ call[q].haul = call[r].haul => q = r

\* Who alone has chosen from the packs of a warehouse still finds them there.
ChoiceOK(w) ==
    ~loose[w] =>
        /\ reserved[w] <= stock[w]["packs"]
        /\ \A q \in Request : Chooses(q, w) => reserved[w] + call[q].bags <= stock[w]["packs"]
        /\ \A q, r \in Request : Chooses(q, w) /\ Chooses(r, w) => q = r

IInv ==
    /\ TypeOK
    /\ \A h \in Haul : RowOK(h)
    /\ \A r \in Request : CallOK(call[r])
    /\ OneSender
    /\ \A w \in Warehouse : ChoiceOK(w)

\* What ListsShowWork needs besides: who asked for a mill dispatch was allowed
\* to at one end of it, and so sees it and may take the request back.
AskersMay ==
    /\ \A h \in Haul : haul[h].status # "NONE" /\ KindOf[h] \in MillKind
                          => MayHaul(haul[h].by, h, "request")
    /\ \A r \in Request : call[r].op = "send" /\ KindOf[call[r].haul] \in MillKind
                          => May(call[r].by, KindOf[call[r].haul], "request",
                                 call[r].from, call[r].to)
=============================================================================
