--------------------------- MODULE ReceiptReviews ---------------------------
(***************************************************************************)
(* Counting a truck in at a warehouse (ShipmentsService.receive) and the   *)
(* review of its damaged bags (ReceiptReviewsService), with several people *)
(* at it at once.                                                          *)
(*                                                                         *)
(* Bags that a truck carries are in its in-transit bucket, one per size    *)
(* (a "shipment").  A count-in empties the bucket, puts usable bags in the *)
(* stock and damaged ones in a hold bucket, and adds a line to the open    *)
(* review of the truck.  A supervisor's decision empties the hold buckets  *)
(* of the lines of a review, as it was read BEFORE the transaction.        *)
(*                                                                         *)
(* The ledger's number row, which every recordTransaction locks until the  *)
(* transaction ends, orders these transactions.  But a decision reads and  *)
(* writes its first hold bucket before it takes that row; a decision that  *)
(* puts the bags back, and a count-in of nothing but damaged bags, do so   *)
(* with the warehouse's stock of the grade too: such a request may put a   *)
(* value on top of one that it has not read.  There is one warehouse, and  *)
(* only bags are counted.                                                  *)
(***************************************************************************)
EXTENDS Integers, Sequences, FiniteSets, Functions

CONSTANTS
    Shipment, Truck, Grade, User, Request,
    Nobody,         \* no request: the number row is free
    TruckOf,        \* [Shipment -> Truck]
    GradeOf,        \* [Shipment -> Grade]: Shipment.paddyGradeId
    Sent,           \* [Shipment -> Nat]: Shipment.expectedBags
    Manager,        \* users who count trucks in
    Supervisor,     \* users with the role WAREHOUSE_SUPERVISOR there
    MaxExtra        \* bound: bags that may arrive beyond those sent

ASSUME TruckAssumption ==
    /\ TruckOf \in [Shipment -> Truck] /\ GradeOf \in [Shipment -> Grade]
    /\ Sent \in [Shipment -> Nat \ {0}]
ASSUME ShipmentAssumption == IsFiniteSet(Shipment)
ASSUME PeopleAssumption ==
    Manager \subseteq User /\ Supervisor \subseteq User /\ Nobody \notin Request
ASSUME ExtraAssumption == MaxExtra \in Nat

VARIABLES
    received,       \* Shipment.receivedAt is set
    bucket,         \* bags in transit, per shipment
    hold,           \* bags in hold:<shipment>
    stock,          \* bags in the warehouse, per grade
    reviews,        \* receipt_reviews, oldest first
    numberRow,      \* the transaction that has locked TXN-<year>
    call,           \* what each request is doing and what it has read
    seenStock,      \* the stock that a request has read before the number row
    counted,        \* history: count-ins of each shipment: by whom, how many
    decisions,      \* history: the decisions on each review
    overwritten     \* history: grades of which a bucket got a value computed
                    \* from one that was there no longer

tables == <<received, bucket, hold, stock, reviews>>
history == <<counted, decisions, overwritten>>
vars == <<tables, numberRow, call, seenStock, history>>

Idle == [step |-> "idle"]
Outcome == {"APPROVED", "REJECTED"}
Doing(r, op, step) == call[r].step = step /\ call[r].op = op

Init ==
    /\ received = [s \in Shipment |-> FALSE]
    /\ bucket = Sent
    /\ hold = [s \in Shipment |-> 0]
    /\ stock = [g \in Grade |-> 0]
    /\ reviews = <<>>
    /\ numberRow = Nobody
    /\ call = [r \in Request |-> Idle]
    /\ seenStock = [r \in Request |-> 0]
    /\ counted = [s \in Shipment |-> <<>>]
    /\ decisions = [i \in 1 .. Cardinality(Shipment) |-> <<>>]
    /\ overwritten = {}

\* The transaction of a request ends: its locks go with it.
EndCall(r) ==
    /\ call' = [call EXCEPT ![r] = Idle]
    /\ seenStock' = [seenStock EXCEPT ![r] = 0]
    /\ numberRow' = IF numberRow = r THEN Nobody ELSE numberRow

-----------------------------------------------------------------------------
(* Locks and stale values. *)

\* The size whose buckets a request adjusts first.
FirstSize(c) == IF c.op = "receive" THEN c.shipment ELSE c.lines[1].shipment
\* The stock of its grade is adjusted before a recordTransaction: when there is
\* no usable bag to record, and when the supervisor refuses.
StockFirst(c) ==
    IF c.op = "receive" THEN c.damaged > 0 /\ c.damaged = c.got
    ELSE c.outcome = "REJECTED"

\* Rows that the transaction of q has written and not committed.
HasShipment(q, s) ==
    call[q] # Idle /\ call[q].op = "receive" /\ call[q].step # "asked" /\ call[q].shipment = s
HasHold(q, s) ==
    /\ call[q] # Idle /\ call[q].op = "decide" /\ call[q].step \notin {"asked", "read"}
    /\ call[q].lines[1].shipment = s
HasStock(q, g) ==
    /\ call[q] # Idle /\ call[q].step \in {"stocked", "numbered"} /\ StockFirst(call[q])
    /\ GradeOf[FirstSize(call[q])] = g
StockFree(r, g) == \A q \in Request \ {r} : ~HasStock(q, g)

\* What a request has read of a bucket is there no longer.
Overwrites(r) ==
    LET c == call[r] IN
    \/ StockFirst(c) /\ seenStock[r] # stock[GradeOf[FirstSize(c)]]
    \/ c.op = "decide" /\ c.seen # hold[FirstSize(c)]
Overwriting(r) ==
    overwritten' = IF Overwrites(r) THEN overwritten \cup {GradeOf[FirstSize(call[r])]}
                                    ELSE overwritten

\* adjustBalance of the stock ahead of the number row: the read, ...
ReadStock(r) ==
    /\ Doing(r, "receive", "locked") \/ Doing(r, "decide", "written")
    /\ StockFirst(call[r])
    /\ seenStock' = [seenStock EXCEPT ![r] = stock[GradeOf[FirstSize(call[r])]]]
    /\ call' = [call EXCEPT ![r].step = "looked"]
    /\ UNCHANGED <<tables, numberRow, history>>

\* ... and the upsert, which waits for the row but not for a new value.
WriteStock(r) ==
    /\ call[r].step = "looked"
    /\ StockFree(r, GradeOf[FirstSize(call[r])])
    /\ call' = [call EXCEPT ![r].step = "stocked"]
    /\ UNCHANGED <<tables, numberRow, seenStock, history>>

-----------------------------------------------------------------------------
(* Counting in. *)

\* receive, up to the transaction.
AskReceive(r, u, s, got, damaged) ==
    /\ call[r] = Idle
    /\ u \in Manager
    /\ ~received[s]
    /\ damaged <= got
    /\ call' = [call EXCEPT ![r] = [step |-> "asked", op |-> "receive", by |-> u,
                  shipment |-> s, got |-> got, damaged |-> damaged]]
    /\ UNCHANGED <<tables, numberRow, seenStock, history>>

\* tx.shipment.update: the shipment's row is locked until the end.
LockShipment(r) ==
    /\ Doing(r, "receive", "asked")
    /\ \A q \in Request \ {r} : ~HasShipment(q, call[r].shipment)
    /\ call' = [call EXCEPT ![r].step = "locked"]
    /\ UNCHANGED <<tables, numberRow, seenStock, history>>

\* Seeded mistake: a transaction number that locks nothing.
NumberFreeAlways(r) == TRUE
NumberFree(r) == numberRow = Nobody

\* recordTransaction of the usable or of the held bags.  When all bags are
\* damaged the shipment's own buckets are written before it too, but nobody
\* else can have touched those, for its row is locked.
NumberReceive(r) ==
    /\ \/ Doing(r, "receive", "locked") /\ ~StockFirst(call[r])
       \/ Doing(r, "receive", "stocked")
    /\ NumberFree(r)
    /\ numberRow' = r
    \* reviews.record, first statement: the open review of this truck, if any
    /\ call' = [call EXCEPT ![r] = [step |-> "numbered", op |-> "receive", by |-> @.by,
                  shipment |-> @.shipment, got |-> @.got, damaged |-> @.damaged,
                  open |-> {i \in DOMAIN reviews :
                              /\ reviews[i].truck = TruckOf[call[r].shipment]
                              /\ reviews[i].status = "PENDING"},
                  lines |-> [i \in DOMAIN reviews |-> reviews[i].lines]]]
    /\ UNCHANGED <<tables, seenStock, history>>

\* Seeded mistake: the bucket is emptied without asking what is in it.
InTransitUnchecked(s) == TRUE
InTransit(s) == bucket[s] >= Sent[s]    \* adjustBalance, RULE 1

\* ReceiptReviewsService.record: join the open review or make a new one.
Joined(c) ==
    LET line == [shipment |-> c.shipment, bags |-> c.damaged] IN
    IF c.damaged = 0 THEN reviews
    ELSE IF c.open = {}
    THEN Append(reviews, [truck |-> TruckOf[c.shipment], status |-> "PENDING",
                          by |-> c.by, lines |-> <<line>>])
    ELSE LET i == CHOOSE x \in c.open : TRUE IN
         [reviews EXCEPT ![i].lines = Append(c.lines[i], line)]

\* The stock that a request adds to: what it has read before it took the
\* number row, or what is there once it has it.
StockRead(r, g) ==
    IF StockFirst(call[r]) /\ g = GradeOf[FirstSize(call[r])] THEN seenStock[r] ELSE stock[g]

CommitReceive(r) ==
    LET c == call[r]  s == c.shipment  g == GradeOf[s] IN
    /\ Doing(r, "receive", "numbered")
    /\ InTransit(s)
    /\ StockFree(r, g)
    /\ received' = [received EXCEPT ![s] = TRUE]
    /\ bucket' = [bucket EXCEPT ![s] = @ - Sent[s]]
    /\ stock' = [stock EXCEPT ![g] = StockRead(r, g) + (c.got - c.damaged)]
    /\ hold' = [hold EXCEPT ![s] = @ + c.damaged]
    /\ reviews' = Joined(c)
    /\ counted' = [counted EXCEPT ![s] =
                     Append(@, [by |-> c.by, usable |-> c.got - c.damaged,
                                damaged |-> c.damaged])]
    /\ Overwriting(r)
    /\ EndCall(r)
    /\ UNCHANGED decisions

-----------------------------------------------------------------------------
(* Deciding. *)

MayDecide(u, i) ==
    u \in Supervisor /\ reviews[i].by # u /\ reviews[i].status = "PENDING"

\* decide, up to the transaction: the lines are those of this moment.
AskDecide(r, u, i, outcome) ==
    /\ call[r] = Idle
    /\ i \in DOMAIN reviews
    /\ MayDecide(u, i)
    /\ call' = [call EXCEPT ![r] = [step |-> "asked", op |-> "decide", by |-> u,
                  review |-> i, outcome |-> outcome, lines |-> reviews[i].lines]]
    /\ UNCHANGED <<tables, numberRow, seenStock, history>>

\* adjustBalance of the first hold bucket: the read, ...
ReadHold(r) ==
    /\ Doing(r, "decide", "asked")
    /\ call' = [call EXCEPT ![r] = [step |-> "read", op |-> "decide", by |-> @.by,
                  review |-> @.review, outcome |-> @.outcome, lines |-> @.lines,
                  seen |-> hold[@.lines[1].shipment]]]
    /\ UNCHANGED <<tables, numberRow, seenStock, history>>

\* ... and the upsert.
WriteHold(r) ==
    LET first == call[r].lines[1] IN
    /\ Doing(r, "decide", "read")
    /\ call[r].seen >= first.bags
    /\ \A q \in Request \ {r} : ~HasHold(q, first.shipment)
    /\ call' = [call EXCEPT ![r].step = "written"]
    /\ UNCHANGED <<tables, numberRow, seenStock, history>>

\* recordTransaction of the first line.
NumberDecide(r) ==
    /\ \/ Doing(r, "decide", "written") /\ ~StockFirst(call[r])
       \/ Doing(r, "decide", "stocked")
    /\ NumberFree(r)
    /\ numberRow' = r
    /\ call' = [call EXCEPT ![r].step = "numbered"]
    /\ UNCHANGED <<tables, seenStock, history>>

\* Seeded mistake: the hold buckets are left as they are.
HoldKept(c) == hold
\* The first line's bucket gets the value computed from what was read, the
\* others, read after the number row was taken, what is there less the bags.
\* A size is on one line only (OneOpenReview), so each bucket is adjusted once.
LineAbout(lines, s) == CHOOSE j \in 2 .. Len(lines) : lines[j].shipment = s
HoldAfter(c) ==
    [s \in Shipment |->
        IF s = c.lines[1].shipment THEN c.seen - c.lines[1].bags
        ELSE IF \E j \in 2 .. Len(c.lines) : c.lines[j].shipment = s
        THEN hold[s] - c.lines[LineAbout(c.lines, s)].bags
        ELSE hold[s]]

\* The bags of a grade on the lines of a review.
Bags(lines, g) ==
    SumFunction([j \in DOMAIN lines |->
                    IF GradeOf[lines[j].shipment] = g THEN lines[j].bags ELSE 0])

\* Seeded mistake: only the first line goes back.
ReturnedFirst(c, g) ==
    IF c.outcome = "REJECTED" /\ GradeOf[c.lines[1].shipment] = g THEN c.lines[1].bags ELSE 0
\* Bags that are not lost after all go back to the stock.
Returned(c, g) == IF c.outcome = "REJECTED" THEN Bags(c.lines, g) ELSE 0

\* The other lines, and the status of the review, whatever it is by now.
CommitDecide(r) ==
    LET c == call[r] IN
    /\ Doing(r, "decide", "numbered")
    /\ \A s \in Shipment : HoldAfter(c)[s] >= 0
    /\ StockFirst(c) => \A j \in DOMAIN c.lines : StockFree(r, GradeOf[c.lines[j].shipment])
    /\ hold' = HoldAfter(c)
    /\ stock' = [g \in Grade |-> StockRead(r, g) + Returned(c, g)]
    /\ reviews' = [reviews EXCEPT ![c.review].status = c.outcome]
    /\ decisions' = [decisions EXCEPT ![c.review] =
                       Append(@, [by |-> c.by, outcome |-> c.outcome, lines |-> c.lines])]
    /\ Overwriting(r)
    /\ EndCall(r)
    /\ UNCHANGED <<received, bucket, counted>>

\* Any other end: negative inventory, a duplicate RV number, a database
\* deadlock or timeout, a crash.  Nothing is left behind.
Fail(r) ==
    /\ call[r] # Idle
    /\ EndCall(r)
    /\ UNCHANGED <<tables, history>>

Next ==
    \E r \in Request :
        \/ \E u \in User, s \in Shipment : \E got \in 0 .. Sent[s] + MaxExtra :
              \E damaged \in 0 .. got : AskReceive(r, u, s, got, damaged)
        \/ LockShipment(r) \/ NumberReceive(r) \/ CommitReceive(r)
        \/ \E u \in User, i \in DOMAIN reviews, outcome \in Outcome :
              AskDecide(r, u, i, outcome)
        \/ ReadHold(r) \/ WriteHold(r) \/ NumberDecide(r) \/ CommitDecide(r)
        \/ ReadStock(r) \/ WriteStock(r)
        \/ Fail(r)

Spec == Init /\ [][Next]_vars

-----------------------------------------------------------------------------
(* Properties. *)

\* Size s is on line j of review i.
OnLine(s, i, j) ==
    /\ i \in DOMAIN reviews /\ j \in DOMAIN reviews[i].lines
    /\ reviews[i].lines[j].shipment = s
DamagedIn(s) == \E k \in DOMAIN counted[s] : counted[s][k].damaged > 0

Line == [shipment : Shipment, bags : Nat \ {0}]
Review == [truck : Truck, status : {"PENDING"} \cup Outcome, by : Manager, lines : Seq(Line)]
Count == [by : Manager, usable : Nat, damaged : Nat]
Decision == [by : Supervisor, outcome : Outcome, lines : Seq(Line)]
Receiving ==
    [step : {"asked", "locked", "looked", "stocked"}, op : {"receive"}, by : Manager,
     shipment : Shipment, got : Nat, damaged : Nat]
\* With what record has read of the reviews.
Recording ==
    [step : {"numbered"}, op : {"receive"}, by : Manager, shipment : Shipment,
     got : Nat, damaged : Nat, open : SUBSET Nat, lines : Seq(Seq(Line))]
Deciding ==
    [step : {"asked"}, op : {"decide"}, by : Supervisor, review : Nat,
     outcome : Outcome, lines : Seq(Line)]
\* With what it has read of its first hold bucket.
Emptying ==
    [step : {"read", "written", "looked", "stocked", "numbered"}, op : {"decide"},
     by : Supervisor, review : Nat, outcome : Outcome, lines : Seq(Line), seen : Nat]

\* Every variable keeps its type: in particular neither a hold bucket nor the
\* stock ever holds fewer than no bags.
TypeOK ==
    /\ received \in [Shipment -> BOOLEAN]
    /\ bucket \in [Shipment -> Nat]
    /\ hold \in [Shipment -> Nat]
    /\ stock \in [Grade -> Nat]
    /\ reviews \in Seq(Review)
    /\ numberRow \in Request \cup {Nobody}
    /\ call \in [Request -> {Idle} \cup Receiving \cup Recording \cup Deciding \cup Emptying]
    /\ \A r \in Request : call[r] # Idle /\ call[r].op = "receive"
                              => call[r].damaged <= call[r].got
    /\ seenStock \in [Request -> Nat]
    /\ counted \in [Shipment -> Seq(Count)]
    /\ decisions \in [1 .. Cardinality(Shipment) -> Seq(Decision)]
    /\ overwritten \subseteq Grade

\* receive checks receivedAt before its transaction; what keeps two people
\* from counting the same shipment in twice is the in-transit bucket.
CountedInOnce ==
    \A s \in Shipment : /\ Len(counted[s]) <= 1
                        /\ received[s] <=> Len(counted[s]) = 1
                        /\ bucket[s] = IF received[s] THEN 0 ELSE Sent[s]

\* record(): "One open review per truck: the next size counted in from the
\* same truck joins it".  No truck has two open reviews, and every damaged
\* size of every truck is on exactly one line of one review.
OneOpenReview ==
    /\ \A i, k \in DOMAIN reviews :
          reviews[i].truck = reviews[k].truck /\ reviews[i].status = "PENDING"
              /\ reviews[k].status = "PENDING" => i = k
    /\ \A s \in Shipment : DamagedIn(s) <=>
          \E i \in DOMAIN reviews : \E j \in DOMAIN reviews[i].lines : OnLine(s, i, j)
    /\ \A i, k \in DOMAIN reviews :
          \A j \in DOMAIN reviews[i].lines, l \in DOMAIN reviews[k].lines :
              reviews[i].lines[j].shipment = reviews[k].lines[l].shipment => i = k /\ j = l

\* docs/RECEIPT_REVIEW.md, 4: the supervisor decides "only once".
DecidedOnce == \A i \in DOMAIN decisions : Len(decisions[i]) <= 1

\* docs/RECEIPT_REVIEW.md, 4: "never the person who reported it".  Whoever
\* decides has counted in none of the sizes on the review.
ReporterNeverDecides ==
    \A i \in DOMAIN decisions : \A d \in Range(decisions[i]) :
        \A line \in Range(d.lines) : \A count \in Range(counted[line.shipment]) :
            count.by # d.by

\* A decision on review i was about size s.
DecidedAbout(s, i) ==
    \E k \in DOMAIN decisions[i] : \E l \in DOMAIN decisions[i][k].lines :
        decisions[i][k].lines[l].shipment = s

\* The class comment: held bags are held "until the Warehouse Supervisor
\* decides".  However requests race, a hold bucket that is not empty is on a
\* review of which no decision has taken its bags: the review is open, so that
\* somebody can decide, or was closed by decisions that had read its lines
\* before the size joined, and then the bags are stuck.
HeldBagsAwaitDecision ==
    \A s \in Shipment : hold[s] > 0 =>
        \E i \in DOMAIN reviews :
            /\ \E j \in DOMAIN reviews[i].lines : OnLine(s, i, j)
            /\ reviews[i].status = "PENDING" \/ decisions[i] # <<>>
            /\ ~DecidedAbout(s, i)

OfGrade(f, g) == [s \in Shipment |-> IF GradeOf[s] = g THEN f[s] ELSE 0]
Arrived(counts) ==
    SumFunction([i \in DOMAIN counts |-> counts[i].usable + counts[i].damaged])
WrittenOff(taken, g) ==
    LET approved == {k \in DOMAIN taken : taken[k].outcome = "APPROVED"} IN
    SumFunction([k \in approved |-> Bags(taken[k].lines, g)])

\* "Approving writes them off as a loss; refusing puts them back": of every
\* grade, all bags that arrived are in the stock, held or written off, and in
\* one of them only, whatever counts in and decides at once, unless a request
\* put a value that was no longer the current one into a bucket of the grade.
BagsConserved ==
    \A g \in Grade \ overwritten :
        SumFunction(OfGrade([s \in Shipment |-> Arrived(counted[s])], g))
            = stock[g] + SumFunction(OfGrade(hold, g))
                       + SumFunction([i \in DOMAIN decisions |-> WrittenOff(decisions[i], g)])
-----------------------------------------------------------------------------
(* CountedInOnce is inductive.  OneOpenReview needs the number row: what    *)
(* record has read of the reviews is still so when it writes.  What becomes *)
(* of held bags needs that a decision takes a first part of the lines of    *)
(* its review, each with all the bags that are held, and no other line.     *)

NumberRowHeld == \A r \in Request : call[r].step = "numbered" <=> numberRow = r

\* Reviews are written under the number row only.
RecordReadsLast ==
    \A r \in Request : Doing(r, "receive", "numbered") =>
        /\ call[r].open = {i \in DOMAIN reviews :
                             /\ reviews[i].truck = TruckOf[call[r].shipment]
                             /\ reviews[i].status = "PENDING"}
        /\ call[r].lines = [i \in DOMAIN reviews |-> reviews[i].lines]

\* A review has a line; a decision has read some of them, and those are still
\* there.
LinesStay ==
    /\ \A i \in DOMAIN reviews : reviews[i].lines # <<>>
    /\ \A r \in Request : call[r] # Idle /\ call[r].op = "decide" =>
          /\ call[r].review \in DOMAIN reviews
          /\ call[r].lines # <<>>
          /\ \A j \in DOMAIN call[r].lines :
                /\ j \in DOMAIN reviews[call[r].review].lines
                /\ call[r].lines[j] = reviews[call[r].review].lines[j]

\* A decision that has got past its first bucket has found its bags there.
SeenIsTheLine ==
    \A r \in Request : call[r] # Idle /\ call[r].op = "decide" /\ call[r].step # "asked" =>
        /\ call[r].seen <= call[r].lines[1].bags
        /\ call[r].step # "read" => call[r].seen = call[r].lines[1].bags

\* Decisions are about lines of their reviews, and an undecided one is open.
DecidedLines ==
    \A i \in DOMAIN decisions :
        /\ decisions[i] # <<>> => i \in DOMAIN reviews
        /\ i \in DOMAIN reviews /\ decisions[i] = <<>> => reviews[i].status = "PENDING"
        /\ \A s \in Shipment : DecidedAbout(s, i) =>
              \E j \in DOMAIN reviews[i].lines : OnLine(s, i, j)

\* What is held for a size is what its review says of it, until it is decided.
HeldIsReported ==
    \A s \in Shipment :
        /\ ~DamagedIn(s) => hold[s] = 0
        /\ \A i \in DOMAIN reviews : \A j \in DOMAIN reviews[i].lines : OnLine(s, i, j) =>
              hold[s] = IF DecidedAbout(s, i) THEN 0 ELSE reviews[i].lines[j].bags

\* What every step keeps, in the order in which its parts rest on each other.
IInv ==
    /\ TypeOK /\ CountedInOnce
    /\ NumberRowHeld /\ RecordReadsLast /\ OneOpenReview
    /\ LinesStay /\ SeenIsTheLine /\ DecidedLines /\ HeldIsReported
=============================================================================
