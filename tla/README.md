# A TLA+ model of Kam Farms

Kam Farms is a NestJS service over one PostgreSQL database (through Prisma) and
a web client. It follows rice from the paddy a farm weighs in to the bags a
customer receives, and every step is taken by a different person: one enters,
another approves, a third sends, a fourth counts in. There are no background
workers. All concurrency comes from HTTP requests that are served at the same
time, each as a sequence of SQL statements. Almost every handler has the shape

    read a row  ->  check it  ->  open a transaction  ->  write what was decided

in which the read and the check are outside the transaction, and PostgreSQL
runs at READ COMMITTED, Prisma's default (no handler asks for another level).
What can go wrong therefore happens between two statements of two requests,
where unit tests with a mocked Prisma client do not look. The models here keep
exactly those gaps and abstract the rest.

## 1. Inventory

The backend is in `src/backend/src`, the tables in `src/prisma/schema.prisma`.
`PROJECT.json` lists every component with its sources; the ones with state of
their own and rules about it are these.

| Component | State | Operations | Hard because | Correct when |
|---|---|---|---|---|
| Inventory ledger | balances, ledger rows, yearly number | generateNumber, recordTransaction, adjustBalance | reads a balance, then writes an absolute value | no update lost, no negative balance, numbers 1, 2, 3, ..., no deadlock |
| Inventory adjustments | request | create, approve, reject | approved twice is applied twice | applied once, never by its maker |
| Sales orders | order, reservations, tasks, trail | create, submit, approve, release, reject, assign, start, dispatch, fulfil, cancel | two people on one order; stock promised before it is reserved | one hold where the order is; nothing leaves unapproved, or twice |
| Delivery orders, reports, dispatches | order, report, truck | request, submit, approve, reject, send | approval makes a shipment; a truck is on one road | one shipment per approved report |
| Shipments | shipment, in-transit bucket | arrive, receive | two people count one truck in | counted once, every bag accounted for |
| Receipt reviews | review, held bags | record, approve, reject | sizes join an open review that is being decided | decided once, not by the reporter; no held bag forgotten |
| Paddy and supply requests | request | respond, forward, assign, ready, receive | several transactions for one business step | one answer; nothing half done |
| Stock and paddy transfers, mill dispatch | transfer, in-transit bucket | send, approve, receive, cancel | receive races with cancel | bags arrive or go back, once |
| Production, packaging, paddy entries | record, batch | submit, approve, reject | double approval moves stock twice | applied once |
| Expenses, payments, invoices | money rows | create, approve, verify, reject, pay | same gap | one decision; an invoice's status follows its payments |
| Authentication | refresh tokens, failed logins | login, refresh, logout, reset password | token rotation and retries | a token is redeemed once; logout everywhere leaves none |
| Calls, messaging, tasks | session, participants, receipts | request, join, leave, post, move | join races with the last leave | an ended call stays ended |
| System reset | reset request | create, approve, reject, execute | two signatures race with a rejection and the wipe | wiped only with both, once, never after a rejection |

Components meet in two places: the ledger, which every handler that moves stock
calls inside its own transaction, and rows one component writes and another
reads outside a transaction (reservations by stock transfers, dispatch requests
by supply requests, tasks by orders). Notifications, e-mail and socket events
are sent after the commit and nothing reads them back. Registers (farms,
warehouses, customers, sizes, machines), settings, reports, overviews, search,
AI, backup and most of the front end have no protocol: they are single-row
writes or queries, listed as not modelled. Two parts of the front end have one:
the call manager, which answers signals from other browsers, and the Sales
page, which works out by rules of its own whose turn it is.

## 2. Modules

| Module | Models | Extended or used by |
|---|---|---|
| `StockBook` | abstract: a book that changes in atomic postings | `Ledger` (refinement) |
| `Ledger` | InventoryLedgerService, statement by statement, in concurrent transactions | `MCLedger`, `LedgerProofs` |
| `Postings` | the ledger calls each handler makes, in its order | `MCLedger`, as the scripts of `Ledger` |
| `Roles` | the permissions of each role as seeded, the permission guard, the scope check; no state | every module below but `ReceiptReviews`, `SystemReset`, `Calls` |
| `SalesOrders` | SalesOrdersService from draft to delivery, its tasks | `SalesDesk`, `SalesOrdersProofs` |
| `SalesDesk` | what the Sales page and the control center show of an order | `SalesOrdersProofs`, `MCSalesOrders` |
| `Haulage` | abstract: bags are loaded, and unloaded or taken back, once | `Transit` (refinement), `Supply` (its trips) |
| `Transit` | stock transfers, paddy transfers, mill dispatches, beside reservations | `MCTransit`, `TransitProofs` |
| `Supply` | requests for paddy from farm, warehouse and mill | `MCSupply`, `SupplyProofs` |
| `Dispatch` | delivery orders, reports, trucks, up to the count-in | `MCDispatch`, `DispatchProofs` |
| `ReceiptReviews` | ShipmentsService.receive with ReceiptReviewsService | `MCReceiptReviews`, `ReceiptReviewsProofs` |
| `Approvals` | paddy entries, milling records, adjustments | `MCApprovals` |
| `Money` | payments, expenses, invoices, and the screens that add them up | `MCMoney`, `MoneyProofs` |
| `Calls` | calls, call requests, the gateway and the browsers' call manager | `MCCalls` |
| `SystemReset` | SystemResetService | `MCSystemReset`, `SystemResetProofs` |
| `...Proofs` | theorems and proofs | |
| `MC...` | instances for TLC: people, places, scripts, symmetry | |

How they fit together:

- `Ledger` takes transactions apart, statement by statement. It shows that a
  handler which records before it adjusts holds a mutex from its first ledger
  call to its commit; the other modules may therefore make one step of
  everything between such a handler's checks and its commit. Three handlers
  adjust first: the decision on a receipt review, the count-in of a shipment
  whose bags are all damaged, and the count-in of a paddy transfer or mill
  dispatch of which nothing arrived. `ReceiptReviews` takes the first two
  apart; of the third, one step of `Transit`, the bucket that it empties is
  its own and it adds nothing to the stock.
- `Transit` puts transfers and sales orders on one stock, because their two
  availability checks read each other's rows.
- `Supply` lets a transfer that answers a request move as a trip of `Haulage`,
  which `Transit` implements, and a farm's dispatch move as the card of
  `Dispatch` moves (`CardMoves`, which run `dispatch` checks, `DispatchProofs`
  proves, and `Supply!DispatchMoves` takes for granted).
- `Dispatch!CountIn` counts a size in, in one step; `ReceiptReviews` takes that
  step apart and adds the review of damaged bags.

Two conventions are common to them. A handler is a step that reads and checks
(`Begin`, `Ask...`) and later steps that use what it remembered, in `call[r]` of
the HTTP request `r`. And where the code promises something only of requests
that do not overlap, a history variable (`crossed`, or `mixed` in `Calls`) notes
that two did, and the property is conditional on it, so that it is checked in
the same state space as the races. `loose` of `Transit`, `overwritten` of
`ReceiptReviews` and `byHand` of `Dispatch` note other ways out of a promise.

### Ledger and Postings

`recordTransaction` takes the year's next number by an atomic upsert of one
`number_sequences` row. PostgreSQL keeps that row locked until the transaction
ends, so the row is, without saying so, a mutex for all stock movements.
`adjustBalance` is two statements: `ReadBalance` (a SELECT, no lock) and
`WriteBalance` (an upsert of an absolute value computed from the read, which
waits for the row but not for a new value). In the model an uncommitted write
is a row lock: `dirty` and `draft` for balances, `numberDraft` for the number.
`Commit` publishes everything at once; `Reject` is the negative-inventory
exception; `RollBack` is any other end (timeout, deadlock victim, crash, an
exception elsewhere) and may come between any two statements.

The number upsert and the INSERT of the ledger row are one action,
`RecordTransaction`: the row inserted is fresh and invisible until the commit.
Kilograms are integers in thousandths, the precision of the column; a floating
result of exactly -0.001 may be accepted or refused, as the comparison may
round either way. `posted`, `forgiven`, `owed` and `pardoned` are history: what
was posted, and what `Math.max(next, 0)` added to it.

A script is the sequence of ledger calls of one handler. `Postings` has one
operator per handler, with the conditions on which calls are left out. Balance
rows are opaque keys: `buildBalanceDimensionKey` is injective on the dimensions
used, so a key stands for a place and what is kept there.

### SalesOrders and SalesDesk

A handler is `Begin` (findById, the visibility rule, the handler's checks) and
one or more later steps. `Transition` is the conditional update that most
handlers use; `Fulfil` and `Cancel` do not use it, as in the code.
`assignWarehouse` reads the balance and the reservations of other orders in two
further reads before its transaction (`CountStock`, `CheckStock`). `cancel` is
three statements, since each of its updates sees what was committed when that
statement began and keeps its rows locked (`LineLocked`, `TaskLocked`).
`MoveTask` is TasksService.updateStatus on the tasks of orders. `trail` is the
order's activity trail; `shipped` is history.

`findById` loads an order with its includes; it is modelled as one snapshot. An
order has one line. Competition for the same stock, and orders of two lines,
are in `Transit`.

`SalesDesk` adds no state: it defines what `sales-flow.ts` and the panel derive
from an order (hand-offs done, whose turn it is, the buttons) and what the
control center counts, so that these can be compared with what the handlers
would accept and with what was really done.

### Transit

Each haul is a row of one of three tables; `KindOf` says which and the guards of
`Ask` and `Commit` are those of that service. `bucket` is the in-transit balance
of the haul, `reserved` the packs promised to orders at each warehouse. An order
has one line or two of one product: each is compared with what is free, and then
both are promised. `WriteOff` is an approved downward adjustment, which asks for
no promises. `loose` notes the warehouses where packs were promised or written
off that way, or chosen by two requests at once.

The whereabouts screen, the lists with their buttons (`MillDispatchView`,
`DeliveriesDesk`) and the control center's tiles are operators over the rows. A
list takes the newest rows only, 100 paddy transfers and 150 mill dispatches
(`PaddyLimit`, `MillLimit`), of those that the person matches; a row's `after` are
the hauls that existed before it, so that newer ones are known. What is older is
cut off (`CutOff`); the list of stock transfers has no limit, and the control
center's tiles have none either. `ImplementsHaulage` maps a row's status and
bucket to a trip of `Haulage`.

### Supply

One row per request; `farm` and `src` say who was asked. `assign` is two
transactions (`AskFarm`, `NoteFarm`), as in the code, and `receivedAtMill` three
statements (`Claim`, then `MakeReceipt` or, when that fails, `TakeBackClaim`); a
process may die between them (`Fail`). `Stage`, `Visible` and `Mine` translate
what the board shows, which are the newest 200 of the rows in sight
(`BoardLimit`, `CutOff`) and from which the count is made too; the handlers have
no such limit, `NeedsMe` and `Buttons` what the desk in the browser makes
of it. Stock is there or not (`enough`), since only the comparison is read. The
desk loads a card's stock once and does not refresh it, so `Buttons` takes it as
a parameter, and the property is about a card that was told the truth.

### Dispatch

A delivery report is one size of one load; a load of several is a dispatch and
is submitted, approved and rejected as one. `approve` makes the shipment in the
same step. The farm manager's task and the Dispatch desk's card are derived or
updated after each step as the code does (`task`, `Card`). The task is also
moved by hand (`MoveTask`, TasksService.updateStatus), anywhere, and a cancelled
one is not closed by an approval; `byHand` notes that it stands where somebody
put it. The statuses between "to do" and done are one, `IN_PROGRESS`. `Crossed`, `Lost`,
`apart` and `sentBack` are history: overlapping requests, a load whose approval
was overwritten, a truck whose sizes were acted on singly, and an order
something of which was sent back. Vehicles, drivers and costs are left out.

### ReceiptReviews

`receive` is ask, lock the shipment's row, take the number row, commit; `decide`
is ask, read the first hold bucket, write it, take the number row, commit: the
first bucket of a decision is read and written before the number row orders it,
the others after. `numberRow` is the ledger's mutex. Only bags are counted.

The warehouse's stock of a grade is adjusted like any balance: a plain read,
then an absolute value. A decision that puts bags back does so before it takes
the number row, and a count-in whose bags are all damaged takes no number before
it either: both have the steps `ReadStock` and `WriteStock`, with `seenStock`
between them, while the others change the stock under the number row. Decisions
on two trucks of one grade can therefore write over each other, and over a
count-in, although nothing about either truck overlaps. `overwritten` notes the
grades of which that happened.

### Approvals

A paper (an entry, a milling record, an adjustment) is made, corrected and
decided by `Ask`, which checks its status, and `Commit`, which writes it by id.
A milling approval reads the mill's own paddy before it takes its number
(`Weigh`), and what it takes from the warehouse, and how many bags it uses up,
follow from that read. Figures are small sets of kilograms and bags.

### Money

A decision is three statements: the read, the update by id, and the audit row
written after it. The totals of four screens (receivables, money center,
business analytics, the expense list) are operators, each in the words of its
own service. They do not say the same of what was spent: the money center and
the expense list count approved expenses, the business analytics all that were
not rejected. The ledger of the money center reads the newest 3,000 rows of each
kind (`Newest`, `LedgerLimit`); rows are dated the day they are made.
`ClosePlace` deactivates a farm, warehouse or mill.

### Calls

The rows of CallsService, the gateway's relay with one inbox per browser tab in
order, and the tab's call manager: a handler of the tab takes the next message
of its inbox. RTCPeerConnection is external: it is modelled by the signalling
states in which the manager uses it. ICE candidates, mute and media are left
out. Who may call whom depends on `Top`, the people with an office that need
not ask first. A direct call may have several participants.

### SystemReset

`approve`, `reject` and `execute` are `Begin` (read and check) and a commit that
updates by id alone. The signatures are columns. `trail` and `crossed` are
history. Deleting the rows is the trail entry `wipe`; the counts saved before
and after are left out. Reset requests share no state, so a run has one. A
person with the roles of both offices fills both slots in a single call: the
model has one (`both`), and `WipedOnlyWithBoth` says "both signatures", not
"two people", for that is what the code guarantees.

## 3. Runs

Every run is bounded by its constants; nothing else is cut off except what the
constants named `Max...`, `N` and `LastYear` bound, each in the guard of the
action that makes one more, and where `MovedTo` of `Dispatch` lets people move a
task (the theorems let them move it anywhere). Deadlock is not an error in any run: the business
does end, when every request has been answered and every order closed. HTTP
requests are interchangeable and are a symmetry set in the runs of safety
properties.

| Run | Bounds | Distinct states | Shows |
|---|---|---|---|
| `moves` | 3 requests, 7 scripts, 11 balance rows, 2 years | 114,315 | nothing is lost, the inductive invariant, ledger calls end, and `StockBook` is implemented, with short counts, a correction, milling, and a New Year nobody posts across |
| `orders_race` | 1 order, 2 warehouses, 6 people, 2 requests, 2 assignments, tasks moved by hand | 119,646 | one hold where the order is; nothing leaves unapproved; the page tells the truth; a cancelled order is left alone |
| `reviews` | 2 trucks, 3 sizes, 2 grades, 3 people, 2 requests, 1 extra bag | 1,517,206 | counting in and deciding, racing, about one truck or one grade |
| `reset` | 1 reset, 5 people, 2 calls | 19,121 | signatures, rejection and wipe, racing |
| `transit` | 4 hauls (one of each kind, mill dispatches both ways), 2 warehouses, a mill, 3 people, 2 requests, 1 bag a haul, lists of 1 | 189,811 | promised packs stay, lists show the work, whereabouts add up, `Haulage` is implemented |
| `supply` | 2 requests for paddy, 4 people, 2 HTTP requests (1 once one request led to another), a board of 2 | 91,054 | booked as often as it was ready, answered once, on the right desk, reviewed first |
| `dispatch` | 2 sizes, 2 orders, 2 reports, 2 requests, task cancelled by hand | 1,362,428 | bags conserved, a truck's sizes together, what left stands, task and card follow |
| `money` | 2 orders of one customer, a farm, a mill, 4 people, 2 requests, a ledger of 1 | 181,911 | screens agree, nobody waits for nobody, the trail says what the row says |
| `approvals` | 2 papers out of 5, 2 requests, full bags of 3 kg | 77,295 | booked once, papers explain the stock, bags go with weight |
| `calls` | 3 people, 1 call, 1 call request, 2 hang-ups | 491,965 | connected both ways, an abandoned call ends |
| `held` | 2 requests | | counterexample, see below |
| `orders_twice` | 1 order, 2 requests | | counterexample, see below |

Why these bounds are enough to be interesting. A lost update, a double decision
or a stale check needs two requests; three in `moves` let a lock be waited for
while a second is contended, and two products are sold in both orders so that a
cycle of balance locks would appear. Two sizes are the fewest that can join a
review or leave on one truck in part; two warehouses the fewest an order, or a
transfer, can be moved between; two requests for paddy the fewest of which one
leads to the other; two orders of a customer the fewest a payment can be split
over; three people the fewest with whom a second can accept a call while the
first is being connected. `orders_race` gives one warehouse two bags for an
order of one, so that a second delivery is not stopped by an empty warehouse.

The limits of lists are constants that the instances set low. A list of one mill
dispatch and a ledger of one row are exceeded in the runs. A list of one paddy
transfer and a board of two rows are not, since the runs have one such transfer
and two requests for paddy; what holds beyond them is left to the theorems.

### Properties that hold only of requests that do not overlap

These are conditional, and what happens when requests do overlap is part of the
model: `PromisedPacksStay`, `NobodyChasesCancelled`, `RejectionIsLast`,
`BothSignaturesCount`, `AnsweredOnce`, `OneUnderWay`, `Together`,
`WhatLeftStands`, `TaskFollows`, `CardMoves`, `TrailSaysWhatStands`,
`InvoicedOnce`, `PapersExplainStock`. `BagsConserved` of `ReceiptReviews` is
conditional on less: it holds of each grade until a request has written a value
over one that it had not read, whatever else overlaps.

Some have other conditions, outside which the code does not keep its word:
`PromisedPacksStay` is of warehouses where no order asked in two lines for more
than was free and nothing was written off; `TaskFollows` of a task that is not
where somebody put it; `ListsShowWork` and `OnTheRightDesk` of rows that the
limit of the list has not cut off (what must not be shown is not shown beyond it
either); `SpendingAddsUp`, as for the ledger, of no more rows than it reads, and
of the parts while no place is closed. The others hold whatever races.

### What the code does not keep

Two statements are shown to be violated by the listed counterexample runs:

- `held`: when all bags of a size are damaged, `receive` adjusts before it
  records, outside the mutex, and can overwrite the balance of the warehouse's
  paddy of that grade, from which a paddy transfer has just left. (A sale it
  cannot touch: packs of a product are another row.)
- `orders_twice`: two confirmations of one delivery take the bags out twice.

The following are refuted in the same way; each has a configuration beside the
module, which TLC answers with a counterexample. The passing runs check the
weaker statement that does hold.

| Configuration | Statement | What happens |
|---|---|---|
| `MCReceiptReviews_once` | `DecidedOnce` (docs/RECEIPT_REVIEW.md:14) | two supervisors decide one review at once and both decisions count |
| `MCReceiptReviews_reporter` | `ReporterNeverDecides` | whoever reported a size that joined another's review may decide it |
| `MCSystemReset_rejected` | `RejectedStops` (docs/RESET_WORKFLOW.md:19-21) | a rejection during an approval or execution is overwritten |
| `MCSupply_desk` | `CountMatchesDesk` (supply-requests.service.ts:77-80) | the administrator's desk lists, with buttons that are refused, requests that the count leaves out |
| `MCDispatch_resent` | `OneDispatchPerOrder` | a load sent back, then another made: two dispatches for one order |
| `MCApprovals_locked` | `ApprovedIsLocked` | an edit or rejection in flight changes an approved entry |
| `MCApprovals_drift` | `BagsFollowWeight` | with part bags, the mill's bag count drifts from its weight |
| `MCMoney_closed` | `FourTotalsAlwaysAddUp` (docs/MONEY_CENTER.md) | the expenses of a closed place are in the total and in no part |
| `MCMoney_overpaid` | `OwedAsReceivables` | an invoice paid beyond its total lowers one screen's debt and not another's |
| `MCTransit_onroad` | `EveryBagIsSomewhere` (paddy-whereabouts.service.ts:17-20) | paddy on the road between warehouse and mill is on no line of the screen |
| `MCCalls_glare` | `NoGlare` (use-call-manager.ts:82-86) | two who accept at once both offer, and both offers are lost |
| `MCSalesOrders_tasks` | `NoTaskOutlivesOrder` (comment in cancel) | a task moved by hand is missed by the cancellation |
| `MCSalesOrders_tiles` | `TilesMatchPage` (control-center.service.ts:35-37) | a tile counts orders that the page behind it does not list |

The following are not separate runs: they are visible as the conditions named
above, and each is exercised by the run of its module.

- Decisions on two trucks of one grade, at one warehouse, lose one of their two
  updates of the stock (receipt-reviews.service.ts:77-78).
- An order with two lines of one product is promised more than there is
  (sales-orders.service.ts:592-598 and 615-628).
- An adjustment writes promised packs off (inventory-adjustments.service.ts:151).
- A haul that waits drops off the list behind 100 or 150 newer ones
  (paddy-transfers.service.ts:49, mill-dispatch.service.ts:149), a request for
  paddy off the board and the count behind 200 (supply-requests.service.ts:73).
- docs/MONEY_CENTER.md:33-34 says the ledger's totals cover the whole filtered
  list; they cover 3,000 payments and 3,000 expenses of it
  (finance-center.service.ts:198-199).
- docs/MONEY_CENTER.md:18 says spending is what was approved;
  business-analytics.service.ts:92 and 101 also count what waits.

Every inductive invariant that the proofs use was checked by TLC before it was
proved: `IInv` of `Ledger` and `Transit` in their runs, and `IInv` of the other
modules, `DeskInv` of `SalesDesk`, `AskedInv` of `Supply`, `StockOK` of `Dispatch`
and `PaddyStays` of `TransitProofs` as one more line under `INVARIANT` in the
configuration of their run.

Two assumptions deserve a reader's attention though no document contradicts
them. The mutex is one row per year, so a transaction that spans New Year's
midnight is outside it (`QuietNewYear` excludes this; with it FALSE, TLC loses an
update). And the comment above `generateNumber` that discusses a PostgreSQL
sequence as an alternative would, if followed, remove the mutex: that is the
mutant `NumberLockedNever`.

### Fairness

Two runs check liveness. In `moves` (`RequestsEnd`), `FairSpec` gives each request
weak fairness on its next statement: the event loop goes on to it, and
PostgreSQL grants a row lock to its waiters in turn. Nothing obliges a request
to begin, to roll back, or the year to end. `WF` is enough because a statement
that waits stays enabled once the holder has ended, and `RecordersNeverDeadlock`
shows that the holder waits for nobody. That is so of handlers that take a number
first, and the scripts of `moves` are such. The decision on a receipt review, and
the count-ins that adjust first, are not among them: such a request can hold a
balance that the holder of the number row waits for while it waits for the
number row. PostgreSQL then fails one of the two, which is `RollBack` (`Fail` in
the other modules), so that all end, but not all of them well. Locks of other
tables than the ledger's are not considered. In `calls` (`LastOneOutEndsIt`), `Fairness` is
weak fairness on the server answering what a browser posted and on the socket
delivering what the gateway sent; nobody is obliged to accept, decline or hang
up. No other property assumes any fairness.

## 4. Proofs

The `...Proofs` modules prove, for every set of requests, people, places, orders
and scripts, what the runs check on small ones.

**The ledger.** The assumptions are those in `Ledger` on its constants, and, for
everything but `TypeCorrect`, `Serialisable`: every script records before it
adjusts, and no transaction spans two years. `NoLostUpdate` is not inductive. The
invariant `IInv` adds the argument of why it is true:

1. `NumberMutex`: at most one request holds the number row, of the current year;
2. `RecordComesFirst`: a request without that row has a record to make next;
3. `AdjustUnderMutex`: hence balances are read and written only under it;
4. `SeenIsCurrent`: so what was read is still what is there at the write;
5. `DraftAddsUp`: so an uncommitted balance is the committed one plus the deltas;
6. `InsertedNumbers`: and uncommitted numbers follow the committed ones.

From these follow `NoLostUpdate`, `NumbersContiguous`, `RecordersNeverDeadlock`
(the first lock a request takes is the one that excludes everybody else) and the
refinement: `Commit` is one `Post` of `StockBook`, every other step a stutter.

Of deadlocks more is proved, without `Serialisable`: whatever the scripts are,
within one year (`OneYear`), a request that holds a row lock and waits for
another is early, or the other is, where early means to have written a balance
before taking a number (`DeadlocksAreEarly`). It needs `NumberMutex` alone. So
each cycle has in it one of the handlers that adjust first.

**Sales orders.** `IInv` is `TypeOK` with four parts. `TrailOK`: each status is
backed by the entries of the trail that lead to it, and nothing has shipped
before the order was assigned. `HoldOK`: an assigned order has exactly one
unconsumed hold, at its warehouse, and other live orders none. `CallOK`: what a
request in flight read of an order was so when it read it, in terms of things
that never go away (trail entries). `AloneOK`: while nothing crossed, what it
read is still so. `HeldOnce` and `NothingLeavesUnapproved` follow whatever races,
because the conditional update of `Transition` turns a remembered status into a
current one; `NobodyChasesCancelled` follows from `AloneOK`.

**Transit.** `IInv` is `TypeOK`, `RowOK` (a row's status agrees with its bucket),
`CallOK` (a request in flight acts for somebody who may), `OneSender` and
`ChoiceOK` (where nothing was chosen loosely, the availability that an assignment
or a transfer has read is still there). It gives `PromisedPacksStay`. `ListsShowWork`
follows from comparing, role by role, the rules of the lists with those of the
services, once it is known that whoever is named on a row may ask for such a row
(`AskersMay`, which every step keeps). It is proved of every limit, for rows that
the limit has not cut off. The refinement to
`Haulage` needs more than the row: `receive` and `cancel` update by id, and what
makes a second one impossible is that it would take from an empty bucket, so
the step simulation uses `RowOK` at each `Commit`.

`WhereaboutsAgree` is about three sums: the stock of the places somebody sees,
the bags on the roads they see, and the bags that never arrived. What a step
keeps is simpler (`PaddyStays`): the paddy at all places and the paddy that is
in none (`Gone`: on the road, or short when it was counted) is all there was.
Each commit moves the stock of one place and what is gone of one haul by the
same number. That no haul counts in more paddy than it carries, so that nothing
short is negative, is part of `RowOK`. The screen's sums are then parts of
those of `PaddyStays`. Hauls and places are finitely many.

**Supply.** `IInv` is `TypeOK`, `MadeInOrder` (rows are made in order, so a new
one is untouched) and, for each request, four parts. `BookedOK`: each "ready" is
spent once, on the status, on a claim in flight, or on a receipt; it is what the
conditional update of `receivedAtMill` and its compensation keep up, and gives
`MillBooksWhatWasReady` whatever races. `VouchedOK` and `CallOK`: a request that
was sent on was sent on by somebody who could, and a handler in flight knows so
for good. `AloneOK`: where nothing crossed, what a handler has read still holds
(`ReadStill`), and the answer is one dispatch or one transfer (`AnswerOK`); it
gives `AnsweredOnce`.

`OnTheRightDesk` compares, role by role, three pieces of code: the counts of the
board, the buttons of the desk, and the checks of the service. Beyond the limit
of the board, whatever it is, nothing is counted or shown that should not be; up
to it the three agree. They do so only
of requests that were made as the service makes them, which is a second
invariant (`AskedInv`): whoever asked may ask, for a mill of theirs; a mill's
request stays with the warehouse it draws from, and no other warehouse is asked
to send for it; whoever reviews has nothing of their own to review. And they
agree only of some combinations of roles and places (`DeskStaffed`): a
supervisor of warehouses holds no role that shows the requests of all places
(MD, CEO, auditor, Farm Director, operations manager) and has in scope the
warehouse of each mill in scope; a Farm Director has a farm in scope; and there
is another warehouse to ask. Without the first, the board shows that person a
move, and the desk a button, that the service refuses for want of the place.
The instance of run `supply` is `DeskStaffed`.

`ReviewedFirst` is proved under `ReviewersScoped`: whoever
may send requests on, and has a warehouse or mill in scope, is its supervisor or
operations manager. Administrators, who have everything in scope, are thereby
excluded from the theorem; the run has none.

**Dispatch.** `IInv` is `TypeOK` and, for as long as no two requests crossed and
no load was lost (`Orderly`), `Together`, `WhatLeftStands` and three parts that
say why. `WorkOK`: requests past their checks work on different sizes, and what
they checked (`ReadStill`) still holds when they write. `OneCounts`: of an
order's reports one counts, unless something was sent back or several people
prepared it; it gives `OneUnderWay`. `TaskOK`: the farm manager's task is as
the reports say, or where somebody put it, or the follow-up that will set it is
in flight; it gives
`TaskFollows` in whichever order follow-ups end. `CardMoves` is an action
property, of requests that did not cross: a card is as far along as its slowest
size, and a size as its newest report that counts. The proof gives every report
a rank and shows that a step raises the rank of the reports it is about by one
and leaves the others alone, or gives them one no further than review.

`BagsConserved` is a sum over all reports of a size. The sums of the community
modules are folds that choose an element at each step; the lemmas at the head
of `DispatchProofs` show that such a fold exists over every finite set and that
the sum does not depend on the order (`SumRest`), adds up (`SumPlus`) and
ignores zeros (`SumWithin`). They are proved by induction on the subsets of a
finite set: the sets for which a fact holds are a set `G`, so no operator
parameter is needed, and strict inclusion is well-founded (`BySize`). With
`StockOK` (what has not left is on no shipment), each step either leaves every
report's bags alone, appends reports without bags, or is an approval, which
takes from the farm what it puts on the shipments. It assumes no order among
requests: a second approval finds a shipment and fails.

**Sums elsewhere.** `Money`, `Transit` and `ReceiptReviews` use a shorter way to
the same facts: over naturals, to add `f` up over a finite set is to count the
units `{x} \X (1 .. f[x])` of its members (`Units`, `SumCounts`), and what holds
of cardinalities (disjoint unions, bijections, subsets) is in the library.

**Receipt reviews.** `CountedInOnce` is inductive: the in-transit bucket is
emptied by the step that marks the size received, and an empty bucket refuses.
`OneOpenReview` rests on the number row: only its holder writes reviews
(`NumberRowHeld`), so what `record` has read of them is still so
(`RecordReadsLast`). For what becomes of held bags no assumption about races is
needed. A review's lines are only ever added to, so a decision is about a first
part of them (`LinesStay`) and of no other size (`DecidedLines`); it gets past its
first bucket only if it found there all the bags of its line (`SeenIsTheLine`),
and through the others likewise; and what is held for a size is what its line
says, or nothing once a decision has taken it (`HeldIsReported`). It gives
`HeldBagsAwaitDecision`.

`BagsConserved` is inductive together with `IInv`, of each grade for as long as no
value was written over one that was not read (`overwritten`). A count-in adds one
entry to what arrived (`SumAppended`), and its bags to the stock and the holds. A
decision takes from the holds of a review's sizes what they hold, which is what
its lines say, since each size has one line (`TakenIs`), and puts the sum back
into the stock of their grades or adds it to what is written off. That the list
of decisions has a place for every review is `ReviewsFit`: reviews that are open
or decided are about different shipments, of which there are finitely many.

**Money.** `IInv` says that two requests on one paper have crossed it
(`OneEach`); that a paper nobody crossed has the status its last audit row says,
or the decision in between is still to write that row (`TrailOK`); that what is
about to be invoiced has not been (`InvoiceOK`); and that payments are recorded
by people who record payments (`RecordedOK`). It gives `InvoicedOnce` and
`TrailSaysWhatStands`. `NobodyStuck` holds of a company that is `Staffed`: one
Finance Director who does not record payments, and another person who is the MD
or the CEO, both with global scope. With one person only it is false, since
nobody may decide on a paper of their own. The instance of the run is `Staffed`.
`DebtsAgree` and `SpendingAddsUp` follow from the types alone, whatever races.
Of a customer who paid no invoice beyond its total, what is left of each invoice
is a natural, and the four services add it up over sets that differ only by
zeros, or take one sum from another (`Owed`). Every expense is counted at one
place or at head office, so the places' counts are those of the classes of one
partition (`SumOfClasses`); places are finitely many. What the ledger shows is
compared for as many rows as it reads, whatever that limit is (`LedgerLimit`).

**The Sales page.** `DeskInv` adds `TrackOK` to the invariant of the orders: the
hand-offs that the trail shows are done in order, and the status of an order in
flight says exactly which were done. `ScreensTellTruth` follows, of the seeded
permissions and of people as the seed makes them (`Staffed` of `SalesDesk`):
whoever delivers and may also see or make the orders of every warehouse works
for every warehouse, and every warehouse has somebody who delivers and does not
assign. The instance of run `orders_race` satisfies it.

**The reset.** `SystemReset!IInv` says that what a call in flight has read is
still true when it writes: signatures are only ever added (`StillHolds`,
`SignaturesHold`). It holds whatever races with what, and gives
`WipedOnlyWithBoth`. Of a reset whose calls never overlapped more is true: the
status says which signatures there are, and what a call has read has not
changed; `RejectionIsLast` and `BothSignaturesCount` follow.

Assumptions on the constants are those of the modules, each what the data types
or the schema say: amounts and bags are naturals, what a farm keeps comes in
finitely many sizes, whoever loads is a user, and places, hauls and the
shipments that are ever made are finitely many, as sums over them need.

Only model-checked, and why:

- liveness (`RequestsEnd`, `LastOneOutEndsIt`): fairness and ENABLED are out of
  the provers' reach;
- the three properties of `Approvals`, two of them sums over all papers. The
  lemmas on sums would serve them; the invariant under which an approval that
  crossed others still books an entry once is not worked out. `FullBagsStayFull`
  needs in addition that `Math.round` of a whole quotient is that quotient,
  which is nonlinear arithmetic;
- `BothHear` of `Calls`: an invariant over the messages in all inboxes at once,
  which a run with three people checks and no proof is attempted of.

## 5. Plan

Done: the models of section 2; the proofs of `Ledger`, `SalesOrders` with
`SalesDesk`, `Transit`, `Supply`, `Dispatch`, `ReceiptReviews`, `Money` and
`SystemReset`. Left, in this order:

1. Proofs: `EntriesBookedOnce`, `PapersExplainStock` and `FullBagsStayFull` of
   `Approvals`; `BothHear` of `Calls`.
2. `Messaging`: conversations, messages and their receipts, presence.
3. `Sessions`: refresh rotation, lockout, logout everywhere, password reset.

## 6. Not modelled, and why

- Notifications, e-mail and activity sockets: sent after the commit, never read
  back by a decision.
- Audit rows: one per commit, in the same transaction, so a commit stands for its
  row; `Money`, where the row is written later, has it as a step.
- Queries, reports, overviews, watchlist, search and AI: no state change. Those
  that must agree with each other or with what a person may do are operators of
  `Transit`, `Supply`, `Dispatch`, `Money` and `SalesDesk`.
- Paddy requests between warehouse and farm: superseded by supply requests.
- Messaging and authentication: left in the plan.
- Tasks given by hand, and comments on tasks and entries: rows nobody decides on.
- Registers (farms, warehouses, customers, sizes, machines, equipment), settings,
  home page, roles administration: single-row writes; constants here.
- The limits of other lists: 300 delivery orders (delivery-orders.service.ts:70),
  100 invoices (invoices.service.ts:19). No property is about what these show.
- Other sources of packs than transfers (packaging, upward adjustments): left out
  of `Transit`, where they could only make a promise easier to keep.
- Vehicles, drivers, costs, prices, documents, wording, validation of formats.
- Backup and startup: outside the request protocol. Containers, end-to-end tests.
- The front end other than the call manager, the Sales page, the desks of supply
  requests and deliveries, and the review button of expenses: every decision is
  made again by the services. `components/SalesDesks.tsx` is used by no page.
- Numbers of the form count + 1 can collide, in which case the unique key rolls
  one transaction back: that is part of `Fail` in every module.
