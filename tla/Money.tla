------------------------------- MODULE Money --------------------------------
(***************************************************************************)
(* The company's money: payments of customers (PaymentsService), invoices  *)
(* (InvoicesService) and expenses (ExpensesService), and the four screens  *)
(* that add them up: invoices, receivables, the money center with its      *)
(* ledger, and the overview pages.                                         *)
(*                                                                         *)
(* A decision reads the row and checks it, updates it by its id, and then  *)
(* writes the audit trail, in three separate statements.  An invoice       *)
(* checks for another before its transaction, which counts the invoices,   *)
(* and inserts; its number, count + 1, is a unique key.                    *)
(***************************************************************************)
EXTENDS Integers, SequencesExt, Roles

CONSTANTS
    Order,          \* orders that were delivered
    CustomerOf,     \* [Order -> customers]
    TotalOf,        \* [Order -> Nat]: what its invoice comes to
    DueOf,          \* [Order -> {"ahead", "today", "past"}]: when its invoice is due
    Farm, Warehouse, Mill,
    Request,        \* HTTP requests in flight
    None,
    MaxPapers, MaxExpenses, MaxInvoices, MaxAmount,     \* bounds
    MaxClosed,      \* bound: places closed; papers are payments and expenses
    LedgerLimit     \* the rows of each kind that the ledger reads: 3000 in the code

Place == Farm \cup Warehouse \cup Mill
Customer == {CustomerOf[o] : o \in Order}

ASSUME MoneyAssumption ==
    /\ TotalOf \in [Order -> Nat \ {0}] /\ DueOf \in [Order -> {"ahead", "today", "past"}]
    /\ MaxAmount \in Nat /\ LedgerLimit \in Nat /\ IsFiniteSet(Place)

VARIABLES
    payments,       \* the rows, in the order they are made
    expenses,
    invoices,       \* the order that each invoice is for
    active,         \* the places that have not been closed
    audited,        \* the last decision on each payment and expense in the audit trail
    call,           \* what each HTTP request is about to do
    crossed         \* history: papers two requests worked on at once, or one left halfway

vars == <<payments, expenses, invoices, active, audited, call, crossed>>

\* A paper to decide on: <<"payment", i>> or <<"expense", i>>.  An order to
\* invoice is <<"order", o>>.
Papers == {"payment"} \X DOMAIN payments \cup {"expense"} \X DOMAIN expenses
Paper(p) == IF p[1] = "payment" THEN payments[p[2]] ELSE expenses[p[2]]
Waiting == "PENDING"        \* PENDING_VERIFICATION of a payment
Accepted == "APPROVED"      \* VERIFIED of a payment
Idle == [op |-> "none", on |-> <<>>]

Init ==
    /\ payments = <<>> /\ expenses = <<>> /\ invoices = <<>>
    /\ active = Place
    /\ audited = <<>>
    /\ call = [r \in Request |-> Idle]
    /\ crossed = {}

-----------------------------------------------------------------------------
(* Who may decide. *)

Sees(u, e) == \E place \in {e.farm, e.warehouse, e.mill, "GLOBAL"} : place \in ScopesOf[u]

\* assertMayDecide: what the Finance Director entered goes to the MD or CEO.
DirectorsAnyway(by) == FALSE    \* seeded mistake: the exception is left out
Directors(by) == HasRole(by, {"FINANCE_DIRECTOR"})
MayDecideExpense(u, e) ==
    /\ HoldsAny(u, {"finance.approve", "finance.approve.director"})
    /\ Sees(u, e)
    /\ e.status = Waiting
    /\ e.by # u
    /\ HoldsAny(u, {"finance.approve"}) \/ Directors(e.by)

MayDecidePayment(u, p) ==
    HoldsAny(u, {"payment.verify"}) /\ p.status = Waiting /\ p.by # u

MayDecide(u, p) ==
    IF p[1] = "payment" THEN MayDecidePayment(u, Paper(p)) ELSE MayDecideExpense(u, Paper(p))

\* mayDecide of the expenses page, which "mirrors the server's rule exactly".
OffersReview(u, e) ==
    /\ Sees(u, e) /\ e.status = Waiting
    /\ e.by # u
    /\ \/ HoldsAny(u, {"finance.approve"})
       \/ HoldsAny(u, {"finance.approve.director"}) /\ HasRole(e.by, {"FINANCE_DIRECTOR"})

\* The tiles of the control center: payments-verify, expenses-decide and
\* expenses-director, for whoever holds one permission and not the other.
Counted(u, p) ==
    LET q == Paper(p) IN
    /\ q.status = Waiting
    /\ IF p[1] = "payment" THEN HoldsAny(u, {"payment.verify"})
       ELSE /\ \E place \in {q.farm, q.warehouse, "GLOBAL"} : place \in ScopesOf[u]
            /\ \/ HoldsAny(u, {"finance.approve"}) /\ q.by # u
               \/ /\ HoldsAny(u, {"finance.approve.director"}) /\ ~HoldsAny(u, {"finance.approve"})
                  /\ HasRole(q.by, {"FINANCE_DIRECTOR"})

InvoicedNever(o) == FALSE   \* seeded mistake
Invoiced(o) == \E i \in DOMAIN invoices : invoices[i] = o

-----------------------------------------------------------------------------
(* The handlers. *)

Applied(alloc) == SumFunction(alloc)

\* create: what a payment is applied to is fixed when it is recorded, for
\* invoices of one customer; nothing asks what is still owed on them.
RecordPayment(u, amount, alloc) ==
    /\ Len(payments) + Len(expenses) < MaxPapers
    /\ HoldsAny(u, {"payment.create"})
    /\ Applied(alloc) <= amount
    /\ \A i, j \in DOMAIN alloc : CustomerOf[invoices[i]] = CustomerOf[invoices[j]]
    /\ payments' = Append(payments, [by |-> u, amount |-> amount, alloc |-> alloc, status |-> Waiting])
    /\ UNCHANGED <<expenses, invoices, active, audited, call, crossed>>

\* create: for a farm, a warehouse, a mill, several of them or none.
EnterExpense(u, farm, warehouse, mill) ==
    /\ Len(expenses) < MaxExpenses /\ Len(payments) + Len(expenses) < MaxPapers
    /\ HoldsAny(u, {"expense.create"})
    /\ \A place \in {farm, warehouse, mill} \ {None} : InScope(u, place)
    /\ expenses' = Append(expenses, [by |-> u, farm |-> farm, warehouse |-> warehouse,
                                     mill |-> mill, status |-> Waiting])
    /\ UNCHANGED <<payments, invoices, active, audited, call, crossed>>

\* Bound: requests that overlap are about papers of one kind, whose rows no
\* other kind's requests touch, and do so until one paper was crossed.
Begin(r, c) ==
    /\ call[r] = Idle
    /\ \A q \in Request : call[q] # Idle => crossed = {} /\ call[q].on[1] = c.on[1]
    /\ call' = [call EXCEPT ![r] = c]
    /\ crossed' = IF \E q \in Request : call[q].on = c.on THEN crossed \cup {c.on} ELSE crossed
    /\ UNCHANGED <<payments, expenses, invoices, active, audited>>

\* approve, verify and reject.
AskDecide(r, u, p, verdict) ==
    /\ MayDecide(u, p)
    /\ Begin(r, [op |-> "decide", on |-> p, step |-> 1, verdict |-> verdict])

At(r, op, step) == call[r].op = op /\ call[r].step = step
End(r) == call' = [call EXCEPT ![r] = Idle]

UpdateStatus(r) ==
    LET i == call[r].on[2] IN
    /\ At(r, "decide", 1)
    /\ IF call[r].on[1] = "payment"
       THEN payments' = [payments EXCEPT ![i].status = call[r].verdict] /\ UNCHANGED expenses
       ELSE expenses' = [expenses EXCEPT ![i].status = call[r].verdict] /\ UNCHANGED payments
    /\ call' = [call EXCEPT ![r].step = 2]
    /\ UNCHANGED <<invoices, active, audited, crossed>>

Noted(r) == [p \in DOMAIN audited \cup {call[r].on} |->
                IF p = call[r].on THEN call[r].verdict ELSE audited[p]]
TrailApproved(r) ==     \* seeded mistake: a rejection leaves no trace
    IF call[r].verdict = Accepted THEN Noted(r) ELSE audited
Trail(r) == Noted(r)
WriteTrail(r) ==
    /\ At(r, "decide", 2)
    /\ audited' = Trail(r)
    /\ End(r)
    /\ UNCHANGED <<payments, expenses, invoices, active, crossed>>

\* createFromSalesOrder.
AskInvoice(r, u, o) ==
    /\ Len(invoices) < MaxInvoices
    /\ HoldsAny(u, {"invoice.create"})
    /\ ~Invoiced(o)
    /\ Begin(r, [op |-> "invoice", on |-> <<"order", o>>, step |-> 1, count |-> 0])

CountInvoices(r) ==
    /\ At(r, "invoice", 1)
    /\ call' = [call EXCEPT ![r].step = 2, ![r].count = Len(invoices)]
    /\ UNCHANGED <<payments, expenses, invoices, active, audited, crossed>>

InsertInvoice(r) ==
    /\ At(r, "invoice", 2)
    /\ Len(invoices) = call[r].count    \* or its number is taken
    /\ invoices' = Append(invoices, call[r].on[2])
    /\ End(r)
    /\ UNCHANGED <<payments, expenses, active, audited, crossed>>

\* A handler fails, or its process dies; the status stays as updated.
Fail(r) ==
    /\ call[r] # Idle
    /\ crossed' = IF At(r, "decide", 2) THEN crossed \cup {call[r].on} ELSE crossed
    /\ End(r)
    /\ UNCHANGED <<payments, expenses, invoices, active, audited>>

\* FarmsService.deactivate and the same of warehouses and mills.
ClosePlace(place) ==
    /\ place \in active /\ expenses # <<>>
    /\ Cardinality(Place \ active) < MaxClosed
    /\ active' = active \ {place}
    /\ UNCHANGED <<payments, expenses, invoices, audited, call, crossed>>

Next ==
    \/ \E u \in User :
          \/ \E amount \in 1 .. MaxAmount, some \in SUBSET DOMAIN invoices :
                \E alloc \in [some -> 1 .. MaxAmount] : RecordPayment(u, amount, alloc)
          \/ \E farm \in Farm \cup {None}, warehouse \in Warehouse \cup {None}, mill \in Mill \cup {None} :
                EnterExpense(u, farm, warehouse, mill)
    \/ \E r \in Request :
          \/ \E u \in User :
                \/ \E p \in Papers, verdict \in {Accepted, "REJECTED"} : AskDecide(r, u, p, verdict)
                \/ \E o \in Order : AskInvoice(r, u, o)
          \/ UpdateStatus(r) \/ WriteTrail(r)
          \/ CountInvoices(r) \/ InsertInvoice(r)
          \/ Fail(r)
    \/ \E place \in Place : ClosePlace(place)

Spec == Init /\ [][Next]_vars

-----------------------------------------------------------------------------
(* What the screens add up.  Every expense is of one cedi. *)

Sum(f(_), S) == SumFunction([x \in S |-> f(x)])
OfCustomer(c) == {i \in DOMAIN invoices : CustomerOf[invoices[i]] = c}
Total(i) == TotalOf[invoices[i]]

\* What the payments in these states have paid on an invoice: only VERIFIED
\* payments count, to each of the four services.
PaidBy(i, statuses) ==
    Sum(LAMBDA k : IF i \in DOMAIN payments[k].alloc THEN payments[k].alloc[i] ELSE 0,
        {k \in DOMAIN payments : payments[k].status \in statuses})
Paid(i) == PaidBy(i, {Accepted})
Left(i) == Total(i) - Paid(i)
Owing(c) == {i \in OfCustomer(c) : Left(i) > 0}
DueWhen(i, when) == DueOf[invoices[i]] \in when

\* InvoicesService.withComputedTotals: the balance on each invoice.
Balance(i) == Max({Left(i), 0})

\* ReceivablesService.forCustomer; "today" is less than a day ago.
Receivable(c) ==
    [outstanding |-> Sum(Total, OfCustomer(c)) - Sum(Paid, OfCustomer(c)),
     aged |-> Sum(Left, Owing(c)),
     late |-> Sum(Left, {i \in Owing(c) : DueWhen(i, {"past"})})]

\* FinanceCenterService.overview.
CenterDebt(c) ==
    [outstanding |-> Sum(Left, Owing(c)),
     overdue |-> Sum(Left, {i \in Owing(c) : DueWhen(i, {"past", "today"})})]

\* BusinessAnalyticsService: stillOwed, in sales and finance.
StillOwedPending(i) == Max({Total(i) - PaidBy(i, {Accepted, Waiting}), 0})    \* seeded mistake
StillOwed(i) == Max({Total(i) - PaidBy(i, {Accepted}), 0})
AnalyticsDebt(c) ==
    [outstanding |-> Sum(StillOwed, OfCustomer(c)),
     late |-> Sum(StillOwed, {i \in OfCustomer(c) : DueWhen(i, {"past"})})]

Rows(rows, status) == {i \in DOMAIN rows : rows[i].status = status}
Amount(k) == payments[k].amount
Collected == Sum(Amount, Rows(payments, Accepted))
Spent == Cardinality(Rows(expenses, Accepted))

\* placeOf: the most specific place that an expense names, or head office.
PlaceOf(e) ==
    IF e.mill # None THEN e.mill ELSE IF e.warehouse # None THEN e.warehouse ELSE e.farm
CountedAtNamed(e, place) == place \in {e.mill, e.warehouse, e.farm}    \* seeded mistake
CountedAt(e, place) == place = PlaceOf(e)
SpentAt(place) == Cardinality({i \in Rows(expenses, Accepted) : CountedAt(expenses[i], place)})
\* spendByPlace: the active farms, warehouses and mills, and the head office.
SpendByPlace == Sum(SpentAt, active \cup {None})

\* BusinessAnalyticsService.finance: what it calls spent is not refused.
AnalyticsSpent == Cardinality({i \in DOMAIN expenses : expenses[i].status # "REJECTED"})

\* FinanceCenterService.ledger, unfiltered: it adds up the newest rows, those
\* dated last; here they are dated as they are made.
Newest(rows) == {i \in DOMAIN rows : i > Len(rows) - LedgerLimit}
StateOf(status) ==
    CASE status = Accepted -> "confirmed" [] status = Waiting -> "waiting" [] OTHER -> "refused"
LedgerIn(state) == Sum(Amount, {k \in Newest(payments) : StateOf(payments[k].status) = state})
LedgerOut(state) == Cardinality({i \in Newest(expenses) : StateOf(expenses[i].status) = state})

-----------------------------------------------------------------------------
(* Properties. *)

\* Invoices, receivables, the money center and the overview pages each work
\* out what a customer owes from the same rows.  They agree, and so do their
\* figures of what is late, as long as no invoice is paid more than it comes
\* to (and, for the money center, none fell due within the last day).
DebtsAgree ==
    \A c \in Customer : (\A i \in OfCustomer(c) : Paid(i) <= Total(i)) =>
        LET owed == Sum(Balance, OfCustomer(c)) IN
        /\ Receivable(c).outstanding = owed /\ Receivable(c).aged = owed
        /\ CenterDebt(c).outstanding = owed /\ AnalyticsDebt(c).outstanding = owed
        /\ Receivable(c).late = AnalyticsDebt(c).late
        /\ CenterDebt(c).overdue >= Receivable(c).late
        /\ (\A i \in OfCustomer(c) : DueOf[invoices[i]] # "today")
              => CenterDebt(c).overdue = Receivable(c).late

\* docs/MONEY_CENTER.md: owed to us is "as the receivables screen works it
\* out", whatever was paid on an invoice.
OwedAsReceivables ==
    \A c \in Customer : CenterDebt(c).outstanding = Max({Receivable(c).outstanding, 0})

\* "each expense is counted once", at one place: while no place has been
\* closed, the totals of places and head office add up to what was spent.
\* As far as the ledger's limit reaches it confirms exactly that, and the
\* payments collected; with what it has waiting, that is what the overview
\* pages call spent.  Beyond the limit it says less, never more.
SpendingAddsUp ==
    /\ active = Place => SpendByPlace = Spent
    /\ LedgerOut("confirmed") <= Spent
    /\ Len(expenses) <= LedgerLimit =>
          /\ LedgerOut("confirmed") = Spent
          /\ LedgerOut("confirmed") + LedgerOut("waiting") = AnalyticsSpent
    /\ Len(payments) <= LedgerLimit => LedgerIn("confirmed") = Collected

\* docs/MONEY_CENTER.md: "the four totals always add up to exactly what was
\* spent", also once a place that spent money is closed.
FourTotalsAlwaysAddUp == SpendByPlace = Spent

\* assertMayDecide: an expense must not be "stuck for ever with no one able
\* to clear it".  For every payment and expense that waits there is somebody
\* who holds the permission, sees it, did not enter it and may decide, and
\* whose control center counts it.  No tile counts what its reader may not
\* decide, other than payments of their own, and the expenses page offers a
\* review to exactly those who may.
NobodyStuck ==
    \A p \in Papers : Paper(p).status = Waiting =>
        /\ \E u \in User : HasCenter(u) /\ Counted(u, p) /\ MayDecide(u, p)
        /\ \A u \in User :
              /\ Counted(u, p) => MayDecide(u, p) \/ Paper(p).by = u
              /\ p[1] # "payment" => (OffersReview(u, Paper(p)) <=> MayDecide(u, p))

\* The audit trail is written after the row and not with it.  For a paper
\* that one request at a time worked on, without failing halfway, it says
\* what the row says, from the moment the request ends.
TrailSaysWhatStands ==
    \A p \in Papers :
        \/ p \in crossed \/ \E r \in Request : call[r].on = p
        \/ Paper(p).status = IF p \in DOMAIN audited THEN audited[p] ELSE Waiting

\* createFromSalesOrder: "This sales order already has an invoice."  Unless
\* two requests to invoice an order overlap it is invoiced once.
InvoicedOnce ==
    \A i, j \in DOMAIN invoices : invoices[i] = invoices[j] /\ i # j => <<"order", invoices[i]>> \in crossed

-----------------------------------------------------------------------------
(* The inductive invariant: why the trail and the invoices are right, and  *)
(* nobody is stuck.                                                        *)

Verdict == {Accepted, "REJECTED"}
Applying == UNION {[some -> 1 .. MaxAmount] : some \in SUBSET DOMAIN invoices}
Payment == [by : User, amount : 1 .. MaxAmount, alloc : Applying, status : {Waiting} \cup Verdict]
Expense == [by : User, farm : Farm \cup {None}, warehouse : Warehouse \cup {None},
            mill : Mill \cup {None}, status : {Waiting} \cup Verdict]
Deciding == [op : {"decide"}, on : Papers, step : {1, 2}, verdict : Verdict]
Invoicing == [op : {"invoice"}, on : {"order"} \X Order, step : {1, 2}, count : Nat]

TypeOK ==
    /\ payments \in Seq(Payment) /\ expenses \in Seq(Expense) /\ invoices \in Seq(Order)
    /\ active \subseteq Place
    /\ DOMAIN audited \subseteq Papers /\ \A p \in DOMAIN audited : audited[p] \in Verdict
    /\ call \in [Request -> {Idle} \cup Deciding \cup Invoicing]

\* Requests that overlap have crossed what they are about.
OneEach ==
    \A q, r \in Request : q # r /\ call[q] # Idle /\ call[q].on = call[r].on => call[q].on \in crossed

\* Between its update and its line in the trail a decision is what the row says.
Agrees(p) == Paper(p).status = IF p \in DOMAIN audited THEN audited[p] ELSE Waiting
TrailOK ==
    /\ \A p \in Papers \ crossed : Agrees(p) \/ \E r \in Request : At(r, "decide", 2) /\ call[r].on = p
    /\ \A r \in Request : At(r, "decide", 2) /\ call[r].on \notin crossed
                              => Paper(call[r].on).status = call[r].verdict

\* What is about to be invoiced has not been.
InvoiceOK ==
    \A r \in Request : call[r].op = "invoice" /\ call[r].on \notin crossed => ~Invoiced(call[r].on[2])

\* A payment is recorded by people who record payments.
RecordedOK == \A i \in DOMAIN payments : HoldsAny(payments[i].by, {"payment.create"})

IInv == TypeOK /\ OneEach /\ TrailOK /\ InvoiceOK /\ InvoicedOnce /\ RecordedOK
=============================================================================
