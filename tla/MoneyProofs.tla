---------------------------- MODULE MoneyProofs -----------------------------
(***************************************************************************)
(* What Money.tla promises for any number of orders, people, places,       *)
(* papers and requests in flight: the trail says what the rows say, an     *)
(* order is invoiced once, no paper waits with nobody to decide on it, and *)
(* the screens that add the same rows up come to the same.                 *)
(***************************************************************************)
EXTENDS Money, SequenceTheorems, FiniteSetTheorems, WellFoundedInduction, TLAPS

USE MoneyAssumption, RoleAssumption

-----------------------------------------------------------------------------
(* Calls, papers and rows. *)

LEMMA CallTyped ==
  ASSUME TypeOK, NEW r \in Request
  PROVE  /\ call[r] = Idle \/ call[r] \in Deciding \/ call[r] \in Invoicing
         /\ call[r].op = "decide" => call[r] \in Deciding
         /\ call[r].op = "invoice" => call[r] \in Invoicing
BY DEF TypeOK, Idle, Deciding, Invoicing

LEMMA PaperIs ==
  ASSUME NEW p \in Papers
  PROVE  /\ p = <<p[1], p[2]>>
         /\ \/ p[1] = "payment" /\ p[2] \in DOMAIN payments /\ Paper(p) = payments[p[2]]
            \/ p[1] = "expense" /\ p[2] \in DOMAIN expenses /\ Paper(p) = expenses[p[2]]
BY DEF Papers, Paper

LEMMA PaperOf ==
  /\ \A i \in DOMAIN payments : <<"payment", i>> \in Papers
                                /\ Paper(<<"payment", i>>) = payments[i]
  /\ \A i \in DOMAIN expenses : <<"expense", i>> \in Papers
                                /\ Paper(<<"expense", i>>) = expenses[i]
BY DEF Papers, Paper

LEMMA PairIsSomething == ASSUME NEW a, NEW b PROVE <<a, b>> # <<>>
BY Zenon

LEMMA IdleIs == Idle.op = "none" /\ Idle.on = <<>>
BY DEF Idle

\* Requests about a paper, or about an order, are of that kind.
LEMMA AboutPaper ==
  ASSUME TypeOK, NEW r \in Request, NEW p \in Papers, call[r].on = p
  PROVE  call[r] \in Deciding /\ call[r] # Idle
<1>1. p[1] = "payment" \/ p[1] = "expense"
  BY PaperIs
<1>2. call[r] # Idle
  <2>1. p # <<>>
    BY PaperIs, PairIsSomething, Zenon
  <2> QED  BY <2>1, IdleIs, Zenon
<1>3. call[r] \notin Invoicing
  BY <1>1 DEF Invoicing
<1> QED  BY <1>2, <1>3, CallTyped

LEMMA AboutOrder ==
  ASSUME TypeOK, NEW r \in Request, NEW o, call[r].on = <<"order", o>>
  PROVE  call[r] \in Invoicing /\ call[r] # Idle
<1>1. call[r] # Idle
  <2>1. <<"order", o>> # <<>>
    BY PairIsSomething, Zenon
  <2> QED  BY <2>1, IdleIs, Zenon
<1>2. <<"order", o>> \notin Papers
  BY DEF Papers
<1>3. call[r] \notin Deciding
  BY <1>2 DEF Deciding
<1> QED  BY <1>1, <1>3, CallTyped

LEMMA AboutSomething ==
  ASSUME TypeOK, NEW r \in Request, call[r] # Idle
  PROVE  call[r].on # <<>>
<1>1. CASE call[r] \in Deciding
  <2>1. call[r].on \in Papers
    BY <1>1 DEF Deciding
  <2>2. call[r].on = <<call[r].on[1], call[r].on[2]>>
    BY <2>1, PaperIs
  <2> QED  BY <2>2, PairIsSomething, Zenon
<1>2. CASE call[r] \in Invoicing
  <2>1. call[r].on \in {"order"} \X Order
    BY <1>2 DEF Invoicing
  <2>2. call[r].on = <<call[r].on[1], call[r].on[2]>>
    BY <2>1
  <2> QED  BY <2>2, PairIsSomething, Zenon
<1> QED  BY <1>1, <1>2, CallTyped

\* A row with another status, in its place.
LEMMA RowUpdated ==
  ASSUME NEW T, NEW rows \in Seq(T), NEW i \in DOMAIN rows, NEW row \in T
  PROVE  /\ [rows EXCEPT ![i] = row] \in Seq(T)
         /\ DOMAIN [rows EXCEPT ![i] = row] = DOMAIN rows
         /\ [rows EXCEPT ![i] = row][i] = row
         /\ \A j \in DOMAIN rows : j # i => [rows EXCEPT ![i] = row][j] = rows[j]
<1>1. i \in 1 .. Len(rows) /\ DOMAIN rows = 1 .. Len(rows)
  BY LenProperties
<1> QED  BY <1>1, ExceptSeq

LEMMA RowAdded ==
  ASSUME NEW T, NEW rows \in Seq(T), NEW row \in T
  PROVE  /\ Append(rows, row) \in Seq(T)
         /\ DOMAIN Append(rows, row) = DOMAIN rows \cup {Len(rows) + 1}
         /\ Len(rows) + 1 \notin DOMAIN rows
         /\ Append(rows, row)[Len(rows) + 1] = row
         /\ \A j \in DOMAIN rows : Append(rows, row)[j] = rows[j]
<1>1. Len(rows) \in Nat /\ DOMAIN rows = 1 .. Len(rows)
  BY LenProperties
<1> QED  BY <1>1, AppendProperties

-----------------------------------------------------------------------------
(* The rows stay rows.                                                     *)

\* With more papers and more invoices what was one is still one.
LEMMA StillTyped ==
  ASSUME TypeOK, DOMAIN payments \subseteq DOMAIN payments', DOMAIN expenses \subseteq DOMAIN expenses',
         DOMAIN invoices \subseteq DOMAIN invoices'
  PROVE  /\ Papers \subseteq Papers'
         /\ Payment \subseteq Payment' /\ Expense \subseteq Expense'
         /\ Deciding \subseteq Deciding' /\ Invoicing \subseteq Invoicing'
<1>1. Papers \subseteq Papers'
  BY DEF Papers
<1>2. Applying \subseteq Applying'
  BY DEF Applying
<1>3. Payment \subseteq Payment'
  BY <1>2 DEF Payment
<1> QED  BY <1>1, <1>3 DEF Deciding, Invoicing, Expense

LEMMA SeqMonotone ==
  ASSUME NEW S, NEW T, S \subseteq T, NEW s \in Seq(S)
  PROVE  s \in Seq(T)
<1>1. s \in [1 .. Len(s) -> S] /\ Len(s) \in Nat
  BY LenProperties
<1>2. s \in [1 .. Len(s) -> T]
  BY <1>1
<1> QED  BY <1>1, <1>2, SeqDef

\* The calls: one moved on, ended or began; the others are as they were.
LEMMA CallsTyped ==
  ASSUME TypeOK, Deciding \subseteq Deciding', Invoicing \subseteq Invoicing',
         NEW r \in Request, NEW c, call' = [call EXCEPT ![r] = c],
         c = Idle \/ c \in Deciding' \/ c \in Invoicing'
  PROVE  /\ call' \in [Request -> {Idle} \cup Deciding' \cup Invoicing']
         /\ call'[r] = c
         /\ \A q \in Request \ {r} : call'[q] = call[q]
BY DEF TypeOK

-----------------------------------------------------------------------------
(* New papers.                                                             *)

LEMMA PaperAdded ==
  ASSUME IInv, TypeOK', RecordedOK', invoices' = invoices, audited' = audited, call' = call,
         crossed' = crossed, Papers \subseteq Papers',
         \A p \in Papers : Paper(p)' = Paper(p),
         \A p \in Papers' \ Papers : Paper(p)'.status = Waiting
  PROVE  IInv'
<1>1. OneEach'
  BY DEF IInv, OneEach
<1>2. InvoiceOK' /\ InvoicedOnce'
  BY DEF IInv, InvoiceOK, InvoicedOnce, Invoiced
<1>3. \A p \in Papers' \ crossed' : Agrees(p)' \/ \E r \in Request : At(r, "decide", 2)' /\ call'[r].on = p
  <2> TAKE p \in Papers' \ crossed'
  <2>1. CASE p \in Papers
    BY <2>1 DEF IInv, TrailOK, Agrees, At
  <2>2. CASE p \notin Papers
    <3>1. p \notin DOMAIN audited'
      BY <2>2 DEF IInv, TypeOK
    <3> QED  BY <2>2, <3>1 DEF Agrees
  <2> QED  BY <2>1, <2>2
<1>4. ASSUME NEW r \in Request, At(r, "decide", 2)', call'[r].on \notin crossed'
      PROVE  Paper(call[r].on)'.status = call'[r].verdict
  <2>1. At(r, "decide", 2) /\ call[r].on \notin crossed
    BY <1>4 DEF At
  <2>2. call[r].on \in Papers
    BY <2>1, CallTyped DEF IInv, At, Deciding
  <2> QED  BY <2>1, <2>2 DEF IInv, TrailOK
<1>5. TrailOK'
  BY <1>3, <1>4 DEF TrailOK
<1> QED  BY <1>1, <1>2, <1>5 DEF IInv

LEMMA RecordPaymentStep ==
  ASSUME IInv, NEW u \in User, NEW amount \in 1 .. MaxAmount, NEW some \in SUBSET DOMAIN invoices,
         NEW alloc \in [some -> 1 .. MaxAmount], RecordPayment(u, amount, alloc)
  PROVE  IInv'
<1> DEFINE row == [by |-> u, amount |-> amount, alloc |-> alloc, status |-> Waiting]
<1>1. row \in Payment /\ row.by = u /\ row.status = Waiting
  BY DEF Payment, Applying
<1> HIDE DEF row
<1>2. /\ payments' = Append(payments, row) /\ HoldsAny(u, {"payment.create"})
      /\ UNCHANGED <<expenses, invoices, active, audited, call, crossed>>
  BY DEF RecordPayment, row
<1>3. payments \in Seq(Payment)
  BY DEF IInv, TypeOK
<1>4. /\ payments' \in Seq(Payment)
      /\ DOMAIN payments' = DOMAIN payments \cup {Len(payments) + 1}
      /\ Len(payments) + 1 \notin DOMAIN payments
      /\ payments'[Len(payments) + 1] = row
      /\ \A j \in DOMAIN payments : payments'[j] = payments[j]
  BY <1>1, <1>2, <1>3, RowAdded
<1>5. Papers \subseteq Papers' /\ Payment' = Payment /\ Expense' = Expense
      /\ Deciding \subseteq Deciding' /\ Invoicing \subseteq Invoicing'
  BY <1>2, <1>4, StillTyped DEF IInv, Payment, Applying, Expense
<1>6. TypeOK'
  BY <1>2, <1>4, <1>5 DEF IInv, TypeOK
<1>7. \A p \in Papers : Paper(p)' = Paper(p)
  BY <1>2, <1>4, PaperIs DEF Paper
<1>8. \A p \in Papers' \ Papers : Paper(p)'.status = Waiting
  <2> TAKE p \in Papers' \ Papers
  <2>1. p = <<"payment", Len(payments) + 1>>
    BY <1>2, <1>4 DEF Papers
  <2> QED  BY <1>1, <1>4, <2>1 DEF Paper
<1>9. RecordedOK'
  BY <1>1, <1>2, <1>4 DEF IInv, RecordedOK, HoldsAny
<1> QED  BY <1>2, <1>5, <1>6, <1>7, <1>8, <1>9, PaperAdded

LEMMA EnterExpenseStep ==
  ASSUME IInv, NEW u \in User, NEW farm \in Farm \cup {None}, NEW warehouse \in Warehouse \cup {None},
         NEW mill \in Mill \cup {None}, EnterExpense(u, farm, warehouse, mill)
  PROVE  IInv'
<1> DEFINE row == [by |-> u, farm |-> farm, warehouse |-> warehouse, mill |-> mill, status |-> Waiting]
<1>1. row \in Expense /\ row.status = Waiting
  BY DEF Expense
<1> HIDE DEF row
<1>2. /\ expenses' = Append(expenses, row)
      /\ UNCHANGED <<payments, invoices, active, audited, call, crossed>>
  BY DEF EnterExpense, row
<1>3. expenses \in Seq(Expense)
  BY DEF IInv, TypeOK
<1>4. /\ expenses' \in Seq(Expense)
      /\ DOMAIN expenses' = DOMAIN expenses \cup {Len(expenses) + 1}
      /\ Len(expenses) + 1 \notin DOMAIN expenses
      /\ expenses'[Len(expenses) + 1] = row
      /\ \A j \in DOMAIN expenses : expenses'[j] = expenses[j]
  BY <1>1, <1>2, <1>3, RowAdded
<1>5. Papers \subseteq Papers' /\ Payment' = Payment /\ Expense' = Expense
      /\ Deciding \subseteq Deciding' /\ Invoicing \subseteq Invoicing'
  BY <1>2, <1>4, StillTyped DEF IInv, Payment, Applying, Expense
<1>6. TypeOK'
  BY <1>2, <1>4, <1>5 DEF IInv, TypeOK
<1>7. \A p \in Papers : Paper(p)' = Paper(p)
  BY <1>2, <1>4, PaperIs DEF Paper
<1>8. \A p \in Papers' \ Papers : Paper(p)'.status = Waiting
  <2> TAKE p \in Papers' \ Papers
  <2>1. p = <<"expense", Len(expenses) + 1>>
    BY <1>2, <1>4 DEF Papers
  <2> QED  BY <1>1, <1>4, <2>1 DEF Paper
<1>9. RecordedOK'
  BY <1>2 DEF IInv, RecordedOK
<1> QED  BY <1>2, <1>5, <1>6, <1>7, <1>8, <1>9, PaperAdded

-----------------------------------------------------------------------------
(* Requests that begin, go on and end without a word on the rows.          *)

LEMMA CallMoved ==
  ASSUME IInv, NEW r \in Request, NEW c, call' = [call EXCEPT ![r] = c],
         c = Idle \/ c \in Deciding' \/ c \in Invoicing',
         payments' = payments, expenses' = expenses, invoices' = invoices, audited' = audited,
         active' \subseteq Place, crossed \subseteq crossed',
         \A q \in Request \ {r} : c # Idle /\ call[q].on = c.on => c.on \in crossed',
         At(r, "decide", 2) => c = Idle /\ call[r].on \in crossed',
         c \in Deciding' => c.step = 1,
         c.op = "invoice" /\ c.on \notin crossed' => ~Invoiced(c.on[2])
  PROVE  IInv'
<1>1. /\ Papers' = Papers /\ Payment' = Payment /\ Expense' = Expense
      /\ Deciding' = Deciding /\ Invoicing' = Invoicing
      /\ \A p : Paper(p)' = Paper(p)
  BY DEF Papers, Payment, Expense, Applying, Deciding, Invoicing, Paper
<1>2. /\ call' \in [Request -> {Idle} \cup Deciding' \cup Invoicing']
      /\ call'[r] = c
      /\ \A q \in Request \ {r} : call'[q] = call[q]
  BY <1>1, CallsTyped DEF IInv
<1>3. TypeOK'
  BY <1>1, <1>2 DEF IInv, TypeOK
<1>4. OneEach'
  <2> SUFFICES ASSUME NEW p \in Request, NEW q \in Request, p # q, call'[p] # Idle,
                      call'[p].on = call'[q].on
               PROVE  call'[p].on \in crossed'
    BY DEF OneEach
  <2>1. CASE p = r
    BY <1>2, <2>1
  <2>2. CASE q = r
    <3>1. CASE c = Idle
      BY <1>2, <2>2, <3>1, IdleIs, AboutSomething DEF IInv
    <3> QED  BY <1>2, <2>2, <3>1
  <2>3. CASE p # r /\ q # r
    BY <1>2, <2>3 DEF IInv, OneEach
  <2> QED  BY <2>1, <2>2, <2>3
<1>5. ASSUME NEW p \in Papers' \ crossed'
      PROVE  Agrees(p)' \/ \E q \in Request : At(q, "decide", 2)' /\ call'[q].on = p
  <2>1. p \in Papers \ crossed
    BY <1>1, <1>5
  <2>2. CASE Agrees(p)
    BY <1>1, <2>2 DEF Agrees
  <2>3. CASE ~Agrees(p)
    <3>1. PICK q \in Request : At(q, "decide", 2) /\ call[q].on = p
      BY <2>1, <2>3 DEF IInv, TrailOK
    <3>2. q # r
      BY <3>1, <1>5
    <3> QED  BY <1>2, <3>1, <3>2 DEF At
  <2> QED  BY <2>2, <2>3
<1>6. ASSUME NEW q \in Request, At(q, "decide", 2)', call'[q].on \notin crossed'
      PROVE  Paper(call[q].on)'.status = call'[q].verdict
  <2>1. q # r
    <3>1. CASE c = Idle
      BY <1>2, <1>6, <3>1, IdleIs DEF At
    <3>2. CASE c \in Deciding'
      BY <1>2, <1>6, <3>2 DEF At
    <3>3. CASE c \in Invoicing'
      BY <1>2, <1>6, <3>3 DEF At, Invoicing
    <3> QED  BY <3>1, <3>2, <3>3
  <2>2. At(q, "decide", 2) /\ call[q].on \notin crossed /\ call'[q] = call[q]
    BY <1>2, <1>6, <2>1 DEF At
  <2> QED  BY <1>1, <2>2 DEF IInv, TrailOK
<1>7. TrailOK'
  BY <1>5, <1>6 DEF TrailOK
<1>8. InvoiceOK'
  <2> SUFFICES ASSUME NEW q \in Request, call'[q].op = "invoice", call'[q].on \notin crossed'
               PROVE  ~Invoiced(call'[q].on[2])
    BY DEF InvoiceOK, Invoiced
  <2> QED  BY <1>2 DEF IInv, InvoiceOK
<1>9. InvoicedOnce' /\ RecordedOK'
  BY DEF IInv, InvoicedOnce, RecordedOK
<1> QED  BY <1>3, <1>4, <1>7, <1>8, <1>9 DEF IInv

LEMMA AskDecideStep ==
  ASSUME IInv, NEW r \in Request, NEW u \in User, NEW p \in Papers, NEW verdict \in Verdict,
         AskDecide(r, u, p, verdict)
  PROVE  IInv'
<1> DEFINE c == [op |-> "decide", on |-> p, step |-> 1, verdict |-> verdict]
<1>1. c \in Deciding /\ c.op = "decide" /\ c.on = p /\ c.step = 1 /\ c # Idle
  BY DEF Deciding, Idle
<1> HIDE DEF c
<1>2. Begin(r, c)
  BY DEF AskDecide, c
<1>3. /\ call[r] = Idle /\ call' = [call EXCEPT ![r] = c]
      /\ UNCHANGED <<payments, expenses, invoices, active, audited>>
      /\ crossed \subseteq crossed'
      /\ \A q \in Request : call[q].on = p => p \in crossed'
  BY <1>1, <1>2 DEF Begin
<1>4. Deciding' = Deciding /\ ~At(r, "decide", 2) /\ active' \subseteq Place
  BY <1>3, IdleIs DEF Deciding, Papers, At, IInv, TypeOK
<1> QED  BY <1>1, <1>3, <1>4, CallMoved

LEMMA AskInvoiceStep ==
  ASSUME IInv, NEW r \in Request, NEW u \in User, NEW o \in Order, AskInvoice(r, u, o)
  PROVE  IInv'
<1> DEFINE on == <<"order", o>>
           c == [op |-> "invoice", on |-> on, step |-> 1, count |-> 0]
<1>1. on[2] = o /\ on \in {"order"} \X Order
  OBVIOUS
<1>2. Begin(r, c) /\ ~Invoiced(o)
  BY DEF AskInvoice
<1> HIDE DEF on
<1>3. c \in Invoicing /\ c.op = "invoice" /\ c.on = on /\ c \notin Deciding
  BY <1>1 DEF Invoicing, Deciding
<1> HIDE DEF c
<1>4. /\ call[r] = Idle /\ call' = [call EXCEPT ![r] = c]
      /\ UNCHANGED <<payments, expenses, invoices, active, audited>>
      /\ crossed \subseteq crossed'
      /\ \A q \in Request : call[q].on = on => on \in crossed'
  BY <1>2, <1>3 DEF Begin
<1>5. Deciding' = Deciding /\ Invoicing' = Invoicing
      /\ ~At(r, "decide", 2) /\ active' \subseteq Place
  BY <1>4, IdleIs DEF Deciding, Invoicing, Papers, At, IInv, TypeOK
<1> QED  BY <1>1, <1>2, <1>3, <1>4, <1>5, CallMoved

LEMMA CountInvoicesStep ==
  ASSUME IInv, NEW r \in Request, CountInvoices(r)
  PROVE  IInv'
<1> DEFINE c == [call[r] EXCEPT !.step = 2, !.count = Len(invoices)]
<1>1. /\ call[r].op = "invoice" /\ call' = [call EXCEPT ![r] = c]
      /\ UNCHANGED <<payments, expenses, invoices, active, audited, crossed>>
  BY DEF CountInvoices, At
<1>2. call[r] \in Invoicing /\ Len(invoices) \in Nat
  BY <1>1, CallTyped, LenProperties DEF IInv, TypeOK
<1>3. c \in Invoicing /\ c.op = "invoice" /\ c.on = call[r].on /\ c \notin Deciding /\ c # Idle
  BY <1>2, IdleIs DEF Invoicing, Deciding
<1> HIDE DEF c
<1>4. Deciding' = Deciding /\ Invoicing' = Invoicing
      /\ ~At(r, "decide", 2) /\ active' \subseteq Place
  BY <1>1 DEF Deciding, Invoicing, Papers, At, IInv, TypeOK
<1>5. \A q \in Request \ {r} : call[q].on = c.on => c.on \in crossed
  BY <1>2, <1>3, IdleIs DEF IInv, OneEach, Invoicing
<1>6. c.on \notin crossed => ~Invoiced(c.on[2])
  BY <1>1, <1>3 DEF IInv, InvoiceOK
<1> QED  BY <1>1, <1>3, <1>4, <1>5, <1>6, CallMoved

LEMMA FailStep ==
  ASSUME IInv, NEW r \in Request, Fail(r)
  PROVE  IInv'
<1>1. /\ call' = [call EXCEPT ![r] = Idle]
      /\ UNCHANGED <<payments, expenses, invoices, active, audited>>
      /\ crossed \subseteq crossed'
      /\ At(r, "decide", 2) => call[r].on \in crossed'
  BY DEF Fail, End
<1>2. Idle \notin Deciding' /\ Idle.op # "invoice" /\ active' \subseteq Place
  BY <1>1, IdleIs DEF Deciding, IInv, TypeOK
<1> QED  BY <1>1, <1>2, CallMoved

LEMMA ClosePlaceStep ==
  ASSUME IInv, NEW place \in Place, ClosePlace(place)
  PROVE  IInv'
<1>1. active' \subseteq Place /\ UNCHANGED <<payments, expenses, invoices, audited, call, crossed>>
  BY DEF ClosePlace, IInv, TypeOK
<1>2. TypeOK'
  BY <1>1 DEF IInv, TypeOK, Papers, Payment, Expense, Applying, Deciding, Invoicing
<1>3. OneEach' /\ TrailOK' /\ InvoiceOK' /\ InvoicedOnce' /\ RecordedOK'
  BY <1>1 DEF IInv, OneEach, TrailOK, Agrees, Paper, Papers, At, InvoiceOK, Invoiced, InvoicedOnce,
              RecordedOK
<1> QED  BY <1>2, <1>3 DEF IInv

\* A request that ended is about nothing.
LEMMA EndedLeavesOneEach ==
  ASSUME IInv, NEW r \in Request, call'[r] = Idle, crossed' = crossed,
         \A q \in Request \ {r} : call'[q] = call[q]
  PROVE  OneEach'
<1> SUFFICES ASSUME NEW p \in Request, NEW q \in Request, p # q, call'[p] # Idle,
                    call'[p].on = call'[q].on
             PROVE  call'[p].on \in crossed'
  BY DEF OneEach
<1>1. p # r /\ call'[p] = call[p]
  OBVIOUS
<1>2. q # r
  BY <1>1, IdleIs, AboutSomething DEF IInv
<1> QED  BY <1>1, <1>2 DEF IInv, OneEach

-----------------------------------------------------------------------------
(* A decision, and its line in the trail.                                  *)

LEMMA RowDecided ==
  ASSUME IInv, NEW r \in Request, UpdateStatus(r)
  PROVE  /\ payments' \in Seq(Payment) /\ expenses' \in Seq(Expense)
         /\ DOMAIN payments' = DOMAIN payments /\ DOMAIN expenses' = DOMAIN expenses
         /\ \A p \in Papers : /\ Paper(p)'.status = IF p = call[r].on THEN call[r].verdict
                                                    ELSE Paper(p).status
                              /\ Paper(p)'.by = Paper(p).by
<1> DEFINE p0 == call[r].on  i == call[r].on[2]  v == call[r].verdict
<1>1. call[r] \in Deciding /\ p0 \in Papers /\ v \in Verdict
  BY CallTyped DEF UpdateStatus, At, IInv, Deciding
<1>2. payments \in Seq(Payment) /\ expenses \in Seq(Expense)
  BY DEF IInv, TypeOK
<1>3. CASE p0[1] = "payment"
  <2> DEFINE row == [payments[i] EXCEPT !.status = v]
  <2>1. i \in DOMAIN payments /\ p0 = <<"payment", i>>
    BY <1>1, <1>3, PaperIs
  <2>2. payments[i] \in Payment
    BY <1>2, <2>1, LenProperties, ElementOfSeq
  <2>3. row \in Payment /\ row.status = v /\ row.by = payments[i].by
    BY <1>1, <2>2 DEF Payment
  <2>4. payments' = [payments EXCEPT ![i] = row] /\ expenses' = expenses
    BY <1>3 DEF UpdateStatus
  <2> HIDE DEF row
  <2>5. /\ payments' \in Seq(Payment) /\ DOMAIN payments' = DOMAIN payments
        /\ payments'[i] = row /\ \A j \in DOMAIN payments : j # i => payments'[j] = payments[j]
    BY <1>2, <2>1, <2>3, <2>4, RowUpdated
  <2>6. ASSUME NEW p \in Papers
        PROVE  /\ Paper(p)'.status = IF p = p0 THEN v ELSE Paper(p).status
               /\ Paper(p)'.by = Paper(p).by
    <3>1. CASE p[1] = "payment"
      <4>1. p = <<"payment", p[2]>> /\ p[2] \in DOMAIN payments /\ Paper(p) = payments[p[2]]
        BY <3>1, PaperIs
      <4>2. Paper(p)' = payments'[p[2]]
        BY <3>1 DEF Paper
      <4>3. CASE p[2] = i
        BY <2>1, <2>3, <2>5, <4>1, <4>2, <4>3
      <4>4. CASE p[2] # i
        <5>1. p # p0
          BY <4>4
        <5> QED  BY <2>5, <4>1, <4>2, <4>4, <5>1
      <4> QED  BY <4>3, <4>4
    <3>2. CASE p[1] = "expense"
      <4>1. Paper(p)' = Paper(p)
        BY <2>4, <3>2 DEF Paper
      <4>2. p # p0
        BY <1>3, <3>2
      <4> QED  BY <4>1, <4>2
    <3> QED  BY <3>1, <3>2, PaperIs
  <2> QED  BY <1>2, <2>4, <2>5, <2>6
<1>4. CASE p0[1] = "expense"
  <2> DEFINE row == [expenses[i] EXCEPT !.status = v]
  <2>1. i \in DOMAIN expenses /\ p0 = <<"expense", i>>
    BY <1>1, <1>4, PaperIs
  <2>2. expenses[i] \in Expense
    BY <1>2, <2>1, LenProperties, ElementOfSeq
  <2>3. row \in Expense /\ row.status = v /\ row.by = expenses[i].by
    BY <1>1, <2>2 DEF Expense
  <2>4. expenses' = [expenses EXCEPT ![i] = row] /\ payments' = payments
    BY <1>4 DEF UpdateStatus
  <2> HIDE DEF row
  <2>5. /\ expenses' \in Seq(Expense) /\ DOMAIN expenses' = DOMAIN expenses
        /\ expenses'[i] = row /\ \A j \in DOMAIN expenses : j # i => expenses'[j] = expenses[j]
    BY <1>2, <2>1, <2>3, <2>4, RowUpdated
  <2>6. ASSUME NEW p \in Papers
        PROVE  /\ Paper(p)'.status = IF p = p0 THEN v ELSE Paper(p).status
               /\ Paper(p)'.by = Paper(p).by
    <3>1. CASE p[1] = "expense"
      <4>1. p = <<"expense", p[2]>> /\ p[2] \in DOMAIN expenses /\ Paper(p) = expenses[p[2]]
        BY <3>1, PaperIs
      <4>2. Paper(p)' = expenses'[p[2]]
        BY <3>1 DEF Paper
      <4>3. CASE p[2] = i
        BY <2>1, <2>3, <2>5, <4>1, <4>2, <4>3
      <4>4. CASE p[2] # i
        <5>1. p # p0
          BY <4>4
        <5> QED  BY <2>5, <4>1, <4>2, <4>4, <5>1
      <4> QED  BY <4>3, <4>4
    <3>2. CASE p[1] = "payment"
      <4>1. Paper(p)' = Paper(p)
        BY <2>4, <3>2 DEF Paper
      <4>2. p # p0
        BY <1>4, <3>2
      <4> QED  BY <4>1, <4>2
    <3> QED  BY <3>1, <3>2, PaperIs
  <2> QED  BY <1>2, <2>4, <2>5, <2>6
<1> QED  BY <1>1, <1>3, <1>4, PaperIs

LEMMA UpdateStatusStep ==
  ASSUME IInv, NEW r \in Request, UpdateStatus(r)
  PROVE  IInv'
<1> DEFINE c == [call[r] EXCEPT !.step = 2]
<1>1. /\ At(r, "decide", 1) /\ call' = [call EXCEPT ![r] = c]
      /\ UNCHANGED <<invoices, active, audited, crossed>>
  BY DEF UpdateStatus
<1>2. call[r] \in Deciding /\ call[r] # Idle
  BY <1>1, CallTyped, IdleIs DEF At, IInv
<1>3. c \in Deciding /\ c.op = "decide" /\ c.on = call[r].on /\ c.step = 2 /\ c # Idle
      /\ c.verdict = call[r].verdict
  BY <1>2, IdleIs DEF Deciding
<1> HIDE DEF c
<1>4. Papers' = Papers /\ Payment' = Payment /\ Expense' = Expense
      /\ Deciding' = Deciding /\ Invoicing' = Invoicing
  BY <1>1, RowDecided DEF Papers, Payment, Expense, Applying, Deciding, Invoicing
<1>5. /\ call' \in [Request -> {Idle} \cup Deciding' \cup Invoicing']
      /\ call'[r] = c /\ \A q \in Request \ {r} : call'[q] = call[q]
  BY <1>1, <1>3, <1>4, CallsTyped DEF IInv
<1>6. TypeOK'
  BY <1>1, <1>4, <1>5, RowDecided DEF IInv, TypeOK
<1>7. OneEach'
  BY <1>1, <1>2, <1>3, <1>5 DEF IInv, OneEach
<1>8. ASSUME NEW p \in Papers' \ crossed'
      PROVE  Agrees(p)' \/ \E q \in Request : At(q, "decide", 2)' /\ call'[q].on = p
  <2>1. p \in Papers \ crossed
    BY <1>1, <1>4, <1>8
  <2>2. CASE p = call[r].on
    BY <1>3, <1>5, <2>2 DEF At
  <2>3. CASE p # call[r].on
    <3>1. Paper(p)'.status = Paper(p).status
      BY <2>1, <2>3, RowDecided
    <3>2. CASE Agrees(p)
      BY <1>1, <3>1, <3>2 DEF Agrees
    <3>3. CASE ~Agrees(p)
      <4>1. PICK q \in Request : At(q, "decide", 2) /\ call[q].on = p
        BY <2>1, <3>3 DEF IInv, TrailOK
      <4>2. q # r
        BY <2>3, <4>1
      <4> QED  BY <1>5, <4>1, <4>2 DEF At
    <3> QED  BY <3>2, <3>3
  <2> QED  BY <2>2, <2>3
<1>9. ASSUME NEW q \in Request, At(q, "decide", 2)', call'[q].on \notin crossed'
      PROVE  Paper(call[q].on)'.status = call'[q].verdict
  <2>1. CASE q = r
    <3>1. call[r].on \in Papers
      BY <1>2 DEF Deciding
    <3> QED  BY <1>3, <1>5, <2>1, <3>1, RowDecided
  <2>2. CASE q # r
    <3>1. At(q, "decide", 2) /\ call[q].on \notin crossed /\ call'[q] = call[q]
      BY <1>1, <1>5, <1>9, <2>2 DEF At
    <3>2. call[q].on \in Papers /\ call[q] # Idle
      BY <3>1, CallTyped, IdleIs DEF At, IInv, Deciding
    <3>3. call[q].on # call[r].on
      BY <2>2, <3>1, <3>2 DEF IInv, OneEach
    <3>4. Paper(call[q].on).status = call[q].verdict
      BY <3>1 DEF IInv, TrailOK
    <3> QED  BY <3>1, <3>2, <3>3, <3>4, RowDecided
  <2> QED  BY <2>1, <2>2
<1>10. TrailOK'
  BY <1>8, <1>9 DEF TrailOK
<1>11. InvoiceOK' /\ InvoicedOnce'
  BY <1>1, <1>3, <1>5 DEF IInv, InvoiceOK, InvoicedOnce, Invoiced
<1>12. RecordedOK'
  <2>1. \A k \in DOMAIN payments : payments'[k].by = payments[k].by
    <3> TAKE k \in DOMAIN payments
    <3> DEFINE p == <<"payment", k>>
    <3>1. p \in Papers /\ Paper(p) = payments[k]
      BY PaperOf
    <3>2. Paper(p)' = payments'[k]
      BY DEF Paper
    <3> HIDE DEF p
    <3> QED  BY <3>1, <3>2, RowDecided
  <2> QED  BY <2>1, RowDecided DEF IInv, RecordedOK, HoldsAny
<1> QED  BY <1>6, <1>7, <1>10, <1>11, <1>12 DEF IInv

LEMMA WriteTrailStep ==
  ASSUME IInv, NEW r \in Request, WriteTrail(r)
  PROVE  IInv'
<1>1. /\ At(r, "decide", 2) /\ call' = [call EXCEPT ![r] = Idle]
      /\ audited' = [p \in DOMAIN audited \cup {call[r].on} |->
                         IF p = call[r].on THEN call[r].verdict ELSE audited[p]]
      /\ UNCHANGED <<payments, expenses, invoices, active, crossed>>
  BY DEF WriteTrail, Trail, Noted, End
<1>2. call[r] \in Deciding /\ call[r].on \in Papers /\ call[r].verdict \in Verdict
  BY <1>1, CallTyped DEF At, IInv, Deciding
<1>3. /\ Papers' = Papers /\ Payment' = Payment /\ Expense' = Expense
      /\ Deciding' = Deciding /\ Invoicing' = Invoicing /\ \A p : Paper(p)' = Paper(p)
  BY <1>1 DEF Papers, Payment, Expense, Applying, Deciding, Invoicing, Paper
<1>4. /\ call' \in [Request -> {Idle} \cup Deciding' \cup Invoicing']
      /\ call'[r] = Idle /\ \A q \in Request \ {r} : call'[q] = call[q]
  BY <1>1, <1>3, CallsTyped DEF IInv
<1>5. TypeOK'
  <2>1. DOMAIN audited' \subseteq Papers' /\ \A p \in DOMAIN audited' : audited'[p] \in Verdict
    BY <1>1, <1>2, <1>3 DEF IInv, TypeOK
  <2> QED  BY <1>1, <1>3, <1>4, <2>1 DEF IInv, TypeOK
<1>6. OneEach'
  BY <1>1, <1>4, EndedLeavesOneEach
<1>7. ASSUME NEW p \in Papers' \ crossed'
      PROVE  Agrees(p)' \/ \E q \in Request : At(q, "decide", 2)' /\ call'[q].on = p
  <2>1. p \in Papers \ crossed
    BY <1>1, <1>3, <1>7
  <2>2. CASE p = call[r].on
    <3>1. Paper(p).status = call[r].verdict
      BY <1>1, <2>1, <2>2 DEF IInv, TrailOK
    <3>2. p \in DOMAIN audited' /\ audited'[p] = call[r].verdict
      BY <1>1, <2>2
    <3> QED  BY <1>3, <3>1, <3>2 DEF Agrees
  <2>3. CASE p # call[r].on
    <3>1. (p \in DOMAIN audited' <=> p \in DOMAIN audited)
          /\ (p \in DOMAIN audited => audited'[p] = audited[p])
      BY <1>1, <2>3
    <3>2. CASE Agrees(p)
      BY <1>3, <3>1, <3>2 DEF Agrees
    <3>3. CASE ~Agrees(p)
      <4>1. PICK q \in Request : At(q, "decide", 2) /\ call[q].on = p
        BY <2>1, <3>3 DEF IInv, TrailOK
      <4>2. q # r
        BY <2>3, <4>1
      <4> QED  BY <1>4, <4>1, <4>2 DEF At
    <3> QED  BY <3>2, <3>3
  <2> QED  BY <2>2, <2>3
<1>8. ASSUME NEW q \in Request, At(q, "decide", 2)', call'[q].on \notin crossed'
      PROVE  Paper(call[q].on)'.status = call'[q].verdict
  <2>1. q # r
    BY <1>4, <1>8, IdleIs DEF At
  <2>2. At(q, "decide", 2) /\ call[q].on \notin crossed /\ call'[q] = call[q]
    BY <1>1, <1>4, <1>8, <2>1 DEF At
  <2> QED  BY <1>3, <2>2 DEF IInv, TrailOK
<1>9. TrailOK'
  BY <1>7, <1>8 DEF TrailOK
<1>10. InvoiceOK' /\ InvoicedOnce' /\ RecordedOK'
  BY <1>1, <1>4, IdleIs DEF IInv, InvoiceOK, InvoicedOnce, Invoiced, RecordedOK
<1> QED  BY <1>5, <1>6, <1>9, <1>10 DEF IInv

-----------------------------------------------------------------------------
(* An invoice is made.                                                     *)

LEMMA InsertInvoiceStep ==
  ASSUME IInv, NEW r \in Request, InsertInvoice(r)
  PROVE  IInv'
<1> DEFINE o == call[r].on[2]
<1>1. /\ call[r].op = "invoice" /\ call' = [call EXCEPT ![r] = Idle]
      /\ invoices' = Append(invoices, o)
      /\ UNCHANGED <<payments, expenses, active, audited, crossed>>
  BY DEF InsertInvoice, At, End
<1>2. call[r] \in Invoicing /\ call[r] # Idle /\ o \in Order /\ call[r].on = <<"order", o>>
  BY <1>1, CallTyped, IdleIs DEF IInv, Invoicing
<1> HIDE DEF o
<1>3. /\ invoices' \in Seq(Order)
      /\ DOMAIN invoices' = DOMAIN invoices \cup {Len(invoices) + 1}
      /\ Len(invoices) + 1 \notin DOMAIN invoices
      /\ invoices'[Len(invoices) + 1] = o
      /\ \A j \in DOMAIN invoices : invoices'[j] = invoices[j]
  BY <1>1, <1>2, RowAdded DEF IInv, TypeOK
<1>4. /\ Papers' = Papers /\ Payment \subseteq Payment' /\ Expense' = Expense
      /\ Deciding' = Deciding /\ Invoicing' = Invoicing /\ \A p : Paper(p)' = Paper(p)
  BY <1>1, <1>3, StillTyped DEF IInv, Papers, Expense, Deciding, Invoicing, Paper
<1>5. /\ call' \in [Request -> {Idle} \cup Deciding' \cup Invoicing']
      /\ call'[r] = Idle /\ \A q \in Request \ {r} : call'[q] = call[q]
  BY <1>1, <1>4, CallsTyped DEF IInv
<1>6. TypeOK'
  <2>1. payments' \in Seq(Payment')
    BY <1>1, <1>4, SeqMonotone DEF IInv, TypeOK
  <2> QED  BY <1>1, <1>3, <1>4, <1>5, <2>1 DEF IInv, TypeOK
<1>7. OneEach'
  BY <1>1, <1>5, EndedLeavesOneEach
<1>8. TrailOK'
  <2>1. ~At(r, "decide", 2) /\ ~At(r, "decide", 2)'
    BY <1>1, <1>5, IdleIs DEF At
  <2>2. \A q \in Request : /\ At(q, "decide", 2)' <=> At(q, "decide", 2)
                           /\ At(q, "decide", 2) => call'[q] = call[q]
    BY <1>5, <2>1 DEF At
  <2>3. \A p \in Papers : Agrees(p)' <=> Agrees(p)
    BY <1>1, <1>4 DEF Agrees
  <2>4. ASSUME NEW p \in Papers' \ crossed'
        PROVE  Agrees(p)' \/ \E q \in Request : At(q, "decide", 2)' /\ call'[q].on = p
    BY <1>1, <1>4, <2>2, <2>3 DEF IInv, TrailOK
  <2>5. ASSUME NEW q \in Request, At(q, "decide", 2)', call'[q].on \notin crossed'
        PROVE  Paper(call[q].on)'.status = call'[q].verdict
    BY <1>1, <1>4, <2>2, <2>5 DEF IInv, TrailOK
  <2> QED  BY <2>4, <2>5 DEF TrailOK
<1>9. InvoiceOK'
  <2> SUFFICES ASSUME NEW q \in Request, call'[q].op = "invoice", call'[q].on \notin crossed'
               PROVE  \A j \in DOMAIN invoices' : invoices'[j] # call'[q].on[2]
    BY DEF InvoiceOK, Invoiced
  <2>1. q # r /\ call'[q] = call[q]
    BY <1>5, IdleIs
  <2>2. call[q] # Idle /\ call[q].on = <<"order", call[q].on[2]>>
    BY <2>1, CallTyped, IdleIs DEF IInv, Invoicing
  <2>3. call[q].on[2] # o
    BY <1>1, <1>2, <2>1, <2>2 DEF IInv, OneEach
  <2>4. ~Invoiced(call[q].on[2])
    BY <1>1, <2>1 DEF IInv, InvoiceOK
  <2> QED  BY <1>3, <2>1, <2>3, <2>4 DEF Invoiced
<1>10. InvoicedOnce'
  <2>1. <<"order", o>> \notin crossed => ~Invoiced(o)
    BY <1>1, <1>2 DEF IInv, InvoiceOK, o
  <2> QED  BY <1>1, <1>3, <2>1, ZenonT(30) DEF IInv, InvoicedOnce, Invoiced
<1>11. RecordedOK'
  BY <1>1 DEF IInv, RecordedOK
<1> QED  BY <1>6, <1>7, <1>8, <1>9, <1>10, <1>11 DEF IInv

-----------------------------------------------------------------------------
(* Every step, and what follows.                                           *)

LEMMA InitOK == Init => IInv
<1> SUFFICES ASSUME Init PROVE IInv
  OBVIOUS
<1>1. /\ payments = <<>> /\ expenses = <<>> /\ invoices = <<>> /\ audited = <<>>
      /\ active = Place /\ \A r \in Request : call[r] = Idle
      /\ call \in [Request -> {Idle}]
  BY DEF Init
<1>2. \A T : <<>> \in Seq(T) /\ DOMAIN <<>> = {}
  <2>1. \A T : <<>> \in Seq(T)
    BY EmptySeq
  <2>2. DOMAIN <<>> = 1 .. 0
    BY EmptySeq, LenProperties
  <2> QED  BY <2>1, <2>2
<1>3. TypeOK /\ Papers = {}
  BY <1>1, <1>2 DEF TypeOK, Papers
<1>4. \A r \in Request : call[r].op = "none"
  BY <1>1, IdleIs
<1>5. OneEach /\ InvoiceOK /\ InvoicedOnce /\ RecordedOK
  BY <1>1, <1>2, <1>4 DEF OneEach, InvoiceOK, InvoicedOnce, RecordedOK
<1>6. TrailOK
  BY <1>3, <1>4 DEF TrailOK, At
<1> QED  BY <1>3, <1>5, <1>6 DEF IInv

LEMMA NextOK == IInv /\ [Next]_vars => IInv'
<1> SUFFICES ASSUME IInv, [Next]_vars PROVE IInv'
  OBVIOUS
<1>1. CASE UNCHANGED vars
  <2>1. TypeOK'
    BY <1>1 DEF vars, IInv, TypeOK, Papers, Payment, Expense, Applying, Deciding, Invoicing
  <2> QED  BY <1>1, <2>1 DEF vars, IInv, OneEach, TrailOK, Agrees, Paper, Papers, At, InvoiceOK,
                             Invoiced, InvoicedOnce, RecordedOK
<1>2. CASE \E u \in User, amount \in 1 .. MaxAmount, some \in SUBSET DOMAIN invoices :
              \E alloc \in [some -> 1 .. MaxAmount] : RecordPayment(u, amount, alloc)
  BY <1>2, RecordPaymentStep
<1>3. CASE \E u \in User, farm \in Farm \cup {None}, warehouse \in Warehouse \cup {None},
              mill \in Mill \cup {None} : EnterExpense(u, farm, warehouse, mill)
  BY <1>3, EnterExpenseStep
<1>4. CASE \E r \in Request, u \in User, p \in Papers, verdict \in {Accepted, "REJECTED"} :
              AskDecide(r, u, p, verdict)
  BY <1>4, AskDecideStep DEF Verdict
<1>5. CASE \E r \in Request, u \in User, o \in Order : AskInvoice(r, u, o)
  BY <1>5, AskInvoiceStep
<1>6. CASE \E r \in Request : UpdateStatus(r)
  BY <1>6, UpdateStatusStep
<1>7. CASE \E r \in Request : WriteTrail(r)
  BY <1>7, WriteTrailStep
<1>8. CASE \E r \in Request : CountInvoices(r)
  BY <1>8, CountInvoicesStep
<1>9. CASE \E r \in Request : InsertInvoice(r)
  BY <1>9, InsertInvoiceStep
<1>10. CASE \E r \in Request : Fail(r)
  BY <1>10, FailStep
<1>11. CASE \E place \in Place : ClosePlace(place)
  BY <1>11, ClosePlaceStep
<1> QED  BY <1>1, <1>2, <1>3, <1>4, <1>5, <1>6, <1>7, <1>8, <1>9, <1>10, <1>11 DEF Next

\* The invariant of Money.tla holds, whatever races, fails or is closed.
THEOREM MoneyInductive == Spec => []IInv
<1>1. Init => IInv
  BY InitOK
<1>2. IInv /\ [Next]_vars => IInv'
  BY NextOK
<1> QED  BY <1>1, <1>2, PTL DEF Spec

\* createFromSalesOrder: an order is invoiced twice only if two requests to
\* invoice it overlapped.
THEOREM InvoicedOnceOnly == Spec => []InvoicedOnce
<1>1. IInv => InvoicedOnce
  BY DEF IInv
<1> QED  BY <1>1, MoneyInductive, PTL

\* approve, verify and reject: the trail of a paper that one request at a
\* time worked on says what its row says.
THEOREM TrailFollowsRows == Spec => []TrailSaysWhatStands
<1>1. ASSUME IInv PROVE TrailSaysWhatStands
  <2> SUFFICES ASSUME NEW p \in Papers, p \notin crossed, ~\E r \in Request : call[r].on = p
               PROVE  Agrees(p)
    BY DEF TrailSaysWhatStands, Agrees
  <2> QED  BY <1>1 DEF IInv, TrailOK
<1> QED  BY <1>1, MoneyInductive, PTL

-----------------------------------------------------------------------------
(* Nobody is stuck, in a company that has the two people who decide.       *)

\* A Finance Director who does not record payments, and another person who is
\* the MD or the CEO, whatever else they are, both for the whole company.
Staffed ==
    \E fd, md \in User :
        /\ fd # md /\ "GLOBAL" \in ScopesOf[fd] \cap ScopesOf[md]
        /\ HasRole(fd, {"FINANCE_DIRECTOR"}) /\ ~HoldsAny(fd, {"payment.create"})
        /\ HasRole(md, {"MD", "CEO"})

LEMMA MoneyGrants ==
  /\ \A u \in User : HasRole(u, {"FINANCE_DIRECTOR"}) =>
        HoldsAny(u, {"finance.approve"}) /\ HoldsAny(u, {"payment.verify"}) /\ HasCenter(u)
  /\ \A u \in User : HasRole(u, {"MD", "CEO"}) =>
        HoldsAny(u, {"finance.approve.director"}) /\ HasCenter(u)
  /\ \A u \in User : HoldsAny(u, {"finance.approve", "finance.approve.director"}) <=>
        HoldsAny(u, {"finance.approve"}) \/ HoldsAny(u, {"finance.approve.director"})
<1>1. /\ Grants("FINANCE_DIRECTOR", "finance.approve") /\ Grants("FINANCE_DIRECTOR", "payment.verify")
      /\ Grants("MD", "finance.approve.director") /\ Grants("CEO", "finance.approve.director")
  BY DEF Grants, OfficeGrants, ExecutiveGrants
<1> QED  BY <1>1 DEF HasRole, HoldsAny, HasCenter

LEMMA ExpenseDecided ==
  ASSUME NEW u \in User, NEW p \in Papers, p[1] = "expense", Paper(p).status = Waiting
  PROVE  /\ Counted(u, p) => MayDecide(u, p) \/ Paper(p).by = u
         /\ OffersReview(u, Paper(p)) <=> MayDecide(u, p)
         /\ "GLOBAL" \in ScopesOf[u] /\ Paper(p).by # u /\ HoldsAny(u, {"finance.approve"})
            => Counted(u, p) /\ MayDecide(u, p)
         /\ "GLOBAL" \in ScopesOf[u] /\ Paper(p).by # u /\ HasRole(Paper(p).by, {"FINANCE_DIRECTOR"})
               /\ HoldsAny(u, {"finance.approve.director"})
            => Counted(u, p) /\ MayDecide(u, p)
BY MoneyGrants DEF Counted, MayDecide, MayDecideExpense, OffersReview, Sees, Directors

LEMMA PaymentDecided ==
  ASSUME NEW u \in User, NEW p \in Papers, p[1] = "payment", Paper(p).status = Waiting
  PROVE  /\ Counted(u, p) <=> HoldsAny(u, {"payment.verify"})
         /\ MayDecide(u, p) <=> HoldsAny(u, {"payment.verify"}) /\ Paper(p).by # u
BY DEF Counted, MayDecide, MayDecidePayment

\* assertMayDecide: in a company with those two people no payment and no
\* expense waits without somebody who may decide on it and is told so.
THEOREM NobodyIsStuck == ASSUME Staffed PROVE Spec => []NobodyStuck
<1>1. ASSUME IInv PROVE NobodyStuck
  <2> SUFFICES ASSUME NEW p \in Papers, Paper(p).status = Waiting
               PROVE  /\ \E u \in User : HasCenter(u) /\ Counted(u, p) /\ MayDecide(u, p)
                      /\ \A u \in User :
                            /\ Counted(u, p) => MayDecide(u, p) \/ Paper(p).by = u
                            /\ p[1] # "payment" => (OffersReview(u, Paper(p)) <=> MayDecide(u, p))
    BY DEF NobodyStuck
  <2>1. PICK fd, md \in User :
            /\ fd # md /\ "GLOBAL" \in ScopesOf[fd] \cap ScopesOf[md]
            /\ HasRole(fd, {"FINANCE_DIRECTOR"}) /\ ~HoldsAny(fd, {"payment.create"})
            /\ HasRole(md, {"MD", "CEO"})
    BY DEF Staffed
  <2>2. /\ HoldsAny(fd, {"finance.approve"}) /\ HoldsAny(fd, {"payment.verify"}) /\ HasCenter(fd)
        /\ HoldsAny(md, {"finance.approve.director"}) /\ HasCenter(md)
    BY <2>1, MoneyGrants
  <2>3. CASE p[1] = "payment"
    <3>1. p[2] \in DOMAIN payments /\ Paper(p) = payments[p[2]]
      BY <2>3, PaperIs
    <3>2. Paper(p).by # fd
      BY <1>1, <2>1, <3>1 DEF IInv, RecordedOK
    <3> QED  BY <2>2, <2>3, <3>2, PaymentDecided
  <2>4. CASE p[1] = "expense"
    <3>1. CASE Paper(p).by = fd
      <4>1. Counted(md, p) /\ MayDecide(md, p)
        BY <2>1, <2>2, <2>4, <3>1, ExpenseDecided
      <4> QED  BY <2>2, <2>4, <4>1, ExpenseDecided
    <3>2. CASE Paper(p).by # fd
      <4>1. Counted(fd, p) /\ MayDecide(fd, p)
        BY <2>1, <2>2, <2>4, <3>2, ExpenseDecided
      <4> QED  BY <2>2, <2>4, <4>1, ExpenseDecided
    <3> QED  BY <3>1, <3>2
  <2> QED  BY <2>3, <2>4, PaperIs
<1> QED  BY <1>1, MoneyInductive, PTL
-----------------------------------------------------------------------------
(* Sums.  SumFunctionOnSet adds a function up one member at a time, in an   *)
(* order that nobody knows.  Over naturals that is to count units: f[x] for *)
(* each x.  What holds of sums is then a matter of finite sets.             *)

Pick(s) == CHOOSE x \in s : TRUE
Plus(m, n) == m + n
\* h adds f up over each part of S, as the fold does.
Adds(h, f, S) ==
    h = [s \in SUBSET S |-> IF s = {} THEN 0 ELSE Plus(f[Pick(s)], h[s \ {Pick(s)}])]
Units(f, S) == UNION {{x} \X (1 .. f[x]) : x \in S}

LEMMA SumIs ==
  ASSUME NEW f, NEW S
  PROVE  SumFunctionOnSet(f, S) = (CHOOSE h : Adds(h, f, S))[S]
BY DEF SumFunctionOnSet, FoldFunctionOnSet, MapThenFoldSet, Adds, Pick, Plus

\* There is only one such h.
LEMMA AddsOnce ==
  ASSUME NEW f, NEW S, IsFiniteSet(S), NEW g, NEW h, Adds(g, f, S), Adds(h, f, S)
  PROVE  g[S] = h[S]
<1> DEFINE Bad == {A \in SUBSET S : g[A] # h[A]}
<1> SUFFICES ASSUME Bad # {} PROVE FALSE
  OBVIOUS
<1>1. IsWellFoundedOn(StrictSubsetOrdering(S), SUBSET S)
  BY FS_FiniteSubsetsOfFinite, FS_StrictSubsetOrderingWellFounded
<1>2. PICK A \in Bad : \A B \in Bad : <<B, A>> \notin StrictSubsetOrdering(S)
  <2>1. Bad \subseteq SUBSET S
    OBVIOUS
  <2> HIDE DEF Bad
  <2> QED  BY <1>1, <2>1, WFMin
<1>3. A # {}
  BY DEF Adds
<1>4. PICK B : B = A \ {Pick(A)}
  OBVIOUS
<1>5. B \in SUBSET S /\ <<B, A>> \in StrictSubsetOrdering(S)
  BY <1>3, <1>4 DEF Pick, StrictSubsetOrdering
<1>6. g[B] = h[B]
  BY <1>2, <1>5
<1>7. g[A] = Plus(f[Pick(A)], g[B]) /\ h[A] = Plus(f[Pick(A)], h[B])
  BY <1>3, <1>4 DEF Adds
<1> QED  BY <1>6, <1>7

LEMMA DisjointUnion ==
  ASSUME NEW A, NEW B, IsFiniteSet(A), IsFiniteSet(B), A \cap B = {}
  PROVE  Cardinality(A \cup B) = Cardinality(A) + Cardinality(B)
<1>1. Cardinality(A) \in Nat /\ Cardinality(B) \in Nat /\ Cardinality(A \cap B) = 0
  BY FS_EmptySet, FS_CardinalityType
<1>2. Cardinality(A \cup B) = Cardinality(A) + Cardinality(B) - Cardinality(A \cap B)
  BY FS_Union
<1> QED  BY <1>1, <1>2

LEMMA UnitsOfOne ==
  ASSUME NEW f, NEW x, f[x] \in Nat
  PROVE  IsFiniteSet(Units(f, {x})) /\ Cardinality(Units(f, {x})) = f[x]
<1>1. Units(f, {x}) = {x} \X (1 .. f[x])
  BY DEF Units
<1>2. IsFiniteSet({x}) /\ Cardinality({x}) = 1
  BY FS_Singleton
<1>3. IsFiniteSet(1 .. f[x]) /\ Cardinality(1 .. f[x]) = f[x]
  BY FS_Interval, SMTT(20)
<1>4. /\ IsFiniteSet({x} \X (1 .. f[x]))
      /\ Cardinality({x} \X (1 .. f[x])) = Cardinality({x}) * Cardinality(1 .. f[x])
  BY <1>2, <1>3, FS_Product
<1>5. 1 * f[x] = f[x]
  OBVIOUS
<1> QED  BY <1>1, <1>2, <1>3, <1>4, <1>5

LEMMA UnitsFinite ==
  ASSUME NEW f, NEW S, IsFiniteSet(S), \A x \in S : f[x] \in Nat
  PROVE  IsFiniteSet(Units(f, S))
<1> DEFINE g == [x \in S |-> {x} \X (1 .. f[x])]
           R == {g[x] : x \in S}
<1>1. g \in Surjection(S, R)
  BY DEF Surjection
<1>2. IsFiniteSet(R)
  BY <1>1, FS_Surjection
<1>3. ASSUME NEW T \in R PROVE IsFiniteSet(T)
  <2>1. PICK x \in S : T = Units(f, {x})
    BY DEF Units
  <2> QED  BY <2>1, UnitsOfOne
<1>4. Units(f, S) = UNION R
  BY DEF Units
<1> QED  BY <1>2, <1>3, <1>4, FS_UNION

\* Two parts of a set have no unit in common.
LEMMA UnitsSplit ==
  ASSUME NEW f, NEW S, IsFiniteSet(S), \A x \in S : f[x] \in Nat, NEW T \in SUBSET S
  PROVE  /\ Cardinality(Units(f, S)) = Cardinality(Units(f, T)) + Cardinality(Units(f, S \ T))
         /\ Cardinality(Units(f, T)) \in Nat /\ Cardinality(Units(f, S \ T)) \in Nat
<1>1. IsFiniteSet(Units(f, T)) /\ IsFiniteSet(Units(f, S \ T))
  <2>1. IsFiniteSet(T) /\ IsFiniteSet(S \ T)
    BY FS_Subset, FS_Difference
  <2> QED  BY <2>1, UnitsFinite
<1>2. Units(f, S) = Units(f, T) \cup Units(f, S \ T) /\ Units(f, T) \cap Units(f, S \ T) = {}
  BY DEF Units
<1>3. PICK A, B : A = Units(f, T) /\ B = Units(f, S \ T)
  OBVIOUS
<1>4. IsFiniteSet(A) /\ IsFiniteSet(B) /\ A \cap B = {} /\ Units(f, S) = A \cup B
  BY <1>1, <1>2, <1>3
<1>5. Cardinality(A \cup B) = Cardinality(A) + Cardinality(B)
  BY <1>4, DisjointUnion
<1>6. Cardinality(A) \in Nat /\ Cardinality(B) \in Nat
  BY <1>4, FS_CardinalityType
<1> QED  BY <1>3, <1>4, <1>5, <1>6

LEMMA SumCounts ==
  ASSUME NEW f, NEW S, IsFiniteSet(S), \A x \in S : f[x] \in Nat
  PROVE  SumFunctionOnSet(f, S) = Cardinality(Units(f, S))
<1> DEFINE H == [A \in SUBSET S |-> Cardinality(Units(f, A))]
           K == [A \in SUBSET S |-> IF A = {} THEN 0 ELSE Plus(f[Pick(A)], H[A \ {Pick(A)}])]
<1>1. ASSUME NEW A \in SUBSET S PROVE H[A] = K[A]
  <2>1. CASE A = {}
    <3>1. Units(f, A) = {}
      BY <2>1 DEF Units
    <3> QED  BY <2>1, <3>1, FS_EmptySet
  <2>2. CASE A # {}
    <3>1. PICK p : p = Pick(A)
      OBVIOUS
    <3>2. p \in A /\ IsFiniteSet(A) /\ {p} \in SUBSET A /\ A \ {p} \in SUBSET S /\ f[p] \in Nat
      BY <2>2, <3>1, FS_Subset DEF Pick
    <3>3. Cardinality(Units(f, A)) = f[p] + Cardinality(Units(f, A \ {p}))
      <4>1. Cardinality(Units(f, {p})) = f[p]
        BY <3>2, UnitsOfOne
      <4>2. \A x \in A : f[x] \in Nat
        OBVIOUS
      <4>3. Cardinality(Units(f, A)) = Cardinality(Units(f, {p})) + Cardinality(Units(f, A \ {p}))
        BY <3>2, <4>2, UnitsSplit
      <4> QED  BY <4>1, <4>3
    <3> QED  BY <2>2, <3>1, <3>2, <3>3 DEF Plus
  <2> QED  BY <2>1, <2>2
<1>2. H = [A \in SUBSET S |-> H[A]] /\ K = [A \in SUBSET S |-> K[A]]
  OBVIOUS
<1>3. H = K
  <2> HIDE DEF H, K
  <2>1. [A \in SUBSET S |-> H[A]] = [A \in SUBSET S |-> K[A]]
    BY <1>1
  <2> QED  BY <1>2, <2>1
<1>4. PICK h : h = H
  OBVIOUS
<1>5. Adds(h, f, S)
  BY <1>3, <1>4 DEF Adds
<1>6. PICK g : g = CHOOSE k : Adds(k, f, S)
  OBVIOUS
<1>7. Adds(g, f, S)
  BY <1>5, <1>6
<1>8. g[S] = h[S] /\ h[S] = Cardinality(Units(f, S))
  BY <1>4, <1>5, <1>7, AddsOnce
<1> QED  BY <1>6, <1>8, SumIs

LEMMA SumSplit ==
  ASSUME NEW f, NEW S, IsFiniteSet(S), \A x \in S : f[x] \in Nat, NEW T \in SUBSET S
  PROVE  /\ SumFunctionOnSet(f, S) = SumFunctionOnSet(f, T) + SumFunctionOnSet(f, S \ T)
         /\ SumFunctionOnSet(f, T) \in Nat /\ SumFunctionOnSet(f, S \ T) \in Nat
<1>1. IsFiniteSet(T) /\ IsFiniteSet(S \ T)
  BY FS_Subset, FS_Difference
<1>2. /\ SumFunctionOnSet(f, S) = Cardinality(Units(f, S))
      /\ SumFunctionOnSet(f, T) = Cardinality(Units(f, T))
      /\ SumFunctionOnSet(f, S \ T) = Cardinality(Units(f, S \ T))
  <2>1. (\A x \in T : f[x] \in Nat) /\ \A x \in S \ T : f[x] \in Nat
    OBVIOUS
  <2> QED  BY <1>1, <2>1, SumCounts
<1> QED  BY <1>2, UnitsSplit

\* Functions that agree have the same sum.
LEMMA SumSame ==
  ASSUME NEW f, NEW g, NEW S, IsFiniteSet(S), \A x \in S : f[x] \in Nat /\ g[x] = f[x]
  PROVE  SumFunctionOnSet(f, S) = SumFunctionOnSet(g, S)
<1>1. Units(f, S) = Units(g, S)
  BY DEF Units
<1>2. SumFunctionOnSet(f, S) = Cardinality(Units(f, S))
  BY SumCounts
<1>3. SumFunctionOnSet(g, S) = Cardinality(Units(g, S))
  BY SumCounts
<1> QED  BY <1>1, <1>2, <1>3

\* Zeros do not count.
LEMMA SumZero ==
  ASSUME NEW f, NEW S, \A x \in S : f[x] = 0, IsFiniteSet(S)
  PROVE  SumFunctionOnSet(f, S) = 0
<1>1. Units(f, S) = {}
  BY DEF Units
<1>2. \A x \in S : f[x] \in Nat
  OBVIOUS
<1>3. SumFunctionOnSet(f, S) = Cardinality(Units(f, S))
  BY ONLY IsFiniteSet(S), <1>2, SumCounts
<1> QED  BY <1>1, <1>3, FS_EmptySet

\* The sum of two functions.
LEMMA SumPlus ==
  ASSUME NEW f, NEW g, NEW h, NEW S, IsFiniteSet(S),
         \A x \in S : f[x] \in Nat /\ g[x] \in Nat /\ h[x] = f[x] + g[x]
  PROVE  SumFunctionOnSet(h, S) = SumFunctionOnSet(f, S) + SumFunctionOnSet(g, S)
<1> DEFINE U == {<<u[1], f[u[1]] + u[2]>> : u \in Units(g, S)}
           c == [u \in Units(g, S) |-> <<u[1], f[u[1]] + u[2]>>]
<1>1. Units(h, S) = Units(f, S) \cup U /\ Units(f, S) \cap U = {}
  <2>1. ASSUME NEW x \in S, NEW k \in 1 .. h[x], k \notin 1 .. f[x] PROVE <<x, k>> \in U
    <3>1. k - f[x] \in 1 .. g[x] /\ k = f[x] + (k - f[x])
      BY <2>1
    <3>2. <<x, k - f[x]>> \in Units(g, S)
      BY <3>1 DEF Units
    <3> QED  BY <3>1, <3>2
  <2>2. ASSUME NEW w \in U PROVE w \in Units(h, S) /\ w \notin Units(f, S)
    <3>1. PICK x, k : x \in S /\ k \in 1 .. g[x] /\ w = <<x, f[x] + k>>
      BY DEF Units
    <3>2. f[x] + k \in 1 .. h[x] /\ f[x] + k \notin 1 .. f[x]
      BY <3>1
    <3> QED  BY <3>1, <3>2 DEF Units
  <2>3. \A x \in S : 1 .. f[x] \subseteq 1 .. h[x]
    OBVIOUS
  <2> HIDE DEF U
  <2> QED  BY <2>1, <2>2, <2>3 DEF Units
<1>2. IsFiniteSet(Units(f, S)) /\ IsFiniteSet(Units(g, S))
  BY UnitsFinite
<1>3. c \in Bijection(Units(g, S), U)
  <2>1. ASSUME NEW u \in Units(g, S), NEW v \in Units(g, S), c[u] = c[v] PROVE u = v
    <3>1. PICK x, k : x \in S /\ k \in 1 .. g[x] /\ u = <<x, k>>
      BY DEF Units
    <3>2. PICK y, l : y \in S /\ l \in 1 .. g[y] /\ v = <<y, l>>
      BY DEF Units
    <3>3. x = y /\ f[x] + k = f[y] + l
      BY <2>1, <3>1, <3>2
    <3> QED  BY <3>1, <3>2, <3>3
  <2> QED  BY <2>1 DEF Bijection, Injection, Surjection, IsInjective
<1>4. IsFiniteSet(U) /\ Cardinality(U) = Cardinality(Units(g, S))
  BY <1>2, <1>3, FS_Bijection DEF ExistsBijection
<1>5. Cardinality(Units(h, S)) = Cardinality(Units(f, S)) + Cardinality(Units(g, S))
  <2> HIDE DEF U
  <2>1. Cardinality(Units(f, S) \cup U) = Cardinality(Units(f, S)) + Cardinality(U)
    BY <1>1, <1>2, <1>4, DisjointUnion
  <2> QED  BY <1>1, <1>4, <2>1
<1> QED  BY <1>5, SumCounts

LEMMA SumIsNat ==
  ASSUME NEW f, NEW S, IsFiniteSet(S), \A x \in S : f[x] \in Nat
  PROVE  SumFunctionOnSet(f, S) \in Nat
BY SumCounts, UnitsFinite, FS_CardinalityType

\* The sum of what is only written down for the set.
LEMMA SumOf ==
  ASSUME NEW f, NEW S, IsFiniteSet(S), \A x \in S : f[x] \in Nat
  PROVE  SumFunction([x \in S |-> f[x]]) = SumFunctionOnSet(f, S)
<1> DEFINE g == [x \in S |-> f[x]]
<1>1. DOMAIN g = S /\ \A x \in S : g[x] = f[x]
  OBVIOUS
<1> HIDE DEF g
<1>2. SumFunctionOnSet(f, S) = SumFunctionOnSet(g, S)
  BY <1>1, SumSame
<1>3. SumFunction(g) = SumFunctionOnSet(g, S)
  BY <1>1 DEF SumFunction
<1> QED  BY <1>2, <1>3 DEF g

\* The members of a set, counted class by class.
LEMMA SumOfClasses ==
  ASSUME NEW S, IsFiniteSet(S), NEW P, IsFiniteSet(P), NEW place, \A x \in S : place[x] \in P, NEW f,
         \A p \in P : f[p] = Cardinality({x \in S : place[x] = p})
  PROVE  SumFunctionOnSet(f, P) = Cardinality(S)
<1> DEFINE class(p) == {x \in S : place[x] = p}
           b(p) == CHOOSE m : m \in Bijection(1 .. f[p], class(p))
           c == [u \in Units(f, P) |-> b(u[1])[u[2]]]
<1>1. ASSUME NEW p \in P PROVE f[p] \in Nat /\ b(p) \in Bijection(1 .. f[p], class(p))
  <2>1. IsFiniteSet(class(p)) /\ f[p] = Cardinality(class(p))
    BY FS_Subset
  <2>2. f[p] \in Nat /\ ExistsBijection(1 .. f[p], class(p))
    BY <2>1, FS_CardinalityType
  <2>3. \E m : m \in Bijection(1 .. f[p], class(p))
    BY <2>2 DEF ExistsBijection
  <2> HIDE DEF class
  <2> QED  BY <2>2, <2>3
<1> HIDE DEF b
<1>2. ASSUME NEW p \in P
      PROVE  /\ \A k \in 1 .. f[p] : b(p)[k] \in S /\ place[b(p)[k]] = p
             /\ \A k, l \in 1 .. f[p] : b(p)[k] = b(p)[l] => k = l
             /\ \A x \in S : place[x] = p => \E k \in 1 .. f[p] : b(p)[k] = x
  <2>1. b(p) \in Injection(1 .. f[p], class(p)) /\ b(p) \in Surjection(1 .. f[p], class(p))
    BY <1>1 DEF Bijection
  <2>2. /\ \A k \in 1 .. f[p] : b(p)[k] \in class(p)
        /\ \A k, l \in 1 .. f[p] : b(p)[k] = b(p)[l] => k = l
        /\ \A x \in class(p) : \E k \in 1 .. f[p] : b(p)[k] = x
    <3> HIDE DEF class
    <3> QED  BY <2>1 DEF Injection, Surjection, IsInjective
  <2> QED  BY <2>2
<1>3. ASSUME NEW u \in Units(f, P)
      PROVE  u[1] \in P /\ u[2] \in 1 .. f[u[1]] /\ u = <<u[1], u[2]>>
  BY DEF Units
<1>4. c \in Injection(Units(f, P), S)
  <2>1. \A u \in Units(f, P) : c[u] \in S /\ place[c[u]] = u[1]
    BY <1>2, <1>3
  <2>2. ASSUME NEW u \in Units(f, P), NEW v \in Units(f, P), c[u] = c[v] PROVE u = v
    <3>1. u[1] = v[1]
      BY <2>1, <2>2
    <3>2. b(u[1])[u[2]] = b(u[1])[v[2]]
      BY <2>2, <3>1
    <3>3. u[2] = v[2]
      BY <1>2, <1>3, <3>1, <3>2
    <3> QED  BY <1>3, <3>1, <3>3
  <2>3. c \in [Units(f, P) -> S]
    BY <2>1
  <2> HIDE DEF c
  <2> QED  BY <2>2, <2>3 DEF Injection, IsInjective
<1>5. c \in Surjection(Units(f, P), S)
  <2>1. ASSUME NEW x \in S PROVE \E u \in Units(f, P) : c[u] = x
    <3>1. PICK p : p = place[x] /\ p \in P
      OBVIOUS
    <3>2. PICK k \in 1 .. f[p] : b(p)[k] = x
      BY <1>2, <3>1
    <3>3. <<p, k>> \in Units(f, P)
      BY <3>1 DEF Units
    <3>4. c[<<p, k>>] = x
      BY <3>2, <3>3
    <3> QED  BY <3>3, <3>4
  <2>2. c \in [Units(f, P) -> S]
    BY <1>4 DEF Injection
  <2> HIDE DEF c
  <2> QED  BY <2>1, <2>2 DEF Surjection
<1>6. c \in Bijection(Units(f, P), S)
  BY <1>4, <1>5 DEF Bijection
<1>7. ExistsBijection(Units(f, P), S)
  BY <1>6 DEF ExistsBijection
<1>8. IsFiniteSet(Units(f, P)) /\ SumFunctionOnSet(f, P) = Cardinality(Units(f, P))
  BY <1>1, UnitsFinite, SumCounts
<1> QED  BY <1>7, <1>8, FS_Bijection

-----------------------------------------------------------------------------
(* The screens that add up. *)

LEMMA RowsFinite ==
  ASSUME TypeOK
  PROVE  /\ IsFiniteSet(DOMAIN payments) /\ IsFiniteSet(DOMAIN expenses) /\ IsFiniteSet(DOMAIN invoices)
         /\ \A k \in DOMAIN payments : payments[k] \in Payment
         /\ \A i \in DOMAIN expenses : expenses[i] \in Expense
         /\ \A i \in DOMAIN invoices : invoices[i] \in Order
<1>1. payments \in Seq(Payment) /\ expenses \in Seq(Expense) /\ invoices \in Seq(Order)
  BY DEF TypeOK
<1>2. /\ DOMAIN payments = 1 .. Len(payments) /\ Len(payments) \in Nat
      /\ DOMAIN expenses = 1 .. Len(expenses) /\ Len(expenses) \in Nat
      /\ DOMAIN invoices = 1 .. Len(invoices) /\ Len(invoices) \in Nat
  BY <1>1, LenProperties
<1>3. IsFiniteSet(DOMAIN payments) /\ IsFiniteSet(DOMAIN expenses) /\ IsFiniteSet(DOMAIN invoices)
  BY <1>2, FS_Interval
<1> QED  BY <1>1, <1>3, ElementOfSeq, <1>2

LEMMA OfAnInvoice ==
  ASSUME TypeOK, NEW i \in DOMAIN invoices
  PROVE  Total(i) \in Nat /\ Paid(i) \in Nat
<1>1. Total(i) \in Nat
  BY RowsFinite DEF Total
<1>2. PICK f : f = [k \in DOMAIN payments |->
                      IF i \in DOMAIN payments[k].alloc THEN payments[k].alloc[i] ELSE 0]
  OBVIOUS
<1>3. PICK S : S = {k \in DOMAIN payments : payments[k].status \in {Accepted}}
  OBVIOUS
<1>4. S \in SUBSET DOMAIN payments /\ IsFiniteSet(S)
  BY <1>3, RowsFinite, FS_Subset
<1>5. ASSUME NEW k \in DOMAIN payments PROVE f[k] \in Nat
  <2>1. payments[k].alloc \in Applying
    BY RowsFinite DEF Payment
  <2>2. PICK some \in SUBSET DOMAIN invoices : payments[k].alloc \in [some -> 1 .. MaxAmount]
    BY <2>1 DEF Applying
  <2> QED  BY <1>2, <2>2
<1>6. Paid(i) = SumFunction([k \in S |->
                   IF i \in DOMAIN payments[k].alloc THEN payments[k].alloc[i] ELSE 0])
  BY <1>3 DEF Paid, PaidBy, Sum
<1>7. [k \in S |-> IF i \in DOMAIN payments[k].alloc THEN payments[k].alloc[i] ELSE 0] = [k \in S |-> f[k]]
  BY <1>2, <1>4
<1>8. Paid(i) = SumFunctionOnSet(f, S)
  BY <1>4, <1>5, <1>6, <1>7, SumOf
<1> QED  BY <1>1, <1>4, <1>5, <1>8, SumIsNat

LEMMA MaxIs ==
  ASSUME NEW n \in Int
  PROVE  Max({n, 0}) = IF n > 0 THEN n ELSE 0
<1>1. \A m \in Int : (m \in {n, 0} /\ \A y \in {n, 0} : m >= y) <=> m = IF n > 0 THEN n ELSE 0
  OBVIOUS
<1>2. PICK k : k = IF n > 0 THEN n ELSE 0
  OBVIOUS
<1>3. k \in {n, 0} /\ \A y \in {n, 0} : k >= y
  BY <1>1, <1>2
<1>4. \A m \in {n, 0} : (\A y \in {n, 0} : m >= y) => m = k
  BY <1>2
<1> QED  BY <1>2, <1>3, <1>4 DEF Max

\* What a customer owes, of a customer who paid no invoice beyond its total:
\* all four screens add up what is left on their invoices.
LEMMA Owed ==
  ASSUME TypeOK, NEW c, \A i \in OfCustomer(c) : Paid(i) <= Total(i)
  PROVE  \E left, S :
            /\ S = OfCustomer(c) /\ IsFiniteSet(S) /\ \A i \in S : left[i] = Left(i) /\ left[i] \in Nat
            /\ Sum(Balance, S) = SumFunctionOnSet(left, S)
            /\ Receivable(c).outstanding = SumFunctionOnSet(left, S)
            /\ \A T \in SUBSET S :
                  /\ Sum(StillOwed, T) = SumFunctionOnSet(left, T)
                  /\ Sum(Left, {i \in T : Left(i) > 0}) = SumFunctionOnSet(left, T)
                  /\ SumFunctionOnSet(left, T) \in Nat
<1>1. PICK S : S = OfCustomer(c)
  OBVIOUS
<1>2. S \in SUBSET DOMAIN invoices /\ IsFiniteSet(S)
  <2>1. S \in SUBSET DOMAIN invoices
    BY <1>1 DEF OfCustomer
  <2> QED  BY <2>1, RowsFinite, FS_Subset
<1>3. PICK left, total, paid : /\ left = [i \in S |-> Left(i)] /\ total = [i \in S |-> Total(i)]
                               /\ paid = [i \in S |-> Paid(i)]
  OBVIOUS
<1>4. ASSUME NEW i \in S
      PROVE  /\ left[i] = Left(i) /\ total[i] = Total(i) /\ paid[i] = Paid(i)
             /\ left[i] \in Nat /\ total[i] \in Nat /\ paid[i] \in Nat
             /\ total[i] = left[i] + paid[i]
             /\ Balance(i) = left[i] /\ StillOwed(i) = left[i]
  <2>1. Total(i) \in Nat /\ Paid(i) \in Nat /\ Paid(i) <= Total(i)
    BY <1>1, <1>2, OfAnInvoice
  <2>2. Left(i) \in Nat /\ Total(i) = Left(i) + Paid(i) /\ Left(i) \in Int
    BY <2>1 DEF Left
  <2>3. Max({Left(i), 0}) = Left(i)
    BY <2>2, MaxIs
  <2>4. StillOwed(i) = Max({Left(i), 0}) /\ Balance(i) = Max({Left(i), 0})
    BY DEF StillOwed, Balance, Left, Paid
  <2> QED  BY <1>3, <2>1, <2>2, <2>3, <2>4
<1>5. ASSUME NEW T \in SUBSET S PROVE IsFiniteSet(T) /\ SumFunctionOnSet(left, T) \in Nat
  <2>1. IsFiniteSet(T)
    BY <1>2, FS_Subset
  <2> QED  BY <1>4, <2>1, SumIsNat
<1>6. ASSUME NEW T \in SUBSET S PROVE Sum(StillOwed, T) = SumFunctionOnSet(left, T)
  <2>1. [i \in T |-> StillOwed(i)] = [i \in T |-> left[i]]
    BY <1>4
  <2>2. SumFunction([i \in T |-> left[i]]) = SumFunctionOnSet(left, T)
    BY <1>4, <1>5, SumOf
  <2> QED  BY <2>1, <2>2 DEF Sum
<1>7. Sum(Balance, S) = SumFunctionOnSet(left, S)
  <2>1. [i \in S |-> Balance(i)] = [i \in S |-> left[i]]
    BY <1>4
  <2>2. SumFunction([i \in S |-> left[i]]) = SumFunctionOnSet(left, S)
    BY <1>2, <1>4, SumOf
  <2> QED  BY <2>1, <2>2 DEF Sum
<1>8. ASSUME NEW T \in SUBSET S
      PROVE  Sum(Left, {i \in T : Left(i) > 0}) = SumFunctionOnSet(left, T)
  <2>1. PICK P : P = {i \in T : Left(i) > 0}
    OBVIOUS
  <2>2. P \in SUBSET T /\ P \in SUBSET S /\ T \ P \in SUBSET S
    BY <2>1
  <2>3. IsFiniteSet(T) /\ IsFiniteSet(P) /\ IsFiniteSet(T \ P) /\ \A i \in T : left[i] \in Nat
    BY <1>4, <1>5, <2>2
  <2>4. [i \in P |-> Left(i)] = [i \in P |-> left[i]]
    BY <1>4, <2>2
  <2>5. SumFunction([i \in P |-> left[i]]) = SumFunctionOnSet(left, P)
    BY <2>2, <2>3, SumOf
  <2>6. SumFunctionOnSet(left, T \ P) = 0
    <3>1. \A i \in T \ P : left[i] = 0
      BY <1>4, <2>1
    <3> QED  BY <2>3, <3>1, SumZero
  <2>7. /\ SumFunctionOnSet(left, T) = SumFunctionOnSet(left, P) + SumFunctionOnSet(left, T \ P)
        /\ SumFunctionOnSet(left, P) \in Nat /\ SumFunctionOnSet(left, T \ P) \in Nat
    <3>1. IsFiniteSet(T) /\ P \in SUBSET T /\ \A i \in T : left[i] \in Nat
      BY <2>2, <2>3
    <3> QED  BY ONLY <3>1, SumSplit
  <2>8. SumFunctionOnSet(left, T) = SumFunctionOnSet(left, P)
    BY <2>6, <2>7
  <2> QED  BY <2>1, <2>4, <2>5, <2>8 DEF Sum
<1>9. Receivable(c).outstanding = SumFunctionOnSet(left, S)
  <2>1. Receivable(c).outstanding = SumFunction([i \in S |-> Total(i)]) - SumFunction([i \in S |-> Paid(i)])
    BY <1>1 DEF Receivable, Sum
  <2>2. [i \in S |-> Total(i)] = [i \in S |-> total[i]] /\ [i \in S |-> Paid(i)] = [i \in S |-> paid[i]]
    BY <1>4
  <2>3. /\ SumFunction([i \in S |-> total[i]]) = SumFunctionOnSet(total, S)
        /\ SumFunction([i \in S |-> paid[i]]) = SumFunctionOnSet(paid, S)
    BY <1>2, <1>4, SumOf
  <2>4. SumFunctionOnSet(total, S) = SumFunctionOnSet(left, S) + SumFunctionOnSet(paid, S)
    BY <1>2, <1>4, SumPlus
  <2>5. SumFunctionOnSet(left, S) \in Nat /\ SumFunctionOnSet(paid, S) \in Nat
    BY <1>2, <1>4, SumIsNat
  <2> QED  BY ONLY <2>1, <2>2, <2>3, <2>4, <2>5
<1> QED  BY ONLY <1>1, <1>2, <1>4, <1>5, <1>6, <1>7, <1>8, <1>9

\* InvoicesService, ReceivablesService, FinanceCenterService and
\* BusinessAnalyticsService: of a customer who paid no invoice beyond its
\* total they all say the same, however many payments, pending or decided,
\* split in whatever way, there are.
THEOREM FourScreensAgree == Spec => []DebtsAgree
<1>1. ASSUME TypeOK PROVE DebtsAgree
  <2> SUFFICES ASSUME NEW c \in Customer, \A i \in OfCustomer(c) : Paid(i) <= Total(i)
               PROVE  LET owed == Sum(Balance, OfCustomer(c)) IN
                      /\ Receivable(c).outstanding = owed /\ Receivable(c).aged = owed
                      /\ CenterDebt(c).outstanding = owed /\ AnalyticsDebt(c).outstanding = owed
                      /\ Receivable(c).late = AnalyticsDebt(c).late
                      /\ CenterDebt(c).overdue >= Receivable(c).late
                      /\ (\A i \in OfCustomer(c) : DueOf[invoices[i]] # "today")
                            => CenterDebt(c).overdue = Receivable(c).late
    BY DEF DebtsAgree
  <2>1. PICK left, S :
            /\ S = OfCustomer(c) /\ IsFiniteSet(S) /\ \A i \in S : left[i] = Left(i) /\ left[i] \in Nat
            /\ Sum(Balance, S) = SumFunctionOnSet(left, S)
            /\ Receivable(c).outstanding = SumFunctionOnSet(left, S)
            /\ \A T \in SUBSET S :
                  /\ Sum(StillOwed, T) = SumFunctionOnSet(left, T)
                  /\ Sum(Left, {i \in T : Left(i) > 0}) = SumFunctionOnSet(left, T)
                  /\ SumFunctionOnSet(left, T) \in Nat
    BY <1>1, Owed
  <2>2. PICK past, due : /\ past = {i \in S : DueWhen(i, {"past"})}
                         /\ due = {i \in S : DueWhen(i, {"past", "today"})}
    OBVIOUS
  <2>3. S \in SUBSET S /\ past \in SUBSET S /\ due \in SUBSET S /\ past \in SUBSET due
    BY <2>2 DEF DueWhen
  <2>4. /\ Owing(c) = {i \in S : Left(i) > 0}
        /\ {i \in Owing(c) : DueWhen(i, {"past"})} = {i \in past : Left(i) > 0}
        /\ {i \in Owing(c) : DueWhen(i, {"past", "today"})} = {i \in due : Left(i) > 0}
    BY <2>1, <2>2 DEF Owing
  <2>5. /\ Receivable(c).aged = Sum(Left, Owing(c)) /\ CenterDebt(c).outstanding = Sum(Left, Owing(c))
        /\ Receivable(c).late = Sum(Left, {i \in Owing(c) : DueWhen(i, {"past"})})
        /\ CenterDebt(c).overdue = Sum(Left, {i \in Owing(c) : DueWhen(i, {"past", "today"})})
        /\ AnalyticsDebt(c).outstanding = Sum(StillOwed, S)
        /\ AnalyticsDebt(c).late = Sum(StillOwed, past)
    BY <2>1, <2>2 DEF Receivable, CenterDebt, AnalyticsDebt
  <2>6. /\ Sum(Left, Owing(c)) = SumFunctionOnSet(left, S)
        /\ Sum(Left, {i \in Owing(c) : DueWhen(i, {"past"})}) = SumFunctionOnSet(left, past)
        /\ Sum(Left, {i \in Owing(c) : DueWhen(i, {"past", "today"})}) = SumFunctionOnSet(left, due)
        /\ Sum(StillOwed, S) = SumFunctionOnSet(left, S)
        /\ Sum(StillOwed, past) = SumFunctionOnSet(left, past)
    BY <2>1, <2>3, <2>4
  <2>7. SumFunctionOnSet(left, due) >= SumFunctionOnSet(left, past)
    <3>1. IsFiniteSet(due) /\ \A i \in due : left[i] \in Nat
      BY <2>1, <2>3, FS_Subset
    <3>2. /\ SumFunctionOnSet(left, due) = SumFunctionOnSet(left, past) + SumFunctionOnSet(left, due \ past)
          /\ SumFunctionOnSet(left, past) \in Nat /\ SumFunctionOnSet(left, due \ past) \in Nat
      BY <2>3, <3>1, SumSplit
    <3> QED  BY <3>2
  <2>8. (\A i \in OfCustomer(c) : DueOf[invoices[i]] # "today") => due = past
    BY <2>1, <2>2 DEF DueWhen
  <2> QED  BY <2>1, <2>5, <2>6, <2>7, <2>8
<1>2. IInv => TypeOK
  BY DEF IInv
<1> QED  BY <1>1, <1>2, MoneyInductive, PTL

\* spendByPlace, ledger and businessAnalytics: while no place is closed, what
\* was spent at the farms, warehouses and mills and by head office comes to
\* all that was spent, each expense at one place. The ledger never confirms
\* more; as far as its limit reaches it confirms exactly that, and what was
\* collected, and what it confirms and what it has waiting together are what
\* the business analytics call spent.
THEOREM PlacesAddUp == Spec => []SpendingAddsUp
<1>1. ASSUME TypeOK PROVE SpendingAddsUp
  <2>1. ASSUME active = Place PROVE SpendByPlace = Spent
    <3>1. PICK S, P : S = Rows(expenses, Accepted) /\ P = Place \cup {None}
      OBVIOUS
    <3>2. S \in SUBSET DOMAIN expenses /\ IsFiniteSet(S) /\ IsFiniteSet(P)
      <4>1. S \in SUBSET DOMAIN expenses
        BY <3>1 DEF Rows
      <4> QED  BY <1>1, <3>1, <4>1, RowsFinite, FS_Subset, FS_AddElement
    <3>3. PICK place, f : /\ place = [i \in S |-> PlaceOf(expenses[i])]
                          /\ f = [p \in P |-> SpentAt(p)]
      OBVIOUS
    <3>4. ASSUME NEW i \in S PROVE place[i] \in P
      <4>1. expenses[i] \in Expense
        BY <1>1, <3>2, RowsFinite
      <4> QED  BY <3>1, <3>3, <4>1 DEF Expense, PlaceOf, Place
    <3>5. ASSUME NEW p \in P PROVE f[p] = Cardinality({i \in S : place[i] = p})
      <4>1. {i \in S : CountedAt(expenses[i], p)} = {i \in S : place[i] = p}
        BY <3>3 DEF CountedAt
      <4> QED  BY <3>1, <3>3, <4>1 DEF SpentAt
    <3>6. \A p \in P : f[p] \in Nat
      <4>1. ASSUME NEW p \in P PROVE f[p] \in Nat
        <5>1. IsFiniteSet({i \in S : place[i] = p})
          BY <3>2, FS_Subset
        <5> QED  BY <3>5, <5>1, FS_CardinalityType
      <4> QED  BY <4>1
    <3>7. SumFunctionOnSet(f, P) = Cardinality(S)
      <4>1. /\ \A i \in S : place[i] \in P
            /\ \A p \in P : f[p] = Cardinality({i \in S : place[i] = p})
        BY <3>4, <3>5
      <4> QED  BY ONLY <3>2, <4>1, SumOfClasses
    <3>8. SpendByPlace = SumFunction([p \in P |-> f[p]])
      <4>1. [p \in P |-> SpentAt(p)] = [p \in P |-> f[p]]
        BY <3>3
      <4> QED  BY <2>1, <3>1, <4>1 DEF SpendByPlace, Sum
    <3>9. SumFunction([p \in P |-> f[p]]) = SumFunctionOnSet(f, P)
      BY <3>2, <3>6, SumOf
    <3> QED  BY <3>1, <3>7, <3>8, <3>9 DEF Spent
  <2>2. \A status : /\ StateOf(status) = "confirmed" <=> status = Accepted
                    /\ StateOf(status) = "waiting" <=> status = Waiting
    BY DEF StateOf, Accepted, Waiting
  <2>3. PICK S, W : S = Rows(expenses, Accepted) /\ W = Rows(expenses, Waiting)
    OBVIOUS
  <2>4. S \in SUBSET DOMAIN expenses /\ W \in SUBSET DOMAIN expenses /\ S \cap W = {}
    BY <2>3 DEF Rows, Accepted, Waiting
  <2>5. IsFiniteSet(S) /\ IsFiniteSet(W)
    BY <1>1, <2>4, RowsFinite, FS_Subset
  <2>6. LedgerOut("confirmed") <= Spent
    <3>1. {i \in Newest(expenses) : StateOf(expenses[i].status) = "confirmed"} \subseteq S
      BY <2>2, <2>3 DEF Newest, Rows
    <3> QED  BY <2>3, <2>5, <3>1, FS_Subset DEF LedgerOut, Spent
  <2>7. ASSUME NEW rows, NEW T, rows \in Seq(T), Len(rows) <= LedgerLimit
        PROVE  Newest(rows) = DOMAIN rows
    <3>1. DOMAIN rows = 1 .. Len(rows) /\ Len(rows) \in Nat
      BY <2>7, LenProperties
    <3> QED  BY <2>7, <3>1 DEF Newest
  <2>8. ASSUME Len(expenses) <= LedgerLimit
        PROVE  /\ LedgerOut("confirmed") = Spent
               /\ LedgerOut("confirmed") + LedgerOut("waiting") = AnalyticsSpent
    <3>1. Newest(expenses) = DOMAIN expenses
      BY <1>1, <2>7, <2>8 DEF TypeOK
    <3>2. LedgerOut("confirmed") = Cardinality(S) /\ LedgerOut("waiting") = Cardinality(W)
      <4>1. /\ {i \in Newest(expenses) : StateOf(expenses[i].status) = "confirmed"} = S
            /\ {i \in Newest(expenses) : StateOf(expenses[i].status) = "waiting"} = W
        BY <2>2, <2>3, <3>1 DEF Rows
      <4> QED  BY <4>1 DEF LedgerOut
    <3>3. {i \in DOMAIN expenses : expenses[i].status # "REJECTED"} = S \cup W
      <4>1. \A i \in DOMAIN expenses : expenses[i].status \in {Waiting, Accepted, "REJECTED"}
        BY <1>1, RowsFinite DEF Expense, Verdict
      <4> QED  BY <2>3, <4>1 DEF Rows, Waiting, Accepted
    <3>4. Cardinality(S \cup W) = Cardinality(S) + Cardinality(W)
      <4>1. /\ Cardinality(S \cup W) = Cardinality(S) + Cardinality(W) - Cardinality(S \cap W)
            /\ Cardinality(S) \in Nat /\ Cardinality(W) \in Nat
        BY <2>5, FS_Union, FS_CardinalityType
      <4>2. Cardinality(S \cap W) = 0
        BY <2>4, FS_EmptySet
      <4> QED  BY <4>1, <4>2
    <3> QED  BY <2>3, <3>2, <3>3, <3>4 DEF Spent, AnalyticsSpent
  <2>9. ASSUME Len(payments) <= LedgerLimit PROVE LedgerIn("confirmed") = Collected
    <3>1. Newest(payments) = DOMAIN payments
      BY <1>1, <2>7, <2>9 DEF TypeOK
    <3>2. {k \in Newest(payments) : StateOf(payments[k].status) = "confirmed"} = Rows(payments, Accepted)
      BY <2>2, <3>1 DEF Rows
    <3> QED  BY <3>2 DEF LedgerIn, Collected
  <2> QED  BY <2>1, <2>6, <2>8, <2>9 DEF SpendingAddsUp
<1>2. IInv => TypeOK
  BY DEF IInv
<1> QED  BY <1>1, <1>2, MoneyInductive, PTL
=============================================================================
