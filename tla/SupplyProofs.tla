----------------------------- MODULE SupplyProofs -----------------------------
(***************************************************************************)
(* What Supply.tla promises for any number of requests for paddy, people,  *)
(* places and HTTP requests in flight: the mill books what was said to be  *)
(* ready, a request that one person at a time works on is answered once,   *)
(* and none reaches a supplier that nobody has reviewed.                   *)
(***************************************************************************)
EXTENDS Supply, SequenceTheorems, FiniteSetTheorems, TLAPS

USE BoundAssumption, MillAssumption

-----------------------------------------------------------------------------
(* Calls, rows and their numbers. *)

LEMMA CallTyped ==
  ASSUME TypeOK, NEW r \in Request
  PROVE  /\ call[r] = Idle \/ call[r] \in CallType
         /\ call[r] = Idle => call[r].on = 0 /\ call[r].op = "none"
         /\ call[r] # Idle => /\ call[r] \in CallType
                              /\ call[r].op \in Op /\ call[r].by \in User /\ call[r].on \in Ask
                              /\ call[r].step \in {1, 2} /\ call[r].ref \in Nat
                              /\ call[r].to \in Warehouse \cup {None}
BY DEF TypeOK, Idle, CallType

\* A request that is at some step is in flight.
LEMMA InFlight ==
  ASSUME NEW r \in Request, NEW op \in Op, NEW step, At(r, op, step)
  PROVE  call[r] # Idle /\ call[r].op = op /\ call[r].step = step
BY DEF At, Idle, Op

LEMMA RowTyped ==
  ASSUME TypeOK, NEW q \in Ask, Made(q)
  PROVE  /\ req[q] \in Row
         /\ req[q].status \in Status /\ req[q].mill \in Mill \cup {None}
         /\ req[q].wh \in Warehouse /\ req[q].by \in User /\ req[q].fwd \in User \cup {None}
         /\ req[q].farm \in Nat /\ req[q].src \in Warehouse \cup {None}
BY DEF TypeOK, Made, NoRow, Row

LEMMA NextIsFree ==
  ASSUME TypeOK, MadeInOrder, NextAsk <= N
  PROVE  /\ NextAsk \in Ask /\ ~Made(NextAsk)
         /\ \A q \in Ask : Made(q) <=> q < NextAsk
<1>1. PICK k \in 0 .. N : \A q \in Ask : Made(q) <=> q <= k
  BY DEF MadeInOrder
<1>2. {q \in Ask : Made(q)} = 1 .. k
  BY <1>1 DEF Ask
<1>3. Cardinality(1 .. k) = k
  BY <1>1, FS_Interval
<1>4. NextAsk = k + 1
  BY <1>2, <1>3 DEF NextAsk
<1> QED  BY <1>1, <1>4 DEF Ask

\* Fewer claims, and no "ready" spent that was not said.
LEMMA BookedStep ==
  ASSUME TypeOK, TypeOK', NEW q \in Ask, BookedOK(q),
         Claims(q)' \subseteq Claims(q), receipts'[q] = receipts[q], readied'[q] >= readied[q],
         req'[q].status = "READY" => req[q].status = "READY" \/ readied'[q] >= readied[q] + 1
  PROVE  BookedOK(q)'
<1>1. IsFiniteSet(Claims(q)) /\ IsFiniteSet(Claims(q)')
  BY FS_Subset DEF BookedOK
<1>2. Cardinality(Claims(q)') <= Cardinality(Claims(q))
  BY <1>1, FS_Subset
<1>3. Cardinality(Claims(q)') \in Nat /\ Cardinality(Claims(q)) \in Nat
  BY <1>1, FS_CardinalityType
<1>4. receipts[q] \in Nat /\ readied[q] \in Nat /\ readied'[q] \in Nat
  BY DEF TypeOK
<1> QED  BY <1>1, <1>2, <1>3, <1>4 DEF BookedOK

\* A row that nothing happened to.
LEMMA SameRow ==
  ASSUME TypeOK, TypeOK', NEW p \in Ask,
         BookedOK(p), VouchedOK(p), AloneOK(p), Untouched(p),
         req'[p] = req[p], dispatch'[p] = dispatch[p], sent'[p] = sent[p],
         readied'[p] = readied[p], receipts'[p] = receipts[p], crossed'[p] = crossed[p],
         \A s \in Request : /\ call'[s].on = p <=> call[s].on = p
                            /\ call[s].on = p => call'[s] = call[s]
  PROVE  BookedOK(p)' /\ VouchedOK(p)' /\ AloneOK(p)' /\ Untouched(p)'
<1>1. Claims(p)' = Claims(p) /\ (Noting(p)' <=> Noting(p)) /\ LiveTrips(p)' = LiveTrips(p)
  BY DEF Claims, Noting, At, LiveTrips
<1>2. BookedOK(p)'
  <2>1. readied'[p] >= readied[p]
    BY DEF TypeOK
  <2> QED  BY <1>1, <2>1, BookedStep
<1>3. VouchedOK(p)'
  BY DEF VouchedOK, Vouched, Made, PlaceOf, IsMill, ReviewerOf, SelfReview, HasRole, HoldsAny, InScope
<1>4. \A s \in Request : call[s].on = p => (ReadStill(s)' <=> ReadStill(s))
  <2> TAKE s \in Request
  <2> HAVE call[s].on = p
  <2>1. call'[s] = call[s] /\ call[s].on = p /\ req'[p] = req[p]
    OBVIOUS
  <2> QED  BY <1>1, <2>1 DEF ReadStill
<1>5. AnswerOK(p)' <=> AnswerOK(p)
  BY <1>1 DEF AnswerOK
<1>6. AloneOK(p)'
  BY <1>1, <1>4, <1>5 DEF AloneOK, Made
<1>7. Untouched(p)'
  BY DEF Untouched, Made
<1> QED  BY <1>2, <1>3, <1>6, <1>7

-----------------------------------------------------------------------------
(* A step on one request for paddy leaves the others, and what is known of *)
(* it for good, as they were.                                              *)

LEMMA OneRow ==
  ASSUME IInv, TypeOK', NEW q \in Ask, Made(q), Made(q)',
         \A p \in Ask \ {q} :
            /\ req'[p] = req[p] /\ dispatch'[p] = dispatch[p] /\ sent'[p] = sent[p]
            /\ readied'[p] = readied[p] /\ receipts'[p] = receipts[p] /\ crossed'[p] = crossed[p],
         \A s \in Request : call'[s] # call[s] =>
            (call[s] = Idle \/ call[s].on = q) /\ call'[s].on \in {0, q} /\ CallOK(s)',
         req'[q].mill = req[q].mill, req'[q].wh = req[q].wh, req'[q].by = req[q].by,
         \/ req'[q].fwd = req[q].fwd
         \/ req'[q].fwd # None /\ HasRole(req'[q].fwd, {ReviewerOf(req[q].mill)}),
         VouchedOK(q)', BookedOK(q)', AloneOK(q)'
  PROVE  IInv'
<1>1. \A p \in Ask : Made(p)' <=> Made(p)
  BY DEF Made
<1>2. MadeInOrder'
  BY <1>1 DEF IInv, MadeInOrder
<1>3. \A p \in Ask : Vouched(p) => Vouched(p)'
  BY DEF Vouched, PlaceOf, IsMill, ReviewerOf, SelfReview, HasRole, HoldsAny, InScope
<1>4. \A p \in Ask \ {q} : BookedOK(p)' /\ VouchedOK(p)' /\ AloneOK(p)' /\ Untouched(p)'
  <2> TAKE p \in Ask \ {q}
  <2>1. \A s \in Request : /\ call'[s].on = p <=> call[s].on = p
                           /\ call[s].on = p => call'[s] = call[s]
    <3> TAKE s \in Request
    <3>1. CASE call'[s] = call[s]
      BY <3>1
    <3>2. CASE call'[s] # call[s]
      BY <3>2 DEF Idle, Ask
    <3> QED  BY <3>1, <3>2
  <2> QED  BY <2>1, SameRow DEF IInv
<1>5. Untouched(q)'
  BY DEF Untouched
<1>6. \A s \in Request : CallOK(s)'
  <2> TAKE s \in Request
  <2>1. CASE call'[s] # call[s]
    BY <2>1
  <2>2. CASE call'[s] = call[s] /\ call[s] # Idle
    <3>1. call[s].on \in Ask /\ CallOK(s)
      BY <2>2, CallTyped DEF IInv
    <3>2. req'[call[s].on].mill = req[call[s].on].mill
      BY <3>1
    <3> QED  BY <1>1, <1>3, <2>2, <3>1, <3>2
             DEF CallOK, MayReview, MaySupply, IsMill, HasRole, ReviewerOf, SupplierOf
  <2>3. CASE call'[s] = call[s] /\ call[s] = Idle
    BY <2>3 DEF CallOK
  <2> QED  BY <2>1, <2>2, <2>3
<1> QED  BY <1>2, <1>4, <1>5, <1>6 DEF IInv

\* When a request that nothing crossed is done, nobody works on its row.
LEMMA EndAlone ==
  ASSUME IInv, NEW r \in Request, call[r] # Idle, End(r), NEW q \in Ask, call[r].on = q
  PROVE  /\ ~crossed[q] => /\ \A s \in Request : call'[s].on # q
                           /\ ReadStill(r) /\ AnswerOK(q)
                           /\ Claims(q)' = {} /\ ~Noting(q)'
                           /\ Noting(q) => At(r, "assignFarm", 2)
                           /\ receipts[q] <= 1
                           /\ req[q].status # "RECEIVED" \/ At(r, "receive", 2) => receipts[q] = 0
         /\ Made(q)
         /\ \A s \in Request : call'[s] # call[s] =>
                call[s].on = q /\ call'[s].on \in {0, q} /\ CallOK(s)'
         /\ Claims(q)' \subseteq Claims(q)
         /\ call' \in [Request -> {Idle} \cup CallType]
<1>1. call \in [Request -> {Idle} \cup CallType]
  BY DEF IInv, TypeOK
<1>2. Made(q)
  BY DEF IInv, CallOK
<1>3. \A s \in Request : call'[s] = IF s = r THEN Idle ELSE call[s]
  BY <1>1 DEF End
<1>4. ASSUME ~crossed[q]
      PROVE  /\ \A s \in Request : call'[s].on # q
             /\ ReadStill(r) /\ AnswerOK(q) /\ Claims(q)' = {} /\ ~Noting(q)'
             /\ Noting(q) => At(r, "assignFarm", 2)
             /\ receipts[q] <= 1
             /\ req[q].status # "RECEIVED" \/ At(r, "receive", 2) => receipts[q] = 0
  <2>1. AloneOK(q)
    BY DEF IInv
  <2>2. \A s \in Request : call[s].on = q => s = r
    BY <1>2, <1>4, <2>1 DEF AloneOK
  <2>3. \A s \in Request : call'[s].on # q
    BY <1>3, <2>2 DEF Idle, Ask
  <2>4. Noting(q) => At(r, "assignFarm", 2)
    BY <2>2 DEF Noting
  <2>5. At(r, "receive", 2) => Claims(q) # {}
    BY DEF Claims
  <2> QED  BY <1>2, <1>4, <2>1, <2>3, <2>4, <2>5 DEF AloneOK, Claims, Noting
<1>5. Claims(q)' \subseteq Claims(q)
  BY <1>3 DEF Claims, At, Idle, Ask
<1> QED  BY <1>1, <1>2, <1>3, <1>4, <1>5 DEF Idle, CallOK, End

\* The last statement of a handler: the row is written by its id.
LEMMA EndStep ==
  ASSUME IInv, NEW r \in Request, call[r] # Idle, End(r), NEW q \in Ask, call[r].on = q,
         NEW row \in Row, req' = [req EXCEPT ![q] = row],
         row.mill = req[q].mill, row.wh = req[q].wh, row.by = req[q].by,
         \/ row.fwd = req[q].fwd
         \/ row.fwd # None /\ HasRole(row.fwd, {ReviewerOf(req[q].mill)}),
         row.status \in {"FORWARDED", "ASSIGNED", "READY", "RECEIVED"}
            => Vouched(q) \/ (row.fwd # None /\ HasRole(row.fwd, {ReviewerOf(req[q].mill)})),
         UNCHANGED <<dispatch, sent, enough, crossed>>,
         readied' \in [Ask -> Nat], receipts' \in [Ask -> Nat],
         \A p \in Ask \ {q} : readied'[p] = readied[p] /\ receipts'[p] = receipts[p],
         BookedOK(q)',
         ~crossed[q] => /\ AnswerOK(q)' /\ receipts'[q] <= 1
                        /\ row.status # "RECEIVED" => receipts'[q] = 0
  PROVE  IInv'
<1>1. TypeOK /\ Made(q)
  BY EndAlone DEF IInv
<1>2. req' \in [Ask -> Row \cup {NoRow}] /\ req'[q] = row
  BY <1>1 DEF TypeOK
<1>3. call' \in [Request -> {Idle} \cup CallType]
  BY EndAlone
<1>4. TypeOK'
  BY <1>1, <1>2, <1>3 DEF TypeOK
<1>5. Made(q)'
  BY <1>2 DEF Made, Row, Status
<1>6. VouchedOK(q)'
  BY <1>2 DEF VouchedOK, Vouched, PlaceOf, IsMill, ReviewerOf, SelfReview, HasRole, HoldsAny, InScope
<1>7. AloneOK(q)'
  <2>1. CASE crossed[q]
    BY <2>1 DEF AloneOK
  <2>2. CASE ~crossed[q]
    <3>1. (\A s \in Request : call'[s].on # q) /\ Claims(q)' = {}
      BY <2>2, EndAlone, ZenonT(30)
    <3>2. AnswerOK(q)' /\ receipts'[q] <= 1 /\ (req'[q].status # "RECEIVED" => receipts'[q] = 0)
      BY <1>2, <2>2, SMTT(20)
    <3> QED  BY <3>1, <3>2 DEF AloneOK
  <2> QED  BY <2>1, <2>2
<1>8. \A p \in Ask \ {q} : req'[p] = req[p]
  BY <1>1 DEF TypeOK
<1>9. \A s \in Request : call'[s] # call[s] =>
         (call[s] = Idle \/ call[s].on = q) /\ call'[s].on \in {0, q} /\ CallOK(s)'
  BY EndAlone
<1> HIDE DEF End
<1> QED  BY <1>1, <1>2, <1>4, <1>5, <1>6, <1>7, <1>8, <1>9, OneRow

\* The common kind: nothing but the row is written.
LEMMA WriteRow ==
  ASSUME IInv, NEW r \in Request, call[r] # Idle, End(r), NEW q \in Ask, call[r].on = q,
         NEW row \in Row, req' = [req EXCEPT ![q] = row],
         row.mill = req[q].mill, row.wh = req[q].wh, row.by = req[q].by,
         row.status \notin {"READY", "RECEIVED"},
         \/ row.fwd = req[q].fwd
         \/ row.fwd # None /\ HasRole(row.fwd, {ReviewerOf(req[q].mill)}),
         row.status \in {"FORWARDED", "ASSIGNED"}
            => Vouched(q) \/ (row.fwd # None /\ HasRole(row.fwd, {ReviewerOf(req[q].mill)})),
         UNCHANGED <<dispatch, sent, enough, readied, receipts, crossed>>,
         ~crossed[q] =>
            /\ req[q].status # "RECEIVED"
            /\ IF row.status = "ASSIGNED"
               THEN \/ row.farm > 0 /\ row.src = None /\ Len(dispatch[q]) = 1 /\ Len(sent[q]) = 0
                    \/ row.farm = 0 /\ row.src # None /\ Len(dispatch[q]) = 0 /\ LiveTrips(q) = {}
               ELSE row.farm = 0 /\ row.src = None /\ Len(sent[q]) = 0 /\ Len(dispatch[q]) = 0
  PROVE  IInv'
<1>1. TypeOK /\ Made(q) /\ call' \in [Request -> {Idle} \cup CallType]
  BY EndAlone DEF IInv
<1>2. req'[q] = row /\ req' \in [Ask -> Row \cup {NoRow}]
  BY <1>1 DEF TypeOK
<1>3. TypeOK'
  BY <1>1, <1>2 DEF TypeOK
<1>4. BookedOK(q)'
  <2>1. Claims(q)' \subseteq Claims(q)
    BY EndAlone
  <2>2. readied'[q] >= readied[q] /\ receipts'[q] = receipts[q] /\ req'[q].status # "READY"
    BY <1>1, <1>2 DEF TypeOK
  <2> QED  BY <1>1, <1>3, <2>1, <2>2, BookedStep DEF IInv
<1>5. ASSUME ~crossed[q]
      PROVE  AnswerOK(q)' /\ receipts[q] = 0
  <2>1. receipts[q] = 0 /\ ~Noting(q)'
    BY <1>5, EndAlone
  <2>2. LiveTrips(q)' = LiveTrips(q)
    BY DEF LiveTrips
  <2>3. CASE row.status = "ASSIGNED"
    <3>1. LiveTrips(q) = {} => \E i \in 0 .. MaxSent : LiveTrips(q)' \subseteq {i}
      BY <2>2
    <3> QED  BY <1>2, <1>5, <2>1, <2>3, <3>1 DEF AnswerOK
  <2>4. CASE row.status # "ASSIGNED"
    BY <1>2, <1>5, <2>1, <2>4 DEF AnswerOK
  <2> QED  BY <2>3, <2>4, <2>1
<1>6. readied' \in [Ask -> Nat] /\ receipts' \in [Ask -> Nat]
  BY <1>1 DEF TypeOK
<1>7. ~crossed[q] => AnswerOK(q)' /\ receipts'[q] <= 1 /\ (row.status # "RECEIVED" => receipts'[q] = 0)
  BY <1>5
<1> QED  BY <1>4, <1>6, <1>7, EndStep

-----------------------------------------------------------------------------
(* Each handler's statements. *)

\* What a row becomes when one or two of its columns are written.
LEMMA RowExcept ==
  ASSUME TypeOK, NEW q \in Ask, Made(q), NEW status \in Status
  PROVE  /\ [req[q] EXCEPT !.status = status] \in Row
         /\ \A fwd \in User : [req[q] EXCEPT !.status = status, !.fwd = fwd] \in Row
         /\ \A farm \in Nat : [req[q] EXCEPT !.status = status, !.farm = farm] \in Row
         /\ \A w \in Warehouse : [req[q] EXCEPT !.status = status, !.src = w] \in Row
BY RowTyped DEF Row

LEMMA ForwardInv ==
  ASSUME IInv, NEW r \in Request, Forward(r)
  PROVE  IInv'
<1>1. call[r] # Idle /\ call[r].op = "forward" /\ call[r].step = 1 /\ TypeOK
  BY InFlight DEF Forward, Op, IInv
<1>2. PICK q \in Ask : call[r].on = q
  BY <1>1, CallTyped
<1>3. Made(q) /\ call[r].by \in User /\ MayReview(call[r].by, q)
  BY <1>1, <1>2, CallTyped DEF IInv, CallOK
<1>4. End(r) /\ UNCHANGED <<dispatch, sent, enough, readied, receipts, crossed>>
  BY DEF Forward, answers
<1>5. PICK row \in Row : row = [req[q] EXCEPT !.status = "FORWARDED", !.fwd = call[r].by]
  BY <1>1, <1>3, RowExcept DEF Status
<1>6. req' = [req EXCEPT ![q] = row]
  BY <1>1, <1>2, <1>5 DEF Forward, TypeOK
<1>7. /\ row.status = "FORWARDED" /\ row.fwd = call[r].by /\ row.fwd # None
      /\ row.mill = req[q].mill /\ row.wh = req[q].wh /\ row.by = req[q].by
      /\ row.farm = req[q].farm /\ row.src = req[q].src
  BY <1>1, <1>3, <1>5, RowTyped DEF Row
<1>8. HasRole(row.fwd, {ReviewerOf(req[q].mill)})
  BY <1>3, <1>7 DEF MayReview
<1>9. ASSUME ~crossed[q]
      PROVE  /\ req[q].status = "SUBMITTED"
             /\ row.farm = 0 /\ row.src = None /\ Len(sent[q]) = 0 /\ Len(dispatch[q]) = 0
  <2>1. ReadStill(r) /\ AnswerOK(q) /\ ~Noting(q)
    BY <1>1, <1>2, <1>4, <1>9, EndAlone DEF At
  <2>2. req[q].status = "SUBMITTED"
    BY <1>1, <1>2, <2>1 DEF ReadStill
  <2> QED  BY <1>7, <2>1, <2>2 DEF AnswerOK
<1> QED  BY <1>1, <1>2, <1>4, <1>6, <1>7, <1>8, <1>9, WriteRow

LEMMA DeclineOrCancelInv ==
  ASSUME IInv, NEW r \in Request, DeclineOrCancel(r)
  PROVE  IInv'
<1>1. /\ call[r] # Idle /\ call[r].op \in {"decline", "cancel"} /\ call[r].step = 1 /\ TypeOK
  BY InFlight DEF DeclineOrCancel, Op, IInv
<1>2. PICK q \in Ask : call[r].on = q
  BY <1>1, CallTyped
<1>3. Made(q)
  BY <1>1, <1>2 DEF IInv, CallOK
<1>4. End(r) /\ UNCHANGED <<dispatch, sent, enough, readied, receipts, crossed>>
  BY DEF DeclineOrCancel, answers
<1>5. PICK status \in {"DECLINED", "CANCELLED"} : req' = [req EXCEPT ![call[r].on].status = status]
  BY DEF DeclineOrCancel, SetStatus
<1>6. PICK row \in Row : row = [req[q] EXCEPT !.status = status]
  BY <1>1, <1>3, RowExcept DEF Status
<1>7. req' = [req EXCEPT ![q] = row]
  BY <1>1, <1>2, <1>5, <1>6 DEF TypeOK
<1>8. /\ row.status \in {"DECLINED", "CANCELLED"} /\ row.fwd = req[q].fwd
      /\ row.mill = req[q].mill /\ row.wh = req[q].wh /\ row.by = req[q].by
      /\ row.farm = req[q].farm /\ row.src = req[q].src
  BY <1>1, <1>3, <1>6, RowTyped DEF Row
<1>9. ASSUME ~crossed[q]
      PROVE  /\ req[q].status \in {"SUBMITTED", "FORWARDED"}
             /\ row.farm = 0 /\ row.src = None /\ Len(sent[q]) = 0 /\ Len(dispatch[q]) = 0
  <2>1. ReadStill(r) /\ AnswerOK(q) /\ ~Noting(q)
    BY <1>1, <1>2, <1>4, <1>9, EndAlone DEF At
  <2>2. req[q].status \in {"SUBMITTED", "FORWARDED"}
    BY <1>1, <1>2, <2>1 DEF ReadStill
  <2> QED  BY <1>8, <2>1, <2>2 DEF AnswerOK
<1> QED  BY <1>1, <1>2, <1>4, <1>7, <1>8, <1>9, WriteRow

\* The dispatch that was asked for is the one that is noted.
LEMMA NoteFarmInv ==
  ASSUME IInv, NEW r \in Request, NoteFarm(r)
  PROVE  IInv'
<1>1. At(r, "assignFarm", 2) /\ call[r] # Idle /\ call[r].op = "assignFarm" /\ call[r].step = 2 /\ TypeOK
  BY InFlight DEF NoteFarm, Op, IInv
<1>2. PICK q \in Ask : call[r].on = q
  BY <1>1, CallTyped
<1>3. Made(q) /\ Vouched(q) /\ call[r].ref \in Nat
  BY <1>1, <1>2, CallTyped DEF IInv, CallOK
<1>4. End(r) /\ UNCHANGED <<dispatch, sent, enough, readied, receipts, crossed>>
  BY DEF NoteFarm, answers
<1>5. PICK row \in Row : row = [req[q] EXCEPT !.status = "ASSIGNED", !.farm = call[r].ref]
  BY <1>1, <1>3, RowExcept DEF Status
<1>6. req' = [req EXCEPT ![q] = row]
  BY <1>1, <1>2, <1>5 DEF NoteFarm, TypeOK
<1>7. /\ row.status = "ASSIGNED" /\ row.fwd = req[q].fwd
      /\ row.mill = req[q].mill /\ row.wh = req[q].wh /\ row.by = req[q].by
      /\ row.farm = call[r].ref /\ row.src = req[q].src
  BY <1>1, <1>3, <1>5, RowTyped DEF Row
<1>8. ASSUME ~crossed[q]
      PROVE  /\ req[q].status = "FORWARDED"
             /\ row.farm > 0 /\ row.src = None /\ Len(dispatch[q]) = 1 /\ Len(sent[q]) = 0
  <2>1. ReadStill(r) /\ AnswerOK(q)
    BY <1>1, <1>2, <1>4, <1>8, EndAlone
  <2>2. req[q].status = "FORWARDED" /\ call[r].ref > 0
    BY <1>1, <1>2, <2>1 DEF ReadStill
  <2>3. Noting(q)
    BY <1>1, <1>2 DEF Noting
  <2> QED  BY <1>7, <2>1, <2>2, <2>3 DEF AnswerOK
<1> QED  BY <1>1, <1>2, <1>3, <1>4, <1>6, <1>7, <1>8, WriteRow

LEMMA AssignToInv ==
  ASSUME IInv, NEW r \in Request, AssignTo(r)
  PROVE  IInv'
<1>1. call[r] # Idle /\ call[r].op = "assignTo" /\ call[r].step = 1 /\ TypeOK
  BY InFlight DEF AssignTo, Op, IInv
<1>2. PICK q \in Ask : call[r].on = q
  BY <1>1, CallTyped
<1>3. Made(q) /\ Vouched(q) /\ call[r].to \in Warehouse /\ call[r].to # None
  BY <1>1, <1>2, CallTyped DEF IInv, CallOK
<1>4. End(r) /\ UNCHANGED <<dispatch, sent, enough, readied, receipts, crossed>>
  BY DEF AssignTo, answers
<1>5. PICK row \in Row : row = [req[q] EXCEPT !.status = "ASSIGNED", !.src = call[r].to]
  BY <1>1, <1>3, RowExcept DEF Status
<1>6. req' = [req EXCEPT ![q] = row]
  BY <1>1, <1>2, <1>5 DEF AssignTo, TypeOK
<1>7. /\ row.status = "ASSIGNED" /\ row.fwd = req[q].fwd
      /\ row.mill = req[q].mill /\ row.wh = req[q].wh /\ row.by = req[q].by
      /\ row.farm = req[q].farm /\ row.src = call[r].to
  BY <1>1, <1>3, <1>5, RowTyped DEF Row
<1>8. ASSUME ~crossed[q]
      PROVE  /\ req[q].status = "FORWARDED"
             /\ row.farm = 0 /\ row.src # None /\ Len(dispatch[q]) = 0 /\ LiveTrips(q) = {}
  <2>1. ReadStill(r) /\ AnswerOK(q) /\ ~Noting(q)
    BY <1>1, <1>2, <1>4, <1>8, EndAlone DEF At
  <2>2. req[q].status = "FORWARDED"
    BY <1>1, <1>2, <2>1 DEF ReadStill
  <2>3. Len(dispatch[q]) = 0 /\ Len(sent[q]) = 0 /\ req[q].farm = 0
    BY <2>1, <2>2 DEF AnswerOK
  <2>4. DOMAIN sent[q] = {}
    BY <1>1, <2>3 DEF TypeOK
  <2> QED  BY <1>3, <1>7, <2>2, <2>3, <2>4 DEF LiveTrips
<1> QED  BY <1>1, <1>2, <1>3, <1>4, <1>6, <1>7, <1>8, WriteRow

-----------------------------------------------------------------------------
(* Ready and the mill's confirmation: what is said to be ready is spent.   *)

LEMMA ReadyInv ==
  ASSUME IInv, NEW r \in Request, Ready(r)
  PROVE  IInv'
<1>1. call[r] # Idle /\ call[r].op = "ready" /\ call[r].step = 1 /\ TypeOK
  BY InFlight DEF Ready, Op, IInv
<1>2. PICK q \in Ask : call[r].on = q
  BY <1>1, CallTyped
<1>3. Made(q) /\ Vouched(q)
  BY <1>1, <1>2 DEF IInv, CallOK
<1>4. End(r) /\ UNCHANGED <<dispatch, sent, enough, receipts, crossed>>
  BY DEF Ready
<1>5. PICK row \in Row : row = [req[q] EXCEPT !.status = "READY"]
  BY <1>1, <1>3, RowExcept DEF Status
<1>6. req' = [req EXCEPT ![q] = row] /\ req'[q] = row /\ req' \in [Ask -> Row \cup {NoRow}]
  BY <1>1, <1>2, <1>5 DEF Ready, SetStatus, TypeOK
<1>7. /\ row.status = "READY" /\ row.fwd = req[q].fwd
      /\ row.mill = req[q].mill /\ row.wh = req[q].wh /\ row.by = req[q].by
      /\ row.farm = req[q].farm /\ row.src = req[q].src
  BY <1>1, <1>3, <1>5, RowTyped DEF Row
<1>8. /\ readied' \in [Ask -> Nat] /\ receipts' \in [Ask -> Nat]
      /\ readied'[q] = readied[q] + 1 /\ readied[q] \in Nat
      /\ \A p \in Ask \ {q} : readied'[p] = readied[p] /\ receipts'[p] = receipts[p]
  BY <1>1, <1>2, <1>4 DEF Ready, TypeOK
<1>9. TypeOK' /\ Claims(q)' \subseteq Claims(q)
  BY <1>1, <1>2, <1>4, <1>6, <1>8, EndAlone DEF TypeOK
<1>10. BookedOK(q)'
  <2>1. receipts'[q] = receipts[q] /\ readied'[q] >= readied[q] /\ readied'[q] >= readied[q] + 1
    BY <1>4, <1>8
  <2> QED  BY <1>1, <1>9, <2>1, BookedStep DEF IInv
<1>11. ASSUME ~crossed[q]
       PROVE  AnswerOK(q)' /\ receipts'[q] = 0
  <2>1. ReadStill(r) /\ AnswerOK(q) /\ ~Noting(q) /\ ~Noting(q)'
    BY <1>1, <1>2, <1>4, <1>11, EndAlone DEF At
  <2>2. req[q].status = "FORWARDED"
    BY <1>1, <1>2, <2>1 DEF ReadStill
  <2>3. receipts[q] = 0
    BY <1>1, <1>2, <1>4, <1>11, <2>2, EndAlone
  <2> QED  BY <1>4, <1>6, <1>7, <2>1, <2>2, <2>3 DEF AnswerOK
<1>12. ~crossed[q] => AnswerOK(q)' /\ receipts'[q] <= 1 /\ (row.status # "RECEIVED" => receipts'[q] = 0)
  BY <1>11
<1> QED  BY <1>1, <1>2, <1>3, <1>4, <1>6, <1>7, <1>8, <1>10, <1>12, EndStep

\* A confirmation that is done no longer claims its request.
LEMMA ClaimEnds ==
  ASSUME IInv, NEW r \in Request, At(r, "receive", 2), End(r), NEW q \in Ask, call[r].on = q
  PROVE  /\ IsFiniteSet(Claims(q)') /\ Cardinality(Claims(q)') = Cardinality(Claims(q)) - 1
         /\ Cardinality(Claims(q)) \in Nat
<1>1. call \in [Request -> {Idle} \cup CallType] /\ IsFiniteSet(Claims(q)) /\ r \in Claims(q)
  BY DEF IInv, TypeOK, BookedOK, Claims
<1>2. Claims(q)' = Claims(q) \ {r}
  BY <1>1 DEF Claims, At, End, Idle, Ask
<1> QED  BY <1>1, <1>2, FS_RemoveElement, FS_CardinalityType

LEMMA MakeReceiptInv ==
  ASSUME IInv, NEW r \in Request, MakeReceipt(r)
  PROVE  IInv'
<1>1. At(r, "receive", 2) /\ call[r] # Idle /\ call[r].op = "receive" /\ call[r].step = 2 /\ TypeOK
  BY InFlight DEF MakeReceipt, Op, IInv
<1>2. PICK q \in Ask : call[r].on = q
  BY <1>1, CallTyped
<1>3. Made(q) /\ Vouched(q)
  BY <1>1, <1>2 DEF IInv, CallOK
<1>4. End(r) /\ UNCHANGED <<req, dispatch, sent, enough, readied, crossed>>
  BY DEF MakeReceipt
<1>5. req[q] \in Row /\ req' = [req EXCEPT ![q] = req[q]]
  BY <1>1, <1>3, <1>4, RowTyped DEF TypeOK
<1>6. /\ readied' \in [Ask -> Nat] /\ receipts' \in [Ask -> Nat]
      /\ receipts'[q] = receipts[q] + 1 /\ receipts[q] \in Nat /\ readied[q] \in Nat
      /\ \A p \in Ask \ {q} : readied'[p] = readied[p] /\ receipts'[p] = receipts[p]
  BY <1>1, <1>2, <1>4 DEF MakeReceipt, TypeOK
<1>7. BookedOK(q)'
  <2>1. /\ IsFiniteSet(Claims(q)') /\ Cardinality(Claims(q)') = Cardinality(Claims(q)) - 1
        /\ Cardinality(Claims(q)) \in Nat
    BY <1>1, <1>2, <1>4, ClaimEnds
  <2> QED  BY <1>4, <1>6, <2>1 DEF IInv, BookedOK
<1>8. ASSUME ~crossed[q]
      PROVE  AnswerOK(q)' /\ receipts'[q] = 1 /\ req[q].status = "RECEIVED"
  <2>1. ReadStill(r) /\ AnswerOK(q) /\ ~Noting(q) /\ ~Noting(q)' /\ receipts[q] = 0
    BY <1>1, <1>2, <1>4, <1>8, EndAlone DEF At
  <2>2. req[q].status = "RECEIVED"
    BY <1>1, <1>2, <2>1 DEF ReadStill
  <2> QED  BY <1>4, <1>6, <2>1, <2>2 DEF AnswerOK
<1>9. ~crossed[q] =>
         AnswerOK(q)' /\ receipts'[q] <= 1 /\ (req[q].status # "RECEIVED" => receipts'[q] = 0)
  BY <1>8
<1> QED  BY <1>1, <1>2, <1>3, <1>4, <1>5, <1>6, <1>7, <1>9, EndStep

LEMMA TakeBackClaimInv ==
  ASSUME IInv, NEW r \in Request, TakeBackClaim(r)
  PROVE  IInv'
<1>1. At(r, "receive", 2) /\ call[r] # Idle /\ call[r].op = "receive" /\ call[r].step = 2 /\ TypeOK
  BY InFlight DEF TakeBackClaim, Op, IInv
<1>2. PICK q \in Ask : call[r].on = q
  BY <1>1, CallTyped
<1>3. Made(q) /\ Vouched(q)
  BY <1>1, <1>2 DEF IInv, CallOK
<1>4. End(r) /\ UNCHANGED <<dispatch, sent, enough, readied, receipts, crossed>>
  BY DEF TakeBackClaim, answers
<1>5. PICK row \in Row : row = [req[q] EXCEPT !.status = "READY"]
  BY <1>1, <1>3, RowExcept DEF Status
<1>6. req' = [req EXCEPT ![q] = row] /\ req'[q] = row
  BY <1>1, <1>2, <1>5 DEF TakeBackClaim, SetStatus, TypeOK
<1>7. /\ row.status = "READY" /\ row.fwd = req[q].fwd
      /\ row.mill = req[q].mill /\ row.wh = req[q].wh /\ row.by = req[q].by
      /\ row.farm = req[q].farm /\ row.src = req[q].src
  BY <1>1, <1>3, <1>5, RowTyped DEF Row
<1>8. readied' \in [Ask -> Nat] /\ receipts' \in [Ask -> Nat] /\ readied[q] \in Nat /\ receipts[q] \in Nat
  BY <1>1, <1>4 DEF TypeOK
<1>9. BookedOK(q)'
  <2>1. /\ IsFiniteSet(Claims(q)') /\ Cardinality(Claims(q)') = Cardinality(Claims(q)) - 1
        /\ Cardinality(Claims(q)) \in Nat
    BY <1>1, <1>2, <1>4, ClaimEnds
  <2> QED  BY <1>4, <1>6, <1>7, <1>8, <2>1 DEF IInv, BookedOK
<1>10. ASSUME ~crossed[q]
       PROVE  AnswerOK(q)' /\ receipts'[q] = 0
  <2>1. ReadStill(r) /\ AnswerOK(q) /\ ~Noting(q) /\ ~Noting(q)' /\ receipts[q] = 0
    BY <1>1, <1>2, <1>4, <1>10, EndAlone DEF At
  <2>2. req[q].status = "RECEIVED"
    BY <1>1, <1>2, <2>1 DEF ReadStill
  <2> QED  BY <1>4, <1>6, <1>7, <2>1, <2>2 DEF AnswerOK
<1>11. ~crossed[q] =>
         AnswerOK(q)' /\ receipts'[q] <= 1 /\ (row.status # "RECEIVED" => receipts'[q] = 0)
  BY <1>10
<1>12. \A p \in Ask \ {q} : readied'[p] = readied[p] /\ receipts'[p] = receipts[p]
  BY <1>4
<1> QED  BY <1>1, <1>2, <1>3, <1>4, <1>6, <1>7, <1>8, <1>9, <1>11, <1>12, EndStep

\* The status that said "ready" is what a claim takes.
LEMMA ClaimInv ==
  ASSUME IInv, NEW r \in Request, Claim(r)
  PROVE  IInv'
<1>1. At(r, "receive", 1) /\ call[r] # Idle /\ call[r].op = "receive" /\ call[r].step = 1 /\ TypeOK
  BY InFlight DEF Claim, Op, IInv
<1>2. PICK q \in Ask : call[r].on = q
  BY <1>1, CallTyped
<1>3. Made(q) /\ Vouched(q) /\ req[q].status = "READY"
  BY <1>1, <1>2 DEF IInv, CallOK, Claim, Claimable
<1>4. UNCHANGED <<dispatch, sent, enough, readied, receipts, crossed>>
  BY DEF Claim, answers
<1>5. PICK row \in Row : row = [req[q] EXCEPT !.status = "RECEIVED"]
  BY <1>1, <1>3, RowExcept DEF Status
<1>6. /\ req' = [req EXCEPT ![q] = row] /\ req'[q] = row /\ req' \in [Ask -> Row \cup {NoRow}]
      /\ \A p \in Ask \ {q} : req'[p] = req[p]
  BY <1>1, <1>2, <1>5 DEF Claim, SetStatus, TypeOK
<1>7. /\ row.status = "RECEIVED" /\ row.fwd = req[q].fwd
      /\ row.mill = req[q].mill /\ row.wh = req[q].wh /\ row.by = req[q].by
      /\ row.farm = req[q].farm /\ row.src = req[q].src
  BY <1>1, <1>3, <1>5, RowTyped DEF Row
<1>8. /\ call' \in [Request -> {Idle} \cup CallType]
      /\ \A s \in Request : s # r => call'[s] = call[s]
      /\ call'[r] # Idle /\ call'[r].op = "receive" /\ call'[r].step = 2 /\ call'[r].on = q
      /\ call'[r].by = call[r].by
  BY <1>1, <1>2, CallTyped, ZenonT(30) DEF TypeOK, Claim, CallType, Idle
<1>9. TypeOK' /\ Made(q)'
  BY <1>1, <1>4, <1>6, <1>7, <1>8 DEF TypeOK, Made
<1>10. Claims(q)' = Claims(q) \cup {r} /\ r \notin Claims(q)
  BY <1>1, <1>8 DEF Claims, At
<1>11. BookedOK(q)'
  <2>1. BookedOK(q)
    BY DEF IInv
  <2>2. IsFiniteSet(Claims(q)') /\ Cardinality(Claims(q)') = Cardinality(Claims(q)) + 1
        /\ Cardinality(Claims(q)) \in Nat
    BY <1>10, <2>1, FS_AddElement, FS_CardinalityType DEF BookedOK
  <2>3. readied[q] \in Nat /\ receipts[q] \in Nat
    BY <1>1 DEF TypeOK
  <2> QED  BY <1>3, <1>4, <1>6, <1>7, <2>1, <2>2, <2>3 DEF BookedOK
<1>12. VouchedOK(q)' /\ Vouched(q)'
  BY <1>3, <1>6, <1>7
     DEF VouchedOK, Vouched, PlaceOf, IsMill, ReviewerOf, SelfReview, HasRole, HoldsAny, InScope
<1>13. AloneOK(q)'
  <2>1. CASE crossed[q]
    BY <1>4, <2>1 DEF AloneOK
  <2>2. CASE ~crossed[q]
    <3>1. AloneOK(q) /\ \A s \in Request : call[s].on = q => s = r
      BY <1>2, <1>3, <2>2 DEF IInv, AloneOK
    <3>2. \A s \in Request : call'[s].on = q => s = r
      BY <1>8, <3>1
    <3>3. ~Noting(q) /\ ~Noting(q)'
      BY <1>1, <1>8, <3>1, <3>2 DEF Noting, At
    <3>4. AnswerOK(q)'
      BY <1>3, <1>4, <1>6, <1>7, <2>2, <3>1, <3>3 DEF AloneOK, AnswerOK
    <3>5. ReadStill(r)'
      BY <1>6, <1>7, <1>8 DEF ReadStill
    <3>6. receipts'[q] = 0
      BY <1>3, <1>4, <2>2, <3>1 DEF AloneOK
    <3> QED  BY <3>2, <3>4, <3>5, <3>6 DEF AloneOK
  <2> QED  BY <2>1, <2>2
<1>14. CallOK(r)'
  BY <1>8, <1>9, <1>12 DEF CallOK
<1> QED  BY <1>1, <1>2, <1>3, <1>4, <1>6, <1>7, <1>8, <1>9, <1>11, <1>12, <1>13, <1>14, OneRow

-----------------------------------------------------------------------------
(* Dispatches and transfers that answer a request. *)

LEMMA AskFarmInv ==
  ASSUME IInv, NEW r \in Request, AskFarm(r)
  PROVE  IInv'
<1>1. At(r, "assignFarm", 1) /\ call[r] # Idle /\ call[r].op = "assignFarm" /\ call[r].step = 1 /\ TypeOK
  BY InFlight DEF AskFarm, Op, IInv
<1>2. PICK q \in Ask : call[r].on = q
  BY <1>1, CallTyped
<1>3. Made(q) /\ Vouched(q)
  BY <1>1, <1>2 DEF IInv, CallOK
<1>4. UNCHANGED <<req, sent, enough, readied, receipts, crossed>>
  BY DEF AskFarm
<1>5. /\ dispatch[q] \in Seq(DispatchStage) /\ dispatch' \in [Ask -> Seq(DispatchStage)]
      /\ dispatch'[q] = Append(dispatch[q], "PREPARING")
      /\ \A p \in Ask \ {q} : dispatch'[p] = dispatch[p]
  BY <1>1, <1>2 DEF AskFarm, TypeOK, DispatchStage
<1>6. Len(dispatch[q]) \in Nat /\ Len(dispatch'[q]) = Len(dispatch[q]) + 1
  BY <1>5
<1>7. /\ call' \in [Request -> {Idle} \cup CallType]
      /\ \A s \in Request : s # r => call'[s] = call[s]
      /\ call'[r] # Idle /\ call'[r].op = "assignFarm" /\ call'[r].step = 2 /\ call'[r].on = q
      /\ call'[r].by = call[r].by /\ call'[r].ref = Len(dispatch[q]) + 1
  <2>1. PICK n \in Nat : n = Len(dispatch[q]) + 1
    BY <1>6
  <2>2. call' = [call EXCEPT ![r].step = 2, ![r].ref = n]
    BY <1>2, <1>6, <2>1 DEF AskFarm
  <2>3. call \in [Request -> {Idle} \cup CallType] /\ call[r] \in CallType
    BY <1>1, CallTyped DEF TypeOK
  <2> QED  BY <1>1, <1>2, <2>1, <2>2, <2>3 DEF CallType, Idle
<1>8. TypeOK' /\ Made(q)'
  BY <1>1, <1>3, <1>4, <1>5, <1>7 DEF TypeOK, Made
<1>9. BookedOK(q)'
  <2>1. Claims(q)' \subseteq Claims(q)
    BY <1>7 DEF Claims, At
  <2>2. readied'[q] >= readied[q] /\ receipts'[q] = receipts[q] /\ req'[q] = req[q]
    BY <1>1, <1>4 DEF TypeOK
  <2> QED  BY <1>1, <1>8, <2>1, <2>2, BookedStep DEF IInv
<1>10. VouchedOK(q)' /\ Vouched(q)'
  BY <1>3, <1>4
     DEF VouchedOK, Vouched, PlaceOf, IsMill, ReviewerOf, SelfReview, HasRole, HoldsAny, InScope
<1>11. AloneOK(q)'
  <2>1. CASE crossed[q]
    BY <1>4, <2>1 DEF AloneOK
  <2>2. CASE ~crossed[q]
    <3>1. AloneOK(q) /\ \A s \in Request : call[s].on = q => s = r
      BY <1>2, <1>3, <2>2 DEF IInv, AloneOK
    <3>2. \A s \in Request : call'[s].on = q => s = r
      BY <1>7, <3>1
    <3>3. ~Noting(q) /\ Noting(q)' /\ Claims(q)' = {}
      BY <1>1, <1>7, <3>1, <3>2 DEF Noting, At, Claims
    <3>4. ReadStill(r) /\ AnswerOK(q) /\ receipts[q] <= 1
      BY <1>2, <1>3, <2>2, <3>1 DEF AloneOK
    <3>5. req[q].status = "FORWARDED"
      BY <1>1, <1>2, <3>4 DEF ReadStill
    <3>6. AnswerOK(q)'
      BY <1>4, <1>6, <3>3, <3>4, <3>5 DEF AnswerOK
    <3>7. ReadStill(r)'
      BY <1>4, <1>6, <1>7, <3>5 DEF ReadStill
    <3>8. receipts'[q] = 0
      BY <1>3, <1>4, <2>2, <3>1, <3>5 DEF AloneOK
    <3> QED  BY <3>2, <3>6, <3>7, <3>8 DEF AloneOK
  <2> QED  BY <2>1, <2>2
<1>12. CallOK(r)'
  BY <1>7, <1>8, <1>10 DEF CallOK
<1> QED  BY <1>1, <1>2, <1>3, <1>4, <1>5, <1>7, <1>8, <1>9, <1>10, <1>11, <1>12, OneRow

LEMMA SendInv ==
  ASSUME IInv, NEW r \in Request, Send(r)
  PROVE  IInv'
<1>1. call[r] # Idle /\ call[r].op = "send" /\ call[r].step = 1 /\ TypeOK
  BY InFlight DEF Send, Op, IInv
<1>2. PICK q \in Ask : call[r].on = q
  BY <1>1, CallTyped
<1>3. Made(q) /\ Vouched(q)
  BY <1>1, <1>2 DEF IInv, CallOK
<1>4. End(r) /\ UNCHANGED <<req, dispatch, enough, readied, receipts, crossed>>
  BY DEF Send
<1>5. /\ sent[q] \in Seq({"road", "there", "back"})
      /\ sent' \in [Ask -> Seq({"road", "there", "back"})]
      /\ sent'[q] = Append(sent[q], "road") /\ Len(sent[q]) < MaxSent
      /\ \A p \in Ask \ {q} : sent'[p] = sent[p]
  BY <1>1, <1>2 DEF Send, TypeOK
<1>6. /\ Len(sent[q]) \in Nat /\ DOMAIN sent'[q] = 1 .. (Len(sent[q]) + 1)
      /\ \A i \in DOMAIN sent[q] : sent'[q][i] = sent[q][i]
      /\ DOMAIN sent[q] = 1 .. Len(sent[q])
  BY <1>5
<1>7. TypeOK' /\ Made(q)' /\ Claims(q)' \subseteq Claims(q)
  BY <1>1, <1>2, <1>3, <1>4, <1>5, EndAlone DEF TypeOK, Made
<1>8. BookedOK(q)'
  <2>1. readied'[q] >= readied[q] /\ receipts'[q] = receipts[q] /\ req'[q] = req[q]
    BY <1>1, <1>4 DEF TypeOK
  <2> QED  BY <1>1, <1>7, <2>1, BookedStep DEF IInv
<1>9. VouchedOK(q)'
  BY <1>3, <1>4
     DEF VouchedOK, Vouched, PlaceOf, IsMill, ReviewerOf, SelfReview, HasRole, HoldsAny, InScope
<1>10. AloneOK(q)'
  <2>1. CASE crossed[q]
    BY <1>4, <2>1 DEF AloneOK
  <2>2. CASE ~crossed[q]
    <3>1. /\ \A s \in Request : call'[s].on # q
          /\ ReadStill(r) /\ AnswerOK(q) /\ Claims(q)' = {} /\ receipts[q] <= 1
          /\ req[q].status # "RECEIVED" => receipts[q] = 0
      BY <1>1, <1>2, <1>4, <2>2, EndAlone
    <3>2. req[q].status = "ASSIGNED" /\ req[q].src # None /\ LiveTrips(q) = {}
      BY <1>1, <1>2, <3>1 DEF ReadStill
    <3>3. LiveTrips(q)' \subseteq {Len(sent[q]) + 1}
      BY <1>6, <3>2 DEF LiveTrips
    <3>4. Len(sent[q]) + 1 \in 0 .. MaxSent
      BY <1>5, <1>6
    <3>5. AnswerOK(q)'
      BY <1>4, <3>1, <3>2, <3>3, <3>4 DEF AnswerOK
    <3> QED  BY <1>4, <3>1, <3>2, <3>5 DEF AloneOK
  <2> QED  BY <2>1, <2>2
<1>11. \A s \in Request : call'[s] # call[s] =>
         (call[s] = Idle \/ call[s].on = q) /\ call'[s].on \in {0, q} /\ CallOK(s)'
  BY <1>1, <1>2, <1>4, EndAlone
<1> QED  BY <1>3, <1>4, <1>5, <1>7, <1>8, <1>9, <1>10, <1>11, OneRow

-----------------------------------------------------------------------------
(* A request ends, or begins. *)

\* The row of a request that ends without writing to it.
LEMMA EndSame ==
  ASSUME IInv, TypeOK', NEW r \in Request, call[r] # Idle, End(r), NEW q \in Ask, call[r].on = q,
         req'[q] = req[q], dispatch'[q] = dispatch[q], sent'[q] = sent[q],
         readied'[q] = readied[q], receipts'[q] = receipts[q],
         ~crossed'[q] => ~crossed[q] /\ call[r].step = 1
  PROVE  BookedOK(q)' /\ VouchedOK(q)' /\ AloneOK(q)' /\ Untouched(q)'
<1>1. TypeOK /\ Made(q) /\ Made(q)' /\ Claims(q)' \subseteq Claims(q)
  BY EndAlone DEF IInv, Made
<1>2. BookedOK(q)'
  <2>1. readied'[q] >= readied[q]
    BY <1>1 DEF TypeOK
  <2> QED  BY <1>1, <2>1, BookedStep DEF IInv
<1>3. VouchedOK(q)'
  <2>1. VouchedOK(q)
    BY DEF IInv
  <2> QED  BY <2>1 DEF VouchedOK, Vouched, Made, PlaceOf, IsMill, ReviewerOf, SelfReview,
                       HasRole, HoldsAny, InScope
<1>4. AloneOK(q)'
  <2>1. CASE crossed'[q]
    BY <2>1 DEF AloneOK
  <2>2. CASE ~crossed'[q]
    <3>0. ~crossed[q] /\ ~At(r, "assignFarm", 2)
      BY <2>2 DEF At
    <3>1. /\ \A s \in Request : call'[s].on # q
          /\ AnswerOK(q) /\ ~Noting(q) /\ ~Noting(q)' /\ Claims(q)' = {} /\ receipts[q] <= 1
          /\ req[q].status # "RECEIVED" => receipts[q] = 0
      BY <3>0, EndAlone
    <3>2. LiveTrips(q)' = LiveTrips(q)
      BY DEF LiveTrips
    <3>3. AnswerOK(q)'
      BY <3>1, <3>2 DEF AnswerOK
    <3> QED  BY <3>1, <3>3 DEF AloneOK
  <2> QED  BY <2>1, <2>2
<1> QED  BY <1>1, <1>2, <1>3, <1>4 DEF Untouched

LEMMA FailInv ==
  ASSUME IInv, NEW r \in Request, Fail(r)
  PROVE  IInv'
<1>1. call[r] # Idle /\ TypeOK
  BY DEF Fail, IInv
<1>2. PICK q \in Ask : call[r].on = q
  BY <1>1, CallTyped
<1>3. End(r) /\ UNCHANGED <<req, dispatch, sent, enough, readied, receipts>>
  BY DEF Fail, answers
<1>4. /\ crossed' \in [Ask -> BOOLEAN] /\ crossed'[q] = (crossed[q] \/ call[r].step = 2)
      /\ \A p \in Ask \ {q} : crossed'[p] = crossed[p]
  <2>1. crossed' = [crossed EXCEPT ![q] = crossed[q] \/ call[r].step = 2]
    BY <1>2 DEF Fail
  <2>2. crossed \in [Ask -> BOOLEAN] /\ (crossed[q] \/ call[r].step = 2) \in BOOLEAN
    BY <1>1 DEF TypeOK
  <2> QED  BY <2>1, <2>2
<1>5. TypeOK' /\ Made(q) /\ Made(q)'
  BY <1>1, <1>2, <1>3, <1>4, EndAlone DEF TypeOK, Made
<1>6. BookedOK(q)' /\ VouchedOK(q)' /\ AloneOK(q)' /\ Untouched(q)'
  BY <1>1, <1>2, <1>3, <1>4, <1>5, CallTyped, EndSame
<1>7. \A s \in Request : call'[s] # call[s] =>
         (call[s] = Idle \/ call[s].on = q) /\ call'[s].on \in {0, q} /\ CallOK(s)'
  BY <1>1, <1>2, <1>3, EndAlone
<1> QED  BY <1>3, <1>4, <1>5, <1>6, <1>7, OneRow

\* What each handler checks is what it will rely on.
LEMMA MayMeans ==
  ASSUME IInv, NEW op \in Op, NEW u \in User, NEW q \in Ask, NEW w \in Warehouse, Made(q),
         May(op, u, q, w)
  PROVE  /\ op = "forward" => MayReview(u, q) /\ req[q].status = "SUBMITTED"
         /\ op \in {"decline", "cancel"} => req[q].status \in {"SUBMITTED", "FORWARDED"}
         /\ op \in {"assignFarm", "assignTo", "ready", "askMore"} => req[q].status = "FORWARDED"
         /\ op = "askMore" => IsMill(q) /\ MaySupply(u, q)
         /\ op = "receive" => req[q].status = "READY"
         /\ op = "send" => req[q].status = "ASSIGNED" /\ req[q].src # None /\ LiveTrips(q) = {}
<1>1. op = "forward" => MayForward(u, q)
  BY Zenon DEF May
<1>2. op = "decline" => MayDecline(u, q)
  BY Zenon DEF May
<1>3. op = "assignFarm" => MayAssignFarm(u, q)
  BY Zenon DEF May
<1>4. op = "assignTo" => MayAssignTo(u, q, w)
  BY Zenon DEF May
<1>5. op = "ready" => MayReady(u, q)
  BY Zenon DEF May
<1>6. op = "askMore" => MayAskMore(u, q)
  BY Zenon DEF May
<1>7. op = "cancel" => MayCancel(u, q)
  BY Zenon DEF May
<1>8. op = "receive" => MayReceive(u, q)
  BY Zenon DEF May
<1>9. op = "send" => MaySend(u, q)
  BY Zenon DEF May
<1> QED  BY <1>1, <1>2, <1>3, <1>4, <1>5, <1>6, <1>7, <1>8, <1>9
         DEF MayForward, MayDecline, MayAssignFarm, MayAssignTo, MayAssign, MayReady, MayAskMore,
             MayAnswerMill, MayCancel, MayReceive, MaySend, Answered

LEMMA BeginInv ==
  ASSUME IInv, NEW r \in Request, NEW op \in Op, NEW u \in User, NEW q \in Ask, NEW w \in Warehouse,
         Begin(r, op, u, q, w)
  PROVE  IInv'
<1>1. TypeOK /\ Made(q) /\ Made(q)' /\ call[r] = Idle /\ May(op, u, q, w)
  BY DEF IInv, Begin, Made
<1>2. UNCHANGED <<req, dispatch, sent, enough, readied, receipts>>
  BY DEF Begin, answers
<1>3. PICK to \in Warehouse \cup {None} :
         /\ to = (IF op = "assignTo" THEN w ELSE None)
         /\ call' = [call EXCEPT ![r] = [op |-> op, by |-> u, on |-> q, step |-> 1, ref |-> 0, to |-> to]]
  BY DEF Begin
<1>4. /\ call' \in [Request -> {Idle} \cup CallType]
      /\ \A s \in Request : s # r => call'[s] = call[s]
      /\ call'[r] # Idle /\ call'[r].op = op /\ call'[r].step = 1 /\ call'[r].on = q
      /\ call'[r].by = u /\ call'[r].to = to
  BY <1>1, <1>3 DEF TypeOK, CallType, Idle
<1>5. /\ crossed' \in [Ask -> BOOLEAN]
      /\ crossed'[q] = (crossed[q] \/ \E s \in Request : call[s].on = q)
      /\ \A p \in Ask \ {q} : crossed'[p] = crossed[p]
  <2>1. PICK b \in BOOLEAN : b = (crossed[q] \/ \E s \in Request : call[s].on = q)
    BY <1>1 DEF TypeOK
  <2>2. crossed' = [crossed EXCEPT ![q] = b]
    BY <2>1 DEF Begin
  <2> QED  BY <1>1, <2>1, <2>2 DEF TypeOK
<1>6. TypeOK'
  BY <1>1, <1>2, <1>4, <1>5 DEF TypeOK
<1>7. BookedOK(q)'
  <2>1. Claims(q)' \subseteq Claims(q)
    BY <1>4 DEF Claims, At
  <2>2. readied'[q] >= readied[q] /\ receipts'[q] = receipts[q] /\ req'[q] = req[q]
    BY <1>1, <1>2 DEF TypeOK
  <2> QED  BY <1>1, <1>6, <2>1, <2>2, BookedStep DEF IInv
<1>8. VouchedOK(q)' /\ (Vouched(q)' <=> Vouched(q)) /\ VouchedOK(q)
  <2>1. VouchedOK(q)
    BY DEF IInv
  <2> QED  BY <1>2, <2>1 DEF VouchedOK, Vouched, Made, PlaceOf, IsMill, ReviewerOf, SelfReview,
                             HasRole, HoldsAny, InScope
<1>9. AloneOK(q)'
  <2>1. CASE crossed'[q]
    BY <2>1 DEF AloneOK
  <2>2. CASE ~crossed'[q]
    <3>1. ~crossed[q] /\ (\A s \in Request : call[s].on # q) /\ AloneOK(q)
      BY <1>5, <2>2 DEF IInv
    <3>2. \A s \in Request : call'[s].on = q => s = r
      BY <1>4, <3>1
    <3>3. ~Noting(q) /\ ~Noting(q)' /\ Claims(q) = {} /\ Claims(q)' = {}
      BY <1>4, <3>1, <3>2 DEF Noting, Claims, At
    <3>4. LiveTrips(q)' = LiveTrips(q)
      BY <1>2 DEF LiveTrips
    <3>5. AnswerOK(q)'
      BY <1>1, <1>2, <3>1, <3>3, <3>4 DEF AnswerOK, AloneOK
    <3>6. ReadStill(r)'
      BY <1>1, <1>2, <1>4, <3>4, MayMeans DEF ReadStill
    <3>7. receipts[q] <= 1 /\ (req[q].status # "RECEIVED" => receipts[q] = 0)
      BY <1>1, <3>1 DEF AloneOK
    <3> QED  BY <1>2, <3>2, <3>3, <3>5, <3>6, <3>7 DEF AloneOK
  <2> QED  BY <2>1, <2>2
<1>10. CallOK(r)'
  <2>1. op \in {"assignFarm", "assignTo", "ready", "askMore", "receive", "send"} => Vouched(q)'
    BY <1>1, <1>8, MayMeans DEF VouchedOK
  <2>2. op = "forward" => MayReview(u, q)'
    BY <1>1, <1>2, MayMeans DEF MayReview, HasRole, ReviewerOf
  <2>3. op = "askMore" => IsMill(q)' /\ MaySupply(u, q)'
    BY <1>1, <1>2, MayMeans DEF MaySupply, IsMill, HasRole, SupplierOf
  <2>4. op = "assignTo" => to # None
    BY <1>3
  <2> QED  BY <1>1, <1>4, <2>1, <2>2, <2>3, <2>4 DEF CallOK
<1>11. \A s \in Request : call'[s] # call[s] =>
         (call[s] = Idle \/ call[s].on = q) /\ call'[s].on \in {0, q} /\ CallOK(s)'
  BY <1>1, <1>4, <1>10
<1> QED  BY <1>1, <1>2, <1>5, <1>6, <1>7, <1>8, <1>9, <1>11, OneRow

-----------------------------------------------------------------------------
(* New requests for paddy. *)

LEMMA NewRowTyped ==
  ASSUME NEW mill \in Mill \cup {None}, NEW wh \in Warehouse, NEW u \in User,
         NEW passedOn \in BOOLEAN, NEW parent \in Nat
  PROVE  NewRow(mill, wh, u, passedOn, parent) \in Row
<1>1. CASE passedOn
  BY <1>1 DEF NewRow, Row, Status
<1>2. CASE ~passedOn
  BY <1>2 DEF NewRow, Row, Status
<1> QED  BY <1>1, <1>2

LEMMA NewRowInv ==
  ASSUME IInv, NextAsk <= N, NEW n \in Ask, n = NextAsk,
         NEW row \in Row, req' = [req EXCEPT ![n] = row],
         row.farm = 0, row.src = None, row.status \in {"SUBMITTED", "FORWARDED"},
         row.status = "FORWARDED" => Vouched(n)',
         UNCHANGED <<dispatch, sent, enough, readied, receipts, crossed>>,
         call' \in [Request -> {Idle} \cup CallType],
         \A s \in Request : call'[s] = call[s] \/ call'[s] = Idle,
         \A p \in Ask : p # n =>
            BookedOK(p)' /\ VouchedOK(p)' /\ AloneOK(p)' /\ Untouched(p)'
  PROVE  IInv'
<1>1. TypeOK /\ MadeInOrder
  BY DEF IInv
<1>2. ~Made(n) /\ \A q \in Ask : Made(q) <=> q < n
  BY <1>1, NextIsFree
<1>3. /\ req'[n] = row /\ req' \in [Ask -> Row \cup {NoRow}]
      /\ \A p \in Ask : p # n => req'[p] = req[p]
  BY <1>1, <1>2 DEF TypeOK
<1>4. TypeOK'
  BY <1>1, <1>3 DEF TypeOK
<1>5. \A p \in Ask : Made(p)' <=> p <= n
  <2>1. Made(n)'
    BY <1>3 DEF Made
  <2> QED  BY <1>2, <1>3, <2>1 DEF Made, Ask
<1>6. MadeInOrder'
  BY <1>2, <1>5 DEF MadeInOrder, Ask
<1>7. \A s \in Request : call[s].on # n /\ call'[s].on # n
  BY <1>1, <1>2, CallTyped DEF IInv, CallOK, Idle, Ask
<1>8. Claims(n) = {} /\ Claims(n)' = {} /\ ~Noting(n)'
  BY <1>7 DEF Claims, Noting
<1>9. BookedOK(n)'
  <2>1. readied'[n] >= readied[n] /\ receipts'[n] = receipts[n] /\ req'[n].status # "READY"
    BY <1>1, <1>3 DEF TypeOK
  <2>2. Claims(n)' \subseteq Claims(n)
    BY <1>8
  <2> QED  BY <1>1, <1>4, <2>1, <2>2, BookedStep DEF IInv
<1>10. VouchedOK(n)'
  BY <1>2, <1>3 DEF VouchedOK
<1>11. Untouched(n) /\ Untouched(n)'
  BY <1>5 DEF IInv, Untouched, Ask
<1>12. AnswerOK(n)'
  BY <1>2, <1>3, <1>8, <1>11 DEF AnswerOK, Untouched
<1>13. AloneOK(n)'
  BY <1>2, <1>3, <1>7, <1>8, <1>11, <1>12 DEF AloneOK, Untouched
<1>14. \A s \in Request : CallOK(s)'
  <2> TAKE s \in Request
  <2>1. CASE call'[s] = Idle
    BY <2>1 DEF CallOK
  <2>2. CASE call'[s] = call[s] /\ call[s] # Idle
    <3>1. CallOK(s) /\ call[s].on \in Ask /\ call[s].on # n
      BY <1>1, <1>7, <2>2, CallTyped DEF IInv
    <3>2. req'[call[s].on] = req[call[s].on] /\ Made(call[s].on)'
      BY <1>3, <2>2, <3>1 DEF CallOK, Made
    <3>3. Vouched(call[s].on) => req'[call[s].on] = req[call[s].on] /\ Vouched(call[s].on)
      BY <3>2
    <3> QED  BY <2>2, <3>1, <3>2
             DEF CallOK, Vouched, PlaceOf, MayReview, MaySupply, IsMill, ReviewerOf, SupplierOf,
                 SelfReview, HasRole, HoldsAny, InScope
  <2> QED  BY <2>1, <2>2
<1> QED  BY <1>2, <1>4, <1>6, <1>9, <1>10, <1>11, <1>13, <1>14 DEF IInv

LEMMA CreateInv ==
  ASSUME IInv, NEW u \in User, NEW mill \in Mill \cup {None}, NEW wh \in Warehouse,
         Create(u, mill, wh)
  PROVE  IInv'
<1>1. TypeOK /\ NextAsk <= N /\ MadeInOrder
  BY DEF IInv, Create
<1>2. PICK n \in Ask : n = NextAsk /\ ~Made(n)
  BY <1>1, NextIsFree
<1>3. UNCHANGED <<dispatch, sent, enough, readied, receipts, crossed, call>>
  BY DEF Create, answers
<1>4. PICK row \in Row : row = NewRow(mill, wh, u, SelfReview(u), 0)
  <2>1. SelfReview(u) \in BOOLEAN
    BY DEF SelfReview, HoldsAny
  <2> QED  BY <2>1, NewRowTyped
<1>5. req' = [req EXCEPT ![n] = row] /\ req'[n] = row /\ \A p \in Ask : p # n => req'[p] = req[p]
  BY <1>1, <1>2, <1>4 DEF Create, TypeOK
<1>6. /\ row.farm = 0 /\ row.src = None /\ row.status \in {"SUBMITTED", "FORWARDED"}
      /\ row.status = "FORWARDED" <=> SelfReview(u)
      /\ SelfReview(u) => row.fwd = u
      /\ row.by = u /\ row.mill = mill /\ row.wh = wh
  BY <1>4, Zenon DEF NewRow
<1>7. row.status = "FORWARDED" => Vouched(n)'
  <2>1. InScope(u, IF mill = None THEN wh ELSE mill)
    BY DEF Create
  <2>2. u # None
    OBVIOUS
  <2> QED  BY <1>5, <1>6, <2>1, <2>2 DEF Vouched, PlaceOf, IsMill, SelfReview, HoldsAny, InScope
<1>8. call' \in [Request -> {Idle} \cup CallType]
  BY <1>1, <1>3 DEF TypeOK
<1>9. TypeOK'
  BY <1>1, <1>3, <1>5, <1>8 DEF TypeOK
<1>10. \A p \in Ask : p # n => BookedOK(p)' /\ VouchedOK(p)' /\ AloneOK(p)' /\ Untouched(p)'
  BY <1>1, <1>3, <1>5, <1>9, SameRow DEF IInv
<1> QED  BY <1>1, <1>2, <1>3, <1>5, <1>6, <1>7, <1>8, <1>10, NewRowInv

LEMMA AskMoreInv ==
  ASSUME IInv, NEW r \in Request, AskMore(r)
  PROVE  IInv'
<1>1. /\ call[r] # Idle /\ call[r].op = "askMore" /\ call[r].step = 1
      /\ TypeOK /\ NextAsk <= N /\ MadeInOrder
  BY InFlight DEF AskMore, Op, IInv
<1>2. PICK q \in Ask : call[r].on = q
  BY <1>1, CallTyped
<1>3. /\ Made(q) /\ IsMill(q) /\ call[r].by \in User /\ MaySupply(call[r].by, q)
      /\ req[q].wh \in Warehouse
  BY <1>1, <1>2, CallTyped, RowTyped DEF IInv, CallOK
<1>4. PICK n \in Ask : n = NextAsk /\ ~Made(n)
  BY <1>1, NextIsFree
<1>5. End(r) /\ UNCHANGED <<dispatch, sent, enough, readied, receipts, crossed>>
  BY DEF AskMore, answers
<1>6. PICK row \in Row : row = NewRow(None, req[q].wh, call[r].by, TRUE, q)
  <2>1. q \in Nat /\ call[r].by \in User /\ req[q].wh \in Warehouse
    BY <1>3 DEF Ask
  <2>2. \A passedOn \in BOOLEAN : NewRow(None, req[q].wh, call[r].by, passedOn, q) \in Row
    BY <2>1, NewRowTyped
  <2> QED  BY <2>2
<1>7. req' = [req EXCEPT ![n] = row] /\ req'[n] = row /\ \A p \in Ask : p # n => req'[p] = req[p]
  BY <1>1, <1>2, <1>4, <1>6 DEF AskMore, TypeOK
<1>8. /\ row.farm = 0 /\ row.src = None /\ row.status = "FORWARDED" /\ row.fwd = call[r].by
      /\ row.mill = None
  BY <1>6 DEF NewRow
<1>9. Vouched(n)'
  BY <1>3, <1>7, <1>8 DEF Vouched, MaySupply, IsMill, SupplierOf, ReviewerOf, HasRole
<1>10. /\ call' \in [Request -> {Idle} \cup CallType]
       /\ \A s \in Request : call'[s] = IF s = r THEN Idle ELSE call[s]
  BY <1>1, <1>5 DEF TypeOK, End
<1>11. TypeOK'
  BY <1>1, <1>5, <1>7, <1>10 DEF TypeOK
<1>12. \A p \in Ask : p # n => BookedOK(p)' /\ VouchedOK(p)' /\ AloneOK(p)' /\ Untouched(p)'
  <2> TAKE p \in Ask
  <2> HAVE p # n
  <2>1. CASE p = q
    BY <1>1, <1>2, <1>5, <1>7, <1>11, <2>1, EndSame
  <2>2. CASE p # q
    <3>1. \A s \in Request : /\ call'[s].on = p <=> call[s].on = p
                             /\ call[s].on = p => call'[s] = call[s]
      BY <1>2, <1>10, <2>2 DEF Idle, Ask
    <3> QED  BY <1>1, <1>5, <1>7, <1>11, <3>1, SameRow DEF IInv
  <2> QED  BY <2>1, <2>2
<1>13. \A s \in Request : call'[s] = call[s] \/ call'[s] = Idle
  BY <1>10
<1> QED  BY <1>1, <1>4, <1>5, <1>7, <1>8, <1>9, <1>10, <1>12, <1>13, NewRowInv

-----------------------------------------------------------------------------
(* What happens elsewhere. *)

LEMMA DispatchMovesInv ==
  ASSUME IInv, NEW q \in Ask, NEW i \in 1 .. MaxSent, NEW to \in DispatchStage,
         DispatchMoves(q, i, to)
  PROVE  IInv'
<1>1. TypeOK /\ dispatch[q] \in Seq(DispatchStage) /\ i \in DOMAIN dispatch[q]
  BY DEF IInv, TypeOK, DispatchMoves
<1>2. UNCHANGED <<req, sent, enough, readied, receipts, call, crossed>>
  BY DEF DispatchMoves
<1>3. /\ dispatch' \in [Ask -> Seq(DispatchStage)] /\ Len(dispatch'[q]) = Len(dispatch[q])
      /\ \A p \in Ask \ {q} : dispatch'[p] = dispatch[p]
  <2>1. dispatch' = [dispatch EXCEPT ![q] = [dispatch[q] EXCEPT ![i] = to]]
    BY DEF DispatchMoves
  <2>2. PICK moved \in Seq(DispatchStage) :
           moved = [dispatch[q] EXCEPT ![i] = to] /\ Len(moved) = Len(dispatch[q])
    <3>1. i \in 1 .. Len(dispatch[q])
      BY <1>1, LenProperties
    <3>2. /\ [dispatch[q] EXCEPT ![i] = to] \in Seq(DispatchStage)
          /\ Len([dispatch[q] EXCEPT ![i] = to]) = Len(dispatch[q])
      BY <1>1, <3>1, ExceptSeq
    <3> QED  BY <3>2
  <2> QED  BY <1>1, <2>1, <2>2 DEF TypeOK
<1>4. Made(q) /\ Made(q)'
  BY <1>1, <1>2 DEF IInv, Untouched, Made
<1>5. TypeOK'
  BY <1>1, <1>2, <1>3 DEF TypeOK
<1>6. Claims(q)' = Claims(q) /\ (Noting(q)' <=> Noting(q)) /\ LiveTrips(q)' = LiveTrips(q)
  BY <1>2 DEF Claims, Noting, At, LiveTrips
<1>7. BookedOK(q)' /\ VouchedOK(q)'
  <2>1. BookedOK(q) /\ VouchedOK(q)
    BY DEF IInv
  <2> QED  BY <1>2, <1>6, <2>1 DEF BookedOK, VouchedOK, Vouched, Made, PlaceOf, IsMill, ReviewerOf,
                                   SelfReview, HasRole, HoldsAny, InScope
<1>8. AloneOK(q)'
  <2>1. \A s \in Request : call[s].on = q => (ReadStill(s)' <=> ReadStill(s))
    BY <1>2, <1>6 DEF ReadStill
  <2>2. AnswerOK(q)' <=> AnswerOK(q)
    BY <1>2, <1>3, <1>6 DEF AnswerOK
  <2>3. AloneOK(q)
    BY DEF IInv
  <2> QED  BY <1>2, <1>4, <1>6, <2>1, <2>2, <2>3 DEF AloneOK
<1> QED  BY <1>2, <1>3, <1>4, <1>5, <1>7, <1>8, OneRow

LEMMA TripEndsInv ==
  ASSUME IInv, NEW q \in Ask, NEW i \in 1 .. MaxSent, NEW at \in {"there", "back"},
         TripEnds(q, i, at)
  PROVE  IInv'
<1>1. TypeOK /\ sent[q] \in Seq({"road", "there", "back"}) /\ i \in DOMAIN sent[q]
      /\ sent[q][i] = "road"
  BY DEF IInv, TypeOK, TripEnds
<1>2. UNCHANGED <<req, dispatch, enough, readied, receipts, call, crossed>>
  BY DEF TripEnds
<1>3. PICK ended \in Seq({"road", "there", "back"}) :
         ended = [sent[q] EXCEPT ![i] = at] /\ Len(ended) = Len(sent[q])
  <2>1. i \in 1 .. Len(sent[q]) /\ at \in {"road", "there", "back"}
    BY <1>1, LenProperties
  <2>2. /\ [sent[q] EXCEPT ![i] = at] \in Seq({"road", "there", "back"})
        /\ Len([sent[q] EXCEPT ![i] = at]) = Len(sent[q])
    BY <1>1, <2>1, ExceptSeq
  <2> QED  BY <2>2
<1>4. /\ sent' \in [Ask -> Seq({"road", "there", "back"})] /\ sent'[q] = ended
      /\ \A p \in Ask \ {q} : sent'[p] = sent[p]
  BY <1>1, <1>3 DEF TripEnds, TypeOK
<1>5. Made(q) /\ Made(q)'
  BY <1>1, <1>2 DEF IInv, Untouched, Made
<1>6. TypeOK'
  BY <1>1, <1>2, <1>4 DEF TypeOK
<1>7. LiveTrips(q)' \subseteq LiveTrips(q)
  BY <1>1, <1>3, <1>4 DEF LiveTrips
<1>8. Claims(q)' = Claims(q) /\ (Noting(q)' <=> Noting(q))
  BY <1>2 DEF Claims, Noting, At
<1>9. BookedOK(q)' /\ VouchedOK(q)'
  <2>1. BookedOK(q) /\ VouchedOK(q)
    BY DEF IInv
  <2> QED  BY <1>2, <1>8, <2>1 DEF BookedOK, VouchedOK, Vouched, Made, PlaceOf, IsMill, ReviewerOf,
                                   SelfReview, HasRole, HoldsAny, InScope
<1>10. AloneOK(q)'
  <2>1. \A s \in Request : call[s].on = q => (ReadStill(s) => ReadStill(s)')
    BY <1>2, <1>7 DEF ReadStill
  <2>2. AnswerOK(q) => AnswerOK(q)'
    BY <1>2, <1>3, <1>4, <1>7, <1>8 DEF AnswerOK
  <2>3. AloneOK(q)
    BY DEF IInv
  <2> QED  BY <1>2, <1>5, <1>8, <2>1, <2>2, <2>3 DEF AloneOK
<1> QED  BY <1>2, <1>4, <1>5, <1>6, <1>9, <1>10, OneRow

LEMMA StockChangesInv ==
  ASSUME IInv, NEW w \in DrawnFrom, StockChanges(w)
  PROVE  IInv'
<1>1. TypeOK /\ UNCHANGED <<req, dispatch, sent, readied, receipts, call, crossed>>
  BY DEF IInv, StockChanges
<1>2. TypeOK'
  BY <1>1 DEF TypeOK, StockChanges
<1>3. \A q \in Ask : BookedOK(q)' /\ VouchedOK(q)' /\ AloneOK(q)' /\ Untouched(q)'
  BY <1>1, <1>2, SameRow DEF IInv
<1>4. \A s \in Request : CallOK(s)'
  BY <1>1 DEF IInv, CallOK, Made, Vouched, PlaceOf, MayReview, MaySupply, IsMill, ReviewerOf,
              SupplierOf, SelfReview, HasRole, HoldsAny, InScope
<1>5. MadeInOrder'
  BY <1>1 DEF IInv, MadeInOrder, Made
<1> QED  BY <1>2, <1>3, <1>4, <1>5 DEF IInv

-----------------------------------------------------------------------------
(* The theorems. *)

LEMMA AtMostOne ==
  ASSUME NEW S
  PROVE  /\ S = {} => Cardinality(S) = 0
         /\ \A i : S \subseteq {i} => Cardinality(S) \in {0, 1}
<1>1. Cardinality({}) = 0 /\ \A i : Cardinality({i}) = 1
  BY FS_EmptySet, FS_Singleton, Zenon
<1>2. \A i : S \subseteq {i} => S = {} \/ S = {i}
  OBVIOUS
<1>3. S = {} => Cardinality(S) = 0
  BY <1>1, Zenon
<1>4. \A i : S = {i} => Cardinality(S) = 1
  BY <1>1, Zenon
<1> QED  BY <1>2, <1>3, <1>4

LEMMA InitInv == Init => IInv
<1> SUFFICES ASSUME Init PROVE IInv
  OBVIOUS
<1>1. TypeOK
  BY DEF Init, TypeOK
<1>2. MadeInOrder
  <2>1. \A q \in Ask : Made(q) <=> q <= 0
    BY DEF Init, Made, NoRow, Ask
  <2>2. 0 \in 0 .. N
    OBVIOUS
  <2> QED  BY <2>1, <2>2 DEF MadeInOrder
<1>3. ASSUME NEW q \in Ask
      PROVE  BookedOK(q) /\ VouchedOK(q) /\ AloneOK(q) /\ Untouched(q)
  <2>1. ~Made(q) /\ req[q].status # "READY" /\ receipts[q] = 0 /\ readied[q] = 0
    BY <1>3 DEF Init, Made, NoRow
  <2>2. Claims(q) = {}
    BY <1>3 DEF Init, Claims, Idle, Ask
  <2>3. BookedOK(q)
    BY <2>1, <2>2, FS_EmptySet DEF BookedOK
  <2>4. Len(dispatch[q]) = 0 /\ Len(sent[q]) = 0
    BY <1>3 DEF Init
  <2> QED  BY <2>1, <2>3, <2>4 DEF VouchedOK, AloneOK, Untouched
<1>4. \A r \in Request : CallOK(r)
  BY DEF Init, CallOK
<1> QED  BY <1>1, <1>2, <1>3, <1>4 DEF IInv

LEMMA StepInv == IInv /\ [Next]_vars => IInv'
<1> SUFFICES ASSUME IInv, [Next]_vars PROVE IInv'
  OBVIOUS
<1>1. ASSUME NEW u \in User, NEW mill \in Mill \cup {None}, NEW wh \in Warehouse, Create(u, mill, wh)
      PROVE  IInv'
  BY <1>1, CreateInv
<1>2. ASSUME NEW r \in Request,
             NEW op \in Op, NEW u \in User, NEW q \in Ask, NEW w \in Warehouse, Begin(r, op, u, q, w)
      PROVE  IInv'
  BY <1>2, BeginInv
<1>3. ASSUME NEW r \in Request,
             Forward(r) \/ DeclineOrCancel(r) \/ AskFarm(r) \/ NoteFarm(r) \/ AssignTo(r)
      PROVE  IInv'
  BY <1>3, ForwardInv, DeclineOrCancelInv, AskFarmInv, NoteFarmInv, AssignToInv
<1>4. ASSUME NEW r \in Request,
             \/ Ready(r) \/ AskMore(r) \/ Claim(r) \/ MakeReceipt(r) \/ TakeBackClaim(r)
             \/ Send(r) \/ Fail(r)
      PROVE  IInv'
  BY <1>4, ReadyInv, AskMoreInv, ClaimInv, MakeReceiptInv, TakeBackClaimInv, SendInv, FailInv
<1>5. ASSUME NEW q \in Ask, NEW i \in 1 .. MaxSent,
             \/ \E to \in DispatchStage : DispatchMoves(q, i, to)
             \/ \E at \in {"there", "back"} : TripEnds(q, i, at)
      PROVE  IInv'
  BY <1>5, DispatchMovesInv, TripEndsInv
<1>6. ASSUME NEW w \in DrawnFrom, StockChanges(w)
      PROVE  IInv'
  BY <1>6, StockChangesInv
<1>7. CASE UNCHANGED vars
  <2>1. UNCHANGED <<req, dispatch, sent, enough, readied, receipts, call, crossed>>
    BY <1>7 DEF vars
  <2>2. TypeOK /\ TypeOK'
    BY <2>1 DEF IInv, TypeOK
  <2>3. \A q \in Ask : BookedOK(q)' /\ VouchedOK(q)' /\ AloneOK(q)' /\ Untouched(q)'
    BY <2>1, <2>2, SameRow DEF IInv
  <2>4. \A s \in Request : CallOK(s)'
    BY <2>1 DEF IInv, CallOK, Made, Vouched, PlaceOf, MayReview, MaySupply, IsMill, ReviewerOf,
                SupplierOf, SelfReview, HasRole, HoldsAny, InScope
  <2>5. MadeInOrder'
    BY <2>1 DEF IInv, MadeInOrder, Made
  <2> QED  BY <2>2, <2>3, <2>4, <2>5 DEF IInv
<1> QED  BY <1>1, <1>2, <1>3, <1>4, <1>5, <1>6, <1>7 DEF Next

\* The inductive invariant: rows are made in order, each "ready" is spent
\* once, whoever sent a request on reviews such requests, and as long as
\* nothing crossed, what a request in flight has read is still so.
THEOREM SupplyInductive == Spec => []IInv
BY InitInv, StepInv, PTL DEF Spec

\* receivedAtMill claims, books and, when that fails, takes its claim back in
\* separate statements: however these race with each other and with ready,
\* the mill never books more often than the supervisor said "ready".
THEOREM BookedWhenReady == Spec => []MillBooksWhatWasReady
<1>1. IInv => MillBooksWhatWasReady
  <2> SUFFICES ASSUME IInv, NEW q \in Ask PROVE receipts[q] <= readied[q]
    BY DEF MillBooksWhatWasReady
  <2>1. Cardinality(Claims(q)) \in Nat /\ receipts[q] \in Nat /\ readied[q] \in Nat /\ BookedOK(q)
    BY FS_CardinalityType DEF IInv, TypeOK, BookedOK
  <2> QED  BY <2>1 DEF BookedOK
<1> QED  BY <1>1, SupplyInductive, PTL

\* A sum of two counts of which one is zero.
LEMMA OneOfTwo ==
  ASSUME NEW a, NEW b, a \in {0, 1}, b \in {0, 1}, a = 0 \/ b = 0
  PROVE  a + b <= 1 /\ (a = 0 /\ b = 0 => a + b = 0)
OBVIOUS

\* assign and send check that a request is not answered yet before they
\* write: while one HTTP request at a time is about it, and none dies halfway,
\* it has one dispatch or one transfer, and none before it is assigned.
THEOREM OneAnswer == Spec => []AnsweredOnce
<1>1. IInv => AnsweredOnce
  <2> SUFFICES ASSUME IInv, NEW q \in Ask, Made(q), ~crossed[q]
               PROVE  /\ receipts[q] <= 1
                      /\ Len(dispatch[q]) + Cardinality(LiveTrips(q)) <= 1
                      /\ req[q].status = "ASSIGNED" => (req[q].farm > 0) # (req[q].src # None)
                      /\ req[q].status # "ASSIGNED" /\ (\A r \in Request : call[r].on # q)
                            => Len(dispatch[q]) + Len(sent[q]) = 0
    BY DEF AnsweredOnce
  <2>1. AloneOK(q) /\ AnswerOK(q) /\ receipts[q] <= 1
    BY DEF IInv, AloneOK
  <2>2. sent[q] \in Seq({"road", "there", "back"}) /\ dispatch[q] \in Seq(DispatchStage)
    BY DEF IInv, TypeOK
  <2>3. Len(sent[q]) = 0 => LiveTrips(q) = {}
    BY <2>2, LenProperties DEF LiveTrips
  <2>4. Len(dispatch[q]) + Cardinality(LiveTrips(q)) <= 1
    <3>1. CASE Len(sent[q]) = 0 /\ Len(dispatch[q]) \in {0, 1}
      <4>1. Cardinality(LiveTrips(q)) = 0
        BY <2>3, <3>1, AtMostOne
      <4> QED  BY <3>1, <4>1, OneOfTwo
    <3>2. CASE Len(dispatch[q]) = 0 /\ \E i \in 0 .. MaxSent : LiveTrips(q) \subseteq {i}
      <4>1. Cardinality(LiveTrips(q)) \in {0, 1}
        BY <3>2, AtMostOne
      <4> QED  BY <3>2, <4>1, OneOfTwo
    <3> QED  BY <2>1, <3>1, <3>2 DEF AnswerOK
  <2>5. (\A r \in Request : call[r].on # q) => ~Noting(q)
    BY DEF Noting
  <2>6. req[q].status = "ASSIGNED" => (req[q].farm > 0) # (req[q].src # None)
    BY <2>1 DEF AnswerOK
  <2>7. req[q].status # "ASSIGNED" /\ (\A r \in Request : call[r].on # q)
           => Len(dispatch[q]) + Len(sent[q]) = 0
    <3> SUFFICES ASSUME req[q].status # "ASSIGNED", \A r \in Request : call[r].on # q
                 PROVE  Len(dispatch[q]) + Len(sent[q]) = 0
      OBVIOUS
    <3>1. Len(dispatch[q]) = 0
      BY <2>1, <2>5 DEF AnswerOK
    <3>2. Len(sent[q]) = 0
      BY <2>1 DEF AnswerOK
    <3> QED  BY <3>1, <3>2, OneOfTwo
  <2> QED  BY <2>1, <2>4, <2>6, <2>7
<1> QED  BY <1>1, SupplyInductive, PTL

\* Whoever may send requests on, at a place of theirs, is the reviewer there.
ReviewersScoped ==
  \A u \in User : HoldsAny(u, {"supply.forward"}) =>
      /\ \A w \in Warehouse : InScope(u, w) => HasRole(u, {"WAREHOUSE_SUPERVISOR"})
      /\ \A m \in Mill : InScope(u, m) => HasRole(u, {"OPERATIONS_MANAGER"})

\* No request reaches a supplier, is assigned, ready or received, unless its
\* own kind of reviewer sent it on: also where the asker's own request, or a
\* supervisor's for more, skips the review, and whatever races.
THEOREM SentOnByReviewers ==
  ASSUME ReviewersScoped
  PROVE  Spec => []ReviewedFirst
<1>1. IInv => ReviewedFirst
  <2> SUFFICES ASSUME IInv, NEW q \in Ask, Made(q),
                      req[q].status \in {"FORWARDED", "ASSIGNED", "READY", "RECEIVED"}
               PROVE  req[q].fwd # None /\ HasRole(req[q].fwd, {ReviewerOf(req[q].mill)})
    BY DEF ReviewedFirst
  <2>1. Vouched(q)
    BY DEF IInv, VouchedOK
  <2>2. /\ req[q].by \in User /\ req[q].wh \in Warehouse
        /\ IsMill(q) => req[q].mill \in Mill
    BY RowTyped DEF IInv, IsMill
  <2>3. CASE HasRole(req[q].fwd, {ReviewerOf(req[q].mill)})
    BY <2>1, <2>3 DEF Vouched
  <2>4. CASE req[q].fwd = req[q].by /\ SelfReview(req[q].by) /\ InScope(req[q].by, PlaceOf(q))
    BY <2>1, <2>2, <2>4 DEF Vouched, SelfReview, ReviewersScoped, PlaceOf, IsMill, ReviewerOf
  <2> QED  BY <2>1, <2>3, <2>4 DEF Vouched
<1> QED  BY <1>1, SupplyInductive, PTL

-----------------------------------------------------------------------------
(* The board: what every request keeps from its making.                    *)

\* What any handler leaves of a row that is there.
Stays(q) ==
  /\ req'[q].status # "NONE"
  /\ req'[q].mill = req[q].mill /\ req'[q].wh = req[q].wh /\ req'[q].by = req[q].by
  /\ req'[q].src = req[q].src \/ (~IsMill(q) /\ req'[q].status # "SUBMITTED")
  /\ req'[q].status = req[q].status \/ req'[q].status # "SUBMITTED"

LEMMA StaysAsked ==
  ASSUME NEW q \in Ask, Asked(q), Made(q), Stays(q)
  PROVE  Asked(q)' /\ (IsMill(q)' <=> IsMill(q))
BY DEF Asked, Stays, Made, IsMill, HoldsAny, InScope, SelfReview

\* Rows that stay, and requests in flight that stay or end, or are another
\* that only asks a warehouse to send to a warehouse.
LEMMA AskedStays ==
  ASSUME IInv, AskedInv,
         \A q \in Ask : Made(q) => Stays(q),
         \A q \in Ask : ~Made(q) => Asked(q)',
         \A r \in Request : \/ call'[r] = Idle
                            \/ call[r] # Idle /\ call'[r].op = call[r].op /\ call'[r].on = call[r].on
                            \/ /\ call'[r].on \in Ask /\ Made(call'[r].on)
                               /\ call'[r].op = "assignTo" => ~IsMill(call'[r].on)
  PROVE  AskedInv'
<1>1. \A q \in Ask : Asked(q)' /\ (Made(q) => (IsMill(q)' <=> IsMill(q)))
  BY StaysAsked DEF AskedInv
<1>2. ASSUME NEW r \in Request PROVE SendsToWarehouse(r)'
  <2>1. CASE call'[r] = Idle
    BY <2>1 DEF SendsToWarehouse, Idle
  <2>2. CASE call[r] # Idle /\ call'[r].op = call[r].op /\ call'[r].on = call[r].on
    <3>1. PICK q \in Ask : q = call[r].on /\ Made(q) /\ SendsToWarehouse(r)
      BY <2>2, CallTyped DEF IInv, CallOK, AskedInv
    <3>2. IsMill(q)' <=> IsMill(q)
      BY <1>1, <3>1
    <3> QED  BY <2>2, <3>1, <3>2 DEF SendsToWarehouse, IsMill
  <2>3. CASE /\ call'[r].on \in Ask /\ Made(call'[r].on)
             /\ call'[r].op = "assignTo" => ~IsMill(call'[r].on)
    <3>1. PICK q \in Ask : q = call'[r].on
      BY <2>3
    <3>2. IsMill(q)' <=> IsMill(q)
      BY <1>1, <2>3, <3>1
    <3> QED  BY <2>3, <3>1, <3>2 DEF SendsToWarehouse, IsMill
  <2> QED  BY <2>1, <2>2, <2>3
<1> QED  BY <1>1, <1>2 DEF AskedInv

\* A handler whose row is there and may only go on from where it is.
LEMMA WriteAsked ==
  ASSUME IInv, AskedInv, NEW r \in Request, call[r] # Idle,
         req' = req \/ \E row : req' = [req EXCEPT ![call[r].on] = row],
         \A q \in Ask : q = call[r].on => Stays(q),
         \A s \in Request : \/ call'[s] = Idle
                            \/ call'[s].op = call[s].op /\ call'[s].on = call[s].on /\ call[s] # Idle
  PROVE  AskedInv'
<1>1. PICK q \in Ask : q = call[r].on /\ Made(q) /\ Stays(q)
  BY CallTyped DEF IInv, CallOK
<1>2. \A p \in Ask \ {q} : req'[p] = req[p]
  BY <1>1 DEF IInv, TypeOK
<1>3. \A p \in Ask : Made(p) => Stays(p)
  BY <1>1, <1>2 DEF Stays, Made
<1>4. \A p \in Ask : ~Made(p) => Asked(p)'
  BY <1>1, <1>2 DEF Asked, Made
<1> QED  BY <1>3, <1>4, AskedStays

LEMMA OtherCalls ==
  ASSUME TypeOK, NEW r \in Request, call[r] # Idle,
         \/ End(r)
         \/ \E step, ref : call' = [call EXCEPT ![r].step = step, ![r].ref = ref]
         \/ \E step : call' = [call EXCEPT ![r].step = step]
  PROVE  \A s \in Request : \/ call'[s] = Idle
                            \/ call'[s].op = call[s].op /\ call'[s].on = call[s].on /\ call[s] # Idle
<1> SUFFICES ASSUME NEW s \in Request, call'[s] # Idle
             PROVE  call'[s].op = call[s].op /\ call'[s].on = call[s].on /\ call[s] # Idle
  OBVIOUS
<1>1. CASE s # r
  BY <1>1 DEF TypeOK, End
<1>2. CASE s = r
  <2>1. call[r] \in CallType /\ call \in [Request -> {Idle} \cup CallType]
    BY CallTyped DEF TypeOK
  <2>2. ~End(r)
    BY <1>2, <2>1 DEF End
  <2>3. ASSUME NEW step, NEW ref, call' = [call EXCEPT ![r].step = step, ![r].ref = ref]
        PROVE  call'[r].op = call[r].op /\ call'[r].on = call[r].on
    <3>1. call'[r] = [call[r] EXCEPT !.step = step, !.ref = ref]
      BY <2>1, <2>3
    <3> QED  BY <2>1, <3>1 DEF CallType
  <2>4. ASSUME NEW step, call' = [call EXCEPT ![r].step = step]
        PROVE  call'[r].op = call[r].op /\ call'[r].on = call[r].on
    <3>1. call'[r] = [call[r] EXCEPT !.step = step]
      BY <2>1, <2>4
    <3> QED  BY <2>1, <3>1 DEF CallType
  <2> QED  BY <1>2, <2>2, <2>3, <2>4
<1> QED  BY <1>1, <1>2

\* The handlers that write the row, and those that write elsewhere.
LEMMA HandlerAsked ==
  ASSUME IInv, AskedInv, NEW r \in Request,
         \/ Forward(r) \/ DeclineOrCancel(r) \/ AskFarm(r) \/ NoteFarm(r) \/ AssignTo(r)
         \/ Ready(r) \/ Claim(r) \/ MakeReceipt(r) \/ TakeBackClaim(r) \/ Send(r) \/ Fail(r)
  PROVE  AskedInv'
<1>1. call[r] # Idle
  BY InFlight DEF Forward, DeclineOrCancel, AskFarm, NoteFarm, AssignTo, Ready, Claim, MakeReceipt,
                  TakeBackClaim, Send, Fail, Op
<1>2. PICK q \in Ask : q = call[r].on /\ Made(q) /\ req[q] \in Row
  BY <1>1, CallTyped, RowTyped DEF IInv, CallOK
<1>3. req \in [Ask -> Row \cup {NoRow}] /\ TypeOK
  BY DEF IInv, TypeOK
<1>4. \A s \in Request : \/ call'[s] = Idle
                         \/ call'[s].op = call[s].op /\ call'[s].on = call[s].on /\ call[s] # Idle
  BY <1>1, <1>3, OtherCalls
     DEF Forward, DeclineOrCancel, AskFarm, NoteFarm, AssignTo, Ready, Claim, MakeReceipt,
         TakeBackClaim, Send, Fail
<1>5. CASE req' = req
  <2>1. Stays(q)
    BY <1>2, <1>5 DEF Stays, Made
  <2> QED  BY <1>1, <1>2, <1>4, <1>5, <2>1, WriteAsked
<1>6. CASE Forward(r)
  <2>1. req' = [req EXCEPT ![q] = [req[q] EXCEPT !.status = "FORWARDED", !.fwd = call[r].by]]
    BY <1>2, <1>3, <1>6 DEF Forward
  <2>2. Stays(q)
    BY <1>2, <1>3, <2>1 DEF Stays, Row
  <2> QED  BY <1>1, <1>2, <1>4, <2>1, <2>2, WriteAsked
<1>7. CASE NoteFarm(r)
  <2>1. req' = [req EXCEPT ![q] = [req[q] EXCEPT !.status = "ASSIGNED", !.farm = call[r].ref]]
    BY <1>2, <1>3, <1>7 DEF NoteFarm
  <2>2. Stays(q)
    BY <1>2, <1>3, <2>1 DEF Stays, Row
  <2> QED  BY <1>1, <1>2, <1>4, <2>1, <2>2, WriteAsked
<1>8. CASE AssignTo(r)
  <2>1. req' = [req EXCEPT ![q] = [req[q] EXCEPT !.status = "ASSIGNED", !.src = call[r].to]]
    BY <1>2, <1>3, <1>8 DEF AssignTo
  <2>2. ~IsMill(q)
    BY <1>2, <1>8 DEF AssignTo, At, AskedInv, SendsToWarehouse
  <2>3. Stays(q)
    BY <1>2, <1>3, <2>1, <2>2 DEF Stays, Row
  <2> QED  BY <1>1, <1>2, <1>4, <2>1, <2>3, WriteAsked
<1>9. CASE DeclineOrCancel(r) \/ Ready(r) \/ Claim(r) \/ TakeBackClaim(r)
  <2>1. PICK status \in {"DECLINED", "CANCELLED", "READY", "RECEIVED"} :
           req' = [req EXCEPT ![q] = [req[q] EXCEPT !.status = status]]
    BY <1>2, <1>3, <1>9 DEF DeclineOrCancel, Ready, Claim, TakeBackClaim, SetStatus
  <2>2. Stays(q)
    BY <1>2, <1>3, <2>1 DEF Stays, Row
  <2> QED  BY <1>1, <1>2, <1>4, <2>1, <2>2, WriteAsked
<1>10. AskFarm(r) \/ MakeReceipt(r) \/ Send(r) \/ Fail(r) => req' = req
  BY DEF AskFarm, MakeReceipt, Send, Fail
<1> QED  BY <1>5, <1>6, <1>7, <1>8, <1>9, <1>10

\* A handler begins.
LEMMA BeginAsked ==
  ASSUME IInv, AskedInv, NEW r \in Request, NEW op \in Op, NEW u \in User, NEW q \in Ask,
         NEW w \in Warehouse, Begin(r, op, u, q, w)
  PROVE  AskedInv'
<1>1. Made(q) /\ call[r] = Idle /\ May(op, u, q, w) /\ req' = req
  BY DEF Begin
<1>2. op = "assignTo" => ~IsMill(q)
  <2>1. op = "assignTo" => MayAssignTo(u, q, w)
    BY <1>1, Zenon DEF May
  <2> QED  BY <2>1 DEF MayAssignTo, MayAssign
<1>3. call \in [Request -> {Idle} \cup CallType]
  BY DEF IInv, TypeOK
<1>4. \A s \in Request : s # r => call'[s] = call[s]
  BY <1>3 DEF Begin
<1>5. call'[r].op = op /\ call'[r].on = q
  BY <1>3 DEF Begin
<1>6. \A p \in Ask : (Made(p) => Stays(p)) /\ (~Made(p) => Asked(p)')
  BY <1>1 DEF Stays, Asked, Made
<1> QED  BY <1>1, <1>2, <1>4, <1>5, <1>6, AskedStays

\* A new row, and nothing else but a handler that may have ended.
LEMMA NewRowAsked ==
  ASSUME IInv, AskedInv, NextAsk <= N, NEW row \in Row, row.status # "NONE",
         req' = [req EXCEPT ![NextAsk] = row],
         \A n \in Ask : n = NextAsk => Asked(n)',
         \A s \in Request : call'[s] = call[s] \/ call'[s] = Idle
  PROVE  AskedInv'
<1>1. PICK n \in Ask : n = NextAsk /\ ~Made(n)
  BY NextIsFree DEF IInv
<1>2. \A p \in Ask \ {n} : req'[p] = req[p]
  BY <1>1 DEF IInv, TypeOK
<1>3. \A p \in Ask : (Made(p) => Stays(p)) /\ (~Made(p) => Asked(p)')
  BY <1>1, <1>2 DEF Stays, Asked, Made
<1>4. \A s \in Request : call'[s] = Idle \/ (call[s] # Idle /\ call'[s].op = call[s].op /\ call'[s].on = call[s].on)
  OBVIOUS
<1> QED  BY <1>3, <1>4, AskedStays

LEMMA CreateAsked ==
  ASSUME IInv, AskedInv, NEW u \in User, NEW mill \in Mill \cup {None}, NEW wh \in Warehouse,
         Create(u, mill, wh)
  PROVE  AskedInv'
<1>1. PICK n \in Ask : n = NextAsk
  BY NextIsFree DEF IInv, Create
<1>2. PICK row \in Row : row = NewRow(mill, wh, u, SelfReview(u), 0)
  <2>1. SelfReview(u) \in BOOLEAN
    BY DEF SelfReview, HoldsAny
  <2> QED  BY <2>1, NewRowTyped
<1>3. /\ row.src = None /\ row.by = u /\ row.mill = mill /\ row.wh = wh
      /\ row.status # "NONE"
      /\ row.status = "SUBMITTED" => ~SelfReview(u)
  BY <1>2, Zenon DEF NewRow
<1>4. req' = [req EXCEPT ![n] = row] /\ req'[n] = row
  BY <1>1, <1>2 DEF Create, IInv, TypeOK
<1>5. HoldsAny(u, {"supply.request"}) /\ (mill # None => InScope(u, mill) /\ wh = WarehouseOf[mill])
  BY DEF Create
<1>6. Asked(n)'
  <2>1. /\ req'[n].src = None /\ req'[n].by = u /\ req'[n].mill = mill /\ req'[n].wh = wh
        /\ req'[n].status = "SUBMITTED" => ~SelfReview(u)
    BY <1>3, <1>4
  <2> QED  BY <1>5, <2>1, Zenon DEF Asked, IsMill, HoldsAny, InScope, SelfReview
<1>7. call' = call /\ NextAsk <= N
  BY DEF Create
<1> QED  BY <1>1, <1>3, <1>4, <1>6, <1>7, NewRowAsked

LEMMA AskMoreAsked ==
  ASSUME IInv, AskedInv, NEW r \in Request, AskMore(r)
  PROVE  AskedInv'
<1>1. call[r] # Idle /\ call[r].op = "askMore" /\ TypeOK /\ NextAsk <= N
  BY InFlight DEF AskMore, Op, IInv
<1>2. PICK q \in Ask : q = call[r].on /\ Made(q) /\ IsMill(q) /\ MaySupply(call[r].by, q)
  BY <1>1, CallTyped DEF IInv, CallOK
<1>3. PICK n \in Ask : n = NextAsk
  BY <1>1, NextIsFree DEF IInv
<1>4. PICK u \in User : u = call[r].by
  BY <1>1, CallTyped
<1>5. PICK row \in Row : row = NewRow(None, req[q].wh, u, TRUE, q)
  <2>1. q \in Nat /\ req[q].wh \in Warehouse
    BY <1>1, <1>2, RowTyped DEF Ask
  <2> QED  BY <2>1, NewRowTyped
<1>6. row.by = u /\ row.mill = None /\ row.status = "FORWARDED"
  BY <1>5 DEF NewRow
<1>7. req' = [req EXCEPT ![n] = row] /\ req'[n] = row
  BY <1>1, <1>2, <1>3, <1>4, <1>5 DEF AskMore, TypeOK
<1>8. HasRole(u, {"WAREHOUSE_SUPERVISOR"})
  BY <1>2, <1>4 DEF MaySupply, SupplierOf, IsMill
<1>9. HoldsAny(u, {"supply.request"})
  BY <1>8 DEF HoldsAny, HasRole, Grants, WarehouseGrants
<1>10. Asked(n)'
  BY <1>6, <1>7, <1>9 DEF Asked, IsMill, HoldsAny
<1>11. \A s \in Request : call'[s] = call[s] \/ call'[s] = Idle
  BY <1>1 DEF AskMore, End, TypeOK
<1> QED  BY <1>1, <1>3, <1>6, <1>7, <1>10, <1>11, NewRowAsked

LEMMA AskedStep == IInv /\ AskedInv /\ [Next]_vars => AskedInv'
<1> SUFFICES ASSUME IInv, AskedInv, [Next]_vars PROVE AskedInv'
  OBVIOUS
<1>1. ASSUME NEW u \in User, NEW mill \in Mill \cup {None}, NEW wh \in Warehouse, Create(u, mill, wh)
      PROVE  AskedInv'
  BY <1>1, CreateAsked
<1>2. ASSUME NEW r \in Request,
             NEW op \in Op, NEW u \in User, NEW q \in Ask, NEW w \in Warehouse, Begin(r, op, u, q, w)
      PROVE  AskedInv'
  BY <1>2, BeginAsked
<1>3. ASSUME NEW r \in Request,
             \/ Forward(r) \/ DeclineOrCancel(r) \/ AskFarm(r) \/ NoteFarm(r) \/ AssignTo(r)
             \/ Ready(r) \/ Claim(r) \/ MakeReceipt(r) \/ TakeBackClaim(r) \/ Send(r) \/ Fail(r)
      PROVE  AskedInv'
  BY <1>3, HandlerAsked
<1>4. ASSUME NEW r \in Request, AskMore(r) PROVE AskedInv'
  BY <1>4, AskMoreAsked
<1>5. ASSUME req' = req, call' = call PROVE AskedInv'
  BY <1>5 DEF AskedInv, Asked, SendsToWarehouse, Made, IsMill, HoldsAny, InScope, SelfReview
<1>6. ASSUME NEW q \in Ask, NEW i \in 1 .. MaxSent,
             \/ \E to \in DispatchStage : DispatchMoves(q, i, to)
             \/ \E at \in {"there", "back"} : TripEnds(q, i, at)
      PROVE  AskedInv'
  BY <1>5, <1>6 DEF DispatchMoves, TripEnds
<1>7. ASSUME NEW w \in DrawnFrom, StockChanges(w) PROVE AskedInv'
  BY <1>5, <1>7 DEF StockChanges
<1>8. CASE UNCHANGED vars
  BY <1>5, <1>8 DEF vars
<1> QED  BY <1>1, <1>2, <1>3, <1>4, <1>6, <1>7, <1>8 DEF Next

LEMMA AskedAlways == Spec => []AskedInv
<1>1. Init => AskedInv
  BY DEF Init, AskedInv, Asked, Made, NoRow, SendsToWarehouse, Idle
<1> QED  BY <1>1, AskedStep, SupplyInductive, PTL DEF Spec

-----------------------------------------------------------------------------
(* Who is told that a request waits for them, and who may carry it on.     *)

\* People are given what their part of the board takes.  A supervisor of
\* warehouses does not also see the requests of all places, and has the
\* warehouse of each mill of theirs; a Farm Director has a farm; and there
\* is another warehouse to ask.
DeskStaffed ==
  /\ \A u \in User : ~IsAdmin(u) =>
       /\ None \notin ScopesOf[u]
       /\ HasRole(u, {"WAREHOUSE_SUPERVISOR"}) =>
             /\ ~HasRole(u, {"MD", "CEO", "AUDITOR", "FARM_DIRECTOR", "OPERATIONS_MANAGER"})
             /\ \A m \in Mill : InScope(u, m) => InScope(u, WarehouseOf[m])
       /\ HasRole(u, {"FARM_DIRECTOR"}) => \E f \in Farm : InScope(u, f)
  /\ \A w \in Warehouse : \E v \in Warehouse : v # w

\* The roles that come with the permissions a request for paddy takes.
LEMMA GrantedTo ==
  ASSUME NEW u \in User, ~IsAdmin(u)
  PROVE  /\ HoldsAny(u, {"supply.forward"}) <=> HasRole(u, {"WAREHOUSE_SUPERVISOR", "OPERATIONS_MANAGER"})
         /\ HoldsAny(u, {"supply.fulfil"}) <=> HasRole(u, {"WAREHOUSE_SUPERVISOR", "FARM_DIRECTOR"})
         /\ HoldsAny(u, {"warehouse.transfer"}) <=> HasRole(u, {"WAREHOUSE_SUPERVISOR"})
         /\ HasRole(u, {"OPERATIONS_OFFICER", "OPERATIONS_MANAGER"}) => HoldsAny(u, {"supply.request"})
<1>1. \A role \in RolesOf[u] : role # "ADMIN"
  BY DEF IsAdmin, HasRole
<1>2. \A role \in RolesOf[u] :
        /\ Grants(role, "supply.forward") <=> role \in {"WAREHOUSE_SUPERVISOR", "OPERATIONS_MANAGER"}
        /\ Grants(role, "supply.fulfil") <=> role \in {"WAREHOUSE_SUPERVISOR", "FARM_DIRECTOR"}
        /\ Grants(role, "warehouse.transfer") <=> role = "WAREHOUSE_SUPERVISOR"
        /\ role \in {"OPERATIONS_OFFICER", "OPERATIONS_MANAGER"} => Grants(role, "supply.request")
  BY <1>1 DEF Grants, ExecutiveGrants, FarmGrants, WarehouseGrants, MillGrants, OfficeGrants
<1> QED  BY <1>2 DEF HoldsAny, HasRole

LEMMA AllowedMeans ==
  ASSUME NEW u \in User, NEW q \in Ask, NEW v \in Warehouse
  PROVE  /\ Allowed("forward", u, q) <=> MayForward(u, q)
         /\ Allowed("decline", u, q) <=> MayDecline(u, q)
         /\ Allowed("assignFarm", u, q) <=> MayAssignFarm(u, q)
         /\ Allowed("assignTo", u, q) <=> \E w \in Warehouse : MayAssignTo(u, q, w)
         /\ Allowed("ready", u, q) <=> MayReady(u, q)
         /\ Allowed("askMore", u, q) <=> MayAskMore(u, q)
         /\ Allowed("cancel", u, q) <=> MayCancel(u, q)
         /\ Allowed("receive", u, q) <=> MayReceive(u, q)
         /\ Allowed("send", u, q) <=> MaySend(u, q)
<1>1. \A w \in Warehouse :
         /\ May("forward", u, q, w) <=> MayForward(u, q)
         /\ May("decline", u, q, w) <=> MayDecline(u, q)
         /\ May("assignFarm", u, q, w) <=> MayAssignFarm(u, q)
  BY Zenon DEF May
<1>2. \A w \in Warehouse :
         /\ May("assignTo", u, q, w) <=> MayAssignTo(u, q, w)
         /\ May("ready", u, q, w) <=> MayReady(u, q)
         /\ May("askMore", u, q, w) <=> MayAskMore(u, q)
  BY Zenon DEF May
<1>3. \A w \in Warehouse :
         /\ May("cancel", u, q, w) <=> MayCancel(u, q)
         /\ May("receive", u, q, w) <=> MayReceive(u, q)
         /\ May("send", u, q, w) <=> MaySend(u, q)
  BY Zenon DEF May
<1> QED  BY <1>1, <1>2, <1>3, Zenon DEF Allowed

\* What the board takes for a person's move, where it is made and shown.
LEMMA SeesTheirMove ==
  ASSUME IInv, AskedInv, DeskStaffed, NEW u \in User, ~IsAdmin(u), NEW q \in Ask, Made(q), ~CutOff(u, q)
  PROVE  /\ Visible(u, q) /\ req[q].status = "SUBMITTED" /\ HoldsAny(u, {"supply.forward"})
               /\ MayReview(u, q)
            <=> MayForward(u, q)
         /\ Visible(u, q) /\ req[q].status = "FORWARDED" /\ HoldsAny(u, {"supply.fulfil"})
               /\ MaySupply(u, q) /\ IsMill(q)
            <=> MayAnswerMill(u, q)
         /\ Visible(u, q) /\ req[q].status = "FORWARDED" /\ HoldsAny(u, {"supply.fulfil"})
               /\ MaySupply(u, q) /\ ~IsMill(q)
            <=> MayAssign(u, q)
         /\ SendsFor(u, q) <=> MaySend(u, q)
         /\ MayCount(u, q) <=> MayReceive(u, q)
<1>1. /\ Asked(q) /\ req[q].wh \in Warehouse /\ req[q].mill \in Mill \cup {None}
      /\ None \notin ScopesOf[u]
  BY RowTyped DEF IInv, AskedInv, DeskStaffed
<1>2. /\ HoldsAny(u, {"supply.forward"}) <=> HasRole(u, {"WAREHOUSE_SUPERVISOR", "OPERATIONS_MANAGER"})
      /\ HoldsAny(u, {"supply.fulfil"}) <=> HasRole(u, {"WAREHOUSE_SUPERVISOR", "FARM_DIRECTOR"})
      /\ HoldsAny(u, {"warehouse.transfer"}) <=> HasRole(u, {"WAREHOUSE_SUPERVISOR"})
      /\ HasRole(u, {"OPERATIONS_OFFICER", "OPERATIONS_MANAGER"}) => HoldsAny(u, {"supply.request"})
  BY GrantedTo
<1>3. HasRole(u, {"WAREHOUSE_SUPERVISOR"}) =>
        /\ ~HasRole(u, {"MD", "CEO", "AUDITOR", "FARM_DIRECTOR", "OPERATIONS_MANAGER"})
        /\ \A m \in Mill : InScope(u, m) => InScope(u, WarehouseOf[m])
  BY DEF DeskStaffed
<1>4. /\ ~HasRole(u, {"ADMIN"})
      /\ InScope(u, None) => InScope(u, req[q].wh)
  BY <1>1 DEF IsAdmin, InScope
\* A supervisor of warehouses sees the requests at theirs, and their own.
<1>5. ASSUME HasRole(u, {"WAREHOUSE_SUPERVISOR"}), Visible(u, q), req[q].src = None
      PROVE  req[q].by = u \/ InScope(u, req[q].wh)
  BY <1>1, <1>3, <1>4, <1>5 DEF Visible, InSight, Asked, HasRole, IsMill
<1>6. ASSUME HasRole(u, {"WAREHOUSE_SUPERVISOR"}), InScope(u, req[q].wh) PROVE Visible(u, q)
  BY <1>6 DEF Visible, InSight
<1>7. Visible(u, q) /\ req[q].status = "SUBMITTED" /\ HoldsAny(u, {"supply.forward"}) /\ MayReview(u, q)
        <=> MayForward(u, q)
  <2>1. CASE IsMill(q)
    BY <1>2, <2>1 DEF MayForward, MayReview, ReviewerOf, IsMill, Visible, InSight, HasRole
  <2>2. CASE ~IsMill(q)
    <3>1. MayReview(u, q) <=> HasRole(u, {"WAREHOUSE_SUPERVISOR"})
      BY <2>2 DEF MayReview, ReviewerOf, IsMill
    <3>2. req[q].status = "SUBMITTED" => req[q].src = None /\ ~SelfReview(req[q].by)
      BY <1>1 DEF Asked
    <3> QED  BY <1>2, <1>5, <1>6, <2>2, <3>1, <3>2 DEF MayForward, SelfReview
  <2> QED  BY <2>1, <2>2
<1>8. Visible(u, q) /\ req[q].status = "FORWARDED" /\ HoldsAny(u, {"supply.fulfil"}) /\ MaySupply(u, q)
         /\ IsMill(q)
        <=> MayAnswerMill(u, q)
  <2> SUFFICES ASSUME IsMill(q)
               PROVE  HasRole(u, {"WAREHOUSE_SUPERVISOR"}) /\ Visible(u, q)
                        <=> HasRole(u, {"WAREHOUSE_SUPERVISOR"}) /\ InScope(u, req[q].wh)
    BY DEF MayAnswerMill, MaySupply, SupplierOf, IsMill
  <2>1. req[q].mill \in Mill /\ req[q].src = None /\ req[q].wh = WarehouseOf[req[q].mill]
    BY <1>1 DEF Asked, IsMill
  <2>2. req[q].by = u => InScope(u, req[q].mill)
    BY <1>1 DEF Asked
  <2> QED  BY <1>3, <1>5, <1>6, <2>1, <2>2
<1>9. Visible(u, q) /\ req[q].status = "FORWARDED" /\ HoldsAny(u, {"supply.fulfil"}) /\ MaySupply(u, q)
         /\ ~IsMill(q)
        <=> MayAssign(u, q)
  BY DEF MayAssign, MaySupply, SupplierOf, IsMill, Visible, InSight, HasRole
<1>10. SendsFor(u, q) <=> MaySend(u, q)
  <2>1. HasRole(u, {"ADMIN", "WAREHOUSE_SUPERVISOR"}) <=> HasRole(u, {"WAREHOUSE_SUPERVISOR"})
    BY <1>4 DEF HasRole
  <2>2. HasRole(u, {"WAREHOUSE_SUPERVISOR"}) /\ InScope(u, req[q].src) => Visible(u, q)
    BY DEF Visible, InSight
  <2> QED  BY <1>2, <2>1, <2>2 DEF SendsFor, MaySend, Answered
<1>11. MayCount(u, q) <=> MayReceive(u, q)
  <2>1. HasRole(u, {"ADMIN", "OPERATIONS_OFFICER", "OPERATIONS_MANAGER"})
          <=> HasRole(u, {"OPERATIONS_OFFICER", "OPERATIONS_MANAGER"})
    BY <1>4 DEF HasRole
  <2>2. HasRole(u, {"OPERATIONS_OFFICER", "OPERATIONS_MANAGER"}) /\ IsMill(q)
           /\ InScope(u, req[q].mill) => Visible(u, q)
    BY DEF Visible, InSight, HasRole
  <2> QED  BY <1>2, <2>1, <2>2 DEF MayCount, MayReceive
<1> QED  BY <1>7, <1>8, <1>9, <1>10, <1>11
\* The same, with what each move takes the request from.
LEMMA TheirMove ==
  ASSUME IInv, AskedInv, DeskStaffed, NEW u \in User, ~IsAdmin(u), NEW q \in Ask, Made(q), ~CutOff(u, q)
  PROVE  /\ Decides(u, q) <=>
               MayForward(u, q) \/ MayAssign(u, q) \/ (MayAnswerMill(u, q) /\ ~WaitsOnFarms(q))
         /\ Mine(u, q) <=> Decides(u, q) \/ MaySend(u, q) \/ MayReceive(u, q)
         /\ MayAssign(u, q) => MayAssignFarm(u, q) /\ \E w \in Warehouse : MayAssignTo(u, q, w)
         /\ MayForward(u, q) => req[q].status = "SUBMITTED" /\ MayDecline(u, q)
         /\ MayAssign(u, q) => req[q].status = "FORWARDED" /\ ~IsMill(q) /\ MayDecline(u, q)
         /\ MayAnswerMill(u, q) => req[q].status = "FORWARDED" /\ IsMill(q) /\ MayDecline(u, q)
         /\ MaySend(u, q) => req[q].status = "ASSIGNED"
         /\ MayReceive(u, q) => req[q].status = "READY"
<1>1. WaitsOnFarms(q) => IsMill(q)
  BY DEF WaitsOnFarms
<1>2. /\ DeskMayReview(u, q) <=> MayReview(u, q)
      /\ DeskMaySupply(u, q) <=> MaySupply(u, q)
  BY DEF DeskMayReview, DeskMaySupply, MayReview, MaySupply, IsAdmin, HasRole
<1>3. Decides(u, q) <=>
         MayForward(u, q) \/ MayAssign(u, q) \/ (MayAnswerMill(u, q) /\ ~WaitsOnFarms(q))
  BY <1>1, <1>2, SeesTheirMove DEF Decides
<1>4. Mine(u, q) <=> Decides(u, q) \/ SendsFor(u, q) \/ MayCount(u, q)
  BY <1>2 DEF Mine, Decides, SendsFor, MayCount
<1>5. MayAssign(u, q) => MayAssignFarm(u, q) /\ \E w \in Warehouse : MayAssignTo(u, q, w)
  <2> SUFFICES ASSUME MayAssign(u, q)
               PROVE  (\E f \in Farm : InScope(u, f)) /\ \E w \in Warehouse : w # req[q].wh
    BY DEF MayAssignFarm, MayAssignTo
  <2>1. HasRole(u, {"FARM_DIRECTOR"}) /\ req[q].wh \in Warehouse
    BY RowTyped DEF MayAssign, MaySupply, SupplierOf, IsMill, IInv
  <2> QED  BY <2>1 DEF DeskStaffed
<1>6. HoldsAny(u, {"supply.forward"}) \/ HoldsAny(u, {"supply.fulfil"})
        => HoldsAny(u, {"supply.forward", "supply.fulfil"})
  BY DEF HoldsAny
<1>7. MayForward(u, q) => req[q].status = "SUBMITTED" /\ MayDecline(u, q)
  BY <1>6 DEF MayForward, MayDecline
<1>8. MayAssign(u, q) => req[q].status = "FORWARDED" /\ ~IsMill(q) /\ MayDecline(u, q)
  BY <1>6 DEF MayAssign, MayDecline
<1>9. MayAnswerMill(u, q) => req[q].status = "FORWARDED" /\ IsMill(q) /\ MayDecline(u, q)
  BY <1>6 DEF MayAnswerMill, MayDecline
<1>10. MaySend(u, q) => req[q].status = "ASSIGNED"
  BY DEF MaySend
<1>11. MayReceive(u, q) => req[q].status = "READY"
  BY DEF MayReceive
<1> QED  BY <1>3, <1>4, <1>5, <1>7, <1>8, <1>9, <1>10, <1>11, SeesTheirMove

\* The counts of the board, its buttons and the checks of the service are
\* three pieces of code; however the requests came to be where they are,
\* they agree for everybody but the administrator, if people are given what
\* their part of the board takes and, for "who could carry it on is told so",
\* as far as the board's limit reaches.
THEOREM EverybodysDesk ==
  ASSUME DeskStaffed
  PROVE  Spec => []OnTheRightDesk
<1>1. IInv /\ AskedInv => OnTheRightDesk
  <2> SUFFICES ASSUME IInv, AskedInv, NEW u \in User, NEW q \in Ask, Made(q), ~IsAdmin(u),
                      NEW carriesOn, NEW buttons,
                      carriesOn = (MayAnswerMill(u, q) \/ \E op \in Onward : Allowed(op, u, q)),
                      buttons = Buttons(u, q, IsMill(q) /\ enough[req[q].wh])
               PROVE  /\ Mine(u, q) => carriesOn
                      /\ carriesOn => Mine(u, q) \/ WaitsOnFarms(q) \/ CutOff(u, q)
                      /\ \A b \in buttons : Allowed(b, u, q)
                      /\ Mine(u, q) =>
                           \A op \in Onward \ buttons :
                              Allowed(op, u, q) => op = "askMore" /\ HasChild(q)
    BY Zenon DEF OnTheRightDesk
\* A card that is not on the board has no buttons.
  <2>0. CASE CutOff(u, q)
    <3>1. ~Visible(u, q)
      BY <2>0 DEF Visible
    <3>2. ~Mine(u, q) /\ buttons = {}
      BY <3>1 DEF Mine, Buttons, Decides, SendsFor, MayCount
    <3> QED  BY <2>0, <3>2
  <2> SUFFICES ASSUME ~CutOff(u, q)
               PROVE  /\ Mine(u, q) => carriesOn
                      /\ carriesOn => Mine(u, q) \/ WaitsOnFarms(q)
                      /\ \A b \in buttons : Allowed(b, u, q)
                      /\ Mine(u, q) =>
                           \A op \in Onward \ buttons :
                              Allowed(op, u, q) => op = "askMore" /\ HasChild(q)
    BY <2>0
  <2>1. PICK v \in Warehouse : v = req[q].wh
    BY RowTyped DEF IInv
  <2>2. /\ Allowed("forward", u, q) <=> MayForward(u, q)
        /\ Allowed("decline", u, q) <=> MayDecline(u, q)
        /\ Allowed("assignFarm", u, q) <=> MayAssignFarm(u, q)
        /\ Allowed("assignTo", u, q) <=> \E w \in Warehouse : MayAssignTo(u, q, w)
        /\ Allowed("ready", u, q) <=> MayReady(u, q)
        /\ Allowed("askMore", u, q) <=> MayAskMore(u, q)
        /\ Allowed("cancel", u, q) <=> MayCancel(u, q)
        /\ Allowed("receive", u, q) <=> MayReceive(u, q)
        /\ Allowed("send", u, q) <=> MaySend(u, q)
    BY <2>1, AllowedMeans
  <2>3. Onward = {"forward", "assignFarm", "assignTo", "ready", "askMore", "receive", "send"}
    BY DEF Onward, Op
  <2>4. /\ MayAssignFarm(u, q) => MayAssign(u, q)
        /\ (\E w \in Warehouse : MayAssignTo(u, q, w)) => MayAssign(u, q)
        /\ MayReady(u, q) => MayAnswerMill(u, q) /\ enough[req[q].wh]
        /\ MayAskMore(u, q) => MayAnswerMill(u, q) /\ ~enough[req[q].wh]
    BY DEF MayAssignFarm, MayAssignTo, MayReady, MayAskMore
  <2>5. Mine(u, q) => carriesOn
    BY <2>2, <2>3, TheirMove
  <2>6. carriesOn => Mine(u, q) \/ WaitsOnFarms(q)
    BY <2>2, <2>3, <2>4, TheirMove
  <2>7. ASSUME NEW b \in buttons PROVE Allowed(b, u, q)
    <3>1. CASE Decides(u, q) /\ b \in DecisionButtons(q, IsMill(q) /\ enough[req[q].wh])
      <4>1. CASE MayForward(u, q)
        <5>1. b \in {"forward", "decline"}
          BY <3>1, <4>1, TheirMove DEF DecisionButtons
        <5> QED  BY <2>2, <4>1, <5>1, TheirMove
      <4>2. CASE MayAssign(u, q)
        <5>1. b \in {"assignFarm", "assignTo", "decline"}
          BY <3>1, <4>2, TheirMove DEF DecisionButtons
        <5> QED  BY <2>2, <4>2, <5>1, TheirMove
      <4>3. CASE MayAnswerMill(u, q)
        <5>1. \/ b = "decline"
              \/ b = "ready" /\ enough[req[q].wh]
              \/ b = "askMore" /\ ~enough[req[q].wh] /\ ~HasChild(q)
          BY <3>1, <4>3, TheirMove DEF DecisionButtons
        <5>2. ~HasChild(q) => LiveChildren(q) = {}
          BY DEF HasChild, LiveChildren
        <5> QED  BY <2>2, <4>3, <5>1, <5>2, TheirMove DEF MayReady, MayAskMore
      <4> QED  BY <3>1, <4>1, <4>2, <4>3, TheirMove
    <3>2. CASE b = "send" /\ SendsFor(u, q)
      BY <2>2, <3>2, SeesTheirMove
    <3>3. CASE b = "receive" /\ MayCount(u, q)
      BY <2>2, <3>3, SeesTheirMove
    <3>4. CASE b = "cancel" /\ req[q].by = u /\ req[q].status \in {"SUBMITTED", "FORWARDED"}
      BY <2>2, <3>4 DEF MayCancel, AskedInv, Asked
    <3> QED  BY <2>7, <3>1, <3>2, <3>3, <3>4 DEF Buttons
  <2>8. ASSUME Mine(u, q), NEW op \in Onward \ buttons, Allowed(op, u, q)
        PROVE  op = "askMore" /\ HasChild(q)
    <3>1. Decides(u, q) => op \notin DecisionButtons(q, IsMill(q) /\ enough[req[q].wh])
      BY <2>8 DEF Buttons
    <3>2. CASE MayForward(u, q)
      <4>1. op \in {"forward", "decline"}
        BY <2>2, <2>3, <2>4, <2>8, <3>2, TheirMove
      <4> QED  BY <3>1, <3>2, <4>1, TheirMove DEF DecisionButtons
    <3>3. CASE MayAssign(u, q)
      <4>1. op \in {"assignFarm", "assignTo"}
        BY <2>2, <2>3, <2>4, <2>8, <3>3, TheirMove
      <4> QED  BY <3>1, <3>3, <4>1, TheirMove DEF DecisionButtons
    <3>4. CASE MayAnswerMill(u, q)
      <4>1. Decides(u, q)
        BY <2>8, <3>4, TheirMove
      <4>2. ~MayForward(u, q) /\ ~MayAssign(u, q) /\ ~MaySend(u, q) /\ ~MayReceive(u, q)
        BY <3>4, TheirMove
      <4>3. (MayReady(u, q) /\ op = "ready") \/ (MayAskMore(u, q) /\ op = "askMore")
        BY <2>2, <2>3, <2>4, <2>8, <4>2
      <4> QED  BY <2>4, <3>1, <3>4, <4>1, <4>3, TheirMove DEF DecisionButtons
    <3>5. CASE MaySend(u, q)
      <4>1. op = "send"
        BY <2>2, <2>3, <2>4, <2>8, <3>5, TheirMove
      <4>2. SendsFor(u, q)
        BY <3>5, SeesTheirMove
      <4> QED  BY <2>8, <4>1, <4>2 DEF Buttons
    <3>6. CASE MayReceive(u, q)
      <4>1. op = "receive"
        BY <2>2, <2>3, <2>4, <2>8, <3>6, TheirMove
      <4>2. MayCount(u, q)
        BY <3>6, SeesTheirMove
      <4> QED  BY <2>8, <4>1, <4>2 DEF Buttons
    <3> QED  BY <2>8, <3>2, <3>3, <3>4, <3>5, <3>6, TheirMove
  <2> QED  BY <2>5, <2>6, <2>7, <2>8
<1> QED  BY <1>1, SupplyInductive, AskedAlways, PTL
=============================================================================
