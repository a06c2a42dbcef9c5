---------------------------- MODULE TransitProofs ----------------------------
(***************************************************************************)
(* Proofs about Transit.tla, for every number of places, people, hauls and *)
(* requests in flight: the invariant, that Transit implements Haulage, and  *)
(* that no bag of paddy is lost or counted twice.                          *)
(***************************************************************************)
EXTENDS Transit, FiniteSetTheorems, WellFoundedInduction, TLAPS

USE HaulAssumption, PlaceAssumption, OpeningAssumption, LimitAssumption

HaulOp == {"send", "approve", "reject", "cancel", "receive"}

-----------------------------------------------------------------------------
(* What a request remembers. *)

LEMMA Remembers ==
  ASSUME TypeOK, NEW r \in Request
  PROVE  /\ call[r].op \in HaulOp => call[r] \in HaulCall
         /\ call[r].op = "hold" => call[r] \in HoldCall
         /\ call[r] # Idle => call[r].op \in HaulOp \cup {"hold"}
<1>1. call[r] \in {Idle} \cup HaulCall \cup HoldCall
  BY DEF TypeOK
<1>2. Idle.op \notin HaulOp \cup {"hold"}
  BY DEF Idle, HaulOp
<1>3. \A c \in HaulCall : c.op \in HaulOp
  BY DEF HaulCall, HaulOp
<1>4. \A c \in HoldCall : c.op = "hold"
  BY DEF HoldCall
<1>5. "hold" \notin HaulOp
  BY DEF HaulOp
<1> QED  BY <1>1, <1>2, <1>3, <1>4, <1>5

\* The rows that a request of some other op than "send" is about exist.
LEMMA RowThere ==
  ASSUME TypeOK, NEW h \in Haul, haul[h].status # "NONE"
  PROVE  haul[h] \in Row
BY DEF TypeOK, NoRow

LEMMA KindAndGood ==
  ASSUME NEW h \in Haul
  PROVE  KindOf[h] \in Kind /\ GoodOf[h] \in Good
BY DEF Kind, Good, GoodOf

LEMMA StatusThere ==
  ASSUME TypeOK, NEW h \in Haul
  PROVE  haul[h].status \in Status \cup {"NONE"}
BY DEF TypeOK, NoRow, Row

-----------------------------------------------------------------------------
(* Types. *)

LEMMA InitInv == Init => IInv
<1> SUFFICES ASSUME Init PROVE IInv
  OBVIOUS
<1>1. TypeOK
  BY DEF Init, TypeOK
<1>2. \A h \in Haul : RowOK(h)
  BY DEF Init, RowOK, OnRoad, NoRow
<1>3. \A r \in Request : CallOK(call[r])
  BY DEF Init, CallOK, Idle
<1>4. OneSender
  BY DEF Init, OneSender, Idle
<1>5. \A w \in Warehouse : ChoiceOK(w)
  <2> SUFFICES ASSUME NEW w \in Warehouse PROVE ChoiceOK(w)
    OBVIOUS
  <2>1. \A q \in Request : ~Chooses(q, w)
    BY DEF Init, Chooses, Idle
  <2>2. reserved[w] <= stock[w]["packs"]
    BY DEF Init, Place, Good
  <2> QED  BY <2>1, <2>2 DEF ChoiceOK
<1> QED  BY <1>1, <1>2, <1>3, <1>4, <1>5 DEF IInv

\* A request that begins leaves everything as it was, but what it read.
LEMMA AskType ==
  ASSUME TypeOK, NEW r \in Request, NEW c \in HaulCall \cup HoldCall,
         call' = [call EXCEPT ![r] = c], UNCHANGED <<haul, stock, bucket, reserved>>,
         loose' \in [Warehouse -> BOOLEAN]
  PROVE  TypeOK'
BY DEF TypeOK

LEMMA SendType ==
  ASSUME TypeOK, NEW r \in Request, NEW u \in User, NEW h \in Haul,
         NEW from \in Place, NEW to \in Place, NEW n \in 1 .. MaxBags,
         AskSend(r, u, h, from, to, n)
  PROVE  TypeOK'
<1> DEFINE c == [op |-> "send", by |-> u, haul |-> h, from |-> from, to |-> to,
                 bags |-> n, seen |-> haul[h].status]
<1>1. c \in HaulCall
  BY StatusThere DEF HaulCall
<1>2. loose' \in [Warehouse -> BOOLEAN]
  BY DEF AskSend, Choosing, TypeOK, Chooses
<1> QED  BY <1>1, <1>2, AskType DEF AskSend, HaulRequest

LEMMA StepType ==
  ASSUME TypeOK, NEW r \in Request, NEW u \in User, NEW h \in Haul,
         NEW op \in {"approve", "reject", "cancel", "receive"}, NEW n \in 0 .. MaxBags,
         haul[h].status # "NONE", HaulRequest(r, op, u, h, haul[h].from, haul[h].to, n),
         UNCHANGED loose
  PROVE  TypeOK'
<1> DEFINE c == [op |-> op, by |-> u, haul |-> h, from |-> haul[h].from, to |-> haul[h].to,
                 bags |-> n, seen |-> haul[h].status]
<1>1. c \in HaulCall
  BY StatusThere, RowThere DEF HaulCall, Row
<1>2. loose' \in [Warehouse -> BOOLEAN]
  BY DEF TypeOK
<1> QED  BY <1>1, <1>2, AskType DEF HaulRequest

\* Bags that leave or arrive keep the types of the stock and of the bucket.
LEMMA LeaveType ==
  ASSUME TypeOK, NEW h \in Haul, NEW from \in Place, NEW n \in Nat, Leave(h, from, n)
  PROVE  stock' \in [Place -> [Good -> Nat]] /\ bucket' \in [Haul -> Nat]
<1>1. GoodOf[h] \in Good
  BY KindAndGood
<1>2. stock[from] \in [Good -> Nat] /\ stock[from][GoodOf[h]] - n \in Nat
  BY <1>1 DEF TypeOK, Leave
<1>3. [stock[from] EXCEPT ![GoodOf[h]] = stock[from][GoodOf[h]] - n] \in [Good -> Nat]
  BY <1>2
<1> QED  BY <1>3 DEF TypeOK, Leave

LEMMA ArriveType ==
  ASSUME TypeOK, NEW h \in Haul, haul[h] \in Row, NEW to \in Place, NEW n \in Nat,
         Arrive(h, to, n)
  PROVE  stock' \in [Place -> [Good -> Nat]] /\ bucket' \in [Haul -> Nat]
<1>1. GoodOf[h] \in Good
  BY KindAndGood
<1>2. stock[to] \in [Good -> Nat] /\ stock[to][GoodOf[h]] + n \in Nat
  BY <1>1 DEF TypeOK
<1>3. [stock[to] EXCEPT ![GoodOf[h]] = stock[to][GoodOf[h]] + n] \in [Good -> Nat]
  BY <1>2
<1>4. bucket[h] - haul[h].bags \in Nat
  BY DEF Arrive, InBucket, TypeOK, Row
<1> QED  BY <1>3, <1>4 DEF TypeOK, Arrive

LEMMA EndType ==
  ASSUME TypeOK, NEW r \in Request, EndCall(r)
  PROVE  call' \in [Request -> {Idle} \cup HaulCall \cup HoldCall]
BY DEF TypeOK, EndCall

LEMMA TypeStep ==
  ASSUME IInv, [Next]_vars
  PROVE  TypeOK'
<1> USE DEF IInv
<1>1. ASSUME NEW r \in Request, NEW u \in User, NEW h \in Haul,
             NEW from \in Place, NEW to \in Place, NEW n \in 1 .. MaxBags,
             AskSend(r, u, h, from, to, n)
      PROVE TypeOK'
  BY <1>1, SendType
<1>2. ASSUME NEW r \in Request, NEW u \in User, NEW h \in Haul,
             NEW op \in {"approve", "reject"}, AskDecide(r, u, h, op)
      PROVE TypeOK'
  BY <1>2, StepType DEF AskDecide, MayDecide
<1>3. ASSUME NEW r \in Request, NEW u \in User, NEW h \in Haul, AskCancel(r, u, h)
      PROVE TypeOK'
  BY <1>3, StepType DEF AskCancel, MayCancel, OnRoad
<1>4. ASSUME NEW r \in Request, NEW u \in User, NEW h \in Haul,
             NEW got \in 0 .. MaxBags, AskReceive(r, u, h, got)
      PROVE TypeOK'
  BY <1>4, StepType DEF AskReceive, MayReceive, OnRoad
<1>5. ASSUME NEW r \in Request, CommitSend(r)
      PROVE TypeOK'
  <2> DEFINE c == call[r]  h == c.haul
  <2>1. c \in HaulCall /\ h \in Haul /\ c.bags \in 1 .. MaxBags
    BY <1>5, Remembers DEF CommitSend, HaulOp, CallOK, HaulCall
  <2>2. haul' \in [Haul -> {NoRow} \cup Row]
    BY <1>5, <2>1 DEF CommitSend, TypeOK, Row, Status, HaulCall
  <2>3. stock' \in [Place -> [Good -> Nat]] /\ bucket' \in [Haul -> Nat]
    <3>1. CASE KindOf[h] \in MillKind
      BY <1>5, <3>1 DEF CommitSend, TypeOK
    <3>2. CASE KindOf[h] \notin MillKind
      <4>1. Leave(h, c.from, c.bags) /\ c.from \in Place /\ c.bags \in Nat
        BY <1>5, <2>1, <3>2 DEF CommitSend, HaulCall
      <4> QED  BY <2>1, <4>1, LeaveType
    <3> QED  BY <3>1, <3>2
  <2> QED  BY <1>5, <2>2, <2>3, EndType DEF CommitSend, TypeOK
<1>6. ASSUME NEW r \in Request, CommitApprove(r)
      PROVE TypeOK'
  <2> DEFINE c == call[r]  h == c.haul
  <2>1. c \in HaulCall /\ h \in Haul /\ haul[h] \in Row
    BY <1>6, Remembers, RowThere DEF CommitApprove, HaulOp, CallOK, HaulCall
  <2>2. haul' \in [Haul -> {NoRow} \cup Row]
    BY <1>6, <2>1 DEF CommitApprove, TypeOK, Row, Status, HaulCall
  <2>3. haul[h].from \in Place /\ haul[h].bags \in Nat
    BY <2>1 DEF Row
  <2>4. stock' \in [Place -> [Good -> Nat]] /\ bucket' \in [Haul -> Nat]
    BY <1>6, <2>1, <2>3, LeaveType DEF CommitApprove
  <2> QED  BY <1>6, <2>2, <2>4, EndType DEF CommitApprove, TypeOK
<1>7. ASSUME NEW r \in Request, CommitReject(r)
      PROVE TypeOK'
  <2> DEFINE c == call[r]  h == c.haul
  <2>1. c \in HaulCall /\ h \in Haul /\ haul[h] \in Row
    BY <1>7, Remembers, RowThere DEF CommitReject, HaulOp, CallOK, HaulCall
  <2>2. haul' \in [Haul -> {NoRow} \cup Row]
    BY <1>7, <2>1 DEF CommitReject, TypeOK, Row, Status, HaulCall
  <2> QED  BY <1>7, <2>2, EndType DEF CommitReject, TypeOK
<1>8. ASSUME NEW r \in Request, CommitCancel(r)
      PROVE TypeOK'
  <2> DEFINE c == call[r]  h == c.haul
  <2>1. c \in HaulCall /\ h \in Haul /\ haul[h] \in Row
    BY <1>8, Remembers, RowThere DEF CommitCancel, HaulOp, CallOK, HaulCall
  <2>2. haul' \in [Haul -> {NoRow} \cup Row]
    BY <1>8, <2>1 DEF CommitCancel, TypeOK, Row, Status
  <2>3. haul[h].from \in Place /\ haul[h].bags \in Nat
    BY <2>1 DEF Row
  <2>4. stock' \in [Place -> [Good -> Nat]] /\ bucket' \in [Haul -> Nat]
    <3>1. CASE c.seen = "IN_TRANSIT"
      BY <1>8, <3>1, <2>1, <2>3, ArriveType DEF CommitCancel
    <3>2. CASE c.seen # "IN_TRANSIT"
      BY <1>8, <3>2 DEF CommitCancel, TypeOK
    <3> QED  BY <3>1, <3>2
  <2> QED  BY <1>8, <2>2, <2>4, EndType DEF CommitCancel, TypeOK
<1>9. ASSUME NEW r \in Request, CommitReceive(r)
      PROVE TypeOK'
  <2> DEFINE c == call[r]  h == c.haul
  <2>1. c \in HaulCall /\ h \in Haul /\ haul[h] \in Row
    BY <1>9, Remembers, RowThere DEF CommitReceive, HaulOp, CallOK, HaulCall
  <2>2. haul' \in [Haul -> {NoRow} \cup Row]
    BY <1>9, <2>1 DEF CommitReceive, TypeOK, Row, Status, HaulCall
  <2>3. haul[h].to \in Place /\ c.bags \in Nat
    BY <2>1 DEF Row, HaulCall
  <2>4. stock' \in [Place -> [Good -> Nat]] /\ bucket' \in [Haul -> Nat]
    BY <1>9, <2>1, <2>3, ArriveType DEF CommitReceive
  <2> QED  BY <1>9, <2>2, <2>4, EndType DEF CommitReceive, TypeOK
<1>10. ASSUME NEW r \in Request, Fail(r)
       PROVE TypeOK'
  BY <1>10, EndType DEF Fail, TypeOK
<1>11. ASSUME NEW r \in Request, NEW w \in Warehouse, NEW n \in 1 .. MaxBags,
              NEW m \in 0 .. MaxBags, AskHold(r, w, n, m)
       PROVE TypeOK'
  <2>1. [op |-> "hold", from |-> w, bags |-> n + m] \in HoldCall
    BY DEF HoldCall
  <2>2. loose' \in [Warehouse -> BOOLEAN]
    BY <1>11 DEF AskHold, Choosing, TypeOK, Chooses
  <2> QED  BY <1>11, <2>1, <2>2, AskType DEF AskHold
<1>12. ASSUME NEW r \in Request, CommitHold(r)
       PROVE TypeOK'
  <2>1. call[r] \in HoldCall
    BY <1>12, Remembers DEF CommitHold
  <2>2. reserved' \in [Warehouse -> Nat]
    BY <1>12, <2>1 DEF CommitHold, TypeOK, HoldCall
  <2> QED  BY <1>12, <2>2, EndType DEF CommitHold, TypeOK
<1>13. ASSUME NEW w \in Warehouse, NEW n \in 1 .. 2 * MaxBags, Deliver(w, n)
       PROVE TypeOK'
  <2>1. stock[w] \in [Good -> Nat] /\ stock[w]["packs"] - n \in Nat
    BY <1>13 DEF Deliver, TypeOK, Place, Good
  <2>2. reserved[w] - n \in Nat
    BY <1>13 DEF Deliver, TypeOK
  <2> QED  BY <1>13, <2>1, <2>2 DEF Deliver, TypeOK, Place
<1>16. ASSUME NEW w \in Warehouse, NEW n \in 1 .. MaxBags, WriteOff(w, n)
       PROVE TypeOK'
  <2>1. stock[w] \in [Good -> Nat] /\ stock[w]["packs"] - n \in Nat
    BY <1>16 DEF WriteOff, TypeOK, Place, Good
  <2> QED  BY <1>16, <2>1 DEF WriteOff, TypeOK, Place
<1>14. ASSUME NEW w \in Warehouse, NEW n \in 1 .. 2 * MaxBags, Release(w, n)
       PROVE TypeOK'
  BY <1>14 DEF Release, TypeOK
<1>15. CASE UNCHANGED vars
  BY <1>15 DEF vars, TypeOK
<1> QED
  BY <1>1, <1>2, <1>3, <1>4, <1>5, <1>6, <1>7, <1>8, <1>9, <1>10, <1>11, <1>12,
     <1>13, <1>14, <1>15, <1>16 DEF Next

-----------------------------------------------------------------------------
(* Rows. *)

Rows == \A h \in Haul : RowOK(h)

LEMMA RowStep ==
  ASSUME IInv, [Next]_vars
  PROVE  Rows'
<1> USE DEF IInv
<1>1. CASE UNCHANGED <<haul, bucket>>
  BY <1>1 DEF Rows, RowOK, OnRoad
<1>2. ASSUME NEW r \in Request, CommitSend(r)
      PROVE Rows'
  <2> DEFINE c == call[r]
  <2>0. PICK h \in Haul : h = c.haul /\ c \in HaulCall
    BY <1>2, Remembers DEF HaulOp, HaulCall, CommitSend, CommitApprove, CommitReject,
       CommitCancel, CommitReceive
  <2>1. /\ haul[h].status = "NONE" /\ c.from # c.to
        /\ KindOf[h] = "TO_WAREHOUSE" => c.from \in Mill
    BY <1>2, <2>0 DEF CommitSend, HaulOp, CallOK, HaulCall
  <2>2. bucket[h] = 0 /\ c.by # Nobody /\ c.bags \in Nat
    BY <2>0, <2>1 DEF RowOK, OnRoad, HaulCall
  <2>3. RowOK(h)'
    <3>1. haul'[h] = [status |-> IF KindOf[h] \in MillKind THEN "PENDING_APPROVAL" ELSE "IN_TRANSIT",
                      from |-> c.from, to |-> c.to, bags |-> c.bags, got |-> 0,
                      by |-> c.by, approver |-> Nobody,
                      after |-> {k \in Haul : haul[k].status # "NONE" /\ SameTable(h, k)}]
      BY <1>2, <2>0, <2>1 DEF CommitSend, TypeOK
    <3>2. bucket'[h] = IF KindOf[h] \in MillKind THEN 0 ELSE c.bags
      BY <1>2, <2>0, <2>1, <2>2 DEF CommitSend, Leave, TypeOK
    <3> QED  BY <2>0, <2>1, <2>2, <3>1, <3>2 DEF RowOK, OnRoad
  <2>4. ASSUME NEW k \in Haul, k # h PROVE haul'[k] = haul[k] /\ bucket'[k] = bucket[k]
    BY <1>2, <2>0, <2>1, <2>4 DEF CommitSend, Leave, TypeOK
  <2> QED  BY <2>3, <2>4 DEF Rows, RowOK, OnRoad
<1>3. ASSUME NEW r \in Request, CommitApprove(r) \/ CommitReject(r)
      PROVE Rows'
  <2> DEFINE c == call[r]
  <2>0. PICK h \in Haul : h = c.haul /\ c \in HaulCall
    BY <1>3, Remembers DEF HaulOp, HaulCall, CommitSend, CommitApprove, CommitReject,
       CommitCancel, CommitReceive
  <2>1. /\ haul[h] \in Row /\ KindOf[h] \in MillKind
        /\ c.by # haul[h].by
    BY <1>3, <2>0, RowThere DEF CommitApprove, CommitReject, HaulOp, CallOK, HaulCall
  <2>2. haul[h].status = "PENDING_APPROVAL"
    BY <1>3, <2>0, <2>1 DEF CommitApprove, CommitReject, Claimed, CallOK, MillKind
  <2>3. bucket[h] = 0 /\ c.by # Nobody /\ haul[h].bags \in Nat
    BY <2>0, <2>1, <2>2 DEF RowOK, OnRoad, HaulCall, Row
  <2>4. RowOK(h)'
    <3>1. CASE CommitApprove(r)
      <4>1. haul'[h] = [haul[h] EXCEPT !.status = "IN_TRANSIT", !.approver = c.by]
        BY <3>1, <2>0, <2>1 DEF CommitApprove, TypeOK
      <4>2. bucket'[h] = haul[h].bags
        BY <3>1, <2>0, <2>1, <2>3 DEF CommitApprove, Leave, TypeOK
      <4> QED  BY <2>0, <2>1, <2>2, <2>3, <4>1, <4>2, SMTT(20) DEF RowOK, OnRoad, Row
    <3>2. CASE CommitReject(r)
      <4>1. haul'[h] = [haul[h] EXCEPT !.status = "REJECTED", !.approver = c.by]
        BY <3>2, <2>0, <2>1 DEF CommitReject, TypeOK
      <4>2. bucket'[h] = 0
        BY <3>2, <2>3 DEF CommitReject
      <4> QED  BY <2>0, <2>1, <2>2, <2>3, <4>1, <4>2 DEF RowOK, OnRoad, Row
    <3> QED  BY <1>3, <3>1, <3>2
  <2>5. ASSUME NEW k \in Haul, k # h PROVE haul'[k] = haul[k] /\ bucket'[k] = bucket[k]
    BY <1>3, <2>0, <2>1, <2>5 DEF CommitApprove, CommitReject, Leave, TypeOK
  <2> QED  BY <2>4, <2>5 DEF Rows, RowOK, OnRoad
<1>4. ASSUME NEW r \in Request, CommitCancel(r) \/ CommitReceive(r)
      PROVE Rows'
  <2> DEFINE c == call[r]
  <2>0. PICK h \in Haul : h = c.haul /\ c \in HaulCall
    BY <1>4, Remembers DEF HaulOp, HaulCall, CommitSend, CommitApprove, CommitReject,
       CommitCancel, CommitReceive
  <2>1. haul[h] \in Row
    BY <1>4, <2>0, RowThere DEF CommitCancel, CommitReceive, HaulOp, CallOK, HaulCall
  <2>2. haul[h].bags \in Nat \ {0}
    BY <2>0, <2>1 DEF Row
  <2>3. RowOK(h)'
    <3>1. CASE CommitCancel(r)
      <4>1. haul'[h] = [haul[h] EXCEPT !.status = "CANCELLED"]
        BY <3>1, <2>0, <2>1 DEF CommitCancel, TypeOK
      <4>2. KindOf[h] # "STOCK" /\ haul[h].status = c.seen
        BY <3>1, <2>0, <2>1 DEF CommitCancel, Claimed, CallOK, MillKind
      <4>3. bucket'[h] = 0
        BY <3>1, <2>0, <2>1, <2>2, <4>2 DEF CommitCancel, Arrive, RowOK, OnRoad, TypeOK, CallOK
      <4>4. KindOf[h] \notin MillKind => KindOf[h] = "PADDY"
        BY <4>2, <2>0, <2>1, KindAndGood DEF Kind, MillKind
      <4>5. /\ haul'[h].status = "CANCELLED"
            /\ haul'[h].from = haul[h].from /\ haul'[h].to = haul[h].to
            /\ haul'[h].by = haul[h].by /\ haul'[h].approver = haul[h].approver
            /\ haul'[h].got = haul[h].got /\ haul'[h].bags = haul[h].bags
        BY <2>1, <4>1 DEF Row
      <4>6. haul[h].status # "NONE"
        BY <2>1 DEF Row, Status
      <4> QED  BY <4>2, <4>3, <4>4, <4>5, <4>6 DEF RowOK, OnRoad
    <3>2. CASE CommitReceive(r)
      <4>1. haul'[h] = [haul[h] EXCEPT !.status = "RECEIVED", !.got = c.bags]
        BY <3>2, <2>0, <2>1 DEF CommitReceive, TypeOK
      <4>2. haul[h].status = "IN_TRANSIT" /\ bucket'[h] = 0
        <5>1. bucket[h] >= haul[h].bags
          BY <3>2, <2>0 DEF CommitReceive, Arrive, InBucket
        <5>2. haul[h].status = "IN_TRANSIT"
          BY <2>0, <2>1, <2>2, <5>1 DEF RowOK, OnRoad
        <5> QED  BY <3>2, <2>0, <2>1, <2>2, <5>2 DEF CommitReceive, Arrive, RowOK, OnRoad, TypeOK
      <4>3. /\ haul'[h].status = "RECEIVED" /\ haul'[h].got = c.bags
            /\ haul'[h].from = haul[h].from /\ haul'[h].to = haul[h].to
            /\ haul'[h].by = haul[h].by /\ haul'[h].approver = haul[h].approver
            /\ haul'[h].bags = haul[h].bags
        BY <2>1, <4>1 DEF Row
      <4>4. c.bags <= haul[h].bags \/ KindOf[h] = "STOCK"
        BY <3>2, <2>0 DEF CommitReceive, CallOK
      <4> QED  BY <2>0, <4>2, <4>3, <4>4 DEF RowOK, OnRoad
    <3> QED  BY <1>4, <3>1, <3>2
  <2>4. ASSUME NEW k \in Haul, k # h PROVE haul'[k] = haul[k] /\ bucket'[k] = bucket[k]
    BY <1>4, <2>0, <2>1, <2>4 DEF CommitCancel, CommitReceive, Arrive, TypeOK
  <2> QED  BY <2>3, <2>4 DEF Rows, RowOK, OnRoad
<1> QED
  BY <1>1, <1>2, <1>3, <1>4 DEF Next, vars, AskSend, AskDecide, AskCancel, AskReceive,
     HaulRequest, AskHold, CommitHold, Fail, Deliver, Release, WriteOff

-----------------------------------------------------------------------------
(* What requests rest on. *)

Calls == \A r \in Request : CallOK(call[r])

\* A request that begins rests on what it read; the others still do.
LEMMA AskKeeps ==
  ASSUME IInv, NEW r \in Request, NEW c, CallOK(c),
         call' = [call EXCEPT ![r] = c], haul' = haul
  PROVE  Calls'
<1>1. ASSUME NEW q \in Request PROVE CallOK(call[q])'
  <2>1. call'[q] = call[q] \/ call'[q] = c
    BY DEF IInv, TypeOK
  <2> QED  BY <2>1 DEF IInv, CallOK
<1> QED  BY <1>1 DEF Calls

\* A request that ends and leaves in a row who asked and how much keeps
\* what the others rest on.
LEMMA EndKeeps ==
  ASSUME IInv, NEW r \in Request, EndCall(r), NEW h \in Haul,
         haul[h].status # "NONE", haul'[h].status # "NONE",
         haul'[h].by = haul[h].by, haul'[h].bags = haul[h].bags,
         \A k \in Haul : k # h => haul'[k] = haul[k]
  PROVE  Calls'
<1>1. ASSUME NEW q \in Request PROVE CallOK(call[q])'
  <2>1. CASE q = r
    BY <2>1 DEF EndCall, IInv, TypeOK, CallOK, Idle
  <2>2. CASE q # r /\ call[q].op \notin HaulOp
    BY <2>2 DEF EndCall, IInv, TypeOK, CallOK, HaulOp
  <2>3. CASE q # r /\ call[q].op \in HaulOp
    <3>1. call'[q] = call[q] /\ call[q].haul \in Haul
      BY <2>3, Remembers DEF EndCall, IInv, TypeOK, HaulCall
    <3> QED  BY <3>1 DEF IInv, CallOK
  <2> QED  BY <2>1, <2>2, <2>3
<1> QED  BY <1>1 DEF Calls

LEMMA CallStep ==
  ASSUME IInv, [Next]_vars
  PROVE  Calls'
<1> USE DEF IInv
<1>1. ASSUME NEW r \in Request, NEW u \in User, NEW h \in Haul,
             NEW from \in Place, NEW to \in Place, NEW n \in 1 .. MaxBags,
             AskSend(r, u, h, from, to, n)
      PROVE Calls'
  <2>1. from # to /\ (KindOf[h] = "TO_WAREHOUSE" => from \in Mill)
    BY <1>1 DEF AskSend, MaySend, MillEnds, MillKind, Place
  <2>2. CallOK([op |-> "send", by |-> u, haul |-> h, from |-> from, to |-> to,
                bags |-> n, seen |-> haul[h].status])
    BY <1>1, <2>1 DEF AskSend, CallOK
  <2> QED  BY <1>1, <2>2, AskKeeps DEF AskSend, HaulRequest
<1>2. ASSUME NEW r \in Request, NEW u \in User, NEW h \in Haul,
             NEW op \in {"approve", "reject"}, AskDecide(r, u, h, op)
      PROVE Calls'
  <2>1. CallOK([op |-> op, by |-> u, haul |-> h, from |-> haul[h].from, to |-> haul[h].to,
                bags |-> 0, seen |-> haul[h].status])
    BY <1>2 DEF AskDecide, MayDecide, CallOK
  <2> QED  BY <1>2, <2>1, AskKeeps DEF AskDecide, HaulRequest
<1>3. ASSUME NEW r \in Request, NEW u \in User, NEW h \in Haul, AskCancel(r, u, h)
      PROVE Calls'
  <2>1. CallOK([op |-> "cancel", by |-> u, haul |-> h, from |-> haul[h].from, to |-> haul[h].to,
                bags |-> 0, seen |-> haul[h].status])
    BY <1>3 DEF AskCancel, MayCancel, OnRoad, CallOK, MillKind
  <2> QED  BY <1>3, <2>1, AskKeeps DEF AskCancel, HaulRequest
<1>4. ASSUME NEW r \in Request, NEW u \in User, NEW h \in Haul,
             NEW got \in 0 .. MaxBags, AskReceive(r, u, h, got)
      PROVE Calls'
  <2>1. CallOK([op |-> "receive", by |-> u, haul |-> h, from |-> haul[h].from, to |-> haul[h].to,
                bags |-> got, seen |-> haul[h].status])
    BY <1>4 DEF AskReceive, MayReceive, OnRoad, CallOK
  <2> QED  BY <1>4, <2>1, AskKeeps DEF AskReceive, HaulRequest
<1>5. ASSUME NEW r \in Request, CommitSend(r)
      PROVE Calls'
  <2> DEFINE h == call[r].haul
  <2>1. call[r].op = "send" /\ EndCall(r) /\ haul[h].status = "NONE"
    BY <1>5 DEF CommitSend, CallOK
  <2>2. \A k \in Haul : k # h => haul'[k] = haul[k]
    BY <1>5 DEF CommitSend, TypeOK
  <2>3. ASSUME NEW q \in Request PROVE CallOK(call[q])'
    <3>1. CASE q = r
      BY <3>1, <2>1 DEF EndCall, TypeOK, CallOK, Idle
    <3>2. CASE q # r /\ call[q].op \notin HaulOp
      BY <3>2, <2>1 DEF EndCall, TypeOK, CallOK, HaulOp
    <3>3. CASE q # r /\ call[q].op \in HaulOp
      <4>1. call'[q] = call[q] /\ call[q].haul \in Haul
        BY <3>3, <2>1, Remembers DEF EndCall, TypeOK, HaulCall
      <4>2. call[q].haul # h
        BY <3>3, <2>1 DEF CallOK, OneSender, HaulOp
      <4> QED  BY <2>2, <4>1, <4>2 DEF CallOK
    <3> QED  BY <3>1, <3>2, <3>3
  <2> QED  BY <2>3 DEF Calls
<1>6. ASSUME NEW r \in Request,
             \/ CommitApprove(r) \/ CommitReject(r) \/ CommitCancel(r) \/ CommitReceive(r)
      PROVE Calls'
  <2> DEFINE h == call[r].haul
  <2>1. EndCall(r) /\ h \in Haul /\ haul[h].status # "NONE"
    BY <1>6, Remembers
    DEF CommitApprove, CommitReject, CommitCancel, CommitReceive, HaulOp, CallOK, HaulCall
  <2>2. haul[h] \in Row
    BY <2>1, RowThere
  <2>3. /\ haul'[h].status # "NONE"
        /\ haul'[h].by = haul[h].by /\ haul'[h].bags = haul[h].bags
        /\ \A k \in Haul : k # h => haul'[k] = haul[k]
    BY <1>6, <2>1, <2>2
    DEF CommitApprove, CommitReject, CommitCancel, CommitReceive, TypeOK, Row
  <2> QED  BY <2>1, <2>3, EndKeeps
<1>7. ASSUME NEW r \in Request, Fail(r) \/ CommitHold(r)
      PROVE Calls'
  <2>1. CallOK(Idle)
    BY DEF CallOK, Idle
  <2> QED  BY <1>7, <2>1, AskKeeps DEF Fail, CommitHold, EndCall
<1>8. ASSUME NEW r \in Request, NEW w \in Warehouse, NEW n \in 1 .. MaxBags,
             NEW m \in 0 .. MaxBags, AskHold(r, w, n, m)
      PROVE Calls'
  <2>1. CallOK([op |-> "hold", from |-> w, bags |-> n + m])
    BY DEF CallOK
  <2> QED  BY <1>8, <2>1, AskKeeps DEF AskHold
<1>9. CASE UNCHANGED <<haul, call>>
  BY <1>9 DEF Calls, CallOK
<1> QED
  BY <1>1, <1>2, <1>3, <1>4, <1>5, <1>6, <1>7, <1>8, <1>9
  DEF Next, vars, Deliver, Release, WriteOff

LEMMA SenderStep ==
  ASSUME IInv, [Next]_vars
  PROVE  OneSender'
<1> USE DEF IInv
<1>1. ASSUME NEW r \in Request, NEW u \in User, NEW h \in Haul,
             NEW from \in Place, NEW to \in Place, NEW n \in 1 .. MaxBags,
             AskSend(r, u, h, from, to, n)
      PROVE OneSender'
  <2>1. \A q \in Request : call[q].op = "send" => call[q] # Idle
    BY DEF Idle
  <2>2. \A q \in Request : call[q].op = "send" => call[q].haul # h
    BY <1>1, <2>1 DEF AskSend
  <2>3. /\ call'[r].haul = h
        /\ \A q \in Request : q # r => call'[q] = call[q]
    BY <1>1 DEF AskSend, HaulRequest, TypeOK
  <2> QED  BY <2>2, <2>3 DEF OneSender
<1>2. ASSUME NEW r \in Request, call'[r].op # "send",
             \A q \in Request : q # r => call'[q] = call[q]
      PROVE OneSender'
  BY <1>2 DEF OneSender
<1>3. CASE UNCHANGED call
  BY <1>3 DEF OneSender
<1>4. ASSUME NEW r \in Request, EndCall(r)
      PROVE OneSender'
  BY <1>2, <1>4 DEF EndCall, TypeOK, Idle
<1>5. ASSUME NEW r \in Request, NEW u \in User, NEW h \in Haul, NEW got \in 0 .. MaxBags,
             \/ AskDecide(r, u, h, "approve") \/ AskDecide(r, u, h, "reject")
             \/ AskCancel(r, u, h) \/ AskReceive(r, u, h, got)
      PROVE OneSender'
  BY <1>2, <1>5 DEF AskDecide, AskCancel, AskReceive, HaulRequest, TypeOK
<1>6. ASSUME NEW r \in Request, NEW w \in Warehouse, NEW n \in 1 .. MaxBags,
             NEW m \in 0 .. MaxBags, AskHold(r, w, n, m)
      PROVE OneSender'
  BY <1>2, <1>6 DEF AskHold, TypeOK
<1> QED
  <2>1. CASE \E r \in Request : EndCall(r)
    BY <2>1, <1>4
  <2>2. CASE \E r \in Request, u \in User, h \in Haul, op \in {"approve", "reject"} :
               AskDecide(r, u, h, op)
    <3>1. 0 \in 0 .. MaxBags
      OBVIOUS
    <3> QED  BY <2>2, <3>1, <1>5
  <2>3. CASE \E r \in Request, u \in User, h \in Haul : AskCancel(r, u, h)
    <3>1. 0 \in 0 .. MaxBags
      OBVIOUS
    <3> QED  BY <2>3, <3>1, <1>5
  <2>4. CASE \E r \in Request, u \in User, h \in Haul, got \in 0 .. MaxBags :
               AskReceive(r, u, h, got)
    BY <2>4, <1>5
  <2>5. CASE \E r \in Request, u \in User, h \in Haul :
               \E from, to \in Place, n \in 1 .. MaxBags : AskSend(r, u, h, from, to, n)
    BY <2>5, <1>1
  <2>6. CASE \E r \in Request, w \in Warehouse, n \in 1 .. MaxBags, m \in 0 .. MaxBags :
               AskHold(r, w, n, m)
    BY <2>6, <1>6
  <2> QED
    BY <2>1, <2>2, <2>3, <2>4, <2>5, <2>6, <1>3, ZenonT(30)
    DEF Next, vars, Deliver, Release, WriteOff, CommitSend, CommitApprove, CommitReject,
        CommitCancel, CommitReceive, CommitHold, Fail

-----------------------------------------------------------------------------
(* Packs that are chosen are there. *)

ChoicesOK == \A w \in Warehouse : ChoiceOK(w)

LEMMA ChoiceBags ==
  ASSUME TypeOK, NEW q \in Request, NEW w \in Warehouse, Chooses(q, w)
  PROVE  call[q].bags \in Nat
BY Remembers DEF Chooses, HaulOp, HaulCall, HoldCall

LEMMA ShelfType ==
  ASSUME TypeOK, NEW w \in Warehouse
  PROVE  stock[w]["packs"] \in Nat /\ reserved[w] \in Nat
BY DEF TypeOK, Place, Good

\* A step that takes no free packs, and after which nobody new has chosen.
LEMMA NoNewChoice ==
  ASSUME IInv, TypeOK', NEW w \in Warehouse, loose'[w] = loose[w],
         stock'[w]["packs"] - reserved'[w] >= stock[w]["packs"] - reserved[w],
         \A q \in Request : call'[q] = call[q] \/ call'[q].op \notin {"send", "hold"}
  PROVE  ChoiceOK(w)'
<1> USE DEF IInv
<1> SUFFICES ASSUME ~loose[w] PROVE ChoiceOK(w)'
  BY DEF ChoiceOK
<1>1. /\ stock[w]["packs"] \in Nat /\ reserved[w] \in Nat
      /\ stock'[w]["packs"] \in Nat /\ reserved'[w] \in Nat
  <2>1. (stock[w]["packs"] \in Nat /\ reserved[w] \in Nat)'
    BY DEF TypeOK, Place, Good
  <2> QED  BY <2>1, ShelfType
<1>2. \A q \in Request : Chooses(q, w)' => Chooses(q, w) /\ call'[q] = call[q]
  BY DEF Chooses
<1>3. ASSUME NEW q \in Request, Chooses(q, w)'
      PROVE reserved'[w] + call'[q].bags <= stock'[w]["packs"]
  <2>1. call[q].bags \in Nat /\ reserved[w] + call[q].bags <= stock[w]["packs"]
    BY <1>2, <1>3, ChoiceBags DEF ChoiceOK
  <2> QED  BY <1>1, <1>2, <1>3, <2>1
<1>4. reserved'[w] <= stock'[w]["packs"]
  BY <1>1 DEF ChoiceOK
<1>5. \A q, r \in Request : Chooses(q, w)' /\ Chooses(r, w)' => q = r
  BY <1>2 DEF ChoiceOK
<1> QED  BY <1>3, <1>4, <1>5 DEF ChoiceOK

\* Nobody had chosen yet from the free packs, and a request now has.
LEMMA NewChoice ==
  ASSUME IInv, NEW r \in Request, NEW c, call' = [call EXCEPT ![r] = c],
         NEW w \in Warehouse, UNCHANGED <<stock, reserved>>,
         c.bags \in Nat, Choosing(w, c.bags)
  PROVE  ChoiceOK(w)'
<1> USE DEF IInv
<1>1. loose'[w] = (loose[w] \/ c.bags > FreePacks(w) \/ \E q \in Request : Chooses(q, w))
  BY DEF Choosing, TypeOK
<1> SUFFICES ASSUME ~loose'[w] PROVE ChoiceOK(w)'
  BY DEF ChoiceOK
<1>2. ~loose[w] /\ ~(c.bags > FreePacks(w)) /\ \A q \in Request : ~Chooses(q, w)
  BY <1>1
<1>3. /\ call'[r] = c
      /\ \A q \in Request : q # r => call'[q] = call[q]
  BY DEF TypeOK
<1>4. \A q \in Request : Chooses(q, w)' => q = r
  BY <1>2, <1>3 DEF Chooses
<1>5. reserved[w] + c.bags <= stock[w]["packs"] /\ reserved[w] <= stock[w]["packs"]
  BY <1>2, ShelfType DEF FreePacks, ChoiceOK
<1> QED  BY <1>3, <1>4, <1>5 DEF ChoiceOK

\* A request takes the packs it alone has chosen: out of the warehouse, or
\* into what is promised there.
LEMMA Taken ==
  ASSUME IInv, TypeOK', NEW r \in Request, EndCall(r), NEW w \in Warehouse, Chooses(r, w),
         loose' = loose,
         stock'[w]["packs"] - reserved'[w] = stock[w]["packs"] - reserved[w] - call[r].bags
  PROVE  ChoiceOK(w)'
<1> USE DEF IInv
<1> SUFFICES ASSUME ~loose[w] PROVE ChoiceOK(w)'
  BY DEF ChoiceOK
<1>1. call'[r] = Idle /\ \A q \in Request : q # r => call'[q] = call[q]
  BY DEF EndCall, TypeOK
<1>2. \A q \in Request : ~Chooses(q, w)'
  <2>1. \A q \in Request : Chooses(q, w) => q = r
    BY DEF ChoiceOK
  <2> QED  BY <1>1, <2>1 DEF Chooses, Idle
<1>3. reserved'[w] <= stock'[w]["packs"]
  <2>1. (stock[w]["packs"] \in Nat /\ reserved[w] \in Nat)'
    BY DEF TypeOK, Place, Good
  <2>2. call[r].bags \in Nat /\ reserved[w] + call[r].bags <= stock[w]["packs"]
    BY ChoiceBags DEF ChoiceOK
  <2> QED  BY <2>1, <2>2, ShelfType
<1> QED  BY <1>2, <1>3 DEF ChoiceOK

LEMMA ChoiceStep ==
  ASSUME IInv, [Next]_vars, TypeOK'
  PROVE  ChoicesOK'
<1> USE DEF IInv
<1> SUFFICES ASSUME NEW w \in Warehouse PROVE ChoiceOK(w)'
  BY DEF ChoicesOK
<1>0. w \in Place /\ "packs" \in Good /\ stock[w]["packs"] \in Nat /\ reserved[w] \in Nat
  BY ShelfType DEF Place, Good
<1>1. ASSUME NEW r \in Request, NEW u \in User, NEW h \in Haul,
             NEW from \in Place, NEW to \in Place, NEW n \in 1 .. MaxBags,
             AskSend(r, u, h, from, to, n)
      PROVE ChoiceOK(w)'
  <2> DEFINE c == [op |-> "send", by |-> u, haul |-> h, from |-> from, to |-> to,
                   bags |-> n, seen |-> haul[h].status]
  <2>1. call' = [call EXCEPT ![r] = c] /\ UNCHANGED <<stock, reserved>>
    BY <1>1 DEF AskSend, HaulRequest
  <2>2. CASE KindOf[h] = "STOCK" /\ from = w
    <3>1. Choosing(w, c.bags) /\ c.bags \in Nat
      BY <1>1, <2>2 DEF AskSend
    <3> QED  BY <2>1, <3>1, NewChoice
  <2>3. CASE ~(KindOf[h] = "STOCK" /\ from = w)
    <3>1. loose'[w] = loose[w]
      BY <1>1, <2>3 DEF AskSend, Choosing, TypeOK
    <3>2. ~Chooses(r, w)' /\ \A q \in Request : q # r => call'[q] = call[q]
      BY <2>1, <2>3 DEF Chooses, TypeOK
    <3>3. \A q \in Request : Chooses(q, w)' => Chooses(q, w) /\ call'[q] = call[q]
      BY <3>2 DEF Chooses
    <3> QED  BY <2>1, <3>1, <3>3 DEF ChoiceOK
  <2> QED  BY <2>2, <2>3
<1>2. ASSUME NEW r \in Request, NEW u \in User, NEW h \in Haul, NEW got \in 0 .. MaxBags,
             \/ AskDecide(r, u, h, "approve") \/ AskDecide(r, u, h, "reject")
             \/ AskCancel(r, u, h) \/ AskReceive(r, u, h, got)
      PROVE ChoiceOK(w)'
  <2>1. UNCHANGED <<stock, reserved, loose>>
    BY <1>2 DEF AskDecide, AskCancel, AskReceive, HaulRequest
  <2>2. \A q \in Request : call'[q] = call[q] \/ call'[q].op \notin {"send", "hold"}
    BY <1>2 DEF AskDecide, AskCancel, AskReceive, HaulRequest, TypeOK
  <2> QED  BY <1>0, <2>1, <2>2, NoNewChoice
<1>3. ASSUME NEW r \in Request, EndCall(r), loose' = loose, reserved' = reserved,
             stock'[w]["packs"] \in Nat, stock'[w]["packs"] >= stock[w]["packs"]
      PROVE ChoiceOK(w)'
  <2>1. \A q \in Request : call'[q] = call[q] \/ call'[q].op \notin {"send", "hold"}
    BY <1>3 DEF EndCall, TypeOK, Idle
  <2> QED  BY <1>0, <1>3, <2>1, NoNewChoice
<1>4. ASSUME NEW r \in Request, CommitSend(r)
      PROVE ChoiceOK(w)'
  <2>0. PICK h \in Haul : h = call[r].haul /\ call[r] \in HaulCall
    BY <1>4, Remembers DEF HaulOp, HaulCall, CommitSend
  <2>1. CASE KindOf[h] = "STOCK" /\ call[r].from = w
    <3>1. Chooses(r, w) /\ GoodOf[h] = "packs" /\ KindOf[h] \notin MillKind
      BY <1>4, <2>0, <2>1 DEF CommitSend, Chooses, GoodOf, MillKind
    <3>2. stock'[w]["packs"] = stock[w]["packs"] - call[r].bags
      BY <1>0, <1>4, <2>0, <2>1, <3>1 DEF CommitSend, Leave, TypeOK
    <3>3. call[r].bags \in Nat
      BY <2>0 DEF HaulCall
    <3>4. EndCall(r) /\ loose' = loose /\ reserved' = reserved
      BY <1>4 DEF CommitSend
    <3>5. stock'[w]["packs"] - reserved'[w] = stock[w]["packs"] - reserved[w] - call[r].bags
      BY <1>0, <3>2, <3>3, <3>4
    <3> QED  BY <3>1, <3>4, <3>5, Taken
  <2>2. CASE ~(KindOf[h] = "STOCK" /\ call[r].from = w)
    <3>1. stock'[w]["packs"] = stock[w]["packs"]
      <4>1. CASE KindOf[h] \in MillKind
        BY <1>4, <2>0, <4>1 DEF CommitSend
      <4>2. CASE KindOf[h] \notin MillKind
        <5>1. KindOf[h] = "PADDY" => GoodOf[h] = "paddy"
          BY DEF GoodOf
        <5>2. call[r].from # w \/ GoodOf[h] = "paddy"
          BY <2>2, <4>2, <5>1, KindAndGood DEF Kind, MillKind
        <5> QED  BY <1>0, <1>4, <2>0, <4>2, <5>2 DEF CommitSend, Leave, TypeOK
      <4> QED  BY <4>1, <4>2
    <3> QED  BY <1>0, <1>3, <1>4, <3>1 DEF CommitSend
  <2> QED  BY <2>1, <2>2
<1>5. ASSUME NEW r \in Request, CommitApprove(r)
      PROVE ChoiceOK(w)'
  <2>0. PICK h \in Haul : h = call[r].haul /\ call[r] \in HaulCall
    BY <1>5, Remembers DEF HaulOp, HaulCall, CommitApprove
  <2>1. KindOf[h] \in MillKind /\ haul[h] \in Row /\ haul[h].status # "NONE"
    BY <1>5, <2>0, RowThere DEF CommitApprove, CallOK
  <2>2. GoodOf[h] = "paddy" \/ haul[h].from # w
    BY <2>1 DEF MillKind, GoodOf, RowOK
  <2>3. stock'[w]["packs"] = stock[w]["packs"]
    BY <1>0, <1>5, <2>0, <2>2 DEF CommitApprove, Leave, TypeOK
  <2> QED  BY <1>0, <1>3, <1>5, <2>3 DEF CommitApprove
<1>6. ASSUME NEW r \in Request, CommitReject(r) \/ Fail(r)
      PROVE ChoiceOK(w)'
  BY <1>0, <1>3, <1>6 DEF CommitReject, Fail
<1>7. ASSUME NEW h \in Haul, NEW to \in Place, NEW n \in Nat, Arrive(h, to, n)
      PROVE stock'[w]["packs"] \in Nat /\ stock'[w]["packs"] >= stock[w]["packs"]
  <2>1. CASE to = w /\ GoodOf[h] = "packs"
    <3>1. stock'[w]["packs"] = stock[w]["packs"] + n
      BY <1>0, <1>7, <2>1 DEF Arrive, TypeOK
    <3> QED  BY <1>0, <3>1
  <2>2. CASE ~(to = w /\ GoodOf[h] = "packs")
    <3>1. stock'[w]["packs"] = stock[w]["packs"]
      BY <1>0, <1>7, <2>2 DEF Arrive, TypeOK
    <3> QED  BY <1>0, <3>1
  <2> QED  BY <2>1, <2>2
<1>8. ASSUME NEW r \in Request, CommitCancel(r) \/ CommitReceive(r)
      PROVE ChoiceOK(w)'
  <2>0. PICK h \in Haul : h = call[r].haul /\ call[r] \in HaulCall
    BY <1>8, Remembers DEF HaulOp, HaulCall, CommitCancel, CommitReceive
  <2>1. haul[h] \in Row
    BY <1>8, <2>0, RowThere DEF CommitCancel, CommitReceive, CallOK
  <2>2. haul[h].to \in Place /\ haul[h].from \in Place /\ haul[h].bags \in Nat /\ call[r].bags \in Nat
    BY <2>0, <2>1 DEF Row, HaulCall
  <2>3. stock'[w]["packs"] \in Nat /\ stock'[w]["packs"] >= stock[w]["packs"]
    BY <1>0, <1>7, <1>8, <2>0, <2>2 DEF CommitCancel, CommitReceive
  <2> QED  BY <1>3, <1>8, <2>3 DEF CommitCancel, CommitReceive
<1>9. ASSUME NEW r \in Request, NEW v \in Warehouse, NEW n \in 1 .. MaxBags,
             NEW m \in 0 .. MaxBags, AskHold(r, v, n, m)
      PROVE ChoiceOK(w)'
  <2> DEFINE c == [op |-> "hold", from |-> v, bags |-> n + m]
  <2>1. call' = [call EXCEPT ![r] = c] /\ UNCHANGED <<stock, reserved>>
    BY <1>9 DEF AskHold
  <2>2. CASE v = w
    <3>1. Choosing(w, c.bags) /\ c.bags \in Nat
      BY <1>9, <2>2 DEF AskHold
    <3> QED  BY <2>1, <3>1, NewChoice
  <2>3. CASE v # w
    <3>1. loose'[w] = loose[w]
      BY <1>9, <2>3 DEF AskHold, Choosing, TypeOK
    <3>2. ~Chooses(r, w)' /\ \A q \in Request : q # r => call'[q] = call[q]
      BY <2>1, <2>3 DEF Chooses, TypeOK
    <3>3. \A q \in Request : Chooses(q, w)' => Chooses(q, w) /\ call'[q] = call[q]
      BY <3>2 DEF Chooses
    <3> QED  BY <2>1, <3>1, <3>3 DEF ChoiceOK
  <2> QED  BY <2>2, <2>3
<1>10. ASSUME NEW r \in Request, CommitHold(r)
       PROVE ChoiceOK(w)'
  <2>1. call[r] \in HoldCall /\ EndCall(r) /\ loose' = loose /\ stock' = stock
    BY <1>10, Remembers DEF CommitHold
  <2>2. CASE call[r].from = w
    <3>1. Chooses(r, w)
      BY <1>10, <2>2 DEF CommitHold, Chooses
    <3>2. reserved'[w] = reserved[w] + call[r].bags /\ call[r].bags \in Nat
      BY <1>10, <2>1, <2>2 DEF CommitHold, TypeOK, HoldCall
    <3> QED  BY <1>0, <2>1, <3>1, <3>2, Taken
  <2>3. CASE call[r].from # w
    <3>1. reserved'[w] = reserved[w]
      BY <1>10, <2>3 DEF CommitHold, TypeOK
    <3>2. \A q \in Request : call'[q] = call[q] \/ call'[q].op \notin {"send", "hold"}
      BY <2>1 DEF EndCall, TypeOK, Idle
    <3> QED  BY <1>0, <2>1, <3>1, <3>2, NoNewChoice
  <2> QED  BY <2>2, <2>3
<1>14. ASSUME NEW v \in Warehouse, NEW n \in 1 .. MaxBags, WriteOff(v, n)
       PROVE ChoiceOK(w)'
  <2>1. CASE v = w
    BY <1>14, <2>1 DEF WriteOff, TypeOK, ChoiceOK
  <2>2. CASE v # w
    <3>1. stock'[w]["packs"] = stock[w]["packs"] /\ loose'[w] = loose[w]
      BY <1>0, <1>14, <2>2 DEF WriteOff, TypeOK, Place
    <3>2. reserved' = reserved /\ call' = call
      BY <1>14 DEF WriteOff
    <3> QED  BY <1>0, <3>1, <3>2, NoNewChoice
  <2> QED  BY <2>1, <2>2
<1>11. ASSUME NEW v \in Warehouse, NEW n \in 1 .. 2 * MaxBags, Deliver(v, n) \/ Release(v, n)
       PROVE ChoiceOK(w)'
  <2>1. stock'[w]["packs"] - reserved'[w] >= stock[w]["packs"] - reserved[w]
    <3>1. CASE v # w
      BY <1>0, <1>11, <3>1 DEF Deliver, Release, TypeOK, Place
    <3>2. CASE v = w
      <4>1. reserved'[w] = reserved[w] - n
        BY <1>11, <3>2 DEF Deliver, Release, TypeOK
      <4>2. stock'[w]["packs"] = stock[w]["packs"] \/ stock'[w]["packs"] = stock[w]["packs"] - n
        BY <1>0, <1>11, <3>2 DEF Deliver, Release, TypeOK
      <4> QED  BY <1>0, <4>1, <4>2
    <3> QED  BY <3>1, <3>2
  <2> QED  BY <1>11, <2>1, NoNewChoice DEF Deliver, Release
<1>12. CASE UNCHANGED vars
  BY <1>0, <1>12, NoNewChoice DEF vars
<1>13. CASE \E r \in Request, u \in User, h \in Haul :
              \/ \E op \in {"approve", "reject"} : AskDecide(r, u, h, op)
              \/ AskCancel(r, u, h)
              \/ \E got \in 0 .. MaxBags : AskReceive(r, u, h, got)
  <2>1. 0 \in 0 .. MaxBags
    OBVIOUS
  <2> QED  BY <1>2, <1>13, <2>1
<1> QED
  BY <1>1, <1>4, <1>5, <1>6, <1>8, <1>9, <1>10, <1>11, <1>12, <1>13,
     <1>14 DEF Next

-----------------------------------------------------------------------------
(* The theorems. *)

\* The invariant of the three services holds in every reachable state: who
\* approved what, that a bucket holds what is on the road, and that what a
\* request has read is still enough for what it is about to do.
THEOREM TransitInductive == Spec => []IInv
<1>1. IInv /\ [Next]_vars => IInv'
  BY TypeStep, RowStep, CallStep, SenderStep, ChoiceStep
  DEF IInv, Rows, Calls, ChoicesOK
<1> QED  BY InitInv, <1>1, PTL DEF Spec

\* What a warehouse has promised to customers stays there, as long as no two
\* requests choose from its packs at once, no order asks in two lines for more
\* of a product than is free, and no adjustment writes packs off there
\* (StockTransfersService.create, SalesOrdersService.assignWarehouse).
THEOREM PromisedPacksNeverSent == Spec => []PromisedPacksStay
<1>1. IInv => PromisedPacksStay
  BY DEF IInv, ChoiceOK, PromisedPacksStay
<1> QED  BY TransitInductive, <1>1, PTL

-----------------------------------------------------------------------------
(* What the screens show. *)

\* A role that grants a permission is enough for it.
LEMMA RoleHolds ==
  ASSUME NEW u \in User, NEW roles, NEW permissions, NEW p \in permissions,
         HasRole(u, roles), \A role \in roles : Grants(role, p)
  PROVE  HoldsAny(u, permissions)
BY DEF HasRole, HoldsAny

\* What the roles of RULES may call: every step of a mill dispatch that names
\* a role is within a permission of that role, and so is looking at the list.
LEMMA RulesGranted ==
  /\ \A p \in {"milldispatch.approve", "milldispatch.view", "milldispatch.receive"} :
        Grants("WAREHOUSE_SUPERVISOR", p)
  /\ \A p \in {"milldispatch.request", "milldispatch.view", "milldispatch.receive"} :
        Grants("WAREHOUSE_MANAGER", p) /\ Grants("OPERATIONS_OFFICER", p)
  /\ \A p \in {"milldispatch.approve", "milldispatch.view"} : Grants("OPERATIONS_MANAGER", p)
<1>1. /\ \A p \in {"milldispatch.approve", "milldispatch.view", "milldispatch.receive"} :
            p \in WarehouseGrants["WAREHOUSE_SUPERVISOR"]
      /\ \A p \in {"milldispatch.request", "milldispatch.view", "milldispatch.receive"} :
            p \in WarehouseGrants["WAREHOUSE_MANAGER"]
      /\ {"WAREHOUSE_SUPERVISOR", "WAREHOUSE_MANAGER"} \subseteq DOMAIN WarehouseGrants
  BY DEF WarehouseGrants
<1>2. /\ \A p \in {"milldispatch.request", "milldispatch.view", "milldispatch.receive"} :
            p \in MillGrants["OPERATIONS_OFFICER"]
      /\ \A p \in {"milldispatch.approve", "milldispatch.view"} :
            p \in MillGrants["OPERATIONS_MANAGER"]
      /\ {"OPERATIONS_OFFICER", "OPERATIONS_MANAGER"} \subseteq DOMAIN MillGrants
  BY DEF MillGrants
<1> QED  BY <1>1, <1>2 DEF Grants

\* What the rules of a mill dispatch are, kind by kind and step by step.
LEMMA RuleValues ==
  /\ Rules("TO_MILL", "request") =
        {[roles |-> {"WAREHOUSE_MANAGER"}, at |-> "from"],
         [roles |-> {"OPERATIONS_OFFICER"}, at |-> "to"]}
  /\ Rules("TO_MILL", "approve") = {[roles |-> {"WAREHOUSE_SUPERVISOR"}, at |-> "from"]}
  /\ Rules("TO_MILL", "receive") = {[roles |-> {"OPERATIONS_OFFICER"}, at |-> "to"]}
  /\ Rules("TO_WAREHOUSE", "request") = {[roles |-> {"OPERATIONS_OFFICER"}, at |-> "from"]}
  /\ Rules("TO_WAREHOUSE", "approve") = {[roles |-> {"OPERATIONS_MANAGER"}, at |-> "from"]}
  /\ Rules("TO_WAREHOUSE", "receive") =
        {[roles |-> {"WAREHOUSE_MANAGER", "WAREHOUSE_SUPERVISOR"}, at |-> "to"]}
  BY DEF Rules

\* Where one rule is all there is, who it names may take the step at its end.
LEMMA OneRuleFrom ==
  ASSUME NEW u, NEW kind, NEW step, NEW from, NEW to, NEW R,
         Rules(kind, step) = {[roles |-> R, at |-> "from"]}
  PROVE  May(u, kind, step, from, to) <=> HasRole(u, R) /\ InScope(u, from)
<1> DEFINE rule == [roles |-> R, at |-> "from"]
<1>1. rule.roles = R /\ rule.at = "from" /\ ("to" = "from") = FALSE
  OBVIOUS
<1>2. May(u, kind, step, from, to) <=>
         HasRole(u, rule.roles) /\ InScope(u, IF rule.at = "from" THEN from ELSE to)
  <2>1. Rules(kind, step) = {rule}
    OBVIOUS
  <2> HIDE DEF rule
  <2> QED  BY <2>1, Zenon DEF May
<1> HIDE DEF rule
<1> QED  BY <1>1, <1>2, Zenon

LEMMA OneRuleTo ==
  ASSUME NEW u, NEW kind, NEW step, NEW from, NEW to, NEW R,
         Rules(kind, step) = {[roles |-> R, at |-> "to"]}
  PROVE  May(u, kind, step, from, to) <=> HasRole(u, R) /\ InScope(u, to)
<1> DEFINE rule == [roles |-> R, at |-> "to"]
<1>1. rule.roles = R /\ rule.at = "to" /\ ("to" = "from") = FALSE
  OBVIOUS
<1>2. May(u, kind, step, from, to) <=>
         HasRole(u, rule.roles) /\ InScope(u, IF rule.at = "from" THEN from ELSE to)
  <2>1. Rules(kind, step) = {rule}
    OBVIOUS
  <2> HIDE DEF rule
  <2> QED  BY <2>1, Zenon DEF May
<1> HIDE DEF rule
<1> QED  BY <1>1, <1>2, Zenon

\* The same, kind by kind and step by step; a request to a mill has two rules.
LEMMA MayValues ==
  ASSUME NEW u, NEW from, NEW to
  PROVE  /\ May(u, "TO_MILL", "request", from, to) <=>
               \/ HasRole(u, {"WAREHOUSE_MANAGER"}) /\ InScope(u, from)
               \/ HasRole(u, {"OPERATIONS_OFFICER"}) /\ InScope(u, to)
         /\ May(u, "TO_MILL", "approve", from, to) <=>
               HasRole(u, {"WAREHOUSE_SUPERVISOR"}) /\ InScope(u, from)
         /\ May(u, "TO_MILL", "receive", from, to) <=>
               HasRole(u, {"OPERATIONS_OFFICER"}) /\ InScope(u, to)
         /\ May(u, "TO_WAREHOUSE", "request", from, to) <=>
               HasRole(u, {"OPERATIONS_OFFICER"}) /\ InScope(u, from)
         /\ May(u, "TO_WAREHOUSE", "approve", from, to) <=>
               HasRole(u, {"OPERATIONS_MANAGER"}) /\ InScope(u, from)
         /\ May(u, "TO_WAREHOUSE", "receive", from, to) <=>
               HasRole(u, {"WAREHOUSE_MANAGER", "WAREHOUSE_SUPERVISOR"}) /\ InScope(u, to)
<1> DEFINE manager == [roles |-> {"WAREHOUSE_MANAGER"}, at |-> "from"]
           officer == [roles |-> {"OPERATIONS_OFFICER"}, at |-> "to"]
<1>1. ("from" = "from") = TRUE /\ ("to" = "from") = FALSE
  OBVIOUS
<1>2. May(u, "TO_MILL", "request", from, to) <=>
               \/ HasRole(u, {"WAREHOUSE_MANAGER"}) /\ InScope(u, from)
               \/ HasRole(u, {"OPERATIONS_OFFICER"}) /\ InScope(u, to)
  <2>1. /\ manager.roles = {"WAREHOUSE_MANAGER"} /\ manager.at = "from"
        /\ officer.roles = {"OPERATIONS_OFFICER"} /\ officer.at = "to"
    OBVIOUS
  <2>2. Rules("TO_MILL", "request") = {manager, officer}
    BY RuleValues
  <2> HIDE DEF manager, officer
  <2>3. May(u, "TO_MILL", "request", from, to) <=>
          \/ /\ HasRole(u, manager.roles)
             /\ InScope(u, IF manager.at = "from" THEN from ELSE to)
          \/ /\ HasRole(u, officer.roles)
             /\ InScope(u, IF officer.at = "from" THEN from ELSE to)
    BY <2>2, Zenon DEF May
  <2> QED  BY <1>1, <2>1, <2>3, Zenon
<1>3. May(u, "TO_MILL", "approve", from, to) <=>
               HasRole(u, {"WAREHOUSE_SUPERVISOR"}) /\ InScope(u, from)
  <2>1. Rules("TO_MILL", "approve") = {[roles |-> {"WAREHOUSE_SUPERVISOR"}, at |-> "from"]}
    BY RuleValues
  <2> QED  BY <2>1, OneRuleFrom
<1>4. May(u, "TO_MILL", "receive", from, to) <=>
               HasRole(u, {"OPERATIONS_OFFICER"}) /\ InScope(u, to)
  <2>1. Rules("TO_MILL", "receive") = {[roles |-> {"OPERATIONS_OFFICER"}, at |-> "to"]}
    BY RuleValues
  <2> QED  BY <2>1, OneRuleTo
<1>5. May(u, "TO_WAREHOUSE", "request", from, to) <=>
               HasRole(u, {"OPERATIONS_OFFICER"}) /\ InScope(u, from)
  <2>1. Rules("TO_WAREHOUSE", "request") = {[roles |-> {"OPERATIONS_OFFICER"}, at |-> "from"]}
    BY RuleValues
  <2> QED  BY <2>1, OneRuleFrom
<1>6. May(u, "TO_WAREHOUSE", "approve", from, to) <=>
               HasRole(u, {"OPERATIONS_MANAGER"}) /\ InScope(u, from)
  <2>1. Rules("TO_WAREHOUSE", "approve") = {[roles |-> {"OPERATIONS_MANAGER"}, at |-> "from"]}
    BY RuleValues
  <2> QED  BY <2>1, OneRuleFrom
<1>7. May(u, "TO_WAREHOUSE", "receive", from, to) <=>
               HasRole(u, {"WAREHOUSE_MANAGER", "WAREHOUSE_SUPERVISOR"}) /\ InScope(u, to)
  <2>1. Rules("TO_WAREHOUSE", "receive") = {[roles |-> {"WAREHOUSE_MANAGER", "WAREHOUSE_SUPERVISOR"}, at |-> "to"]}
    BY RuleValues
  <2> QED  BY <2>1, OneRuleTo
<1> QED  BY <1>2, <1>3, <1>4, <1>5, <1>6, <1>7, Zenon

\* Who may take a step of a mill dispatch holds its permission, sees it on
\* the list, and is at one of its ends.
LEMMA MayImplies ==
  ASSUME NEW u \in User, NEW kind \in MillKind, NEW from, NEW to
  PROVE  /\ May(u, kind, "request", from, to) =>
              /\ HoldsAny(u, {"milldispatch.request", "milldispatch.approve"})
              /\ HoldsAny(u, {"milldispatch.view"})
              /\ InScope(u, from) \/ InScope(u, to)
         /\ May(u, kind, "approve", from, to) <=>
              /\ HasRole(u, IF kind = "TO_MILL" THEN {"WAREHOUSE_SUPERVISOR"}
                            ELSE {"OPERATIONS_MANAGER"})
              /\ InScope(u, from)
         /\ May(u, kind, "approve", from, to) =>
              /\ HoldsAny(u, {"milldispatch.approve"})
              /\ HoldsAny(u, {"milldispatch.request", "milldispatch.approve"})
              /\ HoldsAny(u, {"milldispatch.view"})
         /\ May(u, kind, "receive", from, to) <=>
              /\ HasRole(u, IF kind = "TO_MILL" THEN {"OPERATIONS_OFFICER"}
                            ELSE {"WAREHOUSE_MANAGER", "WAREHOUSE_SUPERVISOR"})
              /\ InScope(u, to)
         /\ May(u, kind, "receive", from, to) =>
              /\ HoldsAny(u, {"milldispatch.receive"})
              /\ HoldsAny(u, {"milldispatch.view"})
<1>1. kind = "TO_MILL" \/ kind = "TO_WAREHOUSE"
  BY DEF MillKind
<1>2. May(u, kind, "request", from, to) =>
         \/ HasRole(u, {"WAREHOUSE_MANAGER"}) /\ InScope(u, from)
         \/ HasRole(u, {"OPERATIONS_OFFICER"}) /\ (InScope(u, to) \/ InScope(u, from))
  BY <1>1, MayValues
<1>3. May(u, kind, "approve", from, to) <=>
         /\ HasRole(u, IF kind = "TO_MILL" THEN {"WAREHOUSE_SUPERVISOR"}
                       ELSE {"OPERATIONS_MANAGER"})
         /\ InScope(u, from)
  BY <1>1, MayValues
<1>4. May(u, kind, "receive", from, to) <=>
         /\ HasRole(u, IF kind = "TO_MILL" THEN {"OPERATIONS_OFFICER"}
                       ELSE {"WAREHOUSE_MANAGER", "WAREHOUSE_SUPERVISOR"})
         /\ InScope(u, to)
  BY <1>1, MayValues
<1>5. ASSUME HasRole(u, {"WAREHOUSE_MANAGER"}) \/ HasRole(u, {"OPERATIONS_OFFICER"})
      PROVE  /\ HoldsAny(u, {"milldispatch.request", "milldispatch.approve"})
             /\ HoldsAny(u, {"milldispatch.view"}) /\ HoldsAny(u, {"milldispatch.receive"})
  BY <1>5, RulesGranted DEF HasRole, HoldsAny
<1>6. ASSUME HasRole(u, {"WAREHOUSE_SUPERVISOR"}) \/ HasRole(u, {"OPERATIONS_MANAGER"})
      PROVE  /\ HoldsAny(u, {"milldispatch.request", "milldispatch.approve"})
             /\ HoldsAny(u, {"milldispatch.view"}) /\ HoldsAny(u, {"milldispatch.approve"})
  BY <1>6, RulesGranted DEF HasRole, HoldsAny
<1>7. ASSUME HasRole(u, {"WAREHOUSE_MANAGER", "WAREHOUSE_SUPERVISOR"})
      PROVE  HoldsAny(u, {"milldispatch.view"}) /\ HoldsAny(u, {"milldispatch.receive"})
  BY <1>7, RulesGranted DEF HasRole, HoldsAny
<1> QED  BY <1>1, <1>2, <1>3, <1>4, <1>5, <1>6, <1>7

\* A row keeps its ends and who asked for it; a new one is that of its asker.
LEMMA AskersStep ==
  ASSUME IInv, AskersMay, [Next]_vars
  PROVE  AskersMay'
<1> USE DEF IInv
<1>1. ASSUME NEW r \in Request, NEW u \in User, NEW h \in Haul,
             NEW from \in Place, NEW to \in Place, NEW n \in 1 .. MaxBags,
             AskSend(r, u, h, from, to, n)
      PROVE AskersMay'
  <2>1. KindOf[h] \in MillKind => May(u, KindOf[h], "request", from, to)
    BY <1>1 DEF AskSend, MaySend, MillKind
  <2>2. /\ call'[r].by = u /\ call'[r].haul = h /\ call'[r].from = from /\ call'[r].to = to
        /\ haul' = haul /\ \A q \in Request : q # r => call'[q] = call[q]
    BY <1>1 DEF AskSend, HaulRequest, TypeOK
  <2> QED  BY <2>1, <2>2 DEF AskersMay, MayHaul
<1>2. ASSUME NEW r \in Request, call'[r].op # "send", haul' = haul,
             \A q \in Request : q # r => call'[q] = call[q]
      PROVE AskersMay'
  BY <1>2 DEF AskersMay, MayHaul
<1>3. CASE UNCHANGED <<haul, call>>
  BY <1>3 DEF AskersMay, MayHaul
<1>4. ASSUME NEW r \in Request, EndCall(r)
      PROVE  call'[r].op # "send" /\ \A q \in Request : q # r => call'[q] = call[q]
  BY <1>4 DEF EndCall, TypeOK, Idle
<1>5. ASSUME NEW r \in Request, NEW u \in User, NEW h \in Haul, NEW got \in 0 .. MaxBags,
             \/ AskDecide(r, u, h, "approve") \/ AskDecide(r, u, h, "reject")
             \/ AskCancel(r, u, h) \/ AskReceive(r, u, h, got)
      PROVE AskersMay'
  BY <1>2, <1>5 DEF AskDecide, AskCancel, AskReceive, HaulRequest, TypeOK
<1>6. ASSUME NEW r \in Request, NEW w \in Warehouse, NEW n \in 1 .. MaxBags,
             NEW m \in 0 .. MaxBags, AskHold(r, w, n, m)
      PROVE AskersMay'
  BY <1>2, <1>6 DEF AskHold, TypeOK
<1>7. ASSUME NEW r \in Request, CommitHold(r) \/ Fail(r)
      PROVE AskersMay'
  BY <1>2, <1>4, <1>7 DEF CommitHold, Fail
<1>8. ASSUME NEW r \in Request, CommitSend(r)
      PROVE AskersMay'
  <2>1. PICK c \in HaulCall : c = call[r] /\ c.op = "send"
    BY <1>8, Remembers DEF CommitSend, HaulOp
  <2>2. c.haul \in Haul
    BY DEF HaulCall
  <2>3. /\ haul'[c.haul].by = c.by /\ haul'[c.haul].from = c.from /\ haul'[c.haul].to = c.to
        /\ \A k \in Haul : k # c.haul => haul'[k] = haul[k]
    BY <1>8, <2>1, <2>2 DEF CommitSend, TypeOK
  <2>4. call'[r].op # "send" /\ \A q \in Request : q # r => call'[q] = call[q]
    BY <1>4, <1>8 DEF CommitSend
  <2>5. KindOf[c.haul] \in MillKind => May(c.by, KindOf[c.haul], "request", c.from, c.to)
    BY <2>1 DEF AskersMay
  <2> QED  BY <2>2, <2>3, <2>4, <2>5 DEF AskersMay, MayHaul
<1>9. ASSUME NEW r \in Request,
             \/ CommitApprove(r) \/ CommitReject(r) \/ CommitCancel(r) \/ CommitReceive(r)
      PROVE AskersMay'
  <2>1. PICK c \in HaulCall : c = call[r] /\ haul[c.haul].status # "NONE"
    BY <1>9, Remembers
    DEF CommitApprove, CommitReject, CommitCancel, CommitReceive, HaulOp, CallOK
  <2>2. c.haul \in Haul /\ haul[c.haul] \in Row
    BY <2>1, RowThere DEF HaulCall
  <2>3. /\ haul'[c.haul].by = haul[c.haul].by /\ haul'[c.haul].from = haul[c.haul].from
        /\ haul'[c.haul].to = haul[c.haul].to
        /\ \A k \in Haul : k # c.haul => haul'[k] = haul[k]
    BY <1>9, <2>1, <2>2
    DEF CommitApprove, CommitReject, CommitCancel, CommitReceive, TypeOK, Row
  <2>4. call'[r].op # "send" /\ \A q \in Request : q # r => call'[q] = call[q]
    BY <1>4, <1>9 DEF CommitApprove, CommitReject, CommitCancel, CommitReceive
  <2> QED  BY <2>1, <2>2, <2>3, <2>4 DEF AskersMay, MayHaul
<1> QED
  BY <1>1, <1>3, <1>5, <1>6, <1>7, <1>8, <1>9
  DEF Next, vars, Deliver, Release, WriteOff

\* One delivery and one person, a mill dispatch.
LEMMA MillListed ==
  ASSUME TypeOK, AskersMay, NEW u \in User, NEW h \in Haul,
         haul[h].status # "NONE", KindOf[h] \in MillKind
  PROVE  /\ MayDecide(u, h) \/ MayCancel(u, h) \/ MayReceive(u, h, 0) => Matches(u, h)
         /\ CanApprove(u, h) <=> MayDecide(u, h)
         /\ CanCancel(u, h) <=> MayCancel(u, h)
         /\ CanReceive(u, h) <=> MayReceive(u, h, 0)
         /\ HasCenter(u) /\ (MayDecide(u, h) \/ MayReceive(u, h, 0)) => Counted(u, h)
         /\ Counted(u, h) => MayDecide(u, h) \/ MayReceive(u, h, 0) \/ haul[h].by = u
<1> DEFINE from == haul[h].from
           to == haul[h].to
           asked == HoldsAny(u, {"milldispatch.request", "milldispatch.approve"})
<1>1. haul[h] \in Row /\ haul[h].by \in User /\ 0 <= haul[h].bags
  BY RowThere DEF Row
<1>2. KindOf[h] = "TO_MILL" \/ KindOf[h] = "TO_WAREHOUSE"
  BY DEF MillKind
<1>3. haul[h].by = u =>
         /\ asked /\ HoldsAny(u, {"milldispatch.view"})
         /\ InScope(u, from) \/ InScope(u, to)
  BY <1>1, MayImplies DEF AskersMay, MayHaul
<1>4. /\ MayHaul(u, h, "approve") <=>
            /\ HasRole(u, IF KindOf[h] = "TO_MILL" THEN {"WAREHOUSE_SUPERVISOR"}
                          ELSE {"OPERATIONS_MANAGER"})
            /\ InScope(u, from)
      /\ MayHaul(u, h, "approve") =>
            HoldsAny(u, {"milldispatch.approve"}) /\ asked /\ HoldsAny(u, {"milldispatch.view"})
      /\ MayHaul(u, h, "receive") <=>
            /\ HasRole(u, IF KindOf[h] = "TO_MILL" THEN {"OPERATIONS_OFFICER"}
                          ELSE {"WAREHOUSE_MANAGER", "WAREHOUSE_SUPERVISOR"})
            /\ InScope(u, to)
      /\ MayHaul(u, h, "receive") =>
            HoldsAny(u, {"milldispatch.receive"}) /\ HoldsAny(u, {"milldispatch.view"})
  BY MayImplies DEF MayHaul
<1>5. /\ Permission(KindOf[h], "approve") = {"milldispatch.approve"}
      /\ Permission(KindOf[h], "cancel") = {"milldispatch.request", "milldispatch.approve"}
      /\ Permission(KindOf[h], "receive") = {"milldispatch.receive"}
  BY <1>2 DEF Permission, MillKind
<1>6. Matches(u, h) <=> /\ HoldsAny(u, {"milldispatch.view"})
                        /\ \/ InScope(u, from) \/ InScope(u, to)
                           \/ HasRole(u, {"ADMIN", "MD", "CEO"})
  BY <1>2 DEF Matches, MillKind
<1>7. /\ MayDecide(u, h) <=> CanApprove(u, h)
      /\ MayCancel(u, h) <=> CanCancel(u, h)
      /\ MayReceive(u, h, 0) <=> CanReceive(u, h)
  <2>1. MayDecide(u, h) <=> CanApprove(u, h)
    BY <1>4, <1>5 DEF MayDecide, CanApprove
  <2>2. MayCancel(u, h) <=> CanCancel(u, h)
    BY <1>2, <1>3, <1>4, <1>5 DEF MayCancel, CanCancel, OnRoad
  <2>3. MayReceive(u, h, 0) <=> CanReceive(u, h)
    BY <1>1, <1>4, <1>5 DEF MayReceive, CanReceive
  <2> QED  BY <2>1, <2>2, <2>3
<1>8. CanApprove(u, h) \/ CanCancel(u, h) \/ CanReceive(u, h) => Matches(u, h)
  BY <1>3, <1>4, <1>6 DEF CanApprove, CanCancel, CanReceive
<1>9. CanApprove(u, h) \/ CanReceive(u, h) => Counted(u, h)
  <2>1. CanApprove(u, h) => Counted(u, h)
    BY <1>2, <1>4 DEF CanApprove, Counted
  <2>2. CanReceive(u, h) => Counted(u, h)
    BY <1>2, <1>4 DEF CanReceive, Counted
  <2> QED  BY <2>1, <2>2
<1>10. Counted(u, h) => CanApprove(u, h) \/ CanReceive(u, h) \/ haul[h].by = u
  BY <1>2, <1>4 DEF CanApprove, CanReceive, Counted
<1> HIDE DEF from, to, asked
<1> QED  BY <1>7, <1>8, <1>9, <1>10

\* The same of rice or paddy between warehouses.
LEMMA RoadListed ==
  ASSUME IInv, NEW u \in User, NEW h \in Haul,
         haul[h].status # "NONE", KindOf[h] \notin MillKind
  PROVE  /\ MayDecide(u, h) \/ MayCancel(u, h) \/ MayReceive(u, h, 0) => Matches(u, h)
         /\ KindOf[h] = "PADDY" /\ ~CutOff(u, h) =>
              /\ OffersCount(u, h) <=> MayReceive(u, h, 0)
              /\ MayCancel(u, h) => OffersCancel(u, h)
         /\ HasCenter(u) /\ (MayDecide(u, h) \/ MayReceive(u, h, 0)) => Counted(u, h)
         /\ Counted(u, h) => MayDecide(u, h) \/ MayReceive(u, h, 0) \/ haul[h].by = u
<1>1. haul[h] \in Row /\ 0 <= haul[h].bags /\ haul[h].status # "PENDING_APPROVAL"
  BY RowThere DEF IInv, Row, RowOK
<1>2. KindOf[h] = "STOCK" \/ KindOf[h] = "PADDY"
  BY KindAndGood DEF Kind, MillKind
<1>3. CASE KindOf[h] = "STOCK"
  BY <1>1, <1>3 DEF MayDecide, MayCancel, MayReceive, Matches, Counted, Permission, MillKind
<1>4. CASE KindOf[h] = "PADDY"
  <2>1. HoldsAny(u, {"warehouse.transfer"})
           => HoldsAny(u, {"warehouse.receive", "warehouse.transfer"})
    BY DEF HoldsAny
  <2>2. {"warehouse.transfer", "warehouse.receive"} = {"warehouse.receive", "warehouse.transfer"}
    OBVIOUS
  <2> QED  BY <1>1, <1>4, <2>1, <2>2
           DEF MayDecide, MayCancel, MayReceive, Listed, Matches, Counted, OffersCount, OffersCancel,
               Permission, MillKind, OnRoad
<1> QED  BY <1>2, <1>3, <1>4

\* Whoever may move a delivery on finds it on their list, unless it was cut off
\* by newer ones; the buttons are the steps the handlers would let them take,
\* and the tiles count their work, cut off or not.
THEOREM ListsAlwaysShowWork == Spec => []ListsShowWork
<1>1. Init => AskersMay
  BY DEF Init, AskersMay, NoRow, Idle
<1>2. IInv /\ AskersMay /\ [Next]_vars => AskersMay'
  BY AskersStep
<1>3. IInv /\ AskersMay => ListsShowWork
  <2> SUFFICES ASSUME IInv, AskersMay, NEW u \in User, NEW h \in Haul, haul[h].status # "NONE"
               PROVE  /\ ~CutOff(u, h) =>
                            /\ MayDecide(u, h) \/ MayCancel(u, h) \/ MayReceive(u, h, 0)
                                  => Listed(u, h)
                            /\ KindOf[h] = "PADDY" =>
                                  /\ OffersCount(u, h) <=> MayReceive(u, h, 0)
                                  /\ MayCancel(u, h) => OffersCancel(u, h)
                      /\ KindOf[h] \in MillKind =>
                            /\ CanApprove(u, h) <=> MayDecide(u, h)
                            /\ CanCancel(u, h) <=> MayCancel(u, h)
                            /\ CanReceive(u, h) <=> MayReceive(u, h, 0)
                      /\ HasCenter(u) /\ (MayDecide(u, h) \/ MayReceive(u, h, 0)) => Counted(u, h)
                      /\ Counted(u, h) => MayDecide(u, h) \/ MayReceive(u, h, 0) \/ haul[h].by = u
    BY DEF ListsShowWork
  <2>1. CASE KindOf[h] \in MillKind
    <3>1. KindOf[h] # "PADDY"
      BY <2>1 DEF MillKind
    <3> QED  BY <2>1, <3>1, MillListed DEF IInv, Listed
  <2>2. CASE KindOf[h] \notin MillKind
    BY <2>2, RoadListed DEF Listed
  <2> QED  BY <2>1, <2>2
<1> QED  BY TransitInductive, <1>1, <1>2, <1>3, PTL DEF Spec

-----------------------------------------------------------------------------
(* Transit implements Haulage. *)

LEMMA TripSame ==
  ASSUME NEW k \in Haul, haul'[k] = haul[k]
  PROVE  Trip'[k] = Trip[k]
BY DEF Trip, TripOf, Left, OnRoad

\* One delivery moves on, the others stay where they are.
LEMMA TripMoves ==
  ASSUME NEW h \in Haul, NEW t, TripOf(h)' = t,
         \A k \in Haul : k # h => haul'[k] = haul[k]
  PROVE  Trip' = [Trip EXCEPT ![h] = t]
<1>1. \A k \in Haul : k # h => Trip'[k] = Trip[k]
  BY TripSame
<1>2. Trip'[h] = t
  BY DEF Trip
<1> QED  BY <1>1, <1>2 DEF Trip

LEMMA TripStays ==
  ASSUME \A k \in Haul : TripOf(k)' = TripOf(k)
  PROVE  Trip' = Trip
BY DEF Trip

LEMMA RefinesInit == Init => Bags!Init
BY DEF Init, Bags!Init, Bags!Waiting, Trip, TripOf, Left, NoRow

\* Bags leave: the delivery is loaded.
LEMMA LeaveLoads ==
  ASSUME TypeOK, NEW h \in Haul, NEW from \in Place, NEW to \in Place, NEW n \in 1 .. MaxBags,
         Leave(h, from, n), from # to, ~Left(h),
         haul'[h].status = "IN_TRANSIT", haul'[h].from = from, haul'[h].to = to,
         haul'[h].bags = n, \A k \in Haul : k # h => haul'[k] = haul[k]
  PROVE  Bags!Next
<1>1. Trip[h] = Bags!Waiting
  BY DEF Trip, TripOf, Bags!Waiting
<1>2. TripOf(h)' = [at |-> "road", from |-> from, to |-> to, bags |-> n]
  BY DEF TripOf, Left, OnRoad
<1>3. Trip' = [Trip EXCEPT ![h] = [at |-> "road", from |-> from, to |-> to, bags |-> n]]
  BY <1>2, TripMoves
<1>4. Bags!Load(h, from, to, n)
  BY <1>1, <1>3 DEF Bags!Load, Bags!Less, Leave
<1> QED  BY <1>4 DEF Bags!Next

LEMMA RefinesStep ==
  ASSUME IInv, IInv', [Next]_vars
  PROVE  [Bags!Next]_<<stock, Trip>>
<1> USE DEF IInv
<1>1. CASE UNCHANGED <<stock, haul>>
  BY <1>1, TripStays DEF TripOf, Left, OnRoad
<1>2. ASSUME NEW r \in Request, CommitSend(r)
      PROVE [Bags!Next]_<<stock, Trip>>
  <2>0. PICK h \in Haul : h = call[r].haul /\ call[r] \in HaulCall
    BY <1>2, Remembers DEF HaulOp, HaulCall, CommitSend
  <2> DEFINE c == call[r]
  <2>1. haul[h].status = "NONE" /\ c.from # c.to /\ c.bags \in 1 .. MaxBags
    BY <1>2, <2>0 DEF CommitSend, CallOK, HaulCall
  <2>2. \A k \in Haul : k # h => haul'[k] = haul[k]
    BY <1>2, <2>0 DEF CommitSend, TypeOK
  <2>3. haul'[h] = [status |-> IF KindOf[h] \in MillKind THEN "PENDING_APPROVAL" ELSE "IN_TRANSIT",
                    from |-> c.from, to |-> c.to, bags |-> c.bags, got |-> 0,
                    by |-> c.by, approver |-> Nobody,
                    after |-> {k \in Haul : haul[k].status # "NONE" /\ SameTable(h, k)}]
    BY <1>2, <2>0 DEF CommitSend, TypeOK
  <2>4. CASE KindOf[h] \in MillKind
    <3>1. ~Left(h) /\ ~Left(h)'
      BY <2>1, <2>3, <2>4 DEF Left
    <3>2. \A k \in Haul : TripOf(k)' = TripOf(k)
      BY <2>2, <3>1 DEF TripOf, Left, OnRoad
    <3> QED  BY <1>2, <2>0, <2>4, <3>2, TripStays DEF CommitSend
  <2>5. CASE KindOf[h] \notin MillKind
    <3>1. Leave(h, c.from, c.bags) /\ c.from \in Place /\ c.to \in Place
      BY <1>2, <2>0, <2>5 DEF CommitSend, HaulCall
    <3>2. ~Left(h)
      BY <2>1 DEF Left
    <3>3. /\ haul'[h].status = "IN_TRANSIT" /\ haul'[h].from = c.from
          /\ haul'[h].to = c.to /\ haul'[h].bags = c.bags
      BY <2>3, <2>5
    <3> QED  BY <2>1, <2>2, <3>1, <3>2, <3>3, LeaveLoads
  <2> QED  BY <2>4, <2>5
<1>3. ASSUME NEW r \in Request, CommitApprove(r)
      PROVE [Bags!Next]_<<stock, Trip>>
  <2>0. PICK h \in Haul : h = call[r].haul /\ call[r] \in HaulCall
    BY <1>3, Remembers DEF HaulOp, HaulCall, CommitApprove
  <2>1. haul[h] \in Row /\ haul[h].status = "PENDING_APPROVAL"
    BY <1>3, <2>0, RowThere DEF CommitApprove, Claimed, CallOK, MillKind
  <2>2. haul[h].from # haul[h].to /\ ~Left(h)
    BY <2>1 DEF RowOK, Left
  <2>3. \A k \in Haul : k # h => haul'[k] = haul[k]
    BY <1>3, <2>0 DEF CommitApprove, TypeOK
  <2>4. haul'[h] = [haul[h] EXCEPT !.status = "IN_TRANSIT", !.approver = call[r].by]
    BY <1>3, <2>0 DEF CommitApprove, TypeOK
  <2>5. /\ haul'[h].status = "IN_TRANSIT" /\ haul'[h].from = haul[h].from
        /\ haul'[h].to = haul[h].to /\ haul'[h].bags = haul[h].bags
        /\ haul[h].from \in Place /\ haul[h].to \in Place /\ haul[h].bags \in 1 .. MaxBags
    BY <2>1, <2>4 DEF Row
  <2>6. Leave(h, haul[h].from, haul[h].bags)
    BY <1>3, <2>0 DEF CommitApprove
  <2> QED  BY <2>2, <2>3, <2>5, <2>6, LeaveLoads
<1>4. ASSUME NEW r \in Request, CommitReject(r)
      PROVE [Bags!Next]_<<stock, Trip>>
  <2>0. PICK h \in Haul : h = call[r].haul /\ call[r] \in HaulCall
    BY <1>4, Remembers DEF HaulOp, HaulCall, CommitReject
  <2>1. haul[h] \in Row /\ haul[h].status = "PENDING_APPROVAL"
    BY <1>4, <2>0, RowThere DEF CommitReject, Claimed, CallOK, MillKind
  <2>2. haul'[h].status = "REJECTED" /\ \A k \in Haul : k # h => haul'[k] = haul[k]
    BY <1>4, <2>0, <2>1 DEF CommitReject, TypeOK, Row
  <2>3. ~Left(h) /\ ~Left(h)'
    BY <2>1, <2>2 DEF Left
  <2>4. \A k \in Haul : TripOf(k)' = TripOf(k)
    BY <2>2, <2>3 DEF TripOf, Left, OnRoad
  <2> QED  BY <1>4, <2>4, TripStays DEF CommitReject
<1>5. ASSUME NEW r \in Request, CommitCancel(r)
      PROVE [Bags!Next]_<<stock, Trip>>
  <2>0. PICK h \in Haul : h = call[r].haul /\ call[r] \in HaulCall
    BY <1>5, Remembers DEF HaulOp, HaulCall, CommitCancel
  <2>1. /\ haul[h] \in Row /\ haul[h].status = call[r].seen /\ KindOf[h] # "STOCK"
        /\ \/ haul[h].status = "IN_TRANSIT"
           \/ KindOf[h] \in MillKind /\ haul[h].status = "PENDING_APPROVAL"
    BY <1>5, <2>0, RowThere DEF CommitCancel, Claimed, CallOK, MillKind
  <2>2. \A k \in Haul : k # h => haul'[k] = haul[k]
    BY <1>5, <2>0 DEF CommitCancel, TypeOK
  <2>3. haul'[h] = [haul[h] EXCEPT !.status = "CANCELLED"]
    BY <1>5, <2>0 DEF CommitCancel, TypeOK
  <2>4. /\ haul'[h].status = "CANCELLED" /\ haul'[h].from = haul[h].from
        /\ haul'[h].to = haul[h].to /\ haul'[h].bags = haul[h].bags
        /\ haul'[h].approver = haul[h].approver
    BY <2>1, <2>3 DEF Row
  <2>5. CASE haul[h].status = "IN_TRANSIT"
    <3>1. Arrive(h, haul[h].from, haul[h].bags)
      BY <1>5, <2>0, <2>1, <2>5 DEF CommitCancel
    <3>2. Left(h)'
      <4>1. KindOf[h] \in MillKind => haul[h].approver # Nobody
        BY <2>5 DEF RowOK
      <4>2. KindOf[h] \in MillKind \/ KindOf[h] = "PADDY"
        BY <2>1, KindAndGood DEF Kind, MillKind
      <4> QED  BY <2>4, <4>1, <4>2 DEF Left
    <3>3. Trip[h] = [at |-> "road", from |-> haul[h].from, to |-> haul[h].to, bags |-> haul[h].bags]
      BY <2>5 DEF Trip, TripOf, Left, OnRoad
    <3>4. TripOf(h)' = [Trip[h] EXCEPT !.at = "back"]
      BY <2>4, <3>2, <3>3 DEF TripOf, OnRoad
    <3>5. Trip' = [Trip EXCEPT ![h].at = "back"]
      BY <2>2, <3>4, TripMoves
    <3>6. Bags!TakeBack(h)
      BY <3>1, <3>3, <3>5 DEF Bags!TakeBack, Bags!More, Arrive
    <3>7. Trip[h].at = "road"
      BY <3>3
    <3> QED  BY <3>6, <3>7 DEF Bags!Next
  <2>6. CASE KindOf[h] \in MillKind /\ haul[h].status = "PENDING_APPROVAL"
    <3>1. ~Left(h) /\ ~Left(h)'
      BY <2>4, <2>6 DEF Left, RowOK, MillKind
    <3>2. \A k \in Haul : TripOf(k)' = TripOf(k)
      BY <2>2, <3>1 DEF TripOf, Left, OnRoad
    <3>3. stock' = stock
      BY <1>5, <2>1, <2>6 DEF CommitCancel
    <3> QED  BY <3>2, <3>3, TripStays
  <2> QED  BY <2>1, <2>5, <2>6
<1>6. ASSUME NEW r \in Request, CommitReceive(r)
      PROVE [Bags!Next]_<<stock, Trip>>
  <2>0. PICK h \in Haul : h = call[r].haul /\ call[r] \in HaulCall
    BY <1>6, Remembers DEF HaulOp, HaulCall, CommitReceive
  <2>1. haul[h] \in Row /\ Arrive(h, haul[h].to, call[r].bags) /\ call[r].bags \in 0 .. MaxBags
    BY <1>6, <2>0, RowThere DEF CommitReceive, CallOK, HaulCall
  <2>2. haul[h].status = "IN_TRANSIT"
    <3>1. haul[h].bags > 0 /\ bucket[h] >= haul[h].bags
      BY <2>1 DEF Arrive, InBucket, Row
    <3>2. bucket[h] = IF OnRoad(h) THEN haul[h].bags ELSE 0
      BY DEF RowOK
    <3> QED  BY <2>1, <3>1, <3>2 DEF OnRoad, Row
  <2>3. call[r].bags <= haul[h].bags \/ KindOf[h] = "STOCK"
    BY <1>6, <2>0 DEF CommitReceive, CallOK
  <2>4. \A k \in Haul : k # h => haul'[k] = haul[k]
    BY <1>6, <2>0 DEF CommitReceive, TypeOK
  <2>5. haul'[h] = [haul[h] EXCEPT !.status = "RECEIVED", !.got = call[r].bags]
    BY <1>6, <2>0 DEF CommitReceive, TypeOK
  <2>6. /\ haul'[h].status = "RECEIVED" /\ haul'[h].from = haul[h].from
        /\ haul'[h].to = haul[h].to /\ haul'[h].bags = haul[h].bags
    BY <2>1, <2>5 DEF Row
  <2>7. Trip[h] = [at |-> "road", from |-> haul[h].from, to |-> haul[h].to, bags |-> haul[h].bags]
    BY <2>2 DEF Trip, TripOf, Left, OnRoad
  <2>8. TripOf(h)' = [Trip[h] EXCEPT !.at = "there"]
    BY <2>6, <2>7 DEF TripOf, Left, OnRoad
  <2>9. Trip' = [Trip EXCEPT ![h].at = "there"]
    BY <2>4, <2>8, TripMoves
  <2>10. Bags!Unload(h, call[r].bags)
    BY <2>1, <2>3, <2>7, <2>9 DEF Bags!Unload, Bags!More, Arrive
  <2>11. Trip[h].at = "road"
    BY <2>7
  <2> QED  BY <2>1, <2>10, <2>11 DEF Bags!Next
<1>7. ASSUME NEW w \in Warehouse, NEW n \in 1 .. 2 * MaxBags, Deliver(w, n) \/ WriteOff(w, n)
      PROVE [Bags!Next]_<<stock, Trip>>
  <2>1. Trip' = Trip
    BY <1>7, TripStays DEF Deliver, WriteOff, TripOf, Left, OnRoad
  <2>2. w \in Place /\ "packs" \in {"packs"}
    BY DEF Place
  <2>3. stock[w]["packs"] >= n
    BY <1>7, ShelfType DEF Deliver, WriteOff
  <2>4. Bags!Sell(w, "packs", n)
    BY <1>7, <2>1, <2>3 DEF Deliver, WriteOff, Bags!Sell, Bags!Less
  <2> QED  BY <2>2, <2>4 DEF Bags!Next
<1>8. CASE \/ \E r \in Request, u \in User, h \in Haul :
                \/ \E from, to \in Place, n \in 1 .. MaxBags : AskSend(r, u, h, from, to, n)
                \/ \E op \in {"approve", "reject"} : AskDecide(r, u, h, op)
                \/ AskCancel(r, u, h)
                \/ \E got \in 0 .. MaxBags : AskReceive(r, u, h, got)
           \/ \E r \in Request : \E w \in Warehouse, n \in 1 .. MaxBags, m \in 0 .. MaxBags :
                 AskHold(r, w, n, m)
           \/ \E r \in Request : CommitHold(r) \/ Fail(r)
           \/ \E w \in Warehouse, n \in 1 .. 2 * MaxBags : Release(w, n)
           \/ UNCHANGED vars
  <2>1. UNCHANGED <<stock, haul>>
    BY <1>8 DEF AskSend, AskDecide, AskCancel, AskReceive, HaulRequest, AskHold,
       CommitHold, Fail, Release, vars
  <2> QED  BY <1>1, <2>1
<1>9. \A n \in 1 .. MaxBags : n \in 1 .. 2 * MaxBags
  OBVIOUS
<1> QED  BY <1>2, <1>3, <1>4, <1>5, <1>6, <1>7, <1>8, <1>9 DEF Next

\* Transit implements Haulage: whatever requests race, the bags of a delivery
\* leave once and arrive or go back once, in all three services.
THEOREM TransitImplementsHaulage == Spec => ImplementsHaulage
<1>1. IInv /\ IInv' /\ [Next]_vars => [Bags!Next]_Bags!haulageVars
  BY RefinesStep DEF Bags!haulageVars
<1> QED
  BY RefinesInit, TransitInductive, <1>1, PTL DEF Spec, ImplementsHaulage, Bags!Spec
-----------------------------------------------------------------------------
(* Sums.  SumFunctionOnSet adds a function up one member at a time, in an   *)
(* order that nobody knows.  Over naturals that is to count units: f[x] for *)
(* each x.  What holds of sums is then a matter of finite sets.             *)

Pick(s) == CHOOSE x \in s : TRUE
Plus(m, n) == m + n
\* h adds f up over each part of S, as the fold does.
Adds(h, f, S) ==
    h = [s \in SUBSET S |-> IF s = {} THEN 0 ELSE Plus(f[Pick(s)], h[s \ {Pick(s)}])]
Units(f, S) == UNION {{x} \X (1 .. f[x]) : x \in S}

LEMMA SumIs ==
  ASSUME NEW f, NEW S
  PROVE  SumFunctionOnSet(f, S) = (CHOOSE h : Adds(h, f, S))[S]
BY DEF SumFunctionOnSet, FoldFunctionOnSet, MapThenFoldSet, Adds, Pick, Plus

\* There is only one such h.
LEMMA AddsOnce ==
  ASSUME NEW f, NEW S, IsFiniteSet(S), NEW g, NEW h, Adds(g, f, S), Adds(h, f, S)
  PROVE  g[S] = h[S]
<1> DEFINE Bad == {A \in SUBSET S : g[A] # h[A]}
<1> SUFFICES ASSUME Bad # {} PROVE FALSE
  OBVIOUS
<1>1. IsWellFoundedOn(StrictSubsetOrdering(S), SUBSET S)
  BY FS_FiniteSubsetsOfFinite, FS_StrictSubsetOrderingWellFounded
<1>2. PICK A \in Bad : \A B \in Bad : <<B, A>> \notin StrictSubsetOrdering(S)
  <2>1. Bad \subseteq SUBSET S
    OBVIOUS
  <2> HIDE DEF Bad
  <2> QED  BY <1>1, <2>1, WFMin
<1>3. A # {}
  BY DEF Adds
<1>4. PICK B : B = A \ {Pick(A)}
  OBVIOUS
<1>5. B \in SUBSET S /\ <<B, A>> \in StrictSubsetOrdering(S)
  BY <1>3, <1>4 DEF Pick, StrictSubsetOrdering
<1>6. g[B] = h[B]
  BY <1>2, <1>5
<1>7. g[A] = Plus(f[Pick(A)], g[B]) /\ h[A] = Plus(f[Pick(A)], h[B])
  BY <1>3, <1>4 DEF Adds
<1> QED  BY <1>6, <1>7

LEMMA DisjointUnion ==
  ASSUME NEW A, NEW B, IsFiniteSet(A), IsFiniteSet(B), A \cap B = {}
  PROVE  Cardinality(A \cup B) = Cardinality(A) + Cardinality(B)
<1>1. Cardinality(A) \in Nat /\ Cardinality(B) \in Nat /\ Cardinality(A \cap B) = 0
  BY FS_EmptySet, FS_CardinalityType
<1>2. Cardinality(A \cup B) = Cardinality(A) + Cardinality(B) - Cardinality(A \cap B)
  BY FS_Union
<1> QED  BY <1>1, <1>2

LEMMA UnitsOfOne ==
  ASSUME NEW f, NEW x, f[x] \in Nat
  PROVE  IsFiniteSet(Units(f, {x})) /\ Cardinality(Units(f, {x})) = f[x]
<1>1. Units(f, {x}) = {x} \X (1 .. f[x])
  BY DEF Units
<1>2. IsFiniteSet({x}) /\ Cardinality({x}) = 1
  BY FS_Singleton
<1>3. IsFiniteSet(1 .. f[x]) /\ Cardinality(1 .. f[x]) = f[x]
  BY FS_Interval, SMTT(20)
<1>4. /\ IsFiniteSet({x} \X (1 .. f[x]))
      /\ Cardinality({x} \X (1 .. f[x])) = Cardinality({x}) * Cardinality(1 .. f[x])
  BY <1>2, <1>3, FS_Product
<1>5. 1 * f[x] = f[x]
  OBVIOUS
<1> QED  BY <1>1, <1>2, <1>3, <1>4, <1>5

LEMMA UnitsFinite ==
  ASSUME NEW f, NEW S, IsFiniteSet(S), \A x \in S : f[x] \in Nat
  PROVE  IsFiniteSet(Units(f, S))
<1> DEFINE g == [x \in S |-> {x} \X (1 .. f[x])]
           R == {g[x] : x \in S}
<1>1. g \in Surjection(S, R)
  BY DEF Surjection
<1>2. IsFiniteSet(R)
  BY <1>1, FS_Surjection
<1>3. ASSUME NEW T \in R PROVE IsFiniteSet(T)
  <2>1. PICK x \in S : T = Units(f, {x})
    BY DEF Units
  <2> QED  BY <2>1, UnitsOfOne
<1>4. Units(f, S) = UNION R
  BY DEF Units
<1> QED  BY <1>2, <1>3, <1>4, FS_UNION

\* Two parts of a set have no unit in common.
LEMMA UnitsSplit ==
  ASSUME NEW f, NEW S, IsFiniteSet(S), \A x \in S : f[x] \in Nat, NEW T \in SUBSET S
  PROVE  /\ Cardinality(Units(f, S)) = Cardinality(Units(f, T)) + Cardinality(Units(f, S \ T))
         /\ Cardinality(Units(f, T)) \in Nat /\ Cardinality(Units(f, S \ T)) \in Nat
<1>1. IsFiniteSet(Units(f, T)) /\ IsFiniteSet(Units(f, S \ T))
  <2>1. IsFiniteSet(T) /\ IsFiniteSet(S \ T)
    BY FS_Subset, FS_Difference
  <2> QED  BY <2>1, UnitsFinite
<1>2. Units(f, S) = Units(f, T) \cup Units(f, S \ T) /\ Units(f, T) \cap Units(f, S \ T) = {}
  BY DEF Units
<1>3. PICK A, B : A = Units(f, T) /\ B = Units(f, S \ T)
  OBVIOUS
<1>4. IsFiniteSet(A) /\ IsFiniteSet(B) /\ A \cap B = {} /\ Units(f, S) = A \cup B
  BY <1>1, <1>2, <1>3
<1>5. Cardinality(A \cup B) = Cardinality(A) + Cardinality(B)
  BY <1>4, DisjointUnion
<1>6. Cardinality(A) \in Nat /\ Cardinality(B) \in Nat
  BY <1>4, FS_CardinalityType
<1> QED  BY <1>3, <1>4, <1>5, <1>6

LEMMA SumCounts ==
  ASSUME NEW f, NEW S, IsFiniteSet(S), \A x \in S : f[x] \in Nat
  PROVE  SumFunctionOnSet(f, S) = Cardinality(Units(f, S))
<1> DEFINE H == [A \in SUBSET S |-> Cardinality(Units(f, A))]
           K == [A \in SUBSET S |-> IF A = {} THEN 0 ELSE Plus(f[Pick(A)], H[A \ {Pick(A)}])]
<1>1. ASSUME NEW A \in SUBSET S PROVE H[A] = K[A]
  <2>1. CASE A = {}
    <3>1. Units(f, A) = {}
      BY <2>1 DEF Units
    <3> QED  BY <2>1, <3>1, FS_EmptySet
  <2>2. CASE A # {}
    <3>1. PICK p : p = Pick(A)
      OBVIOUS
    <3>2. p \in A /\ IsFiniteSet(A) /\ {p} \in SUBSET A /\ A \ {p} \in SUBSET S /\ f[p] \in Nat
      BY <2>2, <3>1, FS_Subset DEF Pick
    <3>3. Cardinality(Units(f, A)) = f[p] + Cardinality(Units(f, A \ {p}))
      <4>1. Cardinality(Units(f, {p})) = f[p]
        BY <3>2, UnitsOfOne
      <4>2. \A x \in A : f[x] \in Nat
        OBVIOUS
      <4>3. Cardinality(Units(f, A)) = Cardinality(Units(f, {p})) + Cardinality(Units(f, A \ {p}))
        BY <3>2, <4>2, UnitsSplit
      <4> QED  BY <4>1, <4>3
    <3> QED  BY <2>2, <3>1, <3>2, <3>3 DEF Plus
  <2> QED  BY <2>1, <2>2
<1>2. H = [A \in SUBSET S |-> H[A]] /\ K = [A \in SUBSET S |-> K[A]]
  OBVIOUS
<1>3. H = K
  <2> HIDE DEF H, K
  <2>1. [A \in SUBSET S |-> H[A]] = [A \in SUBSET S |-> K[A]]
    BY <1>1
  <2> QED  BY <1>2, <2>1
<1>4. PICK h : h = H
  OBVIOUS
<1>5. Adds(h, f, S)
  BY <1>3, <1>4 DEF Adds
<1>6. PICK g : g = CHOOSE k : Adds(k, f, S)
  OBVIOUS
<1>7. Adds(g, f, S)
  BY <1>5, <1>6
<1>8. g[S] = h[S] /\ h[S] = Cardinality(Units(f, S))
  BY <1>4, <1>5, <1>7, AddsOnce
<1> QED  BY <1>6, <1>8, SumIs

LEMMA SumSplit ==
  ASSUME NEW f, NEW S, IsFiniteSet(S), \A x \in S : f[x] \in Nat, NEW T \in SUBSET S
  PROVE  /\ SumFunctionOnSet(f, S) = SumFunctionOnSet(f, T) + SumFunctionOnSet(f, S \ T)
         /\ SumFunctionOnSet(f, T) \in Nat /\ SumFunctionOnSet(f, S \ T) \in Nat
<1>1. IsFiniteSet(T) /\ IsFiniteSet(S \ T)
  BY FS_Subset, FS_Difference
<1>2. /\ SumFunctionOnSet(f, S) = Cardinality(Units(f, S))
      /\ SumFunctionOnSet(f, T) = Cardinality(Units(f, T))
      /\ SumFunctionOnSet(f, S \ T) = Cardinality(Units(f, S \ T))
  <2>1. (\A x \in T : f[x] \in Nat) /\ \A x \in S \ T : f[x] \in Nat
    OBVIOUS
  <2> QED  BY <1>1, <2>1, SumCounts
<1> QED  BY <1>2, UnitsSplit

LEMMA SumOne ==
  ASSUME NEW f, NEW x, f[x] \in Nat
  PROVE  SumFunctionOnSet(f, {x}) = f[x]
<1>1. IsFiniteSet({x}) /\ \A y \in {x} : f[y] \in Nat
  BY FS_Singleton
<1>2. SumFunctionOnSet(f, {x}) = Cardinality(Units(f, {x}))
  BY <1>1, SumCounts
<1> QED  BY <1>2, UnitsOfOne

\* Functions that agree have the same sum.
LEMMA SumSame ==
  ASSUME NEW f, NEW g, NEW S, IsFiniteSet(S), \A x \in S : f[x] \in Nat /\ g[x] = f[x]
  PROVE  SumFunctionOnSet(f, S) = SumFunctionOnSet(g, S)
<1>1. Units(f, S) = Units(g, S)
  BY DEF Units
<1>2. SumFunctionOnSet(f, S) = Cardinality(Units(f, S))
  BY SumCounts
<1>3. SumFunctionOnSet(g, S) = Cardinality(Units(g, S))
  BY SumCounts
<1> QED  BY <1>1, <1>2, <1>3

\* Zeros do not count.
LEMMA SumZero ==
  ASSUME NEW f, NEW S, \A x \in S : f[x] = 0, IsFiniteSet(S)
  PROVE  SumFunctionOnSet(f, S) = 0
<1>1. Units(f, S) = {}
  BY DEF Units
<1>2. \A x \in S : f[x] \in Nat
  OBVIOUS
<1>3. SumFunctionOnSet(f, S) = Cardinality(Units(f, S))
  BY ONLY IsFiniteSet(S), <1>2, SumCounts
<1> QED  BY <1>1, <1>3, FS_EmptySet

\* The sum of two functions.
LEMMA SumPlus ==
  ASSUME NEW f, NEW g, NEW h, NEW S, IsFiniteSet(S),
         \A x \in S : f[x] \in Nat /\ g[x] \in Nat /\ h[x] = f[x] + g[x]
  PROVE  SumFunctionOnSet(h, S) = SumFunctionOnSet(f, S) + SumFunctionOnSet(g, S)
<1> DEFINE U == {<<u[1], f[u[1]] + u[2]>> : u \in Units(g, S)}
           c == [u \in Units(g, S) |-> <<u[1], f[u[1]] + u[2]>>]
<1>1. Units(h, S) = Units(f, S) \cup U /\ Units(f, S) \cap U = {}
  <2>1. ASSUME NEW x \in S, NEW k \in 1 .. h[x], k \notin 1 .. f[x] PROVE <<x, k>> \in U
    <3>1. k - f[x] \in 1 .. g[x] /\ k = f[x] + (k - f[x])
      BY <2>1
    <3>2. <<x, k - f[x]>> \in Units(g, S)
      BY <3>1 DEF Units
    <3> QED  BY <3>1, <3>2
  <2>2. ASSUME NEW w \in U PROVE w \in Units(h, S) /\ w \notin Units(f, S)
    <3>1. PICK x, k : x \in S /\ k \in 1 .. g[x] /\ w = <<x, f[x] + k>>
      BY DEF Units
    <3>2. f[x] + k \in 1 .. h[x] /\ f[x] + k \notin 1 .. f[x]
      BY <3>1
    <3> QED  BY <3>1, <3>2 DEF Units
  <2>3. \A x \in S : 1 .. f[x] \subseteq 1 .. h[x]
    OBVIOUS
  <2> HIDE DEF U
  <2> QED  BY <2>1, <2>2, <2>3 DEF Units
<1>2. IsFiniteSet(Units(f, S)) /\ IsFiniteSet(Units(g, S))
  BY UnitsFinite
<1>3. c \in Bijection(Units(g, S), U)
  <2>1. ASSUME NEW u \in Units(g, S), NEW v \in Units(g, S), c[u] = c[v] PROVE u = v
    <3>1. PICK x, k : x \in S /\ k \in 1 .. g[x] /\ u = <<x, k>>
      BY DEF Units
    <3>2. PICK y, l : y \in S /\ l \in 1 .. g[y] /\ v = <<y, l>>
      BY DEF Units
    <3>3. x = y /\ f[x] + k = f[y] + l
      BY <2>1, <3>1, <3>2
    <3> QED  BY <3>1, <3>2, <3>3
  <2> QED  BY <2>1 DEF Bijection, Injection, Surjection, IsInjective
<1>4. IsFiniteSet(U) /\ Cardinality(U) = Cardinality(Units(g, S))
  BY <1>2, <1>3, FS_Bijection DEF ExistsBijection
<1>5. Cardinality(Units(h, S)) = Cardinality(Units(f, S)) + Cardinality(Units(g, S))
  <2> HIDE DEF U
  <2>1. Cardinality(Units(f, S) \cup U) = Cardinality(Units(f, S)) + Cardinality(U)
    BY <1>1, <1>2, <1>4, DisjointUnion
  <2> QED  BY <1>1, <1>4, <2>1
<1> QED  BY <1>5, SumCounts

LEMMA SumIsNat ==
  ASSUME NEW f, NEW S, IsFiniteSet(S), \A x \in S : f[x] \in Nat
  PROVE  SumFunctionOnSet(f, S) \in Nat
BY SumCounts, UnitsFinite, FS_CardinalityType

\* The sum of what is only written down for the set.
LEMMA SumOf ==
  ASSUME NEW f, NEW S, IsFiniteSet(S), \A x \in S : f[x] \in Nat
  PROVE  SumFunction([x \in S |-> f[x]]) = SumFunctionOnSet(f, S)
<1> DEFINE g == [x \in S |-> f[x]]
<1>1. DOMAIN g = S /\ \A x \in S : g[x] = f[x]
  OBVIOUS
<1> HIDE DEF g
<1>2. SumFunctionOnSet(f, S) = SumFunctionOnSet(g, S)
  BY <1>1, SumSame
<1>3. SumFunction(g) = SumFunctionOnSet(g, S)
  BY <1>1 DEF SumFunction
<1> QED  BY <1>2, <1>3 DEF g

-----------------------------------------------------------------------------
(* Every bag of paddy is somewhere. *)

\* A sum of which one term changes.
LEMMA SumMoves ==
  ASSUME NEW f, NEW g, NEW S, IsFiniteSet(S), NEW x \in S,
         \A y \in S : f[y] \in Nat, \A y \in S : g[y] \in Nat, \A y \in S : y # x => g[y] = f[y]
  PROVE  SumFunctionOnSet(g, S) + f[x] = SumFunctionOnSet(f, S) + g[x]
<1>1. PICK T : T = S \ {x}
  OBVIOUS
<1>2. {x} \in SUBSET S /\ IsFiniteSet(T) /\ \A y \in T : f[y] \in Nat /\ g[y] = f[y]
  BY <1>1, FS_Subset
<1>3. SumFunctionOnSet(f, S) = SumFunctionOnSet(f, {x}) + SumFunctionOnSet(f, T)
  BY <1>1, <1>2, SumSplit
<1>4. SumFunctionOnSet(g, S) = SumFunctionOnSet(g, {x}) + SumFunctionOnSet(g, T)
  BY <1>1, <1>2, SumSplit
<1>5. SumFunctionOnSet(f, {x}) = f[x] /\ SumFunctionOnSet(g, {x}) = g[x]
  BY SumOne
<1>6. SumFunctionOnSet(f, T) = SumFunctionOnSet(g, T) /\ SumFunctionOnSet(f, T) \in Nat
  BY <1>2, SumSame, SumIsNat
<1> QED  BY <1>3, <1>4, <1>5, <1>6

\* A sum over the only terms that are not zero.
LEMMA SumWhere ==
  ASSUME NEW f, NEW S, IsFiniteSet(S), \A x \in S : f[x] \in Nat,
         NEW T \in SUBSET S, \A x \in S \ T : f[x] = 0
  PROVE  SumFunction([x \in T |-> f[x]]) = SumFunctionOnSet(f, S)
<1>1. IsFiniteSet(T) /\ IsFiniteSet(S \ T) /\ \A x \in T : f[x] \in Nat
  BY FS_Subset, FS_Difference
<1>2. SumFunction([x \in T |-> f[x]]) = SumFunctionOnSet(f, T)
  BY <1>1, SumOf
<1>3. SumFunctionOnSet(f, S \ T) = 0
  BY <1>1, SumZero
<1>4. /\ SumFunctionOnSet(f, S) = SumFunctionOnSet(f, T) + SumFunctionOnSet(f, S \ T)
      /\ SumFunctionOnSet(f, T) \in Nat /\ SumFunctionOnSet(f, S \ T) \in Nat
  BY SumSplit
<1> QED  BY ONLY <1>2, <1>3, <1>4

\* Bags of paddy that have left a place and are in no other: on the road, or
\* short when they were counted.
Gone(h, row) ==
    IF GoodOf[h] # "paddy" THEN 0
    ELSE CASE row.status = "IN_TRANSIT" -> row.bags
           [] row.status = "RECEIVED" -> row.bags - row.got
           [] OTHER -> 0
There == [p \in Place |-> stock[p]["paddy"]]
Away == [h \in Haul |-> Gone(h, haul[h])]
PaddyStays == SumFunctionOnSet(There, Place) + SumFunctionOnSet(Away, Haul) = AllPaddy

Capped(row, h) == row.status # "NONE" => row.got <= row.bags \/ KindOf[h] = "STOCK"

LEMMA GoneIsNat ==
  ASSUME NEW h \in Haul, NEW row \in {NoRow} \cup Row, Capped(row, h)
  PROVE  Gone(h, row) \in Nat
<1>1. CASE row = NoRow
  BY <1>1 DEF Gone, NoRow
<1>2. CASE row \in Row
  <2>1. row.bags \in Nat /\ row.got \in Nat
    BY <1>2 DEF Row
  <2>2. CASE row.status = "RECEIVED" /\ GoodOf[h] = "paddy"
    <3>1. KindOf[h] # "STOCK"
      BY <2>2 DEF GoodOf
    <3>2. row.got <= row.bags
      BY <2>2, <3>1 DEF Capped
    <3> QED  BY <2>1, <2>2, <3>2 DEF Gone
  <2>3. CASE ~(row.status = "RECEIVED" /\ GoodOf[h] = "paddy")
    BY <2>1, <2>3 DEF Gone
  <2> QED  BY <2>2, <2>3
<1> QED  BY <1>1, <1>2

\* Paddy that leaves a place is away, and paddy that is back is away no more.
LEMMA PaddyMoves ==
  ASSUME TypeOK, Rows, TypeOK', Rows', PaddyStays, NEW p \in Place, NEW h \in Haul,
         \A q \in Place : q # p => stock'[q]["paddy"] = stock[q]["paddy"],
         \A k \in Haul : k # h => haul'[k] = haul[k],
         stock'[p]["paddy"] + Gone(h, haul'[h]) = stock[p]["paddy"] + Gone(h, haul[h])
  PROVE  PaddyStays'
<1>1. PICK here, there : here = There /\ there = There'
  OBVIOUS
<1>2. PICK away, gone : away = Away /\ gone = Away'
  OBVIOUS
<1>3. /\ \A q \in Place : here[q] = stock[q]["paddy"] /\ there[q] = stock'[q]["paddy"]
      /\ \A q \in Place : here[q] \in Nat
      /\ \A q \in Place : there[q] \in Nat
  BY <1>1 DEF There, TypeOK, Good
<1>4. /\ \A k \in Haul : away[k] = Gone(k, haul[k]) /\ gone[k] = Gone(k, haul'[k])
      /\ \A k \in Haul : away[k] \in Nat
      /\ \A k \in Haul : gone[k] \in Nat
  <2>1. ASSUME NEW k \in Haul PROVE away[k] = Gone(k, haul[k]) /\ gone[k] = Gone(k, haul'[k])
    BY <1>2 DEF Away
  <2>2. ASSUME NEW k \in Haul PROVE Gone(k, haul[k]) \in Nat /\ Gone(k, haul'[k]) \in Nat
    <3>1. haul[k] \in {NoRow} \cup Row /\ haul'[k] \in {NoRow} \cup Row
      BY DEF TypeOK
    <3>2. Capped(haul[k], k) /\ Capped(haul'[k], k)
      BY DEF Rows, RowOK, Capped
    <3> QED  BY <3>1, <3>2, GoneIsNat
  <2> QED  BY <2>1, <2>2
<1>5. SumFunctionOnSet(there, Place) + here[p] = SumFunctionOnSet(here, Place) + there[p]
  <2>1. \A q \in Place : q # p => there[q] = here[q]
    BY <1>3
  <2> QED  BY ONLY PlaceAssumption, p \in Place, <1>3, <2>1, SumMoves
<1>6. SumFunctionOnSet(gone, Haul) + away[h] = SumFunctionOnSet(away, Haul) + gone[h]
  <2>1. \A k \in Haul : k # h => gone[k] = away[k]
    BY <1>4
  <2> QED  BY ONLY HaulAssumption, h \in Haul, <1>4, <2>1, SumMoves
<1>7. /\ SumFunctionOnSet(here, Place) \in Nat /\ SumFunctionOnSet(there, Place) \in Nat
      /\ SumFunctionOnSet(away, Haul) \in Nat /\ SumFunctionOnSet(gone, Haul) \in Nat
      /\ here[p] \in Nat /\ there[p] \in Nat /\ away[h] \in Nat /\ gone[h] \in Nat
  <2>1. SumFunctionOnSet(here, Place) \in Nat
    BY ONLY <1>3, PlaceAssumption, SumIsNat
  <2>2. SumFunctionOnSet(there, Place) \in Nat
    BY ONLY <1>3, PlaceAssumption, SumIsNat
  <2>3. SumFunctionOnSet(away, Haul) \in Nat
    BY ONLY <1>4, HaulAssumption, SumIsNat
  <2>4. SumFunctionOnSet(gone, Haul) \in Nat
    BY ONLY <1>4, HaulAssumption, SumIsNat
  <2> QED  BY <1>3, <1>4, <2>1, <2>2, <2>3, <2>4
<1>8. there[p] + gone[h] = here[p] + away[h]
  BY <1>3, <1>4
<1>9. SumFunctionOnSet(there, Place) + SumFunctionOnSet(gone, Haul)
        = SumFunctionOnSet(here, Place) + SumFunctionOnSet(away, Haul)
  BY ONLY <1>5, <1>6, <1>7, <1>8
<1> QED  BY <1>1, <1>2, <1>9 DEF PaddyStays, AllPaddy

LEMMA PaddyWaits ==
  ASSUME PaddyStays, haul' = haul, \A q \in Place : stock'[q]["paddy"] = stock[q]["paddy"]
  PROVE  PaddyStays'
<1>1. There' = There /\ Away' = Away
  BY DEF There, Away
<1> QED  BY <1>1 DEF PaddyStays, AllPaddy

LEMMA PaddyLeaves ==
  ASSUME TypeOK, NEW h \in Haul, NEW from \in Place, NEW n \in Nat, Leave(h, from, n)
  PROVE  /\ \A q \in Place : q # from => stock'[q]["paddy"] = stock[q]["paddy"]
         /\ stock[from]["paddy"] \in Nat
         /\ stock'[from]["paddy"] = IF GoodOf[h] = "paddy" THEN stock[from]["paddy"] - n
                                    ELSE stock[from]["paddy"]
<1>1. stock \in [Place -> [Good -> Nat]] /\ "paddy" \in Good /\ GoodOf[h] \in Good
  BY KindAndGood DEF TypeOK, Good
<1>2. stock' = [stock EXCEPT ![from][GoodOf[h]] = @ - n]
  BY DEF Leave
<1> QED  BY <1>1, <1>2

LEMMA PaddyArrives ==
  ASSUME TypeOK, NEW h \in Haul, NEW to \in Place, NEW n \in Nat, Arrive(h, to, n)
  PROVE  /\ \A q \in Place : q # to => stock'[q]["paddy"] = stock[q]["paddy"]
         /\ stock[to]["paddy"] \in Nat
         /\ stock'[to]["paddy"] = IF GoodOf[h] = "paddy" THEN stock[to]["paddy"] + n
                                  ELSE stock[to]["paddy"]
<1>1. stock \in [Place -> [Good -> Nat]] /\ "paddy" \in Good /\ GoodOf[h] \in Good
  BY KindAndGood DEF TypeOK, Good
<1>2. stock' = [stock EXCEPT ![to][GoodOf[h]] = @ + n]
  BY DEF Arrive
<1> QED  BY <1>1, <1>2

LEMMA PaddyInit == Init => PaddyStays
<1> SUFFICES ASSUME Init PROVE PaddyStays
  OBVIOUS
<1>1. PICK here, away : here = There /\ away = Away
  OBVIOUS
<1>2. /\ \A p \in Place : here[p] = Opening[p]["paddy"]
      /\ \A p \in Place : here[p] \in Nat
  BY <1>1 DEF Init, There, Good
<1>3. \A h \in Haul : away[h] = 0
  BY <1>1 DEF Init, Away, Gone, NoRow
<1>4. SumFunctionOnSet(away, Haul) = 0
  BY ONLY <1>3, HaulAssumption, SumZero
<1>5. SumFunction([p \in Place |-> here[p]]) = SumFunctionOnSet(here, Place)
  BY ONLY <1>2, PlaceAssumption, SumOf
<1>6. [p \in Place |-> Opening[p]["paddy"]] = [p \in Place |-> here[p]]
  BY <1>2
<1>7. SumFunctionOnSet(here, Place) \in Nat
  BY ONLY <1>2, PlaceAssumption, SumIsNat
<1> QED  BY <1>1, <1>4, <1>5, <1>6, <1>7 DEF PaddyStays, AllPaddy

LEMMA PaddyStep ==
  ASSUME IInv, IInv', PaddyStays, [Next]_vars
  PROVE  PaddyStays'
<1>0. TypeOK /\ Rows /\ TypeOK' /\ Rows'
  BY DEF IInv, Rows
<1>1. CASE haul' = haul /\ \A q \in Place : stock'[q]["paddy"] = stock[q]["paddy"]
  BY <1>1, PaddyWaits
<1>2. ASSUME NEW r \in Request, CommitSend(r)
      PROVE PaddyStays'
  <2>1. PICK h \in Haul, c \in HaulCall : c = call[r] /\ h = c.haul
    BY <1>0, <1>2, Remembers DEF HaulOp, HaulCall, CommitSend
  <2>2. c.from \in Place /\ c.bags \in Nat /\ haul[h].status = "NONE"
    BY <1>2, <2>1 DEF CommitSend, HaulCall, IInv, CallOK
  <2>3. /\ \A k \in Haul : k # h => haul'[k] = haul[k]
        /\ haul'[h].status = IF KindOf[h] \in MillKind THEN "PENDING_APPROVAL" ELSE "IN_TRANSIT"
        /\ haul'[h].bags = c.bags
    BY <1>0, <1>2, <2>1 DEF CommitSend, TypeOK
  <2>4. Gone(h, haul[h]) = 0
    BY <2>2 DEF Gone
  <2>5. CASE KindOf[h] \in MillKind
    <3>1. stock' = stock /\ Gone(h, haul'[h]) = 0
      BY <1>2, <2>1, <2>3, <2>5 DEF CommitSend, Gone
    <3>2. stock[c.from]["paddy"] \in Nat
      BY <1>0, <2>2 DEF TypeOK, Good
    <3> QED  BY <1>0, <2>2, <2>3, <2>4, <3>1, <3>2, PaddyMoves
  <2>6. CASE KindOf[h] \notin MillKind
    <3>1. Leave(h, c.from, c.bags)
      BY <1>2, <2>1, <2>6 DEF CommitSend
    <3>2. Gone(h, haul'[h]) = IF GoodOf[h] = "paddy" THEN c.bags ELSE 0
      BY <2>3, <2>6 DEF Gone
    <3>3. /\ \A q \in Place : q # c.from => stock'[q]["paddy"] = stock[q]["paddy"]
          /\ stock[c.from]["paddy"] \in Nat
          /\ stock'[c.from]["paddy"] = IF GoodOf[h] = "paddy" THEN stock[c.from]["paddy"] - c.bags
                                       ELSE stock[c.from]["paddy"]
      BY <1>0, <2>2, <3>1, PaddyLeaves
    <3>4. stock'[c.from]["paddy"] + Gone(h, haul'[h]) = stock[c.from]["paddy"] + Gone(h, haul[h])
      BY <2>2, <2>4, <3>2, <3>3
    <3> QED  BY <1>0, <2>2, <2>3, <3>3, <3>4, PaddyMoves
  <2> QED  BY <2>5, <2>6
<1>3. ASSUME NEW r \in Request, CommitApprove(r) \/ CommitReject(r)
      PROVE PaddyStays'
  <2>1. PICK h \in Haul, c \in HaulCall : c = call[r] /\ h = c.haul
    BY <1>0, <1>3, Remembers DEF HaulOp, HaulCall, CommitApprove, CommitReject
  <2>2. haul[h].status # "NONE" /\ KindOf[h] \in MillKind /\ c.seen = "PENDING_APPROVAL"
    BY <1>3, <2>1 DEF CommitApprove, CommitReject, IInv, CallOK
  <2>3. haul[h] \in Row /\ haul[h].status = "PENDING_APPROVAL"
    BY <1>0, <1>3, <2>1, <2>2, RowThere DEF CommitApprove, CommitReject, Claimed, MillKind
  <2>4. haul[h].from \in Place /\ haul[h].bags \in Nat
    BY <2>3 DEF Row
  <2>5. Gone(h, haul[h]) = 0 /\ stock[haul[h].from]["paddy"] \in Nat
    BY <1>0, <2>3, <2>4 DEF Gone, TypeOK, Good
  <2>6. \A k \in Haul : k # h => haul'[k] = haul[k]
    BY <1>0, <1>3, <2>1 DEF CommitApprove, CommitReject, TypeOK
  <2>7. CASE CommitApprove(r)
    <3>1. haul'[h].status = "IN_TRANSIT" /\ haul'[h].bags = haul[h].bags
      BY <1>0, <2>1, <2>3, <2>7 DEF CommitApprove, TypeOK, Row
    <3>2. Gone(h, haul'[h]) = IF GoodOf[h] = "paddy" THEN haul[h].bags ELSE 0
      BY <3>1 DEF Gone
    <3>3. Leave(h, haul[h].from, haul[h].bags)
      BY <2>1, <2>7 DEF CommitApprove
    <3>4. /\ \A q \in Place : q # haul[h].from => stock'[q]["paddy"] = stock[q]["paddy"]
          /\ stock'[haul[h].from]["paddy"] =
                IF GoodOf[h] = "paddy" THEN stock[haul[h].from]["paddy"] - haul[h].bags
                ELSE stock[haul[h].from]["paddy"]
      BY <1>0, <2>4, <3>3, PaddyLeaves
    <3>5. stock'[haul[h].from]["paddy"] + Gone(h, haul'[h])
            = stock[haul[h].from]["paddy"] + Gone(h, haul[h])
      BY <2>4, <2>5, <3>2, <3>4
    <3> QED  BY <1>0, <2>4, <2>6, <3>4, <3>5, PaddyMoves
  <2>8. CASE CommitReject(r)
    <3>1. haul'[h].status = "REJECTED" /\ stock' = stock
      BY <1>0, <2>1, <2>3, <2>8 DEF CommitReject, TypeOK, Row
    <3>2. Gone(h, haul'[h]) = 0
      BY <3>1 DEF Gone
    <3> QED  BY <1>0, <2>4, <2>5, <2>6, <3>1, <3>2, PaddyMoves
  <2> QED  BY <1>3, <2>7, <2>8
<1>4. ASSUME NEW r \in Request, CommitCancel(r)
      PROVE PaddyStays'
  <2>1. PICK h \in Haul, c \in HaulCall : c = call[r] /\ h = c.haul
    BY <1>0, <1>4, Remembers DEF HaulOp, HaulCall, CommitCancel
  <2>2. /\ haul[h] \in Row /\ haul[h].status = c.seen
        /\ c.seen \in {"PENDING_APPROVAL", "IN_TRANSIT"}
    BY <1>0, <1>4, <2>1, RowThere DEF CommitCancel, IInv, CallOK, Claimed, MillKind
  <2>3. haul[h].from \in Place /\ haul[h].bags \in Nat
    BY <2>2 DEF Row
  <2>4. /\ \A k \in Haul : k # h => haul'[k] = haul[k]
        /\ haul'[h].status = "CANCELLED"
    BY <1>0, <1>4, <2>1, <2>2 DEF CommitCancel, TypeOK, Row
  <2>5. Gone(h, haul'[h]) = 0 /\ stock[haul[h].from]["paddy"] \in Nat
    BY <1>0, <2>3, <2>4 DEF Gone, TypeOK, Good
  <2>6. CASE c.seen = "IN_TRANSIT"
    <3>1. Gone(h, haul[h]) = IF GoodOf[h] = "paddy" THEN haul[h].bags ELSE 0
      BY <2>2, <2>6 DEF Gone
    <3>2. Arrive(h, haul[h].from, haul[h].bags)
      BY <1>4, <2>1, <2>6 DEF CommitCancel
    <3>3. /\ \A q \in Place : q # haul[h].from => stock'[q]["paddy"] = stock[q]["paddy"]
          /\ stock'[haul[h].from]["paddy"] =
                IF GoodOf[h] = "paddy" THEN stock[haul[h].from]["paddy"] + haul[h].bags
                ELSE stock[haul[h].from]["paddy"]
      BY <1>0, <2>3, <3>2, PaddyArrives
    <3>4. stock'[haul[h].from]["paddy"] + Gone(h, haul'[h])
            = stock[haul[h].from]["paddy"] + Gone(h, haul[h])
      BY <2>3, <2>5, <3>1, <3>3
    <3> QED  BY <1>0, <2>3, <2>4, <3>3, <3>4, PaddyMoves
  <2>7. CASE c.seen # "IN_TRANSIT"
    <3>1. stock' = stock /\ Gone(h, haul[h]) = 0
      BY <1>4, <2>1, <2>2, <2>7 DEF CommitCancel, Gone
    <3> QED  BY <1>0, <2>3, <2>4, <2>5, <3>1, PaddyMoves
  <2> QED  BY <2>6, <2>7
<1>5. ASSUME NEW r \in Request, CommitReceive(r)
      PROVE PaddyStays'
  <2>1. PICK h \in Haul, c \in HaulCall : c = call[r] /\ h = c.haul
    BY <1>0, <1>5, Remembers DEF HaulOp, HaulCall, CommitReceive
  <2>2. /\ haul[h] \in Row /\ c.seen = "IN_TRANSIT"
        /\ KindOf[h] = "STOCK" \/ haul[h].status = c.seen
        /\ c.bags \in Nat
    <3>1. c.op = "receive" /\ (KindOf[h] = "STOCK" \/ haul[h].status = c.seen)
      BY <1>5, <2>1 DEF CommitReceive, Claimed
    <3>2. CallOK(c)
      BY <1>0, <2>1 DEF IInv
    <3>3. haul[h].status # "NONE" /\ c.seen = "IN_TRANSIT"
      BY <2>1, <3>1, <3>2 DEF CallOK
    <3>4. c.bags \in Nat
      BY <2>1 DEF HaulCall
    <3> QED  BY <1>0, <3>1, <3>3, <3>4, RowThere
  <2>3. haul[h].to \in Place /\ haul[h].bags \in Nat
    BY <2>2 DEF Row
  <2>4. /\ \A k \in Haul : k # h => haul'[k] = haul[k]
        /\ haul'[h].status = "RECEIVED" /\ haul'[h].got = c.bags /\ haul'[h].bags = haul[h].bags
    BY <1>0, <1>5, <2>1, <2>2 DEF CommitReceive, TypeOK, Row
  <2>5. /\ Gone(h, haul'[h]) = IF GoodOf[h] = "paddy" THEN haul[h].bags - c.bags ELSE 0
        /\ Gone(h, haul[h]) = IF GoodOf[h] = "paddy" THEN haul[h].bags ELSE 0
    <3>1. GoodOf[h] = "paddy" => haul[h].status = "IN_TRANSIT"
      BY <2>2 DEF GoodOf
    <3> QED  BY <2>4, <3>1 DEF Gone
  <2>6. Arrive(h, haul[h].to, c.bags)
    BY <1>5, <2>1 DEF CommitReceive
  <2>7. /\ \A q \in Place : q # haul[h].to => stock'[q]["paddy"] = stock[q]["paddy"]
        /\ stock[haul[h].to]["paddy"] \in Nat
        /\ stock'[haul[h].to]["paddy"] =
              IF GoodOf[h] = "paddy" THEN stock[haul[h].to]["paddy"] + c.bags
              ELSE stock[haul[h].to]["paddy"]
    BY <1>0, <2>2, <2>3, <2>6, PaddyArrives
  <2>8. stock'[haul[h].to]["paddy"] + Gone(h, haul'[h])
          = stock[haul[h].to]["paddy"] + Gone(h, haul[h])
    BY <2>2, <2>3, <2>5, <2>7
  <2> QED  BY <1>0, <2>3, <2>4, <2>7, <2>8, PaddyMoves
<1>6. ASSUME NEW w \in Warehouse, NEW n \in Nat, Deliver(w, n) \/ WriteOff(w, n)
      PROVE PaddyStays'
  <2>1. haul' = haul /\ stock' = [stock EXCEPT ![w]["packs"] = @ - n]
    BY <1>6 DEF Deliver, WriteOff
  <2>2. stock \in [Place -> [Good -> Nat]] /\ "paddy" \in Good
    BY <1>0 DEF TypeOK, Good
  <2>3. ASSUME NEW q \in Place PROVE stock'[q]["paddy"] = stock[q]["paddy"]
    BY <2>1, <2>2
  <2> QED  BY <2>1, <2>3, PaddyWaits
<1> QED
  BY <1>1, <1>2, <1>3, <1>4, <1>5, <1>6
  DEF Next, vars, AskSend, AskDecide, AskCancel, AskReceive, HaulRequest, AskHold, CommitHold,
      Fail, Release

\* PaddyWhereaboutsService: whatever races, and however many places and
\* deliveries there are, who sees everything sees every bag of paddy once,
\* but for the bags short counted and those on the road to a mill.
THEOREM WhereaboutsAlwaysAgree == Spec => []WhereaboutsAgree
<1>1. ASSUME IInv, PaddyStays PROVE WhereaboutsAgree
  <2>0. TypeOK /\ Rows
    BY <1>1 DEF IInv, Rows
  <2> SUFFICES ASSUME NEW u \in User, "GLOBAL" \in ScopesOf[u]
               PROVE  Whereabouts(u) + OnTrucks({h \in Haul : KindOf[h] = "TO_MILL" /\ OnRoad(h)})
                          + AllShort = AllPaddy
    BY DEF WhereaboutsAgree
  <2>1. PICK here, away : here = There /\ away = Away
    OBVIOUS
  <2>2. PICK coming, milled : /\ coming = {h \in Haul : KindOf[h] = "PADDY" /\ OnRoad(h)}
                              /\ milled = {h \in Haul : KindOf[h] = "TO_MILL" /\ OnRoad(h)}
    OBVIOUS
  <2>3. PICK a, b, short, road :
            /\ a = [h \in Haul |-> IF h \in coming THEN haul[h].bags ELSE 0]
            /\ b = [h \in Haul |-> IF h \in milled THEN haul[h].bags ELSE 0]
            /\ short = [h \in Haul |-> IF h \in PaddyHauls THEN Short(h) ELSE 0]
            /\ road = [h \in Haul |-> a[h] + b[h]]
    OBVIOUS
  <2>4. ASSUME NEW h \in Haul
        PROVE  /\ a[h] \in Nat /\ b[h] \in Nat /\ short[h] \in Nat /\ road[h] \in Nat
               /\ road[h] = a[h] + b[h] /\ away[h] = road[h] + short[h]
    <3>1. CASE haul[h].status = "NONE"
      BY <2>1, <2>2, <2>3, <3>1 DEF Away, Gone, OnRoad, Short
    <3>2. CASE haul[h].status # "NONE"
      <4>1. haul[h].bags \in Nat /\ haul[h].got \in Nat
        BY <2>0, <3>2, RowThere DEF Row
      <4>2. haul[h].got <= haul[h].bags \/ KindOf[h] = "STOCK"
        BY <2>0, <3>2 DEF Rows, RowOK
      <4>3. GoodOf[h] = "paddy" <=> KindOf[h] \in {"PADDY", "TO_MILL"}
        BY DEF GoodOf
      <4>4. h \in PaddyHauls <=> GoodOf[h] = "paddy"
        BY DEF PaddyHauls
      <4>5. CASE OnRoad(h)
        <5>1. Short(h) = 0
          BY <4>5 DEF OnRoad, Short
        <5>2. away[h] = IF GoodOf[h] = "paddy" THEN haul[h].bags ELSE 0
          BY <2>1, <4>5 DEF Away, Gone, OnRoad
        <5> QED  BY <2>2, <2>3, <4>1, <4>3, <4>5, <5>1, <5>2
      <4>6. CASE ~OnRoad(h)
        <5>1. a[h] = 0 /\ b[h] = 0 /\ road[h] = 0
          BY <2>2, <2>3, <4>6
        <5>2. away[h] = IF GoodOf[h] = "paddy" THEN Short(h) ELSE 0
          BY <2>1, <4>6 DEF Away, Gone, OnRoad, Short
        <5>3. GoodOf[h] = "paddy" => Short(h) \in Nat
          BY <4>1, <4>2, <4>3 DEF Short
        <5> QED  BY <2>3, <4>4, <5>1, <5>2, <5>3
      <4> QED  BY <4>5, <4>6
    <3> QED  BY <3>1, <3>2
  <2>5. IsFiniteSet(Haul) /\ IsFiniteSet(Place)
    OBVIOUS
  <2>6. /\ \A h \in Haul : a[h] \in Nat /\ b[h] \in Nat /\ road[h] = a[h] + b[h]
        /\ \A h \in Haul : road[h] \in Nat /\ short[h] \in Nat /\ away[h] = road[h] + short[h]
    BY <2>4
  <2>7. SumFunctionOnSet(road, Haul) = SumFunctionOnSet(a, Haul) + SumFunctionOnSet(b, Haul)
    BY ONLY <2>5, <2>6, SumPlus
  <2>8. SumFunctionOnSet(away, Haul) = SumFunctionOnSet(road, Haul) + SumFunctionOnSet(short, Haul)
    BY ONLY <2>5, <2>6, SumPlus
  <2>9. OnTrucks(WhereaboutsRoad(u)) = SumFunctionOnSet(a, Haul)
    <3>1. coming = WhereaboutsRoad(u) /\ coming \in SUBSET Haul
      BY <2>2 DEF WhereaboutsRoad, InScope
    <3>2. [h \in coming |-> haul[h].bags] = [h \in coming |-> a[h]]
      BY <2>3, <3>1
    <3>3. (\A h \in Haul : a[h] \in Nat) /\ \A h \in Haul \ coming : a[h] = 0
      BY <2>3, <2>6
    <3>4. SumFunction([h \in coming |-> a[h]]) = SumFunctionOnSet(a, Haul)
      BY ONLY <2>5, <3>1, <3>3, SumWhere
    <3> QED  BY <3>1, <3>2, <3>4 DEF OnTrucks
  <2>10. OnTrucks(milled) = SumFunctionOnSet(b, Haul)
    <3>1. milled \in SUBSET Haul
      BY <2>2
    <3>2. [h \in milled |-> haul[h].bags] = [h \in milled |-> b[h]]
      BY <2>3, <3>1
    <3>3. (\A h \in Haul : b[h] \in Nat) /\ \A h \in Haul \ milled : b[h] = 0
      BY <2>3, <2>6
    <3>4. SumFunction([h \in milled |-> b[h]]) = SumFunctionOnSet(b, Haul)
      BY ONLY <2>5, <3>1, <3>3, SumWhere
    <3> QED  BY <3>2, <3>4 DEF OnTrucks
  <2>11. AllShort = SumFunctionOnSet(short, Haul)
    <3>1. PICK T : T = PaddyHauls
      OBVIOUS
    <3>2. T \in SUBSET Haul
      BY <3>1 DEF PaddyHauls
    <3>3. [h \in T |-> Short(h)] = [h \in T |-> short[h]]
      BY <2>3, <3>1, <3>2
    <3>4. (\A h \in Haul : short[h] \in Nat) /\ \A h \in Haul \ T : short[h] = 0
      BY <2>3, <2>6, <3>1
    <3>5. SumFunction([h \in T |-> short[h]]) = SumFunctionOnSet(short, Haul)
      BY ONLY <2>5, <3>2, <3>4, SumWhere
    <3> QED  BY <3>1, <3>3, <3>5 DEF AllShort
  <2>12. SumFunction([p \in {p \in Place : InScope(u, p)} |-> stock[p]["paddy"]])
            = SumFunctionOnSet(here, Place)
    <3>1. {p \in Place : InScope(u, p)} = Place
      BY DEF InScope
    <3>2. \A p \in Place : here[p] = stock[p]["paddy"]
      BY <2>1 DEF There
    <3>3. \A p \in Place : here[p] \in Nat
      BY <2>0, <3>2 DEF TypeOK, Good
    <3>4. [p \in Place |-> stock[p]["paddy"]] = [p \in Place |-> here[p]]
      BY <3>2
    <3>5. SumFunction([p \in Place |-> here[p]]) = SumFunctionOnSet(here, Place)
      BY ONLY <2>5, <3>3, SumOf
    <3> QED  BY <3>1, <3>4, <3>5
  <2>13. SumFunctionOnSet(here, Place) + SumFunctionOnSet(away, Haul) = AllPaddy
    BY <1>1, <2>1 DEF PaddyStays
  <2>14. /\ SumFunctionOnSet(a, Haul) \in Nat /\ SumFunctionOnSet(b, Haul) \in Nat
         /\ SumFunctionOnSet(short, Haul) \in Nat /\ SumFunctionOnSet(here, Place) \in Nat
    <3>1. (\A h \in Haul : a[h] \in Nat) /\ \A h \in Haul : b[h] \in Nat
      BY <2>6
    <3>2. (\A h \in Haul : short[h] \in Nat) /\ \A p \in Place : here[p] \in Nat
      BY <2>0, <2>1, <2>6 DEF There, TypeOK, Good
    <3>3. SumFunctionOnSet(a, Haul) \in Nat
      BY ONLY <2>5, <3>1, SumIsNat
    <3>4. SumFunctionOnSet(b, Haul) \in Nat
      BY ONLY <2>5, <3>1, SumIsNat
    <3>5. SumFunctionOnSet(short, Haul) \in Nat
      BY ONLY <2>5, <3>2, SumIsNat
    <3>6. SumFunctionOnSet(here, Place) \in Nat
      BY ONLY <2>5, <3>2, SumIsNat
    <3> QED  BY <3>3, <3>4, <3>5, <3>6
  <2>15. Whereabouts(u) = SumFunctionOnSet(here, Place) + SumFunctionOnSet(a, Haul)
    BY <2>9, <2>12 DEF Whereabouts
  <2> QED  BY <2>2, <2>7, <2>8, <2>10, <2>11, <2>13, <2>14, <2>15
<1>2. IInv /\ IInv' /\ PaddyStays /\ [Next]_vars => PaddyStays'
  BY PaddyStep
<1> QED  BY PaddyInit, TransitInductive, <1>1, <1>2, PTL DEF Spec
=============================================================================
