---------------------------- MODULE LedgerProofs ----------------------------
(***************************************************************************)
(* Proofs about Ledger.tla, for every number of requests, keys, years and  *)
(* every set of scripts.                                                   *)
(***************************************************************************)
EXTENDS Ledger, TLAPS

USE DEF database, private

-----------------------------------------------------------------------------
(* Type correctness, and RULE 1: no balance row is ever negative. *)

LEMMA ZeroIsAmount == Zero \in Amount /\ \A c \in Column : Zero[c] = 0
  BY DEF Zero, Amount

LEMMA ResultIsAmount ==
  ASSUME TypeOK, NEW t \in Request, phase[t] = "read"
  PROVE  /\ NextCall(t) \in Call
         /\ NextCall(t).at \in Key
         /\ NextCall(t).amount \in Amount
         /\ todo[t] # <<>>
         /\ todo[t] \in Seq(Call)
         /\ Result(t) \in Amount
         /\ Written(t) \in Amount
         /\ \A c \in Column : Written(t)[c] >= 0 /\ Written(t)[c] >= Result(t)[c]
         /\ \A c \in Column : Result(t)[c] >= 0 => Written(t)[c] = Result(t)[c]
         /\ \A c \in Column : Result(t)[c] = seen[t][c] + NextCall(t).amount[c]
<1>1. todo[t] # <<>> /\ todo[t] \in Seq(Call) /\ NextCall(t).op = "adjust"
      /\ NextCall(t) = todo[t][1] /\ 1 \in 1 .. Len(todo[t])
  BY DEF TypeOK, NextCall
<1>2. NextCall(t) \in Call /\ NextCall(t).at \in Key
  BY <1>1 DEF TypeOK
<1>3. NextCall(t).amount \in Amount
  BY <1>2 DEF Call
<1>4. seen[t] \in Amount
  BY DEF TypeOK
<1>5. Result(t) \in Amount
      /\ \A c \in Column : Result(t)[c] = seen[t][c] + NextCall(t).amount[c]
  BY <1>3, <1>4 DEF Result, Amount
<1> QED  BY <1>1, <1>2, <1>3, <1>5 DEF Written, Amount

LEMMA SumIsAmount ==
  ASSUME NEW a \in Amount, NEW b \in Amount
  PROVE  [c \in Column |-> a[c] + b[c]] \in Amount
  BY DEF Amount

LEMMA CorrectionIsAmount ==
  ASSUME NEW a \in Amount, NEW b \in Amount, NEW e \in Amount
  PROVE  [c \in Column |-> a[c] + (b[c] - e[c])] \in Amount
  BY DEF Amount

LEMMA UpdateIsAmount ==
  ASSUME NEW f \in [Request -> [Key -> Amount]], NEW t \in Request, NEW k \in Key,
         NEW d \in Amount
  PROVE  [f EXCEPT ![t][k] = d] \in [Request -> [Key -> Amount]]
  OBVIOUS

LEMMA WriteUpdates ==
  ASSUME NEW t \in Request, WriteBalance(t)
  PROVE  LET k == NextCall(t).at IN
         /\ owed' = [owed EXCEPT ![t][k] =
                       [c \in Column |-> owed[t][k][c] + NextCall(t).amount[c]]]
         /\ pardoned' = [pardoned EXCEPT ![t][k] =
                       [c \in Column |-> pardoned[t][k][c] + (Written(t)[c] - Result(t)[c])]]
  BY DEF WriteBalance

LEMMA TypeInit == Init => TypeOK
  BY ZeroIsAmount, KeyAssumption, OpeningAssumption, SlackAssumption, YearAssumption
  DEF Init, TypeOK, Year, Phase, Amount

LEMMA TypeStep == TypeOK /\ [Next]_vars => TypeOK'
<1> SUFFICES ASSUME TypeOK, [Next]_vars PROVE TypeOK'
  OBVIOUS
<1> USE DEF TypeOK
<1>0. ASSUME NEW t \in Request, Forget(t) PROVE
        /\ todo' = [todo EXCEPT ![t] = <<>>]
        /\ seen' \in [Request -> Amount]
        /\ dirty' \in [Request -> SUBSET Key]
        /\ draft' \in [Request -> [Key -> Amount]]
        /\ \A u \in Request, k \in Key, c \in Column : draft'[u][k][c] >= 0
        /\ numberDraft' \in [Request -> [Year -> Nat]]
        /\ inserted' \in [Request -> SUBSET Row]
        /\ owed' \in [Request -> [Key -> Amount]]
        /\ pardoned' \in [Request -> [Key -> Amount]]
  BY <1>0, ZeroIsAmount DEF Forget
<1>1. ASSUME NEW t \in Request, Begin(t) PROVE TypeOK'
  <2>1. PICK s \in Script : todo' = [todo EXCEPT ![t] = s]
    BY <1>1 DEF Begin
  <2>2. s \in Seq(Call) /\ \A i \in 1 .. Len(s) : s[i].op = "adjust" => s[i].at \in Key
    BY ScriptAssumption
  <2>3. todo' \in [Request -> Seq(Call)]
        /\ \A u \in Request : todo'[u] = IF u = t THEN s ELSE todo[u]
    BY <2>1, <2>2
  <2>4. phase' = [phase EXCEPT ![t] = "open"] /\ phase' \in [Request -> Phase]
    BY <1>1 DEF Begin, Phase
  <2> QED  BY <1>1, <2>2, <2>3, <2>4 DEF Begin, NextCall
<1>2. ASSUME NEW t \in Request, RecordTransaction(t) PROVE TypeOK'
  <2>1. NextCall(t) \in Call /\ todo[t] \in Seq(Call) /\ todo[t] # <<>>
        /\ Tail(todo[t]) \in Seq(Call)
        /\ \A i \in 1 .. Len(Tail(todo[t])) : /\ i + 1 \in 1 .. Len(todo[t])
                                              /\ Tail(todo[t])[i] = todo[t][i + 1]
    BY <1>2 DEF RecordTransaction, NextCall
  <2>2. NextNumber(t) \in Nat
    BY DEF NextNumber
  <2>3. inserted' \in [Request -> SUBSET Row]
    BY <1>2, <2>1, <2>2 DEF RecordTransaction, Call, Row
  <2>4. numberDraft' \in [Request -> [Year -> Nat]]
    BY <1>2, <2>2 DEF RecordTransaction
  <2>5. todo' \in [Request -> Seq(Call)]
        /\ \A u \in Request : todo'[u] = IF u = t THEN Tail(todo[t]) ELSE todo[u]
    BY <1>2, <2>1 DEF RecordTransaction
  <2>6. \A u \in Request : phase'[u] = "read" => u # t
    BY <1>2 DEF RecordTransaction
  <2> QED  BY <1>2, <2>1, <2>3, <2>4, <2>5, <2>6 DEF RecordTransaction, NextCall
<1>3. ASSUME NEW t \in Request, ReadBalance(t) PROVE TypeOK'
  <2>1. NextCall(t) \in Call /\ NextCall(t).at \in Key
    <3>1. 1 \in 1 .. Len(todo[t]) /\ NextCall(t) = todo[t][1]
      BY <1>3 DEF ReadBalance, NextCall
    <3> QED  BY <1>3, <3>1 DEF ReadBalance
  <2>2. Visible(t, NextCall(t).at) \in Amount
    BY <2>1 DEF Visible
  <2> QED  BY <1>3, <2>2 DEF ReadBalance, NextCall, Phase
<1>4. ASSUME NEW t \in Request, WriteBalance(t) PROVE TypeOK'
  <2>0. phase[t] = "read"
    BY <1>4 DEF WriteBalance
  <2> DEFINE k == NextCall(t).at
  <2>1. /\ NextCall(t) \in Call /\ k \in Key /\ NextCall(t).amount \in Amount
        /\ Written(t) \in Amount /\ Result(t) \in Amount
        /\ \A c \in Column : Written(t)[c] >= 0
        /\ todo[t] # <<>> /\ todo[t] \in Seq(Call)
    BY <2>0, ResultIsAmount
  <2>2. Tail(todo[t]) \in Seq(Call)
        /\ \A i \in 1 .. Len(Tail(todo[t])) : /\ i + 1 \in 1 .. Len(todo[t])
                                              /\ Tail(todo[t])[i] = todo[t][i + 1]
    BY <2>1
  <2>3. todo' \in [Request -> Seq(Call)]
        /\ \A u \in Request : todo'[u] = IF u = t THEN Tail(todo[t]) ELSE todo[u]
    BY <1>4, <2>2 DEF WriteBalance
  <2>4. draft' \in [Request -> [Key -> Amount]]
        /\ \A u \in Request, j \in Key, c \in Column : draft'[u][j][c] >= 0
    BY <1>4, <2>1 DEF WriteBalance
  <2>5. owed' \in [Request -> [Key -> Amount]]
    <3>1. owed[t][k] \in Amount
      BY <2>1
    <3>2. [c \in Column |-> owed[t][k][c] + NextCall(t).amount[c]] \in Amount
      BY <2>1, <3>1, SumIsAmount
    <3>3. owed' = [owed EXCEPT ![t][k] = [c \in Column |-> owed[t][k][c] + NextCall(t).amount[c]]]
      BY <1>4, WriteUpdates
    <3> QED  BY <2>1, <3>2, <3>3, UpdateIsAmount
  <2>6. pardoned' \in [Request -> [Key -> Amount]]
    <3>1. pardoned[t][k] \in Amount
      BY <2>1
    <3>2. [c \in Column |-> pardoned[t][k][c] + (Written(t)[c] - Result(t)[c])] \in Amount
      BY <2>1, <3>1, CorrectionIsAmount
    <3>3. pardoned' = [pardoned EXCEPT ![t][k] = [c \in Column |-> pardoned[t][k][c] + (Written(t)[c] - Result(t)[c])]]
      BY <1>4, WriteUpdates
    <3> QED  BY <2>1, <3>2, <3>3, UpdateIsAmount
  <2>7. dirty' \in [Request -> SUBSET Key]
    BY <1>4, <2>1 DEF WriteBalance
  <2>8. phase' \in [Request -> Phase] /\ \A u \in Request : phase'[u] = "read" => u # t /\ phase[u] = "read"
    BY <1>4 DEF WriteBalance, Phase
  <2>9. UNCHANGED <<balance, sequence, rows, posted, forgiven, year, seen,
                    numberDraft, inserted>>
    BY <1>4 DEF WriteBalance
  <2>10. \A u \in Request : \A i \in 1 .. Len(todo'[u]) :
           todo'[u][i].op = "adjust" => todo'[u][i].at \in Key
    <3>1. \A i \in 1 .. Len(Tail(todo[t])) :
             Tail(todo[t])[i].op = "adjust" => Tail(todo[t])[i].at \in Key
      <4> TAKE i \in 1 .. Len(Tail(todo[t]))
      <4>1. i + 1 \in 1 .. Len(todo[t]) /\ Tail(todo[t])[i] = todo[t][i + 1]
        BY <2>2
      <4>2. todo[t][i + 1].op = "adjust" => todo[t][i + 1].at \in Key
        BY <4>1
      <4> QED  BY <4>1, <4>2
    <3>2. ASSUME NEW u \in Request, u # t
          PROVE  \A i \in 1 .. Len(todo[u]) : todo[u][i].op = "adjust" => todo[u][i].at \in Key
      OBVIOUS
    <3> QED  BY <2>3, <3>1, <3>2
  <2>11. \A u \in Request : phase'[u] = "read" =>
            todo'[u] # <<>> /\ Head(todo'[u]).op = "adjust"
    BY <2>3, <2>8 DEF NextCall
  <2> QED  BY <2>3, <2>4, <2>5, <2>6, <2>7, <2>8, <2>9, <2>10, <2>11 DEF NextCall
<1>5. ASSUME NEW t \in Request, Commit(t) PROVE TypeOK'
  <2>1. balance' \in [Key -> Amount] /\ \A k \in Key, c \in Column : balance'[k][c] >= 0
    <3>1. balance' = [k \in Key |-> Visible(t, k)]
      BY <1>5 DEF Commit
    <3>2. \A k \in Key : /\ Visible(t, k) \in Amount
                         /\ \A c \in Column : Visible(t, k)[c] >= 0
      BY DEF Visible
    <3> QED  BY <3>1, <3>2
  <2>2. sequence' \in [Year -> Nat] /\ rows' \in SUBSET Row
    <3>1. /\ sequence' = [y \in Year |-> IF numberDraft[t][y] > 0 THEN numberDraft[t][y]
                                                               ELSE sequence[y]]
          /\ rows' = rows \cup inserted[t]
      BY <1>5 DEF Commit
    <3>2. /\ \A y \in Year : numberDraft[t][y] \in Nat /\ sequence[y] \in Nat
          /\ inserted[t] \in SUBSET Row /\ rows \in SUBSET Row
      OBVIOUS
    <3> QED  BY <3>1, <3>2
  <2>3. posted' \in [Key -> Amount]
    <3>1. posted' = [k \in Key |-> [c \in Column |-> posted[k][c] + owed[t][k][c]]]
      BY <1>5 DEF Commit
    <3>2. ASSUME NEW k \in Key
          PROVE  [c \in Column |-> posted[k][c] + owed[t][k][c]] \in Amount
      <4>1. posted[k] \in Amount /\ owed[t][k] \in Amount
        OBVIOUS
      <4> QED  BY <4>1, SumIsAmount
    <3> QED  BY <3>1, <3>2
  <2>4. forgiven' \in [Key -> Amount]
    <3>1. forgiven' = [k \in Key |-> [c \in Column |-> forgiven[k][c] + pardoned[t][k][c]]]
      BY <1>5 DEF Commit
    <3>2. ASSUME NEW k \in Key
          PROVE  [c \in Column |-> forgiven[k][c] + pardoned[t][k][c]] \in Amount
      <4>1. forgiven[k] \in Amount /\ pardoned[t][k] \in Amount
        OBVIOUS
      <4> QED  BY <4>1, SumIsAmount
    <3> QED  BY <3>1, <3>2
  <2>5. phase' \in [Request -> Phase] /\ \A u \in Request : phase'[u] = "read" => u # t /\ phase[u] = "read"
    BY <1>5 DEF Commit, Phase
  <2>6. todo' \in [Request -> Seq(Call)] /\ \A u \in Request : todo'[u] = IF u = t THEN <<>> ELSE todo[u]
    <3>1. Forget(t)
      BY <1>5 DEF Commit
    <3>2. todo' = [todo EXCEPT ![t] = <<>>] /\ <<>> \in Seq(Call)
      BY <3>1 DEF Forget
    <3> QED  BY <3>2
  <2>7. Forget(t) /\ year' = year
    BY <1>5 DEF Commit
  <2>8. /\ seen' \in [Request -> Amount] /\ dirty' \in [Request -> SUBSET Key]
        /\ inserted' \in [Request -> SUBSET Row]
    BY <1>0, <2>7
  <2>9. \A u \in Request : \A i \in 1 .. Len(todo'[u]) :
           todo'[u][i].op = "adjust" => todo'[u][i].at \in Key
    <3> TAKE u \in Request
    <3>1. CASE u = t
      <4>1. todo'[u] = <<>>
        BY <2>6, <3>1
      <4>2. Len(todo'[u]) = 0
        BY <4>1
      <4> QED  BY <4>2
    <3>2. CASE u # t
      <4>1. todo'[u] = todo[u]
        BY <2>6, <3>2
      <4> QED  BY <4>1
    <3> QED  BY <3>1, <3>2
  <2>10. \A u \in Request : phase'[u] = "read" =>
            todo'[u] # <<>> /\ Head(todo'[u]).op = "adjust"
    BY <2>5, <2>6 DEF NextCall
  <2> QED  BY <1>0, <2>1, <2>2, <2>3, <2>4, <2>5, <2>6, <2>7, <2>8, <2>9, <2>10 DEF NextCall
<1>6. ASSUME NEW t \in Request, Reject(t) \/ RollBack(t) PROVE TypeOK'
  <2>0. /\ Forget(t) /\ phase' = [phase EXCEPT ![t] = "rolledback"]
        /\ UNCHANGED <<balance, sequence, rows, posted, forgiven, year>>
    BY <1>6 DEF Reject, RollBack
  <2>1. phase' \in [Request -> Phase] /\ \A u \in Request : phase'[u] = "read" => u # t /\ phase[u] = "read"
    BY <2>0 DEF Phase
  <2>2. todo' \in [Request -> Seq(Call)] /\ \A u \in Request : todo'[u] = IF u = t THEN <<>> ELSE todo[u]
    <3>1. todo' = [todo EXCEPT ![t] = <<>>] /\ <<>> \in Seq(Call)
      BY <2>0 DEF Forget
    <3> QED  BY <3>1
  <2>3. /\ seen' = [seen EXCEPT ![t] = Zero] /\ dirty' = [dirty EXCEPT ![t] = {}]
        /\ inserted' = [inserted EXCEPT ![t] = {}]
    BY <2>0 DEF Forget
  <2>4. seen' \in [Request -> Amount] /\ dirty' \in [Request -> SUBSET Key]
        /\ inserted' \in [Request -> SUBSET Row]
    BY <2>3, ZeroIsAmount
  <2>5. \A u \in Request : \A i \in 1 .. Len(todo'[u]) :
           todo'[u][i].op = "adjust" => todo'[u][i].at \in Key
    <3> TAKE u \in Request
    <3>1. CASE u = t
      <4>1. todo'[u] = <<>>
        BY <2>2, <3>1
      <4>2. Len(todo'[u]) = 0
        BY <4>1
      <4> QED  BY <4>2
    <3>2. CASE u # t
      <4>1. todo'[u] = todo[u]
        BY <2>2, <3>2
      <4> QED  BY <4>1
    <3> QED  BY <3>1, <3>2
  <2>6. \A u \in Request : phase'[u] = "read" =>
            todo'[u] # <<>> /\ Head(todo'[u]).op = "adjust"
    BY <2>1, <2>2 DEF NextCall
  <2>7. /\ balance' \in [Key -> Amount] /\ \A k \in Key, c \in Column : balance'[k][c] >= 0
        /\ sequence' \in [Year -> Nat] /\ rows' \in SUBSET Row /\ year' \in Year
        /\ posted' \in [Key -> Amount] /\ forgiven' \in [Key -> Amount]
    BY <2>0
  <2> QED  BY <1>0, <2>0, <2>1, <2>2, <2>4, <2>5, <2>6, <2>7 DEF NextCall
<1>7. CASE NewYear
  BY <1>7, YearAssumption DEF NewYear, Year, NextCall
<1>8. CASE UNCHANGED vars
  BY <1>8 DEF vars, NextCall
<1> QED  BY <1>1, <1>2, <1>3, <1>4, <1>5, <1>6, <1>7, <1>8 DEF Next, Statement

\* RULE 1 and the types: in every reachable state of the statements of
\* InventoryLedgerService, no committed or uncommitted balance is negative.
THEOREM TypeCorrect == Spec => []TypeOK
  BY TypeInit, TypeStep, PTL DEF Spec

-----------------------------------------------------------------------------
(* Sets of transaction numbers. *)

LEMMA NumbersMember ==
  ASSUME NEW S, NEW y, NEW n
  PROVE  n \in Numbers(S, y) <=> \E r \in S : r.year = y /\ r.number = n
  BY DEF Numbers

LEMMA NumbersUnion ==
  ASSUME NEW S, NEW T, NEW y
  PROVE  Numbers(S \cup T, y) = Numbers(S, y) \cup Numbers(T, y)
  BY DEF Numbers

LEMMA NumbersOfCommitted ==
  ASSUME NEW y, NEW t, rows' = rows \cup inserted[t]
  PROVE  Numbers(rows', y) = Numbers(rows, y) \cup Numbers(inserted[t], y)
  BY NumbersUnion

LEMMA NumbersOfNothing ==
  ASSUME NEW y
  PROVE  Numbers({}, y) = {}
  BY DEF Numbers

LEMMA NothingIsUnique == UniquelyNumbered({})
  BY DEF UniquelyNumbered

LEMMA IntervalExtends ==
  ASSUME NEW a \in Int, NEW b \in Int, b >= a - 1
  PROVE  a .. (b + 1) = (a .. b) \cup {b + 1}
  OBVIOUS

LEMMA NumbersNone ==
  ASSUME NEW S, S \in SUBSET Row, \A y \in Year : Numbers(S, y) = {}
  PROVE  S = {}
<1>1. SUFFICES ASSUME NEW r \in S PROVE FALSE
  OBVIOUS
<1>2. r.year \in Year
  BY DEF Row
<1>3. r.number \in Numbers(S, r.year)
  BY DEF Numbers
<1> QED  BY <1>2, <1>3

-----------------------------------------------------------------------------
(* The inductive invariant. *)

LEMMA IInvInit == Init => IInv
<1> SUFFICES ASSUME Init PROVE IInv
  OBVIOUS
<1>1. TypeOK
  BY TypeInit
<1>2. NumberMutex /\ AdjustUnderMutex /\ RecordComesFirst /\ SeenIsCurrent
  BY DEF Init, NumberMutex, AdjustUnderMutex, RecordComesFirst, SeenIsCurrent
<1>3. DraftAddsUp
  BY ZeroIsAmount DEF Init, DraftAddsUp, Column
<1>4. InsertedNumbers
  <2> SUFFICES ASSUME NEW t \in Request
               PROVE  /\ \A y \in Year : /\ ~(numberDraft[t][y] > 0)
                                       /\ Numbers(inserted[t], y) = {}
                      /\ UniquelyNumbered(inserted[t])
    BY DEF InsertedNumbers
  <2>1. inserted[t] = {} /\ \A y \in Year : ~(numberDraft[t][y] > 0)
    BY DEF Init
  <2> QED  BY <2>1, NumbersOfNothing, NothingIsUnique
<1>5. NoLostUpdate
  BY ZeroIsAmount, OpeningAssumption DEF Init, NoLostUpdate, Amount, Column
<1>6. NumbersContiguous
  BY DEF Init, NumbersContiguous, Numbers, UniquelyNumbered
<1> QED  BY <1>1, <1>2, <1>3, <1>4, <1>5, <1>6 DEF IInv

\* While one transaction holds the number row, no other holds or reads any.
LEMMA HolderIsAlone ==
  ASSUME IInv, NEW t \in Request, NEW u \in Request, u # t,
         numberDraft[t][year] > 0
  PROVE  /\ \A y \in Year : numberDraft[u][y] = 0
         /\ dirty[u] = {}
         /\ phase[u] # "read"
<1>1. \A y \in Year : numberDraft[u][y] \in Nat /\ (numberDraft[u][y] > 0 => y = year)
  BY DEF IInv, TypeOK, NumberMutex
<1>2. year \in Year /\ ~(numberDraft[u][year] > 0)
  BY DEF IInv, TypeOK, NumberMutex
<1> QED  BY <1>1, <1>2 DEF IInv, AdjustUnderMutex

LEMMA BeginStep ==
  ASSUME Serialisable, IInv, NEW t \in Request, Begin(t), TypeOK'
  PROVE  IInv'
<1> USE DEF IInv
<1>1. PICK s \in Script : todo' = [todo EXCEPT ![t] = s]
  BY DEF Begin
<1>2. /\ phase[t] = "idle" /\ phase' = [phase EXCEPT ![t] = "open"]
      /\ UNCHANGED <<balance, sequence, rows, posted, forgiven, year, seen, dirty,
                     draft, numberDraft, inserted, owed, pardoned>>
  BY DEF Begin
<1>3. /\ \A u \in Request : todo'[u] = IF u = t THEN s ELSE todo[u]
      /\ \A u \in Request : phase'[u] = IF u = t THEN "open" ELSE phase[u]
  BY <1>1, <1>2 DEF TypeOK
<1>4. NumberMutex' /\ AdjustUnderMutex'
  BY <1>2, <1>3 DEF NumberMutex, AdjustUnderMutex, InFlight
<1>5. RecordComesFirst'
  <2>1. s # <<>> => s[1].op = "record" /\ Head(s) = s[1]
    BY ScriptAssumption DEF Serialisable, RecordsFirst
  <2> QED  BY <1>2, <1>3, <2>1 DEF RecordComesFirst, NextCall
<1>6. SeenIsCurrent'
  BY <1>2, <1>3 DEF SeenIsCurrent, NextCall, Visible
<1>7. DraftAddsUp' /\ InsertedNumbers' /\ NoLostUpdate' /\ NumbersContiguous'
  BY <1>2 DEF DraftAddsUp, InsertedNumbers, NoLostUpdate, NumbersContiguous
<1> QED  BY <1>4, <1>5, <1>6, <1>7

LEMMA RecordStep ==
  ASSUME IInv, NEW t \in Request, RecordTransaction(t), TypeOK'
  PROVE  IInv'
<1> USE DEF IInv
<1> DEFINE n == NextNumber(t)
           row == [year |-> year, number |-> n, from |-> NextCall(t).from,
                   at |-> NextCall(t).at, amount |-> NextCall(t).amount]
<1>1. /\ phase[t] = "open" /\ todo[t] # <<>> /\ NextCall(t).op = "record"
      /\ numberDraft' = [numberDraft EXCEPT ![t][year] = n]
      /\ inserted' = [inserted EXCEPT ![t] = @ \cup {row}]
      /\ todo' = [todo EXCEPT ![t] = Tail(@)]
      /\ UNCHANGED <<balance, sequence, rows, posted, forgiven, year, phase, seen,
                     dirty, draft, owed, pardoned>>
  BY DEF RecordTransaction
<1>2. /\ year \in Year /\ sequence[year] \in Nat
      /\ \A u \in Request, y \in Year : numberDraft[u][y] \in Nat
      /\ numberDraft \in [Request -> [Year -> Nat]]
      /\ inserted \in [Request -> SUBSET Row] /\ todo \in [Request -> Seq(Call)]
  BY DEF TypeOK
<1>3. \A u \in Request \ {t} : numberDraft[u][year] = 0
  BY <1>2 DEF RecordTransaction, NumberLocked
<1>4. n \in Nat /\ n > 0
  BY <1>2 DEF NextNumber
<1>5. \A u \in Request, y \in Year :
        numberDraft'[u][y] = IF u = t /\ y = year THEN n ELSE numberDraft[u][y]
  BY <1>1, <1>2
<1>6. \A u \in Request : inserted'[u] = IF u = t THEN inserted[t] \cup {row} ELSE inserted[u]
  BY <1>1, <1>2
<1>7. \A u \in Request : todo'[u] = IF u = t THEN Tail(todo[t]) ELSE todo[u]
  BY <1>1, <1>2
<1> HIDE DEF row, n
<1>8. NumberMutex'
  BY <1>1, <1>2, <1>3, <1>4, <1>5 DEF NumberMutex, InFlight
<1>9. AdjustUnderMutex' /\ RecordComesFirst'
  BY <1>1, <1>2, <1>4, <1>5, <1>7 DEF AdjustUnderMutex, RecordComesFirst, NextCall
<1>10. SeenIsCurrent'
  BY <1>1, <1>7 DEF SeenIsCurrent, NextCall, Visible
<1>11. DraftAddsUp' /\ NoLostUpdate' /\ NumbersContiguous'
  BY <1>1 DEF DraftAddsUp, NoLostUpdate, NumbersContiguous
<1>12. InsertedNumbers'
  <2>1. row.year = year /\ row.number = n
    BY DEF row
  <2>2. ASSUME NEW u \in Request, u # t
        PROVE  /\ \A y \in Year : numberDraft'[u][y] = numberDraft[u][y]
               /\ inserted'[u] = inserted[u]
    BY <1>5, <1>6, <2>2
  <2>3. \A y \in Year : Numbers({row}, y) = IF y = year THEN {n} ELSE {}
    BY <2>1 DEF Numbers
  <2>4. \A y \in Year : Numbers(inserted'[t], y) = Numbers(inserted[t], y) \cup Numbers({row}, y)
    BY <1>6, NumbersUnion
  <2>5. ASSUME NEW y \in Year
        PROVE  IF numberDraft'[t][y] > 0
               THEN /\ numberDraft'[t][y] > sequence[y]
                    /\ Numbers(inserted'[t], y) = (sequence[y] + 1) .. numberDraft'[t][y]
               ELSE Numbers(inserted'[t], y) = {}
    <3>1. CASE y # year
      BY <1>5, <2>3, <2>4, <3>1 DEF InsertedNumbers
    <3>2. CASE y = year /\ numberDraft[t][year] > 0
      <4>1. n = numberDraft[t][year] + 1 /\ numberDraft'[t][year] = n
        BY <1>2, <1>5, <3>2 DEF NextNumber, n
      <4>2. numberDraft[t][year] > sequence[year]
            /\ Numbers(inserted[t], year) = (sequence[year] + 1) .. numberDraft[t][year]
        BY <1>2, <3>2 DEF InsertedNumbers
      <4>3. Numbers(inserted'[t], year) = Numbers(inserted[t], year) \cup {n}
        BY <1>2, <2>3, <2>4
      <4>4. (sequence[year] + 1) .. (numberDraft[t][year] + 1)
              = ((sequence[year] + 1) .. numberDraft[t][year]) \cup {numberDraft[t][year] + 1}
        BY <1>2, <4>2, IntervalExtends
      <4>5. Numbers(inserted'[t], year) = (sequence[year] + 1) .. n
        BY <4>1, <4>2, <4>3, <4>4
      <4>6. n > sequence[year] /\ n > 0
        BY <1>2, <1>4, <4>1, <4>2
      <4> QED  BY <3>2, <4>1, <4>5, <4>6
    <3>3. CASE y = year /\ ~(numberDraft[t][year] > 0)
      <4>1. n = sequence[year] + 1 /\ numberDraft'[t][year] = n
        BY <1>2, <1>5, <3>3 DEF NextNumber, n
      <4>2. Numbers(inserted[t], year) = {}
        BY <1>2, <3>3 DEF InsertedNumbers
      <4>3. Numbers(inserted'[t], year) = {n}
        BY <1>2, <2>3, <2>4, <4>2
      <4>4. (sequence[year] + 1) .. n = {n}
        BY <1>2, <4>1
      <4>5. n > sequence[year] /\ n > 0
        BY <1>2, <1>4, <4>1
      <4> QED  BY <3>3, <4>1, <4>3, <4>4, <4>5
    <3> QED  BY <3>1, <3>2, <3>3
  <2>6. UniquelyNumbered(inserted'[t])
    <3>1. UniquelyNumbered(inserted[t])
      BY DEF InsertedNumbers
    <3>2. \A r \in inserted[t] : ~(r.year = year /\ r.number = n)
      <4> SUFFICES ASSUME NEW r \in inserted[t], r.year = year, r.number = n PROVE FALSE
        OBVIOUS
      <4>1. n \in Numbers(inserted[t], year)
        BY NumbersMember
      <4>2. IF numberDraft[t][year] > 0
            THEN Numbers(inserted[t], year) = (sequence[year] + 1) .. numberDraft[t][year]
            ELSE Numbers(inserted[t], year) = {}
        BY <1>2 DEF InsertedNumbers
      <4>3. numberDraft[t][year] > 0 => n = numberDraft[t][year] + 1
        BY DEF NextNumber, n
      <4> QED  BY <1>2, <4>1, <4>2, <4>3
    <3> QED  BY <1>6, <2>1, <3>1, <3>2 DEF UniquelyNumbered
  <2>7. sequence' = sequence
    BY <1>1
  <2>8. ASSUME NEW u \in Request
        PROVE  /\ \A y \in Year :
                    IF numberDraft'[u][y] > 0
                    THEN /\ numberDraft'[u][y] > sequence[y]
                         /\ Numbers(inserted'[u], y) = (sequence[y] + 1) .. numberDraft'[u][y]
                    ELSE Numbers(inserted'[u], y) = {}
               /\ UniquelyNumbered(inserted'[u])
    <3>1. CASE u = t
      BY <2>5, <2>6, <3>1
    <3>2. CASE u # t
      BY <2>2, <3>2 DEF InsertedNumbers
    <3> QED  BY <3>1, <3>2
  <2> QED  BY <2>7, <2>8 DEF InsertedNumbers
<1> QED  BY <1>8, <1>9, <1>10, <1>11, <1>12

LEMMA ReadStep ==
  ASSUME IInv, NEW t \in Request, ReadBalance(t), TypeOK'
  PROVE  IInv'
<1> USE DEF IInv
<1>1. /\ phase[t] = "open" /\ todo[t] # <<>> /\ NextCall(t).op = "adjust"
      /\ seen' = [seen EXCEPT ![t] = Visible(t, NextCall(t).at)]
      /\ phase' = [phase EXCEPT ![t] = "read"]
      /\ UNCHANGED <<balance, sequence, rows, posted, forgiven, year, todo, dirty,
                     draft, numberDraft, inserted, owed, pardoned>>
  BY DEF ReadBalance
<1>2. /\ \A u \in Request : phase'[u] = IF u = t THEN "read" ELSE phase[u]
      /\ \A u \in Request : seen'[u] = IF u = t THEN Visible(t, NextCall(t).at) ELSE seen[u]
  BY <1>1 DEF TypeOK
<1>3. numberDraft[t][year] > 0
  BY <1>1 DEF RecordComesFirst, TypeOK
<1>4. NumberMutex' /\ AdjustUnderMutex'
  BY <1>1, <1>2, <1>3 DEF NumberMutex, AdjustUnderMutex, InFlight
<1>5. RecordComesFirst' /\ SeenIsCurrent'
  BY <1>1, <1>2 DEF RecordComesFirst, SeenIsCurrent, NextCall, Visible
<1>6. DraftAddsUp' /\ InsertedNumbers' /\ NoLostUpdate' /\ NumbersContiguous'
  BY <1>1 DEF DraftAddsUp, InsertedNumbers, NoLostUpdate, NumbersContiguous
<1> QED  BY <1>4, <1>5, <1>6

LEMMA WriteStep ==
  ASSUME IInv, NEW t \in Request, WriteBalance(t), TypeOK'
  PROVE  IInv'
<1> USE DEF IInv
<1> DEFINE k == NextCall(t).at
           d == [c \in Column |-> owed[t][k][c] + NextCall(t).amount[c]]
           e == [c \in Column |-> pardoned[t][k][c] + (Written(t)[c] - Result(t)[c])]
<1>1. /\ phase[t] = "read" /\ MayAccept(t)
      /\ draft' = [draft EXCEPT ![t][k] = Written(t)]
      /\ dirty' = [dirty EXCEPT ![t] = @ \cup {k}]
      /\ owed' = [owed EXCEPT ![t][k] = d]
      /\ pardoned' = [pardoned EXCEPT ![t][k] = e]
      /\ todo' = [todo EXCEPT ![t] = Tail(@)]
      /\ phase' = [phase EXCEPT ![t] = "open"]
      /\ UNCHANGED <<balance, sequence, rows, posted, forgiven, year, seen,
                     numberDraft, inserted>>
  BY DEF WriteBalance
<1>2. /\ k \in Key /\ NextCall(t).amount \in Amount
      /\ Result(t) \in Amount /\ Written(t) \in Amount
      /\ \A c \in Column : Written(t)[c] >= 0 /\ Written(t)[c] >= Result(t)[c]
      /\ \A c \in Column : Result(t)[c] >= 0 => Written(t)[c] = Result(t)[c]
      /\ \A c \in Column : Result(t)[c] = seen[t][c] + NextCall(t).amount[c]
  BY <1>1, ResultIsAmount
<1>3. numberDraft[t][year] > 0
  BY <1>1 DEF AdjustUnderMutex
<1>4. /\ \A c \in Column : d[c] = owed[t][k][c] + NextCall(t).amount[c]
      /\ \A c \in Column : e[c] = pardoned[t][k][c] + (Written(t)[c] - Result(t)[c])
  OBVIOUS
<1> HIDE DEF d, e, k
<1>5. /\ \A u \in Request, j \in Key :
            draft'[u][j] = IF u = t /\ j = k THEN Written(t) ELSE draft[u][j]
      /\ \A u \in Request, j \in Key :
            owed'[u][j] = IF u = t /\ j = k THEN d ELSE owed[u][j]
      /\ \A u \in Request, j \in Key :
            pardoned'[u][j] = IF u = t /\ j = k THEN e ELSE pardoned[u][j]
  BY <1>1, <1>2 DEF TypeOK
<1>6. /\ \A u \in Request : dirty'[u] = IF u = t THEN dirty[t] \cup {k} ELSE dirty[u]
      /\ \A u \in Request : phase'[u] = IF u = t THEN "open" ELSE phase[u]
      /\ \A u \in Request : u # t => todo'[u] = todo[u]
  BY <1>1 DEF TypeOK
<1>7. NumberMutex' /\ AdjustUnderMutex'
  BY <1>1, <1>3, <1>6 DEF NumberMutex, AdjustUnderMutex, InFlight
<1>8. RecordComesFirst'
  BY <1>1, <1>3, <1>6 DEF RecordComesFirst, NextCall
<1>9. SeenIsCurrent'
  <2> SUFFICES ASSUME NEW u \in Request, phase'[u] = "read"
               PROVE  seen'[u] = Visible(u, NextCall(u).at)'
    BY DEF SeenIsCurrent
  <2>1. u # t /\ phase[u] = "read"
    BY <1>6
  <2> QED  BY <1>3, <2>1, HolderIsAlone
<1>10. DraftAddsUp'
  <2>1. /\ seen[t] = IF k \in dirty[t] THEN draft[t][k] ELSE balance[k]
        /\ \A j \in Key, c \in Column : /\ balance[j][c] \in Int /\ draft[t][j][c] \in Int
                                        /\ owed[t][j][c] \in Int /\ pardoned[t][j][c] \in Int
        /\ \A c \in Column : /\ NextCall(t).amount[c] \in Int
                             /\ Written(t)[c] \in Int /\ Result(t)[c] \in Int
    <3>1. seen[t] = IF k \in dirty[t] THEN draft[t][k] ELSE balance[k]
      BY <1>1 DEF SeenIsCurrent, Visible, k
    <3>2. /\ balance \in [Key -> Amount] /\ draft[t] \in [Key -> Amount]
          /\ owed[t] \in [Key -> Amount] /\ pardoned[t] \in [Key -> Amount]
      BY DEF TypeOK
    <3> QED  BY <1>2, <3>1, <3>2 DEF Amount
  <2>2. \A c \in Column : Written(t)[c] = balance[k][c] + d[c] + e[c]
    <3> SUFFICES ASSUME NEW c \in Column PROVE Written(t)[c] = balance[k][c] + d[c] + e[c]
      OBVIOUS
    <3>1. seen[t][c] = balance[k][c] + owed[t][k][c] + pardoned[t][k][c]
      BY <1>2, <2>1 DEF DraftAddsUp
    <3>2. d[c] = owed[t][k][c] + NextCall(t).amount[c]
          /\ e[c] = pardoned[t][k][c] + (Written(t)[c] - Result(t)[c])
          /\ Result(t)[c] = seen[t][c] + NextCall(t).amount[c]
      BY <1>2, <1>4
    <3> QED  BY <1>2, <2>1, <3>1, <3>2
  <2>3. e["kg"] >= 0 /\ e["bags"] = 0
    <3>1. Result(t)["bags"] >= 0
      BY <1>1 DEF MayAccept
    <3>2. pardoned[t][k]["kg"] >= 0 /\ pardoned[t][k]["bags"] = 0
      BY <1>2 DEF DraftAddsUp
    <3> QED  BY <1>2, <1>4, <2>1, <3>1, <3>2 DEF Column
  <2>4. ASSUME NEW u \in Request, NEW j \in Key, ~(u = t /\ j = k)
        PROVE  /\ draft'[u][j] = draft[u][j] /\ owed'[u][j] = owed[u][j]
               /\ pardoned'[u][j] = pardoned[u][j] /\ (j \in dirty'[u] <=> j \in dirty[u])
    BY <1>5, <1>6, <2>4
  <2>5. /\ draft'[t][k] = Written(t) /\ owed'[t][k] = d /\ pardoned'[t][k] = e
        /\ k \in dirty'[t] /\ balance' = balance
    BY <1>1, <1>2, <1>5, <1>6
  <2> SUFFICES ASSUME NEW u \in Request, NEW j \in Key
      PROVE  /\ \A c \in Column :
                   IF j \in dirty'[u]
                   THEN draft'[u][j][c] = balance[j][c] + owed'[u][j][c] + pardoned'[u][j][c]
                   ELSE owed'[u][j][c] = 0 /\ pardoned'[u][j][c] = 0
             /\ pardoned'[u][j]["kg"] >= 0
             /\ pardoned'[u][j]["bags"] = 0
    BY <1>1 DEF DraftAddsUp
  <2>6. CASE u = t /\ j = k
    BY <2>2, <2>3, <2>5, <2>6
  <2>7. CASE ~(u = t /\ j = k)
    BY <2>4, <2>7 DEF DraftAddsUp
  <2> QED  BY <2>6, <2>7
<1>11. InsertedNumbers' /\ NoLostUpdate' /\ NumbersContiguous'
  BY <1>1 DEF InsertedNumbers, NoLostUpdate, NumbersContiguous
<1> QED  BY <1>7, <1>8, <1>9, <1>10, <1>11

\* What a transaction that ends leaves in the private variables.
LEMMA Forgotten ==
  ASSUME TypeOK, NEW t \in Request, Forget(t)
  PROVE  \A u \in Request :
           /\ todo'[u] = IF u = t THEN <<>> ELSE todo[u]
           /\ seen'[u] = IF u = t THEN Zero ELSE seen[u]
           /\ dirty'[u] = IF u = t THEN {} ELSE dirty[u]
           /\ draft'[u] = IF u = t THEN [k \in Key |-> Zero] ELSE draft[u]
           /\ numberDraft'[u] = IF u = t THEN [y \in Year |-> 0] ELSE numberDraft[u]
           /\ inserted'[u] = IF u = t THEN {} ELSE inserted[u]
           /\ owed'[u] = IF u = t THEN [k \in Key |-> Zero] ELSE owed[u]
           /\ pardoned'[u] = IF u = t THEN [k \in Key |-> Zero] ELSE pardoned[u]
  BY DEF Forget, TypeOK

\* A transaction that never took the number row has written nothing.
LEMMA NothingWritten ==
  ASSUME IInv, NEW t \in Request, ~(numberDraft[t][year] > 0)
  PROVE  /\ dirty[t] = {} /\ inserted[t] = {}
         /\ \A y \in Year : ~(numberDraft[t][y] > 0)
         /\ \A k \in Key, c \in Column : owed[t][k][c] = 0 /\ pardoned[t][k][c] = 0
<1> USE DEF IInv
<1>1. dirty[t] = {}
  BY DEF AdjustUnderMutex
<1>2. \A y \in Year : ~(numberDraft[t][y] > 0)
  BY DEF NumberMutex
<1>3. inserted[t] \in SUBSET Row /\ \A y \in Year : Numbers(inserted[t], y) = {}
  BY <1>2 DEF InsertedNumbers, TypeOK
<1> QED  BY <1>1, <1>2, <1>3, NumbersNone DEF DraftAddsUp

LEMMA IntervalJoins ==
  ASSUME NEW a \in Nat, NEW b \in Nat, b > a
  PROVE  1 .. b = (1 .. a) \cup ((a + 1) .. b)
  OBVIOUS

LEMMA CommitStep ==
  ASSUME IInv, NEW t \in Request, Commit(t), TypeOK'
  PROVE  IInv'
<1> USE DEF IInv
<1>1. /\ Forget(t) /\ phase[t] = "open" /\ year' = year
      /\ balance' = [k \in Key |-> Visible(t, k)]
      /\ sequence' = [y \in Year |-> IF numberDraft[t][y] > 0 THEN numberDraft[t][y]
                                                              ELSE sequence[y]]
      /\ rows' = rows \cup inserted[t]
      /\ posted' = [k \in Key |-> [c \in Column |-> posted[k][c] + owed[t][k][c]]]
      /\ forgiven' = [k \in Key |-> [c \in Column |-> forgiven[k][c] + pardoned[t][k][c]]]
      /\ phase' = [phase EXCEPT ![t] = "committed"]
  BY DEF Commit
<1>year. year' = year
  BY <1>1
<1>2. /\ \A u \in Request : phase'[u] = IF u = t THEN "committed" ELSE phase[u]
      /\ sequence \in [Year -> Nat] /\ balance \in [Key -> Amount]
      /\ numberDraft \in [Request -> [Year -> Nat]] /\ year \in Year
  BY <1>1 DEF TypeOK
<1>3. /\ todo'[t] = <<>> /\ dirty'[t] = {} /\ inserted'[t] = {}
      /\ \A y \in Year : numberDraft'[t][y] = 0
      /\ \A k \in Key : owed'[t][k] = Zero /\ pardoned'[t][k] = Zero
  BY <1>1, Forgotten
<1>other. ASSUME NEW u \in Request, u # t
          PROVE  /\ todo'[u] = todo[u] /\ dirty'[u] = dirty[u] /\ seen'[u] = seen[u]
                 /\ inserted'[u] = inserted[u] /\ numberDraft'[u] = numberDraft[u]
                 /\ owed'[u] = owed[u] /\ pardoned'[u] = pardoned[u]
                 /\ draft'[u] = draft[u]
  BY <1>1, <1>other, Forgotten
<1>4. ~(numberDraft[t][year] > 0) => balance' = balance /\ sequence' = sequence
  <2> SUFFICES ASSUME ~(numberDraft[t][year] > 0)
               PROVE  balance' = balance /\ sequence' = sequence
    OBVIOUS
  <2>1. dirty[t] = {} /\ \A y \in Year : ~(numberDraft[t][y] > 0)
    BY NothingWritten
  <2>2. balance' = [k \in Key |-> balance[k]] /\ sequence' = [y \in Year |-> sequence[y]]
    BY <1>1, <2>1 DEF Visible
  <2>3. balance = [k \in Key |-> balance[k]] /\ sequence = [y \in Year |-> sequence[y]]
    BY <1>2
  <2> QED  BY <2>2, <2>3
<1>5. NumberMutex' /\ AdjustUnderMutex' /\ RecordComesFirst'
  <2>1. NumberMutex'
    <3>1. ASSUME NEW u \in Request, NEW y \in Year, numberDraft'[u][y] > 0
          PROVE  u # t /\ numberDraft[u][y] > 0 /\ phase'[u] = phase[u]
      BY <1>2, <1>3, <1>other, <3>1
    <3>2. ASSUME NEW u \in Request, NEW y \in Year, numberDraft'[u][y] > 0
          PROVE  y = year /\ InFlight(u)'
      BY <3>1, <3>2 DEF NumberMutex, InFlight
    <3>3. ASSUME NEW u \in Request, NEW v \in Request, NEW y \in Year,
                 numberDraft'[u][y] > 0, numberDraft'[v][y] > 0
          PROVE  u = v
      BY <3>1, <3>3 DEF NumberMutex
    <3> QED  BY <1>year, <3>2, <3>3 DEF NumberMutex
  <2>2. AdjustUnderMutex'
    <3> SUFFICES ASSUME NEW u \in Request, dirty'[u] # {} \/ phase'[u] = "read"
                 PROVE  numberDraft'[u][year] > 0
      BY <1>year DEF AdjustUnderMutex
    <3>1. u # t
      BY <1>2, <1>3
    <3> QED  BY <1>2, <1>other, <3>1 DEF AdjustUnderMutex
  <2>3. RecordComesFirst'
    <3> SUFFICES ASSUME NEW u \in Request, phase'[u] = "open",
                        numberDraft'[u][year] = 0, todo'[u] # <<>>
                 PROVE  Head(todo'[u]).op = "record"
      BY <1>year DEF RecordComesFirst, NextCall
    <3>1. u # t
      BY <1>3
    <3>2. phase[u] = "open" /\ todo'[u] = todo[u] /\ numberDraft'[u] = numberDraft[u]
      BY <1>2, <1>other, <3>1
    <3> QED  BY <3>2 DEF RecordComesFirst, NextCall
  <2> QED  BY <2>1, <2>2, <2>3
<1>6. SeenIsCurrent'
  <2> SUFFICES ASSUME NEW u \in Request, phase'[u] = "read"
               PROVE  seen'[u] = Visible(u, NextCall(u).at)'
    BY DEF SeenIsCurrent
  <2>1. u # t /\ phase[u] = "read"
    BY <1>2
  <2>2. balance' = balance
    BY <1>4, <2>1, HolderIsAlone
  <2> QED  BY <1>other, <2>1, <2>2 DEF SeenIsCurrent, Visible, NextCall
<1>7. DraftAddsUp'
  <2> SUFFICES ASSUME NEW u \in Request, NEW k \in Key
      PROVE  /\ \A c \in Column :
                   IF k \in dirty'[u]
                   THEN draft'[u][k][c] = balance'[k][c] + owed'[u][k][c] + pardoned'[u][k][c]
                   ELSE owed'[u][k][c] = 0 /\ pardoned'[u][k][c] = 0
             /\ pardoned'[u][k]["kg"] >= 0
             /\ pardoned'[u][k]["bags"] = 0
    BY DEF DraftAddsUp
  <2>1. CASE u = t
    BY <1>3, <2>1, ZeroIsAmount DEF Column
  <2>2. CASE u # t /\ numberDraft[t][year] > 0
    BY <1>other, <2>2, HolderIsAlone DEF DraftAddsUp
  <2>3. CASE u # t /\ ~(numberDraft[t][year] > 0)
    BY <1>other, <1>4, <2>3 DEF DraftAddsUp
  <2> QED  BY <2>1, <2>2, <2>3
<1>8. InsertedNumbers'
  <2> SUFFICES ASSUME NEW u \in Request
      PROVE  /\ \A y \in Year :
                   IF numberDraft'[u][y] > 0
                   THEN /\ numberDraft'[u][y] > sequence'[y]
                        /\ Numbers(inserted'[u], y) = (sequence'[y] + 1) .. numberDraft'[u][y]
                   ELSE Numbers(inserted'[u], y) = {}
             /\ UniquelyNumbered(inserted'[u])
    BY DEF InsertedNumbers
  <2>1. CASE u = t
    <3>1. inserted'[u] = {} /\ \A y \in Year : ~(numberDraft'[u][y] > 0)
      BY <1>3, <2>1
    <3>2. \A y \in Year : Numbers(inserted'[u], y) = {}
      BY <3>1, NumbersOfNothing
    <3> QED  BY <3>1, <3>2, NothingIsUnique
  <2>2. CASE u # t /\ numberDraft[t][year] > 0
    <3>1. \A y \in Year : numberDraft[u][y] = 0
      BY <2>2, HolderIsAlone
    <3>2. inserted'[u] = inserted[u] /\ numberDraft'[u] = numberDraft[u]
      BY <1>other, <2>2
    <3>3. \A y \in Year : Numbers(inserted[u], y) = {}
      BY <3>1 DEF InsertedNumbers
    <3>4. UniquelyNumbered(inserted[u])
      BY DEF InsertedNumbers
    <3> QED  BY <3>1, <3>2, <3>3, <3>4
  <2>3. CASE u # t /\ ~(numberDraft[t][year] > 0)
    BY <1>other, <1>4, <2>3 DEF InsertedNumbers
  <2> QED  BY <2>1, <2>2, <2>3
<1>9. NoLostUpdate'
  <2> SUFFICES ASSUME NEW k \in Key
      PROVE  /\ \A c \in Column :
                   balance'[k][c] = Opening[k][c] + posted'[k][c] + forgiven'[k][c]
             /\ forgiven'[k]["kg"] >= 0
             /\ forgiven'[k]["bags"] = 0
    BY DEF NoLostUpdate
  <2>1. \A c \in Column : /\ balance[k][c] \in Int /\ draft[t][k][c] \in Int
                          /\ owed[t][k][c] \in Int /\ pardoned[t][k][c] \in Int
                          /\ posted[k][c] \in Int /\ forgiven[k][c] \in Int
                          /\ Opening[k][c] \in Int
    BY OpeningAssumption DEF TypeOK, Amount
  <2>2. \A c \in Column : /\ posted'[k][c] = posted[k][c] + owed[t][k][c]
                          /\ forgiven'[k][c] = forgiven[k][c] + pardoned[t][k][c]
    BY <1>1
  <2>3. \A c \in Column : balance'[k][c] = balance[k][c] + owed[t][k][c] + pardoned[t][k][c]
    <3>1. CASE k \in dirty[t]
      BY <1>1, <2>1, <3>1 DEF Visible, DraftAddsUp
    <3>2. CASE k \notin dirty[t]
      BY <1>1, <2>1, <3>2 DEF Visible, DraftAddsUp
    <3> QED  BY <3>1, <3>2
  <2>4. \A c \in Column : balance[k][c] = Opening[k][c] + posted[k][c] + forgiven[k][c]
    BY DEF NoLostUpdate
  <2>5. /\ forgiven[k]["kg"] >= 0 /\ forgiven[k]["bags"] = 0
        /\ pardoned[t][k]["kg"] >= 0 /\ pardoned[t][k]["bags"] = 0
    BY DEF NoLostUpdate, DraftAddsUp
  <2>6. \A c \in Column :
          balance'[k][c] = Opening[k][c] + posted'[k][c] + forgiven'[k][c]
    <3> TAKE c \in Column
    <3> QED  BY <2>1, <2>2, <2>3, <2>4
  <2> QED  BY <2>1, <2>2, <2>5, <2>6 DEF Column
<1>10. NumbersContiguous'
  <2>1. ASSUME NEW y \in Year PROVE Numbers(rows', y) = 1 .. sequence'[y]
    <3>0. rows' = rows \cup inserted[t]
      BY <1>1
    <3>1. Numbers(rows', y) = Numbers(rows, y) \cup Numbers(inserted[t], y)
      BY <3>0, NumbersOfCommitted
    <3>2. Numbers(rows, y) = 1 .. sequence[y]
      BY DEF NumbersContiguous
    <3>3. CASE numberDraft[t][y] > 0
      <4>1. /\ Numbers(inserted[t], y) = (sequence[y] + 1) .. numberDraft[t][y]
            /\ numberDraft[t][y] > sequence[y]
        BY <3>3 DEF InsertedNumbers
      <4>2. 1 .. numberDraft[t][y]
              = (1 .. sequence[y]) \cup ((sequence[y] + 1) .. numberDraft[t][y])
        BY <1>2, <4>1, IntervalJoins
      <4>3. sequence'[y] = numberDraft[t][y]
        BY <1>1, <3>3
      <4> QED  BY <3>1, <3>2, <4>1, <4>2, <4>3
    <3>4. CASE ~(numberDraft[t][y] > 0)
      <4>1. Numbers(inserted[t], y) = {}
        BY <3>4 DEF InsertedNumbers
      <4> QED  BY <1>1, <3>1, <3>2, <3>4, <4>1
    <3> QED  BY <3>3, <3>4
  <2>2. ASSUME NEW r \in rows, NEW i \in inserted[t], r.year = i.year, r.number = i.number
        PROVE  FALSE
    <3>1. i.year \in Year
      BY DEF TypeOK, Row
    <3>2. r.number \in 1 .. sequence[i.year]
      BY <2>2, <3>1, NumbersMember DEF NumbersContiguous
    <3>3. i.number \in Numbers(inserted[t], i.year)
      BY NumbersMember
    <3>4. i.number \in (sequence[i.year] + 1) .. numberDraft[t][i.year]
      BY <3>1, <3>3 DEF InsertedNumbers
    <3> QED  BY <1>2, <2>2, <3>1, <3>2, <3>4
  <2>3. UniquelyNumbered(rows) /\ UniquelyNumbered(inserted[t])
    BY DEF NumbersContiguous, InsertedNumbers
  <2>4. UniquelyNumbered(rows')
    BY <1>1, <2>2, <2>3 DEF UniquelyNumbered
  <2> QED  BY <2>1, <2>4 DEF NumbersContiguous
<1> QED  BY <1>5, <1>6, <1>7, <1>8, <1>9, <1>10

LEMMA EndStep ==
  ASSUME IInv, NEW t \in Request, Reject(t) \/ RollBack(t), TypeOK'
  PROVE  IInv'
<1> USE DEF IInv
<1>1. /\ Forget(t) /\ phase' = [phase EXCEPT ![t] = "rolledback"]
      /\ UNCHANGED <<balance, sequence, rows, posted, forgiven, year>>
  BY DEF Reject, RollBack
<1>2. \A u \in Request : phase'[u] = IF u = t THEN "rolledback" ELSE phase[u]
  BY <1>1 DEF TypeOK
<1>3. /\ todo'[t] = <<>> /\ dirty'[t] = {} /\ inserted'[t] = {}
      /\ \A y \in Year : numberDraft'[t][y] = 0
      /\ \A k \in Key : owed'[t][k] = Zero /\ pardoned'[t][k] = Zero
  BY <1>1, Forgotten
<1>other. ASSUME NEW u \in Request, u # t
          PROVE  /\ todo'[u] = todo[u] /\ dirty'[u] = dirty[u] /\ seen'[u] = seen[u]
                 /\ inserted'[u] = inserted[u] /\ numberDraft'[u] = numberDraft[u]
                 /\ owed'[u] = owed[u] /\ pardoned'[u] = pardoned[u]
                 /\ draft'[u] = draft[u]
  BY <1>1, <1>other, Forgotten
<1>4. NumberMutex' /\ AdjustUnderMutex' /\ RecordComesFirst'
  BY <1>1, <1>2, <1>3, <1>other DEF NumberMutex, AdjustUnderMutex, RecordComesFirst, InFlight, NextCall
<1>5. SeenIsCurrent'
  BY <1>1, <1>2, <1>3, <1>other DEF SeenIsCurrent, Visible, NextCall
<1>6. DraftAddsUp'
  <2> SUFFICES ASSUME NEW u \in Request, NEW k \in Key
      PROVE  /\ \A c \in Column :
                   IF k \in dirty'[u]
                   THEN draft'[u][k][c] = balance[k][c] + owed'[u][k][c] + pardoned'[u][k][c]
                   ELSE owed'[u][k][c] = 0 /\ pardoned'[u][k][c] = 0
             /\ pardoned'[u][k]["kg"] >= 0
             /\ pardoned'[u][k]["bags"] = 0
    BY <1>1 DEF DraftAddsUp
  <2>1. CASE u = t
    BY <1>3, <2>1, ZeroIsAmount DEF Column
  <2>2. CASE u # t
    BY <1>other, <2>2 DEF DraftAddsUp
  <2> QED  BY <2>1, <2>2
<1>7. InsertedNumbers'
  <2> SUFFICES ASSUME NEW u \in Request
      PROVE  /\ \A y \in Year :
                   IF numberDraft'[u][y] > 0
                   THEN /\ numberDraft'[u][y] > sequence[y]
                        /\ Numbers(inserted'[u], y) = (sequence[y] + 1) .. numberDraft'[u][y]
                   ELSE Numbers(inserted'[u], y) = {}
             /\ UniquelyNumbered(inserted'[u])
    BY <1>1 DEF InsertedNumbers
  <2>1. CASE u = t
    <3>1. inserted'[u] = {} /\ \A y \in Year : ~(numberDraft'[u][y] > 0)
      BY <1>3, <2>1
    <3>2. \A y \in Year : Numbers(inserted'[u], y) = {}
      BY <3>1, NumbersOfNothing
    <3> QED  BY <3>1, <3>2, NothingIsUnique
  <2>2. CASE u # t
    BY <1>other, <2>2 DEF InsertedNumbers
  <2> QED  BY <2>1, <2>2
<1>8. NoLostUpdate' /\ NumbersContiguous'
  BY <1>1 DEF NoLostUpdate, NumbersContiguous
<1> QED  BY <1>4, <1>5, <1>6, <1>7, <1>8

LEMMA NewYearStep ==
  ASSUME Serialisable, IInv, NewYear, TypeOK'
  PROVE  IInv'
<1> USE DEF IInv
<1>1. /\ year' = year + 1 /\ year < LastYear /\ year \in Year
      /\ UNCHANGED <<balance, sequence, rows, posted, forgiven, phase, todo, seen,
                     dirty, draft, numberDraft, inserted, owed, pardoned>>
  BY DEF NewYear, TypeOK
<1>2. \A t \in Request : ~InFlight(t)
  BY <1>1, YearAssumption DEF Serialisable, NewYear, Year
<1>3. \A t \in Request : /\ phase[t] # "open" /\ phase[t] # "read"
                         /\ \A y \in Year : ~(numberDraft[t][y] > 0)
                         /\ dirty[t] = {}
  BY <1>1, <1>2 DEF InFlight, NumberMutex, AdjustUnderMutex
<1>4. NumberMutex' /\ AdjustUnderMutex' /\ RecordComesFirst' /\ SeenIsCurrent'
  BY <1>1, <1>3 DEF NumberMutex, AdjustUnderMutex, RecordComesFirst, SeenIsCurrent
<1>5. DraftAddsUp' /\ InsertedNumbers' /\ NoLostUpdate' /\ NumbersContiguous'
  BY <1>1 DEF DraftAddsUp, InsertedNumbers, NoLostUpdate, NumbersContiguous
<1> QED  BY <1>4, <1>5

LEMMA IInvStep == Serialisable /\ IInv /\ [Next]_vars => IInv'
<1> SUFFICES ASSUME Serialisable, IInv, [Next]_vars PROVE IInv'
  OBVIOUS
<1>0. TypeOK'
  BY TypeStep DEF IInv
<1>1. ASSUME NEW t \in Request, Begin(t) PROVE IInv'
  BY <1>0, <1>1, BeginStep
<1>2. ASSUME NEW t \in Request, RecordTransaction(t) PROVE IInv'
  BY <1>0, <1>2, RecordStep
<1>3. ASSUME NEW t \in Request, ReadBalance(t) PROVE IInv'
  BY <1>0, <1>3, ReadStep
<1>4. ASSUME NEW t \in Request, WriteBalance(t) PROVE IInv'
  BY <1>0, <1>4, WriteStep
<1>5. ASSUME NEW t \in Request, Commit(t) PROVE IInv'
  BY <1>0, <1>5, CommitStep
<1>6. ASSUME NEW t \in Request, Reject(t) \/ RollBack(t) PROVE IInv'
  BY <1>0, <1>6, EndStep
<1>7. CASE NewYear
  BY <1>0, <1>7, NewYearStep
<1>8. CASE UNCHANGED vars
  <2> USE <1>8 DEF vars, IInv
  <2>1. NumberMutex' /\ AdjustUnderMutex' /\ RecordComesFirst' /\ SeenIsCurrent'
    BY DEF NumberMutex, AdjustUnderMutex, RecordComesFirst, SeenIsCurrent, InFlight,
           NextCall, Visible
  <2>2. DraftAddsUp' /\ InsertedNumbers' /\ NoLostUpdate' /\ NumbersContiguous'
    BY DEF DraftAddsUp, InsertedNumbers, NoLostUpdate, NumbersContiguous
  <2> QED  BY <1>0, <2>1, <2>2
<1> QED  BY <1>1, <1>2, <1>3, <1>4, <1>5, <1>6, <1>7, <1>8 DEF Next, Statement

\* The inductive invariant holds whenever every script records before it
\* adjusts and no stock is posted across New Year.
THEOREM Inductive == ASSUME Serialisable PROVE Spec => []IInv
<1>1. IInv /\ [Next]_vars => IInv'
  BY IInvStep
<1> QED  BY <1>1, IInvInit, PTL DEF Spec

-----------------------------------------------------------------------------
(* What follows from it. *)

\* adjustBalance reads and then overwrites, and still no concurrent delta is
\* ever lost from a balance.
THEOREM LedgerLosesNothing == ASSUME Serialisable PROVE Spec => []NoLostUpdate
<1>1. IInv => NoLostUpdate
  BY DEF IInv
<1> QED  BY <1>1, Inductive, PTL

\* generateNumber issues 1, 2, 3, ... in every year, without gaps or repeats
\* among the committed rows.
THEOREM LedgerNumbers == ASSUME Serialisable PROVE Spec => []NumbersContiguous
<1>1. IInv => NumbersContiguous
  BY DEF IInv
<1> QED  BY <1>1, Inductive, PTL

-----------------------------------------------------------------------------
(* Deadlocks, of any scripts at all.  That one request at a time holds the  *)
(* number row asks nothing of the order of a script's calls.               *)

OneYear == QuietNewYear \/ LastYear = 1

LEMMA MutexInit == Init => NumberMutex
BY DEF Init, NumberMutex

LEMMA MutexStep == OneYear /\ TypeOK /\ NumberMutex /\ [Next]_vars => NumberMutex'
<1> SUFFICES ASSUME OneYear, TypeOK, NumberMutex, [Next]_vars PROVE NumberMutex'
  OBVIOUS
<1>1. ASSUME NEW t \in Request, RecordTransaction(t) PROVE NumberMutex'
  <2>1. /\ \A u \in Request, y \in Year :
              u # t \/ y # year => numberDraft'[u][y] = numberDraft[u][y]
        /\ year' = year /\ year \in Year
        /\ phase' = phase /\ InFlight(t)
    BY <1>1 DEF RecordTransaction, TypeOK, InFlight
  <2>2. \A u \in Request \ {t} : ~(numberDraft[u][year] > 0)
    BY <1>1 DEF RecordTransaction, NumberLocked
  <2>3. \A u \in Request, y \in Year : numberDraft'[u][y] > 0 => u = t \/ numberDraft[u][y] > 0
    BY <2>1
  <2>4. \A u \in Request, y \in Year : numberDraft'[u][y] > 0 => y = year /\ u = t
    BY <2>1, <2>2, <2>3 DEF NumberMutex
  <2> QED  BY <2>1, <2>4 DEF NumberMutex, InFlight
<1>2. ASSUME NEW t \in Request, Begin(t) \/ ReadBalance(t) \/ WriteBalance(t)
      PROVE  NumberMutex'
  <2>1. numberDraft' = numberDraft /\ year' = year /\ \A u \in Request : InFlight(u) => InFlight(u)'
    BY <1>2 DEF Begin, ReadBalance, WriteBalance, InFlight, TypeOK
  <2> QED  BY <2>1 DEF NumberMutex
<1>3. ASSUME NEW t \in Request, Commit(t) \/ Reject(t) \/ RollBack(t) PROVE NumberMutex'
  <2>1. /\ \A u \in Request, y \in Year :
              numberDraft'[u][y] > 0 => u # t /\ numberDraft[u][y] > 0
        /\ \A u \in Request : u # t => phase'[u] = phase[u]
        /\ year' = year
    BY <1>3 DEF Commit, Reject, RollBack, Forget, TypeOK
  <2> QED  BY <2>1 DEF NumberMutex, InFlight
<1>4. CASE NewYear
  <2>1. QuietNewYear
    BY <1>4, YearAssumption DEF NewYear, OneYear, TypeOK, Year
  <2>2. \A t \in Request, y \in Year : ~(numberDraft[t][y] > 0)
    BY <1>4, <2>1 DEF NewYear, NumberMutex
  <2> QED  BY <1>4, <2>2 DEF NewYear, NumberMutex
<1>5. CASE UNCHANGED vars
  BY <1>5 DEF vars, NumberMutex, InFlight
<1> QED  BY <1>1, <1>2, <1>3, <1>4, <1>5 DEF Next, Statement

LEMMA OneWithNumberBlocks == TypeOK /\ NumberMutex => DeadlocksNeedEarly
<1> SUFFICES ASSUME TypeOK, NumberMutex, NEW t \in Request, NEW u \in Request,
                    Holds(t), WaitsFor(t, u), ~Early(t), ~Early(u)
             PROVE  FALSE
  BY DEF DeadlocksNeedEarly
<1>0. \A q \in Request : numberDraft[q][year] \in Nat
  BY DEF TypeOK
<1>1. numberDraft[t][year] > 0
  BY <1>0 DEF Holds, Early, NumberMutex
<1>2. t # u /\ (numberDraft[u][year] > 0 \/ dirty[u] # {})
  BY DEF WaitsFor
<1>3. numberDraft[u][year] > 0
  BY <1>0, <1>2 DEF Early
<1> QED  BY <1>1, <1>2, <1>3 DEF NumberMutex, TypeOK

\* Whatever the handlers' scripts are, a request that holds a row lock of the
\* ledger waits for another only where one of the two has written a balance
\* before it took a number: no deadlock cycle is without such a request.
THEOREM DeadlocksAreEarly == ASSUME OneYear PROVE Spec => []DeadlocksNeedEarly
<1>1. TypeOK /\ NumberMutex /\ [Next]_vars => NumberMutex'
  BY MutexStep
<1> QED  BY <1>1, TypeCorrect, MutexInit, OneWithNumberBlocks, PTL DEF Spec

\* Where every script records before it adjusts, nobody is ever early.
LEMMA NobodyEarly == IInv => \A t \in Request : ~Early(t)
<1>1. ASSUME IInv, NEW t \in Request, dirty[t] # {}, numberDraft[t][year] = 0
      PROVE  FALSE
  <2>1. numberDraft[t][year] > 0
    BY <1>1 DEF IInv, AdjustUnderMutex
  <2> QED  BY <1>1, <2>1
<1> QED  BY <1>1 DEF Early

\* So postings of such scripts never form a deadlock cycle in PostgreSQL: who
\* holds a row lock waits for nobody.
THEOREM RecordersNeverDeadlock ==
  ASSUME Serialisable
  PROVE  Spec => [](\A t, u \in Request : Holds(t) => ~WaitsFor(t, u))
<1>1. IInv => \A t, u \in Request : Holds(t) => ~WaitsFor(t, u)
  BY NobodyEarly, OneWithNumberBlocks DEF IInv, DeadlocksNeedEarly
<1> QED  BY <1>1, Inductive, PTL

-----------------------------------------------------------------------------
(* The ledger implements the abstract stock book. *)

LEMMA BookInit == Init => Book!Init
  BY DEF Init, Book!Init, Zero, Book!Zero, Column, Book!Column

LEMMA CommitPosts ==
  ASSUME IInv, NEW t \in Request, Commit(t), TypeOK'
  PROVE  Book!Post
<1> USE DEF IInv
<1>1. /\ balance' = [k \in Key |-> Visible(t, k)]
      /\ rows' = rows \cup inserted[t]
      /\ \A y \in Year : sequence'[y] = IF numberDraft[t][y] > 0 THEN numberDraft[t][y]
                                                                 ELSE sequence[y]
      /\ \A k \in Key, c \in Column : posted'[k][c] = posted[k][c] + owed[t][k][c]
      /\ \A k \in Key, c \in Column : forgiven'[k][c] = forgiven[k][c] + pardoned[t][k][c]
  BY DEF Commit
<1>2. \A k \in Key, c \in Column :
        /\ balance[k][c] \in Int /\ draft[t][k][c] \in Int
        /\ owed[t][k][c] \in Int /\ pardoned[t][k][c] \in Int
        /\ posted[k][c] \in Int /\ forgiven[k][c] \in Int
  BY DEF TypeOK, Amount
<1>3. ASSUME NEW k \in Key, NEW c \in Column
      PROVE  balance'[k][c] = balance[k][c] + (posted'[k][c] - posted[k][c])
                                            + (forgiven'[k][c] - forgiven[k][c])
  <2>1. CASE k \in dirty[t]
    BY <1>1, <1>2, <2>1 DEF Visible, DraftAddsUp
  <2>2. CASE k \notin dirty[t]
    BY <1>1, <1>2, <2>2 DEF Visible, DraftAddsUp
  <2> QED  BY <2>1, <2>2
<1>4. balance' = [k \in Key |-> [c \in Column |->
                    balance[k][c] + (posted'[k][c] - posted[k][c])
                                  + (forgiven'[k][c] - forgiven[k][c])]]
  <2>1. balance' \in [Key -> [Column -> Int]]
    BY DEF TypeOK, Amount
  <2> QED  BY <1>3, <2>1
<1>5. \A k \in Key, c \in Column : balance'[k][c] >= 0
  BY DEF TypeOK
<1>6. \A k \in Key : /\ forgiven'[k]["kg"] >= forgiven[k]["kg"]
                     /\ forgiven'[k]["bags"] = forgiven[k]["bags"]
  BY <1>1, <1>2 DEF DraftAddsUp, Column
<1>7. ASSUME NEW y \in Year
      PROVE  Numbers(rows' \ rows, y) = (sequence[y] + 1) .. sequence'[y]
  <2>1. sequence[y] \in Nat
    BY DEF TypeOK
  <2>2. Numbers(inserted[t], y) = (sequence[y] + 1) .. sequence'[y]
    <3>1. CASE numberDraft[t][y] > 0
      BY <1>1, <3>1 DEF InsertedNumbers
    <3>2. CASE ~(numberDraft[t][y] > 0)
      <4>1. (sequence[y] + 1) .. sequence[y] = {}
        BY <2>1
      <4> QED  BY <1>1, <3>2, <4>1 DEF InsertedNumbers
    <3> QED  BY <3>1, <3>2
  <2>3. ASSUME NEW i \in inserted[t], i.year = y PROVE i \notin rows
    <3>1. i.number \in (sequence[y] + 1) .. sequence'[y]
      BY <2>2, <2>3, NumbersMember
    <3>2. i \in rows => i.number \in 1 .. sequence[y]
      BY <2>3, NumbersMember DEF NumbersContiguous
    <3> QED  BY <2>1, <3>1, <3>2
  <2>4. Numbers(rows' \ rows, y) = Numbers(inserted[t], y)
    <3>1. {x \in rows' \ rows : x.year = y} = {x \in inserted[t] : x.year = y}
      BY <1>1, <2>3
    <3> QED  BY <3>1 DEF Numbers
  <2> QED  BY <2>2, <2>4
<1>8. rows \subseteq rows'
  BY <1>1
<1> QED  BY <1>4, <1>5, <1>6, <1>7, <1>8
         DEF Book!Post, Book!NumbersOf, Numbers, Column, Book!Column

LEMMA BookStep ==
  ASSUME IInv, TypeOK', [Next]_vars
  PROVE  [Book!Post]_(Book!bookVars)
<1>1. ASSUME NEW t \in Request, Commit(t) PROVE Book!Post
  BY <1>1, CommitPosts
<1>2. ASSUME NEW t \in Request,
             Begin(t) \/ RecordTransaction(t) \/ ReadBalance(t) \/ WriteBalance(t)
               \/ Reject(t) \/ RollBack(t)
      PROVE  UNCHANGED Book!bookVars
  BY <1>2 DEF Begin, RecordTransaction, ReadBalance, WriteBalance, Reject, RollBack,
              Book!bookVars
<1>3. CASE NewYear
  BY <1>3 DEF NewYear, Book!bookVars
<1>4. CASE UNCHANGED vars
  BY <1>4 DEF vars, Book!bookVars
<1> QED  BY <1>1, <1>2, <1>3, <1>4 DEF Next, Statement

\* InventoryLedgerService implements the atomic stock book: every commit is
\* one posting, and no other statement can be seen from outside.
THEOREM LedgerImplementsStockBook ==
  ASSUME Serialisable PROVE Spec => ImplementsStockBook
<1>1. IInv /\ TypeOK' /\ [Next]_vars => [Book!Post]_(Book!bookVars)
  BY BookStep
<1> QED  BY <1>1, BookInit, Inductive, TypeCorrect, PTL
         DEF Spec, ImplementsStockBook, Book!Spec
=============================================================================
