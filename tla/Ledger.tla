------------------------------- MODULE Ledger -------------------------------
(***************************************************************************)
(* InventoryLedgerService, statement by statement, inside the concurrent   *)
(* PostgreSQL READ COMMITTED transactions its callers open.                *)
(*                                                                         *)
(* A request runs a script: the ledger calls of one service handler, in    *)
(* the order the handler makes them (Postings.tla).  recordTransaction     *)
(* takes the next number of the year by an atomic upsert, which locks that *)
(* row of number_sequences until the transaction ends.  adjustBalance is   *)
(* two statements: a plain SELECT, which locks nothing, and an upsert that *)
(* writes an absolute value computed from what was read.  Kilograms are    *)
(* counted in thousandths, the precision of the quantity_kg column.        *)
(*                                                                         *)
(* A request may end without committing between any two statements: an     *)
(* exception in the handler, Prisma's interactive-transaction timeout, the *)
(* deadlock detector or the death of the process all roll it back.         *)
(***************************************************************************)
EXTENDS Integers, Sequences

CONSTANTS
    Request,        \* database transactions, one per HTTP request
    Key,            \* balance rows: a location and a dimension key
    Nowhere,        \* the absent side of a ledger row
    Script,         \* the sequences of ledger calls that requests make
    Opening,        \* [Key -> Amount]: inventory_balances at the start
    KgSlack,        \* the 0.001 kg adjustBalance lets pass below zero
    LastYear,       \* bound: years run from 1 to LastYear
    QuietNewYear    \* TRUE: nobody posts stock across New Year's midnight

Year == 1 .. LastYear
Column == {"kg", "bags"}
Amount == [Column -> Int]
Zero == [c \in Column |-> 0]

\* A ledger call.  "record" writes a row that moves `amount` from one
\* location to another; "adjust" adds the signed `amount` to balance `at`.
Call == [op : {"record", "adjust"}, from : Key \cup {Nowhere},
         at : Key \cup {Nowhere}, amount : Amount]

Row == [year : Year, number : Nat, from : Key \cup {Nowhere},
        at : Key \cup {Nowhere}, amount : Amount]

ASSUME KeyAssumption == Nowhere \notin Key
ASSUME ScriptAssumption ==
    \A s \in Script : /\ s \in Seq(Call)
                      /\ \A i \in 1 .. Len(s) : s[i].op = "adjust" => s[i].at \in Key
ASSUME OpeningAssumption ==
    /\ Opening \in [Key -> Amount]
    /\ \A k \in Key, c \in Column : Opening[k][c] >= 0
ASSUME SlackAssumption == KgSlack \in Nat \ {0}
ASSUME YearAssumption == LastYear \in Nat \ {0} /\ QuietNewYear \in BOOLEAN

VARIABLES
    balance,        \* inventory_balances, as committed
    sequence,       \* number_sequences: the committed TXN-<year> value
    rows,           \* inventory_transactions, as committed
    year,           \* what new Date().getFullYear() answers
    phase,          \* where each request is
    todo,           \* the ledger calls it has still to make
    seen,           \* the balance its last findUnique returned
    dirty,          \* balance rows it has upserted: it holds their locks
    draft,          \* its uncommitted value of those rows
    numberDraft,    \* its uncommitted TXN-<year> value; 0 if not locked
    inserted,       \* its uncommitted inventory_transactions rows
    posted,         \* history: committed deltas, per balance row
    forgiven,       \* history: what Math.max(next, 0) added to them
    owed,           \* history: uncommitted deltas of each request
    pardoned        \* history: uncommitted Math.max corrections

database == <<balance, sequence, rows, posted, forgiven>>
private == <<todo, seen, dirty, draft, numberDraft, inserted, owed, pardoned>>
vars == <<database, year, phase, private>>

Phase == {"idle", "open", "read", "committed", "rolledback"}
InFlight(t) == phase[t] \in {"open", "read"}
NextCall(t) == Head(todo[t])

\* READ COMMITTED: a transaction sees its own writes and committed ones.
Visible(t, k) == IF k \in dirty[t] THEN draft[t][k] ELSE balance[k]

\* The figures adjustBalance computes from what it read.
Result(t) == [c \in Column |-> seen[t][c] + NextCall(t).amount[c]]
WrittenUnclamped(t) == Result(t)     \* seeded mistake: no Math.max(next, 0)
Written(t) == [c \in Column |-> IF Result(t)[c] >= 0 THEN Result(t)[c] ELSE 0]

\* Seeded mistake: the bag count is not checked, only the kilograms.
MayAcceptByWeight(t) == Result(t)["kg"] >= -KgSlack

\* nextKg < -0.001 || nextBags < 0.  The kilograms are floating point, so a
\* result of exactly -0.001 may fall on either side of the comparison.
MayAccept(t) == Result(t)["kg"] >= -KgSlack /\ Result(t)["bags"] >= 0
MayReject(t) == Result(t)["kg"] <= -KgSlack \/ Result(t)["bags"] < 0

\* Seeded mistake: numbers from a PostgreSQL sequence (nextval), which the
\* comment above generateNumber proposes and which locks nothing.
NumberLockedNever(t) == FALSE

\* Seeded mistake: the upsert goes through a connection of its own and
\* waits for the lock its own transaction holds.
NumberLockedByAnyone(t) == \E u \in Request : numberDraft[u][year] > 0

\* Row locks: an uncommitted write is the lock.
NumberLocked(t) == \E u \in Request \ {t} : numberDraft[u][year] > 0
BalanceLocked(t, k) == \E u \in Request \ {t} : k \in dirty[u]

-----------------------------------------------------------------------------
Init ==
    /\ balance = Opening
    /\ sequence = [y \in Year |-> 0]
    /\ rows = {}
    /\ year = 1
    /\ phase = [t \in Request |-> "idle"]
    /\ todo = [t \in Request |-> <<>>]
    /\ seen = [t \in Request |-> Zero]
    /\ dirty = [t \in Request |-> {}]
    /\ draft = [t \in Request |-> [k \in Key |-> Zero]]
    /\ numberDraft = [t \in Request |-> [y \in Year |-> 0]]
    /\ inserted = [t \in Request |-> {}]
    /\ posted = [k \in Key |-> Zero]
    /\ forgiven = [k \in Key |-> Zero]
    /\ owed = [t \in Request |-> [k \in Key |-> Zero]]
    /\ pardoned = [t \in Request |-> [k \in Key |-> Zero]]

Begin(t) ==
    /\ phase[t] = "idle"
    /\ \E s \in Script : todo' = [todo EXCEPT ![t] = s]
    /\ phase' = [phase EXCEPT ![t] = "open"]
    /\ UNCHANGED <<database, year, seen, dirty, draft, numberDraft, inserted,
                   owed, pardoned>>

\* generateNumber: INSERT ... ON CONFLICT DO UPDATE SET value = value + 1.
\* It waits for the row lock and then adds one to the latest value.
NextNumber(t) ==
    (IF numberDraft[t][year] > 0 THEN numberDraft[t][year] ELSE sequence[year]) + 1

RecordTransaction(t) ==
    /\ phase[t] = "open"
    /\ todo[t] # <<>>
    /\ NextCall(t).op = "record"
    /\ ~NumberLocked(t)
    /\ numberDraft' = [numberDraft EXCEPT ![t][year] = NextNumber(t)]
    /\ inserted' = [inserted EXCEPT ![t] = @ \cup
          {[year |-> year, number |-> NextNumber(t), from |-> NextCall(t).from,
            at |-> NextCall(t).at, amount |-> NextCall(t).amount]}]
    /\ todo' = [todo EXCEPT ![t] = Tail(@)]
    /\ UNCHANGED <<database, year, phase, seen, dirty, draft, owed, pardoned>>

\* adjustBalance, first statement: findUnique.
ReadBalance(t) ==
    /\ phase[t] = "open"
    /\ todo[t] # <<>>
    /\ NextCall(t).op = "adjust"
    /\ seen' = [seen EXCEPT ![t] = Visible(t, NextCall(t).at)]
    /\ phase' = [phase EXCEPT ![t] = "read"]
    /\ UNCHANGED <<database, year, todo, dirty, draft, numberDraft, inserted,
                   owed, pardoned>>

\* adjustBalance, second statement: the upsert.  It waits for the row lock,
\* but the value it writes was fixed by the read.
WriteBalance(t) ==
    LET k == NextCall(t).at IN
    /\ phase[t] = "read"
    /\ MayAccept(t)
    /\ ~BalanceLocked(t, k)
    /\ draft' = [draft EXCEPT ![t][k] = Written(t)]
    /\ dirty' = [dirty EXCEPT ![t] = @ \cup {k}]
    /\ owed' = [owed EXCEPT ![t][k] = [c \in Column |-> @[c] + NextCall(t).amount[c]]]
    /\ pardoned' = [pardoned EXCEPT ![t][k] =
                      [c \in Column |-> @[c] + (Written(t)[c] - Result(t)[c])]]
    /\ todo' = [todo EXCEPT ![t] = Tail(@)]
    /\ phase' = [phase EXCEPT ![t] = "open"]
    /\ UNCHANGED <<database, year, seen, numberDraft, inserted>>

\* What every transaction leaves behind when it ends, either way.
Forget(t) ==
    /\ todo' = [todo EXCEPT ![t] = <<>>]
    /\ seen' = [seen EXCEPT ![t] = Zero]
    /\ dirty' = [dirty EXCEPT ![t] = {}]
    /\ draft' = [draft EXCEPT ![t] = [k \in Key |-> Zero]]
    /\ numberDraft' = [numberDraft EXCEPT ![t] = [y \in Year |-> 0]]
    /\ inserted' = [inserted EXCEPT ![t] = {}]
    /\ owed' = [owed EXCEPT ![t] = [k \in Key |-> Zero]]
    /\ pardoned' = [pardoned EXCEPT ![t] = [k \in Key |-> Zero]]

Commit(t) ==
    /\ phase[t] = "open"
    /\ todo[t] = <<>>
    /\ balance' = [k \in Key |-> Visible(t, k)]
    /\ sequence' = [y \in Year |-> IF numberDraft[t][y] > 0 THEN numberDraft[t][y]
                                                            ELSE sequence[y]]
    /\ rows' = rows \cup inserted[t]
    /\ posted' = [k \in Key |-> [c \in Column |-> posted[k][c] + owed[t][k][c]]]
    /\ forgiven' = [k \in Key |-> [c \in Column |-> forgiven[k][c] + pardoned[t][k][c]]]
    /\ phase' = [phase EXCEPT ![t] = "committed"]
    /\ Forget(t)
    /\ UNCHANGED year

\* NEGATIVE_INVENTORY_REJECTED: the exception rolls the caller back.
Reject(t) ==
    /\ phase[t] = "read"
    /\ MayReject(t)
    /\ phase' = [phase EXCEPT ![t] = "rolledback"]
    /\ Forget(t)
    /\ UNCHANGED <<database, year>>

\* Any other end without a commit: timeout, deadlock victim, crash, or an
\* exception in the part of the handler that is not about the ledger.
RollBack(t) ==
    /\ InFlight(t)
    /\ phase' = [phase EXCEPT ![t] = "rolledback"]
    /\ Forget(t)
    /\ UNCHANGED <<database, year>>

NewYear ==
    /\ year < LastYear
    /\ QuietNewYear => \A t \in Request : ~InFlight(t)
    /\ year' = year + 1
    /\ UNCHANGED <<database, phase, private>>

Statement(t) ==
    RecordTransaction(t) \/ ReadBalance(t) \/ WriteBalance(t) \/ Commit(t) \/ Reject(t)

Next ==
    \/ \E t \in Request : Begin(t) \/ Statement(t) \/ RollBack(t)
    \/ NewYear

Spec == Init /\ [][Next]_vars

\* PostgreSQL grants a row lock to its waiters in turn and the handler's
\* event loop goes on to the next call, so a request that can take its next
\* statement eventually does.  Nothing obliges a request to roll back.
FairSpec == Spec /\ \A t \in Request : WF_vars(Statement(t))

-----------------------------------------------------------------------------
(***************************************************************************)
(* Properties.  Those about serialisation hold for scripts that record     *)
(* before they adjust, and while no transaction spans two years: the two   *)
(* conditions under which the upsert of TXN-<year> works as a mutex.       *)
(***************************************************************************)
RecordsFirst == \A s \in Script : s # <<>> => s[1].op = "record"
Serialisable == RecordsFirst /\ (QuietNewYear \/ LastYear = 1)

\* Every variable keeps its type; RULE 1 of the ledger, that no balance row
\* is ever negative, is part of it, committed or not.
TypeOK ==
    /\ balance \in [Key -> Amount]
    /\ \A k \in Key, c \in Column : balance[k][c] >= 0
    /\ sequence \in [Year -> Nat]
    /\ rows \in SUBSET Row
    /\ year \in Year
    /\ phase \in [Request -> Phase]
    /\ todo \in [Request -> Seq(Call)]
    /\ \A t \in Request : \A i \in 1 .. Len(todo[t]) :
          todo[t][i].op = "adjust" => todo[t][i].at \in Key
    /\ \A t \in Request : phase[t] = "read" =>
          todo[t] # <<>> /\ NextCall(t).op = "adjust"
    /\ seen \in [Request -> Amount]
    /\ dirty \in [Request -> SUBSET Key]
    /\ draft \in [Request -> [Key -> Amount]]
    /\ \A t \in Request, k \in Key, c \in Column : draft[t][k][c] >= 0
    /\ numberDraft \in [Request -> [Year -> Nat]]
    /\ inserted \in [Request -> SUBSET Row]
    /\ posted \in [Key -> Amount]
    /\ forgiven \in [Key -> Amount]
    /\ owed \in [Request -> [Key -> Amount]]
    /\ pardoned \in [Request -> [Key -> Amount]]

\* No update is lost (adjustBalance, whose upsert writes an absolute value):
\* a balance is what it opened with plus every delta committed to it, bags
\* to the bag, and kilograms up to the residues Math.max(next, 0) forgave.
NoLostUpdate ==
    \A k \in Key :
        /\ \A c \in Column :
              balance[k][c] = Opening[k][c] + posted[k][c] + forgiven[k][c]
        /\ forgiven[k]["kg"] >= 0
        /\ forgiven[k]["bags"] = 0

Holds(t) == dirty[t] # {} \/ \E y \in Year : numberDraft[t][y] > 0
\* t waits for a row lock that u holds.
WaitsFor(t, u) ==
    /\ t # u
    /\ \/ /\ phase[t] = "open" /\ todo[t] # <<>>
          /\ NextCall(t).op = "record" /\ numberDraft[u][year] > 0
       \/ phase[t] = "read" /\ NextCall(t).at \in dirty[u]

\* It has written a balance before it took a number, as the decision on a
\* receipt review does, a count-in whose bags are all damaged, and one of a
\* paddy transfer or mill dispatch of which nothing arrived.
Early(t) == dirty[t] # {} /\ numberDraft[t][year] = 0

\* Of whatever script: when a request that holds a row lock waits for another
\* request, one of the two is early.  So every deadlock cycle in PostgreSQL
\* has such a request in it, and handlers that take a number first
\* (generateNumber) cannot deadlock among themselves.
DeadlocksNeedEarly ==
    \A t, u \in Request : Holds(t) /\ WaitsFor(t, u) => Early(t) \/ Early(u)

Numbers(S, y) == {r.number : r \in {x \in S : x.year = y}}
UniquelyNumbered(S) ==
    \A r1, r2 \in S : r1.year = r2.year /\ r1.number = r2.number => r1 = r2

\* generateNumber: the committed transaction numbers of a year are exactly
\* 1 .. TXN-<year>, each used once, whatever was rolled back in between.
NumbersContiguous ==
    /\ \A y \in Year : Numbers(rows, y) = 1 .. sequence[y]
    /\ UniquelyNumbered(rows)

\* Every request that begins ends: no ledger call waits for ever.
RequestsEnd == \A t \in Request : InFlight(t) ~> ~InFlight(t)

\* The ledger implements the abstract stock book: every commit is one atomic
\* posting and every other step is invisible.
Book == INSTANCE StockBook WITH book <- balance, issued <- sequence
ImplementsStockBook == Book!Spec

-----------------------------------------------------------------------------
\* The inductive invariant behind the properties above (LedgerProofs.tla).

\* At most one transaction holds the number row of the current year, and
\* no other year's row is held at all.
NumberMutex ==
    /\ \A t, u \in Request, y \in Year :
          numberDraft[t][y] > 0 /\ numberDraft[u][y] > 0 => t = u
    /\ \A t \in Request, y \in Year : numberDraft[t][y] > 0 => y = year /\ InFlight(t)

\* Balances are read and written only while the number row is held.
AdjustUnderMutex ==
    \A t \in Request :
        dirty[t] # {} \/ phase[t] = "read" => numberDraft[t][year] > 0

\* A transaction without the number row has a "record" coming first.
RecordComesFirst ==
    \A t \in Request :
        phase[t] = "open" /\ numberDraft[t][year] = 0 /\ todo[t] # <<>>
            => NextCall(t).op = "record"

\* What was read is still what is there.
SeenIsCurrent ==
    \A t \in Request :
        phase[t] = "read" => seen[t] = Visible(t, NextCall(t).at)

\* An uncommitted balance is the committed one plus the request's deltas.
DraftAddsUp ==
    \A t \in Request, k \in Key :
        /\ \A c \in Column :
              IF k \in dirty[t]
              THEN draft[t][k][c] = balance[k][c] + owed[t][k][c] + pardoned[t][k][c]
              ELSE owed[t][k][c] = 0 /\ pardoned[t][k][c] = 0
        /\ pardoned[t][k]["kg"] >= 0
        /\ pardoned[t][k]["bags"] = 0

\* Uncommitted rows carry the numbers that follow the committed ones.
InsertedNumbers ==
    \A t \in Request :
        /\ \A y \in Year :
              IF numberDraft[t][y] > 0
              THEN /\ numberDraft[t][y] > sequence[y]
                   /\ Numbers(inserted[t], y) = (sequence[y] + 1) .. numberDraft[t][y]
              ELSE Numbers(inserted[t], y) = {}
        /\ UniquelyNumbered(inserted[t])

IInv ==
    /\ TypeOK
    /\ NumberMutex
    /\ AdjustUnderMutex
    /\ RecordComesFirst
    /\ SeenIsCurrent
    /\ DraftAddsUp
    /\ InsertedNumbers
    /\ NoLostUpdate
    /\ NumbersContiguous
=============================================================================
