----------------------------- MODULE Approvals ------------------------------
(***************************************************************************)
(* The three papers that change a stock of paddy once somebody else has    *)
(* approved them: paddy entries at a farm (PaddyEntriesService), milling   *)
(* records at a mill (ProductionRecordsService) and stock adjustments      *)
(* anywhere (InventoryAdjustmentsService).                                 *)
(*                                                                         *)
(* Every handler reads and checks the row outside its transaction ("Ask"), *)
(* and then updates it by its id alone ("Commit").  The ledger's number    *)
(* row serialises transactions that move stock; only the mill's stock is   *)
(* read before that row is locked ("Weigh").  There is one farm, warehouse *)
(* and mill, and one paddy grade; products made follow the record's fate.  *)
(***************************************************************************)
EXTENDS Integers, FiniteSetsExt, Functions, Roles

CONSTANTS
    Entry, Record, Adjustment,      \* papers that may be made
    AdjustedAt,     \* [Adjustment -> Place]
    Farm, Warehouse, Mill,
    Request,        \* HTTP requests in flight
    Figure,         \* bound: the [kg, bags] that people write down
    MaxPapers,      \* bound: papers made
    BagKg,          \* the weight of a full bag
    Opening         \* [Place -> [kg, bags]]

Paper == Entry \cup Record \cup Adjustment
Place == {Farm, Warehouse, Mill}

ASSUME ApprovalsAssumption ==
    /\ AdjustedAt \in [Adjustment -> Place]
    /\ \A f \in Figure : f.kg \in Nat \ {0} /\ f.bags \in Nat
    /\ \A p \in Place : Opening[p].kg \in Nat /\ Opening[p].bags \in Nat

VARIABLES
    paper,          \* the rows; an adjustment's PENDING is called SUBMITTED here
    stock,          \* [Place -> [kg, bags]]: the paddy balances
    batch,          \* the paddy_batches row of each entry that was booked
    call,           \* what each request is about to do
    crossed         \* history: papers that two requests worked on at once

vars == <<paper, stock, batch, call, crossed>>

NoRow == [status |-> "NONE"]
Idle == [op |-> "none", on |-> "nothing"]
Amount(x) == [kg |-> x.kg, bags |-> x.bags]
Plus(x, y) == [kg |-> x.kg + y.kg, bags |-> x.bags + y.bags]
Minus(x) == [kg |-> -x.kg, bags |-> -x.bags]
InHand(x) == x.kg >= 0 /\ x.bags >= 0

Init ==
    /\ paper = [p \in Paper |-> NoRow]
    /\ stock = Opening
    /\ batch = <<>>
    /\ call = [r \in Request |-> Idle]
    /\ crossed = {}

-----------------------------------------------------------------------------
(* Who may do what, and when. *)

\* Only APPROVED is locked.
EditableStatuses == {"DRAFT", "SUBMITTED", "REJECTED"}

\* assertLocationScope: a mill is looked after by the people of its warehouse.
AtPlace(u, place) == InScope(u, IF place = Mill THEN Warehouse ELSE place)

MayCreate(u, p) ==
    \/ p \in Entry /\ HoldsAny(u, {"paddy.create"}) /\ InScope(u, Farm)
    \/ p \in Record /\ HoldsAny(u, {"production.create"})
    \/ p \in Adjustment /\ HoldsAny(u, {"farm.inventory.view", "warehouse.inventory.view"})
                        /\ AtPlace(u, AdjustedAt[p])

\* The original submitter edits and submits an entry.
MayRevise(u, p, permission) ==
    /\ p \in Entry
    /\ HoldsAny(u, {permission}) /\ InScope(u, Farm)
    /\ paper[p].status \in EditableStatuses
    /\ paper[p].by = u

\* Nobody decides on a paper of their own.  Rejecting a record or an
\* adjustment, and approving a record, look at no place.
MayDecide(u, p, verdict) ==
    /\ paper[p].status = "SUBMITTED"
    /\ paper[p].by # u
    /\ \/ p \in Entry /\ InScope(u, Farm)
          /\ HoldsAny(u, {IF verdict = "approve" THEN "paddy.approve" ELSE "paddy.reject"})
       \/ p \in Record /\ HoldsAny(u, {"production.approve"})
       \/ p \in Adjustment /\ HoldsAny(u, {"inventory.adjust"})
                           /\ verdict = "approve" => AtPlace(u, AdjustedAt[p])

-----------------------------------------------------------------------------
(* The handlers up to their transactions. *)

Made == {p \in Paper : paper[p] # NoRow}
Room(papers) == papers # {} /\ papers \cap Made = {} /\ Cardinality(papers \cup Made) <= MaxPapers
NewRow(u, f, status) == [status |-> status, by |-> u, kg |-> f.kg, bags |-> f.bags]

\* create and createIntake: all the sizes of one intake, or none of them.
CreateIntake(u, entries, f, submit) ==
    /\ Room(entries) /\ \A p \in entries : MayCreate(u, p)
    /\ submit => HoldsAny(u, {"paddy.submit"})
    /\ paper' = [p \in Paper |-> IF p \in entries
                     THEN NewRow(u, f, IF submit THEN "SUBMITTED" ELSE "DRAFT") ELSE paper[p]]
    /\ UNCHANGED <<stock, batch, call, crossed>>

CreateRecord(u, p, f) ==
    /\ p \in Record /\ Room({p}) /\ MayCreate(u, p)
    /\ paper' = [paper EXCEPT ![p] = NewRow(u, f, "SUBMITTED")]
    /\ UNCHANGED <<stock, batch, call, crossed>>

\* An adjustment may not ask for more kilograms than there are.
RequestAdjustment(u, p, f) ==
    /\ p \in Adjustment /\ Room({p}) /\ MayCreate(u, p)
    /\ stock[AdjustedAt[p]].kg + f.kg >= 0
    /\ paper' = [paper EXCEPT ![p] = NewRow(u, f, "SUBMITTED")]
    /\ UNCHANGED <<stock, batch, call, crossed>>

\* Bound: requests overlap until one paper was crossed, and then no more.
Begin(r, op, u, p, f) ==
    /\ call[r] = Idle
    /\ \A q \in Request : call[q] # Idle => crossed = {}
    /\ call' = [call EXCEPT ![r] = [op |-> op, on |-> p, by |-> u, figure |-> f]]
    /\ crossed' = IF \E q \in Request : call[q].on = p THEN crossed \cup {p} ELSE crossed
    /\ UNCHANGED <<paper, stock, batch>>

AskEdit(r, u, p, f) == MayRevise(u, p, "paddy.create") /\ Begin(r, "edit", u, p, f)
AskSubmit(r, u, p) == MayRevise(u, p, "paddy.submit") /\ Begin(r, "submit", u, p, Amount(paper[p]))
AskReject(r, u, p) == MayDecide(u, p, "reject") /\ Begin(r, "reject", u, p, Amount(paper[p]))

\* The figures approved are those that were read; whoever approves an
\* adjustment may correct them.
AskApprove(r, u, p, f) ==
    /\ MayDecide(u, p, "approve")
    /\ p \notin Adjustment => f = Amount(paper[p])
    /\ Begin(r, "approve", u, p, f)

-----------------------------------------------------------------------------
(* Their transactions. *)

EndCall(r) == call' = [call EXCEPT ![r] = Idle]

\* Approving a record holds its row from before the mill's stock is read.
Holds(r) == call[r].op = "weighed"
RowFree(r) == \A q \in Request \ {r} : Holds(q) => call[q].on # call[r].on

CommitEdit(r) ==
    /\ call[r].op = "edit"
    /\ LET f == call[r].figure
       IN paper' = [paper EXCEPT ![call[r].on].kg = f.kg, ![call[r].on].bags = f.bags]
    /\ EndCall(r)
    /\ UNCHANGED <<stock, batch, crossed>>

CommitStatus(r) ==
    /\ call[r].op \in {"submit", "reject"} /\ RowFree(r)
    /\ paper' = [paper EXCEPT ![call[r].on].status =
                     IF call[r].op = "submit" THEN "SUBMITTED" ELSE "REJECTED"]
    /\ EndCall(r)
    /\ UNCHANGED <<stock, batch, crossed>>

\* paddy_batches allows one batch for an entry.
HasBatchNever(p) == FALSE       \* seeded mistake: the unique key is missing
HasBatch(p) == p \in DOMAIN batch

ApproveEntry(r) ==
    /\ call[r].op = "approve" /\ call[r].on \in Entry
    /\ ~HasBatch(call[r].on)
    /\ paper' = [paper EXCEPT ![call[r].on].status = "APPROVED"]
    /\ batch' = [p \in DOMAIN batch \cup {call[r].on} |->
                     IF p = call[r].on THEN call[r].figure ELSE batch[p]]
    /\ stock' = [stock EXCEPT ![Farm] = Plus(@, call[r].figure)]
    /\ EndCall(r)
    /\ UNCHANGED crossed

\* The row keeps the figures that were approved.
CorrectedNot(p, f) == [paper[p] EXCEPT !.status = "APPROVED"]   \* seeded mistake
Corrected(p, f) == [paper[p] EXCEPT !.status = "APPROVED", !.kg = f.kg, !.bags = f.bags]

ApproveAdjustment(r) ==
    /\ call[r].op = "approve" /\ call[r].on \in Adjustment
    /\ LET place == AdjustedAt[call[r].on]
           left == Plus(stock[place], call[r].figure)
       IN InHand(left) /\ stock' = [stock EXCEPT ![place] = left]
    /\ paper' = [paper EXCEPT ![call[r].on] = Corrected(call[r].on, call[r].figure)]
    /\ EndCall(r)
    /\ UNCHANGED <<batch, crossed>>

\* The mill's stock is read without a lock on it.
Weigh(r) ==
    /\ call[r].op = "approve" /\ call[r].on \in Record /\ RowFree(r)
    /\ call' = [call EXCEPT ![r] = [op |-> "weighed", on |-> call[r].on, by |-> call[r].by,
                                    figure |-> call[r].figure, mill |-> stock[Mill]]]
    /\ UNCHANGED <<paper, stock, batch, crossed>>

Least(m, n) == IF m <= n THEN m ELSE n
\* Math.round.
Rounded(a, b) == (2 * a + b) \div (2 * b)

\* Bags go with the kilograms the mill itself supplies, in proportion.
BagsUsedOfAll(mill, kg) ==      \* seeded mistake: what the warehouse supplies counts too
    IF mill.kg > 0 THEN Rounded(mill.bags * kg, mill.kg) ELSE 0
BagsUsed(mill, kg) ==
    IF mill.kg > 0 /\ mill.bags > 0
    THEN Least(mill.bags, Rounded(mill.bags * Least(mill.kg, kg), mill.kg)) ELSE 0

\* The mill's own paddy first; the warehouse supplies the rest, in kilograms.
ApproveRecord(r) ==
    /\ Holds(r)
    /\ LET kg == call[r].figure.kg
           rest == kg - Least(call[r].mill.kg, kg)
           warehouse == Plus(stock[Warehouse], [kg |-> -rest, bags |-> 0])
           mill == Plus(stock[Mill], [kg |-> rest - kg, bags |-> -BagsUsed(call[r].mill, kg)])
       IN /\ InHand(warehouse) /\ InHand(mill)
          /\ stock' = [stock EXCEPT ![Warehouse] = warehouse, ![Mill] = mill]
    /\ paper' = [paper EXCEPT ![call[r].on].status = "APPROVED"]
    /\ EndCall(r)
    /\ UNCHANGED <<batch, crossed>>

\* The transaction is refused, or the server stops before it commits.
GiveUp(r) ==
    /\ call[r] # Idle
    /\ EndCall(r)
    /\ UNCHANGED <<paper, stock, batch, crossed>>

Next ==
    \/ \E u \in User, f \in Figure :
          \/ \E entries \in SUBSET Entry, submit \in BOOLEAN : CreateIntake(u, entries, f, submit)
          \/ \E p \in Record : CreateRecord(u, p, f)
          \/ \E p \in Adjustment, d \in {f, Minus(f)} : RequestAdjustment(u, p, d)
          \/ \E r \in Request, p \in Entry : AskEdit(r, u, p, f)
    \/ \E r \in Request, u \in User, p \in Paper : AskSubmit(r, u, p) \/ AskReject(r, u, p)
    \/ \E r \in Request, u \in User, p \in Entry \cup Record :
          p \in Made /\ AskApprove(r, u, p, Amount(paper[p]))
    \/ \E r \in Request, u \in User, p \in Adjustment, f \in Figure :
          \E d \in {f, Minus(f)} : AskApprove(r, u, p, d)
    \/ \E r \in Request :
          \/ CommitEdit(r) \/ CommitStatus(r)
          \/ ApproveEntry(r) \/ ApproveAdjustment(r) \/ Weigh(r) \/ ApproveRecord(r)
          \/ GiveUp(r)

Spec == Init /\ [][Next]_vars

-----------------------------------------------------------------------------
(* Properties. *)

Approved(papers) == {p \in papers : paper[p].status = "APPROVED"}
Corrections(place) == {p \in Approved(Adjustment) : AdjustedAt[p] = place}
KgOf(papers) == MapThenSumSet(LAMBDA p : paper[p].kg, papers)
BagsOf(papers) == MapThenSumSet(LAMBDA p : paper[p].bags, papers)

\* A farm's stock is what it opened with, one batch for each entry that was
\* booked, and its corrections: however approvals, edits, rejections and
\* retries of an entry overlap, it is booked at most once.
EntriesBookedOnce ==
    crossed \cap Adjustment = {} =>
        /\ stock[Farm].kg = Opening[Farm].kg + KgOf(Corrections(Farm))
               + MapThenSumSet(LAMBDA p : batch[p].kg, DOMAIN batch)
        /\ stock[Farm].bags = Opening[Farm].bags + BagsOf(Corrections(Farm))
               + MapThenSumSet(LAMBDA p : batch[p].bags, DOMAIN batch)

\* Where no two requests worked on one paper at once, the rows that say
\* APPROVED account, with the figures they show, for every batch and for the
\* kilograms at the mill and its warehouse.
PapersExplainStock ==
    crossed = {} =>
        /\ DOMAIN batch = Approved(Entry)
        /\ \A p \in DOMAIN batch : batch[p] = Amount(paper[p])
        /\ stock[Mill].kg + stock[Warehouse].kg + KgOf(Approved(Record)) =
               Opening[Mill].kg + Opening[Warehouse].kg
                   + KgOf(Corrections(Mill) \cup Corrections(Warehouse))

\* Where every paper is in full bags, the mill's bags go with its kilograms,
\* also when its stock changed after an approval read it, when the warehouse
\* supplied the rest, and when a record was approved twice.
FullBagsStayFull ==
    (\A f \in Figure : f.kg = BagKg * f.bags) =>
        stock[Mill].kg = BagKg * stock[Mill].bags

\* What the comments of PaddyEntriesService and ProductionRecordsService say.

\* "Only APPROVED is locked": an approved entry is not edited, submitted or
\* rejected any more.
ApprovedIsLocked ==
    [][\A p \in Entry : paper[p].status = "APPROVED" => paper'[p] = paper[p]]_vars

\* "its bag count never drifts from its weight": by a full bag or more.
BagsFollowWeight ==
    LET off == BagKg * stock[Mill].bags - stock[Mill].kg IN off < BagKg /\ off > -BagKg
=============================================================================
