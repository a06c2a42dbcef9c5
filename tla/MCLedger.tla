------------------------------ MODULE MCLedger ------------------------------
(***************************************************************************)
(* Instances of Ledger.tla for TLC.  A balance row is one thing kept at    *)
(* one place: the paddy of a warehouse and of a mill, what the mill makes  *)
(* of it, the packs of two products at a warehouse and at a customer, and  *)
(* the buckets of hauls and held bags.  One bag weighs MCBag thousandths   *)
(* of a kilogram.                                                          *)
(***************************************************************************)
EXTENDS Ledger, FiniteSetsExt, TLC

CONSTANTS wh, mill,                     \* paddy of one grade at the two places
          road, truck, away, hold,      \* paddy in the buckets of hauls, and held
          rice, broken, hull,           \* what the mill makes, in bulk
          packs, packs2, cust, cust2    \* packs of two products, before and after a sale

P == INSTANCE Postings

MCBag == 3
MCBags(n) == P!Qty(MCBag * n, n)

\* A truck all of whose bags are damaged is counted in while paddy of the
\* same grade leaves the warehouse for another one; rows and adjustments
\* agree in both.
HeldScripts ==
    { P!ShipmentReceive(road, wh, hold, MCBags(1), MCBags(1), MCBags(1)),
      P!PaddyTransferSend(wh, away, MCBags(1)) }
MCHeldOpening ==
    [k \in Key |-> IF k = road \/ k = wh THEN MCBags(1) ELSE MCBags(0)]

\* A day's work: short counts, a downward correction, a day at the mill
\* with all that comes of it, its rice put into packs, and orders of two
\* products, which touch the same balance rows in opposite order.
DayScripts ==
    { P!PaddyTransferReceive(road, wh, MCBags(2), MCBags(1)),
      P!MillDispatchReceive(truck, mill, MCBags(2), P!Qty(MCBag, 2)),
      P!AdjustmentApprove(wh, P!Qty(-MCBag - 1, -1)),
      P!ProductionApprove(wh, mill, MCBag, P!Qty(MCBag, 1), [key |-> rice, kg |-> 2],
                          [key |-> broken, kg |-> 1], [key |-> hull, kg |-> 1], 1),
      P!PackagingCreate(packs, rice, packs, 1, P!Qty(1, 1), 1),
      P!SalesFulfil(packs, cust, MCBags(1)) \o P!SalesFulfil(packs2, cust2, MCBags(1)),
      P!SalesFulfil(packs2, cust2, MCBags(1)) \o P!SalesFulfil(packs, cust, MCBags(1)) }
MCDayOpening ==
    [k \in Key |-> IF k \in {road, truck} THEN MCBags(2) ELSE
                   IF k \in {wh, mill, packs, packs2} THEN MCBags(1) ELSE MCBags(0)]

-----------------------------------------------------------------------------
RequestSymmetry == Permutations(Request)

RowSum(k, c) ==
    MapThenSumSet(LAMBDA r : r.amount[c], {r \in rows : r.at = k})
      - MapThenSumSet(LAMBDA r : r.amount[c], {r \in rows : r.from = k})

\* docs/ARCHITECTURE.md: "Balances are derived (SUM() over transactions)".
\* Whatever was committed, a balance is its opening plus what came in by the
\* ledger rows minus what went out by them.
RowsExplainBalances ==
    \A k \in Key, c \in Column : balance[k][c] = Opening[k][c] + RowSum(k, c)
=============================================================================
