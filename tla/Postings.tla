------------------------------ MODULE Postings ------------------------------
(***************************************************************************)
(* The ledger calls of every service handler that moves stock, in the      *)
(* order the handler makes them: the scripts that Ledger.tla runs.  A      *)
(* quantity is [kg, bags], kilograms in thousandths.  What a handler does  *)
(* besides (statuses, audit, events) is in the modules of its component.   *)
(***************************************************************************)
EXTENDS Integers, Sequences

CONSTANT Nowhere

Qty(kg, bags) == [c \in {"kg", "bags"} |-> IF c = "kg" THEN kg ELSE bags]
Minus(q) == [c \in {"kg", "bags"} |-> -q[c]]
Less(q, r) == [c \in {"kg", "bags"} |-> q[c] - r[c]]
Some(q) == q["kg"] > 0 \/ q["bags"] > 0
\* A row that explains a difference in weight carries no bags and no sign.
Difference(q, r) ==
    Qty(IF q["kg"] >= r["kg"] THEN q["kg"] - r["kg"] ELSE r["kg"] - q["kg"], 0)

Record(from, at, q) == [op |-> "record", from |-> from, at |-> at, amount |-> q]
Adjust(k, q) == [op |-> "adjust", from |-> Nowhere, at |-> k, amount |-> q]
Only(cond, calls) == IF cond THEN calls ELSE <<>>

Move(src, dst, q) == <<Record(src, dst, q), Adjust(src, Minus(q)), Adjust(dst, q)>>

-----------------------------------------------------------------------------
(* Paddy comes in at a farm and is sent to a warehouse. *)

PaddyEntryApprove(farm, q) == <<Record(Nowhere, farm, q), Adjust(farm, q)>>

DeliveryReportApprove(farm, bucket, q) == Move(farm, bucket, q)

\* The bucket is emptied of what was expected, the warehouse credited with
\* what is usable, and damaged bags go to a hold bucket.  When every bag is
\* damaged, no row is recorded before the balances are adjusted.
ShipmentReceive(bucket, wh, hold, expected, received, damaged) ==
    LET usable == Less(received, damaged) IN
    Only(damaged["bags"] = 0 \/ usable["bags"] > 0, <<Record(bucket, wh, usable)>>)
    \o <<Adjust(bucket, Minus(expected)), Adjust(wh, usable)>>
    \o Only(damaged["bags"] > 0,
            <<Adjust(hold, damaged), Record(bucket, hold, damaged)>>)
    \o Only(received["kg"] # expected["kg"],
            <<Record(bucket, wh, Difference(received, expected))>>)

\* One line of a receipt review: the loss is approved, or refused.
ReviewApprove(hold, q) == <<Adjust(hold, Minus(q)), Record(hold, Nowhere, q)>>
ReviewRefuse(hold, wh, q) ==
    <<Adjust(hold, Minus(q)), Adjust(wh, q), Record(hold, wh, q)>>

-----------------------------------------------------------------------------
(* Between warehouses and mills, always through an in-transit bucket. *)

StockTransferCreate(src, bucket, q) == Move(src, bucket, q)
StockTransferReceive(bucket, dst, sent, got) ==
    <<Record(bucket, dst, got), Adjust(bucket, Minus(sent)), Adjust(dst, got)>>

PaddyTransferSend(src, bucket, q) == Move(src, bucket, q)
PaddyTransferReceive(bucket, dst, sent, got) ==
    Only(got["bags"] > 0, <<Record(bucket, dst, got)>>)
    \o <<Adjust(bucket, Minus(sent))>>
    \o Only(got["bags"] > 0, <<Adjust(dst, got)>>)
    \o Only(got["kg"] # sent["kg"], <<Record(bucket, dst, Difference(got, sent))>>)
PaddyTransferCancel(bucket, src, q) == Move(bucket, src, q)

MillDispatchApprove(src, bucket, q) == Move(src, bucket, q)
\* A weight difference is written down only above one thousandth.
MillDispatchReceive(bucket, dst, sent, got) ==
    Only(Some(got), <<Record(bucket, dst, got)>>)
    \o <<Adjust(bucket, Minus(sent))>>
    \o Only(Some(got), <<Adjust(dst, got)>>)
    \o Only(Difference(got, sent)["kg"] > 1,
            <<Record(bucket, dst, Difference(got, sent))>>)
MillDispatchCancel(bucket, src, q) == Move(bucket, src, q)

-----------------------------------------------------------------------------
(* At the mill, and out of the door. *)

\* Rice in bulk, broken rice and hull are weighed, not bagged.
Milled(k, kg) == <<Record(Nowhere, k, Qty(kg, 0)), Adjust(k, Qty(kg, 0))>>

\* Paddy the mill lacks comes from its warehouse first, by weight (at most
\* 0.001 kg is left out).  The waste row moves no balance: the paddy has
\* already been used.
ProductionApprove(wh, mill, topUpKg, used, rice, broken, hull, wasteKg) ==
    Only(topUpKg > 1, Move(wh, mill, Qty(topUpKg, 0)))
    \o <<Record(mill, Nowhere, Qty(used["kg"], 0)), Adjust(mill, Minus(used))>>
    \o Milled(rice.key, rice.kg)
    \o Only(broken.kg > 0, Milled(broken.key, broken.kg))
    \o Only(hull.kg > 0, Milled(hull.key, hull.kg))
    \o Only(wasteKg > 0, <<Record(mill, Nowhere, Qty(wasteKg, 0))>>)

\* The row names the packaged goods on both sides; what leaves is bulk rice.
PackagingCreate(packsAtMill, bulk, landing, usedKg, packed, lossKg) ==
    <<Record(packsAtMill, landing, packed), Adjust(bulk, Qty(-usedKg, 0)),
      Adjust(landing, packed)>>
    \o Only(lossKg > 0, <<Record(bulk, Nowhere, Qty(lossKg, 0))>>)

\* The row has the size of the correction, but not its sign.
AdjustmentApprove(k, q) ==
    <<Record(Nowhere, k, [c \in {"kg", "bags"} |-> IF q[c] < 0 THEN -q[c] ELSE q[c]]),
      Adjust(k, q)>>

\* One reservation of a sales order that is delivered.
SalesFulfil(wh, customer, q) == Move(wh, customer, q)
=============================================================================
