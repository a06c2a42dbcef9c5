------------------------------ MODULE MCTransit ------------------------------
(***************************************************************************)
(* Instances of Transit.tla for TLC: two warehouses and a mill, one haul   *)
(* of each kind that the configuration lists, and the people around them.  *)
(***************************************************************************)
EXTENDS Transit, TLC

CONSTANTS w1, w2, m1, stk, pad, mil, fin, ws, oo, gm

MCKindOf == [h \in Haul |-> CASE h = stk -> "STOCK" [] h = pad -> "PADDY"
                             [] h = mil -> "TO_MILL" [] h = fin -> "TO_WAREHOUSE"]
MCWarehouseOf == [m \in Mill |-> w1]
\* ws both supervises and manages the warehouses; gm sees everything and
\* looks after the mill.  All packs are still at the mill.
MCRolesOf == (ws :> {"WAREHOUSE_SUPERVISOR", "WAREHOUSE_MANAGER"}
              @@ oo :> {"OPERATIONS_OFFICER"} @@ gm :> {"MD", "OPERATIONS_MANAGER"})
MCScopesOf == (ws :> {w1, w2} @@ oo :> {m1} @@ gm :> {"GLOBAL"})
MCOpening == (w1 :> [paddy |-> 1, packs |-> 0] @@ w2 :> [paddy |-> 0, packs |-> 0]
              @@ m1 :> [paddy |-> 0, packs |-> 1])

RequestSymmetry == Permutations(Request)
=============================================================================
