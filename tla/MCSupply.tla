------------------------------ MODULE MCSupply ------------------------------
(***************************************************************************)
(* Instances of Supply.tla for TLC: two warehouses, a mill that draws from *)
(* the first, a farm, and one person in each role of the chain.            *)
(***************************************************************************)
EXTENDS Supply, TLC

CONSTANTS w1, w2, m1, f1, ws, fd, om, oo

MCWarehouseOf == [m \in Mill |-> w1]
MCRolesOf == (ws :> {"WAREHOUSE_SUPERVISOR"} @@ fd :> {"FARM_DIRECTOR"}
              @@ om :> {"OPERATIONS_MANAGER"} @@ oo :> {"OPERATIONS_OFFICER", "WAREHOUSE_MANAGER"})
MCScopesOf == (ws :> {w1, w2} @@ fd :> {f1} @@ om :> {m1} @@ oo :> {m1, w1})

\* The same with the administrator in the officer's place.
DeskRolesOf == [MCRolesOf EXCEPT ![oo] = {"ADMIN"}]
DeskScopesOf == [MCScopesOf EXCEPT ![oo] = {"GLOBAL"}]

RequestSymmetry == Permutations(Request)
=============================================================================
