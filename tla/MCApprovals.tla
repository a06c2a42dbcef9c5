----------------------------- MODULE MCApprovals ----------------------------
(***************************************************************************)
(* Instances of Approvals.tla for TLC: the people of one farm and of one   *)
(* warehouse with its mill.                                                *)
(***************************************************************************)
EXTENDS Approvals, TLC

CONSTANTS fm, fd, oo, om, wm

MCRolesOf == (fm :> {"FARM_MANAGER"} @@ fd :> {"FARM_DIRECTOR"} @@ oo :> {"OPERATIONS_OFFICER"}
              @@ om :> {"OPERATIONS_MANAGER"} @@ wm :> {"WAREHOUSE_MANAGER"})
MCScopesOf == (fm :> {Farm} @@ fd :> {Farm} @@ oo :> {Warehouse} @@ om :> {Warehouse}
               @@ wm :> {Warehouse})
MCAdjustedAt == [p \in Adjustment |-> Mill]

\* Bags of three kilograms.
FullBags == {[kg |-> 3, bags |-> 1], [kg |-> 6, bags |-> 2]}
MCOpening == (Farm :> [kg |-> 0, bags |-> 0] @@ Warehouse :> [kg |-> 6, bags |-> 2]
              @@ Mill :> [kg |-> 3, bags |-> 1])
\* A kilogram at a time, from a mill with four full bags.
Kilogram == {[kg |-> 1, bags |-> 1]}
FourBags == (Farm :> [kg |-> 0, bags |-> 0] @@ Warehouse :> [kg |-> 0, bags |-> 0]
             @@ Mill :> [kg |-> 12, bags |-> 4])

RequestSymmetry == Permutations(Request)
=============================================================================
