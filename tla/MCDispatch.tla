------------------------------ MODULE MCDispatch ------------------------------
(***************************************************************************)
(* Instances of Dispatch.tla for TLC: two sizes, the farm's manager and    *)
(* the Farm Director, who may also load a truck.                           *)
(***************************************************************************)
EXTENDS Dispatch

CONSTANTS s4, s5, f1, fm, fd

MCOpening == [s \in Size |-> 2]
MCRolesOf == (fm :> {"FARM_MANAGER"} @@ fd :> {"FARM_DIRECTOR"})
MCScopesOf == (fm :> {f1} @@ fd :> {f1})

RequestSymmetry == Permutations(Request)
=============================================================================
