------------------------------- MODULE MCMoney -------------------------------
(***************************************************************************)
(* Instances of Money.tla for TLC: one customer with two delivered orders, *)
(* one of them due, a farm and its mill, and the people who handle money.  *)
(***************************************************************************)
EXTENDS Money, TLC

CONSTANTS o1, o2, c1, f1, m1, so, fd, md, fm

MCCustomerOf == [o \in Order |-> c1]
MCTotalOf == [o \in Order |-> 1]
MCDueOf == (o1 :> "ahead" @@ o2 :> "past")
MCRolesOf == (so :> {"SALES_OFFICER"} @@ fd :> {"FINANCE_DIRECTOR"} @@ md :> {"MD"}
              @@ fm :> {"FARM_MANAGER"})
MCScopesOf == (so :> {"GLOBAL"} @@ fd :> {"GLOBAL"} @@ md :> {"GLOBAL"} @@ fm :> {f1})

RequestSymmetry == Permutations(Request)
=============================================================================
