--------------------------- MODULE MCSalesOrders ---------------------------
(***************************************************************************)
(* Instances of SalesOrders.tla for TLC: the people of the sales chain,   *)
(* with the permissions of their seeded roles, and two warehouses.  The    *)
(* Finance Director may also make orders.                                  *)
(***************************************************************************)
EXTENDS SalesDesk, TLC

CONSTANTS officer, finance, md, supervisor, team1, team2, w1, w2, o1, o2

MCHolder ==
    [p \in Permission |-> User \cap
        CASE p = "create" -> {officer, finance}
          [] p = "approve" -> {finance}
          [] p = "release" -> {md}
          [] p = "assign" -> {supervisor}
          [] p = "fulfill" -> {supervisor, team1, team2}
          [] p = "view" -> {finance, md}
          [] p = "tasks" -> {finance, md, supervisor}
          [] p = "complete" -> {officer, finance, supervisor, team1, team2}]
MCTeam == [w \in Warehouse |-> User \cap IF w = w1 THEN {team1} ELSE {team2}]
MCEverywhere == {supervisor}

MCOneBag == [o \in Order |-> 1]
MCOpening == [w \in Warehouse |-> IF w = w1 THEN 2 ELSE 1]

RequestSymmetry == Permutations(Request)
=============================================================================
