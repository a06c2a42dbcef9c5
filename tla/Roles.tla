-------------------------------- MODULE Roles --------------------------------
(***************************************************************************)
(* Who may do what: the permissions that come with each role, as the seed  *)
(* grants them, and the places a person's roles are scoped to.  Guards     *)
(* check permissions (PermissionGuard) and places (assertScope); many      *)
(* services check the role itself besides.                                 *)
(*                                                                         *)
(* Only permissions that some module of this project reads are listed.     *)
(***************************************************************************)
EXTENDS FiniteSets

CONSTANTS
    User,
    RolesOf,        \* [User -> SUBSET Role]
    ScopesOf        \* [User -> sets of place ids, or of "GLOBAL"]: pooled over roles

FarmGrants ==
    [FARM_DIRECTOR |-> {"supply.fulfil", "paddy.approve", "paddy.reject", "delivery.create",
        "delivery.approve", "delivery.reject", "farm.inventory.view", "inventory.adjust",
        "tasks.assign", "tasks.complete"},
     FARM_MANAGER |-> {"farm.inventory.view", "paddy.create", "paddy.submit",
        "delivery.create", "expense.create", "tasks.complete"}]

WarehouseGrants ==
    [WAREHOUSE_SUPERVISOR |-> {"milldispatch.receive", "milldispatch.approve",
        "milldispatch.view", "supply.request", "supply.forward", "supply.fulfil",
        "warehouse.transfer", "inventory.adjust", "warehouse.inventory.view", "tasks.assign",
        "tasks.complete"},
     WAREHOUSE_MANAGER |-> {"milldispatch.receive", "milldispatch.request",
        "milldispatch.view", "supply.request", "warehouse.receive", "expense.create",
        "warehouse.inventory.view", "tasks.complete"}]

MillGrants ==
    [OPERATIONS_MANAGER |-> {"milldispatch.approve", "milldispatch.view", "supply.request",
        "supply.forward", "production.approve", "inventory.adjust", "tasks.assign",
        "tasks.complete"},
     OPERATIONS_OFFICER |-> {"milldispatch.receive", "milldispatch.request",
        "milldispatch.view", "supply.request", "production.create", "expense.create",
        "tasks.complete"}]

OfficeGrants ==
    [SALES_OFFICER |-> {"payment.create", "tasks.complete"},
     FINANCE_DIRECTOR |-> {"milldispatch.view", "warehouse.inventory.view", "finance.approve",
        "payment.verify", "invoice.create", "expense.create", "tasks.assign", "tasks.complete"},
     AUDITOR |-> {"farm.inventory.view", "warehouse.inventory.view"}]

ExecutiveGrants ==
    {"milldispatch.view", "farm.inventory.view", "warehouse.inventory.view",
     "finance.approve.director", "tasks.assign"}

Role ==
    DOMAIN FarmGrants \cup DOMAIN WarehouseGrants \cup DOMAIN MillGrants
        \cup DOMAIN OfficeGrants \cup {"MD", "CEO", "ADMIN"}

ASSUME RoleAssumption == RolesOf \in [User -> SUBSET Role]

\* The administrator holds every permission of the catalog.
Grants(role, permission) ==
    \/ role = "ADMIN"
    \/ role \in {"MD", "CEO"} /\ permission \in ExecutiveGrants
    \/ role \in DOMAIN FarmGrants /\ permission \in FarmGrants[role]
    \/ role \in DOMAIN WarehouseGrants /\ permission \in WarehouseGrants[role]
    \/ role \in DOMAIN MillGrants /\ permission \in MillGrants[role]
    \/ role \in DOMAIN OfficeGrants /\ permission \in OfficeGrants[role]

\* PermissionGuard: any of the route's permissions, through any of the roles.
HoldsAny(u, permissions) ==
    \E role \in RolesOf[u], p \in permissions : Grants(role, p)

HasRole(u, roles) == RolesOf[u] \cap roles # {}
IsAdmin(u) == HasRole(u, {"ADMIN"})

\* CONTROL_CENTER_ROLES: who is shown tiles that count the work waiting for them.
HasCenter(u) ==
    HasRole(u, {"MD", "CEO", "FARM_DIRECTOR", "WAREHOUSE_MANAGER", "WAREHOUSE_SUPERVISOR",
                "OPERATIONS_MANAGER", "OPERATIONS_OFFICER", "FINANCE_DIRECTOR"})

\* assertScope and scopedLocationIds: ids are unique across kinds of places.
InScope(u, place) == ScopesOf[u] \cap {"GLOBAL", place} # {}
=============================================================================
