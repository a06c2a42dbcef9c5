SPECIFICATION Spec
CONSTANTS
    w1 = w1
    w2 = w2
    m1 = m1
    stk = stk
    pad = pad
    mil = mil
    fin = fin
    ws = ws
    oo = oo
    gm = gm
    r1 = r1
    r2 = r2
    Nobody = Nobody
    Haul = {stk, pad, mil, fin}
    KindOf <- MCKindOf
    Warehouse = {w1, w2}
    Mill = {m1}
    WarehouseOf <- MCWarehouseOf
    User = {ws, oo, gm}
    RolesOf <- MCRolesOf
    ScopesOf <- MCScopesOf
    Request = {r1, r2}
    Opening <- MCOpening
    PaddyLimit = 1
    MillLimit = 1
    MaxBags = 1
    MaxPromised = 2
SYMMETRY RequestSymmetry
INVARIANT
    IInv
    
    ListsShowWork
    WhereaboutsAgree
PROPERTY
    ImplementsHaulage
\* People may stop asking.
CHECK_DEADLOCK FALSE
