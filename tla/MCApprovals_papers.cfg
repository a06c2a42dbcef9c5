SPECIFICATION Spec
CONSTANTS
    fm = fm
    fd = fd
    oo = oo
    om = om
    wm = wm
    Farm = Farm
    Warehouse = Warehouse
    Mill = Mill
    User = {fm, fd, oo, om, wm}
    RolesOf <- MCRolesOf
    ScopesOf <- MCScopesOf
    AdjustedAt <- MCAdjustedAt
    Request = {r1, r2}
    BagKg = 3
    MaxPapers = 2
    Entry = {e1, e2}
    Record = {p1, p2}
    Adjustment = {a1}
    Figure <- FullBags
    Opening <- MCOpening
SYMMETRY RequestSymmetry
INVARIANT
    EntriesBookedOnce
    PapersExplainStock
    FullBagsStayFull
\* Papers run out and people may stop asking.
CHECK_DEADLOCK FALSE
