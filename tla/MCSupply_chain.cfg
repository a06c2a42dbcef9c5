SPECIFICATION Spec
CONSTANTS
    w1 = w1
    w2 = w2
    m1 = m1
    f1 = f1
    ws = ws
    fd = fd
    om = om
    oo = oo
    r1 = r1
    r2 = r2
    None = None
    N = 2
    MaxAsked = 1
    MaxSent = 2
    MaxBusy = 1
    BoardLimit = 2
    Warehouse = {w1, w2}
    Mill = {m1}
    Farm = {f1}
    WarehouseOf <- MCWarehouseOf
    User = {ws, fd, om, oo}
    RolesOf <- MCRolesOf
    ScopesOf <- MCScopesOf
    Request = {r1, r2}
SYMMETRY RequestSymmetry
INVARIANT
    MillBooksWhatWasReady
    AnsweredOnce
    OnTheRightDesk
    ReviewedFirst
\* People may stop asking.
CHECK_DEADLOCK FALSE
