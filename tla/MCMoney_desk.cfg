SPECIFICATION Spec
CONSTANTS
    o1 = o1
    o2 = o2
    c1 = c1
    f1 = f1
    m1 = m1
    so = so
    fd = fd
    md = md
    fm = fm
    r1 = r1
    r2 = r2
    None = None
    Order = {o1, o2}
    CustomerOf <- MCCustomerOf
    TotalOf <- MCTotalOf
    DueOf <- MCDueOf
    Farm = {f1}
    Warehouse = {}
    Mill = {m1}
    User = {so, fd, md, fm}
    RolesOf <- MCRolesOf
    ScopesOf <- MCScopesOf
    Request = {r1, r2}
    MaxPapers = 2
    MaxExpenses = 1
    MaxInvoices = 2
    MaxAmount = 1
    MaxClosed = 1
    LedgerLimit = 1
SYMMETRY RequestSymmetry
INVARIANT
    DebtsAgree
    SpendingAddsUp
    NobodyStuck
    TrailSaysWhatStands
    InvoicedOnce
\* People may stop asking.
CHECK_DEADLOCK FALSE
