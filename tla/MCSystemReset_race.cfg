SPECIFICATION Spec
CONSTANTS
    admin = admin
    fd = fd
    mdir = mdir
    ceo = ceo
    both = both
    Nobody = Nobody
    q1 = q1
    h1 = h1
    h2 = h2
    User = {admin, fd, mdir, ceo, both}
    Reset = {q1}
    Request = {h1,h2}
    Asker = {admin, fd}
    FinanceDirector = {fd, both}
    Executive = {mdir, ceo, both}
    Executor = {admin}
SYMMETRY CallSymmetry
INVARIANTS
    WipedOnlyWithBoth
    RejectionIsLast
    BothSignaturesCount
\* Every reset may have been executed or rejected.
CHECK_DEADLOCK FALSE
