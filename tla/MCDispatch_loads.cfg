SPECIFICATION Spec
CONSTANTS
    s4 = s4
    s5 = s5
    f1 = f1
    fm = fm
    fd = fd
    r1 = r1
    r2 = r2
    Size = {s4, s5}
    Opening <- MCOpening
    Farm = f1
    Manager = fm
    User = {fm, fd}
    RolesOf <- MCRolesOf
    ScopesOf <- MCScopesOf
    Request = {r1, r2}
    MaxOrders = 2
    MaxReports = 2
    MaxBags = 2
    Loader = {fm}
    MovedTo = {"CANCELLED"}
SYMMETRY RequestSymmetry
INVARIANT
    BagsConserved
    OneUnderWay
    Together
    WhatLeftStands
    TaskFollows
PROPERTY
    CardMoves
\* People may stop asking.
CHECK_DEADLOCK FALSE
