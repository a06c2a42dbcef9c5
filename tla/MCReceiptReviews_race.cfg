SPECIFICATION Spec
CONSTANTS
    s1 = s1
    s2 = s2
    s3 = s3
    t1 = t1
    t2 = t2
    g1 = g1
    g2 = g2
    manager = manager
    both = both
    supervisor = supervisor
    Nobody = Nobody
    r1 = r1
    r2 = r2
    Shipment = {s1, s2, s3}
    Truck = {t1, t2}
    Grade = {g1, g2}
    User = {manager, supervisor}
    Request = {r1, r2}
    TruckOf <- MCTrucks
    GradeOf <- MCGrades
    Sent <- MCBags
    Manager = {manager}
    Supervisor = {supervisor}
    MaxExtra = 0
SYMMETRY RequestSymmetry
INVARIANTS
    CountedInOnce
    OneOpenReview
    HeldBagsAwaitDecision
    BagsConserved
\* Every size may have been counted in and every review decided.
CHECK_DEADLOCK FALSE
