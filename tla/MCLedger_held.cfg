SPECIFICATION Spec
CONSTANTS
    wh = wh
    packs2 = packs2
    road = road
    truck = truck
    away = away
    hold = hold
    cust = cust
    cust2 = cust2
    mill = mill
    rice = rice
    broken = broken
    hull = hull
    packs = packs
    Nowhere = Nowhere
    r1 = r1
    r2 = r2
    Request = {r1, r2}
    Key = {road, away, wh, hold}
    Script <- HeldScripts
    Opening <- MCHeldOpening
    KgSlack = 1
    LastYear = 1
    QuietNewYear = FALSE
INVARIANTS
    RowsExplainBalances
\* Once every request has ended and the last year has come, nothing is left to do.
CHECK_DEADLOCK FALSE
