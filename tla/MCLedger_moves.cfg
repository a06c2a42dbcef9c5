SPECIFICATION FairSpec
CONSTANTS
    wh = wh
    packs2 = packs2
    road = road
    truck = truck
    away = away
    hold = hold
    cust = cust
    cust2 = cust2
    mill = mill
    rice = rice
    broken = broken
    hull = hull
    packs = packs
    Nowhere = Nowhere
    r1 = r1
    r2 = r2
    r3 = r3
    Request = {r1, r2, r3}
    Key = {wh, mill, road, truck, rice, broken, hull, packs, packs2, cust, cust2}
    Script <- DayScripts
    Opening <- MCDayOpening
    KgSlack = 1
    LastYear = 2
    QuietNewYear = TRUE
INVARIANTS
    NoLostUpdate
    IInv
PROPERTIES
    ImplementsStockBook
    RequestsEnd
\* Once every request has ended and the last year has come, nothing is left to do.
CHECK_DEADLOCK FALSE
