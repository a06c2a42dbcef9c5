SPECIFICATION Spec
CONSTANTS
    officer = officer
    finance = finance
    md = md
    supervisor = supervisor
    team1 = team1
    team2 = team2
    w1 = w1
    w2 = w2
    o1 = o1
    o2 = o2
    Nobody = Nobody
    Nowhere = Nowhere
    r1 = r1
    r2 = r2
    User = {officer, finance, md, supervisor, team1, team2}
    Warehouse = {w1, w2}
    Order = {o1}
    Request = {r1, r2}
    Bags <- MCOneBag
    Opening <- MCOpening
    Holder <- MCHolder
    Team <- MCTeam
    Everywhere <- MCEverywhere
    MaxAssign = 2
    Movable = {"IN_PROGRESS", "REVIEW"}
SYMMETRY RequestSymmetry
INVARIANTS
    HeldOnce
    NothingLeavesUnapproved
    ScreensTellTruth
    NobodyChasesCancelled
\* Every order may have been delivered, rejected or cancelled.
CHECK_DEADLOCK FALSE
