SPECIFICATION ViewsSpec
CONSTANTS
    u1 = u1
    u2 = u2
    t1 = t1
    t2 = t2
    Users = {u1, u2}
    Admins = {u1}
    Tickets = {t1, t2}
    MaxRequests = 5
    MaxFaults = 1
SYMMETRY MCSymmetry
CHECK_DEADLOCK FALSE
INVARIANTS
    TypeOK
    RepliesInOrder
    EditHistoryComplete
    ViewsLoseNothing
