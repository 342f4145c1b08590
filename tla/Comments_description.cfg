SPECIFICATION Spec
CONSTANTS
    u1 = u1
    u2 = u2
    t1 = t1
    t2 = t2
    Users = {u1}
    Admins = {u1}
    Tickets = {t1, t2}
    MaxRequests = 6
    MaxFaults = 0
SYMMETRY MCSymmetry
CHECK_DEADLOCK FALSE
PROPERTY
    DescriptionCannotBeDeleted
