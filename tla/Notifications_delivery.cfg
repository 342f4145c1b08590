SPECIFICATION Spec
CONSTANTS
    u1 = u1
    u2 = u2
    u3 = u3
    t1 = t1
    t2 = t2
    Users = {u1, u2}
    Tickets = {t1, t2}
    Kinds = {"milestone_added", "priority_changed"}
    CcLists = {{}}
    Delay = 1
    Ttl = 2
    MaxEvents = 2
    MaxRowId = 2
    MaxFaults = 2
    MaxChanges = 0
SYMMETRY MCSymmetry
INVARIANTS
    TypeOK
    HeldRowsLive
    GoneForItsOwnVerdict
    RepeatedOnlyByFaults
PROPERTIES
    OutboxSpec
