SPECIFICATION PunctualSpec
CONSTANTS
    u1 = u1
    u2 = u2
    u3 = u3
    t1 = t1
    t2 = t2
    Users = {u1, u2}
    Tickets = {t1}
    Kinds = {"owner_changed", "ticket_created"}
    CcLists = {{}, {u1, u2}}
    Delay = 1
    Ttl = 3
    MaxEvents = 2
    MaxRowId = 2
    MaxFaults = 0
    MaxChanges = 1
SYMMETRY MCSymmetry
INVARIANTS
    HandledPromptly
