SPECIFICATION FairSpec
CONSTANTS
    u1 = u1
    u2 = u2
    u3 = u3
    t1 = t1
    t2 = t2
    Users = {u1, u2}
    Tickets = {t1}
    Kinds = {"comment_added"}
    CcLists = {{u1, u2}}
    Delay = 1
    Ttl = 1
    MaxEvents = 1
    MaxRowId = 2
    MaxFaults = 1
    MaxChanges = 2
INVARIANTS
    ConsentAtEmission
PROPERTIES
    EveryRowLeaves
