SPECIFICATION PunctualSpec
CONSTANTS
    u1 = u1
    u2 = u2
    u3 = u3
    t1 = t1
    t2 = t2
    Users = {u1, u2}
    Tickets = {t1}
    Kinds = {"comment_added"}
    CcLists = {{}}
    Delay = 1
    Ttl = 2
    MaxEvents = 1
    MaxRowId = 2
    MaxFaults = 1
    MaxChanges = 0
PROPERTIES
    ExpiryFollowsASendPass
