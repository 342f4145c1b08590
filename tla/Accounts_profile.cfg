SPECIFICATION Spec
CONSTANTS
    root = root
    bob = bob
    ann = ann
    p1 = p1
    p2 = p2
    x = x
    Null = Null
    Logins = {root, bob, ann}
    Passwords = {p1, p2}
    Subs = {x}
    Ids = {1, 2, 3}
    Population <- MCPopulation
    MaxRequests = 2
    MaxAtOnce = 2
    MaxEvents = 0
CHECK_DEADLOCK FALSE
PROPERTIES
    ProfileEditsKeepRoles
