SPECIFICATION ServerSpec
CONSTANTS
    ann = ann
    bob = bob
    b1 = b1
    b2 = b2
    Nobody = Nobody
    Keep = Keep
    CommandLines <- MCCommandLines
    MaxStarts = 2
    Users = {ann, bob}
    Admins = {ann}
    Browsers = {b1, b2}
    MaxFlows = 2
    MaxSessions = 1
    MaxInFlight = 2
SYMMETRY MCSymmetry
CHECK_DEADLOCK FALSE
INVARIANTS
    TypeOK
    ServedAsConfigured
    SignedInAsOneself
    LoneFlowSignsIn
    AdminWorkOnlyForAdmins
