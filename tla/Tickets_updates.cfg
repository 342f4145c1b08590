SPECIFICATION Spec
CONSTANTS
    NULL = NULL
    u1 = u1
    u2 = u2
    Users = {u1, u2}
    Admins = {u1}
    Components = {1, 2}
    SeedTickets <- MCSeedTickets
    SeedMilestones <- MCSeedMilestones
    SeedLinks <- MCSeedLinks
    CreateBodies <- MCCreateBodies
    UpdateBodies <- MCUpdateBodies
    MilestoneBodies <- MCMilestoneBodies
    BadTitles = {""}
    MaxTickets = 2
    MaxMilestones = 3
    MaxRequests = 2
    MaxFaults = 1
CHECK_DEADLOCK FALSE
INVARIANTS
    TypeOK
    UpdatesToldExactly
    UnnamedFieldsKept
    LinksLostOnlyToRaces
