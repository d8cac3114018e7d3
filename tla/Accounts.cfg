SPECIFICATION MCSpec
CONSTANTS
    u1 = u1
    u2 = u2
    a1 = a1
    w1 = w1
    w2 = w2
    i1 = i1
    i2 = i2
    r1 = r1
    r2 = r2
    p1 = p1
    p2 = p2
    Unsaved = Unsaved
    Home = Home
    None = None
    Users <- MCUsers
    PlatformAdmins <- MCPlatformAdmins
    Workers <- MCWorkers
    Invitations <- MCInvitations
    MaxTokens = 3
    MaxLinks = 2
    Roles <- MCRoles
    Editable <- MCEditable
    Locked <- MCLocked
    DefaultPermissions <- MCDefaultPermissions
    Clerks <- MCWorkers
    Editors <- MCWorkers
    MaxTemplates = 12
CHECK_DEADLOCK FALSE
SYMMETRY MCSymmetry
INVARIANTS
    AccountsTypeOK
    SurvivorHasCause
    SessionForksOnlyByOverlap
    ResetLinksAreSpent
    JoinedStaysAccepted
    GrantsWereInForce
    SecondDefaultHasCause
PROPERTIES
    LastAdminGoesByRace
