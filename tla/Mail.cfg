SPECIFICATION MCSpec
CONSTANTS
    c1 = c1
    c2 = c2
    A = A
    B = B
    m1 = m1
    m2 = m2
    m3 = m3
    s1 = s1
    w1 = w1
    w2 = w2
    None = None
    Connections <- MCConnections
    Companies <- MCCompanies
    Mails <- MCMails
    Senders <- MCSenders
    Workers <- MCWorkers
    Page = 1
    MaxClock = 4
    MaxGrants = 3
    MaxCandidates = 2
CHECK_DEADLOCK FALSE
SYMMETRY MCSymmetry
INVARIANTS
    MailTypeOK
    PassedMailIsAccountedFor
    ForeignMailNeedsFallback
    RefusedRowsHaveNoCandidate
    DeactivationHasCause
    WaitingMailIsAnnounced
