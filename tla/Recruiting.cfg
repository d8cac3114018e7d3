SPECIFICATION MCSpec
CONSTANTS
    e1 = e1
    e2 = e2
    j1 = j1
    j2 = j2
    w1 = w1
    w2 = w2
    None = None
    Emails <- MCEmails
    Jobs <- MCJobs
    Workers <- MCWorkers
    Limits <- MCLimits
    MaxCandidates = 2
    MaxVersions = 1
    MaxQueue = 1
    MaxPeriods = 2
    MaxMails = 1
CHECK_DEADLOCK FALSE
SYMMETRY MCSymmetry
INVARIANTS
    RecruitingTypeOK
    DuplicateNeedsOverlap
    UploadsCountOnce
    ScoresFollowRequirements
    OverallScoreIsOfJob
    OvershootNeedsCrowd
    LimitIsAnnounced
    AlertsRise
    SentMailIsRecorded
