\* Every handler ends, deadlocks included.
SPECIFICATION FairSpec
CONSTANTS
    i1 = i1
    i2 = i2
    u1 = u1
    w1 = w1
    w2 = w2
    NoUser = NoUser
    NoInterview = NoInterview
    Interviews <- MCPair
    Users <- MCUsers
    Workers <- MCTwo
    Interviewer <- MCInterviewer
    Duration <- MCDuration
    Proposals <- MCOneStart
    HourChoices <- MCNoHours
    MaxTime = 1
    ManagerTimeout = 0
    BatchSize = 1
PROPERTIES
    EveryRequestEnds
