\* Maintenance races with the other handlers.
SPECIFICATION Spec
SYMMETRY WorkerSymmetry
CONSTANTS
    i1 = i1
    i2 = i2
    u1 = u1
    w1 = w1
    w2 = w2
    NoUser = NoUser
    NoInterview = NoInterview
    Interviews <- MCPair
    Users <- MCUsers
    Workers <- MCTwo
    Interviewer <- MCInterviewer
    Duration <- MCDuration
    Proposals <- MCProposals
    HourChoices <- MCOpenHours
    MaxTime = 2
    ManagerTimeout = 0
    BatchSize = 1
PROPERTIES
    MaintenanceSparesAnswered
