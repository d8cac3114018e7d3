\* Two interviews that compete for one interviewer, and one without.
SPECIFICATION FairSpec
CONSTANTS
    i1 = i1
    i2 = i2
    i3 = i3
    u1 = u1
    NoUser = NoUser
    Interviews <- MCInterviews
    Users <- MCUsers
    Interviewer <- MCInterviewer
    Duration <- MCDuration
    Proposals <- MCProposals
    HourChoices <- MCHourChoices
    MaxTime = 2
    ManagerTimeout = 0
    BatchSize = 2
INVARIANTS
    TypeOK
    NoDoubleBooking
    BookedSlotKept
    EmptyOffersExpire
    OffersAvoidBookings
PROPERTIES
    BookingsStand
    FixedOffersResolve
    RequestsResolve
