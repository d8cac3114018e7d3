\* Two handlers in flight on the subscription of one company.
SPECIFICATION FairSpec
CONSTANTS
    w1 = w1
    w2 = w2
    Workers <- MCWorkers
    StripeChoices <- MCStripeChoices
    PeriodChoices <- MCPeriodChoices
    AdminChoices <- MCAdminChoices
    MaxTime = 1
    Period = 0
    GracePeriod = 0
    MaxFailures = 1
INVARIANTS
    TypeOK
    StaleEntryHasCause
PROPERTIES
    CancellationBites
    LapsedExpire
    GraceEnds
