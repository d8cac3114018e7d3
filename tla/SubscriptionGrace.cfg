\* The grace period column.
SPECIFICATION Spec
CONSTANTS
    w1 = w1
    w2 = w2
    Workers <- MCOne
    StripeChoices <- MCStripeChoices
    PeriodChoices <- MCPeriodChoices
    AdminChoices <- MCAdminChoices
    MaxTime = 2
    Period = 1
    GracePeriod = 1
    MaxFailures = 0
INVARIANTS
    GraceOnlyWhenPastDue
