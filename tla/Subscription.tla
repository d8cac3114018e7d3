---------------------------- MODULE Subscription ----------------------------
(***************************************************************************)
(* The subscription of a company: its row, the cached copy SubscriptionGuard *)
(* decides from, and everything that writes them: Stripe's webhooks, the   *)
(* daily crons and the platform administrators.  Rows of different         *)
(* companies never meet, so there is one company.                          *)
(*                                                                         *)
(* Up to |Workers| handlers are in flight.  A handler that writes values it *)
(* read before an await takes a step for the read and one for the write; a *)
(* handler whose writes depend on nothing it read starts with its write.   *)
(* Every writer but one drops the cache entry in a step of its own.        *)
(*                                                                         *)
(* Stripe promises neither order nor single delivery, so a webhook may     *)
(* arrive at any time and report any of the chosen statuses and periods.   *)
(***************************************************************************)
EXTENDS Integers, FiniteSets

CONSTANTS
    Workers,
    MaxTime,        \* bound: the clock stops here
    Period,         \* a billing period, in ticks
    GracePeriod,    \* GRACE_PERIOD_DAYS, in ticks
    StripeChoices,  \* bound: the statuses Stripe reports
    PeriodChoices,  \* bound: the period ends Stripe reports, or NoTime for none
    AdminChoices,   \* bound: the statuses an administrator sets
    MaxFailures     \* bound: how many handlers stop half way

Times == 0 .. MaxTime
NoTime == -1
Deadlines == 0 .. (MaxTime + Period + GracePeriod)

SubscriptionStatus == {"TRIALING", "ACTIVE", "PAST_DUE", "CANCELED", "UNPAID",
                       "INCOMPLETE", "INCOMPLETE_EXPIRED", "EXPIRED"}
StripeStatus == {"trialing", "active", "past_due", "canceled", "unpaid",
                 "incomplete", "incomplete_expired", "paused"}

ASSUME BoundAssumption == {MaxTime, Period, GracePeriod, MaxFailures} \subseteq Nat
ASSUME ChoiceAssumption == /\ StripeChoices \subseteq StripeStatus
                           /\ PeriodChoices \subseteq Times \cup {NoTime}
                           /\ AdminChoices \subseteq SubscriptionStatus

NoRow == [status |-> "none"]
NoEntry == [status |-> "none"]

VARIABLES
    sub,       \* the Subscription row, or NoRow
    cache,     \* the cached status and period end, or NoEntry
    now,       \* the clock
    job,       \* job[w]: the handler worker w runs, and what it has read
    causes,    \* history: why the cached entry may be out of date
    failures   \* how many handlers have stopped half way

vars == <<sub, cache, now, job, causes, failures>>

Row == [status : SubscriptionStatus, periodEnd : Deadlines, grace : Deadlines \cup {NoTime}]
Entry == [status : SubscriptionStatus, periodEnd : Deadlines]

\* What getSubscription caches of a row.
EntryOf(row) == [status |-> row.status, periodEnd |-> row.periodEnd]

\* at: the next statement; entry: what a fill, or an update, is about to write.
Job == [at : {"idle", "store", "update", "expire", "close", "drop"},
        entry : Entry \cup {NoEntry}]
Idle == [at |-> "idle", entry |-> NoEntry]

Init ==
    /\ sub = NoRow
    /\ cache = NoEntry
    /\ now = 0
    /\ job = [w \in Workers |-> Idle]
    /\ causes = {}
    /\ failures = 0

-----------------------------------------------------------------------------
(* Reading *)

InactiveStatuses == {"CANCELED", "UNPAID", "INCOMPLETE_EXPIRED", "EXPIRED"}

\* SubscriptionGuard.canActivate, without the usage limits.
Admits(entry) ==
    entry # NoEntry /\ entry.status \notin InactiveStatuses /\ entry.periodEnd >= now

Goto(w, step, entry) == job' = [job EXCEPT ![w] = [at |-> step, entry |-> entry]]

\* getSubscription on a cache miss: read the row, then cache what was read.
GetSubscription(w) ==
    /\ job[w] = Idle
    /\ cache = NoEntry /\ sub # NoRow
    /\ Goto(w, "store", EntryOf(sub))
    /\ UNCHANGED <<sub, cache, now, causes, failures>>

SetSubscription(w) ==
    /\ job[w].at = "store"
    /\ cache' = job[w].entry
    /\ causes' = IF job[w].entry # EntryOf(sub) THEN {"fill"} ELSE {}
    /\ job' = [job EXCEPT ![w] = Idle]
    /\ UNCHANGED <<sub, now, failures>>

\* Mutant: the entry has no time to live.
NeverEvict == FALSE /\ UNCHANGED vars

\* The entry's time to live ends, or the store drops it.
Evict ==
    /\ cache # NoEntry
    /\ cache' = NoEntry
    /\ causes' = {}
    /\ UNCHANGED <<sub, now, job, failures>>

\* invalidateSubscription, the last step of a writer.
Invalidate(w) ==
    /\ job[w].at = "drop"
    /\ cache' = NoEntry
    /\ causes' = {}
    /\ job' = [job EXCEPT ![w] = Idle]
    /\ UNCHANGED <<sub, now, failures>>

-----------------------------------------------------------------------------
(* Webhooks *)

\* Mutant: the status Stripe reports is stored as it is.
StripeStatusItself(status) == status

\* mapStripeStatus: what the table does not know counts as active.
MapStripeStatus(status) ==
    CASE status = "trialing" -> "TRIALING"
      [] status = "past_due" -> "PAST_DUE"
      [] status = "canceled" -> "CANCELED"
      [] status = "unpaid" -> "UNPAID"
      [] status = "incomplete" -> "INCOMPLETE"
      [] status = "incomplete_expired" -> "INCOMPLETE_EXPIRED"
      [] OTHER -> "ACTIVE"

\* The row is written; the cache entry is dropped next.
Write(w, row) ==
    /\ sub' = row
    /\ Goto(w, "drop", NoEntry)
    /\ UNCHANGED <<cache, now, causes, failures>>

\* handleCheckoutCompleted: what Stripe says now, with a period of its own when
\* Stripe reports none (p = NoTime).
CheckoutCompleted(w, status, p) ==
    /\ job[w] = Idle
    /\ Write(w, [status |-> MapStripeStatus(status),
                 periodEnd |-> IF p = NoTime THEN now + Period ELSE p,
                 grace |-> IF sub = NoRow THEN NoTime ELSE sub.grace])

\* handleInvoicePaid.
InvoicePaid(w) ==
    /\ job[w] = Idle
    /\ Write(w, IF sub = NoRow THEN NoRow ELSE [sub EXCEPT !.status = "ACTIVE"])

\* handleInvoicePaymentFailed, startGracePeriod.
InvoicePaymentFailed(w) ==
    /\ job[w] = Idle
    /\ sub # NoRow
    /\ Write(w, [sub EXCEPT !.status = "PAST_DUE", !.grace = now + GracePeriod])

\* handleSubscriptionUpdated reads the row for the period it keeps when Stripe
\* reports none.
SubscriptionUpdated(w, status, p) ==
    /\ job[w] = Idle
    /\ sub # NoRow
    /\ Goto(w, "update", [status |-> MapStripeStatus(status),
                          periodEnd |-> IF p = NoTime THEN sub.periodEnd ELSE p])
    /\ UNCHANGED <<sub, cache, now, causes, failures>>

WriteUpdate(w) ==
    /\ job[w].at = "update"
    /\ Write(w, [sub EXCEPT !.status = job[w].entry.status,
                            !.periodEnd = job[w].entry.periodEnd])

\* handleSubscriptionDeleted, which leaves the cache alone.
SubscriptionDeleted(w) ==
    /\ job[w] = Idle
    /\ sub # NoRow
    /\ sub' = [sub EXCEPT !.status = "CANCELED"]
    /\ causes' = IF cache = NoEntry THEN causes ELSE causes \cup {"deleted"}
    /\ UNCHANGED <<cache, now, job, failures>>

-----------------------------------------------------------------------------
(* Crons *)

Lapsed(row) == row # NoRow /\ row.status = "ACTIVE" /\ row.periodEnd < now
GraceOver(row) ==
    row # NoRow /\ row.status = "PAST_DUE" /\ row.grace # NoTime /\ row.grace < now

\* Mutant: gives a period that has ended one more day.
FindLapsedLate(w) ==
    /\ job[w] = Idle
    /\ Lapsed(sub) /\ sub.periodEnd + 1 < now
    /\ Goto(w, "expire", NoEntry)
    /\ UNCHANGED <<sub, cache, now, causes, failures>>

\* checkAndExpireSubscriptions finds the row, then expires it by its id.
FindLapsed(w) ==
    /\ job[w] = Idle
    /\ Lapsed(sub)
    /\ Goto(w, "expire", NoEntry)
    /\ UNCHANGED <<sub, cache, now, causes, failures>>

ExpireLapsed(w) ==
    /\ job[w].at = "expire"
    /\ Write(w, [sub EXCEPT !.status = "EXPIRED"])

\* Mutant: waits for the period to end as well.
FindGraceAndPeriodOver(w) ==
    /\ job[w] = Idle
    /\ GraceOver(sub) /\ sub.periodEnd < now
    /\ Goto(w, "close", NoEntry)
    /\ UNCHANGED <<sub, cache, now, causes, failures>>

\* checkGracePeriods, in the same way.
FindGraceOver(w) ==
    /\ job[w] = Idle
    /\ GraceOver(sub)
    /\ Goto(w, "close", NoEntry)
    /\ UNCHANGED <<sub, cache, now, causes, failures>>

CloseUnpaid(w) ==
    /\ job[w].at = "close"
    /\ Write(w, [sub EXCEPT !.status = "UNPAID", !.grace = NoTime])

-----------------------------------------------------------------------------
(* Platform administration *)

\* grant: a subscription without Stripe.
Grant(w) ==
    /\ job[w] = Idle
    /\ Write(w, [status |-> "ACTIVE", periodEnd |-> now + Period, grace |-> NoTime])

\* Mutant: the cache entry is dropped before the write, not after it.
UpdateInvalidated(w, status) ==
    /\ job[w] = Idle
    /\ sub # NoRow
    /\ sub' = [sub EXCEPT !.status = status]
    /\ UNCHANGED <<cache, now, job, causes, failures>>

\* update: the administrator sets a status, or leaves it (and changes the plan).
Update(w, status) ==
    /\ job[w] = Idle
    /\ sub # NoRow
    /\ Write(w, [sub EXCEPT !.status = status])

-----------------------------------------------------------------------------

Tick ==
    /\ now < MaxTime
    /\ now' = now + 1
    /\ UNCHANGED <<sub, cache, job, causes, failures>>

\* A statement fails or the process stops: what was written stays written, and a
\* cache entry about to be dropped is not.
Fail(w) ==
    /\ job[w] # Idle
    /\ failures < MaxFailures
    /\ failures' = failures + 1
    /\ causes' = IF job[w].at = "drop" /\ cache # NoEntry THEN causes \cup {"stopped"}
                 ELSE causes
    /\ job' = [job EXCEPT ![w] = Idle]
    /\ UNCHANGED <<sub, cache, now>>

Webhook(w) ==
    \/ \E status \in StripeChoices, p \in PeriodChoices :
        CheckoutCompleted(w, status, p) \/ SubscriptionUpdated(w, status, p)
    \/ InvoicePaid(w)
    \/ InvoicePaymentFailed(w)
    \/ SubscriptionDeleted(w)

Admin(w) == Grant(w) \/ \E status \in AdminChoices \cup {sub.status} : Update(w, status)

\* A handler's next statement.
Step(w) ==
    \/ SetSubscription(w)
    \/ WriteUpdate(w)
    \/ ExpireLapsed(w)
    \/ CloseUnpaid(w)
    \/ Invalidate(w)

Next ==
    \/ \E w \in Workers :
        \/ GetSubscription(w) \/ Webhook(w) \/ Admin(w)
        \/ FindLapsed(w) \/ FindGraceOver(w)
        \/ Step(w) \/ Fail(w)
    \/ Evict
    \/ Tick

Spec == Init /\ [][Next]_vars

\* A handler in flight goes on; a cache entry lives for a limited time; the crons
\* come back every day, and do not share their turn with requests: that all
\* workers are busy now and then does not keep them from running (strong fairness).
FairSpec ==
    /\ Spec
    /\ \A w \in Workers : WF_vars(Step(w))
    /\ WF_vars(Evict)
    /\ SF_vars(\E w \in Workers : FindLapsed(w))
    /\ SF_vars(\E w \in Workers : FindGraceOver(w))

-----------------------------------------------------------------------------
(* Properties *)

TypeOK ==
    /\ sub \in Row \cup {NoRow}
    /\ cache \in Entry \cup {NoEntry}
    /\ now \in Times
    /\ job \in [Workers -> Job]
    /\ causes \subseteq {"fill", "deleted", "stopped"}
    /\ failures \in 0 .. MaxFailures

\* When the guard's copy differs from the row, a writer is about to drop it, or
\* one of three things happened since it was cached: a fill wrote what it had read
\* before another handler's write, handleSubscriptionDeleted left the entry
\* alone, or a handler stopped between its write and its invalidation.
StaleEntryHasCause ==
    (cache # NoEntry /\ sub # NoRow /\ cache # EntryOf(sub))
        => causes # {} \/ \E w \in Workers : job[w].at = "drop"

\* A cancellation that stands reaches the guard: whatever the cache holds then,
\* and whatever stale copy a fill still stores, it is not served for ever.
CancellationBites ==
    <>[](sub.status = "CANCELED") => <>[](~Admits(cache))

\* An active subscription does not outlive its period for ever: it is renewed or
\* the daily cron expires it.
LapsedExpire == Lapsed(sub) ~> ~Lapsed(sub)

\* A grace period that is over is closed or paid.
GraceEnds == GraceOver(sub) ~> ~GraceOver(sub)

\* gracePeriodEndsAt is set when a payment fails and null otherwise (the comment
\* of the column in prisma/schema.prisma).
GraceOnlyWhenPastDue ==
    (sub # NoRow /\ sub.status # "PAST_DUE") => sub.grace = NoTime
=============================================================================
