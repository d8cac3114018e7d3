------------------------- MODULE SubscriptionProofs -------------------------
(***************************************************************************)
(* What holds of the subscription of a company for any number of handlers in *)
(* flight, any clock and any set of reports of Stripe.                     *)
(***************************************************************************)
EXTENDS Subscription, TLAPS

\* What a handler between two statements relies on: the row it found is still
\* there, and an update has values to write.
JobsOK ==
    \A w \in Workers :
        /\ job[w].at \in {"update", "expire", "close"} => sub # NoRow
        /\ job[w].at \in {"update", "store"} => job[w].entry \in Entry

IInv == TypeOK /\ JobsOK

\* What Stripe reports is always one of our statuses, 'paused' included
\* (the || 'ACTIVE' of mapStripeStatus).
LEMMA MapIsStatus ==
    ASSUME NEW status
    PROVE  MapStripeStatus(status) \in SubscriptionStatus
BY DEF MapStripeStatus, SubscriptionStatus

LEMMA RowFacts ==
    /\ \A s \in SubscriptionStatus, p \in Deadlines, g \in Deadlines \cup {NoTime} :
        [status |-> s, periodEnd |-> p, grace |-> g] \in Row
    /\ NoRow \notin Row
    /\ NoEntry \notin Entry
    /\ \A row \in Row :
        /\ EntryOf(row) \in Entry
        /\ \A s \in SubscriptionStatus : [row EXCEPT !.status = s] \in Row
        /\ \A s \in SubscriptionStatus, g \in Deadlines \cup {NoTime} :
            [row EXCEPT !.status = s, !.grace = g] \in Row
        /\ \A s \in SubscriptionStatus, p \in Deadlines :
            [row EXCEPT !.status = s, !.periodEnd = p] \in Row
BY DEF Row, Entry, NoRow, NoEntry, EntryOf, SubscriptionStatus

\* A deadline set now, or reported by Stripe, fits.
LEMMA DeadlineFacts ==
    ASSUME now \in Times
    PROVE  /\ now + Period \in Deadlines /\ now + GracePeriod \in Deadlines
           /\ Times \subseteq Deadlines
BY BoundAssumption DEF Times, Deadlines

\* Every writer ends in Write with a row: the invariant survives it.
LEMMA WriteKeeps ==
    ASSUME IInv, NEW w \in Workers, NEW row, Write(w, row),
           row \in Row \/ (row = NoRow /\ sub = NoRow)
    PROVE  IInv'
<1>1. /\ sub' = row /\ job' = [job EXCEPT ![w] = [at |-> "drop", entry |-> NoEntry]]
      /\ UNCHANGED <<cache, now, causes, failures>>
  BY DEF Write, Goto
<1>2. [at |-> "drop", entry |-> NoEntry] \in Job
  BY DEF Job
<1>3. TypeOK'
  BY <1>1, <1>2 DEF IInv, TypeOK
<1>4. sub # NoRow => sub' # NoRow
  BY <1>1, RowFacts DEF IInv
<1>5. JobsOK'
  BY <1>1, <1>4 DEF IInv, JobsOK, TypeOK
<1> QED BY <1>3, <1>5 DEF IInv

\* A handler that moves on without touching the row.
LEMMA GotoKeeps ==
    ASSUME IInv, NEW w \in Workers, NEW step, NEW entry, Goto(w, step, entry),
           step \in {"store", "update", "expire", "close"}, sub # NoRow,
           entry \in Entry \/ (entry = NoEntry /\ step \in {"expire", "close"}),
           UNCHANGED <<sub, cache, now, causes, failures>>
    PROVE  IInv'
<1>1. job' = [job EXCEPT ![w] = [at |-> step, entry |-> entry]]
  BY DEF Goto
<1>2. [at |-> step, entry |-> entry] \in Job
  BY DEF Job
<1>3. TypeOK'
  BY <1>1, <1>2 DEF IInv, TypeOK
<1>4. JobsOK'
  BY <1>1 DEF IInv, JobsOK, TypeOK
<1> QED BY <1>3, <1>4 DEF IInv

LEMMA WebhookKeeps ==
    ASSUME IInv, NEW w \in Workers, Webhook(w)
    PROVE  IInv'
<1>1. /\ sub \in Row \cup {NoRow} /\ now \in Times
      /\ job \in [Workers -> Job]
  BY DEF IInv, TypeOK
<1>2. sub # NoRow => /\ sub \in Row /\ sub.periodEnd \in Deadlines
                     /\ sub.grace \in Deadlines \cup {NoTime}
  BY <1>1 DEF Row
<1>3. ASSUME NEW status \in StripeChoices, NEW p \in PeriodChoices, CheckoutCompleted(w, status, p)
      PROVE  IInv'
  <2>1. (IF p = NoTime THEN now + Period ELSE p) \in Deadlines
    BY <1>1, DeadlineFacts, ChoiceAssumption
  <2>2. (IF sub = NoRow THEN NoTime ELSE sub.grace) \in Deadlines \cup {NoTime}
    BY <1>2
  <2>3. [status |-> MapStripeStatus(status),
         periodEnd |-> IF p = NoTime THEN now + Period ELSE p,
         grace |-> IF sub = NoRow THEN NoTime ELSE sub.grace] \in Row
    BY <2>1, <2>2, MapIsStatus, RowFacts
  <2> QED BY <1>3, <2>3, WriteKeeps DEF CheckoutCompleted
<1>4. ASSUME NEW status \in StripeChoices, NEW p \in PeriodChoices, SubscriptionUpdated(w, status, p)
      PROVE  IInv'
  <2>1. (IF p = NoTime THEN sub.periodEnd ELSE p) \in Deadlines
    BY <1>1, <1>2, <1>4, DeadlineFacts, ChoiceAssumption DEF SubscriptionUpdated
  <2>2. [status |-> MapStripeStatus(status),
         periodEnd |-> IF p = NoTime THEN sub.periodEnd ELSE p] \in Entry
    BY <2>1, MapIsStatus DEF Entry
  <2> QED BY <1>4, <2>2, GotoKeeps DEF SubscriptionUpdated
<1>5. CASE InvoicePaid(w)
  <2>1. "ACTIVE" \in SubscriptionStatus
    BY DEF SubscriptionStatus
  <2>2. CASE sub = NoRow
    BY <1>5, <2>2, WriteKeeps DEF InvoicePaid
  <2>3. CASE sub # NoRow
    BY <1>2, <1>5, <2>1, <2>3, RowFacts, WriteKeeps DEF InvoicePaid
  <2> QED BY <2>2, <2>3
<1>6. CASE InvoicePaymentFailed(w)
  <2>1. "PAST_DUE" \in SubscriptionStatus
    BY DEF SubscriptionStatus
  <2>2. [sub EXCEPT !.status = "PAST_DUE", !.grace = now + GracePeriod] \in Row
    BY <1>1, <1>2, <1>6, <2>1, DeadlineFacts, RowFacts DEF InvoicePaymentFailed
  <2> QED BY <1>6, <2>2, WriteKeeps DEF InvoicePaymentFailed
<1>7. CASE SubscriptionDeleted(w)
  <2>1. sub' \in Row
    BY <1>2, <1>7, RowFacts DEF SubscriptionDeleted, SubscriptionStatus
  <2>2. TypeOK'
    BY <1>7, <2>1 DEF SubscriptionDeleted, IInv, TypeOK
  <2>3. JobsOK'
    BY <1>7, <2>1, RowFacts DEF SubscriptionDeleted, IInv, JobsOK
  <2> QED BY <2>2, <2>3 DEF IInv
<1> QED BY <1>3, <1>4, <1>5, <1>6, <1>7 DEF Webhook

LEMMA AdminKeeps ==
    ASSUME IInv, NEW w \in Workers, Admin(w)
    PROVE  IInv'
<1>1. sub \in Row \cup {NoRow} /\ now \in Times
  BY DEF IInv, TypeOK
<1>2. CASE Grant(w)
  <2>1. [status |-> "ACTIVE", periodEnd |-> now + Period, grace |-> NoTime] \in Row
    BY <1>1, DeadlineFacts DEF Row, SubscriptionStatus
  <2> QED BY <1>2, <2>1, WriteKeeps DEF Grant
<1>3. ASSUME NEW status \in AdminChoices \cup {sub.status}, Update(w, status)
      PROVE  IInv'
  <2>1. sub \in Row
    BY <1>1, <1>3 DEF Update
  <2>2. status \in SubscriptionStatus
    BY <1>3, <2>1, ChoiceAssumption DEF Row
  <2>3. [sub EXCEPT !.status = status] \in Row
    BY <2>1, <2>2, RowFacts
  <2> QED BY <1>3, <2>3, WriteKeeps DEF Update
<1> QED BY <1>2, <1>3 DEF Admin

LEMMA StepKeeps ==
    ASSUME IInv, NEW w \in Workers, Step(w)
    PROVE  IInv'
<1>1. /\ sub \in Row \cup {NoRow} /\ now \in Times
      /\ job \in [Workers -> Job] /\ Idle \in Job
  BY DEF IInv, TypeOK, Idle, Job
<1>2. CASE SetSubscription(w)
  <2>1. job[w].entry \in Entry
    BY <1>2 DEF SetSubscription, IInv, JobsOK
  <2>2. TypeOK'
    BY <1>1, <1>2, <2>1 DEF SetSubscription, IInv, TypeOK
  <2>3. JobsOK'
    BY <1>1, <1>2 DEF SetSubscription, IInv, JobsOK, Idle
  <2> QED BY <2>2, <2>3 DEF IInv
<1>3. CASE WriteUpdate(w)
  <2>1. sub \in Row /\ job[w].entry \in Entry
    BY <1>1, <1>3 DEF WriteUpdate, IInv, JobsOK
  <2>2. job[w].entry.status \in SubscriptionStatus /\ job[w].entry.periodEnd \in Deadlines
    BY <2>1 DEF Entry
  <2>3. [sub EXCEPT !.status = job[w].entry.status,
                    !.periodEnd = job[w].entry.periodEnd] \in Row
    BY <2>1, <2>2, RowFacts
  <2> QED BY <1>3, <2>3, WriteKeeps DEF WriteUpdate
<1>4. CASE ExpireLapsed(w)
  <2>1. sub \in Row /\ "EXPIRED" \in SubscriptionStatus
    BY <1>1, <1>4 DEF ExpireLapsed, IInv, JobsOK, SubscriptionStatus
  <2>2. [sub EXCEPT !.status = "EXPIRED"] \in Row
    BY <2>1, RowFacts
  <2> QED BY <1>4, <2>2, WriteKeeps DEF ExpireLapsed
<1>5. CASE CloseUnpaid(w)
  <2>1. sub \in Row /\ "UNPAID" \in SubscriptionStatus
    BY <1>1, <1>5 DEF CloseUnpaid, IInv, JobsOK, SubscriptionStatus
  <2>2. [sub EXCEPT !.status = "UNPAID", !.grace = NoTime] \in Row
    BY <2>1, RowFacts
  <2> QED BY <1>5, <2>2, WriteKeeps DEF CloseUnpaid
<1>6. CASE Invalidate(w)
  <2>1. TypeOK'
    BY <1>1, <1>6 DEF Invalidate, IInv, TypeOK
  <2>2. JobsOK'
    BY <1>1, <1>6 DEF Invalidate, IInv, JobsOK, Idle
  <2> QED BY <2>1, <2>2 DEF IInv
<1> QED BY <1>2, <1>3, <1>4, <1>5, <1>6 DEF Step

LEMMA NextKeeps == IInv /\ [Next]_vars => IInv'
<1> SUFFICES ASSUME IInv, [Next]_vars PROVE IInv'
  OBVIOUS
<1>1. /\ sub \in Row \cup {NoRow} /\ job \in [Workers -> Job] /\ Idle \in Job
  BY DEF IInv, TypeOK, Idle, Job
<1>2. ASSUME NEW w \in Workers, GetSubscription(w) PROVE IInv'
  <2>1. EntryOf(sub) \in Entry
    BY <1>1, <1>2, RowFacts DEF GetSubscription
  <2> QED BY <1>2, <2>1, GotoKeeps DEF GetSubscription
<1>3. ASSUME NEW w \in Workers, FindLapsed(w) PROVE IInv'
  BY <1>3, GotoKeeps DEF FindLapsed, Lapsed
<1>4. ASSUME NEW w \in Workers, FindGraceOver(w) PROVE IInv'
  BY <1>4, GotoKeeps DEF FindGraceOver, GraceOver
<1>5. ASSUME NEW w \in Workers, Fail(w) PROVE IInv'
  <2>1. failures' \in 0 .. MaxFailures /\ causes' \subseteq {"fill", "deleted", "stopped"}
    BY <1>5, BoundAssumption DEF Fail, IInv, TypeOK
  <2>2. TypeOK'
    BY <1>1, <1>5, <2>1 DEF Fail, IInv, TypeOK
  <2>3. JobsOK'
    BY <1>1, <1>5 DEF Fail, IInv, JobsOK, Idle
  <2> QED BY <2>2, <2>3 DEF IInv
<1>6. CASE Evict
  BY <1>6 DEF Evict, IInv, TypeOK, JobsOK
<1>7. CASE Tick
  BY <1>7, BoundAssumption DEF Tick, IInv, TypeOK, JobsOK, Times
<1>8. CASE UNCHANGED vars
  BY <1>8 DEF vars, IInv, TypeOK, JobsOK
<1> QED BY <1>2, <1>3, <1>4, <1>5, <1>6, <1>7, <1>8, WebhookKeeps, AdminKeeps, StepKeeps DEF Next

LEMMA InitIInv == Init => IInv
BY BoundAssumption
   DEF Init, IInv, TypeOK, JobsOK, NoRow, NoEntry, Idle, Job, Times

\* The row, the cached copy and the handlers in flight are well typed whatever
\* Stripe, the crons and the administrators do, in whatever order.
THEOREM SubscriptionTypeOK == Spec => []TypeOK
<1>1. IInv => TypeOK
  BY DEF IInv
<1> QED BY InitIInv, NextKeeps, <1>1, PTL DEF Spec

\* No handler is ever about to update or expire a row that is not there, or to
\* cache nothing (the ids of the updates are those of rows that were found).
THEOREM HandlersHaveRows == Spec => []JobsOK
<1>1. IInv => JobsOK
  BY DEF IInv
<1> QED BY InitIInv, NextKeeps, <1>1, PTL DEF Spec

\* A writer leaves itself about to drop the entry.
LEMMA WriteDrops ==
    ASSUME TypeOK, NEW w \in Workers, NEW row, Write(w, row)
    PROVE  StaleEntryHasCause'
<1>1. job'[w].at = "drop"
  BY DEF TypeOK, Write, Goto
<1> QED BY <1>1 DEF StaleEntryHasCause

\* Nothing the guard reads changes, and nobody stops being about to drop it.
LEMMA GotoDisturbsNothing ==
    ASSUME TypeOK, StaleEntryHasCause, NEW w \in Workers, NEW step, NEW entry,
           job[w].at # "drop", Goto(w, step, entry), UNCHANGED <<sub, cache, causes>>
    PROVE  StaleEntryHasCause'
<1>1. \A u \in Workers : job[u].at = "drop" => job'[u].at = "drop"
  BY DEF TypeOK, Goto
<1> QED BY <1>1 DEF StaleEntryHasCause

LEMMA NextKeepsCause == TypeOK /\ StaleEntryHasCause /\ [Next]_vars => StaleEntryHasCause'
<1> SUFFICES ASSUME TypeOK, StaleEntryHasCause, [Next]_vars PROVE StaleEntryHasCause'
  OBVIOUS
<1>1. /\ job \in [Workers -> Job]
      /\ Idle.at = "idle"
  BY DEF TypeOK, Idle
<1>2. ASSUME NEW w \in Workers, GetSubscription(w) PROVE StaleEntryHasCause'
  BY <1>2 DEF GetSubscription, StaleEntryHasCause
<1>3. ASSUME NEW w \in Workers, Webhook(w) PROVE StaleEntryHasCause'
  <2>1. CASE \E status \in StripeChoices, p \in PeriodChoices : CheckoutCompleted(w, status, p)
    BY <2>1, WriteDrops DEF CheckoutCompleted
  <2>2. CASE \E status \in StripeChoices, p \in PeriodChoices : SubscriptionUpdated(w, status, p)
    BY <1>1, <2>2, GotoDisturbsNothing DEF SubscriptionUpdated
  <2>3. CASE InvoicePaid(w)
    BY <2>3, WriteDrops DEF InvoicePaid
  <2>4. CASE InvoicePaymentFailed(w)
    BY <2>4, WriteDrops DEF InvoicePaymentFailed
  <2>5. CASE SubscriptionDeleted(w)
    <3>1. cache' # NoEntry => causes' # {}
      BY <2>5 DEF SubscriptionDeleted
    <3> QED BY <3>1 DEF StaleEntryHasCause
  <2> QED BY <1>3, <2>1, <2>2, <2>3, <2>4, <2>5 DEF Webhook
<1>4. ASSUME NEW w \in Workers, Admin(w) PROVE StaleEntryHasCause'
  BY <1>4, WriteDrops DEF Admin, Grant, Update
<1>5. ASSUME NEW w \in Workers, FindLapsed(w) \/ FindGraceOver(w) PROVE StaleEntryHasCause'
  BY <1>1, <1>5, GotoDisturbsNothing DEF FindLapsed, FindGraceOver
<1>6. ASSUME NEW w \in Workers, Step(w) PROVE StaleEntryHasCause'
  <2>1. CASE SetSubscription(w)
    <3>1. cache' # EntryOf(sub') => causes' # {}
      BY <2>1 DEF SetSubscription, EntryOf
    <3> QED BY <3>1 DEF StaleEntryHasCause
  <2>2. CASE WriteUpdate(w)
    BY <2>2, WriteDrops DEF WriteUpdate
  <2>3. CASE ExpireLapsed(w)
    BY <2>3, WriteDrops DEF ExpireLapsed
  <2>4. CASE CloseUnpaid(w)
    BY <2>4, WriteDrops DEF CloseUnpaid
  <2>5. CASE Invalidate(w)
    BY <2>5 DEF Invalidate, StaleEntryHasCause
  <2> QED BY <1>6, <2>1, <2>2, <2>3, <2>4, <2>5 DEF Step
<1>7. ASSUME NEW w \in Workers, Fail(w) PROVE StaleEntryHasCause'
  <2>1. CASE job[w].at = "drop" /\ cache # NoEntry
    <3>1. causes' # {}
      BY <1>7, <2>1 DEF Fail
    <3> QED BY <3>1 DEF StaleEntryHasCause
  <2>2. CASE cache = NoEntry
    BY <1>7, <2>2 DEF Fail, StaleEntryHasCause
  <2>3. CASE job[w].at # "drop"
    <3>1. \A u \in Workers : job[u].at = "drop" => job'[u].at = "drop"
      BY <1>1, <1>7, <2>3 DEF Fail
    <3> QED BY <1>7, <2>3, <3>1 DEF Fail, StaleEntryHasCause
  <2> QED BY <2>1, <2>2, <2>3
<1>8. CASE Evict
  BY <1>8 DEF Evict, StaleEntryHasCause
<1>9. CASE Tick
  BY <1>9 DEF Tick, StaleEntryHasCause
<1>10. CASE UNCHANGED vars
  BY <1>10 DEF vars, StaleEntryHasCause
<1> QED BY <1>2, <1>3, <1>4, <1>5, <1>6, <1>7, <1>8, <1>9, <1>10 DEF Next

\* A cached subscription that differs from the row has a known cause, for any
\* number of handlers: a writer still to drop it, a fill that raced a write, a
\* deletion by Stripe, or a handler that stopped before its invalidation.
THEOREM SubscriptionStaleEntryHasCause == Spec => []StaleEntryHasCause
<1>1. Init => StaleEntryHasCause
  BY DEF Init, StaleEntryHasCause
<1> QED BY <1>1, SubscriptionTypeOK, NextKeepsCause, PTL DEF Spec
=============================================================================
