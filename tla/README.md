# RecDesk backend: a verification project

RecDesk is a multi-tenant recruiting back end: a NestJS process (or several) in
front of one PostgreSQL database through Prisma, with Bull queues for background
work, a cache, cron jobs, Stripe, mail boxes polled through Gmail and Graph, and a
language model that reads CVs. This directory holds TLA+ models of its stateful
parts, the TLC configurations that check them on small instances, and proofs,
checked by TLAPS, of what holds for every instance.

Contents: [the system](#the-system) ·
[the modules](#the-modules) · [the runs](#the-runs) · [bounds](#bounds) ·
[fairness](#fairness) · [proofs](#what-is-proved) ·
[assumptions](#assumptions-and-abstractions) · [what is left](#plan-and-what-is-not-modelled).

To check a run: `tlc -workers 2 -config InterviewService.cfg MCInterviewService.tla`;
to check proofs: `tlapm InterviewServiceProofs.tla`.
`PROJECT.json` lists the components, the runs with a mutant of the code for every
property, the source lines of every definition, the hazards and the theorems.
Operators commented "Mutant" are those mutations: they are in no specification.

## The system

The process is single-threaded, but a handler gives way at each `await`; two
requests, a request and a cron, or two processes interleave between any two
database statements. Prisma leaves PostgreSQL at READ COMMITTED. Almost all
handlers have the form *read, check, (await), write*, and few of the writes repeat
the check in their `WHERE`. This is where the difficulty of the system lies.

| Component (`src/src/…`) | State | Operations | Hard behaviour | What makes it correct |
|---|---|---|---|---|
| Interview scheduling (`interviews/interviews.service.ts`) | `Interview`, `InterviewSlot` rows | `create`, `submitAvailability`, `shareLiveAvailability`, `cancel`, `book` | checks before awaits; one interactive transaction with a conditional flip, a conflict query, pruning of siblings | an interviewer is never booked twice; a booking stands; no candidate is offered what is gone; no empty offer stays open |
| Interview maintenance (`interviews.scheduler.ts`) | `isRunning`, interview rows | nudge interviewers, nudge candidates, `expireStale` | batch read, later update by id | expires only what is stale; every offer and request ends |
| Availability (`availability/`) | weekly rules, overrides | `upsertMine`, overrides, slot grid | calendars change under live offers | the grid contains only free future times |
| Billing (`billing/`) | `Subscription`, `Invoice`, `UsageRecord` | six webhooks, two daily crons, checkout, usage | reordered and repeated webhooks, crons by stale id | the row follows Stripe; what lapsed is closed |
| Subscription cache and guard (`cache/`, `billing/guards/`) | one cache entry per company | fill, drop, decide | fill races invalidation | the guard does not serve a cancelled company for ever |
| Usage and its alerts (`billing.service.ts`, `notifications/`) | `UsageRecord`, `UsageAlertTracker`, notifications | `checkLimit`, `trackUsage`, `checkAndNotifyUsageLimits` | limit asked before, counted after; find-then-create; else-if chain | overshoot has a cause; a limit reached is announced; each threshold once, in order |
| Authentication (`auth/`) | users, refresh tokens, reset tokens | register, login, OAuth, refresh, logout, forgot/reset password, accept invitation | rotation without a transaction; a reset, deactivation or suspension against a sign-in in flight | a token makes one session; what revokes sessions ends them; a link works once |
| Team (`users/`) | users, invitations | invite, resend, revoke, update, remove | counts before writes, statuses read before awaits | there is always an active admin; an invitation that let somebody in stays accepted |
| Permissions (`permissions/`, `common/guards/`) | rows of a role and a permission | `setMatrix`, `getMatrix`, `getUserPermissions` | delete and create under READ COMMITTED; a request reads with two queries | a request acts with permissions that were in force |
| E-mail templates (`email-templates/`) | templates, the default of a type | create, update, remove, seed | clear-then-set in two statements | one default per type |
| Allowlist (`allowlist/`) | admitted addresses and domains | add, remove, `allow`, `isAllowed` | asked at sign-in, changed meanwhile | who is not admitted gets no session |
| E-mail monitoring (`email-monitor/`) | connections, cursor, push subscriptions | poll, push, sync, renew, refresh | one OAuth client for all; the cursor moves past failures; dropped notifications | every message is processed or given up knowingly, for its own mailbox |
| E-mail ingestion (`email-processing.service.ts`) | `EmailImport`, candidates | prefilter, classify, import, clean up | dedupe by find-then-create; failure after the candidate exists; a crash | a refused row has made no candidate |
| Integrations (`integrations/`) | tokens and state of a connection | connect, reconnect, refresh, disconnect | a failed refresh switches off, whatever failed | a good grant stays in use |
| Queues (`queue/`) | Bull tasks | scoring tasks with retries | three attempts; an attempt given up goes on | scores follow the job's requirements |
| Upload (`upload/`) | candidates, files | batch upload | parallel files; limit checked once; count after create | no duplicate, no overshoot, no failure that leaves a candidate |
| Candidates, jobs (`candidates/`, `jobs/`) | candidates, scores, jobs | create, update, assign, rescore, delete; change requirements | scoring against reassignment and edits | one candidate per address; the overall score is the assigned job's |
| E-mail sending (`email-sending/`) | sent mail, usage, action log | to one, to several | several writes after the provider accepted | what was sent is recorded |
| Platform administration (`platform-admin/`) | admins, platform tokens, company status | sign in, grant, update, suspend, deactivate | suspension against token generation | a suspended company has no session |
| Time zones (`interviews/utils/timezone.util.ts`) | none | convert both ways | the hours around a change of offset | what was entered is shown |
| Waitlist, health, companies' profile, devices, dashboard | independent rows | CRUD | none worth a model | — |
| AI, storage, text extraction, mail delivery | external | calls | external | — |

How they interact. `book()` and the maintenance job write the same interview rows;
availability reads confirmed interviews and feeds `book()` with a grid. Every
tenant request passes the subscription guard, which reads the cache that billing,
the crons and the platform administrators invalidate. E-mail ingestion and upload
create candidates; each counts its usage, and every count runs the check that sends
alerts. A change of a job's requirements, or a recruiter, enqueues scoring tasks, whose
processor reads the candidate and the job again. Suspending a company deletes its
refresh tokens; inviting somebody puts his address on the allowlist that login and
refresh ask. A push notification, a cron or a user starts a poll of a mailbox, the
poll asks the integrations for an access token, and what it lists goes through the
import one message at a time.

The hazards in `PROJECT.json` are the places in this code that are hard to test.
Those without a property carry a note that says why.

## The modules

```
SlotTimes ── Interviews ─┬─ InterviewCalendar ── MCInterviewCalendar
                         │        ▲ implemented by (one handler in flight)
                         └─ InterviewService ─── MCInterviewService
TimeZones
Subscription ── MCSubscription

Accounts ─┬─ Sessions ─┬─ AccountService ─┐
          └─ Team ─────┘                  │
Permissions ──────────────────────────────┼─ MCAccounts
EmailTemplates ───────────────────────────┘

Mailboxes ── Integrations ── MailPolling ── MailImport ── MailService ── MCMail

Recruiting ── Usage ── Intake ── ScoringQueue ── Outreach ── RecruitingService ── MCRecruiting

InterviewsProofs (Interviews, TimeZones), InterviewCalendarProofs, InterviewServiceProofs,
SubscriptionProofs, SettingsProofs (Permissions, EmailTemplates), AccountsProofs,
MailProofs, RecruitingProofs
```

In every group the first module declares the tables and the handlers in flight, the
ones between hold one part's actions, and the last composes them into `Init`, `Next`
and `Spec` and states the properties, so that parts that share rows share variables.

**SlotTimes** is `slot-conflicts.util.ts`: half-open ranges and the overlap test.

**Interviews** declares the tables (`status`, `offerMode`, `scheduledAt`,
`createdAt`, `slots`, `hours`, `now`), the queries all handlers share (`Clashes` is
`assertNoConflicts`; `LiveGrid` is `computeSlotGrid`; `SiblingSlots` is the query of
the pruning; `StaleOffers` and `StaleRequests` those of `expireStale`), and the
invariants over the tables.

**InterviewCalendar** is the contract: every handler is one step, with the guards of
the code. It says what the scheduling promises when handlers do not interleave, and
serves as the abstract specification. `Book(i, t, E)` leaves open which siblings in
`E` with only past slots are expired, since the code reads its clock earlier.

**InterviewService** is the code. A worker `w` stands for a handler in flight; its
`job[w]` holds the next statement and the local variables; every action is one
statement between two awaits. `book` is `Book` (reads and checks outside the
transaction), `Claim` (the conditional flip), `CheckConflict`, `FindSiblings`,
`Prune`, `Commit`. The writes of the transaction stay in `job[w]` until `Commit`,
which is how READ COMMITTED keeps them from other readers; `RowLocked` and
`SlotLocked` are the row locks another writer waits for. `LockTimeout` is the
deadlock detector or Prisma's timeout, `Fail` any other error or a crash: an open
transaction is rolled back, and everything else written stays.

**Subscription** is one company's subscription row, its cache entry, all six webhooks
(`customer.subscription.resumed` is handled as an update), both crons, `grant` and
`update` of the platform administrators, and the cache fill of the guard. A handler
whose write depends on what it read is two steps (`SubscriptionUpdated` and
`WriteUpdate`, the crons' find and write, `GetSubscription` and `SetSubscription`);
the invalidation is always a step of its own. `causes` is a history variable: it
records why the cached entry may differ from the row.

**TimeZones** is `timezone.util.ts` for a zone that changes its offset once: the two
passes of `zonedWallTimeToUtc`, its inverse, and what the code's comments promise.

**Accounts** declares users, platform administrators, companies, the allowlist, refresh
and reset tokens and invitations; **Sessions** has what `AuthService`,
`PlatformAuthService` and the platform's administration do to them, **Team** the
handlers of `UsersService` and of invitations, **AccountService** composes them.
`job[w]` is again a handler with its next statement. A token carries the session it
descends from (`root`), the password version it was issued under (`pw`) and why it may
outlive what should have ended it (`why`). `Fail` stops a handler between two
statements.

**Permissions** is the matrix of one company. A save is a transaction of two
statements and a commit; `DeleteRows` takes the rows its statement saw, `LockRows`
waits for others' locks and then deletes what is still there, as PostgreSQL does at
READ COMMITTED. A request reads with two queries (`CountOfRole`/`CountRows`,
`ListRows`) and answers; `seen` collects what was in force meanwhile.
**EmailTemplates** is one company's templates: `ClearDefaults` and `Insert` or `Write`
are the two statements of a handler that sets a default, `SeedDefaults`, `Seek` and
`Insert` the seeding.

**Mailboxes** declares connections, import rows and candidates, and, outside the
program, the mailboxes: one `clock` serves as Gmail's history id, as the position of a
Graph delta link and as time of arrival. **Integrations** has OAuth callbacks, token
refresh, watches and their renewal, disconnection. **MailPolling** has what starts a
poll, how it lists (`ListGmail`, `Fallback`, `ListOutlook`, `Rebaseline`), gets a
message and moves the cursor; every Gmail step that calls the provider uses whatever
credentials `client` holds. **MailImport** is `processNormalizedEmail` statement by
statement, with `email-cleanup.service.ts` and `Crash`. **MailService** composes them.

**Recruiting** declares the tables of one company around its candidates; a score is
the version of the job's requirements it was computed for. **Usage** is counting a CV
and the alerts that follow, **Intake** uploads and the candidates' requests,
**ScoringQueue** changes of requirements, the queue, its processor and the scoring at
the end of an upload, **Outreach** mail to candidates, **RecruitingService** the whole.

History variables (`forked`, `rushed`, `contested`, `mingled`, `disputed`, `shared`,
`swapped`, `raced`, `crowded`, `broken`, …) record that two handlers overlapped at a
named pair of statements, or that a named statement failed. They guard nothing: the
properties say that what should not happen happens only after one of these, and so
name, for each anomaly, every way the code has to reach it.

## The runs

| Run | Question | Result |
|---|---|---|
| `calendar` | Do whole handlers keep bookings apart, keep offers and bookings consistent, and close everything in the end? | `NoDoubleBooking`, `BookedSlotKept`, `EmptyOffersExpire`, `OffersAvoidBookings`, `BookingsStand`, `FixedOffersResolve`, `RequestsResolve` hold |
| `service` | What survives when two handlers interleave at their awaits? | `DoubleBookingNeedsRace` holds: a double booking takes two transactions that overlap |
| `service_serial` | Does the statement-level service implement the contract when handlers run one after the other? | `ImplementsCalendar` holds, failures half way included |
| `service_ends` | Does every handler end, deadlocks included? | `EveryRequestEnds` holds |
| `double_booking` | Is the transaction "the source of truth under concurrency"? | no: two transactions each miss the other's uncommitted claim (write skew) |
| `stale_expiry` | Does maintenance expire only stale interviews? | no: a request answered between the query and the update, with slots to come, is expired |
| `pruned_booking` | Does pruning touch open offers only? | no: the update that expires siblings waits for a sibling's own booking and then overwrites it |
| `subscription` | Is the guard's copy right, and does what lapsed end? | `StaleEntryHasCause`, `CancellationBites`, `LapsedExpire`, `GraceEnds` hold |
| `subscription_grace` | Is `gracePeriodEndsAt` null unless a payment failed? | no: a paid invoice leaves it, and a later `past_due` finds a grace period that is over |
| `accounts` | What do sessions, links, invitations, roles, permissions and templates survive when two handlers interleave and may stop anywhere? | `SurvivorHasCause`, `SessionForksOnlyByOverlap`, `ResetLinksAreSpent`, `JoinedStaysAccepted`, `LastAdminGoesByRace`, `GrantsWereInForce`, `SecondDefaultHasCause` hold |
| `mail` | Which mail is lost, attributed wrongly, refused after it made a candidate, or left waiting, with two activities, crashes and failing providers? | `PassedMailIsAccountedFor`, `ForeignMailNeedsFallback`, `RefusedRowsHaveNoCandidate`, `DeactivationHasCause`, `WaitingMailIsAnnounced` hold |
| `recruiting` | When do uploads, edits, scores, usage, alerts and mail go wrong, with two handlers, retries and timeouts? | `DuplicateNeedsOverlap`, `UploadsCountOnce`, `ScoresFollowRequirements`, `OverallScoreIsOfJob`, `OvershootNeedsCrowd`, `LimitIsAnnounced`, `AlertsRise`, `SentMailIsRecorded` hold |

Every run has one type invariant among its properties besides.

The four disagreements are listed under `findings` with the comment each one
contradicts. `DoubleBookingNeedsRace` is the strongest form of the double-booking
claim that the code keeps; `NoDoubleBooking` itself needs a lock on the interviewer
(or SERIALIZABLE) in `book()`.

`CancellationBites` is a statement about the cache and not about Stripe: *if* the row
stays cancelled, then from some time on the guard refuses, although
`handleSubscriptionDeleted` does not invalidate and a fill may store a stale entry.
What saves it is the time to live of the entry alone.

What the last three runs establish is a list of causes, each at a line of the code
(see the hazards). Among them: a session survives a deactivation because a refresh had
passed its checks, because `PATCH users/:id` deletes no tokens, or because the handler
stopped before it deleted them; a cursor passes mail that failed, mail a list in place of
the expired history leaves out, and mail that came before a change of the last message;
a refused import row has a candidate when counting its usage failed; the alerts of a period
come out of order only when checks overlapped or failed.

## Bounds

| Bound | Meaning | Why it is enough |
|---|---|---|
| `MaxTime` (1 or 2) | the clock stops | a slot is future, present or past; a two-tick interview overlaps two one-tick starts; a request is young or old |
| `Interviews` (2 or 3) | rows | every property relates two rows; the third, with an outside interviewer, is a row without conflicts |
| `Workers` (1 or 2) | handlers in flight | the races listed take two; one is the serial case |
| `Proposals` | sets of starts a human offers | one slot, and two of which one overlaps |
| `HourChoices` | calendars | none, open all day, rules closed by overrides |
| `ManagerTimeout` = 0, `BatchSize` (1 or 2) | thresholds in ticks; `take` | a batch smaller than the table is covered with 1; 2 lets one run expire several |
| `Period`, `GracePeriod` (0 or 1), `StripeChoices`, `PeriodChoices`, `AdminChoices` | ticks are days; reported statuses and periods | with 0 a period or grace ends the day it starts, so it lapses within the clock; reports include an old period, none, `active` and `past_due` |
| `MaxFailures` (0 or 1) | handlers of Subscription that stop half way | one failure is enough to leave a stale entry; a bound lets the crons' progress be stated without fairness about failures |
| `Users`, `PlatformAdmins`, `Invitations`, `MaxTokens` = 3, `MaxLinks` = 2 (`accounts`) | two addresses, one platform administrator, two invitations; tokens and links ever created | two refreshes of one token leave two; a third token is a login beside them; two links overlap |
| `Roles`, `Editable`, `Locked`, `MaxTemplates` = 12 | two roles, one permission of each kind; two seedings of six, or two templates of two types | matrices are empty, of one role or of both, with a permission that is ignored |
| `Connections`, `Companies`, `Mails`, `Page` = 1, `MaxClock` = 4, `MaxGrants` = 3, `MaxCandidates` = 2 (`mail`) | two mailboxes, three messages, one per page; grants issued; candidates ever created from mail or by hand | a page of one splits every listing of two; two mailboxes share the client; four events are an arrival, a change, an arrival and a change |
| `Emails`, `Jobs`, `Limits` = {1, 20}, `MaxCandidates` = 2, `MaxVersions` = 1, `MaxQueue` = 1, `MaxPeriods` = 2, `MaxMails` = 1 (`recruiting`) | two of each; usage starts at 0, or at 15, 17 or 18 of 20 | with 20, one CV can pass a threshold, none, or the last; with 1, the first CV is the limit |

In `accounts`, `mail` and `recruiting` everything at once is too much for any bound
worth having. Their MC modules draw the environment's requests and events from one
*workload*, chosen at the start: sign-ins with suspensions, resets, invitations, team
changes, matrices, templates; polls of a history, polls that share the client, pushes,
repeated imports, imports under a disconnection, token refreshes, renewals; uploads, edits, usage
near the limit, requirements, timeouts, reassignments, mail. A workload holds the operations that write
the same rows; what is in flight always runs on, or fails, by the unrestricted actions.
The restriction is on TLC's instance alone: the modules' `Next` has every operation,
and the proofs are about that.

Three questions a run leaves to another or to a proof. `calendar` takes a handler as one
step, and so does not meet `cancel` overwriting a booking that commits after its read
(`interviews.service.ts:270`); the service's runs do, and nothing forbids it there,
because no document says which of the two should win. A workload does not mix every
pair of operations: that of team changes signs nobody in, and that of pushes renews and
reconnects nothing; `SurvivorsAreExplained` and `WaitingMailIsHeardOf` are about all of
them. And a job that looks for lapsed periods one day late would fail `LapsedExpire`
because the clock of the run stops.

The runs fire every action. Symmetry is used in safety runs only, where workers (and
jobs, companies, mailboxes) are interchangeable; no liveness run has it.
`CHECK_DEADLOCK` is off in these three runs, because a workload comes to its end
when the bounded tokens, messages or candidates are used up; it is on in all others.

## Fairness

* `InterviewCalendar!FairSpec`: the hourly cron runs while the process does
  (`@Cron`, weak fairness of `Maintenance`), and time passes. Nothing is assumed of
  people: an offer nobody books and a request nobody answers must still end.
* `InterviewService!FairSpec`: weak fairness of `Resume(w)`: the event loop resumes a
  handler whose await settled, and a statement that waits for a lock gets it or
  times out. Failures are allowed and not required.
* `Subscription!FairSpec`: weak fairness of each handler's next step and of `Evict`
  (the entry has a time to live); strong fairness of the crons' two finds. A cron
  does not share the pool of request handlers, which the bounded set `Workers` would
  otherwise make it do: that all workers are busy now and then must not keep the
  daily job from running, and strong fairness removes that artefact.

* The other specifications state no fairness: no property of theirs is about what must
  eventually happen. In particular a mail that failed is not promised to be retried,
  because the code retries nothing.

## What is proved

All proofs are for every value of the constants that satisfies the named assumptions:
any number of interviews, users, workers, clerks, editors, mailboxes, messages,
candidates and jobs, any durations, limits and offsets. The assumptions are `UserAssumption`,
`InterviewerAssumption`, `DurationAssumption`, `TimeAssumption`, `ProposalAssumption`,
`NoInterviewAssumption`, `BoundAssumption`, `ChoiceAssumption`,
`PermissionsAssumption`, `TemplateBoundAssumption`, `LimitAssumption` (a limit is a
positive number), `RecruitingBoundAssumption`, `NoneIsNoName` (`None` is told from
names, numbers and sets of thresholds), `FiniteWorkers`, `PeopleAssumption` (users,
platform administrators and the modelled company have different names),
`FiniteAssumption` (finitely many people, so that administrators can be counted), and
of the mail modules `NoneAssumption`, `NoneIsNoWord`, `NoneIsNoKey` (`None` is no
mailbox, message or sender, no word and no key of an import row), `MailsAreFinite`
(a mailbox holds finitely many messages), `PageAssumption` (a page has at least one)
and `MailBoundsAssumption` (the bounds are numbers, and a provider issues one grant at
least: a mailbox that connects gets a token).

*InterviewsProofs.* `OverlapMeansSharedInstant`: the overlap test is true exactly when
two non-empty ranges have an instant in common; `NoClashNoOverlap`, a lemma, carries it
to the conflict check, and `NoDoubleBooking` rests on it.
`PruningIsExact`: the slots that survive pruning are those that do not overlap.
`TwoPassesAreEnough`: a wall time that clocks show at all is shown for the instant
stored for it. `InstantsComeBack`: an instant shown and read back is the same, or the
other instant of a repeated hour. Both for every offset and instant.

*InterviewCalendarProofs.* `Spec => []TypeOK`, `[]NoDoubleBooking`,
`[]BookedSlotKept`, `[]OffersAvoidBookings`, `[]EmptyOffersExpire` and
`BookingsStand`. `NoDoubleBooking` is not inductive by itself: a booking is checked
against the confirmed interviews that have a time, so one must know that all of them
do (`BookedSlotKept`: the confirmed start is one of the slot rows). `IInv` adds
`UnofferedRowsAreBlank` (a row that has not been offered has no slots, and one not
created has the default mode), without which an answered request could carry slots
into a live offer, or a new offer be live. There is one lemma per kind of step
(`OfferPreserves`, `WithdrawPreserves`, `BookPreserves`).

*InterviewServiceProofs.* `[]TypeOK`, `[]DoubleBookingNeedsRace`,
`OnlyOpenOffersAreBooked`, and for one worker `SerialNoDoubleBooking` (there is no
double booking) and `SerialImplementsCalendar` (the refinement `ImplementsCalendar`).
The invariant follows two transactions through the race: `ClaimsAreOpen` and
`ClaimsAreExclusive` say that a row under claim is open and has one claimant (the
conditional flip and its row lock); `RivalsAreSeen`: of two transactions past their
conflict check, the later one saw the other's claim;
`ClashesAreSeen`: one past its check clashes with a booking committed since only if it
had seen that one's claim. When the second commits, this is recorded in `sawOpen`,
which is the conclusion. The refinement rests on `Undisturbed`: what the only handler in
flight has checked is still so at its next statement, since nobody but the clock has come
between, and what is stale stays stale. Its last write is then the calendar's step (for a
booking, COMMIT: `CommitImplements`), and every other statement, failures included, leaves
the tables alone.

*SubscriptionProofs.* `[]TypeOK`, strengthened by `JobsOK` (a handler between its read
and its write has a row and values to write: no handler deletes a row), and
`[]StaleEntryHasCause`: each writer but one ends about to drop the entry, a fill that
stores something else than the row is recorded, and so are the deletion and the
handler that stops. `HandlersHaveRows` is `JobsOK` as a theorem.

*SettingsProofs.* `SecondDefaultsHaveCauses`: `SecondDefaultHasCause` needs
`Prepared` (between its two statements a handler that sets a default finds no other
one, unless the type is disputed) and `SettersDispute` (two such handlers dispute it).
`GrantsAreInForce`: the invariant says that the rows are those of the matrix saved
last unless saves mingled (`GrantedAsSaved`), that a transaction nobody committed under
has seen and deleted the rows of now (`WriterOK`), and that a reader without an excuse
has met one kind of company only, never configured or always with rows (`ReaderOK`).

*RecruitingProofs.* Everything the run `recruiting` checks, for every statement of the
service. `Inv` is type correctness with what a handler has read by the time its
statement needs it (`HandlerOK`), room for every candidate about to be created
(`RoomOK`), and `MailsOK`, which counts the handlers between a mail and its record:
`RecruitingIsTyped` and `MailsAreRecorded` follow. Each other invariant stands beside it.
`LimitInv`: in a period that is not crowded one upload at a time is on its way to its
count, below the limit: `OvershootsNeedCrowds`. `AnnounceInv`: what is flagged has been
told and some handler is still to see a limit reached: `LimitsAreAnnounced`, which rests
on the arithmetic of the rounded percentage (`ReachedIsAHundred`). `DuplicateInv`: an
address nobody looked up while it was to be written has one writer or one owner:
`DuplicatesNeedOverlaps`. `CountInv`: the records of usage are as many as the CVs that
became candidates, but for the handlers about to count theirs and the counts that
failed: `UploadsAreCountedOnce`. A record is a pair of its period and its number there,
so that the theorem can use the library's facts about cardinalities; it needs that the
handlers are finitely many.

The two statements about scores rest on `FactsInv`: who scores knows a candidate that
has come, and has read no requirements yet to come. `OverallInv`, for a candidate whose
scorings did not mix, and who was not assigned to another job, or to none, with a score
(an update keeps the overall score, `candidates.service.ts:237`): there is one at a
time, it is for his job or knows that it is not, and the one about to write the overall
score has just written the row of that job: `OverallScoresAreOfJobs`. `RenewInv` follows
the renewal of a score from the change of requirements through the trigger, the task in the queue and its attempts: while a score
is old, one of them still owes it (`Owed`), and where an attempt is about to write the
score of requirements that have changed since (`Trails`), a renewal is still owed, or the
score is new already: `ScoresAreRenewed`.

`AlertInv` is about the periods in which nothing overlapped or failed. There one upload
at a time is under way (`SoloInv`); the one check that has read the usage is at most one
CV behind it; what it has read of the tracker is what was told; and what was told is
exactly what the CVs before its own had passed (`LateOK`), or, when no check is under
way, what all of them have (`QuietOK`). That one CV can pass no more than one threshold,
the one that reaches the limit apart, is arithmetic of `Math.round` for every limit
(`NextPassed`); so the alert that is due is higher than all before it: `AlertsAreInOrder`.
An upload that counted in a period that ended checks the next one without having
counted there; `StaleOK` says why it then finds nothing due.

*MailProofs.* Everything the run `mail` checks, for every statement of the four parts.
`TypeInv` is type correctness with `HandlerOK` (a poll has a mailbox and in hand only
what that mailbox holds) and `ConnectionsOK` (what is stored was issued): `MailIsTyped`.
Each other invariant stands beside it. `ForeignInv`: a poll lists its own mailbox, or the
one whose credentials it found in the client, and then all of that is in `swapped`:
`MailIsOfItsMailbox`. `DeactInv`: of a connection that is, or is about to be, inactive,
the provider refuses the stored token and those being exchanged, and none is about to be
stored: `DeactivationIsCaused`. `RefusedInv`: a message is in one activity's hands unless
it is `shared`, and its statement says whether the candidate can be there (`InHandOK`):
`RefusedMailHasNoCandidate`. `PassedInv` says of a poll that everything up to the cursor
it is to store is accounted for or in hand, and so is everything that came before a message
it has yet to get, since it works through its list from the oldest (`PollPassed`).
`PassedMailIsSafe` follows. `WaitInv` stands on it: there is one poll of a connection at a
time, and while no notification is on its way and nobody missed one (`Silent`), what a
poll that has listed has not in hand is accounted for, and without a poll everything
is: `WaitingMailIsHeardOf`.

*AccountsProofs.* Everything the run `accounts` checks of sessions and the team, for
every statement of the two services. `TypeInv` is type correctness with what a handler
has read by the time it needs it (`HandlerOK`), the numbering of tokens and links, and
that nobody changes company: `AccountsAreTyped`. Each other invariant stands beside it.
`SurvivorInv`: a session without an excuse has the current password and somebody about
to delete it if its user is barred (`TokenSafe`), and a handler whose checks nobody has
made out of date will issue such a session (`JobSafe`): `SurvivorsAreExplained`.
`ForkInv`: of a session that nobody redeemed twice at once there is one token and one
handler exchanging it, and no token between its deletion and the next (`SessionOK`):
`SessionsForkByOverlap`. `UsesInv` and `RequestsInv` follow the handlers that hold a
reset link, and those about to replace somebody's: `ResetLinksWorkOnce`. `InvitationInv`: an
accepted invitation is in no handler's hands unless it is contested (`Settled`):
`JoinedInvitationsStay`. `TeamInv`: while the team stands as a handler read it, somebody
other than the one it takes the role or the account from is an active administrator
(`DecisionOK`), for `remove` he who asked: `LastAdminIsKept`.

Every safety invariant and every action property of the passing runs is proved, and the
refinement. Only model-checked: the liveness properties (`FixedOffersResolve`,
`RequestsResolve`, `EveryRequestEnds`, `CancellationBites`, `LapsedExpire`, `GraceEnds`:
fairness and ENABLED are outside the prover) and the four refutations. Only proved:
`LiveOffersHaveNoSlots`, `OnlyOpenOffersAreBooked` and the theorems about `TimeZones`.

## Assumptions and abstractions

* READ COMMITTED: a read sees what is committed when it runs; statements of one
  handler see different states.
* The interviewer and the duration of an interview never change after `create`, so
  they are constants of its id.
* A slot row is identified by its interview and its start. `submitAvailability`
  replaces all rows of the interview in a batch transaction: one step.
* Reads that nothing can come between, or that no property tells apart, are merged
  (the row and the schedule in `shareLiveAvailability`). `Prune` merges the
  `deleteMany` with the query `stillOpen` after it, `Commit` the last `updateMany`
  with COMMIT; the locks taken by that last statement are held for no time.
* Each interview has a candidate of its own, so the update of the candidate's status
  at the end of `book()` locks nothing two bookings share. The deletion of
  candidates and jobs, which cascades to interviews, is not modelled.
* `now` is one clock for all handlers. `SetHours` gives an interviewer any of the
  chosen calendars, which stand for what rules, overrides and time zones project to.
* Stripe may deliver any report at any time, repeated and reordered; the current
  Stripe API reports no top-level period, hence `NoTime` among the periods.
* Cache errors are swallowed by `CacheService`; a failed invalidation is a `Fail` of
  the writer about to drop.
* E-mails, notifications and logs of interviews and billing are not modelled.
* Accounts: one team (`Home`); everybody who registers founds a company of his own. The
  addresses an entry of the allowlist covers stand for the entry. A reset changes the
  version of the password. Access tokens are not state: a request is authenticated when
  it comes in.
* Permissions and templates: PostgreSQL at READ COMMITTED; `createMany` inserts its rows
  at once and a failed transaction leaves nothing.
* Mail: push is configured for both providers. A provider may fail, be asked by several,
  rotate refresh tokens and withdraw consent. The row as a poll reads it and the token
  of the same row are read together where nothing can come between. The mailboxes being
  polled are one set; each of the two monitors keeps its own in memory
  (`email-monitor.service.ts:42`, `outlook-monitor.service.ts:22`), and a mailbox has one
  provider. A message whose id a candidate or an import of another company holds counts
  as dropped: the ids are unique over all companies. Extraction and the
  AI answer anything a message of its kind allows. The score of a new candidate is the
  recruiting model's business.
* Recruiting: one company, a deployment with Redis (the queue is real), a plan whose limit
  does not change. Bull may take waiting tasks in any order, as retries with backoff
  do, and one at a time. Only CVs are counted. Limits of AI calls and of imported mail
  guard rescoring (`candidates.controller.ts:176`) and two requests of the mail monitor
  (`email-monitor.controller.ts:46`, `:63`): one that is refused changes nothing, which
  is a request that nobody makes. The process does not die within a step of the queue,
  so that Bull finds no stalled task.
* Time zones: one change of offset, whole minutes.

## Plan, and what is not modelled

Done: the interview core, the subscription row with its cache and guard, accounts with
permissions and templates, the intake of mail, recruiting with its queue and usage, time
zones. What could follow, in this order:

1. *Composition of usage and guard*: the cached limit of a plan, which changes with
   the subscription, in front of the uploads.
2. *Interview nudging* before `expireStale`, with `resend` and `sendToCandidate`.
3. *Checkout*: Stripe's customers as state, for two checkouts that each create one
   (`billing.service.ts:187`).

Not modelled, with the reason:

* The processors of CVs and of e-mail classification (`queue/processors/`): no code
  enqueues tasks for them, so they never run.
* AI prompts, object storage, text extraction, rendering and delivery of mail, `.ics`
  files: external calls that change no shared state; their failures are modelled where
  a caller handles them.
* Statistics, listings, search, and writes of one row that no other handler decides
  by: status, tags and notes of candidates, pipeline stages, companies' profile,
  notifications read, devices, waitlist.
* Checkout and portal sessions, invoices, seeding of plans, and `prisma/seed.ts`, which
  prepares development data.
* Start-up, configuration, filters and health checks.
