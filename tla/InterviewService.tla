-------------------------- MODULE InterviewService --------------------------
(***************************************************************************)
(* Interview scheduling as it runs: up to |Workers| handlers are in flight *)
(* at once and interleave at their awaits.  A read sees what is committed  *)
(* (PostgreSQL's READ COMMITTED, which Prisma does not change); what it    *)
(* read may be stale by the time the handler writes.  A write waits for    *)
(* the row locks of open transactions.                                     *)
(*                                                                         *)
(* The transaction of book() keeps its writes in the worker's job until it *)
(* commits: from its claim on, the worker holds the lock of the interview  *)
(* row it books; once it has pruned, the locks of the slot rows it deletes.*)
(* Rows it expires are written by its last statement, merged with COMMIT.  *)
(* Any handler may stop at an await: an error of the database, a timeout   *)
(* of the transaction, a crash of the process.  An open transaction is     *)
(* then rolled back.                                                       *)
(***************************************************************************)
EXTENDS Interviews

CONSTANTS Workers, NoInterview

ASSUME NoInterviewAssumption == NoInterview \notin Interviews

VARIABLES
    job,      \* job[w]: the handler worker w runs, and its local variables
    sawOpen   \* history: sawOpen[i] = the interviews other transactions had
              \* claimed when i's last booking checked for conflicts

vars == <<tables, job, sawOpen>>

Steps == {"idle", "create", "check", "submit", "share", "cancel", "expire",
          "claim", "conflict", "siblings", "prune", "commit"}

Job == [at     : Steps,
        on     : Interviews \cup {NoInterview},
        start  : Times \cup {NoTime},   \* the start being booked
        live   : BOOLEAN,               \* booked from the live grid
        offer  : SUBSET Times,          \* the starts being offered
        gone   : SUBSET (Interviews \X Times),  \* sibling slots to delete
        doomed : SUBSET Interviews,     \* interviews to expire
        saw    : SUBSET Interviews]     \* claims open at the conflict check

Idle == [at |-> "idle", on |-> NoInterview, start |-> NoTime, live |-> FALSE,
         offer |-> {}, gone |-> {}, doomed |-> {}, saw |-> {}]

Init ==
    /\ TablesInit
    /\ job = [w \in Workers |-> Idle]
    /\ sawOpen = [i \in Interviews |-> {}]

-----------------------------------------------------------------------------
(* Locks *)

\* The steps of an open booking transaction that holds its claim.
Claimed == {"conflict", "siblings", "prune", "commit"}

HasClaim(w) == job[w].at \in Claimed
ClaimedBy(w) == IF HasClaim(w) THEN {job[w].on} ELSE {}

\* The row of i is locked by a transaction other than w's.
RowLocked(i, w) == \E v \in Workers \ {w} : HasClaim(v) /\ job[v].on = i

\* A slot row of ps has been deleted by an open transaction other than w's.
SlotLocked(ps, w) ==
    \E v \in Workers \ {w} : job[v].at = "commit" /\ job[v].gone \cap ps # {}

\* Worker w goes on to the next await of its handler, or has answered.
Continue(w, step) == job' = [job EXCEPT ![w].at = step]
Finish(w) == job' = [job EXCEPT ![w] = Idle]
Begin(w, j) == job[w] = Idle /\ job' = [job EXCEPT ![w] = j]

-----------------------------------------------------------------------------
(* create *)

\* MANUAL_SLOTS, up to assertNoConflicts; the row does not exist before the
\* insert, and its id is this request's own.
CreateManual(w, i, S) ==
    /\ status[i] = "NONE"
    /\ \A v \in Workers : job[v].on # i
    /\ ~Clashes(i, S)
    /\ Begin(w, [Idle EXCEPT !.at = "create", !.on = i, !.offer = S])
    /\ UNCHANGED <<tables, sawOpen>>

InsertManual(w) ==
    LET i == job[w].on IN
    /\ job[w].at = "create"
    /\ status' = [status EXCEPT ![i] = "AWAITING_CANDIDATE"]
    /\ slots' = [slots EXCEPT ![i] = job[w].offer]
    /\ createdAt' = [createdAt EXCEPT ![i] = now]
    /\ Finish(w)
    /\ UNCHANGED <<offerMode, scheduledAt, hours, now, sawOpen>>

\* REQUEST_MANAGER: nothing read before the insert can become stale.
CreateRequest(w, i) ==
    /\ job[w] = Idle
    /\ status[i] = "NONE"
    /\ \A v \in Workers : job[v].on # i
    /\ Interviewer[i] # NoUser
    /\ status' = [status EXCEPT ![i] = "AWAITING_MANAGER"]
    /\ createdAt' = [createdAt EXCEPT ![i] = now]
    /\ UNCHANGED <<offerMode, scheduledAt, slots, hours, now, job, sawOpen>>

(* submitAvailability: status read, conflict check, one batch transaction *)

SubmitAvailability(w, i, S) ==
    /\ status[i] = "AWAITING_MANAGER"
    /\ Begin(w, [Idle EXCEPT !.at = "check", !.on = i, !.offer = S])
    /\ UNCHANGED <<tables, sawOpen>>

CheckOffer(w) ==
    /\ job[w].at = "check"
    /\ IF Clashes(job[w].on, job[w].offer) THEN Finish(w) ELSE Continue(w, "submit")
    /\ UNCHANGED <<tables, sawOpen>>

\* The update has no status in its WHERE: it applies to whatever the row is now.
WriteOffer(w) ==
    LET i == job[w].on IN
    /\ job[w].at = "submit"
    /\ ~RowLocked(i, w)
    /\ ~SlotLocked({i} \X Times, w)
    /\ status' = [status EXCEPT ![i] = "AWAITING_CANDIDATE"]
    /\ offerMode' = [offerMode EXCEPT ![i] = "FIXED"]
    /\ slots' = [slots EXCEPT ![i] = job[w].offer]
    /\ Finish(w)
    /\ UNCHANGED <<scheduledAt, createdAt, hours, now, sawOpen>>

(* shareLiveAvailability *)

\* The row and the schedule are two reads; nothing depends on their order.
ShareLiveAvailability(w, i) ==
    /\ status[i] = "AWAITING_MANAGER"
    /\ hours[Interviewer[i]].hasRules
    /\ Begin(w, [Idle EXCEPT !.at = "share", !.on = i])
    /\ UNCHANGED <<tables, sawOpen>>

WriteShare(w) ==
    LET i == job[w].on IN
    /\ job[w].at = "share"
    /\ ~RowLocked(i, w)
    /\ status' = [status EXCEPT ![i] = "AWAITING_CANDIDATE"]
    /\ offerMode' = [offerMode EXCEPT ![i] = "LIVE"]
    /\ Finish(w)
    /\ UNCHANGED <<scheduledAt, createdAt, slots, hours, now, sawOpen>>

(* cancel *)

Cancel(w, i) ==
    /\ status[i] \notin {"NONE", "CANCELLED", "SCHEDULED"}
    /\ Begin(w, [Idle EXCEPT !.at = "cancel", !.on = i])
    /\ UNCHANGED <<tables, sawOpen>>

WriteCancel(w) ==
    LET i == job[w].on IN
    /\ job[w].at = "cancel"
    /\ ~RowLocked(i, w)
    /\ status' = [status EXCEPT ![i] = "CANCELLED"]
    /\ Finish(w)
    /\ UNCHANGED <<offerMode, scheduledAt, createdAt, slots, hours, now, sawOpen>>

-----------------------------------------------------------------------------
(* book *)

\* Mutant: the end of the slot is taken for its start.
BookAtItsEnd(w, i, t) ==
    /\ status[i] = "AWAITING_CANDIDATE"
    /\ offerMode[i] = "FIXED" /\ t \in slots[i] /\ t > now
    /\ Begin(w, [Idle EXCEPT !.at = "claim", !.on = i, !.start = t + Duration[i]])
    /\ UNCHANGED <<tables, sawOpen>>

\* The checks before the transaction: status, mode, and the start the
\* candidate picked, against the slot rows read or a freshly computed grid.
Book(w, i, t) ==
    /\ status[i] = "AWAITING_CANDIDATE"
    /\ \/ offerMode[i] = "FIXED" /\ t \in slots[i] /\ t > now
       \/ offerMode[i] = "LIVE" /\ Interviewer[i] # NoUser /\ t \in LiveGrid(i)
    /\ Begin(w, [Idle EXCEPT !.at = "claim", !.on = i, !.start = t,
                             !.live = (offerMode[i] = "LIVE")])
    /\ UNCHANGED <<tables, sawOpen>>

\* updateMany ... WHERE status = AWAITING_CANDIDATE: waits for the row, looks
\* at it again, and gives up if it has moved on.
Claim(w) ==
    LET i == job[w].on IN
    /\ job[w].at = "claim"
    /\ ~RowLocked(i, w)
    /\ IF status[i] = "AWAITING_CANDIDATE" THEN Continue(w, "conflict") ELSE Finish(w)
    /\ UNCHANGED <<tables, sawOpen>>

\* Mutants: a booking from the live grid is not checked again; a clash is polled
\* until it is gone.
CheckFixedOnly(w) ==
    /\ job[w].at = "conflict"
    /\ IF ~job[w].live /\ Clashes(job[w].on, {job[w].start})
       THEN Finish(w)
       ELSE job' = [job EXCEPT ![w].at = "siblings",
                               ![w].saw = UNION {ClaimedBy(v) : v \in Workers \ {w}}]
    /\ UNCHANGED <<tables, sawOpen>>
PollConflict(w) ==
    /\ job[w].at = "conflict"
    /\ ~Clashes(job[w].on, {job[w].start})
    /\ job' = [job EXCEPT ![w].at = "siblings",
                          ![w].saw = UNION {ClaimedBy(v) : v \in Workers \ {w}}]
    /\ UNCHANGED <<tables, sawOpen>>

\* The "defense in depth" query: it sees committed bookings only.
CheckConflict(w) ==
    /\ job[w].at = "conflict"
    /\ IF Clashes(job[w].on, {job[w].start})
       THEN Finish(w)
       ELSE job' = [job EXCEPT ![w].at = "siblings",
                               ![w].saw = UNION {ClaimedBy(v) : v \in Workers \ {w}}]
    /\ UNCHANGED <<tables, sawOpen>>

FindSiblings(w) ==
    /\ job[w].at = "siblings"
    /\ job' = [job EXCEPT ![w].at = "prune",
                          ![w].gone = SiblingSlots(job[w].on, job[w].start)]
    /\ UNCHANGED <<tables, sawOpen>>

\* Mutant: looks for the siblings' slots before it deletes them.
PruneLate(w) ==
    LET gone == job[w].gone IN
    /\ job[w].at = "prune"
    /\ ~SlotLocked(gone, w)
    /\ job' = [job EXCEPT ![w].at = "commit",
                          ![w].doomed = {j \in {p[1] : p \in gone} :
                                            \A t \in slots[j] : t <= now}]
    /\ UNCHANGED <<tables, sawOpen>>

\* deleteMany, then the siblings that have no future slot row left: committed
\* rows without the ones this transaction deleted.
Prune(w) ==
    LET gone == job[w].gone IN
    /\ job[w].at = "prune"
    /\ ~SlotLocked(gone, w)
    /\ job' = [job EXCEPT ![w].at = "commit",
                          ![w].doomed = {j \in {p[1] : p \in gone} :
                                            \A t \in SlotsLeft(j, gone) : t <= now}]
    /\ UNCHANGED <<tables, sawOpen>>

\* The last updateMany, which has no status in its WHERE, and COMMIT.
Commit(w) ==
    LET i == job[w].on IN
    /\ job[w].at = "commit"
    /\ \A j \in job[w].doomed : ~RowLocked(j, w)
    /\ status' = [j \in Interviews |-> IF j = i THEN "SCHEDULED"
                                       ELSE IF j \in job[w].doomed THEN "EXPIRED"
                                       ELSE status[j]]
    /\ scheduledAt' = [scheduledAt EXCEPT ![i] = job[w].start]
    /\ slots' = [j \in Interviews |->
                    IF j = i /\ job[w].live THEN SlotsLeft(j, job[w].gone) \cup {job[w].start}
                    ELSE SlotsLeft(j, job[w].gone)]
    /\ sawOpen' = [sawOpen EXCEPT ![i] = job[w].saw]
    /\ Finish(w)
    /\ UNCHANGED <<offerMode, createdAt, hours, now>>

-----------------------------------------------------------------------------
(* Maintenance, availability, time, failure *)

\* expireStale reads at most BatchSize open fixed offers, in no particular
\* order, before it looks for the stale ones among them; and at most BatchSize
\* stale requests.  isRunning keeps two runs from overlapping.
FindStale(w) ==
    \E offers \in SUBSET {i \in Interviews : /\ status[i] = "AWAITING_CANDIDATE"
                                             /\ offerMode[i] = "FIXED"},
       requests \in SUBSET StaleRequests :
        /\ Cardinality(offers) <= BatchSize
        /\ Cardinality(requests) <= BatchSize
        /\ LET stale == (offers \cap StaleOffers) \cup requests IN
           /\ stale # {}
           /\ Begin(w, [Idle EXCEPT !.at = "expire", !.doomed = stale])
        /\ \A v \in Workers : job[v].at # "expire"
        /\ UNCHANGED <<tables, sawOpen>>

\* The updateMany has no status in its WHERE either.
WriteExpired(w) ==
    /\ job[w].at = "expire"
    /\ \A j \in job[w].doomed : ~RowLocked(j, w)
    /\ status' = [i \in Interviews |-> IF i \in job[w].doomed THEN "EXPIRED" ELSE status[i]]
    /\ Finish(w)
    /\ UNCHANGED <<offerMode, scheduledAt, createdAt, slots, hours, now, sawOpen>>

SetHours(w, u, H) ==
    /\ job[w] = Idle
    /\ hours' = [hours EXCEPT ![u] = H]
    /\ UNCHANGED <<rows, slots, now, job, sawOpen>>

Tick ==
    /\ now < MaxTime
    /\ now' = now + 1
    /\ UNCHANGED <<rows, slots, hours, job, sawOpen>>

\* The statement w is at waits for a lock another transaction holds.
Blocked(w) ==
    \/ job[w].at \in {"submit", "share", "cancel", "claim"} /\ RowLocked(job[w].on, w)
    \/ job[w].at = "submit" /\ SlotLocked({job[w].on} \X Times, w)
    \/ job[w].at = "prune" /\ SlotLocked(job[w].gone, w)
    \/ job[w].at \in {"expire", "commit"} /\ \E j \in job[w].doomed : RowLocked(j, w)

\* PostgreSQL breaks a deadlock, Prisma times a transaction out.
LockTimeout(w) ==
    /\ Blocked(w)
    /\ Finish(w)
    /\ UNCHANGED <<tables, sawOpen>>

\* Any other failure; a crash of the process is one of these for every worker.
Fail(w) ==
    /\ job[w] # Idle /\ ~Blocked(w)
    /\ Finish(w)
    /\ UNCHANGED <<tables, sawOpen>>

\* A request arrives, or the cron fires.
Arrive(w) ==
    \/ \E i \in Interviews :
        \/ \E S \in Proposals : CreateManual(w, i, S) \/ SubmitAvailability(w, i, S)
        \/ CreateRequest(w, i)
        \/ ShareLiveAvailability(w, i)
        \/ Cancel(w, i)
        \/ \E t \in Times : Book(w, i, t)
    \/ FindStale(w)
    \/ \E u \in Users, H \in HourChoices : SetHours(w, u, H)

\* A handler's next statement.
Step(w) ==
    \/ InsertManual(w)
    \/ CheckOffer(w)
    \/ WriteOffer(w)
    \/ WriteShare(w)
    \/ WriteCancel(w)
    \/ Claim(w)
    \/ CheckConflict(w)
    \/ FindSiblings(w)
    \/ Prune(w)
    \/ Commit(w)
    \/ WriteExpired(w)

Next ==
    \/ \E w \in Workers : Arrive(w) \/ Step(w) \/ LockTimeout(w) \/ Fail(w)
    \/ Tick

Spec == Init /\ [][Next]_vars

\* The event loop resumes every handler whose await has settled, and every await
\* of a statement settles: it gets its locks or times out waiting for them.
Resume(w) == Step(w) \/ LockTimeout(w)
FairSpec == Spec /\ \A w \in Workers : WF_vars(Resume(w))

-----------------------------------------------------------------------------
(* Properties *)

TypeOK ==
    /\ TablesOK
    /\ job \in [Workers -> Job]
    /\ sawOpen \in [Interviews -> SUBSET Interviews]

\* Two overlapping confirmed interviews of one interviewer are possible only if
\* their booking transactions overlapped: one of them already held its claim
\* when the other one looked for conflicts.  The conflict query of book()
\* therefore catches every clash but that race.
DoubleBookingNeedsRace ==
    \A i, j \in Interviews :
        (i # j /\ SameInterviewer(i, j) /\ status[i] = "SCHEDULED" /\ status[j] = "SCHEDULED"
               /\ RangesOverlap(RangeOf(i, scheduledAt[i]), RangeOf(j, scheduledAt[j])))
            => i \in sawOpen[j] \/ j \in sawOpen[i]

\* However the handlers interleave, an interview is confirmed only while it is
\* open for booking: the conditional flip of book() and the row lock it takes
\* keep a withdrawn or already booked interview from being booked.
OnlyOpenOffersAreBooked ==
    [][\A i \in Interviews :
        (status[i] # "SCHEDULED" /\ status'[i] = "SCHEDULED")
            => status[i] = "AWAITING_CANDIDATE"]_vars

\* The write of the maintenance job expires nothing that is booked, and of what is open
\* for booking only fixed offers whose slots have all passed: a request that has been
\* answered is not one that "went unanswered" (interviews.scheduler.ts, the comment of
\* expireStale).
MaintenanceSparesAnswered ==
    [][\A w \in Workers, i \in Interviews :
        (/\ job[w].at = "expire" /\ job'[w].at = "idle"
         /\ status[i] \in {"AWAITING_CANDIDATE", "SCHEDULED"}
         /\ status'[i] = "EXPIRED")
            => i \in StaleOffers]_vars

\* A booking takes open slots away from siblings, never a confirmed booking
\* (interviews.service.ts, the comment above the pruning).
PruningSparesBookings ==
    [][\A w \in Workers, i \in Interviews :
        (job[w].at = "commit" /\ job'[w].at = "idle" /\ status[i] = "SCHEDULED")
            => status'[i] = "SCHEDULED"]_vars

\* Every request is answered, also when booking transactions wait for each
\* other's interviews.
EveryRequestEnds == \A w \in Workers : (job[w] # Idle) ~> (job[w] = Idle)

\* With one handler in flight at a time the service keeps the contract of
\* InterviewCalendar, in which every handler is one step: the tables are mapped to
\* themselves, the handlers in flight are hidden.
Calendar == INSTANCE InterviewCalendar
    WITH status <- status, offerMode <- offerMode, scheduledAt <- scheduledAt,
         createdAt <- createdAt, slots <- slots, hours <- hours, now <- now
ImplementsCalendar == Calendar!Spec
=============================================================================
