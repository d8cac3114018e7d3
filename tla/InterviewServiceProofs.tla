----------------------- MODULE InterviewServiceProofs -----------------------
(***************************************************************************)
(* What survives when the handlers interleave at their awaits, for every   *)
(* number of workers, interviews and interviewers: only open offers are    *)
(* booked, and a double booking takes two booking transactions that        *)
(* overlap.  With a single handler in flight there is none, and the        *)
(* service implements the calendar.                                        *)
(*                                                                         *)
(* The inductive invariant follows a booking transaction through its       *)
(* steps: while it holds its claim the row stays AWAITING_CANDIDATE, since *)
(* every other write waits for the row lock; and from its conflict check   *)
(* on, it or its rival has seen the other one's claim.                     *)
(***************************************************************************)
EXTENDS InterviewService, InterviewsProofs

\* The steps at which a booking transaction has passed its conflict check.
Checked == {"siblings", "prune", "commit"}

ScheduledHasTime ==
    \A i \in Interviews : status[i] = "SCHEDULED" => scheduledAt[i] # NoTime

\* What a handler in flight knows of the rows it works on.
KnowsItsRows(j) ==
    /\ IF j.at \in {"idle", "expire"} THEN j.on = NoInterview ELSE j.on \in Interviews
    /\ j.at = "create" => status[j.on] = "NONE"
    /\ j.at \notin {"idle", "expire", "create"} => status[j.on] # "NONE"
    /\ j.at \in Claimed \cup {"claim"} => j.start \in Times
    /\ \A i \in j.doomed : status[i] # "NONE"
    /\ \A p \in j.gone : status[p[1]] # "NONE"

JobsKnowTheirRows == \A w \in Workers : KnowsItsRows(job[w])

InsertsAreExclusive ==
    \A v, w \in Workers :
        (v # w /\ job[v].at = "create" /\ job[w].at = "create") => job[v].on # job[w].on

ClaimsAreOpen ==
    \A w \in Workers : HasClaim(w) => status[job[w].on] = "AWAITING_CANDIDATE"

ClaimsAreExclusive ==
    \A v, w \in Workers :
        (v # w /\ HasClaim(v) /\ HasClaim(w)) => job[v].on # job[w].on

\* Of two transactions past their check, the later to check saw the other.
RivalsAreSeen ==
    \A v, w \in Workers :
        (v # w /\ job[v].at \in Checked /\ job[w].at \in Checked)
            => job[v].on \in job[w].saw \/ job[w].on \in job[v].saw

\* A transaction past its check clashes with a confirmed interview only if one
\* of the two saw the other's claim.
ClashesAreSeen ==
    \A w \in Workers, j \in Interviews :
        (/\ job[w].at \in Checked
         /\ j # job[w].on
         /\ SameInterviewer(job[w].on, j)
         /\ status[j] = "SCHEDULED"
         /\ RangesOverlap(RangeOf(job[w].on, job[w].start), RangeOf(j, scheduledAt[j])))
            => j \in job[w].saw \/ job[w].on \in sawOpen[j]

IInv ==
    /\ TypeOK
    /\ ScheduledHasTime
    /\ JobsKnowTheirRows
    /\ InsertsAreExclusive
    /\ ClaimsAreOpen
    /\ ClaimsAreExclusive
    /\ RivalsAreSeen
    /\ ClashesAreSeen
    /\ DoubleBookingNeedsRace

USE DEF TypeOK, TablesOK, Statuses, Steps, Claimed, Checked, HasClaim, RowLocked

LEMMA IdleIsJob == Idle \in Job
BY DEF Idle, Job, NoTime

LEMMA InitIInv == Init => IInv
<1> SUFFICES ASSUME Init PROVE IInv
  OBVIOUS
<1>1. TypeOK
  BY IdleIsJob, TimeAssumption, ProposalAssumption DEF Init, TablesInit, Times, NoTime
<1>2. \A w \in Workers : job[w] = Idle
  BY DEF Init
<1>3. \A i \in Interviews : status[i] = "NONE"
  BY DEF Init, TablesInit
<1>4. ScheduledHasTime /\ DoubleBookingNeedsRace
  BY <1>3 DEF ScheduledHasTime, DoubleBookingNeedsRace
<1>5. JobsKnowTheirRows /\ InsertsAreExclusive /\ ClaimsAreOpen /\ ClaimsAreExclusive
  BY <1>2 DEF JobsKnowTheirRows, KnowsItsRows, InsertsAreExclusive, ClaimsAreOpen,
              ClaimsAreExclusive, Idle
<1>6. RivalsAreSeen /\ ClashesAreSeen
  BY <1>2 DEF RivalsAreSeen, ClashesAreSeen, Idle
<1>7. QED BY <1>1, <1>4, <1>5, <1>6 DEF IInv

-----------------------------------------------------------------------------
(* Two shapes of step cover everything but the booking transaction itself.  *)

\* A handler starts, goes on or ends without holding a claim, and writes nothing.
LEMMA LocalStep ==
    ASSUME IInv, NEW w \in Workers, NEW J \in Job,
           job' = [job EXCEPT ![w] = J],
           J.at \notin Claimed, KnowsItsRows(J),
           J.at = "create" => \A v \in Workers : job[v].on # J.on,
           TablesOK', UNCHANGED <<status, scheduledAt, sawOpen>>
    PROVE  IInv'
<1>1. /\ \A v \in Workers : job'[v] = IF v = w THEN J ELSE job[v]
      /\ job' \in [Workers -> Job]
  BY DEF IInv
<1>2. TypeOK'
  BY <1>1 DEF IInv
<1>3. ScheduledHasTime' /\ DoubleBookingNeedsRace'
  BY DEF IInv, ScheduledHasTime, DoubleBookingNeedsRace, SameInterviewer, RangeOf
<1>4. JobsKnowTheirRows'
  BY <1>1 DEF IInv, JobsKnowTheirRows, KnowsItsRows
<1>5. InsertsAreExclusive'
  BY <1>1 DEF IInv, InsertsAreExclusive
<1>6. ClaimsAreOpen' /\ ClaimsAreExclusive' /\ RivalsAreSeen'
  BY <1>1 DEF IInv, ClaimsAreOpen, ClaimsAreExclusive, RivalsAreSeen
<1>7. ClashesAreSeen'
  BY <1>1 DEF IInv, ClashesAreSeen, SameInterviewer, RangeOf
<1>8. QED BY <1>2, <1>3, <1>4, <1>5, <1>6, <1>7 DEF IInv

\* A plain update changes rows nobody has claimed and confirms none of them.
LEMMA WriteStep ==
    ASSUME IInv, NEW w \in Workers,
           ~HasClaim(w), job' = [job EXCEPT ![w] = Idle],
           TablesOK', UNCHANGED <<scheduledAt, sawOpen>>,
           \A i \in Interviews : status'[i] # status[i] =>
               /\ status'[i] \notin {"SCHEDULED", "NONE"}
               /\ status[i] = "NONE" => \A v \in Workers \ {w} : job[v].on # i
               /\ ~RowLocked(i, w)
    PROVE  IInv'
<1>1. /\ \A v \in Workers : job'[v] = IF v = w THEN Idle ELSE job[v]
      /\ job' \in [Workers -> Job]
  BY IdleIsJob DEF IInv
<1>2. Idle.at = "idle" /\ Idle.on = NoInterview /\ Idle.gone = {} /\ Idle.doomed = {}
  BY DEF Idle
<1>3. \A i \in Interviews :
        /\ status'[i] = "SCHEDULED" => status[i] = "SCHEDULED"
        /\ status'[i] = "NONE" => status[i] = "NONE"
  OBVIOUS
<1>4. TypeOK'
  BY <1>1 DEF IInv
<1>5. ScheduledHasTime' /\ DoubleBookingNeedsRace'
  BY <1>3 DEF IInv, ScheduledHasTime, DoubleBookingNeedsRace, SameInterviewer, RangeOf
<1>6. JobsKnowTheirRows'
  <2> SUFFICES ASSUME NEW v \in Workers PROVE KnowsItsRows(job[v])'
    BY DEF JobsKnowTheirRows
  <2>1. CASE v = w
    BY <1>1, <1>2, <2>1 DEF KnowsItsRows
  <2>2. CASE v # w
    <3>1. KnowsItsRows(job[v]) /\ job[v] \in Job
      BY DEF IInv, JobsKnowTheirRows
    <3>2. job'[v] = job[v]
      BY <1>1, <2>2
    <3>3. job[v].at = "create" => status'[job[v].on] = "NONE"
      BY <2>2, <3>1 DEF KnowsItsRows
    <3>4. \A p \in job[v].gone : p[1] \in Interviews
      BY <3>1 DEF Job
    <3>5. job[v].doomed \subseteq Interviews
      BY <3>1 DEF Job
    <3>6. QED BY <1>3, <3>1, <3>2, <3>3, <3>4, <3>5 DEF KnowsItsRows
  <2>3. QED BY <2>1, <2>2
<1>7. InsertsAreExclusive' /\ ClaimsAreExclusive' /\ RivalsAreSeen'
  BY <1>1, <1>2 DEF IInv, InsertsAreExclusive, ClaimsAreExclusive, RivalsAreSeen
<1>8. ClaimsAreOpen'
  BY <1>1, <1>2 DEF IInv, ClaimsAreOpen, JobsKnowTheirRows, KnowsItsRows
<1>9. ClashesAreSeen'
  BY <1>1, <1>2, <1>3 DEF IInv, ClashesAreSeen, SameInterviewer, RangeOf
<1>10. QED BY <1>4, <1>5, <1>6, <1>7, <1>8, <1>9 DEF IInv

\* Time and published hours play no part in the invariant.
LEMMA TableStep ==
    ASSUME IInv, TablesOK', UNCHANGED <<status, scheduledAt, job, sawOpen>>
    PROVE  IInv'
BY DEF IInv, ScheduledHasTime, DoubleBookingNeedsRace, JobsKnowTheirRows, KnowsItsRows,
       InsertsAreExclusive, ClaimsAreOpen, ClaimsAreExclusive, RivalsAreSeen,
       ClashesAreSeen, SameInterviewer, RangeOf

-----------------------------------------------------------------------------
(* The booking transaction *)

\* A handler ends, and its open transaction, if any, is rolled back.
LEMMA FinishPreserves ==
    ASSUME IInv, NEW w \in Workers, Finish(w), UNCHANGED <<tables, sawOpen>>
    PROVE  IInv'
<1>1. KnowsItsRows(Idle) /\ Idle.at = "idle"
  BY DEF KnowsItsRows, Idle
<1>2. TablesOK'
  BY DEF tables, rows, IInv
<1>3. QED BY <1>1, <1>2, IdleIsJob, LocalStep DEF Finish, tables, rows

LEMMA ClaimPreserves ==
    ASSUME IInv, NEW w \in Workers, Claim(w)
    PROVE  IInv'
<1>1. CASE Finish(w)
  BY <1>1, FinishPreserves DEF Claim
<1>2. CASE status[job[w].on] = "AWAITING_CANDIDATE" /\ Continue(w, "conflict")
  <2> DEFINE J == [job[w] EXCEPT !.at = "conflict"]
  <2>0. J \in Job
    <3>1. job[w] \in Job
      BY DEF IInv
    <3>2. QED BY <3>1 DEF Job
  <2>1. /\ \A v \in Workers : job'[v] = IF v = w THEN J ELSE job[v]
        /\ job' \in [Workers -> Job]
    <3>1. job' = [job EXCEPT ![w] = J]
      BY <1>2 DEF Continue
    <3> HIDE DEF J
    <3>2. QED BY <2>0, <3>1 DEF IInv
  <2>2. job[w].at = "claim" /\ ~RowLocked(job[w].on, w) /\ UNCHANGED <<tables, sawOpen>>
    BY DEF Claim
  <2>3. /\ job'[w].on = job[w].on /\ job'[w].at = "conflict" /\ job'[w].start = job[w].start
        /\ job'[w].gone = job[w].gone /\ job'[w].doomed = job[w].doomed
    BY <2>1 DEF IInv, Job
  <2>4. TypeOK'
    BY <2>1, <2>2 DEF tables, rows, IInv
  <2>5. ScheduledHasTime' /\ DoubleBookingNeedsRace'
    BY <2>2 DEF tables, rows, IInv, ScheduledHasTime, DoubleBookingNeedsRace, SameInterviewer,
                RangeOf
  <2>6. JobsKnowTheirRows'
    <3> HIDE DEF J
    <3>1. \A v \in Workers \ {w} : job'[v] = job[v]
      BY <2>1
    <3>2. QED BY <2>2, <2>3, <3>1 DEF tables, rows, IInv, JobsKnowTheirRows, KnowsItsRows
  <2>7. InsertsAreExclusive' /\ RivalsAreSeen'
    BY <2>1, <2>3 DEF IInv, InsertsAreExclusive, RivalsAreSeen
  <2>8. ClaimsAreOpen'
    BY <1>2, <2>1, <2>2, <2>3 DEF tables, rows, IInv, ClaimsAreOpen
  <2>9. ClaimsAreExclusive'
    BY <2>1, <2>2, <2>3 DEF IInv, ClaimsAreExclusive
  <2>10. ClashesAreSeen'
    BY <2>1, <2>2, <2>3 DEF tables, rows, IInv, ClashesAreSeen, SameInterviewer, RangeOf
  <2>11. QED BY <2>4, <2>5, <2>6, <2>7, <2>8, <2>9, <2>10 DEF IInv
<1>3. QED BY <1>1, <1>2 DEF Claim

LEMMA CheckConflictPreserves ==
    ASSUME IInv, NEW w \in Workers, CheckConflict(w)
    PROVE  IInv'
<1> DEFINE i == job[w].on
<1> DEFINE seen == UNION {ClaimedBy(v) : v \in Workers \ {w}}
<1> DEFINE J == [job[w] EXCEPT !.at = "siblings", !.saw = seen]
<1>1. CASE Clashes(i, {job[w].start})
  BY <1>1, FinishPreserves DEF CheckConflict
<1>2. CASE ~Clashes(i, {job[w].start})
  <2>1. /\ job[w].at = "conflict"
        /\ job' = [job EXCEPT ![w].at = "siblings", ![w].saw = seen]
        /\ UNCHANGED <<tables, sawOpen>>
    BY <1>2 DEF CheckConflict
  <2>2. seen \subseteq Interviews
    BY DEF IInv, JobsKnowTheirRows, KnowsItsRows, ClaimedBy
  <2>3. \A v \in Workers \ {w} : HasClaim(v) => job[v].on \in seen
    BY DEF ClaimedBy
  <2>4. /\ \A v \in Workers \ {w} : job'[v] = job[v]
        /\ job'[w] = J
        /\ job' \in [Workers -> Job]
    <3>1. job' = [job EXCEPT ![w] = J]
      BY <2>1
    <3>2. J \in Job
      <4>1. job[w] \in Job
        BY DEF IInv
      <4>2. QED BY <2>2, <4>1 DEF Job
    <3> HIDE DEF J
    <3>3. QED BY <3>1, <3>2 DEF IInv
  <2>5. /\ job'[w].on = i /\ job'[w].at = "siblings" /\ job'[w].saw = seen
        /\ job'[w].start = job[w].start
        /\ job'[w].gone = job[w].gone /\ job'[w].doomed = job[w].doomed
    BY <2>4 DEF IInv, Job
  <2>6. TypeOK'
    BY <2>1, <2>4 DEF tables, rows, IInv
  <2>7. ScheduledHasTime' /\ DoubleBookingNeedsRace'
    BY <2>1 DEF tables, rows, IInv, ScheduledHasTime, DoubleBookingNeedsRace, SameInterviewer,
                RangeOf
  <2>8. JobsKnowTheirRows'
    BY <2>1, <2>4, <2>5 DEF tables, rows, IInv, JobsKnowTheirRows, KnowsItsRows
  <2>9. InsertsAreExclusive' /\ ClaimsAreOpen' /\ ClaimsAreExclusive'
    BY <2>1, <2>4, <2>5 DEF tables, rows, IInv, InsertsAreExclusive, ClaimsAreOpen,
                            ClaimsAreExclusive
  <2>10. RivalsAreSeen'
    <3> SUFFICES ASSUME NEW v \in Workers, NEW x \in Workers, v # x,
                        job'[v].at \in Checked, job'[x].at \in Checked
                 PROVE  job'[v].on \in job'[x].saw \/ job'[x].on \in job'[v].saw
      BY DEF RivalsAreSeen
    <3> HIDE DEF seen
    <3>1. CASE v = w
      <4>1. job'[x] = job[x] /\ job[x].on \in seen
        BY <2>3, <2>4, <3>1
      <4>2. QED BY <2>5, <3>1, <4>1
    <3>2. CASE x = w
      <4>1. job'[v] = job[v] /\ job[v].on \in seen
        BY <2>3, <2>4, <3>2
      <4>2. QED BY <2>5, <3>2, <4>1
    <3>3. CASE v # w /\ x # w
      BY <2>4, <3>3 DEF IInv, RivalsAreSeen
    <3>4. QED BY <3>1, <3>2, <3>3
  <2>11. ClashesAreSeen'
    <3> SUFFICES ASSUME NEW v \in Workers, NEW j \in Interviews,
                        job'[v].at \in Checked, j # job'[v].on, SameInterviewer(job'[v].on, j),
                        status[j] = "SCHEDULED",
                        RangesOverlap(RangeOf(job'[v].on, job'[v].start),
                                      RangeOf(j, scheduledAt[j]))
                 PROVE  j \in job'[v].saw \/ job'[v].on \in sawOpen[j]
      BY <2>1 DEF ClashesAreSeen, SameInterviewer, RangeOf, tables, rows
    <3>1. CASE v = w
      <4>1. i \in Interviews /\ scheduledAt[j] # NoTime
        BY <2>1 DEF IInv, JobsKnowTheirRows, KnowsItsRows, ScheduledHasTime
      <4>2. ~RangesOverlap(RangeOf(i, job[w].start), RangeOf(j, scheduledAt[j]))
        BY <1>2, <2>5, <3>1, <4>1, NoClashNoOverlap
      <4>3. QED BY <2>5, <3>1, <4>2
    <3>2. CASE v # w
      BY <2>4, <3>2 DEF IInv, ClashesAreSeen
    <3>3. QED BY <3>1, <3>2
  <2>12. QED BY <2>6, <2>7, <2>8, <2>9, <2>10, <2>11 DEF IInv
<1>3. QED BY <1>1, <1>2

\* findMany and deleteMany on the siblings' slots move the transaction on, and
\* leave its interview, its start and what it saw alone.
LEMMA PruningStep ==
    ASSUME IInv, NEW w \in Workers, NEW J \in Job,
           job[w].at \in Checked, J.at \in Checked,
           J.on = job[w].on, J.start = job[w].start, J.saw = job[w].saw,
           \A j \in J.doomed : status[j] # "NONE",
           \A p \in J.gone : status[p[1]] # "NONE",
           job' = [job EXCEPT ![w] = J], UNCHANGED <<tables, sawOpen>>
    PROVE  IInv'
<1>1. /\ \A v \in Workers : job'[v] = IF v = w THEN J ELSE job[v]
      /\ job' \in [Workers -> Job]
  BY DEF IInv
<1>2. TypeOK'
  BY <1>1 DEF tables, rows, IInv
<1>3. ScheduledHasTime' /\ DoubleBookingNeedsRace'
  BY DEF tables, rows, IInv, ScheduledHasTime, DoubleBookingNeedsRace, SameInterviewer, RangeOf
<1>4. JobsKnowTheirRows'
  BY <1>1 DEF tables, rows, IInv, JobsKnowTheirRows, KnowsItsRows
<1>5. InsertsAreExclusive' /\ ClaimsAreOpen' /\ ClaimsAreExclusive' /\ RivalsAreSeen'
  BY <1>1 DEF tables, rows, IInv, InsertsAreExclusive, ClaimsAreOpen, ClaimsAreExclusive,
              RivalsAreSeen
<1>6. ClashesAreSeen'
  BY <1>1 DEF tables, rows, IInv, ClashesAreSeen, SameInterviewer, RangeOf
<1>7. QED BY <1>2, <1>3, <1>4, <1>5, <1>6 DEF IInv

LEMMA CommitPreserves ==
    ASSUME IInv, NEW w \in Workers, Commit(w)
    PROVE  IInv'
<1> DEFINE i == job[w].on
<1>1. /\ i \in Interviews /\ status[i] = "AWAITING_CANDIDATE"
      /\ job[w].start \in Times
      /\ job[w].saw \subseteq Interviews /\ job[w].doomed \subseteq Interviews
      /\ \A j \in job[w].doomed : status[j] # "NONE"
  BY DEF Commit, IInv, JobsKnowTheirRows, KnowsItsRows, ClaimsAreOpen, Job
<1>2. /\ status' = [j \in Interviews |-> IF j = i THEN "SCHEDULED"
                                         ELSE IF j \in job[w].doomed THEN "EXPIRED"
                                         ELSE status[j]]
      /\ scheduledAt' = [scheduledAt EXCEPT ![i] = job[w].start]
      /\ sawOpen' = [sawOpen EXCEPT ![i] = job[w].saw]
      /\ UNCHANGED <<offerMode, createdAt, hours, now>>
  BY DEF Commit
<1>3. /\ \A v \in Workers : job'[v] = IF v = w THEN Idle ELSE job[v]
      /\ job' \in [Workers -> Job]
  BY IdleIsJob DEF Commit, Finish, IInv
<1>4. Idle.at = "idle" /\ Idle.on = NoInterview /\ Idle.gone = {} /\ Idle.doomed = {}
  BY DEF Idle
<1>5. \A v \in Workers \ {w} : HasClaim(v) => job[v].on # i /\ job[v].on \notin job[w].doomed
  BY DEF Commit, IInv, ClaimsAreExclusive
<1>6. \A j \in Interviews \ {i} :
        /\ status'[j] = "SCHEDULED" => status[j] = "SCHEDULED"
        /\ scheduledAt'[j] = scheduledAt[j]
        /\ sawOpen'[j] = sawOpen[j]
  BY <1>2 DEF IInv
<1>7. scheduledAt'[i] = job[w].start /\ sawOpen'[i] = job[w].saw
  BY <1>1, <1>2 DEF IInv
<1>8. TypeOK'
  <2>1. slots' \in [Interviews -> SUBSET Times]
    BY <1>1 DEF Commit, SlotsLeft, IInv
  <2>2. QED BY <1>1, <1>2, <1>3, <2>1 DEF IInv
<1>9. ScheduledHasTime'
  BY <1>1, <1>6, <1>7 DEF IInv, ScheduledHasTime, Times, NoTime
<1>10. JobsKnowTheirRows'
  <2> SUFFICES ASSUME NEW v \in Workers PROVE KnowsItsRows(job[v])'
    BY DEF JobsKnowTheirRows
  <2>1. CASE v = w
    BY <1>3, <1>4, <2>1 DEF KnowsItsRows
  <2>2. CASE v # w
    <3>1. KnowsItsRows(job[v]) /\ job[v] \in Job /\ job'[v] = job[v]
      BY <1>3, <2>2 DEF IInv, JobsKnowTheirRows
    <3>2. \A j \in Interviews : status'[j] = "NONE" <=> status[j] = "NONE"
      BY <1>1, <1>2
    <3>3. (\A p \in job[v].gone : p[1] \in Interviews) /\ job[v].doomed \subseteq Interviews
      BY <3>1 DEF Job
    <3>4. QED BY <3>1, <3>2, <3>3 DEF KnowsItsRows
  <2>3. QED BY <2>1, <2>2
<1>11. InsertsAreExclusive' /\ ClaimsAreExclusive' /\ RivalsAreSeen'
  BY <1>3, <1>4 DEF IInv, InsertsAreExclusive, ClaimsAreExclusive, RivalsAreSeen
<1>12. ClaimsAreOpen'
  BY <1>2, <1>3, <1>4, <1>5 DEF IInv, ClaimsAreOpen, JobsKnowTheirRows, KnowsItsRows
<1>13. ClashesAreSeen'
  <2> SUFFICES ASSUME NEW v \in Workers, NEW j \in Interviews,
                      job'[v].at \in Checked, j # job'[v].on, SameInterviewer(job'[v].on, j),
                      status'[j] = "SCHEDULED",
                      RangesOverlap(RangeOf(job'[v].on, job'[v].start),
                                    RangeOf(j, scheduledAt'[j]))
               PROVE  j \in job'[v].saw \/ job'[v].on \in sawOpen'[j]
    BY DEF ClashesAreSeen, SameInterviewer, RangeOf
  <2>1. v # w /\ job'[v] = job[v]
    BY <1>3, <1>4
  <2>2. CASE j = i
    <3>1. job[w].on \in job[v].saw \/ job[v].on \in job[w].saw
      BY <2>1 DEF Commit, IInv, RivalsAreSeen
    <3>2. QED BY <1>7, <2>1, <2>2, <3>1
  <2>3. CASE j # i
    BY <1>6, <2>1, <2>3 DEF IInv, ClashesAreSeen
  <2>4. QED BY <2>2, <2>3
<1>14. DoubleBookingNeedsRace'
  <2>1. \A k \in Interviews \ {i} :
          (/\ SameInterviewer(i, k) /\ status'[k] = "SCHEDULED"
           /\ RangesOverlap(RangeOf(i, scheduledAt'[i]), RangeOf(k, scheduledAt'[k])))
              => k \in sawOpen'[i] \/ i \in sawOpen'[k]
    BY <1>6, <1>7 DEF Commit, IInv, ClashesAreSeen
  <2> SUFFICES ASSUME NEW k \in Interviews, NEW j \in Interviews, k # j, SameInterviewer(k, j),
                      status'[k] = "SCHEDULED", status'[j] = "SCHEDULED",
                      RangesOverlap(RangeOf(k, scheduledAt'[k]), RangeOf(j, scheduledAt'[j]))
               PROVE  k \in sawOpen'[j] \/ j \in sawOpen'[k]
    BY DEF DoubleBookingNeedsRace, SameInterviewer, RangeOf
  <2>2. CASE k = i
    BY <2>1, <2>2
  <2>3. CASE j = i
    BY <2>1, <2>3, OverlapSymmetric, SameInterviewerSymmetric
  <2>4. CASE k # i /\ j # i
    BY <1>6, <2>4 DEF IInv, DoubleBookingNeedsRace
  <2>5. QED BY <2>2, <2>3, <2>4
<1>15. QED BY <1>8, <1>9, <1>10, <1>11, <1>12, <1>13, <1>14 DEF IInv

-----------------------------------------------------------------------------

\* A request or the cron starts.
LEMMA ArrivePreserves ==
    ASSUME IInv, NEW w \in Workers, Arrive(w)
    PROVE  IInv'
<1>1. ASSUME NEW i \in Interviews, NEW S \in Proposals, CreateManual(w, i, S) PROVE IInv'
  <2> DEFINE J == [Idle EXCEPT !.at = "create", !.on = i, !.offer = S]
  <2>1. J \in Job
    BY ProposalAssumption DEF Idle, Job, NoTime
  <2>2. KnowsItsRows(J) /\ J.at = "create" /\ J.on = i
    BY <1>1 DEF CreateManual, KnowsItsRows, Idle
  <2>3. TablesOK' /\ UNCHANGED <<status, scheduledAt, sawOpen>>
    BY <1>1 DEF CreateManual, tables, rows, IInv
  <2>4. job' = [job EXCEPT ![w] = J] /\ \A v \in Workers : job[v].on # i
    BY <1>1 DEF CreateManual, Begin
  <2> HIDE DEF J
  <2>5. QED BY <2>1, <2>2, <2>3, <2>4, LocalStep
<1>2. ASSUME NEW i \in Interviews, CreateRequest(w, i) PROVE IInv'
  <2>1. job' = [job EXCEPT ![w] = Idle] /\ ~HasClaim(w)
    BY <1>2 DEF CreateRequest, IInv, Idle
  <2>2. status' = [status EXCEPT ![i] = "AWAITING_MANAGER"] /\ status[i] = "NONE"
    BY <1>2 DEF CreateRequest
  <2>3. TablesOK' /\ UNCHANGED <<scheduledAt, sawOpen>>
    BY <1>2 DEF CreateRequest, IInv
  <2>4. \A v \in Workers : job[v].on # i
    BY <1>2 DEF CreateRequest
  <2>5. \A j \in Interviews : status'[j] # status[j] => j = i /\ status'[j] = "AWAITING_MANAGER"
    BY <2>2 DEF IInv
  <2>6. QED BY <2>1, <2>3, <2>4, <2>5, WriteStep
<1>3. ASSUME NEW J \in Job, J.at \notin Claimed \cup {"create"}, KnowsItsRows(J),
             Begin(w, J), UNCHANGED <<tables, sawOpen>>
      PROVE  IInv'
  <2>1. TablesOK' /\ UNCHANGED <<status, scheduledAt, sawOpen>>
    BY <1>3 DEF tables, rows, IInv
  <2>2. job' = [job EXCEPT ![w] = J]
    BY <1>3 DEF Begin
  <2>3. QED BY <1>3, <2>1, <2>2, LocalStep
<1>4. ASSUME NEW i \in Interviews, NEW S \in Proposals, SubmitAvailability(w, i, S) PROVE IInv'
  <2> DEFINE J == [Idle EXCEPT !.at = "check", !.on = i, !.offer = S]
  <2>1. J \in Job /\ J.at = "check"
    BY ProposalAssumption DEF Idle, Job, NoTime
  <2>2. KnowsItsRows(J)
    BY <1>4 DEF SubmitAvailability, KnowsItsRows, Idle
  <2>3. Begin(w, J) /\ UNCHANGED <<tables, sawOpen>>
    BY <1>4 DEF SubmitAvailability
  <2> HIDE DEF J
  <2>4. QED BY <1>3, <2>1, <2>2, <2>3
<1>5. ASSUME NEW i \in Interviews, ShareLiveAvailability(w, i) PROVE IInv'
  <2> DEFINE J == [Idle EXCEPT !.at = "share", !.on = i]
  <2>1. J \in Job /\ J.at = "share"
    BY DEF Idle, Job, NoTime
  <2>2. KnowsItsRows(J)
    BY <1>5 DEF ShareLiveAvailability, KnowsItsRows, Idle
  <2>3. Begin(w, J) /\ UNCHANGED <<tables, sawOpen>>
    BY <1>5 DEF ShareLiveAvailability
  <2> HIDE DEF J
  <2>4. QED BY <1>3, <2>1, <2>2, <2>3
<1>6. ASSUME NEW i \in Interviews, Cancel(w, i) PROVE IInv'
  <2> DEFINE J == [Idle EXCEPT !.at = "cancel", !.on = i]
  <2>1. J \in Job /\ J.at = "cancel"
    BY DEF Idle, Job, NoTime
  <2>2. KnowsItsRows(J)
    BY <1>6 DEF Cancel, KnowsItsRows, Idle
  <2>3. Begin(w, J) /\ UNCHANGED <<tables, sawOpen>>
    BY <1>6 DEF Cancel
  <2> HIDE DEF J
  <2>4. QED BY <1>3, <2>1, <2>2, <2>3
<1>7. ASSUME NEW i \in Interviews, NEW t \in Times, Book(w, i, t) PROVE IInv'
  <2> DEFINE J == [Idle EXCEPT !.at = "claim", !.on = i, !.start = t,
                               !.live = (offerMode[i] = "LIVE")]
  <2>1. J \in Job /\ J.at = "claim"
    BY DEF Idle, Job
  <2>2. KnowsItsRows(J)
    BY <1>7 DEF Book, KnowsItsRows, Idle
  <2>3. Begin(w, J) /\ UNCHANGED <<tables, sawOpen>>
    BY <1>7 DEF Book
  <2> HIDE DEF J
  <2>4. QED BY <1>3, <2>1, <2>2, <2>3
<1>8. CASE FindStale(w)
  <2>1. PICK stale \in SUBSET (StaleOffers \cup StaleRequests) :
                Begin(w, [Idle EXCEPT !.at = "expire", !.doomed = stale])
    BY <1>8 DEF FindStale
  <2> DEFINE J == [Idle EXCEPT !.at = "expire", !.doomed = stale]
  <2>2. J \in Job /\ J.at = "expire"
    BY DEF Idle, Job, NoTime, StaleOffers, StaleRequests
  <2>3. KnowsItsRows(J)
    BY DEF KnowsItsRows, Idle, StaleOffers, StaleRequests
  <2>4. Begin(w, J) /\ UNCHANGED <<tables, sawOpen>>
    BY <1>8, <2>1 DEF FindStale
  <2> HIDE DEF J
  <2>5. QED BY <1>3, <2>2, <2>3, <2>4
<1>9. ASSUME NEW u \in Users, NEW H \in HourChoices, SetHours(w, u, H) PROVE IInv'
  <2>1. TablesOK' /\ UNCHANGED <<status, scheduledAt, job, sawOpen>>
    BY <1>9, ProposalAssumption DEF SetHours, rows, IInv
  <2>2. QED BY <2>1, TableStep
<1>10. QED BY <1>1, <1>2, <1>4, <1>5, <1>6, <1>7, <1>8, <1>9 DEF Arrive

\* A handler's next statement.
LEMMA StepPreserves ==
    ASSUME IInv, NEW w \in Workers, Step(w)
    PROVE  IInv'
<1> DEFINE i == job[w].on
<1>1. KnowsItsRows(job[w]) /\ job[w] \in Job
  BY DEF IInv, JobsKnowTheirRows
<1>2. CASE InsertManual(w)
  <2>1. /\ job[w].at = "create" /\ i \in Interviews /\ status[i] = "NONE"
        /\ status' = [status EXCEPT ![i] = "AWAITING_CANDIDATE"]
    BY <1>1, <1>2 DEF InsertManual, KnowsItsRows
  <2>2. \A v \in Workers \ {w} : job[v].on # i
    BY <2>1, NoInterviewAssumption
       DEF IInv, JobsKnowTheirRows, KnowsItsRows, InsertsAreExclusive
  <2>3. TablesOK' /\ UNCHANGED <<scheduledAt, sawOpen>> /\ job' = [job EXCEPT ![w] = Idle]
    BY <1>1, <1>2, <2>1 DEF InsertManual, Finish, IInv, Job
  <2>4. \A j \in Interviews : status'[j] # status[j] => j = i /\ status'[j] = "AWAITING_CANDIDATE"
    BY <2>1 DEF IInv
  <2>5. ~HasClaim(w) /\ ~RowLocked(i, w)
    BY <2>1, <2>2
  <2>6. QED BY <2>2, <2>3, <2>4, <2>5, WriteStep, ZenonT(40)
<1>3. ASSUME NEW s \in {"AWAITING_CANDIDATE", "CANCELLED"},
             job[w].at \in {"submit", "share", "cancel"}, ~RowLocked(i, w),
             status' = [status EXCEPT ![i] = s],
             TablesOK', UNCHANGED <<scheduledAt, sawOpen>>, Finish(w)
      PROVE  IInv'
  <2>1. i \in Interviews /\ status[i] # "NONE"
    BY <1>1, <1>3 DEF KnowsItsRows
  <2>2. \A j \in Interviews : status'[j] # status[j] => j = i /\ status'[j] = s
    BY <1>3 DEF IInv
  <2>3. QED BY <1>3, <2>1, <2>2, WriteStep, ZenonT(40) DEF Finish
<1>4. CASE WriteOffer(w)
  <2>1. TablesOK'
    BY <1>1, <1>4 DEF WriteOffer, KnowsItsRows, IInv, Job
  <2>2. QED BY <1>3, <1>4, <2>1 DEF WriteOffer
<1>5. CASE WriteShare(w)
  <2>1. TablesOK'
    BY <1>1, <1>5 DEF WriteShare, KnowsItsRows, IInv
  <2>2. QED BY <1>3, <1>5, <2>1 DEF WriteShare
<1>6. CASE WriteCancel(w)
  <2>1. TablesOK'
    BY <1>1, <1>6 DEF WriteCancel, KnowsItsRows, IInv
  <2>2. QED BY <1>3, <1>6, <2>1 DEF WriteCancel
<1>7. CASE WriteExpired(w)
  <2>1. status' = [j \in Interviews |-> IF j \in job[w].doomed THEN "EXPIRED" ELSE status[j]]
    BY <1>7 DEF WriteExpired
  <2>2. TablesOK' /\ UNCHANGED <<scheduledAt, sawOpen>> /\ job' = [job EXCEPT ![w] = Idle]
    BY <1>7 DEF WriteExpired, Finish, IInv
  <2>3. \A j \in Interviews : status'[j] # status[j] =>
            status'[j] = "EXPIRED" /\ status[j] # "NONE" /\ ~RowLocked(j, w)
    BY <1>1, <1>7, <2>1 DEF WriteExpired, KnowsItsRows
  <2>4. QED BY <1>7, <2>2, <2>3, WriteStep, ZenonT(40) DEF WriteExpired
<1>8. CASE CheckOffer(w)
  <2>1. CASE Finish(w)
    BY <1>8, <2>1, FinishPreserves DEF CheckOffer
  <2>2. CASE Continue(w, "submit")
    <3> DEFINE J == [job[w] EXCEPT !.at = "submit"]
    <3>1. J \in Job /\ J.at = "submit"
      BY <1>1 DEF Job
    <3>2. KnowsItsRows(J)
      BY <1>1, <1>8 DEF CheckOffer, KnowsItsRows, Job
    <3>3. TablesOK' /\ UNCHANGED <<status, scheduledAt, sawOpen>>
      BY <1>8 DEF CheckOffer, tables, rows, IInv
    <3>4. job' = [job EXCEPT ![w] = J]
      BY <2>2 DEF Continue
    <3> HIDE DEF J
    <3>5. QED BY <3>1, <3>2, <3>3, <3>4, LocalStep
  <2>3. QED BY <1>8, <2>1, <2>2 DEF CheckOffer
<1>9. CASE Claim(w)
  BY <1>9, ClaimPreserves
<1>10. CASE CheckConflict(w)
  BY <1>10, CheckConflictPreserves
<1>11. CASE FindSiblings(w)
  <2> DEFINE J == [job[w] EXCEPT !.at = "prune",
                                 !.gone = SiblingSlots(job[w].on, job[w].start)]
  <2>1. SiblingSlots(job[w].on, job[w].start) \subseteq Interviews \X Times
    BY DEF SiblingSlots
  <2>2. /\ J \in Job /\ J.at = "prune" /\ J.on = job[w].on /\ J.start = job[w].start
        /\ J.saw = job[w].saw /\ J.doomed = job[w].doomed
        /\ J.gone = SiblingSlots(job[w].on, job[w].start)
    BY <1>1, <2>1 DEF Job
  <2>3. job' = [job EXCEPT ![w] = J] /\ UNCHANGED <<tables, sawOpen>> /\ job[w].at = "siblings"
    BY <1>11 DEF FindSiblings
  <2> HIDE DEF J
  <2>4. \A p \in J.gone : status[p[1]] # "NONE"
    BY <2>2 DEF SiblingSlots
  <2>5. \A j \in J.doomed : status[j] # "NONE"
    BY <1>1, <2>2 DEF KnowsItsRows
  <2>6. QED BY <2>2, <2>3, <2>4, <2>5, PruningStep
<1>12. CASE Prune(w)
  <2> DEFINE hit == {j \in {p[1] : p \in job[w].gone} :
                       \A t \in SlotsLeft(j, job[w].gone) : t <= now}
  <2> DEFINE J == [job[w] EXCEPT !.at = "commit", !.doomed = hit]
  <2>1. hit \subseteq Interviews
    BY <1>1 DEF Job
  <2>2. /\ J \in Job /\ J.at = "commit" /\ J.on = job[w].on /\ J.start = job[w].start
        /\ J.saw = job[w].saw /\ J.doomed = hit /\ J.gone = job[w].gone
    BY <1>1, <2>1 DEF Job
  <2>3. job' = [job EXCEPT ![w] = J] /\ UNCHANGED <<tables, sawOpen>> /\ job[w].at = "prune"
    BY <1>12 DEF Prune
  <2>4. \A j \in hit : status[j] # "NONE"
    BY <1>1 DEF KnowsItsRows
  <2> HIDE DEF J, hit
  <2>5. \A p \in J.gone : status[p[1]] # "NONE"
    BY <1>1, <2>2 DEF KnowsItsRows
  <2>6. QED BY <2>2, <2>3, <2>4, <2>5, PruningStep
<1>13. CASE Commit(w)
  BY <1>13, CommitPreserves
<1>14. QED
  BY <1>2, <1>4, <1>5, <1>6, <1>7, <1>8, <1>9, <1>10, <1>11, <1>12, <1>13 DEF Step

LEMMA NextIInv == IInv /\ [Next]_vars => IInv'
<1> SUFFICES ASSUME IInv, [Next]_vars PROVE IInv'
  OBVIOUS
<1>1. ASSUME NEW w \in Workers, LockTimeout(w) \/ Fail(w) PROVE IInv'
  BY <1>1, FinishPreserves DEF LockTimeout, Fail
<1>2. CASE Tick
  <2>1. TablesOK' /\ UNCHANGED <<status, scheduledAt, job, sawOpen>>
    BY <1>2, TimeAssumption DEF Tick, rows, IInv, Times
  <2>2. QED BY <2>1, TableStep
<1>3. CASE UNCHANGED vars
  <2>1. TablesOK' /\ UNCHANGED <<status, scheduledAt, job, sawOpen>>
    BY <1>3 DEF vars, tables, rows, IInv
  <2>2. QED BY <2>1, TableStep
<1>4. QED BY <1>1, <1>2, <1>3, ArrivePreserves, StepPreserves DEF Next

\* The inductive invariant holds however the handlers interleave.
THEOREM ServiceInvariant == Spec => []IInv
BY InitIInv, NextIInv, PTL DEF Spec

\* The tables and the local state of every handler in flight keep their types.
THEOREM ServiceTypeOK == Spec => []TypeOK
<1>1. IInv => TypeOK
  BY DEF IInv
<1>2. QED BY <1>1, ServiceInvariant, PTL

\* For any number of handlers in flight: two overlapping confirmed interviews of
\* one interviewer were booked by transactions that ran at the same time.
THEOREM ServiceDoubleBookingNeedsRace == Spec => []DoubleBookingNeedsRace
<1>1. IInv => DoubleBookingNeedsRace
  BY DEF IInv
<1>2. QED BY <1>1, ServiceInvariant, PTL

\* Whoever is alone sees no other claim.
SeesNobody ==
    /\ \A i \in Interviews : sawOpen[i] = {}
    /\ \A w \in Workers : job[w].saw = {}

LEMMA AloneSeesNobody ==
    ASSUME \A v, w \in Workers : v = w, IInv, SeesNobody, [Next]_vars
    PROVE  SeesNobody'
<1>1. ASSUME NEW w \in Workers, NEW J, J.saw = {}, job' = [job EXCEPT ![w] = J],
             UNCHANGED sawOpen
      PROVE  SeesNobody'
  BY <1>1 DEF SeesNobody, IInv
<1>2. ASSUME NEW w \in Workers, NEW J, J.saw = {}, Begin(w, J), UNCHANGED sawOpen
      PROVE  SeesNobody'
  BY <1>1, <1>2 DEF Begin
<1>3. ASSUME NEW w \in Workers, Finish(w), UNCHANGED sawOpen PROVE SeesNobody'
  BY <1>1, <1>3 DEF Finish, Idle
<1>4. ASSUME UNCHANGED <<job, sawOpen>> PROVE SeesNobody'
  BY <1>4 DEF SeesNobody
<1>5. ASSUME NEW w \in Workers, Arrive(w) PROVE SeesNobody'
  <2>1. ASSUME NEW i \in Interviews, NEW S \in Proposals,
               CreateManual(w, i, S) \/ SubmitAvailability(w, i, S)
        PROVE  SeesNobody'
    BY <1>2, <2>1 DEF CreateManual, SubmitAvailability, Idle
  <2>2. ASSUME NEW i \in Interviews,
               CreateRequest(w, i) \/ ShareLiveAvailability(w, i) \/ Cancel(w, i)
        PROVE  SeesNobody'
    BY <1>2, <1>4, <2>2 DEF CreateRequest, ShareLiveAvailability, Cancel, Idle
  <2>3. ASSUME NEW i \in Interviews, NEW t \in Times, Book(w, i, t) PROVE SeesNobody'
    BY <1>2, <2>3 DEF Book, Idle
  <2>4. CASE FindStale(w)
    <3>1. PICK stale : Begin(w, [Idle EXCEPT !.at = "expire", !.doomed = stale])
      BY <2>4 DEF FindStale
    <3>2. QED BY <1>2, <2>4, <3>1 DEF FindStale, Idle
  <2>5. ASSUME NEW u \in Users, NEW H \in HourChoices, SetHours(w, u, H) PROVE SeesNobody'
    BY <1>4, <2>5 DEF SetHours
  <2>6. QED BY <1>5, <2>1, <2>2, <2>3, <2>4, <2>5 DEF Arrive
<1>6. ASSUME NEW w \in Workers, Step(w) PROVE SeesNobody'
  <2>1. job[w] \in Job /\ job[w].saw = {}
    BY DEF IInv, SeesNobody
  <2>2. ASSUME NEW s, Continue(w, s), UNCHANGED sawOpen PROVE SeesNobody'
    <3>1. [job[w] EXCEPT !.at = s].saw = {}
      BY <2>1 DEF Job
    <3>2. QED BY <1>1, <2>2, <3>1 DEF Continue
  <2>3. CASE InsertManual(w) \/ WriteOffer(w) \/ WriteShare(w) \/ WriteCancel(w)
             \/ WriteExpired(w)
    BY <1>3, <2>3 DEF InsertManual, WriteOffer, WriteShare, WriteCancel, WriteExpired
  <2>4. CASE CheckOffer(w) \/ Claim(w)
    BY <1>3, <2>2, <2>4 DEF CheckOffer, Claim
  <2>5. CASE CheckConflict(w)
    <3> DEFINE J == [job[w] EXCEPT !.at = "siblings",
                                   !.saw = UNION {ClaimedBy(v) : v \in Workers \ {w}}]
    <3>1. UNION {ClaimedBy(v) : v \in Workers \ {w}} = {}
      OBVIOUS
    <3>2. J.saw = {}
      BY <2>1, <3>1 DEF Job
    <3>3. Finish(w) \/ job' = [job EXCEPT ![w] = J]
      BY <2>1, <2>5 DEF CheckConflict, IInv, TypeOK
    <3>4. UNCHANGED sawOpen
      BY <2>5 DEF CheckConflict
    <3> HIDE DEF J
    <3>5. CASE Finish(w)
      BY <1>3, <3>4, <3>5
    <3>6. CASE job' = [job EXCEPT ![w] = J]
      BY <1>1, <3>2, <3>4, <3>6
    <3>7. QED BY <3>3, <3>5, <3>6
  <2>6. CASE FindSiblings(w)
    <3> DEFINE J == [job[w] EXCEPT !.at = "prune",
                                   !.gone = SiblingSlots(job[w].on, job[w].start)]
    <3>1. J.saw = {}
      BY <2>1 DEF Job
    <3>2. job' = [job EXCEPT ![w] = J] /\ UNCHANGED sawOpen
      BY <2>6 DEF FindSiblings
    <3> HIDE DEF J
    <3>3. QED BY <1>1, <3>1, <3>2
  <2>7. CASE Prune(w)
    <3> DEFINE hit == {j \in {p[1] : p \in job[w].gone} :
                         \A t \in SlotsLeft(j, job[w].gone) : t <= now}
    <3> DEFINE J == [job[w] EXCEPT !.at = "commit", !.doomed = hit]
    <3>1. J.saw = {}
      BY <2>1 DEF Job
    <3>2. job' = [job EXCEPT ![w] = J] /\ UNCHANGED sawOpen
      BY <2>7 DEF Prune
    <3> HIDE DEF J
    <3>3. QED BY <1>1, <3>1, <3>2
  <2>8. CASE Commit(w)
    <3>1. sawOpen' = [sawOpen EXCEPT ![job[w].on] = {}] /\ job' = [job EXCEPT ![w] = Idle]
      BY <2>1, <2>8 DEF Commit, Finish
    <3>2. Idle.saw = {}
      BY DEF Idle
    <3>3. QED BY <3>1, <3>2 DEF SeesNobody, IInv
  <2>9. QED BY <1>6, <2>3, <2>4, <2>5, <2>6, <2>7, <2>8 DEF Step
<1>7. ASSUME NEW w \in Workers, LockTimeout(w) \/ Fail(w) PROVE SeesNobody'
  BY <1>3, <1>7 DEF LockTimeout, Fail
<1>8. CASE Tick \/ UNCHANGED vars
  BY <1>4, <1>8 DEF Tick, vars
<1>9. QED BY <1>5, <1>6, <1>7, <1>8 DEF Next

\* With one handler in flight at a time no interviewer is booked twice.
THEOREM SerialNoDoubleBooking ==
    ASSUME \A v, w \in Workers : v = w
    PROVE  Spec => []NoDoubleBooking
<1>1. Init => SeesNobody
  BY DEF Init, SeesNobody, Idle
<1>2. IInv /\ SeesNobody /\ [Next]_vars => SeesNobody'
  BY AloneSeesNobody
<1>3. IInv /\ SeesNobody => NoDoubleBooking
  BY DEF IInv, SeesNobody, DoubleBookingNeedsRace, NoDoubleBooking
<1>4. QED BY <1>1, <1>2, <1>3, ServiceInvariant, PTL DEF Spec

\* No step, of any handler, confirms an interview that is not open for booking.
THEOREM ServiceOnlyOpenOffersAreBooked == Spec => OnlyOpenOffersAreBooked
<1> DEFINE A == \A i \in Interviews :
                  (status[i] # "SCHEDULED" /\ status'[i] = "SCHEDULED")
                      => status[i] = "AWAITING_CANDIDATE"
<1>1. IInv /\ [Next]_vars => [A]_vars
  <2> SUFFICES ASSUME IInv, Next PROVE A
    OBVIOUS
  <2>1. ASSUME NEW w \in Workers, Commit(w) PROVE A
    <3>1. status[job[w].on] = "AWAITING_CANDIDATE"
      BY <2>1 DEF Commit, IInv, ClaimsAreOpen
    <3>2. QED BY <2>1, <3>1 DEF Commit
  <2>2. ASSUME NEW w \in Workers, Step(w), ~Commit(w) PROVE A
    BY <2>2 DEF Step, InsertManual, CheckOffer, WriteOffer, WriteShare, WriteCancel, Claim,
                CheckConflict, FindSiblings, Prune, WriteExpired, tables, rows, IInv
  <2>3. ASSUME NEW w \in Workers, Arrive(w) PROVE A
    BY <2>3 DEF Arrive, CreateManual, SubmitAvailability, CreateRequest, ShareLiveAvailability,
                Cancel, Book, FindStale, SetHours, tables, rows, IInv
  <2>4. ASSUME NEW w \in Workers, LockTimeout(w) \/ Fail(w) PROVE A
    BY <2>4 DEF LockTimeout, Fail, tables, rows
  <2>5. CASE Tick
    BY <2>5 DEF Tick, rows
  <2>6. QED BY <2>1, <2>2, <2>3, <2>4, <2>5 DEF Next
<1>2. QED BY <1>1, ServiceInvariant, PTL DEF Spec, OnlyOpenOffersAreBooked

-----------------------------------------------------------------------------
(* One handler at a time implements the calendar *)

\* What a handler has checked is still so: nobody but the clock has come between.
StillSo(j) ==
    LET i == j.on IN
    /\ j.at \in {"create", "check", "submit"} => j.offer \in Proposals
    /\ j.at = "create" => status[i] = "NONE"
    /\ j.at \in {"check", "submit", "share"} => status[i] = "AWAITING_MANAGER"
    /\ j.at \in {"create", "submit"} => ~Clashes(i, j.offer)
    /\ j.at = "share" => hours[Interviewer[i]].hasRules
    /\ j.at = "cancel" => status[i] \notin {"NONE", "CANCELLED", "SCHEDULED"}
    /\ j.at \in Claimed \cup {"claim"} =>
          /\ status[i] = "AWAITING_CANDIDATE"
          /\ offerMode[i] = "FIXED" => j.start \in slots[i] /\ ~j.live
          /\ offerMode[i] = "LIVE" =>
                Interviewer[i] # NoUser /\ FitsWindow(i, j.start) /\ j.live
    /\ j.at \in Checked => ~Clashes(i, {j.start})
    /\ j.at \in {"prune", "commit"} => j.gone = SiblingSlots(i, j.start)
    /\ j.at = "commit" =>
          /\ \A k \in {p[1] : p \in j.gone} : SlotsLeft(k, j.gone) = {} => k \in j.doomed
          /\ \A k \in j.doomed : /\ k \in {p[1] : p \in j.gone}
                               /\ \A t \in SlotsLeft(k, j.gone) : t <= now
    /\ j.at = "expire" => j.doomed # {} /\ j.doomed \subseteq StaleOffers \cup StaleRequests

Undisturbed == \A w \in Workers : StillSo(job[w])

\* The calendar asks the same questions of the same tables.
LEMMA SameQueries ==
    /\ \A i, S : Calendar!Clashes(i, S) = Clashes(i, S)
    /\ \A i, t : Calendar!FitsWindow(i, t) = FitsWindow(i, t)
    /\ \A i, t : Calendar!SiblingSlots(i, t) = SiblingSlots(i, t)
    /\ \A i, gone : Calendar!SlotsLeft(i, gone) = SlotsLeft(i, gone)
    /\ Calendar!StaleOffers = StaleOffers /\ Calendar!StaleRequests = StaleRequests
    /\ Calendar!Times = Times
<1>1. /\ \A i, j : Calendar!SameInterviewer(i, j) = SameInterviewer(i, j)
      /\ \A i, t : Calendar!RangeOf(i, t) = RangeOf(i, t)
      /\ \A a, b : Calendar!RangesOverlap(a, b) = RangesOverlap(a, b)
      /\ Calendar!NoTime = NoTime /\ Calendar!Times = Times
  BY DEF Calendar!SameInterviewer, SameInterviewer, Calendar!RangeOf, RangeOf, Calendar!SlotAt,
         SlotAt, Calendar!RangesOverlap, RangesOverlap, Calendar!NoTime, NoTime, Calendar!Times,
         Times
<1>2. \A i : Calendar!BookedRanges(i) = BookedRanges(i)
  BY <1>1 DEF Calendar!BookedRanges, BookedRanges
<1>3. \A i, S : Calendar!Clashes(i, S) = Clashes(i, S)
  BY <1>1, <1>2 DEF Calendar!Clashes, Clashes, Calendar!FindConflicts, FindConflicts
<1>4. \A i, t : Calendar!SiblingSlots(i, t) = SiblingSlots(i, t)
  BY <1>1 DEF Calendar!SiblingSlots, SiblingSlots
<1>5. QED
  BY <1>1, <1>3, <1>4 DEF Calendar!FitsWindow, FitsWindow, Calendar!SlotsLeft, SlotsLeft,
       Calendar!StaleOffers, StaleOffers, Calendar!StaleRequests, StaleRequests

\* The answers do not depend on the clock, but what is stale stays so.
LEMMA TimePasses ==
    ASSUME IInv, NEW j \in Job, StillSo(j), UNCHANGED <<rows, slots, hours>>,
           now' \in Times, now <= now'
    PROVE  StillSo(j)'
<1>1. /\ \A i, S : Clashes(i, S)' = Clashes(i, S)
      /\ \A i, t : SiblingSlots(i, t)' = SiblingSlots(i, t)
      /\ \A i, gone : SlotsLeft(i, gone)' = SlotsLeft(i, gone)
      /\ \A i, t : FitsWindow(i, t)' = FitsWindow(i, t)
  BY DEF rows, Clashes, BookedRanges, SiblingSlots, SlotsLeft, FitsWindow
<1>2. StaleOffers \subseteq StaleOffers' /\ StaleRequests \subseteq StaleRequests'
  <2>1. \A i \in Interviews : slots[i] \subseteq Times /\ createdAt[i] \in Times
    BY DEF IInv
  <2>2. now \in Times /\ Times \subseteq Int
    BY TimeAssumption DEF IInv, Times
  <2>3. QED BY <2>1, <2>2, TimeAssumption DEF StaleOffers, StaleRequests, rows
<1>3. \A k, gone : k \in Interviews /\ (\A t \in SlotsLeft(k, gone) : t <= now)
         => \A t \in SlotsLeft(k, gone) : t <= now'
  BY TimeAssumption DEF IInv, SlotsLeft, Times
<1>4. j.doomed \subseteq Interviews
  BY DEF Job
<1>5. QED
  BY <1>1, <1>2, <1>3, <1>4 DEF StillSo, rows

LEMMA IdleIsStillSo == StillSo(Idle)
BY DEF StillSo, Idle

\* A handler goes on with J, and the tables are as they were.
LEMMA Turn ==
    ASSUME \A v, w \in Workers : v = w, IInv, NEW w \in Workers, NEW J \in Job, StillSo(J),
           job' = [job EXCEPT ![w] = J], UNCHANGED tables
    PROVE  Undisturbed'
<1>1. now \in Times /\ now <= now' /\ now' \in Times
  BY TimeAssumption DEF IInv, Times, tables
<1>2. StillSo(J)'
  BY <1>1, TimePasses DEF tables
<1>3. \A v \in Workers : job'[v] = J
  BY DEF IInv
<1>4. QED BY <1>2, <1>3 DEF Undisturbed

\* A handler ends.
LEMMA Ends ==
    ASSUME \A v, w \in Workers : v = w, IInv, NEW w \in Workers, Finish(w)
    PROVE  Undisturbed'
<1>1. \A v \in Workers : job'[v] = Idle
  BY DEF IInv, Finish
<1>2. QED BY <1>1 DEF Undisturbed, StillSo, Idle

LEMMA ArriveUndisturbed ==
    ASSUME \A v, w \in Workers : v = w, IInv, Undisturbed, NEW w \in Workers, Arrive(w)
    PROVE  Undisturbed'
<1> USE DEF Begin
<1>1. ASSUME NEW i \in Interviews, NEW S \in Proposals, CreateManual(w, i, S) PROVE Undisturbed'
  <2>1. PICK J : J = [Idle EXCEPT !.at = "create", !.on = i, !.offer = S]
    OBVIOUS
  <2>2. J \in Job /\ StillSo(J)
    BY <1>1, <2>1, IdleIsJob, ProposalAssumption DEF CreateManual, StillSo, Idle, Job
  <2>3. job' = [job EXCEPT ![w] = J] /\ UNCHANGED tables
    BY <1>1, <2>1 DEF CreateManual
  <2>4. QED BY <2>2, <2>3, Turn
<1>2. ASSUME NEW i \in Interviews, NEW S \in Proposals, SubmitAvailability(w, i, S)
      PROVE  Undisturbed'
  <2>1. PICK J : J = [Idle EXCEPT !.at = "check", !.on = i, !.offer = S]
    OBVIOUS
  <2>2. J \in Job /\ StillSo(J)
    BY <1>2, <2>1, IdleIsJob, ProposalAssumption DEF SubmitAvailability, StillSo, Idle, Job
  <2>3. job' = [job EXCEPT ![w] = J] /\ UNCHANGED tables
    BY <1>2, <2>1 DEF SubmitAvailability
  <2>4. QED BY <2>2, <2>3, Turn
<1>3. ASSUME NEW i \in Interviews, CreateRequest(w, i) PROVE Undisturbed'
  <2>1. job'[w] = Idle
    BY <1>3 DEF CreateRequest
  <2>2. \A v \in Workers : job'[v] = Idle
    BY <2>1
  <2>3. QED BY <2>2 DEF Undisturbed, StillSo, Idle
<1>4. ASSUME NEW i \in Interviews, ShareLiveAvailability(w, i) PROVE Undisturbed'
  <2>1. PICK J : J = [Idle EXCEPT !.at = "share", !.on = i]
    OBVIOUS
  <2>2. J \in Job /\ StillSo(J)
    BY <1>4, <2>1, IdleIsJob DEF ShareLiveAvailability, StillSo, Idle, Job
  <2>3. job' = [job EXCEPT ![w] = J] /\ UNCHANGED tables
    BY <1>4, <2>1 DEF ShareLiveAvailability
  <2>4. QED BY <2>2, <2>3, Turn
<1>5. ASSUME NEW i \in Interviews, Cancel(w, i) PROVE Undisturbed'
  <2>1. PICK J : J = [Idle EXCEPT !.at = "cancel", !.on = i]
    OBVIOUS
  <2>2. J \in Job /\ StillSo(J)
    BY <1>5, <2>1, IdleIsJob DEF Cancel, StillSo, Idle, Job
  <2>3. job' = [job EXCEPT ![w] = J] /\ UNCHANGED tables
    BY <1>5, <2>1 DEF Cancel
  <2>4. QED BY <2>2, <2>3, Turn
<1>6. ASSUME NEW i \in Interviews, NEW t \in Times, Book(w, i, t) PROVE Undisturbed'
  <2>1. PICK J : J = [Idle EXCEPT !.at = "claim", !.on = i, !.start = t,
                                  !.live = (offerMode[i] = "LIVE")]
    OBVIOUS
  <2>2. J \in Job /\ J.at = "claim" /\ J.on = i /\ J.start = t /\ (J.live <=> offerMode[i] = "LIVE")
    BY <2>1, IdleIsJob DEF Idle, Job
  <2>3. StillSo(J)
    BY <1>6, <2>2 DEF Book, StillSo, LiveGrid
  <2>4. job' = [job EXCEPT ![w] = J] /\ UNCHANGED tables
    BY <1>6, <2>1 DEF Book
  <2>5. QED BY <2>2, <2>3, <2>4, Turn
<1>7. CASE FindStale(w)
  <2>1. PICK offers \in SUBSET {i \in Interviews : /\ status[i] = "AWAITING_CANDIDATE"
                                                  /\ offerMode[i] = "FIXED"},
             requests \in SUBSET StaleRequests :
          /\ Cardinality(offers) <= BatchSize
          /\ Cardinality(requests) <= BatchSize
          /\ LET found == (offers \cap StaleOffers) \cup requests IN
             /\ found # {}
             /\ Begin(w, [Idle EXCEPT !.at = "expire", !.doomed = found])
          /\ \A v \in Workers : job[v].at # "expire"
          /\ UNCHANGED <<tables, sawOpen>>
    BY <1>7 DEF FindStale
  <2> DEFINE stale == (offers \cap StaleOffers) \cup requests
  <2>5. /\ stale # {} /\ stale \subseteq StaleOffers \cup StaleRequests
        /\ stale \subseteq Interviews
    BY <2>1 DEF StaleOffers, StaleRequests
  <2>6. /\ job' = [job EXCEPT ![w] = [Idle EXCEPT !.at = "expire", !.doomed = stale]]
        /\ UNCHANGED tables
    BY <2>1
  <2> HIDE DEF stale
  <2>2. PICK J : J = [Idle EXCEPT !.at = "expire", !.doomed = stale]
    OBVIOUS
  <2>3. J \in Job /\ StillSo(J)
    BY <2>5, <2>2, IdleIsJob DEF StillSo, Idle, Job
  <2>4. QED BY <2>6, <2>2, <2>3, Turn
<1>8. ASSUME NEW u \in Users, NEW H \in HourChoices, SetHours(w, u, H) PROVE Undisturbed'
  <2>1. \A v \in Workers : job'[v] = Idle
    BY <1>8 DEF SetHours
  <2>2. QED BY <2>1 DEF Undisturbed, StillSo, Idle
<1>9. QED BY <1>1, <1>2, <1>3, <1>4, <1>5, <1>6, <1>7, <1>8 DEF Arrive

LEMMA StepUndisturbed ==
    ASSUME \A v, w \in Workers : v = w, IInv, Undisturbed, NEW w \in Workers, Step(w)
    PROVE  Undisturbed'
<1>0. /\ job[w] \in Job /\ StillSo(job[w]) /\ KnowsItsRows(job[w])
      /\ \A v \in Workers \ {w} : FALSE
  BY DEF IInv, Undisturbed, JobsKnowTheirRows
<1>1. CASE Finish(w)
  BY <1>1, Ends
<1>2. CASE CheckOffer(w) /\ ~Finish(w)
  <2>1. PICK J : J = [job[w] EXCEPT !.at = "submit"]
    OBVIOUS
  <2>2. J \in Job /\ StillSo(J)
    BY <1>0, <1>2, <2>1 DEF CheckOffer, StillSo, Job
  <2>3. job' = [job EXCEPT ![w] = J] /\ UNCHANGED tables
    BY <1>2, <2>1 DEF CheckOffer, Continue, IInv
  <2>4. QED BY <2>2, <2>3, Turn
<1>3. CASE Claim(w) /\ ~Finish(w)
  <2>1. PICK J : J = [job[w] EXCEPT !.at = "conflict"]
    OBVIOUS
  <2>2. J \in Job /\ StillSo(J)
    BY <1>0, <1>3, <2>1 DEF Claim, StillSo, Job
  <2>3. job' = [job EXCEPT ![w] = J] /\ UNCHANGED tables
    BY <1>3, <2>1 DEF Claim, Continue, IInv
  <2>4. QED BY <2>2, <2>3, Turn
<1>4. CASE CheckConflict(w) /\ ~Finish(w)
  <2>1. PICK J : J = [job[w] EXCEPT !.at = "siblings",
                                    !.saw = UNION {ClaimedBy(v) : v \in Workers \ {w}}]
    OBVIOUS
  <2>2. {ClaimedBy(v) : v \in Workers \ {w}} = {}
    BY <1>0
  <2>3. J \in Job /\ StillSo(J)
    BY <1>0, <1>4, <2>1, <2>2 DEF CheckConflict, StillSo, Job
  <2>4. job' = [job EXCEPT ![w] = J] /\ UNCHANGED tables
    BY <1>4, <2>1 DEF CheckConflict
  <2>5. QED BY <2>3, <2>4, Turn
<1>5. CASE FindSiblings(w)
  <2>1. PICK J : J = [job[w] EXCEPT !.at = "prune",
                                    !.gone = SiblingSlots(job[w].on, job[w].start)]
    OBVIOUS
  <2>2. SiblingSlots(job[w].on, job[w].start) \subseteq Interviews \X Times
    BY DEF SiblingSlots
  <2>3. J \in Job /\ StillSo(J)
    BY <1>0, <1>5, <2>1, <2>2 DEF FindSiblings, StillSo, Job
  <2>4. job' = [job EXCEPT ![w] = J] /\ UNCHANGED tables
    BY <1>5, <2>1 DEF FindSiblings
  <2>5. QED BY <2>3, <2>4, Turn
<1>6. CASE Prune(w)
  <2>1. PICK doomed : doomed = {k \in {p[1] : p \in job[w].gone} :
                                   \A t \in SlotsLeft(k, job[w].gone) : t <= now}
    OBVIOUS
  <2>2. PICK J : J = [job[w] EXCEPT !.at = "commit", !.doomed = doomed]
    OBVIOUS
  <2>3. doomed \subseteq Interviews
    BY <1>0, <2>1 DEF Job
  <2>4. J \in Job /\ StillSo(J)
    BY <1>0, <1>6, <2>1, <2>2, <2>3 DEF Prune, StillSo, Job
  <2>5. job' = [job EXCEPT ![w] = J] /\ UNCHANGED tables
    BY <1>6, <2>1, <2>2 DEF Prune
  <2>6. QED BY <2>4, <2>5, Turn
<1>7. QED
  BY <1>1, <1>2, <1>3, <1>4, <1>5, <1>6 DEF Step, InsertManual, WriteOffer, WriteShare,
       WriteCancel, Commit, WriteExpired

LEMMA AloneUndisturbed ==
    ASSUME \A v, w \in Workers : v = w, IInv, Undisturbed, [Next]_vars
    PROVE  Undisturbed'
<1>1. ASSUME NEW w \in Workers, LockTimeout(w) \/ Fail(w) PROVE Undisturbed'
  BY <1>1, Ends DEF LockTimeout, Fail
<1>2. ASSUME UNCHANGED <<rows, slots, hours, job>>, now' \in Times, now <= now'
      PROVE  Undisturbed'
  <2>1. ASSUME NEW w \in Workers PROVE StillSo(job[w])'
    <3>1. PICK J : J = job[w]
      OBVIOUS
    <3>2. J \in Job /\ StillSo(J)
      BY <2>1, <3>1 DEF IInv, Undisturbed
    <3>3. StillSo(J)'
      BY <1>2, <3>2, TimePasses
    <3>4. QED BY <1>2, <3>1, <3>3
  <2>2. QED BY <2>1 DEF Undisturbed
<1>3. now \in Times /\ now <= now
  BY TimeAssumption DEF IInv, Times
<1>4. CASE Tick
  <2>1. now' \in Times /\ now <= now'
    BY <1>3, <1>4, TimeAssumption DEF Tick, Times
  <2>2. QED BY <1>2, <1>4, <2>1 DEF Tick
<1>5. CASE UNCHANGED vars
  BY <1>2, <1>3, <1>5 DEF vars, tables
<1>6. QED BY <1>1, <1>4, <1>5, ArriveUndisturbed, StepUndisturbed DEF Next

\* The handlers whose only statement that changes the tables is a plain write.
LEMMA WritesImplement ==
    ASSUME \A v, w \in Workers : v = w, IInv, Undisturbed, NEW w \in Workers,
           \/ InsertManual(w) \/ WriteOffer(w) \/ WriteShare(w) \/ WriteCancel(w)
           \/ WriteExpired(w)
    PROVE  Calendar!Next
<1> DEFINE i == job[w].on
<1>0. /\ job[w] \in Job /\ StillSo(job[w]) /\ KnowsItsRows(job[w])
  BY DEF IInv, Undisturbed, JobsKnowTheirRows
<1>1. CASE InsertManual(w)
  <2>1. i \in Interviews /\ job[w].offer \in Proposals
    BY <1>0, <1>1 DEF InsertManual, KnowsItsRows, StillSo
  <2>2. Calendar!CreateManual(i, job[w].offer)
    BY <1>0, <1>1, SameQueries DEF InsertManual, StillSo, Calendar!CreateManual
  <2>3. QED BY <2>1, <2>2 DEF Calendar!Next
<1>2. CASE WriteOffer(w)
  <2>1. i \in Interviews /\ job[w].offer \in Proposals
    BY <1>0, <1>2 DEF WriteOffer, KnowsItsRows, StillSo
  <2>2. Calendar!SubmitAvailability(i, job[w].offer)
    BY <1>0, <1>2, SameQueries DEF WriteOffer, StillSo, Calendar!SubmitAvailability
  <2>3. QED BY <2>1, <2>2 DEF Calendar!Next
<1>3. CASE WriteShare(w)
  <2>1. i \in Interviews
    BY <1>0, <1>3 DEF WriteShare, KnowsItsRows
  <2>2. Calendar!ShareLiveAvailability(i)
    BY <1>0, <1>3 DEF WriteShare, StillSo, Calendar!ShareLiveAvailability
  <2>3. QED BY <2>1, <2>2 DEF Calendar!Next
<1>4. CASE WriteCancel(w)
  <2>1. i \in Interviews
    BY <1>0, <1>4 DEF WriteCancel, KnowsItsRows
  <2>2. Calendar!Cancel(i)
    BY <1>0, <1>4 DEF WriteCancel, StillSo, Calendar!Cancel
  <2>3. QED BY <2>1, <2>2 DEF Calendar!Next
<1>5. CASE WriteExpired(w)
  <2>1. job[w].doomed \in SUBSET Interviews
    BY <1>0 DEF Job
  <2>2. Calendar!ExpireStale(job[w].doomed)
    BY <1>0, <1>5, SameQueries DEF WriteExpired, StillSo, Calendar!ExpireStale
  <2>3. QED BY <2>1, <2>2 DEF Calendar!Next, Calendar!Maintenance
<1>6. QED BY <1>1, <1>2, <1>3, <1>4, <1>5

\* COMMIT is where a booking takes effect.
LEMMA CommitImplements ==
    ASSUME IInv, Undisturbed, NEW w \in Workers, Commit(w)
    PROVE  Calendar!Next
<1> DEFINE i == job[w].on
           t == job[w].start
           E == job[w].doomed
<1>1. /\ job[w] \in Job /\ StillSo(job[w]) /\ job[w].at = "commit"
      /\ i \in Interviews /\ t \in Times /\ E \in SUBSET Interviews
  BY DEF IInv, Undisturbed, JobsKnowTheirRows, KnowsItsRows, Commit, Job
<1>2. job[w].gone = SiblingSlots(i, t)
  BY <1>1 DEF StillSo
<1>3. SlotsLeft(i, job[w].gone) = slots[i]
  BY <1>1, <1>2 DEF SlotsLeft, SiblingSlots, IInv
<1>4. offerMode[i] \in {"FIXED", "LIVE"}
  BY <1>1 DEF IInv
<1>5. Calendar!Bookable(i, t) /\ status[i] = "AWAITING_CANDIDATE" /\ ~Calendar!Clashes(i, {t})
  BY <1>1, <1>4, SameQueries DEF StillSo, Calendar!Bookable
<1>6. Calendar!ExpiresSiblings(i, t, E)
  BY <1>1, <1>2, SameQueries DEF StillSo, Calendar!ExpiresSiblings
<1>7. slots' = Calendar!SlotsBooked(i, t)
  <2>1. IF job[w].live THEN slots[i] \cup {t} = slots[i] \cup {t} ELSE slots[i] = slots[i] \cup {t}
    BY <1>1, <1>4 DEF StillSo
  <2>2. slots' = [j \in Interviews |-> IF j = i THEN slots[i] \cup {t}
                                      ELSE SlotsLeft(j, SiblingSlots(i, t))]
    BY <1>1, <1>2, <1>3, <2>1 DEF Commit
  <2>3. QED BY <2>2, SameQueries DEF Calendar!SlotsBooked
<1>8. Calendar!Book(i, t, E)
  BY <1>5, <1>6, <1>7 DEF Calendar!Book, Commit
<1>9. QED BY <1>1, <1>8, SameQueries DEF Calendar!Next

LEMMA StepImplements ==
    ASSUME \A v, w \in Workers : v = w, IInv, Undisturbed, [Next]_vars
    PROVE  [Calendar!Next]_(Calendar!vars)
<1>1. UNCHANGED tables => UNCHANGED Calendar!vars
  BY DEF tables, rows, Calendar!vars, Calendar!tables, Calendar!rows
<1>2. ASSUME NEW w \in Workers, Step(w) PROVE Calendar!Next \/ UNCHANGED tables
  BY <1>2, WritesImplement, CommitImplements
     DEF Step, CheckOffer, Claim, CheckConflict, FindSiblings, Prune
<1>3. ASSUME NEW w \in Workers, NEW i \in Interviews, CreateRequest(w, i) PROVE Calendar!Next
  BY <1>3 DEF CreateRequest, Calendar!Next, Calendar!CreateRequest
<1>4. ASSUME NEW w \in Workers, NEW u \in Users, NEW H \in HourChoices, SetHours(w, u, H)
      PROVE  Calendar!Next
  BY <1>4 DEF SetHours, rows, Calendar!Next, Calendar!SetHours, Calendar!rows
<1>5. ASSUME NEW w \in Workers, Arrive(w) PROVE Calendar!Next \/ UNCHANGED tables
  BY <1>3, <1>4, <1>5
     DEF Arrive, CreateManual, SubmitAvailability, ShareLiveAvailability, Cancel, Book, FindStale
<1>6. CASE Tick
  BY <1>6 DEF Tick, rows, Calendar!Next, Calendar!Tick, Calendar!rows
<1>7. ASSUME NEW w \in Workers, LockTimeout(w) \/ Fail(w) PROVE UNCHANGED tables
  BY <1>7 DEF LockTimeout, Fail
<1>8. QED BY <1>1, <1>2, <1>5, <1>6, <1>7 DEF Next, vars

\* With one handler in flight at a time (one worker), every behaviour of the
\* statement-level service is a behaviour of the calendar, in which each handler of
\* InterviewsService takes effect in one step: handlers that fail half way change
\* nothing, the others take effect with their last write.
THEOREM SerialImplementsCalendar ==
    ASSUME \A v, w \in Workers : v = w
    PROVE  Spec => ImplementsCalendar
<1>1. Init => Calendar!Init /\ Undisturbed
  BY IdleIsStillSo DEF Init, TablesInit, Undisturbed, StillSo, Idle, Calendar!Init,
       Calendar!TablesInit, Calendar!NoTime, NoTime, Calendar!NoHours, NoHours
<1>2. IInv /\ Undisturbed /\ [Next]_vars => Undisturbed'
  BY AloneUndisturbed
<1>3. IInv /\ Undisturbed /\ [Next]_vars => [Calendar!Next]_(Calendar!vars)
  BY StepImplements
<1>4. QED BY <1>1, <1>2, <1>3, ServiceInvariant, PTL DEF Spec, ImplementsCalendar, Calendar!Spec
=============================================================================
