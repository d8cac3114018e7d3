----------------------------- MODULE Recruiting -----------------------------
(***************************************************************************)
(* The tables of one company around its candidates: candidates with their  *)
(* scores, jobs, the scoring queue, the usage of CVs with its alerts, and  *)
(* the mail sent to candidates.                                            *)
(*                                                                         *)
(* A score is the version of the job's requirements it was computed for.   *)
(*                                                                         *)
(* handler[w] is what worker w runs: one uploaded file, a request or an    *)
(* attempt of a queued task, with its next statement and its variables.    *)
(***************************************************************************)
EXTENDS Integers, FiniteSets, Sequences

CONSTANTS
    Emails,           \* addresses of candidates
    Jobs,             \* ids of jobs
    Workers,          \* handlers in flight
    Limits,           \* the cvLimit of a plan
    None,
    MaxCandidates,    \* bound: candidates ever created
    MaxVersions,      \* bound: changes of the requirements of a job
    MaxQueue,         \* bound: scoring tasks waiting when a request comes in
    MaxPeriods,       \* bound: periods of the subscription
    MaxMails          \* bound: mails accepted per candidate

Thresholds == {80, 90, 100}

ASSUME LimitAssumption == Limits \subseteq Nat \ {0}
ASSUME RecruitingBoundAssumption ==
    /\ MaxCandidates \in Nat /\ MaxVersions \in Nat /\ MaxQueue \in Nat
    /\ MaxPeriods \in Nat \ {0} /\ MaxMails \in Nat
ASSUME NoneIsNoName ==
    None \notin Emails \cup Jobs \cup Int /\ \A ts \in SUBSET Thresholds : None # ts
ASSUME FiniteWorkers == IsFiniteSet(Workers)

VARIABLES
    candidates,   \* candidates[x]: the row of candidate x, or NoCandidate
    born,         \* candidates created so far
    scores,       \* scores[x][j]: the score of x for job j, or None
    jobs,         \* jobs[j]: its requirements' version, and whether it is open
    waiting,      \* waiting[t]: copies of task t in the scoring queue
    limit,        \* cvLimit of the company's plan
    period,       \* the current period of its subscription
    usage,        \* usage[p]: CVs counted in period p
    tracker,      \* tracker[p]: thresholds flagged as sent, None: no row
    alerts,       \* alerts[p]: the thresholds notified, in this order
    mailed,       \* mailed[x]: mails to x the provider accepted
    logged,       \* logged[x]: rows of EmailSent for x
    handler,      \* handler[w]
    raced,        \* history: addresses two handlers looked up at once
    processed,    \* history: CVs that have become candidates in an upload
    uncounted,    \* history: those of them that could not be counted
    unscored,     \* history: scores whose renewal stopped, gave up, was overtaken,
                  \* or missed a candidate assigned meanwhile
    mixed,        \* history: candidates with overlapping scorings, or reassigned or
                  \* taken from their job with a score or during a scoring
    crowded,      \* history: periods in which uploads passed the limit together
    jostled,      \* history: periods in which checks of the usage overlapped
    broken,       \* history: periods in which counting or a check failed or was late
    unlogged      \* history: candidates with a mail that could not be recorded

people == <<candidates, born, scores, mailed, logged>>
work == <<jobs, waiting>>
billing == <<limit, period, usage, tracker, alerts>>
history == <<raced, processed, uncounted, unscored, mixed, crowded, jostled, broken, unlogged>>
vars == <<people, work, billing, handler, history>>

Ids == 1..MaxCandidates
Periods == 1..MaxPeriods
Versions == 0..MaxVersions

\* overall and of: overallScore, and the job it was computed for.
Candidate == [email : Emails \cup {None}, job : Jobs \cup {None},
              overall : Versions \cup {None}, of : Jobs \cup {None}]
NoCandidate == [email |-> "none"]
Existing == {x \in Ids : candidates[x] # NoCandidate}
Exists(x) == candidates[x] # NoCandidate

\* tries: attempts that failed.
Attempts == 3
Task == [x : Ids, j : Jobs, tries : 0..Attempts - 1]

-----------------------------------------------------------------------------
(* Handlers *)

Counting == {"hint", "parse", "find", "create", "track", "record"}
Checking == {"check", "sum", "findTracker", "newTracker", "notify", "flag"}
Scoring == {"read", "readJob", "ask", "row", "overall"}
Mailing == {"send", "log", "charge", "action"}
Triggering == {"listAssigned", "enqueue"}
Statements == {"idle", "findOwn", "createOwn", "lookup", "save", "assign", "changeJob",
               "enqueueOne"}
    \cup Counting \cup Checking \cup Scoring \cup Mailing \cup Triggering

\* x: its candidate; who: an address looked up or to be written; j: its job.
\* Of a scoring: try: the attempt of a task, 0 for an upload or an attempt that timed
\* out; queued: it is a task's; mine: the job of the candidate as read; v: the version
\* read.  Of a check: p, n: period and usage as read; seen: the tracker as read.
\* xs: the candidates a request is about; of an update, those whose job it sets.
Handler == [at : Statements, x : Ids \cup {None}, who : Emails \cup {None},
            j : Jobs \cup {None}, try : 0..Attempts, queued : BOOLEAN,
            mine : Jobs \cup {None}, v : Versions, p : Periods \cup {0},
            n : Nat, seen : SUBSET Thresholds, xs : SUBSET Ids]
Idle == [at |-> "idle", x |-> None, who |-> None, j |-> None, try |-> 0, queued |-> FALSE,
         mine |-> None, v |-> 0, p |-> 0, n |-> 0, seen |-> {}, xs |-> {}]

Begin(w, h) == handler[w] = Idle /\ handler' = [handler EXCEPT ![w] = h]
Goto(w, statement) == handler' = [handler EXCEPT ![w].at = statement]
End(w) == handler' = [handler EXCEPT ![w] = Idle]

Others(w, statements) == {v \in Workers \ {w} : handler[v].at \in statements}
\* The scorings of x under way, those at the end of his upload among them.
ToScore == Scoring \cup Checking \cup {"track", "record"}
ScoringsAhead(x) ==
    {v \in Workers : handler[v].at \in ToScore /\ handler[v].x = x /\ handler[v].j # None}
ScoringOf(x) == {v \in Workers : handler[v].at \in Scoring /\ handler[v].x = x}
=============================================================================
