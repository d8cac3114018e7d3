-------------------------- MODULE RecruitingService --------------------------
(***************************************************************************)
(* Uploads, candidates, jobs, the scoring queue, usage alerts and mail to  *)
(* candidates together, and what must hold of them.                        *)
(***************************************************************************)
EXTENDS Outreach

\* What sequential uploads in the first period leave: their count, and an alert for
\* each threshold passed.
PassedSoFar == {t \in Thresholds : Percent(usage[1]) >= t}
Told(p) == {alerts[p][i] : i \in DOMAIN alerts[p]}

\* Some candidates have come before, scored for their job or not.
Init ==
    /\ born \in 0..MaxCandidates
    /\ jobs \in [Jobs -> {[version |-> 0, open |-> TRUE]}]
    /\ scores \in [Ids -> [Jobs -> {0, None}]]
    /\ candidates \in [Ids -> {NoCandidate} \cup
           {r \in [email : Emails \cup {None}, job : Jobs \cup {None}, overall : {0, None},
                   of : Jobs \cup {None}] :
               r.of = IF r.overall = None THEN None ELSE r.job}]
    /\ \A x \in Ids :
          /\ Exists(x) <=> x <= born
          /\ ~Exists(x) => scores[x] = [j \in Jobs |-> None]
          /\ Exists(x) => candidates[x].overall = IF candidates[x].job = None THEN None
                                                  ELSE scores[x][candidates[x].job]
    /\ \A x, y \in Existing : candidates[x].email = candidates[y].email /\ x # y =>
           candidates[x].email = None
    /\ waiting = [t \in Task |-> 0]
    /\ limit \in Limits /\ period = 1
    /\ usage \in [Periods -> 0..limit - 1]
    /\ \A p \in Periods \ {1} : usage[p] = 0
    /\ tracker = [p \in Periods |-> IF usage[p] = 0 THEN None ELSE PassedSoFar]
    /\ \E soFar \in {<<>>, <<80>>, <<80, 90>>, <<80, 90, 100>>} :
          alerts = [p \in Periods |-> IF p > 1 THEN <<>> ELSE soFar]
    /\ Told(1) = PassedSoFar
    /\ mailed = [x \in Ids |-> 0] /\ logged = [x \in Ids |-> 0]
    /\ handler = [w \in Workers |-> Idle]
    /\ raced = {} /\ processed = usage[1] /\ uncounted = 0 /\ unscored = {} /\ mixed = {}
    /\ crowded = {} /\ jostled = {} /\ broken = {} /\ unlogged = {}

UploadRequests == \E W \in SUBSET Workers, j \in Jobs \cup {None} : Upload(W, j)
CreateRequests(w) == \E e \in Emails \cup {None}, j \in Jobs \cup {None} : CreateCandidate(w, e, j)
UpdateRequests(w) ==
    \E x \in Ids, e \in Emails \cup {None} :
        \/ UpdateCandidate(w, x, e, {}, None)
        \/ \E j \in Jobs \cup {None} : UpdateCandidate(w, x, e, {x}, j)
AssignRequests(w) == \E xs \in SUBSET Ids, j \in Jobs : BulkAssignJob(w, xs, j)
JobRequests(w) == \E j \in Jobs : UpdateJob(w, j)
RescoreRequests(w) == \E x \in Ids, j \in Jobs : RescoreForJob(w, x, j)
MailRequests(w) ==
    \/ \E x \in Ids : SendEmail(w, x)
    \/ \E xs \in SUBSET Ids : BulkSendEmails(w, xs)
Tasks(w) == \E t \in Task : TakeTask(w, t)

Requests(w) ==
    \/ CreateRequests(w) \/ UpdateRequests(w) \/ AssignRequests(w) \/ JobRequests(w)
    \/ RescoreRequests(w) \/ MailRequests(w) \/ Tasks(w)

UploadStep(w) == Hint(w) \/ Parse(w) \/ FindUploaded(w) \/ CreateUploaded(w)
CountStep(w) ==
    \/ Track(w) \/ Record(w) \/ Check(w) \/ Sum(w) \/ FindTracker(w) \/ NewTracker(w)
    \/ Notify(w) \/ Flag(w)
RecordsStep(w) ==
    FindOwn(w) \/ CreateOwn(w) \/ Lookup(w) \/ SaveCandidate(w) \/ Assign(w)
RescoreStep(w) == ChangeJob(w) \/ ListAssigned(w) \/ Enqueue(w) \/ EnqueueOne(w)
ScoreStep(w) ==
    ReadCandidate(w) \/ ReadJob(w) \/ AskAi(w) \/ SaveRow(w) \/ CreateRow(w) \/ SaveOverall(w)
MailStep(w) == Send(w) \/ LogMail(w) \/ ChargeMail(w) \/ LogAction(w)

Continue(w) ==
    \/ UploadStep(w) \/ CountStep(w) \/ RecordsStep(w) \/ RescoreStep(w) \/ ScoreStep(w)
    \/ MailStep(w)
Faults(w) == CountingFails(w) \/ RescoringStops(w) \/ TimeOut(w)

DeleteEvents == (\E x \in Ids : Remove(x)) \/ (\E xs \in SUBSET Ids : BulkDelete(xs))
StatusEvents == \E j \in Jobs, open \in BOOLEAN : SetStatus(j, open)

Next ==
    \/ UploadRequests
    \/ \E w \in Workers : Requests(w) \/ Continue(w) \/ Faults(w)
    \/ DeleteEvents \/ StatusEvents \/ Renew

Spec == Init /\ [][Next]_vars

-----------------------------------------------------------------------------
(* Properties *)

\* Every table and every handler holds what its columns and variables may; nothing is
\* kept of a candidate who went but the counters of his mail.
RecruitingTypeOK ==
    /\ candidates \in [Ids -> Candidate \cup {NoCandidate}]
    /\ born \in 0..MaxCandidates
    /\ scores \in [Ids -> [Jobs -> Versions \cup {None}]]
    /\ \A x \in Ids \ Existing : \A j \in Jobs : scores[x][j] = None
    /\ jobs \in [Jobs -> [version : Versions, open : BOOLEAN]]
    /\ waiting \in [Task -> Nat]
    /\ limit \in Limits /\ period \in Periods
    /\ usage \in [Periods -> Nat]
    /\ tracker \in [Periods -> (SUBSET Thresholds) \cup {None}]
    /\ mailed \in [Ids -> 0..MaxMails] /\ logged \in [Ids -> 0..MaxMails]
    /\ handler \in [Workers -> Handler]

\* Two candidates have one address only if two handlers looked it up at the same time.
DuplicateNeedsOverlap ==
    \A x, y \in Existing :
        x # y /\ candidates[x].email = candidates[y].email /\ candidates[x].email # None
            => candidates[x].email \in raced

\* The CVs counted, over all periods, are those that became candidates, each once: only
\* one about to be counted, or whose count itself failed, is missing.  An upload answered
\* with a failure because a check failed after the count, sent again, a period that ends
\* in between or a deletion counts nothing twice and takes nothing back.
UsageRecords == UNION {{p} \X (1..usage[p]) : p \in Periods}
AboutToCount == {w \in Workers : handler[w].at \in {"track", "record"}}
UploadsCountOnce ==
    Cardinality(UsageRecords) + Cardinality(AboutToCount) + uncounted = processed

\* The renewal of x's score for j is to come: its trigger has yet to find x, or has
\* found him, or a task is waiting, or an attempt has not read the requirements or
\* has read those of now.
Renewing(x, j) ==
    \/ \E t \in Task : waiting[t] > 0 /\ t.x = x /\ t.j = j
    \/ \E w \in Workers :
          LET h == handler[w] IN
          /\ h.j = j
          /\ \/ h.at = "listAssigned"
             \/ h.at = "enqueue" /\ x \in h.xs
             \/ h.at \in Scoring /\ h.x = x
                /\ (h.at \in {"read", "readJob"} \/ h.v = jobs[j].version)

\* The score for a candidate's job is of the job's present requirements or about to be
\* renewed, unless the renewal stopped before its tasks were queued, gave up after
\* three attempts, was overtaken by an attempt that had timed out, or the candidate was
\* assigned with an old score.
ScoresFollowRequirements ==
    \A x \in Existing : \A j \in Jobs :
        candidates[x].job = j /\ Old(x, j) => Renewing(x, j) \/ <<x, j>> \in unscored

\* The overall score of a candidate is the one for the job assigned, as its row has it,
\* unless scorings overlapped, or the assignment changed or was dropped under a score.
OverallScoreIsOfJob ==
    \A x \in Existing \ mixed :
        LET row == candidates[x] IN
        row.overall # None =>
            /\ row.of = row.job
            /\ \/ row.overall = scores[x][row.job]
               \/ \E w \in ScoringOf(x) : handler[w].at = "overall"

\* The CVs of a period exceed the limit only if several were let in together: files of
\* one request, or requests before the others' were counted.
OvershootNeedsCrowd == \A p \in Periods : usage[p] > limit => p \in crowded

\* That the limit is reached has been announced or is about to be, unless the count or
\* a check failed or the period ended under it.
LimitIsAnnounced ==
    \A p \in Periods :
        usage[p] >= limit =>
            \/ 100 \in Told(p)
            \/ p \in broken
            \/ \E w \in Workers : handler[w].at \in Checking /\ handler[w].p = p

\* The alerts of a period are sent once each, the lower before the higher, unless
\* uploads or their checks overlapped or one of them failed.
AlertsRise ==
    \A p \in Periods \ (crowded \cup jostled \cup broken) :
        \A i \in 1..Len(alerts[p]) - 1 : alerts[p][i] < alerts[p][i + 1]

\* For every candidate the mails the provider accepted are those recorded, the one in
\* hand apart, unless recording one failed.
SentMailIsRecorded ==
    \A x \in Existing \ unlogged :
        mailed[x] = logged[x] +
            Cardinality({w \in Workers : handler[w].at = "log" /\ handler[w].x = x})
=============================================================================
