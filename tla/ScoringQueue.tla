----------------------------- MODULE ScoringQueue -----------------------------
(***************************************************************************)
(* Scores: changes of a job's requirements and the renewal they trigger,   *)
(* requests for one score, the scoring queue and its processor, and the    *)
(* scoring at the end of an upload.  Bull runs one attempt at a time, three *)
(* per task; an attempt that exceeds its time is given up by the queue and *)
(* goes on.                                                                *)
(***************************************************************************)
EXTENDS Intake

-----------------------------------------------------------------------------
(* Jobs *)

\* The job is read; its requirements are to change.
UpdateJob(w, j) ==
    /\ jobs[j].version < MaxVersions
    /\ \A v \in Workers : handler[v].at = "changeJob" => handler[v].j # j
    /\ Begin(w, [Idle EXCEPT !.at = "changeJob", !.j = j])
    /\ UNCHANGED <<people, work, billing, history>>

ChangeJob(w) ==
    LET j == handler[w].j IN
    /\ handler[w].at = "changeJob"
    /\ jobs' = [jobs EXCEPT ![j].version = @ + 1]
    /\ Goto(w, "listAssigned")
    /\ UNCHANGED <<people, waiting, billing, history>>

\* Other updates change no requirement; remove closes the job.
SetStatus(j, open) ==
    /\ jobs[j].open # open
    /\ jobs' = [jobs EXCEPT ![j].open = open]
    /\ UNCHANGED <<people, waiting, billing, handler, history>>

AssignedTo(j) == {x \in Existing : candidates[x].job = j}

ListAssigned(w) ==
    LET xs == AssignedTo(handler[w].j) IN
    /\ handler[w].at = "listAssigned"
    /\ IF xs = {} THEN End(w)
       ELSE handler' = [handler EXCEPT ![w].at = "enqueue", ![w].xs = xs]
    /\ UNCHANGED <<people, work, billing, history>>

-----------------------------------------------------------------------------
(* The queue *)

Queued == {t \in Task : waiting[t] > 0}
NewTask(x, j) == [x |-> x, j |-> j, tries |-> 0]

\* A job that is a draft or closed is not scored for.
RescoreForJob(w, x, j) ==
    /\ Exists(x) /\ jobs[j].open /\ Cardinality(Queued) < MaxQueue
    /\ Begin(w, [Idle EXCEPT !.at = "enqueueOne", !.x = x, !.j = j])
    /\ UNCHANGED <<people, work, billing, history>>

\* Or the queue cannot be reached, and the request is answered with the error.
EnqueueOne(w) ==
    LET t == NewTask(handler[w].x, handler[w].j) IN
    /\ handler[w].at = "enqueueOne"
    /\ \/ waiting' = [waiting EXCEPT ![t] = @ + 1]
       \/ UNCHANGED waiting
    /\ End(w)
    /\ UNCHANGED <<people, jobs, billing, history>>

Enqueue(w) ==
    LET h == handler[w] IN
    /\ h.at = "enqueue"
    /\ waiting' = [t \in Task |-> IF t \in {NewTask(x, h.j) : x \in h.xs}
                                  THEN waiting[t] + 1 ELSE waiting[t]]
    /\ End(w)
    /\ UNCHANGED <<people, jobs, billing, history>>

\* The queue cannot be reached, or the process stops: the requirements have changed,
\* and nothing will renew the scores.
RescoringStops(w) ==
    /\ handler[w].at \in Triggering
    /\ unscored' = unscored \cup {<<x, handler[w].j>> : x \in AssignedTo(handler[w].j)}
    /\ End(w)
    /\ UNCHANGED <<people, work, billing, raced, processed, uncounted, mixed, crowded,
                   jostled, broken, unlogged>>

\* History: another scoring of the candidate is under way.
Overlapping(x) == mixed' = IF ScoringOf(x) # {} THEN mixed \cup {x} ELSE mixed

TakeTask(w, t) ==
    /\ waiting[t] > 0
    /\ \A v \in Workers : handler[v].try = 0
    /\ waiting' = [waiting EXCEPT ![t] = @ - 1]
    /\ Begin(w, [Idle EXCEPT !.at = "read", !.x = t.x, !.j = t.j, !.try = t.tries + 1,
                             !.queued = TRUE])
    /\ Overlapping(t.x)
    /\ UNCHANGED <<people, jobs, billing, raced, processed, uncounted, unscored, crowded,
                   jostled, broken, unlogged>>

\* Mutant: the first failure is the last.
RetryNever(h) == UNCHANGED <<waiting, unscored>>

\* What the queue does about an attempt that failed: nothing more after the third.
Retry(h) ==
    IF h.try \in 1..Attempts - 1
    THEN /\ waiting' = [waiting EXCEPT ![[x |-> h.x, j |-> h.j, tries |-> h.try]] = @ + 1]
         /\ UNCHANGED unscored
    ELSE /\ unscored' = IF h.try = Attempts THEN unscored \cup {<<h.x, h.j>>} ELSE unscored
         /\ UNCHANGED waiting

\* The attempt goes on, and another will begin.
TimeOut(w) ==
    /\ handler[w].at \in Scoring /\ handler[w].try # 0
    /\ Retry(handler[w])
    /\ handler' = [handler EXCEPT ![w].try = 0]
    /\ UNCHANGED <<people, jobs, billing, raced, processed, uncounted, mixed, crowded,
                   jostled, broken, unlogged>>

-----------------------------------------------------------------------------
(* One scoring *)

\* An upload catches the error.
ScoringThrew(w) == Retry(handler[w]) /\ End(w)

ReadCandidate(w) ==
    LET h == handler[w] IN
    /\ h.at = "read"
    /\ \/ /\ Exists(h.x)
          /\ handler' = [handler EXCEPT ![w].at = "readJob", ![w].mine = candidates[h.x].job]
          /\ UNCHANGED <<waiting, unscored>>
       \/ ~Exists(h.x) /\ ScoringThrew(w)
    /\ UNCHANGED <<people, jobs, billing, raced, processed, uncounted, mixed, crowded,
                   jostled, broken, unlogged>>

ReadJob(w) ==
    /\ handler[w].at = "readJob"
    /\ handler' = [handler EXCEPT ![w].at = "ask", ![w].v = jobs[handler[w].j].version]
    /\ UNCHANGED <<people, work, billing, history>>

\* The AI's answer or failure; an upload also counts the call.
AskAi(w) ==
    /\ handler[w].at = "ask"
    /\ \/ Goto(w, "row") /\ UNCHANGED <<waiting, unscored>>
       \/ ScoringThrew(w)
    /\ UNCHANGED <<people, jobs, billing, raced, processed, uncounted, mixed, crowded,
                   jostled, broken, unlogged>>

Write(x, j, v) == scores' = [scores EXCEPT ![x][j] = v]

\* Mutant: the processor writes the overall score whatever the candidate's job.
SaveRowAlways(w) ==
    LET h == handler[w] IN
    /\ h.at = "row" /\ h.queued /\ Exists(h.x)
    /\ Write(h.x, h.j, h.v)
    /\ Goto(w, "overall")
    /\ UNCHANGED <<candidates, born, mailed, logged, work, billing, history>>

\* The processor's upsert, and the history of a newer score it replaces.
SaveRow(w) ==
    LET h == handler[w]
        old == scores[h.x][h.j]
    IN
    /\ h.at = "row" /\ h.queued
    /\ \/ /\ Exists(h.x)
          /\ Write(h.x, h.j, h.v)
          /\ IF h.mine = h.j THEN Goto(w, "overall") ELSE End(w)
          /\ unscored' = IF old # None /\ old > h.v THEN unscored \cup {<<h.x, h.j>>}
                         ELSE unscored
          /\ UNCHANGED waiting
       \/ ~Exists(h.x) /\ ScoringThrew(w) /\ UNCHANGED scores
    /\ UNCHANGED <<candidates, born, mailed, logged, jobs, billing, raced, processed, uncounted,
                   mixed, crowded, jostled, broken, unlogged>>

\* The upload inserts, which fails if there is a score already.
CreateRow(w) ==
    LET h == handler[w] IN
    /\ h.at = "row" /\ ~h.queued
    /\ \/ /\ Exists(h.x) /\ scores[h.x][h.j] = None
          /\ Write(h.x, h.j, h.v)
          /\ Goto(w, "overall")
       \/ ~(Exists(h.x) /\ scores[h.x][h.j] = None) /\ End(w) /\ UNCHANGED scores
    /\ UNCHANGED <<candidates, born, mailed, logged, work, billing, history>>

SaveOverall(w) ==
    LET h == handler[w] IN
    /\ h.at = "overall"
    /\ \/ /\ Exists(h.x)
          /\ candidates' = [candidates EXCEPT ![h.x].overall = h.v, ![h.x].of = h.j]
          /\ End(w)
          /\ UNCHANGED <<waiting, unscored>>
       \/ ~Exists(h.x) /\ ScoringThrew(w) /\ UNCHANGED candidates
    /\ UNCHANGED <<born, scores, mailed, logged, jobs, billing, raced, processed, uncounted,
                   mixed, crowded, jostled, broken, unlogged>>
=============================================================================
