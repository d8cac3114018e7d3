----------------------------- MODULE MCRecruiting -----------------------------
(***************************************************************************)
(* A small instance of the recruiting service for TLC; as for the accounts, *)
(* the environment draws its requests from one workload chosen at the      *)
(* start.                                                                  *)
(***************************************************************************)
EXTENDS RecruitingService, TLC

CONSTANTS e1, e2, j1, j2, w1, w2

VARIABLE workload

Workloads == {"intake", "edits", "usage", "first", "requirements", "timeouts", "assignments", "scoring", "mail"}

\* How many candidates there are at the start.
BornOf == [intake |-> 0..1, edits |-> {1}, usage |-> {0}, first |-> {0}, requirements |-> {1},
           timeouts |-> {1}, assignments |-> {1}, scoring |-> {0}, mail |-> {2}]
WithJobs == {"requirements", "timeouts", "assignments", "scoring"}

MCInit ==
    /\ Init
    /\ workload \in Workloads
    /\ born \in BornOf[workload]
    /\ workload \in WithJobs => \A x \in Existing : candidates[x].email = None
    /\ workload \notin WithJobs =>
          \A x \in Existing : candidates[x].job = None /\ scores[x] = [j \in Jobs |-> None]
    /\ IF workload = "first" THEN limit = 1 ELSE limit = 20
    /\ usage[1] \in IF workload = "usage" THEN {15, 17, 18} ELSE {0}

MCRequests(w) ==
    \/ workload \in {"intake", "edits"} /\ \E e \in Emails \cup {None} : CreateCandidate(w, e, None)
    \/ workload = "edits" /\ \E x \in Ids, e \in Emails : UpdateCandidate(w, x, e, {}, None)
    \/ workload = "requirements" /\ (JobRequests(w) \/ AssignRequests(w) \/ Tasks(w))
    \/ /\ workload = "assignments"
       /\ \/ \E x \in Ids, j \in Jobs \cup {None} : UpdateCandidate(w, x, None, {x}, j)
          \/ RescoreRequests(w) \/ Tasks(w)
    \/ /\ workload = "timeouts"
       /\ \/ \E x \in Existing : candidates[x].job # None /\ RescoreForJob(w, x, candidates[x].job)
          \/ \E j \in Jobs : AssignedTo(j) # {} /\ UpdateJob(w, j)
          \/ Tasks(w)
    \/ workload = "scoring" /\ (JobRequests(w) \/ AssignRequests(w) \/ Tasks(w))
    \/ workload = "mail" /\ MailRequests(w)

\* In the workload on scores, one upload, for a job.
MCUploads ==
    \/ /\ workload \in {"intake", "usage", "first"}
       /\ \E W \in SUBSET Workers : Upload(W, None)
    \/ /\ workload = "scoring" /\ born = 0
       /\ \A w \in Workers : handler[w] = Idle
       /\ \E w \in Workers, j \in Jobs : Upload({w}, j)

MCFaults(w) ==
    \/ workload \in {"usage", "first"} /\ CountingFails(w)
    \/ workload = "requirements" /\ RescoringStops(w)
    \/ workload \in {"requirements", "timeouts"} /\ TimeOut(w)

MCEvents ==
    \/ workload \in {"edits", "requirements", "mail"} /\ DeleteEvents
    \/ workload = "assignments" /\ StatusEvents
    \/ workload = "first" /\ Renew

MCNext ==
    /\ \/ MCUploads
       \/ \E w \in Workers : MCRequests(w) \/ Continue(w) \/ MCFaults(w)
       \/ MCEvents
    /\ UNCHANGED workload

MCSpec == MCInit /\ [][MCNext]_<<vars, workload>>

MCEmails == {e1, e2}
MCJobs == {j1, j2}
MCWorkers == {w1, w2}
MCLimits == {1, 20}
Swaps(x, y) == {[v \in {x, y} |-> v], [v \in {x, y} |-> IF v = x THEN y ELSE x]}
MCSymmetry == {f @@ g : f \in Swaps(w1, w2), g \in Swaps(j1, j2)}
=============================================================================
