------------------------------- MODULE Intake -------------------------------
(***************************************************************************)
(* How candidates come, change and go: uploads (UploadService.processFile, *)
(* one handler per file), and the requests of CandidatesService.  What the *)
(* storage, the extraction and the AI answer is open.                      *)
(***************************************************************************)
EXTENDS Usage

Known(e) == \E x \in Existing : candidates[x].email = e

\* History: another handler has looked the address up and not written it yet.
Racing(w, e) ==
    raced' = IF \E v \in Others(w, {"create", "createOwn", "save"}) : handler[v].who = e
             THEN raced \cup {e} ELSE raced

\* The row of a new candidate; room was left for it when the request was let in.
Insert(w, email, j) ==
    /\ born' = born + 1
    /\ candidates' = [candidates EXCEPT ![born + 1] =
                         [email |-> email, job |-> j, overall |-> None, of |-> None]]

Creating == {"hint", "parse", "find", "create", "findOwn", "createOwn"}
Room(n) == born + Cardinality({w \in Workers : handler[w].at \in Creating}) + n <= MaxCandidates

-----------------------------------------------------------------------------
(* Uploads *)

\* The files of a request (no more than one batch) are processed at the same time.
Admit(W, j) ==
    /\ W # {} /\ Room(Cardinality(W))
    /\ \A w \in W : handler[w] = Idle
    /\ handler' = [w \in Workers |-> IF w \in W THEN [Idle EXCEPT !.at = "hint", !.j = j]
                                     ELSE handler[w]]
    /\ crowded' = IF Cardinality(W) > 1 \/ \E v \in Workers : handler[v].at \in Counting
                  THEN crowded \cup {period} ELSE crowded
    /\ UNCHANGED <<people, work, billing, raced, processed, uncounted, unscored, mixed,
                   jostled, broken, unlogged>>

\* Mutant: the guard does not compare the usage with the limit.
UploadUnchecked(W, j) == Admit(W, j)

\* The guard asks once per request.
Upload(W, j) == Allowed /\ Admit(W, j)

\* Refused, not stored, no text, or an address in the text that is known: failed.
Hint(w) ==
    /\ handler[w].at = "hint"
    /\ \/ Goto(w, "parse")
       \/ End(w)
    /\ UNCHANGED <<people, work, billing, history>>

\* The parser's answer.  Its failure, or that of counting the call, leaves the name of
\* the file, and no address.
Parse(w) ==
    /\ handler[w].at = "parse"
    /\ \E e \in Emails \cup {None} :
          handler' = [handler EXCEPT ![w].at = IF e = None THEN "create" ELSE "find",
                                     ![w].who = e]
    /\ UNCHANGED <<people, work, billing, history>>

\* Mutant: only the hint is looked up.
FindNothing(w) ==
    /\ handler[w].at = "find"
    /\ Goto(w, "create")
    /\ Racing(w, handler[w].who)
    /\ UNCHANGED <<people, work, billing, processed, uncounted, unscored, mixed, crowded,
                   jostled, broken, unlogged>>

FindUploaded(w) ==
    /\ handler[w].at = "find"
    /\ IF Known(handler[w].who) THEN End(w) ELSE Goto(w, "create")
    /\ Racing(w, handler[w].who)
    /\ UNCHANGED <<people, work, billing, processed, uncounted, unscored, mixed, crowded,
                   jostled, broken, unlogged>>

CreateUploaded(w) ==
    /\ handler[w].at = "create"
    /\ Insert(w, handler[w].who, handler[w].j)
    /\ handler' = [handler EXCEPT ![w].at = "track", ![w].x = born + 1]
    /\ processed' = processed + 1
    /\ UNCHANGED <<scores, mailed, logged, work, billing, raced, uncounted, unscored,
                   mixed, crowded, jostled, broken, unlogged>>

-----------------------------------------------------------------------------
(* Candidates by hand *)

\* The guard of uploads guards this too, although nothing counts it.
CreateCandidate(w, e, j) ==
    /\ Allowed /\ Room(1)
    /\ Begin(w, [Idle EXCEPT !.at = IF e = None THEN "createOwn" ELSE "findOwn",
                             !.who = e, !.j = j])
    /\ UNCHANGED <<people, work, billing, history>>

FindOwn(w) ==
    /\ handler[w].at = "findOwn"
    /\ IF Known(handler[w].who) THEN End(w) ELSE Goto(w, "createOwn")
    /\ Racing(w, handler[w].who)
    /\ UNCHANGED <<people, work, billing, processed, uncounted, unscored, mixed, crowded,
                   jostled, broken, unlogged>>

CreateOwn(w) ==
    /\ handler[w].at = "createOwn"
    /\ Insert(w, handler[w].who, handler[w].j)
    /\ End(w)
    /\ UNCHANGED <<scores, mailed, logged, work, billing, history>>

\* The candidate as read decides whether the address is looked up.  A request that
\* names a job sets it, null among them; one that does not leaves it alone: xs = {}.
UpdateCandidate(w, x, e, xs, j) ==
    /\ Exists(x)
    /\ Begin(w, [Idle EXCEPT !.at = IF e \in {None, candidates[x].email} THEN "save" ELSE "lookup",
                             !.x = x, !.who = e, !.xs = xs, !.j = j])
    /\ UNCHANGED <<people, work, billing, history>>

Lookup(w) ==
    LET h == handler[w] IN
    /\ h.at = "lookup"
    /\ IF \E y \in Existing \ {h.x} : candidates[y].email = h.who THEN End(w)
       ELSE Goto(w, "save")
    /\ Racing(w, h.who)
    /\ UNCHANGED <<people, work, billing, processed, uncounted, unscored, mixed, crowded,
                   jostled, broken, unlogged>>

\* History of an assignment of xs to j, or to none: a score that is old, or about to
\* be, is not renewed; an overall score, or one under way, is of another job.
Old(x, j) == scores[x][j] # None /\ scores[x][j] # jobs[j].version
Assigned(xs, j) ==
    LET moved == {x \in xs : candidates[x].job # j} IN
    /\ unscored' = unscored \cup {<<x, j>> : x \in
                       {y \in moved : /\ j # None
                                      /\ Old(y, j) \/ \E v \in ScoringOf(y) : handler[v].j = j}}
    /\ mixed' = mixed \cup {x \in moved : candidates[x].overall # None \/ ScoringsAhead(x) # {}}

\* An update of a row that went fails.  The overall score is left as it is, also of a
\* candidate who is taken from his job.
SaveCandidate(w) ==
    LET h == handler[w]
        row == candidates[h.x]
    IN
    /\ h.at = "save"
    /\ \/ /\ Exists(h.x)
          /\ candidates' = [candidates EXCEPT
                ![h.x].email = IF h.who = None THEN @ ELSE h.who,
                ![h.x].job = IF h.xs = {} THEN @ ELSE h.j]
          /\ Assigned(h.xs, h.j)
       \/ ~Exists(h.x) /\ UNCHANGED <<candidates, unscored, mixed>>
    /\ End(w)
    /\ UNCHANGED <<born, scores, mailed, logged, work, billing, raced, processed, uncounted,
                   crowded, jostled, broken, unlogged>>

BulkAssignJob(w, xs, j) ==
    /\ xs \subseteq Existing /\ xs # {}
    /\ Begin(w, [Idle EXCEPT !.at = "assign", !.xs = xs, !.j = j])
    /\ UNCHANGED <<people, work, billing, history>>

\* One transaction: without one of the candidates the log of it fails, and all is
\* rolled back.
Assign(w) ==
    LET h == handler[w] IN
    /\ h.at = "assign"
    /\ \/ /\ h.xs \subseteq Existing
          /\ candidates' = [x \in Ids |-> IF x \in h.xs THEN [candidates[x] EXCEPT !.job = h.j]
                                          ELSE candidates[x]]
          /\ Assigned(h.xs, h.j)
       \/ ~(h.xs \subseteq Existing) /\ UNCHANGED <<candidates, unscored, mixed>>
    /\ End(w)
    /\ UNCHANGED <<born, scores, mailed, logged, work, billing, raced, processed, uncounted,
                   crowded, jostled, broken, unlogged>>

\* Mutant: the scores of a deleted candidate stay.
WithoutRow(xs) ==
    /\ candidates' = [x \in Ids |-> IF x \in xs THEN NoCandidate ELSE candidates[x]]
    /\ UNCHANGED scores

\* The scores go with their candidate.
Without(xs) ==
    /\ candidates' = [x \in Ids |-> IF x \in xs THEN NoCandidate ELSE candidates[x]]
    /\ scores' = [x \in Ids |-> IF x \in xs THEN [j \in Jobs |-> None] ELSE scores[x]]

Remove(x) ==
    /\ Exists(x)
    /\ Without({x})
    /\ UNCHANGED <<born, mailed, logged, work, billing, handler, history>>

BulkDelete(xs) ==
    /\ xs \subseteq Existing /\ Cardinality(xs) > 1
    /\ Without(xs)
    /\ UNCHANGED <<born, mailed, logged, work, billing, handler, history>>
=============================================================================
