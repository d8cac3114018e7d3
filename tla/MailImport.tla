----------------------------- MODULE MailImport -----------------------------
(***************************************************************************)
(* EmailProcessingService.processNormalizedEmail: what a poll does with    *)
(* one message, one statement at a time, and the maintenance of the import *)
(* rows.  What the AI and the storage answer is open; the usage counters   *)
(* and the scoring of the new candidate are left out, a failure of the     *)
(* counter is not.                                                         *)
(***************************************************************************)
EXTENDS MailPolling

\* The import row of the message in hand.
KeyOf(j) == Key(j.provider, j.box, j.m)
CompanyOf(c) == conn[c].company
Owned(k, company) == \E x \in Linked(k) : x.company = company

Return(w, why) ==
    /\ job' = [job EXCEPT ![w].at = "each", ![w].m = None, ![w].re = FALSE,
                          ![w].cv = FALSE, ![w].who = None]
    /\ IF job[w].box = job[w].c /\ why = "done"
       THEN settled' = settled \cup {<<job[w].c, job[w].m>>} /\ UNCHANGED dropped
       ELSE IF job[w].box = job[w].c
       THEN dropped' = dropped \cup {<<job[w].c, job[w].m>>} /\ UNCHANGED settled
       ELSE UNCHANGED <<settled, dropped>>

\* The message is done with; the loop catches the error and goes on; another company's
\* candidate holds the row.
Done(w) == Return(w, "done")
Threw(w) == Return(w, "threw")
Elsewhere(w) == Return(w, "elsewhere")

Store(w, k, status, body) ==
    imports' = [imports EXCEPT ![k] =
        [status |-> status, conn |-> job[w].c, from |-> job[w].box, body |-> body,
         old |-> IF HasImport(k) THEN imports[k].old ELSE FALSE]]
Mark(k, status, body) ==
    imports' = [imports EXCEPT ![k].status = status, ![k].body = body]

-----------------------------------------------------------------------------
(* The decision *)

\* checkSkipPatterns: bulk mail is skipped whatever it carries, other mail when it carries
\* no CV and none of the words.
MaySkip(kind, cv) == kind = "bulk" \/ ~cv
MustSkip(kind) == kind = "bulk"

\* checkJobApplicationPatterns: only mail with a CV is taken without asking the AI.
MayClassify(cv) == cv

\* prefilterEmail: to skip, before to classify, before to ask the AI.
Verdicts(kind, cv) ==
    {verdict \in {"skip", "auto", "ask"} :
        CASE verdict = "skip" -> MaySkip(kind, cv)
          [] verdict = "auto" -> ~MustSkip(kind) /\ MayClassify(cv)
          [] verdict = "ask" -> ~MustSkip(kind)}

\* Mutant: a row counts as unprocessed whether or not it has a candidate.
LookupBlind(w) ==
    /\ job[w].at = "lookup"
    /\ \E verdict \in Verdicts(mail[job[w].m].kind, job[w].cv) :
          job' = [job EXCEPT ![w].re = HasImport(KeyOf(job[w])),
                             ![w].at = IF verdict = "skip" THEN "skip" ELSE "classify"]
    /\ UNCHANGED <<rows, client, providers, history>>

\* Reads the import row and its candidate, then filters.
Lookup(w) ==
    LET j == job[w]
        k == KeyOf(j)
        kind == mail[j.m].kind
        others == {v \in Workers \ {w} : job[v].at \in Importing /\ KeyOf(job[v]) = k}
    IN
    /\ j.at = "lookup"
    /\ \/ /\ kind = "aside"
          /\ Done(w)
       \/ /\ kind # "aside" /\ Linked(k) # {}
          /\ IF Connected(j.c) /\ ~Owned(k, CompanyOf(j.c)) THEN Elsewhere(w) ELSE Done(w)
       \/ /\ kind = "own" /\ Linked(k) = {}
          /\ Done(w)
       \/ /\ kind \notin {"aside", "own"} /\ Linked(k) = {}
          /\ \E verdict \in Verdicts(kind, j.cv) :
                job' = [job EXCEPT ![w].re = HasImport(k),
                                   ![w].at = CASE verdict = "skip" -> "skip"
                                               [] verdict = "auto" -> "pending"
                                               [] verdict = "ask" -> "classify"]
          /\ UNCHANGED <<settled, dropped>>
    /\ shared' = IF others # {} THEN shared \cup {k} ELSE shared
    /\ UNCHANGED <<rows, client, providers, swapped, uncounted, unheard, suspect>>

\* An update of a row that went, and a second row for the same Message-ID, both throw.
Writable(w) == job[w].re = HasImport(KeyOf(job[w])) /\ Connected(job[w].c)

WriteSkip(w) ==
    /\ job[w].at = "skip"
    /\ \/ /\ Writable(w)
          /\ Store(w, KeyOf(job[w]), "SKIPPED", job[w].re /\ imports[KeyOf(job[w])].body)
          /\ Done(w)
       \/ ~Writable(w) /\ Threw(w) /\ UNCHANGED imports
    /\ UNCHANGED <<conn, candidates, born, client, providers,
                   shared, swapped, uncounted, unheard, suspect>>

\* The AI's answer, or its failure; whether the mail is worth a candidate is decided
\* at "begin".
Classify(w) ==
    /\ job[w].at = "classify"
    /\ \/ Goto(w, "pending") /\ UNCHANGED <<settled, dropped>>
       \/ Threw(w)
    /\ UNCHANGED <<rows, client, providers, shared, swapped, uncounted, unheard, suspect>>

WritePending(w) ==
    /\ job[w].at = "pending"
    /\ \/ /\ Writable(w)
          /\ Store(w, KeyOf(job[w]), "PENDING", TRUE)
          /\ Goto(w, "begin")
          /\ UNCHANGED <<settled, dropped>>
       \/ ~Writable(w) /\ Threw(w) /\ UNCHANGED imports
    /\ UNCHANGED <<conn, candidates, born, client, providers,
                   shared, swapped, uncounted, unheard, suspect>>

\* A confident application to a connection that imports goes on.
BeginImport(w) ==
    LET k == KeyOf(job[w]) IN
    /\ job[w].at = "begin"
    /\ \/ /\ HasImport(k) /\ job[w].auto
          /\ Mark(k, "PROCESSING", TRUE)
          /\ Goto(w, IF job[w].cv THEN "findCv" ELSE "findSender")
          /\ UNCHANGED <<settled, dropped>>
       \/ ~HasImport(k) /\ Threw(w) /\ UNCHANGED imports
    /\ UNCHANGED <<conn, candidates, born, client, providers,
                   shared, swapped, uncounted, unheard, suspect>>

\* Anything else is skipped.
DeclineImport(w) ==
    LET k == KeyOf(job[w]) IN
    /\ job[w].at = "begin" /\ HasImport(k)
    /\ Mark(k, "SKIPPED", FALSE)
    /\ Done(w)
    /\ UNCHANGED <<conn, candidates, born, client, providers,
                   shared, swapped, uncounted, unheard, suspect>>

-----------------------------------------------------------------------------
(* The candidate *)

\* Somebody with this address in the company.
Known(company, who) == \E x \in candidates : x.company = company /\ x.who = who

Found(w, who, duplicate, otherwise) ==
    job' = [job EXCEPT ![w].who = who, ![w].at = IF duplicate THEN "duplicate" ELSE otherwise]

\* processCvAttachment up to its last lookup of a duplicate: it uploads, extracts and
\* parses the CV.  The storage and the extraction may fail; the CV may name an address
\* other than the sender's, which is looked up first.
FindCvDuplicate(w) ==
    LET j == job[w]
        company == CompanyOf(j.c)
    IN
    /\ j.at = "findCv"
    /\ \/ /\ Connected(j.c)
          /\ \E who \in Senders :
                Found(w, who, Known(company, mail[j.m].sender) \/ Known(company, who), "createCv")
       \/ Goto(w, "fail")
    /\ UNCHANGED <<rows, client, providers, history>>

\* createCandidateFromEmail, likewise.
FindSenderDuplicate(w) ==
    LET j == job[w]
        sender == mail[j.m].sender
    IN
    /\ j.at = "findSender"
    /\ \/ /\ Connected(j.c)
          /\ Found(w, sender, Known(CompanyOf(j.c), sender), "createSender")
       \/ ~Connected(j.c) /\ Goto(w, "fail")
    /\ UNCHANGED <<rows, client, providers, history>>

\* emailImportId is unique, and refers to a row.
AddCandidate(w, next) ==
    LET j == job[w]
        k == KeyOf(j)
    IN
    /\ \/ /\ Connected(j.c) /\ HasImport(k) /\ Linked(k) = {} /\ born < MaxCandidates
          /\ born' = born + 1
          /\ candidates' = candidates \cup
                {[id |-> born + 1, company |-> CompanyOf(j.c), who |-> j.who, link |-> k]}
          /\ \E statement \in next : Goto(w, statement)
       \/ /\ ~Connected(j.c) \/ ~HasImport(k) \/ Linked(k) # {}
          /\ Goto(w, "fail")
          /\ UNCHANGED <<born, candidates>>
    /\ UNCHANGED <<conn, imports, client, providers, history>>

\* A candidate with a CV is scored at once if the position names an active job.
CreateCvCandidate(w) == job[w].at = "createCv" /\ AddCandidate(w, {"score", "imported"})
CreateCandidate(w) == job[w].at = "createSender" /\ AddCandidate(w, {"imported"})

\* scoreCandidate: while the AI thinks, the row is still PROCESSING.  The score itself is
\* left out, and a failure is caught.
ScoreCandidate(w) ==
    /\ job[w].at = "score"
    /\ Goto(w, "imported")
    /\ UNCHANGED <<rows, client, providers, history>>

\* The status that ends the import; a row that went fails it.
MarkImported(w) ==
    LET k == KeyOf(job[w]) IN
    /\ job[w].at = "imported"
    /\ \/ HasImport(k) /\ Mark(k, "IMPORTED", FALSE) /\ Goto(w, "count")
       \/ ~HasImport(k) /\ Goto(w, "fail") /\ UNCHANGED imports
    /\ UNCHANGED <<conn, candidates, born, client, providers, history>>

\* trackUsage, still within the try: its failure makes a failure of the import.
CountImport(w) ==
    /\ job[w].at = "count"
    /\ \/ Done(w) /\ UNCHANGED uncounted
       \/ /\ Goto(w, "fail")
          /\ uncounted' = uncounted \cup {KeyOf(job[w])}
          /\ UNCHANGED <<settled, dropped>>
    /\ UNCHANGED <<rows, client, providers, shared, swapped, unheard, suspect>>

MarkDuplicate(w) ==
    LET k == KeyOf(job[w]) IN
    /\ job[w].at = "duplicate"
    /\ \/ /\ HasImport(k)
          /\ Mark(k, "SKIPPED", FALSE)
          /\ Done(w)
       \/ /\ ~HasImport(k)
          /\ Goto(w, "fail")
          /\ UNCHANGED <<imports, settled, dropped>>
    /\ UNCHANGED <<conn, candidates, born, client, providers,
                   shared, swapped, uncounted, unheard, suspect>>

MarkFailed(w) ==
    LET k == KeyOf(job[w]) IN
    /\ job[w].at = "fail"
    /\ IF HasImport(k) THEN Mark(k, "FAILED", FALSE) ELSE UNCHANGED imports
    /\ Threw(w)
    /\ UNCHANGED <<conn, candidates, born, client, providers,
                   shared, swapped, uncounted, unheard, suspect>>

-----------------------------------------------------------------------------
(* Maintenance, users, crashes *)

ImportAges(k) ==
    /\ HasImport(k) /\ ~imports[k].old
    /\ imports' = [imports EXCEPT ![k].old = TRUE]
    /\ UNCHANGED <<conn, candidates, born, job, client, providers, history>>

\* cleanupOldSkippedEmails.
CleanUp ==
    /\ \E k \in Keys : HasImport(k) /\ imports[k].old /\ imports[k].status = "SKIPPED"
    /\ Without({k \in Keys : HasImport(k) /\ imports[k].old /\ imports[k].status = "SKIPPED"})
    /\ UNCHANGED <<conn, born, job, client, providers, history>>

\* purgeLingeringEmailBodies.
Purge ==
    /\ \E k \in Keys : HasImport(k) /\ imports[k].old /\ imports[k].body
    /\ imports' = [k \in Keys |-> IF HasImport(k) /\ imports[k].old
                                  THEN [imports[k] EXCEPT !.body = FALSE] ELSE imports[k]]
    /\ UNCHANGED <<conn, candidates, born, job, client, providers, history>>

\* A recruiter deletes a candidate.
RemoveCandidate(x) ==
    /\ x \in candidates
    /\ candidates' = candidates \ {x}
    /\ UNCHANGED <<conn, imports, born, job, client, providers, history>>

\* The server stops and starts again: nothing is left of what was under way.
Crash ==
    /\ \E w \in Workers : job[w] # Idle
    /\ job' = [w \in Workers |-> Idle]
    /\ client' = None
    /\ unheard' = unheard \cup {job[w].c : w \in {v \in Workers : IsPoll(job[v])}}
    /\ UNCHANGED <<rows, providers, settled, dropped, shared, swapped, uncounted, suspect>>
=============================================================================
