------------------------------ MODULE Outreach ------------------------------
(***************************************************************************)
(* Mail to candidates (EmailSendingService): to one, or to several one     *)
(* after the other.  Templates and their rendering are left out; so is the *)
(* usage of mail, which no guard asks for.                                 *)
(***************************************************************************)
EXTENDS ScoringQueue

Addressed(xs) == {x \in xs \cap Existing : candidates[x].email # None}
UnderWay(x) == \E v \in Workers : handler[v].at \in Mailing /\ x \in handler[v].xs
MayMail(x) == mailed[x] < MaxMails /\ ~UnderWay(x)

SendEmail(w, x) ==
    /\ x \in Addressed({x}) /\ MayMail(x)
    /\ Begin(w, [Idle EXCEPT !.at = "send", !.x = x, !.xs = {x}])
    /\ UNCHANGED <<people, work, billing, history>>

\* Candidates without an address are answered as failed; xs: those yet to be done.
BulkSendEmails(w, xs) ==
    /\ Cardinality(xs) > 1 /\ Addressed(xs) # {} /\ \A x \in xs : MayMail(x)
    /\ \E x \in Addressed(xs) :
          Begin(w, [Idle EXCEPT !.at = "send", !.x = x, !.xs = Addressed(xs)])
    /\ UNCHANGED <<people, work, billing, history>>

\* The next candidate of the batch, as read at its start.
NextMail(w) ==
    LET rest == handler[w].xs \ {handler[w].x} IN
    \/ rest = {} /\ End(w)
    \/ \E x \in rest : handler' = [handler EXCEPT ![w].at = "send", ![w].x = x, ![w].xs = rest]

\* Mutant: a mail the provider refused is recorded too.
SendRegardless(w) ==
    /\ handler[w].at = "send"
    /\ \E accepted \in BOOLEAN :
          mailed' = IF accepted THEN [mailed EXCEPT ![handler[w].x] = @ + 1] ELSE mailed
    /\ Goto(w, "log")
    /\ UNCHANGED <<candidates, born, scores, logged, work, billing, history>>

\* The provider accepts it or not.
Send(w) ==
    /\ handler[w].at = "send"
    /\ \/ /\ mailed' = [mailed EXCEPT ![handler[w].x] = @ + 1]
          /\ Goto(w, "log")
       \/ NextMail(w) /\ UNCHANGED mailed
    /\ UNCHANGED <<candidates, born, scores, logged, work, billing, history>>

\* The row of the mail: there is none for a candidate who went, and an error ends the
\* batch.
LogMail(w) ==
    LET x == handler[w].x IN
    /\ handler[w].at = "log"
    /\ \/ /\ Exists(x)
          /\ logged' = [logged EXCEPT ![x] = @ + 1]
          /\ Goto(w, "charge")
          /\ UNCHANGED unlogged
       \/ /\ End(w)
          /\ unlogged' = IF Exists(x) THEN unlogged \cup {x} ELSE unlogged
          /\ UNCHANGED logged
    /\ UNCHANGED <<candidates, born, scores, mailed, work, billing, raced, processed, uncounted,
                   unscored, mixed, crowded, jostled, broken>>

\* trackUsage.
ChargeMail(w) ==
    /\ handler[w].at = "charge"
    /\ Goto(w, "action") \/ End(w)
    /\ UNCHANGED <<people, work, billing, history>>

\* The log of the candidate.
LogAction(w) ==
    /\ handler[w].at = "action"
    /\ IF Exists(handler[w].x) THEN NextMail(w) ELSE End(w)
    /\ UNCHANGED <<people, work, billing, history>>
=============================================================================
