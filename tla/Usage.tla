-------------------------------- MODULE Usage --------------------------------
(***************************************************************************)
(* Counting a processed CV (BillingService.trackUsage) and the alerts that *)
(* follow (NotificationsService.checkAndNotifyUsageLimits), one statement  *)
(* at a time; both run within the handler of an uploaded file.             *)
(***************************************************************************)
EXTENDS Recruiting

\* Math.round of the share of the limit that is used.
Percent(n) == (200 * n + limit) \div (2 * limit)

\* checkLimit, as the guard asks it once per request.
Allowed == usage[period] < limit

\* What uploadBulkCVs does once the CV is counted: it scores for the job of the upload.
Counted(w) ==
    LET h == handler[w] IN
    /\ IF h.j = None THEN End(w)
       ELSE handler' = [handler EXCEPT ![w] = [Idle EXCEPT !.at = "read", !.x = h.x, !.j = h.j]]
    /\ mixed' = IF h.j # None /\ ScoringOf(h.x) # {} THEN mixed \cup {h.x} ELSE mixed

Track(w) ==
    /\ handler[w].at = "track"
    /\ handler' = [handler EXCEPT ![w].at = "record", ![w].p = period]
    /\ UNCHANGED <<people, work, billing, history>>

\* A period that ended meanwhile gets the count, and nobody checks it.
Record(w) ==
    LET p == handler[w].p IN
    /\ handler[w].at = "record"
    /\ usage' = [usage EXCEPT ![p] = @ + 1]
    /\ Goto(w, "check")
    /\ UNCHANGED <<people, work, limit, period, tracker, alerts, history>>

\* Mutant: the check looks at the usage as the guard saw it.
CheckBefore(w) ==
    /\ handler[w].at = "check"
    /\ handler' = [handler EXCEPT ![w].at = "findTracker", ![w].p = period,
                                  ![w].n = usage[period] - 1]
    /\ UNCHANGED <<people, work, billing, history>>

\* The subscription as it is now.
Check(w) ==
    /\ handler[w].at = "check"
    /\ handler' = [handler EXCEPT ![w].at = "sum", ![w].p = period]
    /\ broken' = IF handler[w].p # period THEN broken \cup {handler[w].p} ELSE broken
    /\ UNCHANGED <<people, work, billing, raced, processed, uncounted, unscored, mixed,
                   crowded, jostled, unlogged>>

Sum(w) ==
    LET p == handler[w].p IN
    /\ handler[w].at = "sum"
    /\ handler' = [handler EXCEPT ![w].at = "findTracker", ![w].n = usage[p]]
    /\ jostled' = IF Others(w, Checking) # {} THEN jostled \cup {p} ELSE jostled
    /\ UNCHANGED <<people, work, billing, raced, processed, uncounted, unscored, mixed,
                   crowded, broken, unlogged>>

FindTracker(w) ==
    LET p == handler[w].p IN
    /\ handler[w].at = "findTracker"
    /\ IF tracker[p] = None THEN Goto(w, "newTracker")
       ELSE handler' = [handler EXCEPT ![w].at = "notify", ![w].seen = tracker[p]]
    /\ UNCHANGED <<people, work, billing, history>>

\* Mutant: the call is tried again, counted or not.
TriedAgain(w) ==
    /\ Goto(w, "track")
    /\ broken' = broken \cup {period}
    /\ UNCHANGED uncounted

\* An error of the counter or of a check is an error of the upload, whose candidate is
\* there; an error of a check leaves the count.
CountingThrew(w) ==
    /\ End(w)
    /\ uncounted' = IF handler[w].at \in {"track", "record"} THEN uncounted + 1 ELSE uncounted
    /\ broken' = broken \cup {period, IF handler[w].p = 0 THEN period ELSE handler[w].p}

\* One row per company and period: the second insert fails.
NewTracker(w) ==
    LET p == handler[w].p IN
    /\ handler[w].at = "newTracker"
    /\ \/ /\ tracker[p] = None
          /\ tracker' = [tracker EXCEPT ![p] = {}]
          /\ handler' = [handler EXCEPT ![w].at = "notify", ![w].seen = {}]
          /\ UNCHANGED <<uncounted, broken>>
       \/ tracker[p] # None /\ CountingThrew(w) /\ UNCHANGED tracker
    /\ UNCHANGED <<people, work, limit, period, usage, alerts, raced, processed, unscored, mixed,
                   crowded, jostled, unlogged>>

\* The highest threshold passed whose alert has not been sent, as far as was read.
Due(h) == {t \in Thresholds : Percent(h.n) >= t /\ t \notin h.seen}
Highest(ts) == CHOOSE t \in ts : \A u \in ts : u <= t

Notify(w) ==
    LET h == handler[w] IN
    /\ h.at = "notify"
    /\ \/ /\ Due(h) = {}
          /\ Counted(w)
          /\ UNCHANGED alerts
       \/ /\ Due(h) # {}
          /\ alerts' = [alerts EXCEPT ![h.p] = Append(@, Highest(Due(h)))]
          /\ Goto(w, "flag")
          /\ UNCHANGED mixed
    /\ UNCHANGED <<people, work, limit, period, usage, tracker, raced, processed, uncounted,
                   unscored, crowded, jostled, broken, unlogged>>

\* Mutant: the threshold is not marked.
FlagNothing(w) ==
    /\ handler[w].at = "flag"
    /\ Counted(w)
    /\ UNCHANGED <<people, work, billing, raced, processed, uncounted, unscored, crowded,
                   jostled, broken, unlogged>>

\* The update of one column of the row.
Flag(w) ==
    LET h == handler[w] IN
    /\ h.at = "flag"
    /\ tracker' = [tracker EXCEPT ![h.p] = @ \cup {Highest(Due(h))}]
    /\ Counted(w)
    /\ UNCHANGED <<people, work, limit, period, usage, alerts, raced, processed, uncounted,
                   unscored, crowded, jostled, broken, unlogged>>

\* A statement of the counter or of the check fails.
CountingFails(w) ==
    /\ handler[w].at \in Checking \cup {"track", "record"}
    /\ CountingThrew(w)
    /\ UNCHANGED <<people, work, billing, raced, processed, unscored, mixed, crowded,
                   jostled, unlogged>>

\* The subscription enters its next period, with the uploads let in together before.
Renew ==
    /\ period < MaxPeriods
    /\ period' = period + 1
    /\ crowded' = IF Cardinality({w \in Workers : handler[w].at \in Counting}) > 1
                  THEN crowded \cup {period + 1} ELSE crowded
    /\ UNCHANGED <<people, work, limit, usage, tracker, alerts, handler, raced, processed,
                   uncounted, unscored, mixed, jostled, broken, unlogged>>
=============================================================================
