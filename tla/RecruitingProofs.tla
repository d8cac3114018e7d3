-------------------------- MODULE RecruitingProofs --------------------------
(***************************************************************************)
(* Proofs about the recruiting service, for any number of candidates,      *)
(* jobs, handlers and periods: type correctness and every invariant of     *)
(* RecruitingService, each with the inductive invariant it needs.          *)
(***************************************************************************)
EXTENDS RecruitingService, FiniteSetTheorems, TLAPS

-----------------------------------------------------------------------------
(* The inductive invariant *)

TablesOK ==
    /\ candidates \in [Ids -> Candidate \cup {NoCandidate}]
    /\ scores \in [Ids -> [Jobs -> Versions \cup {None}]]
    /\ \A x \in Ids \ Existing : \A j \in Jobs : scores[x][j] = None
    /\ waiting \in [Task -> Nat]
    /\ limit \in Limits /\ period \in Periods
    /\ usage \in [Periods -> Nat]
    /\ tracker \in [Periods -> (SUBSET Thresholds) \cup {None}]
    /\ alerts \in [Periods -> Seq(Thresholds)]

\* What a handler has read by the time its statement needs it.
HandlerOK(h) ==
    /\ h.at \in {"track", "record", "lookup", "save", "enqueueOne"} \cup Checking \cup Scoring
                    \cup Mailing => h.x \in Ids
    /\ h.at \in {"assign", "changeJob", "enqueueOne"} \cup Scoring \cup Triggering => h.j \in Jobs
    /\ h.at \in {"record"} \cup Checking => h.p \in Periods
    /\ h.at = "flag" => Due(h) # {}
    /\ h.at \in {"lookup", "save"} => h.xs \subseteq {h.x}

\* Whoever is about to create a candidate has room for it.
Creators == {w \in Workers : handler[w].at \in Creating}
RoomOK == born \in Nat /\ born + Cardinality(Creators) <= MaxCandidates

\* One handler at a time changes the requirements of a job.
ChangesOK ==
    /\ jobs \in [Jobs -> [version : Versions, open : BOOLEAN]]
    /\ \A w \in Workers : handler[w].at = "changeJob" => jobs[handler[w].j].version < MaxVersions
    /\ \A v, w \in Workers : handler[v].at = "changeJob" /\ handler[w].at = "changeJob"
                                 /\ handler[v].j = handler[w].j => v = w

\* Mail to one candidate is in one handler's hands, which records what was accepted.
Logging(x) == \E w \in Workers : handler[w].at = "log" /\ handler[w].x = x
MailsOK ==
    /\ mailed \in [Ids -> Nat] /\ logged \in [Ids -> Nat]
    /\ \A v, w \in Workers : v # w /\ handler[v].at \in Mailing /\ handler[w].at \in Mailing
           => handler[v].xs \cap handler[w].xs = {}
    /\ \A w \in Workers : handler[w].at \in Mailing =>
           /\ handler[w].x \in handler[w].xs
           /\ \A y \in handler[w].xs :
                 /\ y \in Ids /\ y <= born
                 /\ handler[w].at = "send" \/ y # handler[w].x => mailed[y] < MaxMails
    /\ \A x \in Ids :
           /\ mailed[x] <= MaxMails /\ logged[x] <= mailed[x]
           /\ Logging(x) => logged[x] < mailed[x]
           /\ x > born => mailed[x] = 0 /\ ~Exists(x)
           /\ Exists(x) /\ x \notin unlogged =>
                 mailed[x] = logged[x] + IF Logging(x) THEN 1 ELSE 0

\* A check has the row it is to update.
TrackersOK ==
    \A w \in Workers : handler[w].at \in {"notify", "flag"} => tracker[handler[w].p] # None

Inv ==
    /\ TablesOK
    /\ handler \in [Workers -> Handler]
    /\ \A w \in Workers : HandlerOK(handler[w])
    /\ RoomOK
    /\ ChangesOK
    /\ MailsOK
    /\ TrackersOK

\* Steps that create no candidate and drop no tracker.
Onward ==
    /\ \A x \in Ids : Exists(x)' => Exists(x)
    /\ \A p \in Periods : tracker[p] # None => tracker'[p] # None

LEMMA IdleIsOK == Idle \in Handler /\ HandlerOK(Idle) /\ Idle.at = "idle"
<1>1. Idle.at = "idle"
  BY DEF Idle
<1>2. HandlerOK(Idle)
  BY <1>1 DEF HandlerOK, Counting, Checking, Scoring, Mailing, Triggering
<1>3. "idle" \in Statements /\ 0 \in Versions /\ {} \in SUBSET Thresholds /\ {} \in SUBSET Ids
  BY RecruitingBoundAssumption DEF Statements, Versions
<1>4. Idle \in Handler
  BY <1>3 DEF Idle, Handler, Attempts
<1> QED BY <1>1, <1>2, <1>4

LEMMA FiniteCreators == IsFiniteSet(Creators) /\ Cardinality(Creators) \in Nat
BY FiniteWorkers, FS_Subset, FS_CardinalityType DEF Creators

\* Nobody begins to mail, or goes on with it.
LEMMA MailsCarry ==
    ASSUME Inv, \A v \in Workers : handler'[v].at \in Mailing => handler'[v] = handler[v],
           \A x \in Ids : Logging(x)' <=> Logging(x),
           \A x \in Ids : Exists(x)' => Exists(x),
           UNCHANGED <<born, mailed, logged, unlogged>>
    PROVE  MailsOK'
<1> HIDE DEF Mailing
<1>1. \A v, u \in Workers : v # u /\ handler'[v].at \in Mailing /\ handler'[u].at \in Mailing
         => handler'[v].xs \cap handler'[u].xs = {}
  BY DEF Inv, MailsOK
<1>2. \A v \in Workers : handler'[v].at \in Mailing =>
         /\ handler'[v].x \in handler'[v].xs
         /\ \A y \in handler'[v].xs :
               /\ y \in Ids /\ y <= born'
               /\ handler'[v].at = "send" \/ y # handler'[v].x => mailed'[y] < MaxMails
  BY DEF Inv, MailsOK
<1>3. \A x \in Ids :
         /\ mailed'[x] <= MaxMails /\ logged'[x] <= mailed'[x]
         /\ Logging(x)' => logged'[x] < mailed'[x]
         /\ x > born' => mailed'[x] = 0 /\ ~Exists(x)'
         /\ Exists(x)' /\ x \notin unlogged' =>
               mailed'[x] = logged'[x] + IF Logging(x)' THEN 1 ELSE 0
  BY DEF Inv, MailsOK
<1>4. mailed' \in [Ids -> Nat] /\ logged' \in [Ids -> Nat]
  BY DEF Inv, MailsOK
<1> QED BY <1>1, <1>2, <1>3, <1>4 DEF MailsOK, Ids, Mailing

\* A handler that goes on, and neither creates, nor mails, nor is to change a job.
LEMMA QuietStep ==
    ASSUME Inv, TablesOK', NEW w \in Workers, NEW g \in Handler, HandlerOK(g),
           handler' = [handler EXCEPT ![w] = g],
           g.at \in Creating => handler[w].at \in Creating,
           g.at \notin Mailing, g.at # "changeJob", handler[w].at # "log",
           g.at \in {"notify", "flag"} => tracker'[g.p] # None, Onward,
           UNCHANGED <<born, jobs, limit, mailed, logged, unlogged>>
    PROVE  Inv'
<1>1. handler' \in [Workers -> Handler] /\ \A v \in Workers : handler'[v] = IF v = w THEN g ELSE handler[v]
  BY DEF Inv
<1>2. ASSUME NEW v \in Workers PROVE HandlerOK(handler[v])'
  <2>1. HandlerOK(handler'[v])
    BY <1>1, <1>2 DEF Inv
  <2> QED BY <2>1 DEF HandlerOK, Due, Percent
<1>3. RoomOK'
  <2>1. Creators' \subseteq Creators
    BY <1>1 DEF Creators, Creating
  <2>2. Cardinality(Creators') <= Cardinality(Creators) /\ Cardinality(Creators') \in Nat
    BY <2>1, FiniteCreators, FS_Subset, FS_CardinalityType
  <2> QED BY <2>2, FiniteCreators, RecruitingBoundAssumption DEF Inv, RoomOK
<1>4. ChangesOK'
  BY <1>1 DEF Inv, ChangesOK
<1>5. \A x \in Ids : Logging(x)' <=> Logging(x)
  BY <1>1 DEF Logging, Mailing
<1>6. MailsOK'
  BY <1>1, <1>5, MailsCarry DEF Onward
<1>7. TrackersOK'
  <2>1. ASSUME NEW v \in Workers \ {w}, handler[v].at \in {"notify", "flag"}
        PROVE  tracker'[handler[v].p] # None
    BY <2>1 DEF Inv, TrackersOK, HandlerOK, Checking, Onward
  <2> QED BY <1>1, <2>1 DEF TrackersOK
<1> QED BY <1>1, <1>2, <1>3, <1>4, <1>6, <1>7 DEF Inv

\* Begin, Goto and End, by what becomes of a handler.
LEMMA Handlers ==
    ASSUME Inv, NEW w \in Workers
    PROVE  /\ handler[w] \in Handler /\ HandlerOK(handler[w])
           /\ \A h \in Handler : Begin(w, h) => handler[w].at = "idle"
                                                /\ handler' = [handler EXCEPT ![w] = h]
           /\ End(w) => handler' = [handler EXCEPT ![w] = Idle]
           /\ \A statement \in Statements :
                 LET g == [handler[w] EXCEPT !.at = statement] IN
                 /\ Goto(w, statement) => handler' = [handler EXCEPT ![w] = g]
                 /\ g \in Handler /\ g.at = statement
<1>1. handler[w] \in Handler /\ HandlerOK(handler[w])
  BY DEF Inv
<1>2. \A h \in Handler : Begin(w, h) => handler[w].at = "idle" /\ handler' = [handler EXCEPT ![w] = h]
  BY IdleIsOK DEF Begin
<1>3. End(w) => handler' = [handler EXCEPT ![w] = Idle]
  BY DEF End
<1>4. ASSUME NEW statement \in Statements
      PROVE  LET g == [handler[w] EXCEPT !.at = statement] IN
             /\ Goto(w, statement) => handler' = [handler EXCEPT ![w] = g]
             /\ g \in Handler /\ g.at = statement
  BY <1>1 DEF Goto, Inv, Handler
<1> QED BY <1>1, <1>2, <1>3, <1>4

\* Ending a handler is such a step.
LEMMA EndKeeps ==
    ASSUME Inv, TablesOK', NEW w \in Workers, End(w), handler[w].at # "log",
           Onward,
           UNCHANGED <<born, jobs, limit, mailed, logged, unlogged>>
    PROVE  Inv'
BY IdleIsOK, QuietStep, Handlers DEF Creating, Mailing

LEMMA TablesStay ==
    ASSUME Inv, UNCHANGED <<candidates, scores, waiting, billing>>
    PROVE  TablesOK' /\ Onward
BY DEF Inv, TablesOK, Exists, Existing, billing, Onward

-----------------------------------------------------------------------------
(* Counting and alerts *)

LEMMA HighestIsMember ==
    ASSUME NEW ts \in SUBSET Thresholds, ts # {}
    PROVE  Highest(ts) \in ts /\ \A u \in ts : u <= Highest(ts)
<1>1. ts \subseteq {80, 90, 100}
  BY DEF Thresholds
<1>2. PICK some \in ts : TRUE
  OBVIOUS
<1>3. \E t \in ts : \A u \in ts : u <= t
  <2>1. CASE 100 \in ts
    BY <1>1, <2>1
  <2>2. CASE 100 \notin ts /\ 90 \in ts
    BY <1>1, <2>2
  <2>3. CASE 100 \notin ts /\ 90 \notin ts
    BY <1>1, <1>2, <2>3
  <2> QED BY <2>1, <2>2, <2>3
<1> QED BY <1>3 DEF Highest

\* The end of a count: the upload ends, or goes on to score.
LEMMA CountedKeeps ==
    ASSUME Inv, TablesOK', NEW w \in Workers, handler[w].at \in {"notify", "flag"}, Counted(w),
           Onward,
           UNCHANGED <<born, jobs, limit, mailed, logged, unlogged>>
    PROVE  Inv'
<1> DEFINE h == handler[w]
<1>1. h \in Handler /\ h.x \in Ids
  BY Handlers DEF HandlerOK, Checking
<1>2. CASE h.j = None
  <2>1. End(w) /\ h.at # "log"
    BY <1>2 DEF Counted
  <2> QED BY <2>1, EndKeeps
<1>3. CASE h.j # None
  <2> DEFINE g == [Idle EXCEPT !.at = "read", !.x = h.x, !.j = h.j]
  <2>1. handler' = [handler EXCEPT ![w] = g]
    BY <1>3 DEF Counted
  <2>2. h.j \in Jobs /\ "read" \in Statements
    BY <1>1, <1>3 DEF Handler, Statements, Scoring
  <2>3. g.at = "read" /\ g.x = h.x /\ g.j = h.j
    BY DEF Idle
  <2>4. Idle \in Handler
    BY IdleIsOK
  <2>5. g \in Handler
    <3> HIDE DEF Idle, h
    <3> QED BY <1>1, <2>2, <2>4 DEF Handler
  <2> HIDE DEF g
  <2>6. HandlerOK(g)
    BY <1>1, <2>2, <2>3 DEF HandlerOK, Checking, Scoring, Triggering, Mailing
  <2>7. g.at \notin Creating /\ g.at \notin Mailing /\ g.at # "changeJob"
    BY <2>3 DEF Creating, Mailing
  <2> QED BY <2>1, <2>3, <2>5, <2>6, <2>7, QuietStep
<1> QED BY <1>2, <1>3

LEMMA UsageKeeps ==
    ASSUME Inv, NEW w \in Workers,
           CountStep(w) \/ CountingFails(w)
    PROVE  Inv'
<1> DEFINE h == handler[w]
<1> USE DEF people, work, billing, history
<1>1. h \in Handler /\ HandlerOK(h)
  BY Handlers
\* Statements that change variables of their handler alone.
<1>2. ASSUME NEW g \in Handler, HandlerOK(g), handler' = [handler EXCEPT ![w] = g],
             g.at \in Checking \cup {"record"}, h.at \in Checking \cup {"track", "record"},
             g.at \in {"notify", "flag"} => tracker'[g.p] # None,
             TablesOK', Onward, UNCHANGED <<people, jobs, limit, unlogged>>
      PROVE  Inv'
  BY <1>2, QuietStep DEF Creating, Checking, Mailing
<1>3. Track(w) => Inv'
  <2> SUFFICES ASSUME Track(w) PROVE Inv'
    OBVIOUS
  <2> DEFINE g == [h EXCEPT !.at = "record", !.p = period]
  <2>1. handler' = [handler EXCEPT ![w] = g] /\ h.at = "track" /\ TablesOK' /\ Onward
    BY TablesStay DEF Track
  <2>2. g \in Handler /\ g.at = "record" /\ g.x = h.x /\ g.p = period /\ period \in Periods
    BY <1>1 DEF Handler, Statements, Counting, Inv, TablesOK
  <2>3. HandlerOK(g)
    BY <1>1, <2>1, <2>2 DEF HandlerOK, Checking, Scoring, Triggering, Mailing
  <2> QED BY <1>2, <2>1, <2>2, <2>3 DEF Track
<1>4. Record(w) => Inv'
  <2> SUFFICES ASSUME Record(w) PROVE Inv'
    OBVIOUS
  <2> DEFINE g == [h EXCEPT !.at = "check"]
  <2>1. handler' = [handler EXCEPT ![w] = g] /\ h.at = "record"
    BY DEF Record, Goto
  <2>2. g \in Handler /\ g.at = "check" /\ g.x = h.x /\ g.p = h.p
    BY <1>1 DEF Handler, Statements, Checking
  <2>3. HandlerOK(g)
    BY <1>1, <2>1, <2>2 DEF HandlerOK, Checking, Scoring, Triggering, Mailing
  <2>4. TablesOK' /\ Onward
    BY <1>1, <2>1 DEF Record, Inv, TablesOK, HandlerOK, Existing, Exists, Onward
  <2> QED BY <1>2, <2>1, <2>2, <2>3, <2>4 DEF Record, Checking
<1>5. Check(w) => Inv'
  <2> SUFFICES ASSUME Check(w) PROVE Inv'
    OBVIOUS
  <2> DEFINE g == [h EXCEPT !.at = "sum", !.p = period]
  <2>1. handler' = [handler EXCEPT ![w] = g] /\ h.at = "check" /\ TablesOK' /\ Onward
    BY TablesStay DEF Check
  <2>2. g \in Handler /\ g.at = "sum" /\ g.x = h.x /\ g.p = period /\ period \in Periods
    BY <1>1 DEF Handler, Statements, Checking, Inv, TablesOK
  <2>3. HandlerOK(g)
    BY <1>1, <2>1, <2>2 DEF HandlerOK, Checking, Scoring, Triggering, Mailing
  <2> QED BY <1>2, <2>1, <2>2, <2>3 DEF Check, Checking
<1>6. Sum(w) => Inv'
  <2> SUFFICES ASSUME Sum(w) PROVE Inv'
    OBVIOUS
  <2> DEFINE g == [h EXCEPT !.at = "findTracker", !.n = usage[h.p]]
  <2>1. handler' = [handler EXCEPT ![w] = g] /\ h.at = "sum" /\ TablesOK' /\ Onward
    BY TablesStay DEF Sum
  <2>2. h.p \in Periods /\ usage[h.p] \in Nat
    BY <1>1, <2>1 DEF HandlerOK, Checking, Inv, TablesOK
  <2>3. g \in Handler /\ g.at = "findTracker" /\ g.x = h.x /\ g.p = h.p
    BY <1>1, <2>2 DEF Handler, Statements, Checking
  <2>4. HandlerOK(g)
    BY <1>1, <2>1, <2>3 DEF HandlerOK, Checking, Scoring, Triggering, Mailing
  <2> QED BY <1>2, <2>1, <2>3, <2>4 DEF Sum, Checking
<1>7. FindTracker(w) => Inv'
  <2> SUFFICES ASSUME FindTracker(w) PROVE Inv'
    OBVIOUS
  <2>1. h.at = "findTracker" /\ h.p \in Periods /\ TablesOK' /\ Onward
    BY <1>1, TablesStay DEF FindTracker, HandlerOK, Checking
  <2>2. tracker[h.p] # None => tracker[h.p] \in SUBSET Thresholds
    BY <2>1 DEF Inv, TablesOK
  <2>3. PICK g : /\ handler' = [handler EXCEPT ![w] = g]
                 /\ \/ g = [h EXCEPT !.at = "newTracker"]
                    \/ tracker[h.p] # None /\ g = [h EXCEPT !.at = "notify", !.seen = tracker[h.p]]
    BY ZenonT(40) DEF FindTracker, Goto
  <2>4. /\ g \in Handler /\ g.at \in {"newTracker", "notify"} /\ g.x = h.x /\ g.p = h.p
        /\ g.at = "notify" => tracker'[g.p] # None
    BY <1>1, <2>2, <2>3, ZenonT(40) DEF Handler, Statements, Checking, FindTracker
  <2>5. HandlerOK(g)
    BY <1>1, <2>1, <2>4 DEF HandlerOK, Checking, Scoring, Triggering, Mailing
  <2> QED BY <1>2, <2>1, <2>3, <2>4, <2>5 DEF FindTracker, Checking
<1>8. CountingThrew(w) /\ h.at \in Checking \cup {"track", "record"} /\ TablesOK'
        /\ Onward /\ UNCHANGED <<people, jobs, limit, unlogged>> => Inv'
  BY EndKeeps DEF CountingThrew, Checking
<1>9. NewTracker(w) => Inv'
  <2> SUFFICES ASSUME NewTracker(w) PROVE Inv'
    OBVIOUS
  <2>1. h.at = "newTracker" /\ h.p \in Periods
    BY <1>1 DEF NewTracker, HandlerOK, Checking
  <2>2. TablesOK' /\ Onward
    BY <2>1, NoneIsNoName DEF NewTracker, Inv, TablesOK, Existing, Exists, Onward
  <2>3. CASE CountingThrew(w)
    BY <1>8, <2>1, <2>2, <2>3 DEF NewTracker, Checking
  <2>4. CASE ~CountingThrew(w)
    <3> DEFINE g == [h EXCEPT !.at = "notify", !.seen = {}]
    <3>1. handler' = [handler EXCEPT ![w] = g]
      BY <2>4 DEF NewTracker
    <3>2. /\ g \in Handler /\ g.at = "notify" /\ g.x = h.x /\ g.p = h.p
          /\ tracker'[h.p] # None
      <4>1. tracker'[h.p] = {}
        BY <2>1, <2>4 DEF NewTracker, Inv, TablesOK
      <4> QED BY <1>1, <4>1, NoneIsNoName DEF Handler, Statements, Checking
    <3>3. HandlerOK(g)
      BY <1>1, <2>1, <3>2 DEF HandlerOK, Checking, Scoring, Triggering, Mailing
    <3> QED BY <1>2, <2>1, <2>2, <3>1, <3>2, <3>3 DEF NewTracker, Checking
  <2> QED BY <2>3, <2>4
<1>10. Notify(w) => Inv'
  <2> SUFFICES ASSUME Notify(w) PROVE Inv'
    OBVIOUS
  <2>1. h.at = "notify" /\ h.p \in Periods
    BY <1>1 DEF Notify, HandlerOK, Checking
  <2>2. CASE Due(h) = {}
    <3>1. Counted(w) /\ UNCHANGED <<people, work, billing, unlogged>>
      BY <2>2 DEF Notify
    <3> QED BY <2>1, <3>1, CountedKeeps, TablesStay
  <2>3. CASE Due(h) # {}
    <3> DEFINE g == [h EXCEPT !.at = "flag"]
    <3>1. /\ handler' = [handler EXCEPT ![w] = g]
          /\ alerts' = [alerts EXCEPT ![h.p] = Append(@, Highest(Due(h)))]
      BY <2>3 DEF Notify, Goto
    <3>2. g \in Handler /\ g.at = "flag" /\ g.x = h.x /\ g.p = h.p /\ Due(g) = Due(h)
      BY <1>1 DEF Handler, Statements, Checking, Due
    <3>3. HandlerOK(g)
      BY <1>1, <2>1, <2>3, <3>2 DEF HandlerOK, Checking, Scoring, Triggering, Mailing
    <3>4. Highest(Due(h)) \in Thresholds
      BY <2>3, HighestIsMember DEF Due
    <3>5. alerts' \in [Periods -> Seq(Thresholds)]
      BY <2>1, <3>1, <3>4 DEF Inv, TablesOK
    <3>6. TablesOK' /\ Onward
      BY <3>5 DEF Notify, Inv, TablesOK, Existing, Exists, Onward
    <3>7. tracker'[g.p] # None
      BY <2>1, <3>2 DEF Notify, Inv, TrackersOK
    <3> QED BY <1>2, <2>1, <3>1, <3>2, <3>3, <3>6, <3>7 DEF Notify, Checking
  <2> QED BY <2>2, <2>3
<1>11. Flag(w) => Inv'
  <2> SUFFICES ASSUME Flag(w) PROVE Inv'
    OBVIOUS
  <2>1. h.at = "flag" /\ h.p \in Periods /\ Due(h) # {}
    BY <1>1 DEF Flag, HandlerOK, Checking
  <2>2. Highest(Due(h)) \in Thresholds
    BY <2>1, HighestIsMember DEF Due
  <2>3. tracker[h.p] \in SUBSET Thresholds
    BY <2>1 DEF Inv, TablesOK, TrackersOK
  <2>4. TablesOK'
    BY <2>1, <2>2, <2>3 DEF Flag, Inv, TablesOK, Existing
  <2>5. \A p \in Periods : tracker[p] # None => tracker'[p] # None
    BY <2>1, <2>2, <2>3, NoneIsNoName DEF Flag, Inv, TablesOK
  <2>6. Onward
    BY <2>5 DEF Flag, Exists, Onward
  <2> QED BY <2>1, <2>4, <2>6, CountedKeeps DEF Flag
<1>12. CountingFails(w) => Inv'
  BY <1>8, TablesStay DEF CountingFails
<1> QED BY <1>3, <1>4, <1>5, <1>6, <1>7, <1>9, <1>10, <1>11, <1>12 DEF CountStep

\* Steps of no handler.
LEMMA EventKeeps ==
    ASSUME Inv, TablesOK', ChangesOK', Onward,
           UNCHANGED <<handler, born, limit, mailed, logged, unlogged>>
    PROVE  Inv'
<1>1. RoomOK'
  BY DEF Inv, RoomOK, Creators
<1>2. \A w \in Workers : HandlerOK(handler[w])'
  BY DEF Inv, HandlerOK, Due, Percent
<1>3. MailsOK'
  BY DEF Inv, MailsOK, Logging, Onward
<1>4. TrackersOK'
  BY DEF Inv, TrackersOK, HandlerOK, Checking, Onward
<1> QED BY <1>1, <1>2, <1>3, <1>4 DEF Inv

LEMMA RenewKeeps == Inv /\ Renew => Inv'
<1> SUFFICES ASSUME Inv, Renew PROVE Inv'
  OBVIOUS
<1>1. period + 1 \in Periods
  BY RecruitingBoundAssumption DEF Renew, Inv, TablesOK, Periods
<1>2. TablesOK' /\ Onward
  BY <1>1 DEF Renew, Inv, TablesOK, people, work, Existing, Exists, Onward
<1>3. ChangesOK'
  BY DEF Renew, Inv, ChangesOK, work
<1> QED BY <1>2, <1>3, EventKeeps DEF Renew, people

-----------------------------------------------------------------------------
(* Candidates *)

LEMMA RemovalKeeps ==
    ASSUME Inv, NEW xs \in SUBSET Ids, Without(xs),
           UNCHANGED <<born, mailed, logged, work, billing, handler, history>>
    PROVE  Inv'
<1>1. TablesOK' /\ Onward
  BY DEF Without, Inv, TablesOK, work, billing, Existing, Exists, Onward
<1>2. ChangesOK'
  BY DEF Inv, ChangesOK, work
<1> QED BY <1>1, <1>2, EventKeeps DEF billing, history

LEMMA RoomForOne ==
    ASSUME Inv, NEW w \in Workers, handler[w].at \in Creating
    PROVE  born + 1 \in Ids /\ born + 1 + Cardinality(Creators \ {w}) <= MaxCandidates
<1>1. Cardinality(Creators \ {w}) = Cardinality(Creators) - 1
  BY FiniteCreators, FS_RemoveElement DEF Creators
<1>2. Cardinality(Creators \ {w}) \in Nat
  BY FiniteCreators, FS_RemoveElement, FS_CardinalityType
<1> QED BY <1>1, <1>2, FiniteCreators, RecruitingBoundAssumption DEF Inv, RoomOK, Ids

LEMMA CreateKeeps ==
    ASSUME Inv, NEW w \in Workers, handler[w].at \in {"create", "createOwn"},
           NEW email \in Emails \cup {None}, NEW j \in Jobs \cup {None}, Insert(w, email, j),
           NEW g \in Handler, HandlerOK(g), handler' = [handler EXCEPT ![w] = g],
           g.at \in {"idle", "track"},
           UNCHANGED <<scores, mailed, logged, work, billing, unlogged>>
    PROVE  Inv'
<1> DEFINE new == [email |-> email, job |-> j, overall |-> None, of |-> None]
<1>1. /\ born + 1 \in Ids /\ born + 1 + Cardinality(Creators \ {w}) <= MaxCandidates
      /\ born \in Nat /\ born' = born + 1
  BY RoomForOne DEF Insert, Creating, Inv, RoomOK
<1>2. candidates' = [candidates EXCEPT ![born + 1] = new] /\ new \in Candidate
  BY DEF Insert, Candidate
<1>3. handler' \in [Workers -> Handler] /\ \A v \in Workers : handler'[v] = IF v = w THEN g ELSE handler[v]
  BY DEF Inv
<1>4. \A x \in Ids : x # born + 1 => (Exists(x)' <=> Exists(x))
  BY <1>1, <1>2 DEF Exists, Inv, TablesOK
<1>5. ~Exists(born + 1)
  BY <1>1 DEF Inv, MailsOK
<1>6. TablesOK'
  <2>1. \A x \in Ids \ Existing' : x \in Ids \ Existing
    BY <1>4, <1>5 DEF Existing, Exists
  <2> QED BY <1>1, <1>2, <2>1 DEF Inv, TablesOK, work, billing
<1>7. ASSUME NEW v \in Workers PROVE HandlerOK(handler[v])'
  <2>1. HandlerOK(handler'[v])
    BY <1>3, <1>7 DEF Inv
  <2> QED BY <2>1 DEF HandlerOK, Due, Percent, billing
<1>8. RoomOK'
  <2>1. Creators' = Creators \ {w}
    BY <1>3 DEF Creators, Creating
  <2> QED BY <1>1, <2>1 DEF RoomOK
<1>9. ChangesOK'
  BY <1>3 DEF Inv, ChangesOK, work
<1>10. TrackersOK'
  BY <1>3 DEF Inv, TrackersOK, billing
<1>11. \A x \in Ids : Logging(x)' <=> Logging(x)
  BY <1>3 DEF Logging
<1>12. ~Logging(born + 1)
  BY <1>1 DEF Logging, Inv, MailsOK, Mailing
<1>13. MailsOK'
  <2>1. \A v \in Workers : handler'[v].at \in Mailing => v # w /\ handler'[v] = handler[v]
    BY <1>3 DEF Mailing
  <2> HIDE DEF Mailing
  <2>2. \A v, u \in Workers : v # u /\ handler'[v].at \in Mailing /\ handler'[u].at \in Mailing
           => handler'[v].xs \cap handler'[u].xs = {}
    BY <2>1 DEF Inv, MailsOK
  <2>3. \A v \in Workers : handler'[v].at \in Mailing =>
           /\ handler'[v].x \in handler'[v].xs
           /\ \A y \in handler'[v].xs :
                 /\ y \in Ids /\ y <= born'
                 /\ handler'[v].at = "send" \/ y # handler'[v].x => mailed'[y] < MaxMails
    BY <1>1, <2>1 DEF Inv, MailsOK, Ids
  <2>4. \A x \in Ids :
           /\ mailed'[x] <= MaxMails /\ logged'[x] <= mailed'[x]
           /\ Logging(x)' => logged'[x] < mailed'[x]
           /\ x > born' => mailed'[x] = 0 /\ ~Exists(x)'
    BY <1>1, <1>4, <1>11 DEF Inv, MailsOK, Ids
  <2>5. \A x \in Ids : Exists(x)' /\ x \notin unlogged' =>
                 mailed'[x] = logged'[x] + IF Logging(x)' THEN 1 ELSE 0
    <3>1. mailed[born + 1] = 0 /\ logged[born + 1] = 0
      BY <1>1 DEF Inv, MailsOK
    <3> QED BY <1>1, <1>4, <1>11, <1>12, <3>1 DEF Inv, MailsOK
  <2>6. mailed' \in [Ids -> Nat] /\ logged' \in [Ids -> Nat]
    BY DEF Inv, MailsOK
  <2> QED BY <2>2, <2>3, <2>4, <2>5, <2>6 DEF MailsOK, Ids, Mailing
<1> QED BY <1>3, <1>6, <1>7, <1>8, <1>9, <1>10, <1>13 DEF Inv

\* A request that neither creates nor mails.
LEMMA BeginKeeps ==
    ASSUME Inv, TablesOK', Onward, NEW w \in Workers, NEW g \in Handler, HandlerOK(g), Begin(w, g),
           g.at \notin Creating \cup Mailing \cup {"changeJob", "notify", "flag"},
           UNCHANGED <<born, jobs, limit, mailed, logged, unlogged>>
    PROVE  Inv'
<1>1. handler[w].at = "idle" /\ handler' = [handler EXCEPT ![w] = g]
  BY Handlers
<1> QED BY <1>1, QuietStep

\* The next statement of a handler that neither creates, nor mails, nor checks the usage.
LEMMA GotoKeeps ==
    ASSUME Inv, TablesOK', Onward, NEW w \in Workers, NEW statement \in Statements,
           Goto(w, statement), HandlerOK([handler[w] EXCEPT !.at = statement]),
           statement \in Creating => handler[w].at \in Creating,
           statement \notin Mailing \cup {"changeJob", "notify", "flag"}, handler[w].at # "log",
           UNCHANGED <<born, jobs, limit, mailed, logged, unlogged>>
    PROVE  Inv'
<1> DEFINE g == [handler[w] EXCEPT !.at = statement]
<1>1. handler' = [handler EXCEPT ![w] = g] /\ g \in Handler /\ g.at = statement
  BY Handlers
<1> HIDE DEF g
<1>2. HandlerOK(g)
  BY DEF g
<1> QED BY <1>1, <1>2, QuietStep

LEMMA AdmitKeeps ==
    ASSUME Inv, NEW W \in SUBSET Workers, NEW j \in Jobs \cup {None}, Admit(W, j)
    PROVE  Inv'
<1> DEFINE g == [Idle EXCEPT !.at = "hint", !.j = j]
<1> USE DEF people, work, billing
<1>1. \A w \in W : handler[w].at = "idle"
  BY IdleIsOK DEF Admit
<1>2. g.at = "hint"
  BY DEF Idle
<1>3. g \in Handler /\ HandlerOK(g)
  <2>1. Idle \in Handler /\ "hint" \in Statements
    BY IdleIsOK DEF Statements, Counting
  <2>2. g \in Handler
    <3> HIDE DEF Idle
    <3> QED BY <2>1 DEF Handler
  <2> HIDE DEF g
  <2>3. HandlerOK(g)
    BY <1>2 DEF HandlerOK, Checking, Scoring, Triggering, Mailing
  <2> QED BY <2>2, <2>3
<1>4. \A w \in Workers : handler'[w] = IF w \in W THEN g ELSE handler[w]
  BY DEF Admit
<1>5. handler' \in [Workers -> Handler]
  BY <1>3, <1>4 DEF Admit, Inv
<1> HIDE DEF g
<1>6. TablesOK' /\ Onward
  BY TablesStay DEF Admit
<1>7. ASSUME NEW w \in Workers PROVE HandlerOK(handler[w])'
  <2>1. HandlerOK(handler'[w])
    BY <1>3, <1>4 DEF Inv
  <2> QED BY <2>1 DEF HandlerOK, Due, Percent, Admit
<1>8. RoomOK'
  <2>1. Creators' = Creators \cup W /\ Creators \cap W = {}
    BY <1>1, <1>2, <1>4 DEF Creators, Creating
  <2>2. IsFiniteSet(W) /\ IsFiniteSet(Creators) /\ Cardinality(Creators \cap W) = 0
    BY <2>1, FiniteWorkers, FS_Subset, FS_EmptySet, FiniteCreators
  <2>3. Cardinality(Creators') = Cardinality(Creators) + Cardinality(W)
    <3>1. Cardinality(Creators \cup W) = Cardinality(Creators) + Cardinality(W)
              - Cardinality(Creators \cap W)
      BY <2>2, FS_Union
    <3> QED BY <2>1, <2>2, <3>1, FiniteCreators, FS_CardinalityType
  <2>4. born + Cardinality(Creators) + Cardinality(W) <= MaxCandidates
    BY DEF Admit, Room, Creators
  <2> QED BY <2>2, <2>3, <2>4, FiniteCreators, FS_CardinalityType DEF RoomOK, Inv, Admit
<1>9. ChangesOK'
  BY <1>2, <1>4 DEF Inv, ChangesOK, Admit
<1>10. TrackersOK'
  BY <1>2, <1>4 DEF Inv, TrackersOK, Admit
<1>11. \A x \in Ids : Logging(x)' <=> Logging(x)
  BY <1>1, <1>2, <1>4 DEF Logging
<1>12. MailsOK'
  <2>1. \A v \in Workers : handler'[v].at \in Mailing => handler'[v] = handler[v]
    BY <1>2, <1>4 DEF Mailing
  <2>2. \A x \in Ids : Exists(x)' <=> Exists(x)
    BY DEF Admit, Exists
  <2> QED BY <1>11, <2>1, <2>2, MailsCarry DEF Admit
<1> QED BY <1>5, <1>6, <1>7, <1>8, <1>9, <1>10, <1>12 DEF Inv

\* A handler that begins to create a candidate by hand.
LEMMA CreateCandidateKeeps ==
    ASSUME Inv, NEW w \in Workers, NEW e \in Emails \cup {None}, NEW j \in Jobs \cup {None},
           CreateCandidate(w, e, j)
    PROVE  Inv'
<1> DEFINE at == IF e = None THEN "createOwn" ELSE "findOwn"
           g == [Idle EXCEPT !.at = at, !.who = e, !.j = j]
<1> USE DEF people, work, billing
<1>1. g.at = at /\ at \in {"createOwn", "findOwn"}
  BY DEF Idle
<1>2. g \in Handler
  <2>1. Idle \in Handler /\ at \in Statements
    BY IdleIsOK DEF Statements
  <2> HIDE DEF Idle, at
  <2> QED BY <2>1 DEF Handler
<1>3. Begin(w, g)
  BY DEF CreateCandidate
<1> HIDE DEF g, at
<1>4. HandlerOK(g)
  BY <1>1 DEF HandlerOK, Checking, Scoring, Triggering, Mailing
<1>5. handler[w].at = "idle" /\ handler' = [handler EXCEPT ![w] = g]
  BY <1>2, <1>3, Handlers
<1>6. TablesOK' /\ Onward
  BY TablesStay DEF CreateCandidate
<1>7. \A v \in Workers : handler'[v] = IF v = w THEN g ELSE handler[v]
  BY <1>5 DEF Inv
<1>8. ASSUME NEW v \in Workers PROVE HandlerOK(handler[v])'
  <2>1. HandlerOK(handler'[v])
    BY <1>4, <1>7 DEF Inv
  <2> QED BY <2>1 DEF HandlerOK, Due, Percent, CreateCandidate
<1>9. RoomOK'
  <2>1. Creators' = Creators \cup {w} /\ w \notin Creators
    BY <1>1, <1>5, <1>7 DEF Creators, Creating
  <2>2. Cardinality(Creators') = Cardinality(Creators) + 1
    BY <2>1, FiniteCreators, FS_AddElement
  <2>3. born + Cardinality(Creators) + 1 <= MaxCandidates
    BY DEF CreateCandidate, Room, Creators
  <2> QED BY <2>2, <2>3, FiniteCreators DEF RoomOK, Inv, CreateCandidate
<1>10. ChangesOK' /\ TrackersOK'
  BY <1>1, <1>7 DEF Inv, ChangesOK, TrackersOK, CreateCandidate
<1>11. \A x \in Ids : Logging(x)' <=> Logging(x)
  BY <1>1, <1>5, <1>7 DEF Logging
<1>12. MailsOK'
  <2>1. \A v \in Workers : handler'[v].at \in Mailing => handler'[v] = handler[v]
    BY <1>1, <1>7 DEF Mailing
  <2>2. \A x \in Ids : Exists(x)' <=> Exists(x)
    BY DEF CreateCandidate, Exists
  <2> QED BY <1>11, <2>1, <2>2, MailsCarry DEF CreateCandidate, history
<1> QED BY <1>2, <1>5, <1>6, <1>8, <1>9, <1>10, <1>12 DEF Inv

\* The requests about candidates there are.
LEMMA IntakeRequestsKeep ==
    ASSUME Inv, NEW w \in Workers,
           \/ UpdateRequests(w) \/ AssignRequests(w) \/ RescoreRequests(w)
    PROVE  Inv'
<1> USE DEF people, work, billing, history
<1>1. Idle \in Handler
  BY IdleIsOK
<1>2. ASSUME NEW g \in Handler, HandlerOK(g), Begin(w, g), g.at \in {"save", "lookup", "assign", "enqueueOne"},
             UNCHANGED <<people, work, billing, history>>
      PROVE  Inv'
  BY <1>2, BeginKeeps, TablesStay DEF Creating, Mailing
<1>3. ASSUME NEW x \in Ids, NEW e \in Emails \cup {None}, NEW xs \in SUBSET {x},
             NEW j \in Jobs \cup {None}, UpdateCandidate(w, x, e, xs, j)
      PROVE  Inv'
  <2> DEFINE at == IF e \in {None, candidates[x].email} THEN "save" ELSE "lookup"
             g == [Idle EXCEPT !.at = at, !.x = x, !.who = e, !.xs = xs, !.j = j]
  <2>1. Begin(w, g) /\ UNCHANGED <<people, work, billing, history>>
    BY <1>3 DEF UpdateCandidate
  <2>2. g.at = at /\ at \in {"save", "lookup"} /\ g.x = x /\ g.xs = xs
    BY DEF Idle
  <2> HIDE DEF at
  <2>3. g \in Handler
    <3>1. at \in Statements /\ xs \in SUBSET Ids
      BY <2>2 DEF Statements
    <3> HIDE DEF Idle
    <3> QED BY <1>1, <3>1 DEF Handler
  <2> HIDE DEF g
  <2>4. HandlerOK(g)
    BY <2>2 DEF HandlerOK, Checking, Scoring, Triggering, Mailing
  <2> QED BY <1>2, <2>1, <2>2, <2>3, <2>4
<1>4. ASSUME NEW xs \in SUBSET Ids, NEW j \in Jobs, BulkAssignJob(w, xs, j)
      PROVE  Inv'
  <2> DEFINE g == [Idle EXCEPT !.at = "assign", !.xs = xs, !.j = j]
  <2>1. Begin(w, g) /\ UNCHANGED <<people, work, billing, history>>
    BY <1>4 DEF BulkAssignJob
  <2>2. g.at = "assign" /\ g.j = j
    BY DEF Idle
  <2>3. g \in Handler
    <3>1. "assign" \in Statements
      BY DEF Statements
    <3> HIDE DEF Idle
    <3> QED BY <1>1, <3>1 DEF Handler
  <2> HIDE DEF g
  <2>4. HandlerOK(g)
    BY <2>2 DEF HandlerOK, Checking, Scoring, Triggering, Mailing
  <2> QED BY <1>2, <2>1, <2>2, <2>3, <2>4
<1>5. ASSUME NEW x \in Ids, NEW j \in Jobs, RescoreForJob(w, x, j)
      PROVE  Inv'
  <2> DEFINE g == [Idle EXCEPT !.at = "enqueueOne", !.x = x, !.j = j]
  <2>1. Begin(w, g) /\ UNCHANGED <<people, work, billing, history>>
    BY <1>5 DEF RescoreForJob
  <2>2. g.at = "enqueueOne" /\ g.x = x /\ g.j = j
    BY DEF Idle
  <2>3. g \in Handler
    <3>1. "enqueueOne" \in Statements
      BY DEF Statements
    <3> HIDE DEF Idle
    <3> QED BY <1>1, <3>1 DEF Handler
  <2> HIDE DEF g
  <2>4. HandlerOK(g)
    BY <2>2 DEF HandlerOK, Checking, Scoring, Triggering, Mailing
  <2> QED BY <1>2, <2>1, <2>2, <2>3, <2>4
<1> QED BY <1>3, <1>4, <1>5 DEF UpdateRequests, AssignRequests, RescoreRequests

LEMMA UploadsKeep ==
    ASSUME Inv, NEW w \in Workers, UploadStep(w)
    PROVE  Inv'
<1> DEFINE h == handler[w]
<1> USE DEF people, work, billing, history
<1>1. h \in Handler /\ HandlerOK(h)
  BY Handlers
\* Statements before the insertion.
<1>2. ASSUME NEW g \in Handler, g.at \in {"parse", "find", "create"}, h.at \in {"hint", "parse", "find"},
             handler' = [handler EXCEPT ![w] = g], UNCHANGED <<people, work, billing, unlogged>>
      PROVE  Inv'
  <2>1. HandlerOK(g)
    BY <1>2 DEF HandlerOK, Checking, Scoring, Triggering, Mailing
  <2>2. /\ g.at \notin Mailing /\ g.at \notin {"changeJob", "notify", "flag"} /\ h.at \in Creating
        /\ h.at # "log"
    BY <1>2 DEF Creating, Mailing
  <2> QED BY <1>2, <2>1, <2>2, QuietStep, TablesStay
<1>3. h.at \in {"hint", "parse", "find"} /\ End(w) /\ UNCHANGED <<people, work, billing, unlogged>>
        => Inv'
  BY EndKeeps, TablesStay
<1>4. {"parse", "find", "create", "track"} \subseteq Statements
  BY DEF Statements, Counting
<1>5. ASSUME NEW statement \in {"parse", "find", "create"}, h.at \in {"hint", "parse", "find"},
             Goto(w, statement), UNCHANGED <<people, work, billing, unlogged>>
      PROVE  Inv'
  <2> DEFINE g == [h EXCEPT !.at = statement]
  <2>1. g \in Handler /\ g.at = statement /\ handler' = [handler EXCEPT ![w] = g]
    BY <1>4, <1>5, Handlers
  <2> HIDE DEF g
  <2> QED BY <1>2, <1>5, <2>1
<1>6. Hint(w) => Inv'
  BY <1>3, <1>5 DEF Hint
<1>7. Parse(w) => Inv'
  <2> SUFFICES ASSUME Parse(w) PROVE Inv'
    OBVIOUS
  <2>1. PICK e \in Emails \cup {None} :
           handler' = [handler EXCEPT ![w].at = IF e = None THEN "create" ELSE "find", ![w].who = e]
    BY DEF Parse
  <2> DEFINE at == IF e = None THEN "create" ELSE "find"
             g == [h EXCEPT !.at = at, !.who = e]
  <2>2. handler' = [handler EXCEPT ![w] = g]
    BY <2>1
  <2>3. at \in {"create", "find"}
    OBVIOUS
  <2> HIDE DEF at
  <2>4. g \in Handler /\ g.at = at
    BY <1>1, <1>4, <2>3 DEF Handler
  <2> HIDE DEF g
  <2> QED BY <1>2, <2>2, <2>3, <2>4 DEF Parse
<1>8. FindUploaded(w) => Inv'
  BY <1>3, <1>5 DEF FindUploaded
<1>9. CreateUploaded(w) => Inv'
  <2> SUFFICES ASSUME CreateUploaded(w) PROVE Inv'
    OBVIOUS
  <2> DEFINE g == [h EXCEPT !.at = "track", !.x = born + 1]
  <2>1. h.at = "create" /\ Insert(w, h.who, h.j) /\ handler' = [handler EXCEPT ![w] = g]
    BY DEF CreateUploaded
  <2>2. born + 1 \in Ids
    BY <2>1, RoomForOne DEF Creating
  <2>3. g \in Handler /\ g.at = "track" /\ g.x \in Ids
    BY <1>1, <1>4, <2>2 DEF Handler
  <2> HIDE DEF g
  <2>4. HandlerOK(g)
    BY <2>3 DEF HandlerOK, Checking, Scoring, Triggering, Mailing
  <2>5. h.who \in Emails \cup {None} /\ h.j \in Jobs \cup {None}
    BY <1>1 DEF Handler
  <2> QED BY <2>1, <2>3, <2>4, <2>5, CreateKeeps DEF CreateUploaded
<1> QED BY <1>6, <1>7, <1>8, <1>9 DEF UploadStep

LEMMA RecordsKeep ==
    ASSUME Inv, NEW w \in Workers, RecordsStep(w)
    PROVE  Inv'
<1> DEFINE h == handler[w]
<1> USE DEF people, work, billing, history
<1>1. h \in Handler /\ HandlerOK(h)
  BY Handlers
<1>2. End(w) /\ h.at # "log" /\ UNCHANGED <<people, work, billing, unlogged>> => Inv'
  BY EndKeeps, TablesStay
<1>3. FindOwn(w) => Inv'
  <2>1. h.at = "findOwn" => HandlerOK([h EXCEPT !.at = "createOwn"])
    <3>1. [h EXCEPT !.at = "createOwn"].at = "createOwn"
      BY <1>1 DEF Handler
    <3> QED BY <3>1 DEF HandlerOK, Checking, Scoring, Triggering, Mailing
  <2>2. /\ "createOwn" \in Statements /\ "createOwn" \in Creating /\ "findOwn" \in Creating
        /\ "createOwn" \notin Mailing
    BY DEF Statements, Creating, Mailing
  <2> QED BY <1>2, <2>1, <2>2, GotoKeeps, TablesStay DEF FindOwn
<1>4. CreateOwn(w) => Inv'
  <2> SUFFICES ASSUME CreateOwn(w) PROVE Inv'
    OBVIOUS
  <2>1. h.who \in Emails \cup {None} /\ h.j \in Jobs \cup {None}
    BY <1>1 DEF Handler
  <2> QED BY <2>1, CreateKeeps, IdleIsOK, Handlers DEF CreateOwn
<1>5. Lookup(w) => Inv'
  <2>1. h.at = "lookup" => HandlerOK([h EXCEPT !.at = "save"])
    <3>1. /\ [h EXCEPT !.at = "save"].at = "save" /\ [h EXCEPT !.at = "save"].x = h.x
          /\ [h EXCEPT !.at = "save"].xs = h.xs
      BY <1>1 DEF Handler
    <3> QED BY <1>1, <3>1 DEF HandlerOK, Checking, Scoring, Triggering, Mailing
  <2>2. "save" \in Statements /\ "save" \notin Creating /\ "save" \notin Mailing
    BY DEF Statements, Creating, Mailing
  <2> QED BY <1>2, <2>1, <2>2, GotoKeeps, TablesStay DEF Lookup
\* Updates of rows that are there.
<1>6. ASSUME h.at # "log", End(w), candidates' \in [Ids -> Candidate \cup {NoCandidate}],
             \A x \in Ids : Exists(x)' <=> Exists(x),
             UNCHANGED <<born, scores, mailed, logged, work, billing, unlogged>>
      PROVE  Inv'
  <2>1. Existing' = Existing
    BY <1>6 DEF Exists, Existing
  <2>2. TablesOK' /\ Onward
    BY <1>6, <2>1 DEF Inv, TablesOK, Onward
  <2> QED BY <1>6, <2>2, EndKeeps
<1>7. SaveCandidate(w) => Inv'
  <2> SUFFICES ASSUME SaveCandidate(w) PROVE Inv'
    OBVIOUS
  <2>1. h.at = "save" /\ h.x \in Ids
    BY <1>1 DEF SaveCandidate, HandlerOK
  <2>2. CASE UNCHANGED candidates
    BY <1>6, <2>1, <2>2 DEF SaveCandidate, Exists, Inv, TablesOK
  <2>3. CASE ~UNCHANGED candidates
    <3> DEFINE new == [candidates[h.x] EXCEPT !.email = IF h.who = None THEN @ ELSE h.who,
                                              !.job = IF h.xs = {} THEN @ ELSE h.j]
    <3>1. Exists(h.x) /\ candidates' = [candidates EXCEPT ![h.x] = new]
      BY <2>1, <2>3 DEF SaveCandidate, Inv, TablesOK
    <3>2. candidates[h.x] \in Candidate
      BY <2>1, <3>1 DEF Exists, Inv, TablesOK
    <3>3. new \in Candidate
      BY <1>1, <3>2, ZenonT(40) DEF Candidate, Handler
    <3>4. new # NoCandidate
      <4>1. DOMAIN new # DOMAIN NoCandidate
        BY <3>2 DEF NoCandidate, Candidate
      <4> QED BY <4>1
    <3> HIDE DEF new
    <3>5. candidates' \in [Ids -> Candidate \cup {NoCandidate}]
      BY <3>1, <3>3 DEF Inv, TablesOK
    <3>6. \A x \in Ids : Exists(x)' <=> Exists(x)
      BY <3>1, <3>4 DEF Exists, Inv, TablesOK
    <3> QED BY <1>6, <2>1, <3>5, <3>6 DEF SaveCandidate
  <2> QED BY <2>2, <2>3
<1>8. Assign(w) => Inv'
  <2> SUFFICES ASSUME Assign(w) PROVE Inv'
    OBVIOUS
  <2>1. h.at = "assign" /\ h.xs \in SUBSET Ids /\ h.j \in Jobs
    BY <1>1 DEF Assign, HandlerOK, Handler
  <2>2. CASE UNCHANGED candidates
    BY <1>6, <2>1, <2>2 DEF Assign, Exists, Inv, TablesOK
  <2>3. CASE ~UNCHANGED candidates
    <3>1. /\ h.xs \subseteq Existing
          /\ candidates' = [x \in Ids |-> IF x \in h.xs THEN [candidates[x] EXCEPT !.job = h.j]
                                          ELSE candidates[x]]
      BY <2>3 DEF Assign
    <3>2. ASSUME NEW x \in h.xs
          PROVE  /\ [candidates[x] EXCEPT !.job = h.j] \in Candidate
                 /\ [candidates[x] EXCEPT !.job = h.j] # NoCandidate
      <4>1. candidates[x] \in Candidate
        BY <2>1, <3>1 DEF Existing, Inv, TablesOK
      <4>2. [candidates[x] EXCEPT !.job = h.j] \in Candidate
        BY <2>1, <4>1 DEF Candidate
      <4>3. DOMAIN [candidates[x] EXCEPT !.job = h.j] # DOMAIN NoCandidate
        BY <4>2 DEF NoCandidate, Candidate
      <4> QED BY <4>2, <4>3
    <3>3. candidates' \in [Ids -> Candidate \cup {NoCandidate}]
      BY <3>1, <3>2 DEF Inv, TablesOK
    <3>4. \A x \in Ids : Exists(x)' <=> Exists(x)
      BY <3>1, <3>2 DEF Exists, Existing
    <3> QED BY <1>6, <2>1, <3>3, <3>4 DEF Assign
  <2> QED BY <2>2, <2>3
<1> QED BY <1>3, <1>4, <1>5, <1>7, <1>8 DEF RecordsStep

-----------------------------------------------------------------------------
(* Scores *)

\* A request to change the requirements of a job, and the change.
LEMMA JobRequestsKeep ==
    ASSUME Inv, NEW w \in Workers, NEW j \in Jobs, UpdateJob(w, j)
    PROVE  Inv'
<1> DEFINE g == [Idle EXCEPT !.at = "changeJob", !.j = j]
<1> USE DEF people, work, billing, history
<1>1. g.at = "changeJob" /\ g.j = j
  BY DEF Idle
<1>2. g \in Handler
  <2>1. Idle \in Handler /\ "changeJob" \in Statements
    BY IdleIsOK DEF Statements
  <2> HIDE DEF Idle
  <2> QED BY <2>1 DEF Handler
<1>3. Begin(w, g)
  BY DEF UpdateJob
<1> HIDE DEF g
<1>4. HandlerOK(g)
  BY <1>1 DEF HandlerOK, Checking, Scoring, Triggering, Mailing
<1>5. handler[w].at = "idle" /\ handler' = [handler EXCEPT ![w] = g]
  BY <1>2, <1>3, Handlers
<1>6. TablesOK' /\ Onward
  BY TablesStay DEF UpdateJob
<1>7. \A v \in Workers : handler'[v] = IF v = w THEN g ELSE handler[v]
  BY <1>5 DEF Inv
<1>8. ASSUME NEW v \in Workers PROVE HandlerOK(handler[v])'
  <2>1. HandlerOK(handler'[v])
    BY <1>4, <1>7 DEF Inv
  <2> QED BY <2>1 DEF HandlerOK, Due, Percent, UpdateJob
<1>9. RoomOK'
  <2>1. Creators' = Creators
    BY <1>1, <1>5, <1>7 DEF Creators, Creating
  <2> QED BY <2>1 DEF RoomOK, Inv, UpdateJob
<1>10. ChangesOK'
  BY <1>1, <1>7 DEF Inv, ChangesOK, UpdateJob
<1>11. TrackersOK'
  BY <1>1, <1>7 DEF Inv, TrackersOK, UpdateJob
<1>12. \A x \in Ids : Logging(x)' <=> Logging(x)
  BY <1>1, <1>5, <1>7 DEF Logging
<1>13. MailsOK'
  <2>1. \A v \in Workers : handler'[v].at \in Mailing => handler'[v] = handler[v]
    BY <1>1, <1>7 DEF Mailing
  <2>2. \A x \in Ids : Exists(x)' => Exists(x)
    BY DEF UpdateJob, Exists
  <2> QED BY <1>12, <2>1, <2>2, MailsCarry DEF UpdateJob
<1> QED BY <1>2, <1>5, <1>6, <1>8, <1>9, <1>10, <1>11, <1>13 DEF Inv

LEMMA ChangeJobKeeps ==
    ASSUME Inv, NEW w \in Workers, ChangeJob(w)
    PROVE  Inv'
<1> DEFINE h == handler[w]
           g == [h EXCEPT !.at = "listAssigned"]
<1> USE DEF people, work, billing, history
<1>1. h \in Handler /\ h.at = "changeJob" /\ h.j \in Jobs
  BY Handlers DEF ChangeJob, HandlerOK
<1>2. g \in Handler /\ g.at = "listAssigned" /\ g.j = h.j /\ handler' = [handler EXCEPT ![w] = g]
  BY <1>1 DEF Handler, Statements, Triggering, ChangeJob, Goto
<1> HIDE DEF g
<1>3. HandlerOK(g)
  BY <1>1, <1>2 DEF HandlerOK, Checking, Scoring, Triggering, Mailing
<1>4. \A v \in Workers : handler'[v] = IF v = w THEN g ELSE handler[v]
  BY <1>2 DEF Inv
<1>5. ASSUME NEW v \in Workers PROVE HandlerOK(handler[v])'
  <2>1. HandlerOK(handler'[v])
    BY <1>3, <1>4 DEF Inv
  <2> QED BY <2>1 DEF HandlerOK, Due, Percent, ChangeJob
<1>6. TablesOK' /\ Onward
  BY TablesStay DEF ChangeJob
<1>7. RoomOK'
  <2>1. Creators' = Creators
    BY <1>1, <1>2, <1>4 DEF Creators, Creating
  <2> QED BY <2>1 DEF RoomOK, Inv, ChangeJob
<1>8. ChangesOK'
  <2>1. jobs[h.j].version < MaxVersions /\ jobs[h.j] \in [version : Versions, open : BOOLEAN]
    BY <1>1 DEF Inv, ChangesOK
  <2>2. jobs' \in [Jobs -> [version : Versions, open : BOOLEAN]]
    BY <1>1, <2>1, RecruitingBoundAssumption DEF ChangeJob, Inv, ChangesOK, Versions
  <2>3. \A v \in Workers : handler'[v].at = "changeJob" =>
           v # w /\ handler'[v] = handler[v] /\ handler[v].j # h.j /\ handler[v].j \in Jobs
    BY <1>1, <1>2, <1>4 DEF Inv, ChangesOK, HandlerOK
  <2>4. \A k \in Jobs : k # h.j => jobs'[k] = jobs[k]
    BY DEF ChangeJob, Inv, ChangesOK
  <2> QED BY <2>2, <2>3, <2>4 DEF Inv, ChangesOK
<1>9. TrackersOK'
  BY <1>2, <1>4 DEF Inv, TrackersOK, ChangeJob
<1>10. \A x \in Ids : Logging(x)' <=> Logging(x)
  BY <1>1, <1>2, <1>4 DEF Logging
<1>11. MailsOK'
  <2>1. \A v \in Workers : handler'[v].at \in Mailing => handler'[v] = handler[v]
    BY <1>2, <1>4 DEF Mailing
  <2>2. \A x \in Ids : Exists(x)' => Exists(x)
    BY DEF ChangeJob, Exists
  <2> QED BY <1>10, <2>1, <2>2, MailsCarry DEF ChangeJob
<1> QED BY <1>2, <1>5, <1>6, <1>7, <1>8, <1>9, <1>11 DEF Inv

LEMMA SetStatusKeeps ==
    ASSUME Inv, NEW j \in Jobs, NEW open \in BOOLEAN, SetStatus(j, open)
    PROVE  Inv'
<1>1. TablesOK' /\ Onward
  BY TablesStay DEF SetStatus, people
<1>2. ChangesOK'
  BY DEF SetStatus, Inv, ChangesOK
<1> QED BY <1>1, <1>2, EventKeeps DEF SetStatus, people, billing, history

LEMMA RescoresKeep ==
    ASSUME Inv, NEW w \in Workers,
           RescoreStep(w) \/ RescoringStops(w)
    PROVE  Inv'
<1> DEFINE h == handler[w]
<1> USE DEF people, work, billing, history
<1>1. h \in Handler /\ HandlerOK(h)
  BY Handlers
<1>2. ASSUME h.at \in {"listAssigned", "enqueue", "enqueueOne"}, End(w), waiting' \in [Task -> Nat],
             UNCHANGED <<people, jobs, billing, unlogged>>
      PROVE  Inv'
  <2>1. TablesOK' /\ Onward
    BY <1>2 DEF Inv, TablesOK, Existing, Exists, Onward
  <2> QED BY <1>2, <2>1, EndKeeps
<1>3. waiting \in [Task -> Nat]
  BY DEF Inv, TablesOK
<1>4. ListAssigned(w) => Inv'
  <2> SUFFICES ASSUME ListAssigned(w) PROVE Inv'
    OBVIOUS
  <2> DEFINE xs == AssignedTo(h.j)
             g == [h EXCEPT !.at = "enqueue", !.xs = xs]
  <2>1. h.at = "listAssigned" /\ xs \in SUBSET Ids
    BY DEF ListAssigned, AssignedTo, Existing
  <2>2. End(w) \/ handler' = [handler EXCEPT ![w] = g]
    BY DEF ListAssigned
  <2> HIDE DEF xs
  <2>3. g \in Handler /\ g.at = "enqueue" /\ g.j = h.j
    BY <1>1, <2>1 DEF Handler, Statements, Triggering
  <2> HIDE DEF g
  <2>4. HandlerOK(g)
    BY <1>1, <2>1, <2>3 DEF HandlerOK, Checking, Scoring, Triggering, Mailing
  <2>5. g.at \notin Creating /\ g.at \notin Mailing
    BY <2>3 DEF Creating, Mailing
  <2>6. CASE End(w)
    BY <1>2, <1>3, <2>1, <2>6 DEF ListAssigned
  <2> QED BY <2>1, <2>2, <2>3, <2>4, <2>5, <2>6, QuietStep, TablesStay DEF ListAssigned
<1>5. Enqueue(w) => Inv'
  BY <1>2, <1>3 DEF Enqueue
<1>6. EnqueueOne(w) => Inv'
  <2> SUFFICES ASSUME EnqueueOne(w) PROVE Inv'
    OBVIOUS
  <2>1. waiting' \in [Task -> Nat]
    BY <1>3 DEF EnqueueOne
  <2> QED BY <1>2, <2>1 DEF EnqueueOne
<1>7. RescoringStops(w) => Inv'
  BY <1>2, <1>3 DEF RescoringStops, Triggering
<1> QED BY <1>4, <1>5, <1>6, <1>7, ChangeJobKeeps DEF RescoreStep

LEMMA TasksKeep ==
    ASSUME Inv, NEW w \in Workers, NEW t \in Task, TakeTask(w, t)
    PROVE  Inv'
<1> DEFINE g == [Idle EXCEPT !.at = "read", !.x = t.x, !.j = t.j, !.try = t.tries + 1,
                             !.queued = TRUE]
<1> USE DEF people, work, billing, history
<1>1. t.x \in Ids /\ t.j \in Jobs /\ t.tries + 1 \in 0..Attempts /\ "read" \in Statements
  BY DEF Task, Attempts, Statements, Scoring
<1>2. g.at = "read" /\ g.x = t.x /\ g.j = t.j
  BY DEF Idle
<1>3. Begin(w, g)
  BY DEF TakeTask
<1>4. g \in Handler
  <2>1. Idle \in Handler
    BY IdleIsOK
  <2> HIDE DEF Idle
  <2> QED BY <1>1, <2>1 DEF Handler
<1> HIDE DEF g
<1>5. HandlerOK(g)
  BY <1>1, <1>2 DEF HandlerOK, Checking, Scoring, Triggering, Mailing
<1>6. waiting' \in [Task -> Nat]
  BY DEF TakeTask, Inv, TablesOK
<1>7. TablesOK' /\ Onward
  BY <1>6 DEF TakeTask, Inv, TablesOK, Existing, Exists, Onward
<1>8. g.at \notin Creating \cup Mailing \cup {"changeJob", "notify", "flag"}
  BY <1>2 DEF Creating, Mailing
<1> QED BY <1>3, <1>4, <1>5, <1>7, <1>8, BeginKeeps DEF TakeTask

LEMMA RetryIsTyped ==
    ASSUME Inv, NEW h \in Handler, h.x \in Ids, h.j \in Jobs, Retry(h)
    PROVE  waiting' \in [Task -> Nat]
<1>1. waiting \in [Task -> Nat]
  BY DEF Inv, TablesOK
<1>2. CASE h.try \in 1..Attempts - 1
  <2> DEFINE t == [x |-> h.x, j |-> h.j, tries |-> h.try]
  <2>1. t \in Task
    BY <1>2 DEF Task, Attempts
  <2>2. waiting' = [waiting EXCEPT ![t] = @ + 1]
    BY <1>2 DEF Retry
  <2> HIDE DEF t
  <2> QED BY <1>1, <2>1, <2>2
<1>3. CASE ~(h.try \in 1..Attempts - 1)
  BY <1>1, <1>3 DEF Retry
<1> QED BY <1>2, <1>3

LEMMA ScoresKeep ==
    ASSUME Inv, NEW w \in Workers, ScoreStep(w) \/ TimeOut(w)
    PROVE  Inv'
<1> DEFINE h == handler[w]
<1> USE DEF people, work, billing, history
<1>1. /\ h \in Handler /\ HandlerOK(h) /\ h.at \in Scoring /\ h.x \in Ids /\ h.j \in Jobs
  BY Handlers DEF HandlerOK, ScoreStep, ReadCandidate, ReadJob, AskAi, SaveRow, CreateRow,
                  SaveOverall, TimeOut, Scoring
<1>2. h.at # "log" /\ h.v \in Versions
  BY <1>1 DEF Scoring, Handler
\* A handler that goes on scoring, or ends, whatever it wrote.
<1>3. ASSUME NEW g \in Handler, g.at \in Scoring \cup {"idle"}, g.at \in Scoring => g.x = h.x /\ g.j = h.j,
             handler' = [handler EXCEPT ![w] = g],
             waiting' \in [Task -> Nat], scores' \in [Ids -> [Jobs -> Versions \cup {None}]],
             candidates' \in [Ids -> Candidate \cup {NoCandidate}],
             \A x \in Ids : Exists(x)' <=> Exists(x),
             \A x \in Ids \ Existing : \A j \in Jobs : scores'[x][j] = None,
             UNCHANGED <<born, mailed, logged, jobs, billing, unlogged>>
      PROVE  Inv'
  <2>1. HandlerOK(g)
    BY <1>1, <1>3 DEF HandlerOK, Checking, Scoring, Triggering, Mailing
  <2>2. g.at \notin Creating /\ g.at \notin Mailing /\ g.at \notin {"changeJob", "notify", "flag"}
    BY <1>3 DEF Creating, Mailing, Scoring
  <2>3. Existing' = Existing
    BY <1>3 DEF Exists, Existing
  <2>4. TablesOK' /\ Onward
    BY <1>3, <2>3 DEF Inv, TablesOK, Onward
  <2> QED BY <1>2, <1>3, <2>1, <2>2, <2>4, QuietStep
<1>4. /\ waiting \in [Task -> Nat] /\ scores \in [Ids -> [Jobs -> Versions \cup {None}]]
      /\ candidates \in [Ids -> Candidate \cup {NoCandidate}]
      /\ \A x \in Ids \ Existing : \A j \in Jobs : scores[x][j] = None
  BY DEF Inv, TablesOK
<1>5. candidates' = candidates => \A x \in Ids : Exists(x)' <=> Exists(x)
  BY DEF Exists
<1>6. ScoringThrew(w) => waiting' \in [Task -> Nat] /\ End(w)
  BY <1>1, RetryIsTyped DEF ScoringThrew
\* Ends, and statements that write nothing of the candidate.
<1>7. ASSUME End(w), waiting' \in [Task -> Nat], UNCHANGED <<people, jobs, billing, unlogged>>
      PROVE  Inv'
  <2>1. handler' = [handler EXCEPT ![w] = Idle] /\ Idle \in Handler /\ Idle.at = "idle"
    BY <1>7, IdleIsOK, Handlers
  <2> HIDE DEF Idle
  <2> QED BY <1>3, <1>4, <1>5, <1>7, <2>1 DEF Scoring
<1>8. ASSUME NEW g \in Handler, g.at \in Scoring, g.x = h.x /\ g.j = h.j,
             handler' = [handler EXCEPT ![w] = g], waiting' \in [Task -> Nat],
             UNCHANGED <<people, jobs, billing, unlogged>>
      PROVE  Inv'
  BY <1>3, <1>4, <1>5, <1>8
<1>9. ReadCandidate(w) => Inv'
  <2> SUFFICES ASSUME ReadCandidate(w) PROVE Inv'
    OBVIOUS
  <2>1. CASE ScoringThrew(w)
    BY <1>6, <1>7, <2>1 DEF ReadCandidate
  <2>2. CASE ~ScoringThrew(w)
    <3> DEFINE g == [h EXCEPT !.at = "readJob", !.mine = candidates[h.x].job]
    <3>1. Exists(h.x) /\ handler' = [handler EXCEPT ![w] = g] /\ waiting' = waiting
      BY <2>2 DEF ReadCandidate
    <3>2. candidates[h.x].job \in Jobs \cup {None}
      BY <1>1, <1>4, <3>1 DEF Exists, Candidate
    <3>3. g \in Handler /\ g.at = "readJob" /\ g.at \in Scoring /\ g.x = h.x /\ g.j = h.j
      BY <1>1, <3>2 DEF Handler, Statements, Scoring
    <3> HIDE DEF g
    <3> QED BY <1>4, <1>8, <3>1, <3>3 DEF ReadCandidate
  <2> QED BY <2>1, <2>2
<1>10. ReadJob(w) => Inv'
  <2> SUFFICES ASSUME ReadJob(w) PROVE Inv'
    OBVIOUS
  <2> DEFINE g == [h EXCEPT !.at = "ask", !.v = jobs[h.j].version]
  <2>1. handler' = [handler EXCEPT ![w] = g] /\ jobs[h.j].version \in Versions
    BY <1>1 DEF ReadJob, Inv, ChangesOK
  <2>2. g \in Handler /\ g.at \in Scoring /\ g.x = h.x /\ g.j = h.j
    BY <1>1, <2>1 DEF Handler, Statements, Scoring
  <2> HIDE DEF g
  <2> QED BY <1>4, <1>8, <2>1, <2>2 DEF ReadJob
\* The next statement.
<1>11. ASSUME NEW statement \in {"row", "overall"}
       PROVE  LET g == [h EXCEPT !.at = statement] IN
              /\ Goto(w, statement) => handler' = [handler EXCEPT ![w] = g]
              /\ g \in Handler /\ g.at \in Scoring /\ g.x = h.x /\ g.j = h.j
  BY <1>1 DEF Handler, Statements, Scoring, Goto
<1>12. AskAi(w) => Inv'
  BY <1>4, <1>6, <1>7, <1>8, <1>11 DEF AskAi
\* A score is written.
<1>13. ASSUME Exists(h.x), Write(h.x, h.j, h.v), Goto(w, "overall") \/ End(w),
              UNCHANGED <<candidates, born, mailed, logged, waiting, jobs, billing, unlogged>>
       PROVE  Inv'
  <2>1. scores' \in [Ids -> [Jobs -> Versions \cup {None}]]
    BY <1>1, <1>2, <1>4, <1>13 DEF Write
  <2>2. \A x \in Ids \ Existing : \A j \in Jobs : scores'[x][j] = None
    BY <1>1, <1>4, <1>13 DEF Write, Exists, Existing
  <2>3. PICK g \in Handler : /\ handler' = [handler EXCEPT ![w] = g]
                             /\ g.at \in Scoring \cup {"idle"}
                             /\ g.at \in Scoring => g.x = h.x /\ g.j = h.j
    <3>1. CASE Goto(w, "overall")
      BY <1>11, <3>1
    <3>2. CASE End(w)
      BY <3>2, IdleIsOK, Handlers DEF Scoring
    <3> QED BY <1>13, <3>1, <3>2
  <2> QED BY <1>3, <1>4, <1>5, <1>13, <2>1, <2>2, <2>3
<1>14. SaveRow(w) => Inv'
  BY <1>6, <1>7, <1>13 DEF SaveRow
<1>15. CreateRow(w) => Inv'
  BY <1>4, <1>7, <1>13 DEF CreateRow
<1>16. SaveOverall(w) => Inv'
  <2> SUFFICES ASSUME SaveOverall(w) PROVE Inv'
    OBVIOUS
  <2>1. CASE ScoringThrew(w) /\ UNCHANGED candidates
    BY <1>6, <1>7, <2>1 DEF SaveOverall
  <2>2. CASE ~(ScoringThrew(w) /\ UNCHANGED candidates)
    <3> DEFINE new == [candidates[h.x] EXCEPT !.overall = h.v, !.of = h.j]
    <3>1. Exists(h.x) /\ candidates' = [candidates EXCEPT ![h.x] = new] /\ End(w) /\ waiting' = waiting
      BY <1>1, <1>4, <2>2 DEF SaveOverall
    <3>2. candidates[h.x] \in Candidate
      BY <1>1, <1>4, <3>1 DEF Exists
    <3>3. new \in Candidate
      BY <1>1, <1>2, <3>2 DEF Candidate
    <3>4. new # NoCandidate
      <4>1. DOMAIN new # DOMAIN NoCandidate
        BY <3>2 DEF NoCandidate, Candidate
      <4> QED BY <4>1
    <3> HIDE DEF new
    <3>5. candidates' \in [Ids -> Candidate \cup {NoCandidate}]
      BY <1>4, <3>1, <3>3
    <3>6. \A x \in Ids : Exists(x)' <=> Exists(x)
      BY <1>4, <3>1, <3>4 DEF Exists
    <3>7. handler' = [handler EXCEPT ![w] = Idle] /\ Idle \in Handler /\ Idle.at = "idle"
      BY <3>1, IdleIsOK, Handlers
    <3> QED BY <1>3, <1>4, <3>1, <3>5, <3>6, <3>7 DEF SaveOverall, Scoring
  <2> QED BY <2>1, <2>2
<1>17. TimeOut(w) => Inv'
  <2> SUFFICES ASSUME TimeOut(w) PROVE Inv'
    OBVIOUS
  <2> DEFINE g == [h EXCEPT !.try = 0]
  <2>1. g \in Handler /\ g.at \in Scoring /\ g.x = h.x /\ g.j = h.j
    BY <1>1 DEF Handler, Attempts
  <2>2. handler' = [handler EXCEPT ![w] = g] /\ waiting' \in [Task -> Nat]
    BY <1>1, RetryIsTyped DEF TimeOut
  <2> HIDE DEF g
  <2> QED BY <1>8, <2>1, <2>2 DEF TimeOut
<1> QED BY <1>9, <1>10, <1>12, <1>14, <1>15, <1>16, <1>17 DEF ScoreStep

-----------------------------------------------------------------------------
(* Mail *)

\* A mailer that goes on with candidates it has, mails and records as they become.
LEMMA MailerKeeps ==
    ASSUME Inv, NEW w \in Workers, NEW g \in Handler, g.at \in Mailing,
           handler' = [handler EXCEPT ![w] = g],
           handler[w].at \in Mailing \/ handler[w].at = "idle",
           \A v \in Workers \ {w} : handler[v].at \in Mailing => handler[v].xs \cap g.xs = {},
           g.x \in g.xs, \A y \in g.xs : y <= born,
           \A y \in g.xs : g.at = "send" \/ y # g.x => mailed'[y] < MaxMails,
           mailed' \in [Ids -> Nat], logged' \in [Ids -> Nat],
           \A y \in Ids : handler[w].at \notin Mailing \/ y \notin handler[w].xs
                              => mailed'[y] = mailed[y],
           \A x \in Ids : /\ mailed'[x] <= MaxMails /\ logged'[x] <= mailed'[x]
                          /\ Logging(x)' => logged'[x] < mailed'[x]
                          /\ Exists(x) /\ x \notin unlogged =>
                                mailed'[x] = logged'[x] + IF Logging(x)' THEN 1 ELSE 0,
           UNCHANGED <<candidates, born, scores, work, billing, unlogged>>
    PROVE  Inv'
<1> USE DEF work, billing
<1>1. handler' \in [Workers -> Handler] /\ \A v \in Workers : handler'[v] = IF v = w THEN g ELSE handler[v]
  BY DEF Inv
<1>2. g.xs \in SUBSET Ids /\ g.x \in Ids
  BY DEF Handler
<1>3. HandlerOK(g)
  BY <1>2 DEF HandlerOK, Checking, Scoring, Triggering, Mailing
<1>4. TablesOK' /\ Onward
  BY TablesStay
<1>5. ASSUME NEW v \in Workers PROVE HandlerOK(handler[v])'
  <2>1. HandlerOK(handler'[v])
    BY <1>1, <1>3 DEF Inv
  <2> QED BY <2>1 DEF HandlerOK, Due, Percent
<1>6. RoomOK'
  <2>1. Creators' = Creators
    BY <1>1 DEF Creators, Creating, Mailing
  <2> QED BY <2>1 DEF RoomOK, Inv
<1>7. ChangesOK' /\ TrackersOK'
  BY <1>1 DEF Inv, ChangesOK, TrackersOK, Mailing
<1>8. MailsOK'
  <2> HIDE DEF Mailing
  <2>1. \A v, u \in Workers : v # u /\ handler'[v].at \in Mailing /\ handler'[u].at \in Mailing
           => handler'[v].xs \cap handler'[u].xs = {}
    BY <1>1 DEF Inv, MailsOK
  <2>2. ASSUME NEW v \in Workers, handler'[v].at \in Mailing
        PROVE  /\ handler'[v].x \in handler'[v].xs
               /\ \A y \in handler'[v].xs :
                     /\ y \in Ids /\ y <= born'
                     /\ handler'[v].at = "send" \/ y # handler'[v].x => mailed'[y] < MaxMails
    <3>1. CASE v = w
      BY <1>1, <1>2, <2>2, <3>1
    <3>2. CASE v # w
      <4>1. handler'[v] = handler[v]
        BY <1>1, <3>2
      <4>2. \A y \in handler[v].xs : y \in Ids /\ mailed'[y] = mailed[y]
        BY <2>2, <3>2, <4>1 DEF Inv, MailsOK
      <4> QED BY <2>2, <4>1, <4>2 DEF Inv, MailsOK
    <3> QED BY <3>1, <3>2
  <2>3. ASSUME NEW x \in Ids, x > born' PROVE mailed'[x] = 0 /\ ~Exists(x)'
    <3>1. handler[w].at \notin Mailing \/ x \notin handler[w].xs
      BY <2>3 DEF Inv, MailsOK, RoomOK, Ids
    <3> QED BY <2>3, <3>1 DEF Inv, MailsOK, Exists
  <2>4. \A x \in Ids : Exists(x)' <=> Exists(x)
    BY DEF Exists
  <2> QED BY <2>1, <2>2, <2>3, <2>4 DEF MailsOK, Ids, Mailing
<1> QED BY <1>1, <1>4, <1>5, <1>6, <1>7, <1>8 DEF Inv

\* The mailer of a request.
LEMMA MailRequestsKeep ==
    ASSUME Inv, NEW w \in Workers, MailRequests(w)
    PROVE  Inv'
<1> USE DEF people, work, billing, history
<1>1. PICK x \in Ids, xs \in SUBSET Ids :
         /\ x \in xs /\ \A y \in xs : Exists(y) /\ MayMail(y)
         /\ Begin(w, [Idle EXCEPT !.at = "send", !.x = x, !.xs = xs])
         /\ UNCHANGED <<people, work, billing, history>>
  <2>1. ASSUME NEW x \in Ids, SendEmail(w, x)
        PROVE  /\ x \in {x} /\ \A y \in {x} : Exists(y) /\ MayMail(y)
               /\ Begin(w, [Idle EXCEPT !.at = "send", !.x = x, !.xs = {x}])
               /\ UNCHANGED <<people, work, billing, history>>
    BY <2>1 DEF SendEmail, Addressed, Existing, Exists
  <2>2. ASSUME NEW xs \in SUBSET Ids, BulkSendEmails(w, xs)
        PROVE  \E x \in Ids :
                  /\ x \in Addressed(xs) /\ \A y \in Addressed(xs) : Exists(y) /\ MayMail(y)
                  /\ Begin(w, [Idle EXCEPT !.at = "send", !.x = x, !.xs = Addressed(xs)])
                  /\ UNCHANGED <<people, work, billing, history>>
    BY <2>2 DEF BulkSendEmails, Addressed, Existing, Exists
  <2>3. \A xs \in SUBSET Ids : Addressed(xs) \in SUBSET Ids
    BY DEF Addressed
  <2> QED BY <2>1, <2>2, <2>3 DEF MailRequests
<1> DEFINE g == [Idle EXCEPT !.at = "send", !.x = x, !.xs = xs]
<1>2. g.at = "send" /\ g.x = x /\ g.xs = xs
  BY DEF Idle
<1>3. g \in Handler
  <2>1. Idle \in Handler /\ "send" \in Statements
    BY IdleIsOK DEF Statements, Mailing
  <2> HIDE DEF Idle
  <2> QED BY <2>1 DEF Handler
<1> HIDE DEF g
<1>4. handler[w].at = "idle" /\ handler' = [handler EXCEPT ![w] = g]
  BY <1>1, <1>3, Handlers DEF g
<1>5. \A y \in xs : y <= born /\ mailed[y] < MaxMails
  BY <1>1 DEF MayMail, Inv, MailsOK, RoomOK, Ids
<1>6. \A v \in Workers : handler[v].at \in Mailing => handler[v].xs \cap xs = {}
  BY <1>1 DEF MayMail, UnderWay
<1>7. \A y \in Ids : Logging(y)' <=> Logging(y)
  BY <1>2, <1>4 DEF Logging, Inv
<1>8. mailed \in [Ids -> Nat] /\ logged \in [Ids -> Nat] /\ mailed' = mailed /\ logged' = logged
  BY <1>1 DEF Inv, MailsOK
<1>9. \A y \in Ids :
         /\ mailed'[y] <= MaxMails /\ logged'[y] <= mailed'[y]
         /\ Logging(y)' => logged'[y] < mailed'[y]
         /\ Exists(y) /\ y \notin unlogged => mailed'[y] = logged'[y] + IF Logging(y)' THEN 1 ELSE 0
  BY <1>7, <1>8 DEF Inv, MailsOK
<1>10. "send" \in Mailing /\ "idle" \notin Mailing
  BY DEF Mailing
<1> HIDE DEF Mailing
<1> QED BY <1>1, <1>2, <1>3, <1>4, <1>5, <1>6, <1>8, <1>9, <1>10, MailerKeeps

\* Of the candidates of a mailer.
LEMMA MailerFacts ==
    ASSUME Inv, NEW w \in Workers, handler[w].at \in Mailing
    PROVE  LET h == handler[w] IN
           /\ h \in Handler /\ h.x \in h.xs /\ h.xs \in SUBSET Ids
           /\ \A y \in h.xs : y <= born /\ (h.at = "send" \/ y # h.x => mailed[y] < MaxMails)
           /\ \A v \in Workers \ {w} : handler[v].at \in Mailing => handler[v].xs \cap h.xs = {}
           /\ \A y \in Ids : Logging(y) /\ y \in h.xs => h.at = "log" /\ y = h.x
           /\ mailed \in [Ids -> Nat] /\ logged \in [Ids -> Nat]
<1>1. handler[w] \in Handler
  BY Handlers
<1>2. \A y \in Ids : Logging(y) /\ y \in handler[w].xs => handler[w].at = "log" /\ y = handler[w].x
  BY DEF Logging, Inv, MailsOK, Mailing
<1> HIDE DEF Mailing
<1> QED BY <1>1, <1>2 DEF Inv, MailsOK, Handler

\* The next candidate of the batch; nothing was accepted for the one before.
LEMMA NextMailKeeps ==
    ASSUME Inv, NEW w \in Workers, handler[w].at \in Mailing, handler[w].at # "log", NextMail(w),
           UNCHANGED <<people, work, billing, history>>
    PROVE  Inv'
<1> DEFINE h == handler[w]
           rest == h.xs \ {h.x}
<1> USE DEF people, work, billing, history
<1>1. CASE End(w)
  BY <1>1, EndKeeps, TablesStay
<1>2. CASE ~End(w)
  <2>1. PICK x \in rest : handler' = [handler EXCEPT ![w].at = "send", ![w].x = x, ![w].xs = rest]
    BY <1>2 DEF NextMail
  <2> DEFINE g == [h EXCEPT !.at = "send", !.x = x, !.xs = rest]
  <2>2. handler' = [handler EXCEPT ![w] = g]
    BY <2>1
  <2>3. x \in Ids /\ rest \in SUBSET Ids /\ "send" \in Statements
    BY MailerFacts DEF Statements, Mailing
  <2>4. g \in Handler /\ g.at = "send" /\ g.x = x /\ g.xs = rest
    <3>1. h \in Handler
      BY Handlers
    <3> HIDE DEF rest
    <3> QED BY <2>3, <3>1 DEF Handler
  <2> HIDE DEF g
  <2>5. \A y \in Ids : Logging(y)' <=> Logging(y)
    BY <2>2, <2>4 DEF Logging, Inv
  <2>6. \A y \in Ids :
           /\ mailed'[y] <= MaxMails /\ logged'[y] <= mailed'[y]
           /\ Logging(y)' => logged'[y] < mailed'[y]
           /\ Exists(y) /\ y \notin unlogged => mailed'[y] = logged'[y] + IF Logging(y)' THEN 1 ELSE 0
    BY <2>5 DEF Inv, MailsOK
  <2>7. /\ \A v \in Workers \ {w} : handler[v].at \in Mailing => handler[v].xs \cap g.xs = {}
        /\ g.x \in g.xs /\ \A y \in g.xs : y <= born /\ mailed'[y] < MaxMails
        /\ mailed' \in [Ids -> Nat] /\ logged' \in [Ids -> Nat]
    BY <2>1, <2>4, MailerFacts
  <2>8. g.at \in Mailing
    BY <2>4 DEF Mailing
  <2> HIDE DEF Mailing
  <2> QED BY <2>2, <2>4, <2>6, <2>7, <2>8, MailerKeeps
<1> QED BY <1>1, <1>2

LEMMA MailsKeep ==
    ASSUME Inv, NEW w \in Workers, MailStep(w)
    PROVE  Inv'
<1> DEFINE h == handler[w]
<1> USE DEF people, work, billing, history
<1>1. h.at \in Mailing
  BY DEF MailStep, Send, LogMail, ChargeMail, LogAction, Mailing
<1>2. /\ h \in Handler /\ h.x \in h.xs /\ h.xs \in SUBSET Ids /\ h.x \in Ids
      /\ \A y \in h.xs : y <= born /\ (h.at = "send" \/ y # h.x => mailed[y] < MaxMails)
      /\ \A v \in Workers \ {w} : handler[v].at \in Mailing => handler[v].xs \cap h.xs = {}
      /\ \A y \in Ids : Logging(y) /\ y \in h.xs => h.at = "log" /\ y = h.x
      /\ mailed \in [Ids -> Nat] /\ logged \in [Ids -> Nat]
  BY <1>1, MailerFacts
<1>3. {"log", "charge", "action"} \subseteq Mailing /\ {"log", "charge", "action"} \subseteq Statements
  BY DEF Mailing, Statements
<1>4. ASSUME NEW statement \in {"log", "charge", "action"}
      PROVE  LET g == [h EXCEPT !.at = statement] IN
             /\ Goto(w, statement) => handler' = [handler EXCEPT ![w] = g]
             /\ g \in Handler /\ g.at = statement /\ g.x = h.x /\ g.xs = h.xs
  BY <1>2, <1>3 DEF Handler, Goto
\* The mail is accepted.
<1>5. ASSUME h.at = "send", Goto(w, "log"), mailed' = [mailed EXCEPT ![h.x] = @ + 1],
             UNCHANGED <<candidates, born, scores, logged, work, billing, history>>
      PROVE  Inv'
  <2> DEFINE g == [h EXCEPT !.at = "log"]
  <2>1. handler' = [handler EXCEPT ![w] = g] /\ g \in Handler /\ g.at = "log" /\ g.x = h.x /\ g.xs = h.xs
    BY <1>4, <1>5
  <2> HIDE DEF g
  <2>2. \A y \in Ids : Logging(y)' <=> y = h.x \/ Logging(y)
    BY <1>5, <2>1 DEF Logging, Inv
  <2>3. ~Logging(h.x)
    BY <1>2, <1>5
  <2>4. PICK z \in Ids : z = h.x
    BY <1>2
  <2>5. \A y \in Ids :
           /\ mailed'[y] <= MaxMails /\ logged'[y] <= mailed'[y]
           /\ Logging(y)' => logged'[y] < mailed'[y]
           /\ Exists(y) /\ y \notin unlogged => mailed'[y] = logged'[y] + IF Logging(y)' THEN 1 ELSE 0
    <3>1. ASSUME NEW y \in Ids, y # z
          PROVE  mailed'[y] = mailed[y] /\ (Logging(y)' <=> Logging(y))
      BY <1>2, <1>5, <2>2, <2>4, <3>1
    <3>2. mailed'[z] = mailed[z] + 1 /\ mailed[z] < MaxMails
      <4>1. mailed[z] < MaxMails
        BY <1>2, <1>5, <2>4
      <4>2. z \in Ids /\ mailed \in [Ids -> Nat]
        BY <1>2
      <4> QED BY <1>5, <2>4, <4>1, <4>2
    <3>3. Logging(z)'
      BY <2>2, <2>4
    <3>4. /\ mailed[z] \in Nat /\ logged[z] \in Nat /\ z \in Ids
          /\ logged[z] <= mailed[z] /\ logged' = logged
          /\ Exists(z) /\ z \notin unlogged => mailed[z] = logged[z]
      BY <1>2, <1>5, <2>3, <2>4 DEF Inv, MailsOK
    <3>5. /\ mailed'[z] <= MaxMails /\ logged'[z] <= mailed'[z] /\ logged'[z] < mailed'[z]
          /\ Exists(z) /\ z \notin unlogged => mailed'[z] = logged'[z] + 1
      BY <3>2, <3>4, RecruitingBoundAssumption
    <3>6. \A y \in Ids \ {z} :
             /\ mailed'[y] <= MaxMails /\ logged'[y] <= mailed'[y]
             /\ Logging(y)' => logged'[y] < mailed'[y]
             /\ Exists(y) /\ y \notin unlogged => mailed'[y] = logged'[y] + IF Logging(y)' THEN 1 ELSE 0
      BY <3>1, <3>4 DEF Inv, MailsOK
    <3> QED BY <3>3, <3>5, <3>6
  <2>6. mailed' \in [Ids -> Nat] /\ \A y \in Ids : y # h.x => mailed'[y] = mailed[y]
    BY <1>2, <1>5
  <2>7. \A y \in g.xs : y <= born /\ (g.at = "send" \/ y # g.x => mailed'[y] < MaxMails)
    BY <1>2, <2>1, <2>6
  <2>8. /\ g.at \in Mailing /\ g.x \in g.xs /\ h.at \in Mailing
        /\ \A v \in Workers \ {w} : handler[v].at \in Mailing => handler[v].xs \cap g.xs = {}
        /\ \A y \in g.xs : y <= born
        /\ \A y \in g.xs : g.at = "send" \/ y # g.x => mailed'[y] < MaxMails
        /\ \A y \in Ids : h.at \notin Mailing \/ y \notin h.xs => mailed'[y] = mailed[y]
    BY <1>1, <1>2, <1>3, <2>1, <2>6, <2>7
  <2>9. logged' \in [Ids -> Nat]
    BY <1>2, <1>5
  <2> HIDE DEF Mailing
  <2> QED BY <1>5, <2>1, <2>5, <2>6, <2>8, <2>9, MailerKeeps
<1>6. Send(w) => Inv'
  <2> SUFFICES ASSUME Send(w) PROVE Inv'
    OBVIOUS
  <2>1. CASE mailed' = [mailed EXCEPT ![h.x] = @ + 1] /\ Goto(w, "log")
    BY <1>5, <2>1 DEF Send
  <2>2. CASE NextMail(w) /\ UNCHANGED mailed
    BY <1>1, <2>2, NextMailKeeps DEF Send
  <2> QED BY <2>1, <2>2 DEF Send
\* It is recorded.
<1>7. ASSUME h.at = "log", Goto(w, "charge"), logged' = [logged EXCEPT ![h.x] = @ + 1],
             UNCHANGED <<candidates, born, scores, mailed, work, billing, unlogged>>
      PROVE  Inv'
  <2> DEFINE g == [h EXCEPT !.at = "charge"]
  <2>1. handler' = [handler EXCEPT ![w] = g] /\ g \in Handler /\ g.at = "charge" /\ g.x = h.x /\ g.xs = h.xs
    BY <1>4, <1>7
  <2> HIDE DEF g
  <2>2. \A v \in Workers \ {w} : handler[v].at = "log" => handler[v].x # h.x
    BY <1>2 DEF Inv, MailsOK, Mailing
  <2>3. \A v \in Workers : handler'[v] = IF v = w THEN g ELSE handler[v]
    BY <2>1 DEF Inv
  <2>4. Logging(h.x) /\ \A y \in Ids : Logging(y)' <=> y # h.x /\ Logging(y)
    BY <1>7, <2>1, <2>2, <2>3 DEF Logging
  <2>5. PICK z \in Ids : z = h.x
    BY <1>2
  <2>6. \A y \in Ids :
           /\ mailed'[y] <= MaxMails /\ logged'[y] <= mailed'[y]
           /\ Logging(y)' => logged'[y] < mailed'[y]
           /\ Exists(y) /\ y \notin unlogged => mailed'[y] = logged'[y] + IF Logging(y)' THEN 1 ELSE 0
    <3>1. ASSUME NEW y \in Ids, y # z
          PROVE  logged'[y] = logged[y] /\ (Logging(y)' <=> Logging(y))
      BY <1>2, <1>7, <2>4, <2>5, <3>1
    <3>2. logged'[z] = logged[z] + 1
      <4>1. z \in Ids /\ logged \in [Ids -> Nat]
        BY <1>2
      <4> QED BY <1>7, <2>5, <4>1
    <3>3. ~Logging(z)'
      BY <2>4, <2>5
    <3>4. /\ mailed[z] \in Nat /\ logged[z] \in Nat /\ z \in Ids
          /\ logged[z] < mailed[z] /\ mailed[z] <= MaxMails /\ mailed' = mailed
          /\ Exists(z) /\ z \notin unlogged => mailed[z] = logged[z] + 1
      BY <1>2, <1>7, <2>4, <2>5 DEF Inv, MailsOK
    <3>5. /\ mailed'[z] <= MaxMails /\ logged'[z] <= mailed'[z]
          /\ Exists(z) /\ z \notin unlogged => mailed'[z] = logged'[z]
      BY <3>2, <3>4
    <3>6. \A y \in Ids \ {z} :
             /\ mailed'[y] <= MaxMails /\ logged'[y] <= mailed'[y]
             /\ Logging(y)' => logged'[y] < mailed'[y]
             /\ Exists(y) /\ y \notin unlogged => mailed'[y] = logged'[y] + IF Logging(y)' THEN 1 ELSE 0
      BY <3>1, <3>4 DEF Inv, MailsOK
    <3>7. logged'[z] \in Nat /\ mailed'[z] \in Nat
      BY <3>2, <3>4
    <3> QED BY <3>3, <3>5, <3>6, <3>7
  <2>7. logged' \in [Ids -> Nat] /\ mailed' \in [Ids -> Nat]
    BY <1>2, <1>7
  <2>8. /\ g.at \in Mailing /\ g.x \in g.xs /\ h.at \in Mailing
        /\ \A v \in Workers \ {w} : handler[v].at \in Mailing => handler[v].xs \cap g.xs = {}
        /\ \A y \in g.xs : y <= born
        /\ \A y \in g.xs : g.at = "send" \/ y # g.x => mailed'[y] < MaxMails
        /\ \A y \in Ids : h.at \notin Mailing \/ y \notin h.xs => mailed'[y] = mailed[y]
    BY <1>1, <1>2, <1>3, <1>7, <2>1
  <2> HIDE DEF Mailing
  <2> QED BY <1>7, <2>1, <2>6, <2>7, <2>8, MailerKeeps
\* It is not, and the batch ends.
<1>8. ASSUME h.at = "log", End(w), unlogged' = IF Exists(h.x) THEN unlogged \cup {h.x} ELSE unlogged,
             UNCHANGED <<people, work, billing>>
      PROVE  Inv'
  <2>1. handler' = [handler EXCEPT ![w] = Idle] /\ Idle \in Handler /\ HandlerOK(Idle) /\ Idle.at = "idle"
    BY <1>8, IdleIsOK, Handlers
  <2> HIDE DEF Idle
  <2>2. \A v \in Workers : handler'[v] = IF v = w THEN Idle ELSE handler[v]
    BY <2>1 DEF Inv
  <2>3. TablesOK'
    BY <1>8, TablesStay
  <2>4. \A v \in Workers : HandlerOK(handler[v])'
    <3>1. \A v \in Workers : HandlerOK(handler'[v])
      BY <2>1, <2>2 DEF Inv
    <3> QED BY <1>8, <3>1 DEF HandlerOK, Due, Percent
  <2>5. RoomOK'
    <3>1. Creators' = Creators
      BY <1>8, <2>1, <2>2 DEF Creators, Creating
    <3> QED BY <1>8, <3>1 DEF RoomOK, Inv
  <2>6. ChangesOK' /\ TrackersOK'
    BY <1>8, <2>1, <2>2 DEF Inv, ChangesOK, TrackersOK
  <2>7. \A y \in Ids : (Logging(y)' => Logging(y)) /\ (y # h.x => (Logging(y) => Logging(y)'))
    BY <1>8, <2>1, <2>2 DEF Logging
  <2>8. MailsOK'
    <3>1. \A v \in Workers : handler'[v].at \in Mailing => handler'[v] = handler[v]
      BY <2>1, <2>2 DEF Mailing
    <3> HIDE DEF Mailing
    <3>2. \A v, u \in Workers : v # u /\ handler'[v].at \in Mailing /\ handler'[u].at \in Mailing
             => handler'[v].xs \cap handler'[u].xs = {}
      BY <3>1 DEF Inv, MailsOK
    <3>3. \A v \in Workers : handler'[v].at \in Mailing =>
             /\ handler'[v].x \in handler'[v].xs
             /\ \A y \in handler'[v].xs :
                   /\ y \in Ids /\ y <= born'
                   /\ handler'[v].at = "send" \/ y # handler'[v].x => mailed'[y] < MaxMails
      BY <1>8, <3>1 DEF Inv, MailsOK
    <3>4. \A y \in Ids : Exists(y)' <=> Exists(y)
      BY <1>8 DEF Exists
    <3>5. \A y \in Ids :
             /\ mailed'[y] <= MaxMails /\ logged'[y] <= mailed'[y]
             /\ Logging(y)' => logged'[y] < mailed'[y]
             /\ y > born' => mailed'[y] = 0 /\ ~Exists(y)'
             /\ Exists(y)' /\ y \notin unlogged' =>
                   mailed'[y] = logged'[y] + IF Logging(y)' THEN 1 ELSE 0
      BY <1>8, <2>7, <3>4 DEF Inv, MailsOK
    <3>6. mailed' \in [Ids -> Nat] /\ logged' \in [Ids -> Nat]
      BY <1>2, <1>8
    <3> QED BY <3>2, <3>3, <3>5, <3>6 DEF MailsOK, Ids, Mailing
  <2> QED BY <2>1, <2>2, <2>3, <2>4, <2>5, <2>6, <2>8 DEF Inv
<1>9. LogMail(w) => Inv'
  BY <1>7, <1>8 DEF LogMail
<1>10. ASSUME h.at # "log", End(w), UNCHANGED <<people, work, billing, history>>
       PROVE  Inv'
  BY <1>10, EndKeeps, TablesStay
<1>11. ChargeMail(w) => Inv'
  <2> SUFFICES ASSUME ChargeMail(w) PROVE Inv'
    OBVIOUS
  <2>1. h.at = "charge"
    BY DEF ChargeMail
  <2>2. CASE End(w)
    BY <1>10, <2>1, <2>2 DEF ChargeMail
  <2>3. CASE Goto(w, "action")
    <3> DEFINE g == [h EXCEPT !.at = "action"]
    <3>1. handler' = [handler EXCEPT ![w] = g] /\ g \in Handler /\ g.at = "action" /\ g.x = h.x /\ g.xs = h.xs
      BY <1>4, <2>3
    <3> HIDE DEF g
    <3>2. \A y \in Ids : Logging(y)' <=> Logging(y)
      BY <2>1, <3>1 DEF Logging, Inv
    <3>3. \A y \in Ids :
             /\ mailed'[y] <= MaxMails /\ logged'[y] <= mailed'[y]
             /\ Logging(y)' => logged'[y] < mailed'[y]
             /\ Exists(y) /\ y \notin unlogged => mailed'[y] = logged'[y] + IF Logging(y)' THEN 1 ELSE 0
      BY <3>2 DEF ChargeMail, Inv, MailsOK
    <3>4. mailed' = mailed /\ logged' = logged
      BY DEF ChargeMail
    <3>5. /\ g.at \in Mailing /\ g.x \in g.xs /\ h.at \in Mailing
          /\ \A v \in Workers \ {w} : handler[v].at \in Mailing => handler[v].xs \cap g.xs = {}
          /\ \A y \in g.xs : y <= born
          /\ \A y \in g.xs : g.at = "send" \/ y # g.x => mailed'[y] < MaxMails
          /\ \A y \in Ids : h.at \notin Mailing \/ y \notin h.xs => mailed'[y] = mailed[y]
      BY <1>1, <1>2, <1>3, <2>1, <3>1, <3>4
    <3>6. mailed' \in [Ids -> Nat] /\ logged' \in [Ids -> Nat]
      BY <1>2, <3>4
    <3> HIDE DEF Mailing
    <3> QED BY <3>1, <3>3, <3>5, <3>6, MailerKeeps DEF ChargeMail
  <2> QED BY <2>2, <2>3 DEF ChargeMail
<1>12. LogAction(w) => Inv'
  BY <1>1, <1>10, NextMailKeeps DEF LogAction
<1> QED BY <1>6, <1>9, <1>11, <1>12 DEF MailStep

-----------------------------------------------------------------------------
(* Type correctness, and the mails recorded *)

LEMMA InitIsOK == Init => Inv
<1> SUFFICES ASSUME Init PROVE Inv
  OBVIOUS
<1>1. \A w \in Workers : handler[w] = Idle
  BY DEF Init
<1> USE RecruitingBoundAssumption
<1>2. TablesOK
  <2>1. candidates \in [Ids -> Candidate \cup {NoCandidate}]
    <3>1. 0 \in Versions
      BY DEF Versions
    <3> QED BY <3>1 DEF Init, Candidate
  <2>2. scores \in [Ids -> [Jobs -> Versions \cup {None}]]
    <3>1. 0 \in Versions
      BY DEF Versions
    <3> QED BY <3>1 DEF Init
  <2>3. \A x \in Ids \ Existing : \A j \in Jobs : scores[x][j] = None
    BY DEF Init, Existing, Exists
  <2>4. limit \in Limits /\ limit \in Nat \ {0} /\ usage \in [Periods -> Nat]
    BY LimitAssumption DEF Init
  <2>5. tracker \in [Periods -> (SUBSET Thresholds) \cup {None}]
    <3>1. PassedSoFar \in SUBSET Thresholds
      BY DEF PassedSoFar
    <3> QED BY <3>1 DEF Init
  <2>6. alerts \in [Periods -> Seq(Thresholds)]
    <3>1. PICK soFar \in {<<>>, <<80>>, <<80, 90>>, <<80, 90, 100>>} :
             alerts = [p \in Periods |-> IF p > 1 THEN <<>> ELSE soFar]
      BY DEF Init
    <3>2. 80 \in Thresholds /\ 90 \in Thresholds /\ 100 \in Thresholds
      BY DEF Thresholds
    <3>3. <<>> \in Seq(Thresholds) /\ <<80>> \in Seq(Thresholds)
      BY <3>2
    <3>4. <<80, 90>> \in Seq(Thresholds)
      BY <3>2
    <3>5. <<80, 90, 100>> \in Seq(Thresholds)
      BY <3>2
    <3> QED BY <3>1, <3>3, <3>4, <3>5
  <2>7. waiting \in [Task -> Nat] /\ period \in Periods
    BY DEF Init, Periods
  <2> QED BY <2>1, <2>2, <2>3, <2>4, <2>5, <2>6, <2>7 DEF TablesOK
<1>3. handler \in [Workers -> Handler] /\ \A w \in Workers : HandlerOK(handler[w])
  BY <1>1, IdleIsOK DEF Init
<1>4. RoomOK
  <2>1. Creators = {}
    BY <1>1, IdleIsOK DEF Creators, Creating
  <2> QED BY <2>1, FS_EmptySet DEF RoomOK, Init
<1>5. ChangesOK
  <2>1. 0 \in Versions
    BY DEF Versions
  <2>2. [version |-> 0, open |-> TRUE] \in [version : Versions, open : BOOLEAN]
    BY <2>1
  <2>3. jobs \in [Jobs -> [version : Versions, open : BOOLEAN]]
    BY <2>2, ZenonT(40) DEF Init
  <2> QED BY <1>1, <2>3, IdleIsOK DEF ChangesOK
<1>6. MailsOK
  <2>1. \A w \in Workers : handler[w].at \notin Mailing
    BY <1>1, IdleIsOK DEF Mailing
  <2>2. \A x \in Ids : ~Logging(x) /\ mailed[x] = 0 /\ logged[x] = 0
    BY <1>1, IdleIsOK DEF Logging, Init
  <2>3. \A x \in Ids : x > born => ~Exists(x)
    BY DEF Init, Ids
  <2>4. mailed \in [Ids -> Nat] /\ logged \in [Ids -> Nat]
    BY DEF Init
  <2> QED BY <2>1, <2>2, <2>3, <2>4 DEF MailsOK
<1>7. TrackersOK
  BY <1>1, IdleIsOK DEF TrackersOK
<1> QED BY <1>2, <1>3, <1>4, <1>5, <1>6, <1>7 DEF Inv

LEMMA NextKeeps == Inv /\ [Next]_vars => Inv'
<1> SUFFICES ASSUME Inv, [Next]_vars PROVE Inv'
  OBVIOUS
<1>1. UploadRequests => Inv'
  BY AdmitKeeps DEF UploadRequests, Upload
<1>2. ASSUME NEW w \in Workers, Requests(w) PROVE Inv'
  BY <1>2, CreateCandidateKeeps, IntakeRequestsKeep, JobRequestsKeep, MailRequestsKeep, TasksKeep
     DEF Requests, CreateRequests, JobRequests, Tasks
<1>3. ASSUME NEW w \in Workers, Continue(w) PROVE Inv'
  BY <1>3, UploadsKeep, UsageKeeps, RecordsKeep, RescoresKeep, ScoresKeep, MailsKeep DEF Continue
<1>4. ASSUME NEW w \in Workers, Faults(w) PROVE Inv'
  BY <1>4, UsageKeeps, RescoresKeep, ScoresKeep DEF Faults
<1>5. DeleteEvents => Inv'
  <2>1. \A x \in Ids : Remove(x) => Inv'
    BY RemovalKeeps DEF Remove
  <2>2. \A xs \in SUBSET Ids : BulkDelete(xs) => Inv'
    BY RemovalKeeps DEF BulkDelete
  <2> QED BY <2>1, <2>2 DEF DeleteEvents
<1>6. StatusEvents => Inv'
  BY SetStatusKeeps DEF StatusEvents
<1>7. Renew => Inv'
  BY RenewKeeps
<1>8. CASE UNCHANGED vars
  <2>1. TablesOK' /\ Onward /\ ChangesOK'
    BY <1>8, TablesStay DEF vars, people, work, billing, Inv, ChangesOK
  <2> QED BY <1>8, <2>1, EventKeeps DEF vars, people, billing, history
<1> QED BY <1>1, <1>2, <1>3, <1>4, <1>5, <1>6, <1>7, <1>8 DEF Next

THEOREM RecruitingInvariant == Spec => []Inv
BY InitIsOK, NextKeeps, PTL DEF Spec

\* Every table and every handler holds what its columns and variables may, within the
\* bounds of the model; nothing is kept of a candidate who went.
THEOREM RecruitingIsTyped == Spec => []RecruitingTypeOK
<1>1. Inv => RecruitingTypeOK
  <2> SUFFICES ASSUME Inv PROVE RecruitingTypeOK
    OBVIOUS
  <2>1. born \in 0..MaxCandidates
    BY FiniteCreators, RecruitingBoundAssumption DEF Inv, RoomOK
  <2>2. mailed \in [Ids -> 0..MaxMails] /\ logged \in [Ids -> 0..MaxMails]
    BY RecruitingBoundAssumption DEF Inv, MailsOK
  <2>3. /\ candidates \in [Ids -> Candidate \cup {NoCandidate}]
        /\ scores \in [Ids -> [Jobs -> Versions \cup {None}]]
        /\ \A x \in Ids \ Existing : \A j \in Jobs : scores[x][j] = None
        /\ waiting \in [Task -> Nat]
        /\ limit \in Limits /\ period \in Periods
        /\ usage \in [Periods -> Nat]
        /\ tracker \in [Periods -> (SUBSET Thresholds) \cup {None}]
    BY DEF Inv, TablesOK
  <2>4. jobs \in [Jobs -> [version : Versions, open : BOOLEAN]] /\ handler \in [Workers -> Handler]
    BY DEF Inv, ChangesOK
  <2> QED BY <2>1, <2>2, <2>3, <2>4 DEF RecruitingTypeOK
<1> QED BY <1>1, RecruitingInvariant, PTL

\* For every candidate the mails the provider accepted are those recorded, whatever
\* the requests, the deletions and the failures.
THEOREM MailsAreRecorded == Spec => []SentMailIsRecorded
<1>1. Inv => SentMailIsRecorded
  <2> SUFFICES ASSUME Inv, NEW x \in Existing \ unlogged
               PROVE  mailed[x] = logged[x] +
                          Cardinality({w \in Workers : handler[w].at = "log" /\ handler[w].x = x})
    BY DEF SentMailIsRecorded
  <2> DEFINE loggers == {w \in Workers : handler[w].at = "log" /\ handler[w].x = x}
  <2>1. /\ x \in Ids /\ mailed[x] \in Nat /\ logged[x] \in Nat
        /\ mailed[x] = logged[x] + IF Logging(x) THEN 1 ELSE 0
    BY DEF Existing, Exists, Inv, MailsOK
  <2>2. CASE Logging(x)
    <3>1. PICK w \in Workers : handler[w].at = "log" /\ handler[w].x = x
      BY <2>2 DEF Logging
    <3>2. \A v \in loggers : v = w
      BY <3>1 DEF Inv, MailsOK, Mailing
    <3>3. loggers = {w}
      BY <3>1, <3>2
    <3> QED BY <2>1, <2>2, <3>3, FS_Singleton
  <2>3. CASE ~Logging(x)
    <3>1. loggers = {}
      BY <2>3 DEF Logging
    <3> QED BY <2>1, <2>3, <3>1, FS_EmptySet
  <2> QED BY <2>2, <2>3
<1> QED BY <1>1, RecruitingInvariant, PTL

-----------------------------------------------------------------------------
(* The limit *)

\* The upload w is to be counted in period p.
CountsIn(w, p) ==
    /\ handler[w].at \in Counting
    /\ p = IF handler[w].at = "record" THEN handler[w].p ELSE period

\* In a period that is not crowded, one upload at a time is let in, below the limit.
LimitInv ==
    /\ \A p \in Periods : p > period => usage[p] = 0
    /\ \A w \in Workers : handler[w].at = "record" => handler[w].p <= period
    /\ \A p \in Periods \ crowded :
          /\ usage[p] <= limit
          /\ \A w \in Workers : CountsIn(w, p) => usage[p] < limit
          /\ \A v, w \in Workers : CountsIn(v, p) /\ CountsIn(w, p) => v = w

\* The steps of handlers other than those of an upload up to its count.
LEMMA AsideSteps ==
    ASSUME Inv, NEW w \in Workers,
           \/ Requests(w) \/ RecordsStep(w) \/ RescoreStep(w) \/ ScoreStep(w) \/ MailStep(w)
           \/ RescoringStops(w) \/ TimeOut(w)
    PROVE  /\ \A v \in Workers \ {w} : handler'[v] = handler[v]
           /\ handler[w].at \notin Counting \cup Checking
           /\ handler'[w].at \notin Counting \cup Checking
           /\ UNCHANGED <<billing, crowded, broken>>
<1> DEFINE Aside(h) == h.at \notin Counting \cup Checking
           Done == /\ \A v \in Workers \ {w} : handler'[v] = handler[v]
                   /\ Aside(handler[w]) /\ Aside(handler'[w])
<1> USE DEF history
<1>1. Idle.at = "idle" /\ handler[w] \in Handler /\ handler \in [Workers -> Handler]
  BY IdleIsOK, Handlers DEF Inv
<1>2. ASSUME NEW h, h.at \in {"findOwn", "createOwn", "save", "lookup", "assign", "changeJob",
                              "enqueueOne", "read", "send"},
             Begin(w, h)
      PROVE  Done
  BY <1>1, <1>2 DEF Begin, Counting, Checking
<1>3. ASSUME NEW statement \in {"createOwn", "save", "listAssigned", "row", "overall", "log",
                                "charge", "action"},
             Aside(handler[w]), Goto(w, statement)
      PROVE  Done
  <2>1. handler'[w].at = statement
    BY <1>1, <1>3 DEF Goto, Handler
  <2> QED BY <1>1, <1>3, <2>1 DEF Goto, Counting, Checking
<1>4. Aside(handler[w]) /\ End(w) => Done
  BY <1>1 DEF End, Counting, Checking
<1>5. Requests(w) => Done /\ UNCHANGED <<billing, crowded, broken>>
  <2> HIDE DEF Done
  <2>1. ASSUME NEW e, NEW j, CreateCandidate(w, e, j)
        PROVE  Done /\ UNCHANGED <<billing, crowded, broken>>
    <3> DEFINE g == [Idle EXCEPT !.at = IF e = None THEN "createOwn" ELSE "findOwn",
                                 !.who = e, !.j = j]
    <3>1. g.at \in {"createOwn", "findOwn"}
      BY DEF Idle
    <3>2. Begin(w, g) /\ UNCHANGED <<billing, crowded, broken>>
      BY <2>1 DEF CreateCandidate
    <3> HIDE DEF g
    <3> QED BY <1>2, <3>1, <3>2
  <2>2. ASSUME NEW x, NEW e, NEW xs, NEW j, UpdateCandidate(w, x, e, xs, j)
        PROVE  Done /\ UNCHANGED <<billing, crowded, broken>>
    <3> DEFINE g == [Idle EXCEPT
                !.at = IF e \in {None, candidates[x].email} THEN "save" ELSE "lookup",
                !.x = x, !.who = e, !.xs = xs, !.j = j]
    <3>1. g.at \in {"save", "lookup"}
      BY DEF Idle
    <3>2. Begin(w, g) /\ UNCHANGED <<billing, crowded, broken>>
      BY <2>2 DEF UpdateCandidate
    <3> HIDE DEF g
    <3> QED BY <1>2, <3>1, <3>2
  <2>3. ASSUME NEW xs, NEW j, BulkAssignJob(w, xs, j)
        PROVE  Done /\ UNCHANGED <<billing, crowded, broken>>
    <3> DEFINE g == [Idle EXCEPT !.at = "assign", !.xs = xs, !.j = j]
    <3>1. g.at = "assign"
      BY DEF Idle
    <3>2. Begin(w, g) /\ UNCHANGED <<billing, crowded, broken>>
      BY <2>3 DEF BulkAssignJob
    <3> HIDE DEF g
    <3> QED BY <1>2, <3>1, <3>2
  <2>4. ASSUME NEW j, UpdateJob(w, j)
        PROVE  Done /\ UNCHANGED <<billing, crowded, broken>>
    <3> DEFINE g == [Idle EXCEPT !.at = "changeJob", !.j = j]
    <3>1. g.at = "changeJob"
      BY DEF Idle
    <3>2. Begin(w, g) /\ UNCHANGED <<billing, crowded, broken>>
      BY <2>4 DEF UpdateJob
    <3> HIDE DEF g
    <3> QED BY <1>2, <3>1, <3>2
  <2>5. ASSUME NEW x, NEW j, RescoreForJob(w, x, j)
        PROVE  Done /\ UNCHANGED <<billing, crowded, broken>>
    <3> DEFINE g == [Idle EXCEPT !.at = "enqueueOne", !.x = x, !.j = j]
    <3>1. g.at = "enqueueOne"
      BY DEF Idle
    <3>2. Begin(w, g) /\ UNCHANGED <<billing, crowded, broken>>
      BY <2>5 DEF RescoreForJob
    <3> HIDE DEF g
    <3> QED BY <1>2, <3>1, <3>2
  <2>6. ASSUME NEW x, SendEmail(w, x)
        PROVE  Done /\ UNCHANGED <<billing, crowded, broken>>
    <3> DEFINE g == [Idle EXCEPT !.at = "send", !.x = x, !.xs = {x}]
    <3>1. g.at = "send"
      BY DEF Idle
    <3>2. Begin(w, g) /\ UNCHANGED <<billing, crowded, broken>>
      BY <2>6 DEF SendEmail
    <3> HIDE DEF g
    <3> QED BY <1>2, <3>1, <3>2
  <2>7. ASSUME NEW t \in Task, TakeTask(w, t)
        PROVE  Done /\ UNCHANGED <<billing, crowded, broken>>
    <3> DEFINE g == [Idle EXCEPT !.at = "read", !.x = t.x, !.j = t.j,
                                 !.try = t.tries + 1, !.queued = TRUE]
    <3>1. g.at = "read"
      BY DEF Idle
    <3>2. Begin(w, g) /\ UNCHANGED <<billing, crowded, broken>>
      BY <2>7 DEF TakeTask
    <3> HIDE DEF g
    <3> QED BY <1>2, <3>1, <3>2
  <2>8. ASSUME NEW xs, BulkSendEmails(w, xs)
        PROVE  Done /\ UNCHANGED <<billing, crowded, broken>>
    <3>1. PICK x : Begin(w, [Idle EXCEPT !.at = "send", !.x = x, !.xs = Addressed(xs)])
      BY <2>8 DEF BulkSendEmails
    <3> DEFINE g == [Idle EXCEPT !.at = "send", !.x = x, !.xs = Addressed(xs)]
    <3>2. g.at = "send"
      BY DEF Idle
    <3>3. Begin(w, g) /\ UNCHANGED <<billing, crowded, broken>>
      BY <2>8, <3>1 DEF BulkSendEmails
    <3> HIDE DEF g
    <3> QED BY <1>2, <3>2, <3>3
  <2> QED BY <2>1, <2>2, <2>3, <2>4, <2>5, <2>6, <2>7, <2>8
          DEF Requests, CreateRequests, UpdateRequests, AssignRequests, JobRequests,
              RescoreRequests, MailRequests, Tasks
<1>6. RecordsStep(w) => Done /\ UNCHANGED <<billing, crowded, broken>>
  <2>1. RecordsStep(w) => Aside(handler[w])
    BY DEF RecordsStep, FindOwn, CreateOwn, Lookup, SaveCandidate, Assign, Counting, Checking
  <2> HIDE DEF Done, Aside
  <2> QED BY <1>3, <1>4, <2>1 DEF RecordsStep, FindOwn, CreateOwn, Lookup, SaveCandidate, Assign
<1>7. RescoreStep(w) \/ RescoringStops(w) => Done /\ UNCHANGED <<billing, crowded, broken>>
  <2>1. RescoreStep(w) \/ RescoringStops(w) => Aside(handler[w])
    BY DEF RescoreStep, RescoringStops, ChangeJob, ListAssigned, Enqueue, EnqueueOne, Triggering,
           Counting, Checking
  <2>2. ASSUME ListAssigned(w), ~End(w)
        PROVE  Done
    <3>1. handler' = [handler EXCEPT ![w].at = "enqueue", ![w].xs = AssignedTo(handler[w].j)]
      BY <2>2 DEF ListAssigned
    <3>2. handler'[w].at = "enqueue" /\ \A v \in Workers \ {w} : handler'[v] = handler[v]
      BY <1>1, <3>1 DEF Handler
    <3>3. Aside(handler[w])
      BY <2>1, <2>2 DEF RescoreStep
    <3> QED BY <3>2, <3>3 DEF Counting, Checking
  <2> HIDE DEF Done, Aside
  <2> QED BY <1>3, <1>4, <2>1, <2>2
          DEF RescoreStep, RescoringStops, ChangeJob, ListAssigned, Enqueue, EnqueueOne
<1>8. ScoreStep(w) \/ TimeOut(w) => Done /\ UNCHANGED <<billing, crowded, broken>>
  <2>1. ScoreStep(w) \/ TimeOut(w) => Aside(handler[w])
    BY DEF ScoreStep, ReadCandidate, ReadJob, AskAi, SaveRow, CreateRow, SaveOverall, TimeOut,
           Scoring, Counting, Checking
  <2>2. ScoringThrew(w) => End(w)
    BY DEF ScoringThrew
  <2>3. ASSUME NEW at \in {"readJob", "ask"} \cup Scoring, handler'[w].at = at, Aside(handler[w]),
               \A v \in Workers \ {w} : handler'[v] = handler[v]
        PROVE  Done
    BY <2>3 DEF Scoring, Counting, Checking
  <2>4. ReadCandidate(w) /\ ~End(w) => Done
    <3> SUFFICES ASSUME ReadCandidate(w), ~End(w) PROVE Done
      OBVIOUS
    <3>1. handler' = [handler EXCEPT ![w].at = "readJob", ![w].mine = candidates[handler[w].x].job]
      BY <2>2 DEF ReadCandidate
    <3>2. handler'[w].at = "readJob" /\ \A v \in Workers \ {w} : handler'[v] = handler[v]
      BY <1>1, <3>1 DEF Handler
    <3> QED BY <2>1, <2>3, <3>2 DEF ScoreStep
  <2>5. ReadJob(w) => Done
    <3> SUFFICES ASSUME ReadJob(w) PROVE Done
      OBVIOUS
    <3>1. handler'[w].at = "ask" /\ \A v \in Workers \ {w} : handler'[v] = handler[v]
      BY <1>1 DEF ReadJob, Handler
    <3> QED BY <2>1, <2>3, <3>1 DEF ScoreStep
  <2>6. TimeOut(w) => Done
    <3> SUFFICES ASSUME TimeOut(w) PROVE Done
      OBVIOUS
    <3>1. /\ handler'[w].at = handler[w].at /\ handler[w].at \in Scoring
          /\ \A v \in Workers \ {w} : handler'[v] = handler[v]
      BY <1>1 DEF TimeOut, Handler
    <3> QED BY <2>1, <2>3, <3>1
  <2>7. ReadCandidate(w) => Done /\ UNCHANGED <<billing, crowded, broken>>
    <3> HIDE DEF Done, Aside
    <3> QED BY <1>4, <2>1, <2>4 DEF ReadCandidate, ScoreStep
  <2>8. ReadJob(w) \/ TimeOut(w) => Done /\ UNCHANGED <<billing, crowded, broken>>
    <3> HIDE DEF Done, Aside
    <3> QED BY <2>5, <2>6 DEF ReadJob, TimeOut
  <2>9. AskAi(w) \/ SaveRow(w) \/ CreateRow(w) \/ SaveOverall(w)
           => Done /\ UNCHANGED <<billing, crowded, broken>>
    <3> HIDE DEF Done, Aside
    <3> QED BY <1>3, <1>4, <2>1, <2>2 DEF AskAi, SaveRow, CreateRow, SaveOverall, ScoreStep
  <2> HIDE DEF Done, Aside
  <2> QED BY <2>7, <2>8, <2>9 DEF ScoreStep
<1>9. MailStep(w) => Done /\ UNCHANGED <<billing, crowded, broken>>
  <2>1. MailStep(w) => Aside(handler[w])
    BY DEF MailStep, Send, LogMail, ChargeMail, LogAction, Counting, Checking
  <2>2. NextMail(w) /\ Aside(handler[w]) => Done
    <3> SUFFICES ASSUME NextMail(w), Aside(handler[w]), ~End(w) PROVE Done
      BY <1>4
    <3>1. PICK x : handler' = [handler EXCEPT ![w].at = "send", ![w].x = x,
                                              ![w].xs = handler[w].xs \ {handler[w].x}]
      BY DEF NextMail
    <3>2. handler'[w].at = "send" /\ \A v \in Workers \ {w} : handler'[v] = handler[v]
      BY <1>1, <3>1 DEF Handler
    <3> QED BY <3>2 DEF Counting, Checking
  <2> HIDE DEF Done, Aside
  <2> QED BY <1>3, <1>4, <2>1, <2>2 DEF MailStep, Send, LogMail, ChargeMail, LogAction
<1>10. Done /\ UNCHANGED <<billing, crowded, broken>>
  <2> HIDE DEF Done
  <2> QED BY <1>5, <1>6, <1>7, <1>8, <1>9
<1> QED BY <1>10

\* What an upload does to its handler.
LEMMA UploadMoves ==
    ASSUME Inv, NEW w \in Workers, UploadStep(w)
    PROVE  /\ \A v \in Workers \ {w} : handler'[v] = handler[v]
           /\ handler[w].at \in {"hint", "parse", "find", "create"}
           /\ handler'[w].at \in {"parse", "find", "create", "track", "idle"}
           /\ UNCHANGED <<billing, crowded, broken>>
<1>1. Idle.at = "idle" /\ handler[w] \in Handler /\ handler \in [Workers -> Handler]
  BY IdleIsOK, Handlers DEF Inv
<1>2. End(w) => handler'[w].at = "idle" /\ \A v \in Workers \ {w} : handler'[v] = handler[v]
  BY <1>1 DEF End
<1>3. ASSUME NEW statement \in {"parse", "create"}, Goto(w, statement)
      PROVE  handler'[w].at = statement /\ \A v \in Workers \ {w} : handler'[v] = handler[v]
  BY <1>1, <1>3 DEF Goto, Handler
<1>4. Parse(w) => /\ handler'[w].at \in {"find", "create"}
                  /\ \A v \in Workers \ {w} : handler'[v] = handler[v]
  BY <1>1 DEF Parse, Handler
<1>5. CreateUploaded(w) => /\ handler'[w].at = "track"
                           /\ \A v \in Workers \ {w} : handler'[v] = handler[v]
  BY <1>1 DEF CreateUploaded, Handler
<1> QED BY <1>2, <1>3, <1>4, <1>5 DEF UploadStep, Hint, Parse, FindUploaded, CreateUploaded, history

LEMMA CountedMoves ==
    ASSUME Inv, NEW w \in Workers, Counted(w)
    PROVE  /\ \A v \in Workers \ {w} : handler'[v] = handler[v]
           /\ handler'[w].at \in {"idle", "read"}
<1>1. Idle.at = "idle" /\ handler \in [Workers -> Handler]
  BY IdleIsOK DEF Inv
<1>2. [Idle EXCEPT !.at = "read", !.x = handler[w].x, !.j = handler[w].j].at = "read"
  BY DEF Idle
<1> QED BY <1>1, <1>2 DEF Counted, End

\* What counting a CV and checking the usage do to their handler.
LEMMA CheckMoves ==
    ASSUME Inv, NEW w \in Workers,
           \/ Check(w) \/ Sum(w) \/ FindTracker(w) \/ NewTracker(w) \/ Notify(w) \/ Flag(w)
           \/ CountingFails(w)
    PROVE  /\ \A v \in Workers \ {w} : handler'[v] = handler[v]
           /\ handler[w].at \in Checking \cup {"track", "record"}
           /\ handler'[w].at \in Checking \cup {"idle", "read"}
           /\ UNCHANGED <<usage, period, limit, crowded>>
<1>1. Idle.at = "idle" /\ handler[w] \in Handler /\ handler \in [Workers -> Handler]
  BY IdleIsOK, Handlers DEF Inv
<1>2. CountingThrew(w) => handler'[w].at = "idle" /\ \A v \in Workers \ {w} : handler'[v] = handler[v]
  BY <1>1 DEF CountingThrew, End
<1>3. Goto(w, "newTracker") => /\ handler'[w].at = "newTracker"
                               /\ \A v \in Workers \ {w} : handler'[v] = handler[v]
  BY <1>1 DEF Goto, Handler
<1>4. Goto(w, "flag") => /\ handler'[w].at = "flag"
                         /\ \A v \in Workers \ {w} : handler'[v] = handler[v]
  BY <1>1 DEF Goto, Handler
<1> USE DEF billing, history
<1>5. ASSUME Check(w) \/ Sum(w)
      PROVE  /\ \A v \in Workers \ {w} : handler'[v] = handler[v]
             /\ handler[w].at \in {"check", "sum"} /\ handler'[w].at \in {"sum", "findTracker"}
             /\ UNCHANGED <<usage, period, limit, crowded>>
  BY <1>1, <1>5 DEF Check, Sum, Handler
<1>6. ASSUME FindTracker(w)
      PROVE  /\ \A v \in Workers \ {w} : handler'[v] = handler[v]
             /\ handler[w].at = "findTracker" /\ handler'[w].at \in {"newTracker", "notify"}
             /\ UNCHANGED <<usage, period, limit, crowded>>
  BY <1>1, <1>3, <1>6 DEF FindTracker, Handler
<1>7. ASSUME NewTracker(w)
      PROVE  /\ \A v \in Workers \ {w} : handler'[v] = handler[v]
             /\ handler[w].at = "newTracker" /\ handler'[w].at \in {"notify", "idle"}
             /\ UNCHANGED <<usage, period, limit, crowded>>
  BY <1>1, <1>2, <1>7 DEF NewTracker, Handler
<1>8. ASSUME Notify(w) \/ Flag(w)
      PROVE  /\ \A v \in Workers \ {w} : handler'[v] = handler[v]
             /\ handler[w].at \in {"notify", "flag"} /\ handler'[w].at \in {"flag", "idle", "read"}
             /\ UNCHANGED <<usage, period, limit, crowded>>
  BY <1>4, <1>8, CountedMoves DEF Notify, Flag
<1>9. ASSUME CountingFails(w)
      PROVE  /\ \A v \in Workers \ {w} : handler'[v] = handler[v]
             /\ handler[w].at \in Checking \cup {"track", "record"} /\ handler'[w].at = "idle"
             /\ UNCHANGED <<usage, period, limit, crowded>>
  BY <1>2, <1>9 DEF CountingFails
<1> QED BY <1>5, <1>6, <1>7, <1>8, <1>9 DEF Checking

\* A handler that counts in no period it did not count in before.
LEMMA LimitStays ==
    ASSUME LimitInv, NEW w \in Workers,
           \A v \in Workers \ {w} : handler'[v] = handler[v],
           \A p \in Periods : CountsIn(w, p)' => CountsIn(w, p),
           handler'[w].at = "record" => handler'[w].p <= period,
           UNCHANGED <<usage, period, limit, crowded>>
    PROVE  LimitInv'
<1>1. \A v \in Workers, p \in Periods : CountsIn(v, p)' => CountsIn(v, p)
  BY DEF CountsIn
<1> QED BY <1>1 DEF LimitInv

LEMMA LimitKept == Inv /\ LimitInv /\ [Next]_vars => LimitInv'
<1> SUFFICES ASSUME Inv, LimitInv, [Next]_vars PROVE LimitInv'
  OBVIOUS
<1>1. /\ usage \in [Periods -> Nat] /\ period \in Periods /\ limit \in Nat \ {0}
      /\ handler \in [Workers -> Handler] /\ \A p \in Periods : p \in Nat
  BY LimitAssumption DEF Inv, TablesOK, Periods
<1>2. ASSUME NEW w \in Workers,
             \/ Requests(w) \/ RecordsStep(w) \/ RescoreStep(w) \/ ScoreStep(w) \/ MailStep(w)
             \/ RescoringStops(w) \/ TimeOut(w)
      PROVE  LimitInv'
  <2>1. handler'[w].at \notin Counting /\ UNCHANGED <<usage, period, limit, crowded>>
    BY <1>2, AsideSteps DEF billing
  <2>2. \A p : ~CountsIn(w, p)'
    BY <2>1 DEF CountsIn
  <2>3. handler'[w].at # "record"
    BY <2>1 DEF Counting
  <2> QED BY <1>2, <2>1, <2>2, <2>3, AsideSteps, LimitStays
<1>3. ASSUME NEW w \in Workers, UploadStep(w) PROVE LimitInv'
  <2>1. /\ \A v \in Workers \ {w} : handler'[v] = handler[v]
        /\ handler[w].at \in {"hint", "parse", "find", "create"}
        /\ handler'[w].at \in {"parse", "find", "create", "track", "idle"}
        /\ UNCHANGED <<usage, period, limit, crowded>>
    BY <1>3, UploadMoves DEF billing
  <2>2. \A p \in Periods : CountsIn(w, p)' => CountsIn(w, p)
    BY <2>1 DEF CountsIn, Counting
  <2> QED BY <2>1, <2>2, LimitStays
<1>4. ASSUME NEW w \in Workers, Track(w) PROVE LimitInv'
  <2>1. /\ \A v \in Workers \ {w} : handler'[v] = handler[v]
        /\ handler[w].at = "track" /\ handler'[w].at = "record" /\ handler'[w].p = period
        /\ UNCHANGED <<usage, period, limit, crowded>>
    BY <1>1, <1>4 DEF Track, Handler, billing, history
  <2>2. \A p \in Periods : CountsIn(w, p)' => CountsIn(w, p)
    BY <2>1 DEF CountsIn, Counting
  <2> QED BY <1>1, <2>1, <2>2, LimitStays
<1>5. ASSUME NEW w \in Workers, Record(w) PROVE LimitInv'
  <2> DEFINE q == handler[w].p
  <2>1. handler[w].at = "record" /\ q \in Periods /\ q <= period
    BY <1>5, Handlers DEF Record, HandlerOK, LimitInv
  <2>2. /\ usage' = [usage EXCEPT ![q] = @ + 1]
        /\ handler'[w].at = "check" /\ \A v \in Workers \ {w} : handler'[v] = handler[v]
        /\ UNCHANGED <<period, limit, crowded>>
    BY <1>1, <1>5 DEF Record, Goto, Handler, history
  <2>3. CountsIn(w, q)
    BY <2>1 DEF CountsIn, Counting
  <2>4. \A v \in Workers, p \in Periods : CountsIn(v, p)' => v # w /\ CountsIn(v, p)
    BY <2>2 DEF CountsIn, Counting
  <2>5. ASSUME NEW p \in Periods \ crowded
        PROVE  /\ usage'[p] <= limit
               /\ \A v \in Workers : CountsIn(v, p)' => usage'[p] < limit
    <3>1. CASE p = q
      <4>1. usage[p] < limit /\ usage'[p] = usage[p] + 1
        BY <1>1, <2>1, <2>2, <2>3, <2>5, <3>1 DEF LimitInv
      <4>2. \A v \in Workers : ~CountsIn(v, p)'
        BY <2>3, <2>4, <2>5, <3>1 DEF LimitInv
      <4> QED BY <1>1, <4>1, <4>2
    <3>2. CASE p # q
      BY <1>1, <2>2, <2>4, <2>5, <3>2 DEF LimitInv
    <3> QED BY <3>1, <3>2
  <2>6. \A p \in Periods : p > period' => usage'[p] = 0
    BY <1>1, <2>1, <2>2 DEF LimitInv
  <2>7. \A v \in Workers : handler'[v].at = "record" => handler'[v].p <= period'
    BY <2>2 DEF LimitInv
  <2>8. \A p \in Periods \ crowded' : \A u, v \in Workers : CountsIn(u, p)' /\ CountsIn(v, p)' => u = v
    BY <2>2, <2>4 DEF LimitInv
  <2> QED BY <2>2, <2>5, <2>6, <2>7, <2>8 DEF LimitInv
<1>6. ASSUME NEW w \in Workers,
             \/ Check(w) \/ Sum(w) \/ FindTracker(w) \/ NewTracker(w) \/ Notify(w) \/ Flag(w)
             \/ CountingFails(w)
      PROVE  LimitInv'
  <2>1. handler'[w].at \notin Counting
    BY <1>6, CheckMoves DEF Checking, Counting
  <2>2. \A p : ~CountsIn(w, p)'
    BY <2>1 DEF CountsIn
  <2>3. handler'[w].at # "record"
    BY <2>1 DEF Counting
  <2> QED BY <1>6, <2>2, <2>3, CheckMoves, LimitStays
\* A batch of one, when no upload is under way, leaves its period uncrowded.
<1>7. ASSUME UploadRequests PROVE LimitInv'
  <2>1. PICK W \in SUBSET Workers, j \in Jobs \cup {None} : Allowed /\ Admit(W, j)
    BY <1>7 DEF UploadRequests, Upload
  <2>2. /\ \A w \in Workers : handler'[w] = IF w \in W THEN [Idle EXCEPT !.at = "hint", !.j = j]
                                           ELSE handler[w]
        /\ usage[period] < limit /\ UNCHANGED <<usage, period, limit>>
        /\ crowded' = IF Cardinality(W) > 1 \/ \E v \in Workers : handler[v].at \in Counting
                      THEN crowded \cup {period} ELSE crowded
    BY <2>1 DEF Allowed, Admit, billing
  <2>3. [Idle EXCEPT !.at = "hint", !.j = j].at = "hint"
    BY DEF Idle
  <2>4. \A w \in Workers : handler'[w].at = "record" => w \notin W /\ handler'[w] = handler[w]
    BY <2>2, <2>3
  <2>5. \A w \in Workers, p \in Periods : CountsIn(w, p)' => (w \in W /\ p = period) \/ CountsIn(w, p)
    BY <2>2, <2>3, <2>4 DEF CountsIn
  <2>6. ASSUME period \notin crowded', NEW w \in Workers, CountsIn(w, period)'
        PROVE  W = {w}
    <3>1. ~(Cardinality(W) > 1 \/ \E v \in Workers : handler[v].at \in Counting)
      BY <2>2, <2>6
    <3>2. ~(Cardinality(W) > 1) /\ \A v \in Workers : ~CountsIn(v, period)
      BY <3>1 DEF CountsIn
    <3>3. w \in W
      <4>1. PICK q \in Periods : q = period
        BY <1>1
      <4>2. period' = q
        BY <2>2, <4>1
      <4>3. CountsIn(w, q)'
        BY <2>6, <4>2 DEF CountsIn
      <4>4. ~CountsIn(w, q)
        BY <3>2, <4>1
      <4> QED BY <2>5, <4>3, <4>4
    <3>4. IsFiniteSet(W) /\ Cardinality(W) \in Nat /\ Cardinality(W) # 0
      BY <3>3, FiniteWorkers, FS_Subset, FS_CardinalityType, FS_EmptySet
    <3>5. Cardinality(W) = 1
      BY <3>2, <3>4
    <3> QED BY <3>3, <3>4, <3>5, FS_Singleton
  <2>7. crowded \subseteq crowded'
    BY <2>2
  <2>8. ASSUME NEW p \in Periods \ crowded', NEW w \in Workers, CountsIn(w, p)'
        PROVE  /\ usage'[p] < limit'
               /\ \A v \in Workers : CountsIn(v, p)' => v = w
    <3>1. CASE p = period
      BY <2>2, <2>6, <2>8, <3>1
    <3>2. CASE p # period
      BY <2>2, <2>5, <2>7, <2>8, <3>2 DEF LimitInv
    <3> QED BY <3>1, <3>2
  <2>9. /\ \A p \in Periods : p > period' => usage'[p] = 0
        /\ \A p \in Periods \ crowded' : usage'[p] <= limit'
        /\ \A w \in Workers : handler'[w].at = "record" => handler'[w].p <= period'
    BY <2>2, <2>4, <2>7 DEF LimitInv
  <2> QED BY <2>8, <2>9 DEF LimitInv
\* So does one upload that goes over into the next period.
<1>8. ASSUME Renew PROVE LimitInv'
  <2> DEFINE under == {w \in Workers : handler[w].at \in Counting}
  <2>1. /\ period' = period + 1 /\ UNCHANGED <<usage, limit, handler>>
        /\ crowded' = IF Cardinality(under) > 1 THEN crowded \cup {period + 1} ELSE crowded
    BY <1>8 DEF Renew
  <2>2. period + 1 \in Periods
    BY <1>1, <1>8, RecruitingBoundAssumption DEF Renew, Periods
  <2>3. ASSUME NEW p \in Periods \ crowded', NEW w \in Workers, CountsIn(w, p)'
        PROVE  /\ usage'[p] < limit'
               /\ \A v \in Workers : CountsIn(v, p)' => v = w
    <3>1. CASE p = period + 1
      <4>1. ~(Cardinality(under) > 1) /\ w \in under
        BY <2>1, <2>3, <3>1 DEF CountsIn
      <4>2. IsFiniteSet(under) /\ Cardinality(under) \in Nat /\ Cardinality(under) # 0
        BY <4>1, FiniteWorkers, FS_Subset, FS_CardinalityType, FS_EmptySet
      <4>3. Cardinality(under) = 1
        BY <4>1, <4>2
      <4>4. under = {w}
        BY <4>1, <4>2, <4>3, FS_Singleton
      <4>5. \A v \in Workers : CountsIn(v, p)' => v \in under
        BY <2>1 DEF CountsIn
      <4>6. usage[p] = 0
        BY <1>1, <3>1 DEF LimitInv
      <4> QED BY <1>1, <2>1, <4>4, <4>5, <4>6
    <3>2. CASE p # period + 1
      <4>1. \A v \in Workers : CountsIn(v, p)' => CountsIn(v, p)
        BY <2>1, <3>2 DEF CountsIn
      <4>2. p \notin crowded
        BY <2>1, <2>3
      <4> QED BY <2>1, <2>3, <4>1, <4>2 DEF LimitInv
    <3> QED BY <3>1, <3>2
  <2>4. /\ \A p \in Periods : p > period' => usage'[p] = 0
        /\ \A p \in Periods \ crowded' : usage'[p] <= limit'
        /\ \A w \in Workers : handler'[w].at = "record" => handler'[w].p <= period'
    <3>1. \A w \in Workers : handler[w].at = "record" => handler[w].p \in Nat
      BY <1>1, Handlers DEF HandlerOK
    <3> QED BY <1>1, <2>1, <3>1 DEF LimitInv
  <2> QED BY <2>3, <2>4 DEF LimitInv
<1>9. UNCHANGED <<handler, billing, crowded>> => LimitInv'
  BY DEF LimitInv, CountsIn, billing
<1>10. DeleteEvents \/ StatusEvents \/ UNCHANGED vars => LimitInv'
  BY <1>9 DEF DeleteEvents, StatusEvents, Remove, BulkDelete, SetStatus, vars, history
<1> QED BY <1>2, <1>3, <1>4, <1>5, <1>6, <1>7, <1>8, <1>10
        DEF Next, Continue, CountStep, Faults

LEMMA LimitBegins == Init => LimitInv
<1> SUFFICES ASSUME Init PROVE LimitInv
  OBVIOUS
<1>1. \A w \in Workers : handler[w].at = "idle"
  BY IdleIsOK DEF Init
<1>2. limit \in Nat \ {0} /\ period = 1 /\ \A p \in Periods : p \in Nat \ {0}
  BY LimitAssumption DEF Init, Periods
<1> QED BY <1>1, <1>2 DEF Init, LimitInv, CountsIn, Counting

\* The CVs of a period exceed the limit of the plan only if several uploads were let in
\* together.
THEOREM OvershootsNeedCrowds == Spec => []OvershootNeedsCrowd
<1>1. Inv /\ LimitInv => OvershootNeedsCrowd
  BY LimitAssumption DEF Inv, TablesOK, LimitInv, OvershootNeedsCrowd
<1> QED BY <1>1, LimitBegins, LimitKept, RecruitingInvariant, PTL DEF Spec

-----------------------------------------------------------------------------
(* The announcement of the limit *)

\* Who is to see that the limit of p is reached: if it has been read, as a usage that
\* reaches it.
Sees(w, p) ==
    /\ handler[w].at \in Checking /\ handler[w].p = p
    /\ handler[w].at \in {"check", "sum"} \/ handler[w].n >= limit

\* What is flagged, or was read as flagged, has been announced.
AnnounceInv ==
    /\ \A p \in Periods : tracker[p] = None \/ tracker[p] \subseteq Told(p)
    /\ \A w \in Workers : handler[w].at \in {"notify", "flag"} => handler[w].seen \subseteq Told(handler[w].p)
    /\ \A w \in Workers : handler[w].at = "flag" => Highest(Due(handler[w])) \in Told(handler[w].p)
    /\ \A p \in Periods \ broken : usage[p] >= limit =>
          100 \in Told(p) \/ \E w \in Workers : Sees(w, p)

LEMMA ReachedIsAHundred == ASSUME NEW n \in Nat, n >= limit, limit \in Nat \ {0} PROVE Percent(n) >= 100
<1> DEFINE a == 200 * n + limit
           d == 2 * limit
           q == a \div d
<1>1. a \in Nat /\ d \in Nat /\ d > 0 /\ q \in Int
  OBVIOUS
<1>2. 100 * d <= a
  OBVIOUS
<1>3. a < d * (q + 1)
  OBVIOUS
<1>4. q >= 100
  <2> HIDE DEF a, d, q
  <2>1. SUFFICES ASSUME q < 100 PROVE FALSE
    BY <1>1
  <2>2. d * (q + 1) <= d * 100
    BY <1>1, <2>1
  <2> QED BY <1>1, <1>2, <1>3, <2>2
<1> QED BY <1>4 DEF Percent

\* A step of w that takes back no announcement, and leaves its period to somebody.
LEMMA AnnounceMoves ==
    ASSUME Inv, AnnounceInv, NEW w \in Workers,
           \A v \in Workers \ {w} : handler'[v] = handler[v],
           limit' = limit, broken \subseteq broken',
           \A p \in Periods : Told(p) \subseteq Told(p)',
           \A p \in Periods : tracker'[p] \in {tracker[p], None} \/ tracker'[p] \subseteq Told(p)',
           handler'[w].at \in {"notify", "flag"} => handler'[w].seen \subseteq Told(handler[w].p)',
           handler'[w].at = "flag" => Highest(Due(handler[w]))' \in Told(handler[w].p)',
           \A p \in Periods \ broken' : usage'[p] >= limit => usage[p] >= limit \/ Sees(w, p)',
           \A p \in Periods \ broken' : usage[p] >= limit /\ Sees(w, p)
                                           => Sees(w, p)' \/ 100 \in Told(p)'
    PROVE  AnnounceInv'
<1>1. \A p \in Periods : tracker'[p] = None \/ tracker'[p] \subseteq Told(p)'
  BY DEF AnnounceInv
<1>2. ASSUME NEW v \in Workers, v # w
      PROVE  /\ handler[v].at \in {"notify", "flag"} => Told(handler[v].p) \subseteq Told(handler[v].p)'
             /\ Due(handler[v])' = Due(handler[v])
  <2>1. handler[v].at \in {"notify", "flag"} => handler[v].p \in Periods
    BY DEF Inv, HandlerOK, Checking
  <2>2. handler'[v].p = handler[v].p
    BY <1>2
  <2>3. handler[v].at \in {"notify", "flag"} => Told(handler[v].p) \subseteq Told(handler[v].p)'
    <3> DEFINE p == handler[v].p
    <3>1. PICK q : q = p
      OBVIOUS
    <3>2. p' = q
      BY <2>2, <3>1
    <3>3. Told(p)' = Told(q)'
      BY <3>2 DEF Told
    <3> QED BY <2>1, <3>1, <3>3
  <2>4. Due(handler[v])' = Due(handler[v])
    BY <1>2 DEF Due, Percent
  <2> QED BY <2>3, <2>4
<1>3. \A v \in Workers : handler'[v].at \in {"notify", "flag"}
                             => handler'[v].seen \subseteq Told(handler[v].p)'
  BY <1>2 DEF AnnounceInv
<1>4. \A v \in Workers : handler'[v].at = "flag"
                             => Highest(Due(handler[v]))' \in Told(handler[v].p)'
  <2> SUFFICES ASSUME NEW v \in Workers, v # w, handler'[v].at = "flag"
               PROVE  Highest(Due(handler[v]))' \in Told(handler[v].p)'
    OBVIOUS
  <2>1. Highest(Due(handler[v]))' = Highest(Due(handler[v]))
    BY <1>2 DEF Highest
  <2>2. Highest(Due(handler[v])) \in Told(handler[v].p)
    BY DEF AnnounceInv
  <2>3. Told(handler[v].p) \subseteq Told(handler[v].p)'
    BY <1>2
  <2> QED BY <2>1, <2>2, <2>3
<1>5. ASSUME NEW p \in Periods \ broken', usage'[p] >= limit'
      PROVE  100 \in Told(p)' \/ \E v \in Workers : Sees(v, p)'
  <2>1. \A v \in Workers \ {w} : Sees(v, p) => Sees(v, p)'
    BY DEF Sees
  <2>2. CASE Sees(w, p)'
    BY <2>2
  <2>3. CASE usage[p] >= limit
    <3>1. 100 \in Told(p) \/ \E v \in Workers : Sees(v, p)
      BY <1>5, <2>3 DEF AnnounceInv
    <3> QED BY <1>5, <2>1, <3>1
  <2> QED BY <1>5, <2>2, <2>3
<1> QED BY <1>1, <1>3, <1>4, <1>5 DEF AnnounceInv

\* Checks stand still.
LEMMA AnnounceStands ==
    ASSUME AnnounceInv, UNCHANGED <<usage, limit, tracker, alerts, broken>>,
           \A v \in Workers : handler[v].at \in Checking \/ handler'[v].at \in Checking
               => handler'[v] = handler[v]
    PROVE  AnnounceInv'
<1>1. \A p : Told(p)' = Told(p)
  BY DEF Told
<1>2. ASSUME NEW v \in Workers, handler'[v].at \in {"notify", "flag"}
      PROVE  /\ handler'[v] = handler[v]
             /\ Told(handler[v].p)' = Told(handler[v].p)
             /\ Highest(Due(handler[v]))' = Highest(Due(handler[v]))
  <2>1. handler'[v] = handler[v]
    BY <1>2 DEF Checking
  <2>2. Due(handler[v])' = Due(handler[v])
    BY <2>1 DEF Due, Percent
  <2>3. Told(handler[v].p)' = Told(handler[v].p)
    BY <2>1 DEF Told
  <2> QED BY <2>1, <2>2, <2>3 DEF Highest
<1>3. \A v \in Workers, p \in Periods : Sees(v, p) => Sees(v, p)'
  BY DEF Sees
<1>4. \A p \in Periods : tracker'[p] = None \/ tracker'[p] \subseteq Told(p)'
  BY <1>1 DEF AnnounceInv
<1>5. \A v \in Workers : handler'[v].at \in {"notify", "flag"}
                             => handler'[v].seen \subseteq Told(handler[v].p)'
  BY <1>2 DEF AnnounceInv
<1>6. \A v \in Workers : handler'[v].at = "flag"
                             => Highest(Due(handler[v]))' \in Told(handler[v].p)'
  BY <1>2 DEF AnnounceInv
<1>7. \A p \in Periods \ broken' : usage'[p] >= limit' =>
         100 \in Told(p)' \/ \E v \in Workers : Sees(v, p)'
  BY <1>1, <1>3 DEF AnnounceInv
<1> QED BY <1>4, <1>5, <1>6, <1>7 DEF AnnounceInv

LEMMA OneMoreTold ==
    ASSUME Inv, NEW q \in Periods, NEW t \in Thresholds, alerts' = [alerts EXCEPT ![q] = Append(@, t)]
    PROVE  /\ Told(q)' = Told(q) \cup {t}
           /\ \A p \in Periods : Told(p) \subseteq Told(p)'
<1>1. alerts \in [Periods -> Seq(Thresholds)]
  BY DEF Inv, TablesOK
<1>2. alerts'[q] = Append(alerts[q], t) /\ \A p \in Periods \ {q} : alerts'[p] = alerts[p]
  BY <1>1
<1>3. Told(q)' = Told(q) \cup {t}
  <2>1. alerts[q] \in Seq(Thresholds)
    BY <1>1
  <2>2. {Append(alerts[q], t)[i] : i \in DOMAIN Append(alerts[q], t)}
            = {alerts[q][i] : i \in DOMAIN alerts[q]} \cup {t}
    <3>1. /\ DOMAIN Append(alerts[q], t) = 1..Len(alerts[q]) + 1
          /\ DOMAIN alerts[q] = 1..Len(alerts[q]) /\ Len(alerts[q]) \in Nat
          /\ Append(alerts[q], t)[Len(alerts[q]) + 1] = t
          /\ \A i \in 1..Len(alerts[q]) : Append(alerts[q], t)[i] = alerts[q][i]
      BY <2>1
    <3> QED BY <3>1
  <2> QED BY <1>2, <2>2 DEF Told
<1>4. \A p \in Periods \ {q} : Told(p)' = Told(p)
  BY <1>2 DEF Told
<1> QED BY <1>3, <1>4

\* Counting a CV and reading the usage.
LEMMA ReadingsAnnounce ==
    ASSUME Inv, AnnounceInv, NEW w \in Workers, Record(w) \/ Check(w) \/ Sum(w)
    PROVE  AnnounceInv'
<1>1. /\ usage \in [Periods -> Nat] /\ limit \in Nat \ {0} /\ period \in Periods
      /\ handler \in [Workers -> Handler] /\ handler[w] \in Handler
  BY LimitAssumption, Handlers DEF Inv, TablesOK
<1>2. /\ \A v \in Workers \ {w} : handler'[v] = handler[v]
      /\ handler'[w].at \in {"check", "sum", "findTracker"}
      /\ UNCHANGED <<limit, tracker, alerts>> /\ broken \subseteq broken'
  BY <1>1 DEF Record, Check, Sum, Goto, Handler, billing, history
<1>3. \A p \in Periods : Told(p)' = Told(p)
  BY <1>2 DEF Told
<1>4. ASSUME NEW p \in Periods \ broken', usage'[p] >= limit
      PROVE  usage[p] >= limit \/ Sees(w, p)'
  <2>1. CASE Record(w)
    <3>1. /\ usage' = [usage EXCEPT ![handler[w].p] = @ + 1]
          /\ handler'[w].at = "check" /\ handler'[w].p = handler[w].p
      BY <1>1, <2>1 DEF Record, Goto, Handler
    <3>2. CASE p = handler[w].p
      BY <3>1, <3>2 DEF Sees, Checking
    <3>3. CASE p # handler[w].p
      BY <1>1, <1>4, <3>1, <3>3
    <3> QED BY <3>2, <3>3
  <2>2. CASE Check(w) \/ Sum(w)
    BY <1>4, <2>2 DEF Check, Sum, billing
  <2> QED BY <2>1, <2>2
<1>5. ASSUME NEW p \in Periods \ broken', usage[p] >= limit, Sees(w, p)
      PROVE  Sees(w, p)'
  <2>1. CASE Record(w)
    BY <1>5, <2>1 DEF Record, Sees, Checking
  <2>2. CASE Check(w)
    <3>1. p = period
      BY <1>5, <2>2 DEF Check, Sees
    <3>2. handler'[w].at = "sum" /\ handler'[w].p = period
      BY <1>1, <2>2 DEF Check, Handler
    <3> QED BY <3>1, <3>2 DEF Sees, Checking
  <2>3. CASE Sum(w)
    <3>1. /\ handler'[w].at = "findTracker" /\ handler'[w].p = p /\ handler'[w].n = usage[p]
          /\ UNCHANGED <<usage, broken>>
      BY <1>1, <1>5, <2>3 DEF Sum, Sees, Handler, billing
    <3> QED BY <1>2, <1>5, <3>1 DEF Sees, Checking
  <2> QED BY <2>1, <2>2, <2>3
<1>6. \A p \in Periods \ broken' : usage'[p] >= limit => usage[p] >= limit \/ Sees(w, p)'
  BY <1>4
<1>7. \A p \in Periods \ broken' : usage[p] >= limit /\ Sees(w, p) => Sees(w, p)' \/ 100 \in Told(p)'
  BY <1>3, <1>5
<1>8. handler'[w].at \notin {"notify", "flag"}
  BY <1>2
<1>9. \A p \in Periods : tracker'[p] \in {tracker[p], None}
  BY <1>2
<1> QED BY <1>2, <1>3, <1>6, <1>7, <1>8, <1>9, AnnounceMoves

\* Once the limit is read as reached, its alert is due unless it was sent.
LEMMA HundredIsDue ==
    ASSUME Inv, AnnounceInv, NEW w \in Workers, handler[w].at \in {"notify", "flag"},
           handler[w].n >= limit
    PROVE  \/ 100 \in Told(handler[w].p)
           \/ 100 \in Due(handler[w]) /\ Highest(Due(handler[w])) = 100
<1>1. handler[w].n \in Nat /\ limit \in Nat \ {0}
  BY LimitAssumption, Handlers DEF Inv, TablesOK, Handler
<1>2. Percent(handler[w].n) >= 100
  BY <1>1, ReachedIsAHundred
<1>3. 100 \in handler[w].seen \/ 100 \in Due(handler[w])
  BY <1>2 DEF Due, Thresholds
<1>4. CASE 100 \in handler[w].seen
  BY <1>4 DEF AnnounceInv
<1>5. CASE 100 \in Due(handler[w])
  <2>1. Due(handler[w]) \in SUBSET Thresholds
    BY DEF Due
  <2>2. Highest(Due(handler[w])) \in Due(handler[w]) /\ 100 <= Highest(Due(handler[w]))
    BY <1>5, <2>1, HighestIsMember
  <2>3. Highest(Due(handler[w])) \in {80, 90, 100}
    BY <2>1, <2>2 DEF Thresholds
  <2> QED BY <1>5, <2>2, <2>3
<1> QED BY <1>3, <1>4, <1>5

\* The tracker, and what is sent and flagged.
LEMMA TrackingAnnounces ==
    ASSUME Inv, AnnounceInv, NEW w \in Workers, FindTracker(w) \/ NewTracker(w) \/ CountingFails(w)
    PROVE  AnnounceInv'
<1> DEFINE p == handler[w].p
<1>1. handler \in [Workers -> Handler] /\ handler[w] \in Handler /\ Idle.at = "idle"
      /\ tracker \in [Periods -> (SUBSET Thresholds) \cup {None}]
  BY IdleIsOK, Handlers DEF Inv, TablesOK
<1>2. handler[w].at \in Checking => p \in Periods /\ p # 0
  BY Handlers DEF HandlerOK, Periods
<1>3. \/ /\ handler[w].at \in {"findTracker", "newTracker"}
         /\ handler'[w].at = "newTracker" /\ handler'[w].p = p /\ handler'[w].n = handler[w].n
         /\ UNCHANGED <<tracker, broken>>
      \/ /\ handler[w].at = "findTracker" /\ tracker[p] # None
         /\ handler'[w].at = "notify" /\ handler'[w].p = p /\ handler'[w].n = handler[w].n
         /\ handler'[w].seen = tracker[p]
         /\ UNCHANGED <<tracker, broken>>
      \/ /\ handler[w].at = "newTracker" /\ tracker' = [tracker EXCEPT ![p] = {}]
         /\ handler'[w].at = "notify" /\ handler'[w].p = p /\ handler'[w].n = handler[w].n
         /\ handler'[w].seen = {}
         /\ UNCHANGED broken
      \/ /\ handler[w].at \in Checking \cup {"track", "record"}
         /\ handler'[w].at = "idle" /\ UNCHANGED tracker
         /\ broken' = broken \cup {period, IF p = 0 THEN period ELSE p}
  <2>1. FindTracker(w) /\ tracker[p] = None =>
            /\ handler[w].at = "findTracker"
            /\ handler'[w].at = "newTracker" /\ handler'[w].p = p /\ handler'[w].n = handler[w].n
            /\ UNCHANGED <<tracker, broken>>
    BY <1>1 DEF FindTracker, Goto, Handler, billing, history
  <2>2. FindTracker(w) /\ tracker[p] # None =>
            /\ handler[w].at = "findTracker"
            /\ handler'[w].at = "notify" /\ handler'[w].p = p /\ handler'[w].n = handler[w].n
            /\ handler'[w].seen = tracker[p]
            /\ UNCHANGED <<tracker, broken>>
    BY <1>1 DEF FindTracker, Handler, billing, history
  <2>3. CountingThrew(w) => handler'[w].at = "idle"
                            /\ broken' = broken \cup {period, IF p = 0 THEN period ELSE p}
    BY <1>1 DEF CountingThrew, End
  <2>4. CASE FindTracker(w)
    BY <2>1, <2>2, <2>4
  <2>5. CASE CountingFails(w)
    BY <2>3, <2>5 DEF CountingFails, billing
  <2>6. CASE NewTracker(w) /\ tracker[p] # None
    BY <2>3, <2>6 DEF NewTracker, Checking
  <2>7. CASE NewTracker(w) /\ tracker[p] = None
    BY <1>1, <2>7 DEF NewTracker, Handler
  <2> QED BY <2>4, <2>5, <2>6, <2>7
<1>4. /\ \A v \in Workers \ {w} : handler'[v] = handler[v]
      /\ UNCHANGED <<usage, limit, alerts>>
  BY CheckMoves DEF FindTracker, NewTracker, CountingFails, billing
<1>5. \A q \in Periods : Told(q)' = Told(q)
  BY <1>4 DEF Told
<1>6. handler'[w].at = "notify" => handler'[w].seen \subseteq Told(handler[w].p)'
  <2> SUFFICES ASSUME handler'[w].at = "notify" PROVE handler'[w].seen \subseteq Told(handler[w].p)'
    OBVIOUS
  <2>1. handler[w].at \in Checking /\ handler'[w].p = p
    BY <1>3 DEF Checking
  <2>2. Told(handler[w].p)' = Told(p)
    BY <1>4, <2>1 DEF Told
  <2> QED BY <1>2, <1>3, <2>1, <2>2 DEF AnnounceInv
<1>7. \A q \in Periods : tracker'[q] \in {tracker[q], None} \/ tracker'[q] \subseteq Told(q)'
  BY <1>1, <1>3
<1>8. \A q \in Periods \ broken' : Sees(w, q) => Sees(w, q)'
  BY <1>2, <1>3, <1>4 DEF Sees, Checking
<1>9. broken \subseteq broken' /\ handler'[w].at # "flag"
  BY <1>3
<1> QED BY <1>4, <1>5, <1>6, <1>7, <1>8, <1>9, AnnounceMoves

LEMMA AlertsAnnounce ==
    ASSUME Inv, AnnounceInv, NEW w \in Workers, Notify(w) \/ Flag(w)
    PROVE  AnnounceInv'
<1> DEFINE p == handler[w].p
           due == Due(handler[w])
<1>1. /\ handler \in [Workers -> Handler] /\ handler[w] \in Handler
      /\ tracker \in [Periods -> (SUBSET Thresholds) \cup {None}]
      /\ p \in Periods /\ handler[w].at \in {"notify", "flag"} /\ tracker[p] # None
      /\ due \in SUBSET Thresholds
  BY Handlers DEF Inv, TablesOK, TrackersOK, HandlerOK, Checking, Notify, Flag, Due
<1>2. due # {} => Highest(due) \in due /\ Highest(due) \in Thresholds
  BY <1>1, HighestIsMember
<1>3. /\ \A v \in Workers \ {w} : handler'[v] = handler[v]
      /\ UNCHANGED <<usage, limit, broken>>
  BY CheckMoves DEF Notify, Flag
<1>4. handler[w].n >= limit => 100 \in Told(p) \/ (100 \in due /\ Highest(due) = 100)
  BY <1>1, HundredIsDue
<1>5. CASE Notify(w) /\ due # {}
  <2>1. handler[w].at = "notify" /\ handler'[w] = [handler[w] EXCEPT !.at = "flag"]
    BY <1>1, <1>5 DEF Notify, Counted, End, Goto
  <2>2. tracker' = tracker /\ alerts' = [alerts EXCEPT ![p] = Append(@, Highest(due))]
    BY <1>5 DEF Notify
  <2>3. Told(p)' = Told(p) \cup {Highest(due)} /\ \A q \in Periods : Told(q) \subseteq Told(q)'
    <3> HIDE DEF p, due
    <3>1. PICK q : q = p
      OBVIOUS
    <3>2. q \in Periods /\ alerts' = [alerts EXCEPT ![q] = Append(@, Highest(due))]
      BY <1>1, <2>2, <3>1
    <3>3. Told(q)' = Told(q) \cup {Highest(due)} /\ \A r \in Periods : Told(r) \subseteq Told(r)'
      BY <1>2, <1>5, <3>2, OneMoreTold
    <3>4. p' = q
      BY <1>1, <2>1, <3>1 DEF p, Handler
    <3>5. Told(p)' = Told(q)'
      BY <3>4 DEF Told
    <3> QED BY <3>1, <3>3, <3>5
  <2>4. /\ handler'[w].at = "flag" /\ handler'[w].p = p /\ handler'[w].n = handler[w].n
        /\ handler'[w].seen = handler[w].seen
    BY <1>1, <2>1 DEF Handler
  <2>5. handler'[w].seen \subseteq Told(handler[w].p)'
    BY <2>1, <2>3, <2>4 DEF AnnounceInv
  <2>6. Highest(Due(handler[w]))' \in Told(handler[w].p)'
    <3>1. Due(handler[w])' = due
      BY <1>3, <2>4 DEF Due, Percent
    <3> QED BY <2>3, <3>1 DEF Highest
  <2>7. \A q \in Periods \ broken' : Sees(w, q) => Sees(w, q)'
    BY <1>3, <2>1, <2>4 DEF Sees, Checking
  <2>8. /\ \A q \in Periods : tracker'[q] \in {tracker[q], None} \/ tracker'[q] \subseteq Told(q)'
        /\ \A q \in Periods \ broken' : usage'[q] >= limit => usage[q] >= limit \/ Sees(w, q)'
        /\ \A q \in Periods \ broken' : usage[q] >= limit /\ Sees(w, q)
                                            => Sees(w, q)' \/ 100 \in Told(q)'
    BY <1>3, <2>2, <2>7
  <2>9. broken \subseteq broken' /\ limit' = limit
    BY <1>3
  <2> HIDE DEF p, due
  <2> QED BY <1>3, <2>3, <2>5, <2>6, <2>8, <2>9, AnnounceMoves
<1>6. CASE Flag(w) \/ (Notify(w) /\ due = {})
  <2>1. alerts' = alerts /\ handler'[w].at \in {"idle", "read"}
    BY <1>6, CountedMoves DEF Flag, Notify
  <2>2. \A q \in Periods : Told(q)' = Told(q)
    BY <2>1 DEF Told
  <2>3. ASSUME NEW q \in Periods
        PROVE  tracker'[q] \in {tracker[q], None} \/ tracker'[q] \subseteq Told(q)'
    <3>1. CASE Notify(w)
      BY <3>1 DEF Notify
    <3>2. CASE Flag(w) /\ q # p
      BY <1>1, <3>2 DEF Flag
    <3>3. CASE Flag(w) /\ q = p
      <4>1. tracker'[q] = tracker[q] \cup {Highest(due)}
        BY <1>1, <3>3 DEF Flag
      <4>2. Highest(due) \in Told(q) /\ tracker[q] \subseteq Told(q)
        BY <1>1, <3>3 DEF Flag, AnnounceInv
      <4> QED BY <2>2, <4>1, <4>2
    <3> QED BY <1>6, <3>1, <3>2, <3>3
  <2>4. ASSUME NEW q \in Periods, Sees(w, q)
        PROVE  100 \in Told(q)'
    <3>1. q = p /\ handler[w].n >= limit
      BY <1>1, <2>4 DEF Sees
    <3>2. CASE Notify(w) /\ due = {}
      BY <1>4, <2>2, <3>1, <3>2
    <3>3. CASE Flag(w)
      BY <1>4, <2>2, <3>1, <3>3 DEF Flag, AnnounceInv
    <3> QED BY <1>6, <3>2, <3>3
  <2>5. handler'[w].at \notin {"notify", "flag"} /\ broken \subseteq broken' /\ limit' = limit
    BY <1>3, <2>1
  <2>6. \A q \in Periods : Told(q) \subseteq Told(q)'
    BY <2>2
  <2>7. \A q \in Periods \ broken' : usage'[q] >= limit => usage[q] >= limit \/ Sees(w, q)'
    BY <1>3
  <2>8. \A q \in Periods \ broken' : usage[q] >= limit /\ Sees(w, q)
                                         => Sees(w, q)' \/ 100 \in Told(q)'
    BY <2>4
  <2> HIDE DEF p, due
  <2> QED BY <1>3, <2>3, <2>5, <2>6, <2>7, <2>8, AnnounceMoves
<1> QED BY <1>5, <1>6

LEMMA AnnounceKept == Inv /\ AnnounceInv /\ [Next]_vars => AnnounceInv'
<1> SUFFICES ASSUME Inv, AnnounceInv, [Next]_vars PROVE AnnounceInv'
  OBVIOUS
<1>1. handler \in [Workers -> Handler] /\ Idle.at = "idle"
  BY IdleIsOK DEF Inv
<1>2. ASSUME NEW w \in Workers,
             \A v \in Workers \ {w} : handler'[v] = handler[v],
             handler[w].at \notin Checking, handler'[w].at \notin Checking,
             UNCHANGED <<billing, broken>>
      PROVE  AnnounceInv'
  BY <1>2, AnnounceStands DEF billing
<1>3. ASSUME NEW w \in Workers,
             \/ Requests(w) \/ RecordsStep(w) \/ RescoreStep(w) \/ ScoreStep(w) \/ MailStep(w)
             \/ RescoringStops(w) \/ TimeOut(w)
      PROVE  AnnounceInv'
  BY <1>2, <1>3, AsideSteps
<1>4. ASSUME NEW w \in Workers, UploadStep(w) PROVE AnnounceInv'
  <2>1. handler[w].at \notin Checking /\ handler'[w].at \notin Checking
    BY <1>4, UploadMoves DEF Checking
  <2> QED BY <1>2, <1>4, <2>1, UploadMoves
<1>5. ASSUME NEW w \in Workers, Track(w) PROVE AnnounceInv'
  <2>1. /\ \A v \in Workers \ {w} : handler'[v] = handler[v]
        /\ handler[w].at = "track" /\ handler'[w].at = "record"
        /\ UNCHANGED <<billing, broken>>
    BY <1>1, <1>5 DEF Track, Handler, history
  <2> QED BY <1>2, <2>1 DEF Checking
<1>6. ASSUME NEW w \in Workers, CountStep(w) \/ CountingFails(w) PROVE AnnounceInv'
  BY <1>5, <1>6, ReadingsAnnounce, TrackingAnnounces, AlertsAnnounce DEF CountStep
<1>7. ASSUME UploadRequests PROVE AnnounceInv'
  <2>1. PICK W \in SUBSET Workers, j \in Jobs \cup {None} : Admit(W, j)
    BY <1>7 DEF UploadRequests, Upload
  <2>2. /\ \A v \in Workers : handler'[v] = IF v \in W THEN [Idle EXCEPT !.at = "hint", !.j = j]
                                            ELSE handler[v]
        /\ \A v \in W : handler[v] = Idle
        /\ UNCHANGED <<usage, limit, tracker, alerts, broken>>
    BY <2>1 DEF Admit, billing
  <2>3. [Idle EXCEPT !.at = "hint", !.j = j].at = "hint"
    BY DEF Idle
  <2>4. \A v \in Workers : handler[v].at \in Checking \/ handler'[v].at \in Checking
                               => handler'[v] = handler[v]
    BY <1>1, <2>2, <2>3 DEF Checking
  <2> QED BY <2>2, <2>4, AnnounceStands
<1>8. UNCHANGED <<handler, usage, limit, tracker, alerts, broken>> => AnnounceInv'
  BY AnnounceStands
<1>9. DeleteEvents \/ StatusEvents \/ Renew \/ UNCHANGED vars => AnnounceInv'
  BY <1>8 DEF DeleteEvents, StatusEvents, Renew, Remove, BulkDelete, SetStatus, vars, history,
     billing
<1> QED BY <1>3, <1>4, <1>6, <1>7, <1>9 DEF Next, Continue, Faults

\* That the limit is reached is announced, or about to be, unless the count or a check
\* failed or the period ended under it.
THEOREM LimitsAreAnnounced == Spec => []LimitIsAnnounced
<1>1. Init => AnnounceInv
  <2> SUFFICES ASSUME Init PROVE AnnounceInv
    OBVIOUS
  <2>1. \A w \in Workers : handler[w].at = "idle"
    BY IdleIsOK DEF Init
  <2>2. \A p \in Periods : usage[p] >= limit => FALSE
    BY LimitAssumption DEF Init, Periods
  <2>3. \A p \in Periods : tracker[p] = None \/ tracker[p] \subseteq Told(p)
    BY DEF Init, Periods
  <2> QED BY <2>1, <2>2, <2>3 DEF AnnounceInv
<1>2. Inv /\ AnnounceInv => LimitIsAnnounced
  BY DEF AnnounceInv, LimitIsAnnounced, Sees
<1> QED BY <1>1, <1>2, AnnounceKept, RecruitingInvariant, PTL DEF Spec

-----------------------------------------------------------------------------
(* Duplicates *)

\* Who is about to write the address e, and who has it.
Writers == {"create", "createOwn", "save"}
Writes(w, e) == handler[w].at \in Writers /\ handler[w].who = e
Has(x, e) == Exists(x) /\ candidates[x].email = e

\* An address that nobody looked up while it was to be written belongs to one
\* candidate, or is about to.
DuplicateInv ==
    \A e \in Emails \ raced :
        /\ \A x, y \in Ids : Has(x, e) /\ Has(y, e) => x = y
        /\ \A v, w \in Workers : Writes(v, e) /\ Writes(w, e) =>
              v = w \/ (handler[v].at = "save" /\ handler[w].at = "save" /\ handler[v].x = handler[w].x)
        /\ \A w \in Workers, x \in Ids : Writes(w, e) /\ Has(x, e) =>
              handler[w].at = "save" /\ handler[w].x = x

\* Nobody becomes a writer, and nobody gets an address.
LEMMA DuplicatesStay ==
    ASSUME DuplicateInv, raced \subseteq raced',
           \A v \in Workers, e \in Emails : Writes(v, e)' =>
               Writes(v, e) /\ handler'[v].at = handler[v].at /\ handler'[v].x = handler[v].x,
           \A x \in Ids, e \in Emails : Has(x, e)' => Has(x, e)
    PROVE  DuplicateInv'
<1> SUFFICES ASSUME NEW e \in Emails \ raced'
             PROVE  /\ \A x, y \in Ids : Has(x, e)' /\ Has(y, e)' => x = y
                    /\ \A v, w \in Workers : Writes(v, e)' /\ Writes(w, e)' =>
                          v = w \/ (handler'[v].at = "save" /\ handler'[w].at = "save"
                                    /\ handler'[v].x = handler'[w].x)
                    /\ \A w \in Workers, x \in Ids : Writes(w, e)' /\ Has(x, e)' =>
                          handler'[w].at = "save" /\ handler'[w].x = x
  BY DEF DuplicateInv
<1>1. e \in Emails \ raced
  OBVIOUS
<1> QED BY <1>1 DEF DuplicateInv

\* w becomes a writer of f, which it has looked up, or found with its own candidate.
LEMMA WriterJoins ==
    ASSUME DuplicateInv, raced \subseteq raced', candidates' = candidates,
           NEW w \in Workers, \A v \in Workers \ {w} : handler'[v] = handler[v],
           NEW f, \A e \in Emails : Writes(w, e)' => e = f,
           f \notin raced' => \A v \in Workers \ {w} : Writes(v, f) =>
               handler[v].at = "save" /\ handler'[w].at = "save" /\ handler[v].x = handler'[w].x,
           \A x \in Ids : Has(x, f) => handler'[w].at = "save" /\ handler'[w].x = x
    PROVE  DuplicateInv'
<1> SUFFICES ASSUME NEW e \in Emails \ raced'
             PROVE  /\ \A x, y \in Ids : Has(x, e)' /\ Has(y, e)' => x = y
                    /\ \A v, u \in Workers : Writes(v, e)' /\ Writes(u, e)' =>
                          v = u \/ (handler'[v].at = "save" /\ handler'[u].at = "save"
                                    /\ handler'[v].x = handler'[u].x)
                    /\ \A u \in Workers, x \in Ids : Writes(u, e)' /\ Has(x, e)' =>
                          handler'[u].at = "save" /\ handler'[u].x = x
  BY DEF DuplicateInv
<1>1. e \in Emails \ raced
  OBVIOUS
<1>2. \A x \in Ids : Has(x, e)' <=> Has(x, e)
  BY DEF Has, Exists
<1>3. \A v \in Workers \ {w} : Writes(v, e)' <=> Writes(v, e)
  BY DEF Writes
<1> QED BY <1>1, <1>2, <1>3 DEF DuplicateInv

\* w gives f, which it was to write, to x.
LEMMA WriterWrites ==
    ASSUME DuplicateInv, raced' = raced,
           NEW w \in Workers, \A v \in Workers \ {w} : handler'[v] = handler[v],
           NEW f, Writes(w, f), \A e \in Emails : ~Writes(w, e)',
           NEW x \in Ids, handler[w].at = "save" => handler[w].x = x,
           \A y \in Ids \ {x}, e \in Emails : Has(y, e)' => Has(y, e),
           \A e \in Emails : Has(x, e)' => e = f
    PROVE  DuplicateInv'
<1> SUFFICES ASSUME NEW e \in Emails \ raced
             PROVE  /\ \A y, z \in Ids : Has(y, e)' /\ Has(z, e)' => y = z
                    /\ \A v, u \in Workers : Writes(v, e)' /\ Writes(u, e)' =>
                          v = u \/ (handler'[v].at = "save" /\ handler'[u].at = "save"
                                    /\ handler'[v].x = handler'[u].x)
                    /\ \A u \in Workers, y \in Ids : Writes(u, e)' /\ Has(y, e)' =>
                          handler'[u].at = "save" /\ handler'[u].x = y
  BY DEF DuplicateInv
<1>1. \A v \in Workers : Writes(v, e)' => v # w /\ Writes(v, e) /\ handler'[v] = handler[v]
  BY DEF Writes
<1>2. CASE e = f
  <2>1. \A y \in Ids : Has(y, f) => y = x
    BY <1>2 DEF DuplicateInv
  <2>2. \A y \in Ids : Has(y, e)' => y = x
    BY <1>2, <2>1
  <2>3. \A v \in Workers \ {w} : Writes(v, f) => handler[v].at = "save" /\ handler[v].x = x
    BY <1>2 DEF DuplicateInv
  <2> QED BY <1>1, <1>2, <2>2, <2>3
<1>3. CASE e # f
  <2>1. \A y \in Ids : Has(y, e)' => Has(y, e)
    BY <1>3
  <2> QED BY <1>1, <2>1 DEF DuplicateInv
<1> QED BY <1>2, <1>3

LEMMA NoWriter ==
    ASSUME DuplicateInv, raced \subseteq raced', NEW w \in Workers,
           \A v \in Workers \ {w} : handler'[v] = handler[v], handler'[w].at \notin Writers,
           \A x \in Ids, e \in Emails : Has(x, e)' => Has(x, e)
    PROVE  DuplicateInv'
<1>1. \A v \in Workers, e \in Emails : Writes(v, e)' =>
          Writes(v, e) /\ handler'[v].at = handler[v].at /\ handler'[v].x = handler[v].x
  BY DEF Writes
<1> QED BY <1>1, DuplicatesStay

\* Whoever looks an address up writes it if nobody has it.
LEMMA FindersJoin ==
    ASSUME Inv, DuplicateInv, NEW w \in Workers, FindUploaded(w) \/ FindOwn(w) \/ Lookup(w)
    PROVE  DuplicateInv'
<1> DEFINE f == handler[w].who
<1>1. handler \in [Workers -> Handler] /\ handler[w] \in Handler /\ Idle.at = "idle"
  BY IdleIsOK, Handlers DEF Inv
<1>2. /\ candidates' = candidates
      /\ raced' = IF \E v \in Workers \ {w} : handler[v].at \in Writers /\ handler[v].who = f
                  THEN raced \cup {f} ELSE raced
  BY DEF FindUploaded, FindOwn, Lookup, Racing, Others, Writers, people
<1>3. /\ raced \subseteq raced'
      /\ f \notin raced' => \A v \in Workers \ {w} : ~Writes(v, f)
  BY <1>2 DEF Writes
<1>4. \A x, e : Has(x, e)' <=> Has(x, e)
  BY <1>2 DEF Has, Exists
<1>5. CASE End(w)
  <2>1. handler'[w].at \notin Writers /\ \A v \in Workers \ {w} : handler'[v] = handler[v]
    BY <1>1, <1>5 DEF End, Writers
  <2> QED BY <1>3, <1>4, <2>1, NoWriter
<1>6. CASE ~End(w)
  <2>1. /\ \/ Goto(w, "create") /\ \A x \in Ids : ~Has(x, f)
           \/ Goto(w, "createOwn") /\ \A x \in Ids : ~Has(x, f)
           \/ Goto(w, "save") /\ \A x \in Ids \ {handler[w].x} : ~Has(x, f)
    BY <1>6 DEF FindUploaded, FindOwn, Lookup, Known, Has, Existing, Exists
  <2>2. /\ \A v \in Workers \ {w} : handler'[v] = handler[v]
        /\ handler'[w].who = f /\ handler'[w].x = handler[w].x
        /\ handler'[w].at = "save" \/ \A x \in Ids : ~Has(x, f)
    BY <1>1, <2>1 DEF Goto, Handler
  <2>3. \A e \in Emails : Writes(w, e)' => e = f
    BY <2>2 DEF Writes
  <2>4. \A x \in Ids : Has(x, f) => handler'[w].at = "save" /\ handler'[w].x = x
    BY <2>1, <2>2
  <2> HIDE DEF f
  <2> QED BY <1>2, <1>3, <2>2, <2>3, <2>4, WriterJoins
<1> QED BY <1>5, <1>6

LEMMA UpdatersJoin ==
    ASSUME Inv, DuplicateInv, NEW w \in Workers, UpdateRequests(w)
    PROVE  DuplicateInv'
<1>1. PICK x \in Ids, e \in Emails \cup {None}, j \in Jobs \cup {None} :
          \E xs \in SUBSET {x} : UpdateCandidate(w, x, e, xs, j)
  BY DEF UpdateRequests
<1>2. PICK xs \in SUBSET {x} : UpdateCandidate(w, x, e, xs, j)
  BY <1>1
<1> DEFINE g == [Idle EXCEPT !.at = IF e \in {None, candidates[x].email} THEN "save" ELSE "lookup",
                             !.x = x, !.who = e, !.xs = xs, !.j = j]
<1>3. /\ g.at = (IF e \in {None, candidates[x].email} THEN "save" ELSE "lookup")
      /\ g.x = x /\ g.who = e
  BY DEF Idle
<1>4. Begin(w, g) /\ Exists(x) /\ UNCHANGED <<candidates, raced>>
  BY <1>2 DEF UpdateCandidate, people, history
<1> HIDE DEF g
<1>5. handler'[w] = g /\ \A v \in Workers \ {w} : handler'[v] = handler[v]
  BY <1>4 DEF Begin, Inv
<1>6. \A y, d : Has(y, d)' <=> Has(y, d)
  BY <1>4 DEF Has, Exists
<1>7. CASE e \in Emails /\ e = candidates[x].email
  <2>1. g.at = "save" /\ Has(x, e)
    BY <1>3, <1>4, <1>7 DEF Has
  <2>2. e \notin raced => \A y \in Ids : Has(y, e) => y = x
    BY <1>7, <2>1 DEF DuplicateInv
  <2>3. e \notin raced => \A v \in Workers : Writes(v, e) => handler[v].at = "save" /\ handler[v].x = x
    BY <1>7, <2>1 DEF DuplicateInv
  <2>4. CASE e \in raced
    <3>1. ASSUME NEW d \in Emails \ raced' PROVE \A v \in Workers : Writes(v, d)' => Writes(v, d) /\ handler'[v] = handler[v]
      BY <1>3, <1>4, <1>5, <2>4, <3>1 DEF Writes
    <3> QED BY <1>4, <1>6, <3>1 DEF DuplicateInv
  <2>5. CASE e \notin raced
    <3>1. \A d \in Emails : Writes(w, d)' => d = e
      BY <1>3, <1>5 DEF Writes
    <3>2. \A v \in Workers \ {w} : Writes(v, e) =>
              handler[v].at = "save" /\ handler'[w].at = "save" /\ handler[v].x = handler'[w].x
      BY <1>3, <1>5, <2>1, <2>3, <2>5
    <3>3. \A y \in Ids : Has(y, e) => handler'[w].at = "save" /\ handler'[w].x = y
      BY <1>3, <1>5, <2>1, <2>2, <2>5
    <3> QED BY <1>4, <1>5, <3>1, <3>2, <3>3, WriterJoins
  <2> QED BY <2>4, <2>5
<1>8. CASE ~(e \in Emails /\ e = candidates[x].email)
  <2>1. \A d \in Emails : ~Writes(w, d)'
    BY <1>1, <1>3, <1>5, <1>8, NoneIsNoName DEF Writes, Writers
  <2>2. \A v \in Workers, d \in Emails : Writes(v, d)' =>
            Writes(v, d) /\ handler'[v].at = handler[v].at /\ handler'[v].x = handler[v].x
    BY <1>5, <2>1 DEF Writes
  <2> QED BY <1>4, <1>6, <2>2, DuplicatesStay
<1> QED BY <1>7, <1>8

\* A writer writes its address, to a new candidate or to its own.
LEMMA CreatorsWrite ==
    ASSUME Inv, DuplicateInv, NEW w \in Workers, CreateUploaded(w) \/ CreateOwn(w)
    PROVE  DuplicateInv'
<1> DEFINE f == handler[w].who
<1>1. handler \in [Workers -> Handler] /\ handler[w] \in Handler /\ Idle.at = "idle"
      /\ candidates \in [Ids -> Candidate \cup {NoCandidate}]
  BY IdleIsOK, Handlers DEF Inv, TablesOK
<1>2. handler[w].at \in {"create", "createOwn"} /\ Writes(w, f)
  BY DEF CreateUploaded, CreateOwn, Writes, Writers
<1>3. PICK x \in Ids : x = born + 1
  BY <1>2, RoomForOne DEF Creators, Creating
<1>4. candidates' = [candidates EXCEPT ![x] =
                        [email |-> f, job |-> handler[w].j, overall |-> None, of |-> None]]
      /\ raced' = raced
  BY <1>3 DEF CreateUploaded, CreateOwn, Insert, history
<1>5. /\ handler'[w].at \notin Writers
      /\ \A v \in Workers \ {w} : handler'[v] = handler[v]
  BY <1>1 DEF CreateUploaded, CreateOwn, End, Writers, Handler
<1>6. \A y \in Ids \ {x}, e \in Emails : Has(y, e)' => Has(y, e)
  BY <1>1, <1>4 DEF Has, Exists
<1>7. candidates'[x].email = f
  BY <1>1, <1>3, <1>4
<1>8. \A e \in Emails : Has(x, e)' => e = f
  BY <1>7 DEF Has
<1>9. \A e \in Emails : ~Writes(w, e)'
  BY <1>5 DEF Writes
<1>10. handler[w].at # "save"
  BY <1>2
<1> HIDE DEF f
<1> QED BY <1>2, <1>3, <1>4, <1>5, <1>6, <1>8, <1>9, <1>10, WriterWrites

LEMMA SaversWrite ==
    ASSUME Inv, DuplicateInv, NEW w \in Workers, SaveCandidate(w)
    PROVE  DuplicateInv'
<1> DEFINE f == handler[w].who
           x == handler[w].x
<1>1. handler \in [Workers -> Handler] /\ handler[w] \in Handler /\ Idle.at = "idle"
      /\ candidates \in [Ids -> Candidate \cup {NoCandidate}]
  BY IdleIsOK, Handlers DEF Inv, TablesOK
<1>2. handler[w].at = "save" /\ Writes(w, f) /\ x \in Ids
  BY Handlers DEF SaveCandidate, Writes, Writers, HandlerOK
<1>3. /\ handler'[w].at \notin Writers /\ raced' = raced
      /\ \A v \in Workers \ {w} : handler'[v] = handler[v]
  BY <1>1 DEF SaveCandidate, End, Writers
<1>4. CASE UNCHANGED candidates
  BY <1>3, <1>4, NoWriter DEF Has, Exists
<1>5. CASE ~UNCHANGED candidates
  <2>1. /\ Exists(x)
        /\ candidates' = [candidates EXCEPT
              ![x].email = IF f = None THEN @ ELSE f,
              ![x].job = IF handler[w].xs = {} THEN @ ELSE handler[w].j]
    BY <1>5 DEF SaveCandidate
  <2>2. candidates[x] \in Candidate
    BY <1>1, <1>2, <2>1 DEF Exists
  <2>3. candidates'[x].email = IF f = None THEN candidates[x].email ELSE f
    BY <1>1, <1>2, <2>1, <2>2 DEF Candidate
  <2>4. \A y \in Ids \ {x} : candidates'[y] = candidates[y]
    BY <1>1, <2>1
  <2>5. \A y \in Ids \ {x}, e \in Emails : Has(y, e)' => Has(y, e)
    BY <2>4 DEF Has, Exists
  <2>6. PICK y \in Ids : y = x
    BY <1>2
  <2>7. \A e \in Emails : Has(y, e)' => IF f = None THEN Has(y, e) ELSE e = f
    BY <2>1, <2>3, <2>6 DEF Has
  <2>8. \A e \in Emails : ~Writes(w, e)'
    BY <1>3 DEF Writes
  <2>9. CASE f = None
    <3>1. \A z \in Ids, e \in Emails : Has(z, e)' => Has(z, e)
      BY <2>5, <2>6, <2>7, <2>9
    <3> QED BY <1>3, <3>1, NoWriter
  <2>10. CASE f # None
    <3>1. \A z \in Ids \ {y}, e \in Emails : Has(z, e)' => Has(z, e)
      BY <2>5, <2>6
    <3>2. \A e \in Emails : Has(y, e)' => e = f
      BY <2>7, <2>10
    <3>3. handler[w].at = "save" => handler[w].x = y
      BY <2>6
    <3> HIDE DEF f, x
    <3> QED BY <1>2, <1>3, <2>8, <3>1, <3>2, <3>3, WriterWrites
  <2> QED BY <2>9, <2>10
<1> QED BY <1>4, <1>5

\* Whatever else a handler does, it looks nothing up and writes no address.
LEMMA AsideWritesNothing ==
    ASSUME Inv, NEW w \in Workers,
           \/ AssignRequests(w) \/ JobRequests(w) \/ RescoreRequests(w) \/ MailRequests(w)
           \/ Tasks(w) \/ Assign(w) \/ RescoreStep(w) \/ ScoreStep(w) \/ MailStep(w)
           \/ RescoringStops(w) \/ TimeOut(w)
    PROVE  handler'[w].at \notin Writers
<1> DEFINE Done == handler'[w].at \notin Writers
<1>1. Idle.at = "idle" /\ handler[w] \in Handler /\ handler \in [Workers -> Handler]
  BY IdleIsOK, Handlers DEF Inv
<1>2. ASSUME NEW h, h.at \notin Writers, Begin(w, h) PROVE Done
  BY <1>1, <1>2 DEF Begin
<1>3. ASSUME NEW statement, statement \notin Writers, Goto(w, statement) PROVE Done
  BY <1>1, <1>3 DEF Goto, Handler
<1>4. End(w) => Done
  BY <1>1 DEF End, Writers
<1>5. AssignRequests(w) \/ JobRequests(w) \/ RescoreRequests(w) \/ MailRequests(w) \/ Tasks(w)
          => Done
  <2> HIDE DEF Done
  <2>1. ASSUME NEW xs, NEW j, BulkAssignJob(w, xs, j) PROVE Done
    <3> DEFINE g == [Idle EXCEPT !.at = "assign", !.xs = xs, !.j = j]
    <3>1. g.at \notin Writers /\ Begin(w, g)
      BY <2>1 DEF BulkAssignJob, Idle, Writers
    <3> HIDE DEF g
    <3> QED BY <1>2, <3>1
  <2>2. ASSUME NEW j, UpdateJob(w, j) PROVE Done
    <3> DEFINE g == [Idle EXCEPT !.at = "changeJob", !.j = j]
    <3>1. g.at \notin Writers /\ Begin(w, g)
      BY <2>2 DEF UpdateJob, Idle, Writers
    <3> HIDE DEF g
    <3> QED BY <1>2, <3>1
  <2>3. ASSUME NEW x, NEW j, RescoreForJob(w, x, j) PROVE Done
    <3> DEFINE g == [Idle EXCEPT !.at = "enqueueOne", !.x = x, !.j = j]
    <3>1. g.at \notin Writers /\ Begin(w, g)
      BY <2>3 DEF RescoreForJob, Idle, Writers
    <3> HIDE DEF g
    <3> QED BY <1>2, <3>1
  <2>4. ASSUME NEW x, SendEmail(w, x) PROVE Done
    <3> DEFINE g == [Idle EXCEPT !.at = "send", !.x = x, !.xs = {x}]
    <3>1. g.at \notin Writers /\ Begin(w, g)
      BY <2>4 DEF SendEmail, Idle, Writers
    <3> HIDE DEF g
    <3> QED BY <1>2, <3>1
  <2>5. ASSUME NEW xs, BulkSendEmails(w, xs) PROVE Done
    <3>1. PICK x : Begin(w, [Idle EXCEPT !.at = "send", !.x = x, !.xs = Addressed(xs)])
      BY <2>5 DEF BulkSendEmails
    <3> DEFINE g == [Idle EXCEPT !.at = "send", !.x = x, !.xs = Addressed(xs)]
    <3>2. g.at \notin Writers /\ Begin(w, g)
      BY <3>1 DEF Idle, Writers
    <3> HIDE DEF g
    <3> QED BY <1>2, <3>2
  <2>6. ASSUME NEW t, TakeTask(w, t) PROVE Done
    <3> DEFINE g == [Idle EXCEPT !.at = "read", !.x = t.x, !.j = t.j, !.try = t.tries + 1,
                                 !.queued = TRUE]
    <3>1. g.at \notin Writers /\ Begin(w, g)
      BY <2>6 DEF TakeTask, Idle, Writers
    <3> HIDE DEF g
    <3> QED BY <1>2, <3>1
  <2> QED BY <2>1, <2>2, <2>3, <2>4, <2>5, <2>6
          DEF AssignRequests, JobRequests, RescoreRequests, MailRequests, Tasks
<1>6. Assign(w) => Done
  <2> HIDE DEF Done
  <2> QED BY <1>4 DEF Assign
<1>7. RescoreStep(w) \/ RescoringStops(w) => Done
  <2>1. ListAssigned(w) /\ ~End(w) => handler'[w].at = "enqueue"
    BY <1>1 DEF ListAssigned, Handler
  <2>2. "listAssigned" \notin Writers /\ "enqueue" \notin Writers
    BY DEF Writers
  <2>3. ListAssigned(w) /\ ~End(w) => Done
    BY <2>1, <2>2
  <2> HIDE DEF Done
  <2> QED BY <1>3, <1>4, <2>2, <2>3
          DEF RescoreStep, RescoringStops, ChangeJob, ListAssigned, Enqueue, EnqueueOne
<1>8. ScoreStep(w) \/ TimeOut(w) => Done
  <2>1. ScoringThrew(w) => End(w)
    BY DEF ScoringThrew
  <2>2. ReadCandidate(w) /\ ~End(w) => handler'[w].at = "readJob"
    BY <1>1, <2>1 DEF ReadCandidate, Handler
  <2>3. ReadJob(w) => handler'[w].at = "ask"
    BY <1>1 DEF ReadJob, Handler
  <2>4. TimeOut(w) => handler'[w].at \in Scoring
    BY <1>1 DEF TimeOut, Handler
  <2>5. (ReadCandidate(w) /\ ~End(w)) \/ ReadJob(w) \/ TimeOut(w) => Done
    BY <2>2, <2>3, <2>4 DEF Writers, Scoring
  <2>6. "row" \notin Writers /\ "overall" \notin Writers
    BY DEF Writers
  <2> HIDE DEF Done
  <2> QED BY <1>3, <1>4, <2>1, <2>5, <2>6 DEF ScoreStep, AskAi, SaveRow, CreateRow, SaveOverall
<1>9. MailStep(w) => Done
  <2>1. NextMail(w) /\ ~End(w) => handler'[w].at = "send"
    <3> SUFFICES ASSUME NextMail(w), ~End(w) PROVE handler'[w].at = "send"
      OBVIOUS
    <3>1. PICK x : handler' = [handler EXCEPT ![w].at = "send", ![w].x = x,
                                              ![w].xs = handler[w].xs \ {handler[w].x}]
      BY DEF NextMail
    <3> QED BY <1>1, <3>1 DEF Handler
  <2>2. NextMail(w) => Done
    BY <1>4, <2>1 DEF Writers
  <2>3. "log" \notin Writers /\ "charge" \notin Writers /\ "action" \notin Writers
    BY DEF Writers
  <2> HIDE DEF Done
  <2> QED BY <1>3, <1>4, <2>2, <2>3 DEF MailStep, Send, LogMail, ChargeMail, LogAction
<1>10. Done
  <2> HIDE DEF Done
  <2> QED BY <1>5, <1>6, <1>7, <1>8, <1>9
<1> QED BY <1>10

LEMMA DuplicatesKept == Inv /\ DuplicateInv /\ [Next]_vars => DuplicateInv'
<1> SUFFICES ASSUME Inv, DuplicateInv, [Next]_vars PROVE DuplicateInv'
  OBVIOUS
<1>1. /\ handler \in [Workers -> Handler] /\ Idle.at = "idle"
      /\ candidates \in [Ids -> Candidate \cup {NoCandidate}]
  BY IdleIsOK DEF Inv, TablesOK
<1>2. UNCHANGED candidates => \A x \in Ids, e \in Emails : Has(x, e)' => Has(x, e)
  BY DEF Has, Exists
<1>3. ASSUME NEW w \in Workers,
             \/ AssignRequests(w) \/ JobRequests(w) \/ RescoreRequests(w) \/ MailRequests(w)
             \/ Tasks(w) \/ RescoreStep(w) \/ MailStep(w) \/ RescoringStops(w) \/ TimeOut(w)
      PROVE  DuplicateInv'
  <2>1. UNCHANGED <<candidates, raced>>
    BY <1>3 DEF AssignRequests, JobRequests, RescoreRequests, MailRequests, Tasks, RescoreStep,
                MailStep, RescoringStops, TimeOut, BulkAssignJob, UpdateJob, RescoreForJob,
                SendEmail, BulkSendEmails, TakeTask, Overlapping, ChangeJob, ListAssigned, Enqueue,
                EnqueueOne, Send, LogMail, ChargeMail, LogAction, people, history
  <2>2. handler'[w].at \notin Writers
    BY <1>3, AsideWritesNothing
  <2>3. \A v \in Workers \ {w} : handler'[v] = handler[v]
    BY <1>3, AsideSteps DEF Requests
  <2> QED BY <1>2, <2>1, <2>2, <2>3, NoWriter
<1>4. ASSUME NEW w \in Workers, Assign(w) \/ ScoreStep(w) PROVE DuplicateInv'
  <2>1. raced' = raced
    BY <1>4 DEF Assign, ScoreStep, ReadCandidate, ReadJob, AskAi, SaveRow, CreateRow, SaveOverall,
       history
  <2>2. handler'[w].at \notin Writers /\ \A v \in Workers \ {w} : handler'[v] = handler[v]
    BY <1>4, AsideSteps, AsideWritesNothing DEF RecordsStep
  <2>3. ASSUME NEW x \in Ids, NEW e \in Emails, Has(x, e)' PROVE Has(x, e)
    <3>1. CASE UNCHANGED candidates
      BY <2>3, <3>1 DEF Has, Exists
    <3>2. CASE Assign(w) /\ ~UNCHANGED candidates
      <4>1. /\ handler[w].xs \subseteq Existing
            /\ candidates'[x] = IF x \in handler[w].xs
                                THEN [candidates[x] EXCEPT !.job = handler[w].j] ELSE candidates[x]
        BY <3>2 DEF Assign
      <4>2. CASE x \in handler[w].xs
        <5>1. Exists(x) /\ candidates[x] \in Candidate
          BY <1>1, <4>1, <4>2 DEF Existing, Exists
        <5>2. candidates'[x].email = candidates[x].email
          BY <4>1, <4>2, <5>1 DEF Candidate
        <5> QED BY <2>3, <5>1, <5>2 DEF Has
      <4>3. CASE x \notin handler[w].xs
        BY <2>3, <4>1, <4>3 DEF Has, Exists
      <4> QED BY <4>2, <4>3
    <3>3. CASE ScoreStep(w) /\ ~UNCHANGED candidates
      <4>1. /\ Exists(handler[w].x)
            /\ candidates' = [candidates EXCEPT ![handler[w].x].overall = handler[w].v,
                                                ![handler[w].x].of = handler[w].j]
        BY <3>3 DEF ScoreStep, ReadCandidate, ReadJob, AskAi, SaveRow, CreateRow, SaveOverall,
           people
      <4>2. CASE x = handler[w].x
        <5>1. candidates[x] \in Candidate
          BY <1>1, <4>1, <4>2 DEF Exists
        <5>2. candidates'[x].email = candidates[x].email
          BY <1>1, <4>1, <4>2, <5>1 DEF Candidate
        <5> QED BY <2>3, <4>1, <4>2, <5>2 DEF Has
      <4>3. CASE x # handler[w].x
        BY <1>1, <2>3, <4>1, <4>3 DEF Has, Exists
      <4> QED BY <4>2, <4>3
    <3> QED BY <1>4, <3>1, <3>2, <3>3
  <2> QED BY <2>1, <2>2, <2>3, NoWriter
<1>5. ASSUME NEW w \in Workers, CreateRequests(w) \/ Hint(w) \/ Parse(w) PROVE DuplicateInv'
  <2>1. UNCHANGED <<candidates, raced>>
    BY <1>5 DEF CreateRequests, CreateCandidate, Hint, Parse, people, history
  <2>2. \A v \in Workers \ {w} : handler'[v] = handler[v]
    BY <1>1, <1>5, AsideSteps, UploadMoves DEF Requests, UploadStep
  <2>3. handler'[w].at \notin Writers \/ handler'[w].who = None
    <3>1. ASSUME NEW e \in Emails \cup {None}, NEW j \in Jobs \cup {None}, CreateCandidate(w, e, j)
          PROVE  handler'[w].at \notin Writers \/ handler'[w].who = None
      <4> DEFINE g == [Idle EXCEPT !.at = IF e = None THEN "createOwn" ELSE "findOwn",
                                   !.who = e, !.j = j]
      <4>1. g.at = (IF e = None THEN "createOwn" ELSE "findOwn") /\ g.who = e
        BY DEF Idle
      <4>2. Begin(w, g)
        BY <3>1 DEF CreateCandidate
      <4> HIDE DEF g
      <4>3. handler'[w] = g
        BY <1>1, <4>2 DEF Begin
      <4> QED BY <4>1, <4>3 DEF Writers
    <3>2. Hint(w) => handler'[w].at \notin Writers
      BY <1>1 DEF Hint, Goto, End, Writers, Handler
    <3>3. Parse(w) => handler'[w].at \notin Writers \/ handler'[w].who = None
      BY <1>1 DEF Parse, Writers, Handler
    <3> QED BY <1>5, <3>1, <3>2, <3>3 DEF CreateRequests
  <2>4. \A e \in Emails : ~Writes(w, e)'
    BY <2>3, NoneIsNoName DEF Writes
  <2>5. \A v \in Workers, e \in Emails : Writes(v, e)' =>
            Writes(v, e) /\ handler'[v].at = handler[v].at /\ handler'[v].x = handler[v].x
    BY <2>2, <2>4 DEF Writes
  <2> QED BY <1>2, <2>1, <2>5, DuplicatesStay
<1>6. ASSUME NEW w \in Workers, CountStep(w) \/ CountingFails(w) PROVE DuplicateInv'
  <2>1. UNCHANGED <<candidates, raced>>
    BY <1>6 DEF CountStep, CountingFails, Track, Record, Check, Sum, FindTracker, NewTracker,
       Notify,
                Flag, people, history
  <2>2. CASE Track(w) \/ Record(w)
    <3>1. handler'[w].at \in {"record", "check"} /\ \A v \in Workers \ {w} : handler'[v] = handler[v]
      BY <1>1, <2>2 DEF Track, Record, Goto, Handler
    <3> QED BY <1>2, <2>1, <3>1, NoWriter DEF Writers
  <2>3. CASE ~(Track(w) \/ Record(w))
    <3>1. /\ handler'[w].at \in Checking \cup {"idle", "read"}
          /\ \A v \in Workers \ {w} : handler'[v] = handler[v]
      BY <1>6, <2>3, CheckMoves DEF CountStep
    <3>2. handler'[w].at \notin Writers
      BY <3>1 DEF Checking, Writers
    <3> QED BY <1>2, <2>1, <3>1, <3>2, NoWriter
  <2> QED BY <2>2, <2>3
<1>7. ASSUME UploadRequests PROVE DuplicateInv'
  <2>1. PICK W \in SUBSET Workers, j \in Jobs \cup {None} : Admit(W, j)
    BY <1>7 DEF UploadRequests, Upload
  <2>2. /\ \A v \in Workers : handler'[v] = IF v \in W THEN [Idle EXCEPT !.at = "hint", !.j = j]
                                            ELSE handler[v]
        /\ UNCHANGED <<candidates, raced>>
    BY <2>1 DEF Admit, people
  <2>3. [Idle EXCEPT !.at = "hint", !.j = j].at = "hint"
    BY DEF Idle
  <2>4. \A v \in Workers, e \in Emails : Writes(v, e)' =>
            Writes(v, e) /\ handler'[v].at = handler[v].at /\ handler'[v].x = handler[v].x
    BY <2>2, <2>3 DEF Writes, Writers
  <2> QED BY <1>2, <2>2, <2>4, DuplicatesStay
<1>8. ASSUME UNCHANGED <<handler, raced>>,
             \A x \in Ids : candidates'[x] \in {candidates[x], NoCandidate}
      PROVE  DuplicateInv'
  <2>1. \A x \in Ids, e \in Emails : Has(x, e)' => Has(x, e)
    BY <1>8 DEF Has, Exists
  <2>2. \A v \in Workers, e \in Emails : Writes(v, e)' =>
            Writes(v, e) /\ handler'[v].at = handler[v].at /\ handler'[v].x = handler[v].x
    BY <1>8 DEF Writes
  <2> QED BY <1>8, <2>1, <2>2, DuplicatesStay
<1>9. DeleteEvents => DuplicateInv'
  <2>1. ASSUME NEW xs, Without(xs), UNCHANGED <<handler, raced>> PROVE DuplicateInv'
    BY <1>8, <2>1 DEF Without
  <2> QED BY <2>1 DEF DeleteEvents, Remove, BulkDelete, history
<1>10. StatusEvents \/ Renew \/ UNCHANGED vars => DuplicateInv'
  <2>1. StatusEvents \/ Renew \/ UNCHANGED vars => UNCHANGED <<handler, raced, candidates>>
    BY DEF StatusEvents, Renew, SetStatus, vars, history, people
  <2> QED BY <1>8, <2>1
<1>11. ASSUME NEW w \in Workers, RecordsStep(w) \/ UploadStep(w) PROVE DuplicateInv'
  BY <1>4, <1>5, <1>11, FindersJoin, CreatorsWrite, SaversWrite DEF RecordsStep, UploadStep
<1>12. ASSUME NEW w \in Workers, Requests(w) PROVE DuplicateInv'
  BY <1>3, <1>5, <1>12, UpdatersJoin DEF Requests
<1> QED BY <1>3, <1>4, <1>6, <1>7, <1>9, <1>10, <1>11, <1>12 DEF Next, Continue, Faults

\* Two candidates have one address only if two handlers looked it up at the same time.
THEOREM DuplicatesNeedOverlaps == Spec => []DuplicateNeedsOverlap
<1>1. Init => DuplicateInv
  <2> SUFFICES ASSUME Init PROVE DuplicateInv
    OBVIOUS
  <2>1. \A w \in Workers, e \in Emails : ~Writes(w, e)
    BY IdleIsOK DEF Init, Writes, Writers
  <2>2. ASSUME NEW x \in Ids, NEW y \in Ids, NEW e \in Emails, Has(x, e), Has(y, e) PROVE x = y
    <3>1. x \in Existing /\ y \in Existing /\ candidates[x].email = candidates[y].email
          /\ candidates[x].email # None
      BY <2>2, NoneIsNoName DEF Has, Existing, Exists
    <3> QED BY <3>1 DEF Init
  <2> QED BY <2>1, <2>2 DEF DuplicateInv
<1>2. Inv /\ DuplicateInv => DuplicateNeedsOverlap
  <2> SUFFICES ASSUME Inv, DuplicateInv, NEW x \in Existing, NEW y \in Existing, x # y,
                      candidates[x].email = candidates[y].email, candidates[x].email # None
               PROVE  candidates[x].email \in raced
    BY DEF DuplicateNeedsOverlap
  <2>1. x \in Ids /\ y \in Ids /\ candidates[x] \in Candidate
    BY DEF Existing, Inv, TablesOK
  <2>2. candidates[x].email \in Emails
    BY <2>1 DEF Candidate
  <2>3. Has(x, candidates[x].email) /\ Has(y, candidates[x].email)
    BY DEF Has, Exists, Existing
  <2> QED BY <2>1, <2>2, <2>3 DEF DuplicateInv
<1> QED BY <1>1, <1>2, DuplicatesKept, RecruitingInvariant, PTL DEF Spec

-----------------------------------------------------------------------------
(* What is counted of the uploads *)

\* Every CV that has become a candidate is counted, about to be, or was not.
CountInv ==
    /\ IsFiniteSet(UsageRecords) /\ processed \in Nat /\ uncounted \in Nat
    /\ UploadsCountOnce

LEMMA CountNumbers ==
    ASSUME CountInv
    PROVE  /\ IsFiniteSet(AboutToCount) /\ Cardinality(AboutToCount) \in Nat
           /\ Cardinality(UsageRecords) \in Nat
<1>1. IsFiniteSet(AboutToCount)
  BY FiniteWorkers, FS_Subset DEF AboutToCount
<1> QED BY <1>1, FS_CardinalityType DEF CountInv

\* Nobody comes to the counter or leaves it.
LEMMA CountStays ==
    ASSUME CountInv, AboutToCount' = AboutToCount, UNCHANGED <<usage, processed, uncounted>>
    PROVE  CountInv'
BY DEF CountInv, UploadsCountOnce, UsageRecords

\* A step of w.
LEMMA CountersMove ==
    ASSUME NEW w \in Workers, \A v \in Workers \ {w} : handler'[v] = handler[v]
    PROVE  AboutToCount' = IF handler'[w].at \in {"track", "record"} THEN AboutToCount \cup {w}
                           ELSE AboutToCount \ {w}
BY DEF AboutToCount

LEMMA CountGoesOn ==
    ASSUME CountInv, NEW w \in Workers, \A v \in Workers \ {w} : handler'[v] = handler[v],
           handler'[w].at \in {"track", "record"} <=> handler[w].at \in {"track", "record"},
           UNCHANGED <<usage, processed, uncounted>>
    PROVE  CountInv'
<1>1. AboutToCount' = AboutToCount
  BY CountersMove DEF AboutToCount
<1> QED BY <1>1, CountStays

\* A candidate comes from an upload, and is counted or not.
LEMMA UploadComes ==
    ASSUME Inv, CountInv, NEW w \in Workers, CreateUploaded(w)
    PROVE  CountInv'
<1>1. handler[w].at = "create" /\ handler'[w].at = "track"
      /\ \A v \in Workers \ {w} : handler'[v] = handler[v]
  BY Handlers DEF CreateUploaded, Handler, Inv
<1>2. AboutToCount' = AboutToCount \cup {w} /\ w \notin AboutToCount
  BY <1>1, CountersMove DEF AboutToCount
<1>3. Cardinality(AboutToCount') = Cardinality(AboutToCount) + 1
  BY <1>2, CountNumbers, FS_AddElement
<1>4. usage' = usage /\ uncounted' = uncounted /\ processed' = processed + 1
  BY DEF CreateUploaded, billing
<1>5. UsageRecords' = UsageRecords
  BY <1>4 DEF UsageRecords
<1> QED BY <1>3, <1>4, <1>5, CountNumbers DEF CountInv, UploadsCountOnce

LEMMA RecordCounts ==
    ASSUME Inv, CountInv, NEW w \in Workers, Record(w)
    PROVE  CountInv'
<1> DEFINE p == handler[w].p
           new == <<p, usage[p] + 1>>
<1>1. handler[w].at = "record" /\ p \in Periods /\ usage \in [Periods -> Nat]
  BY Handlers DEF Record, HandlerOK, Inv, TablesOK
<1>2. handler'[w].at = "check" /\ \A v \in Workers \ {w} : handler'[v] = handler[v]
  BY Handlers DEF Record, Goto, Handler, Inv
<1>3. usage' = [usage EXCEPT ![p] = @ + 1] /\ UNCHANGED <<processed, uncounted>>
  BY DEF Record, history
<1>4. UsageRecords' = UsageRecords \cup {new} /\ new \notin UsageRecords
  <2>1. 1..usage[p] + 1 = (1..usage[p]) \cup {usage[p] + 1} /\ usage[p] + 1 \notin 1..usage[p]
    BY <1>1
  <2>2. \A q \in Periods : usage'[q] = IF q = p THEN usage[p] + 1 ELSE usage[q]
    BY <1>1, <1>3
  <2>3. ASSUME NEW q \in Periods
        PROVE  {q} \X (1..usage'[q]) = ({q} \X (1..usage[q])) \cup {r \in {new} : q = p}
    BY <2>1, <2>2
  <2>4. \A r : r \in UsageRecords' <=> r \in UsageRecords \/ r = new
    BY <1>1, <2>3 DEF UsageRecords
  <2>5. new \notin UsageRecords
    BY <2>1 DEF UsageRecords
  <2> QED BY <2>4, <2>5
<1> HIDE DEF new
<1>5. IsFiniteSet(UsageRecords') /\ Cardinality(UsageRecords') = Cardinality(UsageRecords) + 1
  BY <1>4, FS_AddElement DEF CountInv
<1>6. AboutToCount' = AboutToCount \ {w} /\ w \in AboutToCount
  BY <1>1, <1>2, CountersMove DEF AboutToCount
<1>7. Cardinality(AboutToCount') = Cardinality(AboutToCount) - 1
  BY <1>6, CountNumbers, FS_RemoveElement
<1> QED BY <1>3, <1>5, <1>7, CountNumbers DEF CountInv, UploadsCountOnce

\* The failure of the counter is an upload that is not counted; that of a check is not.
LEMMA CountThrows ==
    ASSUME Inv, CountInv, NEW w \in Workers, CountingThrew(w), UNCHANGED <<usage, processed>>
    PROVE  CountInv'
<1>1. handler'[w].at = "idle" /\ \A v \in Workers \ {w} : handler'[v] = handler[v]
  BY IdleIsOK DEF CountingThrew, End, Inv
<1>2. CASE handler[w].at \notin {"track", "record"}
  BY <1>1, <1>2, CountGoesOn DEF CountingThrew
<1>3. CASE handler[w].at \in {"track", "record"}
  <2>1. AboutToCount' = AboutToCount \ {w} /\ w \in AboutToCount
    BY <1>1, <1>3, CountersMove DEF AboutToCount
  <2>2. Cardinality(AboutToCount') = Cardinality(AboutToCount) - 1
    BY <2>1, CountNumbers, FS_RemoveElement
  <2>3. uncounted' = uncounted + 1
    BY <1>3 DEF CountingThrew
  <2>4. UsageRecords' = UsageRecords
    BY DEF UsageRecords
  <2> QED BY <2>2, <2>3, <2>4, CountNumbers DEF CountInv, UploadsCountOnce
<1> QED BY <1>2, <1>3

LEMMA CheckCounts ==
    ASSUME Inv, CountInv, NEW w \in Workers, CountStep(w) \/ CountingFails(w)
    PROVE  CountInv'
<1>1. Track(w) => CountInv'
  <2> SUFFICES ASSUME Track(w) PROVE CountInv'
    OBVIOUS
  <2>1. handler[w].at = "track" /\ handler'[w].at = "record"
        /\ \A v \in Workers \ {w} : handler'[v] = handler[v]
    BY Handlers DEF Track, Handler, Inv
  <2> QED BY <2>1, CountGoesOn DEF Track, billing, history
<1>2. CASE \/ Check(w) \/ Sum(w) \/ FindTracker(w) \/ Notify(w) \/ Flag(w)
           \/ (NewTracker(w) /\ ~CountingThrew(w))
  <2>1. /\ \A v \in Workers \ {w} : handler'[v] = handler[v]
        /\ handler'[w].at \in Checking \cup {"idle", "read"} /\ usage' = usage
    BY <1>2, CheckMoves
  <2>2. handler[w].at \in Checking
    BY <1>2 DEF Check, Sum, FindTracker, Notify, Flag, NewTracker, Checking
  <2>3. UNCHANGED <<processed, uncounted>>
    BY <1>2 DEF Check, Sum, FindTracker, Notify, Flag, NewTracker, history
  <2> QED BY <2>1, <2>2, <2>3, CountGoesOn DEF Checking
<1>3. (NewTracker(w) /\ CountingThrew(w)) \/ CountingFails(w) => CountInv'
  BY CountThrows DEF NewTracker, CountingFails, billing
<1> QED BY <1>1, <1>2, <1>3, RecordCounts DEF CountStep

\* Only uploads are processed, and only their counter leaves them uncounted.
LEMMA OthersCountNothing ==
    ASSUME NEW w \in Workers,
           \/ Requests(w) \/ RecordsStep(w) \/ RescoreStep(w) \/ ScoreStep(w) \/ MailStep(w)
           \/ RescoringStops(w) \/ TimeOut(w)
    PROVE  UNCHANGED <<processed, uncounted>>
<1> USE DEF history
<1>1. ASSUME Requests(w) PROVE UNCHANGED <<processed, uncounted>>
  BY <1>1 DEF Requests, CreateRequests, UpdateRequests, AssignRequests, JobRequests,
              RescoreRequests, MailRequests, Tasks, CreateCandidate, UpdateCandidate,
              BulkAssignJob, UpdateJob, RescoreForJob, SendEmail, BulkSendEmails, TakeTask
<1>2. RecordsStep(w) => UNCHANGED <<processed, uncounted>>
  BY DEF RecordsStep, FindOwn, CreateOwn, Lookup, SaveCandidate, Assign
<1>3. RescoreStep(w) \/ RescoringStops(w) => UNCHANGED <<processed, uncounted>>
  BY DEF RescoreStep, ChangeJob, ListAssigned, Enqueue, EnqueueOne, RescoringStops
<1>4. ScoreStep(w) \/ TimeOut(w) => UNCHANGED <<processed, uncounted>>
  BY DEF ScoreStep, ReadCandidate, ReadJob, AskAi, SaveRow, CreateRow, SaveOverall, TimeOut
<1>5. MailStep(w) => UNCHANGED <<processed, uncounted>>
  BY DEF MailStep, Send, LogMail, ChargeMail, LogAction
<1> QED BY <1>1, <1>2, <1>3, <1>4, <1>5

LEMMA CountKept == Inv /\ CountInv /\ [Next]_vars => CountInv'
<1> SUFFICES ASSUME Inv, CountInv, [Next]_vars PROVE CountInv'
  OBVIOUS
<1>1. ASSUME NEW w \in Workers,
             \/ Requests(w) \/ RecordsStep(w) \/ RescoreStep(w) \/ ScoreStep(w) \/ MailStep(w)
             \/ RescoringStops(w) \/ TimeOut(w)
      PROVE  CountInv'
  <2>1. /\ \A v \in Workers \ {w} : handler'[v] = handler[v]
        /\ handler[w].at \notin {"track", "record"} /\ handler'[w].at \notin {"track", "record"}
        /\ usage' = usage
    BY <1>1, AsideSteps DEF Counting, billing
  <2>2. UNCHANGED <<processed, uncounted>>
    BY <1>1, OthersCountNothing
  <2> QED BY <2>1, <2>2, CountGoesOn
<1>2. ASSUME NEW w \in Workers, Hint(w) \/ Parse(w) \/ FindUploaded(w)
      PROVE  CountInv'
  <2>1. /\ \A v \in Workers \ {w} : handler'[v] = handler[v]
        /\ handler[w].at \in {"hint", "parse", "find", "create"} /\ usage' = usage
    BY <1>2, UploadMoves DEF UploadStep, billing
  <2>2. handler'[w].at \notin {"track", "record"}
    <3>1. /\ handler \in [Workers -> Handler] /\ handler[w] \in Handler
          /\ End(w) => handler'[w].at = "idle"
      BY IdleIsOK, Handlers DEF End, Inv
    <3>2. ASSUME NEW statement \in {"parse", "create"}, Goto(w, statement)
          PROVE  handler'[w].at = statement
      BY <3>1, <3>2 DEF Goto, Handler
    <3>3. Parse(w) => handler'[w].at \in {"find", "create"}
      BY <3>1 DEF Parse, Handler
    <3> QED BY <1>2, <3>1, <3>2, <3>3 DEF Hint, FindUploaded
  <2>3. UNCHANGED <<processed, uncounted>>
    BY <1>2 DEF Hint, Parse, FindUploaded, history
  <2> QED BY <2>1, <2>2, <2>3, CountGoesOn
<1>3. UploadRequests => CountInv'
  <2> SUFFICES ASSUME UploadRequests PROVE CountInv'
    OBVIOUS
  <2>1. PICK W \in SUBSET Workers, j \in Jobs \cup {None} : Admit(W, j)
    BY DEF UploadRequests, Upload
  <2>2. [Idle EXCEPT !.at = "hint", !.j = j].at = "hint" /\ Idle.at = "idle"
    BY DEF Idle
  <2>3. \A v \in Workers : handler'[v].at \in {"track", "record"}
                               <=> handler[v].at \in {"track", "record"}
    BY <2>1, <2>2 DEF Admit
  <2>4. AboutToCount' = AboutToCount
    BY <2>3 DEF AboutToCount
  <2> QED BY <2>1, <2>4, CountStays DEF Admit, billing
<1>4. UNCHANGED <<handler, usage, processed, uncounted>> => CountInv'
  BY CountStays DEF AboutToCount
<1>5. DeleteEvents \/ StatusEvents \/ Renew \/ UNCHANGED vars => CountInv'
  BY <1>4 DEF DeleteEvents, Remove, BulkDelete, StatusEvents, SetStatus, Renew, vars, billing,
              history
<1> QED BY <1>1, <1>2, <1>3, <1>5, UploadComes, CheckCounts
        DEF Next, Continue, Faults, UploadStep

\* The CVs counted, over all periods, are those that became candidates, each once: only
\* one about to be counted, or whose count itself failed, is missing.
THEOREM UploadsAreCountedOnce == Spec => []UploadsCountOnce
<1>1. Init => CountInv
  <2> SUFFICES ASSUME Init PROVE CountInv
    OBVIOUS
  <2>1. /\ limit \in Nat /\ usage \in [Periods -> 0..limit - 1] /\ 1 \in Periods
        /\ \A p \in Periods \ {1} : usage[p] = 0
    BY LimitAssumption, RecruitingBoundAssumption DEF Init, Periods
  <2>2. usage[1] \in Nat
    BY <2>1
  <2>3. UsageRecords = {1} \X (1..usage[1])
    <3>1. \A p \in Periods \ {1} : {p} \X (1..usage[p]) = {}
      BY <2>1
    <3> QED BY <2>1, <3>1 DEF UsageRecords
  <2>4. IsFiniteSet({1}) /\ Cardinality({1}) = 1
    BY FS_Singleton
  <2>5. PICK S : S = 1..usage[1]
    OBVIOUS
  <2>6. IsFiniteSet(S) /\ Cardinality(S) = usage[1]
    <3>1. PICK n \in Int : n = usage[1]
      BY <2>2
    <3>2. IsFiniteSet(1..n) /\ Cardinality(1..n) = IF 1 > n THEN 0 ELSE n - 1 + 1
      BY FS_Interval
    <3> QED BY <2>2, <2>5, <3>1, <3>2
  <2>7. IsFiniteSet(UsageRecords) /\ Cardinality(UsageRecords) = usage[1]
    <3>1. IsFiniteSet({1} \X S) /\ Cardinality({1} \X S) = 1 * usage[1]
      BY <2>4, <2>6, FS_Product
    <3> QED BY <2>2, <2>3, <2>5, <3>1
  <2>8. Cardinality(AboutToCount) = 0
    <3>1. AboutToCount = {}
      BY IdleIsOK DEF Init, AboutToCount
    <3> QED BY <3>1, FS_EmptySet
  <2> QED BY <2>2, <2>7, <2>8 DEF Init, CountInv, UploadsCountOnce
<1>2. CountInv => UploadsCountOnce
  BY DEF CountInv
<1> QED BY <1>1, <1>2, CountKept, RecruitingInvariant, PTL DEF Spec

-----------------------------------------------------------------------------
(* Scorings and what they know *)

\* Whoever is to score, or to ask for it, knows a candidate who has come; only the
\* attempts of tasks are queued; and no handler has read requirements yet to come.
FactsOK(h) ==
    /\ h.at \in ToScore \cup {"enqueueOne"} => h.x <= born
    /\ h.at = "enqueue" => \A x \in h.xs : x <= born
    /\ h.queued => h.at \in Scoring
    /\ h.at \in Scoring /\ h.try # 0 => h.queued
    /\ h.at \in {"ask", "row", "overall"} => h.v <= jobs[h.j].version

FactsInv ==
    /\ \A w \in Workers : FactsOK(handler[w])
    /\ \A t \in Task : waiting[t] > 0 => t.x <= born
    /\ \A x \in Ids, j \in Jobs : scores[x][j] # None => scores[x][j] <= jobs[j].version

LEMMA IdleKnows == FactsOK(Idle)
<1>1. Idle.at = "idle" /\ Idle.queued = FALSE
  BY DEF Idle
<1> QED BY <1>1 DEF FactsOK, ToScore, Scoring, Checking

\* Candidates come and requirements change, but never back.
Later ==
    /\ born' \in {born, born + 1}
    /\ \A j \in Jobs : jobs'[j].version \in Nat /\ jobs'[j].version >= jobs[j].version

\* What was true of a handler stays true.
LEMMA FactsStay ==
    ASSUME Inv, Later, NEW h \in Handler, HandlerOK(h), FactsOK(h)
    PROVE  FactsOK(h)'
<1>1. /\ \A j \in Jobs : /\ jobs[j].version \in Nat /\ jobs'[j].version \in Nat
                          /\ jobs'[j].version >= jobs[j].version
      /\ born \in Nat /\ born' \in Nat /\ born' >= born
  BY RecruitingBoundAssumption DEF Inv, RoomOK, ChangesOK, Versions, Later
<1>2. /\ h.at \in ToScore \cup {"enqueueOne"} => h.x \in Nat
      /\ h.at = "enqueue" => \A x \in h.xs : x \in Nat
      /\ h.v \in Int
      /\ h.at \in {"ask", "row", "overall"} =>
            /\ jobs[h.j].version \in Nat /\ jobs'[h.j].version \in Nat
            /\ jobs'[h.j].version >= jobs[h.j].version
  BY <1>1, RecruitingBoundAssumption DEF HandlerOK, Handler, ToScore, Scoring, Ids, Versions
<1>3. h.at \in ToScore \cup {"enqueueOne"} => h.x <= born'
  BY <1>1, <1>2 DEF FactsOK
<1>4. h.at = "enqueue" => \A x \in h.xs : x <= born'
  BY <1>1, <1>2 DEF FactsOK
<1>5. h.at \in {"ask", "row", "overall"} => h.v <= jobs'[h.j].version
  <2> SUFFICES ASSUME h.at \in {"ask", "row", "overall"} PROVE h.v <= jobs'[h.j].version
    OBVIOUS
  <2>1. h.v <= jobs[h.j].version
    BY DEF FactsOK
  <2> QED BY <1>2, <2>1
<1> QED BY <1>3, <1>4, <1>5 DEF FactsOK

\* A step of w.
LEMMA FactsMove ==
    ASSUME Inv, FactsInv, Later, NEW w \in Workers,
           \A v \in Workers \ {w} : handler'[v] = handler[v],
           FactsOK(handler[w])',
           \A t \in Task : waiting'[t] > 0 => waiting[t] > 0 \/ t.x <= born,
           \A x \in Ids, j \in Jobs :
               scores'[x][j] \in {None, scores[x][j]} \/ scores'[x][j] <= jobs'[j].version
    PROVE  FactsInv'
<1>1. ASSUME NEW v \in Workers PROVE FactsOK(handler[v])'
  <2>1. CASE v = w
    BY <2>1
  <2>2. CASE v # w
    <3>1. handler'[v] = handler[v] /\ handler[v] \in Handler /\ HandlerOK(handler[v])
      BY <2>2, Handlers
    <3>2. PICK h \in Handler : h = handler[v]
      BY <3>1
    <3>3. FactsOK(h)'
      BY <3>1, <3>2, FactsStay DEF FactsInv
    <3> QED BY <3>1, <3>2, <3>3 DEF FactsOK
  <2> QED BY <2>1, <2>2
<1>2. ASSUME NEW t \in Task, waiting'[t] > 0 PROVE t.x <= born'
  <2>1. t.x <= born /\ born \in Nat /\ t.x \in Nat
    BY <1>2 DEF FactsInv, Inv, RoomOK, Task, Ids
  <2> QED BY <2>1 DEF Later
<1>3. ASSUME NEW x \in Ids, NEW j \in Jobs, scores'[x][j] # None
      PROVE  scores'[x][j] <= jobs'[j].version
  <2>1. CASE scores'[x][j] = scores[x][j]
    <3>1. /\ scores[x][j] <= jobs[j].version /\ scores[x][j] \in Versions
          /\ jobs'[j].version >= jobs[j].version /\ jobs[j].version \in Versions
      BY <1>3, <2>1 DEF FactsInv, Inv, TablesOK, ChangesOK, Later
    <3>2. jobs'[j].version \in Nat
      BY DEF Later
    <3> QED BY <2>1, <3>1, <3>2, RecruitingBoundAssumption DEF Versions
  <2> QED BY <1>3, <2>1
<1> QED BY <1>1, <1>2, <1>3 DEF FactsInv

-----------------------------------------------------------------------------
(* Steps as scorings see them *)

board == <<candidates, born, scores, jobs, waiting, mixed, unscored>>
Scorers == ToScore \cup Triggering \cup {"enqueueOne"}

\* A step of a handler that has nothing to do with scorings.
Bystands(w) ==
    /\ \A v \in Workers \ {w} : handler'[v] = handler[v]
    /\ handler[w].at \notin Scorers /\ handler'[w].at \notin Scorers
    /\ ~handler'[w].queued
    /\ UNCHANGED board

LEMMA IdleBystands ==
    ASSUME Inv, NEW w \in Workers, End(w), handler[w].at \notin Scorers, UNCHANGED board
    PROVE  Bystands(w)
<1>1. Idle.at = "idle" /\ Idle.queued = FALSE
  BY DEF Idle
<1>2. handler \in [Workers -> Handler]
  BY DEF Inv
<1> QED BY <1>1, <1>2 DEF Bystands, End, Scorers, ToScore, Scoring, Checking, Triggering

LEMMA BegunBystands ==
    ASSUME Inv, NEW w \in Workers, NEW g, Begin(w, g), g.at \notin Scorers, ~g.queued,
           UNCHANGED board
    PROVE  Bystands(w)
<1>1. Idle.at = "idle"
  BY DEF Idle
<1>2. handler \in [Workers -> Handler]
  BY DEF Inv
<1> QED BY <1>1, <1>2 DEF Bystands, Begin, Scorers, ToScore, Scoring, Checking, Triggering

LEMMA GoingBystands ==
    ASSUME Inv, FactsInv, NEW w \in Workers, NEW at \in Statements \ Scorers, Goto(w, at),
           handler[w].at \notin Scorers, UNCHANGED board
    PROVE  Bystands(w)
<1>1. handler \in [Workers -> Handler] /\ handler[w] \in Handler
  BY Handlers DEF Inv
<1>2. handler'[w].at = at /\ handler'[w].queued = handler[w].queued
  BY <1>1 DEF Goto, Handler
<1>3. ~handler[w].queued
  BY DEF FactsInv, FactsOK, Scorers, ToScore
<1> QED BY <1>1, <1>2, <1>3 DEF Bystands, Goto

\* The start of a request for one score, and of a task's attempt.
Asks(w, x, j) ==
    /\ Exists(x)
    /\ handler[w] = Idle
    /\ handler' = [handler EXCEPT ![w] = [Idle EXCEPT !.at = "enqueueOne", !.x = x, !.j = j]]
    /\ UNCHANGED board
Takes(w, t) ==
    /\ waiting[t] > 0
    /\ handler[w] = Idle
    /\ waiting' = [waiting EXCEPT ![t] = @ - 1]
    /\ handler' = [handler EXCEPT ![w] = [Idle EXCEPT !.at = "read", !.x = t.x, !.j = t.j,
                                                      !.try = t.tries + 1, !.queued = TRUE]]
    /\ mixed' = IF ScoringOf(t.x) # {} THEN mixed \cup {t.x} ELSE mixed
    /\ UNCHANGED <<candidates, born, scores, jobs, unscored>>

LEMMA RequestMoves ==
    ASSUME Inv, NEW w \in Workers, Requests(w)
    PROVE  \/ Bystands(w)
           \/ \E x \in Ids, j \in Jobs : Asks(w, x, j)
           \/ \E t \in Task : Takes(w, t)
<1> USE DEF people, work, history, board
<1>1. Idle.at = "idle" /\ Idle.queued = FALSE
  BY DEF Idle
<1>2. ASSUME NEW g, g.at \in {"findOwn", "createOwn", "save", "lookup", "assign", "changeJob", "send"},
             ~g.queued, Begin(w, g), UNCHANGED board
      PROVE  Bystands(w)
  <2>1. g.at \notin Scorers
    BY <1>2 DEF Scorers, ToScore, Scoring, Checking, Triggering
  <2> QED BY <1>2, <2>1, BegunBystands
<1>3. ASSUME NEW e, NEW j, CreateCandidate(w, e, j) PROVE Bystands(w)
  <2> DEFINE g == [Idle EXCEPT !.at = IF e = None THEN "createOwn" ELSE "findOwn",
                               !.who = e, !.j = j]
  <2>1. g.at \in {"createOwn", "findOwn"} /\ ~g.queued
    BY DEF Idle
  <2>2. Begin(w, g) /\ UNCHANGED board
    BY <1>3 DEF CreateCandidate
  <2> HIDE DEF g
  <2> QED BY <1>2, <2>1, <2>2
<1>4. ASSUME NEW x, NEW e, NEW xs, NEW j, UpdateCandidate(w, x, e, xs, j) PROVE Bystands(w)
  <2> DEFINE g == [Idle EXCEPT
              !.at = IF e \in {None, candidates[x].email} THEN "save" ELSE "lookup",
              !.x = x, !.who = e, !.xs = xs, !.j = j]
  <2>1. g.at \in {"save", "lookup"} /\ ~g.queued
    BY DEF Idle
  <2>2. Begin(w, g) /\ UNCHANGED board
    BY <1>4 DEF UpdateCandidate
  <2> HIDE DEF g
  <2> QED BY <1>2, <2>1, <2>2
<1>5. ASSUME NEW xs, NEW j, BulkAssignJob(w, xs, j) PROVE Bystands(w)
  <2> DEFINE g == [Idle EXCEPT !.at = "assign", !.xs = xs, !.j = j]
  <2>1. g.at = "assign" /\ ~g.queued
    BY DEF Idle
  <2>2. Begin(w, g) /\ UNCHANGED board
    BY <1>5 DEF BulkAssignJob
  <2> HIDE DEF g
  <2> QED BY <1>2, <2>1, <2>2
<1>6. ASSUME NEW j, UpdateJob(w, j) PROVE Bystands(w)
  <2> DEFINE g == [Idle EXCEPT !.at = "changeJob", !.j = j]
  <2>1. g.at = "changeJob" /\ ~g.queued
    BY DEF Idle
  <2>2. Begin(w, g) /\ UNCHANGED board
    BY <1>6 DEF UpdateJob
  <2> HIDE DEF g
  <2> QED BY <1>2, <2>1, <2>2
<1>7. ASSUME NEW x, SendEmail(w, x) PROVE Bystands(w)
  <2> DEFINE g == [Idle EXCEPT !.at = "send", !.x = x, !.xs = {x}]
  <2>1. g.at = "send" /\ ~g.queued
    BY DEF Idle
  <2>2. Begin(w, g) /\ UNCHANGED board
    BY <1>7 DEF SendEmail
  <2> HIDE DEF g
  <2> QED BY <1>2, <2>1, <2>2
<1>8. ASSUME NEW xs, BulkSendEmails(w, xs) PROVE Bystands(w)
  <2>1. PICK x : Begin(w, [Idle EXCEPT !.at = "send", !.x = x, !.xs = Addressed(xs)])
    BY <1>8, Zenon DEF BulkSendEmails
  <2> DEFINE g == [Idle EXCEPT !.at = "send", !.x = x, !.xs = Addressed(xs)]
  <2>2. g.at = "send" /\ ~g.queued
    BY DEF Idle
  <2>3. Begin(w, g) /\ UNCHANGED board
    BY <1>8, <2>1 DEF BulkSendEmails
  <2> HIDE DEF g
  <2> QED BY <1>2, <2>2, <2>3
<1>9. ASSUME NEW x \in Ids, NEW j \in Jobs, RescoreForJob(w, x, j) PROVE Asks(w, x, j)
  BY <1>9 DEF RescoreForJob, Begin, Asks
<1>10. ASSUME NEW t \in Task, TakeTask(w, t) PROVE Takes(w, t)
  BY <1>10 DEF TakeTask, Begin, Overlapping, Takes
<1> HIDE DEF people, work, history, board
<1> QED BY <1>3, <1>4, <1>5, <1>6, <1>7, <1>8, <1>9, <1>10
        DEF Requests, CreateRequests, UpdateRequests, AssignRequests, JobRequests,
            RescoreRequests, MailRequests, Tasks

\* The mailers, and the uploads and lookups that have no candidate yet.
LEMMA MailersBystand ==
    ASSUME Inv, FactsInv, NEW w \in Workers, MailStep(w)
    PROVE  Bystands(w)
<1> USE DEF people, work, history, board
<1>1. handler \in [Workers -> Handler] /\ handler[w] \in Handler
  BY Handlers DEF Inv
<1>2. handler[w].at \in Mailing /\ handler[w].at \notin Scorers
  BY DEF MailStep, Send, LogMail, ChargeMail, LogAction, Mailing, Scorers, ToScore, Scoring,
         Checking, Triggering
<1>3. {"log", "charge", "action"} \subseteq Statements \ Scorers /\ "send" \notin Scorers
  BY DEF Statements, Mailing, Scorers, ToScore, Scoring, Checking, Triggering
<1>4. UNCHANGED board
  BY DEF MailStep, Send, LogMail, ChargeMail, LogAction
<1>5. End(w) => Bystands(w)
  BY <1>2, <1>4, IdleBystands
<1>6. Goto(w, "log") \/ Goto(w, "charge") \/ Goto(w, "action") => Bystands(w)
  BY <1>2, <1>3, <1>4, GoingBystands
<1>7. NextMail(w) => Bystands(w)
  <2> SUFFICES ASSUME NextMail(w), ~End(w) PROVE Bystands(w)
    BY <1>5
  <2>1. PICK x : handler' = [handler EXCEPT ![w].at = "send", ![w].x = x,
                                            ![w].xs = handler[w].xs \ {handler[w].x}]
    BY Zenon DEF NextMail
  <2>2. /\ handler'[w].at = "send" /\ handler'[w].queued = handler[w].queued
        /\ \A v \in Workers \ {w} : handler'[v] = handler[v]
    BY <1>1, <2>1 DEF Handler
  <2>3. ~handler[w].queued
    BY <1>2 DEF FactsInv, FactsOK, Scorers, ToScore
  <2> QED BY <1>2, <1>3, <1>4, <2>2, <2>3 DEF Bystands
<1> QED BY <1>5, <1>6, <1>7 DEF MailStep, Send, LogMail, ChargeMail, LogAction

\* The row of candidate born + 1, by handler w, which then is at the statement.
Creates(w, at) ==
    /\ handler[w].at \in {"create", "createOwn"} /\ handler[w].j \in Jobs \cup {None}
    /\ born + 1 \in Ids /\ born' = born + 1
    /\ candidates' = [candidates EXCEPT ![born + 1] =
                         [email |-> handler[w].who, job |-> handler[w].j, overall |-> None, of |-> None]]
    /\ \A v \in Workers \ {w} : handler'[v] = handler[v]
    /\ handler'[w].at = at /\ ~handler'[w].queued
    /\ at = "track" => handler'[w].x = born + 1 /\ handler'[w].j = handler[w].j
    /\ UNCHANGED <<scores, jobs, waiting, mixed, unscored>>

LEMMA UploadStepMoves ==
    ASSUME Inv, FactsInv, NEW w \in Workers, UploadStep(w)
    PROVE  Bystands(w) \/ Creates(w, "track")
<1> USE DEF people, work, history, board
<1>1. handler \in [Workers -> Handler] /\ handler[w] \in Handler
  BY Handlers DEF Inv
<1>2. handler[w].at \in {"hint", "parse", "find", "create"} /\ handler[w].at \notin Scorers
  BY UploadMoves DEF Scorers, ToScore, Scoring, Checking, Triggering
<1>3. {"parse", "find", "create"} \subseteq Statements \ Scorers
  BY DEF Statements, Counting, Scorers, ToScore, Scoring, Checking, Triggering
<1>4. ~handler[w].queued
  BY <1>2 DEF FactsInv, FactsOK, Scorers, ToScore
<1>5. Hint(w) => Bystands(w)
  BY <1>2, <1>3, IdleBystands, GoingBystands DEF Hint
<1>6. FindUploaded(w) => Bystands(w)
  BY <1>2, <1>3, IdleBystands, GoingBystands DEF FindUploaded
<1>7. Parse(w) => Bystands(w)
  <2> SUFFICES ASSUME Parse(w) PROVE Bystands(w)
    OBVIOUS
  <2>1. PICK e : handler' = [handler EXCEPT ![w].at = IF e = None THEN "create" ELSE "find",
                                            ![w].who = e]
    BY DEF Parse
  <2>2. /\ handler'[w].at \in {"find", "create"} /\ handler'[w].queued = handler[w].queued
        /\ \A v \in Workers \ {w} : handler'[v] = handler[v]
    BY <1>1, <2>1 DEF Handler
  <2>3. UNCHANGED board
    BY DEF Parse
  <2> QED BY <1>2, <1>3, <1>4, <2>2, <2>3 DEF Bystands
<1>8. CreateUploaded(w) => Creates(w, "track")
  <2> SUFFICES ASSUME CreateUploaded(w) PROVE Creates(w, "track")
    OBVIOUS
  <2>1. handler[w].at = "create" /\ handler[w].j \in Jobs \cup {None}
    BY <1>1 DEF CreateUploaded, Handler
  <2>2. born + 1 \in Ids
    BY <2>1, RoomForOne DEF Creating
  <2>3. /\ handler'[w].at = "track" /\ handler'[w].x = born + 1 /\ handler'[w].j = handler[w].j
        /\ handler'[w].queued = handler[w].queued
        /\ \A v \in Workers \ {w} : handler'[v] = handler[v]
    BY <1>1 DEF CreateUploaded, Handler
  <2>4. /\ born' = born + 1
        /\ candidates' = [candidates EXCEPT ![born + 1] = [email |-> handler[w].who,
                             job |-> handler[w].j, overall |-> None, of |-> None]]
        /\ UNCHANGED <<scores, jobs, waiting, mixed, unscored>>
    BY DEF CreateUploaded, Insert
  <2> QED BY <1>4, <2>1, <2>2, <2>3, <2>4 DEF Creates
<1> QED BY <1>5, <1>6, <1>7, <1>8 DEF UploadStep

\* An assignment of xs to j, which leaves the other columns that count for scorings.
Moves(w, xs, j) ==
    /\ handler[w].at \in {"save", "assign"} /\ handler' = [handler EXCEPT ![w] = Idle]
    /\ xs \subseteq Existing
    /\ \A x \in Ids :
          /\ Exists(x)' <=> Exists(x)
          /\ Exists(x) => /\ candidates'[x].job = IF x \in xs THEN j ELSE candidates[x].job
                          /\ candidates'[x].overall = candidates[x].overall
                          /\ candidates'[x].of = candidates[x].of
    /\ Assigned(xs, j)
    /\ UNCHANGED <<born, scores, jobs, waiting>>

Rewritten(row, email, j) == [row EXCEPT !.email = email, !.job = j]

LEMMA RowsMove ==
    ASSUME NEW row \in Candidate, NEW email, NEW j
    PROVE  /\ Rewritten(row, email, j) # NoCandidate /\ Rewritten(row, email, j).job = j
           /\ Rewritten(row, email, j).overall = row.overall /\ Rewritten(row, email, j).of = row.of
<1>1. "job" \in DOMAIN Rewritten(row, email, j) /\ "job" \notin DOMAIN NoCandidate
  BY DEF Rewritten, NoCandidate, Candidate
<1>2. Rewritten(row, email, j) # NoCandidate
  BY <1>1
<1> QED BY <1>2 DEF Rewritten, Candidate

LEMMA RecordsMove ==
    ASSUME Inv, FactsInv, NEW w \in Workers, RecordsStep(w)
    PROVE  \/ Bystands(w)
           \/ Creates(w, "idle")
           \/ \E xs \in SUBSET Ids, j \in Jobs \cup {None} : Moves(w, xs, j)
<1> USE DEF people, work, history, board
<1>1. handler \in [Workers -> Handler] /\ handler[w] \in Handler /\ HandlerOK(handler[w])
  BY Handlers DEF Inv
<1>2. handler[w].at \in {"findOwn", "createOwn", "lookup", "save", "assign"}
  BY DEF RecordsStep, FindOwn, CreateOwn, Lookup, SaveCandidate, Assign
<1>3. handler[w].at \notin Scorers
  BY <1>2 DEF Scorers, ToScore, Scoring, Checking, Triggering
<1>4. {"createOwn", "save"} \subseteq Statements \ Scorers
  BY DEF Statements, Scorers, ToScore, Scoring, Checking, Triggering
<1>5. FindOwn(w) => Bystands(w)
  BY <1>3, <1>4, IdleBystands, GoingBystands DEF FindOwn
<1>6. Lookup(w) => Bystands(w)
  BY <1>3, <1>4, IdleBystands, GoingBystands DEF Lookup
<1>7. CreateOwn(w) => Creates(w, "idle")
  <2> SUFFICES ASSUME CreateOwn(w) PROVE Creates(w, "idle")
    OBVIOUS
  <2>1. handler[w].at = "createOwn" /\ handler[w].j \in Jobs \cup {None}
    BY <1>1 DEF CreateOwn, Handler
  <2>2. born + 1 \in Ids
    BY <2>1, RoomForOne DEF Creating
  <2>3. Idle.at = "idle" /\ Idle.queued = FALSE
    BY DEF Idle
  <2>4. /\ handler'[w].at = "idle" /\ ~handler'[w].queued
        /\ \A v \in Workers \ {w} : handler'[v] = handler[v]
    BY <1>1, <2>3 DEF CreateOwn, End
  <2>5. /\ born' = born + 1
        /\ candidates' = [candidates EXCEPT ![born + 1] = [email |-> handler[w].who,
                             job |-> handler[w].j, overall |-> None, of |-> None]]
        /\ UNCHANGED <<scores, jobs, waiting, mixed, unscored>>
    BY DEF CreateOwn, Insert
  <2> QED BY <2>1, <2>2, <2>4, <2>5 DEF Creates
<1>8. candidates \in [Ids -> Candidate \cup {NoCandidate}]
  BY DEF Inv, TablesOK
<1>9. SaveCandidate(w) => Bystands(w) \/ \E xs \in SUBSET Ids, j \in Jobs \cup {None} : Moves(w, xs, j)
  <2> SUFFICES ASSUME SaveCandidate(w)
               PROVE  Bystands(w) \/ \E xs \in SUBSET Ids, j \in Jobs \cup {None} : Moves(w, xs, j)
    OBVIOUS
  <2> DEFINE h == handler[w]
             xs == h.xs
  <2>1. /\ h.at = "save" /\ h.x \in Ids /\ h.j \in Jobs \cup {None} /\ h.xs \subseteq {h.x}
        /\ End(w) /\ UNCHANGED <<born, scores, jobs, waiting>>
    BY <1>1 DEF SaveCandidate, HandlerOK, Handler
  <2>2. CASE ~Exists(h.x)
    <3>1. UNCHANGED <<candidates, unscored, mixed>>
      BY <2>2 DEF SaveCandidate
    <3> QED BY <1>3, <2>1, <3>1, IdleBystands
  <2>3. CASE Exists(h.x)
    <3> DEFINE email == IF h.who = None THEN candidates[h.x].email ELSE h.who
               job == IF h.xs = {} THEN candidates[h.x].job ELSE h.j
               new == Rewritten(candidates[h.x], email, job)
    <3>1. candidates[h.x] \in Candidate
      BY <1>8, <2>1, <2>3 DEF Exists
    <3>2. candidates' = [candidates EXCEPT ![h.x] = new] /\ Assigned(xs, h.j)
      BY <1>8, <2>3, <3>1, ZenonT(40) DEF SaveCandidate, Candidate, Rewritten
    <3>3. new # NoCandidate /\ new.job = job /\ new.overall = candidates[h.x].overall
          /\ new.of = candidates[h.x].of
      BY <3>1, RowsMove
    <3> HIDE DEF new
    <3>4. \A x \in Ids :
             /\ Exists(x)' <=> Exists(x)
             /\ Exists(x) => /\ candidates'[x].job = IF x \in xs THEN h.j ELSE candidates[x].job
                             /\ candidates'[x].overall = candidates[x].overall
                             /\ candidates'[x].of = candidates[x].of
      BY <1>8, <2>1, <2>3, <3>2, <3>3 DEF Exists
    <3>5. xs \subseteq Existing /\ xs \in SUBSET Ids
      BY <2>1, <2>3 DEF Existing, Exists
    <3>6. handler' = [handler EXCEPT ![w] = Idle]
      BY <2>1 DEF End
    <3>7. Moves(w, xs, h.j)
      <4> HIDE DEF xs
      <4> QED BY <2>1, <3>2, <3>4, <3>5, <3>6 DEF Moves
    <3> HIDE DEF xs
    <3> QED BY <2>1, <3>5, <3>7
  <2> QED BY <2>2, <2>3
<1>10. Assign(w) => Bystands(w) \/ \E xs \in SUBSET Ids, j \in Jobs \cup {None} : Moves(w, xs, j)
  <2> SUFFICES ASSUME Assign(w)
               PROVE  Bystands(w) \/ \E xs \in SUBSET Ids, j \in Jobs \cup {None} : Moves(w, xs, j)
    OBVIOUS
  <2> DEFINE h == handler[w]
  <2>1. /\ h.at = "assign" /\ h.xs \in SUBSET Ids /\ h.j \in Jobs /\ End(w)
        /\ UNCHANGED <<born, scores, jobs, waiting>>
    BY <1>1 DEF Assign, HandlerOK, Handler
  <2>2. CASE ~(h.xs \subseteq Existing)
    <3>1. UNCHANGED <<candidates, unscored, mixed>>
      BY <2>2 DEF Assign
    <3> QED BY <1>3, <2>1, <3>1, IdleBystands
  <2>3. CASE h.xs \subseteq Existing
    <3>1. /\ candidates' = [x \in Ids |-> IF x \in h.xs THEN [candidates[x] EXCEPT !.job = h.j]
                                          ELSE candidates[x]]
          /\ Assigned(h.xs, h.j)
      BY <2>3 DEF Assign
    <3>2. ASSUME NEW x \in Ids
          PROVE  /\ Exists(x)' <=> Exists(x)
                 /\ Exists(x) => /\ candidates'[x].job = IF x \in h.xs THEN h.j ELSE candidates[x].job
                                 /\ candidates'[x].overall = candidates[x].overall
                                 /\ candidates'[x].of = candidates[x].of
      <4>1. CASE x \notin h.xs
        BY <3>1, <3>2, <4>1 DEF Exists
      <4>2. CASE x \in h.xs
        <5>1. candidates[x] \in Candidate /\ Exists(x)
          BY <1>8, <2>3, <3>2, <4>2 DEF Existing, Exists
        <5>2. candidates'[x] = Rewritten(candidates[x], candidates[x].email, h.j)
          BY <3>1, <3>2, <4>2, <5>1 DEF Candidate, Rewritten
        <5>3. candidates'[x] # NoCandidate /\ candidates'[x].job = h.j
              /\ candidates'[x].overall = candidates[x].overall /\ candidates'[x].of = candidates[x].of
          BY <5>1, <5>2, RowsMove
        <5> QED BY <4>2, <5>1, <5>3 DEF Exists
      <4> QED BY <4>1, <4>2
    <3>3. Moves(w, h.xs, h.j)
      BY <2>1, <2>3, <3>1, <3>2 DEF Moves, End
    <3> QED BY <2>1, <3>3
  <2> QED BY <2>2, <2>3
<1> QED BY <1>5, <1>6, <1>7, <1>9, <1>10 DEF RecordsStep

\* An upload that is being counted: it goes on, ends, or begins to score.
Counts(w) == handler[w].at \in Checking \cup {"track", "record"}
Carries(w) ==
    /\ Counts(w)
    /\ \A v \in Workers \ {w} : handler'[v] = handler[v]
    /\ handler'[w].at \in Checking \cup {"record"}
    /\ handler'[w].x = handler[w].x /\ handler'[w].j = handler[w].j
    /\ handler'[w].queued = handler[w].queued
    /\ UNCHANGED board
Drops(w) == Counts(w) /\ End(w) /\ UNCHANGED board
Scores(w) ==
    /\ Counts(w) /\ handler[w].j # None
    /\ handler' = [handler EXCEPT ![w] = [Idle EXCEPT !.at = "read", !.x = handler[w].x,
                                                      !.j = handler[w].j]]
    /\ mixed' = IF ScoringOf(handler[w].x) # {} THEN mixed \cup {handler[w].x} ELSE mixed
    /\ UNCHANGED <<candidates, born, scores, jobs, waiting, unscored>>

LEMMA CountsMove ==
    ASSUME Inv, NEW w \in Workers, CountStep(w) \/ CountingFails(w)
    PROVE  Carries(w) \/ Drops(w) \/ Scores(w)
<1> USE DEF people, work, history, board
<1>1. handler \in [Workers -> Handler] /\ handler[w] \in Handler
  BY Handlers DEF Inv
<1>2. Counts(w)
  BY DEF CountStep, CountingFails, Track, Record, Check, Sum, FindTracker, NewTracker, Notify, Flag,
         Counts, Checking
<1>3. ASSUME NEW at \in Checking, Goto(w, at), UNCHANGED board PROVE Carries(w)
  <2>1. /\ \A v \in Workers \ {w} : handler'[v] = handler[v]
        /\ handler'[w].at = at
        /\ handler'[w].x = handler[w].x /\ handler'[w].j = handler[w].j
        /\ handler'[w].queued = handler[w].queued
    BY <1>1, <1>3 DEF Goto, Handler
  <2> QED BY <1>2, <1>3, <2>1 DEF Carries
<1>4. Counted(w) /\ UNCHANGED <<candidates, born, scores, jobs, waiting, unscored>>
          => Drops(w) \/ Scores(w)
  BY <1>2 DEF Counted, Drops, Scores
<1>5. Track(w) => Carries(w)
  <2> SUFFICES ASSUME Track(w) PROVE Carries(w)
    OBVIOUS
  <2>1. /\ \A v \in Workers \ {w} : handler'[v] = handler[v]
        /\ handler'[w].at = "record"
        /\ handler'[w].x = handler[w].x /\ handler'[w].j = handler[w].j
        /\ handler'[w].queued = handler[w].queued
    BY <1>1 DEF Track, Handler
  <2>2. UNCHANGED board
    BY DEF Track
  <2> QED BY <1>2, <2>1, <2>2 DEF Carries
<1>6. Record(w) => Carries(w)
  BY <1>3 DEF Record, Checking
<1>7. Check(w) => Carries(w)
  <2> SUFFICES ASSUME Check(w) PROVE Carries(w)
    OBVIOUS
  <2>1. /\ \A v \in Workers \ {w} : handler'[v] = handler[v]
        /\ handler'[w].at = "sum"
        /\ handler'[w].x = handler[w].x /\ handler'[w].j = handler[w].j
        /\ handler'[w].queued = handler[w].queued
    BY <1>1 DEF Check, Handler
  <2>2. UNCHANGED board
    BY DEF Check
  <2> QED BY <1>2, <2>1, <2>2 DEF Carries, Checking
<1>8. Sum(w) => Carries(w)
  <2> SUFFICES ASSUME Sum(w) PROVE Carries(w)
    OBVIOUS
  <2>1. /\ \A v \in Workers \ {w} : handler'[v] = handler[v]
        /\ handler'[w].at = "findTracker"
        /\ handler'[w].x = handler[w].x /\ handler'[w].j = handler[w].j
        /\ handler'[w].queued = handler[w].queued
    BY <1>1 DEF Sum, Handler
  <2>2. UNCHANGED board
    BY DEF Sum
  <2> QED BY <1>2, <2>1, <2>2 DEF Carries, Checking
<1>9. ASSUME NEW seen, handler' = [handler EXCEPT ![w].at = "notify", ![w].seen = seen],
             UNCHANGED board
      PROVE  Carries(w)
  <2>1. /\ \A v \in Workers \ {w} : handler'[v] = handler[v]
        /\ handler'[w].at = "notify"
        /\ handler'[w].x = handler[w].x /\ handler'[w].j = handler[w].j
        /\ handler'[w].queued = handler[w].queued
    BY <1>1, <1>9 DEF Handler
  <2> QED BY <1>2, <1>9, <2>1 DEF Carries, Checking
<1>10. FindTracker(w) => Carries(w)
  BY <1>3, <1>9 DEF FindTracker, Checking
<1>11. CountingThrew(w) /\ UNCHANGED board => Drops(w)
  BY <1>2 DEF CountingThrew, Drops
<1>12. NewTracker(w) => Carries(w) \/ Drops(w)
  BY <1>9, <1>11 DEF NewTracker
<1>13. CountingFails(w) => Drops(w)
  BY <1>11 DEF CountingFails
<1>14. Notify(w) => Carries(w) \/ Drops(w) \/ Scores(w)
  BY <1>3, <1>4 DEF Notify, Checking
<1>15. Flag(w) => Drops(w) \/ Scores(w)
  BY <1>4 DEF Flag
<1> QED BY <1>5, <1>6, <1>7, <1>8, <1>10, <1>12, <1>13, <1>14, <1>15 DEF CountStep

\* A scoring that goes on, with what it knows of its task.
Proceeds(w, at) ==
    /\ \A v \in Workers \ {w} : handler'[v] = handler[v]
    /\ handler'[w].at = at
    /\ handler'[w].x = handler[w].x /\ handler'[w].j = handler[w].j
    /\ handler'[w].queued = handler[w].queued /\ handler'[w].try \in {0, handler[w].try}

LEMMA ProceedsTo ==
    ASSUME Inv, NEW w \in Workers, NEW at, Goto(w, at)
    PROVE  /\ Proceeds(w, at) /\ handler'[w].try = handler[w].try
           /\ handler'[w].mine = handler[w].mine /\ handler'[w].v = handler[w].v
<1>1. handler \in [Workers -> Handler] /\ handler[w] \in Handler
  BY Handlers DEF Inv
<1> QED BY <1>1 DEF Goto, Proceeds, Handler

LEMMA ReadsProceed ==
    ASSUME Inv, NEW w \in Workers
    PROVE  /\ ReadCandidate(w) /\ Exists(handler[w].x) =>
                 /\ Proceeds(w, "readJob") /\ handler'[w].try = handler[w].try
                 /\ handler'[w].mine = candidates[handler[w].x].job
           /\ ReadJob(w) =>
                 /\ Proceeds(w, "ask") /\ handler'[w].try = handler[w].try
                 /\ handler'[w].mine = handler[w].mine
                 /\ handler'[w].v = jobs[handler[w].j].version
           /\ TimeOut(w) =>
                 /\ Proceeds(w, handler[w].at) /\ handler'[w].try = 0
                 /\ handler'[w].mine = handler[w].mine /\ handler'[w].v = handler[w].v
<1>1. handler \in [Workers -> Handler] /\ handler[w] \in Handler
  BY Handlers DEF Inv
<1>2. ReadCandidate(w) /\ Exists(handler[w].x) =>
         /\ Proceeds(w, "readJob") /\ handler'[w].try = handler[w].try
         /\ handler'[w].mine = candidates[handler[w].x].job
  <2> SUFFICES ASSUME ReadCandidate(w), Exists(handler[w].x)
               PROVE  /\ Proceeds(w, "readJob") /\ handler'[w].try = handler[w].try
                      /\ handler'[w].mine = candidates[handler[w].x].job
    OBVIOUS
  <2>1. PICK mine : /\ mine = candidates[handler[w].x].job
                    /\ handler' = [handler EXCEPT ![w].at = "readJob", ![w].mine = mine]
    BY DEF ReadCandidate
  <2> QED BY <1>1, <2>1 DEF Proceeds, Handler
<1>3. ReadJob(w) =>
         /\ Proceeds(w, "ask") /\ handler'[w].try = handler[w].try
         /\ handler'[w].mine = handler[w].mine
         /\ handler'[w].v = jobs[handler[w].j].version
  BY <1>1 DEF ReadJob, Proceeds, Handler
<1>4. TimeOut(w) =>
         /\ Proceeds(w, handler[w].at) /\ handler'[w].try = 0
         /\ handler'[w].mine = handler[w].mine /\ handler'[w].v = handler[w].v
  BY <1>1 DEF TimeOut, Proceeds, Handler
<1> QED BY <1>2, <1>3, <1>4

\* What the queue does about an attempt: it repeats it, or leaves a trace.
LEMMA RetryMoves ==
    ASSUME Inv, NEW w \in Workers, handler[w].at \in Scoring, Retry(handler[w])
    PROVE  /\ \A t \in Task : waiting[t] > 0 => waiting'[t] > 0
           /\ \A t \in Task : waiting'[t] > 0 => waiting[t] > 0 \/ t.x = handler[w].x
           /\ unscored \subseteq unscored'
           /\ handler[w].try # 0 =>
                 \/ <<handler[w].x, handler[w].j>> \in unscored'
                 \/ \E t \in Task : waiting'[t] > 0 /\ t.x = handler[w].x /\ t.j = handler[w].j
<1> DEFINE h == handler[w]
<1>1. /\ h.x \in Ids /\ h.j \in Jobs /\ h.try \in 0..Attempts /\ waiting \in [Task -> Nat]
  BY Handlers DEF HandlerOK, Handler, Inv, TablesOK
<1>2. CASE h.try \in 1..Attempts - 1
  <2> DEFINE t == [x |-> h.x, j |-> h.j, tries |-> h.try]
  <2>1. t \in Task /\ t.x = h.x /\ t.j = h.j
    BY <1>1, <1>2 DEF Task, Attempts
  <2>2. waiting' = [waiting EXCEPT ![t] = @ + 1] /\ unscored' = unscored
    BY <1>2 DEF Retry
  <2> HIDE DEF t
  <2>3. /\ waiting'[t] > 0 /\ \A u \in Task : u # t => waiting'[u] = waiting[u]
    BY <1>1, <2>1, <2>2
  <2> QED BY <2>1, <2>2, <2>3
<1>3. CASE h.try \notin 1..Attempts - 1
  <2>1. /\ waiting' = waiting
        /\ unscored' = IF h.try = Attempts THEN unscored \cup {<<h.x, h.j>>} ELSE unscored
    BY <1>3 DEF Retry
  <2>2. h.try # 0 => h.try = Attempts
    BY <1>1, <1>3 DEF Attempts
  <2> QED BY <2>1, <2>2
<1> QED BY <1>2, <1>3

\* What the steps of a scoring leave.
LEMMA ScoringLeaves ==
    ASSUME Inv, NEW w \in Workers, ScoreStep(w) \/ TimeOut(w)
    PROVE  /\ handler[w].at \in Scoring /\ handler[w].x \in Ids /\ handler[w].j \in Jobs
           /\ handler[w].v \in Versions
           /\ UNCHANGED <<born, jobs, mixed>>
<1>1. handler[w].at \in Scoring
  BY DEF ScoreStep, ReadCandidate, ReadJob, AskAi, SaveRow, CreateRow, SaveOverall, TimeOut, Scoring
<1>2. UNCHANGED <<born, jobs, mixed>>
  BY DEF ScoreStep, ReadCandidate, ReadJob, AskAi, SaveRow, CreateRow, SaveOverall, TimeOut,
         people, work, history
<1> QED BY <1>1, <1>2, Handlers DEF HandlerOK, Handler

LEMMA StillLater ==
    ASSUME Inv, UNCHANGED <<born, jobs>>
    PROVE  Later /\ \A j \in Jobs : jobs[j].version \in Nat
BY RecruitingBoundAssumption DEF Inv, ChangesOK, Versions, Later

\* A handler that ends.
LEMMA FactsEnd ==
    ASSUME Inv, FactsInv, NEW w \in Workers, End(w), UNCHANGED <<born, jobs>>,
           \A t \in Task : waiting'[t] > 0 => waiting[t] > 0 \/ t.x <= born,
           \A x \in Ids, j \in Jobs :
               scores'[x][j] \in {None, scores[x][j]} \/ scores'[x][j] <= jobs[j].version
    PROVE  FactsInv'
<1>1. handler \in [Workers -> Handler]
  BY DEF Inv
<1>2. handler'[w] = Idle /\ \A v \in Workers \ {w} : handler'[v] = handler[v]
  BY <1>1 DEF End
<1>3. FactsOK(handler[w])'
  <2>1. Idle.at = "idle" /\ Idle.queued = FALSE
    BY DEF Idle
  <2> QED BY <1>2, <2>1 DEF FactsOK, ToScore, Scoring, Checking
<1> QED BY <1>2, <1>3, FactsMove, StillLater

LEMMA FactsBystand ==
    ASSUME Inv, FactsInv, NEW w \in Workers, Bystands(w)
    PROVE  FactsInv'
<1>1. FactsOK(handler[w])'
  BY DEF Bystands, FactsOK, Scorers, ToScore, Scoring, Triggering
<1> QED BY <1>1, FactsMove, StillLater DEF Bystands, board

LEMMA FactsCreate ==
    ASSUME Inv, FactsInv, NEW w \in Workers, NEW at \in {"idle", "track"}, Creates(w, at)
    PROVE  FactsInv'
<1>1. FactsOK(handler[w])'
  <2>1. /\ handler'[w].at \in {"idle", "track"} /\ ~handler'[w].queued
        /\ handler'[w].at = "track" => handler'[w].x = born + 1
        /\ born \in Nat /\ born' = born + 1
    BY DEF Creates, Inv, RoomOK
  <2> QED BY <2>1 DEF FactsOK, ToScore, Scoring, Checking
<1>2. Later
  BY StillLater, RecruitingBoundAssumption DEF Creates, Later, Inv, ChangesOK, Versions
<1> QED BY <1>1, <1>2, FactsMove DEF Creates

LEMMA FactsCount ==
    ASSUME Inv, FactsInv, NEW w \in Workers, Carries(w) \/ Drops(w) \/ Scores(w)
    PROVE  FactsInv'
<1>1. handler \in [Workers -> Handler] /\ FactsOK(handler[w])
  BY DEF Inv, FactsInv
<1>2. handler[w].x <= born
  BY <1>1 DEF FactsOK, Carries, Drops, Scores, Counts, ToScore
<1>3. CASE Carries(w)
  <2>1. handler'[w].x <= born' /\ ~handler[w].queued
    BY <1>1, <1>2, <1>3 DEF Carries, Counts, board, FactsOK, Scoring, Checking
  <2>2. FactsOK(handler[w])'
    BY <1>3, <2>1 DEF Carries, FactsOK, Scoring, Checking
  <2> QED BY <1>3, <2>2, FactsMove, StillLater DEF Carries, board
<1>4. CASE Drops(w)
  BY <1>4, FactsEnd DEF Drops, board
<1>5. CASE Scores(w)
  <2> DEFINE g == [Idle EXCEPT !.at = "read", !.x = handler[w].x, !.j = handler[w].j]
  <2>1. g.at = "read" /\ g.x = handler[w].x /\ g.try = 0 /\ ~g.queued
    BY DEF Idle
  <2>2. handler' = [handler EXCEPT ![w] = g]
    BY <1>5 DEF Scores
  <2> HIDE DEF g
  <2>3. handler'[w] = g /\ \A v \in Workers \ {w} : handler'[v] = handler[v]
    BY <1>1, <2>2
  <2>4. born' = born
    BY <1>5 DEF Scores
  <2>5. FactsOK(handler[w])'
    BY <1>2, <2>1, <2>3, <2>4 DEF FactsOK, Scoring
  <2> QED BY <1>5, <2>3, <2>5, FactsMove, StillLater DEF Scores
<1> QED BY <1>3, <1>4, <1>5

LEMMA FactsRequest ==
    ASSUME Inv, FactsInv, NEW w \in Workers, Requests(w)
    PROVE  FactsInv'
<1>1. handler \in [Workers -> Handler] /\ waiting \in [Task -> Nat]
  BY DEF Inv, TablesOK
<1>2. ASSUME NEW x \in Ids, NEW j \in Jobs, Asks(w, x, j) PROVE FactsInv'
  <2> DEFINE g == [Idle EXCEPT !.at = "enqueueOne", !.x = x, !.j = j]
  <2>1. g.at = "enqueueOne" /\ g.x = x /\ ~g.queued
    BY DEF Idle
  <2>2. handler' = [handler EXCEPT ![w] = g]
    BY <1>2 DEF Asks
  <2> HIDE DEF g
  <2>3. handler'[w] = g /\ \A v \in Workers \ {w} : handler'[v] = handler[v]
    BY <1>1, <2>2
  <2>4. x <= born /\ born' = born
    BY <1>2 DEF Asks, board, Inv, MailsOK, RoomOK, Ids
  <2>5. FactsOK(handler[w])'
    BY <2>1, <2>3, <2>4 DEF FactsOK, Scoring
  <2> QED BY <1>2, <2>3, <2>5, FactsMove, StillLater DEF Asks, board
<1>3. ASSUME NEW t \in Task, Takes(w, t) PROVE FactsInv'
  <2> DEFINE g == [Idle EXCEPT !.at = "read", !.x = t.x, !.j = t.j, !.try = t.tries + 1,
                               !.queued = TRUE]
  <2>1. g.at = "read" /\ g.x = t.x /\ g.queued
    BY DEF Idle
  <2>2. handler' = [handler EXCEPT ![w] = g]
    BY <1>3 DEF Takes
  <2> HIDE DEF g
  <2>3. handler'[w] = g /\ \A v \in Workers \ {w} : handler'[v] = handler[v]
    BY <1>1, <2>2
  <2>4. t.x <= born /\ born' = born
    BY <1>3 DEF Takes, FactsInv
  <2>5. FactsOK(handler[w])'
    BY <2>1, <2>3, <2>4 DEF FactsOK, Scoring
  <2>6. \A u \in Task : waiting'[u] > 0 => waiting[u] > 0
    BY <1>1, <1>3 DEF Takes
  <2> QED BY <1>3, <2>3, <2>5, <2>6, FactsMove, StillLater DEF Takes
<1> QED BY <1>2, <1>3, RequestMoves, FactsBystand

LEMMA FactsRescore ==
    ASSUME Inv, FactsInv, NEW w \in Workers, RescoreStep(w) \/ RescoringStops(w)
    PROVE  FactsInv'
<1> DEFINE h == handler[w]
<1> USE DEF people, work, history
<1>1. /\ handler \in [Workers -> Handler] /\ h \in Handler /\ HandlerOK(h) /\ FactsOK(h)
      /\ waiting \in [Task -> Nat] /\ jobs \in [Jobs -> [version : Versions, open : BOOLEAN]]
  BY Handlers DEF Inv, TablesOK, ChangesOK, FactsInv
<1>2. CASE ChangeJob(w)
  <2>1. h.at = "changeJob" /\ h.j \in Jobs /\ ~h.queued
    BY <1>1, <1>2 DEF ChangeJob, HandlerOK, FactsOK, Scoring
  <2>2. /\ handler'[w].at = "listAssigned" /\ handler'[w].queued = h.queued
        /\ \A v \in Workers \ {w} : handler'[v] = handler[v]
    BY <1>1, <1>2 DEF ChangeJob, Goto, Handler
  <2>3. FactsOK(handler[w])'
    BY <2>1, <2>2 DEF FactsOK, ToScore, Scoring, Checking
  <2>4. jobs' = [jobs EXCEPT ![h.j].version = @ + 1] /\ UNCHANGED <<born, waiting, scores>>
    BY <1>2 DEF ChangeJob
  <2>5. Later
    <3>1. \A j \in Jobs : jobs[j].version \in Nat
      BY <1>1, RecruitingBoundAssumption DEF Versions
    <3>2. \A j \in Jobs : jobs'[j].version = IF j = h.j THEN jobs[j].version + 1 ELSE jobs[j].version
      BY <1>1, <2>1, <2>4
    <3>3. \A j \in Jobs : jobs'[j].version \in Nat /\ jobs'[j].version >= jobs[j].version
      BY <3>1, <3>2
    <3> QED BY <2>4, <3>3 DEF Later
  <2> QED BY <2>2, <2>3, <2>4, <2>5, FactsMove
<1>3. CASE ListAssigned(w) /\ AssignedTo(h.j) # {}
  <2>1. h.at = "listAssigned" /\ ~h.queued
    BY <1>1, <1>3 DEF ListAssigned, FactsOK, Scoring
  <2>2. /\ handler'[w].at = "enqueue" /\ handler'[w].queued = h.queued
        /\ handler'[w].xs = AssignedTo(h.j)
        /\ \A v \in Workers \ {w} : handler'[v] = handler[v]
    BY <1>1, <1>3 DEF ListAssigned, Handler
  <2>3. UNCHANGED <<born, jobs, waiting, scores>>
    BY <1>3 DEF ListAssigned
  <2>4. \A x \in AssignedTo(h.j) : x <= born
    BY DEF AssignedTo, Existing, Exists, Inv, MailsOK, RoomOK, Ids
  <2>5. FactsOK(handler[w])'
    BY <2>1, <2>2, <2>3, <2>4 DEF FactsOK, ToScore, Scoring, Checking
  <2> QED BY <2>2, <2>3, <2>5, FactsMove, StillLater
<1>4. CASE ListAssigned(w) /\ AssignedTo(h.j) = {}
  BY <1>4, FactsEnd DEF ListAssigned
<1>5. CASE Enqueue(w)
  <2>1. h.at = "enqueue" /\ h.j \in Jobs /\ h.xs \in SUBSET Ids /\ \A x \in h.xs : x <= born
    BY <1>1, <1>5 DEF Enqueue, HandlerOK, Handler, FactsOK, Triggering
  <2>2. End(w) /\ UNCHANGED <<born, jobs, scores>>
        /\ waiting' = [t \in Task |-> IF t \in {NewTask(x, h.j) : x \in h.xs}
                                      THEN waiting[t] + 1 ELSE waiting[t]]
    BY <1>5 DEF Enqueue
  <2>3. \A t \in Task : waiting'[t] > 0 => waiting[t] > 0 \/ t.x <= born
    BY <2>1, <2>2 DEF NewTask
  <2> QED BY <2>2, <2>3, FactsEnd
<1>6. CASE EnqueueOne(w)
  <2>1. h.at = "enqueueOne" /\ h.x <= born
    BY <1>1, <1>6 DEF EnqueueOne, FactsOK
  <2>2. /\ End(w) /\ UNCHANGED <<born, jobs, scores>>
        /\ waiting' = [waiting EXCEPT ![NewTask(h.x, h.j)] = @ + 1] \/ waiting' = waiting
    BY <1>6 DEF EnqueueOne
  <2>3. \A t \in Task : waiting'[t] > 0 => waiting[t] > 0 \/ t = NewTask(h.x, h.j)
    BY <1>1, <2>2
  <2>4. \A t \in Task : waiting'[t] > 0 => waiting[t] > 0 \/ t.x <= born
    BY <2>1, <2>3 DEF NewTask
  <2> QED BY <2>2, <2>4, FactsEnd
<1>7. CASE RescoringStops(w)
  BY <1>7, FactsEnd DEF RescoringStops
<1> QED BY <1>2, <1>3, <1>4, <1>5, <1>6, <1>7 DEF RescoreStep

LEMMA FactsScore ==
    ASSUME Inv, FactsInv, NEW w \in Workers, ScoreStep(w) \/ TimeOut(w)
    PROVE  FactsInv'
<1> DEFINE h == handler[w]
<1> USE DEF people, work, history
<1>1. /\ h.at \in Scoring /\ h.x \in Ids /\ h.j \in Jobs /\ h.v \in Versions
      /\ UNCHANGED <<born, jobs, mixed>>
      /\ FactsOK(h) /\ h.x <= born
  BY ScoringLeaves DEF FactsInv, FactsOK, ToScore
<1>2. jobs[h.j].version \in Int
  BY <1>1, StillLater
<1>3. Retry(h) => \A t \in Task : waiting'[t] > 0 => waiting[t] > 0 \/ t.x <= born
  BY <1>1, RetryMoves
<1>4. ScoringThrew(w) /\ UNCHANGED scores => FactsInv'
  BY <1>1, <1>3, FactsEnd DEF ScoringThrew
\* The scoring goes on; what it has read or written is of the requirements there are.
<1>5. ASSUME NEW at \in Scoring, Proceeds(w, at),
             at \in {"ask", "row", "overall"} => handler'[w].v <= jobs[h.j].version,
             \A t \in Task : waiting'[t] > 0 => waiting[t] > 0 \/ t.x <= born,
             \A x \in Ids, j \in Jobs :
               scores'[x][j] \in {None, scores[x][j]} \/ scores'[x][j] <= jobs[j].version
      PROVE  FactsInv'
  <2>1. FactsOK(handler[w])'
    <3>1. /\ handler'[w].x <= born' /\ handler'[w].at = at
          /\ handler'[w].queued = h.queued /\ handler'[w].try \in {0, h.try}
          /\ at \in {"ask", "row", "overall"} => handler'[w].v <= jobs'[handler'[w].j].version
      BY <1>1, <1>5 DEF Proceeds
    <3>2. h.try # 0 => h.queued
      BY <1>1 DEF FactsOK
    <3> QED BY <1>5, <3>1, <3>2 DEF FactsOK, Scoring
  <2> QED BY <1>1, <1>5, <2>1, FactsMove, StillLater DEF Proceeds
<1>6. h.at \in {"ask", "row", "overall"} => h.v <= jobs[h.j].version
  BY <1>1 DEF FactsOK
<1>7. ReadCandidate(w) => FactsInv'
  <2>1. ReadCandidate(w) /\ ~Exists(h.x) => FactsInv'
    BY <1>4 DEF ReadCandidate
  <2>2. ReadCandidate(w) /\ Exists(h.x) => FactsInv'
    <3>1. ReadCandidate(w) /\ Exists(h.x) => UNCHANGED <<waiting, scores>>
      BY DEF ReadCandidate
    <3> QED BY <1>5, <3>1, ReadsProceed DEF Scoring
  <2> QED BY <2>1, <2>2
<1>8. ReadJob(w) => FactsInv'
  <2>1. ReadJob(w) => UNCHANGED <<waiting, scores>>
    BY DEF ReadJob
  <2> QED BY <1>2, <1>5, <2>1, ReadsProceed DEF Scoring
<1>9. TimeOut(w) => FactsInv'
  <2>1. TimeOut(w) => Retry(h) /\ UNCHANGED scores
    BY DEF TimeOut
  <2> QED BY <1>1, <1>3, <1>5, <1>6, <2>1, ReadsProceed
<1>10. AskAi(w) => FactsInv'
  <2>1. AskAi(w) => h.at = "ask" /\ UNCHANGED scores
    BY DEF AskAi
  <2>2. AskAi(w) /\ Goto(w, "row") => UNCHANGED waiting \/ ScoringThrew(w)
    BY DEF AskAi
  <2>3. Goto(w, "row") => Proceeds(w, "row") /\ handler'[w].v = h.v
    BY ProceedsTo
  <2> QED BY <1>4, <1>5, <1>6, <2>1, <2>2, <2>3 DEF AskAi, Scoring
<1>11. ASSUME Write(h.x, h.j, h.v), h.at = "row"
       PROVE  \A x \in Ids, j \in Jobs :
                  scores'[x][j] \in {None, scores[x][j]} \/ scores'[x][j] <= jobs[j].version
  <2>1. scores \in [Ids -> [Jobs -> Versions \cup {None}]]
    BY DEF Inv, TablesOK
  <2>2. \A x \in Ids, j \in Jobs :
           scores'[x][j] = IF x = h.x /\ j = h.j THEN h.v ELSE scores[x][j]
    BY <1>1, <1>11, <2>1 DEF Write
  <2> QED BY <1>6, <1>11, <2>2
<1>12. Goto(w, "overall") => Proceeds(w, "overall") /\ handler'[w].v = h.v
  BY ProceedsTo
<1>13. SaveRow(w) => FactsInv'
  <2> SUFFICES ASSUME SaveRow(w) PROVE FactsInv'
    OBVIOUS
  <2>1. h.at = "row"
    BY DEF SaveRow
  <2>2. CASE ~Exists(h.x)
    BY <1>4, <2>2 DEF SaveRow
  <2>3. CASE Exists(h.x)
    <3>1. Write(h.x, h.j, h.v) /\ (Goto(w, "overall") \/ End(w)) /\ UNCHANGED waiting
      BY <2>3 DEF SaveRow
    <3>2. CASE End(w)
      BY <1>1, <1>11, <2>1, <3>1, <3>2, FactsEnd
    <3>3. CASE Goto(w, "overall")
      BY <1>5, <1>6, <1>11, <1>12, <2>1, <3>1, <3>3 DEF Scoring
    <3> QED BY <3>1, <3>2, <3>3
  <2> QED BY <2>2, <2>3
<1>14. CreateRow(w) => FactsInv'
  <2> SUFFICES ASSUME CreateRow(w) PROVE FactsInv'
    OBVIOUS
  <2>1. h.at = "row" /\ UNCHANGED waiting
    BY DEF CreateRow
  <2>2. CASE End(w) /\ UNCHANGED scores
    BY <1>1, <2>1, <2>2, FactsEnd
  <2>3. CASE Write(h.x, h.j, h.v) /\ Goto(w, "overall")
    BY <1>5, <1>6, <1>11, <1>12, <2>1, <2>3 DEF Scoring
  <2> QED BY <2>2, <2>3 DEF CreateRow
<1>15. SaveOverall(w) => FactsInv'
  BY <1>1, <1>4, FactsEnd DEF SaveOverall
<1> QED BY <1>7, <1>8, <1>9, <1>10, <1>13, <1>14, <1>15 DEF ScoreStep

LEMMA FactsKept == Inv /\ FactsInv /\ [Next]_vars => FactsInv'
<1> SUFFICES ASSUME Inv, FactsInv, [Next]_vars PROVE FactsInv'
  OBVIOUS
<1>1. ASSUME NEW w \in Workers, Requests(w) \/ Continue(w) \/ Faults(w) PROVE FactsInv'
  <2>1. CASE Requests(w)
    BY <2>1, FactsRequest
  <2>2. CASE UploadStep(w)
    BY <2>2, UploadStepMoves, FactsBystand, FactsCreate
  <2>3. CASE CountStep(w) \/ CountingFails(w)
    BY <2>3, CountsMove, FactsCount
  <2>4. CASE RecordsStep(w)
    <3>1. ASSUME NEW xs, NEW j, Moves(w, xs, j) PROVE FactsInv'
      BY <3>1, FactsEnd DEF Moves, End
    <3> QED BY <2>4, <3>1, RecordsMove, FactsBystand, FactsCreate
  <2>5. CASE RescoreStep(w) \/ RescoringStops(w)
    BY <2>5, FactsRescore
  <2>6. CASE ScoreStep(w) \/ TimeOut(w)
    BY <2>6, FactsScore
  <2>7. CASE MailStep(w)
    BY <2>7, MailersBystand, FactsBystand
  <2> QED BY <1>1, <2>1, <2>2, <2>3, <2>4, <2>5, <2>6, <2>7 DEF Continue, Faults
\* Steps of no scoring.
<1>2. ASSUME \A v \in Workers :
                 handler'[v] = handler[v] \/ (handler'[v].at = "hint" /\ handler'[v].queued = FALSE),
             UNCHANGED <<born, waiting>>,
             \A j \in Jobs : jobs'[j].version = jobs[j].version,
             \A x \in Ids, j \in Jobs : scores'[x][j] \in {None, scores[x][j]}
      PROVE  FactsInv'
  <2>1. ASSUME NEW v \in Workers PROVE FactsOK(handler[v])'
    <3>1. handler[v].at \in {"ask", "row", "overall"} => handler[v].j \in Jobs
      BY Handlers DEF HandlerOK, Scoring
    <3> QED BY <1>2, <3>1 DEF FactsInv, FactsOK, ToScore, Scoring, Checking
  <2> QED BY <1>2, <2>1 DEF FactsInv
<1>3. CASE UploadRequests
  <2>1. PICK W \in SUBSET Workers, j \in Jobs \cup {None} : Admit(W, j)
    BY <1>3 DEF UploadRequests, Upload
  <2>2. \A v \in Workers : handler'[v] = IF v \in W THEN [Idle EXCEPT !.at = "hint", !.j = j]
                                         ELSE handler[v]
    BY <2>1 DEF Admit
  <2>3. [Idle EXCEPT !.at = "hint", !.j = j].at = "hint" /\ [Idle EXCEPT !.at = "hint", !.j = j].queued = FALSE
    BY DEF Idle
  <2> DEFINE g == [Idle EXCEPT !.at = "hint", !.j = j]
  <2> HIDE DEF g
  <2>4. \A v \in Workers :
           handler'[v] = handler[v] \/ (handler'[v].at = "hint" /\ handler'[v].queued = FALSE)
    BY <2>2, <2>3 DEF g
  <2>5. UNCHANGED <<born, waiting, jobs, scores>>
    BY <2>1 DEF Admit, people, work
  <2> QED BY <1>2, <2>4, <2>5
<1>4. CASE DeleteEvents
  <2>1. ASSUME NEW xs, Without(xs), UNCHANGED <<born, work, handler>> PROVE FactsInv'
    <3>1. \A x \in Ids, j \in Jobs : scores'[x][j] \in {None, scores[x][j]}
      BY <2>1 DEF Without
    <3>2. UNCHANGED <<born, waiting, jobs, handler>>
      BY <2>1 DEF work
    <3> QED BY <1>2, <3>1, <3>2
  <2> QED BY <1>4, <2>1 DEF DeleteEvents, Remove, BulkDelete
<1>5. CASE StatusEvents
  <2>1. PICK j \in Jobs, open \in BOOLEAN : SetStatus(j, open)
    BY <1>5 DEF StatusEvents
  <2>2. UNCHANGED <<born, waiting, scores, handler>>
    BY <2>1 DEF SetStatus, people
  <2>3. \A k \in Jobs : jobs'[k].version = jobs[k].version
    BY <2>1 DEF SetStatus, Inv, ChangesOK
  <2> QED BY <1>2, <2>2, <2>3
<1>6. CASE Renew \/ UNCHANGED vars
  <2>1. UNCHANGED <<born, waiting, jobs, scores, handler>>
    BY <1>6 DEF Renew, vars, people, work
  <2> QED BY <1>2, <2>1
<1> QED BY <1>1, <1>3, <1>4, <1>5, <1>6 DEF Next

-----------------------------------------------------------------------------
(* The overall score *)

\* A scoring under way is for the job of the candidate, or knows it; the one about to
\* write the overall score has just written the row of that job.
AheadOK(w, x) ==
    LET h == handler[w] IN
    /\ ~h.queued => h.j = candidates[x].job
    /\ h.queued /\ h.at # "read" => h.mine = candidates[x].job
    /\ h.at = "overall" => h.j = candidates[x].job /\ h.v = scores[x][h.j]
RowOK(x) ==
    LET row == candidates[x] IN
    row.overall # None =>
        /\ row.job # None /\ row.of = row.job
        /\ row.overall = scores[x][row.job] \/ \E w \in ScoringOf(x) : handler[w].at = "overall"
OverallOK(x) ==
    /\ \A v, w \in ScoringOf(x) : v = w
    /\ \A w \in ScoringsAhead(x) : AheadOK(w, x)
    /\ RowOK(x)
OverallInv == \A x \in Ids : Exists(x) /\ x \notin mixed => OverallOK(x)

LEMMA ScoringsAreAhead ==
    ASSUME Inv, NEW x
    PROVE  ScoringOf(x) \subseteq ScoringsAhead(x)
BY NoneIsNoName, Handlers DEF ScoringOf, ScoringsAhead, ToScore, HandlerOK

\* What a step of w keeps of the scorings of x: it begins none beside another, and what
\* it begins is for the job of x; it writes the row of that job only before the overall
\* score.
Orderly(w, x) ==
    /\ \A v \in Workers \ {w} : handler'[v] = handler[v]
    /\ candidates'[x].job = candidates[x].job
    /\ (w \in ScoringsAhead(x))' => AheadOK(w, x)'
    /\ (w \in ScoringOf(x))' => w \in ScoringOf(x) \/ ScoringOf(x) = {}
    /\ \/ \A j \in Jobs : j = candidates[x].job => scores'[x][j] = scores[x][j]
       \/ w \in ScoringOf(x) /\ (w \in ScoringOf(x))' /\ handler'[w].at = "overall"

LEMMA AheadKept ==
    ASSUME Inv, NEW x \in Ids, OverallOK(x), NEW w \in Workers, Orderly(w, x)
    PROVE  /\ \A u, v \in ScoringOf(x)' : u = v
           /\ \A v \in ScoringsAhead(x)' : AheadOK(v, x)'
<1>1. \A v \in Workers \ {w} : /\ v \in ScoringOf(x)' <=> v \in ScoringOf(x)
                               /\ v \in ScoringsAhead(x)' <=> v \in ScoringsAhead(x)
  BY DEF Orderly, ScoringOf, ScoringsAhead
<1>2. ScoringOf(x) \subseteq Workers /\ ScoringOf(x)' \subseteq Workers
      /\ ScoringsAhead(x)' \subseteq Workers
  BY DEF ScoringOf, ScoringsAhead
<1>3. \A u, v \in ScoringOf(x)' : u = v
  BY <1>1, <1>2 DEF Orderly, OverallOK
<1>4. ASSUME NEW v \in ScoringsAhead(x)' PROVE AheadOK(v, x)'
  <2>1. CASE v = w
    BY <1>4, <2>1 DEF Orderly
  <2>2. CASE v # w
    <3>1. v \in Workers \ {w} /\ v \in ScoringsAhead(x) /\ AheadOK(v, x) /\ handler'[v] = handler[v]
      BY <1>1, <1>2, <2>2 DEF Orderly, OverallOK
    <3>2. handler[v].at = "overall" =>
             /\ handler[v].j = candidates[x].job /\ handler[v].j \in Jobs /\ v \in ScoringOf(x)
      BY <3>1, Handlers DEF AheadOK, HandlerOK, ScoringOf, ScoringsAhead, Scoring
    <3>3. handler[v].at = "overall" => scores'[x][handler[v].j] = scores[x][handler[v].j]
      BY <3>1, <3>2 DEF Orderly, OverallOK
    <3> QED BY <3>1, <3>3 DEF AheadOK, Orderly
  <2> QED BY <2>1, <2>2
<1> QED BY <1>3, <1>4

LEMMA OverallKeeps ==
    ASSUME Inv, OverallInv, NEW x \in Ids, Exists(x), x \notin mixed,
           NEW w \in Workers, Orderly(w, x),
           candidates'[x].overall = candidates[x].overall, candidates'[x].of = candidates[x].of,
           w \in ScoringOf(x) /\ handler[w].at = "overall"
               => (w \in ScoringOf(x))' /\ handler'[w].at = "overall"
    PROVE  OverallOK(x)'
<1>1. OverallOK(x)
  BY DEF OverallInv
<1>2. RowOK(x)'
  <2> SUFFICES ASSUME candidates'[x].overall # None
               PROVE  /\ candidates'[x].job # None /\ candidates'[x].of = candidates'[x].job
                      /\ \/ candidates'[x].overall = scores'[x][candidates'[x].job]
                         \/ \E v \in ScoringOf(x)' : handler'[v].at = "overall"
    BY DEF RowOK
  <2>1. candidates[x] \in Candidate /\ candidates'[x].job = candidates[x].job
    BY DEF Exists, Inv, TablesOK, Orderly
  <2>2. /\ candidates[x].job # None /\ candidates[x].of = candidates[x].job
        /\ \/ candidates[x].overall = scores[x][candidates[x].job]
           \/ \E v \in ScoringOf(x) : handler[v].at = "overall"
    BY <1>1 DEF OverallOK, RowOK
  <2>3. candidates[x].job \in Jobs
    BY <2>1, <2>2 DEF Candidate
  <2>4. CASE \E v \in ScoringOf(x) : handler[v].at = "overall"
    <3>1. PICK v \in ScoringOf(x) : handler[v].at = "overall"
      BY <2>4
    <3>2. v \in ScoringOf(x)' /\ handler'[v].at = "overall"
      BY <3>1 DEF ScoringOf, Orderly
    <3> QED BY <2>1, <2>2, <3>2
  <2>5. CASE candidates[x].overall = scores[x][candidates[x].job]
    BY <2>1, <2>2, <2>3, <2>5 DEF Orderly
  <2> QED BY <2>2, <2>4, <2>5
<1> QED BY <1>1, <1>2, AheadKept DEF OverallOK

\* A handler that is not about to score after its step.
LEMMA OverallLeft ==
    ASSUME Inv, OverallInv, NEW w \in Workers,
           \A v \in Workers \ {w} : handler'[v] = handler[v],
           handler'[w].at \notin ToScore, handler[w].at # "overall",
           UNCHANGED <<candidates, scores, mixed>>
    PROVE  OverallInv'
<1> SUFFICES ASSUME NEW x \in Ids, Exists(x)', x \notin mixed' PROVE OverallOK(x)'
  BY DEF OverallInv
<1>1. ~(w \in ScoringsAhead(x))' /\ ~(w \in ScoringOf(x))'
  BY DEF ScoringsAhead, ScoringOf, ToScore
<1>2. Orderly(w, x)
  BY <1>1 DEF Orderly
<1>3. Exists(x) /\ x \notin mixed
  BY DEF Exists
<1> QED BY <1>2, <1>3, OverallKeeps

LEMMA OverallCreate ==
    ASSUME Inv, FactsInv, OverallInv, NEW w \in Workers, NEW at \in {"idle", "track"}, Creates(w, at)
    PROVE  OverallInv'
<1> SUFFICES ASSUME NEW x \in Ids, Exists(x)', x \notin mixed' PROVE OverallOK(x)'
  BY DEF OverallInv
<1> DEFINE h == handler[w]
<1>1. /\ candidates \in [Ids -> Candidate \cup {NoCandidate}] /\ born \in Nat /\ born + 1 \in Ids
      /\ candidates' = [candidates EXCEPT ![born + 1] =
                           [email |-> h.who, job |-> h.j, overall |-> None, of |-> None]]
      /\ UNCHANGED <<scores, mixed>>
      /\ \A v \in Workers \ {w} : handler'[v] = handler[v]
      /\ handler'[w].at = at /\ ~handler'[w].queued
      /\ at = "track" => handler'[w].x = born + 1 /\ handler'[w].j = h.j
  BY DEF Inv, TablesOK, RoomOK, Creates
<1>2. handler'[w].at \notin Scoring
  BY <1>1 DEF Scoring
<1>3. CASE x = born + 1
  <2>1. \A v \in Workers : handler[v].at \in ToScore => handler[v].x # x
    BY <1>1, <1>3, Handlers DEF FactsInv, FactsOK, HandlerOK, ToScore, Ids
  <2>2. ScoringOf(x)' = {} /\ ScoringsAhead(x)' \subseteq {w}
    BY <1>1, <1>2, <2>1 DEF ScoringOf, ScoringsAhead, ToScore
  <2>3. candidates'[x].overall = None /\ candidates'[x].job = h.j
    BY <1>1, <1>3
  <2>4. w \in ScoringsAhead(x)' => AheadOK(w, x)'
    <3> SUFFICES ASSUME w \in ScoringsAhead(x)' PROVE AheadOK(w, x)'
      OBVIOUS
    <3>1. handler'[w].at \in ToScore
      BY DEF ScoringsAhead
    <3>2. at = "track"
      BY <1>1, <3>1 DEF ToScore, Scoring, Checking
    <3> QED BY <1>1, <2>3, <3>2 DEF AheadOK
  <2> QED BY <2>2, <2>3, <2>4 DEF OverallOK, RowOK
<1>4. CASE x # born + 1
  <2>1. candidates'[x] = candidates[x] /\ Exists(x) /\ x \notin mixed
    BY <1>1, <1>4 DEF Exists
  <2>2. ~(w \in ScoringsAhead(x))'
    BY <1>1, <1>4 DEF ScoringsAhead, ToScore, Scoring, Checking
  <2>3. ~(w \in ScoringOf(x))'
    BY <1>2 DEF ScoringOf
  <2>4. handler[w].at # "overall"
    BY DEF Creates
  <2>5. Orderly(w, x)
    BY <1>1, <2>1, <2>2, <2>3 DEF Orderly
  <2> QED BY <2>1, <2>4, <2>5, OverallKeeps
<1> QED BY <1>3, <1>4

LEMMA OverallAssign ==
    ASSUME Inv, OverallInv, NEW w \in Workers, NEW xs \in SUBSET Ids, NEW j, Moves(w, xs, j)
    PROVE  OverallInv'
<1> SUFFICES ASSUME NEW x \in Ids, Exists(x)', x \notin mixed' PROVE OverallOK(x)'
  BY DEF OverallInv
<1>1. handler \in [Workers -> Handler] /\ Idle.at = "idle"
  BY IdleIsOK DEF Inv
<1>2. /\ handler'[w] = Idle /\ \A v \in Workers \ {w} : handler'[v] = handler[v]
      /\ handler[w].at \in {"save", "assign"} /\ scores' = scores
  BY <1>1 DEF Moves
<1>3. /\ Exists(x)
      /\ candidates'[x].job = IF x \in xs THEN j ELSE candidates[x].job
      /\ candidates'[x].overall = candidates[x].overall
      /\ candidates'[x].of = candidates[x].of
  BY DEF Moves
<1>4. ~(w \in ScoringsAhead(x))' /\ ~(w \in ScoringOf(x))' /\ handler[w].at # "overall"
  BY <1>1, <1>2 DEF ScoringsAhead, ScoringOf, ToScore, Scoring, Checking
<1>5. CASE candidates'[x].job = candidates[x].job
  <2>1. x \notin mixed
    BY DEF Moves, Assigned
  <2>2. Orderly(w, x)
    BY <1>2, <1>4, <1>5 DEF Orderly
  <2> QED BY <1>3, <1>4, <2>1, <2>2, OverallKeeps
<1>6. CASE candidates'[x].job # candidates[x].job
  <2>1. x \in xs /\ candidates[x].job # j
    BY <1>3, <1>6
  <2>2. candidates[x].overall = None /\ ScoringsAhead(x) = {}
    BY <2>1 DEF Moves, Assigned
  <2>3. ScoringsAhead(x)' = {} /\ ScoringOf(x)' = {}
    <3>1. ScoringOf(x) = {}
      BY <2>2, ScoringsAreAhead
    <3>2. \A v \in Workers : v \notin ScoringsAhead(x)' /\ v \notin ScoringOf(x)'
      BY <1>2, <1>4, <2>2, <3>1 DEF ScoringsAhead, ScoringOf
    <3> QED BY <3>2 DEF ScoringsAhead, ScoringOf
  <2> QED BY <1>3, <2>2, <2>3 DEF OverallOK, RowOK
<1> QED BY <1>5, <1>6

LEMMA OverallCount ==
    ASSUME Inv, FactsInv, OverallInv, NEW w \in Workers, Carries(w) \/ Drops(w) \/ Scores(w)
    PROVE  OverallInv'
<1> DEFINE h == handler[w]
<1>1. /\ handler \in [Workers -> Handler] /\ h.at \notin Scoring /\ h.at \in ToScore /\ ~h.queued
  BY DEF Inv, FactsInv, FactsOK, Carries, Drops, Scores, Counts, ToScore, Scoring, Checking
<1>2. h.at # "overall"
  BY <1>1 DEF Scoring
<1>3. CASE Drops(w)
  <2>1. Idle.at = "idle"
    BY IdleIsOK
  <2>2. handler'[w] = Idle /\ \A v \in Workers \ {w} : handler'[v] = handler[v]
    BY <1>1, <1>3 DEF Drops, End
  <2>3. handler'[w].at \notin ToScore
    BY <2>1, <2>2 DEF ToScore, Scoring, Checking
  <2> QED BY <1>2, <1>3, <2>2, <2>3, OverallLeft DEF Drops, board
<1>4. CASE Carries(w)
  <2> SUFFICES ASSUME NEW x \in Ids, Exists(x)', x \notin mixed' PROVE OverallOK(x)'
    BY DEF OverallInv
  <2>1. Exists(x) /\ x \notin mixed /\ UNCHANGED <<candidates, scores>>
    BY <1>4 DEF Carries, board, Exists
  <2>2. /\ \A v \in Workers \ {w} : handler'[v] = handler[v]
        /\ handler'[w].at \notin Scoring /\ handler'[w].at # "overall"
        /\ handler'[w].x = h.x /\ handler'[w].j = h.j /\ handler'[w].queued = h.queued
    BY <1>4 DEF Carries, Scoring, Checking
  <2>3. ~(w \in ScoringOf(x))'
    BY <2>2 DEF ScoringOf
  <2>4. (w \in ScoringsAhead(x))' => AheadOK(w, x)'
    <3>1. (w \in ScoringsAhead(x))' => w \in ScoringsAhead(x)
      BY <1>1, <2>2 DEF ScoringsAhead
    <3>2. w \in ScoringsAhead(x) => h.j = candidates[x].job
      BY <1>1, <2>1 DEF OverallInv, OverallOK, AheadOK
    <3> QED BY <1>1, <2>1, <2>2, <3>1, <3>2 DEF AheadOK
  <2>5. Orderly(w, x)
    BY <2>1, <2>2, <2>3, <2>4 DEF Orderly
  <2> QED BY <1>2, <2>1, <2>5, OverallKeeps
<1>5. CASE Scores(w)
  <2> SUFFICES ASSUME NEW x \in Ids, Exists(x)', x \notin mixed' PROVE OverallOK(x)'
    BY DEF OverallInv
  <2>1. Exists(x) /\ x \notin mixed /\ UNCHANGED <<candidates, scores>>
    BY <1>5 DEF Scores, Exists
  <2> DEFINE g == [Idle EXCEPT !.at = "read", !.x = h.x, !.j = h.j]
  <2>2. g.at = "read" /\ g.x = h.x /\ g.j = h.j /\ g.queued = FALSE
    BY DEF Idle
  <2>3. handler' = [handler EXCEPT ![w] = g]
    BY <1>5 DEF Scores
  <2> HIDE DEF g
  <2>4. handler'[w] = g /\ \A v \in Workers \ {w} : handler'[v] = handler[v]
    BY <1>1, <2>3
  <2>5. (w \in ScoringOf(x))' => ScoringOf(x) = {}
    BY <1>5, <2>2, <2>4 DEF Scores, ScoringOf
  <2>6. (w \in ScoringsAhead(x))' => AheadOK(w, x)'
    <3>1. (w \in ScoringsAhead(x))' => w \in ScoringsAhead(x)
      BY <1>1, <2>2, <2>4 DEF ScoringsAhead
    <3>2. w \in ScoringsAhead(x) => h.j = candidates[x].job
      BY <1>1, <2>1 DEF OverallInv, OverallOK, AheadOK
    <3> QED BY <2>1, <2>2, <2>4, <3>1, <3>2 DEF AheadOK
  <2>7. Orderly(w, x)
    BY <2>1, <2>4, <2>5, <2>6 DEF Orderly
  <2> QED BY <1>2, <2>1, <2>7, OverallKeeps
<1> QED BY <1>3, <1>4, <1>5

LEMMA OverallRequest ==
    ASSUME Inv, OverallInv, NEW w \in Workers, Requests(w)
    PROVE  OverallInv'
<1>1. handler \in [Workers -> Handler] /\ Idle.at = "idle"
  BY IdleIsOK DEF Inv
<1>2. ASSUME Bystands(w) PROVE OverallInv'
  BY <1>2, OverallLeft DEF Bystands, board, Scorers, ToScore, Scoring
<1>3. ASSUME NEW x \in Ids, NEW j \in Jobs, Asks(w, x, j) PROVE OverallInv'
  <2> DEFINE g == [Idle EXCEPT !.at = "enqueueOne", !.x = x, !.j = j]
  <2>1. g.at = "enqueueOne"
    BY DEF Idle
  <2>2. handler' = [handler EXCEPT ![w] = g] /\ handler[w].at = "idle"
    BY <1>1, <1>3 DEF Asks
  <2> HIDE DEF g
  <2>3. handler'[w] = g /\ \A v \in Workers \ {w} : handler'[v] = handler[v]
    BY <1>1, <2>2
  <2>4. handler'[w].at \notin ToScore
    BY <2>1, <2>3 DEF ToScore, Scoring, Checking
  <2> QED BY <1>3, <2>2, <2>3, <2>4, OverallLeft DEF Asks, board
<1>4. ASSUME NEW t \in Task, Takes(w, t) PROVE OverallInv'
  <2> SUFFICES ASSUME NEW x \in Ids, Exists(x)', x \notin mixed' PROVE OverallOK(x)'
    BY DEF OverallInv
  <2>1. Exists(x) /\ x \notin mixed /\ UNCHANGED <<candidates, scores>>
    BY <1>4 DEF Takes, Exists
  <2> DEFINE g == [Idle EXCEPT !.at = "read", !.x = t.x, !.j = t.j, !.try = t.tries + 1,
                               !.queued = TRUE]
  <2>2. g.at = "read" /\ g.x = t.x /\ g.queued = TRUE
    BY DEF Idle
  <2>3. handler' = [handler EXCEPT ![w] = g] /\ handler[w].at = "idle"
    BY <1>1, <1>4 DEF Takes
  <2> HIDE DEF g
  <2>4. handler'[w] = g /\ \A v \in Workers \ {w} : handler'[v] = handler[v]
    BY <1>1, <2>3
  <2>5. (w \in ScoringOf(x))' => ScoringOf(x) = {}
    BY <1>4, <2>2, <2>4 DEF Takes, ScoringOf
  <2>6. AheadOK(w, x)'
    BY <2>2, <2>4 DEF AheadOK
  <2>7. Orderly(w, x)
    BY <2>1, <2>4, <2>5, <2>6 DEF Orderly
  <2> QED BY <2>1, <2>3, <2>7, OverallKeeps
<1> QED BY <1>2, <1>3, <1>4, RequestMoves

LEMMA OverallRescore ==
    ASSUME Inv, OverallInv, NEW w \in Workers, RescoreStep(w) \/ RescoringStops(w)
    PROVE  OverallInv'
<1> USE DEF people, work, history
<1>1. handler \in [Workers -> Handler] /\ handler[w] \in Handler /\ Idle.at = "idle"
  BY IdleIsOK, Handlers DEF Inv
<1>2. handler[w].at # "overall"
  BY DEF RescoreStep, ChangeJob, ListAssigned, Enqueue, EnqueueOne, RescoringStops, Triggering
<1>3. UNCHANGED <<candidates, scores, mixed>>
  BY DEF RescoreStep, ChangeJob, ListAssigned, Enqueue, EnqueueOne, RescoringStops
<1>4. \A v \in Workers \ {w} : handler'[v] = handler[v]
  BY <1>1 DEF RescoreStep, ChangeJob, ListAssigned, Enqueue, EnqueueOne, RescoringStops, Goto, End
<1>5. handler'[w].at \in {"idle", "listAssigned", "enqueue"}
  <2>1. End(w) => handler'[w].at = "idle"
    BY <1>1 DEF End
  <2>2. Goto(w, "listAssigned") => handler'[w].at = "listAssigned"
    BY <1>1 DEF Goto, Handler
  <2>3. ListAssigned(w) => handler'[w].at = "enqueue" \/ End(w)
    BY <1>1 DEF ListAssigned, Handler
  <2> QED BY <2>1, <2>2, <2>3 DEF RescoreStep, ChangeJob, Enqueue, EnqueueOne, RescoringStops
<1>6. handler'[w].at \notin ToScore
  BY <1>5 DEF ToScore, Scoring, Checking
<1> QED BY <1>2, <1>3, <1>4, <1>6, OverallLeft

\* The overall score and its job, written over a row.
Overwritten(row, v, j) == [row EXCEPT !.overall = v, !.of = j]

LEMMA OverallsMove ==
    ASSUME NEW row \in Candidate, NEW v, NEW j
    PROVE  /\ Overwritten(row, v, j) # NoCandidate /\ Overwritten(row, v, j).job = row.job
           /\ Overwritten(row, v, j).overall = v /\ Overwritten(row, v, j).of = j
<1>1. "job" \in DOMAIN Overwritten(row, v, j) /\ "job" \notin DOMAIN NoCandidate
  BY DEF Overwritten, NoCandidate, Candidate
<1>2. Overwritten(row, v, j) # NoCandidate
  BY <1>1
<1> QED BY <1>2 DEF Overwritten, Candidate

LEMMA OverallScore ==
    ASSUME Inv, FactsInv, OverallInv, NEW w \in Workers, ScoreStep(w) \/ TimeOut(w)
    PROVE  OverallInv'
<1> DEFINE h == handler[w]
<1> USE DEF people, work, history
<1>1. /\ h.at \in Scoring /\ h.x \in Ids /\ h.j \in Jobs
      /\ mixed' = mixed
      /\ handler \in [Workers -> Handler] /\ Idle.at = "idle"
      /\ candidates \in [Ids -> Candidate \cup {NoCandidate}]
      /\ scores \in [Ids -> [Jobs -> Versions \cup {None}]]
  BY ScoringLeaves, IdleIsOK DEF Inv, TablesOK
<1>2. \A x : x = h.x => w \in ScoringOf(x) /\ w \in ScoringsAhead(x)
  BY <1>1, NoneIsNoName DEF ScoringOf, ScoringsAhead, ToScore
<1>3. End(w) => /\ \A v \in Workers \ {w} : handler'[v] = handler[v]
                /\ handler'[w].at \notin ToScore
                /\ \A x : w \notin ScoringOf(x)' /\ w \notin ScoringsAhead(x)'
  BY <1>1 DEF End, ToScore, Scoring, Checking, ScoringOf, ScoringsAhead
\* The attempt ends, and leaves the candidates and their scores.
<1>4. ASSUME End(w), UNCHANGED <<candidates, scores>>, h.at # "overall" PROVE OverallInv'
  BY <1>1, <1>3, <1>4, OverallLeft
\* It goes on.
<1>5. ASSUME NEW at \in Scoring, Proceeds(w, at), UNCHANGED <<candidates, scores>>,
             h.at = "overall" <=> at = "overall",
             at = "overall" => handler'[w].v = h.v,
             \/ at = h.at /\ handler'[w].mine = h.mine
             \/ h.at # "read" /\ handler'[w].mine = h.mine
             \/ handler'[w].mine = candidates[h.x].job
      PROVE  OverallInv'
  <2> SUFFICES ASSUME NEW x \in Ids, Exists(x)', x \notin mixed' PROVE OverallOK(x)'
    BY DEF OverallInv
  <2>1. Exists(x) /\ x \notin mixed /\ OverallOK(x)
    BY <1>1, <1>5 DEF Exists, OverallInv
  <2>2. /\ \A v \in Workers \ {w} : handler'[v] = handler[v]
        /\ handler'[w].at = at /\ handler'[w].x = h.x /\ handler'[w].j = h.j
        /\ handler'[w].queued = h.queued
    BY <1>5 DEF Proceeds
  <2>3. /\ (w \in ScoringOf(x))' <=> x = h.x
        /\ (w \in ScoringsAhead(x))' => x = h.x
    BY <1>1, <1>5, <2>2 DEF ScoringOf, ScoringsAhead
  <2>4. x = h.x => AheadOK(w, x)
    BY <1>2, <2>1 DEF OverallOK
  <2>5. x = h.x => AheadOK(w, x)'
    BY <1>5, <2>2, <2>4 DEF AheadOK
  <2>6. Orderly(w, x)
    BY <1>2, <1>5, <2>2, <2>3, <2>5 DEF Orderly
  <2>7. w \in ScoringOf(x) => x = h.x
    BY DEF ScoringOf
  <2> QED BY <1>5, <2>1, <2>2, <2>3, <2>6, <2>7, OverallKeeps
\* It writes the row of its job.
<1>6. ASSUME Write(h.x, h.j, h.v), UNCHANGED candidates, h.at = "row",
             \/ Goto(w, "overall") /\ (h.queued => h.mine = h.j)
             \/ End(w) /\ h.queued /\ h.mine # h.j
      PROVE  OverallInv'
  <2> SUFFICES ASSUME NEW x \in Ids, Exists(x)', x \notin mixed' PROVE OverallOK(x)'
    BY DEF OverallInv
  <2>1. Exists(x) /\ x \notin mixed /\ OverallOK(x)
    BY <1>1, <1>6 DEF Exists, OverallInv
  <2>2. \A j \in Jobs : scores'[x][j] = IF x = h.x /\ j = h.j THEN h.v ELSE scores[x][j]
    BY <1>1, <1>6 DEF Write
  <2>3. x = h.x => AheadOK(w, x)
    BY <1>2, <2>1 DEF OverallOK
  <2>4. w \in ScoringOf(x) => x = h.x
    BY DEF ScoringOf
  <2>5. CASE Goto(w, "overall") /\ (h.queued => h.mine = h.j)
    <3>1. Proceeds(w, "overall") /\ handler'[w].v = h.v /\ handler'[w].mine = h.mine
      BY <2>5, ProceedsTo
    <3>2. /\ \A v \in Workers \ {w} : handler'[v] = handler[v]
          /\ handler'[w].at = "overall" /\ handler'[w].x = h.x /\ handler'[w].j = h.j
          /\ handler'[w].queued = h.queued
      BY <3>1 DEF Proceeds
    <3>3. /\ (w \in ScoringOf(x))' <=> x = h.x
          /\ (w \in ScoringsAhead(x))' => x = h.x
      BY <3>2 DEF ScoringOf, ScoringsAhead, Scoring
    <3>4. x = h.x => h.j = candidates[x].job
      BY <1>6, <2>3, <2>5 DEF AheadOK
    <3>5. x = h.x => AheadOK(w, x)'
      BY <1>1, <1>6, <2>2, <2>5, <3>1, <3>2, <3>4 DEF AheadOK
    <3>6. \/ \A j \in Jobs : j = candidates[x].job => scores'[x][j] = scores[x][j]
          \/ x = h.x
      BY <2>2
    <3>7. Orderly(w, x)
      BY <1>2, <1>6, <3>2, <3>3, <3>5, <3>6 DEF Orderly
    <3> QED BY <1>6, <2>1, <3>7, OverallKeeps
  <2>6. CASE End(w) /\ h.queued /\ h.mine # h.j
    <3>1. x = h.x => candidates[x].job # h.j
      BY <1>6, <2>3, <2>6 DEF AheadOK
    <3>2. \A j \in Jobs : j = candidates[x].job => scores'[x][j] = scores[x][j]
      BY <2>2, <3>1
    <3>3. Orderly(w, x)
      BY <1>3, <1>6, <2>6, <3>2 DEF Orderly
    <3> QED BY <1>6, <2>1, <3>3, OverallKeeps
  <2> QED BY <1>6, <2>5, <2>6
<1>7. ReadCandidate(w) => OverallInv'
  <2>1. ReadCandidate(w) => h.at = "read" /\ UNCHANGED <<candidates, scores>>
    BY DEF ReadCandidate
  <2>2. ReadCandidate(w) /\ ~Exists(h.x) => OverallInv'
    BY <1>4, <2>1 DEF ReadCandidate, ScoringThrew
  <2>3. ReadCandidate(w) /\ Exists(h.x) => OverallInv'
    BY <1>5, <2>1, ReadsProceed DEF Scoring
  <2> QED BY <2>2, <2>3
<1>8. ReadJob(w) => OverallInv'
  <2>1. ReadJob(w) => h.at = "readJob" /\ UNCHANGED <<candidates, scores>>
    BY DEF ReadJob
  <2> QED BY <1>5, <2>1, ReadsProceed DEF Scoring
<1>9. TimeOut(w) => OverallInv'
  <2>1. TimeOut(w) => UNCHANGED <<candidates, scores>>
    BY DEF TimeOut
  <2> QED BY <1>1, <1>5, <2>1, ReadsProceed
<1>10. AskAi(w) => OverallInv'
  <2>1. AskAi(w) => h.at = "ask" /\ UNCHANGED <<candidates, scores>>
    BY DEF AskAi
  <2>2. AskAi(w) => Goto(w, "row") \/ End(w)
    BY DEF AskAi, ScoringThrew
  <2>3. Goto(w, "row") => Proceeds(w, "row") /\ handler'[w].mine = h.mine
    BY ProceedsTo
  <2> QED BY <1>4, <1>5, <2>1, <2>2, <2>3 DEF Scoring
<1>11. SaveRow(w) => OverallInv'
  <2> SUFFICES ASSUME SaveRow(w) PROVE OverallInv'
    OBVIOUS
  <2>1. h.at = "row" /\ h.queued /\ UNCHANGED candidates
    BY DEF SaveRow
  <2>2. CASE ~Exists(h.x)
    BY <1>4, <2>1, <2>2 DEF SaveRow, ScoringThrew
  <2>3. CASE Exists(h.x)
    <3>1. Write(h.x, h.j, h.v) /\ IF h.mine = h.j THEN Goto(w, "overall") ELSE End(w)
      BY <2>3 DEF SaveRow
    <3> QED BY <1>6, <2>1, <3>1
  <2> QED BY <2>2, <2>3
<1>12. CreateRow(w) => OverallInv'
  <2> SUFFICES ASSUME CreateRow(w) PROVE OverallInv'
    OBVIOUS
  <2>1. h.at = "row" /\ ~h.queued /\ UNCHANGED candidates
    BY DEF CreateRow
  <2>2. (Write(h.x, h.j, h.v) /\ Goto(w, "overall")) \/ (End(w) /\ UNCHANGED scores)
    BY DEF CreateRow
  <2> QED BY <1>4, <1>6, <2>1, <2>2
<1>13. SaveOverall(w) => OverallInv'
  <2> SUFFICES ASSUME SaveOverall(w), NEW x \in Ids, Exists(x)', x \notin mixed' PROVE OverallOK(x)'
    BY DEF OverallInv
  <2>1. h.at = "overall" /\ End(w) /\ UNCHANGED scores
    BY DEF SaveOverall, ScoringThrew
  <2>2. Exists(h.x) => candidates' = [candidates EXCEPT ![h.x] = Overwritten(candidates[h.x], h.v, h.j)]
    <3> SUFFICES ASSUME Exists(h.x)
                 PROVE  candidates' = [candidates EXCEPT ![h.x] = Overwritten(candidates[h.x], h.v, h.j)]
      OBVIOUS
    <3>1. candidates[h.x] \in Candidate
      BY <1>1 DEF Exists
    <3>2. candidates' = [candidates EXCEPT ![h.x].overall = h.v, ![h.x].of = h.j]
      BY DEF SaveOverall
    <3> QED BY <1>1, <3>1, <3>2 DEF Overwritten, Candidate
  <2>3. ~Exists(h.x) => UNCHANGED candidates
    BY DEF SaveOverall
  <2>4. Exists(h.x) => candidates[h.x] \in Candidate
    BY <1>1 DEF Exists
  <2>5. /\ Exists(x) /\ x \notin mixed
        /\ x # h.x => candidates'[x] = candidates[x]
        /\ x = h.x => /\ candidates'[x].job = candidates[x].job
                      /\ candidates'[x].overall = h.v /\ candidates'[x].of = h.j
    <3>1. CASE ~Exists(h.x)
      BY <1>1, <2>3, <3>1 DEF Exists
    <3>2. CASE Exists(h.x)
      <4> DEFINE new == Overwritten(candidates[h.x], h.v, h.j)
      <4>1. /\ new # NoCandidate /\ new.job = candidates[h.x].job /\ new.overall = h.v
            /\ new.of = h.j
        BY <2>4, <3>2, OverallsMove
      <4>2. candidates' = [candidates EXCEPT ![h.x] = new]
        BY <2>2, <3>2
      <4> HIDE DEF new
      <4> QED BY <1>1, <3>2, <4>1, <4>2 DEF Exists
    <3> QED BY <3>1, <3>2
  <2>6. OverallOK(x)
    BY <2>5 DEF OverallInv
  <2>7. Orderly(w, x)
    BY <1>3, <2>1, <2>5 DEF Orderly
  <2>8. CASE x # h.x
    <3>1. w \notin ScoringOf(x)
      BY <2>8 DEF ScoringOf
    <3> QED BY <2>5, <2>7, <2>8, <3>1, OverallKeeps
  <2>9. CASE x = h.x
    <3>1. h.j = candidates[x].job /\ h.v = scores[x][h.j]
      BY <1>2, <2>1, <2>6, <2>9 DEF OverallOK, AheadOK
    <3>2. RowOK(x)'
      BY <1>1, <2>1, <2>5, <2>9, <3>1, NoneIsNoName DEF RowOK
    <3> QED BY <2>6, <2>7, <3>2, AheadKept DEF OverallOK
  <2> QED BY <2>8, <2>9
<1> QED BY <1>7, <1>8, <1>9, <1>10, <1>11, <1>12, <1>13 DEF ScoreStep

LEMMA OverallKept == Inv /\ FactsInv /\ OverallInv /\ [Next]_vars => OverallInv'
<1> SUFFICES ASSUME Inv, FactsInv, OverallInv, [Next]_vars PROVE OverallInv'
  OBVIOUS
<1>1. ASSUME NEW w \in Workers, Requests(w) \/ Continue(w) \/ Faults(w) PROVE OverallInv'
  <2>1. CASE Requests(w)
    BY <2>1, OverallRequest
  <2>2. ASSUME Bystands(w) PROVE OverallInv'
    BY <2>2, OverallLeft DEF Bystands, board, Scorers, ToScore, Scoring
  <2>3. CASE UploadStep(w)
    BY <2>2, <2>3, UploadStepMoves, OverallCreate
  <2>4. CASE CountStep(w) \/ CountingFails(w)
    BY <2>4, CountsMove, OverallCount
  <2>5. CASE RecordsStep(w)
    BY <2>2, <2>5, RecordsMove, OverallCreate, OverallAssign
  <2>6. CASE RescoreStep(w) \/ RescoringStops(w)
    BY <2>6, OverallRescore
  <2>7. CASE ScoreStep(w) \/ TimeOut(w)
    BY <2>7, OverallScore
  <2>8. CASE MailStep(w)
    BY <2>2, <2>8, MailersBystand
  <2> QED BY <1>1, <2>1, <2>3, <2>4, <2>5, <2>6, <2>7, <2>8 DEF Continue, Faults
\* Steps of no scoring, which may delete candidates.
<1>2. ASSUME \A v \in Workers :
                 handler'[v] = handler[v] \/ (handler[v].at \notin ToScore /\ handler'[v].at \notin ToScore),
             \A x \in Ids : Exists(x)' => candidates'[x] = candidates[x] /\ scores'[x] = scores[x],
             mixed' = mixed
      PROVE  OverallInv'
  <2> SUFFICES ASSUME NEW x \in Ids, Exists(x)', x \notin mixed' PROVE OverallOK(x)'
    BY DEF OverallInv
  <2>1. candidates'[x] = candidates[x] /\ scores'[x] = scores[x] /\ OverallOK(x)
    BY <1>2 DEF Exists, OverallInv
  <2>2. ScoringOf(x)' = ScoringOf(x) /\ ScoringsAhead(x)' = ScoringsAhead(x)
    <3>1. \A v \in Workers : /\ v \in ScoringOf(x)' <=> v \in ScoringOf(x)
                             /\ v \in ScoringsAhead(x)' <=> v \in ScoringsAhead(x)
      BY <1>2 DEF ScoringOf, ScoringsAhead, ToScore
    <3> QED BY <3>1 DEF ScoringOf, ScoringsAhead
  <2>3. \A v \in ScoringsAhead(x) : handler'[v] = handler[v]
    BY <1>2 DEF ScoringsAhead
  <2>4. \A v \in ScoringOf(x) : handler'[v] = handler[v]
    BY <2>3, ScoringsAreAhead
  <2>5. ASSUME NEW v \in ScoringsAhead(x)' PROVE AheadOK(v, x)'
    <3>1. handler'[v] = handler[v] /\ AheadOK(v, x)
      BY <2>1, <2>2, <2>3 DEF OverallOK
    <3> QED BY <2>1, <3>1 DEF AheadOK
  <2>6. RowOK(x)'
    BY <2>1, <2>2, <2>4 DEF OverallOK, RowOK
  <2> QED BY <2>1, <2>2, <2>5, <2>6 DEF OverallOK
<1>3. CASE UploadRequests
  <2>1. PICK W \in SUBSET Workers, j \in Jobs \cup {None} : Admit(W, j)
    BY <1>3 DEF UploadRequests, Upload
  <2> DEFINE g == [Idle EXCEPT !.at = "hint", !.j = j]
  <2>2. \A v \in Workers : handler'[v] = IF v \in W THEN g ELSE handler[v]
    BY <2>1 DEF Admit
  <2>3. g.at = "hint" /\ Idle.at = "idle" /\ \A v \in W : handler[v] = Idle
    BY <2>1 DEF Idle, Admit
  <2> HIDE DEF g
  <2>4. \A v \in Workers :
           handler'[v] = handler[v] \/ (handler[v].at \notin ToScore /\ handler'[v].at \notin ToScore)
    BY <2>2, <2>3 DEF ToScore, Scoring, Checking
  <2>5. UNCHANGED <<candidates, scores, mixed>>
    BY <2>1 DEF Admit, people
  <2> QED BY <1>2, <2>4, <2>5
<1>4. CASE DeleteEvents
  <2>1. ASSUME NEW xs, Without(xs), UNCHANGED <<handler, history>> PROVE OverallInv'
    <3>1. \A x \in Ids : Exists(x)' => candidates'[x] = candidates[x] /\ scores'[x] = scores[x]
      BY <2>1 DEF Without, Exists
    <3> QED BY <1>2, <2>1, <3>1 DEF history
  <2> QED BY <1>4, <2>1 DEF DeleteEvents, Remove, BulkDelete
<1>5. CASE StatusEvents \/ Renew \/ UNCHANGED vars
  <2>1. UNCHANGED <<candidates, scores, handler, mixed>>
    BY <1>5 DEF StatusEvents, SetStatus, Renew, vars, people, history
  <2> QED BY <1>2, <2>1
<1> QED BY <1>1, <1>3, <1>4, <1>5 DEF Next

\* Nothing is being scored or waits at first.
LEMMA ScoringsBegin == Init => FactsInv /\ OverallInv
<1> SUFFICES ASSUME Init PROVE FactsInv /\ OverallInv
  OBVIOUS
<1>1. /\ \A w \in Workers : handler[w] = Idle
      /\ \A t \in Task : waiting[t] = 0
      /\ \A x \in Ids, j \in Jobs : scores[x][j] \in {0, None} /\ jobs[j].version = 0
      /\ Idle.at = "idle"
  BY DEF Init, Idle
<1>2. FactsInv
  BY <1>1, IdleKnows DEF FactsInv
<1>3. ASSUME NEW x \in Ids, Exists(x) PROVE OverallOK(x)
  <2>1. ScoringOf(x) = {} /\ ScoringsAhead(x) = {}
    BY <1>1 DEF ScoringOf, ScoringsAhead, ToScore, Scoring, Checking
  <2>2. RowOK(x)
    <3>1. /\ candidates[x].overall = IF candidates[x].job = None THEN None
                                     ELSE scores[x][candidates[x].job]
          /\ candidates[x].of = IF candidates[x].overall = None THEN None ELSE candidates[x].job
      BY <1>3 DEF Init, Exists
    <3> QED BY <3>1 DEF RowOK
  <2> QED BY <2>1, <2>2 DEF OverallOK
<1> QED BY <1>2, <1>3 DEF OverallInv

LEMMA FactsAlways == Spec => []FactsInv
BY RecruitingInvariant, ScoringsBegin, FactsKept, PTL DEF Spec

\* The overall score of a candidate whose scorings and assignments kept apart is the
\* one in the row of his job: UploadService and the processor of the queue write the row
\* and then, in a second statement, the overallScore of the candidate, the processor
\* only if the job is the one it read in his row.
THEOREM OverallScoresAreOfJobs == Spec => []OverallScoreIsOfJob
<1>1. Inv /\ OverallInv => OverallScoreIsOfJob
  BY DEF OverallInv, OverallOK, RowOK, OverallScoreIsOfJob, Existing, Exists
<1> QED BY <1>1, RecruitingInvariant, FactsAlways, ScoringsBegin, OverallKept, PTL DEF Spec

-----------------------------------------------------------------------------
(* Scores and requirements *)

\* Somebody owes a renewal of x's score for j: a task, or a handler that will queue
\* one, or an attempt that will write the score of the requirements of now or be
\* repeated.
Tasked(x, j) == \E t \in Task : waiting[t] > 0 /\ t.x = x /\ t.j = j
Owing(w, x, j) ==
    LET h == handler[w] IN
    /\ h.j = j
    /\ \/ h.at = "listAssigned"
       \/ h.at = "enqueue" /\ x \in h.xs
       \/ /\ h.x = x /\ h.try # 0
          /\ \/ h.at \in {"read", "readJob"}
             \/ h.at \in {"ask", "row"} /\ h.v = jobs[j].version
Owed(x, j) == Tasked(x, j) \/ \E w \in Workers : Owing(w, x, j)

\* It has read requirements that have changed since, and will write their score.
Trails(w, x, j) ==
    LET h == handler[w] IN
    h.at \in {"ask", "row"} /\ h.x = x /\ h.j = j /\ h.v # jobs[j].version

RenewOK(x, j) ==
    /\ Old(x, j) => Owed(x, j)
    /\ \A w \in Workers : Trails(w, x, j) => Owed(x, j) \/ scores[x][j] = jobs[j].version
Watched(x, j) == Exists(x) /\ candidates[x].job = j /\ <<x, j>> \notin unscored
RenewInv == \A x \in Ids, j \in Jobs : Watched(x, j) => RenewOK(x, j)

\* What a step of w that touches neither the score nor the requirements keeps.
Calm(w, x, j) ==
    /\ \A v \in Workers \ {w} : handler'[v] = handler[v]
    /\ jobs'[j].version = jobs[j].version
    /\ scores'[x][j] = scores[x][j]
    /\ Tasked(x, j) \/ Owing(w, x, j) => Owed(x, j)'
    /\ Trails(w, x, j)' => Trails(w, x, j)

\* Others go on owing.
LEMMA OthersOwe ==
    ASSUME NEW w \in Workers, NEW x, NEW j, \A v \in Workers \ {w} : handler'[v] = handler[v],
           jobs'[j].version = jobs[j].version
    PROVE  \A v \in Workers \ {w} : /\ Owing(v, x, j)' <=> Owing(v, x, j)
                                    /\ Trails(v, x, j)' <=> Trails(v, x, j)
BY DEF Owing, Trails

LEMMA RenewStays ==
    ASSUME RenewInv, NEW x \in Ids, NEW j \in Jobs, Watched(x, j), NEW w \in Workers, Calm(w, x, j)
    PROVE  RenewOK(x, j)'
<1>1. RenewOK(x, j)
  BY DEF RenewInv
<1>2. \A v \in Workers \ {w} : /\ Owing(v, x, j)' <=> Owing(v, x, j)
                               /\ Trails(v, x, j)' <=> Trails(v, x, j)
  BY OthersOwe DEF Calm
<1>3. Owed(x, j) => Owed(x, j)'
  BY <1>2 DEF Calm, Owed
<1>4. Old(x, j)' => Old(x, j)
  BY DEF Calm, Old
<1>5. ASSUME NEW v \in Workers, Trails(v, x, j)'
      PROVE  Owed(x, j)' \/ scores'[x][j] = jobs'[j].version
  <2>1. Trails(v, x, j)
    BY <1>2, <1>5 DEF Calm
  <2> QED BY <1>1, <1>3, <2>1 DEF RenewOK, Calm
<1> QED BY <1>1, <1>3, <1>4, <1>5 DEF RenewOK

\* A handler that neither triggers nor scores.
LEMMA RenewLeft ==
    ASSUME Inv, RenewInv, NEW w \in Workers,
           \A v \in Workers \ {w} : handler'[v] = handler[v],
           handler[w].at \notin Scoring \cup Triggering, handler'[w].at \notin {"ask", "row"},
           \A t \in Task : waiting[t] > 0 => waiting'[t] > 0,
           \A x \in Ids, j \in Jobs : Watched(x, j)' => Watched(x, j),
           UNCHANGED <<jobs, scores>>
    PROVE  RenewInv'
<1> SUFFICES ASSUME NEW x \in Ids, NEW j \in Jobs, Watched(x, j)' PROVE RenewOK(x, j)'
  BY DEF RenewInv
<1>1. Watched(x, j)
  OBVIOUS
<1>2. ~Owing(w, x, j) /\ ~Trails(w, x, j)'
  BY DEF Owing, Trails, Scoring, Triggering
<1>3. Tasked(x, j) => Owed(x, j)'
  BY DEF Tasked, Owed
<1>4. Calm(w, x, j)
  BY <1>2, <1>3 DEF Calm
<1> QED BY <1>1, <1>4, RenewStays

LEMMA RenewBystand ==
    ASSUME Inv, RenewInv, NEW w \in Workers, Bystands(w)
    PROVE  RenewInv'
<1>1. \A x \in Ids, j \in Jobs : Watched(x, j)' => Watched(x, j)
  BY DEF Bystands, board, Watched, Exists
<1> QED BY <1>1, RenewLeft DEF Bystands, board, Scorers, ToScore, Scoring

\* The new candidate has no score, and nobody is scoring him.
LEMMA RenewCreate ==
    ASSUME Inv, FactsInv, RenewInv, NEW w \in Workers, NEW at \in {"idle", "track"}, Creates(w, at)
    PROVE  RenewInv'
<1> SUFFICES ASSUME NEW x \in Ids, NEW j \in Jobs, Watched(x, j)' PROVE RenewOK(x, j)'
  BY DEF RenewInv
<1>1. /\ candidates \in [Ids -> Candidate \cup {NoCandidate}] /\ born \in Nat /\ born + 1 \in Ids
      /\ candidates' = [candidates EXCEPT ![born + 1] =
            [email |-> handler[w].who, job |-> handler[w].j, overall |-> None, of |-> None]]
      /\ UNCHANGED <<scores, jobs, waiting, mixed, unscored>>
      /\ \A v \in Workers \ {w} : handler'[v] = handler[v]
      /\ handler'[w].at = at
      /\ handler[w].at \in {"create", "createOwn"}
  BY DEF Inv, TablesOK, RoomOK, Creates
<1>2. CASE x = born + 1
  <2>1. ~Exists(x)
    BY <1>1, <1>2 DEF Inv, MailsOK
  <2>2. scores'[x][j] = None
    BY <1>1, <2>1 DEF Inv, TablesOK, Existing, Exists
  <2>3. \A v \in Workers : handler[v].at \in ToScore => handler[v].x # x
    BY <1>1, <1>2, Handlers DEF FactsInv, FactsOK, HandlerOK, ToScore, Ids
  <2>4. \A v \in Workers : ~Trails(v, x, j)'
    BY <1>1, <2>3 DEF Trails, ToScore, Scoring
  <2> QED BY <2>2, <2>4 DEF RenewOK, Old
<1>3. CASE x # born + 1
  <2>1. Watched(x, j)
    BY <1>1, <1>3 DEF Watched, Exists
  <2>2. ~Owing(w, x, j) /\ ~Trails(w, x, j)'
    BY <1>1 DEF Owing, Trails
  <2>3. Tasked(x, j) => Owed(x, j)'
    BY <1>1 DEF Tasked, Owed
  <2>4. Calm(w, x, j)
    BY <1>1, <2>2, <2>3 DEF Calm
  <2> QED BY <2>1, <2>4, RenewStays
<1> QED BY <1>2, <1>3

\* A candidate assigned with an old score, or during a scoring, is not watched.
LEMMA RenewAssign ==
    ASSUME Inv, RenewInv, NEW w \in Workers, NEW xs \in SUBSET Ids, NEW k, Moves(w, xs, k)
    PROVE  RenewInv'
<1> SUFFICES ASSUME NEW x \in Ids, NEW j \in Jobs, Watched(x, j)' PROVE RenewOK(x, j)'
  BY DEF RenewInv
<1>1. handler \in [Workers -> Handler] /\ Idle.at = "idle"
  BY IdleIsOK DEF Inv
<1>2. /\ handler'[w].at = "idle" /\ \A v \in Workers \ {w} : handler'[v] = handler[v]
      /\ handler[w].at \in {"save", "assign"} /\ UNCHANGED <<scores, jobs, waiting>>
  BY <1>1 DEF Moves
<1>3. /\ Exists(x) /\ <<x, j>> \notin unscored
      /\ candidates'[x].job = j
      /\ candidates'[x].job = IF x \in xs THEN k ELSE candidates[x].job
  BY DEF Moves, Assigned, Watched
<1>4. ~Owing(w, x, j) /\ ~Trails(w, x, j)'
  BY <1>2 DEF Owing, Trails
<1>5. CASE candidates[x].job = j
  <2>1. Tasked(x, j) => Owed(x, j)'
    BY <1>2 DEF Tasked, Owed
  <2>2. Calm(w, x, j)
    BY <1>2, <1>4, <2>1 DEF Calm
  <2> QED BY <1>3, <1>5, <2>2, RenewStays DEF Watched
<1>6. CASE candidates[x].job # j
  <2>1. x \in xs /\ k = j
    BY <1>3, <1>6
  <2>2. ~Old(x, j) /\ ~\E v \in ScoringOf(x) : handler[v].j = j
    BY <1>6, <2>1, NoneIsNoName DEF Moves, Assigned, Watched
  <2>3. \A v \in Workers : ~Trails(v, x, j)'
    BY <1>2, <1>4, <2>2 DEF Trails, ScoringOf, Scoring
  <2> QED BY <1>2, <2>2, <2>3 DEF RenewOK, Old
<1> QED BY <1>5, <1>6

LEMMA RenewCount ==
    ASSUME Inv, RenewInv, NEW w \in Workers, Carries(w) \/ Drops(w) \/ Scores(w)
    PROVE  RenewInv'
<1> DEFINE g == [Idle EXCEPT !.at = "read", !.x = handler[w].x, !.j = handler[w].j]
<1>1. handler \in [Workers -> Handler] /\ Idle.at = "idle" /\ g.at = "read"
  BY IdleIsOK DEF Inv, Idle
<1>2. handler[w].at \notin Scoring \cup Triggering
  BY DEF Carries, Drops, Scores, Counts, Scoring, Triggering, Checking
<1>3. Scores(w) => handler' = [handler EXCEPT ![w] = g]
  BY DEF Scores
<1> HIDE DEF g
<1>4. /\ \A v \in Workers \ {w} : handler'[v] = handler[v]
      /\ handler'[w].at \notin {"ask", "row"}
  BY <1>1, <1>3 DEF Carries, Drops, End, Checking
<1>5. UNCHANGED <<candidates, scores, jobs, waiting, unscored>>
  BY DEF Carries, Drops, Scores, board
<1>6. \A x \in Ids, j \in Jobs : Watched(x, j)' => Watched(x, j)
  BY <1>5 DEF Watched, Exists
<1> QED BY <1>2, <1>4, <1>5, <1>6, RenewLeft

LEMMA RenewRequest ==
    ASSUME Inv, RenewInv, NEW w \in Workers, Requests(w)
    PROVE  RenewInv'
<1>1. handler \in [Workers -> Handler] /\ Idle.at = "idle" /\ waiting \in [Task -> Nat]
  BY IdleIsOK DEF Inv, TablesOK
<1>2. ASSUME NEW x \in Ids, NEW j \in Jobs, Asks(w, x, j) PROVE RenewInv'
  <2> DEFINE g == [Idle EXCEPT !.at = "enqueueOne", !.x = x, !.j = j]
  <2>1. g.at = "enqueueOne"
    BY DEF Idle
  <2>2. handler' = [handler EXCEPT ![w] = g] /\ handler[w].at = "idle"
    BY <1>1, <1>2 DEF Asks
  <2> HIDE DEF g
  <2>3. handler'[w].at = "enqueueOne" /\ \A v \in Workers \ {w} : handler'[v] = handler[v]
    BY <1>1, <2>1, <2>2
  <2>4. UNCHANGED <<candidates, scores, jobs, waiting, unscored>>
    BY <1>2 DEF Asks, board
  <2>5. \A y \in Ids, k \in Jobs : Watched(y, k)' => Watched(y, k)
    BY <2>4 DEF Watched, Exists
  <2> QED BY <2>2, <2>3, <2>4, <2>5, RenewLeft DEF Scoring, Triggering
<1>3. ASSUME NEW t \in Task, Takes(w, t) PROVE RenewInv'
  <2> SUFFICES ASSUME NEW x \in Ids, NEW j \in Jobs, Watched(x, j)' PROVE RenewOK(x, j)'
    BY DEF RenewInv
  <2> DEFINE g == [Idle EXCEPT !.at = "read", !.x = t.x, !.j = t.j, !.try = t.tries + 1,
                               !.queued = TRUE]
  <2>1. g.at = "read" /\ g.x = t.x /\ g.j = t.j /\ g.try # 0
    <3>1. t.tries + 1 # 0
      BY DEF Task, Attempts
    <3> QED BY <3>1 DEF Idle
  <2>2. handler' = [handler EXCEPT ![w] = g] /\ handler[w].at = "idle"
    BY <1>1, <1>3 DEF Takes
  <2> HIDE DEF g
  <2>3. handler'[w] = g /\ \A v \in Workers \ {w} : handler'[v] = handler[v]
    BY <1>1, <2>2
  <2>4. UNCHANGED <<candidates, scores, jobs, unscored>>
        /\ waiting' = [waiting EXCEPT ![t] = @ - 1]
    BY <1>3 DEF Takes
  <2>5. Watched(x, j)
    BY <2>4 DEF Watched, Exists
  <2>6. Tasked(x, j) => Owed(x, j)'
    <3>1. CASE t.x = x /\ t.j = j
      BY <2>1, <2>3, <3>1 DEF Owing, Owed
    <3>2. CASE ~(t.x = x /\ t.j = j)
      BY <1>1, <2>4, <3>2 DEF Tasked, Owed
    <3> QED BY <3>1, <3>2
  <2>7. ~Owing(w, x, j) /\ ~Trails(w, x, j)'
    BY <2>1, <2>2, <2>3 DEF Owing, Trails
  <2>8. Calm(w, x, j)
    BY <2>3, <2>4, <2>6, <2>7 DEF Calm
  <2> QED BY <2>5, <2>8, RenewStays
<1> QED BY <1>2, <1>3, RequestMoves, RenewBystand

LEMMA RenewRescore ==
    ASSUME Inv, FactsInv, RenewInv, NEW w \in Workers, RescoreStep(w) \/ RescoringStops(w)
    PROVE  RenewInv'
<1> DEFINE h == handler[w]
<1> USE DEF people, work, history
<1> SUFFICES ASSUME NEW x \in Ids, NEW j \in Jobs, Watched(x, j)' PROVE RenewOK(x, j)'
  BY DEF RenewInv
<1>1. /\ handler \in [Workers -> Handler] /\ h \in Handler /\ HandlerOK(h)
      /\ waiting \in [Task -> Nat] /\ jobs \in [Jobs -> [version : Versions, open : BOOLEAN]]
      /\ Idle.at = "idle"
  BY IdleIsOK, Handlers DEF Inv, TablesOK, ChangesOK
<1>2. /\ UNCHANGED <<candidates, scores>>
      /\ unscored \subseteq unscored'
  BY DEF RescoreStep, ChangeJob, ListAssigned, Enqueue, EnqueueOne, RescoringStops
<1>3. Watched(x, j) /\ x \in AssignedTo(j)
  BY <1>2 DEF Watched, Exists, AssignedTo, Existing
<1>4. End(w) => handler'[w].at = "idle" /\ \A v \in Workers \ {w} : handler'[v] = handler[v]
  BY <1>1 DEF End
<1>5. CASE ChangeJob(w)
  <2>1. h.at = "changeJob" /\ h.j \in Jobs
    BY <1>1, <1>5 DEF ChangeJob, HandlerOK
  <2>2. /\ handler'[w].at = "listAssigned" /\ handler'[w].j = h.j
        /\ \A v \in Workers \ {w} : handler'[v] = handler[v]
    BY <1>1, <1>5 DEF ChangeJob, Goto, Handler
  <2>3. jobs' = [jobs EXCEPT ![h.j].version = @ + 1] /\ UNCHANGED waiting
    BY <1>5 DEF ChangeJob
  <2>4. CASE j = h.j
    <3>1. Owed(x, j)'
      BY <2>2, <2>4 DEF Owed, Owing
    <3> QED BY <3>1 DEF RenewOK
  <2>5. CASE j # h.j
    <3>1. jobs'[j].version = jobs[j].version
      BY <1>1, <2>1, <2>3, <2>5
    <3>2. ~Owing(w, x, j) /\ ~Trails(w, x, j)'
      BY <2>1, <2>2 DEF Owing, Trails
    <3>3. Tasked(x, j) => Owed(x, j)'
      BY <2>3 DEF Tasked, Owed
    <3>4. Calm(w, x, j)
      BY <1>2, <2>2, <3>1, <3>2, <3>3 DEF Calm
    <3> QED BY <1>3, <3>4, RenewStays
  <2> QED BY <2>4, <2>5
<1>6. CASE ListAssigned(w)
  <2>1. h.at = "listAssigned" /\ UNCHANGED <<jobs, waiting>>
    BY <1>6 DEF ListAssigned
  <2>2. Tasked(x, j) => Owed(x, j)'
    BY <2>1 DEF Tasked, Owed
  <2>3. CASE AssignedTo(h.j) = {}
    <3>1. End(w) /\ h.j # j
      BY <1>3, <1>6, <2>3 DEF ListAssigned
    <3>2. ~Owing(w, x, j) /\ ~Trails(w, x, j)'
      BY <1>4, <3>1 DEF Owing, Trails
    <3>3. Calm(w, x, j)
      BY <1>2, <1>4, <2>1, <2>2, <3>1, <3>2 DEF Calm
    <3> QED BY <1>3, <3>3, RenewStays
  <2>4. CASE AssignedTo(h.j) # {}
    <3>1. /\ handler'[w].at = "enqueue" /\ handler'[w].xs = AssignedTo(h.j) /\ handler'[w].j = h.j
          /\ \A v \in Workers \ {w} : handler'[v] = handler[v]
      BY <1>1, <1>6, <2>4 DEF ListAssigned, Handler
    <3>2. Owing(w, x, j) => Owing(w, x, j)'
      BY <1>3, <2>1, <3>1 DEF Owing
    <3>3. ~Trails(w, x, j)'
      BY <3>1 DEF Trails
    <3>4. Owing(w, x, j)' => Owed(x, j)'
      BY DEF Owed
    <3>5. Calm(w, x, j)
      BY <1>2, <2>1, <2>2, <3>1, <3>2, <3>3, <3>4 DEF Calm
    <3> QED BY <1>3, <3>5, RenewStays
  <2> QED BY <2>3, <2>4
<1>7. CASE Enqueue(w)
  <2>1. h.at = "enqueue" /\ End(w) /\ UNCHANGED jobs
        /\ waiting' = [t \in Task |-> IF t \in {NewTask(y, h.j) : y \in h.xs}
                                      THEN waiting[t] + 1 ELSE waiting[t]]
    BY <1>7 DEF Enqueue
  <2>2. \A t \in Task : waiting[t] > 0 => waiting'[t] > 0
    BY <1>1, <2>1
  <2>3. Tasked(x, j) => Owed(x, j)'
    BY <2>2 DEF Tasked, Owed
  <2>4. Owing(w, x, j) => Owed(x, j)'
    <3> SUFFICES ASSUME Owing(w, x, j) PROVE Owed(x, j)'
      OBVIOUS
    <3>1. h.j = j /\ x \in h.xs
      BY <2>1 DEF Owing
    <3> DEFINE t == NewTask(x, j)
    <3>2. t \in Task /\ t.x = x /\ t.j = j /\ t \in {NewTask(y, h.j) : y \in h.xs}
      BY <3>1 DEF NewTask, Task, Attempts
    <3> HIDE DEF t
    <3>3. waiting'[t] = waiting[t] + 1 /\ waiting[t] \in Nat
      BY <1>1, <2>1, <3>2
    <3>4. waiting'[t] > 0
      BY <3>3
    <3> QED BY <3>2, <3>4 DEF Owed, Tasked
  <2>5. ~Trails(w, x, j)'
    BY <1>4, <2>1 DEF Trails
  <2>6. Calm(w, x, j)
    BY <1>2, <1>4, <2>1, <2>3, <2>4, <2>5 DEF Calm
  <2> QED BY <1>3, <2>6, RenewStays
<1>8. CASE EnqueueOne(w)
  <2>1. /\ h.at = "enqueueOne" /\ End(w) /\ UNCHANGED jobs
        /\ waiting' = [waiting EXCEPT ![NewTask(h.x, h.j)] = @ + 1] \/ waiting' = waiting
    BY <1>8 DEF EnqueueOne
  <2>2. \A t \in Task : waiting[t] > 0 => waiting'[t] > 0
    BY <1>1, <2>1
  <2>3. Tasked(x, j) => Owed(x, j)'
    BY <2>2 DEF Tasked, Owed
  <2>4. ~Owing(w, x, j) /\ ~Trails(w, x, j)'
    BY <1>4, <2>1 DEF Owing, Trails
  <2>5. Calm(w, x, j)
    BY <1>2, <1>4, <2>1, <2>3, <2>4 DEF Calm
  <2> QED BY <1>3, <2>5, RenewStays
<1>9. CASE RescoringStops(w)
  <2>1. /\ h.at \in Triggering /\ End(w) /\ UNCHANGED <<jobs, waiting>>
        /\ unscored' = unscored \cup {<<y, h.j>> : y \in AssignedTo(h.j)}
    BY <1>9 DEF RescoringStops
  <2>2. h.j # j
    BY <1>3, <2>1 DEF Watched
  <2>3. Tasked(x, j) => Owed(x, j)'
    BY <2>1 DEF Tasked, Owed
  <2>4. ~Owing(w, x, j) /\ ~Trails(w, x, j)'
    BY <1>4, <2>1, <2>2 DEF Owing, Trails
  <2>5. Calm(w, x, j)
    BY <1>2, <1>4, <2>1, <2>3, <2>4 DEF Calm
  <2> QED BY <1>3, <2>5, RenewStays
<1> QED BY <1>5, <1>6, <1>7, <1>8, <1>9 DEF RescoreStep

LEMMA RenewScore ==
    ASSUME Inv, FactsInv, RenewInv, NEW w \in Workers, ScoreStep(w) \/ TimeOut(w)
    PROVE  RenewInv'
<1> DEFINE h == handler[w]
<1> USE DEF people, work, history
<1> SUFFICES ASSUME NEW x \in Ids, NEW j \in Jobs, Watched(x, j)' PROVE RenewOK(x, j)'
  BY DEF RenewInv
<1>1. /\ h.at \in Scoring /\ h.x \in Ids /\ h.j \in Jobs /\ h.v \in Versions /\ h.try \in 0..Attempts
      /\ jobs' = jobs /\ handler \in [Workers -> Handler] /\ FactsOK(h) /\ Idle.at = "idle"
      /\ candidates \in [Ids -> Candidate \cup {NoCandidate}]
      /\ scores \in [Ids -> [Jobs -> Versions \cup {None}]]
  BY ScoringLeaves, IdleIsOK, Handlers DEF Inv, TablesOK, FactsInv, Handler
<1>2. Owing(w, x, j) => x = h.x /\ j = h.j /\ h.try # 0
  BY <1>1 DEF Owing, Scoring
<1>3. End(w) => /\ \A v \in Workers \ {w} : handler'[v] = handler[v]
                /\ ~Owing(w, x, j)' /\ ~Trails(w, x, j)'
  <2>1. End(w) => handler'[w] = Idle /\ \A v \in Workers \ {w} : handler'[v] = handler[v]
    BY <1>1 DEF End
  <2>2. Idle.try = 0
    BY DEF Idle
  <2> QED BY <1>1, <2>1, <2>2 DEF Owing, Trails
\* Nothing changes about the candidates watched.
<1>4. Watched(x, j)
  <2>1. CASE SaveOverall(w) /\ Exists(h.x)
    <3>1. candidates[h.x] \in Candidate /\ unscored' = unscored
      BY <1>1, <2>1 DEF Exists, SaveOverall
    <3>2. candidates' = [candidates EXCEPT ![h.x].overall = h.v, ![h.x].of = h.j]
      BY <2>1 DEF SaveOverall
    <3>3. candidates' = [candidates EXCEPT ![h.x] = Overwritten(candidates[h.x], h.v, h.j)]
      BY <1>1, <3>1, <3>2 DEF Overwritten, Candidate
    <3> DEFINE new == Overwritten(candidates[h.x], h.v, h.j)
    <3>4. new.job = candidates[h.x].job
      BY <3>1, OverallsMove
    <3>5. candidates' = [candidates EXCEPT ![h.x] = new]
      BY <3>3
    <3> HIDE DEF new
    <3> QED BY <1>1, <2>1, <3>1, <3>4, <3>5 DEF Watched, Exists
  <2>2. CASE ~(SaveOverall(w) /\ Exists(h.x))
    <3>1. candidates' = candidates
      BY <2>2 DEF ScoreStep, ReadCandidate, ReadJob, AskAi, SaveRow, CreateRow, SaveOverall, TimeOut
    <3>2. Retry(h) => unscored \subseteq unscored'
      BY <1>1, RetryMoves
    <3>3. unscored \subseteq unscored'
      BY <2>2, <3>2 DEF ScoreStep, ReadCandidate, ReadJob, AskAi, SaveRow, CreateRow, SaveOverall,
         TimeOut, ScoringThrew
    <3> QED BY <3>1, <3>3 DEF Watched, Exists
  <2> QED BY <2>1, <2>2
<1>5. UNCHANGED waiting => (Tasked(x, j) => Owed(x, j)')
  BY DEF Tasked, Owed
\* An attempt that fails is repeated, or was the last.
<1>6. Retry(h) => (Tasked(x, j) \/ Owing(w, x, j) => Owed(x, j)')
  <2> SUFFICES ASSUME Retry(h), Tasked(x, j) \/ Owing(w, x, j) PROVE Tasked(x, j)'
    BY DEF Owed
  <2>1. CASE Tasked(x, j)
    BY <1>1, <2>1, RetryMoves DEF Tasked
  <2>2. CASE Owing(w, x, j)
    <3>1. /\ x = h.x /\ j = h.j /\ h.try # 0 /\ <<h.x, h.j>> \notin unscored'
      BY <1>2, <2>2 DEF Watched
    <3>2. \E t \in Task : waiting'[t] > 0 /\ t.x = h.x /\ t.j = h.j
      BY <1>1, <3>1, RetryMoves
    <3> QED BY <3>1, <3>2 DEF Tasked
  <2> QED BY <2>1, <2>2
<1>7. ScoringThrew(w) /\ UNCHANGED scores => RenewOK(x, j)'
  <2> SUFFICES ASSUME ScoringThrew(w), UNCHANGED scores PROVE RenewOK(x, j)'
    OBVIOUS
  <2>1. Calm(w, x, j)
    BY <1>1, <1>3, <1>6 DEF ScoringThrew, Calm
  <2> QED BY <1>4, <2>1, RenewStays
\* The scoring goes on.
<1>8. ASSUME NEW at, Proceeds(w, at), UNCHANGED scores, UNCHANGED waiting \/ Retry(h),
             UNCHANGED waiting => (Owing(w, x, j) => Owing(w, x, j)'),
             Trails(w, x, j)' => Trails(w, x, j)
      PROVE  RenewOK(x, j)'
  <2>1. Owing(w, x, j)' => Owed(x, j)'
    BY DEF Owed
  <2>2. Calm(w, x, j)
    BY <1>1, <1>5, <1>6, <1>8, <2>1 DEF Proceeds, Calm
  <2> QED BY <1>4, <2>2, RenewStays
<1>9. ReadCandidate(w) => RenewOK(x, j)'
  <2>1. ReadCandidate(w) => h.at = "read" /\ UNCHANGED scores
    BY DEF ReadCandidate
  <2>2. ReadCandidate(w) /\ ~Exists(h.x) => RenewOK(x, j)'
    BY <1>7, <2>1 DEF ReadCandidate
  <2>3. ReadCandidate(w) /\ Exists(h.x) => RenewOK(x, j)'
    <3> SUFFICES ASSUME ReadCandidate(w), Exists(h.x) PROVE RenewOK(x, j)'
      OBVIOUS
    <3>1. Proceeds(w, "readJob") /\ handler'[w].try = h.try /\ UNCHANGED waiting
      BY ReadsProceed DEF ReadCandidate
    <3>2. (Owing(w, x, j) => Owing(w, x, j)') /\ ~Trails(w, x, j)'
      BY <2>1, <3>1 DEF Proceeds, Owing, Trails
    <3> QED BY <1>8, <2>1, <3>1, <3>2
  <2> QED BY <2>2, <2>3
<1>10. ReadJob(w) => RenewOK(x, j)'
  <2> SUFFICES ASSUME ReadJob(w) PROVE RenewOK(x, j)'
    OBVIOUS
  <2>1. h.at = "readJob" /\ UNCHANGED <<scores, waiting>>
    BY DEF ReadJob
  <2>2. Proceeds(w, "ask") /\ handler'[w].try = h.try /\ handler'[w].v = jobs[h.j].version
    BY ReadsProceed
  <2>3. (Owing(w, x, j) => Owing(w, x, j)') /\ ~Trails(w, x, j)'
    BY <1>1, <2>1, <2>2 DEF Proceeds, Owing, Trails
  <2> QED BY <1>8, <2>1, <2>2, <2>3
<1>11. AskAi(w) => RenewOK(x, j)'
  <2> SUFFICES ASSUME AskAi(w) PROVE RenewOK(x, j)'
    OBVIOUS
  <2>1. h.at = "ask" /\ UNCHANGED scores
    BY DEF AskAi
  <2>2. CASE ScoringThrew(w)
    BY <1>7, <2>1, <2>2
  <2>3. CASE Goto(w, "row") /\ UNCHANGED waiting
    <3>1. Proceeds(w, "row") /\ handler'[w].try = h.try /\ handler'[w].v = h.v
      BY <2>3, ProceedsTo
    <3>2. (Owing(w, x, j) => Owing(w, x, j)') /\ (Trails(w, x, j)' => Trails(w, x, j))
      BY <1>1, <2>1, <3>1 DEF Proceeds, Owing, Trails
    <3> QED BY <1>8, <2>1, <2>3, <3>1, <3>2
  <2> QED BY <2>2, <2>3 DEF AskAi
<1>12. TimeOut(w) => RenewOK(x, j)'
  <2> SUFFICES ASSUME TimeOut(w) PROVE RenewOK(x, j)'
    OBVIOUS
  <2>1. Retry(h) /\ UNCHANGED scores /\ handler'[w].v = h.v /\ Proceeds(w, h.at)
    BY ReadsProceed DEF TimeOut
  <2>2. Trails(w, x, j)' => Trails(w, x, j)
    BY <1>1, <2>1 DEF Proceeds, Trails
  <2>3. Calm(w, x, j)
    BY <1>1, <1>6, <2>1, <2>2 DEF Proceeds, Calm
  <2> QED BY <1>4, <2>3, RenewStays
\* It writes its row: of the requirements of now, or a renewal is owed, unless it
\* replaces a newer score.
<1>13. ASSUME Write(h.x, h.j, h.v), h.at = "row", UNCHANGED waiting,
              Goto(w, "overall") \/ End(w),
              \/ scores[h.x][h.j] = None
              \/ <<h.x, h.j>> \in unscored'
              \/ ~(scores[h.x][h.j] > h.v)
       PROVE  RenewOK(x, j)'
  <2>1. scores'[x][j] = IF x = h.x /\ j = h.j THEN h.v ELSE scores[x][j]
    BY <1>1, <1>13 DEF Write
  <2>2. Goto(w, "overall") => Proceeds(w, "overall")
    BY ProceedsTo
  <2>3. /\ \A v \in Workers \ {w} : handler'[v] = handler[v]
        /\ ~Trails(w, x, j)'
    BY <1>3, <1>13, <2>2 DEF Proceeds, Trails
  <2>4. CASE ~(x = h.x /\ j = h.j)
    <3>1. Calm(w, x, j)
      BY <1>1, <1>2, <1>5, <1>13, <2>1, <2>3, <2>4 DEF Calm
    <3> QED BY <1>4, <3>1, RenewStays
  <2>5. CASE x = h.x /\ j = h.j /\ h.v = jobs[j].version
    BY <1>1, <2>1, <2>5 DEF RenewOK, Old
  <2>6. CASE x = h.x /\ j = h.j /\ h.v # jobs[j].version
    <3>1. Trails(w, x, j) /\ ~Owing(w, x, j)
      BY <1>13, <2>6 DEF Trails, Owing
    <3>2. Owed(x, j) \/ scores[x][j] = jobs[j].version
      BY <1>4, <3>1 DEF RenewInv, RenewOK
    <3>3. scores[x][j] # jobs[j].version
      <4>1. h.v <= jobs[j].version
        BY <1>1, <1>13, <2>6 DEF FactsOK
      <4>2. jobs[j].version \in Nat /\ h.v \in Nat
        BY <1>1, RecruitingBoundAssumption DEF Inv, ChangesOK, Versions
      <4>3. <<h.x, h.j>> \notin unscored' /\ jobs[j].version # None
        BY <2>6, <4>2, NoneIsNoName DEF Watched
      <4>4. jobs[j].version > h.v
        BY <2>6, <4>1, <4>2
      <4> QED BY <1>13, <2>6, <4>3, <4>4
    <3>4. Owed(x, j)'
      <4>1. CASE Tasked(x, j)
        BY <1>5, <1>13, <4>1
      <4>2. CASE ~Tasked(x, j)
        <5>1. PICK v \in Workers : Owing(v, x, j)
          BY <3>2, <3>3, <4>2 DEF Owed
        <5>2. v # w /\ handler'[v] = handler[v]
          BY <2>3, <3>1, <5>1
        <5> QED BY <1>1, <5>1, <5>2 DEF Owed, Owing
      <4> QED BY <4>1, <4>2
    <3> QED BY <3>4 DEF RenewOK
  <2> QED BY <2>4, <2>5, <2>6
<1>14. SaveRow(w) => RenewOK(x, j)'
  <2> SUFFICES ASSUME SaveRow(w) PROVE RenewOK(x, j)'
    OBVIOUS
  <2>1. CASE ~Exists(h.x)
    BY <1>7, <2>1 DEF SaveRow
  <2>2. CASE Exists(h.x)
    <3>1. /\ Write(h.x, h.j, h.v) /\ h.at = "row" /\ UNCHANGED waiting
          /\ Goto(w, "overall") \/ End(w)
          /\ unscored' = IF scores[h.x][h.j] # None /\ scores[h.x][h.j] > h.v
                         THEN unscored \cup {<<h.x, h.j>>} ELSE unscored
      BY <2>2 DEF SaveRow
    <3> QED BY <1>13, <3>1
  <2> QED BY <2>1, <2>2
<1>15. CreateRow(w) => RenewOK(x, j)'
  <2> SUFFICES ASSUME CreateRow(w) PROVE RenewOK(x, j)'
    OBVIOUS
  <2>1. h.at = "row" /\ ~h.queued /\ UNCHANGED waiting
    BY DEF CreateRow
  <2>2. CASE scores[h.x][h.j] = None /\ Write(h.x, h.j, h.v) /\ Goto(w, "overall")
    BY <1>13, <2>1, <2>2
  <2>3. CASE End(w) /\ UNCHANGED scores
    <3>1. ~Owing(w, x, j)
      BY <1>1, <1>2, <2>1 DEF FactsOK
    <3>2. Calm(w, x, j)
      BY <1>1, <1>3, <1>5, <2>1, <2>3, <3>1 DEF Calm
    <3> QED BY <1>4, <3>2, RenewStays
  <2> QED BY <2>2, <2>3 DEF CreateRow
<1>16. SaveOverall(w) => RenewOK(x, j)'
  <2> SUFFICES ASSUME SaveOverall(w) PROVE RenewOK(x, j)'
    OBVIOUS
  <2>1. h.at = "overall" /\ UNCHANGED scores /\ End(w)
    BY DEF SaveOverall, ScoringThrew
  <2>2. CASE Exists(h.x)
    <3>1. UNCHANGED waiting /\ ~Owing(w, x, j)
      BY <2>1, <2>2 DEF SaveOverall, Owing
    <3>2. Calm(w, x, j)
      BY <1>1, <1>3, <1>5, <2>1, <3>1 DEF Calm
    <3> QED BY <1>4, <3>2, RenewStays
  <2>3. CASE ~Exists(h.x)
    BY <1>7, <2>1, <2>3 DEF SaveOverall
  <2> QED BY <2>2, <2>3
<1> QED BY <1>9, <1>10, <1>11, <1>12, <1>14, <1>15, <1>16 DEF ScoreStep

LEMMA RenewKept == Inv /\ FactsInv /\ RenewInv /\ [Next]_vars => RenewInv'
<1> SUFFICES ASSUME Inv, FactsInv, RenewInv, [Next]_vars PROVE RenewInv'
  OBVIOUS
<1>1. ASSUME NEW w \in Workers, Requests(w) \/ Continue(w) \/ Faults(w) PROVE RenewInv'
  <2>1. CASE Requests(w)
    BY <2>1, RenewRequest
  <2>2. CASE UploadStep(w)
    BY <2>2, UploadStepMoves, RenewBystand, RenewCreate
  <2>3. CASE CountStep(w) \/ CountingFails(w)
    BY <2>3, CountsMove, RenewCount
  <2>4. CASE RecordsStep(w)
    BY <2>4, RecordsMove, RenewBystand, RenewCreate, RenewAssign
  <2>5. CASE RescoreStep(w) \/ RescoringStops(w)
    BY <2>5, RenewRescore
  <2>6. CASE ScoreStep(w) \/ TimeOut(w)
    BY <2>6, RenewScore
  <2>7. CASE MailStep(w)
    BY <2>7, MailersBystand, RenewBystand
  <2> QED BY <1>1, <2>1, <2>2, <2>3, <2>4, <2>5, <2>6, <2>7 DEF Continue, Faults
\* Steps of no renewal, which may delete candidates.
<1>2. ASSUME \A v \in Workers :
                 \/ handler'[v] = handler[v]
                 \/ /\ handler[v].at \notin Scoring \cup Triggering
                    /\ handler'[v].at \notin {"ask", "row"},
             \A x \in Ids, j \in Jobs : Watched(x, j)' => Watched(x, j) /\ scores'[x] = scores[x],
             \A j \in Jobs : jobs'[j].version = jobs[j].version,
             waiting' = waiting
      PROVE  RenewInv'
  <2> SUFFICES ASSUME NEW x \in Ids, NEW j \in Jobs, Watched(x, j)' PROVE RenewOK(x, j)'
    BY DEF RenewInv
  <2>1. RenewOK(x, j) /\ scores'[x][j] = scores[x][j]
    BY <1>2 DEF RenewInv
  <2>2. \A v \in Workers : /\ Owing(v, x, j) => Owing(v, x, j)'
                           /\ Trails(v, x, j)' => Trails(v, x, j)
    BY <1>2 DEF Owing, Trails, Scoring, Triggering
  <2>3. Owed(x, j) => Owed(x, j)'
    BY <1>2, <2>2 DEF Owed, Tasked
  <2> QED BY <1>2, <2>1, <2>2, <2>3 DEF RenewOK, Old
<1>3. CASE UploadRequests
  <2>1. PICK W \in SUBSET Workers, j \in Jobs \cup {None} : Admit(W, j)
    BY <1>3 DEF UploadRequests, Upload
  <2> DEFINE g == [Idle EXCEPT !.at = "hint", !.j = j]
  <2>2. \A v \in Workers : handler'[v] = IF v \in W THEN g ELSE handler[v]
    BY <2>1 DEF Admit
  <2>3. g.at = "hint" /\ Idle.at = "idle" /\ \A v \in W : handler[v] = Idle
    BY <2>1 DEF Idle, Admit
  <2> HIDE DEF g
  <2>4. \A v \in Workers :
           \/ handler'[v] = handler[v]
           \/ handler[v].at \notin Scoring \cup Triggering /\ handler'[v].at \notin {"ask", "row"}
    BY <2>2, <2>3 DEF Scoring, Triggering
  <2>5. UNCHANGED <<candidates, scores, unscored, jobs, waiting>>
    BY <2>1 DEF Admit, people, work
  <2> QED BY <1>2, <2>4, <2>5 DEF Watched, Exists
<1>4. CASE DeleteEvents
  <2>1. ASSUME NEW xs, Without(xs), UNCHANGED <<work, handler, history>> PROVE RenewInv'
    <3>1. \A x \in Ids, j \in Jobs : Watched(x, j)' => Watched(x, j) /\ scores'[x] = scores[x]
      BY <2>1 DEF Without, Watched, Exists, history
    <3> QED BY <1>2, <2>1, <3>1 DEF work
  <2> QED BY <1>4, <2>1 DEF DeleteEvents, Remove, BulkDelete
<1>5. CASE StatusEvents
  <2>1. PICK j \in Jobs, open \in BOOLEAN : SetStatus(j, open)
    BY <1>5 DEF StatusEvents
  <2>2. UNCHANGED <<candidates, scores, unscored, waiting, handler>>
    BY <2>1 DEF SetStatus, people, history
  <2>3. \A k \in Jobs : jobs'[k].version = jobs[k].version
    BY <2>1 DEF SetStatus, Inv, ChangesOK
  <2> QED BY <1>2, <2>2, <2>3 DEF Watched, Exists
<1>6. CASE Renew \/ UNCHANGED vars
  <2>1. UNCHANGED <<candidates, scores, unscored, jobs, waiting, handler>>
    BY <1>6 DEF Renew, vars, people, work, history
  <2> QED BY <1>2, <2>1 DEF Watched, Exists
<1> QED BY <1>1, <1>3, <1>4, <1>5, <1>6 DEF Next

\* The score of a candidate for his job is of the requirements of now, or its renewal
\* is under way, unless the renewal was given up, overtaken or missed him: JobsService
\* changes the requirements and queues the rescoring of the assigned afterwards, and
\* the processor reads them once per attempt.
THEOREM ScoresAreRenewed == Spec => []ScoresFollowRequirements
<1>1. Init => RenewInv
  <2> SUFFICES ASSUME Init, NEW x \in Ids, NEW j \in Jobs PROVE RenewOK(x, j)
    BY DEF RenewInv
  <2>1. \A w \in Workers : handler[w].at = "idle"
    BY DEF Init, Idle
  <2>2. scores[x][j] \in {0, None} /\ jobs[j].version = 0
    BY DEF Init
  <2> QED BY <2>1, <2>2 DEF RenewOK, Old, Trails
<1>2. RenewInv => ScoresFollowRequirements
  <2> SUFFICES ASSUME RenewInv, NEW x \in Existing, NEW j \in Jobs, candidates[x].job = j,
                      Old(x, j), <<x, j>> \notin unscored
               PROVE  Renewing(x, j)
    BY DEF ScoresFollowRequirements
  <2>1. Owed(x, j)
    BY DEF RenewInv, RenewOK, Watched, Existing, Exists
  <2>2. \A w \in Workers : Owing(w, x, j) => Renewing(x, j)
    BY DEF Owing, Renewing, Scoring
  <2> QED BY <2>1, <2>2 DEF Owed, Tasked, Renewing
<1> QED BY <1>1, <1>2, RecruitingInvariant, FactsAlways, RenewKept, PTL DEF Spec

-----------------------------------------------------------------------------
(* The order of the alerts *)

\* The thresholds that n CVs pass, and those the CVs before the last one had passed.
Passed(n) == {t \in Thresholds : Percent(n) >= t}
Before(n) == IF n = 0 THEN {} ELSE Passed(n - 1)

\* A share is rounded: when it reaches a threshold, in whole numbers.
LEMMA PercentReaches ==
    ASSUME NEW n \in Nat, limit \in Nat \ {0}, NEW t \in Thresholds
    PROVE  Percent(n) >= t <=> 200 * n + limit >= (2 * limit) * t
<1> DEFINE a == 200 * n + limit
           d == 2 * limit
           q == a \div d
<1>1. a \in Nat /\ d \in Nat /\ d > 0 /\ q \in Int
  OBVIOUS
<1>2. d * q <= a /\ a < d * (q + 1)
  OBVIOUS
<1>3. t \in Nat
  BY DEF Thresholds
<1>4. q >= t <=> a >= d * t
  <2> HIDE DEF a, d, q
  <2>1. ASSUME q >= t PROVE a >= d * t
    <3>1. d * q >= d * t
      BY <1>1, <1>3, <2>1
    <3> QED BY <1>1, <1>2, <1>3, <3>1
  <2>2. ASSUME q < t PROVE a < d * t
    <3>1. d * (q + 1) <= d * t
      BY <1>1, <1>3, <2>2
    <3> QED BY <1>1, <1>2, <1>3, <3>1
  <2>3. q >= t \/ q < t
    BY <1>1, <1>3
  <2>4. a < d * t => ~(a >= d * t)
    BY <1>1, <1>3
  <2> QED BY <2>1, <2>2, <2>3, <2>4
<1> QED BY <1>4 DEF Percent

LEMMA PassedInNumbers ==
    ASSUME NEW n \in Nat, limit \in Nat \ {0}
    PROVE  /\ 80 \in Passed(n) <=> 200 * n + limit >= 160 * limit
           /\ 90 \in Passed(n) <=> 200 * n + limit >= 180 * limit
           /\ 100 \in Passed(n) <=> 200 * n + limit >= 200 * limit
           /\ Passed(n) \subseteq {80, 90, 100}
<1>1. 80 \in Thresholds /\ 90 \in Thresholds /\ 100 \in Thresholds
  BY DEF Thresholds
<1>2. (2 * limit) * 80 = 160 * limit /\ (2 * limit) * 90 = 180 * limit /\ (2 * limit) * 100 = 200 * limit
  OBVIOUS
<1>3. 80 \in Passed(n) <=> 200 * n + limit >= 160 * limit
  BY <1>1, <1>2, PercentReaches DEF Passed
<1>4. 90 \in Passed(n) <=> 200 * n + limit >= 180 * limit
  BY <1>1, <1>2, PercentReaches DEF Passed
<1>5. 100 \in Passed(n) <=> 200 * n + limit >= 200 * limit
  BY <1>1, <1>2, PercentReaches DEF Passed
<1> QED BY <1>3, <1>4, <1>5 DEF Passed, Thresholds

\* Below the limit a CV passes one threshold at most; the one that reaches the limit
\* passes the last.
LEMMA NextPassed ==
    ASSUME NEW n \in Nat, limit \in Nat \ {0}, n <= limit
    PROVE  LET due == Passed(n) \ Before(n) IN
           /\ Before(n) \subseteq Passed(n)
           /\ \A t \in Before(n), u \in due : t < u
           /\ n < limit => \A t, u \in due : t = u
           /\ n = limit => due = {} \/ 100 \in due
           /\ n = 0 => Passed(n) = {}
<1> DEFINE due == Passed(n) \ Before(n)
<1>1. CASE n = 0
  <2>1. Passed(n) = {}
    BY <1>1, PassedInNumbers
  <2> QED BY <1>1, <2>1 DEF Before
<1>2. CASE n # 0
  <2>1. n - 1 \in Nat /\ Before(n) = Passed(n - 1) /\ 200 * (n - 1) = 200 * n - 200
    BY <1>2 DEF Before
  <2>2. /\ 80 \in Before(n) <=> 200 * n - 200 + limit >= 160 * limit
        /\ 90 \in Before(n) <=> 200 * n - 200 + limit >= 180 * limit
        /\ 100 \in Before(n) <=> 200 * n - 200 + limit >= 200 * limit
        /\ Before(n) \subseteq {80, 90, 100}
    BY <2>1, PassedInNumbers
  <2>3. /\ 80 \in Passed(n) <=> 200 * n + limit >= 160 * limit
        /\ 90 \in Passed(n) <=> 200 * n + limit >= 180 * limit
        /\ 100 \in Passed(n) <=> 200 * n + limit >= 200 * limit
        /\ Passed(n) \subseteq {80, 90, 100}
    BY PassedInNumbers
  <2>4. Before(n) \subseteq Passed(n)
    BY <2>2, <2>3
  <2>5. (90 \in Before(n) => 80 \in Before(n)) /\ (100 \in Before(n) => 90 \in Before(n))
    BY <2>2
  <2>6. \A t \in Before(n), u \in due : t < u
    <3> SUFFICES ASSUME NEW t \in Before(n), NEW u \in Passed(n), u \notin Before(n) PROVE t < u
      OBVIOUS
    <3>1. t \in {80, 90, 100} /\ u \in {80, 90, 100}
      BY <2>2, <2>3
    <3> QED BY <2>5, <3>1
  <2>7. n < limit => (90 \in Passed(n) => 80 \in Before(n)) /\ (100 \in Passed(n) => 90 \in Before(n))
    <3>1. n < limit => n + 1 <= limit
      OBVIOUS
    <3> QED BY <2>2, <2>3, <3>1
  <2>8. n < limit => \A t, u \in due : t = u
    <3> SUFFICES ASSUME n < limit, NEW t \in Passed(n), NEW u \in Passed(n),
                        t \notin Before(n), u \notin Before(n)
                 PROVE  t = u
      OBVIOUS
    <3>1. t \in {80, 90, 100} /\ u \in {80, 90, 100}
      BY <2>3
    <3> QED BY <2>5, <2>7, <3>1
  <2>9. n = limit => due = {} \/ 100 \in due
    <3> SUFFICES ASSUME n = limit, NEW t \in Passed(n), t \notin Before(n) PROVE 100 \in due
      OBVIOUS
    <3>1. 100 \in Passed(n)
      BY <2>3
    <3>2. 100 \notin Before(n)
      <4>1. t \in {80, 90, 100}
        BY <2>3
      <4> QED BY <2>5, <4>1
    <3> QED BY <3>1, <3>2
  <2> QED BY <1>2, <2>4, <2>6, <2>8, <2>9
<1> QED BY <1>1, <1>2

\* What has been told once the alert that is due has been sent.
Settled(told, n) == told = Passed(n) \/ (n >= limit /\ 100 \in told)

LEMMA AlertSettles ==
    ASSUME NEW n \in Nat, limit \in Nat \ {0}, n <= limit, NEW due, due = Passed(n) \ Before(n)
    PROVE  /\ due = {} => Before(n) = Passed(n)
           /\ due # {} => /\ n < limit => Before(n) \cup {Highest(due)} = Passed(n)
                          /\ Settled(Before(n) \cup {Highest(due)}, n)
                          /\ \A t \in Before(n) : t < Highest(due)
<1>1. due \in SUBSET Thresholds /\ Before(n) \subseteq Passed(n)
  BY NextPassed DEF Passed
<1>2. due # {} => Highest(due) \in due /\ \A u \in due : u <= Highest(due)
  BY <1>1, HighestIsMember
<1>3. due # {} /\ n < limit => Before(n) \cup {Highest(due)} = Passed(n)
  <2> SUFFICES ASSUME due # {}, n < limit PROVE Before(n) \cup {Highest(due)} = Passed(n)
    OBVIOUS
  <2>1. \A t \in due : t = Highest(due)
    BY <1>2, NextPassed
  <2> QED BY <1>1, <1>2, <2>1
<1>4. due # {} /\ n = limit => Highest(due) = 100
  <2> SUFFICES ASSUME due # {}, n = limit PROVE Highest(due) = 100
    OBVIOUS
  <2>1. 100 \in due
    BY NextPassed
  <2>2. Highest(due) \in {80, 90, 100} /\ 100 <= Highest(due)
    BY <1>1, <1>2, <2>1 DEF Thresholds
  <2> QED BY <2>2
<1>5. due # {} => \A t \in Before(n) : t < Highest(due)
  BY <1>2, NextPassed
<1>6. n < limit \/ n = limit
  OBVIOUS
<1> QED BY <1>1, <1>3, <1>4, <1>5, <1>6 DEF Settled

Flagged(p) == IF tracker[p] = None THEN {} ELSE tracker[p]
\* w has counted in p, or checks it, and has yet to read its usage; it has read it.
Pends(w, p) == handler[w].at \in {"check", "sum"} /\ handler[w].p = p
Late(w, p) == handler[w].at \in {"findTracker", "newTracker", "notify", "flag"} /\ handler[w].p = p
Alone(w, p) == Pends(w, p) /\ \A v \in Workers : Pends(v, p) => v = w
NobodyPends(p) == \A w \in Workers : ~Pends(w, p)
Rising(p) == \A i \in 1..Len(alerts[p]) - 1 : alerts[p][i] < alerts[p][i + 1]

\* The one check under way in p is of the last CV counted, one upload before apart.
LateOK(w, p) ==
    LET h == handler[w] IN
    /\ h.n <= limit
    /\ Flagged(p) = Before(h.n)
    /\ h.at \in {"notify", "flag"} => h.seen = Flagged(p)
    /\ Told(p) = Flagged(p) \cup IF h.at = "flag" THEN {Highest(Due(h))} ELSE {}
    /\ NobodyPends(p) => usage[p] = h.n
    /\ \A v \in Workers : Alone(v, p) => usage[p] = h.n + 1 \/ (usage[p] = 0 /\ h.n = 0)
QuietOK(p) ==
    /\ Told(p) = Flagged(p)
    /\ NobodyPends(p) => Settled(Told(p), usage[p])
    /\ \A v \in Workers : Alone(v, p) => Told(p) = Before(usage[p])
AlertsOK(p) ==
    /\ Rising(p)
    /\ \A v, w \in Workers : Late(v, p) /\ Late(w, p) => v = w
    /\ \A w \in Workers : Late(w, p) => LateOK(w, p)
    /\ (\A w \in Workers : ~Late(w, p)) => QuietOK(p)

\* An upload that goes over into period p will check it without having counted in it:
\* p has only begun.
Stale(w, p) == handler[w].at \in {"record", "check"} /\ handler[w].p < p
StaleOK(w, p) ==
    /\ Told(p) = {}
    /\ NobodyPends(p) \/ handler[w].at = "record" => usage[p] = 0
    /\ \A v \in Workers : Late(v, p) => handler[v].n = 0

Tidy(p) == p \notin crowded \cup jostled \cup broken
SoloInv ==
    /\ \A p \in Periods : p > period => alerts[p] = <<>> /\ tracker[p] = None
    /\ \A w \in Workers : handler[w].at \in Checking \cup {"record"} => handler[w].p <= period
    /\ period \notin crowded => \A v, w \in Workers :
           handler[v].at \in Counting /\ handler[w].at \in Counting => v = w
StalesOK(p) == \A w \in Workers : Stale(w, p) => StaleOK(w, p)
OrderOK(p) == AlertsOK(p) /\ (p = period => StalesOK(p))
AlertInv == \A p \in Periods : Tidy(p) => OrderOK(p)

-----------------------------------------------------------------------------
(* The steps of a check *)

\* The steps of w as it counts in period q, or checks it.
Aside(w) == (\A v \in Workers \ {w} : handler'[v] = handler[v]) /\ UNCHANGED <<limit, period,
                                                                               crowded>>
Records(w, q) ==
    /\ Aside(w) /\ handler[w].at = "record" /\ handler[w].p = q
    /\ handler'[w].at = "check" /\ handler'[w].p = q
    /\ usage' = [usage EXCEPT ![q] = @ + 1]
    /\ UNCHANGED <<tracker, alerts, jostled, broken>>
Checks(w, q) ==
    /\ Aside(w) /\ handler[w].at = "check" /\ handler[w].p = q
    /\ handler'[w].at = "sum" /\ handler'[w].p = period
    /\ broken' = IF q # period THEN broken \cup {q} ELSE broken
    /\ UNCHANGED <<usage, tracker, alerts, jostled>>
Sums(w, q) ==
    /\ Aside(w) /\ handler[w].at = "sum" /\ handler[w].p = q
    /\ handler'[w].at = "findTracker" /\ handler'[w].p = q /\ handler'[w].n = usage[q]
    /\ jostled' = IF Others(w, Checking) # {} THEN jostled \cup {q} ELSE jostled
    /\ UNCHANGED <<usage, tracker, alerts, broken>>
Finds(w, q) ==
    /\ Aside(w) /\ handler[w].at \in {"findTracker", "newTracker"} /\ handler[w].p = q
    /\ handler'[w].at \in {"newTracker", "notify"} /\ handler'[w].p = q
    /\ handler'[w].n = handler[w].n
    /\ handler'[w].at = "notify" => tracker'[q] # None /\ handler'[w].seen = tracker'[q]
    /\ tracker' = tracker \/ (tracker[q] = None /\ tracker' = [tracker EXCEPT ![q] = {}])
    /\ UNCHANGED <<usage, alerts, jostled, broken>>
Notifies(w, q) ==
    /\ Aside(w) /\ handler[w].at = "notify" /\ handler[w].p = q /\ Due(handler[w]) # {}
    /\ handler'[w].at = "flag" /\ handler'[w].p = q
    /\ handler'[w].n = handler[w].n /\ handler'[w].seen = handler[w].seen
    /\ alerts' = [alerts EXCEPT ![q] = Append(@, Highest(Due(handler[w])))]
    /\ UNCHANGED <<usage, tracker, jostled, broken>>
Finishes(w, q) ==
    /\ Aside(w) /\ handler[w].p = q /\ handler'[w].at \in {"idle", "read"}
    /\ \/ handler[w].at = "notify" /\ Due(handler[w]) = {} /\ tracker' = tracker
       \/ /\ handler[w].at = "flag" /\ tracker[q] # None
          /\ tracker' = [tracker EXCEPT ![q] = @ \cup {Highest(Due(handler[w]))}]
    /\ UNCHANGED <<usage, alerts, jostled, broken>>
Breaks(w) ==
    /\ Aside(w) /\ handler[w].at \in Checking \cup {"track", "record"} /\ handler'[w].at = "idle"
    /\ period \in broken' /\ broken \subseteq broken'
    /\ handler[w].at \in Checking \cup {"record"} => handler[w].p \in broken'
    /\ UNCHANGED <<usage, tracker, alerts, jostled>>

LEMMA CheckKinds ==
    ASSUME Inv, NEW w \in Workers, CountStep(w) \/ CountingFails(w), ~Track(w)
    PROVE  \/ Breaks(w)
           \/ \E q \in Periods :
                 \/ Records(w, q) \/ Checks(w, q) \/ Sums(w, q) \/ Finds(w, q) \/ Notifies(w, q)
                 \/ Finishes(w, q)
<1> DEFINE h == handler[w]
<1> USE DEF billing, history
<1>1. /\ handler \in [Workers -> Handler] /\ h \in Handler
      /\ tracker \in [Periods -> (SUBSET Thresholds) \cup {None}]
      /\ h.at \in Checking \cup {"record"} => h.p \in Periods /\ h.p # 0
  BY Handlers DEF Inv, TablesOK, HandlerOK, Periods
<1>2. Record(w) => h.p \in Periods /\ Records(w, h.p)
  <2> SUFFICES ASSUME Record(w) PROVE h.p \in Periods /\ Records(w, h.p)
    OBVIOUS
  <2>1. /\ \A v \in Workers \ {w} : handler'[v] = handler[v]
        /\ handler'[w].at = "check" /\ handler'[w].p = h.p
    BY <1>1 DEF Record, Goto, Handler
  <2> QED BY <1>1, <2>1 DEF Record, Records, Aside
<1>3. Check(w) => h.p \in Periods /\ Checks(w, h.p)
  <2> SUFFICES ASSUME Check(w) PROVE h.p \in Periods /\ Checks(w, h.p)
    OBVIOUS
  <2>1. /\ \A v \in Workers \ {w} : handler'[v] = handler[v]
        /\ handler'[w].at = "sum" /\ handler'[w].p = period
    BY <1>1 DEF Check, Handler
  <2> QED BY <1>1, <2>1 DEF Check, Checks, Aside, Checking
<1>4. Sum(w) => h.p \in Periods /\ Sums(w, h.p)
  <2> SUFFICES ASSUME Sum(w) PROVE h.p \in Periods /\ Sums(w, h.p)
    OBVIOUS
  <2>1. /\ \A v \in Workers \ {w} : handler'[v] = handler[v]
        /\ handler'[w].at = "findTracker" /\ handler'[w].p = h.p /\ handler'[w].n = usage[h.p]
    BY <1>1 DEF Sum, Handler
  <2> QED BY <1>1, <2>1 DEF Sum, Sums, Aside, Checking
<1>5. FindTracker(w) => h.p \in Periods /\ Finds(w, h.p)
  <2> SUFFICES ASSUME FindTracker(w) PROVE h.p \in Periods /\ Finds(w, h.p)
    OBVIOUS
  <2>1. /\ \A v \in Workers \ {w} : handler'[v] = handler[v]
        /\ handler'[w].at \in {"newTracker", "notify"} /\ handler'[w].p = h.p
        /\ handler'[w].n = h.n /\ tracker' = tracker
        /\ handler'[w].at = "notify" => tracker[h.p] # None /\ handler'[w].seen = tracker[h.p]
    BY <1>1 DEF FindTracker, Goto, Handler
  <2> QED BY <1>1, <2>1 DEF FindTracker, Finds, Aside, Checking
<1>6. CountingThrew(w) /\ h.at \in Checking \cup {"track", "record"}
         /\ UNCHANGED <<limit, period, crowded, usage, tracker, alerts, jostled>> => Breaks(w)
  <2> SUFFICES ASSUME CountingThrew(w), h.at \in Checking \cup {"track", "record"},
                      UNCHANGED <<limit, period, crowded, usage, tracker, alerts, jostled>>
               PROVE  Breaks(w)
    OBVIOUS
  <2>1. /\ \A v \in Workers \ {w} : handler'[v] = handler[v]
        /\ handler'[w].at = "idle"
    BY <1>1, IdleIsOK DEF CountingThrew, End
  <2>2. broken' = broken \cup {period, IF h.p = 0 THEN period ELSE h.p}
    BY DEF CountingThrew
  <2> QED BY <1>1, <2>1, <2>2 DEF Breaks, Aside
<1>7. NewTracker(w) => Breaks(w) \/ (h.p \in Periods /\ Finds(w, h.p))
  <2> SUFFICES ASSUME NewTracker(w) PROVE Breaks(w) \/ (h.p \in Periods /\ Finds(w, h.p))
    OBVIOUS
  <2>1. CASE tracker[h.p] # None
    BY <1>6, <2>1 DEF NewTracker, Checking
  <2>2. CASE tracker[h.p] = None
    <3>1. /\ \A v \in Workers \ {w} : handler'[v] = handler[v]
          /\ handler'[w].at = "notify" /\ handler'[w].p = h.p
          /\ handler'[w].n = h.n /\ handler'[w].seen = {}
          /\ tracker' = [tracker EXCEPT ![h.p] = {}]
      BY <1>1, <2>2 DEF NewTracker, Handler
    <3>2. h.p \in Periods /\ tracker'[h.p] = {} /\ tracker'[h.p] # None
      BY <1>1, <3>1, NoneIsNoName DEF NewTracker, Checking
    <3> QED BY <2>2, <3>1, <3>2 DEF NewTracker, Finds, Aside
  <2> QED BY <2>1, <2>2
<1>8. Notify(w) => h.p \in Periods /\ (Finishes(w, h.p) \/ Notifies(w, h.p))
  <2> SUFFICES ASSUME Notify(w) PROVE h.p \in Periods /\ (Finishes(w, h.p) \/ Notifies(w, h.p))
    OBVIOUS
  <2>1. h.p \in Periods
    BY <1>1 DEF Notify, Checking
  <2>2. CASE Due(h) = {}
    <3>1. Counted(w)
      BY <2>2 DEF Notify
    <3> QED BY <2>1, <2>2, <3>1, CountedMoves DEF Notify, Finishes, Aside
  <2>3. CASE Due(h) # {}
    <3>1. /\ \A v \in Workers \ {w} : handler'[v] = handler[v]
          /\ handler'[w].at = "flag" /\ handler'[w].p = h.p
          /\ handler'[w].n = h.n /\ handler'[w].seen = h.seen
      BY <1>1, <2>3 DEF Notify, Goto, Handler
    <3> QED BY <2>1, <2>3, <3>1 DEF Notify, Notifies, Aside
  <2> QED BY <2>2, <2>3
<1>9. Flag(w) => h.p \in Periods /\ Finishes(w, h.p)
  <2> SUFFICES ASSUME Flag(w) PROVE h.p \in Periods /\ Finishes(w, h.p)
    OBVIOUS
  <2>1. h.p \in Periods /\ tracker[h.p] # None
    BY <1>1 DEF Flag, Checking, Inv, TrackersOK
  <2> QED BY <2>1, CountedMoves DEF Flag, Finishes, Aside
<1>10. CountingFails(w) => Breaks(w)
  BY <1>6 DEF CountingFails
<1> QED BY <1>2, <1>3, <1>4, <1>5, <1>7, <1>8, <1>9, <1>10 DEF CountStep

\* A step of w that adds no upload, and writes in no period to come.
LEMMA SoloMoves ==
    ASSUME Inv, SoloInv, NEW w \in Workers,
           \A v \in Workers \ {w} : handler'[v] = handler[v],
           handler'[w].at \in Counting => handler[w].at \in Counting,
           handler'[w].at \in Checking \cup {"record"} => handler'[w].p <= period,
           \A p \in Periods : p > period => alerts'[p] = alerts[p] /\ tracker'[p] = tracker[p],
           UNCHANGED <<period, crowded>>
    PROVE  SoloInv'
<1>1. \A v \in Workers : handler'[v].at \in Counting => handler[v].at \in Counting
  OBVIOUS
<1>2. \A v \in Workers : handler'[v].at \in Checking \cup {"record"} => handler'[v].p <= period
  BY DEF SoloInv
<1> QED BY <1>1, <1>2 DEF SoloInv

LEMMA SoloCheck ==
    ASSUME Inv, SoloInv, NEW w \in Workers, NEW q \in Periods,
           \/ Records(w, q) \/ Checks(w, q) \/ Sums(w, q) \/ Finds(w, q) \/ Notifies(w, q)
           \/ Finishes(w, q)
    PROVE  SoloInv'
<1>1. /\ handler[w].at \in Checking \cup {"record"} /\ handler[w].p = q
      /\ \A v \in Workers \ {w} : handler'[v] = handler[v]
      /\ UNCHANGED <<period, crowded>>
  BY DEF Records, Checks, Sums, Finds, Notifies, Finishes, Aside, Checking
<1>2. q <= period /\ period \in Nat /\ \A p \in Periods : p \in Nat
  BY <1>1 DEF SoloInv, Inv, TablesOK, Periods
<1>3. /\ handler'[w].at \notin Counting
      /\ handler'[w].at \in Checking \cup {"record"} => handler'[w].p \in {q, period}
  BY DEF Records, Checks, Sums, Finds, Notifies, Finishes, Counting, Checking
<1>4. ASSUME NEW p \in Periods, p > period PROVE alerts'[p] = alerts[p] /\ tracker'[p] = tracker[p]
  <2>1. p # q
    BY <1>2, <1>4
  <2>2. /\ alerts \in [Periods -> Seq(Thresholds)]
        /\ tracker \in [Periods -> (SUBSET Thresholds) \cup {None}]
    BY DEF Inv, TablesOK
  <2> QED BY <2>1, <2>2 DEF Records, Checks, Sums, Finds, Notifies, Finishes
<1>5. handler'[w].at \in Checking \cup {"record"} => handler'[w].p <= period
  BY <1>2, <1>3
<1> QED BY <1>1, <1>3, <1>4, <1>5, SoloMoves

LEMMA SoloKept == Inv /\ SoloInv /\ [Next]_vars => SoloInv'
<1> SUFFICES ASSUME Inv, SoloInv, [Next]_vars PROVE SoloInv'
  OBVIOUS
<1>1. /\ period \in Nat /\ handler \in [Workers -> Handler]
      /\ \A p \in Periods : p \in Nat
  BY DEF Inv, TablesOK, Periods
<1>2. ASSUME NEW w \in Workers,
             \/ Requests(w) \/ RecordsStep(w) \/ RescoreStep(w) \/ ScoreStep(w) \/ MailStep(w)
             \/ RescoringStops(w) \/ TimeOut(w)
      PROVE  SoloInv'
  <2>1. /\ \A v \in Workers \ {w} : handler'[v] = handler[v]
        /\ handler'[w].at \notin Counting \cup Checking
        /\ UNCHANGED <<billing, crowded>>
    BY <1>2, AsideSteps
  <2>2. handler'[w].at # "record"
    BY <2>1 DEF Counting
  <2> QED BY <2>1, <2>2, SoloMoves DEF billing
<1>3. ASSUME NEW w \in Workers, UploadStep(w) PROVE SoloInv'
  <2>1. /\ \A v \in Workers \ {w} : handler'[v] = handler[v]
        /\ handler[w].at \in {"hint", "parse", "find", "create"}
        /\ handler'[w].at \in {"parse", "find", "create", "track", "idle"}
        /\ UNCHANGED <<billing, crowded>>
    BY <1>3, UploadMoves
  <2>2. handler[w].at \in Counting /\ handler'[w].at \notin Checking \cup {"record"}
    BY <2>1 DEF Counting, Checking
  <2> QED BY <2>1, <2>2, SoloMoves DEF billing
<1>4. ASSUME NEW w \in Workers, Track(w) PROVE SoloInv'
  <2>1. /\ \A v \in Workers \ {w} : handler'[v] = handler[v]
        /\ handler[w].at = "track" /\ handler'[w].at = "record" /\ handler'[w].p = period
        /\ UNCHANGED <<billing, crowded>>
    BY <1>1, <1>4 DEF Track, Handler, history
  <2>2. handler[w].at \in Counting /\ handler'[w].p <= period
    BY <1>1, <2>1 DEF Counting
  <2> QED BY <2>1, <2>2, SoloMoves DEF billing
<1>5. ASSUME NEW w \in Workers, CountStep(w) \/ CountingFails(w), ~Track(w) PROVE SoloInv'
  <2>1. CASE Breaks(w)
    <3>1. /\ \A v \in Workers \ {w} : handler'[v] = handler[v]
          /\ handler'[w].at = "idle" /\ UNCHANGED <<period, crowded, tracker, alerts>>
      BY <2>1 DEF Breaks, Aside
    <3> QED BY <3>1, SoloMoves DEF Counting, Checking
  <2> QED BY <1>5, <2>1, CheckKinds, SoloCheck
<1>6. ASSUME UploadRequests PROVE SoloInv'
  <2>1. PICK W \in SUBSET Workers, j \in Jobs \cup {None} : Admit(W, j)
    BY <1>6 DEF UploadRequests, Upload
  <2> DEFINE g == [Idle EXCEPT !.at = "hint", !.j = j]
  <2>2. /\ \A v \in Workers : handler'[v] = IF v \in W THEN g ELSE handler[v]
        /\ crowded' = IF Cardinality(W) > 1 \/ \E v \in Workers : handler[v].at \in Counting
                      THEN crowded \cup {period} ELSE crowded
        /\ UNCHANGED <<period, tracker, alerts>>
    BY <2>1 DEF Admit, billing
  <2>3. g.at = "hint"
    BY DEF Idle
  <2> HIDE DEF g
  <2>4. \A v \in Workers : handler'[v].at \in Checking \cup {"record"} => handler'[v] = handler[v]
    BY <2>2, <2>3 DEF Checking
  <2>5. ASSUME period \notin crowded', NEW u \in Workers, NEW v \in Workers,
               handler'[u].at \in Counting, handler'[v].at \in Counting
        PROVE  u = v
    <3>1. ~(Cardinality(W) > 1) /\ \A x \in Workers : handler[x].at \notin Counting
      BY <2>2, <2>5
    <3>2. u \in W /\ v \in W
      BY <2>2, <2>5, <3>1
    <3>3. IsFiniteSet(W) /\ Cardinality(W) \in Nat /\ Cardinality(W) # 0
      BY <3>2, FiniteWorkers, FS_Subset, FS_CardinalityType, FS_EmptySet
    <3>4. Cardinality(W) = 1
      BY <3>1, <3>3
    <3> QED BY <3>2, <3>3, <3>4, FS_Singleton
  <2> QED BY <2>2, <2>4, <2>5 DEF SoloInv
<1>7. ASSUME Renew PROVE SoloInv'
  <2> DEFINE under == {w \in Workers : handler[w].at \in Counting}
  <2>1. /\ period' = period + 1 /\ UNCHANGED <<tracker, alerts, handler>>
        /\ crowded' = IF Cardinality(under) > 1 THEN crowded \cup {period + 1} ELSE crowded
    BY <1>7 DEF Renew
  <2>2. ASSUME period' \notin crowded', NEW u \in Workers, NEW v \in Workers,
               handler[u].at \in Counting, handler[v].at \in Counting
        PROVE  u = v
    <3>1. ~(Cardinality(under) > 1) /\ u \in under /\ v \in under
      BY <2>1, <2>2
    <3>2. IsFiniteSet(under) /\ Cardinality(under) \in Nat /\ Cardinality(under) # 0
      BY <3>1, FiniteWorkers, FS_Subset, FS_CardinalityType, FS_EmptySet
    <3>3. Cardinality(under) = 1
      BY <3>1, <3>2
    <3> HIDE DEF under
    <3> QED BY <3>1, <3>2, <3>3, FS_Singleton
  <2>3. \A w \in Workers : handler[w].at \in Checking \cup {"record"} => handler[w].p \in Nat
    BY <1>1, Handlers DEF HandlerOK
  <2>4. \A w \in Workers : handler'[w].at \in Checking \cup {"record"} => handler'[w].p <= period'
    BY <1>1, <2>1, <2>3 DEF SoloInv
  <2>5. \A p \in Periods : p > period' => alerts'[p] = <<>> /\ tracker'[p] = None
    BY <1>1, <2>1 DEF SoloInv
  <2> QED BY <2>1, <2>2, <2>4, <2>5 DEF SoloInv
<1>8. UNCHANGED <<handler, billing, crowded>> => SoloInv'
  BY DEF SoloInv, billing
<1>9. DeleteEvents \/ StatusEvents \/ UNCHANGED vars => SoloInv'
  BY <1>8 DEF DeleteEvents, StatusEvents, Remove, BulkDelete, SetStatus, vars, history
<1> QED BY <1>2, <1>3, <1>4, <1>5, <1>6, <1>7, <1>9 DEF Next, Continue, CountStep, Faults

-----------------------------------------------------------------------------
(* What the steps leave of the order *)

LEMMA AlertsStand ==
    ASSUME NEW p, AlertsOK(p),
           alerts'[p] = alerts[p], tracker'[p] = tracker[p], usage'[p] = usage[p], limit' = limit,
           \A v \in Workers : /\ Pends(v, p)' <=> Pends(v, p)
                              /\ Late(v, p)' <=> Late(v, p)
                              /\ Late(v, p) => handler'[v] = handler[v]
    PROVE  AlertsOK(p)'
<1>1. Told(p)' = Told(p) /\ Flagged(p)' = Flagged(p) /\ (Rising(p)' <=> Rising(p))
  BY DEF Told, Flagged, Rising
<1>2. /\ \A n : Passed(n)' = Passed(n) /\ Before(n)' = Before(n)
      /\ \A told, n : Settled(told, n)' <=> Settled(told, n)
  BY DEF Passed, Before, Settled, Percent
<1>3. /\ NobodyPends(p)' <=> NobodyPends(p)
      /\ \A v \in Workers : Alone(v, p)' <=> Alone(v, p)
  BY DEF NobodyPends, Alone
<1>4. ASSUME NEW w \in Workers, Late(w, p)' PROVE LateOK(w, p)'
  <2>1. handler'[w] = handler[w] /\ LateOK(w, p)
    BY <1>4 DEF AlertsOK
  <2>2. Highest(Due(handler[w]))' = Highest(Due(handler[w]))
    BY <2>1 DEF Highest, Due, Percent
  <2>3. Before(handler[w].n)' = Before(handler[w].n)
    BY <2>1 DEF Passed, Before, Percent
  <2> QED BY <1>1, <1>3, <2>1, <2>2, <2>3 DEF LateOK
<1>5. (\A w \in Workers : ~Late(w, p)') => QuietOK(p)'
  <2> SUFFICES ASSUME \A w \in Workers : ~Late(w, p)' PROVE QuietOK(p)'
    OBVIOUS
  <2>1. QuietOK(p)
    BY DEF AlertsOK
  <2>2. Settled(Told(p), usage[p])' <=> Settled(Told(p), usage[p])
    BY <1>1 DEF Settled, Passed, Percent
  <2>3. Before(usage[p])' = Before(usage[p])
    BY DEF Passed, Before, Percent
  <2> QED BY <1>1, <1>3, <2>1, <2>2, <2>3 DEF QuietOK
<1> QED BY <1>1, <1>4, <1>5 DEF AlertsOK

LEMMA StalesStand ==
    ASSUME NEW p, StalesOK(p), alerts'[p] = alerts[p], usage'[p] = usage[p],
           NobodyPends(p)' => NobodyPends(p),
           \A v \in Workers :
              /\ Stale(v, p)' => Stale(v, p) /\ (handler'[v].at = "record" => handler[v].at = "record")
              /\ Late(v, p)' => Late(v, p) /\ handler'[v].n = handler[v].n
    PROVE  StalesOK(p)'
<1>1. Told(p)' = Told(p)
  BY DEF Told
<1>2. ASSUME NEW w \in Workers, Stale(w, p)' PROVE StaleOK(w, p)'
  <2>1. StaleOK(w, p) /\ (handler'[w].at = "record" => handler[w].at = "record")
    BY <1>2 DEF StalesOK
  <2> QED BY <1>1, <2>1 DEF StaleOK
<1> QED BY <1>2 DEF StalesOK

\* A step of w in a period is none in another.
LEMMA OrderElsewhere ==
    ASSUME NEW p, OrderOK(p), NEW w \in Workers,
           \A v \in Workers \ {w} : handler'[v] = handler[v],
           ~Pends(w, p), ~Pends(w, p)', ~Late(w, p), ~Late(w, p)',
           p = period => (Stale(w, p)' => Stale(w, p) /\ handler'[w].at # "record"),
           alerts'[p] = alerts[p], tracker'[p] = tracker[p], usage'[p] = usage[p],
           UNCHANGED <<limit, period>>
    PROVE  OrderOK(p)'
<1>1. \A v \in Workers \ {w} : /\ Pends(v, p)' <=> Pends(v, p)
                               /\ Late(v, p)' <=> Late(v, p)
                               /\ Stale(v, p)' <=> Stale(v, p)
  BY DEF Pends, Late, Stale
<1>2. AlertsOK(p)'
  BY <1>1, AlertsStand DEF OrderOK
<1>3. NobodyPends(p)' <=> NobodyPends(p)
  BY <1>1 DEF NobodyPends
<1>4. p = period => StalesOK(p)'
  BY <1>1, <1>3, StalesStand DEF OrderOK
<1> QED BY <1>2, <1>4 DEF OrderOK

\* A CV is counted.
LEMMA OrderRecords ==
    ASSUME Inv, LimitInv, SoloInv, AlertInv, NEW w \in Workers, NEW q \in Periods, Records(w, q),
           NEW p \in Periods, Tidy(p)'
    PROVE  OrderOK(p)'
<1>1. /\ OrderOK(p) /\ p \notin crowded
      /\ \A v \in Workers \ {w} : handler'[v] = handler[v]
      /\ UNCHANGED <<limit, period, tracker, alerts>>
      /\ usage \in [Periods -> Nat] /\ limit \in Nat \ {0}
  BY LimitAssumption DEF AlertInv, Tidy, Records, Aside, Inv, TablesOK
<1>2. handler[w].at = "record" /\ handler[w].p = q /\ handler'[w].at = "check" /\ handler'[w].p = q
  BY DEF Records
<1>3. CASE p # q
  <2>1. usage'[p] = usage[p]
    BY <1>1, <1>3 DEF Records
  <2>2. /\ ~Pends(w, p) /\ ~Pends(w, p)' /\ ~Late(w, p) /\ ~Late(w, p)'
        /\ Stale(w, p)' => Stale(w, p) /\ handler'[w].at # "record"
    BY <1>2, <1>3 DEF Pends, Late, Stale
  <2> QED BY <1>1, <2>1, <2>2, OrderElsewhere
<1>4. CASE p = q
  <2>1. usage'[p] = usage[p] + 1 /\ usage[p] \in Nat /\ usage[p] < limit
    <3>1. CountsIn(w, p)
      BY <1>2, <1>4 DEF CountsIn, Counting
    <3> QED BY <1>1, <1>4, <3>1 DEF Records, LimitInv
  <2>2. /\ \A v \in Workers : Pends(v, p)' <=> (Pends(v, p) \/ v = w)
        /\ \A v \in Workers : Late(v, p)' <=> Late(v, p)
        /\ \A v \in Workers : Late(v, p) => handler'[v] = handler[v]
    BY <1>1, <1>2, <1>4 DEF Pends, Late
  <2>3. ~NobodyPends(p)' /\ \A v \in Workers : Alone(v, p)' => NobodyPends(p)
    <3>1. ~Pends(w, p)
      BY <1>2 DEF Pends
    <3> QED BY <2>2, <3>1 DEF NobodyPends, Alone
  <2>4. Told(p)' = Told(p) /\ Flagged(p)' = Flagged(p) /\ (Rising(p)' <=> Rising(p))
    BY <1>1 DEF Told, Flagged, Rising
  <2>5. ASSUME NEW u \in Workers, Late(u, p)' PROVE LateOK(u, p)'
    <3>1. handler'[u] = handler[u] /\ LateOK(u, p)
      BY <1>1, <2>2, <2>5 DEF OrderOK, AlertsOK
    <3>2. Highest(Due(handler[u]))' = Highest(Due(handler[u]))
      BY <1>1, <3>1 DEF Highest, Due, Percent
    <3>3. Before(handler[u].n)' = Before(handler[u].n)
      BY <1>1, <3>1 DEF Passed, Before, Percent
    <3> QED BY <1>1, <2>1, <2>3, <2>4, <3>1, <3>2, <3>3 DEF LateOK
  <2>6. ASSUME \A u \in Workers : ~Late(u, p)' PROVE QuietOK(p)'
    <3>1. QuietOK(p)
      BY <1>1, <2>2, <2>6 DEF OrderOK, AlertsOK
    <3>2. NobodyPends(p) => Told(p) = Passed(usage[p])
      BY <1>1, <2>1, <3>1 DEF QuietOK, Settled
    <3>3. Before(usage[p])' = Passed(usage[p])
      <4>1. usage'[p] # 0 /\ usage'[p] - 1 = usage[p]
        BY <2>1
      <4> QED BY <1>1, <4>1 DEF Before, Passed, Percent
    <3> QED BY <2>3, <2>4, <3>1, <3>2, <3>3 DEF QuietOK
  <2>7. AlertsOK(p)'
    BY <1>1, <2>2, <2>4, <2>5, <2>6 DEF OrderOK, AlertsOK
  <2>8. ASSUME p = period PROVE StalesOK(p)'
    <3> SUFFICES ASSUME NEW v \in Workers, Stale(v, p)' PROVE StaleOK(v, p)'
      BY DEF StalesOK
    <3>1. v # w
      <4>1. ~(p < p)
        BY DEF Periods
      <4> QED BY <1>2, <1>4, <4>1 DEF Stale
    <3>2. Stale(v, p) /\ handler'[v] = handler[v]
      BY <1>1, <3>1 DEF Stale
    <3>3. handler[v].at # "record"
      BY <1>1, <1>2, <2>8, <3>1 DEF SoloInv, Counting
    <3>4. StaleOK(v, p)
      BY <1>1, <2>8, <3>2 DEF OrderOK, StalesOK
    <3> QED BY <2>2, <2>3, <2>4, <3>2, <3>3, <3>4 DEF StaleOK
  <2> QED BY <1>1, <2>7, <2>8 DEF OrderOK
<1> QED BY <1>3, <1>4

\* The check asks for the subscription as it is now: a period that ended is never checked.
LEMMA OrderChecks ==
    ASSUME Inv, LimitInv, SoloInv, AlertInv, NEW w \in Workers, NEW q \in Periods, Checks(w, q),
           NEW p \in Periods, Tidy(p)'
    PROVE  OrderOK(p)'
<1>1. /\ OrderOK(p) /\ p \notin crowded
      /\ \A v \in Workers \ {w} : handler'[v] = handler[v]
      /\ UNCHANGED <<limit, period, usage, tracker, alerts>>
      /\ period \in Nat /\ p \in Nat /\ q \in Nat
  <2>1. p \notin crowded \cup jostled \cup broken
    BY DEF Tidy, Checks, Aside
  <2> QED BY <2>1 DEF AlertInv, Tidy, Checks, Aside, Inv, TablesOK, Periods
<1>2. handler[w].at = "check" /\ handler[w].p = q /\ handler'[w].at = "sum" /\ handler'[w].p = period
  BY DEF Checks
<1>3. ~Late(w, p) /\ ~Late(w, p)' /\ ~Stale(w, p)'
  BY <1>2 DEF Late, Stale
<1>4. CASE q # period /\ p = q
  BY <1>4 DEF Tidy, Checks
<1>5. CASE q # period /\ p # q /\ p # period
  BY <1>1, <1>2, <1>3, <1>5, OrderElsewhere DEF Pends
<1>6. CASE q = period /\ p # period
  BY <1>1, <1>2, <1>3, <1>6, OrderElsewhere DEF Pends
<1>7. CASE q = period /\ p = period
  <2>1. \A v \in Workers : /\ Pends(v, p)' <=> Pends(v, p)
                           /\ Late(v, p)' <=> Late(v, p)
                           /\ Late(v, p) => handler'[v] = handler[v]
                           /\ Stale(v, p)' => Stale(v, p) /\ handler'[v] = handler[v]
    BY <1>1, <1>2, <1>3, <1>7 DEF Pends, Late, Stale
  <2>2. AlertsOK(p)'
    BY <1>1, <2>1, AlertsStand DEF OrderOK
  <2>3. NobodyPends(p)' <=> NobodyPends(p)
    BY <2>1 DEF NobodyPends
  <2>4. StalesOK(p)'
    BY <1>1, <1>7, <2>1, <2>3, StalesStand DEF OrderOK
  <2> QED BY <2>2, <2>4 DEF OrderOK
<1>8. CASE q # period /\ p = period
  <2>1. Stale(w, p) /\ AlertsOK(p)
    <3>1. q <= period
      BY <1>2 DEF SoloInv, Checking
    <3> QED BY <1>1, <1>2, <1>8, <3>1 DEF Stale, OrderOK
  <2>2. /\ Told(p) = {} /\ (NobodyPends(p) => usage[p] = 0)
        /\ \A v \in Workers : Late(v, p) => handler[v].n = 0
    BY <1>1, <1>8, <2>1 DEF OrderOK, StalesOK, StaleOK
  <2>3. /\ Pends(w, p)' /\ ~Pends(w, p)
        /\ \A v \in Workers \ {w} : /\ Pends(v, p)' <=> Pends(v, p)
                                    /\ Stale(v, p)' <=> Stale(v, p)
        /\ \A v \in Workers : /\ Late(v, p)' <=> Late(v, p)
                              /\ Late(v, p) => handler'[v] = handler[v]
    BY <1>1, <1>2, <1>3, <1>8 DEF Pends, Late, Stale
  <2>4. ~NobodyPends(p)' /\ \A v \in Workers : Alone(v, p)' => NobodyPends(p)
    BY <2>3 DEF NobodyPends, Alone
  <2>5. Told(p)' = Told(p) /\ Flagged(p)' = Flagged(p) /\ (Rising(p)' <=> Rising(p))
    BY <1>1 DEF Told, Flagged, Rising
  <2>6. ASSUME NEW u \in Workers, Late(u, p)' PROVE LateOK(u, p)'
    <3>1. handler'[u] = handler[u] /\ LateOK(u, p) /\ handler[u].n = 0
      BY <2>1, <2>2, <2>3, <2>6 DEF AlertsOK
    <3>2. Highest(Due(handler[u]))' = Highest(Due(handler[u]))
      BY <1>1, <3>1 DEF Highest, Due, Percent
    <3>3. Before(handler[u].n)' = Before(handler[u].n)
      BY <1>1, <3>1 DEF Passed, Before, Percent
    <3> QED BY <1>1, <2>2, <2>4, <2>5, <3>1, <3>2, <3>3 DEF LateOK
  <2>7. ASSUME \A u \in Workers : ~Late(u, p)' PROVE QuietOK(p)'
    <3>1. QuietOK(p)
      BY <2>1, <2>3, <2>7 DEF AlertsOK
    <3>2. NobodyPends(p) => Before(usage[p])' = {}
      BY <1>1, <2>2 DEF Before
    <3> QED BY <2>2, <2>4, <2>5, <3>1, <3>2 DEF QuietOK
  <2>8. AlertsOK(p)'
    BY <2>1, <2>3, <2>5, <2>6, <2>7 DEF AlertsOK
  <2>9. StalesOK(p)'
    <3> SUFFICES ASSUME NEW v \in Workers, Stale(v, p)' PROVE StaleOK(v, p)'
      BY DEF StalesOK
    <3>1. v # w /\ Stale(v, p) /\ handler'[v] = handler[v]
      BY <1>1, <1>3, <2>3
    <3>2. StaleOK(v, p)
      BY <1>1, <1>8, <3>1 DEF OrderOK, StalesOK
    <3> QED BY <1>1, <2>3, <2>4, <2>5, <3>1, <3>2 DEF StaleOK
  <2> QED BY <2>8, <2>9 DEF OrderOK
<1> QED BY <1>4, <1>5, <1>6, <1>7, <1>8

\* The usage is read, by no two checks at a time.
LEMMA OrderSums ==
    ASSUME Inv, LimitInv, SoloInv, AlertInv, NEW w \in Workers, NEW q \in Periods, Sums(w, q),
           NEW p \in Periods, Tidy(p)'
    PROVE  OrderOK(p)'
<1>1. /\ OrderOK(p) /\ p \notin crowded
      /\ \A v \in Workers \ {w} : handler'[v] = handler[v]
      /\ UNCHANGED <<limit, period, usage, tracker, alerts>>
      /\ usage \in [Periods -> Nat] /\ limit \in Nat \ {0}
  <2>1. p \notin crowded \cup jostled \cup broken
    BY DEF Tidy, Sums, Aside
  <2> QED BY <2>1, LimitAssumption DEF AlertInv, Tidy, Sums, Aside, Inv, TablesOK
<1>2. /\ handler[w].at = "sum" /\ handler[w].p = q
      /\ handler'[w].at = "findTracker" /\ handler'[w].p = q /\ handler'[w].n = usage[q]
  BY DEF Sums
<1>3. CASE p # q
  <2>1. ~Pends(w, p) /\ ~Pends(w, p)' /\ ~Late(w, p) /\ ~Late(w, p)' /\ ~Stale(w, p)'
    BY <1>2, <1>3 DEF Pends, Late, Stale
  <2> QED BY <1>1, <2>1, OrderElsewhere
<1>4. CASE p = q
  <2>1. \A v \in Workers \ {w} : handler[v].at \notin Checking
    BY <1>4 DEF Tidy, Sums, Others
  <2>2. /\ Pends(w, p) /\ Alone(w, p)
        /\ \A v \in Workers : ~Late(v, p)
        /\ Late(w, p)' /\ \A v \in Workers : Late(v, p)' => v = w
        /\ NobodyPends(p)'
    BY <1>1, <1>2, <1>4, <2>1 DEF Pends, Late, Alone, NobodyPends, Checking
  <2>3. Told(p) = Flagged(p) /\ Told(p) = Before(usage[p])
    BY <1>1, <2>2 DEF OrderOK, AlertsOK, QuietOK
  <2>4. Told(p)' = Told(p) /\ Flagged(p)' = Flagged(p) /\ (Rising(p)' <=> Rising(p))
    BY <1>1 DEF Told, Flagged, Rising
  <2>5. LateOK(w, p)'
    <3>1. handler'[w].n = usage[p] /\ usage[p] <= limit
      BY <1>1, <1>2, <1>4 DEF LimitInv
    <3>2. Before(handler[w].n)' = Before(usage[p])
      BY <1>1, <3>1 DEF Passed, Before, Percent
    <3>3. \A v \in Workers : ~Alone(v, p)'
      BY <2>2 DEF Alone, NobodyPends
    <3> QED BY <1>1, <1>2, <2>3, <2>4, <3>1, <3>2, <3>3 DEF LateOK
  <2>6. AlertsOK(p)'
    BY <1>1, <2>2, <2>4, <2>5 DEF OrderOK, AlertsOK
  <2>7. ASSUME p = period PROVE StalesOK(p)'
    <3> SUFFICES ASSUME NEW v \in Workers, Stale(v, p)' PROVE StaleOK(v, p)'
      BY DEF StalesOK
    <3>1. v # w /\ Stale(v, p) /\ handler'[v] = handler[v]
      BY <1>1, <1>2, <1>4 DEF Stale
    <3>2. handler[v].at = "record"
      BY <2>1, <3>1 DEF Stale, Checking
    <3>3. Told(p) = {} /\ usage[p] = 0
      BY <1>1, <2>7, <3>1, <3>2 DEF OrderOK, StalesOK, StaleOK
    <3>4. \A u \in Workers : Late(u, p)' => handler'[u].n = 0
      BY <1>2, <1>4, <2>2, <3>3
    <3> QED BY <1>1, <2>4, <3>3, <3>4 DEF StaleOK
  <2> QED BY <1>1, <2>6, <2>7 DEF OrderOK
<1> QED BY <1>3, <1>4

\* The row of the period is found, or created.
LEMMA OrderFinds ==
    ASSUME Inv, LimitInv, SoloInv, AlertInv, NEW w \in Workers, NEW q \in Periods, Finds(w, q),
           NEW p \in Periods, Tidy(p)'
    PROVE  OrderOK(p)'
<1>1. /\ OrderOK(p)
      /\ \A v \in Workers \ {w} : handler'[v] = handler[v]
      /\ UNCHANGED <<limit, period, usage, alerts>>
      /\ tracker \in [Periods -> (SUBSET Thresholds) \cup {None}]
  BY DEF AlertInv, Tidy, Finds, Aside, Inv, TablesOK
<1>2. /\ handler[w].at \in {"findTracker", "newTracker"} /\ handler[w].p = q
      /\ handler'[w].at \in {"newTracker", "notify"} /\ handler'[w].p = q
      /\ handler'[w].n = handler[w].n
      /\ handler'[w].at = "notify" => tracker'[q] # None /\ handler'[w].seen = tracker'[q]
  BY DEF Finds
<1>3. ~Pends(w, p) /\ ~Pends(w, p)' /\ ~Stale(w, p)'
  BY <1>2 DEF Pends, Stale
<1>4. CASE p # q
  <2>1. ~Late(w, p) /\ ~Late(w, p)' /\ tracker'[p] = tracker[p]
    BY <1>1, <1>2, <1>4 DEF Late, Finds
  <2> QED BY <1>1, <1>3, <2>1, OrderElsewhere
<1>5. CASE p = q
  <2>1. /\ Late(w, p) /\ Late(w, p)' /\ AlertsOK(p)
        /\ \A v \in Workers : Late(v, p)' => Late(v, p)
        /\ \A v \in Workers : Pends(v, p)' <=> Pends(v, p)
    BY <1>1, <1>2, <1>3, <1>5 DEF Pends, Late, OrderOK
  <2>2. LateOK(w, p) /\ \A v \in Workers : Late(v, p) => v = w
    BY <2>1 DEF AlertsOK
  <2>3. Told(p)' = Told(p) /\ (Rising(p)' <=> Rising(p))
    BY <1>1 DEF Told, Rising
  <2>4. Flagged(p)' = Flagged(p)
    <3>1. CASE tracker' = tracker
      BY <3>1 DEF Flagged
    <3>2. CASE tracker[q] = None /\ tracker' = [tracker EXCEPT ![q] = {}]
      <4>1. tracker'[p] = {} /\ tracker[p] = None
        BY <1>1, <1>5, <3>2
      <4> QED BY <4>1 DEF Flagged
    <3> QED BY <3>1, <3>2 DEF Finds
  <2>5. LateOK(w, p)'
    <3>1. handler'[w].at = "notify" => handler'[w].seen = Flagged(p)'
      BY <1>2, <1>5 DEF Flagged
    <3>2. /\ NobodyPends(p)' <=> NobodyPends(p)
          /\ \A v \in Workers : Alone(v, p)' <=> Alone(v, p)
      BY <2>1 DEF NobodyPends, Alone
    <3>3. Before(handler[w].n)' = Before(handler[w].n)
      BY <1>1, <1>2 DEF Passed, Before, Percent
    <3>4. Told(p) = Flagged(p)
      BY <1>2, <2>2 DEF LateOK
    <3> QED BY <1>1, <1>2, <2>2, <2>3, <2>4, <3>1, <3>2, <3>3, <3>4 DEF LateOK
  <2>6. AlertsOK(p)'
    BY <2>1, <2>2, <2>3, <2>5 DEF AlertsOK
  <2>7. ASSUME p = period PROVE StalesOK(p)'
    <3>1. NobodyPends(p)' => NobodyPends(p)
      BY <2>1 DEF NobodyPends
    <3>2. \A v \in Workers :
              /\ Stale(v, p)' => Stale(v, p) /\ (handler'[v].at = "record" => handler[v].at = "record")
              /\ Late(v, p)' => Late(v, p) /\ handler'[v].n = handler[v].n
      BY <1>1, <1>2, <1>3, <2>1 DEF Stale
    <3> QED BY <1>1, <2>7, <3>1, <3>2, StalesStand DEF OrderOK
  <2> QED BY <1>1, <2>6, <2>7 DEF OrderOK
<1> QED BY <1>4, <1>5

\* A threshold is due that the CV passed: no period that has only begun has one.
LEMMA DueIsPassed ==
    ASSUME Inv, NEW w \in Workers, NEW p, LateOK(w, p), handler[w].at \in {"notify", "flag"}
    PROVE  /\ Due(handler[w]) = Passed(handler[w].n) \ Before(handler[w].n)
           /\ Flagged(p) = Before(handler[w].n)
           /\ handler[w].n \in Nat /\ handler[w].n <= limit /\ limit \in Nat \ {0}
           /\ handler[w].n = 0 => Due(handler[w]) = {}
<1>1. handler[w].n \in Nat /\ handler[w].n <= limit /\ limit \in Nat \ {0}
  BY Handlers, LimitAssumption DEF Handler, LateOK, Inv, TablesOK
<1>2. handler[w].seen = Flagged(p) /\ Flagged(p) = Before(handler[w].n)
  BY DEF LateOK
<1>3. Due(handler[w]) = Passed(handler[w].n) \ Before(handler[w].n)
  BY <1>2 DEF Due, Passed
<1>4. handler[w].n = 0 => Passed(handler[w].n) = {}
  BY <1>1, NextPassed
<1> QED BY <1>1, <1>2, <1>3, <1>4

\* The highest threshold that is due is announced: those before it are lower.
LEMMA OrderNotifies ==
    ASSUME Inv, LimitInv, SoloInv, AlertInv, NEW w \in Workers, NEW q \in Periods, Notifies(w, q),
           NEW p \in Periods, Tidy(p)'
    PROVE  OrderOK(p)'
<1> DEFINE h == handler[w]
<1>1. /\ OrderOK(p)
      /\ \A v \in Workers \ {w} : handler'[v] = handler[v]
      /\ UNCHANGED <<limit, period, usage, tracker>>
      /\ alerts \in [Periods -> Seq(Thresholds)]
  BY DEF AlertInv, Tidy, Notifies, Aside, Inv, TablesOK
<1>2. /\ h.at = "notify" /\ h.p = q /\ Due(h) # {}
      /\ handler'[w].at = "flag" /\ handler'[w].p = q
      /\ handler'[w].n = h.n /\ handler'[w].seen = h.seen
      /\ alerts' = [alerts EXCEPT ![q] = Append(@, Highest(Due(h)))]
  BY DEF Notifies
<1>3. ~Pends(w, p) /\ ~Pends(w, p)' /\ ~Stale(w, p)'
  BY <1>2 DEF Pends, Stale
<1>4. CASE p # q
  <2>1. ~Late(w, p) /\ ~Late(w, p)' /\ alerts'[p] = alerts[p]
    BY <1>1, <1>2, <1>4 DEF Late
  <2> QED BY <1>1, <1>3, <2>1, OrderElsewhere
<1>5. CASE p = q
  <2>1. /\ Late(w, p) /\ Late(w, p)' /\ AlertsOK(p)
        /\ \A v \in Workers : Late(v, p)' => Late(v, p)
        /\ \A v \in Workers : Pends(v, p)' <=> Pends(v, p)
    BY <1>1, <1>2, <1>3, <1>5 DEF Pends, Late, OrderOK
  <2>2. LateOK(w, p) /\ \A v \in Workers : Late(v, p) => v = w
    BY <2>1 DEF AlertsOK
  <2>3. /\ Due(h) = Passed(h.n) \ Before(h.n) /\ Flagged(p) = Before(h.n)
        /\ h.n \in Nat /\ h.n <= limit /\ limit \in Nat \ {0} /\ h.n # 0
    BY <1>2, <2>2, DueIsPassed
  <2>4. Due(h) \in SUBSET Thresholds /\ Highest(Due(h)) \in Thresholds
    BY <1>2, HighestIsMember DEF Due
  <2>5. Told(p) = Before(h.n) /\ Told(p)' = Before(h.n) \cup {Highest(Due(h))}
    <3>1. Told(p) = Before(h.n)
      BY <1>2, <2>2, <2>3 DEF LateOK
    <3> QED BY <1>2, <1>5, <2>4, <3>1, OneMoreTold
  <2>6. Rising(p)'
    <3>1. \A i \in 1..Len(alerts[p]) : alerts[p][i] < Highest(Due(h))
      <4>1. \A t \in Before(h.n) : t < Highest(Due(h))
        BY <1>2, <2>3, AlertSettles
      <4>2. alerts[p] \in Seq(Thresholds) /\ \A i \in 1..Len(alerts[p]) : alerts[p][i] \in Told(p)
        BY <1>1 DEF Told
      <4> QED BY <2>5, <4>1, <4>2
    <3>2. alerts[p] \in Seq(Thresholds) /\ alerts'[p] = Append(alerts[p], Highest(Due(h)))
      BY <1>1, <1>2, <1>5
    <3>3. /\ Len(alerts'[p]) = Len(alerts[p]) + 1 /\ Len(alerts[p]) \in Nat
          /\ alerts'[p][Len(alerts[p]) + 1] = Highest(Due(h))
          /\ \A i \in 1..Len(alerts[p]) : alerts'[p][i] = alerts[p][i]
      BY <2>4, <3>2
    <3>4. Rising(p)
      BY <2>1 DEF AlertsOK
    <3>5. ASSUME NEW i \in 1..Len(alerts[p]) PROVE alerts'[p][i] < alerts'[p][i + 1]
      <4>1. CASE i = Len(alerts[p])
        BY <3>1, <3>3, <3>5, <4>1
      <4>2. CASE i # Len(alerts[p])
        <5>1. i \in 1..Len(alerts[p]) - 1 /\ i + 1 \in 1..Len(alerts[p])
          BY <3>3, <3>5, <4>2
        <5> QED BY <3>3, <3>4, <3>5, <5>1 DEF Rising
      <4> QED BY <4>1, <4>2
    <3>6. Len(alerts'[p]) - 1 = Len(alerts[p])
      BY <3>3
    <3> QED BY <3>5, <3>6 DEF Rising
  <2>7. LateOK(w, p)'
    <3>1. /\ NobodyPends(p)' <=> NobodyPends(p)
          /\ \A v \in Workers : Alone(v, p)' <=> Alone(v, p)
      BY <2>1 DEF NobodyPends, Alone
    <3>2. Before(handler[w].n)' = Before(h.n) /\ Flagged(p)' = Flagged(p)
      BY <1>1, <1>2 DEF Passed, Before, Percent, Flagged
    <3>3. Highest(Due(handler[w]))' = Highest(Due(h))
      BY <1>1, <1>2 DEF Highest, Due, Percent
    <3> QED BY <1>1, <1>2, <2>2, <2>3, <2>5, <3>1, <3>2, <3>3 DEF LateOK
  <2>8. AlertsOK(p)'
    BY <2>1, <2>2, <2>6, <2>7 DEF AlertsOK
  <2>9. ASSUME p = period PROVE StalesOK(p)'
    <3> SUFFICES ASSUME NEW v \in Workers, Stale(v, p)' PROVE FALSE
      BY DEF StalesOK
    <3>1. Stale(v, p)
      BY <1>1, <1>3 DEF Stale
    <3>2. h.n = 0
      BY <1>1, <2>1, <2>9, <3>1 DEF OrderOK, StalesOK, StaleOK
    <3> QED BY <2>3, <3>2
  <2> QED BY <1>1, <2>8, <2>9 DEF OrderOK
<1> QED BY <1>4, <1>5

\* A check ends: what was due has been announced and is flagged.
LEMMA OrderFinishes ==
    ASSUME Inv, LimitInv, SoloInv, AlertInv, NEW w \in Workers, NEW q \in Periods, Finishes(w, q),
           NEW p \in Periods, Tidy(p)'
    PROVE  OrderOK(p)'
<1> DEFINE h == handler[w]
           sent == IF h.at = "flag" THEN {Highest(Due(h))} ELSE {}
<1>1. /\ OrderOK(p) /\ p \notin crowded
      /\ \A v \in Workers \ {w} : handler'[v] = handler[v]
      /\ UNCHANGED <<limit, period, usage, alerts>>
      /\ usage \in [Periods -> Nat] /\ tracker \in [Periods -> (SUBSET Thresholds) \cup {None}]
  BY DEF AlertInv, Tidy, Finishes, Aside, Inv, TablesOK
<1>2. /\ h.at \in {"notify", "flag"} /\ h.p = q /\ handler'[w].at \in {"idle", "read"}
      /\ h.at = "notify" => Due(h) = {} /\ tracker' = tracker
      /\ h.at = "flag" => /\ Due(h) # {} /\ tracker[q] # None
                          /\ tracker' = [tracker EXCEPT ![q] = @ \cup {Highest(Due(h))}]
  BY Handlers DEF Finishes, HandlerOK
<1>3. ~Pends(w, p) /\ ~Pends(w, p)' /\ ~Late(w, p)' /\ ~Stale(w, p)'
  BY <1>2 DEF Pends, Late, Stale
<1>4. CASE p # q
  <2>1. ~Late(w, p) /\ tracker'[p] = tracker[p]
    BY <1>1, <1>2, <1>4 DEF Late
  <2> QED BY <1>1, <1>3, <2>1, OrderElsewhere
<1>5. CASE p = q
  <2>1. /\ Late(w, p) /\ AlertsOK(p)
        /\ \A v \in Workers : Late(v, p)' => Late(v, p)
        /\ \A v \in Workers : Pends(v, p)' <=> Pends(v, p)
    BY <1>1, <1>2, <1>3, <1>5 DEF Pends, Late, OrderOK
  <2>2. LateOK(w, p) /\ \A v \in Workers : ~Late(v, p)'
    BY <1>3, <2>1 DEF AlertsOK
  <2>3. /\ Due(h) = Passed(h.n) \ Before(h.n) /\ Flagged(p) = Before(h.n)
        /\ h.n \in Nat /\ h.n <= limit /\ limit \in Nat \ {0}
    BY <1>2, <2>2, DueIsPassed
  <2>4. Told(p)' = Told(p) /\ Told(p) = Before(h.n) \cup sent /\ (Rising(p)' <=> Rising(p))
    BY <1>1, <2>2, <2>3 DEF Told, Rising, LateOK
  <2>5. Flagged(p)' = Before(h.n) \cup sent
    <3>1. CASE h.at = "notify"
      BY <1>2, <2>3, <3>1 DEF Flagged
    <3>2. CASE h.at = "flag"
      <4>1. tracker[p] # None /\ tracker'[p] = tracker[p] \cup {Highest(Due(h))}
        BY <1>1, <1>2, <1>5, <3>2
      <4>2. tracker'[p] # None
        <5>1. Highest(Due(h)) \in tracker'[p] /\ tracker'[p] \in SUBSET Thresholds
          <6>1. Highest(Due(h)) \in Thresholds
            BY <1>2, <3>2, HighestIsMember DEF Due
          <6> QED BY <1>1, <4>1, <6>1
        <5> QED BY <5>1, NoneIsNoName
      <4> QED BY <2>3, <3>2, <4>1, <4>2 DEF Flagged
    <3> QED BY <1>2, <3>1, <3>2
  <2>6. Settled(Told(p), h.n) /\ (h.n < limit => Told(p) = Passed(h.n))
    <3>1. CASE h.at = "notify"
      <4>1. Told(p) = Passed(h.n)
        BY <1>2, <2>3, <2>4, <3>1, AlertSettles
      <4> QED BY <4>1 DEF Settled
    <3>2. CASE h.at = "flag"
      <4>1. /\ h.n < limit => Before(h.n) \cup {Highest(Due(h))} = Passed(h.n)
            /\ Settled(Before(h.n) \cup {Highest(Due(h))}, h.n)
        BY <1>2, <2>3, <3>2, AlertSettles
      <4>2. Told(p) = Before(h.n) \cup {Highest(Due(h))}
        BY <2>4, <3>2
      <4> QED BY <4>1, <4>2
    <3> QED BY <1>2, <3>1, <3>2
  <2>7. /\ NobodyPends(p)' <=> NobodyPends(p)
        /\ \A v \in Workers : Alone(v, p)' <=> Alone(v, p)
    BY <2>1 DEF NobodyPends, Alone
  <2>8. NobodyPends(p)' => Settled(Told(p), usage[p])'
    <3> SUFFICES ASSUME NobodyPends(p) PROVE Settled(Told(p), usage[p])'
      BY <2>7
    <3>1. usage[p] = h.n
      BY <2>2 DEF LateOK
    <3> QED BY <1>1, <2>4, <2>6, <3>1 DEF Settled, Passed, Percent
  <2>9. ASSUME NEW v \in Workers, Alone(v, p)' PROVE Told(p)' = Before(usage[p])'
    <3>1. usage[p] = h.n + 1 \/ (usage[p] = 0 /\ h.n = 0)
      BY <2>2, <2>7, <2>9 DEF LateOK
    <3>2. usage[p] <= limit
      BY <1>1 DEF LimitInv
    <3>3. h.n < limit
      BY <2>3, <3>1, <3>2
    <3>4. Told(p) = Passed(h.n)
      BY <2>6, <3>3
    <3>5. CASE usage[p] = h.n + 1
      <4>1. usage[p] # 0 /\ usage[p] - 1 = h.n
        BY <2>3, <3>5
      <4> QED BY <1>1, <2>4, <3>4, <4>1 DEF Before, Passed, Percent
    <3>6. CASE usage[p] = 0 /\ h.n = 0
      <4>1. Passed(h.n) = {}
        BY <2>3, <3>6, NextPassed
      <4> QED BY <1>1, <2>4, <3>4, <3>6, <4>1 DEF Before
    <3> QED BY <3>1, <3>5, <3>6
  <2>10. QuietOK(p)'
    BY <2>4, <2>5, <2>8, <2>9 DEF QuietOK
  <2>11. AlertsOK(p)'
    BY <2>1, <2>2, <2>4, <2>10 DEF AlertsOK
  <2>12. ASSUME p = period PROVE StalesOK(p)'
    <3>1. NobodyPends(p)' => NobodyPends(p)
      BY <2>7
    <3>2. \A v \in Workers :
              Stale(v, p)' => Stale(v, p) /\ (handler'[v].at = "record" => handler[v].at = "record")
      BY <1>1, <1>3 DEF Stale
    <3> QED BY <1>1, <2>2, <2>12, <3>1, <3>2, StalesStand DEF OrderOK
  <2> QED BY <1>1, <2>11, <2>12 DEF OrderOK
<1> QED BY <1>4, <1>5

\* A check that fails leaves its period, and the one that is current, to what it may be.
LEMMA OrderBreaks ==
    ASSUME Inv, SoloInv, AlertInv, NEW w \in Workers, Breaks(w), NEW p \in Periods, Tidy(p)'
    PROVE  OrderOK(p)'
<1>1. /\ OrderOK(p) /\ p # period
      /\ handler[w].at \in Checking \cup {"record"} => handler[w].p # p
      /\ \A v \in Workers \ {w} : handler'[v] = handler[v]
      /\ UNCHANGED <<limit, period, usage, tracker, alerts>> /\ handler'[w].at = "idle"
  BY DEF AlertInv, Tidy, Breaks, Aside
<1>2. ~Pends(w, p) /\ ~Pends(w, p)' /\ ~Late(w, p) /\ ~Late(w, p)'
  BY <1>1 DEF Pends, Late, Checking
<1> QED BY <1>1, <1>2, OrderElsewhere

-----------------------------------------------------------------------------
(* What the other steps leave of it *)

\* A step that neither counts nor checks, nor begins to.
LEMMA OrderAside ==
    ASSUME AlertInv,
           \A v \in Workers : handler'[v] = handler[v] \/
              (/\ handler[v].at \notin Checking \cup {"record"}
               /\ handler'[v].at \notin Checking /\ (handler'[v].at = "record" => handler'[v].p = period)),
           UNCHANGED billing, crowded \subseteq crowded', jostled \subseteq jostled',
           broken \subseteq broken'
    PROVE  AlertInv'
<1> SUFFICES ASSUME NEW p \in Periods, Tidy(p)' PROVE OrderOK(p)'
  BY DEF AlertInv
<1>1. OrderOK(p) /\ p \in Nat
  BY DEF AlertInv, Tidy, Periods
<1>2. UNCHANGED <<limit, period, usage, tracker, alerts>>
  BY DEF billing
<1>3. ASSUME NEW v \in Workers
      PROVE  /\ Pends(v, p)' <=> Pends(v, p)
             /\ Late(v, p)' <=> Late(v, p)
             /\ Late(v, p) => handler'[v] = handler[v]
             /\ p = period => (Stale(v, p)' => Stale(v, p) /\ handler'[v] = handler[v])
  <2>1. CASE handler'[v] = handler[v]
    BY <1>2, <2>1 DEF Pends, Late, Stale
  <2>2. CASE /\ handler[v].at \notin Checking \cup {"record"}
             /\ handler'[v].at \notin Checking /\ (handler'[v].at = "record" => handler'[v].p = period)
    BY <1>1, <2>2 DEF Pends, Late, Stale, Checking
  <2> QED BY <2>1, <2>2
<1>4. AlertsOK(p)'
  BY <1>1, <1>2, <1>3, AlertsStand DEF OrderOK
<1>5. NobodyPends(p)' <=> NobodyPends(p)
  BY <1>3 DEF NobodyPends
<1>6. p = period => StalesOK(p)'
  BY <1>1, <1>2, <1>3, <1>5, StalesStand DEF OrderOK
<1> QED BY <1>2, <1>4, <1>6 DEF OrderOK

\* A period that begins has no count and no alert.
LEMMA OrderRenews ==
    ASSUME Inv, LimitInv, SoloInv, AlertInv, Renew, NEW p \in Periods, Tidy(p)'
    PROVE  OrderOK(p)'
<1>1. /\ period' = period + 1 /\ period \in Nat /\ p \in Nat
      /\ UNCHANGED <<limit, usage, tracker, alerts, handler, jostled, broken>>
      /\ crowded \subseteq crowded'
  BY DEF Renew, Inv, TablesOK, Periods
<1>2. OrderOK(p)
  BY <1>1 DEF AlertInv, Tidy
<1>3. \A v \in Workers : /\ Pends(v, p)' <=> Pends(v, p)
                         /\ Late(v, p)' <=> Late(v, p)
  BY <1>1 DEF Pends, Late
<1>4. AlertsOK(p)'
  BY <1>1, <1>2, <1>3, AlertsStand DEF OrderOK
<1>5. ASSUME p = period' PROVE StalesOK(p)'
  <2>1. p > period
    BY <1>1, <1>5
  <2>2. usage[p] = 0 /\ alerts[p] = <<>>
    BY <2>1 DEF LimitInv, SoloInv
  <2>3. \A v \in Workers : ~Late(v, p)
    <3> SUFFICES ASSUME NEW v \in Workers, Late(v, p) PROVE FALSE
      OBVIOUS
    <3>1. p <= period
      BY DEF Late, SoloInv, Checking
    <3> QED BY <1>1, <2>1, <3>1
  <2>4. Told(p)' = {}
    BY <1>1, <2>2 DEF Told
  <2> QED BY <1>1, <1>3, <2>2, <2>3, <2>4 DEF StalesOK, StaleOK
<1> QED BY <1>4, <1>5 DEF OrderOK

\* No step but the reading of a usage finds that checks overlap.
LEMMA JostledStays ==
    ASSUME NEW w \in Workers,
           \/ Requests(w) \/ RecordsStep(w) \/ RescoreStep(w) \/ ScoreStep(w) \/ MailStep(w)
           \/ RescoringStops(w) \/ TimeOut(w)
    PROVE  jostled' = jostled
<1> USE DEF history
<1>1. Requests(w) => jostled' = jostled
  BY Zenon DEF Requests, CreateRequests, UpdateRequests, AssignRequests, JobRequests,
     RescoreRequests,
         MailRequests, Tasks, CreateCandidate, UpdateCandidate, BulkAssignJob, UpdateJob,
         RescoreForJob, SendEmail, BulkSendEmails, TakeTask
<1>2. RecordsStep(w) => jostled' = jostled
  BY DEF RecordsStep, FindOwn, CreateOwn, Lookup, SaveCandidate, Assign
<1>3. RescoreStep(w) \/ RescoringStops(w) => jostled' = jostled
  BY DEF RescoreStep, ChangeJob, ListAssigned, Enqueue, EnqueueOne, RescoringStops
<1>4. ScoreStep(w) \/ TimeOut(w) => jostled' = jostled
  BY DEF ScoreStep, ReadCandidate, ReadJob, AskAi, SaveRow, CreateRow, SaveOverall, TimeOut
<1>5. MailStep(w) => jostled' = jostled
  BY DEF MailStep, Send, LogMail, ChargeMail, LogAction
<1> QED BY <1>1, <1>2, <1>3, <1>4, <1>5

LEMMA OrderKept == Inv /\ LimitInv /\ SoloInv /\ AlertInv /\ [Next]_vars => AlertInv'
<1> SUFFICES ASSUME Inv, LimitInv, SoloInv, AlertInv, [Next]_vars PROVE AlertInv'
  OBVIOUS
<1>1. handler \in [Workers -> Handler]
  BY DEF Inv
<1>2. ASSUME NEW w \in Workers,
             \/ Requests(w) \/ RecordsStep(w) \/ RescoreStep(w) \/ ScoreStep(w) \/ MailStep(w)
             \/ RescoringStops(w) \/ TimeOut(w)
      PROVE  AlertInv'
  <2>1. /\ \A v \in Workers \ {w} : handler'[v] = handler[v]
        /\ handler[w].at \notin Counting \cup Checking
        /\ handler'[w].at \notin Counting \cup Checking
        /\ UNCHANGED <<billing, crowded, broken>>
    BY <1>2, AsideSteps
  <2>2. jostled' = jostled
    BY <1>2, JostledStays
  <2>3. handler[w].at # "record" /\ handler'[w].at # "record"
    BY <2>1 DEF Counting
  <2> QED BY <2>1, <2>2, <2>3, OrderAside
<1>3. ASSUME NEW w \in Workers, UploadStep(w) PROVE AlertInv'
  <2>1. /\ \A v \in Workers \ {w} : handler'[v] = handler[v]
        /\ handler[w].at \in {"hint", "parse", "find", "create"}
        /\ handler'[w].at \in {"parse", "find", "create", "track", "idle"}
        /\ UNCHANGED <<billing, crowded, broken>>
    BY <1>3, UploadMoves
  <2>2. jostled' = jostled
    BY <1>3 DEF UploadStep, Hint, Parse, FindUploaded, CreateUploaded, history
  <2>3. /\ handler[w].at \notin Checking \cup {"record"}
        /\ handler'[w].at \notin Checking \cup {"record"}
    BY <2>1 DEF Checking
  <2> QED BY <2>1, <2>2, <2>3, OrderAside
<1>4. ASSUME NEW w \in Workers, Track(w) PROVE AlertInv'
  <2>1. /\ \A v \in Workers \ {w} : handler'[v] = handler[v]
        /\ handler[w].at = "track" /\ handler'[w].at = "record" /\ handler'[w].p = period
        /\ UNCHANGED <<billing, crowded, jostled, broken>>
    BY <1>1, <1>4 DEF Track, Handler, history
  <2>2. handler[w].at \notin Checking \cup {"record"} /\ handler'[w].at \notin Checking
    BY <2>1 DEF Checking
  <2> QED BY <2>1, <2>2, OrderAside
<1>5. ASSUME NEW w \in Workers, CountStep(w) \/ CountingFails(w), ~Track(w) PROVE AlertInv'
  BY <1>5, CheckKinds, OrderRecords, OrderChecks, OrderSums, OrderFinds, OrderNotifies,
     OrderFinishes, OrderBreaks DEF AlertInv
<1>6. ASSUME UploadRequests PROVE AlertInv'
  <2>1. PICK W \in SUBSET Workers, j \in Jobs \cup {None} : Admit(W, j)
    BY <1>6 DEF UploadRequests, Upload
  <2> DEFINE g == [Idle EXCEPT !.at = "hint", !.j = j]
  <2>2. /\ \A v \in Workers : handler'[v] = IF v \in W THEN g ELSE handler[v]
        /\ \A v \in W : handler[v].at = "idle"
        /\ UNCHANGED <<billing, jostled, broken>> /\ crowded \subseteq crowded'
    BY <2>1, IdleIsOK DEF Admit, billing
  <2>3. g.at = "hint"
    BY DEF Idle
  <2> HIDE DEF g
  <2>4. \A v \in Workers : handler'[v] = handler[v] \/
           (/\ handler[v].at \notin Checking \cup {"record"}
            /\ handler'[v].at \notin Checking \cup {"record"})
    BY <2>2, <2>3 DEF Checking
  <2> QED BY <2>2, <2>4, OrderAside
<1>7. Renew => AlertInv'
  BY OrderRenews DEF AlertInv
<1>8. UNCHANGED <<handler, billing, crowded, jostled, broken>> => AlertInv'
  BY OrderAside
<1>9. DeleteEvents \/ StatusEvents \/ UNCHANGED vars => AlertInv'
  BY <1>8 DEF DeleteEvents, StatusEvents, Remove, BulkDelete, SetStatus, vars, history
<1> QED BY <1>2, <1>3, <1>4, <1>5, <1>6, <1>7, <1>9 DEF Next, Continue, CountStep, Faults

\* Before the first step every period but the first is to come, and no upload is under
\* way: what was announced in the first are the thresholds its usage has passed.
LEMMA OrderBegins == Init => SoloInv /\ AlertInv
<1> SUFFICES ASSUME Init PROVE SoloInv /\ AlertInv
  OBVIOUS
<1>1. \A w \in Workers : handler[w].at = "idle"
  BY IdleIsOK DEF Init
<1>2. limit \in Nat \ {0} /\ period = 1 /\ \A p \in Periods : p \in Nat \ {0}
  BY LimitAssumption DEF Init, Periods
<1>3. PICK soFar \in {<<>>, <<80>>, <<80, 90>>, <<80, 90, 100>>} :
         alerts = [p \in Periods |-> IF p > 1 THEN <<>> ELSE soFar]
  BY DEF Init
<1>4. usage \in [Periods -> Nat] /\ \A p \in Periods \ {1} : usage[p] = 0
  BY <1>2 DEF Init
<1>5. tracker = [p \in Periods |-> IF usage[p] = 0 THEN None ELSE PassedSoFar]
  BY DEF Init
<1>6. SoloInv
  <2>1. \A p \in Periods : p > period => p \in Periods \ {1} /\ p > 1
    BY <1>2
  <2>2. \A w \in Workers : handler[w].at \notin Counting \cup Checking \cup {"record"}
    BY <1>1 DEF Counting, Checking
  <2>3. \A p \in Periods : p > period => alerts[p] = <<>> /\ tracker[p] = None
    BY <1>3, <1>4, <1>5, <2>1
  <2> QED BY <2>2, <2>3 DEF SoloInv
<1>7. ASSUME NEW p \in Periods PROVE OrderOK(p)
  <2>1. \A w \in Workers : ~Pends(w, p) /\ ~Late(w, p) /\ ~Alone(w, p) /\ ~Stale(w, p)
    BY <1>1 DEF Pends, Late, Alone, Stale
  <2>2. Rising(p)
    <3>1. alerts[p] \in {<<>>, <<80>>, <<80, 90>>, <<80, 90, 100>>}
      BY <1>3
    <3>2. \A i \in 1..Len(alerts[p]) - 1 : alerts[p][i] < alerts[p][i + 1]
      <4>1. CASE alerts[p] = <<>>
        BY <4>1
      <4>2. CASE alerts[p] = <<80>>
        BY <4>2
      <4>3. CASE alerts[p] = <<80, 90>>
        <5>1. Len(alerts[p]) = 2 /\ alerts[p][1] = 80 /\ alerts[p][2] = 90
          BY <4>3
        <5>2. \A i \in 1..Len(alerts[p]) - 1 : i = 1 /\ i + 1 = 2
          BY <5>1
        <5> QED BY <5>1, <5>2
      <4>4. CASE alerts[p] = <<80, 90, 100>>
        <5>1. /\ Len(alerts[p]) - 1 = 2
              /\ alerts[p][1] = 80 /\ alerts[p][2] = 90 /\ alerts[p][3] = 100
          BY <4>4
        <5> QED BY <5>1
      <4> QED BY <3>1, <4>1, <4>2, <4>3, <4>4
    <3> QED BY <3>2 DEF Rising
  <2>3. Told(p) = Flagged(p) /\ Told(p) = Passed(usage[p])
    <3>1. Passed(0) = {}
      BY <1>2, NextPassed
    <3>2. CASE p = 1
      <4>1. Told(p) = Passed(usage[p]) /\ PassedSoFar = Passed(usage[p])
        BY <3>2 DEF Init, PassedSoFar, Passed
      <4>2. CASE usage[p] = 0
        BY <1>5, <3>1, <4>1, <4>2 DEF Flagged
      <4>3. CASE usage[p] # 0
        <5>1. tracker[p] = PassedSoFar /\ PassedSoFar # None
          <6>1. PassedSoFar \in SUBSET Thresholds
            BY DEF PassedSoFar
          <6> QED BY <1>5, <4>3, <6>1, NoneIsNoName
        <5> QED BY <4>1, <5>1 DEF Flagged
      <4> QED BY <4>2, <4>3
    <3>3. CASE p # 1
      <4>1. p > 1 /\ usage[p] = 0
        BY <1>2, <1>4, <3>3
      <4>2. alerts[p] = <<>> /\ tracker[p] = None
        BY <1>3, <1>5, <4>1
      <4> QED BY <3>1, <4>1, <4>2 DEF Told, Flagged
    <3> QED BY <3>2, <3>3
  <2> QED BY <2>1, <2>2, <2>3 DEF OrderOK, AlertsOK, QuietOK, StalesOK, Settled
<1> QED BY <1>6, <1>7 DEF AlertInv

\* In every period in which uploads and their checks did not overlap and none failed, the
\* alerts are sent in the order of their thresholds, each once.
THEOREM AlertsAreInOrder == Spec => []AlertsRise
<1>1. AlertInv => AlertsRise
  BY DEF AlertInv, Tidy, OrderOK, AlertsOK, Rising, AlertsRise
<1> QED BY <1>1, LimitBegins, LimitKept, SoloKept, OrderBegins, OrderKept, RecruitingInvariant,
        PTL DEF Spec
=============================================================================
