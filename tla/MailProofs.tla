----------------------------- MODULE MailProofs -----------------------------
(***************************************************************************)
(* What holds of the intake of mail for any number of mailboxes, messages  *)
(* and activities in flight: each invariant of MailService with the        *)
(* inductive invariant it needs.                                           *)
(***************************************************************************)
EXTENDS MailService, FiniteSetTheorems, WellFoundedInduction, TLAPS

-----------------------------------------------------------------------------
(* Types *)

Statements == {"idle", "token", "refreshGmail", "refreshOutlook", "saveGmail", "saveOutlook",
               "deactivateGmail", "deactivateOutlook", "findConnection", "connect", "reconnect",
               "watch", "callWatch", "saveWatch", "subscribe", "callSubscribe",
               "saveSubscription", "renew", "callRenew", "saveRenewal", "stop", "clear",
               "unsubscribe", "clearSubscription", "revoke", "delete"} \cup PollStatements

Continuations == {"list", "callWatch", "callSubscribe", "callRenew", "stop", "unsubscribe"}
Deactivating == {"deactivateGmail", "deactivateOutlook"}

\* Of a poll: what comes before its list, and what comes after.
Before == {"token", "list"} \cup Refreshing \cup Deactivating
Listed == {"get", "each", "cursor"} \cup Importing

\* What a handler has by the time its next statement needs it: a poll has a mailbox and
\* in hand only what that mailbox holds.
HandlerOK(j) ==
    /\ j.at = "idle" => j.then = None
    /\ j.at # "idle" => j.c \in Connections /\ j.ref \in 0..issued[j.c]
    /\ j.at \in Connecting => j.ref # 0
    /\ j.at = "token" => j.then # None
    /\ j.at \in PollStatements => j.then = "list"
    /\ j.then = "list" =>
          /\ j.at \in Before \cup {"fallback"} \cup Listed
          /\ j.box \in Connections /\ j.provider \in {"GMAIL", "OUTLOOK"}
          /\ j.at \in Before \cup {"fallback"} => j.box = j.c
          /\ j.ids \cup j.got \subseteq Holds(j.box)
          /\ j.at # "get" => j.ids = {}
          /\ j.at \notin {"get", "each"} \cup Importing => j.got = {}
          /\ j.at \in Importing => j.m \in Holds(j.box)
    /\ j.at = "fallback" => j.provider = "GMAIL" /\ client # None

Message == [kind : Kinds, sender : Senders]
Copy == [at : Times, last : Times, read : BOOLEAN]
Candidate == [id : Nat, company : Companies, who : Senders \cup {None}, link : Keys \cup {None}]

ConnectionsOK ==
    /\ conn \in [Connections -> Connection \cup {NoConnection}]
    /\ issued \in [Connections -> 0..MaxGrants]
    /\ grants \in [Connections -> SUBSET (1..MaxGrants)]
    /\ \A c \in Connections : grants[c] \subseteq 1..issued[c]
    /\ \A c \in Connections : Connected(c) => conn[c].grant \in 1..issued[c]

ImportsOK ==
    /\ imports \in [Keys -> Import \cup {NoImport}]
    /\ candidates \subseteq Candidate /\ born \in 0..MaxCandidates
    /\ \A x \in candidates : x.link # None => HasImport(x.link)

MailboxesOK ==
    /\ clock \in Times
    /\ box \in [Connections -> [Mails -> Copy]]
    /\ mail \in [Mails -> Message \cup {NotSent}]
    /\ \A c \in Connections, m \in Mails :
          /\ box[c][m].at <= box[c][m].last /\ box[c][m].last <= clock
          /\ box[c][m].at # 0 => mail[m] # NotSent

OthersOK ==
    /\ client \in Connections \cup {None}
    /\ pushing \subseteq Connections /\ pushes \subseteq Connections

TablesOK == ConnectionsOK /\ ImportsOK /\ MailboxesOK /\ OthersOK
HandlersOK == job \in [Workers -> Job] /\ \A w \in Workers : HandlerOK(job[w])
TypeInv == TablesOK /\ HandlersOK

LEMMA TypeInvMeansTypeOK == TypeInv => MailTypeOK
BY DEF TypeInv, TablesOK, HandlersOK, ConnectionsOK, ImportsOK, MailboxesOK, OthersOK, MailTypeOK

\* Rows that are there are told from those that are not.
LEMMA RowsAreRows ==
    /\ NoConnection \notin Connection /\ NoImport \notin Import /\ NotSent \notin Message
<1>1. \A r \in Connection : "grant" \in DOMAIN r
  BY DEF Connection
<1>2. \A r \in Import : "from" \in DOMAIN r
  BY DEF Import
<1>3. \A r \in Message : "sender" \in DOMAIN r
  BY DEF Message
<1>4. "grant" \notin DOMAIN NoConnection /\ "from" \notin DOMAIN NoImport
      /\ "sender" \notin DOMAIN NotSent
  BY DEF NoConnection, NoImport, NotSent
<1> QED BY <1>1, <1>2, <1>3, <1>4

-----------------------------------------------------------------------------
(* The job of a worker *)

\* Only worker w moves.
Moves(w) == job' \in [Workers -> Job] /\ \A v \in Workers \ {w} : job'[v] = job[v]

\* All but the next statement stays.
Carries(w) ==
    /\ job'[w].c = job[w].c /\ job'[w].then = job[w].then /\ job'[w].ref = job[w].ref
    /\ job'[w].provider = job[w].provider /\ job'[w].auto = job[w].auto
    /\ job'[w].cursor = job[w].cursor /\ job'[w].box = job[w].box
    /\ job'[w].relist = job[w].relist /\ job'[w].ids = job[w].ids /\ job'[w].got = job[w].got
    /\ job'[w].to = job[w].to /\ job'[w].moved = job[w].moved /\ job'[w].m = job[w].m
    /\ job'[w].re = job[w].re /\ job'[w].cv = job[w].cv /\ job'[w].who = job[w].who

LEMMA JobFields ==
    ASSUME NEW j \in Job
    PROVE  /\ j.at \in Statements /\ j.c \in Connections \cup {None}
           /\ j.then \in Continuations \cup {None} /\ j.ref \in 0..MaxGrants
           /\ j.provider \in {"GMAIL", "OUTLOOK", None} /\ j.auto \in BOOLEAN
           /\ j.cursor \in Times /\ j.box \in Connections \cup {None} /\ j.relist \in BOOLEAN
           /\ j.ids \subseteq Mails /\ j.got \subseteq Mails /\ j.to \in Times
           /\ j.moved \in BOOLEAN /\ j.m \in Mails \cup {None} /\ j.re \in BOOLEAN
           /\ j.cv \in BOOLEAN /\ j.who \in Senders \cup {None}
BY DEF Job, Statements, Continuations

LEMMA IdleIsAJob == Idle \in Job
BY PageAssumption, MailBoundsAssumption DEF Idle, Job, Times

LEMMA JobStep ==
    ASSUME job \in [Workers -> Job], NEW w \in Workers, NEW J \in Job,
           job' = [job EXCEPT ![w] = J]
    PROVE  Moves(w) /\ job'[w] = J
BY DEF Moves

LEMMA EndStep ==
    ASSUME job \in [Workers -> Job], NEW w \in Workers, End(w)
    PROVE  Moves(w) /\ job'[w] = Idle
BY IdleIsAJob, JobStep DEF End

LEMMA GotoStep ==
    ASSUME job \in [Workers -> Job], NEW w \in Workers, NEW s \in Statements, Goto(w, s)
    PROVE  Moves(w) /\ job'[w].at = s /\ Carries(w)
<1>1. PICK J : J = [job[w] EXCEPT !.at = s]
  OBVIOUS
<1>2. J \in Job
  BY <1>1 DEF Job, Statements
<1>3. job' = [job EXCEPT ![w] = J]
  BY <1>1 DEF Goto
<1>4. Moves(w) /\ job'[w] = J
  BY <1>2, <1>3, JobStep
<1> QED BY <1>1, <1>4 DEF Carries, Job

LEMMA ActivityFields ==
    ASSUME NEW c \in Connections, NEW s \in Statements, NEW t \in Continuations \cup {None}
    PROVE  /\ Activity(c, s, t) \in Job
           /\ Activity(c, s, t).at = s /\ Activity(c, s, t).c = c /\ Activity(c, s, t).then = t
           /\ Activity(c, s, t).ref = 0
<1>1. PICK J : J = Activity(c, s, t)
  OBVIOUS
<1>2. 0 \in 0..MaxGrants /\ 0 \in Times
  BY MailBoundsAssumption DEF Times
<1>3. J = [at |-> s, c |-> c, then |-> t, ref |-> 0, provider |-> None,
           auto |-> FALSE, cursor |-> 0, box |-> None, relist |-> FALSE,
           ids |-> {}, got |-> {}, to |-> 0, moved |-> FALSE,
           m |-> None, re |-> FALSE, cv |-> FALSE, who |-> None]
  BY <1>1 DEF Activity, Idle
<1>4. J \in Job
  BY <1>2, <1>3 DEF Job, Statements, Continuations
<1>5. J.at = s /\ J.c = c /\ J.then = t /\ J.ref = 0
  BY <1>3
<1> QED BY <1>1, <1>4, <1>5

\* What the handlers of others rest on only grows.
Grows ==
    /\ \A c \in Connections : issued'[c] >= issued[c] /\ Holds(c) \subseteq Holds(c)'
    /\ client # None => client' # None

LEMMA WorkerStep ==
    ASSUME TypeInv, NEW w \in Workers, Moves(w), TablesOK', Grows, HandlerOK(job[w])'
    PROVE  TypeInv'
<1>1. ASSUME NEW v \in Workers PROVE HandlerOK(job[v])'
  <2>1. CASE v = w
    BY <2>1
  <2>2. CASE v # w
    <3>1. job'[v] = job[v] /\ job[v] \in Job /\ HandlerOK(job[v])
      BY <2>2 DEF TypeInv, HandlersOK, Moves
    <3>2. job[v].at # "idle" => issued[job[v].c] \in Nat /\ issued'[job[v].c] \in Nat
      BY <3>1, MailBoundsAssumption DEF HandlerOK, TypeInv, TablesOK, ConnectionsOK
    <3>3. job[v].at # "idle" => job[v].ref \in 0..issued'[job[v].c]
      BY <3>1, <3>2 DEF HandlerOK, Grows
    <3> QED BY <3>1, <3>3 DEF HandlerOK, Grows
  <2> QED BY <2>1, <2>2
<1> QED BY <1>1 DEF TypeInv, HandlersOK, Moves

LEMMA EventStep ==
    ASSUME TypeInv, UNCHANGED job, TablesOK', Grows
    PROVE  TypeInv'
<1>1. ASSUME NEW v \in Workers PROVE HandlerOK(job[v])'
  <2>1. job'[v] = job[v] /\ job[v] \in Job /\ HandlerOK(job[v])
    BY DEF TypeInv, HandlersOK
  <2>2. job[v].at # "idle" => issued[job[v].c] \in Nat /\ issued'[job[v].c] \in Nat
    BY <2>1, MailBoundsAssumption DEF HandlerOK, TypeInv, TablesOK, ConnectionsOK
  <2>3. job[v].at # "idle" => job[v].ref \in 0..issued'[job[v].c]
    BY <2>1, <2>2 DEF HandlerOK, Grows
  <2> QED BY <2>1, <2>3 DEF HandlerOK, Grows
<1> QED BY <1>1 DEF TypeInv, HandlersOK

\* Of the job in hand.
LEMMA HandlerTyped ==
    ASSUME TypeInv, NEW w \in Workers
    PROVE  /\ job \in [Workers -> Job] /\ job[w] \in Job /\ HandlerOK(job[w])
           /\ TablesOK
           /\ job[w].at # "idle" => /\ job[w].c \in Connections /\ job[w].ref \in 0..issued[job[w].c]
                                    /\ issued[job[w].c] \in 0..MaxGrants
BY DEF TypeInv, HandlersOK, HandlerOK, TablesOK, ConnectionsOK

LEMMA NothingGrows ==
    ASSUME TypeInv, UNCHANGED <<issued, box, client>>
    PROVE  Grows
<1>1. \A c \in Connections : issued[c] \in Nat
  BY MailBoundsAssumption DEF TypeInv, TablesOK, ConnectionsOK
<1>2. \A c \in Connections : Holds(c)' = Holds(c)
  BY DEF Holds, Arrived
<1> QED BY <1>1, <1>2 DEF Grows

-----------------------------------------------------------------------------
(* Tokens, connections and subscriptions *)

\* A row that stays keeps its cursor; one that comes starts at the present.
RowsKeep ==
    \A c \in Connections : Connected(c)' =>
        /\ Connected(c) => /\ conn'[c].cursor = conn[c].cursor
                           /\ conn'[c].created = conn[c].created
        /\ ~Connected(c) => conn'[c].cursor = 0 /\ conn'[c].created = Now

SamePoll(w) ==
    /\ job'[w].c = job[w].c /\ job'[w].provider = job[w].provider
    /\ job'[w].cursor = job[w].cursor /\ job'[w].box = job[w].box
    /\ job'[w].relist = job[w].relist /\ job'[w].ids = job[w].ids /\ job'[w].got = job[w].got
    /\ job'[w].to = job[w].to /\ job'[w].moved = job[w].moved

\* A poll goes on towards its list, or somebody is to hear that it ended.
Onward(w) ==
    \/ /\ job[w].then = "list" /\ job'[w].then = "list" /\ SamePoll(w)
       /\ job[w].at \in Before /\ job'[w].at \in Before
    \/ /\ job'[w].then # "list"
       /\ job[w].then = "list" => job[w].c \in unheard'

\* What a statement that reads no mail leaves alone.
Aside(w) ==
    /\ Moves(w) /\ RowsKeep /\ Onward(w)
    /\ UNCHANGED <<clock, mail, box, pushes, settled, dropped, shared, swapped, uncounted>>
    /\ UNCHANGED <<imports, candidates>> \/ \E keys \in SUBSET Keys : Without(keys)
    /\ unheard \subseteq unheard'

LEMMA SameTables ==
    ASSUME TypeInv, UNCHANGED <<rows, client, providers>>
    PROVE  TablesOK' /\ Grows /\ RowsKeep
<1>1. Grows
  BY NothingGrows DEF providers
<1> QED
  BY <1>1 DEF TypeInv, TablesOK, ConnectionsOK, ImportsOK, MailboxesOK, OthersOK, rows, providers,
              RowsKeep, Connected, HasImport

\* When neither mail nor imports change.
LEMMA SameMail ==
    ASSUME TypeInv, UNCHANGED <<imports, candidates, born, client, clock, mail, box>>
    PROVE  ImportsOK' /\ MailboxesOK' /\ client' \in Connections \cup {None}
BY DEF TypeInv, TablesOK, ImportsOK, MailboxesOK, OthersOK, HasImport

\* Nobody's row comes, goes or changes its cursor.
LEMMA SameRows ==
    ASSUME \A c \in Connections : /\ Connected(c)' <=> Connected(c)
                                  /\ Connected(c) => /\ conn'[c].cursor = conn[c].cursor
                                                     /\ conn'[c].created = conn[c].created
    PROVE  RowsKeep
BY DEF RowsKeep

\* A handler that is no poll.
LEMMA PlainHandler ==
    ASSUME NEW w \in Workers, job'[w] \in Job, job'[w].c \in Connections,
           job'[w].ref \in 0..issued'[job'[w].c], job'[w].then # "list",
           job'[w].at \notin PollStatements \cup {"idle"},
           job'[w].at = "token" => job'[w].then # None,
           job'[w].at \in Connecting => job'[w].ref # 0
    PROVE  HandlerOK(job[w])'
BY DEF HandlerOK, PollStatements

LEMMA IdleHandler ==
    ASSUME NEW w \in Workers, job'[w] = Idle
    PROVE  HandlerOK(job[w])' /\ job'[w].then # "list" /\ job'[w].at = "idle"
<1>1. Idle.at = "idle" /\ Idle.then = None
  BY DEF Idle
<1> QED
  BY <1>1, NoneIsNoWord DEF HandlerOK, Connecting, PollStatements, Importing

\* A poll on its way to the list.
LEMMA BeforeHandler ==
    ASSUME TypeInv, NEW w \in Workers, HandlerOK(job[w]), job[w].then = "list", Moves(w),
           job[w].at \in Before, job'[w].at \in Before, job'[w].then = "list", SamePoll(w),
           job'[w].ref \in 0..issued'[job[w].c], UNCHANGED box
    PROVE  HandlerOK(job[w])' /\ Onward(w)
<1>1. job[w].at \notin {"get", "each", "idle", "fallback"} \cup Importing \cup Connecting
  BY DEF Before, Refreshing, Deactivating, Importing, Connecting
<1>2. job'[w].at \notin {"get", "each", "idle", "fallback"} \cup Importing \cup Connecting
  BY DEF Before, Refreshing, Deactivating, Importing, Connecting
<1>3. \A c \in Connections : Holds(c)' = Holds(c)
  BY DEF Holds, Arrived
<1>4. job[w].c \in Connections /\ job[w].ids = {} /\ job[w].got = {} /\ job[w].box \in Connections
      /\ job[w].provider \in {"GMAIL", "OUTLOOK"}
  BY <1>1 DEF HandlerOK
<1>5. HandlerOK(job[w])'
  BY <1>2, <1>4, NoneIsNoWord DEF HandlerOK, SamePoll
<1> QED BY <1>5 DEF Onward

LEMMA AbortStep ==
    ASSUME TypeInv, NEW w \in Workers, job[w].at # "idle", Abort(w), UNCHANGED issued
    PROVE  /\ Moves(w) /\ HandlerOK(job[w])' /\ Onward(w) /\ unheard \subseteq unheard'
           /\ job'[w].at \in {"idle", "clear", "clearSubscription"} /\ job'[w].then # "list"
<1>1. /\ job \in [Workers -> Job] /\ job[w] \in Job /\ job[w].c \in Connections
      /\ job[w].ref \in 0..issued[job[w].c]
  BY HandlerTyped
<1>2. unheard \subseteq unheard' /\ (job[w].then = "list" => job[w].c \in unheard')
  BY DEF Abort, IsPoll
<1>3. CASE job[w].then = "stop"
  <2>1. Goto(w, "clear")
    BY <1>3 DEF Abort
  <2>2. Moves(w) /\ job'[w].at = "clear" /\ Carries(w) /\ job'[w] \in Job
    BY <1>1, <2>1, GotoStep DEF Statements, Moves
  <2> QED
    BY <1>1, <1>2, <1>3, <2>2, PlainHandler DEF Carries, PollStatements, Importing, Connecting,
       Onward
<1>4. CASE job[w].then = "unsubscribe"
  <2>1. Goto(w, "clearSubscription")
    BY <1>4 DEF Abort
  <2>2. Moves(w) /\ job'[w].at = "clearSubscription" /\ Carries(w) /\ job'[w] \in Job
    BY <1>1, <2>1, GotoStep DEF Statements, Moves
  <2> QED
    BY <1>1, <1>2, <1>4, <2>2, PlainHandler DEF Carries, PollStatements, Importing, Connecting,
       Onward
<1>5. CASE job[w].then \notin {"stop", "unsubscribe"}
  <2>1. End(w)
    BY <1>5 DEF Abort
  <2>2. Moves(w) /\ job'[w] = Idle
    BY <1>1, <2>1, EndStep
  <2> QED BY <1>2, <2>2, IdleHandler DEF Onward
<1> QED BY <1>3, <1>4, <1>5

\* The next statement and the refresh token in hand.
LEMMA RefStep ==
    ASSUME job \in [Workers -> Job], NEW w \in Workers, NEW s \in Statements,
           NEW r \in 0..MaxGrants, job' = [job EXCEPT ![w].at = s, ![w].ref = r]
    PROVE  /\ Moves(w) /\ SamePoll(w) /\ job'[w].at = s /\ job'[w].then = job[w].then
           /\ job'[w].ref = r
<1>1. PICK H : H = [job[w] EXCEPT !.at = s]
  OBVIOUS
<1>2. H \in Job
  BY <1>1 DEF Job, Statements
<1>3. PICK J : J = [H EXCEPT !.ref = r]
  OBVIOUS
<1>4. J \in Job
  BY <1>2, <1>3 DEF Job
<1>5. J = [job[w] EXCEPT !.at = s, !.ref = r]
  BY <1>1, <1>3 DEF Job
<1>6. Moves(w) /\ job'[w] = J
  BY <1>4, <1>5, JobStep
<1> QED BY <1>5, <1>6 DEF SamePoll, Job

LEMMA TokenStep ==
    ASSUME TypeInv, NEW w \in Workers, Token(w)
    PROVE  TypeInv' /\ Aside(w)
<1> DEFINE c == job[w].c
<1>1. /\ job \in [Workers -> Job] /\ job[w] \in Job /\ HandlerOK(job[w]) /\ c \in Connections
      /\ job[w].ref \in 0..issued[c] /\ job[w].at = "token"
  BY HandlerTyped DEF Token
<1>2. /\ UNCHANGED <<rows, client, providers>>
      /\ UNCHANGED <<issued, clock, mail, box, pushes, settled, dropped, shared, swapped,
                     uncounted>>
      /\ UNCHANGED <<imports, candidates>>
  BY DEF Token, rows, providers
<1>3. TablesOK' /\ Grows /\ RowsKeep
  BY <1>2, SameTables
<1>4. CASE Abort(w)
  BY <1>1, <1>2, <1>3, <1>4, AbortStep, WorkerStep DEF Aside
<1>5. ASSUME NEW s \in Statements, s = job[w].then \/ s \in {"refreshGmail", "refreshOutlook"},
             Moves(w), job'[w].at = s, SamePoll(w), job'[w].then = job[w].then,
             job'[w].ref \in 0..issued[c], UNCHANGED unheard
      PROVE  TypeInv' /\ Aside(w)
  <2>1. job'[w] \in Job /\ job[w].then # None /\ job[w].then \in Continuations
    BY <1>1, <1>5, JobFields DEF HandlerOK, Moves
  <2>2. CASE job[w].then = "list"
    <3>1. s \in Before
      BY <1>5, <2>2 DEF Before, Refreshing
    <3>2. HandlerOK(job[w])' /\ Onward(w)
      BY <1>1, <1>2, <1>5, <2>2, <3>1, BeforeHandler DEF Before
    <3> QED BY <1>2, <1>3, <1>5, <3>2, WorkerStep DEF Aside
  <2>3. CASE job[w].then # "list"
    <3>1. s \notin PollStatements \cup {"idle", "token"} \cup Connecting
      BY <1>5, <2>1, <2>3 DEF Continuations, PollStatements, Importing, Connecting
    <3>2. HandlerOK(job[w])'
      BY <1>1, <1>2, <1>5, <2>1, <2>3, <3>1, PlainHandler DEF SamePoll
    <3> QED BY <1>2, <1>3, <1>5, <2>3, <3>2, WorkerStep DEF Aside, Onward
  <2> QED BY <2>2, <2>3
<1>6. CASE Connected(c) /\ ~conn[c].stale /\ Goto(w, job[w].then) /\ UNCHANGED unheard
  <2>1. job[w].then \in Statements
    BY <1>1, JobFields DEF HandlerOK, Continuations, Statements, PollStatements
  <2>2. Moves(w) /\ job'[w].at = job[w].then /\ Carries(w)
    BY <1>1, <1>6, <2>1, GotoStep
  <2> QED BY <1>1, <1>5, <1>6, <2>1, <2>2 DEF Carries, SamePoll
<1>7. CASE /\ Connected(c)
           /\ job' = [job EXCEPT ![w].at = RefreshOf(conn[c]), ![w].ref = conn[c].grant]
           /\ UNCHANGED unheard
  <2>1. RefreshOf(conn[c]) \in {"refreshGmail", "refreshOutlook"}
    BY DEF RefreshOf
  <2>2. conn[c].grant \in 0..issued[c] /\ issued[c] \in 0..MaxGrants /\ conn[c].grant \in 0..MaxGrants
    BY <1>1, <1>7, MailBoundsAssumption DEF TypeInv, TablesOK, ConnectionsOK
  <2>3. PICK s \in Statements : s = RefreshOf(conn[c])
    BY <2>1 DEF Statements
  <2>4. job' = [job EXCEPT ![w].at = s, ![w].ref = conn[c].grant]
    BY <1>7, <2>3
  <2>5. /\ Moves(w) /\ SamePoll(w) /\ job'[w].at = s
        /\ job'[w].then = job[w].then /\ job'[w].ref = conn[c].grant
    BY <1>1, <2>2, <2>4, RefStep, ZenonT(40)
  <2> QED BY <1>5, <1>7, <2>1, <2>2, <2>3, <2>5
<1> QED BY <1>4, <1>6, <1>7 DEF Token

\* A statement of the token's refresh, from one to the next.
LEMMA RefreshingStep ==
    ASSUME TypeInv, NEW w \in Workers, job[w].at \in Refreshing,
           UNCHANGED <<conn, imports, candidates, born, client, clock, mail, box, pushing, pushes,
                       settled, dropped, shared, swapped, uncounted, unheard>>,
           ConnectionsOK', \A c \in Connections : issued'[c] >= issued[c],
           Moves(w), SamePoll(w), job'[w].then = job[w].then,
           job'[w].at \in Refreshing \cup Deactivating,
           job'[w].ref \in 0..issued'[job[w].c]
    PROVE  TypeInv' /\ Aside(w)
<1>1. /\ job \in [Workers -> Job] /\ job[w] \in Job /\ HandlerOK(job[w])
      /\ job[w].at # "idle" /\ job[w].c \in Connections
  BY HandlerTyped DEF Refreshing
<1>2. ImportsOK' /\ MailboxesOK' /\ client' \in Connections \cup {None}
  BY SameMail
<1>3. TablesOK'
  BY <1>2 DEF TypeInv, TablesOK, OthersOK
<1>4. \A c \in Connections : Holds(c)' = Holds(c)
  BY DEF Holds, Arrived
<1>5. Grows
  BY <1>4 DEF Grows
<1>6. RowsKeep
  BY DEF RowsKeep, Connected
<1>7. CASE job[w].then = "list"
  <2>1. HandlerOK(job[w])' /\ Onward(w)
    BY <1>1, <1>7, BeforeHandler DEF Before
  <2> QED BY <1>3, <1>5, <1>6, <2>1, WorkerStep DEF Aside
<1>8. CASE job[w].then # "list"
  <2>1. job'[w].at \notin PollStatements \cup {"idle", "token"} \cup Connecting
    BY DEF Refreshing, Deactivating, PollStatements, Importing, Connecting
  <2>2. job'[w] \in Job
    BY DEF Moves
  <2>3. HandlerOK(job[w])'
    BY <1>1, <1>8, <2>1, <2>2, PlainHandler DEF SamePoll
  <2> QED BY <1>3, <1>5, <1>6, <1>8, <2>3, WorkerStep DEF Aside, Onward
<1> QED BY <1>7, <1>8

\* The three answers of a provider, as the handler goes on to a statement.
LEMMA AnswerStep ==
    ASSUME TypeInv, NEW w \in Workers, job[w].at \in Refreshing,
           NEW save \in {"saveGmail", "saveOutlook"},
           NEW give \in Deactivating,
           \/ Accepted(w, save) \/ Rotated(w, save) \/ Refused(w, give)
    PROVE  /\ ConnectionsOK' \/ conn' # conn
           /\ \A c \in Connections : issued'[c] >= issued[c]
           /\ Moves(w) /\ SamePoll(w) /\ job'[w].then = job[w].then
           /\ job'[w].at \in {save, give} /\ job'[w].ref \in 0..issued'[job[w].c]
<1> DEFINE c == job[w].c
<1>1. /\ job \in [Workers -> Job] /\ job[w] \in Job /\ c \in Connections
      /\ job[w].ref \in 0..issued[c] /\ ConnectionsOK
  BY HandlerTyped DEF Refreshing, TablesOK
<1>2. \A d \in Connections : issued[d] \in Nat /\ issued[d] <= MaxGrants
  BY <1>1, MailBoundsAssumption DEF ConnectionsOK
<1>3. save \in Statements /\ give \in Statements
  BY DEF Statements, Deactivating
<1>4. CASE Accepted(w, save)
  <2>1. 0 \in 0..MaxGrants
    BY MailBoundsAssumption
  <2>2. job' = [job EXCEPT ![w].at = save, ![w].ref = 0]
    BY <1>4 DEF Accepted
  <2>3. Moves(w) /\ SamePoll(w) /\ job'[w].at = save /\ job'[w].then = job[w].then
        /\ job'[w].ref = 0
    BY <1>1, <1>3, <2>1, <2>2, RefStep
  <2>4. UNCHANGED <<grants, issued>>
    BY <1>4 DEF Accepted
  <2>5. ConnectionsOK' \/ conn' # conn
    BY <1>1, <2>4 DEF ConnectionsOK, Connected
  <2> QED BY <1>1, <1>2, <2>3, <2>4, <2>5
<1>5. CASE Refused(w, give)
  <2>1. Moves(w) /\ job'[w].at = give /\ Carries(w)
    BY <1>1, <1>3, <1>5, GotoStep DEF Refused
  <2>2. UNCHANGED <<grants, issued>>
    BY <1>5 DEF Refused
  <2>3. ConnectionsOK' \/ conn' # conn
    BY <1>1, <2>2 DEF ConnectionsOK, Connected
  <2> QED BY <1>1, <1>2, <2>1, <2>2, <2>3 DEF SamePoll, Carries
<1>6. CASE Rotated(w, save)
  <2>1. PICK kept \in SUBSET {job[w].ref} :
            grants' = [grants EXCEPT ![c] = (@ \ {job[w].ref}) \cup kept \cup {issued'[c]}]
    BY <1>6 DEF Rotated
  <2>2. /\ issued' = [issued EXCEPT ![c] = @ + 1] /\ job[w].ref \in grants[c]
        /\ issued'[c] = issued[c] + 1 /\ issued'[c] \in 1..MaxGrants
        /\ \A d \in Connections \ {c} : issued'[d] = issued[d]
    BY <1>1, <1>2, <1>6, MailBoundsAssumption DEF Rotated, ConnectionsOK
  <2>3. issued'[c] \in 0..MaxGrants
    BY <2>2
  <2>4. job' = [job EXCEPT ![w].at = save, ![w].ref = issued'[c]]
    BY <1>6 DEF Rotated
  <2>5. Moves(w) /\ SamePoll(w) /\ job'[w].at = save /\ job'[w].then = job[w].then
        /\ job'[w].ref = issued'[c]
    BY <1>1, <1>3, <2>3, <2>4, RefStep
  <2>6. grants[c] \subseteq 1..issued[c] /\ \A d \in Connections \ {c} : grants'[d] = grants[d]
    BY <1>1, <2>1 DEF ConnectionsOK
  <2>7. \A g \in grants'[c] : g \in grants[c] \/ g = issued'[c]
    BY <1>1, <2>1, <2>2 DEF ConnectionsOK
  <2>8. ASSUME NEW g \in grants'[c] PROVE g \in 1..issued'[c]
    <3>1. g \in 1..issued[c] \/ g = issued[c] + 1
      BY <2>2, <2>6, <2>7
    <3> QED BY <1>1, <1>2, <2>2, <3>1
  <2>9. grants' \in [Connections -> SUBSET (1..MaxGrants)]
    BY <1>1, <1>2, <2>1, <2>2, <2>8 DEF ConnectionsOK
  <2>10. issued' \in [Connections -> 0..MaxGrants]
    BY <1>1, <2>2 DEF ConnectionsOK
  <2>11. ASSUME conn' = conn PROVE ConnectionsOK'
    <3>1. \A d \in Connections : grants'[d] \subseteq 1..issued'[d]
      BY <1>1, <2>2, <2>6, <2>8 DEF ConnectionsOK
    <3>2. ASSUME NEW d \in Connections, Connected(d)' PROVE conn'[d].grant \in 1..issued'[d]
      <4>1. conn[d].grant \in 1..issued[d] /\ issued[d] <= issued'[d] /\ issued'[d] \in Nat
        BY <1>1, <1>2, <2>2, <2>11, <3>2 DEF ConnectionsOK, Connected
      <4> QED BY <1>2, <2>11, <4>1
    <3> QED BY <1>1, <2>9, <2>10, <2>11, <3>1, <3>2 DEF ConnectionsOK
  <2> QED BY <1>1, <1>2, <2>2, <2>5, <2>11
<1> QED BY <1>4, <1>5, <1>6

LEMMA RefreshGmailStep ==
    ASSUME TypeInv, NEW w \in Workers, RefreshGmail(w)
    PROVE  TypeInv' /\ Aside(w)
BY AnswerStep, RefreshingStep DEF RefreshGmail, rows, Refreshing, Deactivating

LEMMA RefreshOutlookStep ==
    ASSUME TypeInv, NEW w \in Workers, RefreshOutlook(w)
    PROVE  TypeInv' /\ Aside(w)
BY AnswerStep, RefreshingStep DEF RefreshOutlook, rows, Refreshing, Deactivating

LEMMA AsideStep ==
    ASSUME TypeInv, NEW w \in Workers, ConnectionsOK', RowsKeep,
           UNCHANGED <<imports, candidates, born, client, issued, clock, mail, box, pushes,
                       settled, dropped, shared, swapped, uncounted>>,
           pushing' \subseteq Connections, unheard \subseteq unheard',
           Moves(w), HandlerOK(job[w])', Onward(w)
    PROVE  TypeInv' /\ Aside(w)
<1>1. TablesOK'
  BY SameMail DEF TypeInv, TablesOK, OthersOK
<1>2. Grows
  BY NothingGrows
<1> QED BY <1>1, <1>2, WorkerStep DEF Aside

\* One row is written.
LEMMA RowStep ==
    ASSUME TypeInv, NEW c \in Connections, Connected(c), NEW row \in Connection,
           row.grant \in 1..issued[c], row.cursor = conn[c].cursor, row.created = conn[c].created,
           conn' = [conn EXCEPT ![c] = row], UNCHANGED <<issued, grants>>
    PROVE  ConnectionsOK' /\ RowsKeep
<1>1. /\ conn' \in [Connections -> Connection \cup {NoConnection}] /\ conn'[c] = row
      /\ \A d \in Connections \ {c} : conn'[d] = conn[d]
  BY DEF TypeInv, TablesOK, ConnectionsOK
<1>2. Connected(c)' /\ \A d \in Connections \ {c} : Connected(d)' <=> Connected(d)
  BY <1>1, RowsAreRows DEF Connected
<1>3. RowsKeep
  BY <1>1, <1>2 DEF RowsKeep
<1>4. \A d \in Connections : Connected(d)' => conn'[d].grant \in 1..issued'[d]
  BY <1>1, <1>2 DEF TypeInv, TablesOK, ConnectionsOK
<1> QED BY <1>1, <1>3, <1>4 DEF TypeInv, TablesOK, ConnectionsOK

LEMMA RowOf ==
    ASSUME TypeInv, NEW c \in Connections, Connected(c)
    PROVE  conn[c] \in Connection /\ conn[c].grant \in 1..issued[c] /\ issued[c] \in 0..MaxGrants
           /\ conn[c].grant \in 0..MaxGrants /\ conn[c].auto \in BOOLEAN
<1>1. conn[c] \in Connection /\ issued[c] \in 0..MaxGrants /\ conn[c].grant \in 1..issued[c]
  BY DEF TypeInv, TablesOK, ConnectionsOK, Connected
<1> QED BY <1>1, MailBoundsAssumption DEF Connection

\* No row is written.
LEMMA NoRowStep ==
    ASSUME TypeInv, UNCHANGED <<conn, issued, grants>>
    PROVE  ConnectionsOK' /\ RowsKeep
BY DEF TypeInv, TablesOK, ConnectionsOK, Connected, RowsKeep

LEMMA SaveStep ==
    ASSUME TypeInv, NEW w \in Workers, job[w].at \in {"saveGmail", "saveOutlook"},
           NEW row, Connected(job[w].c) => /\ row \in Connection
                                           /\ row.grant \in 1..issued[job[w].c]
                                           /\ row.cursor = conn[job[w].c].cursor
                                           /\ row.created = conn[job[w].c].created,
           NEW otherwise \in Deactivating, Save(w, row, otherwise)
    PROVE  TypeInv' /\ Aside(w)
<1> DEFINE c == job[w].c
<1>1. /\ job \in [Workers -> Job] /\ job[w] \in Job /\ HandlerOK(job[w]) /\ c \in Connections
      /\ job[w].ref \in 0..issued[c] /\ job[w].then \in Continuations \cup {None}
      /\ job[w].at \in Before
  BY HandlerTyped, JobFields DEF Before, Refreshing
<1>2. UNCHANGED <<imports, candidates, born, client, issued, grants, clock, mail, box, pushing,
                  pushes,
                  settled, dropped, shared, swapped, uncounted, unheard>>
  BY DEF Save, providers, history
<1>3. pushing' \subseteq Connections
  BY <1>2 DEF TypeInv, TablesOK, OthersOK
<1>4. ConnectionsOK' /\ RowsKeep
  <2>1. CASE Connected(c) /\ conn' = [conn EXCEPT ![c] = row]
    BY <1>1, <1>2, <2>1, RowStep
  <2>2. CASE UNCHANGED conn
    BY <1>2, <2>2, NoRowStep
  <2> QED BY <2>1, <2>2 DEF Save
<1>5. ASSUME NEW s \in Statements, Goto(w, s), (s = job[w].then /\ s # None) \/ s = otherwise
      PROVE  TypeInv' /\ Aside(w)
  <2>1. Moves(w) /\ job'[w].at = s /\ Carries(w) /\ job'[w] \in Job
    BY <1>1, <1>5, GotoStep DEF Moves
  <2>2. SamePoll(w) /\ job'[w].then = job[w].then /\ job'[w].ref \in 0..issued'[c]
    BY <1>1, <1>2, <2>1 DEF SamePoll, Carries
  <2>3. CASE job[w].then = "list"
    <3>1. s \in Before
      BY <1>5, <2>3 DEF Before
    <3>2. HandlerOK(job[w])' /\ Onward(w)
      BY <1>1, <1>2, <2>1, <2>2, <2>3, <3>1, BeforeHandler
    <3> QED BY <1>2, <1>3, <1>4, <2>1, <3>2, AsideStep
  <2>4. CASE job[w].then # "list"
    <3>1. s \notin PollStatements \cup {"idle", "token"} \cup Connecting
      BY <1>1, <1>5, <2>4 DEF Continuations, Deactivating, PollStatements, Importing, Connecting
    <3>2. HandlerOK(job[w])' /\ Onward(w)
      BY <1>1, <2>1, <2>2, <2>4, <3>1, PlainHandler DEF SamePoll, Onward
    <3> QED BY <1>2, <1>3, <1>4, <2>1, <3>2, AsideStep
  <2> QED BY <2>3, <2>4
<1>6. CASE job[w].then = None /\ End(w)
  <2>1. Moves(w) /\ job'[w] = Idle
    BY <1>1, <1>6, EndStep
  <2>2. HandlerOK(job[w])' /\ Onward(w)
    BY <1>6, <2>1, IdleHandler, NoneIsNoWord DEF Onward
  <2> QED BY <1>2, <1>3, <1>4, <2>1, <2>2, AsideStep
<1>7. CASE job[w].then # None /\ Goto(w, job[w].then)
  <2>1. job[w].then \in Statements
    BY <1>1, <1>7 DEF Continuations, Statements, PollStatements
  <2> QED BY <1>5, <1>7, <2>1
<1>8. CASE Goto(w, otherwise)
  BY <1>5, <1>8 DEF Deactivating, Statements
<1> QED BY <1>6, <1>7, <1>8 DEF Save

LEMMA SaveGmailTokenStep ==
    ASSUME TypeInv, NEW w \in Workers, SaveGmailToken(w)
    PROVE  TypeInv' /\ Aside(w)
<1> DEFINE c == job[w].c
           row == [conn[c] EXCEPT !.stale = FALSE]
<1>1. c \in Connections /\ job[w].at = "saveGmail"
  BY HandlerTyped DEF SaveGmailToken
<1>2. ASSUME Connected(c)
      PROVE  /\ row \in Connection /\ row.grant \in 1..issued[c] /\ row.cursor = conn[c].cursor
             /\ row.created = conn[c].created
  BY <1>1, <1>2, RowOf DEF Connection
<1> QED BY <1>1, <1>2, SaveStep DEF SaveGmailToken, Deactivating

LEMMA SaveOutlookTokenStep ==
    ASSUME TypeInv, NEW w \in Workers, SaveOutlookToken(w)
    PROVE  TypeInv' /\ Aside(w)
<1> DEFINE c == job[w].c
           row == [conn[c] EXCEPT !.stale = FALSE,
                                  !.grant = IF job[w].ref = 0 THEN @ ELSE job[w].ref]
<1>1. c \in Connections /\ job[w].at = "saveOutlook" /\ job[w].ref \in 0..issued[c]
      /\ issued[c] \in 0..MaxGrants
  BY HandlerTyped DEF SaveOutlookToken
<1>2. ASSUME Connected(c)
      PROVE  /\ row \in Connection /\ row.grant \in 1..issued[c] /\ row.cursor = conn[c].cursor
             /\ row.created = conn[c].created
  <2>1. PICK g : g = IF job[w].ref = 0 THEN conn[c].grant ELSE job[w].ref
    OBVIOUS
  <2>2. g \in 1..issued[c] /\ g \in 0..MaxGrants
    BY <1>1, <1>2, <2>1, RowOf, MailBoundsAssumption
  <2>3. row = [conn[c] EXCEPT !.stale = FALSE, !.grant = g]
    BY <2>1
  <2>4. conn[c] \in Connection
    BY <1>1, <1>2, RowOf
  <2> QED BY <2>2, <2>3, <2>4 DEF Connection
<1> QED BY <1>1, <1>2, SaveStep DEF SaveOutlookToken, Deactivating

LEMMA SetInactiveStep ==
    ASSUME TypeInv, NEW w \in Workers, job[w].at \in Deactivating, SetInactive(w)
    PROVE  TypeInv' /\ Aside(w)
<1> DEFINE c == job[w].c
<1>1. c \in Connections /\ job[w].at # "idle"
  BY HandlerTyped DEF Deactivating
<1>2. UNCHANGED <<imports, candidates, born, client, issued, grants, clock, mail, box, pushing,
                  pushes,
                  settled, dropped, shared, swapped, uncounted>>
  BY DEF SetInactive, providers
<1>3. pushing' \subseteq Connections
  BY <1>2 DEF TypeInv, TablesOK, OthersOK
<1>4. ConnectionsOK' /\ RowsKeep
  <2>1. CASE Connected(c)
    <3>1. PICK row : row = [conn[c] EXCEPT !.active = FALSE]
      OBVIOUS
    <3>2. conn' = [conn EXCEPT ![c] = row]
      BY <2>1, <3>1 DEF SetInactive
    <3>3. conn[c] \in Connection /\ conn[c].grant \in 1..issued[c]
      BY <1>1, <2>1, RowOf
    <3>4. row \in Connection /\ row.grant = conn[c].grant /\ row.cursor = conn[c].cursor
          /\ row.created = conn[c].created
      BY <3>1, <3>3 DEF Connection
    <3> QED BY <1>1, <1>2, <2>1, <3>2, <3>3, <3>4, RowStep
  <2>2. CASE ~Connected(c)
    BY <1>2, <2>2, NoRowStep DEF SetInactive
  <2> QED BY <2>1, <2>2
<1>5. /\ Moves(w) /\ HandlerOK(job[w])' /\ Onward(w) /\ unheard \subseteq unheard'
  BY <1>1, <1>2, AbortStep DEF SetInactive
<1> QED BY <1>2, <1>3, <1>4, <1>5, AsideStep

LEMMA NotPolling ==
    ASSUME TypeInv, NEW w \in Workers,
           job[w].at \notin Before \cup {"fallback"} \cup Listed
    PROVE  job[w].then # "list"
BY HandlerTyped DEF HandlerOK

\* A statement of a handler that is no poll.
LEMMA PlainStep ==
    ASSUME TypeInv, NEW w \in Workers, ConnectionsOK', RowsKeep,
           job[w].at \notin Before \cup {"fallback"} \cup Listed,
           UNCHANGED <<imports, candidates, born, client, issued, clock, mail, box, pushes,
                       settled, dropped, shared, swapped, uncounted, unheard>>,
           pushing' \subseteq Connections, Moves(w),
           \/ job'[w] = Idle
           \/ /\ job'[w].c \in Connections /\ job'[w].ref \in 0..issued[job'[w].c]
              /\ job'[w].then # "list" /\ job'[w].at \notin PollStatements \cup {"idle"}
              /\ job'[w].at = "token" => job'[w].then # None
              /\ job'[w].at \in Connecting => job'[w].ref # 0
    PROVE  TypeInv' /\ Aside(w)
<1>1. job'[w] \in Job /\ job[w].then # "list"
  BY NotPolling DEF Moves
<1>2. HandlerOK(job[w])' /\ Onward(w)
  BY <1>1, PlainHandler, IdleHandler DEF Onward
<1> QED BY <1>2, AsideStep

LEMMA PlainGotoStep ==
    ASSUME TypeInv, NEW w \in Workers, ConnectionsOK', RowsKeep, job[w].at # "idle",
           job[w].at \notin Before \cup {"fallback"} \cup Listed,
           UNCHANGED <<imports, candidates, born, client, issued, clock, mail, box, pushes,
                       settled, dropped, shared, swapped, uncounted, unheard>>,
           pushing' \subseteq Connections,
           NEW s \in Statements \ (PollStatements \cup {"idle", "token"}), Goto(w, s),
           s \in Connecting => job[w].ref # 0
    PROVE  TypeInv' /\ Aside(w)
<1>1. /\ job \in [Workers -> Job] /\ job[w].c \in Connections
      /\ job[w].ref \in 0..issued[job[w].c] /\ job[w].then # "list"
  BY HandlerTyped, NotPolling
<1>2. Moves(w) /\ job'[w].at = s /\ Carries(w)
  BY <1>1, GotoStep
<1> QED BY <1>1, <1>2, PlainStep DEF Carries

LEMMA PlainEndStep ==
    ASSUME TypeInv, NEW w \in Workers, ConnectionsOK', RowsKeep,
           job[w].at \notin Before \cup {"fallback"} \cup Listed,
           UNCHANGED <<imports, candidates, born, client, issued, clock, mail, box, pushes,
                       settled, dropped, shared, swapped, uncounted, unheard>>,
           pushing' \subseteq Connections, End(w)
    PROVE  TypeInv' /\ Aside(w)
<1>1. Moves(w) /\ job'[w] = Idle
  BY HandlerTyped, EndStep
<1> QED BY <1>1, PlainStep

LEMMA PlainActivityStep ==
    ASSUME TypeInv, NEW w \in Workers, ConnectionsOK', RowsKeep, NEW c \in Connections,
           job[w].at \notin Before \cup {"fallback"} \cup Listed,
           UNCHANGED <<imports, candidates, born, client, issued, clock, mail, box, pushes,
                       settled, dropped, shared, swapped, uncounted, unheard>>,
           pushing' \subseteq Connections,
           NEW s \in Statements \ (PollStatements \cup {"idle"} \cup Connecting),
           NEW t \in (Continuations \ {"list"}) \cup {None}, s = "token" => t # None,
           job' = [job EXCEPT ![w] = Activity(c, s, t)]
    PROVE  TypeInv' /\ Aside(w)
<1>1. job \in [Workers -> Job]
  BY HandlerTyped
<1>2. PICK J : J = Activity(c, s, t)
  OBVIOUS
<1>3. J \in Job /\ J.at = s /\ J.c = c /\ J.then = t /\ J.ref = 0
  BY <1>2, ActivityFields
<1>4. Moves(w) /\ job'[w] = J
  BY <1>1, <1>2, <1>3, JobStep
<1>5. 0 \in 0..issued[c]
  BY MailBoundsAssumption DEF TypeInv, TablesOK, ConnectionsOK
<1>6. t # "list"
  BY NoneIsNoWord
<1> QED BY <1>3, <1>4, <1>5, <1>6, PlainStep

LEMMA FindConnectionStep ==
    ASSUME TypeInv, NEW w \in Workers, FindConnection(w)
    PROVE  TypeInv' /\ Aside(w)
<1>1. job[w].at = "findConnection" /\ job[w].ref # 0
  BY HandlerTyped DEF FindConnection, HandlerOK, Connecting
<1>2. UNCHANGED <<conn, issued, grants, imports, candidates, born, client, issued, clock, mail, box,
                  pushing, pushes, settled, dropped, shared, swapped, uncounted, unheard>>
  BY DEF FindConnection, rows, providers, history
<1>3. ConnectionsOK' /\ RowsKeep /\ pushing' \subseteq Connections
  BY <1>2, NoRowStep DEF TypeInv, TablesOK, OthersOK
<1>4. PICK s \in {"connect", "reconnect"} : Goto(w, s)
  BY DEF FindConnection
<1>5. s \in Statements \ (PollStatements \cup {"idle", "token"})
  BY DEF Statements, PollStatements, Importing
<1>6. job[w].at # "idle" /\ job[w].at \notin Before \cup {"fallback"} \cup Listed
  BY <1>1 DEF Before, Listed, Refreshing, Deactivating, Importing
<1> QED BY <1>1, <1>2, <1>3, <1>4, <1>5, <1>6, PlainGotoStep

LEMMA CreateStep ==
    ASSUME TypeInv, NEW w \in Workers, job[w].provider \in {"GMAIL", "OUTLOOK"},
           NEW next \in {"watch", "subscribe"}, Create(w, next)
    PROVE  TypeInv' /\ Aside(w)
<1> DEFINE c == job[w].c
<1>1. job[w].at = "connect" /\ job[w].ref # 0 /\ c \in Connections /\ job[w].ref \in 0..issued[c]
      /\ issued[c] \in 0..MaxGrants
  BY HandlerTyped DEF Create, HandlerOK, Connecting
<1>2. UNCHANGED <<issued, grants, imports, candidates, born, client, issued, clock, mail, box,
                  pushing, pushes, settled, dropped, shared, swapped, uncounted, unheard>>
  BY DEF Create, providers
<1>3. pushing' \subseteq Connections
  BY <1>2 DEF TypeInv, TablesOK, OthersOK
<1>4. job[w].at # "idle" /\ job[w].at \notin Before \cup {"fallback"} \cup Listed
  BY <1>1 DEF Before, Listed, Refreshing, Deactivating, Importing
<1>5. CASE Connected(c)
  <2>1. UNCHANGED conn /\ End(w)
    BY <1>5 DEF Create
  <2>2. ConnectionsOK' /\ RowsKeep
    BY <1>2, <2>1, NoRowStep
  <2> QED BY <1>2, <1>3, <1>4, <2>1, <2>2, PlainEndStep
<1>6. CASE ~Connected(c)
  <2>1. PICK company \in Companies :
           conn' = [conn EXCEPT ![c] =
                    [company |-> company, provider |-> job[w].provider, active |-> TRUE,
                     auto |-> TRUE, cursor |-> 0, by |-> job[w].provider, synced |-> 0,
                     created |-> Now, stale |-> FALSE, grant |-> job[w].ref, watch |-> "none"]]
    BY <1>6 DEF Create
  <2>2. PICK row : row =
           [company |-> company, provider |-> job[w].provider, active |-> TRUE,
            auto |-> TRUE, cursor |-> 0, by |-> job[w].provider, synced |-> 0,
            created |-> Now, stale |-> FALSE, grant |-> job[w].ref, watch |-> "none"]
    OBVIOUS
  <2>3. Now \in 1..MaxClock + 1 /\ 0 \in 0..MaxClock /\ 0 \in 0..MaxClock + 1
        /\ job[w].ref \in 0..MaxGrants /\ job[w].ref \in 1..issued[c]
    BY <1>1, MailBoundsAssumption DEF TypeInv, TablesOK, MailboxesOK, Times, Now
  <2>4. row \in Connection
    BY <2>2, <2>3 DEF Connection
  <2>5. row.cursor = 0 /\ row.created = Now /\ row.grant = job[w].ref
    BY <2>2
  <2>6. /\ conn' = [conn EXCEPT ![c] = row]
        /\ conn' \in [Connections -> Connection \cup {NoConnection}] /\ conn'[c] = row
        /\ \A d \in Connections \ {c} : conn'[d] = conn[d]
    BY <1>1, <2>1, <2>2, <2>4 DEF TypeInv, TablesOK, ConnectionsOK
  <2>7. RowsKeep
    BY <1>6, <2>5, <2>6 DEF RowsKeep, Connected
  <2>8. \A d \in Connections : Connected(d)' => conn'[d].grant \in 1..issued'[d]
    BY <1>2, <2>3, <2>5, <2>6 DEF TypeInv, TablesOK, ConnectionsOK, Connected
  <2>9. ConnectionsOK'
    BY <1>2, <2>6, <2>8 DEF TypeInv, TablesOK, ConnectionsOK
  <2>10. Goto(w, next) /\ next \in Statements \ (PollStatements \cup {"idle", "token"})
         /\ next \notin Connecting
    BY <1>6 DEF Create, Statements, PollStatements, Importing, Connecting
  <2> QED BY <1>2, <1>3, <1>4, <2>7, <2>9, <2>10, PlainGotoStep
<1> QED BY <1>5, <1>6

LEMMA UpdateStep ==
    ASSUME TypeInv, NEW w \in Workers, NEW next \in {"watch", "subscribe"}, NEW row,
           Connected(job[w].c) => /\ row \in Connection /\ row.grant = job[w].ref
                                  /\ row.cursor = conn[job[w].c].cursor
                                  /\ row.created = conn[job[w].c].created,
           Update(w, row, next)
    PROVE  TypeInv' /\ Aside(w)
<1> DEFINE c == job[w].c
<1>1. job[w].at = "reconnect" /\ job[w].ref # 0 /\ c \in Connections /\ job[w].ref \in 0..issued[c]
      /\ issued[c] \in 0..MaxGrants
  BY HandlerTyped DEF Update, HandlerOK, Connecting
<1>2. UNCHANGED <<issued, grants, imports, candidates, born, client, issued, clock, mail, box,
                  pushing, pushes, settled, dropped, shared, swapped, uncounted, unheard>>
  BY DEF Update, providers
<1>3. pushing' \subseteq Connections
  BY <1>2 DEF TypeInv, TablesOK, OthersOK
<1>4. job[w].at # "idle" /\ job[w].at \notin Before \cup {"fallback"} \cup Listed
  BY <1>1 DEF Before, Listed, Refreshing, Deactivating, Importing
<1>5. CASE ~Connected(c)
  <2>1. UNCHANGED conn /\ End(w)
    BY <1>5 DEF Update
  <2>2. ConnectionsOK' /\ RowsKeep
    BY <1>2, <2>1, NoRowStep
  <2> QED BY <1>2, <1>3, <1>4, <2>1, <2>2, PlainEndStep
<1>6. CASE Connected(c)
  <2>1. conn' = [conn EXCEPT ![c] = row] /\ Goto(w, next)
    BY <1>6 DEF Update
  <2>2. job[w].ref \in 1..issued[c]
    BY <1>1, MailBoundsAssumption
  <2>3. ConnectionsOK' /\ RowsKeep
    BY <1>1, <1>2, <1>6, <2>1, <2>2, RowStep
  <2>4. next \in Statements \ (PollStatements \cup {"idle", "token"}) /\ next \notin Connecting
    BY DEF Statements, PollStatements, Importing, Connecting
  <2> QED BY <1>2, <1>3, <1>4, <2>1, <2>3, <2>4, PlainGotoStep
<1> QED BY <1>5, <1>6

LEMMA ConnectingSteps ==
    ASSUME TypeInv, NEW w \in Workers,
           ConnectGmail(w) \/ ConnectOutlook(w) \/ ReconnectGmail(w) \/ ReconnectOutlook(w)
    PROVE  TypeInv' /\ Aside(w)
<1> DEFINE c == job[w].c
<1>1. CASE ConnectGmail(w)
  BY <1>1, CreateStep DEF ConnectGmail
<1>2. CASE ConnectOutlook(w)
  BY <1>2, CreateStep DEF ConnectOutlook
<1>3. ASSUME job[w].at = "reconnect"
      PROVE  c \in Connections /\ job[w].ref \in 0..MaxGrants
  BY <1>3, HandlerTyped, JobFields
<1>4. CASE ReconnectGmail(w)
  <2>1. job[w].at = "reconnect"
    BY <1>4 DEF ReconnectGmail, Update
  <2>2. PICK row : row = GmailReconnected(conn[c], job[w].ref)
    OBVIOUS
  <2>3. ASSUME Connected(c)
        PROVE  row \in Connection /\ row.grant = job[w].ref /\ row.cursor = conn[c].cursor
               /\ row.created = conn[c].created
    <3>1. conn[c] \in Connection
      BY <1>3, <2>1, <2>3, RowOf
    <3> QED BY <1>3, <2>1, <2>2, <3>1 DEF GmailReconnected, Connection
  <2>4. Update(w, row, "watch")
    BY <1>4, <2>2 DEF ReconnectGmail
  <2> QED BY <2>3, <2>4, UpdateStep
<1>5. CASE ReconnectOutlook(w)
  <2>1. job[w].at = "reconnect"
    BY <1>5 DEF ReconnectOutlook, Update
  <2>2. PICK row : row = OutlookReconnected(conn[c], job[w].ref)
    OBVIOUS
  <2>3. ASSUME Connected(c)
        PROVE  row \in Connection /\ row.grant = job[w].ref /\ row.cursor = conn[c].cursor
               /\ row.created = conn[c].created
    <3>1. conn[c] \in Connection
      BY <1>3, <2>1, <2>3, RowOf
    <3>2. PICK watch : watch = IF conn[c].provider = "GMAIL" THEN "none" ELSE conn[c].watch
      OBVIOUS
    <3>3. watch \in {"none", "live", "lapsed"}
      BY <3>1, <3>2 DEF Connection
    <3>4. row = [conn[c] EXCEPT !.provider = "OUTLOOK", !.watch = watch, !.stale = FALSE,
                                !.grant = job[w].ref, !.active = TRUE]
      BY <2>2, <3>2 DEF OutlookReconnected
    <3> QED BY <1>3, <2>1, <3>1, <3>3, <3>4 DEF Connection
  <2>4. Update(w, row, "subscribe")
    BY <1>5, <2>2 DEF ReconnectOutlook
  <2> QED BY <2>3, <2>4, UpdateStep
<1> QED BY <1>1, <1>2, <1>4, <1>5

Subscribing == {"watch", "subscribe", "callWatch", "callSubscribe", "saveWatch",
                "saveSubscription", "renew", "callRenew", "saveRenewal", "stop", "unsubscribe",
                "clear", "clearSubscription", "revoke", "delete"}

LEMMA SubscribingIsAside ==
    ASSUME NEW s \in Subscribing
    PROVE  /\ s \notin Before \cup {"fallback"} \cup Listed /\ s # "idle"
           /\ s \in Statements \ (PollStatements \cup {"idle", "token"} \cup Connecting)
BY DEF Subscribing, Before, Listed, Refreshing, Deactivating, Importing, Statements,
       PollStatements, Connecting

\* Nothing but the job, the rows and what the providers push may change.
LEMMA SameButRows ==
    ASSUME TypeInv,
           UNCHANGED <<rows, client, clock, mail, box, grants, issued, pushes, history>>
    PROVE  /\ UNCHANGED <<imports, candidates, born, client, issued, clock, mail, box, pushes,
                          settled, dropped, shared, swapped, uncounted, unheard>>
           /\ ConnectionsOK' /\ RowsKeep
<1>1. UNCHANGED <<conn, imports, candidates, born, client, issued, grants, clock, mail, box, pushes,
                  settled, dropped, shared, swapped, uncounted, unheard>>
  BY DEF rows, history
<1> QED BY <1>1, NoRowStep

LEMMA WatchStep ==
    ASSUME TypeInv, NEW w \in Workers, job[w].at \in {"watch", "subscribe"},
           NEW call \in {"callWatch", "callSubscribe"}, IfActive(w, call)
    PROVE  TypeInv' /\ Aside(w)
<1> DEFINE c == job[w].c
<1>1. c \in Connections /\ job[w].at \in Subscribing
  BY HandlerTyped DEF Subscribing
<1>2. /\ UNCHANGED <<imports, candidates, born, client, issued, clock, mail, box, pushes,
                     settled, dropped, shared, swapped, uncounted, unheard>>
      /\ ConnectionsOK' /\ RowsKeep
  BY SameButRows DEF IfActive, providers
<1>3. pushing' \subseteq Connections
  BY DEF IfActive, providers, TypeInv, TablesOK, OthersOK
<1>4. CASE job' = [job EXCEPT ![w] = Activity(c, "token", call)]
  <2>1. "token" \in Statements \ (PollStatements \cup {"idle"} \cup Connecting)
        /\ call \in Continuations \ {"list"}
    BY DEF Statements, PollStatements, Importing, Connecting, Continuations
  <2> QED
    BY <1>1, <1>2, <1>3, <1>4, <2>1, SubscribingIsAside, NoneIsNoWord, PlainActivityStep
       DEF Continuations
<1>5. CASE End(w)
  BY <1>1, <1>2, <1>3, <1>5, SubscribingIsAside, PlainEndStep
<1> QED BY <1>4, <1>5 DEF IfActive, End

LEMMA PushesStep ==
    ASSUME TypeInv, NEW w \in Workers, job[w].at \in Subscribing, NEW next \in Subscribing,
           Pushes(w, next) \/ Stops(w, next)
    PROVE  TypeInv' /\ Aside(w)
<1>1. job[w].c \in Connections /\ job[w].at \notin Before \cup {"fallback"} \cup Listed
      /\ job[w].at # "idle"
  BY HandlerTyped, SubscribingIsAside
<1>2. /\ UNCHANGED <<imports, candidates, born, client, issued, clock, mail, box, pushes,
                     settled, dropped, shared, swapped, uncounted, unheard>>
      /\ ConnectionsOK' /\ RowsKeep
  BY SameButRows DEF Pushes, Stops
<1>3. pushing' \subseteq Connections
  BY <1>1 DEF Pushes, Stops, TypeInv, TablesOK, OthersOK
<1>4. next \in Statements \ (PollStatements \cup {"idle", "token"}) /\ next \notin Connecting
  BY SubscribingIsAside
<1>5. CASE Goto(w, next)
  BY <1>1, <1>2, <1>3, <1>4, <1>5, PlainGotoStep
<1>6. CASE End(w)
  BY <1>1, <1>2, <1>3, <1>6, PlainEndStep
<1> QED BY <1>5, <1>6 DEF Pushes, Stops

LEMMA SetWatchStep ==
    ASSUME TypeInv, NEW w \in Workers, job[w].at \in Subscribing,
           NEW watch \in {"none", "live", "lapsed"}, SetWatch(w, watch)
    PROVE  /\ UNCHANGED <<imports, candidates, born, client, issued, clock, mail, box, pushes,
                          settled, dropped, shared, swapped, uncounted, unheard>>
           /\ ConnectionsOK' /\ RowsKeep /\ pushing' \subseteq Connections
<1> DEFINE c == job[w].c
<1>1. c \in Connections
  BY HandlerTyped, SubscribingIsAside
<1>2. UNCHANGED <<imports, candidates, born, client, issued, grants, clock, mail, box, pushing,
                  pushes,
                  settled, dropped, shared, swapped, uncounted, unheard>>
  BY DEF SetWatch, providers, history
<1>3. pushing' \subseteq Connections
  BY <1>2 DEF TypeInv, TablesOK, OthersOK
<1>4. CASE Connected(c)
  <2>1. PICK row : row = [conn[c] EXCEPT !.watch = watch]
    OBVIOUS
  <2>2. conn' = [conn EXCEPT ![c] = row]
    BY <1>4, <2>1 DEF SetWatch
  <2>3. conn[c] \in Connection /\ conn[c].grant \in 1..issued[c]
    BY <1>1, <1>4, RowOf
  <2>4. row \in Connection /\ row.grant = conn[c].grant /\ row.cursor = conn[c].cursor
        /\ row.created = conn[c].created
    BY <2>1, <2>3 DEF Connection
  <2> QED BY <1>1, <1>2, <1>3, <1>4, <2>2, <2>3, <2>4, RowStep
<1>5. CASE ~Connected(c)
  BY <1>2, <1>3, <1>5, NoRowStep DEF SetWatch
<1> QED BY <1>4, <1>5

LEMMA SavingSteps ==
    ASSUME TypeInv, NEW w \in Workers, SaveWatch(w) \/ SaveSubscription(w) \/ SaveRenewal(w)
    PROVE  TypeInv' /\ Aside(w)
<1>1. job[w].at \in Subscribing /\ End(w)
  BY DEF SaveWatch, SaveSubscription, SaveRenewal, Subscribing
<1>2. PICK watch \in {"none", "live", "lapsed"} : SetWatch(w, watch)
  BY DEF SaveWatch, SaveSubscription, SaveRenewal, Extended
<1> QED BY <1>1, <1>2, SetWatchStep, SubscribingIsAside, PlainEndStep

LEMMA ClearingSteps ==
    ASSUME TypeInv, NEW w \in Workers, ClearWatch(w) \/ ClearSubscription(w)
    PROVE  TypeInv' /\ Aside(w)
<1>1. job[w].at \in Subscribing /\ SetWatch(w, "none") /\ ThenRevoke(w)
  BY DEF ClearWatch, ClearSubscription, Subscribing
<1>2. job[w].c \in Connections
  BY <1>1, HandlerTyped, SubscribingIsAside
<1>3. "revoke" \in Statements \ (PollStatements \cup {"idle"} \cup Connecting)
  BY SubscribingIsAside DEF Subscribing
<1> QED
  BY <1>1, <1>2, <1>3, SetWatchStep, SubscribingIsAside, PlainActivityStep DEF ThenRevoke

LEMMA RenewalSteps ==
    ASSUME TypeInv, NEW w \in Workers, Renew(w) \/ CallRenew(w)
    PROVE  TypeInv' /\ Aside(w)
<1> DEFINE c == job[w].c
<1>1. job[w].at \in Subscribing /\ UNCHANGED <<rows, client, providers, history>>
  BY DEF Renew, CallRenew, Subscribing
<1>2. c \in Connections /\ job[w].at \notin Before \cup {"fallback"} \cup Listed
      /\ job[w].at # "idle"
  BY <1>1, HandlerTyped, SubscribingIsAside
<1>3. /\ UNCHANGED <<imports, candidates, born, client, issued, clock, mail, box, pushes,
                     settled, dropped, shared, swapped, uncounted, unheard>>
      /\ ConnectionsOK' /\ RowsKeep
  BY <1>1, SameButRows DEF providers
<1>4. pushing' \subseteq Connections
  BY <1>1 DEF providers, TypeInv, TablesOK, OthersOK
<1>5. CASE job' = [job EXCEPT ![w] = Activity(c, "token", "callRenew")]
  <2>1. "token" \in Statements \ (PollStatements \cup {"idle"} \cup Connecting)
        /\ "callRenew" \in Continuations \ {"list"} /\ "callRenew" # None
    BY NoneIsNoWord DEF Statements, PollStatements, Importing, Connecting, Continuations
  <2> QED BY <1>2, <1>3, <1>4, <1>5, <2>1, PlainActivityStep
<1>6. CASE job' = [job EXCEPT ![w] = Activity(c, "subscribe", None)]
  <2>1. "subscribe" \in Statements \ (PollStatements \cup {"idle"} \cup Connecting)
    BY SubscribingIsAside DEF Subscribing
  <2> QED BY <1>2, <1>3, <1>4, <1>6, <2>1, PlainActivityStep
<1>7. CASE Goto(w, "subscribe") \/ Goto(w, "saveRenewal")
  <2>1. PICK s \in Subscribing : Goto(w, s)
    BY <1>7 DEF Subscribing
  <2> QED BY <1>2, <1>3, <1>4, <2>1, SubscribingIsAside, PlainGotoStep
<1>8. CASE End(w)
  BY <1>2, <1>3, <1>4, <1>8, PlainEndStep
<1> QED BY <1>5, <1>6, <1>7, <1>8 DEF Renew, CallRenew

\* The rows of a set of keys go, and the candidates made of them stay without.
LEMMA WithoutStep ==
    ASSUME TypeInv, NEW keys \in SUBSET Keys, Without(keys), UNCHANGED born
    PROVE  ImportsOK'
<1>1. /\ imports \in [Keys -> Import \cup {NoImport}] /\ candidates \subseteq Candidate
      /\ born \in 0..MaxCandidates /\ \A x \in candidates : x.link # None => HasImport(x.link)
  BY DEF TypeInv, TablesOK, ImportsOK
<1>2. /\ imports' = [k \in Keys |-> IF k \in keys THEN NoImport ELSE imports[k]]
      /\ candidates' = {IF x.link \in keys THEN [x EXCEPT !.link = None] ELSE x : x \in candidates}
  BY DEF Without
<1>3. imports' \in [Keys -> Import \cup {NoImport}]
  BY <1>1, <1>2
<1>4. ASSUME NEW y \in candidates'
      PROVE  y \in Candidate /\ (y.link # None => HasImport(y.link)')
  <2>1. PICK x \in candidates : y = IF x.link \in keys THEN [x EXCEPT !.link = None] ELSE x
    BY <1>2
  <2>2. x \in Candidate
    BY <1>1
  <2>3. CASE x.link \in keys
    BY <2>1, <2>2, <2>3 DEF Candidate
  <2>4. CASE x.link \notin keys
    <3>1. y = x
      BY <2>1, <2>4
    <3>2. x.link # None => x.link \in Keys /\ imports'[x.link] = imports[x.link]
      BY <1>2, <2>2, <2>4 DEF Candidate
    <3> QED BY <1>1, <2>2, <3>1, <3>2 DEF HasImport
  <2> QED BY <2>3, <2>4
<1> QED BY <1>1, <1>3, <1>4 DEF ImportsOK

LEMMA RevokeStep ==
    ASSUME TypeInv, NEW w \in Workers, Revoke(w)
    PROVE  TypeInv' /\ Aside(w)
<1> DEFINE c == job[w].c
<1>1. job[w].at \in Subscribing
  BY DEF Revoke, Subscribing
<1>2. c \in Connections /\ job[w].at \notin Before \cup {"fallback"} \cup Listed
      /\ job[w].at # "idle"
  BY <1>1, HandlerTyped, SubscribingIsAside
<1>3. UNCHANGED <<conn, imports, candidates, born, client, issued, clock, mail, box, pushing,
                  pushes,
                  settled, dropped, shared, swapped, uncounted, unheard>>
  BY DEF Revoke, rows, history
<1>4. pushing' \subseteq Connections
  BY <1>3 DEF TypeInv, TablesOK, OthersOK
<1>5. grants' = grants \/ grants' = [grants EXCEPT ![c] = {}]
  BY DEF Revoke
<1>6. /\ grants' \in [Connections -> SUBSET (1..MaxGrants)]
      /\ \A d \in Connections : grants'[d] \subseteq grants[d]
  BY <1>2, <1>5 DEF TypeInv, TablesOK, ConnectionsOK
<1>7. ConnectionsOK'
  BY <1>3, <1>6 DEF TypeInv, TablesOK, ConnectionsOK, Connected
<1>8. RowsKeep
  BY <1>3 DEF RowsKeep, Connected
<1>9. CASE Goto(w, "delete")
  <2>1. "delete" \in Statements \ (PollStatements \cup {"idle", "token"}) /\ "delete" \notin Connecting
    BY SubscribingIsAside DEF Subscribing
  <2> QED BY <1>2, <1>3, <1>4, <1>7, <1>8, <1>9, <2>1, PlainGotoStep
<1>10. CASE End(w)
  BY <1>2, <1>3, <1>4, <1>7, <1>8, <1>10, PlainEndStep
<1> QED BY <1>9, <1>10 DEF Revoke

LEMMA DeleteStep ==
    ASSUME TypeInv, NEW w \in Workers, Delete(w)
    PROVE  TypeInv' /\ Aside(w)
<1> DEFINE c == job[w].c
<1>1. job[w].at \in Subscribing /\ End(w)
  BY DEF Delete, Subscribing
<1>2. c \in Connections /\ job[w].at \notin Before \cup {"fallback"} \cup Listed
      /\ job[w].at # "idle" /\ job \in [Workers -> Job]
  BY <1>1, HandlerTyped, SubscribingIsAside
<1>3. UNCHANGED <<born, client, issued, grants, clock, mail, box, pushing, pushes,
                  settled, dropped, shared, swapped, uncounted, unheard>>
  BY DEF Delete, providers, history
<1>4. CASE UNCHANGED <<conn, imports, candidates>>
  <2>1. ConnectionsOK' /\ RowsKeep /\ pushing' \subseteq Connections
    BY <1>3, <1>4, NoRowStep DEF TypeInv, TablesOK, OthersOK
  <2> QED BY <1>1, <1>2, <1>3, <1>4, <2>1, PlainEndStep
<1>5. CASE /\ conn' = [conn EXCEPT ![c] = NoConnection]
           /\ Without({k \in Keys : HasImport(k) /\ imports[k].conn = c})
  <2>1. PICK keys \in SUBSET Keys : Without(keys)
    BY <1>5
  <2>2. ImportsOK'
    BY <1>3, <2>1, WithoutStep
  <2>3. /\ conn' \in [Connections -> Connection \cup {NoConnection}] /\ conn'[c] = NoConnection
        /\ \A d \in Connections \ {c} : conn'[d] = conn[d]
    BY <1>2, <1>5 DEF TypeInv, TablesOK, ConnectionsOK
  <2>4. RowsKeep
    BY <2>3 DEF RowsKeep, Connected
  <2>5. ConnectionsOK'
    BY <1>3, <2>3 DEF TypeInv, TablesOK, ConnectionsOK, Connected
  <2>6. MailboxesOK' /\ OthersOK'
    BY <1>3 DEF TypeInv, TablesOK, MailboxesOK, OthersOK
  <2>7. Moves(w) /\ job'[w] = Idle
    BY <1>1, <1>2, EndStep
  <2>8. HandlerOK(job[w])' /\ job'[w].then # "list" /\ job[w].then # "list"
    BY <1>2, <2>7, IdleHandler, NotPolling
  <2>9. Grows
    BY <1>3, NothingGrows
  <2>10. TypeInv'
    BY <2>2, <2>5, <2>6, <2>7, <2>8, <2>9, WorkerStep DEF TablesOK
  <2>11. Aside(w)
    BY <1>3, <2>1, <2>4, <2>7, <2>8 DEF Aside, Onward
  <2> QED BY <2>10, <2>11
<1> QED BY <1>4, <1>5 DEF Delete

-----------------------------------------------------------------------------
(* Requests *)

\* A poll that begins, of a mailbox nobody polls.
Polls(w, c) ==
    /\ Moves(w) /\ ~Polling(c) /\ Connected(c)
    /\ job[w] = Idle /\ job'[w].at = "token" /\ job'[w].then = "list" /\ job'[w].c = c
    /\ job'[w].box = c /\ job'[w].provider \in {"GMAIL", "OUTLOOK"}
    /\ job'[w].cursor \in {0, conn[c].cursor} /\ job'[w].relist = FALSE
    /\ job'[w].ids = {} /\ job'[w].got = {} /\ job'[w].to = 0 /\ job'[w].moved = FALSE
    /\ UNCHANGED <<conn, imports, candidates, issued, grants, clock, mail, box,
                   settled, dropped, shared, swapped, uncounted, unheard, suspect>>
    /\ pushes' \subseteq pushes /\ pushes \subseteq pushes' \cup {c}

LEMMA StartPollStep ==
    ASSUME TypeInv, NEW w \in Workers, NEW c \in Connections,
           StartGmailPoll(w, c) \/ StartOutlookPoll(w, c),
           UNCHANGED <<rows, client, clock, mail, box, grants, issued, pushing, history>>,
           pushes' \subseteq pushes, pushes \subseteq pushes' \cup {c}
    PROVE  TypeInv' /\ Polls(w, c)
<1>1. Connected(c) /\ ~Polling(c) /\ job[w] = Idle
  BY DEF StartGmailPoll, StartOutlookPoll, Begin
<1>2. conn[c].auto \in BOOLEAN /\ conn[c].cursor \in Times /\ 0 \in Times
  BY <1>1, RowOf, MailBoundsAssumption DEF Connection, Times
<1>3. PICK p \in {"GMAIL", "OUTLOOK"}, x \in {0, conn[c].cursor} : Begin(w, Poll(c, p, x))
  BY DEF StartGmailPoll, StartOutlookPoll
<1>4. PICK J : J = Poll(c, p, x)
  OBVIOUS
<1>5. /\ J \in Job /\ J.at = "token" /\ J.c = c /\ J.then = "list" /\ J.ref = 0
      /\ J.provider = p /\ J.cursor = x /\ J.box = c /\ J.relist = FALSE
      /\ J.ids = {} /\ J.got = {} /\ J.to = 0 /\ J.moved = FALSE
  <2>1. x \in Times /\ 0 \in 0..MaxGrants /\ 0 \in Times
    BY <1>2, MailBoundsAssumption
  <2>2. PICK a \in BOOLEAN : a = conn[c].auto
    BY <1>2
  <2>3. J = [at |-> "token", c |-> c, then |-> "list", ref |-> 0, provider |-> p,
             auto |-> a, cursor |-> x, box |-> c, relist |-> FALSE,
             ids |-> {}, got |-> {}, to |-> 0, moved |-> FALSE,
             m |-> None, re |-> FALSE, cv |-> FALSE, who |-> None]
    BY <1>4, <2>2 DEF Poll, Activity, Idle
  <2>4. J \in Job
    BY <2>1, <2>3 DEF Job, Statements, Continuations
  <2> QED BY <2>3, <2>4
<1>6. Moves(w) /\ job'[w] = J
  <2>1. job \in [Workers -> Job] /\ job' = [job EXCEPT ![w] = J]
    BY <1>3, <1>4, HandlerTyped DEF Begin
  <2> QED BY <1>5, <2>1, JobStep
<1>7. UNCHANGED <<conn, imports, candidates, born, issued, grants, clock, mail, box, client,
                  pushing,
                  settled, dropped, shared, swapped, uncounted, unheard, suspect>>
  BY DEF rows, history
<1>8. Polls(w, c)
  BY <1>1, <1>3, <1>5, <1>6, <1>7 DEF Polls
<1>9. ConnectionsOK' /\ ImportsOK' /\ MailboxesOK' /\ client' \in Connections \cup {None}
  BY <1>7, NoRowStep, SameMail
<1>10. TablesOK'
  BY <1>7, <1>9 DEF TypeInv, TablesOK, OthersOK
<1>11. Grows
  BY <1>7, NothingGrows
<1>12. 0 \in 0..issued'[c]
  BY <1>7, MailBoundsAssumption DEF TypeInv, TablesOK, ConnectionsOK
<1>13. HandlerOK(job[w])'
  BY <1>5, <1>6, <1>12, NoneIsNoWord DEF HandlerOK, Before, PollStatements, Connecting, Importing
<1> QED BY <1>6, <1>8, <1>10, <1>11, <1>13, WorkerStep

\* A handler that is no poll begins.
LEMMA IdleBefore ==
    ASSUME TypeInv, NEW w \in Workers, job[w] = Idle
    PROVE  job[w].then # "list" /\ job[w].at = "idle"
BY NoneIsNoWord DEF Idle

LEMMA PlainBeginStep ==
    ASSUME TypeInv, NEW w \in Workers, NEW c \in Connections,
           UNCHANGED <<rows, client, providers, history>>,
           NEW s \in Subscribing \cup {"token"}, NEW t \in (Continuations \ {"list"}) \cup {None},
           s = "token" => t # None,
           Begin(w, Activity(c, s, t))
    PROVE  TypeInv' /\ Aside(w)
<1>1. /\ UNCHANGED <<imports, candidates, born, client, issued, clock, mail, box, pushes,
                     settled, dropped, shared, swapped, uncounted, unheard>>
      /\ ConnectionsOK' /\ RowsKeep
  BY SameButRows DEF providers
<1>2. pushing' \subseteq Connections
  BY DEF providers, TypeInv, TablesOK, OthersOK
<1>3. job[w] = Idle /\ job' = [job EXCEPT ![w] = Activity(c, s, t)]
  BY DEF Begin
<1>4. job[w].at \notin Before \cup {"fallback"} \cup Listed
  BY <1>3, IdleBefore DEF Before, Listed, Refreshing, Deactivating, Importing
<1>5. s \in Statements \ (PollStatements \cup {"idle"} \cup Connecting)
  <2>1. "token" \in Statements \ (PollStatements \cup {"idle"} \cup Connecting)
    BY DEF Statements, PollStatements, Importing, Connecting
  <2> QED BY <2>1, SubscribingIsAside
<1> QED BY <1>1, <1>2, <1>3, <1>4, <1>5, PlainActivityStep

LEMMA RenewRequestSteps ==
    ASSUME TypeInv, NEW w \in Workers, NEW c \in Connections,
           RenewWatch(w, c) \/ RenewSubscription(w, c) \/ Disconnect(w, c)
    PROVE  TypeInv' /\ Aside(w)
<1>1. UNCHANGED <<rows, client, providers, history>>
  BY DEF RenewWatch, RenewSubscription, Disconnect
<1>2. \/ \E s \in {"watch", "renew", "subscribe", "revoke"} : Begin(w, Activity(c, s, None))
      \/ \E t \in {"stop", "unsubscribe"} : Begin(w, Activity(c, "token", t))
  BY DEF RenewWatch, RenewSubscription, Disconnect
<1>3. ASSUME NEW s \in {"watch", "renew", "subscribe", "revoke"}, Begin(w, Activity(c, s, None))
      PROVE  TypeInv' /\ Aside(w)
  <2>1. s \in Subscribing /\ s # "token"
    BY DEF Subscribing
  <2> QED BY <1>1, <1>3, <2>1, PlainBeginStep
<1>4. ASSUME NEW t \in {"stop", "unsubscribe"}, Begin(w, Activity(c, "token", t))
      PROVE  TypeInv' /\ Aside(w)
  <2>1. t \in Continuations \ {"list"} /\ t # None
    BY NoneIsNoWord DEF Continuations
  <2> QED BY <1>1, <1>4, <2>1, PlainBeginStep
<1> QED BY <1>2, <1>3, <1>4

LEMMA CronRefreshStep ==
    ASSUME TypeInv, NEW w \in Workers, NEW c \in Connections, CronRefresh(w, c)
    PROVE  /\ TypeInv' /\ Aside(w)
           /\ job'[w].c = c /\ job'[w].at \in {"refreshGmail", "refreshOutlook"}
           /\ job'[w].ref = conn[c].grant
<1>1. /\ UNCHANGED <<imports, candidates, born, client, issued, clock, mail, box, pushes,
                     settled, dropped, shared, swapped, uncounted, unheard>>
      /\ ConnectionsOK' /\ RowsKeep
  BY SameButRows DEF providers, CronRefresh
<1>2. pushing' \subseteq Connections
  BY DEF CronRefresh, providers, TypeInv, TablesOK, OthersOK
<1>3. /\ job \in [Workers -> Job] /\ job[w] = Idle /\ Connected(c)
      /\ job' = [job EXCEPT ![w] = [Activity(c, RefreshOf(conn[c]), None) EXCEPT !.ref = conn[c].grant]]
  BY HandlerTyped DEF CronRefresh, Begin
<1>4. conn[c].grant \in 0..MaxGrants /\ conn[c].grant \in 0..issued[c]
  BY <1>3, RowOf, MailBoundsAssumption
<1>5. PICK s \in {"refreshGmail", "refreshOutlook"} : s = RefreshOf(conn[c])
  BY DEF RefreshOf
<1>6. PICK r \in 0..MaxGrants : r = conn[c].grant
  BY <1>4
<1>7. PICK J : J = [Activity(c, s, None) EXCEPT !.ref = r]
  OBVIOUS
<1>8. J \in Job /\ J.at = s /\ J.c = c /\ J.then = None /\ J.ref = r
  <2>1. J = [at |-> s, c |-> c, then |-> None, ref |-> r, provider |-> None,
             auto |-> FALSE, cursor |-> 0, box |-> None, relist |-> FALSE,
             ids |-> {}, got |-> {}, to |-> 0, moved |-> FALSE,
             m |-> None, re |-> FALSE, cv |-> FALSE, who |-> None]
    BY <1>7 DEF Activity, Idle
  <2>2. 0 \in Times
    BY MailBoundsAssumption DEF Times
  <2>3. J \in Job
    BY <2>1, <2>2 DEF Job
  <2> QED BY <2>1, <2>3
<1>9. Moves(w) /\ job'[w] = J
  BY <1>3, <1>5, <1>6, <1>7, <1>8, JobStep
<1>10. job[w].at \notin Before \cup {"fallback"} \cup Listed
  BY <1>3, IdleBefore DEF Before, Listed, Refreshing, Deactivating, Importing
<1>11. s \notin PollStatements \cup {"idle", "token"} \cup Connecting
  BY DEF PollStatements, Importing, Connecting
<1> QED BY <1>1, <1>2, <1>4, <1>6, <1>8, <1>9, <1>10, <1>11, PlainStep, NoneIsNoWord

LEMMA ExchangeCodeStep ==
    ASSUME TypeInv, NEW w \in Workers, NEW c \in Connections, NEW p \in {"GMAIL", "OUTLOOK"},
           ExchangeCode(w, c, p)
    PROVE  /\ TypeInv' /\ Aside(w) /\ UNCHANGED <<conn, suspect>>
           /\ job'[w].at = "findConnection"
           /\ \A d \in Connections : \A g \in grants'[d] : g \in grants[d] \/ g > issued[d]
<1>1. UNCHANGED <<conn, imports, candidates, born, client, clock, mail, box, pushing, pushes,
                  settled, dropped, shared, swapped, uncounted, unheard>>
  BY DEF ExchangeCode, rows, history
<1>2. \A d \in Connections : issued[d] \in Nat /\ issued[d] <= MaxGrants /\ grants[d] \subseteq 1..issued[d]
  BY MailBoundsAssumption DEF TypeInv, TablesOK, ConnectionsOK
<1>3. /\ issued' \in [Connections -> 0..MaxGrants] /\ issued'[c] = issued[c] + 1
      /\ issued'[c] \in 1..MaxGrants /\ \A d \in Connections \ {c} : issued'[d] = issued[d]
  BY <1>2, MailBoundsAssumption DEF ExchangeCode, TypeInv, TablesOK, ConnectionsOK
<1>4. \A g \in grants[c] : g \in 1..issued'[c]
  BY <1>2, <1>3
<1>5. grants' = [grants EXCEPT ![c] = @ \cup {issued'[c]}]
  BY DEF ExchangeCode
<1>6. /\ grants' \in [Connections -> SUBSET (1..MaxGrants)]
      /\ \A g \in grants'[c] : g \in grants[c] \/ g = issued'[c]
      /\ \A d \in Connections \ {c} : grants'[d] = grants[d]
  BY <1>3, <1>5 DEF TypeInv, TablesOK, ConnectionsOK
<1>7. \A d \in Connections : grants'[d] \subseteq 1..issued'[d]
  BY <1>2, <1>3, <1>4, <1>6
<1>8. \A d \in Connections : Connected(d)' => conn'[d].grant \in 1..issued'[d]
  <2>1. TAKE d \in Connections
  <2>2. HAVE Connected(d)'
  <2>3. conn'[d] = conn[d] /\ conn[d].grant \in 1..issued[d] /\ issued[d] <= issued'[d]
        /\ issued'[d] \in Nat
    BY <1>1, <1>2, <1>3, <2>2 DEF TypeInv, TablesOK, ConnectionsOK, Connected
  <2> QED BY <1>2, <2>3
<1>9. ConnectionsOK'
  BY <1>1, <1>3, <1>6, <1>7, <1>8 DEF TypeInv, TablesOK, ConnectionsOK
<1>10. ImportsOK' /\ MailboxesOK' /\ client' \in Connections \cup {None}
  BY <1>1, SameMail
<1>11. TablesOK'
  BY <1>1, <1>9, <1>10 DEF TypeInv, TablesOK, OthersOK
<1>12. Grows
  BY <1>1, <1>2, <1>3 DEF Grows, Holds, Arrived
<1>13. RowsKeep
  BY <1>1 DEF RowsKeep, Connected
<1>14. PICK J : J = [Activity(c, "findConnection", None) EXCEPT !.ref = issued'[c], !.provider = p]
  OBVIOUS
<1>15. J \in Job /\ J.at = "findConnection" /\ J.c = c /\ J.then = None /\ J.ref = issued'[c]
  <2>1. J = [at |-> "findConnection", c |-> c, then |-> None, ref |-> issued'[c], provider |-> p,
             auto |-> FALSE, cursor |-> 0, box |-> None, relist |-> FALSE,
             ids |-> {}, got |-> {}, to |-> 0, moved |-> FALSE,
             m |-> None, re |-> FALSE, cv |-> FALSE, who |-> None]
    BY <1>14 DEF Activity, Idle
  <2>2. 0 \in Times /\ issued'[c] \in 0..MaxGrants
    BY <1>3, MailBoundsAssumption DEF Times
  <2>3. J \in Job
    BY <2>1, <2>2 DEF Job
  <2> QED BY <2>1, <2>3
<1>16. job \in [Workers -> Job] /\ job[w] = Idle /\ job' = [job EXCEPT ![w] = J]
  BY <1>14, HandlerTyped DEF ExchangeCode, Begin
<1>17. Moves(w) /\ job'[w] = J
  BY <1>15, <1>16, JobStep
<1>18. HandlerOK(job[w])'
  BY <1>3, <1>15, <1>17, NoneIsNoWord, PlainHandler DEF PollStatements, Importing
<1>19. Onward(w)
  BY <1>15, <1>16, <1>17, IdleBefore, NoneIsNoWord DEF Onward
<1>20. TypeInv' /\ Aside(w)
  BY <1>1, <1>11, <1>12, <1>13, <1>17, <1>18, <1>19, WorkerStep DEF Aside
<1>21. UNCHANGED suspect /\ \A d \in Connections : \A g \in grants'[d] : g \in grants[d] \/ g > issued[d]
  BY <1>2, <1>3, <1>6 DEF ExchangeCode, history
<1> QED BY <1>1, <1>15, <1>17, <1>20, <1>21

\* Whoever comes to connect, refresh, renew or disconnect.
LEMMA AsideRequests ==
    ASSUME TypeInv, NEW w \in Workers, NEW c \in Connections,
           \/ ConnectRequests(w, c) \/ RefreshRequests(w, c)
           \/ WatchRequests(w, c) \/ DisconnectRequests(w, c)
    PROVE  TypeInv' /\ Aside(w)
BY ExchangeCodeStep, CronRefreshStep, RenewRequestSteps
   DEF ConnectRequests, RefreshRequests, WatchRequests, DisconnectRequests, GmailCallback,
       OutlookCallback

\* The statements of the handlers that read no mail.
AsideStatements(w) ==
    \/ Token(w) \/ RefreshGmail(w) \/ RefreshOutlook(w)
    \/ SaveGmailToken(w) \/ SaveOutlookToken(w) \/ DeactivateGmail(w) \/ DeactivateOutlook(w)
    \/ FindConnection(w) \/ ConnectGmail(w) \/ ConnectOutlook(w)
    \/ ReconnectGmail(w) \/ ReconnectOutlook(w)
    \/ Watch(w) \/ CallWatch(w) \/ SaveWatch(w)
    \/ Subscribe(w) \/ CallSubscribe(w) \/ SaveSubscription(w)
    \/ Renew(w) \/ CallRenew(w) \/ SaveRenewal(w)
    \/ StopWatch(w) \/ ClearWatch(w) \/ DeleteSubscription(w) \/ ClearSubscription(w)
    \/ Revoke(w) \/ Delete(w)

LEMMA AsideSteps ==
    ASSUME TypeInv, NEW w \in Workers, AsideStatements(w)
    PROVE  TypeInv' /\ Aside(w)
<1>1. CASE Token(w) \/ RefreshGmail(w) \/ RefreshOutlook(w) \/ SaveGmailToken(w) \/ SaveOutlookToken(w)
  BY <1>1, TokenStep, RefreshGmailStep, RefreshOutlookStep, SaveGmailTokenStep, SaveOutlookTokenStep
<1>2. CASE DeactivateGmail(w) \/ DeactivateOutlook(w)
  BY <1>2, SetInactiveStep DEF DeactivateGmail, DeactivateOutlook, Deactivating
<1>3. CASE FindConnection(w) \/ ConnectGmail(w) \/ ConnectOutlook(w) \/ ReconnectGmail(w)
           \/ ReconnectOutlook(w)
  BY <1>3, FindConnectionStep, ConnectingSteps
<1>4. CASE Watch(w) \/ Subscribe(w)
  BY <1>4, WatchStep DEF Watch, Subscribe
<1>5. CASE CallWatch(w) \/ CallSubscribe(w) \/ StopWatch(w) \/ DeleteSubscription(w)
  <2>1. \E next \in Subscribing : Pushes(w, next) \/ Stops(w, next)
    BY <1>5 DEF CallWatch, CallSubscribe, StopWatch, DeleteSubscription, Subscribing
  <2>2. job[w].at \in Subscribing
    BY <1>5 DEF CallWatch, CallSubscribe, StopWatch, DeleteSubscription, Subscribing
  <2> QED BY <2>1, <2>2, PushesStep
<1>6. CASE SaveWatch(w) \/ SaveSubscription(w) \/ SaveRenewal(w)
  BY <1>6, SavingSteps
<1>7. CASE Renew(w) \/ CallRenew(w)
  BY <1>7, RenewalSteps
<1>8. CASE ClearWatch(w) \/ ClearSubscription(w)
  BY <1>8, ClearingSteps
<1>9. CASE Revoke(w) \/ Delete(w)
  BY <1>9, RevokeStep, DeleteStep
<1> QED BY <1>1, <1>2, <1>3, <1>4, <1>5, <1>6, <1>7, <1>8, <1>9 DEF AsideStatements

\* A notification that starts no poll.
Missed(c) ==
    /\ pushes' = pushes \ {c} /\ unheard' = unheard \cup {c}
    /\ UNCHANGED <<rows, job, client, clock, mail, box, grants, issued, pushing,
                   settled, dropped, shared, swapped, uncounted, suspect>>

LEMMA MissedStep ==
    ASSUME TypeInv, NEW c \in Connections, Missed(c)
    PROVE  TypeInv'
<1>1. UNCHANGED <<conn, imports, candidates, born, job, client, issued, grants, clock, mail, box,
                  pushing>>
      /\ pushes' \subseteq pushes
  BY DEF Missed, rows
<1>2. ConnectionsOK' /\ ImportsOK' /\ MailboxesOK' /\ client' \in Connections \cup {None} /\ Grows
  BY <1>1, NoRowStep, SameMail, NothingGrows
<1>3. TablesOK'
  BY <1>1, <1>2 DEF TypeInv, TablesOK, OthersOK
<1> QED BY <1>1, <1>2, <1>3, EventStep

LEMMA PollRequestSteps ==
    ASSUME TypeInv, NEW w \in Workers, NEW c \in Connections, PollRequests(w, c)
    PROVE  TypeInv' /\ (Polls(w, c) \/ Missed(c))
<1>1. CASE CronRequests(w, c) \/ SyncRequests(w, c)
  <2>1. /\ StartGmailPoll(w, c) \/ StartOutlookPoll(w, c)
        /\ UNCHANGED <<rows, client, providers, history>>
    BY <1>1 DEF CronRequests, SyncRequests, GmailCron, OutlookCron, SyncConnection, SyncGmail,
                SyncOutlook
  <2>2. /\ UNCHANGED <<rows, client, clock, mail, box, grants, issued, pushing, history>>
        /\ pushes' \subseteq pushes /\ pushes \subseteq pushes' \cup {c}
    BY <2>1 DEF providers
  <2> QED BY <2>1, <2>2, StartPollStep
<1>2. CASE PushRequests(w, c)
  <2>1. PICK known \in BOOLEAN : \/ Notified(c, known, StartGmailPoll(w, c))
                                 \/ Notified(c, known, StartOutlookPoll(w, c))
    BY <1>2 DEF PushRequests, TakeGmailPush, TakeOutlookPush
  <2>2. \/ Missed(c)
        \/ /\ StartGmailPoll(w, c) \/ StartOutlookPoll(w, c)
           /\ UNCHANGED unheard /\ pushes' = pushes \ {c}
           /\ UNCHANGED <<rows, client, clock, mail, box, grants, issued, pushing,
                          settled, dropped, shared, swapped, uncounted, suspect>>
    BY <2>1 DEF Notified, Missed
  <2>3. CASE Missed(c)
    BY <2>3, MissedStep
  <2>4. CASE ~Missed(c)
    <3>1. /\ UNCHANGED <<rows, client, clock, mail, box, grants, issued, pushing, history>>
          /\ pushes' \subseteq pushes /\ pushes \subseteq pushes' \cup {c}
      BY <2>2, <2>4 DEF history
    <3> QED BY <2>2, <2>4, <3>1, StartPollStep
  <2> QED BY <2>3, <2>4
<1> QED BY <1>1, <1>2 DEF PollRequests

-----------------------------------------------------------------------------
(* Polling *)

LEMMA LeastExists ==
    ASSUME NEW S, \A x \in S : x \in Nat, S # {}
    PROVE  \E x \in S : \A y \in S : x <= y
<1> DEFINE R == OpToRel(<, Nat)
<1>1. IsWellFoundedOn(R, Nat)
  BY NatLessThanWellFounded
<1>2. \A x, y \in Nat : x < y => <<x, y>> \in R
  BY DEF OpToRel
<1> HIDE DEF R
<1>3. PICK x \in S : \A y \in S : <<y, x>> \notin R
  BY <1>1, WFMin
<1>4. ASSUME NEW y \in S PROVE x <= y
  <2>1. x \in Nat /\ y \in Nat
    BY <1>3
  <2>2. ~(y < x)
    BY <1>2, <1>3, <2>1
  <2> QED BY <2>1, <2>2
<1> QED BY <1>3, <1>4

LEMMA GreatestExists ==
    ASSUME NEW n \in Nat, NEW S, \A x \in S : x \in 0..n, S # {}
    PROVE  \E x \in S : \A y \in S : x >= y
<1>1. PICK T : T = {n - x : x \in S}
  OBVIOUS
<1>2. \A t \in T : t \in Nat
  BY <1>1
<1>3. T # {}
  BY <1>1
<1>4. PICK t \in T : \A u \in T : t <= u
  BY <1>2, <1>3, LeastExists
<1>5. PICK x \in S : t = n - x
  BY <1>1, <1>4
<1>6. ASSUME NEW y \in S PROVE x >= y
  <2>1. n - y \in T
    BY <1>1
  <2> QED BY <1>4, <1>5, <2>1
<1> QED BY <1>5, <1>6

LEMMA Arrivals ==
    ASSUME TypeInv, NEW c \in Connections, NEW m \in Mails
    PROVE  /\ Arrived(c, m) \in Times /\ box[c][m].last \in Times /\ box[c][m] \in Copy
           /\ clock \in Times /\ MaxClock \in Nat
           /\ Arrived(c, m) <= box[c][m].last /\ box[c][m].last <= clock
           /\ Arrived(c, m) # 0 => mail[m] # NotSent
BY MailBoundsAssumption DEF TypeInv, TablesOK, MailboxesOK, Copy, Arrived

\* The message a poll takes first is one of those at hand: the newest of a list of
\* Gmail's, else the oldest.
LEMMA FirstIsOne ==
    ASSUME TypeInv, NEW j, j.box \in Connections, NEW ms \in SUBSET Mails, ms # {}
    PROVE  /\ First(j, ms) \in ms
           /\ ~(j.relist /\ j.provider = "GMAIL") =>
                 \A n \in ms : Arrived(j.box, First(j, ms)) <= Arrived(j.box, n)
<1>1. PICK S : S = {Arrived(j.box, m) : m \in ms}
  OBVIOUS
<1>2. \A x \in S : x \in 0..MaxClock
  BY <1>1, Arrivals DEF Times
<1>3. MaxClock \in Nat /\ S # {}
  BY <1>1, MailBoundsAssumption
<1>4. CASE j.relist /\ j.provider = "GMAIL"
  <2>1. PICK x \in S : \A y \in S : x >= y
    BY <1>2, <1>3, GreatestExists
  <2>2. PICK m \in ms : x = Arrived(j.box, m)
    BY <1>1, <2>1
  <2>3. \A n \in ms : Arrived(j.box, m) >= Arrived(j.box, n)
    BY <1>1, <2>1, <2>2
  <2> QED BY <1>4, <2>3 DEF First
<1>5. CASE ~(j.relist /\ j.provider = "GMAIL")
  <2>1. PICK x \in S : \A y \in S : x <= y
    BY <1>2, <1>3, LeastExists
  <2>2. PICK m \in ms : x = Arrived(j.box, m)
    BY <1>1, <2>1
  <2>3. \A n \in ms : Arrived(j.box, m) <= Arrived(j.box, n)
    BY <1>1, <2>1, <2>2
  <2>4. First(j, ms) = CHOOSE y \in ms : \A n \in ms : Arrived(j.box, y) <= Arrived(j.box, n)
    BY <1>5 DEF First
  <2> QED BY <2>3, <2>4
<1> QED BY <1>4, <1>5

\* What a list holds is mail of the mailbox listed.
LEMMA ListsHold ==
    ASSUME NEW c
    PROVE  /\ Holds(c) \subseteq Mails /\ Inbox(c) \subseteq Holds(c) /\ Unread(c) \subseteq Holds(c)
           /\ \A ms : Oldest(c, ms) \subseteq ms /\ Newest(c, ms) \subseteq ms
           /\ \A x : Since(c, x) \subseteq Inbox(c) /\ ForwardOnly(c, x) \subseteq Inbox(c)
BY DEF Holds, Inbox, Unread, Oldest, Newest, Since, ForwardOnly

\* A statement of a poll.
LEMMA ReadStep ==
    ASSUME TypeInv, NEW w \in Workers, Moves(w), HandlerOK(job[w])',
           UNCHANGED <<issued, clock, mail, box, pushing, pushes>>,
           ConnectionsOK', ImportsOK', client' \in Connections \cup {None},
           client # None => client' # None
    PROVE  TypeInv'
<1>1. Grows
  <2>1. \A c \in Connections : issued[c] \in Nat
    BY MailBoundsAssumption DEF TypeInv, TablesOK, ConnectionsOK
  <2>2. \A c \in Connections : Holds(c)' = Holds(c)
    BY DEF Holds, Arrived
  <2> QED BY <2>1, <2>2 DEF Grows
<1>2. MailboxesOK'
  BY DEF TypeInv, TablesOK, MailboxesOK
<1>3. TablesOK'
  BY <1>2 DEF TypeInv, TablesOK, OthersOK
<1> QED BY <1>1, <1>3, WorkerStep

\* A poll goes on, of the same connection.
Goes(w, s) ==
    /\ Moves(w) /\ job[w].then = "list" /\ job'[w].then = "list" /\ job'[w].at = s
    /\ job'[w].c = job[w].c /\ job'[w].provider = job[w].provider /\ job'[w].ref = job[w].ref

LEMMA GoesHandler ==
    ASSUME TypeInv, NEW w \in Workers, NEW s \in Listed, Goes(w, s), job[w].at # "idle",
           UNCHANGED <<box, issued>>,
           job'[w].box \in Connections, job'[w].ids \cup job'[w].got \subseteq Holds(job'[w].box),
           s # "get" => job'[w].ids = {}, s = "cursor" => job'[w].got = {},
           s \in Importing => job'[w].m \in Holds(job'[w].box)
    PROVE  HandlerOK(job[w])'
<1>1. /\ job[w] \in Job /\ HandlerOK(job[w]) /\ job[w].c \in Connections
      /\ job[w].ref \in 0..issued[job[w].c]
  BY HandlerTyped
<1>2. \A d \in Connections : Holds(d)' = Holds(d)
  BY DEF Holds, Arrived
<1>3. s \notin Before \cup {"fallback", "idle"} \cup Connecting
  BY DEF Listed, Before, Refreshing, Deactivating, Connecting, Importing
<1>4. s = "cursor" \/ s \in {"get", "each"} \cup Importing
  BY DEF Listed
<1>5. s # "token"
  BY <1>3 DEF Before
<1>6. job[w].provider \in {"GMAIL", "OUTLOOK"}
  BY <1>1 DEF Goes, HandlerOK
<1>7. /\ job'[w].provider \in {"GMAIL", "OUTLOOK"} /\ job'[w].c \in Connections
      /\ job'[w].ref \in 0..issued'[job'[w].c] /\ job'[w].at = s /\ job'[w].then = "list"
  BY <1>1, <1>6 DEF Goes
<1>8. PICK b \in Connections : b = job'[w].box
  OBVIOUS
<1>9. job'[w].ids \cup job'[w].got \subseteq Holds(b)' /\ (s \in Importing => job'[w].m \in Holds(b)')
  BY <1>2, <1>8
<1>10. "list" # None
  BY NoneIsNoWord
<1> QED BY <1>3, <1>4, <1>5, <1>7, <1>8, <1>9, <1>10 DEF HandlerOK

\* A poll that ends early, to the notice of the next.
Quits(w) ==
    /\ Moves(w) /\ job[w].then = "list" /\ job'[w].then # "list"
    /\ job'[w].at \in {"idle", "clear", "clearSubscription"}
    /\ unheard' = unheard \cup {job[w].c}

LEMMA QuitsStep ==
    ASSUME TypeInv, NEW w \in Workers, job[w].at \in PollStatements, Abort(w), UNCHANGED issued
    PROVE  Quits(w) /\ HandlerOK(job[w])'
<1>1. job[w].at # "idle" /\ job[w].then = "list"
  BY HandlerTyped DEF HandlerOK, PollStatements, Importing
<1>2. /\ Moves(w) /\ HandlerOK(job[w])' /\ job'[w].then # "list"
      /\ job'[w].at \in {"idle", "clear", "clearSubscription"}
  BY <1>1, AbortStep
<1> QED BY <1>1, <1>2 DEF Quits, Abort, IsPoll

LEMMA PollingTables ==
    ASSUME TypeInv, UNCHANGED <<rows, providers>>
    PROVE  /\ UNCHANGED <<conn, imports, candidates, born, issued, grants, clock, mail, box,
                          pushing, pushes>>
           /\ ConnectionsOK' /\ ImportsOK'
BY DEF TypeInv, TablesOK, ConnectionsOK, ImportsOK, Connected, HasImport, rows, providers

\* The history is listed from the cursor.
ListsHistory(w) ==
    LET c == job[w].c
        news == Since(c, job[w].cursor)
    IN
    /\ Goes(w, "get") /\ job[w].cursor # 0
    /\ job'[w].cursor = 0 /\ job'[w].ids = Oldest(c, news)
    /\ job'[w].box = job[w].box /\ job'[w].relist = job[w].relist /\ job'[w].got = job[w].got
    /\ job'[w].to = job[w].to /\ job'[w].moved = job[w].moved
    /\ Heard(c, Cardinality(news) <= Page)

\* The newest unread mail of d is listed.
ListsUnread(w, d) ==
    /\ Goes(w, "get") /\ job'[w].relist = TRUE /\ job'[w].box = d
    /\ job'[w].ids = Newest(d, Unread(d))
    /\ job'[w].cursor = job[w].cursor /\ job'[w].got = job[w].got
    /\ job'[w].to = job[w].to /\ job'[w].moved = job[w].moved
    /\ Heard(job[w].c, d = job[w].c /\ Inbox(d) \subseteq Newest(d, Unread(d)))

FallsBack(w) ==
    /\ Goes(w, "fallback") /\ job'[w].cursor = 0
    /\ job'[w].box = job[w].box /\ job'[w].relist = job[w].relist
    /\ job'[w].ids = job[w].ids /\ job'[w].got = job[w].got
    /\ job'[w].to = job[w].to /\ job'[w].moved = job[w].moved
    /\ UNCHANGED unheard

LEMMA ListGmailStep ==
    ASSUME TypeInv, NEW w \in Workers, ListGmail(w)
    PROVE  /\ TypeInv'
           /\ job[w].at = "list" /\ job[w].provider = "GMAIL" /\ job[w].then = "list"
           /\ Quits(w) \/ ListsHistory(w) \/ FallsBack(w) \/ ListsUnread(w, job[w].c)
<1> DEFINE c == job[w].c
           j == job[w]
<1>1. /\ job \in [Workers -> Job] /\ j \in Job /\ c \in Connections /\ j.at = "list"
      /\ j.then = "list" /\ j.provider = "GMAIL" /\ j.box = c /\ j.got = {} /\ j.ids = {}
  BY HandlerTyped DEF ListGmail, HandlerOK, PollStatements, Before, Importing
<1>2. UNCHANGED <<rows, providers>> /\ client' = c
  BY DEF ListGmail
<1>3. /\ UNCHANGED <<conn, imports, candidates, born, issued, grants, clock, mail, box, pushing,
                     pushes>>
      /\ ConnectionsOK' /\ ImportsOK'
  BY <1>2, PollingTables
<1>4. client' \in Connections \cup {None} /\ client' # None
  BY <1>1, <1>2, NoneAssumption
<1>5. ASSUME Moves(w), HandlerOK(job[w])' PROVE TypeInv'
  BY <1>3, <1>4, <1>5, ReadStep
<1>6. "get" \in Statements /\ "fallback" \in Statements /\ "get" \in Listed /\ 0 \in Times
      /\ TRUE \in BOOLEAN
  BY MailBoundsAssumption DEF Statements, PollStatements, Listed, Times
<1>7. "get" \notin Importing
  BY DEF Importing
<1>8. ASSUME j.cursor # 0,
             job' = [job EXCEPT ![w].at = "get", ![w].cursor = 0, ![w].ids = Oldest(c, Since(c, j.cursor))],
             Heard(c, Cardinality(Since(c, j.cursor)) <= Page)
      PROVE  TypeInv' /\ ListsHistory(w)
  <2>1. PICK ids : ids = Oldest(c, Since(c, j.cursor))
    OBVIOUS
  <2>2. ids \subseteq Holds(c) /\ ids \in SUBSET Mails
    BY <2>1, ListsHold
  <2>3. PICK H : H = [j EXCEPT !.at = "get"]
    OBVIOUS
  <2>4. PICK I : I = [H EXCEPT !.cursor = 0]
    OBVIOUS
  <2>5. PICK J : J = [I EXCEPT !.ids = ids]
    OBVIOUS
  <2>6. H \in Job
    BY <1>1, <1>6, <2>3 DEF Job, Statements
  <2>7. I \in Job
    BY <1>6, <2>4, <2>6 DEF Job
  <2>8. J \in Job
    BY <2>2, <2>5, <2>7 DEF Job
  <2>9. J = [j EXCEPT !.at = "get", !.cursor = 0, !.ids = ids]
    BY <1>1, <2>3, <2>4, <2>5 DEF Job
  <2>10. job' = [job EXCEPT ![w] = J]
    BY <1>8, <2>1, <2>9
  <2>11. Moves(w) /\ job'[w] = J
    BY <1>1, <2>8, <2>10, JobStep
  <2>12. /\ J.at = "get" /\ J.cursor = 0 /\ J.ids = ids /\ J.c = c /\ J.then = j.then
         /\ J.provider = j.provider /\ J.ref = j.ref /\ J.box = j.box /\ J.relist = j.relist
         /\ J.got = j.got /\ J.to = j.to /\ J.moved = j.moved
    BY <1>1, <2>9 DEF Job
  <2>13. Goes(w, "get")
    BY <1>1, <2>11, <2>12 DEF Goes
  <2>14. HandlerOK(job[w])'
    BY <1>1, <1>3, <1>6, <1>7, <2>2, <2>11, <2>12, <2>13, GoesHandler
  <2> QED BY <1>5, <1>8, <2>1, <2>11, <2>12, <2>13, <2>14 DEF ListsHistory
<1>9. ASSUME job' = [job EXCEPT ![w].at = "fallback", ![w].cursor = 0], UNCHANGED unheard
      PROVE  TypeInv' /\ FallsBack(w)
  <2>1. PICK H : H = [j EXCEPT !.at = "fallback"]
    OBVIOUS
  <2>2. PICK J : J = [H EXCEPT !.cursor = 0]
    OBVIOUS
  <2>3. H \in Job
    BY <1>1, <1>6, <2>1 DEF Job, Statements
  <2>4. J \in Job
    BY <1>6, <2>2, <2>3 DEF Job
  <2>5. J = [j EXCEPT !.at = "fallback", !.cursor = 0]
    BY <1>1, <2>1, <2>2 DEF Job
  <2>6. job' = [job EXCEPT ![w] = J]
    BY <1>9, <2>5
  <2>7. Moves(w) /\ job'[w] = J
    BY <1>1, <2>4, <2>6, JobStep
  <2>8. /\ J.at = "fallback" /\ J.cursor = 0 /\ J.ids = j.ids /\ J.c = c /\ J.then = j.then
        /\ J.provider = j.provider /\ J.ref = j.ref /\ J.box = j.box /\ J.relist = j.relist
        /\ J.got = j.got /\ J.to = j.to /\ J.moved = j.moved
    BY <1>1, <2>5 DEF Job
  <2>9. FallsBack(w)
    BY <1>1, <1>9, <2>7, <2>8 DEF FallsBack, Goes
  <2>10. "fallback" \notin Importing \cup Connecting
    BY DEF Importing, Connecting
  <2>11. j.ref \in 0..issued'[c]
    BY <1>1, <1>3, HandlerTyped
  <2>12. HandlerOK(job[w])'
    BY <1>1, <1>4, <2>7, <2>8, <2>10, <2>11 DEF HandlerOK
  <2> QED BY <1>5, <2>7, <2>9, <2>12
<1>10. ASSUME job' = [job EXCEPT ![w].at = "get", ![w].relist = TRUE, ![w].ids = Newest(c, Unread(c))],
              Heard(c, Inbox(c) \subseteq Newest(c, Unread(c)))
       PROVE  TypeInv' /\ ListsUnread(w, c)
  <2>1. PICK ids : ids = Newest(c, Unread(c))
    OBVIOUS
  <2>2. ids \subseteq Holds(c) /\ ids \in SUBSET Mails
    BY <2>1, ListsHold
  <2>3. PICK H : H = [j EXCEPT !.at = "get"]
    OBVIOUS
  <2>4. PICK I : I = [H EXCEPT !.relist = TRUE]
    OBVIOUS
  <2>5. PICK J : J = [I EXCEPT !.ids = ids]
    OBVIOUS
  <2>6. H \in Job
    BY <1>1, <1>6, <2>3 DEF Job, Statements
  <2>7. I \in Job
    BY <2>4, <2>6, ZenonT(40) DEF Job
  <2>8. J \in Job
    BY <2>2, <2>5, <2>7 DEF Job
  <2>9. J = [j EXCEPT !.at = "get", !.relist = TRUE, !.ids = ids]
    BY <1>1, <2>3, <2>4, <2>5 DEF Job
  <2>10. job' = [job EXCEPT ![w] = J]
    BY <1>10, <2>1, <2>9
  <2>11. Moves(w) /\ job'[w] = J
    BY <1>1, <2>8, <2>10, JobStep
  <2>12. /\ J.at = "get" /\ J.cursor = j.cursor /\ J.ids = ids /\ J.c = c /\ J.then = j.then
         /\ J.provider = j.provider /\ J.ref = j.ref /\ J.box = j.box /\ J.relist = TRUE
         /\ J.got = j.got /\ J.to = j.to /\ J.moved = j.moved
    BY <1>1, <2>9 DEF Job
  <2>13. Goes(w, "get")
    BY <1>1, <2>11, <2>12 DEF Goes
  <2>14. HandlerOK(job[w])'
    BY <1>1, <1>3, <1>6, <1>7, <2>2, <2>11, <2>12, <2>13, GoesHandler
  <2> QED BY <1>1, <1>5, <1>10, <2>1, <2>11, <2>12, <2>13, <2>14 DEF ListsUnread
<1>11. CASE Abort(w)
  <2>1. Quits(w) /\ HandlerOK(job[w])'
    BY <1>1, <1>3, <1>11, QuitsStep DEF PollStatements
  <2> QED BY <1>1, <1>5, <2>1 DEF Quits
<1> QED BY <1>1, <1>8, <1>9, <1>10, <1>11 DEF ListGmail

LEMMA FallbackStep ==
    ASSUME TypeInv, NEW w \in Workers, Fallback(w)
    PROVE  /\ TypeInv'
           /\ job[w].at = "fallback" /\ job[w].then = "list" /\ job[w].provider = "GMAIL"
           /\ \/ Quits(w) /\ UNCHANGED swapped
              \/ /\ ListsUnread(w, client)
                 /\ swapped' = IF client = job[w].c THEN swapped ELSE swapped \cup ({client} \X Mails)
<1> DEFINE c == job[w].c
           j == job[w]
<1>1. /\ job \in [Workers -> Job] /\ j \in Job /\ c \in Connections /\ j.at = "fallback"
      /\ j.then = "list" /\ j.provider = "GMAIL" /\ j.box = c /\ j.got = {} /\ j.ids = {}
      /\ client \in Connections
  BY HandlerTyped DEF Fallback, HandlerOK, PollStatements, Before, Importing, TablesOK, OthersOK
<1>2. UNCHANGED <<rows, providers, client>>
  BY DEF Fallback
<1>3. /\ UNCHANGED <<conn, imports, candidates, born, issued, grants, clock, mail, box, pushing,
                     pushes>>
      /\ ConnectionsOK' /\ ImportsOK'
  BY <1>2, PollingTables
<1>4. ASSUME Moves(w), HandlerOK(job[w])' PROVE TypeInv'
  BY <1>1, <1>2, <1>3, <1>4, ReadStep
<1>5. "get" \in Statements /\ "get" \in Listed /\ TRUE \in BOOLEAN /\ "get" \notin Importing
  BY DEF Statements, PollStatements, Listed, Importing
<1>6. PICK d \in Connections : d = client
  BY <1>1
<1>7. ASSUME job' = [job EXCEPT ![w].at = "get", ![w].relist = TRUE, ![w].box = d,
                                ![w].ids = Newest(d, Unread(d))],
             Heard(c, d = c /\ Inbox(d) \subseteq Newest(d, Unread(d)))
      PROVE  TypeInv' /\ ListsUnread(w, d)
  <2>1. PICK ids : ids = Newest(d, Unread(d))
    OBVIOUS
  <2>2. ids \subseteq Holds(d) /\ ids \in SUBSET Mails
    BY <2>1, ListsHold
  <2>3. PICK H : H = [j EXCEPT !.at = "get"]
    OBVIOUS
  <2>4. PICK I : I = [H EXCEPT !.relist = TRUE]
    OBVIOUS
  <2>5. PICK K : K = [I EXCEPT !.box = d]
    OBVIOUS
  <2>6. PICK J : J = [K EXCEPT !.ids = ids]
    OBVIOUS
  <2>7. H \in Job
    BY <1>1, <1>5, <2>3 DEF Job, Statements
  <2>8. I \in Job
    BY <2>4, <2>7, ZenonT(40) DEF Job
  <2>9. K \in Job
    BY <2>5, <2>8 DEF Job
  <2>10. J \in Job
    BY <2>2, <2>6, <2>9 DEF Job
  <2>11. J = [j EXCEPT !.at = "get", !.relist = TRUE, !.box = d, !.ids = ids]
    BY <1>1, <2>3, <2>4, <2>5, <2>6 DEF Job
  <2>12. job' = [job EXCEPT ![w] = J]
    BY <1>7, <2>1, <2>11
  <2>13. Moves(w) /\ job'[w] = J
    BY <1>1, <2>10, <2>12, JobStep
  <2>14. /\ J.at = "get" /\ J.cursor = j.cursor /\ J.ids = ids /\ J.c = c /\ J.then = j.then
         /\ J.provider = j.provider /\ J.ref = j.ref /\ J.box = d /\ J.relist = TRUE
         /\ J.got = j.got /\ J.to = j.to /\ J.moved = j.moved
    BY <1>1, <2>11 DEF Job
  <2>15. Goes(w, "get")
    BY <1>1, <2>13, <2>14 DEF Goes
  <2>16. HandlerOK(job[w])'
    BY <1>1, <1>3, <1>5, <2>2, <2>13, <2>14, <2>15, GoesHandler
  <2> QED BY <1>1, <1>4, <1>7, <2>1, <2>13, <2>14, <2>15, <2>16 DEF ListsUnread
<1>8. CASE Abort(w) /\ UNCHANGED swapped
  <2>1. Quits(w) /\ HandlerOK(job[w])'
    BY <1>1, <1>3, <1>8, QuitsStep DEF PollStatements
  <2> QED BY <1>1, <1>4, <1>8, <2>1 DEF Quits
<1> QED BY <1>1, <1>6, <1>7, <1>8 DEF Fallback

\* The oldest message listed is got.
Gets(w, m) ==
    LET j == job[w] IN
    /\ Goes(w, "get") /\ m \in j.ids
    /\ job'[w].ids = j.ids \ {m} /\ job'[w].got = j.got \cup {m}
    /\ job'[w].to = box[j.box][m].last /\ job'[w].moved = (box[j.box][m].last # Arrived(j.box, m))
    /\ job'[w].cursor = j.cursor /\ job'[w].box = j.box /\ job'[w].relist = j.relist
    /\ UNCHANGED dropped

\* It cannot be read.
LeavesOut(w, m) ==
    LET j == job[w] IN
    /\ Goes(w, "get") /\ m \in j.ids
    /\ job'[w].ids = j.ids \ {m} /\ job'[w].got = j.got /\ job'[w].to = j.to
    /\ job'[w].moved = j.moved
    /\ job'[w].cursor = j.cursor /\ job'[w].box = j.box /\ job'[w].relist = j.relist
    /\ dropped' = IF j.box = j.c THEN dropped \cup {<<j.c, m>>} ELSE dropped

\* Nothing is left to do at this statement.
Passes(w, s) ==
    /\ Goes(w, s) /\ Carries(w)
    /\ job[w].ids = {} /\ (s = "cursor" => job[w].got = {})
    /\ UNCHANGED dropped

LEMMA PassesStep ==
    ASSUME TypeInv, NEW w \in Workers, NEW s \in {"each", "cursor"}, Goto(w, s),
           job[w].at \in {"get", "each"}, job[w].ids = {}, s = "cursor" => job[w].got = {},
           UNCHANGED <<box, issued, dropped>>
    PROVE  Passes(w, s) /\ HandlerOK(job[w])'
<1>1. /\ job \in [Workers -> Job] /\ job[w] \in Job /\ job[w].then = "list"
      /\ job[w].box \in Connections /\ job[w].ids \cup job[w].got \subseteq Holds(job[w].box)
  BY HandlerTyped DEF HandlerOK, PollStatements
<1>2. s \in Statements /\ s \in Listed /\ s \notin Importing /\ s # "get" /\ job[w].at # "idle"
  BY DEF Statements, PollStatements, Listed, Importing
<1>3. Moves(w) /\ job'[w].at = s /\ Carries(w)
  BY <1>1, <1>2, GotoStep
<1>4. Passes(w, s)
  BY <1>1, <1>3 DEF Passes, Goes, Carries
<1>5. HandlerOK(job[w])'
  BY <1>1, <1>2, <1>4, GoesHandler DEF Passes, Carries
<1> QED BY <1>4, <1>5

LEMMA GetMessageStep ==
    ASSUME TypeInv, NEW w \in Workers, GetMessage(w)
    PROVE  /\ TypeInv'
           /\ job[w].at = "get" /\ job[w].then = "list"
           /\ \/ Passes(w, "each")
              \/ \E m \in Mails : /\ Gets(w, m) \/ LeavesOut(w, m)
                                  /\ ~(job[w].relist /\ job[w].provider = "GMAIL") =>
                                       \A n \in job[w].ids :
                                          Arrived(job[w].box, m) <= Arrived(job[w].box, n)
<1> DEFINE c == job[w].c
           j == job[w]
<1>1. /\ job \in [Workers -> Job] /\ j \in Job /\ c \in Connections /\ j.at = "get"
      /\ j.then = "list" /\ j.box \in Connections /\ j.ids \cup j.got \subseteq Holds(j.box)
      /\ j.ids \in SUBSET Mails /\ j.got \in SUBSET Mails
  BY HandlerTyped, JobFields DEF GetMessage, HandlerOK, PollStatements
<1>2. UNCHANGED <<rows, providers, client>> /\ client' \in Connections \cup {None}
  BY DEF GetMessage, TypeInv, TablesOK, OthersOK
<1>3. /\ UNCHANGED <<conn, imports, candidates, born, issued, grants, clock, mail, box, pushing,
                     pushes>>
      /\ ConnectionsOK' /\ ImportsOK'
  BY <1>2, PollingTables
<1>4. ASSUME Moves(w), HandlerOK(job[w])' PROVE TypeInv'
  BY <1>2, <1>3, <1>4, ReadStep
<1>5. "get" \in Listed /\ "get" \notin Importing /\ "get" # "cursor"
  BY DEF Listed, Importing
<1>6. CASE j.ids = {} /\ Goto(w, "each") /\ UNCHANGED dropped
  <2>1. Passes(w, "each") /\ HandlerOK(job[w])'
    BY <1>1, <1>3, <1>6, PassesStep
  <2> QED BY <1>1, <1>4, <2>1 DEF Passes, Goes
<1>7. PICK m : m = First(j, j.ids)
  OBVIOUS
<1>8. ASSUME j.ids # {}
      PROVE  /\ m \in j.ids /\ m \in Mails /\ box[j.box][m].last \in Times
             /\ ~(j.relist /\ j.provider = "GMAIL") =>
                    \A n \in j.ids : Arrived(j.box, m) <= Arrived(j.box, n)
  BY <1>1, <1>7, <1>8, FirstIsOne, Arrivals
<1>9. PICK T : T = [j EXCEPT !.ids = j.ids \ {m}]
  OBVIOUS
<1>10. T \in Job
  BY <1>1, <1>9 DEF Job
<1>11. ASSUME j.ids # {}, job' = [job EXCEPT ![w] = T],
              dropped' = IF j.box = c THEN dropped \cup {<<c, m>>} ELSE dropped
       PROVE  TypeInv' /\ LeavesOut(w, m)
  <2>1. Moves(w) /\ job'[w] = T
    BY <1>1, <1>10, <1>11, JobStep
  <2>2. /\ T.at = "get" /\ T.cursor = j.cursor /\ T.ids = j.ids \ {m} /\ T.c = c /\ T.then = j.then
        /\ T.provider = j.provider /\ T.ref = j.ref /\ T.box = j.box /\ T.relist = j.relist
        /\ T.got = j.got /\ T.to = j.to /\ T.moved = j.moved
    BY <1>1, <1>9 DEF Job
  <2>3. Goes(w, "get")
    BY <1>1, <2>1, <2>2 DEF Goes
  <2>4. HandlerOK(job[w])'
    BY <1>1, <1>3, <1>5, <2>1, <2>2, <2>3, GoesHandler
  <2> QED BY <1>4, <1>8, <1>11, <2>1, <2>2, <2>3, <2>4 DEF LeavesOut
<1>12. ASSUME j.ids # {}, UNCHANGED dropped,
              job' = [job EXCEPT ![w] = [T EXCEPT !.got = @ \cup {m},
                                                  !.to = box[j.box][m].last,
                                                  !.moved = box[j.box][m].last # Arrived(j.box, m)]]
       PROVE  TypeInv' /\ Gets(w, m)
  <2>1. PICK last \in Times : last = box[j.box][m].last
    BY <1>8, <1>12
  <2>2. PICK moved \in BOOLEAN : moved = (last # Arrived(j.box, m))
    OBVIOUS
  <2>3. PICK got \in SUBSET Mails : got = j.got \cup {m}
    BY <1>1, <1>8, <1>12
  <2>4. T.got = j.got
    BY <1>1, <1>9 DEF Job
  <2>5. PICK H : H = [T EXCEPT !.got = got]
    OBVIOUS
  <2>6. PICK I : I = [H EXCEPT !.to = last]
    OBVIOUS
  <2>7. PICK J : J = [I EXCEPT !.moved = moved]
    OBVIOUS
  <2>8. H \in Job
    BY <1>10, <2>5 DEF Job
  <2>9. I \in Job
    BY <2>6, <2>8 DEF Job
  <2>10. J \in Job
    BY <2>7, <2>9 DEF Job
  <2>11. J = [T EXCEPT !.got = got, !.to = last, !.moved = moved]
    BY <1>10, <2>5, <2>6, <2>7 DEF Job
  <2>12. job' = [job EXCEPT ![w] = J]
    BY <1>10, <1>12, <2>1, <2>2, <2>3, <2>4, <2>11
  <2>13. Moves(w) /\ job'[w] = J
    BY <1>1, <2>10, <2>12, JobStep
  <2>14. /\ T.at = "get" /\ T.cursor = j.cursor /\ T.ids = j.ids \ {m} /\ T.c = c /\ T.then = j.then
         /\ T.provider = j.provider /\ T.ref = j.ref /\ T.box = j.box /\ T.relist = j.relist
    BY <1>1, <1>9 DEF Job
  <2>15. /\ J.at = "get" /\ J.cursor = T.cursor /\ J.ids = T.ids /\ J.c = T.c /\ J.then = T.then
         /\ J.provider = T.provider /\ J.ref = T.ref /\ J.box = T.box /\ J.relist = T.relist
         /\ J.got = got /\ J.to = last
    <3>1. /\ H.at = T.at /\ H.cursor = T.cursor /\ H.ids = T.ids /\ H.c = T.c /\ H.then = T.then
          /\ H.provider = T.provider /\ H.ref = T.ref /\ H.box = T.box /\ H.relist = T.relist
          /\ H.got = got
      BY <1>10, <2>5 DEF Job
    <3>2. /\ I.at = H.at /\ I.cursor = H.cursor /\ I.ids = H.ids /\ I.c = H.c /\ I.then = H.then
          /\ I.provider = H.provider /\ I.ref = H.ref /\ I.box = H.box /\ I.relist = H.relist
          /\ I.got = H.got /\ I.to = last
      BY <2>6, <2>8 DEF Job
    <3>3. /\ J.at = I.at /\ J.cursor = I.cursor /\ J.ids = I.ids /\ J.c = I.c /\ J.then = I.then
          /\ J.provider = I.provider /\ J.ref = I.ref /\ J.box = I.box /\ J.relist = I.relist
          /\ J.got = I.got /\ J.to = I.to
      BY <2>7, <2>9 DEF Job
    <3> QED BY <1>1, <2>14, <3>1, <3>2, <3>3
  <2>16. J.moved = moved
    BY <2>7, <2>9 DEF Job
  <2>17. J.box \in Connections /\ J.ids \cup J.got \subseteq Holds(J.box)
    BY <1>1, <1>8, <1>12, <2>3, <2>14, <2>15
  <2>18. Goes(w, "get")
    BY <1>1, <2>13, <2>14, <2>15 DEF Goes
  <2>19. HandlerOK(job[w])'
    BY <1>1, <1>3, <1>5, <2>13, <2>17, <2>18, GoesHandler
  <2>20. Gets(w, m)
    BY <1>8, <1>12, <2>1, <2>2, <2>3, <2>13, <2>14, <2>15, <2>16, <2>18 DEF Gets
  <2> QED BY <1>4, <2>13, <2>19, <2>20
<1>13. CASE /\ j.ids # {}
            /\ job' = [job EXCEPT ![w] = [T EXCEPT !.got = @ \cup {m},
                                                   !.to = box[j.box][m].last,
                                                   !.moved = box[j.box][m].last # Arrived(j.box, m)]]
            /\ UNCHANGED dropped
  BY <1>1, <1>8, <1>12, <1>13
<1>14. CASE /\ j.ids # {} /\ job' = [job EXCEPT ![w] = T]
            /\ dropped' = IF j.box = c THEN dropped \cup {<<c, m>>} ELSE dropped
  BY <1>1, <1>8, <1>11, <1>14
<1> QED BY <1>6, <1>7, <1>9, <1>13, <1>14 DEF GetMessage

\* The changes since the delta link, or all mail since the connection was made.
Changed(c) ==
    IF conn[c].cursor = 0 THEN ForwardOnly(c, conn[c].created)
                          ELSE {m \in Inbox(c) : box[c][m].last > conn[c].cursor}

ListsChanges(w) ==
    /\ Goes(w, "each") /\ Connected(job[w].c)
    /\ job'[w].got = Changed(job[w].c) /\ job'[w].to = clock
    /\ job'[w].box = job[w].box /\ job'[w].relist = job[w].relist /\ job'[w].ids = job[w].ids
    /\ job'[w].cursor = job[w].cursor /\ job'[w].moved = job[w].moved
    /\ Heard(job[w].c, TRUE)

\* What arrived since the last sync, if the link is refused.
ListsRecent(w) ==
    /\ Goes(w, "each") /\ Connected(job[w].c) /\ job'[w].to \in {0, clock}
    /\ job'[w].box = job[w].box /\ job'[w].relist = TRUE /\ job'[w].ids = job[w].ids
    /\ job'[w].cursor = job[w].cursor /\ job'[w].moved = job[w].moved
    /\ Heard(job[w].c, FALSE)

LEMMA ListOutlookStep ==
    ASSUME TypeInv, NEW w \in Workers, ListOutlook(w)
    PROVE  /\ TypeInv'
           /\ job[w].at = "list" /\ job[w].then = "list" /\ job[w].provider = "OUTLOOK"
           /\ Quits(w) \/ ListsChanges(w)
<1> DEFINE c == job[w].c
           j == job[w]
<1>1. /\ job \in [Workers -> Job] /\ j \in Job /\ c \in Connections /\ j.at = "list"
      /\ j.then = "list" /\ j.box = c /\ j.got = {} /\ j.ids = {} /\ j.provider = "OUTLOOK"
  BY HandlerTyped DEF ListOutlook, HandlerOK, PollStatements, Before, Importing
<1>2. UNCHANGED <<rows, providers, client>> /\ client' \in Connections \cup {None}
  BY DEF ListOutlook, TypeInv, TablesOK, OthersOK
<1>3. /\ UNCHANGED <<conn, imports, candidates, born, issued, grants, clock, mail, box, pushing,
                     pushes>>
      /\ ConnectionsOK' /\ ImportsOK'
  BY <1>2, PollingTables
<1>4. ASSUME Moves(w), HandlerOK(job[w])' PROVE TypeInv'
  BY <1>2, <1>3, <1>4, ReadStep
<1>5. "each" \in Statements /\ "each" \in Listed /\ "each" \notin Importing /\ clock \in Times
  BY DEF Statements, PollStatements, Listed, Importing, TypeInv, TablesOK, MailboxesOK
<1>6. CASE Abort(w)
  <2>1. Quits(w) /\ HandlerOK(job[w])'
    BY <1>1, <1>3, <1>6, QuitsStep DEF PollStatements
  <2> QED BY <1>1, <1>4, <2>1 DEF Quits
<1>7. PICK all : all = Changed(c)
  OBVIOUS
<1>8. all \subseteq Holds(c) /\ all \in SUBSET Mails
  BY <1>7, ListsHold DEF Changed
<1>9. ASSUME Connected(c), Heard(c, TRUE),
             job' = [job EXCEPT ![w].at = "each", ![w].got = all, ![w].to = clock]
      PROVE  TypeInv' /\ ListsChanges(w)
  <2>1. PICK H : H = [j EXCEPT !.at = "each"]
    OBVIOUS
  <2>2. PICK I : I = [H EXCEPT !.got = all]
    OBVIOUS
  <2>3. PICK J : J = [I EXCEPT !.to = clock]
    OBVIOUS
  <2>4. H \in Job
    BY <1>1, <1>5, <2>1 DEF Job, Statements
  <2>5. I \in Job
    BY <1>8, <2>2, <2>4 DEF Job
  <2>6. J \in Job
    BY <1>5, <2>3, <2>5 DEF Job
  <2>7. J = [j EXCEPT !.at = "each", !.got = all, !.to = clock]
    BY <1>1, <2>1, <2>2, <2>3 DEF Job
  <2>8. job' = [job EXCEPT ![w] = J]
    BY <1>9, <2>7
  <2>9. Moves(w) /\ job'[w] = J
    BY <1>1, <2>6, <2>8, JobStep
  <2>10. /\ J.at = "each" /\ J.cursor = j.cursor /\ J.ids = j.ids /\ J.c = c /\ J.then = j.then
         /\ J.provider = j.provider /\ J.ref = j.ref /\ J.box = j.box /\ J.relist = j.relist
         /\ J.got = all /\ J.to = clock /\ J.moved = j.moved
    BY <1>1, <2>7 DEF Job
  <2>11. Goes(w, "each")
    BY <1>1, <2>9, <2>10 DEF Goes
  <2>12. HandlerOK(job[w])'
    BY <1>1, <1>3, <1>5, <1>8, <2>9, <2>10, <2>11, GoesHandler
  <2> QED BY <1>4, <1>7, <1>9, <2>9, <2>10, <2>11, <2>12 DEF ListsChanges
<1>10. CASE /\ Connected(c) /\ Heard(c, TRUE)
            /\ job' = [job EXCEPT ![w].at = "each", ![w].got = all, ![w].to = clock]
  BY <1>1, <1>9, <1>10
<1> QED BY <1>6, <1>7, <1>10 DEF ListOutlook, Changed

LEMMA RebaselineStep ==
    ASSUME TypeInv, NEW w \in Workers, Rebaseline(w)
    PROVE  /\ TypeInv'
           /\ job[w].at = "list" /\ job[w].then = "list" /\ job[w].provider = "OUTLOOK"
           /\ ListsRecent(w)
<1> DEFINE c == job[w].c
           j == job[w]
           fresh == ForwardOnly(c, IF conn[c].synced = 0 THEN conn[c].created ELSE conn[c].synced)
<1>1. /\ job \in [Workers -> Job] /\ j \in Job /\ c \in Connections /\ j.at = "list"
      /\ j.then = "list" /\ j.box = c /\ j.got = {} /\ j.ids = {} /\ j.provider = "OUTLOOK"
  BY HandlerTyped DEF Rebaseline, HandlerOK, PollStatements, Before, Importing
<1>2. UNCHANGED <<rows, providers, client>> /\ client' \in Connections \cup {None}
      /\ Connected(c) /\ Heard(c, FALSE)
  BY DEF Rebaseline, TypeInv, TablesOK, OthersOK
<1>3. /\ UNCHANGED <<conn, imports, candidates, born, issued, grants, clock, mail, box, pushing,
                     pushes>>
      /\ ConnectionsOK' /\ ImportsOK'
  BY <1>2, PollingTables
<1>4. ASSUME Moves(w), HandlerOK(job[w])' PROVE TypeInv'
  BY <1>2, <1>3, <1>4, ReadStep
<1>5. "each" \in Statements /\ "each" \in Listed /\ "each" \notin Importing
  BY DEF Statements, PollStatements, Listed, Importing
<1>6. PICK got : got = Oldest(c, fresh)
  OBVIOUS
<1>7. got \subseteq Holds(c) /\ got \in SUBSET Mails
  <2>1. got \subseteq fresh /\ fresh \subseteq Inbox(c)
    BY <1>6, ListsHold
  <2> QED BY <2>1, ListsHold
<1>8. PICK to : to = IF Cardinality(fresh) <= Page THEN clock ELSE 0
  OBVIOUS
<1>9. to \in {0, clock} /\ to \in Times
  BY <1>8, MailBoundsAssumption DEF TypeInv, TablesOK, MailboxesOK, Times
<1>10. job' = [job EXCEPT ![w].at = "each", ![w].relist = TRUE, ![w].got = got, ![w].to = to]
  BY <1>6, <1>8 DEF Rebaseline
<1> HIDE DEF fresh
<1>11. PICK H : H = [j EXCEPT !.at = "each"]
  OBVIOUS
<1>12. PICK I : I = [H EXCEPT !.relist = TRUE]
  OBVIOUS
<1>13. PICK K : K = [I EXCEPT !.got = got]
  OBVIOUS
<1>14. PICK J : J = [K EXCEPT !.to = to]
  OBVIOUS
<1>15. H \in Job
  BY <1>1, <1>5, <1>11 DEF Job, Statements
<1>16. I \in Job
  BY <1>12, <1>15, ZenonT(40) DEF Job
<1>17. K \in Job
  BY <1>7, <1>13, <1>16 DEF Job
<1>18. J \in Job
  BY <1>9, <1>14, <1>17 DEF Job
<1>19. J = [j EXCEPT !.at = "each", !.relist = TRUE, !.got = got, !.to = to]
  BY <1>1, <1>11, <1>12, <1>13, <1>14 DEF Job
<1>20. job' = [job EXCEPT ![w] = J]
  BY <1>10, <1>19
<1>21. Moves(w) /\ job'[w] = J
  BY <1>1, <1>18, <1>20, JobStep
<1>22. /\ J.at = "each" /\ J.cursor = j.cursor /\ J.ids = j.ids /\ J.c = c /\ J.then = j.then
       /\ J.provider = j.provider /\ J.ref = j.ref /\ J.box = j.box /\ J.relist = TRUE
       /\ J.got = got /\ J.to = to /\ J.moved = j.moved
  BY <1>1, <1>19 DEF Job
<1>23. Goes(w, "each")
  BY <1>1, <1>21, <1>22 DEF Goes
<1>24. HandlerOK(job[w])'
  BY <1>1, <1>3, <1>5, <1>7, <1>21, <1>22, <1>23, GoesHandler
<1> QED BY <1>1, <1>2, <1>4, <1>9, <1>21, <1>22, <1>23, <1>24 DEF ListsRecent

\* A message is taken in hand.
Takes(w, m) ==
    /\ Goes(w, "lookup") /\ m \in job[w].got
    /\ job'[w].m = m /\ job'[w].got = job[w].got \ {m} /\ job'[w].ids = job[w].ids
    /\ job'[w].box = job[w].box /\ job'[w].relist = job[w].relist
    /\ job'[w].cursor = job[w].cursor /\ job'[w].to = job[w].to /\ job'[w].moved = job[w].moved

LEMMA TakeStep ==
    ASSUME TypeInv, NEW w \in Workers, TakeGmailMessage(w) \/ TakeOutlookMessage(w)
    PROVE  /\ TypeInv'
           /\ job[w].at = "each" /\ job[w].then = "list"
           /\ UNCHANGED <<rows, client, providers, history>>
           /\ \E m \in Mails : Takes(w, m)
<1> DEFINE c == job[w].c
           j == job[w]
<1>1. PICK readable \in BOOLEAN : Take(w, readable)
  BY DEF TakeGmailMessage, TakeOutlookMessage
<1>2. /\ job \in [Workers -> Job] /\ j \in Job /\ c \in Connections /\ j.at = "each"
      /\ j.then = "list" /\ j.box \in Connections /\ j.ids = {} /\ j.got \subseteq Holds(j.box)
      /\ j.got \in SUBSET Mails /\ j.got # {}
  BY <1>1, HandlerTyped, JobFields DEF Take, HandlerOK, PollStatements
<1>3. UNCHANGED <<rows, client, providers, history>> /\ client' \in Connections \cup {None}
  BY <1>1 DEF Take, TypeInv, TablesOK, OthersOK
<1>4. /\ UNCHANGED <<conn, imports, candidates, born, issued, grants, clock, mail, box, pushing,
                     pushes>>
      /\ ConnectionsOK' /\ ImportsOK'
  BY <1>3, PollingTables
<1>5. ASSUME Moves(w), HandlerOK(job[w])' PROVE TypeInv'
  BY <1>3, <1>4, <1>5, ReadStep
<1>6. "lookup" \in Statements /\ "lookup" \in Listed /\ "lookup" \in Importing /\ "lookup" # "get"
      /\ "lookup" # "cursor"
  BY DEF Statements, PollStatements, Listed, Importing
<1>7. PICK m : m = First(j, j.got)
  OBVIOUS
<1>8. m \in j.got /\ m \in Mails
  BY <1>2, <1>7, FirstIsOne
<1>9. PICK cv \in BOOLEAN :
         job' = [job EXCEPT ![w].at = "lookup", ![w].m = m, ![w].cv = cv, ![w].got = @ \ {m}]
  BY <1>1, <1>7 DEF Take
<1>10. PICK got : got = j.got \ {m}
  OBVIOUS
<1>11. PICK H : H = [j EXCEPT !.at = "lookup"]
  OBVIOUS
<1>12. PICK I : I = [H EXCEPT !.m = m]
  OBVIOUS
<1>13. PICK K : K = [I EXCEPT !.cv = cv]
  OBVIOUS
<1>14. PICK J : J = [K EXCEPT !.got = got]
  OBVIOUS
<1>15. H \in Job
  BY <1>2, <1>6, <1>11 DEF Job, Statements
<1>16. I \in Job
  BY <1>8, <1>12, <1>15 DEF Job
<1>17. K \in Job
  BY <1>13, <1>16 DEF Job
<1>18. J \in Job
  BY <1>2, <1>10, <1>14, <1>17 DEF Job
<1>19. J = [j EXCEPT !.at = "lookup", !.m = m, !.cv = cv, !.got = got]
  BY <1>2, <1>11, <1>12, <1>13, <1>14 DEF Job
<1>20. job' = [job EXCEPT ![w] = J]
  BY <1>2, <1>9, <1>10, <1>19
<1>21. Moves(w) /\ job'[w] = J
  BY <1>2, <1>18, <1>20, JobStep
<1>22. /\ J.at = "lookup" /\ J.cursor = j.cursor /\ J.ids = j.ids /\ J.c = c /\ J.then = j.then
       /\ J.provider = j.provider /\ J.ref = j.ref /\ J.box = j.box /\ J.relist = j.relist
       /\ J.got = got /\ J.to = j.to /\ J.moved = j.moved /\ J.m = m
  BY <1>2, <1>19 DEF Job
<1>23. Goes(w, "lookup")
  BY <1>2, <1>21, <1>22 DEF Goes
<1>24. J.m \in Holds(J.box) /\ J.ids \cup J.got \subseteq Holds(J.box)
  BY <1>2, <1>8, <1>10, <1>22
<1>25. HandlerOK(job[w])'
  BY <1>2, <1>4, <1>6, <1>21, <1>22, <1>23, <1>24, GoesHandler
<1>26. Takes(w, m)
  BY <1>8, <1>10, <1>21, <1>22, <1>23 DEF Takes
<1> QED BY <1>2, <1>3, <1>5, <1>8, <1>21, <1>25, <1>26

LEMMA NoMoreMessagesStep ==
    ASSUME TypeInv, NEW w \in Workers, NoMoreMessages(w)
    PROVE  TypeInv' /\ job[w].at = "each" /\ job[w].then = "list" /\ Passes(w, "cursor")
<1>1. UNCHANGED <<rows, client, providers, history>> /\ client' \in Connections \cup {None}
      /\ job[w].at = "each" /\ job[w].got = {}
  BY DEF NoMoreMessages, TypeInv, TablesOK, OthersOK
<1>2. /\ UNCHANGED <<conn, imports, candidates, born, issued, grants, clock, mail, box, pushing,
                     pushes>>
      /\ ConnectionsOK' /\ ImportsOK'
  BY <1>1, PollingTables
<1>3. job[w].ids = {} /\ job[w].then = "list"
  BY <1>1, HandlerTyped DEF HandlerOK, PollStatements
<1>4. Passes(w, "cursor") /\ HandlerOK(job[w])'
  BY <1>1, <1>2, <1>3, PassesStep DEF NoMoreMessages, history
<1> QED BY <1>1, <1>2, <1>3, <1>4, ReadStep DEF Passes, Goes

\* The poll ends, and the cursor goes where its list went.
Closes(w) ==
    LET c == job[w].c
        j == job[w]
    IN
    /\ Moves(w) /\ job'[w] = Idle /\ Connected(c) /\ UNCHANGED unheard
    /\ conn'[c].cursor = (IF j.to = 0 THEN conn[c].cursor ELSE j.to)
    /\ conn'[c].created = conn[c].created /\ conn'[c].grant = conn[c].grant
    /\ conn'[c].active = conn[c].active /\ conn'[c] # NoConnection
    /\ \A d \in Connections \ {c} : conn'[d] = conn[d]
    /\ dropped' = IF j.relist \/ j.moved
                  THEN dropped \cup ({c} \X {m \in Holds(c) : Arrived(c, m) <= j.to /\ <<c, m>> \notin settled})
                  ELSE dropped

LEMMA MoveCursorStep ==
    ASSUME TypeInv, NEW w \in Workers, MoveGmailCursor(w) \/ MoveOutlookCursor(w)
    PROVE  /\ TypeInv'
           /\ job[w].at = "cursor" /\ job[w].then = "list"
           /\ UNCHANGED <<imports, candidates, born, client, providers, settled, shared, swapped,
                          uncounted, suspect>>
           /\ Closes(w) \/ (Quits(w) /\ UNCHANGED <<conn, dropped>>)
<1> DEFINE c == job[w].c
           j == job[w]
<1>1. MoveCursor(w)
  BY DEF MoveGmailCursor, MoveOutlookCursor
<1>2. /\ job \in [Workers -> Job] /\ j \in Job /\ c \in Connections /\ j.at = "cursor"
      /\ j.then = "list" /\ j.to \in Times /\ j.provider \in {"GMAIL", "OUTLOOK"}
  BY <1>1, HandlerTyped, JobFields DEF MoveCursor, HandlerOK, PollStatements
<1>3. /\ UNCHANGED <<imports, candidates, born, client, providers, settled, shared, swapped,
                     uncounted, suspect>>
      /\ client' \in Connections \cup {None}
  BY <1>1 DEF MoveCursor, TypeInv, TablesOK, OthersOK
<1>4. UNCHANGED <<issued, grants, clock, mail, box, pushing, pushes>>
  BY <1>3 DEF providers
<1>5. ImportsOK'
  BY <1>3, <1>4, SameMail
<1>6. CASE Abort(w) /\ UNCHANGED <<conn, dropped>>
  <2>1. Quits(w) /\ HandlerOK(job[w])'
    BY <1>2, <1>4, <1>6, QuitsStep DEF PollStatements
  <2>2. ConnectionsOK'
    BY <1>4, <1>6, NoRowStep
  <2> QED BY <1>2, <1>3, <1>4, <1>5, <1>6, <2>1, <2>2, ReadStep DEF Quits
<1>7. CASE /\ Connected(c)
           /\ conn' = [conn EXCEPT ![c].synced = Now,
                                   ![c].cursor = IF j.to = 0 THEN @ ELSE j.to,
                                   ![c].by = IF j.to = 0 THEN @ ELSE j.provider]
           /\ dropped' = IF j.relist \/ j.moved
                THEN dropped \cup ({c} \X {m \in Holds(c) : Arrived(c, m) <= j.to /\ <<c, m>> \notin settled})
                ELSE dropped
           /\ End(w) /\ UNCHANGED unheard
  <2>1. conn[c] \in Connection /\ conn[c].grant \in 1..issued[c]
    BY <1>2, <1>7, RowOf
  <2>2. PICK x : x = IF j.to = 0 THEN conn[c].cursor ELSE j.to
    OBVIOUS
  <2>3. PICK p : p = IF j.to = 0 THEN conn[c].by ELSE j.provider
    OBVIOUS
  <2>4. x \in 0..MaxClock /\ p \in {"GMAIL", "OUTLOOK"} /\ Now \in 0..MaxClock + 1
    BY <1>2, <2>1, <2>2, <2>3, MailBoundsAssumption
       DEF Times, Connection, Now, TypeInv, TablesOK, MailboxesOK
  <2>5. PICK row : row = [conn[c] EXCEPT !.synced = Now, !.cursor = x, !.by = p]
    OBVIOUS
  <2>6. row \in Connection /\ row.grant = conn[c].grant /\ row.active = conn[c].active
        /\ row.created = conn[c].created /\ row.cursor = x
    BY <2>1, <2>4, <2>5 DEF Connection
  <2>7. conn \in [Connections -> Connection \cup {NoConnection}]
    BY DEF TypeInv, TablesOK, ConnectionsOK
  <2>8. conn' = [conn EXCEPT ![c] = row]
    BY <1>2, <1>7, <2>2, <2>3, <2>5, <2>7
  <2>9. /\ conn' \in [Connections -> Connection \cup {NoConnection}] /\ conn'[c] = row
        /\ \A d \in Connections \ {c} : conn'[d] = conn[d]
    BY <1>2, <2>6, <2>7, <2>8
  <2>10. conn'[c] # NoConnection
    BY <2>6, <2>9, RowsAreRows
  <2>11. \A d \in Connections : Connected(d)' => conn'[d].grant \in 1..issued'[d]
    BY <1>4, <2>1, <2>6, <2>9 DEF TypeInv, TablesOK, ConnectionsOK, Connected
  <2>12. ConnectionsOK'
    BY <1>4, <2>9, <2>11 DEF TypeInv, TablesOK, ConnectionsOK
  <2>13. Moves(w) /\ job'[w] = Idle
    BY <1>2, <1>7, EndStep
  <2>14. HandlerOK(job[w])'
    BY <2>13, IdleHandler
  <2>15. TypeInv'
    BY <1>3, <1>4, <1>5, <2>12, <2>13, <2>14, ReadStep
  <2>16. Closes(w)
    BY <1>7, <2>2, <2>6, <2>9, <2>10, <2>13 DEF Closes
  <2> QED BY <1>2, <1>3, <2>15, <2>16
<1> QED BY <1>1, <1>6, <1>7 DEF MoveCursor

-----------------------------------------------------------------------------
(* Importing *)

\* The message stays in hand.
Handling(w) ==
    /\ Goes(w, job'[w].at) /\ job'[w].at \in Importing /\ SamePoll(w) /\ job'[w].m = job[w].m
    /\ UNCHANGED <<settled, dropped>>

\* The poll is done with the message, which is accounted for.
HandsBack(w) ==
    /\ Goes(w, "each") /\ SamePoll(w) /\ settled \subseteq settled' /\ dropped \subseteq dropped'
    /\ job[w].box = job[w].c => <<job[w].c, job[w].m>> \in settled' \cup dropped'

\* One row is written, that of the message in hand.
Writes(w, status) ==
    \E k \in Keys :
        /\ k = KeyOf(job[w]) /\ imports'[k] # NoImport /\ imports'[k].status = status
        /\ \A l \in Keys \ {k} : imports'[l] = imports[l]
        /\ \/ HasImport(k) /\ imports'[k].from = imports[k].from /\ imports'[k].conn = imports[k].conn
           \/ imports'[k].from = job[w].box /\ imports'[k].conn = job[w].c

Imports(w) ==
    /\ job[w].at \in Importing /\ job[w].then = "list"
    /\ Handling(w) \/ HandsBack(w)
    /\ UNCHANGED imports \/ \E status \in Statuses : Writes(w, status)
    /\ UNCHANGED <<conn, client, providers, swapped, unheard, suspect>>

\* What a message in hand stands for.
LEMMA InHandTyped ==
    ASSUME TypeInv, NEW w \in Workers, job[w].at \in Importing
    PROVE  /\ job \in [Workers -> Job] /\ job[w] \in Job /\ HandlerOK(job[w])
           /\ job[w].c \in Connections /\ job[w].then = "list" /\ job[w].at # "idle"
           /\ job[w].box \in Connections /\ job[w].m \in Mails /\ job[w].m \in Holds(job[w].box)
           /\ job[w].ids = {} /\ job[w].got \subseteq Holds(job[w].box)
           /\ job[w].provider \in {"GMAIL", "OUTLOOK"}
           /\ mail[job[w].m] \in Message /\ KeyOf(job[w]) \in Keys
           /\ job[w].who \in Senders \cup {None}
<1>1. /\ job \in [Workers -> Job] /\ job[w] \in Job /\ HandlerOK(job[w]) /\ job[w].at # "idle"
      /\ job[w].c \in Connections /\ job[w].at # "get" /\ job[w].at \in PollStatements
  BY HandlerTyped DEF Importing, PollStatements
<1>2. /\ job[w].then = "list" /\ job[w].box \in Connections /\ job[w].ids = {}
      /\ job[w].provider \in {"GMAIL", "OUTLOOK"}
      /\ job[w].got \subseteq Holds(job[w].box) /\ job[w].m \in Holds(job[w].box)
  BY <1>1 DEF HandlerOK
<1>3. job[w].m \in Mails /\ Arrived(job[w].box, job[w].m) # 0
  BY <1>2 DEF Holds
<1>4. mail[job[w].m] \in Message
  BY <1>2, <1>3, Arrivals DEF TypeInv, TablesOK, MailboxesOK
<1>5. KeyOf(job[w]) \in Keys
  BY <1>2, <1>3 DEF KeyOf, Key, Keys
<1>6. job[w].who \in Senders \cup {None}
  BY <1>1, JobFields
<1> QED BY <1>1, <1>2, <1>3, <1>4, <1>5, <1>6

LEMMA ImportStep ==
    ASSUME TypeInv, NEW w \in Workers, job[w].at \in Importing,
           UNCHANGED <<conn, client, providers, swapped, unheard, suspect>>, ImportsOK',
           UNCHANGED imports \/ \E status \in Statuses : Writes(w, status),
           Handling(w) \/ HandsBack(w), HandlerOK(job[w])'
    PROVE  TypeInv' /\ Imports(w)
<1>1. UNCHANGED <<issued, grants, clock, mail, box, pushing, pushes>>
  BY DEF providers
<1>2. ConnectionsOK' /\ client' \in Connections \cup {None}
  BY <1>1, NoRowStep DEF TypeInv, TablesOK, OthersOK
<1>3. Moves(w)
  BY DEF Handling, HandsBack, Goes
<1>4. TypeInv'
  BY <1>1, <1>2, <1>3, ReadStep
<1> QED BY <1>4, InHandTyped DEF Imports

LEMMA HandlingStep ==
    ASSUME TypeInv, NEW w \in Workers, job[w].at \in Importing, NEW s \in Importing, Goto(w, s),
           UNCHANGED <<settled, dropped, box, issued>>
    PROVE  Handling(w) /\ HandlerOK(job[w])' /\ job'[w].at = s /\ Carries(w)
<1>1. /\ job \in [Workers -> Job] /\ job[w].then = "list" /\ job[w].at # "idle"
      /\ job[w].box \in Connections /\ job[w].m \in Holds(job[w].box)
      /\ job[w].ids = {} /\ job[w].got \subseteq Holds(job[w].box)
  BY InHandTyped
<1>2. s \in Statements /\ s \in Listed /\ s # "cursor"
  BY DEF Statements, PollStatements, Listed, Importing
<1>3. Moves(w) /\ job'[w].at = s /\ Carries(w)
  BY <1>1, <1>2, GotoStep
<1>4. Goes(w, s)
  BY <1>1, <1>3 DEF Goes, Carries
<1>5. HandlerOK(job[w])'
  BY <1>1, <1>2, <1>3, <1>4, GoesHandler DEF Carries
<1> QED BY <1>3, <1>4, <1>5 DEF Handling, SamePoll, Carries

LEMMA ReturnStep ==
    ASSUME TypeInv, NEW w \in Workers, job[w].at \in Importing,
           NEW why \in {"done", "threw", "elsewhere"}, Return(w, why), UNCHANGED <<box, issued>>
    PROVE  HandsBack(w) /\ HandlerOK(job[w])'
<1> DEFINE j == job[w]
<1>1. /\ job \in [Workers -> Job] /\ j \in Job /\ j.then = "list" /\ j.at # "idle"
      /\ j.box \in Connections
      /\ j.ids = {} /\ j.got \subseteq Holds(j.box)
  BY InHandTyped
<1>2. "each" \in Statements /\ "each" \in Listed /\ "each" \notin Importing
  BY DEF Statements, PollStatements, Listed, Importing
<1>3. PICK G : G = [j EXCEPT !.at = "each"]
  OBVIOUS
<1>4. PICK H : H = [G EXCEPT !.m = None]
  OBVIOUS
<1>5. PICK I : I = [H EXCEPT !.re = FALSE]
  OBVIOUS
<1>6. PICK K : K = [I EXCEPT !.cv = FALSE]
  OBVIOUS
<1>7. PICK J : J = [K EXCEPT !.who = None]
  OBVIOUS
<1>8. G \in Job
  BY <1>1, <1>2, <1>3 DEF Job, Statements
<1>9. H \in Job
  BY <1>4, <1>8 DEF Job
<1>10. I \in Job
  BY <1>5, <1>9, ZenonT(40) DEF Job
<1>11. K \in Job
  BY <1>6, <1>10, ZenonT(40) DEF Job
<1>12. J \in Job
  BY <1>7, <1>11 DEF Job
<1>13. J = [j EXCEPT !.at = "each", !.m = None, !.re = FALSE, !.cv = FALSE, !.who = None]
  BY <1>1, <1>3, <1>4, <1>5, <1>6, <1>7 DEF Job
<1>14. job' = [job EXCEPT ![w] = J]
  BY <1>1, <1>13 DEF Return
<1>15. Moves(w) /\ job'[w] = J
  BY <1>1, <1>12, <1>14, JobStep
<1>16. /\ J.at = "each" /\ J.cursor = j.cursor /\ J.ids = j.ids /\ J.c = j.c /\ J.then = j.then
       /\ J.provider = j.provider /\ J.ref = j.ref /\ J.box = j.box /\ J.relist = j.relist
       /\ J.got = j.got /\ J.to = j.to /\ J.moved = j.moved
  BY <1>1, <1>13 DEF Job
<1>17. Goes(w, "each") /\ SamePoll(w)
  BY <1>1, <1>15, <1>16 DEF Goes, SamePoll
<1>18. HandlerOK(job[w])'
  BY <1>1, <1>2, <1>15, <1>16, <1>17, GoesHandler
<1> QED BY <1>17, <1>18 DEF HandsBack, Return

LEMMA NoImportStep ==
    ASSUME TypeInv, UNCHANGED <<imports, candidates, born>>
    PROVE  ImportsOK'
BY DEF TypeInv, TablesOK, ImportsOK, HasImport

\* The row of a key is written, and no candidate changes.
LEMMA WriteStep ==
    ASSUME TypeInv, NEW w \in Workers, NEW k \in Keys, k = KeyOf(job[w]), NEW row \in Import,
           imports' = [imports EXCEPT ![k] = row], UNCHANGED <<candidates, born>>,
           \/ HasImport(k) /\ row.from = imports[k].from /\ row.conn = imports[k].conn
           \/ row.from = job[w].box /\ row.conn = job[w].c
    PROVE  ImportsOK' /\ Writes(w, row.status) /\ row.status \in Statuses /\ imports'[k] = row
<1>1. /\ imports' \in [Keys -> Import \cup {NoImport}] /\ imports'[k] = row /\ row # NoImport
      /\ \A l \in Keys \ {k} : imports'[l] = imports[l]
  BY RowsAreRows DEF TypeInv, TablesOK, ImportsOK
<1>2. \A x \in candidates' : x.link # None => HasImport(x.link)'
  BY <1>1 DEF TypeInv, TablesOK, ImportsOK, HasImport, Candidate
<1>3. ImportsOK'
  BY <1>1, <1>2 DEF TypeInv, TablesOK, ImportsOK
<1>4. row.status \in Statuses
  BY DEF Import
<1> QED BY <1>1, <1>3, <1>4 DEF Writes

LEMMA StoreStep ==
    ASSUME TypeInv, NEW w \in Workers, job[w].at \in Importing, NEW status \in Statuses,
           NEW body \in BOOLEAN, Store(w, KeyOf(job[w]), status, body),
           UNCHANGED <<candidates, born>>
    PROVE  ImportsOK' /\ Writes(w, status)
<1>1. job[w].c \in Connections /\ job[w].box \in Connections
  BY InHandTyped
<1>2. PICK k \in Keys : k = KeyOf(job[w])
  BY InHandTyped
<1>3. PICK old : old = IF HasImport(k) THEN imports[k].old ELSE FALSE
  OBVIOUS
<1>4. old \in BOOLEAN
  BY <1>3 DEF TypeInv, TablesOK, ImportsOK, HasImport, Import
<1>5. PICK row : row = [status |-> status, conn |-> job[w].c, from |-> job[w].box, body |-> body,
                        old |-> old]
  OBVIOUS
<1>6. row \in Import /\ row.status = status /\ row.from = job[w].box /\ row.conn = job[w].c
  BY <1>1, <1>4, <1>5 DEF Import
<1>7. imports' = [imports EXCEPT ![k] = row]
  BY <1>2, <1>3, <1>5 DEF Store
<1> QED BY <1>2, <1>6, <1>7, WriteStep

LEMMA MarkStep ==
    ASSUME TypeInv, NEW w \in Workers, job[w].at \in Importing, NEW status \in Statuses,
           NEW body \in BOOLEAN, Mark(KeyOf(job[w]), status, body), HasImport(KeyOf(job[w])),
           UNCHANGED <<candidates, born>>
    PROVE  ImportsOK' /\ Writes(w, status)
<1>1. PICK k \in Keys : k = KeyOf(job[w])
  BY InHandTyped
<1>2. imports[k] \in Import
  BY <1>1 DEF TypeInv, TablesOK, ImportsOK, HasImport
<1>3. PICK row : row = [imports[k] EXCEPT !.status = status, !.body = body]
  OBVIOUS
<1>4. row \in Import /\ row.status = status /\ row.from = imports[k].from /\ row.conn = imports[k].conn
  BY <1>2, <1>3 DEF Import
<1>5. imports' = [imports EXCEPT ![k] = row]
  BY <1>1, <1>3 DEF Mark
<1> QED BY <1>1, <1>4, <1>5, WriteStep

LEMMA LookupStep ==
    ASSUME TypeInv, NEW w \in Workers, Lookup(w)
    PROVE  /\ TypeInv' /\ Imports(w)
           /\ \/ HandsBack(w)
              \/ Linked(KeyOf(job[w])) = {} /\ job'[w].at \in {"skip", "pending", "classify"}
<1> DEFINE j == job[w]
           k == KeyOf(job[w])
<1>1. job[w].at \in Importing /\ job \in [Workers -> Job] /\ job[w] \in Job
  BY InHandTyped DEF Lookup, Importing
<1>2. /\ UNCHANGED <<conn, client, providers, swapped, unheard, suspect>>
      /\ UNCHANGED <<imports, candidates, born, box, issued>>
  BY DEF Lookup, rows, providers
<1>3. ImportsOK'
  BY <1>2, NoImportStep
<1>4. CASE Done(w) \/ Elsewhere(w)
  <2>1. PICK why \in {"done", "threw", "elsewhere"} : Return(w, why)
    BY <1>4 DEF Done, Elsewhere
  <2>2. HandsBack(w) /\ HandlerOK(job[w])'
    BY <1>1, <1>2, <2>1, ReturnStep
  <2> QED BY <1>1, <1>2, <1>3, <2>2, ImportStep
<1>5. ASSUME NEW s \in {"skip", "pending", "classify"}, Linked(k) = {},
             job' = [job EXCEPT ![w].re = HasImport(k), ![w].at = s], UNCHANGED <<settled, dropped>>
      PROVE  TypeInv' /\ Imports(w) /\ Linked(k) = {} /\ job'[w].at = s
  <2>1. PICK re \in BOOLEAN : re = HasImport(k)
    BY DEF HasImport
  <2>2. s \in Importing /\ s \in Statements /\ s \in Listed /\ s # "cursor" /\ s # "get"
    BY DEF Importing, Statements, PollStatements, Listed
  <2>3. PICK H : H = [j EXCEPT !.re = re]
    OBVIOUS
  <2>4. PICK J : J = [H EXCEPT !.at = s]
    OBVIOUS
  <2>5. H \in Job
    BY <1>1, <2>3 DEF Job
  <2>6. J \in Job
    BY <2>2, <2>4, <2>5 DEF Job, Statements
  <2>7. J = [j EXCEPT !.re = re, !.at = s]
    BY <2>3, <2>4
  <2>8. Moves(w) /\ job'[w] = J
    BY <1>1, <1>5, <2>1, <2>6, <2>7, JobStep
  <2>9. /\ H.cursor = j.cursor /\ H.ids = j.ids /\ H.c = j.c /\ H.then = j.then
        /\ H.provider = j.provider /\ H.ref = j.ref /\ H.box = j.box /\ H.relist = j.relist
        /\ H.got = j.got /\ H.to = j.to /\ H.moved = j.moved /\ H.m = j.m
    BY <1>1, <2>3 DEF Job
  <2>10. /\ J.at = s /\ J.cursor = H.cursor /\ J.ids = H.ids /\ J.c = H.c /\ J.then = H.then
         /\ J.provider = H.provider /\ J.ref = H.ref /\ J.box = H.box /\ J.relist = H.relist
         /\ J.got = H.got /\ J.to = H.to /\ J.moved = H.moved /\ J.m = H.m
    BY <2>4, <2>5 DEF Job
  <2>11. Goes(w, s) /\ SamePoll(w)
    BY <1>1, <2>8, <2>9, <2>10, InHandTyped DEF Goes, SamePoll
  <2>12. HandlerOK(job[w])'
    BY <1>1, <1>2, <2>2, <2>8, <2>9, <2>10, <2>11, InHandTyped, GoesHandler
  <2>13. Handling(w)
    BY <1>5, <2>2, <2>8, <2>9, <2>10, <2>11 DEF Handling
  <2> QED BY <1>1, <1>2, <1>3, <1>5, <2>8, <2>10, <2>12, <2>13, ImportStep
<1>6. CASE /\ Linked(k) = {} /\ UNCHANGED <<settled, dropped>>
           /\ \E verdict \in Verdicts(mail[j.m].kind, j.cv) :
                job' = [job EXCEPT ![w].re = HasImport(k),
                                   ![w].at = CASE verdict = "skip" -> "skip"
                                               [] verdict = "auto" -> "pending"
                                               [] verdict = "ask" -> "classify"]
  <2>1. PICK verdict \in {"skip", "auto", "ask"} :
                job' = [job EXCEPT ![w].re = HasImport(k),
                                   ![w].at = CASE verdict = "skip" -> "skip"
                                               [] verdict = "auto" -> "pending"
                                               [] verdict = "ask" -> "classify"]
    BY <1>6 DEF Verdicts
  <2>2. PICK s : s = CASE verdict = "skip" -> "skip"
                       [] verdict = "auto" -> "pending"
                       [] verdict = "ask" -> "classify"
    OBVIOUS
  <2>3. s \in {"skip", "pending", "classify"}
    BY <2>2
  <2>4. job' = [job EXCEPT ![w].re = HasImport(k), ![w].at = s]
    BY <2>1, <2>2
  <2> QED BY <1>5, <1>6, <2>3, <2>4
<1> QED BY <1>4, <1>6 DEF Lookup

\* A step of the import that writes a row or none, and makes no candidate.
LEMMA PlainImportStep ==
    ASSUME TypeInv, NEW w \in Workers, job[w].at \in Importing,
           UNCHANGED <<conn, candidates, born, client, providers, swapped, unheard, suspect>>,
           \/ UNCHANGED imports
           \/ ImportsOK' /\ \E status \in Statuses : Writes(w, status),
           \/ \E s \in Importing : Goto(w, s) /\ UNCHANGED <<settled, dropped>>
           \/ Done(w) \/ Threw(w)
    PROVE  TypeInv' /\ Imports(w)
<1>1. UNCHANGED <<box, issued>>
  BY DEF providers
<1>2. ImportsOK'
  BY NoImportStep
<1>3. (Handling(w) \/ HandsBack(w)) /\ HandlerOK(job[w])'
  <2>1. CASE \E s \in Importing : Goto(w, s) /\ UNCHANGED <<settled, dropped>>
    BY <1>1, <2>1, HandlingStep
  <2>2. CASE Done(w) \/ Threw(w)
    <3>1. PICK why \in {"done", "threw", "elsewhere"} : Return(w, why)
      BY <2>2 DEF Done, Threw
    <3> QED BY <1>1, <3>1, ReturnStep
  <2> QED BY <2>1, <2>2
<1> QED BY <1>2, <1>3, ImportStep

LEMMA WriteSkipStep ==
    ASSUME TypeInv, NEW w \in Workers, WriteSkip(w)
    PROVE  /\ TypeInv' /\ Imports(w) /\ UNCHANGED candidates
           /\ job'[w].at = "each"
           /\ UNCHANGED imports \/ Writes(w, "SKIPPED")
<1>1. job[w].at \in Importing
      /\ UNCHANGED <<conn, candidates, born, client, providers, swapped, unheard, suspect>>
  BY DEF WriteSkip, Importing
<1>2. UNCHANGED imports \/ (ImportsOK' /\ Writes(w, "SKIPPED"))
  <2>1. CASE Store(w, KeyOf(job[w]), "SKIPPED", job[w].re /\ imports[KeyOf(job[w])].body)
    <3>1. PICK body \in BOOLEAN : body = (job[w].re /\ imports[KeyOf(job[w])].body)
      OBVIOUS
    <3>2. Store(w, KeyOf(job[w]), "SKIPPED", body)
      BY <2>1, <3>1
    <3>3. "SKIPPED" \in Statuses
      BY DEF Statuses
    <3> QED BY <1>1, <3>2, <3>3, StoreStep
  <2> QED BY <2>1 DEF WriteSkip
<1>3. Done(w) \/ Threw(w)
  BY DEF WriteSkip
<1>4. TypeInv' /\ Imports(w)
  BY <1>1, <1>2, <1>3, PlainImportStep DEF Statuses
<1>5. HandsBack(w)
  <2>1. PICK why \in {"done", "threw", "elsewhere"} : Return(w, why)
    BY <1>3 DEF Done, Threw
  <2> QED BY <1>1, <2>1, ReturnStep DEF providers
<1> QED BY <1>1, <1>2, <1>4, <1>5 DEF HandsBack, Goes

LEMMA ClassifyStep ==
    ASSUME TypeInv, NEW w \in Workers, Classify(w)
    PROVE  /\ TypeInv' /\ Imports(w) /\ UNCHANGED <<imports, candidates>>
           /\ HandsBack(w) \/ (Handling(w) /\ job'[w].at = "pending")
<1>1. job[w].at \in Importing
      /\ UNCHANGED <<conn, candidates, born, client, providers, swapped, unheard, suspect>>
      /\ UNCHANGED imports /\ UNCHANGED <<box, issued>>
  BY DEF Classify, Importing, rows, providers
<1>2. CASE Goto(w, "pending") /\ UNCHANGED <<settled, dropped>>
  <2>1. "pending" \in Importing
    BY DEF Importing
  <2> QED BY <1>1, <1>2, <2>1, PlainImportStep, HandlingStep
<1>3. CASE Threw(w)
  <2>1. HandsBack(w)
    BY <1>1, <1>3, ReturnStep DEF Threw
  <2> QED BY <1>1, <1>3, <2>1, PlainImportStep
<1> QED BY <1>2, <1>3 DEF Classify

LEMMA WritePendingStep ==
    ASSUME TypeInv, NEW w \in Workers, WritePending(w)
    PROVE  /\ TypeInv' /\ Imports(w) /\ UNCHANGED candidates
           /\ \/ UNCHANGED imports /\ HandsBack(w)
              \/ Writes(w, "PENDING") /\ Handling(w) /\ job'[w].at = "begin"
<1>1. job[w].at \in Importing
      /\ UNCHANGED <<conn, candidates, born, client, providers, swapped, unheard, suspect>>
      /\ UNCHANGED <<box, issued>>
  BY DEF WritePending, Importing, providers
<1>2. CASE /\ Store(w, KeyOf(job[w]), "PENDING", TRUE)
           /\ Goto(w, "begin") /\ UNCHANGED <<settled, dropped>>
  <2>1. "PENDING" \in Statuses /\ "begin" \in Importing
    BY DEF Statuses, Importing
  <2>2. ImportsOK' /\ Writes(w, "PENDING")
    BY <1>1, <1>2, <2>1, StoreStep
  <2>3. TypeInv' /\ Imports(w)
    BY <1>1, <1>2, <2>1, <2>2, PlainImportStep
  <2>4. Handling(w) /\ job'[w].at = "begin"
    BY <1>1, <1>2, <2>1, HandlingStep
  <2> QED BY <1>1, <2>2, <2>3, <2>4
<1>3. CASE Threw(w) /\ UNCHANGED imports
  <2>1. HandsBack(w)
    BY <1>1, <1>3, ReturnStep DEF Threw
  <2> QED BY <1>1, <1>3, <2>1, PlainImportStep
<1> QED BY <1>2, <1>3 DEF WritePending

LEMMA BeginImportStep ==
    ASSUME TypeInv, NEW w \in Workers, BeginImport(w)
    PROVE  /\ TypeInv' /\ Imports(w) /\ UNCHANGED candidates
           /\ \/ UNCHANGED imports /\ HandsBack(w)
              \/ Writes(w, "PROCESSING") /\ Handling(w) /\ job'[w].at \in {"findCv", "findSender"}
<1>1. job[w].at \in Importing
      /\ UNCHANGED <<conn, candidates, born, client, providers, swapped, unheard, suspect>>
      /\ UNCHANGED <<box, issued>>
  BY DEF BeginImport, Importing, providers
<1>2. CASE /\ HasImport(KeyOf(job[w])) /\ Mark(KeyOf(job[w]), "PROCESSING", TRUE)
           /\ Goto(w, IF job[w].cv THEN "findCv" ELSE "findSender") /\ UNCHANGED <<settled,
                                                                                   dropped>>
  <2>1. "PROCESSING" \in Statuses /\ "findCv" \in Importing /\ "findSender" \in Importing
    BY DEF Statuses, Importing
  <2>2. ImportsOK' /\ Writes(w, "PROCESSING")
    BY <1>1, <1>2, <2>1, MarkStep
  <2>3. PICK s \in {"findCv", "findSender"} : Goto(w, s)
    BY <1>2
  <2>4. TypeInv' /\ Imports(w)
    BY <1>1, <1>2, <2>1, <2>2, <2>3, PlainImportStep
  <2>5. Handling(w) /\ job'[w].at = s
    BY <1>1, <1>2, <2>1, <2>3, HandlingStep
  <2> QED BY <1>1, <2>2, <2>3, <2>4, <2>5
<1>3. CASE Threw(w) /\ UNCHANGED imports
  <2>1. HandsBack(w)
    BY <1>1, <1>3, ReturnStep DEF Threw
  <2> QED BY <1>1, <1>3, <2>1, PlainImportStep
<1> QED BY <1>2, <1>3 DEF BeginImport

\* The import ends without a candidate.
LEMMA SkippingSteps ==
    ASSUME TypeInv, NEW w \in Workers,
           \/ DeclineImport(w)
           \/ MarkDuplicate(w) /\ HasImport(KeyOf(job[w]))
    PROVE  TypeInv' /\ Imports(w) /\ UNCHANGED candidates /\ Writes(w, "SKIPPED") /\ HandsBack(w)
<1>1. /\ job[w].at \in Importing
      /\ UNCHANGED <<conn, candidates, born, client, providers, swapped, unheard, suspect>>
      /\ UNCHANGED <<box, issued>>
      /\ HasImport(KeyOf(job[w])) /\ Mark(KeyOf(job[w]), "SKIPPED", FALSE) /\ Done(w)
  BY DEF DeclineImport, MarkDuplicate, Importing, providers
<1>2. "SKIPPED" \in Statuses
  BY DEF Statuses
<1>3. ImportsOK' /\ Writes(w, "SKIPPED")
  BY <1>1, <1>2, MarkStep
<1>4. HandsBack(w)
  BY <1>1, ReturnStep DEF Done
<1> QED BY <1>1, <1>2, <1>3, <1>4, PlainImportStep

LEMMA FindingSteps ==
    ASSUME TypeInv, NEW w \in Workers, FindCvDuplicate(w) \/ FindSenderDuplicate(w)
    PROVE  /\ TypeInv' /\ Imports(w) /\ UNCHANGED <<imports, candidates, shared, uncounted>>
           /\ job[w].at \in {"findCv", "findSender"} /\ Handling(w)
           /\ job'[w].at \in {"duplicate", "createCv", "createSender", "fail"}
<1> DEFINE j == job[w]
<1>1. /\ job[w].at \in Importing /\ job[w].at \in {"findCv", "findSender"}
      /\ UNCHANGED <<conn, candidates, born, client, providers, swapped, unheard, suspect>>
      /\ UNCHANGED <<imports, settled, dropped, box, issued, shared, uncounted>>
  BY DEF FindCvDuplicate, FindSenderDuplicate, Importing, rows, providers, history
<1>2. job \in [Workers -> Job] /\ j \in Job /\ mail[j.m].sender \in Senders
  BY <1>1, InHandTyped DEF Message
<1>3. CASE Goto(w, "fail")
  <2>1. "fail" \in Importing
    BY DEF Importing
  <2> QED BY <1>1, <1>3, <2>1, PlainImportStep, HandlingStep
<1>4. ASSUME NEW who \in Senders, NEW duplicate \in BOOLEAN, NEW otherwise \in {"createCv", "createSender"},
             Found(w, who, duplicate, otherwise)
      PROVE  /\ TypeInv' /\ Imports(w) /\ Handling(w)
             /\ job'[w].at \in {"duplicate", "createCv", "createSender", "fail"}
  <2>1. PICK s \in {"duplicate", "createCv", "createSender"} :
           job' = [job EXCEPT ![w].who = who, ![w].at = s]
    BY <1>4 DEF Found
  <2>2. s \in Importing /\ s \in Statements /\ s \in Listed /\ s # "cursor" /\ s # "get"
    BY DEF Importing, Statements, PollStatements, Listed
  <2>3. PICK H : H = [j EXCEPT !.who = who]
    OBVIOUS
  <2>4. PICK J : J = [H EXCEPT !.at = s]
    OBVIOUS
  <2>5. H \in Job
    BY <1>2, <2>3 DEF Job
  <2>6. J \in Job
    BY <2>2, <2>4, <2>5 DEF Job, Statements
  <2>7. J = [j EXCEPT !.who = who, !.at = s]
    BY <2>3, <2>4
  <2>8. Moves(w) /\ job'[w] = J
    BY <1>2, <2>1, <2>6, <2>7, JobStep
  <2>9. /\ H.cursor = j.cursor /\ H.ids = j.ids /\ H.c = j.c /\ H.then = j.then
        /\ H.provider = j.provider /\ H.ref = j.ref /\ H.box = j.box /\ H.relist = j.relist
        /\ H.got = j.got /\ H.to = j.to /\ H.moved = j.moved /\ H.m = j.m
    BY <1>2, <2>3 DEF Job
  <2>10. /\ J.at = s /\ J.cursor = H.cursor /\ J.ids = H.ids /\ J.c = H.c /\ J.then = H.then
         /\ J.provider = H.provider /\ J.ref = H.ref /\ J.box = H.box /\ J.relist = H.relist
         /\ J.got = H.got /\ J.to = H.to /\ J.moved = H.moved /\ J.m = H.m
    BY <2>4, <2>5 DEF Job
  <2>11. Goes(w, s) /\ SamePoll(w)
    BY <1>1, <2>8, <2>9, <2>10, InHandTyped DEF Goes, SamePoll
  <2>12. HandlerOK(job[w])'
    BY <1>1, <2>2, <2>8, <2>9, <2>10, <2>11, InHandTyped, GoesHandler
  <2>13. Handling(w)
    BY <1>1, <2>2, <2>8, <2>9, <2>10, <2>11 DEF Handling
  <2>14. ImportsOK'
    BY <1>1, NoImportStep
  <2> QED BY <1>1, <2>8, <2>10, <2>12, <2>13, <2>14, ImportStep
<1>5. \/ Goto(w, "fail")
      \/ \E who \in Senders, duplicate \in BOOLEAN, otherwise \in {"createCv", "createSender"} :
            Found(w, who, duplicate, otherwise)
  <2>1. CASE FindCvDuplicate(w)
    <3>1. ASSUME NEW who \in Senders,
                 Found(w, who, Known(CompanyOf(j.c), mail[j.m].sender) \/ Known(CompanyOf(j.c), who),
                       "createCv")
          PROVE  \E duplicate \in BOOLEAN : Found(w, who, duplicate, "createCv")
      <4>1. PICK duplicate \in BOOLEAN :
                duplicate = (Known(CompanyOf(j.c), mail[j.m].sender) \/ Known(CompanyOf(j.c), who))
        OBVIOUS
      <4> QED BY <3>1, <4>1
    <3> QED BY <2>1, <3>1 DEF FindCvDuplicate
  <2>2. CASE FindSenderDuplicate(w)
    <3>1. PICK duplicate \in BOOLEAN : duplicate = Known(CompanyOf(j.c), mail[j.m].sender)
      BY DEF Known
    <3> QED BY <1>2, <2>2, <3>1 DEF FindSenderDuplicate
  <2> QED BY <2>1, <2>2
<1> QED BY <1>1, <1>3, <1>4, <1>5

\* A candidate is made of the message in hand, the only one.
Creates(w) ==
    /\ Linked(KeyOf(job[w])) = {} /\ HasImport(KeyOf(job[w])) /\ UNCHANGED imports
    /\ Handling(w) /\ job'[w].at \in {"score", "imported"}
    /\ \E x : candidates' = candidates \cup {x} /\ x.link = KeyOf(job[w])

LEMMA CreatingSteps ==
    ASSUME TypeInv, NEW w \in Workers, CreateCvCandidate(w) \/ CreateCandidate(w)
    PROVE  /\ TypeInv' /\ Imports(w)
           /\ job[w].at \in {"createCv", "createSender"} /\ UNCHANGED <<imports, shared, uncounted>>
           /\ \/ Creates(w)
              \/ /\ UNCHANGED candidates /\ Handling(w) /\ job'[w].at = "fail"
<1> DEFINE j == job[w]
<1>1. /\ job[w].at \in Importing /\ job[w].at \in {"createCv", "createSender"}
      /\ UNCHANGED <<conn, client, providers, swapped, unheard, suspect>>
      /\ UNCHANGED <<imports, settled, dropped, box, issued, shared, uncounted>>
  BY DEF CreateCvCandidate, CreateCandidate, AddCandidate, Importing, providers, history
<1>2. /\ j.c \in Connections /\ j.who \in Senders \cup {None}
  BY <1>1, InHandTyped
<1>3. PICK k \in Keys : k = KeyOf(j)
  BY <1>1, InHandTyped
<1>4. CASE Goto(w, "fail") /\ UNCHANGED <<born, candidates>>
  <2>1. "fail" \in Importing
    BY DEF Importing
  <2> QED BY <1>1, <1>4, <2>1, PlainImportStep, HandlingStep
<1>5. CASE /\ Connected(j.c) /\ HasImport(k) /\ Linked(k) = {} /\ born < MaxCandidates
           /\ born' = born + 1
           /\ candidates' = candidates \cup
                {[id |-> born + 1, company |-> CompanyOf(j.c), who |-> j.who, link |-> k]}
           /\ \E s \in {"score", "imported"} : Goto(w, s)
  <2>1. PICK x : x = [id |-> born + 1, company |-> CompanyOf(j.c), who |-> j.who, link |-> k]
    OBVIOUS
  <2>2. conn[j.c] \in Connection /\ CompanyOf(j.c) \in Companies
    BY <1>2, <1>5, RowOf DEF Connection, CompanyOf
  <2>3. born + 1 \in Nat /\ born' \in 0..MaxCandidates
    BY <1>5, MailBoundsAssumption DEF TypeInv, TablesOK, ImportsOK
  <2>4. x \in Candidate /\ x.link = k
    BY <1>2, <1>3, <2>1, <2>2, <2>3 DEF Candidate
  <2>5. ImportsOK'
    BY <1>1, <1>5, <2>1, <2>3, <2>4 DEF TypeInv, TablesOK, ImportsOK, HasImport
  <2>6. PICK s \in {"score", "imported"} : Goto(w, s)
    BY <1>5
  <2>7. s \in Importing
    BY DEF Importing
  <2>8. Handling(w) /\ HandlerOK(job[w])' /\ job'[w].at = s
    BY <1>1, <2>6, <2>7, HandlingStep
  <2>9. TypeInv' /\ Imports(w)
    BY <1>1, <2>5, <2>8, ImportStep
  <2>10. candidates' = candidates \cup {x}
    BY <1>5, <2>1
  <2>11. Creates(w)
    BY <1>1, <1>3, <1>5, <2>4, <2>8, <2>10 DEF Creates
  <2> QED BY <1>1, <2>9, <2>11
<1>6. \E next \in {{"score", "imported"}, {"imported"}} : AddCandidate(w, next)
  BY DEF CreateCvCandidate, CreateCandidate
<1> QED BY <1>3, <1>4, <1>5, <1>6 DEF AddCandidate

LEMMA ScoreStep ==
    ASSUME TypeInv, NEW w \in Workers, ScoreCandidate(w)
    PROVE  /\ TypeInv' /\ Imports(w) /\ UNCHANGED <<imports, candidates, shared, uncounted>>
           /\ job[w].at = "score" /\ Handling(w) /\ job'[w].at = "imported"
<1>1. /\ job[w].at \in Importing /\ Goto(w, "imported") /\ "imported" \in Importing
      /\ UNCHANGED <<conn, candidates, born, client, providers, swapped, unheard, suspect>>
      /\ UNCHANGED <<imports, settled, dropped, box, issued, shared, uncounted>>
  BY DEF ScoreCandidate, Importing, rows, providers, history
<1> QED BY <1>1, PlainImportStep, HandlingStep DEF ScoreCandidate

LEMMA MarkImportedStep ==
    ASSUME TypeInv, NEW w \in Workers, MarkImported(w)
    PROVE  /\ TypeInv' /\ Imports(w) /\ UNCHANGED <<candidates, shared, uncounted>>
           /\ job[w].at = "imported" /\ Handling(w)
           /\ \/ Writes(w, "IMPORTED") /\ job'[w].at = "count"
              \/ UNCHANGED imports /\ ~HasImport(KeyOf(job[w])) /\ job'[w].at = "fail"
<1>1. /\ job[w].at \in Importing /\ "count" \in Importing /\ "fail" \in Importing
      /\ UNCHANGED <<conn, candidates, born, client, providers, swapped, unheard, suspect>>
      /\ UNCHANGED <<settled, dropped, box, issued, shared, uncounted>>
  BY DEF MarkImported, Importing, providers, history
<1>2. CASE HasImport(KeyOf(job[w])) /\ Mark(KeyOf(job[w]), "IMPORTED", FALSE) /\ Goto(w, "count")
  <2>1. "IMPORTED" \in Statuses
    BY DEF Statuses
  <2>2. ImportsOK' /\ Writes(w, "IMPORTED")
    BY <1>1, <1>2, <2>1, MarkStep
  <2> QED BY <1>1, <1>2, <2>1, <2>2, PlainImportStep, HandlingStep DEF MarkImported
<1>3. CASE ~HasImport(KeyOf(job[w])) /\ Goto(w, "fail") /\ UNCHANGED imports
  BY <1>1, <1>3, PlainImportStep, HandlingStep DEF MarkImported
<1> QED BY <1>2, <1>3 DEF MarkImported

LEMMA CountImportStep ==
    ASSUME TypeInv, NEW w \in Workers, CountImport(w)
    PROVE  /\ TypeInv' /\ Imports(w) /\ UNCHANGED <<imports, candidates, shared>>
           /\ job[w].at = "count"
           /\ \/ HandsBack(w) /\ UNCHANGED uncounted
              \/ /\ Handling(w) /\ job'[w].at = "fail"
                 /\ uncounted' = uncounted \cup {KeyOf(job[w])}
<1>1. /\ job[w].at \in Importing /\ "fail" \in Importing
      /\ UNCHANGED <<conn, candidates, born, client, providers, swapped, unheard, suspect>>
      /\ UNCHANGED <<imports, box, issued, shared>>
  BY DEF CountImport, Importing, rows, providers
<1>2. CASE Done(w) /\ UNCHANGED uncounted
  <2>1. HandsBack(w)
    BY <1>1, <1>2, ReturnStep DEF Done
  <2> QED BY <1>1, <1>2, <2>1, PlainImportStep DEF CountImport
<1>3. CASE /\ Goto(w, "fail") /\ UNCHANGED <<settled, dropped>>
           /\ uncounted' = uncounted \cup {KeyOf(job[w])}
  BY <1>1, <1>3, PlainImportStep, HandlingStep DEF CountImport
<1> QED BY <1>2, <1>3 DEF CountImport

LEMMA GoneDuplicateStep ==
    ASSUME TypeInv, NEW w \in Workers, MarkDuplicate(w), ~HasImport(KeyOf(job[w]))
    PROVE  /\ TypeInv' /\ Imports(w) /\ UNCHANGED <<imports, candidates>>
           /\ job[w].at = "duplicate" /\ Handling(w) /\ job'[w].at = "fail"
<1>1. /\ job[w].at \in Importing /\ "fail" \in Importing
      /\ UNCHANGED <<conn, candidates, born, client, providers, swapped, unheard, suspect>>
      /\ UNCHANGED <<imports, settled, dropped, box, issued>> /\ Goto(w, "fail")
  BY DEF MarkDuplicate, Importing, providers
<1> QED BY <1>1, PlainImportStep, HandlingStep DEF MarkDuplicate

LEMMA MarkFailedStep ==
    ASSUME TypeInv, NEW w \in Workers, MarkFailed(w)
    PROVE  /\ TypeInv' /\ Imports(w) /\ UNCHANGED <<candidates, shared, uncounted>>
           /\ job[w].at = "fail" /\ HandsBack(w)
           /\ Writes(w, "FAILED") \/ (UNCHANGED imports /\ ~HasImport(KeyOf(job[w])))
<1>1. /\ job[w].at \in Importing /\ Threw(w)
      /\ UNCHANGED <<conn, candidates, born, client, providers, swapped, unheard, suspect>>
      /\ UNCHANGED <<box, issued, shared, uncounted>>
  BY DEF MarkFailed, Importing, providers
<1>2. HandsBack(w)
  BY <1>1, ReturnStep DEF Threw
<1>3. CASE HasImport(KeyOf(job[w])) /\ Mark(KeyOf(job[w]), "FAILED", FALSE)
  <2>1. "FAILED" \in Statuses
    BY DEF Statuses
  <2>2. ImportsOK' /\ Writes(w, "FAILED")
    BY <1>1, <1>3, <2>1, MarkStep
  <2> QED BY <1>1, <1>2, <2>1, <2>2, PlainImportStep DEF MarkFailed
<1>4. CASE ~HasImport(KeyOf(job[w])) /\ UNCHANGED imports
  BY <1>1, <1>2, <1>4, PlainImportStep DEF MarkFailed
<1> QED BY <1>3, <1>4 DEF MarkFailed

-----------------------------------------------------------------------------
(* Mail that arrives, time, maintenance and crashes *)

\* A mailbox changes in one message, at the next moment of the clock.
Receives(c, m) ==
    /\ clock < MaxClock /\ clock' = Now
    /\ box'[c][m].last = Now /\ box'[c][m].at \in {Now, box[c][m].at}
    /\ \A d \in Connections, n \in Mails : <<d, n>> # <<c, m>> => box'[d][n] = box[d][n]
    /\ pushes' = IF c \in pushing THEN pushes \cup {c} ELSE pushes
    /\ UNCHANGED <<rows, job, client, grants, issued, pushing,
                   settled, dropped, shared, swapped, uncounted, suspect>>

LEMMA ReceiveStep ==
    ASSUME TypeInv, NEW c \in Connections, NEW m \in Mails, Receives(c, m),
           box' \in [Connections -> [Mails -> Copy]],
           mail' \in [Mails -> Message \cup {NotSent}],
           box'[c][m].at = box[c][m].at => box[c][m].at # 0 /\ UNCHANGED mail,
           \A n \in Mails : mail[n] # NotSent => mail'[n] # NotSent,
           mail'[m] # NotSent
    PROVE  TypeInv'
<1>1. clock \in Nat /\ Now \in Times /\ Now = clock + 1
  BY MailBoundsAssumption DEF TypeInv, TablesOK, MailboxesOK, Times, Now, Receives
<1>2. UNCHANGED <<conn, imports, candidates, born, issued, grants, client, pushing, job>>
      /\ pushes' \subseteq Connections /\ clock' = Now
  BY DEF Receives, rows, TypeInv, TablesOK, OthersOK
<1>3. ASSUME NEW d \in Connections, NEW n \in Mails
      PROVE  /\ box'[d][n].at <= box'[d][n].last /\ box'[d][n].last <= clock'
             /\ box'[d][n].at # 0 => mail'[n] # NotSent
             /\ box[d][n].at # 0 => box'[d][n].at # 0
  <2>1. /\ box[d][n].at \in Times /\ box[d][n].last \in Times /\ box[d][n].at <= box[d][n].last
        /\ box[d][n].last <= clock /\ (box[d][n].at # 0 => mail[n] # NotSent)
    BY Arrivals DEF Arrived
  <2>2. CASE <<d, n>> = <<c, m>>
    BY <1>1, <1>2, <2>1, <2>2, MailBoundsAssumption DEF Receives, Times
  <2>3. CASE <<d, n>> # <<c, m>>
    <3>1. box'[d][n] = box[d][n]
      BY <2>3 DEF Receives
    <3> QED BY <1>1, <1>2, <2>1, <3>1, MailBoundsAssumption DEF Times
  <2> QED BY <2>2, <2>3
<1>4. MailboxesOK'
  BY <1>1, <1>2, <1>3 DEF MailboxesOK
<1>5. ConnectionsOK' /\ ImportsOK'
  BY <1>2, NoRowStep, NoImportStep
<1>6. TablesOK'
  BY <1>2, <1>4, <1>5 DEF TypeInv, TablesOK, OthersOK
<1>7. Grows
  <2>1. \A d \in Connections : issued[d] \in Nat
    BY MailBoundsAssumption DEF TypeInv, TablesOK, ConnectionsOK
  <2> QED BY <1>2, <1>3, <2>1 DEF Grows, Holds, Arrived
<1> QED BY <1>2, <1>6, <1>7, EventStep

LEMMA DeliverStep ==
    ASSUME TypeInv, NEW c \in Connections, NEW m \in Mails, Deliver(c, m)
    PROVE  /\ TypeInv' /\ Receives(c, m) /\ m \notin Holds(c)
           /\ box'[c][m].at = Now /\ \A n \in Mails \ {m} : mail'[n] = mail[n]
           /\ mail[m] # NotSent => UNCHANGED mail
           /\ Heard(c, c \in pushing /\ c \notin unheard)
<1>1. Now \in Times /\ clock < MaxClock /\ clock \in Nat
  BY MailBoundsAssumption DEF Deliver, TypeInv, TablesOK, MailboxesOK, Times, Now
<1>2. PICK copy : copy = [at |-> Now, last |-> Now, read |-> FALSE]
  OBVIOUS
<1>3. copy \in Copy /\ copy.at = Now /\ copy.last = Now
  BY <1>1, <1>2 DEF Copy
<1>4. box' = [box EXCEPT ![c][m] = copy] /\ box \in [Connections -> [Mails -> Copy]]
  BY <1>2 DEF Deliver, Arrival, TypeInv, TablesOK, MailboxesOK
<1>5. /\ box' \in [Connections -> [Mails -> Copy]] /\ box'[c][m] = copy
      /\ \A d \in Connections, n \in Mails : <<d, n>> # <<c, m>> => box'[d][n] = box[d][n]
  BY <1>3, <1>4
<1>6. Receives(c, m)
  BY <1>1, <1>3, <1>5 DEF Receives, Deliver, Arrival
<1>7. /\ mail \in [Mails -> Message \cup {NotSent}]
      /\ \/ mail[m] # NotSent /\ UNCHANGED mail
         \/ \E kind \in Kinds, who \in Senders :
               mail' = [mail EXCEPT ![m] = [kind |-> kind, sender |-> who]]
      /\ mail[m] # NotSent => UNCHANGED mail
  BY DEF Deliver, TypeInv, TablesOK, MailboxesOK
<1>8. /\ mail' \in [Mails -> Message \cup {NotSent}] /\ mail'[m] # NotSent
      /\ \A n \in Mails \ {m} : mail'[n] = mail[n]
  <2>1. CASE UNCHANGED mail /\ mail[m] # NotSent
    BY <1>7, <2>1
  <2>2. ASSUME NEW kind \in Kinds, NEW who \in Senders,
               mail' = [mail EXCEPT ![m] = [kind |-> kind, sender |-> who]]
        PROVE  /\ mail' \in [Mails -> Message \cup {NotSent}] /\ mail'[m] # NotSent
               /\ \A n \in Mails \ {m} : mail'[n] = mail[n]
    <3>1. PICK r : r = [kind |-> kind, sender |-> who]
      OBVIOUS
    <3>2. r \in Message /\ r # NotSent
      BY <3>1, RowsAreRows DEF Message
    <3> QED BY <1>7, <2>2, <3>1, <3>2
  <2> QED BY <1>7, <2>1, <2>2
<1>9. m \notin Holds(c) /\ box[c][m].at = 0
  BY DEF Deliver, Holds, Arrived
<1>10. TypeInv'
  BY <1>1, <1>3, <1>5, <1>6, <1>8, <1>9, ReceiveStep DEF Now
<1> QED BY <1>3, <1>5, <1>6, <1>7, <1>8, <1>9, <1>10 DEF Deliver

LEMMA ReadMessageStep ==
    ASSUME TypeInv, NEW c \in Connections, NEW m \in Mails, ReadMessage(c, m)
    PROVE  /\ TypeInv' /\ Receives(c, m) /\ m \in Holds(c) /\ UNCHANGED <<mail, unheard>>
           /\ box'[c][m].at = box[c][m].at
<1>1. Now \in Times /\ clock < MaxClock /\ clock \in Nat
  BY MailBoundsAssumption DEF ReadMessage, TypeInv, TablesOK, MailboxesOK, Times, Now
<1>2. box[c][m] \in Copy /\ m \in Holds(c) /\ box[c][m].at # 0 /\ mail[m] # NotSent
  BY Arrivals, ListsHold DEF ReadMessage, Holds, Arrived
<1>3. PICK copy : copy = [box[c][m] EXCEPT !.last = Now, !.read = TRUE]
  OBVIOUS
<1>4. copy \in Copy /\ copy.at = box[c][m].at /\ copy.last = Now
  BY <1>1, <1>2, <1>3 DEF Copy
<1>5. box' = [box EXCEPT ![c][m] = copy] /\ box \in [Connections -> [Mails -> Copy]]
  BY <1>3 DEF ReadMessage, TypeInv, TablesOK, MailboxesOK
<1>6. /\ box' \in [Connections -> [Mails -> Copy]] /\ box'[c][m] = copy
      /\ \A d \in Connections, n \in Mails : <<d, n>> # <<c, m>> => box'[d][n] = box[d][n]
  BY <1>4, <1>5
<1>7. Receives(c, m)
  BY <1>1, <1>4, <1>6 DEF Receives, ReadMessage, history
<1>8. mail \in [Mails -> Message \cup {NotSent}] /\ UNCHANGED <<mail, unheard>>
  BY DEF ReadMessage, history, TypeInv, TablesOK, MailboxesOK
<1>9. TypeInv'
  BY <1>2, <1>4, <1>6, <1>7, <1>8, ReceiveStep
<1> QED BY <1>2, <1>4, <1>6, <1>7, <1>8, <1>9

\* A connection's row ages, or what its provider accepts and pushes.
Ages ==
    /\ RowsKeep
    /\ UNCHANGED <<imports, candidates, born, job, client, clock, mail, box, issued, pushes,
                   history>>

LEMMA RowAgesStep ==
    ASSUME TypeInv, NEW c \in Connections,
           \/ TokenAges(c) \/ WatchLapses(c) \/ \E auto \in BOOLEAN : SetAutoImport(c, auto)
    PROVE  TypeInv' /\ Ages
<1>1. /\ UNCHANGED <<imports, candidates, born, job, client, clock, mail, box, issued, grants,
                     pushes,
                     history>>
      /\ pushing' \subseteq Connections /\ Connected(c)
  BY DEF TokenAges, WatchLapses, SetAutoImport, providers, TypeInv, TablesOK, OthersOK
<1>2. conn[c] \in Connection /\ conn[c].grant \in 1..issued[c]
  BY <1>1, RowOf
<1>3. ASSUME NEW row \in Connection, row.grant = conn[c].grant, row.cursor = conn[c].cursor,
             row.created = conn[c].created, conn' = [conn EXCEPT ![c] = row]
      PROVE  TypeInv' /\ Ages
  <2>1. ConnectionsOK' /\ RowsKeep
    BY <1>1, <1>2, <1>3, RowStep
  <2>2. ImportsOK' /\ MailboxesOK' /\ client' \in Connections \cup {None} /\ Grows
    BY <1>1, SameMail, NothingGrows
  <2>3. TablesOK'
    BY <1>1, <2>1, <2>2 DEF TypeInv, TablesOK, OthersOK
  <2> QED BY <1>1, <2>1, <2>2, <2>3, EventStep DEF Ages
<1>4. CASE TokenAges(c)
  <2>1. PICK row : row = [conn[c] EXCEPT !.stale = TRUE]
    OBVIOUS
  <2>2. row \in Connection /\ row.grant = conn[c].grant /\ row.cursor = conn[c].cursor
        /\ row.created = conn[c].created
    BY <1>2, <2>1 DEF Connection
  <2> QED BY <1>3, <1>4, <2>1, <2>2 DEF TokenAges
<1>5. CASE WatchLapses(c)
  <2>1. PICK row : row = [conn[c] EXCEPT !.watch = "lapsed"]
    OBVIOUS
  <2>2. row \in Connection /\ row.grant = conn[c].grant /\ row.cursor = conn[c].cursor
        /\ row.created = conn[c].created
    BY <1>2, <2>1 DEF Connection
  <2> QED BY <1>3, <1>5, <2>1, <2>2 DEF WatchLapses
<1>6. ASSUME NEW auto \in BOOLEAN, SetAutoImport(c, auto) PROVE TypeInv' /\ Ages
  <2>1. PICK row : row = [conn[c] EXCEPT !.auto = auto]
    OBVIOUS
  <2>2. row \in Connection /\ row.grant = conn[c].grant /\ row.cursor = conn[c].cursor
        /\ row.created = conn[c].created
    BY <1>2, <2>1 DEF Connection
  <2> QED BY <1>3, <1>6, <2>1, <2>2 DEF SetAutoImport
<1> QED BY <1>4, <1>5, <1>6

LEMMA ConsentStep ==
    ASSUME TypeInv, NEW c \in Connections, ConsentWithdrawn(c)
    PROVE  TypeInv' /\ Ages
<1>1. UNCHANGED <<conn, imports, candidates, born, job, client, clock, mail, box, issued, pushing,
                  pushes,
                  history>>
  BY DEF ConsentWithdrawn, rows
<1>2. /\ grants' \in [Connections -> SUBSET (1..MaxGrants)]
      /\ \A d \in Connections : grants'[d] \subseteq grants[d]
  BY DEF ConsentWithdrawn, TypeInv, TablesOK, ConnectionsOK
<1>3. ConnectionsOK' /\ RowsKeep
  BY <1>1, <1>2 DEF TypeInv, TablesOK, ConnectionsOK, Connected, RowsKeep
<1>4. ImportsOK' /\ MailboxesOK' /\ client' \in Connections \cup {None} /\ Grows
  BY <1>1, SameMail, NothingGrows
<1>5. TablesOK'
  BY <1>1, <1>3, <1>4 DEF TypeInv, TablesOK, OthersOK
<1> QED BY <1>1, <1>3, <1>4, <1>5, EventStep DEF Ages

\* Rows go or stay as they are, and so do the candidates and their links.
Tidies ==
    \A k \in Keys :
        /\ imports'[k] # NoImport =>
              /\ HasImport(k) /\ imports'[k].status = imports[k].status
              /\ imports'[k].from = imports[k].from /\ imports'[k].conn = imports[k].conn
        /\ Linked(k) = {} => Linked(k)' = {}

LEMMA WithoutTidies ==
    ASSUME TypeInv, NEW keys \in SUBSET Keys, Without(keys)
    PROVE  Tidies
<1>1. /\ imports' = [k \in Keys |-> IF k \in keys THEN NoImport ELSE imports[k]]
      /\ candidates' = {IF x.link \in keys THEN [x EXCEPT !.link = None] ELSE x : x \in candidates}
  BY DEF Without
<1>2. ASSUME NEW k \in Keys, Linked(k) = {}, NEW y \in candidates', y.link = k PROVE FALSE
  <2>1. PICK x \in candidates : y = IF x.link \in keys THEN [x EXCEPT !.link = None] ELSE x
    BY <1>1, <1>2
  <2>2. CASE x.link \in keys
    <3>1. x \in Candidate
      BY DEF TypeInv, TablesOK, ImportsOK
    <3>2. y.link = None
      BY <2>1, <2>2, <3>1 DEF Candidate
    <3> QED BY <1>2, <3>2, NoneIsNoKey
  <2>3. CASE x.link \notin keys
    BY <1>2, <2>1, <2>3 DEF Linked
  <2> QED BY <2>2, <2>3
<1>3. ASSUME NEW k \in Keys, imports'[k] # NoImport PROVE HasImport(k) /\ imports'[k] = imports[k]
  BY <1>1, <1>3 DEF HasImport
<1> QED BY <1>2, <1>3 DEF Tidies, Linked

LEMMA UpkeepStep ==
    ASSUME TypeInv, UpkeepEvents
    PROVE  TypeInv' /\ Tidies /\ UNCHANGED <<conn, born, job, client, providers, history>>
<1>1. UNCHANGED <<conn, born, job, client, providers, history>>
  BY DEF UpkeepEvents, ImportAges, CleanUp, Purge, RemoveCandidate
<1>2. UNCHANGED <<conn, born, job, client, issued, grants, clock, mail, box, pushing, pushes>>
  BY <1>1 DEF providers
<1>3. ASSUME ImportsOK' PROVE TypeInv'
  <2>1. ConnectionsOK' /\ Grows
    BY <1>2, NoRowStep, NothingGrows
  <2>2. TablesOK'
    BY <1>2, <1>3, <2>1 DEF TypeInv, TablesOK, MailboxesOK, OthersOK
  <2> QED BY <1>2, <2>1, <2>2, EventStep
<1>4. imports \in [Keys -> Import \cup {NoImport}] /\ candidates \subseteq Candidate
      /\ \A x \in candidates : x.link # None => HasImport(x.link)
      /\ born \in 0..MaxCandidates
  BY DEF TypeInv, TablesOK, ImportsOK
<1> DEFINE LinkedOK == \A x \in candidates : x.link # None => imports[x.link] # NoImport
<1>5. ASSUME imports' \in [Keys -> Import \cup {NoImport}], candidates' \subseteq candidates, LinkedOK'
      PROVE  ImportsOK'
  <2>1. born' = born
    BY <1>2
  <2>2. \A x \in candidates' : x.link # None => HasImport(x.link)'
    BY <1>5 DEF HasImport
  <2>3. candidates' \subseteq Candidate /\ born' \in 0..MaxCandidates
    BY <1>4, <1>5, <2>1 DEF TypeInv, TablesOK, ImportsOK
  <2> QED BY <1>5, <2>2, <2>3 DEF ImportsOK
<1>6. ASSUME NEW keys \in SUBSET Keys, Without(keys) PROVE TypeInv' /\ Tidies
  BY <1>2, <1>3, <1>6, WithoutStep, WithoutTidies
<1>7. ASSUME UNCHANGED candidates, imports' \in [Keys -> Import \cup {NoImport}],
             \A k \in Keys : imports'[k] = imports[k] \/
                 /\ imports[k] # NoImport /\ imports'[k] # NoImport
                 /\ imports'[k].status = imports[k].status
                 /\ imports'[k].from = imports[k].from /\ imports'[k].conn = imports[k].conn
      PROVE  TypeInv' /\ Tidies
  <2>1. Tidies
    BY <1>7 DEF Tidies, HasImport, Linked
  <2>2. \A x \in candidates' : x.link # None => imports'[x.link] # NoImport
    BY <1>4, <1>7 DEF HasImport, Candidate
  <2>3. ImportsOK'
    BY <1>5, <1>7, <2>2
  <2> QED BY <1>3, <2>1, <2>3
<1>8. ASSUME NEW k \in Keys, ImportAges(k) PROVE TypeInv' /\ Tidies
  <2>1. imports[k] \in Import /\ imports[k] # NoImport
    BY <1>4, <1>8 DEF ImportAges, HasImport
  <2>2. PICK row : row = [imports[k] EXCEPT !.old = TRUE]
    OBVIOUS
  <2>3. row \in Import /\ row # NoImport /\ row.status = imports[k].status
        /\ row.from = imports[k].from /\ row.conn = imports[k].conn
    BY <2>1, <2>2, RowsAreRows DEF Import
  <2>4. imports' = [imports EXCEPT ![k] = row] /\ UNCHANGED candidates
    BY <1>8, <2>2 DEF ImportAges
  <2> QED BY <1>4, <1>7, <2>1, <2>3, <2>4
<1>9. CASE CleanUp
  <2>1. PICK keys \in SUBSET Keys : Without(keys)
    BY <1>9 DEF CleanUp
  <2> QED BY <1>1, <1>6, <2>1
<1>10. CASE Purge
  <2>1. imports' = [k \in Keys |-> IF HasImport(k) /\ imports[k].old
                                   THEN [imports[k] EXCEPT !.body = FALSE] ELSE imports[k]]
        /\ UNCHANGED candidates
    BY <1>10 DEF Purge
  <2>2. ASSUME NEW k \in Keys
        PROVE  /\ imports'[k] \in Import \cup {NoImport}
               /\ \/ imports'[k] = imports[k]
                  \/ /\ imports[k] # NoImport /\ imports'[k] # NoImport
                     /\ imports'[k].status = imports[k].status
                     /\ imports'[k].from = imports[k].from /\ imports'[k].conn = imports[k].conn
    <3>1. CASE HasImport(k) /\ imports[k].old
      <4>1. imports[k] \in Import /\ imports[k] # NoImport
        BY <1>4, <3>1 DEF HasImport
      <4>2. imports'[k] = [imports[k] EXCEPT !.body = FALSE]
        BY <2>1, <3>1
      <4>3. PICK row : row = imports'[k]
        OBVIOUS
      <4>4. row \in Import /\ row.status = imports[k].status /\ row.from = imports[k].from
            /\ row.conn = imports[k].conn
        BY <4>1, <4>2, <4>3 DEF Import
      <4> QED BY <4>1, <4>3, <4>4, RowsAreRows
    <3>2. CASE ~(HasImport(k) /\ imports[k].old)
      BY <1>4, <2>1, <3>2
    <3> QED BY <3>1, <3>2
  <2>3. imports' \in [Keys -> Import \cup {NoImport}]
    BY <2>1, <2>2
  <2> QED BY <1>1, <1>7, <2>1, <2>2, <2>3
<1>11. ASSUME NEW x \in candidates, RemoveCandidate(x) PROVE TypeInv' /\ Tidies
  <2>1. candidates' \subseteq candidates /\ UNCHANGED imports
    BY <1>11 DEF RemoveCandidate
  <2>2. Tidies
    BY <2>1 DEF Tidies, Linked, HasImport
  <2>3. LinkedOK'
    BY <1>4, <2>1 DEF HasImport
  <2>4. ImportsOK'
    BY <1>4, <1>5, <2>1, <2>3
  <2> QED BY <1>3, <2>2, <2>4
<1> QED BY <1>1, <1>8, <1>9, <1>10, <1>11 DEF UpkeepEvents

LEMMA CrashStep ==
    ASSUME TypeInv, Crash
    PROVE  TypeInv'
<1>1. /\ UNCHANGED <<conn, imports, candidates, born, issued, grants, clock, mail, box, pushing,
                     pushes>>
      /\ job' = [w \in Workers |-> Idle] /\ client' = None
  BY DEF Crash, rows, providers
<1>2. ConnectionsOK' /\ ImportsOK' /\ client' \in Connections \cup {None}
  BY <1>1, NoRowStep, NoImportStep
<1>3. TablesOK'
  BY <1>1, <1>2 DEF TypeInv, TablesOK, MailboxesOK, OthersOK
<1>4. job' \in [Workers -> Job] /\ \A w \in Workers : job'[w] = Idle
  BY <1>1, IdleIsAJob
<1>5. \A w \in Workers : HandlerOK(job[w])'
  BY <1>4, IdleHandler
<1> QED BY <1>3, <1>4, <1>5 DEF TypeInv, HandlersOK

LEMMA InitIsTyped == Init => TypeInv
<1> SUFFICES ASSUME Init PROVE TypeInv
  OBVIOUS
<1>1. 0 \in Times /\ 0 \in 0..MaxClock /\ 0 \in 0..MaxClock + 1 /\ 1 \in 1..MaxClock + 1
      /\ 0 \in 0..MaxCandidates /\ 0 \in 0..MaxGrants
  BY MailBoundsAssumption DEF Times
<1>2. ASSUME NEW c \in Connections
      PROVE  /\ conn[c] \in Connection \cup {NoConnection}
             /\ Connected(c) => conn[c].grant = 1
  <2>1. CASE conn[c] = NoConnection
    BY <2>1 DEF Connected
  <2>2. CASE conn[c] # NoConnection
    <3>1. PICK company \in Companies, provider \in {"GMAIL", "OUTLOOK"}, stale \in BOOLEAN,
               watch \in {"none", "live"} :
             conn[c] = [company |-> company, provider |-> provider, active |-> TRUE, auto |-> TRUE,
                        cursor |-> 0, by |-> provider, synced |-> 0, created |-> 1, stale |-> stale,
                        grant |-> 1, watch |-> watch]
      BY <2>2 DEF Init
    <3>2. /\ conn[c].company \in Companies /\ conn[c].provider \in {"GMAIL", "OUTLOOK"}
          /\ conn[c].stale \in BOOLEAN /\ conn[c].watch \in {"none", "live", "lapsed"}
      BY <3>1
    <3>3. conn[c].grant = 1 /\ 1 \in 0..MaxGrants
      BY <3>1, MailBoundsAssumption
    <3>4. PICK r : r = conn[c]
      OBVIOUS
    <3>5. r \in Connection
      BY <1>1, <3>1, <3>3, <3>4 DEF Connection, Times
    <3> QED BY <3>3, <3>4, <3>5
  <2> QED BY <2>1, <2>2
<1>3. ConnectionsOK
  <2>1. conn \in [Connections -> Connection \cup {NoConnection}]
    BY <1>2 DEF Init
  <2>2. \A c \in Connections : issued[c] \in 0..MaxGrants /\ grants[c] \subseteq 1..issued[c]
                               /\ grants[c] \subseteq 1..MaxGrants
    BY <1>1, MailBoundsAssumption DEF Init
  <2>3. issued \in [Connections -> 0..MaxGrants] /\ grants \in [Connections -> SUBSET (1..MaxGrants)]
    BY <2>2 DEF Init
  <2>4. \A c \in Connections : Connected(c) => conn[c].grant \in 1..issued[c]
    BY <1>2 DEF Init
  <2> QED BY <2>1, <2>2, <2>3, <2>4 DEF ConnectionsOK
<1>4. ImportsOK
  BY <1>1 DEF Init, ImportsOK
<1>5. MailboxesOK
  <2>1. NoMailYet \in Copy /\ NoMailYet.at = 0 /\ NoMailYet.last = 0
    BY <1>1 DEF NoMailYet, Copy
  <2>2. box \in [Connections -> [Mails -> Copy]] /\ mail \in [Mails -> Message \cup {NotSent}]
    BY <2>1 DEF Init
  <2>3. \A c \in Connections, m \in Mails : box[c][m] = NoMailYet
    BY DEF Init
  <2> QED BY <1>1, <2>1, <2>2, <2>3 DEF Init, MailboxesOK
<1>6. OthersOK
  BY DEF Init, OthersOK
<1>7. job \in [Workers -> Job] /\ \A w \in Workers : job[w] = Idle
  BY IdleIsAJob DEF Init
<1>8. \A w \in Workers : HandlerOK(job[w])
  <2>1. Idle.at = "idle" /\ Idle.then = None
    BY DEF Idle
  <2> QED BY <1>7, <2>1, NoneIsNoWord DEF HandlerOK, Connecting, PollStatements, Importing
<1> QED BY <1>3, <1>4, <1>5, <1>6, <1>7, <1>8 DEF TypeInv, TablesOK, HandlersOK

-----------------------------------------------------------------------------
(* Every step *)

LEMMA ListingTyped ==
    ASSUME TypeInv, NEW w \in Workers,
           \/ ListGmail(w) \/ Fallback(w) \/ GetMessage(w) \/ ListOutlook(w) \/ Rebaseline(w)
           \/ TakeGmailMessage(w) \/ TakeOutlookMessage(w) \/ NoMoreMessages(w)
           \/ MoveGmailCursor(w) \/ MoveOutlookCursor(w)
    PROVE  TypeInv'
<1>1. CASE ListGmail(w) \/ Fallback(w) \/ GetMessage(w)
  BY <1>1, ListGmailStep, FallbackStep, GetMessageStep
<1>2. CASE ListOutlook(w) \/ Rebaseline(w)
  BY <1>2, ListOutlookStep, RebaselineStep
<1>3. CASE TakeGmailMessage(w) \/ TakeOutlookMessage(w) \/ NoMoreMessages(w)
  BY <1>3, TakeStep, NoMoreMessagesStep
<1>4. CASE MoveGmailCursor(w) \/ MoveOutlookCursor(w)
  BY <1>4, MoveCursorStep
<1> QED BY <1>1, <1>2, <1>3, <1>4

ImportStatements(w) ==
    \/ Lookup(w) \/ WriteSkip(w) \/ Classify(w) \/ WritePending(w)
    \/ BeginImport(w) \/ DeclineImport(w) \/ FindCvDuplicate(w) \/ FindSenderDuplicate(w)
    \/ CreateCvCandidate(w) \/ CreateCandidate(w) \/ ScoreCandidate(w)
    \/ MarkImported(w) \/ CountImport(w) \/ MarkDuplicate(w) \/ MarkFailed(w)

LEMMA ImportSteps ==
    ASSUME TypeInv, NEW w \in Workers, ImportStatements(w)
    PROVE  TypeInv' /\ Imports(w)
<1>1. CASE Lookup(w) \/ WriteSkip(w) \/ Classify(w) \/ WritePending(w) \/ BeginImport(w)
  BY <1>1, LookupStep, WriteSkipStep, ClassifyStep, WritePendingStep, BeginImportStep
<1>2. CASE DeclineImport(w) \/ MarkDuplicate(w)
  BY <1>2, SkippingSteps, GoneDuplicateStep
<1>3. CASE FindCvDuplicate(w) \/ FindSenderDuplicate(w) \/ CreateCvCandidate(w)
           \/ CreateCandidate(w)
  BY <1>3, FindingSteps, CreatingSteps
<1>4. CASE ScoreCandidate(w) \/ MarkImported(w) \/ CountImport(w) \/ MarkFailed(w)
  BY <1>4, ScoreStep, MarkImportedStep, CountImportStep, MarkFailedStep
<1> QED BY <1>1, <1>2, <1>3, <1>4 DEF ImportStatements

Lists(w) == ListGmail(w) \/ Fallback(w) \/ ListOutlook(w) \/ Rebaseline(w)
Picks(w) == GetMessage(w) \/ TakeGmailMessage(w) \/ TakeOutlookMessage(w) \/ NoMoreMessages(w)
Moving(w) == MoveGmailCursor(w) \/ MoveOutlookCursor(w)
Ageing == ProviderEvents \/ TokenEvents \/ WatchEvents \/ SettingEvents

\* What each step does to the mail, in words of this module.
Steps ==
    \/ \E w \in Workers : Aside(w) \/ Lists(w) \/ Picks(w) \/ Moving(w) \/ ImportStatements(w)
    \/ \E w \in Workers, c \in Connections : Polls(w, c)
    \/ \E c \in Connections : Missed(c)
    \/ Ages \/ Crash
    \/ Tidies /\ UNCHANGED <<conn, born, job, client, providers, history>>
    \/ \E c \in Connections, m \in Mails : Deliver(c, m) \/ ReadMessage(c, m)
    \/ UNCHANGED vars

LEMMA NextSteps ==
    ASSUME TypeInv, [Next]_vars
    PROVE  TypeInv' /\ Steps
<1>1. ASSUME NEW w \in Workers, Requests(w) PROVE TypeInv' /\ Steps
  <2>1. PICK c \in Connections :
           \/ ConnectRequests(w, c) \/ PollRequests(w, c) \/ RefreshRequests(w, c)
           \/ WatchRequests(w, c) \/ DisconnectRequests(w, c)
    BY <1>1 DEF Requests
  <2>2. CASE PollRequests(w, c)
    BY <2>2, PollRequestSteps DEF Steps
  <2>3. CASE ~PollRequests(w, c)
    BY <2>1, <2>3, AsideRequests DEF Steps
  <2> QED BY <2>2, <2>3
<1>2. ASSUME NEW w \in Workers, Continue(w) PROVE TypeInv' /\ Steps
  <2>1. CASE AsideStatements(w)
    BY <2>1, AsideSteps DEF Steps
  <2>2. CASE Lists(w) \/ Picks(w) \/ Moving(w)
    BY <2>2, ListingTyped DEF Lists, Picks, Moving, Steps
  <2>3. CASE ImportStatements(w)
    BY <2>3, ImportSteps DEF Steps
  <2> QED
    BY <1>2, <2>1, <2>2, <2>3 DEF Continue, AsideStatements, ImportStatements, Lists, Picks, Moving
<1>3. CASE MailEvents \/ ReadingEvents
  BY <1>3, DeliverStep, ReadMessageStep DEF MailEvents, ReadingEvents, Steps
<1>4. CASE Ageing
  BY <1>4, ConsentStep, RowAgesStep
     DEF Ageing, ProviderEvents, TokenEvents, WatchEvents, SettingEvents, Steps
<1>5. CASE UpkeepEvents
  BY <1>5, UpkeepStep DEF Steps
<1>6. CASE Crash
  BY <1>6, CrashStep DEF Steps
<1>7. CASE UNCHANGED vars
  <2>1. UNCHANGED <<rows, client, providers>> /\ UNCHANGED job
    BY <1>7 DEF vars
  <2> QED BY <1>7, <2>1, SameTables, EventStep DEF Steps
<1> QED BY <1>1, <1>2, <1>3, <1>4, <1>5, <1>6, <1>7 DEF Next, Events, Ageing

LEMMA AlwaysTyped == Spec => []TypeInv
<1>1. TypeInv /\ [Next]_vars => TypeInv'
  BY NextSteps
<1> QED BY <1>1, InitIsTyped, PTL DEF Spec

\* Every table and handler holds what its columns and variables may, for any number of
\* connections, messages and activities in flight.
THEOREM MailIsTyped == Spec => []MailTypeOK
BY AlwaysTyped, TypeInvMeansTypeOK, PTL

-----------------------------------------------------------------------------
(* Where a message was read *)

\* A poll lists its own mailbox, or one whose credentials it found in the client.
ForeignPoll(j) ==
    j.then = "list" => \/ j.box = j.c
                       \/ j.provider = "GMAIL" /\ {j.box} \X Mails \subseteq swapped

ForeignInv == ForeignMailNeedsFallback /\ \A w \in Workers : ForeignPoll(job[w])

LEMMA PollStays ==
    ASSUME ForeignInv, NEW w \in Workers, swapped \subseteq swapped', Moves(w),
           \/ job'[w].then # "list"
           \/ job'[w].box = job'[w].c
           \/ /\ job[w].then = "list" /\ job'[w].box = job[w].box
              /\ job'[w].c = job[w].c /\ job'[w].provider = job[w].provider
    PROVE  \A v \in Workers : ForeignPoll(job[v])'
<1> SUFFICES ASSUME NEW v \in Workers PROVE ForeignPoll(job[v])'
  OBVIOUS
<1>1. CASE v = w
  BY <1>1 DEF ForeignInv, ForeignPoll
<1>2. CASE v # w
  <2>1. job'[v] = job[v]
    BY <1>2 DEF Moves
  <2> QED BY <2>1 DEF ForeignInv, ForeignPoll
<1> QED BY <1>1, <1>2

LEMMA RowsStay ==
    ASSUME ForeignInv, swapped \subseteq swapped', UNCHANGED imports \/ Tidies
    PROVE  ForeignMailNeedsFallback'
<1> SUFFICES ASSUME NEW k \in Keys, HasImport(k)'
             PROVE  imports'[k].from = imports'[k].conn \/ k \in swapped'
  BY DEF ForeignMailNeedsFallback
<1>1. HasImport(k) /\ imports'[k].from = imports[k].from /\ imports'[k].conn = imports[k].conn
  BY DEF Tidies, HasImport
<1> QED BY <1>1 DEF ForeignInv, ForeignMailNeedsFallback

LEMMA ListingForeign ==
    ASSUME TypeInv, ForeignInv, NEW w \in Workers, Lists(w)
    PROVE  ForeignInv'
<1>1. UNCHANGED imports
  BY DEF Lists, ListGmail, Fallback, ListOutlook, Rebaseline, rows
<1>2. CASE ListGmail(w)
  <2>1. swapped' = swapped
    BY <1>2 DEF ListGmail
  <2>2. Quits(w) \/ ListsHistory(w) \/ FallsBack(w) \/ ListsUnread(w, job[w].c)
    BY <1>2, ListGmailStep
  <2>3. /\ Moves(w)
        /\ \/ job'[w].then # "list"
           \/ job'[w].box = job'[w].c
           \/ /\ job[w].then = "list" /\ job'[w].box = job[w].box
              /\ job'[w].c = job[w].c /\ job'[w].provider = job[w].provider
    BY <2>2 DEF Quits, ListsHistory, FallsBack, ListsUnread, Goes
  <2> QED BY <1>1, <2>1, <2>3, PollStays, RowsStay DEF ForeignInv
<1>3. CASE ListOutlook(w) \/ Rebaseline(w)
  <2>1. swapped' = swapped
    BY <1>3 DEF ListOutlook, Rebaseline
  <2>2. Quits(w) \/ ListsChanges(w) \/ ListsRecent(w)
    BY <1>3, ListOutlookStep, RebaselineStep
  <2>3. /\ Moves(w)
        /\ \/ job'[w].then # "list"
           \/ /\ job[w].then = "list" /\ job'[w].box = job[w].box
              /\ job'[w].c = job[w].c /\ job'[w].provider = job[w].provider
    BY <2>2 DEF Quits, ListsChanges, ListsRecent, Goes
  <2> QED BY <1>1, <2>1, <2>3, PollStays, RowsStay DEF ForeignInv
<1>4. CASE Fallback(w)
  <2>1. /\ job[w].provider = "GMAIL" /\ job[w].then = "list"
        /\ \/ Quits(w) /\ UNCHANGED swapped
           \/ /\ ListsUnread(w, client)
              /\ swapped' = IF client = job[w].c THEN swapped ELSE swapped \cup ({client} \X Mails)
    BY <1>4, FallbackStep
  <2>2. swapped \subseteq swapped'
    BY <2>1
  <2>3. CASE Quits(w) \/ client = job[w].c
    <3>1. Moves(w) /\ (job'[w].then # "list" \/ job'[w].box = job'[w].c)
      BY <2>1, <2>3 DEF Quits, ListsUnread, Goes
    <3> QED BY <1>1, <2>2, <3>1, PollStays, RowsStay DEF ForeignInv
  <2>4. CASE ~Quits(w) /\ client # job[w].c
    <3>1. Moves(w) /\ job'[w].box = client /\ job'[w].provider = "GMAIL"
          /\ {client} \X Mails \subseteq swapped'
      BY <2>1, <2>4 DEF ListsUnread, Goes
    <3>2. ASSUME NEW v \in Workers PROVE ForeignPoll(job[v])'
      <4>1. CASE v = w
        BY <3>1, <4>1 DEF ForeignPoll
      <4>2. CASE v # w
        <5>1. job'[v] = job[v]
          BY <3>1, <4>2 DEF Moves
        <5> QED BY <2>2, <5>1 DEF ForeignInv, ForeignPoll
      <4> QED BY <4>1, <4>2
    <3> QED BY <1>1, <2>2, <3>2, RowsStay DEF ForeignInv
  <2> QED BY <2>3, <2>4
<1> QED BY <1>2, <1>3, <1>4 DEF Lists

LEMMA ImportingForeign ==
    ASSUME TypeInv, ForeignInv, NEW w \in Workers, Imports(w)
    PROVE  ForeignInv'
<1>1. /\ job[w].then = "list" /\ job[w].provider \in {"GMAIL", "OUTLOOK"}
      /\ job[w].m \in Mails /\ swapped' = swapped
  BY InHandTyped DEF Imports
<1>2. \A v \in Workers : ForeignPoll(job[v])'
  <2>1. Moves(w) /\ job'[w].box = job[w].box /\ job'[w].c = job[w].c
        /\ job'[w].provider = job[w].provider
    BY DEF Imports, Handling, HandsBack, Goes, SamePoll
  <2> QED BY <1>1, <2>1, PollStays
<1>3. ForeignMailNeedsFallback'
  <2>1. CASE UNCHANGED imports
    BY <1>1, <2>1, RowsStay
  <2>2. CASE \E status \in Statuses : Writes(w, status)
    <3>1. PICK k \in Keys :
             /\ k = KeyOf(job[w]) /\ \A l \in Keys \ {k} : imports'[l] = imports[l]
             /\ \/ HasImport(k) /\ imports'[k].from = imports[k].from
                   /\ imports'[k].conn = imports[k].conn
                \/ imports'[k].from = job[w].box /\ imports'[k].conn = job[w].c
      BY <2>2 DEF Writes
    <3>2. imports'[k].from = imports'[k].conn \/ k \in swapped
      <4>1. CASE HasImport(k) /\ imports'[k].from = imports[k].from /\ imports'[k].conn = imports[k].conn
        BY <4>1 DEF ForeignInv, ForeignMailNeedsFallback
      <4>2. CASE imports'[k].from = job[w].box /\ imports'[k].conn = job[w].c /\ job[w].box = job[w].c
        BY <4>2
      <4>3. CASE job[w].box # job[w].c
        <5>1. job[w].provider = "GMAIL" /\ {job[w].box} \X Mails \subseteq swapped
          BY <1>1, <4>3 DEF ForeignInv, ForeignPoll
        <5>2. k = <<job[w].box, job[w].m>>
          BY <3>1, <5>1 DEF KeyOf, Key
        <5> QED BY <1>1, <5>1, <5>2
      <4> QED BY <3>1, <4>1, <4>2, <4>3
    <3> QED BY <1>1, <3>1, <3>2 DEF ForeignInv, ForeignMailNeedsFallback, HasImport
  <2> QED BY <2>1, <2>2 DEF Imports
<1> QED BY <1>2, <1>3 DEF ForeignInv

LEMMA ForeignHolds ==
    ASSUME TypeInv, ForeignInv, [Next]_vars
    PROVE  ForeignInv'
<1> DEFINE SameBox(w) == \/ job'[w].then # "list"
                         \/ job'[w].box = job'[w].c
                         \/ /\ job[w].then = "list" /\ job'[w].box = job[w].box
                            /\ job'[w].c = job[w].c /\ job'[w].provider = job[w].provider
<1>1. ASSUME UNCHANGED job, UNCHANGED swapped, UNCHANGED imports \/ Tidies PROVE ForeignInv'
  <2>1. \A v \in Workers : ForeignPoll(job[v])'
    BY <1>1 DEF ForeignInv, ForeignPoll
  <2> QED BY <1>1, <2>1, RowsStay DEF ForeignInv
<1>2. ASSUME NEW w \in Workers, Moves(w), UNCHANGED swapped, SameBox(w),
             UNCHANGED imports \/ Tidies
      PROVE  ForeignInv'
  BY <1>2, PollStays, RowsStay DEF ForeignInv
<1>3. ASSUME NEW w \in Workers, Aside(w) PROVE ForeignInv'
  <2>1. UNCHANGED imports \/ Tidies
    BY <1>3, WithoutTidies DEF Aside
  <2>2. Moves(w) /\ UNCHANGED swapped /\ SameBox(w)
    BY <1>3 DEF Aside, Onward, SamePoll
  <2> QED BY <1>2, <2>1, <2>2
<1>4. ASSUME NEW w \in Workers, Picks(w) PROVE ForeignInv'
  <2>1. UNCHANGED <<swapped, imports>>
    BY <1>4 DEF Picks, GetMessage, TakeGmailMessage, TakeOutlookMessage, Take, NoMoreMessages,
                history, rows
  <2>2. \/ \E s \in {"each", "cursor"} : Passes(w, s)
        \/ \E m \in Mails : Gets(w, m) \/ LeavesOut(w, m) \/ Takes(w, m)
    BY <1>4, GetMessageStep, TakeStep, NoMoreMessagesStep DEF Picks
  <2>3. Moves(w) /\ SameBox(w)
    BY <2>2 DEF Passes, Carries, Gets, LeavesOut, Takes, Goes
  <2> QED BY <1>2, <2>1, <2>3
<1>5. ASSUME NEW w \in Workers, Moving(w) PROVE ForeignInv'
  <2>1. UNCHANGED <<swapped, imports>> /\ (Closes(w) \/ Quits(w))
    BY <1>5, MoveCursorStep DEF Moving
  <2>2. Moves(w) /\ job'[w].then # "list"
    BY <2>1, IdleHandler DEF Closes, Quits
  <2> QED BY <1>2, <2>1, <2>2
<1>6. ASSUME NEW w \in Workers, NEW c \in Connections, Polls(w, c) PROVE ForeignInv'
  BY <1>2, <1>6 DEF Polls
<1>7. CASE Crash
  <2>1. UNCHANGED <<swapped, imports>> /\ \A w \in Workers : job'[w] = Idle
    BY <1>7 DEF Crash, rows
  <2>2. \A w \in Workers : ForeignPoll(job[w])'
    BY <2>1, IdleHandler DEF ForeignPoll
  <2> QED BY <2>1, <2>2, RowsStay DEF ForeignInv
<1>8. CASE \E c \in Connections, m \in Mails : Deliver(c, m) \/ ReadMessage(c, m)
  <2>1. UNCHANGED <<job, swapped, imports>>
    BY <1>8 DEF Deliver, ReadMessage, rows, history
  <2> QED BY <1>1, <2>1
<1>9. CASE \/ \E c \in Connections : Missed(c)
           \/ Ages \/ UNCHANGED vars
           \/ Tidies /\ UNCHANGED <<conn, born, job, client, providers, history>>
  <2>1. UNCHANGED <<job, swapped>> /\ (UNCHANGED imports \/ Tidies)
    BY <1>9 DEF Missed, Ages, vars, rows, history
  <2> QED BY <1>1, <2>1
<1> QED
  BY <1>3, <1>4, <1>5, <1>6, <1>7, <1>8, <1>9, NextSteps, ListingForeign, ImportSteps,
     ImportingForeign
     DEF Steps

\* A message is recorded for the connection of the mailbox it was read from, unless its
\* poll listed anew with the credentials another poll had put into the shared client.
THEOREM MailIsOfItsMailbox == Spec => []ForeignMailNeedsFallback
<1>1. Init => ForeignInv
  <2> SUFFICES ASSUME Init PROVE ForeignInv
    OBVIOUS
  <2>1. \A w \in Workers : job[w].then = None
    BY DEF Init, Idle
  <2>2. \A k \in Keys : ~HasImport(k)
    BY DEF Init, HasImport
  <2> QED BY <2>1, <2>2, NoneIsNoWord DEF ForeignInv, ForeignPoll, ForeignMailNeedsFallback
<1>2. TypeInv /\ ForeignInv /\ [Next]_vars => ForeignInv'
  BY ForeignHolds
<1>3. ForeignInv => ForeignMailNeedsFallback
  BY DEF ForeignInv
<1> QED BY <1>1, <1>2, <1>3, AlwaysTyped, PTL DEF Spec

-----------------------------------------------------------------------------
(* Why a connection is inactive *)

Touching == Refreshing \cup Deactivating

\* A connection that is, or is about to be, inactive, and for a reason: the provider
\* refuses what is stored and whatever is on its way to it, and nothing is to be stored.
Ending(c) ==
    Connected(c) /\ (~conn[c].active \/ \E v \in Workers : job[v].c = c /\ job[v].at \in Deactivating)

Refusing(c) ==
    /\ conn[c].grant \notin grants[c]
    /\ \A v \in Workers : job[v].c = c /\ job[v].at \in Refreshing =>
          job[v].at \in {"refreshGmail", "refreshOutlook"} /\ job[v].ref \notin grants[c]

DeactInv == \A c \in Connections \ suspect : Ending(c) => Refusing(c)

\* No row gets another token or becomes inactive; what the provider accepts anew is new.
CalmRows ==
    /\ suspect' = suspect
    /\ \A c \in Connections :
          /\ Connected(c)' => /\ Connected(c) /\ conn'[c].grant = conn[c].grant
                              /\ conn[c].active => conn'[c].active
          /\ \A g \in grants'[c] : g \in grants[c] \/ g > issued[c]

CalmJobs == \A v \in Workers : job'[v].at \in Touching => job'[v] = job[v]

LEMMA CalmStep ==
    ASSUME TypeInv, DeactInv, CalmRows, CalmJobs
    PROVE  DeactInv'
<1> SUFFICES ASSUME NEW c \in Connections, c \notin suspect', Ending(c)' PROVE Refusing(c)'
  BY DEF DeactInv
<1>1. /\ Connected(c) /\ conn'[c].grant = conn[c].grant /\ (conn[c].active => conn'[c].active)
      /\ c \notin suspect
  BY DEF CalmRows, Ending
<1>2. ASSUME NEW v \in Workers, job'[v].at \in Touching PROVE job'[v] = job[v]
  BY <1>2 DEF CalmJobs
<1>3. Ending(c)
  BY <1>1, <1>2 DEF Ending, Touching
<1>4. Refusing(c)
  BY <1>1, <1>3 DEF DeactInv
<1>5. /\ issued[c] \in Nat /\ conn[c].grant \in 1..issued[c]
      /\ \A g \in grants'[c] : g \in grants[c] \/ g > issued[c]
  BY <1>1, RowOf, MailBoundsAssumption DEF CalmRows
<1>6. conn'[c].grant \notin grants'[c]
  BY <1>1, <1>4, <1>5 DEF Refusing
<1>7. ASSUME NEW v \in Workers, job'[v].c = c, job'[v].at \in Refreshing
      PROVE  job'[v].at \in {"refreshGmail", "refreshOutlook"} /\ job'[v].ref \notin grants'[c]
  <2>1. job'[v] = job[v]
    BY <1>2, <1>7 DEF Touching
  <2>2. job[v].ref \in 0..issued[c]
    BY <1>7, <2>1, HandlerTyped DEF Refreshing
  <2> QED BY <1>4, <1>5, <1>7, <2>1, <2>2 DEF Refusing
<1> QED BY <1>6, <1>7 DEF Refusing

LEMMA CalmJob ==
    ASSUME TypeInv, NEW w \in Workers,
           \/ \E s \in Statements \ Touching : Goto(w, s)
           \/ End(w)
           \/ \E c \in Connections, s \in Statements \ Touching, t \in Continuations \cup {None} :
                 job' = [job EXCEPT ![w] = Activity(c, s, t)]
           \/ job[w].at # "idle" /\ Abort(w) /\ UNCHANGED issued
    PROVE  CalmJobs
<1>1. job \in [Workers -> Job]
  BY HandlerTyped
<1>2. ASSUME Moves(w), job'[w].at \notin Touching PROVE CalmJobs
  BY <1>2 DEF Moves, CalmJobs
<1>3. CASE \E s \in Statements \ Touching : Goto(w, s)
  BY <1>1, <1>2, <1>3, GotoStep
<1>4. CASE End(w)
  <2>1. Moves(w) /\ job'[w].at = "idle"
    BY <1>1, <1>4, EndStep, IdleHandler
  <2> QED BY <1>2, <2>1 DEF Touching, Refreshing, Deactivating
<1>5. CASE \E c \in Connections, s \in Statements \ Touching, t \in Continuations \cup {None} :
              job' = [job EXCEPT ![w] = Activity(c, s, t)]
  <2>1. PICK c \in Connections, s \in Statements \ Touching, t \in Continuations \cup {None} :
           job' = [job EXCEPT ![w] = Activity(c, s, t)]
    BY <1>5
  <2>2. PICK J : J = Activity(c, s, t)
    OBVIOUS
  <2>3. J \in Job /\ J.at = s
    BY <2>2, ActivityFields
  <2>4. Moves(w) /\ job'[w] = J
    BY <1>1, <2>1, <2>2, <2>3, JobStep
  <2> QED BY <1>2, <2>3, <2>4
<1>6. CASE job[w].at # "idle" /\ Abort(w) /\ UNCHANGED issued
  <2>1. Moves(w) /\ job'[w].at \in {"idle", "clear", "clearSubscription"}
    BY <1>6, AbortStep
  <2> QED BY <1>2, <2>1 DEF Touching, Refreshing, Deactivating
<1> QED BY <1>3, <1>4, <1>5, <1>6

LEMMA SameRowsCalm ==
    ASSUME UNCHANGED <<conn, grants, suspect>>
    PROVE  CalmRows
BY DEF CalmRows, Connected

\* One row is written.
LEMMA RowCalm ==
    ASSUME TypeInv, NEW c \in Connections, Connected(c), NEW row,
           row.grant = conn[c].grant, row.active = conn[c].active,
           conn' = [conn EXCEPT ![c] = row], UNCHANGED <<grants, suspect>>
    PROVE  CalmRows
<1>1. conn'[c] = row /\ \A d \in Connections \ {c} : conn'[d] = conn[d]
  BY DEF TypeInv, TablesOK, ConnectionsOK
<1> QED BY <1>1 DEF CalmRows, Connected

\* w presents the token as it is stored.
LEMMA RefreshBegins ==
    ASSUME TypeInv, DeactInv, NEW w \in Workers, NEW c \in Connections, Moves(w),
           job'[w].c = c, job'[w].at \in {"refreshGmail", "refreshOutlook"},
           job'[w].ref = conn[c].grant, UNCHANGED <<conn, grants, suspect>>
    PROVE  DeactInv'
<1> SUFFICES ASSUME NEW d \in Connections, d \notin suspect, Ending(d)' PROVE Refusing(d)'
  BY DEF DeactInv
<1>1. \A v \in Workers \ {w} : job'[v] = job[v]
  BY DEF Moves
<1>2. Ending(d)
  BY <1>1 DEF Ending, Connected, Deactivating
<1>3. Refusing(d)
  BY <1>2 DEF DeactInv
<1> QED BY <1>1, <1>3 DEF Refusing

\* The provider accepts it: nothing was about to end the connection.
LEMMA RefreshSucceeds ==
    ASSUME TypeInv, DeactInv, NEW w \in Workers, NEW c \in Connections, Moves(w),
           job[w].c = c, job[w].at \in Refreshing,
           job[w].at \notin {"refreshGmail", "refreshOutlook"} \/ job[w].ref \in grants[c],
           job'[w].c = c \/ job'[w].at \notin Touching,
           Connected(c)' => /\ Connected(c) /\ conn'[c].active = conn[c].active
                            /\ job'[w].at \notin Deactivating,
           \A d \in Connections \ {c} : conn'[d] = conn[d] /\ grants'[d] = grants[d],
           suspect' = suspect
    PROVE  DeactInv'
<1> SUFFICES ASSUME NEW d \in Connections, d \notin suspect, Ending(d)' PROVE Refusing(d)'
  BY DEF DeactInv
<1>1. \A v \in Workers \ {w} : job'[v] = job[v]
  BY DEF Moves
<1>2. CASE d = c
  <2>1. Ending(c)
    BY <1>1, <1>2 DEF Ending, Touching
  <2>2. Refusing(c)
    BY <1>2, <2>1 DEF DeactInv
  <2> QED BY <2>2 DEF Refusing
<1>3. CASE d # c
  <2>1. Ending(d)
    BY <1>1, <1>3 DEF Ending, Connected, Touching
  <2>2. Refusing(d)
    BY <2>1 DEF DeactInv
  <2> QED BY <1>1, <1>3, <2>2 DEF Refusing, Touching
<1> QED BY <1>2, <1>3

LEMMA RefreshFails ==
    ASSUME TypeInv, DeactInv, NEW w \in Workers, job[w].at \in Refreshing,
           NEW give \in Deactivating, Refused(w, give), UNCHANGED <<conn, grants>>
    PROVE  DeactInv'
<1> DEFINE c == job[w].c
<1>1. job \in [Workers -> Job] /\ c \in Connections /\ job[w].at # "idle"
  BY HandlerTyped DEF Refreshing
<1>2. Moves(w) /\ job'[w].at = give /\ job'[w].c = job[w].c
  BY <1>1, GotoStep DEF Refused, Carries, Statements, Deactivating
<1> SUFFICES ASSUME NEW d \in Connections, d \notin suspect', Ending(d)' PROVE Refusing(d)'
  BY DEF DeactInv
<1>3. \A v \in Workers \ {w} : job'[v] = job[v]
  BY <1>2 DEF Moves
<1>4. give \notin Refreshing
  BY DEF Deactivating, Refreshing
<1>5. CASE d = c
  <2>1. /\ job[w].ref \notin grants[c] /\ (Connected(c) => conn[c].grant = job[w].ref)
        /\ {v \in Workers \ {w} : job[v].c = c /\ job[v].at \in Refreshing} = {}
    BY <1>5 DEF Refused
  <2>2. Connected(c)
    BY <1>5 DEF Ending, Connected
  <2>3. ASSUME NEW v \in Workers, job'[v].c = c PROVE job'[v].at \notin Refreshing
    BY <1>2, <1>3, <1>4, <2>1, <2>3
  <2> QED BY <1>5, <2>1, <2>2, <2>3 DEF Refusing
<1>6. CASE d # c
  <2>1. Ending(d) /\ d \notin suspect
    BY <1>2, <1>3, <1>6 DEF Ending, Connected, Refused
  <2>2. Refusing(d)
    BY <2>1 DEF DeactInv
  <2> QED BY <1>2, <1>3, <1>6, <2>2 DEF Refusing
<1> QED BY <1>5, <1>6

\* A connection starts afresh.
LEMMA Reconnects ==
    ASSUME TypeInv, DeactInv, NEW w \in Workers, NEW c \in Connections, Moves(w),
           job'[w].at \notin Touching, conn'[c].active = TRUE, suspect' = Cleared(c),
           \A d \in Connections \ {c} : conn'[d] = conn[d], UNCHANGED grants
    PROVE  DeactInv'
<1> SUFFICES ASSUME NEW d \in Connections, d \notin suspect', Ending(d)' PROVE Refusing(d)'
  BY DEF DeactInv
<1>1. \A v \in Workers \ {w} : job'[v] = job[v]
  BY DEF Moves
<1>2. CASE d = c
  <2>1. \A v \in Workers : ~(job[v].c = c /\ job[v].at \in Touching)
    BY <1>2 DEF Cleared, Touching, Deactivating
  <2> QED BY <1>1, <1>2, <2>1 DEF Ending, Touching
<1>3. CASE d # c
  <2>1. Ending(d) /\ d \notin suspect
    BY <1>1, <1>3 DEF Ending, Connected, Touching, Cleared
  <2>2. Refusing(d)
    BY <2>1 DEF DeactInv
  <2> QED BY <1>1, <1>3, <2>2 DEF Refusing, Touching
<1> QED BY <1>2, <1>3

LEMMA TokenDeact ==
    ASSUME TypeInv, DeactInv, NEW w \in Workers, Token(w)
    PROVE  DeactInv'
<1> DEFINE c == job[w].c
<1>1. /\ job \in [Workers -> Job] /\ c \in Connections /\ job[w].at # "idle"
      /\ job[w].then \in Continuations
  BY HandlerTyped, JobFields DEF Token, HandlerOK
<1>2. UNCHANGED <<conn, grants, suspect, issued>>
  BY DEF Token, rows, providers
<1>3. CASE Abort(w)
  BY <1>1, <1>2, <1>3, CalmJob, SameRowsCalm, CalmStep
<1>4. CASE Goto(w, job[w].then)
  <2>1. job[w].then \in Statements \ Touching
    BY <1>1 DEF Continuations, Statements, PollStatements, Touching, Refreshing, Deactivating
  <2> QED BY <1>2, <1>4, <2>1, CalmJob, SameRowsCalm, CalmStep
<1>5. CASE Connected(c) /\ job' = [job EXCEPT ![w].at = RefreshOf(conn[c]), ![w].ref = conn[c].grant]
  <2>1. PICK s \in {"refreshGmail", "refreshOutlook"} : s = RefreshOf(conn[c])
    BY DEF RefreshOf
  <2>2. conn[c].grant \in 0..MaxGrants
    BY <1>1, <1>5, RowOf
  <2>3. job' = [job EXCEPT ![w].at = s, ![w].ref = conn[c].grant] /\ s \in Statements
    BY <1>5, <2>1 DEF Statements
  <2>4. Moves(w) /\ SamePoll(w) /\ job'[w].at = s /\ job'[w].ref = conn[c].grant
    BY <1>1, <2>2, <2>3, RefStep, ZenonT(40)
  <2> QED BY <1>1, <1>2, <2>4, RefreshBegins DEF SamePoll
<1> QED BY <1>3, <1>4, <1>5 DEF Token

LEMMA AnswerDeact ==
    ASSUME TypeInv, DeactInv, NEW w \in Workers, job[w].at \in {"refreshGmail", "refreshOutlook"},
           NEW save \in {"saveGmail", "saveOutlook"}, NEW give \in Deactivating,
           \/ Accepted(w, save) \/ Rotated(w, save) \/ Refused(w, give),
           UNCHANGED conn
    PROVE  DeactInv'
<1> DEFINE c == job[w].c
<1>1. /\ c \in Connections /\ job[w].at \in Refreshing
      /\ grants \in [Connections -> SUBSET (1..MaxGrants)]
  BY HandlerTyped DEF Refreshing, TablesOK, ConnectionsOK
<1>2. Moves(w) /\ SamePoll(w) /\ job'[w].at \in {save, give}
  BY <1>1, AnswerStep
<1>3. CASE Refused(w, give)
  BY <1>1, <1>3, RefreshFails DEF Refused
<1>4. CASE Accepted(w, save) \/ Rotated(w, save)
  <2>1. /\ job[w].ref \in grants[c] /\ suspect' = suspect
        /\ \A d \in Connections \ {c} : grants'[d] = grants[d]
    BY <1>1, <1>4 DEF Accepted, Rotated
  <2>2. job'[w].at = save
    <3>1. save \in Statements /\ 0 \in 0..MaxGrants /\ job \in [Workers -> Job]
      BY HandlerTyped, MailBoundsAssumption DEF Statements
    <3>2. CASE Accepted(w, save)
      BY <3>1, <3>2, RefStep DEF Accepted
    <3>3. CASE Rotated(w, save)
      <4>1. issued'[c] \in 0..MaxGrants
        <5>1. issued \in [Connections -> 0..MaxGrants] /\ issued[c] < MaxGrants
              /\ issued' = [issued EXCEPT ![c] = @ + 1]
          BY <3>3, HandlerTyped DEF Rotated, TablesOK, ConnectionsOK
        <5> QED BY <1>1, <5>1, MailBoundsAssumption
      <4> QED BY <3>1, <3>3, <4>1, RefStep DEF Rotated
    <3> QED BY <1>4, <3>2, <3>3
  <2>3. save \notin Deactivating
    BY DEF Deactivating
  <2> QED BY <1>1, <1>2, <2>1, <2>2, <2>3, RefreshSucceeds DEF SamePoll, Connected
<1> QED BY <1>3, <1>4

LEMMA SaveDeact ==
    ASSUME TypeInv, DeactInv, NEW w \in Workers, job[w].at \in {"saveGmail", "saveOutlook"},
           NEW row, Connected(job[w].c) => row.active = conn[job[w].c].active,
           NEW otherwise \in Deactivating, Save(w, row, otherwise)
    PROVE  DeactInv'
<1> DEFINE c == job[w].c
<1>1. /\ job \in [Workers -> Job] /\ c \in Connections /\ job[w].at \in Refreshing
      /\ job[w].then \in Continuations \cup {None}
      /\ conn \in [Connections -> Connection \cup {NoConnection}]
  BY HandlerTyped, JobFields DEF Refreshing, TablesOK, ConnectionsOK
<1>2. UNCHANGED <<grants, suspect>>
  BY DEF Save, providers, history
<1>3. ASSUME NEW s \in Statements, Goto(w, s) PROVE Moves(w) /\ job'[w].at = s /\ job'[w].c = c
  BY <1>1, <1>3, GotoStep DEF Carries
<1>4. CASE /\ Connected(c) /\ conn' = [conn EXCEPT ![c] = row]
           /\ IF job[w].then = None THEN End(w) ELSE Goto(w, job[w].then)
  <2>1. Moves(w) /\ job'[w].at \notin Touching
    <3>1. CASE job[w].then = None
      BY <1>1, <1>4, <3>1, EndStep, IdleHandler DEF Touching, Refreshing, Deactivating
    <3>2. CASE job[w].then # None
      <4>1. job[w].then \in Statements \ Touching
        BY <1>1, <3>2 DEF Continuations, Statements, PollStatements, Touching, Refreshing,
           Deactivating
      <4> QED BY <1>3, <1>4, <3>2, <4>1
    <3> QED BY <3>1, <3>2
  <2>2. conn'[c].active = conn[c].active /\ \A d \in Connections \ {c} : conn'[d] = conn[d]
    BY <1>1, <1>4
  <2> QED BY <1>1, <1>2, <1>4, <2>1, <2>2, RefreshSucceeds DEF Touching
<1>5. CASE ~Connected(c) /\ Goto(w, otherwise) /\ UNCHANGED conn
  <2>1. Moves(w) /\ job'[w].c = c
    BY <1>3, <1>5 DEF Deactivating, Statements
  <2> QED BY <1>1, <1>2, <1>5, <2>1, RefreshSucceeds DEF Connected
<1> QED BY <1>4, <1>5 DEF Save

LEMMA SetInactiveDeact ==
    ASSUME TypeInv, DeactInv, NEW w \in Workers, job[w].at \in Deactivating, SetInactive(w)
    PROVE  DeactInv'
<1> DEFINE c == job[w].c
<1>1. /\ c \in Connections /\ job[w].at # "idle"
      /\ conn \in [Connections -> Connection \cup {NoConnection}]
  BY HandlerTyped DEF Deactivating, TablesOK, ConnectionsOK
<1>2. UNCHANGED <<grants, suspect, issued>> /\ Abort(w)
  BY DEF SetInactive, providers
<1>3. CalmJobs
  BY <1>1, <1>2, CalmJob
<1> SUFFICES ASSUME NEW d \in Connections, d \notin suspect', Ending(d)' PROVE Refusing(d)'
  BY DEF DeactInv
<1>4. Connected(d) /\ conn'[d].grant = conn[d].grant /\ (d # c => conn'[d] = conn[d])
  <2>1. CASE Connected(c)
    <3>1. conn' = [conn EXCEPT ![c].active = FALSE] /\ conn[c] \in Connection
      BY <1>1, <2>1, RowOf DEF SetInactive
    <3>2. conn'[c].grant = conn[c].grant
      BY <1>1, <3>1 DEF Connection
    <3> QED BY <1>1, <2>1, <3>1, <3>2 DEF Ending, Connected
  <2>2. CASE ~Connected(c)
    BY <2>2 DEF Ending, Connected, SetInactive
  <2> QED BY <2>1, <2>2
<1>5. Ending(d)
  BY <1>1, <1>3, <1>4 DEF Ending, Connected, CalmJobs, Touching
<1>6. Refusing(d)
  BY <1>2, <1>5 DEF DeactInv
<1> QED BY <1>2, <1>3, <1>4, <1>6 DEF Refusing, CalmJobs, Touching

LEMMA ConnectingDeact ==
    ASSUME TypeInv, DeactInv, NEW w \in Workers,
           \/ ConnectGmail(w) \/ ConnectOutlook(w) \/ ReconnectGmail(w) \/ ReconnectOutlook(w)
    PROVE  DeactInv'
<1> DEFINE c == job[w].c
<1>1. /\ job \in [Workers -> Job] /\ c \in Connections
      /\ conn \in [Connections -> Connection \cup {NoConnection}]
      /\ UNCHANGED grants
  BY HandlerTyped DEF ConnectGmail, ConnectOutlook, ReconnectGmail, ReconnectOutlook, Create,
     Update,
                      TablesOK, ConnectionsOK, providers
<1>2. CASE End(w) /\ UNCHANGED <<conn, suspect>>
  BY <1>1, <1>2, CalmJob, SameRowsCalm, CalmStep
<1>3. ASSUME NEW row, row.active = TRUE, conn' = [conn EXCEPT ![c] = row], suspect' = Cleared(c),
             NEW next \in {"watch", "subscribe"}, Goto(w, next)
      PROVE  DeactInv'
  <2>1. Moves(w) /\ job'[w].at = next
    BY <1>1, <1>3, GotoStep DEF Statements
  <2>2. conn'[c].active = TRUE /\ \A d \in Connections \ {c} : conn'[d] = conn[d]
    BY <1>1, <1>3
  <2>3. next \notin Touching
    BY DEF Touching, Refreshing, Deactivating
  <2> QED BY <1>1, <1>3, <2>1, <2>2, <2>3, Reconnects
<1>4. ASSUME NEW next \in {"watch", "subscribe"}, Create(w, next) PROVE DeactInv'
  <2>1. CASE ~Connected(c)
    <3>1. /\ suspect' = Cleared(c) /\ Goto(w, next)
          /\ \E row : row.active = TRUE /\ conn' = [conn EXCEPT ![c] = row]
      BY <1>4, <2>1 DEF Create
    <3> QED BY <1>3, <3>1
  <2>2. CASE Connected(c)
    BY <1>2, <1>4, <2>2 DEF Create
  <2> QED BY <2>1, <2>2
<1>5. ASSUME NEW next \in {"watch", "subscribe"}, NEW row, Connected(c) => row.active = TRUE,
             Update(w, row, next)
      PROVE  DeactInv'
  BY <1>2, <1>3, <1>5 DEF Update
<1>6. CASE ConnectGmail(w) \/ ConnectOutlook(w)
  BY <1>4, <1>6 DEF ConnectGmail, ConnectOutlook
<1>7. CASE ReconnectGmail(w) \/ ReconnectOutlook(w)
  <2>1. Connected(c) => /\ GmailReconnected(conn[c], job[w].ref).active = TRUE
                        /\ OutlookReconnected(conn[c], job[w].ref).active = TRUE
    BY <1>1, RowOf DEF Connection, GmailReconnected, OutlookReconnected
  <2> QED BY <1>5, <1>7, <2>1 DEF ReconnectGmail, ReconnectOutlook
<1> QED BY <1>6, <1>7

LEMMA SetWatchDeact ==
    ASSUME TypeInv, DeactInv, NEW w \in Workers, job[w].c \in Connections, NEW watch,
           SetWatch(w, watch), CalmJobs
    PROVE  DeactInv'
<1> DEFINE c == job[w].c
<1>1. UNCHANGED <<grants, suspect>>
  BY DEF SetWatch, providers, history
<1>2. CASE Connected(c)
  <2>1. PICK row : row = [conn[c] EXCEPT !.watch = watch]
    OBVIOUS
  <2>2. row.grant = conn[c].grant /\ row.active = conn[c].active
    BY <1>2, <2>1, RowOf DEF Connection
  <2>3. conn' = [conn EXCEPT ![c] = row]
    BY <1>2, <2>1 DEF SetWatch
  <2> QED BY <1>1, <1>2, <2>2, <2>3, RowCalm, CalmStep
<1>3. CASE ~Connected(c)
  BY <1>1, <1>3, SameRowsCalm, CalmStep DEF SetWatch
<1> QED BY <1>2, <1>3

LEMMA SubscriptionsDeact ==
    ASSUME TypeInv, DeactInv, NEW w \in Workers,
           \/ FindConnection(w) \/ Watch(w) \/ CallWatch(w) \/ SaveWatch(w)
           \/ Subscribe(w) \/ CallSubscribe(w) \/ SaveSubscription(w)
           \/ Renew(w) \/ CallRenew(w) \/ SaveRenewal(w)
           \/ StopWatch(w) \/ ClearWatch(w) \/ DeleteSubscription(w) \/ ClearSubscription(w)
    PROVE  DeactInv'
<1> DEFINE c == job[w].c
<1>1. c \in Connections /\ job[w].at # "idle"
  BY HandlerTyped
     DEF FindConnection, Watch, CallWatch, SaveWatch, Subscribe, CallSubscribe, SaveSubscription,
         Renew, CallRenew, SaveRenewal, StopWatch, ClearWatch, DeleteSubscription, ClearSubscription
<1> DEFINE Calm == {"connect", "reconnect", "saveWatch", "saveSubscription", "saveRenewal", "clear",
                    "clearSubscription", "subscribe", "token", "revoke"}
<1>2. Calm \subseteq Statements \ Touching
  BY DEF Statements, Touching, Refreshing, Deactivating
<1>3. ASSUME UNCHANGED <<conn, grants, suspect>>,
             \/ \E s \in Calm : Goto(w, s)
             \/ End(w)
             \/ \E s \in Calm, t \in Continuations \cup {None} :
                   job' = [job EXCEPT ![w] = Activity(c, s, t)]
      PROVE  DeactInv'
  BY <1>1, <1>2, <1>3, CalmJob, SameRowsCalm, CalmStep
<1>4. ASSUME NEW watch, SetWatch(w, watch),
             End(w) \/ ThenRevoke(w)
      PROVE  DeactInv'
  <2>1. CalmJobs
    BY <1>1, <1>2, <1>4, CalmJob DEF ThenRevoke
  <2> QED BY <1>1, <1>4, <2>1, SetWatchDeact
<1>5. CASE FindConnection(w)
  <2>1. UNCHANGED <<conn, grants, suspect>> /\ \E s \in Calm : Goto(w, s)
    BY <1>5 DEF FindConnection, rows, providers, history
  <2> QED BY <1>3, <2>1
<1>6. CASE Watch(w) \/ Subscribe(w)
  <2>1. PICK t \in Continuations : IfActive(w, t)
    BY <1>6 DEF Watch, Subscribe, Continuations
  <2>2. UNCHANGED <<conn, grants, suspect>>
    BY <2>1 DEF IfActive, rows, providers, history
  <2>3. End(w) \/ job' = [job EXCEPT ![w] = Activity(c, "token", t)]
    BY <2>1 DEF IfActive, End
  <2> QED BY <1>3, <2>2, <2>3
<1>7. CASE CallWatch(w) \/ CallSubscribe(w) \/ StopWatch(w) \/ DeleteSubscription(w)
  <2>1. UNCHANGED <<conn, grants, suspect>> /\ (End(w) \/ \E s \in Calm : Goto(w, s))
    BY <1>7 DEF CallWatch, CallSubscribe, StopWatch, DeleteSubscription, Pushes, Stops, rows,
       history
  <2> QED BY <1>3, <2>1
<1>8. CASE SaveWatch(w) \/ SaveSubscription(w) \/ SaveRenewal(w) \/ ClearWatch(w) \/ ClearSubscription(w)
  BY <1>4, <1>8 DEF SaveWatch, SaveSubscription, SaveRenewal, ClearWatch, ClearSubscription
<1>9. CASE Renew(w) \/ CallRenew(w)
  <2>1. UNCHANGED <<conn, grants, suspect>>
    BY <1>9 DEF Renew, CallRenew, rows, providers, history
  <2>2. \/ \E s \in Calm : Goto(w, s)
        \/ End(w)
        \/ \E s \in Calm, t \in Continuations \cup {None} : job' = [job EXCEPT ![w] = Activity(c, s, t)]
    BY <1>9 DEF Renew, CallRenew, Continuations
  <2> QED BY <1>3, <2>1, <2>2
<1> QED BY <1>5, <1>6, <1>7, <1>8, <1>9

LEMMA EndingDeact ==
    ASSUME TypeInv, DeactInv, NEW w \in Workers, Revoke(w) \/ Delete(w)
    PROVE  DeactInv'
<1> DEFINE c == job[w].c
<1>1. /\ c \in Connections /\ job[w].at # "idle"
      /\ conn \in [Connections -> Connection \cup {NoConnection}]
      /\ grants \in [Connections -> SUBSET (1..MaxGrants)]
  BY HandlerTyped DEF Revoke, Delete, TablesOK, ConnectionsOK
<1>2. CASE Revoke(w)
  <2>1. "delete" \in Statements \ Touching
    BY DEF Statements, Touching, Refreshing, Deactivating
  <2>2. CalmJobs
    BY <1>2, <2>1, CalmJob DEF Revoke
  <2>3. UNCHANGED <<conn, suspect>> /\ \A d \in Connections : grants'[d] \subseteq grants[d]
    BY <1>1, <1>2 DEF Revoke, rows, history
  <2>4. CalmRows
    BY <2>3 DEF CalmRows, Connected
  <2> QED BY <2>2, <2>4, CalmStep
<1>3. CASE Delete(w)
  <2>1. CalmJobs
    BY <1>3, CalmJob DEF Delete
  <2>2. UNCHANGED <<grants, suspect>> /\ \A d \in Connections : conn'[d] \in {conn[d], NoConnection}
    BY <1>1, <1>3 DEF Delete, providers, history
  <2>3. CalmRows
    BY <2>2 DEF CalmRows, Connected
  <2> QED BY <2>1, <2>3, CalmStep
<1> QED BY <1>2, <1>3

LEMMA AsideDeact ==
    ASSUME TypeInv, DeactInv, NEW w \in Workers, AsideStatements(w)
    PROVE  DeactInv'
<1> DEFINE c == job[w].c
<1>1. CASE RefreshGmail(w) \/ RefreshOutlook(w)
  <2>1. /\ job[w].at \in {"refreshGmail", "refreshOutlook"} /\ UNCHANGED conn
        /\ \E save \in {"saveGmail", "saveOutlook"}, give \in Deactivating :
              Accepted(w, save) \/ Rotated(w, save) \/ Refused(w, give)
    BY <1>1 DEF RefreshGmail, RefreshOutlook, Deactivating, rows
  <2> QED BY <2>1, AnswerDeact
<1>2. CASE SaveGmailToken(w) \/ SaveOutlookToken(w)
  <2>1. c \in Connections /\ job[w].at \in {"saveGmail", "saveOutlook"}
    BY <1>2, HandlerTyped DEF SaveGmailToken, SaveOutlookToken
  <2>2. CASE SaveGmailToken(w)
    <3> DEFINE row == [conn[c] EXCEPT !.stale = FALSE]
    <3>1. Connected(c) => row.active = conn[c].active
      BY <2>1, RowOf DEF Connection
    <3> QED BY <2>1, <2>2, <3>1, SaveDeact DEF SaveGmailToken, Deactivating
  <2>3. CASE SaveOutlookToken(w)
    <3> DEFINE row == [conn[c] EXCEPT !.stale = FALSE,
                                      !.grant = IF job[w].ref = 0 THEN @ ELSE job[w].ref]
    <3>1. Connected(c) => row.active = conn[c].active
      BY <2>1, RowOf DEF Connection
    <3> QED BY <2>1, <2>3, <3>1, SaveDeact DEF SaveOutlookToken, Deactivating
  <2> QED BY <1>2, <2>2, <2>3
<1>3. CASE DeactivateGmail(w) \/ DeactivateOutlook(w)
  BY <1>3, SetInactiveDeact DEF DeactivateGmail, DeactivateOutlook, Deactivating
<1> QED
  BY <1>1, <1>2, <1>3, TokenDeact, ConnectingDeact, SubscriptionsDeact,
     EndingDeact DEF AsideStatements

LEMMA RequestsDeact ==
    ASSUME TypeInv, DeactInv, NEW w \in Workers, Requests(w)
    PROVE  DeactInv'
<1>1. PICK c \in Connections :
         \/ ConnectRequests(w, c) \/ PollRequests(w, c) \/ RefreshRequests(w, c)
         \/ WatchRequests(w, c) \/ DisconnectRequests(w, c)
  BY DEF Requests
<1>2. CASE ConnectRequests(w, c)
  <2>1. PICK p \in {"GMAIL", "OUTLOOK"} : ExchangeCode(w, c, p)
    BY <1>2 DEF ConnectRequests, GmailCallback, OutlookCallback
  <2>2. /\ Moves(w) /\ UNCHANGED <<conn, suspect>> /\ job'[w].at = "findConnection"
        /\ \A d \in Connections : \A g \in grants'[d] : g \in grants[d] \/ g > issued[d]
    BY <2>1, ExchangeCodeStep DEF Aside
  <2>3. CalmRows
    BY <2>2 DEF CalmRows, Connected
  <2>4. CalmJobs
    BY <2>2 DEF CalmJobs, Moves, Touching, Refreshing, Deactivating
  <2> QED BY <2>3, <2>4, CalmStep
<1>3. CASE PollRequests(w, c)
  <2>1. CASE Polls(w, c)
    <3>1. CalmJobs
      BY <2>1 DEF Polls, CalmJobs, Moves, Touching, Refreshing, Deactivating
    <3>2. UNCHANGED <<conn, grants, suspect>>
      BY <2>1 DEF Polls
    <3> QED BY <3>1, <3>2, SameRowsCalm, CalmStep
  <2>2. CASE Missed(c)
    <3>1. UNCHANGED <<conn, grants, suspect, job>>
      BY <2>2 DEF Missed, rows
    <3>2. CalmJobs
      BY <3>1 DEF CalmJobs
    <3> QED BY <3>1, <3>2, SameRowsCalm, CalmStep
  <2> QED BY <1>3, <2>1, <2>2, PollRequestSteps
<1>4. CASE RefreshRequests(w, c)
  <2>1. CronRefresh(w, c)
    BY <1>4 DEF RefreshRequests
  <2>2. UNCHANGED <<conn, grants, suspect>>
    BY <2>1 DEF CronRefresh, rows, providers, history
  <2>3. Moves(w) /\ job'[w].c = c /\ job'[w].at \in {"refreshGmail", "refreshOutlook"}
        /\ job'[w].ref = conn[c].grant
    BY <2>1, CronRefreshStep DEF Aside
  <2> QED BY <2>2, <2>3, RefreshBegins
<1>5. CASE WatchRequests(w, c) \/ DisconnectRequests(w, c)
  <2>1. UNCHANGED <<conn, grants, suspect>>
    BY <1>5 DEF WatchRequests, DisconnectRequests, RenewWatch, RenewSubscription, Disconnect,
                rows, providers, history
  <2>2. \E s \in {"watch", "renew", "subscribe", "token", "revoke"}, t \in Continuations \cup {None} :
           job' = [job EXCEPT ![w] = Activity(c, s, t)]
    BY <1>5 DEF WatchRequests, DisconnectRequests, RenewWatch, RenewSubscription, Disconnect, Begin,
                Continuations
  <2>3. {"watch", "renew", "subscribe", "token", "revoke"} \subseteq Statements \ Touching
    BY DEF Statements, Touching, Refreshing, Deactivating
  <2>4. CalmJobs
    BY <2>2, <2>3, CalmJob
  <2> QED BY <2>1, <2>4, SameRowsCalm, CalmStep
<1> QED BY <1>1, <1>2, <1>3, <1>4, <1>5

\* Reading mail and importing it ends no connection.
LEMMA MailDeact ==
    ASSUME TypeInv, DeactInv, NEW w \in Workers, Lists(w) \/ Picks(w) \/ Moving(w) \/ Imports(w)
    PROVE  DeactInv'
<1>1. ASSUME Moves(w), job'[w].at \in {"idle", "clear", "clearSubscription", "fallback"} \cup Listed
      PROVE  CalmJobs
  BY <1>1 DEF Moves, CalmJobs, Listed, Importing, Touching, Refreshing, Deactivating
<1>2. CASE Lists(w)
  <2>1. UNCHANGED <<conn, grants, suspect>>
    BY <1>2 DEF Lists, ListGmail, Fallback, ListOutlook, Rebaseline, rows, providers
  <2>2. \/ Quits(w) \/ ListsHistory(w) \/ FallsBack(w) \/ ListsChanges(w) \/ ListsRecent(w)
        \/ \E d : ListsUnread(w, d)
    BY <1>2, ListGmailStep, FallbackStep, ListOutlookStep, RebaselineStep DEF Lists
  <2>3. CalmJobs
    BY <1>1, <2>2 DEF Quits, ListsHistory, FallsBack, ListsChanges, ListsRecent, ListsUnread,
       Goes, Listed
  <2> QED BY <2>1, <2>3, SameRowsCalm, CalmStep
<1>3. CASE Picks(w)
  <2>1. UNCHANGED <<conn, grants, suspect>>
    BY <1>3 DEF Picks, GetMessage, TakeGmailMessage, TakeOutlookMessage, Take, NoMoreMessages,
                history, rows, providers
  <2>2. \/ \E s \in {"each", "cursor"} : Passes(w, s)
        \/ \E m \in Mails : Gets(w, m) \/ LeavesOut(w, m) \/ Takes(w, m)
    BY <1>3, GetMessageStep, TakeStep, NoMoreMessagesStep DEF Picks
  <2>3. CalmJobs
    BY <1>1, <2>2 DEF Passes, Gets, LeavesOut, Takes, Goes, Listed, Importing
  <2> QED BY <2>1, <2>3, SameRowsCalm, CalmStep
<1>4. CASE Moving(w)
  <2>1. UNCHANGED <<providers, suspect>> /\ (Closes(w) \/ (Quits(w) /\ UNCHANGED conn))
    BY <1>4, MoveCursorStep DEF Moving
  <2>2. CalmJobs
    BY <1>1, <2>1, IdleHandler DEF Closes, Quits
  <2>3. UNCHANGED <<grants, suspect>>
    BY <2>1 DEF providers
  <2>4. CalmRows
    <3>1. CASE UNCHANGED conn
      BY <2>3, <3>1, SameRowsCalm
    <3>2. CASE Closes(w)
      BY <2>3, <3>2 DEF Closes, CalmRows, Connected
    <3> QED BY <2>1, <3>1, <3>2
  <2> QED BY <2>2, <2>4, CalmStep
<1>5. CASE Imports(w)
  <2>1. UNCHANGED <<conn, grants, suspect>>
    BY <1>5 DEF Imports, providers
  <2>2. CalmJobs
    BY <1>1, <1>5 DEF Imports, Handling, HandsBack, Goes, Listed
  <2> QED BY <2>1, <2>2, SameRowsCalm, CalmStep
<1> QED BY <1>2, <1>3, <1>4, <1>5

LEMMA AgeingDeact ==
    ASSUME TypeInv, DeactInv, Ageing
    PROVE  DeactInv'
<1>1. UNCHANGED <<job, suspect>>
  BY DEF Ageing, ProviderEvents, TokenEvents, WatchEvents, SettingEvents, ConsentWithdrawn,
         TokenAges, WatchLapses, SetAutoImport, history
<1>2. CalmJobs
  BY <1>1 DEF CalmJobs
<1>3. ASSUME NEW c \in Connections, ConsentWithdrawn(c) PROVE CalmRows
  <2>1. UNCHANGED conn /\ \A d \in Connections : grants'[d] \subseteq grants[d]
    BY <1>3 DEF ConsentWithdrawn, rows, TypeInv, TablesOK, ConnectionsOK
  <2> QED BY <1>1, <2>1 DEF CalmRows, Connected
<1>4. ASSUME NEW c \in Connections,
             TokenAges(c) \/ WatchLapses(c) \/ \E auto \in BOOLEAN : SetAutoImport(c, auto)
      PROVE  CalmRows
  <2>1. Connected(c) /\ UNCHANGED grants
    BY <1>4 DEF TokenAges, WatchLapses, SetAutoImport, providers
  <2>2. conn[c] \in Connection
    BY <2>1, RowOf
  <2>3. CASE TokenAges(c)
    <3>1. PICK row : row = [conn[c] EXCEPT !.stale = TRUE]
      OBVIOUS
    <3>2. conn' = [conn EXCEPT ![c] = row]
      BY <2>3, <3>1 DEF TokenAges
    <3>3. row.grant = conn[c].grant /\ row.active = conn[c].active
      BY <2>2, <3>1 DEF Connection
    <3> QED BY <1>1, <2>1, <3>2, <3>3, RowCalm
  <2>4. CASE WatchLapses(c)
    <3>1. PICK row : row = [conn[c] EXCEPT !.watch = "lapsed"]
      OBVIOUS
    <3>2. conn' = [conn EXCEPT ![c] = row]
      BY <2>4, <3>1 DEF WatchLapses
    <3>3. row.grant = conn[c].grant /\ row.active = conn[c].active
      BY <2>2, <3>1 DEF Connection
    <3> QED BY <1>1, <2>1, <3>2, <3>3, RowCalm
  <2>5. ASSUME NEW auto \in BOOLEAN, SetAutoImport(c, auto) PROVE CalmRows
    <3>1. PICK row : row = [conn[c] EXCEPT !.auto = auto]
      OBVIOUS
    <3>2. conn' = [conn EXCEPT ![c] = row]
      BY <2>5, <3>1 DEF SetAutoImport
    <3>3. row.grant = conn[c].grant /\ row.active = conn[c].active
      BY <2>2, <3>1 DEF Connection
    <3> QED BY <1>1, <2>1, <3>2, <3>3, RowCalm
  <2> QED BY <1>4, <2>3, <2>4, <2>5
<1> QED
  BY <1>2, <1>3, <1>4, CalmStep DEF Ageing, ProviderEvents, TokenEvents, WatchEvents, SettingEvents

LEMMA DeactHolds ==
    ASSUME TypeInv, DeactInv, [Next]_vars
    PROVE  DeactInv'
<1>1. ASSUME UNCHANGED <<conn, grants, suspect, job>> PROVE DeactInv'
  <2>1. CalmJobs
    BY <1>1 DEF CalmJobs
  <2> QED BY <1>1, <2>1, SameRowsCalm, CalmStep
<1>2. ASSUME NEW w \in Workers, Continue(w) PROVE DeactInv'
  <2>1. CASE ImportStatements(w)
    BY <2>1, ImportSteps, MailDeact
  <2> QED
    BY <1>2, <2>1, AsideDeact, MailDeact
       DEF Continue, AsideStatements, ImportStatements, Lists, Picks, Moving
<1>3. CASE MailEvents \/ ReadingEvents
  <2>1. UNCHANGED <<conn, grants, suspect, job>>
    BY <1>3 DEF MailEvents, ReadingEvents, Deliver, ReadMessage, rows, history
  <2> QED BY <1>1, <2>1
<1>4. CASE UpkeepEvents
  <2>1. UNCHANGED <<conn, grants, suspect, job>>
    BY <1>4, UpkeepStep DEF providers, history
  <2> QED BY <1>1, <2>1
<1>5. CASE Crash
  <2>1. UNCHANGED <<conn, grants, suspect>> /\ \A v \in Workers : job'[v] = Idle
    BY <1>5 DEF Crash, rows, providers
  <2>2. CalmJobs
    BY <2>1, IdleHandler DEF CalmJobs, Touching, Refreshing, Deactivating
  <2> QED BY <2>1, <2>2, SameRowsCalm, CalmStep
<1>6. CASE UNCHANGED vars
  <2>1. UNCHANGED <<conn, grants, suspect, job>>
    BY <1>6 DEF vars, rows, providers, history
  <2> QED BY <1>1, <2>1
<1> QED
  BY <1>2, <1>3, <1>4, <1>5, <1>6, RequestsDeact, AgeingDeact DEF Next, Events, Ageing

\* A connection whose stored refresh token the provider accepts is active, unless a
\* refresh failed for another reason than its token, or was under way when the token was
\* replaced.
THEOREM DeactivationIsCaused == Spec => []DeactivationHasCause
<1>1. Init => DeactInv
  <2> SUFFICES ASSUME Init PROVE DeactInv
    OBVIOUS
  <2>1. \A w \in Workers : job[w].at = "idle"
    BY DEF Init, Idle
  <2>2. \A c \in Connections : Connected(c) => conn[c].active = TRUE
    BY DEF Init, Connected
  <2> QED BY <2>1, <2>2 DEF DeactInv, Ending, Deactivating
<1>2. TypeInv /\ DeactInv /\ [Next]_vars => DeactInv'
  BY DeactHolds
<1>3. DeactInv => DeactivationHasCause
  BY DEF DeactInv, DeactivationHasCause, Ending, Refusing
<1> QED BY <1>1, <1>2, <1>3, AlwaysTyped, PTL DEF Spec

-----------------------------------------------------------------------------
(* Candidates of refused imports *)

Hands == Importing \ {"lookup"}
Holding(w, k) == job[w].at \in Hands /\ KeyOf(job[w]) = k

\* What the message in hand has come to.
InHandOK(w, k) ==
    /\ job[w].at \notin {"score", "imported", "count", "fail"} => Linked(k) = {}
    /\ job[w].at = "fail" /\ k \notin uncounted => Linked(k) = {}
    /\ job[w].at \in {"findCv", "findSender", "createCv", "createSender", "score", "imported"}
       /\ HasImport(k) => imports[k].status = "PROCESSING"
    /\ job[w].at = "count" /\ HasImport(k) => imports[k].status = "IMPORTED"

RefusedOK(k) ==
    k \notin uncounted /\ HasImport(k) /\ imports[k].status \in {"SKIPPED", "FAILED"} => Linked(k) = {}

KeyOK(k) ==
    /\ \A v, w \in Workers : Holding(v, k) /\ Holding(w, k) => v = w
    /\ \A w \in Workers : Holding(w, k) => InHandOK(w, k)
    /\ RefusedOK(k)

RefusedInv == \A k \in Keys \ shared : KeyOK(k)

\* Nobody takes a message in hand, and rows only go.
LEMMA QuietKeys ==
    ASSUME RefusedInv, \A v \in Workers : job'[v].at \in Hands => job'[v] = job[v],
           Tidies \/ UNCHANGED <<imports, candidates>>,
           shared \subseteq shared', uncounted \subseteq uncounted'
    PROVE  RefusedInv'
<1> SUFFICES ASSUME NEW k \in Keys, k \notin shared' PROVE KeyOK(k)'
  BY DEF RefusedInv
<1>1. KeyOK(k)
  BY DEF RefusedInv
<1>2. /\ Linked(k) = {} => Linked(k)' = {}
      /\ HasImport(k)' => HasImport(k) /\ imports'[k].status = imports[k].status
  BY DEF Tidies, HasImport, Linked
<1>3. \A v \in Workers : Holding(v, k)' => Holding(v, k) /\ job'[v] = job[v]
  BY DEF Holding
<1>4. \A v, w \in Workers : Holding(v, k)' /\ Holding(w, k)' => v = w
  BY <1>1, <1>3 DEF KeyOK
<1>5. ASSUME NEW v \in Workers, Holding(v, k)' PROVE InHandOK(v, k)'
  <2>1. InHandOK(v, k) /\ job'[v] = job[v]
    BY <1>1, <1>3, <1>5 DEF KeyOK
  <2> QED BY <1>2, <2>1 DEF InHandOK
<1>6. RefusedOK(k)'
  BY <1>1, <1>2 DEF KeyOK, RefusedOK
<1> QED BY <1>4, <1>5, <1>6 DEF KeyOK

\* A statement of an import touches no other message.
LEMMA OtherKeys ==
    ASSUME TypeInv, RefusedInv, NEW w \in Workers, Imports(w),
           NEW k \in Keys, k \notin shared', k # KeyOf(job[w]),
           shared \subseteq shared', uncounted \subseteq uncounted',
           UNCHANGED candidates \/ \E x : candidates' = candidates \cup {x} /\ x.link = KeyOf(job[w])
    PROVE  KeyOK(k)'
<1>1. KeyOK(k)
  BY DEF RefusedInv
<1>2. Linked(k)' = Linked(k)
  BY DEF Linked
<1>3. imports'[k] = imports[k]
  BY DEF Imports, Writes
<1>4. Moves(w) /\ (job'[w].at \in Hands => KeyOf(job'[w]) = KeyOf(job[w]))
  <2>1. CASE Handling(w)
    BY <2>1 DEF Handling, Goes, SamePoll, KeyOf
  <2>2. CASE HandsBack(w)
    BY <2>2 DEF HandsBack, Goes, Hands, Importing
  <2> QED BY <2>1, <2>2 DEF Imports
<1>5. \A v \in Workers : Holding(v, k)' => Holding(v, k) /\ job'[v] = job[v]
  BY <1>4 DEF Holding, Moves
<1>6. \A v, u \in Workers : Holding(v, k)' /\ Holding(u, k)' => v = u
  BY <1>1, <1>5 DEF KeyOK
<1>7. ASSUME NEW v \in Workers, Holding(v, k)' PROVE InHandOK(v, k)'
  <2>1. InHandOK(v, k) /\ job'[v] = job[v]
    BY <1>1, <1>5, <1>7 DEF KeyOK
  <2> QED BY <1>2, <1>3, <2>1 DEF InHandOK, HasImport
<1>8. RefusedOK(k)'
  BY <1>1, <1>2, <1>3 DEF KeyOK, RefusedOK, HasImport
<1> QED BY <1>6, <1>7, <1>8 DEF KeyOK

LEMMA OwnKey ==
    ASSUME TypeInv, RefusedInv, NEW w \in Workers, Imports(w),
           NEW k \in Keys, k \notin shared', k = KeyOf(job[w]), shared \subseteq shared',
           job[w].at \in Hands \/ \A v \in Workers \ {w} : ~Holding(v, k),
           job'[w].at \in Hands => InHandOK(w, k)', RefusedOK(k)'
    PROVE  KeyOK(k)'
<1>1. KeyOK(k)
  BY DEF RefusedInv
<1>2. Moves(w)
  BY DEF Imports, Handling, HandsBack, Goes
<1>3. \A v \in Workers \ {w} : ~Holding(v, k)
  BY <1>1 DEF KeyOK, Holding
<1>4. \A v \in Workers \ {w} : ~Holding(v, k)'
  BY <1>2, <1>3 DEF Moves, Holding
<1> QED BY <1>4 DEF KeyOK, Holding

\* So that an import may be looked at alone.
LEMMA OneImport ==
    ASSUME TypeInv, RefusedInv, NEW w \in Workers, Imports(w),
           shared \subseteq shared', uncounted \subseteq uncounted',
           UNCHANGED candidates \/ \E x : candidates' = candidates \cup {x} /\ x.link = KeyOf(job[w]),
           NEW k \in Keys, k = KeyOf(job[w]),
           k \notin shared' => /\ job[w].at \in Hands \/ \A v \in Workers \ {w} : ~Holding(v, k)
                               /\ job'[w].at \in Hands => InHandOK(w, k)'
                               /\ RefusedOK(k)'
    PROVE  RefusedInv'
<1> SUFFICES ASSUME NEW l \in Keys, l \notin shared' PROVE KeyOK(l)'
  BY DEF RefusedInv
<1>1. CASE l = k
  BY <1>1, OwnKey
<1>2. CASE l # k
  BY <1>2, OtherKeys
<1> QED BY <1>1, <1>2

\* Of the message in hand.
LEMMA HandFacts ==
    ASSUME TypeInv, RefusedInv, NEW w \in Workers, job[w].at \in Hands, NEW k \in Keys,
           k = KeyOf(job[w]), k \notin shared
    PROVE  InHandOK(w, k) /\ RefusedOK(k)
BY DEF RefusedInv, KeyOK, Holding

LEMMA HandsBackAt ==
    ASSUME NEW w \in Workers, HandsBack(w)
    PROVE  job'[w].at = "each" /\ job'[w].at \notin Hands
BY DEF HandsBack, Goes, Hands, Importing

LEMMA LookupRefused ==
    ASSUME TypeInv, RefusedInv, NEW w \in Workers, Lookup(w)
    PROVE  RefusedInv'
<1>1. job[w].at = "lookup" /\ UNCHANGED <<imports, candidates, uncounted>>
  BY DEF Lookup, rows
<1>2. /\ Imports(w)
      /\ HandsBack(w) \/ (Linked(KeyOf(job[w])) = {} /\ job'[w].at \in {"skip", "pending", "classify"})
  BY LookupStep
<1>3. PICK k \in Keys : k = KeyOf(job[w])
  BY <1>1, InHandTyped DEF Importing
<1>4. /\ shared \subseteq shared'
      /\ k \notin shared' => \A v \in Workers \ {w} : ~(job[v].at \in Importing /\ KeyOf(job[v]) = k)
  BY <1>3 DEF Lookup
<1>5. k \notin shared' => \A v \in Workers \ {w} : ~Holding(v, k)
  BY <1>4 DEF Holding, Hands
<1>6. k \notin shared' => RefusedOK(k)'
  <2>1. k \notin shared' => RefusedOK(k)
    BY <1>4 DEF RefusedInv, KeyOK
  <2> QED BY <1>1, <2>1 DEF RefusedOK, HasImport, Linked
<1>7. job'[w].at \in Hands => InHandOK(w, k)'
  <2>1. CASE HandsBack(w)
    BY <2>1, HandsBackAt
  <2>2. CASE Linked(k) = {} /\ job'[w].at \in {"skip", "pending", "classify"}
    <3>1. Linked(k)' = {}
      BY <1>1, <2>2 DEF Linked
    <3> QED BY <2>2, <3>1 DEF InHandOK
  <2> QED BY <1>2, <1>3, <2>1, <2>2
<1> QED BY <1>1, <1>2, <1>3, <1>4, <1>5, <1>6, <1>7, OneImport

\* Until a candidate is made there is none.
LEMMA EarlyRefused ==
    ASSUME TypeInv, RefusedInv, NEW w \in Workers, Imports(w), UNCHANGED <<candidates, shared>>,
           uncounted \subseteq uncounted',
           job[w].at \in Hands \ {"score", "imported", "count", "fail"},
           job'[w].at \notin {"score", "imported", "count"},
           job'[w].at \in {"findCv", "findSender", "createCv", "createSender"} =>
              \/ Writes(w, "PROCESSING")
              \/ UNCHANGED imports /\ job[w].at \in {"findCv", "findSender"}
    PROVE  RefusedInv'
<1>1. PICK k \in Keys : k = KeyOf(job[w])
  BY InHandTyped DEF Hands
<1>2. ASSUME k \notin shared' PROVE (job'[w].at \in Hands => InHandOK(w, k)') /\ RefusedOK(k)'
  <2>1. Linked(k)' = {} /\ InHandOK(w, k)
    BY <1>1, <1>2, HandFacts DEF InHandOK, Linked
  <2>2. job'[w].at \in {"findCv", "findSender", "createCv", "createSender"} /\ HasImport(k)' =>
           imports'[k].status = "PROCESSING"
    BY <1>1, <2>1 DEF Writes, InHandOK, HasImport
  <2> QED BY <2>1, <2>2 DEF InHandOK, RefusedOK
<1> QED BY <1>1, <1>2, OneImport

LEMMA CreatingRefused ==
    ASSUME TypeInv, RefusedInv, NEW w \in Workers, CreateCvCandidate(w) \/ CreateCandidate(w)
    PROVE  RefusedInv'
<1>1. /\ Imports(w) /\ job[w].at \in {"createCv", "createSender"}
      /\ UNCHANGED <<imports, shared, uncounted>>
      /\ \/ Creates(w)
         \/ UNCHANGED candidates /\ Handling(w) /\ job'[w].at = "fail"
  BY CreatingSteps
<1>2. job[w].at \in Hands \ {"score", "imported", "count", "fail"}
  BY <1>1 DEF Hands, Importing
<1>3. CASE UNCHANGED candidates /\ job'[w].at = "fail"
  BY <1>1, <1>2, <1>3, EarlyRefused
<1>4. CASE Creates(w)
  <2>1. PICK k \in Keys : k = KeyOf(job[w])
    BY <1>2, InHandTyped DEF Hands
  <2>2. /\ HasImport(k) /\ job'[w].at \in {"score", "imported"}
        /\ \E x : candidates' = candidates \cup {x} /\ x.link = KeyOf(job[w])
    BY <1>4, <2>1 DEF Creates
  <2>3. ASSUME k \notin shared' PROVE InHandOK(w, k)' /\ RefusedOK(k)'
    <3>1. InHandOK(w, k)
      BY <1>1, <1>2, <2>1, <2>3, HandFacts
    <3>2. imports'[k].status = "PROCESSING"
      BY <1>1, <2>2, <3>1 DEF InHandOK
    <3> QED BY <2>2, <3>2 DEF InHandOK, RefusedOK
  <2> QED BY <1>1, <1>2, <2>1, <2>2, <2>3, OneImport
<1> QED BY <1>1, <1>3, <1>4

LEMMA LateRefused ==
    ASSUME TypeInv, RefusedInv, NEW w \in Workers,
           ScoreCandidate(w) \/ MarkImported(w) \/ CountImport(w) \/ MarkFailed(w)
    PROVE  RefusedInv'
<1>1. /\ Imports(w) /\ UNCHANGED <<candidates, shared>>
      /\ job[w].at \in {"score", "imported", "count", "fail"}
  BY ScoreStep, MarkImportedStep, CountImportStep, MarkFailedStep
<1>2. job[w].at \in Hands
  BY <1>1 DEF Hands, Importing
<1>3. PICK k \in Keys : k = KeyOf(job[w])
  BY <1>2, InHandTyped DEF Hands
<1>4. Linked(k)' = Linked(k)
  BY <1>1 DEF Linked
<1>5. ~HasImport(k) => Linked(k) = {}
  <2>1. \A x \in candidates : x.link # None => HasImport(x.link)
    BY DEF TypeInv, TablesOK, ImportsOK
  <2> QED BY <1>3, <2>1, NoneIsNoKey DEF Linked
<1>6. ASSUME uncounted \subseteq uncounted',
             k \notin shared => (job'[w].at \in Hands => InHandOK(w, k)') /\ RefusedOK(k)'
      PROVE  RefusedInv'
  BY <1>1, <1>2, <1>3, <1>6, OneImport
<1>7. k \notin shared => InHandOK(w, k) /\ RefusedOK(k)
  BY <1>2, <1>3, HandFacts
<1>8. CASE ScoreCandidate(w)
  <2>1. UNCHANGED <<imports, uncounted>> /\ job[w].at = "score" /\ job'[w].at = "imported"
    BY <1>8, ScoreStep
  <2> QED BY <1>4, <1>6, <1>7, <2>1 DEF InHandOK, RefusedOK, HasImport
<1>9. CASE MarkImported(w)
  <2>1. /\ UNCHANGED uncounted
        /\ \/ Writes(w, "IMPORTED") /\ job'[w].at = "count"
           \/ UNCHANGED imports /\ ~HasImport(KeyOf(job[w])) /\ job'[w].at = "fail"
    BY <1>9, MarkImportedStep
  <2>2. CASE Writes(w, "IMPORTED") /\ job'[w].at = "count"
    <3>1. imports'[k].status = "IMPORTED"
      BY <1>3, <2>2 DEF Writes
    <3> QED BY <1>6, <2>1, <2>2, <3>1 DEF InHandOK, RefusedOK
  <2>3. CASE UNCHANGED imports /\ ~HasImport(KeyOf(job[w])) /\ job'[w].at = "fail"
    <3>1. Linked(k)' = {}
      BY <1>3, <1>4, <1>5, <2>3
    <3> QED BY <1>6, <2>1, <2>3, <3>1 DEF InHandOK, RefusedOK
  <2> QED BY <2>1, <2>2, <2>3
<1>10. CASE CountImport(w)
  <2>1. /\ UNCHANGED imports
        /\ \/ HandsBack(w) /\ UNCHANGED uncounted
           \/ job'[w].at = "fail" /\ uncounted' = uncounted \cup {KeyOf(job[w])}
    BY <1>10, CountImportStep
  <2>2. CASE HandsBack(w) /\ UNCHANGED uncounted
    BY <1>4, <1>6, <1>7, <2>1, <2>2, HandsBackAt DEF RefusedOK, HasImport
  <2>3. CASE job'[w].at = "fail" /\ uncounted' = uncounted \cup {KeyOf(job[w])}
    BY <1>3, <1>6, <2>3 DEF InHandOK, RefusedOK
  <2> QED BY <2>1, <2>2, <2>3
<1>11. CASE MarkFailed(w)
  <2>1. /\ UNCHANGED uncounted /\ job[w].at = "fail" /\ HandsBack(w)
    BY <1>11, MarkFailedStep
  <2>2. k \notin shared => RefusedOK(k)'
    BY <1>4, <1>7, <2>1 DEF InHandOK, RefusedOK
  <2> QED BY <1>6, <2>1, <2>2, HandsBackAt
<1> QED BY <1>8, <1>9, <1>10, <1>11

LEMMA ImportRefused ==
    ASSUME TypeInv, RefusedInv, NEW w \in Workers, ImportStatements(w)
    PROVE  RefusedInv'
<1> DEFINE Early == {"skip", "classify", "pending", "begin", "findCv", "findSender", "duplicate"}
<1>1. Early \subseteq Hands \ {"score", "imported", "count", "fail"}
  BY DEF Hands, Importing
<1>2. ASSUME Imports(w), UNCHANGED <<candidates, shared, uncounted>>, job[w].at \in Early,
             job'[w].at \notin {"score", "imported", "count"},
             job'[w].at \in {"findCv", "findSender", "createCv", "createSender"} =>
                \/ Writes(w, "PROCESSING")
                \/ UNCHANGED imports /\ job[w].at \in {"findCv", "findSender"}
      PROVE  RefusedInv'
  BY <1>1, <1>2, EarlyRefused
<1>3. CASE WriteSkip(w)
  <2>1. Imports(w) /\ UNCHANGED candidates /\ job'[w].at = "each"
    BY <1>3, WriteSkipStep
  <2>2. UNCHANGED <<shared, uncounted>> /\ job[w].at = "skip"
    BY <1>3 DEF WriteSkip
  <2> QED BY <1>2, <2>1, <2>2
<1>4. CASE Classify(w)
  <2>1. Imports(w) /\ UNCHANGED candidates /\ job'[w].at \in {"each", "pending"}
    BY <1>4, ClassifyStep, HandsBackAt
  <2>2. UNCHANGED <<shared, uncounted>> /\ job[w].at = "classify"
    BY <1>4 DEF Classify
  <2> QED BY <1>2, <2>1, <2>2
<1>5. CASE WritePending(w)
  <2>1. Imports(w) /\ UNCHANGED candidates /\ job'[w].at \in {"each", "begin"}
    BY <1>5, WritePendingStep, HandsBackAt
  <2>2. UNCHANGED <<shared, uncounted>> /\ job[w].at = "pending"
    BY <1>5 DEF WritePending
  <2> QED BY <1>2, <2>1, <2>2
<1>6. CASE BeginImport(w)
  <2>1. /\ Imports(w) /\ UNCHANGED candidates
        /\ \/ job'[w].at = "each"
           \/ Writes(w, "PROCESSING") /\ job'[w].at \in {"findCv", "findSender"}
    BY <1>6, BeginImportStep, HandsBackAt
  <2>2. UNCHANGED <<shared, uncounted>> /\ job[w].at = "begin"
    BY <1>6 DEF BeginImport
  <2> QED BY <1>2, <2>1, <2>2
<1>7. CASE DeclineImport(w) \/ (MarkDuplicate(w) /\ HasImport(KeyOf(job[w])))
  <2>1. Imports(w) /\ UNCHANGED candidates /\ job'[w].at = "each"
    BY <1>7, SkippingSteps, HandsBackAt
  <2>2. UNCHANGED <<shared, uncounted>> /\ job[w].at \in Early
    BY <1>7 DEF DeclineImport, MarkDuplicate
  <2> QED BY <1>2, <2>1, <2>2
<1>8. CASE MarkDuplicate(w) /\ ~HasImport(KeyOf(job[w]))
  <2>1. Imports(w) /\ UNCHANGED candidates /\ job'[w].at = "fail"
    BY <1>8, GoneDuplicateStep
  <2>2. UNCHANGED <<shared, uncounted>> /\ job[w].at \in Early
    BY <1>8 DEF MarkDuplicate
  <2> QED BY <1>2, <2>1, <2>2
<1>9. CASE FindCvDuplicate(w) \/ FindSenderDuplicate(w)
  <2>1. /\ Imports(w) /\ UNCHANGED <<imports, candidates, shared, uncounted>>
        /\ job[w].at \in {"findCv", "findSender"}
        /\ job'[w].at \in {"duplicate", "createCv", "createSender", "fail"}
    BY <1>9, FindingSteps
  <2> QED BY <1>2, <2>1
<1> QED
  BY <1>3, <1>4, <1>5, <1>6, <1>7, <1>8, <1>9, LookupRefused, CreatingRefused, LateRefused
     DEF ImportStatements

LEMMA RefusedHolds ==
    ASSUME TypeInv, RefusedInv, [Next]_vars
    PROVE  RefusedInv'
<1> DEFINE NoneTakes == \A v \in Workers : job'[v].at \in Hands => job'[v] = job[v]
<1>1. TypeInv'
  BY NextSteps
<1>2. ASSUME NEW w \in Workers, Moves(w), job'[w].at \notin Hands PROVE NoneTakes
  BY <1>2 DEF Moves
<1>3. ASSUME NEW w \in Workers, Aside(w) PROVE RefusedInv'
  <2>1. UNCHANGED <<shared, uncounted>> /\ (UNCHANGED <<imports, candidates>> \/ Tidies)
    BY <1>3, WithoutTidies DEF Aside
  <2>2. Moves(w) /\ (job'[w].then # "list" \/ job'[w].at \in Before)
    BY <1>3 DEF Aside, Onward
  <2>3. job'[w].at \in PollStatements => job'[w].then = "list"
    BY <1>1 DEF TypeInv, HandlersOK, HandlerOK
  <2>4. job'[w].at \notin Hands
    BY <2>2, <2>3 DEF Hands, PollStatements, Before, Refreshing, Deactivating, Importing
  <2>5. NoneTakes
    BY <1>2, <2>2, <2>4
  <2> QED BY <2>1, <2>5, QuietKeys
<1>4. ASSUME NEW w \in Workers, Lists(w) PROVE RefusedInv'
  <2>1. UNCHANGED <<imports, candidates, shared, uncounted>>
    BY <1>4 DEF Lists, ListGmail, Fallback, ListOutlook, Rebaseline, rows
  <2>2. \/ Quits(w) \/ ListsHistory(w) \/ FallsBack(w) \/ ListsChanges(w) \/ ListsRecent(w)
        \/ \E d : ListsUnread(w, d)
    BY <1>4, ListGmailStep, FallbackStep, ListOutlookStep, RebaselineStep DEF Lists
  <2>3. Moves(w) /\ job'[w].at \in {"idle", "clear", "clearSubscription", "fallback", "get", "each"}
    BY <2>2 DEF Quits, ListsHistory, FallsBack, ListsChanges, ListsRecent, ListsUnread, Goes
  <2>4. NoneTakes
    BY <1>2, <2>3 DEF Hands, Importing
  <2> QED BY <2>1, <2>4, QuietKeys
<1>5. ASSUME NEW w \in Workers, Picks(w) PROVE RefusedInv'
  <2>1. UNCHANGED <<imports, candidates, shared, uncounted>>
    BY <1>5 DEF Picks, GetMessage, TakeGmailMessage, TakeOutlookMessage, Take, NoMoreMessages,
                history, rows
  <2>2. \/ \E s \in {"each", "cursor"} : Passes(w, s)
        \/ \E m \in Mails : Gets(w, m) \/ LeavesOut(w, m) \/ Takes(w, m)
    BY <1>5, GetMessageStep, TakeStep, NoMoreMessagesStep DEF Picks
  <2>3. Moves(w) /\ job'[w].at \in {"each", "cursor", "get", "lookup"}
    BY <2>2 DEF Passes, Gets, LeavesOut, Takes, Goes
  <2>4. NoneTakes
    BY <1>2, <2>3 DEF Hands, Importing
  <2> QED BY <2>1, <2>4, QuietKeys
<1>6. ASSUME NEW w \in Workers, Moving(w) PROVE RefusedInv'
  <2>1. UNCHANGED <<imports, candidates, shared, uncounted>> /\ (Closes(w) \/ Quits(w))
    BY <1>6, MoveCursorStep DEF Moving
  <2>2. Moves(w) /\ job'[w].at \in {"idle", "clear", "clearSubscription"}
    BY <2>1, IdleHandler DEF Closes, Quits
  <2>3. NoneTakes
    BY <1>2, <2>2 DEF Hands, Importing
  <2> QED BY <2>1, <2>3, QuietKeys
<1>7. ASSUME NEW w \in Workers, NEW c \in Connections, Polls(w, c) PROVE RefusedInv'
  <2>1. NoneTakes
    BY <1>2, <1>7 DEF Polls, Hands, Importing
  <2> QED BY <1>7, <2>1, QuietKeys DEF Polls
<1>8. CASE Crash
  <2>1. UNCHANGED <<imports, candidates, shared, uncounted>> /\ \A v \in Workers : job'[v] = Idle
    BY <1>8 DEF Crash, rows
  <2>2. NoneTakes
    BY <2>1, IdleHandler DEF Hands, Importing
  <2> QED BY <2>1, <2>2, QuietKeys
<1>9. CASE \/ \E c \in Connections, m \in Mails : Deliver(c, m) \/ ReadMessage(c, m)
           \/ \E c \in Connections : Missed(c)
           \/ Ages \/ UNCHANGED vars
           \/ Tidies /\ UNCHANGED <<conn, born, job, client, providers, history>>
  <2>1. UNCHANGED <<job, shared, uncounted>> /\ (Tidies \/ UNCHANGED <<imports, candidates>>)
    BY <1>9 DEF Deliver, ReadMessage, Missed, Ages, vars, rows, history
  <2> QED BY <2>1, QuietKeys
<1> QED
  BY <1>3, <1>4, <1>5, <1>6, <1>7, <1>8, <1>9, NextSteps, ImportRefused DEF Steps

\* An import that is marked skipped or failed has made no candidate, unless two polls had
\* the message in hand at once or the usage of the import could not be counted.
THEOREM RefusedMailHasNoCandidate == Spec => []RefusedRowsHaveNoCandidate
<1>1. Init => RefusedInv
  <2> SUFFICES ASSUME Init PROVE RefusedInv
    OBVIOUS
  <2>1. \A w \in Workers : job[w].at = "idle"
    BY DEF Init, Idle
  <2>2. \A k \in Keys : ~HasImport(k)
    BY DEF Init, HasImport
  <2>3. \A w \in Workers, k \in Keys : ~Holding(w, k)
    BY <2>1 DEF Holding, Hands, Importing
  <2> QED BY <2>2, <2>3 DEF RefusedInv, KeyOK, RefusedOK
<1>2. TypeInv /\ RefusedInv /\ [Next]_vars => RefusedInv'
  BY RefusedHolds
<1>3. RefusedInv => RefusedRowsHaveNoCandidate
  BY DEF RefusedInv, KeyOK, RefusedOK, RefusedRowsHaveNoCandidate
<1> QED BY <1>1, <1>2, <1>3, AlwaysTyped, PTL DEF Spec

-----------------------------------------------------------------------------
(* What the cursor passes *)

Accounted(c, m) == <<c, m>> \in settled \cup dropped

\* The mail a poll has listed and is not done with.
InHands(j) == j.ids \cup j.got \cup (IF j.at \in Importing THEN {j.m} ELSE {})

\* What a poll owes when it ends: it may leave the cursor at j.to, and goes through what it
\* listed from the oldest on.
PollPassed(j) ==
    j.then = "list" =>
        /\ j.to <= clock /\ j.cursor <= clock
        /\ ~j.relist => j.box = j.c
        /\ ~j.relist /\ ~j.moved =>
              \A m \in Promised(j.c) :
                 Arrived(j.c, m) <= j.to => Accounted(j.c, m) \/ m \in InHands(j)
        /\ \A m \in Promised(j.c) : Arrived(j.c, m) <= j.cursor => Accounted(j.c, m)
        /\ ~j.relist =>
              \A n \in j.ids, m \in Promised(j.c) :
                 Arrived(j.c, m) <= Arrived(j.c, n) => Accounted(j.c, m) \/ m \in InHands(j)

CursorsPassed ==
    /\ \A c \in Connections : Connected(c) => conn[c].cursor <= clock
    /\ PassedMailIsAccountedFor

PassedInv == CursorsPassed /\ \A w \in Workers : PollPassed(job[w])

\* What is promised was promised, or comes later than anything listed; what is accounted
\* for stays so.
Keeps ==
    /\ settled \subseteq settled' /\ dropped \subseteq dropped' /\ clock <= clock'
    /\ \A c \in Connections, m \in Mails :
          /\ m \in Holds(c) => Arrived(c, m)' = Arrived(c, m)
          /\ m \in Promised(c)' => m \in Promised(c) \/ Arrived(c, m)' > clock

LEMMA PromisedHeld ==
    ASSUME TypeInv, NEW c \in Connections
    PROVE  /\ Promised(c) \subseteq Inbox(c) /\ Promised(c) \subseteq Holds(c)
           /\ Promised(c) \subseteq Mails
           /\ \A m \in Mails : /\ Arrived(c, m) \in Times /\ Arrived(c, m) <= clock
                               /\ m \in Holds(c) <=> Arrived(c, m) # 0
                               /\ m \in Holds(c) => Arrived(c, m) > 0
           /\ clock \in Times /\ clock \in Nat
<1>1. \A m \in Mails : /\ Arrived(c, m) \in 0..MaxClock /\ box[c][m].last \in 0..MaxClock
                       /\ clock \in 0..MaxClock /\ MaxClock \in Nat
                       /\ Arrived(c, m) <= box[c][m].last /\ box[c][m].last <= clock
  BY Arrivals DEF Times
<1>2. clock \in 0..MaxClock /\ MaxClock \in Nat
  BY MailBoundsAssumption DEF TypeInv, TablesOK, MailboxesOK, Times
<1>3. \A m \in Mails : Arrived(c, m) \in 0..MaxClock /\ Arrived(c, m) <= clock
  BY <1>1
<1> QED BY <1>2, <1>3 DEF Promised, Inbox, Holds, Times

\* When no mail comes.
LEMMA SameMailKeeps ==
    ASSUME TypeInv, UNCHANGED <<clock, mail, box>>, settled \subseteq settled',
           dropped \subseteq dropped',
           \A c \in Connections : Connected(c)' =>
              /\ Connected(c) => conn'[c].created = conn[c].created
              /\ ~Connected(c) => conn'[c].created = Now
    PROVE  Keeps
<1>1. clock \in Nat
  BY MailBoundsAssumption DEF TypeInv, TablesOK, MailboxesOK, Times
<1>2. ASSUME NEW c \in Connections, NEW m \in Mails
      PROVE  /\ Arrived(c, m)' = Arrived(c, m)
             /\ m \in Promised(c)' => m \in Promised(c)
  <2>1. Arrived(c, m)' = Arrived(c, m) /\ Inbox(c)' = Inbox(c)
    BY DEF Arrived, Inbox, Holds
  <2>2. Arrived(c, m) <= clock /\ Arrived(c, m) \in Nat
    BY PromisedHeld, MailBoundsAssumption DEF Times
  <2> QED BY <1>1, <2>1, <2>2 DEF Promised, Now
<1> QED BY <1>1, <1>2 DEF Keeps

LEMMA ReceivesKeeps ==
    ASSUME TypeInv, TypeInv', NEW c \in Connections, NEW m \in Mails, Receives(c, m),
           m \in Holds(c) => box'[c][m].at = box[c][m].at,
           \A n \in Mails : mail[n] # NotSent => mail'[n] = mail[n]
    PROVE  Keeps
<1>1. clock \in Nat /\ clock' = clock + 1 /\ UNCHANGED <<conn, settled, dropped>>
  BY MailBoundsAssumption DEF TypeInv, TablesOK, MailboxesOK, Times, Receives, Now, rows
<1>2. ASSUME NEW d \in Connections, NEW n \in Mails
      PROVE  /\ n \in Holds(d) => Arrived(d, n)' = Arrived(d, n)
             /\ n \in Promised(d)' => n \in Promised(d) \/ Arrived(d, n)' > clock
  <2>1. CASE <<d, n>> # <<c, m>> \/ m \in Holds(c)
    <3>1. Arrived(d, n)' = Arrived(d, n)
      BY <1>2, <2>1 DEF Receives, Arrived
    <3>2. n \in Inbox(d)' => n \in Inbox(d)
      <4>1. n \in Inbox(d)' => Arrived(d, n) # 0 /\ mail'[n].kind # "aside"
        BY <3>1 DEF Inbox, Holds
      <4>2. Arrived(d, n) # 0 => mail[n] # NotSent
        BY Arrivals
      <4> QED BY <4>1, <4>2 DEF Inbox, Holds
    <3> QED BY <1>1, <3>1, <3>2 DEF Promised, Connected
  <2>2. CASE d = c /\ n = m /\ m \notin Holds(c)
    <3>1. Arrived(c, m) = 0
      BY <2>2 DEF Holds
    <3>2. Arrived(c, m)' \in {Now, 0}
      BY <3>1 DEF Receives, Arrived
    <3>3. n \in Promised(d)' => Arrived(c, m)' # 0
      BY <2>2 DEF Promised, Inbox, Holds
    <3> QED BY <1>1, <2>2, <3>2, <3>3 DEF Now
  <2> QED BY <2>1, <2>2
<1> QED BY <1>1, <1>2 DEF Keeps

LEMMA ArrivalsNext ==
    ASSUME TypeInv', NEW c \in Connections, NEW m \in Mails
    PROVE  Arrived(c, m)' \in Times
<1>1. box'[c][m] \in Copy
  BY DEF TypeInv, TablesOK, MailboxesOK
<1> QED BY <1>1 DEF Copy, Arrived, Times

\* Promised mail that a cursor of the past reaches was promised then.
LEMMA OldPromise ==
    ASSUME TypeInv, TypeInv', Keeps, NEW c \in Connections, NEW m \in Promised(c)',
           NEW t \in Nat, t <= clock, Arrived(c, m)' <= t
    PROVE  /\ m \in Promised(c) /\ Arrived(c, m)' = Arrived(c, m)
           /\ Accounted(c, m) => Accounted(c, m)'
<1>1. m \in Mails
  BY DEF Promised, Inbox, Holds
<1>2. Arrived(c, m)' \in Nat /\ clock \in Nat
  <2>1. Arrived(c, m)' \in Times
    BY <1>1, ArrivalsNext
  <2> QED BY <2>1, PromisedHeld, MailBoundsAssumption DEF Times
<1>3. m \in Promised(c)
  BY <1>1, <1>2 DEF Keeps
<1>4. m \in Holds(c)
  BY <1>3, PromisedHeld
<1> QED BY <1>1, <1>3, <1>4 DEF Keeps, Accounted

LEMMA CursorsCarried ==
    ASSUME TypeInv, TypeInv', CursorsPassed, Keeps, RowsKeep
    PROVE  CursorsPassed'
<1>1. clock \in Nat /\ clock' \in Nat
  BY MailBoundsAssumption DEF TypeInv, TablesOK, MailboxesOK, Times
<1>2. ASSUME NEW c \in Connections, Connected(c)'
      PROVE  /\ conn'[c].cursor \in Nat /\ conn'[c].cursor <= clock
             /\ conn'[c].cursor # 0 => Connected(c) /\ conn'[c].cursor = conn[c].cursor
  <2>1. CASE Connected(c)
    <3>1. conn'[c].cursor = conn[c].cursor /\ conn[c].cursor <= clock
      BY <1>2, <2>1 DEF RowsKeep, CursorsPassed
    <3>2. conn[c] \in Connection
      BY <2>1 DEF Connected, TypeInv, TablesOK, ConnectionsOK
    <3>3. conn[c].cursor \in 0..MaxClock
      BY <3>2 DEF Connection
    <3> QED BY <2>1, <3>1, <3>3, MailBoundsAssumption
  <2>2. CASE ~Connected(c)
    BY <1>1, <1>2, <2>2 DEF RowsKeep
  <2> QED BY <2>1, <2>2
<1>3. ASSUME NEW c \in Connections, NEW m \in Promised(c)', Passed(c, m)'
      PROVE  Accounted(c, m)'
  <2>1. Connected(c)' /\ conn'[c].cursor # 0 /\ Arrived(c, m)' <= conn'[c].cursor
    BY <1>3 DEF Promised, Passed
  <2>2. /\ m \in Promised(c) /\ Arrived(c, m)' = Arrived(c, m)
        /\ Accounted(c, m) => Accounted(c, m)'
    BY <1>2, <2>1, OldPromise
  <2>3. Passed(c, m)
    BY <1>2, <2>1, <2>2 DEF Passed
  <2> QED BY <2>2, <2>3 DEF CursorsPassed, PassedMailIsAccountedFor, Accounted
<1>4. \A c \in Connections : Connected(c)' => conn'[c].cursor <= clock'
  BY <1>1, <1>2 DEF Keeps
<1> QED BY <1>3, <1>4 DEF CursorsPassed, PassedMailIsAccountedFor, Accounted

\* What a poll in progress has by now.
LEMMA PollFacts ==
    ASSUME TypeInv, NEW v \in Workers, job[v].then = "list"
    PROVE  /\ job[v].c \in Connections /\ job[v].box \in Connections
           /\ job[v].to \in Nat /\ job[v].cursor \in Nat
           /\ job[v].ids \subseteq Holds(job[v].box) /\ job[v].got \subseteq Holds(job[v].box)
           /\ job[v].at # "get" => job[v].ids = {}
           /\ job[v].at \notin {"get", "each"} \cup Importing => job[v].got = {}
           /\ job[v].at \in Before \cup {"fallback"} => job[v].box = job[v].c
           /\ job[v].at \in Importing => job[v].m \in Holds(job[v].box)
<1>1. job[v] \in Job /\ HandlerOK(job[v])
  BY HandlerTyped
<1>2. job[v].at # "idle"
  BY <1>1, NoneIsNoWord DEF HandlerOK
<1>3. job[v].to \in Times /\ job[v].cursor \in Times
  BY <1>1 DEF Job
<1> QED BY <1>1, <1>2, <1>3, MailBoundsAssumption DEF HandlerOK, Times

\* A poll that lists nothing more and keeps in hand what is not accounted for.
LEMMA PollCarried ==
    ASSUME TypeInv, TypeInv', Keeps, NEW v \in Workers, PollPassed(job[v]),
           job'[v].then = "list" =>
              /\ job[v].then = "list" /\ job'[v].c = job[v].c /\ job'[v].box = job[v].box
              /\ job'[v].to = job[v].to /\ job'[v].moved = job[v].moved
              /\ job'[v].relist = job[v].relist /\ job'[v].cursor \in {job[v].cursor, 0}
              /\ job'[v].ids \subseteq job[v].ids
              /\ \A m \in InHands(job[v]) :
                    \/ m \in InHands(job'[v])
                    \/ job[v].box = job[v].c => <<job[v].c, m>> \in settled' \cup dropped'
    PROVE  PollPassed(job[v])'
<1> SUFFICES ASSUME job'[v].then = "list" PROVE PollPassed(job[v])'
  BY DEF PollPassed
<1>1. /\ job[v].c \in Connections /\ job[v].to \in Nat /\ job[v].cursor \in Nat
      /\ job[v].ids \subseteq Holds(job[v].box) /\ clock \in Nat /\ clock' \in Nat
  BY PollFacts, MailBoundsAssumption DEF TypeInv, TablesOK, MailboxesOK, Times
<1> DEFINE j == job[v]
<1>2. PICK c \in Connections : c = j.c
  BY <1>1
<1>3. /\ j.to <= clock /\ j.cursor <= clock /\ clock <= clock'
      /\ ~j.relist => j.box = c
  BY <1>2 DEF PollPassed, Keeps
<1>4. \A m \in Mails : Arrived(c, m) \in Nat /\ Arrived(c, m) <= clock
  BY PromisedHeld, MailBoundsAssumption DEF Times
<1>5. ASSUME NEW m \in Promised(c)', NEW t \in Nat, t <= clock, Arrived(c, m)' <= t
      PROVE  m \in Promised(c) /\ Arrived(c, m) <= t /\ (Accounted(c, m) => Accounted(c, m)')
  BY <1>5, OldPromise
<1>6. ASSUME NEW m \in Promised(c)', Arrived(c, m)' <= j.to, ~j.relist, ~j.moved
      PROVE  Accounted(c, m)' \/ m \in InHands(job'[v])
  <2>1. m \in Promised(c) /\ Arrived(c, m) <= j.to /\ (Accounted(c, m) => Accounted(c, m)')
    BY <1>1, <1>3, <1>5, <1>6
  <2>2. Accounted(c, m) \/ m \in InHands(j)
    BY <1>2, <1>6, <2>1 DEF PollPassed
  <2> QED BY <1>2, <1>3, <1>6, <2>1, <2>2 DEF Accounted
<1>7. ASSUME NEW m \in Promised(c)', Arrived(c, m)' <= job'[v].cursor
      PROVE  Accounted(c, m)'
  <2>1. Arrived(c, m)' # 0 /\ m \in Mails
    BY DEF Promised, Inbox, Holds
  <2>2. Arrived(c, m)' \in Times
    BY <2>1, ArrivalsNext
  <2>3. job'[v].cursor = j.cursor
    BY <1>7, <2>1, <2>2, MailBoundsAssumption DEF Times
  <2>4. m \in Promised(c) /\ Arrived(c, m) <= j.cursor /\ (Accounted(c, m) => Accounted(c, m)')
    BY <1>1, <1>3, <1>5, <1>7, <2>3
  <2> QED BY <1>2, <2>4 DEF PollPassed
<1>8. ASSUME NEW n \in job'[v].ids, NEW m \in Promised(c)', ~j.relist,
             Arrived(c, m)' <= Arrived(c, n)'
      PROVE  Accounted(c, m)' \/ m \in InHands(job'[v])
  <2>1. n \in j.ids /\ n \in Holds(c) /\ n \in Mails
    BY <1>1, <1>3, <1>8 DEF Holds
  <2>2. Arrived(c, n)' = Arrived(c, n)
    BY <2>1 DEF Keeps
  <2>3. m \in Promised(c) /\ Arrived(c, m) <= Arrived(c, n) /\ (Accounted(c, m) => Accounted(c, m)')
    BY <1>4, <1>5, <1>8, <2>1, <2>2
  <2>4. Accounted(c, m) \/ m \in InHands(j)
    BY <1>2, <1>8, <2>1, <2>3 DEF PollPassed
  <2> QED BY <1>2, <1>3, <1>8, <2>3, <2>4 DEF Accounted
<1>9. job'[v].to <= clock' /\ job'[v].cursor <= clock'
  BY <1>1, <1>3
<1>10. job'[v].c = c /\ job'[v].box = j.box /\ job'[v].to = j.to /\ job'[v].moved = j.moved
       /\ job'[v].relist = j.relist
  BY <1>2
<1> QED BY <1>2, <1>3, <1>6, <1>7, <1>8, <1>9, <1>10 DEF PollPassed

Older(c, ms, m) == {k \in ms : Arrived(c, k) < Arrived(c, m)}

\* A page of the oldest leaves out nothing older than what it holds, and nothing at all
\* if all fits in.
LEMMA OldestClosed ==
    ASSUME TypeInv, NEW c \in Connections, NEW ms \in SUBSET Mails
    PROVE  /\ \A n \in Oldest(c, ms), m \in ms :
                 Arrived(c, m) <= Arrived(c, n) => m \in Oldest(c, ms)
           /\ Cardinality(ms) <= Page => Oldest(c, ms) = ms
<1>1. IsFiniteSet(ms)
  BY MailsAreFinite, FS_Subset
<1>2. ASSUME NEW m \in ms
      PROVE  IsFiniteSet(Older(c, ms, m)) /\ Cardinality(Older(c, ms, m)) \in Nat
  <2>1. Older(c, ms, m) \in SUBSET ms
    BY DEF Older
  <2> QED BY <1>1, <2>1, FS_Subset, FS_CardinalityType
<1>3. \A m \in Mails : Arrived(c, m) \in Nat
  BY PromisedHeld, MailBoundsAssumption DEF Times
<1>4. ASSUME NEW n \in Oldest(c, ms), NEW m \in ms, Arrived(c, m) <= Arrived(c, n)
      PROVE  m \in Oldest(c, ms)
  <2>1. n \in ms /\ Cardinality(Older(c, ms, n)) < Page
    BY DEF Oldest, Older
  <2>2. Older(c, ms, m) \subseteq Older(c, ms, n)
    BY <1>3, <1>4, <2>1 DEF Older
  <2>3. Cardinality(Older(c, ms, m)) <= Cardinality(Older(c, ms, n))
    BY <1>2, <2>1, <2>2, FS_Subset
  <2>4. Cardinality(Older(c, ms, m)) < Page
    BY <1>2, <2>1, <2>3, PageAssumption
  <2> QED BY <2>4 DEF Oldest, Older
<1>5. ASSUME Cardinality(ms) <= Page, NEW m \in ms PROVE m \in Oldest(c, ms)
  <2>1. Older(c, ms, m) \subseteq ms /\ Older(c, ms, m) # ms
    BY <1>3, <1>5 DEF Older
  <2>2. Cardinality(Older(c, ms, m)) <= Cardinality(ms) /\ Cardinality(ms) \in Nat
    BY <1>1, <2>1, FS_Subset, FS_CardinalityType
  <2>3. Cardinality(Older(c, ms, m)) # Cardinality(ms)
    BY <1>1, <2>1, FS_Subset
  <2>4. Cardinality(Older(c, ms, m)) < Page
    BY <1>2, <1>5, <2>2, <2>3, PageAssumption
  <2> QED BY <2>4 DEF Oldest, Older
<1> QED BY <1>4, <1>5 DEF Oldest

\* What a poll must do to have passed nothing, of a list it makes of its own mailbox.
LEMMA PollPasses ==
    ASSUME TypeInv, TypeInv', UNCHANGED <<clock, conn, mail, box, settled>>,
           dropped \subseteq dropped', NEW v \in Workers, job[v].then = "list",
           PollPassed(job[v]), job'[v].c = job[v].c, job'[v].cursor \in {job[v].cursor, 0},
           job'[v].to <= clock,
           ~job'[v].relist => job'[v].box = job[v].c,
           \A m \in Promised(job[v].c) :
              ~job'[v].relist /\ ~job'[v].moved /\ Arrived(job[v].c, m) <= job'[v].to
                 => Accounted(job[v].c, m) \/ m \in InHands(job'[v]),
           \A n \in job'[v].ids, m \in Promised(job[v].c) :
              ~job'[v].relist /\ Arrived(job[v].c, m) <= Arrived(job[v].c, n)
                 => Accounted(job[v].c, m) \/ m \in InHands(job'[v])
    PROVE  PollPassed(job[v])'
<1>1. job[v].c \in Connections /\ job[v].cursor \in Nat /\ clock \in Nat
  BY PollFacts, MailBoundsAssumption DEF TypeInv, TablesOK, MailboxesOK, Times
<1>2. PICK c \in Connections : c = job[v].c
  BY <1>1
<1>3. /\ Promised(c)' = Promised(c) /\ \A m \in Mails : Arrived(c, m)' = Arrived(c, m)
      /\ \A m \in Mails : Accounted(c, m) => Accounted(c, m)'
  BY DEF Promised, Inbox, Holds, Arrived, Connected, Accounted
<1>4. Promised(c) \subseteq Mails /\ \A m \in Promised(c) : Arrived(c, m) \in Nat /\ Arrived(c, m) > 0
  BY PromisedHeld, MailBoundsAssumption DEF Times
<1>5. /\ job[v].cursor <= clock
      /\ \A m \in Promised(c) : Arrived(c, m) <= job[v].cursor => Accounted(c, m)
  BY <1>2 DEF PollPassed
<1>6. job'[v].to <= clock' /\ job'[v].cursor <= clock'
  BY <1>1, <1>5
<1>7. \A m \in Promised(c)' : Arrived(c, m)' <= job'[v].cursor => Accounted(c, m)'
  BY <1>3, <1>4, <1>5
<1>8. \A m \in Promised(c)' : ~job'[v].relist /\ ~job'[v].moved /\ Arrived(c, m)' <= job'[v].to
          => Accounted(c, m)' \/ m \in InHands(job'[v])
  BY <1>2, <1>3, <1>4
<1>9. job'[v].ids \subseteq Mails
  <2>1. job'[v] \in Job
    BY DEF TypeInv, HandlersOK
  <2> QED BY <2>1 DEF Job
<1>10. \A n \in job'[v].ids, m \in Promised(c)' :
          ~job'[v].relist /\ Arrived(c, m)' <= Arrived(c, n)'
             => Accounted(c, m)' \/ m \in InHands(job'[v])
  BY <1>2, <1>3, <1>4, <1>9
<1>11. job'[v].c = c /\ (~job'[v].relist => job'[v].box = c)
  BY <1>2
<1> QED BY <1>6, <1>7, <1>8, <1>10, <1>11 DEF PollPassed

\* What the delta link does not bring is accounted for.
LEMMA ChangesListed ==
    ASSUME TypeInv, CursorsPassed, NEW c \in Connections, Connected(c)
    PROVE  \A m \in Promised(c) : Accounted(c, m) \/ m \in Changed(c)
<1> SUFFICES ASSUME NEW m \in Promised(c) PROVE Accounted(c, m) \/ m \in Changed(c)
  OBVIOUS
<1>1. m \in Inbox(c) /\ m \in Mails
  BY PromisedHeld
<1>2. CASE conn[c].cursor = 0
  <2>1. m \in ForwardOnly(c, conn[c].created)
    BY <1>1 DEF Promised, ForwardOnly
  <2> QED BY <1>2, <2>1 DEF Changed
<1>3. CASE conn[c].cursor # 0 /\ box[c][m].last > conn[c].cursor
  BY <1>1, <1>3 DEF Changed
<1>4. CASE conn[c].cursor # 0 /\ ~(box[c][m].last > conn[c].cursor)
  <2>1. conn[c] \in Connection
    BY DEF Connected, TypeInv, TablesOK, ConnectionsOK
  <2>2. conn[c].cursor \in 0..MaxClock
    BY <2>1 DEF Connection
  <2>3. /\ Arrived(c, m) \in 0..MaxClock /\ box[c][m].last \in 0..MaxClock /\ MaxClock \in Nat
        /\ Arrived(c, m) <= box[c][m].last
    BY <1>1, Arrivals DEF Times
  <2>4. Passed(c, m)
    BY <1>4, <2>2, <2>3 DEF Passed
  <2> QED BY <2>4 DEF CursorsPassed, PassedMailIsAccountedFor, Accounted
<1> QED BY <1>2, <1>3, <1>4

LEMMA ListingPassed ==
    ASSUME TypeInv, TypeInv', CursorsPassed, UNCHANGED <<clock, conn, mail, box, settled>>,
           dropped \subseteq dropped', NEW w \in Workers, PollPassed(job[w]),
           \/ job[w].at = "list" /\ (ListsHistory(w) \/ ListsChanges(w))
           \/ ListsRecent(w)
           \/ \E d : ListsUnread(w, d)
    PROVE  PollPassed(job[w])'
<1> DEFINE j == job[w]
           k == job'[w]
<1>1. j.then = "list" /\ k.c = j.c
  BY DEF ListsHistory, ListsChanges, ListsRecent, ListsUnread, Goes
<1>2. /\ j.c \in Connections /\ j.to \in Nat /\ j.cursor \in Nat /\ clock \in Nat
      /\ j.at = "list" => j.ids = {} /\ j.got = {} /\ j.box = j.c
  BY <1>1, PollFacts, MailBoundsAssumption
     DEF Before, Importing, TypeInv, TablesOK, MailboxesOK, Times
<1>3. PICK c \in Connections : c = j.c
  BY <1>2
<1>4. /\ j.to <= clock
      /\ ~j.relist => j.box = c
      /\ ~j.relist /\ ~j.moved =>
            \A m \in Promised(c) : Arrived(c, m) <= j.to => Accounted(c, m) \/ m \in InHands(j)
      /\ \A m \in Promised(c) : Arrived(c, m) <= j.cursor => Accounted(c, m)
  BY <1>1, <1>3 DEF PollPassed
<1>5. j.at = "list" => InHands(j) = {}
  BY <1>2 DEF InHands, Importing
<1>6. /\ Promised(c) \subseteq Inbox(c) /\ Promised(c) \subseteq Mails /\ Inbox(c) \subseteq Mails
      /\ \A m \in Mails : Arrived(c, m) \in Nat /\ Arrived(c, m) <= clock
  BY PromisedHeld, MailBoundsAssumption DEF Times, Inbox, Holds
<1>7. CASE ListsRecent(w) \/ \E d : ListsUnread(w, d)
  <2>1. k.relist = TRUE /\ k.cursor = j.cursor /\ k.to \in {j.to, 0, clock}
    BY <1>7 DEF ListsRecent, ListsUnread
  <2> QED BY <1>1, <1>2, <1>4, <2>1, PollPasses
<1>8. CASE j.at = "list" /\ ListsHistory(w)
  <2>1. /\ k.cursor = 0 /\ k.box = j.box /\ k.relist = j.relist /\ k.to = j.to /\ k.moved = j.moved
        /\ k.got = j.got /\ k.ids = Oldest(c, Since(c, j.cursor)) /\ k.at = "get"
    BY <1>3, <1>8 DEF ListsHistory, Goes
  <2>2. InHands(k) = Oldest(c, Since(c, j.cursor))
    BY <1>2, <1>8, <2>1 DEF InHands, Importing
  <2>3. ASSUME NEW n \in k.ids, NEW m \in Promised(c), Arrived(c, m) <= Arrived(c, n)
        PROVE  Accounted(c, m) \/ m \in InHands(k)
    <3>1. CASE Arrived(c, m) <= j.cursor
      BY <1>4, <3>1
    <3>2. CASE Arrived(c, m) > j.cursor
      <4>1. Since(c, j.cursor) \subseteq Mails /\ m \in Since(c, j.cursor)
        BY <1>6, <3>2 DEF Since
      <4> QED BY <2>1, <2>2, <2>3, <4>1, OldestClosed
    <3> QED BY <1>2, <1>6, <3>1, <3>2
  <2>4. ~k.relist /\ ~k.moved =>
            \A m \in Promised(c) : Arrived(c, m) <= k.to => Accounted(c, m) \/ m \in InHands(k)
    BY <1>4, <1>5, <1>8, <2>1
  <2>5. k.to <= clock /\ k.cursor = 0 /\ (~k.relist => k.box = c)
    BY <1>4, <2>1
  <2> QED BY <1>1, <1>3, <2>3, <2>4, <2>5, PollPasses
<1>9. CASE j.at = "list" /\ ListsChanges(w)
  <2>1. /\ k.cursor = j.cursor /\ k.box = j.box /\ k.relist = j.relist /\ k.to = clock
        /\ k.got = Changed(c) /\ k.ids = {} /\ Connected(c)
    BY <1>2, <1>3, <1>9 DEF ListsChanges
  <2>2. \A m \in Promised(c) : Accounted(c, m) \/ m \in InHands(k)
    BY <2>1, ChangesListed DEF InHands
  <2>3. k.to <= clock /\ (~k.relist => k.box = c)
    BY <1>2, <1>4, <2>1
  <2> QED BY <1>1, <1>3, <2>1, <2>2, <2>3, PollPasses
<1> QED BY <1>7, <1>8, <1>9

LEMMA GetsPassed ==
    ASSUME TypeInv, TypeInv', UNCHANGED <<clock, conn, mail, box, settled>>, NEW w \in Workers,
           PollPassed(job[w]), job[w].at = "get", NEW m \in Mails, Gets(w, m)
    PROVE  PollPassed(job[w])'
<1> DEFINE j == job[w]
           k == job'[w]
<1>1. /\ j.then = "list" /\ k.c = j.c /\ k.at = "get" /\ m \in j.ids
      /\ k.ids = j.ids \ {m} /\ k.got = j.got \cup {m} /\ k.cursor = j.cursor
      /\ k.to = box[j.box][m].last /\ k.moved = (box[j.box][m].last # Arrived(j.box, m))
      /\ k.box = j.box /\ k.relist = j.relist /\ UNCHANGED dropped
  BY DEF Gets, Goes
<1>2. j.c \in Connections /\ j.box \in Connections
  BY <1>1, PollFacts
<1>3. k.to <= clock
  BY <1>1, <1>2, Arrivals
<1>4. InHands(k) = InHands(j)
  BY <1>1 DEF InHands, Importing
<1>5. ~j.relist => j.box = j.c /\ \A n \in j.ids, x \in Promised(j.c) :
                      Arrived(j.c, x) <= Arrived(j.c, n) => Accounted(j.c, x) \/ x \in InHands(j)
  BY <1>1 DEF PollPassed
<1>6. ASSUME NEW x \in Promised(j.c), ~k.relist, ~k.moved, Arrived(j.c, x) <= k.to
      PROVE  Accounted(j.c, x) \/ x \in InHands(k)
  BY <1>1, <1>4, <1>5, <1>6
<1>7. ASSUME NEW n \in k.ids, NEW x \in Promised(j.c), ~k.relist,
             Arrived(j.c, x) <= Arrived(j.c, n)
      PROVE  Accounted(j.c, x) \/ x \in InHands(k)
  BY <1>1, <1>4, <1>5, <1>7
<1>8. ~k.relist => k.box = j.c
  BY <1>1, <1>5
<1> QED BY <1>1, <1>3, <1>6, <1>7, <1>8, PollPasses

\* The statements that list nothing.
LEMMA WorkPassed ==
    ASSUME TypeInv, TypeInv', Keeps, NEW w \in Workers, PollPassed(job[w]),
           \/ Onward(w) \/ Quits(w)
           \/ job[w].at = "list" /\ FallsBack(w)
           \/ \E s \in {"each", "cursor"} : job[w].at \in {"get", "each"} /\ Passes(w, s)
           \/ \E m \in Mails : job[w].at = "get" /\ LeavesOut(w, m)
           \/ \E m \in Mails : job[w].at = "each" /\ Takes(w, m)
           \/ job[w].at \in Importing /\ (Handling(w) \/ HandsBack(w))
    PROVE  PollPassed(job[w])'
<1> DEFINE j == job[w]
           k == job'[w]
<1>1. CASE Onward(w)
  <2>1. \A s \in Before : s \notin Importing
    BY DEF Before, Refreshing, Deactivating, Importing
  <2> QED BY <1>1, <2>1, PollCarried DEF Onward, SamePoll, InHands
<1>2. CASE Quits(w)
  BY <1>2, PollCarried DEF Quits
<1>3. CASE j.at = "list" /\ FallsBack(w)
  <2>1. InHands(k) = InHands(j)
    BY <1>3 DEF FallsBack, Goes, InHands, Importing
  <2> QED BY <1>3, <2>1, PollCarried DEF FallsBack, Goes
<1>4. ASSUME NEW s \in {"each", "cursor"}, j.at \in {"get", "each"}, Passes(w, s)
      PROVE  PollPassed(job[w])'
  <2>1. InHands(k) = InHands(j)
    BY <1>4 DEF Passes, Goes, Carries, InHands, Importing
  <2> QED BY <1>4, <2>1, PollCarried DEF Passes, Goes, Carries
<1>5. ASSUME NEW m \in Mails, j.at = "get", LeavesOut(w, m) PROVE PollPassed(job[w])'
  <2>1. \A n \in InHands(j) : n \in InHands(k) \/ n = m
    BY <1>5 DEF LeavesOut, Goes, InHands, Importing
  <2>2. j.box = j.c => <<j.c, m>> \in dropped'
    BY <1>5 DEF LeavesOut
  <2> QED BY <1>5, <2>1, <2>2, PollCarried DEF LeavesOut, Goes
<1>6. ASSUME NEW m \in Mails, j.at = "each", Takes(w, m) PROVE PollPassed(job[w])'
  <2>1. \A n \in InHands(j) : n \in InHands(k)
    BY <1>6 DEF Takes, Goes, InHands, Importing
  <2> QED BY <1>6, <2>1, PollCarried DEF Takes, Goes
<1>7. CASE j.at \in Importing /\ Handling(w)
  <2>1. InHands(k) = InHands(j)
    BY <1>7 DEF Handling, SamePoll, InHands
  <2> QED BY <1>7, <2>1, PollCarried DEF Handling, Goes, SamePoll
<1>8. CASE j.at \in Importing /\ HandsBack(w)
  <2>1. \A n \in InHands(j) : n \in InHands(k) \/ n = j.m
    BY <1>8 DEF HandsBack, SamePoll, InHands
  <2> QED BY <1>8, <2>1, PollCarried DEF HandsBack, Goes, SamePoll
<1> QED BY <1>1, <1>2, <1>3, <1>4, <1>5, <1>6, <1>7, <1>8

\* Of everybody else's poll.
LEMMA OthersPassed ==
    ASSUME TypeInv, TypeInv', Keeps, PassedInv, NEW w \in Workers, Moves(w), CursorsPassed',
           PollPassed(job[w])'
    PROVE  PassedInv'
<1>1. ASSUME NEW v \in Workers, v # w PROVE PollPassed(job[v])'
  <2>1. job'[v] = job[v]
    BY <1>1 DEF Moves
  <2> QED BY <2>1, PollCarried DEF PassedInv
<1> QED BY <1>1 DEF PassedInv

LEMMA AllPassed ==
    ASSUME TypeInv, TypeInv', Keeps, PassedInv, CursorsPassed',
           \A v \in Workers : job'[v] = job[v] \/ job'[v] = Idle
    PROVE  PassedInv'
<1>1. ASSUME NEW v \in Workers PROVE PollPassed(job[v])'
  <2>1. CASE job'[v] = job[v]
    BY <2>1, PollCarried DEF PassedInv
  <2>2. CASE job'[v] = Idle
    BY <2>2, IdleHandler DEF PollPassed
  <2> QED BY <2>1, <2>2
<1> QED BY <1>1 DEF PassedInv

\* A poll begins: it has listed nothing, and takes the cursor for what it is.
LEMMA PollsPassed ==
    ASSUME TypeInv, CursorsPassed, NEW w \in Workers, NEW c \in Connections, Polls(w, c)
    PROVE  PollPassed(job[w])'
<1> DEFINE k == job'[w]
<1>1. /\ k.c = c /\ k.box = c /\ k.cursor \in {0, conn[c].cursor} /\ k.relist = FALSE
      /\ k.ids = {} /\ k.to = 0 /\ Connected(c)
      /\ UNCHANGED <<conn, clock, mail, box, settled, dropped>>
  BY DEF Polls
<1>2. /\ clock \in Nat /\ \A m \in Promised(c) : Arrived(c, m) \in Nat /\ Arrived(c, m) > 0
      /\ Promised(c) \subseteq Mails
  BY PromisedHeld, MailBoundsAssumption DEF Times
<1>3. /\ Promised(c)' = Promised(c) /\ \A m \in Mails : Arrived(c, m)' = Arrived(c, m)
      /\ \A m \in Mails : Accounted(c, m) => Accounted(c, m)'
  BY <1>1 DEF Promised, Inbox, Holds, Arrived, Connected, Accounted
<1>4. \A m \in Promised(c) : Arrived(c, m) <= k.cursor => Accounted(c, m)
  BY <1>1, <1>2 DEF CursorsPassed, PassedMailIsAccountedFor, Passed, Accounted
<1>5. k.cursor <= clock' /\ k.to <= clock'
  BY <1>1, <1>2 DEF CursorsPassed
<1>6. \A m \in Promised(c)' : ~(Arrived(c, m)' <= k.to)
  BY <1>1, <1>2, <1>3
<1>7. \A m \in Promised(c)' : Arrived(c, m)' <= k.cursor => Accounted(c, m)'
  BY <1>2, <1>3, <1>4
<1> QED BY <1>1, <1>5, <1>6, <1>7 DEF PollPassed

\* Where a poll leaves the cursor.
LEMMA ClosesPassed ==
    ASSUME TypeInv, TypeInv', CursorsPassed, Keeps, NEW w \in Workers, PollPassed(job[w]),
           job[w].at = "cursor", job[w].then = "list", Closes(w), UNCHANGED <<settled, clock>>
    PROVE  CursorsPassed'
<1> DEFINE j == job[w]
<1>1. /\ j.c \in Connections /\ j.to \in Nat /\ j.ids = {} /\ j.got = {} /\ clock \in Nat
  BY PollFacts, MailBoundsAssumption DEF Importing, TypeInv, TablesOK, MailboxesOK, Times
<1>2. PICK c \in Connections : c = j.c
  BY <1>1
<1>3. /\ Connected(c)
      /\ conn'[c].cursor = (IF j.to = 0 THEN conn[c].cursor ELSE j.to)
      /\ \A d \in Connections \ {c} : conn'[d] = conn[d]
      /\ dropped' = IF j.relist \/ j.moved
                    THEN dropped \cup ({c} \X {m \in Holds(c) : Arrived(c, m) <= j.to
                                                                /\ <<c, m>> \notin settled})
                    ELSE dropped
  BY <1>2 DEF Closes
<1>4. j.to <= clock /\ InHands(j) = {}
      /\ (~j.relist /\ ~j.moved => \A m \in Promised(c) : Arrived(c, m) <= j.to => Accounted(c, m))
  <2>1. InHands(j) = {}
    BY <1>1 DEF InHands, Importing
  <2> QED BY <1>2, <2>1 DEF PollPassed
<1>5. ASSUME NEW d \in Connections, Connected(d)
      PROVE  conn[d].cursor \in Nat /\ conn[d].cursor <= clock
  <2>1. conn[d] \in Connection
    BY <1>5 DEF Connected, TypeInv, TablesOK, ConnectionsOK
  <2>2. conn[d].cursor \in 0..MaxClock
    BY <2>1 DEF Connection
  <2> QED BY <1>5, <2>2, MailBoundsAssumption DEF CursorsPassed
<1>6. ASSUME NEW d \in Connections, NEW m \in Promised(d)', Passed(d, m)'
      PROVE  Accounted(d, m)'
  <2>1. Connected(d)' /\ conn'[d].cursor # 0 /\ Arrived(d, m)' <= conn'[d].cursor
    BY <1>6 DEF Promised, Passed
  <2>2. CASE conn'[d].cursor = conn[d].cursor /\ Connected(d)
    <3>1. /\ m \in Promised(d) /\ Arrived(d, m)' = Arrived(d, m)
          /\ Accounted(d, m) => Accounted(d, m)'
      BY <1>5, <2>1, <2>2, OldPromise
    <3>2. Passed(d, m)
      BY <2>1, <2>2, <3>1 DEF Passed
    <3> QED BY <3>1, <3>2 DEF CursorsPassed, PassedMailIsAccountedFor, Accounted
  <2>3. CASE d = c /\ j.to # 0
    <3>1. Arrived(c, m)' <= j.to
      BY <1>3, <2>1, <2>3
    <3>2. /\ m \in Promised(c) /\ Arrived(c, m) <= j.to
          /\ Accounted(c, m) => Accounted(c, m)'
      BY <1>1, <1>4, <2>3, <3>1, OldPromise
    <3>3. m \in Holds(c)
      BY <3>2, PromisedHeld
    <3>4. j.relist \/ j.moved => Accounted(c, m)'
      BY <1>3, <3>2, <3>3 DEF Accounted
    <3> QED BY <1>4, <2>3, <3>2, <3>4
  <2>4. CASE d # c
    <3>1. conn'[d] = conn[d]
      BY <1>3, <2>4
    <3> QED BY <2>1, <2>2, <3>1 DEF Connected
  <2> QED BY <1>3, <2>2, <2>3, <2>4
<1>7. ASSUME NEW d \in Connections, Connected(d)' PROVE conn'[d].cursor <= clock'
  BY <1>3, <1>4, <1>5, <1>7 DEF Connected
<1> QED BY <1>6, <1>7 DEF CursorsPassed, PassedMailIsAccountedFor, Accounted

LEMMA RowsStayRows ==
    ASSUME UNCHANGED conn
    PROVE  RowsKeep
BY DEF RowsKeep, Connected

\* No statement, event or crash passes mail over.
LEMMA PassedHolds ==
    ASSUME TypeInv, PassedInv, [Next]_vars
    PROVE  PassedInv'
<1>1. TypeInv' /\ Steps
  BY NextSteps
<1>2. CursorsPassed /\ \A v \in Workers : PollPassed(job[v])
  BY DEF PassedInv
<1>3. ASSUME NEW w \in Workers, Aside(w) PROVE PassedInv'
  <2>1. /\ Moves(w) /\ RowsKeep /\ Onward(w)
        /\ UNCHANGED <<clock, mail, box, settled, dropped>>
    BY <1>3 DEF Aside
  <2>2. Keeps
    BY <2>1, SameMailKeeps DEF RowsKeep
  <2>3. CursorsPassed' /\ PollPassed(job[w])'
    BY <1>1, <1>2, <2>1, <2>2, CursorsCarried, WorkPassed
  <2> QED BY <1>1, <2>1, <2>2, <2>3, OthersPassed
<1>4. ASSUME NEW w \in Workers, Lists(w) PROVE PassedInv'
  <2>1. UNCHANGED <<conn, clock, mail, box, settled, dropped>>
    BY <1>4 DEF Lists, ListGmail, Fallback, ListOutlook, Rebaseline, rows, providers
  <2>2. \/ Quits(w)
        \/ job[w].at = "list" /\ (ListsHistory(w) \/ FallsBack(w) \/ ListsChanges(w))
        \/ ListsRecent(w)
        \/ \E d : ListsUnread(w, d)
    BY <1>4, ListGmailStep, FallbackStep, ListOutlookStep, RebaselineStep DEF Lists
  <2>3. Moves(w)
    BY <2>2 DEF Quits, ListsHistory, FallsBack, ListsChanges, ListsRecent, ListsUnread, Goes
  <2>4. Keeps /\ CursorsPassed'
    <3>1. RowsKeep
      BY <2>1, RowsStayRows
    <3>2. Keeps
      BY <2>1, <3>1, SameMailKeeps DEF RowsKeep
    <3> QED BY <1>1, <1>2, <3>1, <3>2, CursorsCarried
  <2>5. PollPassed(job[w])'
    <3>1. CASE Quits(w) \/ (job[w].at = "list" /\ FallsBack(w))
      BY <1>1, <1>2, <2>4, <3>1, WorkPassed
    <3>2. CASE \/ job[w].at = "list" /\ (ListsHistory(w) \/ ListsChanges(w))
               \/ ListsRecent(w)
               \/ \E d : ListsUnread(w, d)
      BY <1>1, <1>2, <2>1, <3>2, ListingPassed
    <3> QED BY <2>2, <3>1, <3>2
  <2> QED BY <1>1, <2>3, <2>4, <2>5, OthersPassed
<1>5. ASSUME NEW w \in Workers, Picks(w) PROVE PassedInv'
  <2>1. UNCHANGED <<conn, clock, mail, box, settled>> /\ dropped \subseteq dropped'
    <3>1. UNCHANGED <<conn, clock, mail, box, settled>>
      BY <1>5 DEF Picks, GetMessage, TakeGmailMessage, TakeOutlookMessage, Take, NoMoreMessages,
                  rows, providers, history
    <3>2. dropped \subseteq dropped'
      BY <1>5 DEF Picks, GetMessage, TakeGmailMessage, TakeOutlookMessage, Take, NoMoreMessages,
                  history
    <3> QED BY <3>1, <3>2
  <2>2. \/ \E s \in {"each", "cursor"} : job[w].at \in {"get", "each"} /\ Passes(w, s)
        \/ \E m \in Mails : \/ job[w].at = "get" /\ (Gets(w, m) \/ LeavesOut(w, m))
                            \/ job[w].at = "each" /\ Takes(w, m)
    BY <1>5, GetMessageStep, TakeStep, NoMoreMessagesStep DEF Picks
  <2>3. Moves(w)
    BY <2>2 DEF Passes, Gets, LeavesOut, Takes, Goes
  <2>4. Keeps /\ CursorsPassed'
    <3>1. RowsKeep
      BY <2>1, RowsStayRows
    <3>2. Keeps
      BY <2>1, <3>1, SameMailKeeps DEF RowsKeep
    <3> QED BY <1>1, <1>2, <3>1, <3>2, CursorsCarried
  <2>5. PollPassed(job[w])'
    BY <1>1, <1>2, <2>1, <2>2, <2>4, GetsPassed, WorkPassed
  <2> QED BY <1>1, <2>3, <2>4, <2>5, OthersPassed
<1>6. ASSUME NEW w \in Workers, Moving(w) PROVE PassedInv'
  <2>1. /\ job[w].at = "cursor" /\ job[w].then = "list" /\ UNCHANGED <<clock, mail, box, settled>>
        /\ Closes(w) \/ (Quits(w) /\ UNCHANGED <<conn, dropped>>)
    BY <1>6, MoveCursorStep DEF Moving, providers
  <2>2. CASE Closes(w)
    <3>1. Moves(w) /\ job'[w] = Idle /\ dropped \subseteq dropped' /\ job[w].c \in Connections
      BY <2>1, <2>2, PollFacts DEF Closes
    <3>2. ASSUME NEW d \in Connections, Connected(d)'
          PROVE  Connected(d) /\ conn'[d].created = conn[d].created
      BY <2>2, <3>1, <3>2 DEF Closes, Connected
    <3>3. Keeps
      BY <2>1, <3>1, <3>2, SameMailKeeps
    <3>4. CursorsPassed'
      BY <1>1, <1>2, <2>1, <2>2, <3>3, ClosesPassed
    <3>5. PollPassed(job[w])'
      BY <3>1, IdleHandler DEF PollPassed
    <3> QED BY <1>1, <3>1, <3>3, <3>4, <3>5, OthersPassed
  <2>3. CASE Quits(w) /\ UNCHANGED <<conn, dropped>>
    <3>1. RowsKeep
      BY <2>3, RowsStayRows
    <3>2. Keeps
      BY <2>1, <2>3, <3>1, SameMailKeeps DEF RowsKeep
    <3>3. CursorsPassed' /\ PollPassed(job[w])'
      BY <1>1, <1>2, <2>3, <3>1, <3>2, CursorsCarried, WorkPassed
    <3> QED BY <1>1, <2>3, <3>2, <3>3, OthersPassed DEF Quits
  <2> QED BY <2>1, <2>2, <2>3
<1>7. ASSUME NEW w \in Workers, ImportStatements(w) PROVE PassedInv'
  <2>1. Imports(w)
    BY <1>7, ImportSteps
  <2>2. /\ Moves(w) /\ UNCHANGED <<conn, clock, mail, box>>
        /\ settled \subseteq settled' /\ dropped \subseteq dropped'
        /\ job[w].at \in Importing /\ (Handling(w) \/ HandsBack(w))
    BY <2>1 DEF Imports, Handling, HandsBack, Goes, providers
  <2>3. Keeps /\ CursorsPassed'
    <3>1. RowsKeep
      BY <2>2, RowsStayRows
    <3>2. Keeps
      BY <2>2, <3>1, SameMailKeeps DEF RowsKeep
    <3> QED BY <1>1, <1>2, <3>1, <3>2, CursorsCarried
  <2>4. PollPassed(job[w])'
    BY <1>1, <1>2, <2>2, <2>3, WorkPassed
  <2> QED BY <1>1, <2>2, <2>3, <2>4, OthersPassed
<1>8. ASSUME NEW w \in Workers, NEW c \in Connections, Polls(w, c) PROVE PassedInv'
  <2>1. Moves(w) /\ UNCHANGED <<conn, clock, mail, box, settled, dropped>>
    BY <1>8 DEF Polls
  <2>2. RowsKeep
    BY <2>1, RowsStayRows
  <2>3. Keeps
    BY <2>1, <2>2, SameMailKeeps DEF RowsKeep
  <2>4. CursorsPassed' /\ PollPassed(job[w])'
    BY <1>1, <1>2, <1>8, <2>2, <2>3, CursorsCarried, PollsPassed
  <2> QED BY <1>1, <2>1, <2>3, <2>4, OthersPassed
<1>9. CASE \/ \E c \in Connections : Missed(c)
           \/ Ages \/ Crash \/ UNCHANGED vars
           \/ Tidies /\ UNCHANGED <<conn, born, job, client, providers, history>>
  <2>1. UNCHANGED <<clock, mail, box, settled, dropped>>
    BY <1>9 DEF Missed, Ages, Crash, vars, providers, history
  <2>2. RowsKeep
    <3>1. UNCHANGED conn \/ RowsKeep
      BY <1>9 DEF Missed, Ages, Crash, vars, rows
    <3> QED BY <3>1, RowsStayRows
  <2>3. \A v \in Workers : job'[v] = job[v] \/ job'[v] = Idle
    BY <1>9 DEF Missed, Ages, Crash, vars
  <2>4. Keeps
    BY <2>1, <2>2, SameMailKeeps DEF RowsKeep
  <2> QED BY <1>1, <1>2, <2>2, <2>3, <2>4, CursorsCarried, AllPassed
<1>10. ASSUME NEW c \in Connections, NEW m \in Mails, Deliver(c, m) \/ ReadMessage(c, m)
       PROVE  PassedInv'
  <2>1. Receives(c, m) /\ UNCHANGED <<conn, job>>
    BY <1>10, DeliverStep, ReadMessageStep DEF Receives, rows
  <2>2. /\ m \in Holds(c) => box'[c][m].at = box[c][m].at
        /\ \A n \in Mails : mail[n] # NotSent => mail'[n] = mail[n]
    BY <1>10, DeliverStep, ReadMessageStep
  <2>3. Keeps
    BY <1>1, <2>1, <2>2, ReceivesKeeps
  <2>4. CursorsPassed'
    BY <1>1, <1>2, <2>1, <2>3, RowsStayRows, CursorsCarried
  <2> QED BY <1>1, <2>1, <2>3, <2>4, AllPassed
<1> QED BY <1>1, <1>3, <1>4, <1>5, <1>6, <1>7, <1>8, <1>9, <1>10 DEF Steps

LEMMA AlwaysPassed == Spec => []PassedInv
<1>1. Init => PassedInv
  <2> SUFFICES ASSUME Init PROVE PassedInv
    OBVIOUS
  <2>1. \A w \in Workers : job[w].then # "list"
    BY NoneIsNoWord DEF Init, Idle
  <2>2. \A c \in Connections : Connected(c) => conn[c].cursor = 0
    BY DEF Init, Connected
  <2>3. clock = 0
    BY DEF Init
  <2>4. CursorsPassed
    BY <2>2, <2>3 DEF CursorsPassed, PassedMailIsAccountedFor, Passed, Promised
  <2> QED BY <2>1, <2>4 DEF PassedInv, PollPassed
<1>2. TypeInv /\ PassedInv /\ [Next]_vars => PassedInv'
  BY PassedHolds
<1> QED BY <1>1, <1>2, AlwaysTyped, PTL DEF Spec

\* A cursor passes no mail of its inbox that was not processed to the end, except what the
\* code gives up knowingly.
THEOREM PassedMailIsSafe == Spec => []PassedMailIsAccountedFor
<1>1. PassedInv => PassedMailIsAccountedFor
  BY DEF PassedInv, CursorsPassed
<1> QED BY <1>1, AlwaysPassed, PTL

-----------------------------------------------------------------------------
(* What waits beyond the cursor *)

Silent(c) == c \notin pushes \cup unheard
Polled(c) == \E w \in Workers : job[w].then = "list" /\ job[w].c = c

\* A poll that has listed has what is not accounted for in hand, unless somebody is to
\* hear of more.
PollWaits(j) ==
    j.at \in Listed /\ Silent(j.c) =>
        \A m \in Promised(j.c) : Accounted(j.c, m) \/ (j.box = j.c /\ m \in InHands(j))

RowWaits(c) == Silent(c) /\ ~Polled(c) => \A m \in Promised(c) : Accounted(c, m)

WaitInv ==
    /\ \A v, w \in Workers :
          job[v].then = "list" /\ job[w].then = "list" /\ job[v].c = job[w].c => v = w
    /\ \A w \in Workers : PollWaits(job[w])
    /\ \A c \in Connections : RowWaits(c)

\* Nothing is promised without a word, and nobody hushes what waits.
Quieter(c) == Silent(c)' => Silent(c) /\ Promised(c)' \subseteq Promised(c)

LEMMA ListedPolls ==
    ASSUME TypeInv, NEW w \in Workers
    PROVE  /\ job[w].at \in Listed => job[w].then = "list"
           /\ job[w].then = "list" => job[w].c \in Connections
           /\ IsPoll(job[w]) <=> job[w].then = "list"
<1>1. HandlerOK(job[w])
  BY HandlerTyped
<1>2. Listed \subseteq PollStatements
  BY DEF Listed, PollStatements
<1> QED BY <1>1, <1>2, PollFacts DEF HandlerOK, IsPoll

\* A poll that keeps what it owes, while its mailbox stays as quiet.
LEMMA WaitsCarried ==
    ASSUME NEW v \in Workers, PollWaits(job[v]), settled \subseteq settled', dropped \subseteq dropped',
           job'[v].at \in Listed =>
              /\ job[v].at \in Listed /\ job'[v].c = job[v].c /\ job'[v].box = job[v].box
              /\ \A m \in InHands(job[v]) :
                    \/ m \in InHands(job'[v])
                    \/ job[v].box = job[v].c => <<job[v].c, m>> \in settled' \cup dropped',
           NEW c \in Connections, c = job[v].c, Quieter(c)
    PROVE  PollWaits(job[v])'
<1>1. \A m \in Mails : Accounted(c, m) => Accounted(c, m)'
  BY DEF Accounted
<1>2. ASSUME job'[v].at \in Listed, Silent(c)', NEW m \in Promised(c)'
      PROVE  Accounted(c, m)' \/ (job'[v].box = c /\ m \in InHands(job'[v]))
  <2>1. Silent(c) /\ m \in Promised(c) /\ m \in Mails
    BY <1>2 DEF Quieter, Promised, Inbox, Holds
  <2>2. Accounted(c, m) \/ (job[v].box = c /\ m \in InHands(job[v]))
    BY <1>2, <2>1 DEF PollWaits
  <2> QED BY <1>1, <1>2, <2>1, <2>2 DEF Accounted
<1>3. job'[v].at \in Listed => job'[v].c = c
  OBVIOUS
<1> QED BY <1>2, <1>3 DEF PollWaits

\* A step of worker w that begins no poll.
LEMMA OneWaits ==
    ASSUME TypeInv, TypeInv', WaitInv, NEW w \in Workers, Moves(w),
           settled \subseteq settled', dropped \subseteq dropped',
           job'[w].then = "list" => job[w].then = "list" /\ job'[w].c = job[w].c,
           \A d \in Connections :
              /\ \/ Quieter(d)
                 \/ d = job[w].c /\ job[w].then = "list" /\ job'[w].then = "list"
              /\ d = job[w].c /\ job[w].then = "list" /\ job'[w].then # "list" /\ Silent(d)' =>
                    \A m \in Promised(d)' : Accounted(d, m)',
           PollWaits(job[w])'
    PROVE  WaitInv'
<1>1. \A v \in Workers \ {w} : job'[v] = job[v]
  BY DEF Moves
<1>2. ASSUME NEW u \in Workers, NEW v \in Workers, job'[u].then = "list", job'[v].then = "list",
             job'[u].c = job'[v].c
      PROVE  u = v
  <2>1. job[u].then = "list" /\ job[v].then = "list" /\ job[u].c = job[v].c
    BY <1>1, <1>2
  <2> QED BY <2>1 DEF WaitInv
<1>3. ASSUME NEW v \in Workers, v # w PROVE PollWaits(job[v])'
  <2>1. job'[v] = job[v]
    BY <1>1, <1>3
  <2>2. CASE job[v].at \in Listed
    <3>1. job[v].then = "list" /\ job[v].c \in Connections
      BY <2>2, ListedPolls
    <3>2. ~(job[v].c = job[w].c /\ job[w].then = "list")
      BY <1>3, <3>1 DEF WaitInv
    <3>3. PICK d \in Connections : d = job[v].c
      BY <3>1
    <3>4. Quieter(d) /\ PollWaits(job[v])
      BY <3>2, <3>3 DEF WaitInv
    <3> QED BY <2>1, <3>3, <3>4, WaitsCarried
  <2>3. CASE job[v].at \notin Listed
    BY <2>1, <2>3 DEF PollWaits
  <2> QED BY <2>2, <2>3
<1>4. ASSUME NEW d \in Connections, Silent(d)', ~Polled(d)', NEW m \in Promised(d)'
      PROVE  Accounted(d, m)'
  <2>1. CASE Polled(d)
    <3>1. PICK v \in Workers : job[v].then = "list" /\ job[v].c = d
      BY <2>1 DEF Polled
    <3>2. ~(job'[v].then = "list" /\ job'[v].c = d)
      BY <1>4 DEF Polled
    <3>3. v = w
      BY <1>1, <3>1, <3>2
    <3> QED BY <1>4, <3>1, <3>2, <3>3
  <2>2. CASE ~Polled(d)
    <3>1. Quieter(d) /\ RowWaits(d)
      BY <2>2 DEF Polled, WaitInv
    <3> QED BY <1>4, <2>2, <3>1 DEF Quieter, RowWaits, Accounted
  <2> QED BY <2>1, <2>2
<1>5. \A d \in Connections : RowWaits(d)'
  BY <1>4 DEF RowWaits
<1> QED BY <1>2, <1>3, <1>5 DEF WaitInv

\* A step that moves no worker.
LEMMA NobodyWaits ==
    ASSUME TypeInv, WaitInv, UNCHANGED job, settled \subseteq settled', dropped \subseteq dropped',
           \A d \in Connections : Quieter(d)
    PROVE  WaitInv'
<1>1. ASSUME NEW v \in Workers PROVE PollWaits(job[v])'
  <2>1. CASE job[v].at \in Listed
    <3>1. job[v].c \in Connections /\ PollWaits(job[v])
      BY <2>1, ListedPolls DEF WaitInv
    <3>2. PICK d \in Connections : d = job[v].c
      BY <3>1
    <3> QED BY <2>1, <3>1, <3>2, WaitsCarried
  <2>2. CASE job[v].at \notin Listed
    BY <2>2 DEF PollWaits
  <2> QED BY <2>1, <2>2
<1>2. ASSUME NEW d \in Connections PROVE RowWaits(d)'
  BY DEF RowWaits, Polled, Quieter, WaitInv, Accounted
<1> QED BY <1>1, <1>2 DEF WaitInv

\* A complete list has all that waits; an incomplete one is followed by a word.
LEMMA ListingWaits ==
    ASSUME TypeInv, PassedInv, UNCHANGED <<clock, conn, mail, box, settled, dropped>>,
           NEW w \in Workers,
           \/ job[w].at = "list" /\ (ListsHistory(w) \/ ListsChanges(w) \/ FallsBack(w))
           \/ ListsRecent(w)
           \/ \E d : ListsUnread(w, d)
    PROVE  PollWaits(job[w])'
<1> DEFINE j == job[w]
           k == job'[w]
<1>1. /\ j.then = "list" /\ k.c = j.c /\ j.c \in Connections
      /\ j.at = "list" => j.ids = {} /\ j.got = {} /\ j.box = j.c
  <2>1. j.then = "list" /\ k.c = j.c
    BY DEF ListsHistory, ListsChanges, FallsBack, ListsRecent, ListsUnread, Goes
  <2> QED BY <2>1, PollFacts DEF Before, Importing
<1>2. PICK c \in Connections : c = j.c
  BY <1>1
<1>3. /\ Promised(c) \subseteq Inbox(c) /\ Promised(c) \subseteq Mails /\ Inbox(c) \subseteq Mails
      /\ \A m \in Mails : Arrived(c, m) \in Nat
  BY PromisedHeld, MailBoundsAssumption DEF Times, Inbox, Holds
<1>4. Promised(c)' = Promised(c) /\ \A m \in Mails : Accounted(c, m) => Accounted(c, m)'
  BY DEF Promised, Inbox, Holds, Arrived, Connected, Accounted
<1>5. ASSUME Silent(c)' => \A m \in Promised(c) : Accounted(c, m) \/ (k.box = c /\ m \in InHands(k))
      PROVE  PollWaits(job[w])'
  BY <1>1, <1>2, <1>3, <1>4, <1>5 DEF PollWaits
<1>6. ASSUME NEW complete, Heard(c, complete), Silent(c)' PROVE complete
  BY <1>6 DEF Heard, Silent
<1>7. CASE j.at = "list" /\ ListsHistory(w)
  <2>1. /\ k.box = c /\ k.ids = Oldest(c, Since(c, j.cursor))
        /\ Heard(c, Cardinality(Since(c, j.cursor)) <= Page)
    BY <1>1, <1>2, <1>7 DEF ListsHistory
  <2>2. ASSUME Silent(c)', NEW m \in Promised(c) PROVE Accounted(c, m) \/ m \in InHands(k)
    <3>1. CASE Arrived(c, m) <= j.cursor
      BY <1>1, <1>2, <3>1 DEF PassedInv, PollPassed
    <3>2. CASE Arrived(c, m) > j.cursor
      <4>1. Since(c, j.cursor) \subseteq Mails /\ m \in Since(c, j.cursor)
        BY <1>3, <3>2 DEF Since
      <4>2. Cardinality(Since(c, j.cursor)) <= Page
        BY <2>1, <2>2 DEF Heard, Silent
      <4>3. m \in Oldest(c, Since(c, j.cursor))
        BY <4>1, <4>2, OldestClosed
      <4> QED BY <2>1, <4>3 DEF InHands
    <3>3. j.cursor \in Nat
      BY <1>1, PollFacts
    <3> QED BY <1>3, <3>1, <3>2, <3>3
  <2> QED BY <1>5, <2>1, <2>2
<1>8. CASE j.at = "list" /\ ListsChanges(w)
  <2>1. k.box = c /\ k.got = Changed(c) /\ Connected(c)
    BY <1>1, <1>2, <1>8 DEF ListsChanges
  <2>2. \A m \in Promised(c) : Accounted(c, m) \/ m \in InHands(k)
    BY <2>1, ChangesListed DEF InHands, PassedInv
  <2> QED BY <1>5, <2>1, <2>2
<1>9. CASE FallsBack(w)
  BY <1>9 DEF FallsBack, Goes, PollWaits, Listed, Importing
<1>10. CASE ListsRecent(w)
  BY <1>2, <1>5, <1>6, <1>10 DEF ListsRecent
<1>11. ASSUME NEW d, ListsUnread(w, d) PROVE PollWaits(job[w])'
  <2>1. k.box = d /\ k.ids = Newest(d, Unread(d))
        /\ Heard(c, d = c /\ Inbox(d) \subseteq Newest(d, Unread(d)))
    BY <1>2, <1>11 DEF ListsUnread
  <2>2. ASSUME Silent(c)', NEW m \in Promised(c) PROVE k.box = c /\ m \in InHands(k)
    BY <1>3, <1>6, <2>1, <2>2 DEF InHands
  <2> QED BY <1>5, <2>2
<1> QED BY <1>7, <1>8, <1>9, <1>10, <1>11

\* The statements after the list.
LEMMA WorkWaits ==
    ASSUME TypeInv, WaitInv, NEW w \in Workers, UNCHANGED <<clock, conn, mail, box, pushes,
                                                            unheard>>,
           settled \subseteq settled', dropped \subseteq dropped',
           \/ \E s \in {"each", "cursor"} : job[w].at \in {"get", "each"} /\ Passes(w, s)
           \/ \E m \in Mails : job[w].at = "get" /\ (Gets(w, m) \/ LeavesOut(w, m))
           \/ \E m \in Mails : job[w].at = "each" /\ Takes(w, m)
           \/ job[w].at \in Importing /\ (Handling(w) \/ HandsBack(w))
    PROVE  PollWaits(job[w])' /\ job[w].then = "list" /\ job'[w].then = "list"
           /\ job'[w].c = job[w].c
<1> DEFINE j == job[w]
           k == job'[w]
<1>1. j.then = "list" /\ k.then = "list" /\ k.c = j.c
  BY DEF Passes, Gets, LeavesOut, Takes, Handling, HandsBack, Goes
<1>2. j.at \in Listed /\ j.c \in Connections /\ PollWaits(j)
  BY <1>1, PollFacts DEF Listed, WaitInv
<1>3. PICK c \in Connections : c = j.c
  BY <1>2
<1>4. Quieter(c)
  BY DEF Quieter, Silent, Promised, Inbox, Holds, Arrived, Connected
<1>5. ASSUME k.box = j.box,
             \A m \in InHands(j) : \/ m \in InHands(k)
                                   \/ j.box = j.c => <<j.c, m>> \in settled' \cup dropped'
      PROVE  PollWaits(job[w])'
  BY <1>1, <1>2, <1>3, <1>4, <1>5, WaitsCarried
<1>6. ASSUME NEW s \in {"each", "cursor"}, j.at \in {"get", "each"}, Passes(w, s)
      PROVE  PollWaits(job[w])'
  <2>1. InHands(k) = InHands(j)
    BY <1>6 DEF Passes, Goes, Carries, InHands, Importing
  <2> QED BY <1>5, <1>6, <2>1 DEF Passes, Carries
<1>7. ASSUME NEW m \in Mails, j.at = "get", Gets(w, m) PROVE PollWaits(job[w])'
  <2>1. InHands(k) = InHands(j)
    BY <1>7 DEF Gets, Goes, InHands, Importing
  <2> QED BY <1>5, <1>7, <2>1 DEF Gets
<1>8. ASSUME NEW m \in Mails, j.at = "get", LeavesOut(w, m) PROVE PollWaits(job[w])'
  <2>1. \A n \in InHands(j) : n \in InHands(k) \/ n = m
    BY <1>8 DEF LeavesOut, Goes, InHands, Importing
  <2>2. j.box = j.c => <<j.c, m>> \in dropped'
    BY <1>8 DEF LeavesOut
  <2> QED BY <1>5, <1>8, <2>1, <2>2 DEF LeavesOut
<1>9. ASSUME NEW m \in Mails, j.at = "each", Takes(w, m) PROVE PollWaits(job[w])'
  <2>1. \A n \in InHands(j) : n \in InHands(k)
    BY <1>9 DEF Takes, Goes, InHands, Importing
  <2> QED BY <1>5, <1>9, <2>1 DEF Takes
<1>10. ASSUME j.at \in Importing, Handling(w) PROVE PollWaits(job[w])'
  <2>1. InHands(k) = InHands(j)
    BY <1>10 DEF Handling, SamePoll, InHands
  <2>2. k.box = j.box
    BY <1>10 DEF Handling, SamePoll
  <2> QED BY <1>5, <2>1, <2>2
<1>11. ASSUME j.at \in Importing, HandsBack(w) PROVE PollWaits(job[w])'
  <2>1. \A n \in InHands(j) : n \in InHands(k) \/ n = j.m
    BY <1>11 DEF HandsBack, SamePoll, InHands
  <2>2. k.box = j.box /\ (j.box = j.c => <<j.c, j.m>> \in settled' \cup dropped')
    BY <1>11 DEF HandsBack, SamePoll
  <2> QED BY <1>5, <2>1, <2>2
<1>12. PollWaits(job[w])'
  BY <1>6, <1>7, <1>8, <1>9, <1>10, <1>11
<1> QED BY <1>1, <1>12

\* A poll that closes has gone through all of it.
LEMMA ClosesWaits ==
    ASSUME TypeInv, WaitInv, NEW w \in Workers, job[w].at = "cursor", job[w].then = "list",
           Closes(w), UNCHANGED <<clock, mail, box, pushes, unheard>>,
           settled \subseteq settled',
           NEW c \in Connections, c = job[w].c, Silent(c)'
    PROVE  \A m \in Promised(c)' : Accounted(c, m)'
<1>1. InHands(job[w]) = {}
  BY PollFacts DEF InHands, Importing
<1>2. \A m \in Promised(c) : Accounted(c, m)
  BY <1>1 DEF WaitInv, PollWaits, Listed, Silent
<1>3. Promised(c)' = Promised(c) /\ dropped \subseteq dropped'
  <2>1. Connected(c) /\ Connected(c)' /\ conn'[c].created = conn[c].created
    BY DEF Closes, Connected
  <2>2. dropped \subseteq dropped'
    BY DEF Closes
  <2>3. Inbox(c)' = Inbox(c) /\ \A m \in Mails : Arrived(c, m)' = Arrived(c, m)
    BY DEF Inbox, Holds, Arrived
  <2> QED BY <2>1, <2>2, <2>3 DEF Promised, Inbox, Holds
<1> QED BY <1>2, <1>3 DEF Accounted

LEMMA PollsWaits ==
    ASSUME TypeInv, WaitInv, NEW w \in Workers, NEW c \in Connections, Polls(w, c)
    PROVE  WaitInv'
<1>1. /\ \A v \in Workers \ {w} : job'[v] = job[v]
      /\ job'[w].then = "list" /\ job'[w].c = c /\ job'[w].at \notin Listed
      /\ UNCHANGED <<conn, clock, mail, box, settled, dropped, unheard>>
      /\ \A d \in Connections \ {c} : Silent(d)' => Silent(d)
  BY DEF Polls, Moves, Listed, Importing, Silent
<1>2. \A v \in Workers : job[v].then = "list" => job[v].c # c
  BY DEF Polls, Polling, IsPoll
<1>3. \A d \in Connections \ {c} : Quieter(d)
  BY <1>1 DEF Quieter, Promised, Inbox, Holds, Arrived, Connected
<1>4. \A u, v \in Workers :
          job'[u].then = "list" /\ job'[v].then = "list" /\ job'[u].c = job'[v].c => u = v
  BY <1>1, <1>2 DEF WaitInv
<1>5. ASSUME NEW v \in Workers PROVE PollWaits(job[v])'
  <2>1. CASE v = w
    BY <1>1, <2>1 DEF PollWaits
  <2>2. CASE v # w /\ job[v].at \in Listed
    <3>1. job'[v] = job[v] /\ job[v].c \in Connections \ {c}
      BY <1>1, <1>2, <2>2, ListedPolls
    <3>2. PICK d \in Connections : d = job[v].c
      BY <3>1
    <3>3. Quieter(d) /\ PollWaits(job[v])
      BY <1>3, <3>1, <3>2 DEF WaitInv
    <3> QED BY <1>1, <2>2, <3>1, <3>2, <3>3, WaitsCarried
  <2>3. CASE v # w /\ job[v].at \notin Listed
    BY <1>1, <2>3 DEF PollWaits
  <2> QED BY <2>1, <2>2, <2>3
<1>6. ASSUME NEW d \in Connections PROVE RowWaits(d)'
  <2>1. CASE d = c
    BY <1>1, <2>1 DEF RowWaits, Polled
  <2>2. CASE d # c
    <3>1. Polled(d) => Polled(d)'
      <4>1. ASSUME NEW v \in Workers, job[v].then = "list", job[v].c = d
            PROVE  job'[v].then = "list" /\ job'[v].c = d
        <5>1. v # w
          BY <4>1, NoneIsNoWord DEF Polls, Idle
        <5> QED BY <1>1, <4>1, <5>1
      <4> QED BY <4>1 DEF Polled
    <3>2. Quieter(d) /\ RowWaits(d)
      BY <1>3, <2>2 DEF WaitInv
    <3> QED BY <1>1, <3>1, <3>2 DEF RowWaits, Quieter, Accounted
  <2> QED BY <2>1, <2>2
<1> QED BY <1>4, <1>5, <1>6 DEF WaitInv

LEMMA CrashWaits ==
    ASSUME TypeInv, WaitInv, Crash
    PROVE  WaitInv'
<1>1. /\ \A v \in Workers : job'[v] = Idle
      /\ UNCHANGED <<conn, clock, mail, box, pushes, settled, dropped>>
      /\ unheard' = unheard \cup {job[w].c : w \in {v \in Workers : IsPoll(job[v])}}
  BY DEF Crash, rows, providers
<1>2. \A v \in Workers : job'[v].then # "list" /\ job'[v].at \notin Listed
  BY <1>1, NoneIsNoWord DEF Idle, Listed, Importing
<1>3. ASSUME NEW d \in Connections PROVE RowWaits(d)'
  <2>1. Polled(d) => d \in unheard'
    BY <1>1 DEF Polled, IsPoll
  <2>2. Quieter(d) /\ RowWaits(d)
    BY <1>1 DEF Quieter, Silent, Promised, Inbox, Holds, Arrived, Connected, WaitInv
  <2> QED BY <1>1, <2>1, <2>2 DEF RowWaits, Quieter, Silent, Accounted
<1> QED BY <1>2, <1>3 DEF WaitInv, PollWaits

\* No step leaves mail behind unannounced.
LEMMA WaitHolds ==
    ASSUME TypeInv, PassedInv, WaitInv, [Next]_vars
    PROVE  WaitInv'
<1>1. TypeInv' /\ Steps
  BY NextSteps
<1>2. ASSUME NEW d \in Connections, UNCHANGED <<clock, mail, box>>, RowsKeep
      PROVE  Promised(d)' \subseteq Promised(d)
  <2>1. Inbox(d)' = Inbox(d) /\ \A m \in Mails : Arrived(d, m)' = Arrived(d, m)
    BY <1>2 DEF Inbox, Holds, Arrived
  <2>2. /\ Inbox(d) \subseteq Mails /\ clock \in Nat
        /\ \A m \in Mails : Arrived(d, m) \in Nat /\ Arrived(d, m) <= clock
    BY PromisedHeld, MailBoundsAssumption DEF Inbox, Holds, Times
  <2> QED BY <1>2, <2>1, <2>2 DEF Promised, RowsKeep, Now
<1>3. ASSUME NEW w \in Workers, Aside(w) PROVE WaitInv'
  <2>1. /\ Moves(w) /\ RowsKeep /\ Onward(w)
        /\ UNCHANGED <<clock, mail, box, pushes, settled, dropped>> /\ unheard \subseteq unheard'
    BY <1>3 DEF Aside
  <2>2. \A d \in Connections : Quieter(d)
    BY <1>2, <2>1 DEF Quieter, Silent
  <2>3. job'[w].then = "list" =>
           job[w].then = "list" /\ job'[w].c = job[w].c /\ job'[w].at \in Before
    BY <2>1 DEF Onward, SamePoll
  <2>4. PollWaits(job[w])'
    <3>1. job'[w].at \in Listed => job'[w].then = "list"
      BY <1>1 DEF TypeInv, HandlersOK, HandlerOK, Listed, PollStatements
    <3>2. \A s \in Before : s \notin Listed
      BY DEF Before, Refreshing, Deactivating, Listed, Importing
    <3> QED BY <2>3, <3>1, <3>2 DEF PollWaits
  <2>5. job[w].then = "list" /\ job'[w].then # "list" => job[w].c \in unheard'
    BY <2>1 DEF Onward
  <2>6. \A d \in Connections :
           ~(d = job[w].c /\ job[w].then = "list" /\ job'[w].then # "list" /\ Silent(d)')
    BY <2>5 DEF Silent
  <2> QED BY <1>1, <2>1, <2>2, <2>3, <2>4, <2>6, OneWaits
<1>4. ASSUME NEW w \in Workers, Quits(w), UNCHANGED <<clock, conn, mail, box, pushes, settled>>,
             dropped \subseteq dropped'
      PROVE  WaitInv'
  <2>1. /\ Moves(w) /\ job[w].then = "list" /\ job'[w].then # "list" /\ job[w].c \in Connections
        /\ unheard' = unheard \cup {job[w].c}
        /\ job'[w].at \notin Listed
    BY <1>4, PollFacts DEF Quits, Listed, Importing
  <2>2. \A d \in Connections : Quieter(d)
    BY <1>4, <2>1 DEF Quieter, Silent, Promised, Inbox, Holds, Arrived, Connected
  <2>3. PollWaits(job[w])'
    BY <2>1 DEF PollWaits
  <2>4. \A d \in Connections : ~(d = job[w].c /\ Silent(d)')
    BY <2>1 DEF Silent
  <2> QED BY <1>1, <1>4, <2>1, <2>2, <2>3, <2>4, OneWaits
<1>5. ASSUME NEW w \in Workers, Lists(w) PROVE WaitInv'
  <2>1. UNCHANGED <<conn, clock, mail, box, pushes, settled, dropped>>
    BY <1>5 DEF Lists, ListGmail, Fallback, ListOutlook, Rebaseline, rows, providers
  <2>2. \/ Quits(w)
        \/ job[w].at = "list" /\ (ListsHistory(w) \/ FallsBack(w) \/ ListsChanges(w))
        \/ ListsRecent(w)
        \/ \E d : ListsUnread(w, d)
    BY <1>5, ListGmailStep, FallbackStep, ListOutlookStep, RebaselineStep DEF Lists
  <2>3. CASE Quits(w)
    BY <1>4, <2>1, <2>3
  <2>4. CASE ~Quits(w)
    <3>1. PollWaits(job[w])'
      BY <2>1, <2>2, <2>4, ListingWaits
    <3>2. /\ Moves(w) /\ job[w].then = "list" /\ job'[w].then = "list" /\ job'[w].c = job[w].c
          /\ \E complete : Heard(job[w].c, complete) \/ UNCHANGED unheard
      BY <2>2, <2>4 DEF ListsHistory, FallsBack, ListsChanges, ListsRecent, ListsUnread, Goes
    <3>3. \A d \in Connections : d # job[w].c => (Silent(d)' => Silent(d))
      BY <2>1, <3>2 DEF Heard, Silent
    <3>4. \A d \in Connections : d # job[w].c => Quieter(d)
      BY <2>1, <3>3 DEF Quieter, Promised, Inbox, Holds, Arrived, Connected
    <3> QED BY <1>1, <2>1, <3>1, <3>2, <3>4, OneWaits
  <2> QED BY <2>3, <2>4
<1>6. ASSUME NEW w \in Workers, UNCHANGED <<clock, conn, mail, box, pushes, unheard>>,
             settled \subseteq settled', dropped \subseteq dropped', Moves(w), PollWaits(job[w])',
             job[w].then = "list", job'[w].then = "list", job'[w].c = job[w].c
      PROVE  WaitInv'
  <2>1. \A d \in Connections : Quieter(d)
    BY <1>6 DEF Quieter, Silent, Promised, Inbox, Holds, Arrived, Connected
  <2> QED BY <1>1, <1>6, <2>1, OneWaits
<1>7. ASSUME NEW w \in Workers, Picks(w) PROVE WaitInv'
  <2>1. UNCHANGED <<conn, clock, mail, box, pushes, unheard, settled>>
    BY <1>7 DEF Picks, GetMessage, TakeGmailMessage, TakeOutlookMessage, Take, NoMoreMessages,
                rows, providers, history
  <2>2. dropped \subseteq dropped'
    BY <1>7 DEF Picks, GetMessage, TakeGmailMessage, TakeOutlookMessage, Take, NoMoreMessages,
                history
  <2>3. \/ \E s \in {"each", "cursor"} : job[w].at \in {"get", "each"} /\ Passes(w, s)
        \/ \E m \in Mails : job[w].at = "get" /\ (Gets(w, m) \/ LeavesOut(w, m))
        \/ \E m \in Mails : job[w].at = "each" /\ Takes(w, m)
    BY <1>7, GetMessageStep, TakeStep, NoMoreMessagesStep DEF Picks
  <2>4. Moves(w)
    BY <2>3 DEF Passes, Gets, LeavesOut, Takes, Goes
  <2>5. /\ PollWaits(job[w])' /\ job[w].then = "list" /\ job'[w].then = "list"
        /\ job'[w].c = job[w].c
    BY <2>1, <2>2, <2>3, WorkWaits
  <2> QED BY <1>6, <2>1, <2>2, <2>4, <2>5
<1>8. ASSUME NEW w \in Workers, ImportStatements(w) PROVE WaitInv'
  <2>1. Imports(w)
    BY <1>8, ImportSteps
  <2>2. /\ Moves(w) /\ UNCHANGED <<conn, clock, mail, box, pushes, unheard>>
        /\ settled \subseteq settled' /\ dropped \subseteq dropped'
        /\ job[w].at \in Importing /\ (Handling(w) \/ HandsBack(w))
    BY <2>1 DEF Imports, Handling, HandsBack, Goes, providers
  <2>3. /\ PollWaits(job[w])' /\ job[w].then = "list" /\ job'[w].then = "list"
        /\ job'[w].c = job[w].c
    BY <2>2, WorkWaits
  <2> QED BY <1>6, <2>2, <2>3
<1>9. ASSUME NEW w \in Workers, Moving(w) PROVE WaitInv'
  <2>1. /\ job[w].at = "cursor" /\ job[w].then = "list"
        /\ UNCHANGED <<clock, mail, box, pushes, settled>>
        /\ Closes(w) \/ (Quits(w) /\ UNCHANGED <<conn, dropped>>)
    BY <1>9, MoveCursorStep DEF Moving, providers
  <2>2. CASE Closes(w)
    <3>1. /\ Moves(w) /\ job'[w] = Idle /\ dropped \subseteq dropped' /\ UNCHANGED unheard
          /\ job[w].c \in Connections
      BY <2>1, <2>2, PollFacts DEF Closes
    <3>2. ASSUME NEW d \in Connections PROVE Connected(d)' = Connected(d)
                 /\ (Connected(d) => conn'[d].created = conn[d].created)
      BY <2>2, <3>1 DEF Closes, Connected
    <3>3. ASSUME NEW d \in Connections PROVE Quieter(d)
      <4>1. Promised(d)' = Promised(d)
        BY <2>1, <3>2 DEF Promised, Inbox, Holds, Arrived
      <4> QED BY <2>1, <3>1, <4>1 DEF Quieter, Silent
    <3>4. PollWaits(job[w])' /\ job'[w].then # "list"
      BY <3>1, IdleHandler DEF PollWaits, Listed, Importing
    <3>5. \A d \in Connections : d = job[w].c /\ Silent(d)' => \A m \in Promised(d)' : Accounted(d, m)'
      BY <2>1, <2>2, <3>1, ClosesWaits
    <3> QED BY <1>1, <2>1, <3>1, <3>3, <3>4, <3>5, OneWaits
  <2>3. CASE Quits(w) /\ UNCHANGED <<conn, dropped>>
    BY <1>4, <2>1, <2>3
  <2> QED BY <2>1, <2>2, <2>3
<1>10. ASSUME NEW c \in Connections, Missed(c) PROVE WaitInv'
  <2>1. \A d \in Connections : Quieter(d)
    BY <1>10 DEF Missed, rows, Quieter, Silent, Promised, Inbox, Holds, Arrived, Connected
  <2> QED BY <1>10, <2>1, NobodyWaits DEF Missed
<1>11. CASE Ages \/ UNCHANGED vars \/ (Tidies /\ UNCHANGED <<conn, born, job, client, providers,
                                                             history>>)
  <2>1. /\ UNCHANGED <<job, clock, mail, box, pushes, unheard, settled, dropped>>
        /\ RowsKeep \/ UNCHANGED conn
    BY <1>11 DEF Ages, vars, rows, providers, history
  <2>2. \A d \in Connections : Quieter(d)
    BY <1>2, <2>1, RowsStayRows DEF Quieter, Silent
  <2> QED BY <2>1, <2>2, NobodyWaits
<1>12. ASSUME NEW c \in Connections, NEW m \in Mails, Deliver(c, m) \/ ReadMessage(c, m)
       PROVE  WaitInv'
  <2>1. Receives(c, m) /\ UNCHANGED <<conn, job, settled, dropped>>
    BY <1>12, DeliverStep, ReadMessageStep DEF Receives, rows
  <2>2. /\ m \in Holds(c) => box'[c][m].at = box[c][m].at
        /\ \A n \in Mails : mail[n] # NotSent => mail'[n] = mail[n]
    BY <1>12, DeliverStep, ReadMessageStep
  <2>3. Keeps
    BY <1>1, <2>1, <2>2, ReceivesKeeps
  <2>4. /\ pushes \subseteq pushes' /\ unheard \ {c} \subseteq unheard'
        /\ m \notin Holds(c) => ~Silent(c)'
        /\ m \in Holds(c) => UNCHANGED unheard
    BY <1>12, DeliverStep, ReadMessageStep DEF Receives, Heard, Silent
  <2>5. ASSUME NEW d \in Connections, Silent(d)' PROVE Silent(d) /\ Promised(d)' \subseteq Promised(d)
    <3>1. d # c \/ m \in Holds(c)
      BY <2>4, <2>5
    <3>2. Silent(d)
      BY <2>4, <2>5, <3>1 DEF Silent
    <3>3. ASSUME NEW n \in Mails PROVE Arrived(d, n)' = Arrived(d, n) /\ Arrived(d, n) <= clock
                                       /\ Arrived(d, n) \in Nat /\ clock \in Nat
      <4>1. Arrived(d, n)' = Arrived(d, n)
        BY <2>1, <2>2, <3>1 DEF Receives, Arrived
      <4> QED BY <4>1, PromisedHeld, MailBoundsAssumption DEF Times
    <3>4. Promised(d)' \subseteq Mails
      BY DEF Promised, Inbox, Holds
    <3> QED BY <2>3, <3>2, <3>3, <3>4 DEF Keeps
  <2>6. \A d \in Connections : Quieter(d)
    BY <2>5 DEF Quieter
  <2> QED BY <2>1, <2>6, NobodyWaits
<1> QED
  BY <1>1, <1>3, <1>5, <1>7, <1>8, <1>9, <1>10, <1>11, <1>12, PollsWaits, CrashWaits DEF Steps

\* Mail that waits beyond the cursor has a notification or a poll on its way to it, unless
\* somebody is to hear of it by the next.
THEOREM WaitingMailIsHeardOf == Spec => []WaitingMailIsAnnounced
<1>1. Init => WaitInv
  <2> SUFFICES ASSUME Init PROVE WaitInv
    OBVIOUS
  <2>1. \A w \in Workers : job[w].then # "list" /\ job[w].at \notin Listed
    BY NoneIsNoWord DEF Init, Idle, Listed, Importing
  <2>2. \A c \in Connections : Promised(c) = {}
    BY DEF Init, Promised, Inbox, Holds, Arrived, NoMailYet
  <2> QED BY <2>1, <2>2 DEF WaitInv, PollWaits, RowWaits
<1>2. TypeInv /\ PassedInv /\ WaitInv /\ [Next]_vars => WaitInv'
  BY WaitHolds
<1>3. WaitInv => WaitingMailIsAnnounced
  <2> SUFFICES ASSUME WaitInv, NEW c \in Connections, NEW m \in Promised(c), ~Accounted(c, m)
               PROVE  c \in pushes \cup unheard \/ Polling(c)
    BY DEF WaitingMailIsAnnounced, Accounted
  <2>1. ~Silent(c) \/ Polled(c)
    BY DEF WaitInv, RowWaits
  <2> QED BY <2>1 DEF Silent, Polled, Polling, IsPoll
<1> QED BY <1>1, <1>2, <1>3, AlwaysTyped, AlwaysPassed, PTL DEF Spec

=============================================================================
