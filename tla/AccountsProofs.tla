--------------------------- MODULE AccountsProofs ---------------------------
(***************************************************************************)
(* What holds of sessions, reset links, invitations and the team for any   *)
(* number of handlers in flight, people and companies.                     *)
(***************************************************************************)
EXTENDS AccountService, FiniteSetTheorems, TLAPS

-----------------------------------------------------------------------------
(* Types, and what a handler in flight can count on *)

\* The statements that are about a team member's or an invited person's account.
AboutUsers == {"findLogin", "findRegister", "findOAuth", "createOwn", "invalidate",
               "createLink", "applyReset", "checkPending", "createInvite", "allow",
               "dropUser"} \cup Deciding \cup Holding

\* No account moves to another company or loses its last password, and the rows a
\* handler has read are still there.
AccountsOK ==
    /\ \A u \in Users : Exists(u) => account[u].company \in {Home, u}
    /\ \A a \in PlatformAdmins : /\ account[a].company = None /\ ~account[a].admin
                                 /\ account[a].pw > 0

\* The statements before a session gets its first token.
Starting == {"findLogin", "findRegister", "findOAuth", "createOwn", "join"}

HandlerOK(j) ==
    /\ j.at \in Checked => j.who \in People /\ Exists(j.who) /\ j.root <= issued
    /\ j.at \in AboutUsers => j.who \in Users
    /\ j.at \in Deciding => Member(j.who)
    /\ j.at \in Starting => j.root = 0
    /\ j.at = "applyReset" => Exists(j.who)
    /\ j.at \in Holding => j.inv \in Invitations /\ invitation[j.inv] # NoInvitation

HandlersOK == \A w \in Workers : HandlerOK(job[w])

TokensOK ==
    \A t \in tokens : /\ Exists(t.user)
                      /\ t.id > 0 /\ t.id <= issued
                      /\ t.root > 0 /\ t.root <= issued

\* Links are numbered.
LinksOK ==
    /\ IsFiniteSet(links)
    /\ \A l \in links : l.id <= Cardinality(links)
    /\ \A l1, l2 \in links : l1.id = l2.id => l1 = l2

TypeInv ==
    /\ AccountsTypeOK /\ AccountsOK /\ HandlersOK /\ TokensOK /\ LinksOK
    /\ suspended \subseteq Founded

USE DEF Starting, Deciding, Holding, Refreshing, Checked

LEMMA IdleIsAJob == Idle \in Job /\ HandlerOK(Idle) /\ Idle.at = "idle"
BY DEF Idle, Job, Statements, NoChange, Changes, Causes, HandlerOK, AboutUsers

LEMMA NobodyIsTyped ==
    /\ NoAccount \in Account /\ NoInvitation \notin Invitation
    /\ \A row \in Invitation : row.status # "none"
    /\ \A a \in Account : a.active \/ a.admin \/ a.pw > 0 \/ a.company # None => a # NoAccount
    /\ Home # None /\ Home \notin Users
    /\ \A p \in People : p # None
    /\ \A i \in Invitations : i # None
<1>1. \A row \in Invitation : row.status \in InvitationStatus
  BY DEF Invitation
<1>2. NoInvitation.status = "none" /\ "none" \notin InvitationStatus
  BY DEF NoInvitation, InvitationStatus
<1>3. NoAccount \in Account
  BY DEF NoAccount, Account
<1>4. \A a \in Account : a.active \/ a.admin \/ a.pw > 0 \/ a.company # None => a # NoAccount
  BY DEF NoAccount
<1>5. /\ Home # None /\ Home \notin Users
      /\ \A p \in People : p # None
      /\ \A i \in Invitations : i # None
  BY PeopleAssumption DEF People
<1>6. QED BY <1>1, <1>2, <1>3, <1>4, <1>5

\* Two kinds of step: a handler begins, goes on or ends and writes nothing ...
LEMMA QuietStep ==
    ASSUME TypeInv, NEW w \in Workers, NEW J \in Job, HandlerOK(J),
           job' = [job EXCEPT ![w] = J], UNCHANGED tables,
           forked' \subseteq Nat, rushed' \subseteq Users, UNCHANGED <<joined, contested>>
    PROVE  TypeInv'
<1>1. AccountsTypeOK'
  BY DEF TypeInv, AccountsTypeOK, tables
<1>2. AccountsOK' /\ TokensOK' /\ LinksOK' /\ (suspended \subseteq Founded)'
  BY DEF TypeInv, AccountsOK, TokensOK, LinksOK, Founded, Exists, tables
<1>3. HandlerOK(J)'
  BY DEF HandlerOK, Exists, Member, tables
<1>4. ASSUME NEW v \in Workers PROVE HandlerOK(job[v])'
  <2>1. CASE v = w
    BY <1>3, <2>1 DEF TypeInv, AccountsTypeOK
  <2>2. CASE v # w
    BY <2>2 DEF TypeInv, AccountsTypeOK, HandlersOK, HandlerOK, Exists, Member, tables
  <2>3. QED BY <2>1, <2>2
<1>5. QED BY <1>1, <1>2, <1>4 DEF TypeInv, HandlersOK

LEMMA Ends ==
    ASSUME TypeInv, NEW w \in Workers, End(w), UNCHANGED <<tables, history>>
    PROVE  TypeInv'
BY IdleIsAJob, QuietStep DEF End, history, TypeInv, AccountsTypeOK

\* A worker moves on to the next statement of the same handler.
LEMMA MovesOn ==
    ASSUME TypeInv, NEW w \in Workers, NEW statement \in Statements, Goto(w, statement),
           HandlerOK([job[w] EXCEPT !.at = statement]), UNCHANGED <<tables, history>>
    PROVE  TypeInv'
<1>1. PICK J : J = [job[w] EXCEPT !.at = statement]
  OBVIOUS
<1>2. J \in Job
  BY <1>1 DEF TypeInv, AccountsTypeOK, Job
<1>3. job' = [job EXCEPT ![w] = J]
  BY <1>1 DEF Goto, TypeInv, AccountsTypeOK
<1>4. QED BY <1>1, <1>2, <1>3, QuietStep DEF history, TypeInv, AccountsTypeOK

LEMMA SignInKeepsTypes ==
    ASSUME TypeInv, NEW w \in Workers,
           SignInRequests(w) \/ SignUpRequests(w) \/ OAuthRequests(w) \/ PlatformRequests(w)
    PROVE  TypeInv'
<1>1. ASSUME NEW u \in Users, NEW statement \in {"findLogin", "findRegister", "findOAuth"},
             Begin(w, SigningIn(u, statement)), UNCHANGED <<tables, history>>
      PROVE  TypeInv'
  <2>1. PICK J : J = SigningIn(u, statement)
    OBVIOUS
  <2>2. J \in Job /\ HandlerOK(J)
    BY <2>1, IdleIsAJob DEF SigningIn, Idle, Job, Statements, HandlerOK, AboutUsers, People
  <2>3. QED BY <1>1, <2>1, <2>2, QuietStep DEF Begin, history, TypeInv, AccountsTypeOK
<1>2. ASSUME NEW a \in PlatformAdmins, PlatformLogin(w, a) PROVE TypeInv'
  <2>1. PICK J : J = [SigningIn(a, "issue") EXCEPT !.pw = account[a].pw]
    OBVIOUS
  <2>2. account[a] \in Account /\ Exists(a)
    BY <1>2, NobodyIsTyped DEF PlatformLogin, TypeInv, AccountsTypeOK, People, Exists, Account
  <2>3. J \in Job /\ J.at = "issue" /\ J.who = a /\ J.root = 0
    BY <2>1, <2>2, IdleIsAJob DEF SigningIn, Idle, Job, Statements, People, Account
  <2>4. HandlerOK(J)
    BY <2>2, <2>3 DEF HandlerOK, AboutUsers, People, TypeInv, AccountsTypeOK
  <2>5. QED
    BY <1>2, <2>1, <2>3, <2>4, QuietStep DEF PlatformLogin, Begin, history, TypeInv, AccountsTypeOK
<1>3. QED
  BY <1>1, <1>2 DEF SignInRequests, SignUpRequests, OAuthRequests, PlatformRequests, Login,
                    Register, SignInOAuth

LEMMA ReadTokenKeepsTypes ==
    ASSUME TypeInv, NEW w \in Workers, NEW t \in tokens, ReadToken(w, t)
    PROVE  TypeInv'
<1> DEFINE refresh == [Idle EXCEPT !.who = t.user, !.ref = t.id, !.root = t.root,
                                   !.pw = t.pw, !.why = t.why]
<1>1. t \in Token /\ Exists(t.user) /\ t.root <= issued
  BY DEF TypeInv, AccountsTypeOK, TokensOK
<1>2. ASSUME NEW statement \in {"dropExpired", "dropRefused", "recheck", "rotate"}
      PROVE  LET J == [refresh EXCEPT !.at = statement] IN J \in Job /\ HandlerOK(J)
  <2>1. PICK J : J = [refresh EXCEPT !.at = statement]
    OBVIOUS
  <2>2. J \in Job /\ J.at = statement /\ J.who = t.user /\ J.root = t.root
    BY <1>1, <2>1, IdleIsAJob DEF Idle, Job, Token, Statements
  <2>3. HandlerOK(J)
    BY <1>1, <2>2 DEF HandlerOK, AboutUsers, Token
  <2>4. QED BY <2>1, <2>2, <2>3
<1>3. PICK statement \in {"dropExpired", "dropRefused", "recheck", "rotate"} :
         job' = [job EXCEPT ![w] = [refresh EXCEPT !.at = statement]]
  BY DEF ReadToken, Begin
<1>4. forked' \subseteq Nat
  BY <1>1 DEF ReadToken, Token, TypeInv, AccountsTypeOK
<1>5. PICK J : J = [refresh EXCEPT !.at = statement]
  OBVIOUS
<1>6. J \in Job /\ HandlerOK(J) /\ job' = [job EXCEPT ![w] = J]
  BY <1>2, <1>3, <1>5
<1>7. QED
  BY <1>4, <1>6, QuietStep DEF ReadToken, TypeInv, AccountsTypeOK

\* What is there stays, and the handlers count on what they have read.
KeepsRows ==
    /\ \A p \in People : Exists(p) => Exists(p)' /\ account'[p].company = account[p].company
    /\ issued <= issued'
    /\ \A i \in Invitations : invitation[i] # NoInvitation => invitation'[i] # NoInvitation

\* The job of v is about what it was about.
SameBusiness(v) ==
    /\ job'[v].at = job[v].at /\ job'[v].who = job[v].who
    /\ job'[v].root = job[v].root /\ job'[v].inv = job[v].inv

\* ... and a statement or an event that writes.
LEMMA WritingStep ==
    ASSUME TypeInv, AccountsTypeOK', AccountsOK', TokensOK', LinksOK', suspended' \subseteq Founded,
           KeepsRows, \A v \in Workers : SameBusiness(v) \/ HandlerOK(job[v])'
    PROVE  TypeInv'
<1>1. Founded \subseteq Founded'
  BY DEF KeepsRows, Founded, People
<1>2. ASSUME NEW v \in Workers, SameBusiness(v) PROVE HandlerOK(job[v])'
  <2>1. HandlerOK(job[v])
    BY DEF TypeInv, HandlersOK
  <2>2. (job[v].at \in Checked \/ job[v].at = "applyReset") /\ Exists(job[v].who)
           => Exists(job[v].who)'
    BY <1>2, <2>1 DEF SameBusiness, KeepsRows, HandlerOK, AboutUsers, People
  <2>3. job[v].at \in Deciding => Member(job[v].who)'
    BY <1>2, <2>1, NobodyIsTyped
       DEF SameBusiness, KeepsRows, HandlerOK, AboutUsers, People, Member, Exists, NoAccount
  <2>4. issued \in Nat /\ issued' \in Nat /\ job[v].root \in Nat
    BY DEF TypeInv, AccountsTypeOK, Job
  <2>5. QED
    BY <1>2, <2>1, <2>2, <2>3, <2>4 DEF SameBusiness, HandlerOK, KeepsRows, AboutUsers
<1>3. QED BY <1>1, <1>2 DEF TypeInv, HandlersOK

\* Marking what is out of date changes nothing else.
LEMMA OutdatedMarks ==
    ASSUME AccountsTypeOK, NEW people \in SUBSET People, NEW team \in BOOLEAN, NEW v \in Workers,
           NEW j \in {Outdated(people, team)[v]}
    PROVE  /\ j \in Job
           /\ j.at = job[v].at /\ j.who = job[v].who /\ j.by = job[v].by /\ j.ref = job[v].ref
           /\ j.root = job[v].root /\ j.pw = job[v].pw /\ j.inv = job[v].inv /\ j.to = job[v].to
           /\ job[v].at \in Checked /\ job[v].who \in people => j.why # {}
           /\ job[v].at \notin Checked \/ job[v].who \notin people => j.why = job[v].why
           /\ j.stale <=> job[v].stale \/ (team /\ job[v].at \in Deciding)
<1>1. job[v] \in Job
  BY DEF AccountsTypeOK
<1>2. PICK why \in SUBSET Causes : why = IF v \in Overtaken(people)
                                         THEN job[v].why \cup {"overtaken"} ELSE job[v].why
  BY <1>1 DEF Job, Causes
<1>3. PICK stale \in BOOLEAN : stale <=> job[v].stale \/ (team /\ v \in Unsettled)
  BY <1>1 DEF Job
<1>4. Outdated(people, team)[v] = [job[v] EXCEPT !.why = why, !.stale = stale]
  BY <1>1, <1>2, <1>3 DEF Outdated, Job
<1>5. v \in Overtaken(people) <=> job[v].at \in Checked /\ job[v].who \in people
  BY DEF Overtaken
<1>6. v \in Unsettled <=> job[v].at \in Deciding
  BY DEF Unsettled
<1>7. j = [job[v] EXCEPT !.why = why, !.stale = stale]
  BY <1>4
<1>8. QED BY <1>1, <1>2, <1>3, <1>5, <1>6, <1>7 DEF Job

LEMMA OutdatedIsTyped ==
    ASSUME AccountsTypeOK, NEW people \in SUBSET People, NEW team \in BOOLEAN
    PROVE  /\ Outdated(people, team) \in [Workers -> Job]
           /\ \A v \in Workers :
                 /\ Outdated(people, team)[v].at = job[v].at
                 /\ Outdated(people, team)[v].who = job[v].who
                 /\ Outdated(people, team)[v].root = job[v].root
                 /\ Outdated(people, team)[v].inv = job[v].inv
<1>1. Outdated(people, team) = [v \in Workers |-> Outdated(people, team)[v]]
  BY DEF Outdated
<1>2. ASSUME NEW v \in Workers
      PROVE  /\ Outdated(people, team)[v] \in Job
             /\ Outdated(people, team)[v].at = job[v].at
             /\ Outdated(people, team)[v].who = job[v].who
             /\ Outdated(people, team)[v].root = job[v].root
             /\ Outdated(people, team)[v].inv = job[v].inv
  BY OutdatedMarks
<1>3. QED BY <1>1, <1>2

\* Marking the sessions of people touches nothing but their causes.
LEMMA ExcusedMarks ==
    ASSUME tokens \subseteq Token, NEW people \in SUBSET People, NEW cause \in Causes
    PROVE  /\ Excused(people, cause) \subseteq Token
           /\ \A t \in Excused(people, cause) : \E s \in tokens :
                 /\ t.id = s.id /\ t.root = s.root /\ t.user = s.user /\ t.pw = s.pw
                 /\ t.user \in people => t.why # {}
                 /\ t.user \notin people => t.why = s.why
<1>1. ASSUME NEW s \in tokens
      PROVE  LET t == [s EXCEPT !.why = @ \cup {cause}] IN
             /\ t \in Token
             /\ t.id = s.id /\ t.root = s.root /\ t.user = s.user /\ t.pw = s.pw
             /\ t.why = s.why \cup {cause}
  BY <1>1 DEF Token
<1>2. QED BY <1>1 DEF Excused

\* A statement or an event that only deletes sessions or marks them.
LEMMA TokensStep ==
    ASSUME TypeInv, UNCHANGED <<account, suspended, allowed, issued, links, invitation, history>>,
           tokens' \subseteq Token,
           \A t \in tokens' : \E s \in tokens : t.id = s.id /\ t.root = s.root /\ t.user = s.user,
           job' \in [Workers -> Job], \A v \in Workers : SameBusiness(v) \/ HandlerOK(job[v])'
    PROVE  TypeInv'
<1>1. AccountsTypeOK' /\ AccountsOK' /\ LinksOK' /\ suspended' \subseteq Founded
  BY DEF TypeInv, AccountsTypeOK, AccountsOK, LinksOK, Exists, history
<1>2. TokensOK'
  BY DEF TypeInv, TokensOK, Exists
<1>3. KeepsRows
  BY DEF KeepsRows, TypeInv, AccountsTypeOK, Exists
<1>4. QED BY <1>1, <1>2, <1>3, WritingStep

\* The jobs when worker w goes on and nobody else is concerned.
LEMMA OneMoves ==
    ASSUME AccountsTypeOK, NEW w \in Workers, NEW J \in Job, job' = [job EXCEPT ![w] = J]
    PROVE  /\ job' \in [Workers -> Job] /\ job'[w] = J
           /\ \A v \in Workers \ {w} : SameBusiness(v)
BY DEF AccountsTypeOK, SameBusiness

LEMMA EndsSafely ==
    ASSUME AccountsTypeOK, NEW w \in Workers, End(w)
    PROVE  /\ job' \in [Workers -> Job]
           /\ \A v \in Workers : SameBusiness(v) \/ HandlerOK(job[v])'
<1>1. \A v \in Workers \ {w} : SameBusiness(v)
  BY OneMoves, IdleIsAJob DEF End
<1>2. job' \in [Workers -> Job] /\ job'[w] = Idle
  BY OneMoves, IdleIsAJob DEF End
<1>3. HandlerOK(job[w])'
  BY <1>2, IdleIsAJob DEF HandlerOK, AboutUsers
<1>4. QED BY <1>1, <1>2, <1>3

LEMMA DropsKeepTypes ==
    ASSUME TypeInv, NEW w \in Workers,
           \/ Rotate(w) \/ DropExpired(w) \/ DropRefused(w) \/ DropCompany(w) \/ DropUser(w)
           \/ Fail(w)
    PROVE  TypeInv'
<1>0. AccountsTypeOK /\ tokens \subseteq Token /\ job[w] \in Job /\ HandlerOK(job[w])
  BY DEF TypeInv, AccountsTypeOK, HandlersOK
<1>1. CASE Rotate(w)
  <2>1. PICK J : J = [job[w] EXCEPT !.at = "issue"]
    OBVIOUS
  <2>2. J \in Job /\ J.at = "issue" /\ J.who = job[w].who /\ J.root = job[w].root
    BY <1>0, <2>1 DEF Job, Statements
  <2>3. job' = [job EXCEPT ![w] = J]
    BY <1>1, <2>1 DEF Rotate, Goto, TypeInv, AccountsTypeOK
  <2>4. HandlerOK(job[w])'
    BY <1>0, <1>1, <2>2, <2>3, OneMoves DEF Rotate, HandlerOK, AboutUsers, Exists
  <2>5. QED BY <1>0, <1>1, <2>2, <2>3, <2>4, OneMoves, TokensStep DEF Rotate
<1>2. CASE DropExpired(w) \/ DropRefused(w) \/ DropCompany(w) \/ DropUser(w)
  BY <1>0, <1>2, EndsSafely, TokensStep DEF DropExpired, DropRefused, DropCompany, DropUser
<1>3. CASE Fail(w)
  <2>1. /\ tokens' \subseteq Token
        /\ \A t \in tokens' : \E s \in tokens :
              t.id = s.id /\ t.root = s.root /\ t.user = s.user
    <3>1. "failed" \in Causes
      BY DEF Causes
    <3>2. PICK users, team : /\ users = {job[w].who}
                             /\ team = {p \in People : account[p].company = job[w].who}
      OBVIOUS
    <3>3. \/ tokens' = tokens
          \/ job[w].at = "dropUser" /\ tokens' = Excused(users, "failed")
          \/ tokens' = Excused(team, "failed")
      BY <1>3, <3>2 DEF Fail
    <3>4. CASE tokens' = tokens
      BY <1>0, <3>4
    <3>5. CASE job[w].at = "dropUser" /\ tokens' = Excused(users, "failed")
      <4>1. users \in SUBSET People
        BY <1>0, <3>2, <3>5 DEF HandlerOK, AboutUsers, People
      <4>2. QED BY <1>0, <3>1, <3>5, <4>1, ExcusedMarks
    <3>6. CASE tokens' = Excused(team, "failed")
      <4>1. team \in SUBSET People
        BY <3>2
      <4>2. QED BY <1>0, <3>1, <3>6, <4>1, ExcusedMarks
    <3>7. QED BY <3>3, <3>4, <3>5, <3>6
  <2>2. QED BY <1>0, <1>3, <2>1, EndsSafely, TokensStep DEF Fail
<1>4. QED BY <1>1, <1>2, <1>3

LEMMA IssueKeepsTypes ==
    ASSUME TypeInv, NEW w \in Workers, Issue(w)
    PROVE  TypeInv'
<1>0. /\ AccountsTypeOK /\ tokens \subseteq Token /\ job[w] \in Job /\ HandlerOK(job[w])
      /\ issued \in Nat
  BY DEF TypeInv, AccountsTypeOK, HandlersOK
<1> DEFINE root == IF job[w].root = 0 THEN issued + 1 ELSE job[w].root
           new == [id |-> issued + 1, root |-> root, user |-> job[w].who, pw |-> job[w].pw,
                   expired |-> FALSE, why |-> job[w].why]
<1>1. job[w].who \in People /\ Exists(job[w].who) /\ job[w].root <= issued
  BY <1>0 DEF Issue, HandlerOK
<1>2. root \in Nat /\ root > 0 /\ root <= issued + 1
  BY <1>0, <1>1 DEF Job
<1>3. new \in Token
  <2> HIDE DEF root
  <2> QED BY <1>0, <1>1, <1>2 DEF Token, Job
<1>4. new.id = issued + 1 /\ new.root = root /\ new.user = job[w].who
  OBVIOUS
<1>5. tokens' = tokens \cup {new} /\ issued' = issued + 1
  BY DEF Issue
<1> HIDE DEF root, new
<1>6. AccountsTypeOK'
  BY <1>0, <1>3, <1>5, EndsSafely DEF Issue, AccountsTypeOK, history
<1>7. TokensOK'
  <2>1. ASSUME NEW t \in tokens'
        PROVE  Exists(t.user) /\ t.id > 0 /\ t.id <= issued' /\ t.root > 0 /\ t.root <= issued'
    <3>1. CASE t \in tokens
      BY <1>0, <1>5, <3>1 DEF TypeInv, TokensOK, Token
    <3>2. CASE t = new
      BY <1>0, <1>1, <1>2, <1>4, <1>5, <3>2
    <3>3. QED BY <1>5, <2>1, <3>1, <3>2
  <2>2. QED BY <2>1 DEF TokensOK, Issue, Exists
<1>8. AccountsOK' /\ LinksOK' /\ KeepsRows /\ suspended' \subseteq Founded
  BY <1>0 DEF Issue, TypeInv, AccountsOK, LinksOK, KeepsRows, Exists
<1>9. QED BY <1>0, <1>6, <1>7, <1>8, EndsSafely, WritingStep DEF Issue

LEMMA FindsKeepTypes ==
    ASSUME TypeInv, NEW w \in Workers,
           \/ Recheck(w) \/ FindLogin(w) \/ FindRegister(w) \/ FindOAuth(w)
    PROVE  TypeInv'
<1>0. /\ AccountsTypeOK /\ job[w] \in Job /\ HandlerOK(job[w])
      /\ account \in [People -> Account]
  BY DEF TypeInv, AccountsTypeOK, HandlersOK
<1>1. CASE Recheck(w)
  BY <1>0, <1>1, MovesOn, ZenonT(40) DEF Recheck, Goto, HandlerOK, AboutUsers, Statements, Job
<1>2. ASSUME job[w].at \in {"findLogin", "findRegister", "findOAuth"},
             NEW statement \in {"issue", "createOwn"}, NEW pw \in Nat, NEW why \in SUBSET Causes,
             statement = "issue" => Exists(job[w].who),
             job' = [job EXCEPT ![w] = [job[w] EXCEPT !.at = statement, !.pw = pw, !.why = why]],
             UNCHANGED <<tables, history>>
      PROVE  TypeInv'
  <2>1. PICK J : J = [job[w] EXCEPT !.at = statement, !.pw = pw, !.why = why]
    OBVIOUS
  <2>2. J \in Job /\ J.at = statement /\ J.who = job[w].who /\ J.root = 0 /\ J.who \in Users
    BY <1>0, <1>2, <2>1 DEF Job, Statements, HandlerOK, AboutUsers
  <2>3. HandlerOK(J)
    BY <1>0, <1>2, <2>2 DEF HandlerOK, AboutUsers, People, AccountsTypeOK
  <2>4. QED BY <1>2, <2>1, <2>2, <2>3, QuietStep DEF history, AccountsTypeOK, TypeInv
<1>3. ASSUME job[w].at \in {"findLogin", "findOAuth"} PROVE account[job[w].who] \in Account
  BY <1>0, <1>3 DEF HandlerOK, AboutUsers, People
<1>4. CASE FindLogin(w)
  <2>1. job[w].at = "findLogin" /\ UNCHANGED <<tables, history>>
    BY <1>4 DEF FindLogin
  <2>2. CASE Authenticated(job[w].who) /\ account[job[w].who].pw > 0
    <3>1. job' = [job EXCEPT ![w] = [job[w] EXCEPT !.at = "issue", !.pw = account[job[w].who].pw,
                                                   !.why = job[w].why]]
      BY <1>0, <1>4, <2>2 DEF FindLogin, AccountsTypeOK, Job
    <3>2. QED BY <1>0, <1>2, <1>3, <2>1, <2>2, <3>1 DEF Authenticated, Account, Job
  <2>3. CASE ~(Authenticated(job[w].who) /\ account[job[w].who].pw > 0)
    BY <1>4, <2>1, <2>3, Ends DEF FindLogin
  <2>4. QED BY <2>2, <2>3
<1>5. CASE FindRegister(w)
  <2>1. job[w].at = "findRegister" /\ UNCHANGED <<tables, history>>
    BY <1>5 DEF FindRegister
  <2>2. CASE ~Exists(job[w].who)
    <3>1. job' = [job EXCEPT ![w] = [job[w] EXCEPT !.at = "createOwn", !.pw = 1,
                                                   !.why = job[w].why]]
      BY <1>0, <1>5, <2>2 DEF FindRegister, AccountsTypeOK, Job
    <3>2. QED BY <1>0, <1>2, <2>1, <3>1 DEF Job
  <2>3. CASE Exists(job[w].who)
    BY <1>5, <2>1, <2>3, Ends DEF FindRegister
  <2>4. QED BY <2>2, <2>3
<1>6. CASE FindOAuth(w)
  <2>1. job[w].at = "findOAuth" /\ UNCHANGED <<tables, history>>
    BY <1>6 DEF FindOAuth
  <2>2. CASE account[job[w].who].active /\ ~End(w) /\ ~Goto(w, "createOwn")
    <3>1. PICK why \in SUBSET Causes :
             why = IF Suspended(job[w].who) THEN {"unchecked"} ELSE {}
      BY DEF Causes
    <3>2. job' = [job EXCEPT ![w] = [job[w] EXCEPT !.at = "issue", !.pw = account[job[w].who].pw,
                                                   !.why = why]]
      BY <1>0, <1>6, <2>2, <3>1 DEF FindOAuth, AccountsTypeOK, Job
    <3>3. Exists(job[w].who)
      BY <2>2 DEF Exists, NoAccount
    <3>4. QED BY <1>0, <1>2, <1>3, <2>1, <3>2, <3>3 DEF Account
  <2>3. CASE Goto(w, "createOwn")
    <3>1. job' = [job EXCEPT ![w] = [job[w] EXCEPT !.at = "createOwn", !.pw = job[w].pw,
                                                   !.why = job[w].why]]
      BY <1>0, <2>3 DEF Goto, AccountsTypeOK, Job
    <3>2. QED BY <1>0, <1>2, <2>1, <3>1 DEF Job
  <2>4. CASE End(w)
    BY <2>1, <2>4, Ends
  <2>5. QED BY <1>6, <2>2, <2>3, <2>4 DEF FindOAuth
<1>7. QED BY <1>1, <1>4, <1>5, <1>6

LEMMA AccountChanges ==
    ASSUME NEW a \in Account, NEW pw \in Nat, NEW admin \in BOOLEAN, NEW active \in BOOLEAN
    PROVE  /\ [a EXCEPT !.pw = pw] \in Account
           /\ [a EXCEPT !.active = active] \in Account
           /\ [a EXCEPT !.admin = admin, !.active = active] \in Account
           /\ [a EXCEPT !.pw = pw, !.active = active] \in Account
BY DEF Account

LEMMA AccountIsTyped ==
    \A company \in Companies \cup {None}, admin, active \in BOOLEAN, pw \in Nat :
        [company |-> company, admin |-> admin, active |-> active, pw |-> pw] \in Account
BY DEF Account

LEMMA CreateOwnKeepsTypes ==
    ASSUME TypeInv, NEW w \in Workers, CreateOwn(w)
    PROVE  TypeInv'
<1> PICK p : p = job[w].who
  OBVIOUS
<1> DEFINE new == [company |-> p, admin |-> TRUE, active |-> TRUE, pw |-> job[w].pw]
<1>0. /\ AccountsTypeOK /\ job[w] \in Job /\ HandlerOK(job[w]) /\ job[w].at = "createOwn"
      /\ account \in [People -> Account] /\ p \in Users /\ p \in People /\ job[w].root = 0
      /\ issued \in Nat
  BY DEF TypeInv, AccountsTypeOK, HandlersOK, CreateOwn, HandlerOK, AboutUsers, People
<1>1. CASE Exists(p)
  BY <1>1, Ends DEF CreateOwn, tables
<1>2. CASE ~Exists(p)
  <2>1. new \in Account /\ new.company = p /\ new # NoAccount
    BY <1>0, NobodyIsTyped, AccountIsTyped DEF Companies, Job, NoAccount
  <2>2. account' = [account EXCEPT ![p] = new] /\ Goto(w, "issue")
    BY <1>2 DEF CreateOwn
  <2>3. account' \in [People -> Account]
    BY <1>0, <2>1, <2>2
  <2>4. PICK J : J = [job[w] EXCEPT !.at = "issue"]
    OBVIOUS
  <2>5. J \in Job /\ J.at = "issue" /\ J.who = p /\ J.root = 0
    BY <1>0, <2>4 DEF Job, Statements
  <2>6. job' = [job EXCEPT ![w] = J]
    BY <2>2, <2>4 DEF Goto
  <2> HIDE DEF new
  <2>7. Exists(p)' /\ \A q \in People : q # p => account'[q] = account[q]
    BY <1>0, <2>1, <2>2 DEF Exists
  <2>8. KeepsRows /\ LinksOK' /\ suspended' \subseteq Founded
    BY <1>0, <1>2, <2>7 DEF KeepsRows, LinksOK, Exists, CreateOwn, TypeInv
  <2>9. AccountsTypeOK'
    BY <1>0, <2>3, <2>5, <2>6, OneMoves DEF CreateOwn, AccountsTypeOK, history
  <2>10. AccountsOK'
    <3>1. p \notin PlatformAdmins
      BY <1>0, PeopleAssumption
    <3>2. account'[p].company = p
      BY <1>0, <2>1, <2>2
    <3>3. QED BY <1>0, <2>7, <3>1, <3>2 DEF TypeInv, AccountsOK, Exists, People
  <2>11. TokensOK'
    BY <2>7, <2>8 DEF TypeInv, TokensOK, CreateOwn, KeepsRows, AccountsTypeOK, Token
  <2>12. HandlerOK(job[w])'
    BY <1>0, <2>5, <2>6, <2>7, OneMoves DEF HandlerOK, AboutUsers, CreateOwn
  <2>13. QED BY <1>0, <2>5, <2>6, <2>8, <2>9, <2>10, <2>11, <2>12, OneMoves, WritingStep
<1>3. QED BY <1>1, <1>2

\* A change to accounts that exist, their companies apart: some of what is said of p is
\* new, all handlers but w are about what they were.
LEMMA AccountStep ==
    ASSUME TypeInv, NEW p \in People, Exists(p), NEW a \in Account, account' = [account EXCEPT ![p] = a],
           a.company = account[p].company,
           p \in PlatformAdmins => ~a.admin /\ a.pw > 0,
           tokens' \subseteq Token,
           \A t \in tokens' : \E s \in tokens : t.id = s.id /\ t.root = s.root /\ t.user = s.user,
           links' \subseteq Link, LinksOK', job' \in [Workers -> Job],
           \A v \in Workers : SameBusiness(v) \/ HandlerOK(job[v])',
           UNCHANGED <<suspended, allowed, issued, invitation, history>>
    PROVE  TypeInv'
<1>0. account \in [People -> Account] /\ AccountsTypeOK /\ issued \in Nat
  BY DEF TypeInv, AccountsTypeOK
<1>1. AccountsTypeOK'
  BY <1>0 DEF AccountsTypeOK, history
<1>2. Exists(p)' /\ \A q \in People : q # p => account'[q] = account[q]
  <2>1. CASE p \in Users
    <3>1. a.company # None
      BY <2>1, NobodyIsTyped DEF TypeInv, AccountsOK, People
    <3>2. QED BY <1>0, <3>1, NobodyIsTyped DEF Exists
  <2>2. CASE p \in PlatformAdmins
    BY <1>0, <2>2, NobodyIsTyped DEF Exists
  <2>3. QED BY <2>1, <2>2 DEF People
<1>3. KeepsRows /\ suspended' \subseteq Founded
  BY <1>0, <1>2 DEF KeepsRows, Exists, TypeInv
<1>4. AccountsOK'
  BY <1>0, <1>2, PeopleAssumption DEF TypeInv, AccountsOK, People, Exists
<1>5. TokensOK'
  BY <1>2, <1>3 DEF TypeInv, TokensOK, KeepsRows, AccountsTypeOK, Token
<1>6. QED BY <1>1, <1>3, <1>4, <1>5, WritingStep

LEMMA OutdatedMoves ==
    ASSUME AccountsTypeOK, NEW w \in Workers, NEW J \in Job, NEW people \in SUBSET People, NEW team \in BOOLEAN,
           job' = [Outdated(people, team) EXCEPT ![w] = J]
    PROVE  /\ job' \in [Workers -> Job] /\ job'[w] = J
           /\ \A v \in Workers \ {w} : SameBusiness(v) /\ job'[v] = Outdated(people, team)[v]
<1>1. PICK f : f = Outdated(people, team)
  OBVIOUS
<1>2. f \in [Workers -> Job]
  BY <1>1, OutdatedIsTyped
<1>3. \A v \in Workers : /\ f[v].at = job[v].at /\ f[v].who = job[v].who
                        /\ f[v].root = job[v].root /\ f[v].inv = job[v].inv
  BY <1>1, OutdatedIsTyped
<1>4. QED BY <1>1, <1>2, <1>3 DEF SameBusiness

LEMMA OutdatedStays ==
    ASSUME AccountsTypeOK, NEW people \in SUBSET People, NEW team \in BOOLEAN, job' = Outdated(people, team)
    PROVE  job' \in [Workers -> Job] /\ \A v \in Workers : SameBusiness(v)
<1>1. PICK f : f = Outdated(people, team)
  OBVIOUS
<1>2. f \in [Workers -> Job]
  BY <1>1, OutdatedIsTyped
<1>3. \A v \in Workers : /\ f[v].at = job[v].at /\ f[v].who = job[v].who
                        /\ f[v].root = job[v].root /\ f[v].inv = job[v].inv
  BY <1>1, OutdatedIsTyped
<1>4. QED BY <1>1, <1>2, <1>3 DEF SameBusiness

\* A statement or an event that writes neither accounts nor sessions.
LEMMA OtherRowsStep ==
    ASSUME TypeInv, UNCHANGED <<account, tokens, issued, forked, rushed, joined>>,
           suspended' \subseteq Founded, suspended' \subseteq Companies, allowed' \subseteq Users,
           links' \subseteq Link, LinksOK',
           invitation' \in [Invitations -> Invitation \cup {NoInvitation}],
           \A i \in Invitations : invitation[i] # NoInvitation => invitation'[i] # NoInvitation,
           contested' \subseteq Invitations,
           job' \in [Workers -> Job], \A v \in Workers : SameBusiness(v) \/ HandlerOK(job[v])'
    PROVE  TypeInv'
<1>1. AccountsTypeOK' /\ AccountsOK' /\ TokensOK'
  BY DEF TypeInv, AccountsTypeOK, AccountsOK, TokensOK, Exists
<1>2. KeepsRows
  BY DEF KeepsRows, TypeInv, AccountsTypeOK, Exists
<1>3. QED BY <1>1, <1>2, WritingStep

\* Links that are marked keep their numbers.
LEMMA LinksAreRewritten ==
    ASSUME LinksOK, NEW g, links' = {g[l] : l \in links}, \A l \in links : g[l].id = l.id
    PROVE  LinksOK'
<1>1. PICK f : f = [l \in links |-> g[l]]
  OBVIOUS
<1>2. f \in [links -> links'] /\ \A l \in links : f[l].id = l.id
  BY <1>1
<1>3. f \in Surjection(links, links')
  BY <1>1, <1>2 DEF Surjection
<1>4. f \in Injection(links, links')
  BY <1>2 DEF Injection, IsInjective, LinksOK
<1>5. IsFiniteSet(links') /\ Cardinality(links') = Cardinality(links)
  BY <1>3, <1>4, FS_Surjection DEF LinksOK
<1>6. \A m \in links' : \E l \in links : m = f[l]
  BY <1>3 DEF Surjection
<1>7. ASSUME NEW m \in links' PROVE m.id <= Cardinality(links')
  BY <1>2, <1>5, <1>6 DEF LinksOK
<1>8. ASSUME NEW m \in links', NEW n \in links', m.id = n.id PROVE m = n
  <2>1. PICK k \in links, l \in links : m = f[k] /\ n = f[l]
    BY <1>6
  <2>2. k.id = l.id
    BY <1>2, <1>8, <2>1
  <2>3. QED BY <2>1, <2>2 DEF LinksOK
<1>9. QED BY <1>5, <1>7, <1>8 DEF LinksOK

LEMMA ResetsKeepTypes ==
    ASSUME TypeInv, NEW w \in Workers,
           \/ \E u \in Users : ForgotPassword(w, u)
           \/ \E l \in links : ReadLink(w, l)
           \/ Invalidate(w) \/ CreateLink(w) \/ ApplyReset(w)
    PROVE  TypeInv'
<1>0. /\ AccountsTypeOK /\ job[w] \in Job /\ HandlerOK(job[w])
      /\ account \in [People -> Account] /\ links \subseteq Link /\ LinksOK /\ tokens \subseteq Token
      /\ suspended \subseteq Founded /\ suspended \subseteq Companies /\ allowed \subseteq Users
      /\ invitation \in [Invitations -> Invitation \cup {NoInvitation}]
      /\ contested \subseteq Invitations
  BY DEF TypeInv, AccountsTypeOK, HandlersOK
<1>1. ASSUME NEW u \in Users, ForgotPassword(w, u) PROVE TypeInv'
  <2>1. PICK J : J = [Idle EXCEPT !.at = "invalidate", !.who = u]
    OBVIOUS
  <2>2. J \in Job /\ HandlerOK(J)
    BY <2>1, IdleIsAJob DEF Idle, Job, Statements, HandlerOK, AboutUsers, People
  <2>3. QED
    BY <1>1, <2>1, <2>2, QuietStep DEF ForgotPassword, Begin, TypeInv, AccountsTypeOK
<1>2. ASSUME NEW l \in links, ReadLink(w, l) PROVE TypeInv'
  <2>1. PICK J : J = [Idle EXCEPT !.at = "applyReset", !.who = l.user, !.ref = l.id]
    OBVIOUS
  <2>8. l.user \in Users /\ l.id \in Nat
    BY <1>0 DEF Link
  <2>10. account[l.user].active
    BY <1>2 DEF ReadLink
  <2>2. Exists(l.user)
    BY <2>10 DEF Exists, NoAccount
  <2>3. J \in Job /\ J.at = "applyReset" /\ J.who = l.user
    BY <2>1, <2>8, IdleIsAJob DEF Idle, Job, Statements, People
  <2>4. job' = [job EXCEPT ![w] = J]
    BY <1>2, <2>1 DEF ReadLink, Begin
  <2>5. HandlerOK(job[w])'
    BY <1>0, <1>2, <2>2, <2>8, <2>3, <2>4, OneMoves DEF HandlerOK, AboutUsers, ReadLink, Exists
  <2>6. links' \subseteq Link
    BY <1>0, <1>2 DEF ReadLink, Link
  <2>9. LinksOK'
    <3>1. PICK g : g = [k \in links |-> IF k = l THEN [l EXCEPT !.shared = TRUE] ELSE k]
      OBVIOUS
    <3>2. \A k \in links : g[k].id = k.id
      BY <1>0, <3>1 DEF Link
    <3>3. links' = links \/ links' = {g[k] : k \in links}
      BY <1>2, <3>1 DEF ReadLink
    <3>4. QED BY <1>0, <3>2, <3>3, LinksAreRewritten DEF LinksOK
  <2>7. QED
    BY <1>0, <1>2, <2>3, <2>4, <2>5, <2>6, <2>9, OneMoves, OtherRowsStep DEF ReadLink, history
<1>3. CASE Invalidate(w)
  <2>1. PICK J : J = [job[w] EXCEPT !.at = "createLink"]
    OBVIOUS
  <2>2. J \in Job /\ J.at = "createLink" /\ J.who = job[w].who /\ job' = [job EXCEPT ![w] = J]
    BY <1>0, <1>3, <2>1 DEF Invalidate, Goto, Job, Statements
  <2>3. HandlerOK(job[w])'
    BY <1>0, <1>3, <2>2, OneMoves DEF HandlerOK, AboutUsers, Invalidate
  <2>4. \A l \in links : [l EXCEPT !.used = TRUE] \in Link
    BY <1>0 DEF Link
  <2>5. links' \subseteq Link
    BY <1>0, <1>3, <2>4 DEF Invalidate
  <2>7. LinksOK'
    <3>1. PICK g : g = [l \in links |-> IF l.user = job[w].who THEN [l EXCEPT !.used = TRUE] ELSE l]
      OBVIOUS
    <3>2. \A l \in links : g[l].id = l.id
      BY <1>0, <3>1 DEF Link
    <3>3. links' = {g[l] : l \in links}
      BY <1>3, <3>1 DEF Invalidate
    <3>4. QED BY <1>0, <3>2, <3>3, LinksAreRewritten
  <2>6. QED
    BY <1>0, <1>3, <2>2, <2>3, <2>5, <2>7, OneMoves, OtherRowsStep DEF Invalidate, history
<1>4. CASE CreateLink(w)
  <2>1. PICK l : l = [id |-> Cardinality(links) + 1, user |-> job[w].who, used |-> FALSE,
                      expired |-> FALSE, uses |-> 0, shared |-> FALSE]
    OBVIOUS
  <2>2. Cardinality(links) \in Nat
    BY <1>0, FS_CardinalityType DEF LinksOK
  <2>3. l \in Link /\ l.id = Cardinality(links) + 1
    BY <1>0, <1>4, <2>1, <2>2 DEF CreateLink, Link, HandlerOK, AboutUsers
  <2>4. links' = links \cup {l} /\ links' \subseteq Link
    BY <1>0, <1>4, <2>1, <2>3 DEF CreateLink
  <2>5. l \notin links
    BY <1>0, <2>2, <2>3 DEF LinksOK
  <2>6. IsFiniteSet(links') /\ Cardinality(links') = Cardinality(links) + 1
    BY <1>0, <2>4, <2>5, FS_AddElement DEF LinksOK
  <2>7. \A m \in links : m.id \in Nat /\ m.id <= Cardinality(links)
    BY <1>0 DEF LinksOK, Link
  <2>8. \A m \in links' : m.id <= Cardinality(links')
    BY <2>2, <2>3, <2>4, <2>6, <2>7
  <2>9. \A l1, l2 \in links' : l1.id = l2.id => l1 = l2
    BY <1>0, <2>2, <2>3, <2>4, <2>7 DEF LinksOK
  <2>10. QED
    BY <1>0, <1>4, <2>4, <2>6, <2>8, <2>9, EndsSafely, OtherRowsStep
       DEF CreateLink, history, LinksOK
<1>5. CASE ApplyReset(w)
  <2>1. PICK p \in People : p = job[w].who /\ Exists(p)
    BY <1>0, <1>5 DEF ApplyReset, HandlerOK, AboutUsers, People
  <2>8. account[p] \in Account
    BY <1>0, <2>1
  <2>2. PICK a \in Account : a = [account[p] EXCEPT !.pw = account[p].pw + 1]
    <3>1. account[p].pw + 1 \in Nat
      BY <2>8 DEF Account
    <3>2. QED BY <2>8, <3>1, AccountChanges
  <2>3. /\ account' = [account EXCEPT ![p] = a] /\ a.company = account[p].company
        /\ a.admin = account[p].admin /\ a.pw > 0
    <3>1. account' = [account EXCEPT ![p] = a]
      BY <1>5, <2>1, <2>2 DEF ApplyReset
    <3>2. account[p].pw + 1 > 0
      BY <2>8 DEF Account
    <3>3. QED BY <2>2, <2>8, <3>1, <3>2 DEF Account
  <2>4. ASSUME NEW l \in links PROVE [l EXCEPT !.used = TRUE, !.uses = @ + 1] \in Link
    <3>1. l \in Link /\ l.uses + 1 \in Nat
      BY <1>0 DEF Link
    <3>2. QED BY <3>1 DEF Link
  <2>9. LinksOK'
    <3>1. PICK g : g = [l \in links |-> IF l.id = job[w].ref
                                         THEN [l EXCEPT !.used = TRUE, !.uses = @ + 1] ELSE l]
      OBVIOUS
    <3>2. \A l \in links : g[l].id = l.id
      BY <1>0, <3>1 DEF Link
    <3>3. links' = {g[l] : l \in links}
      BY <1>5, <3>1 DEF ApplyReset
    <3>4. QED BY <1>0, <3>2, <3>3, LinksAreRewritten
  <2>5. links' \subseteq Link
    BY <1>0, <1>5, <2>4 DEF ApplyReset
  <2>6. job' \in [Workers -> Job] /\ \A v \in Workers : SameBusiness(v) \/ HandlerOK(job[v])'
    <3>1. job' = [Outdated({p}, FALSE) EXCEPT ![w] = Idle] /\ {p} \in SUBSET People
      BY <1>5, <2>1 DEF ApplyReset
    <3>2. HandlerOK(job[w])'
      BY <1>0, <3>1, IdleIsAJob, OutdatedMoves DEF HandlerOK, AboutUsers
    <3>3. QED BY <1>0, <3>1, <3>2, IdleIsAJob, OutdatedMoves
  <2>7. QED
    BY <1>0, <1>5, <2>1, <2>2, <2>3, <2>5, <2>6, <2>9, AccountStep, ZenonT(40)
       DEF ApplyReset, history, TypeInv, AccountsOK
<1>6. QED BY <1>1, <1>2, <1>3, <1>4, <1>5

\* The tables as the remaining steps find them.
LEMMA TablesTyped ==
    ASSUME TypeInv
    PROVE  /\ AccountsTypeOK /\ LinksOK
           /\ account \in [People -> Account] /\ links \subseteq Link /\ tokens \subseteq Token
           /\ suspended \subseteq Founded /\ suspended \subseteq Companies /\ allowed \subseteq Users
           /\ invitation \in [Invitations -> Invitation \cup {NoInvitation}]
           /\ contested \subseteq Invitations /\ Users \subseteq People
           /\ \A w \in Workers : job[w] \in Job /\ HandlerOK(job[w])
           /\ \A p \in People : account[p].active => Exists(p)
BY DEF TypeInv, AccountsTypeOK, HandlersOK, People, Exists, NoAccount

LEMMA PlatformKeepsTypes ==
    ASSUME TypeInv, NEW w \in Workers,
           \/ \E c \in Founded : Suspend(w, c)
           \/ \E u \in Users : AdminDeactivate(w, u)
           \/ Deactivate(w)
    PROVE  TypeInv'
<1>1. ASSUME NEW c \in Founded, Suspend(w, c) PROVE TypeInv'
  <2>1. PICK people \in SUBSET People : people = {p \in People : account[p].company = c}
    OBVIOUS
  <2>2. c \in Companies
    BY NobodyIsTyped, TablesTyped DEF Founded, TypeInv, AccountsOK, Companies
  <2>3. PICK J : J = [Idle EXCEPT !.at = "dropCompany", !.who = c]
    OBVIOUS
  <2>4. J \in Job /\ J.at = "dropCompany"
    BY <2>2, <2>3, IdleIsAJob DEF Idle, Job, Statements
  <2>5. job' = [Outdated(people, FALSE) EXCEPT ![w] = J]
    BY <1>1, <2>1, <2>3 DEF Suspend
  <2>6. HandlerOK(job[w])'
    BY <2>4, <2>5, TablesTyped, OutdatedMoves DEF HandlerOK, AboutUsers
  <2>7. job' \in [Workers -> Job] /\ \A v \in Workers : SameBusiness(v) \/ HandlerOK(job[v])'
    BY <2>4, <2>5, <2>6, TablesTyped, OutdatedMoves
  <2>8. suspended' \subseteq Founded /\ suspended' \subseteq Companies /\ LinksOK'
    BY <1>1, <2>2, TablesTyped DEF Suspend, LinksOK
  <2>9. QED
    BY <1>1, <2>7, <2>8, TablesTyped, OtherRowsStep DEF Suspend, history
<1>2. ASSUME NEW u \in Users, Exists(u),
             account' = [account EXCEPT ![u].active = FALSE],
             job' = [Outdated({u}, TRUE) EXCEPT ![w] = [Idle EXCEPT !.at = "dropUser", !.who = u]],
             UNCHANGED <<suspended, allowed, tokens, issued, links, invitation, history>>
      PROVE  TypeInv'
  <2>1. u \in People /\ {u} \in SUBSET People
    BY DEF People
  <2>2. PICK J : J = [Idle EXCEPT !.at = "dropUser", !.who = u]
    OBVIOUS
  <2>3. J \in Job /\ J.at = "dropUser" /\ J.who = u
    BY <2>1, <2>2, IdleIsAJob DEF Idle, Job, Statements
  <2>4. job' = [Outdated({u}, TRUE) EXCEPT ![w] = J]
    BY <1>2, <2>2
  <2>5. HandlerOK(job[w])'
    BY <2>1, <2>3, <2>4, TablesTyped, OutdatedMoves DEF HandlerOK, AboutUsers
  <2>6. job' \in [Workers -> Job] /\ \A v \in Workers : SameBusiness(v) \/ HandlerOK(job[v])'
    BY <2>1, <2>3, <2>4, <2>5, TablesTyped, OutdatedMoves
  <2>7. PICK a : a = [account[u] EXCEPT !.active = FALSE]
    OBVIOUS
  <2>8. a \in Account /\ a.company = account[u].company /\ account' = [account EXCEPT ![u] = a]
    BY <1>2, <2>1, <2>7, TablesTyped DEF Account
  <2>9. u \notin PlatformAdmins /\ LinksOK'
    BY <1>2, PeopleAssumption, TablesTyped DEF LinksOK
  <2>10. QED BY <1>2, <2>1, <2>6, <2>8, <2>9, TablesTyped, AccountStep
<1>3. CASE Deactivate(w)
  <2>1. job[w].who \in Users /\ Exists(job[w].who)
    BY <1>3, TablesTyped, NobodyIsTyped DEF Deactivate, HandlerOK, AboutUsers, Member, Exists, NoAccount
  <2>2. QED BY <1>2, <1>3, <2>1 DEF Deactivate
<1>4. QED BY <1>1, <1>2, <1>3 DEF AdminDeactivate

\* What is done to accounts without a handler going on to another statement.
LEMMA UpdatesKeepTypes ==
    ASSUME TypeInv, NEW p \in People, Exists(p),
           NEW a \in Account, account' = [account EXCEPT ![p] = a],
           a.company = account[p].company, p \in PlatformAdmins => ~a.admin /\ a.pw > 0,
           tokens' = tokens \/ tokens' = Excused({p}, "kept"),
           job' \in [Workers -> Job], \A v \in Workers : SameBusiness(v) \/ HandlerOK(job[v])',
           UNCHANGED <<suspended, allowed, issued, links, invitation, history>>
    PROVE  TypeInv'
<1>1. /\ tokens' \subseteq Token
      /\ \A t \in tokens' : \E s \in tokens : t.id = s.id /\ t.root = s.root /\ t.user = s.user
  <2>1. "kept" \in Causes /\ {p} \in SUBSET People
    BY DEF Causes
  <2>2. CASE tokens' = tokens
    BY <2>2, TablesTyped
  <2>3. CASE tokens' = Excused({p}, "kept")
    BY <2>1, <2>3, TablesTyped, ExcusedMarks
  <2>4. QED BY <2>2, <2>3
<1>2. LinksOK'
  BY TablesTyped DEF LinksOK
<1>3. QED BY <1>1, <1>2, TablesTyped, AccountStep

LEMMA PlatformEventsKeepTypes ==
    ASSUME TypeInv, ActivateEvents \/ PlatformEvents
    PROVE  TypeInv'
<1>0. \A p \in People : {p} \in SUBSET People /\ {} \in SUBSET People
  OBVIOUS
<1>1. ASSUME NEW u \in Users, AdminActivate(u) PROVE TypeInv'
  <2>1. PICK a : a = [account[u] EXCEPT !.active = TRUE]
    OBVIOUS
  <2>2. a \in Account /\ a.company = account[u].company /\ account' = [account EXCEPT ![u] = a]
    BY <1>1, <2>1, TablesTyped DEF AdminActivate, Account
  <2>3. job' \in [Workers -> Job] /\ \A v \in Workers : SameBusiness(v)
    BY <1>0, <1>1, TablesTyped, OutdatedStays DEF AdminActivate
  <2>4. u \in People /\ u \notin PlatformAdmins
    BY PeopleAssumption DEF People
  <2>5. QED BY <1>1, <2>2, <2>3, <2>4, UpdatesKeepTypes DEF AdminActivate
<1>2. ASSUME NEW p \in PlatformAdmins
      PROVE  /\ p \in People /\ Exists(p) /\ ~account[p].admin /\ account[p].pw > 0
             /\ account[p] \in Account
  BY TablesTyped, NobodyIsTyped DEF People, TypeInv, AccountsOK, Exists
<1>3. ASSUME NEW p \in PlatformAdmins, ResetPlatformAdmin(p) PROVE TypeInv'
  <2>1. PICK a : a = [account[p] EXCEPT !.pw = account[p].pw + 1, !.active = TRUE]
    OBVIOUS
  <2>2. account[p].pw + 1 \in Nat /\ account[p].pw + 1 > 0
    BY <1>2 DEF Account
  <2>3. a \in Account /\ a.company = account[p].company /\ a.admin = account[p].admin /\ a.pw > 0
    BY <1>2, <2>1, <2>2 DEF Account
  <2>4. account' = [account EXCEPT ![p] = a]
    BY <1>2, <1>3, <2>1, TablesTyped DEF ResetPlatformAdmin, Account
  <2>5. job' \in [Workers -> Job] /\ \A v \in Workers : SameBusiness(v)
    BY <1>0, <1>2, <1>3, TablesTyped, OutdatedStays DEF ResetPlatformAdmin
  <2>6. QED BY <1>2, <1>3, <2>3, <2>4, <2>5, UpdatesKeepTypes DEF ResetPlatformAdmin
<1>4. ASSUME NEW p \in PlatformAdmins, NEW active \in BOOLEAN, SetPlatformAdmin(p, active)
      PROVE  TypeInv'
  <2>1. PICK a : a = [account[p] EXCEPT !.active = active]
    OBVIOUS
  <2>2. a \in Account /\ a.company = account[p].company /\ a.admin = account[p].admin
        /\ a.pw = account[p].pw
    BY <1>2, <2>1 DEF Account
  <2>3. account' = [account EXCEPT ![p] = a]
    BY <1>2, <1>4, <2>1, TablesTyped DEF SetPlatformAdmin, Account
  <2>4. job' \in [Workers -> Job] /\ \A v \in Workers : SameBusiness(v)
    <3>1. CASE active
      BY <1>4, <3>1, TablesTyped DEF SetPlatformAdmin, SameBusiness, AccountsTypeOK
    <3>2. CASE ~active
      BY <1>0, <1>2, <1>4, <3>2, TablesTyped, OutdatedStays DEF SetPlatformAdmin
    <3>3. QED BY <3>1, <3>2
  <2>5. QED BY <1>2, <1>4, <2>2, <2>3, <2>4, UpdatesKeepTypes DEF SetPlatformAdmin
<1>5. QED BY <1>1, <1>3, <1>4 DEF ActivateEvents, PlatformEvents

LEMMA ReadingIsAJob ==
    ASSUME TypeInv, NEW i \in Invitations, invitation[i] # NoInvitation,
           NEW a \in People \cup {None}, NEW statement \in Holding,
           NEW K, K = Reading(i, a, statement), NEW J, J = K \/ J = [K EXCEPT !.pw = 1]
    PROVE  /\ J \in Job /\ J.at = statement /\ J.who = invitation[i].email /\ J.root = 0
           /\ J.inv = i /\ J.why = {} /\ HandlerOK(J)
<1>1. invitation[i].email \in Users /\ Users \subseteq People
  BY TablesTyped DEF Invitation
<1>2. K \in Job /\ K.at = statement /\ K.who = invitation[i].email /\ K.root = 0 /\ K.inv = i
      /\ K.why = {}
  BY <1>1, IdleIsAJob DEF Reading, Row, Idle, Job, Statements
<1>3. J \in Job /\ J.at = statement /\ J.who = invitation[i].email /\ J.root = 0 /\ J.inv = i
      /\ J.why = {}
  BY <1>2 DEF Job
<1>4. QED BY <1>1, <1>3 DEF HandlerOK, AboutUsers

LEMMA InvitesKeepTypes ==
    ASSUME TypeInv, NEW w \in Workers,
           InviteRequests(w) \/ AcceptRequests(w) \/ InvitationRequests(w)
    PROVE  TypeInv'
<1>1. ASSUME NEW a \in Users, NEW u \in Users, NEW role \in {"ADMIN", "MEMBER"},
             Invite(w, a, u, role)
      PROVE  TypeInv'
  <2>1. PICK J : J = [Idle EXCEPT !.at = "checkPending", !.who = u, !.by = a, !.to.role = role]
    OBVIOUS
  <2>2. [Idle.to EXCEPT !.role = role] \in Changes
    BY DEF Idle, NoChange, Changes
  <2>3. J \in Job /\ J.at = "checkPending" /\ J.who = u
    BY <2>1, <2>2, TablesTyped, IdleIsAJob DEF Job, Statements
  <2>4. HandlerOK(J)
    BY <2>3 DEF HandlerOK, AboutUsers
  <2>5. QED
    BY <1>1, <2>1, <2>3, <2>4, QuietStep DEF Invite, Begin, history, TypeInv, AccountsTypeOK
<1>2. ASSUME NEW i \in Invitations, Row(i).status # "none", NEW a \in People \cup {None},
             NEW statement \in Holding,
             NEW J,
             J = Reading(i, a, statement) \/ J = [Reading(i, a, statement) EXCEPT !.pw = 1],
             Begin(w, J), UNCHANGED <<tables, history>>
      PROVE  TypeInv'
  <2>1. invitation[i] # NoInvitation
    BY <1>2 DEF Row, NoInvitation
  <2>2. PICK K : K = Reading(i, a, statement)
    OBVIOUS
  <2>3. J = K \/ J = [K EXCEPT !.pw = 1]
    BY <1>2, <2>2
  <2>4. J \in Job /\ HandlerOK(J)
    BY <2>1, <2>2, <2>3, ReadingIsAJob
  <2>5. QED BY <1>2, <2>4, QuietStep DEF Begin, history, TypeInv, AccountsTypeOK
<1>3. ASSUME NEW i \in Invitations, ViewInvitation(w, i) \/ AcceptInvitation(w, i) PROVE TypeInv'
  BY <1>2, <1>3 DEF ViewInvitation, AcceptInvitation
<1>4. ASSUME NEW a \in Users, NEW i \in Invitations,
             ResendInvitation(w, a, i) \/ RevokeInvitation(w, a, i)
      PROVE  TypeInv'
  BY <1>2, <1>4, TablesTyped DEF ResendInvitation, RevokeInvitation
<1>5. QED
  BY <1>1, <1>3, <1>4 DEF InviteRequests, AcceptRequests, InvitationRequests

LEMMA InvitationStep ==
    ASSUME TypeInv, NEW w \in Workers, NEW i \in Invitations, NEW row \in Invitation,
           invitation' = [invitation EXCEPT ![i] = row],
           job' \in [Workers -> Job], \A v \in Workers : SameBusiness(v) \/ HandlerOK(job[v])',
           contested' \subseteq Invitations,
           UNCHANGED <<account, suspended, allowed, tokens, issued, links, forked, rushed, joined>>
    PROVE  TypeInv'
<1>1. LinksOK'
  BY TablesTyped DEF LinksOK
<1>2. QED BY <1>1, TablesTyped, NobodyIsTyped, OtherRowsStep

LEMMA RowChanges ==
    ASSUME NEW row \in Invitation, NEW status \in InvitationStatus
    PROVE  /\ [row EXCEPT !.status = status] \in Invitation
           /\ [row EXCEPT !.expired = TRUE] \in Invitation
           /\ [row EXCEPT !.status = status, !.expired = FALSE] \in Invitation
BY DEF Invitation

LEMMA InvitationsKeepTypes ==
    ASSUME TypeInv, NEW w \in Workers,
           CheckPending(w) \/ CreateInvite(w) \/ Reopen(w) \/ Revoke(w) \/ MarkExpired(w)
    PROVE  TypeInv'
<1>0. job[w] \in Job /\ HandlerOK(job[w]) /\ AccountsTypeOK
  BY TablesTyped
<1>1. ASSUME NEW statement \in {"createInvite", "allow"}, job[w].who \in Users, Goto(w, statement)
      PROVE  job' \in [Workers -> Job] /\ \A v \in Workers : SameBusiness(v) \/ HandlerOK(job[v])'
  <2>1. PICK J : J = [job[w] EXCEPT !.at = statement]
    OBVIOUS
  <2>2. J \in Job /\ J.at = statement /\ J.who = job[w].who /\ job' = [job EXCEPT ![w] = J]
    BY <1>0, <1>1, <2>1 DEF Job, Statements, Goto
  <2>3. HandlerOK(job[w])'
    BY <1>0, <1>1, <2>2, OneMoves DEF HandlerOK, AboutUsers
  <2>4. QED BY <1>0, <2>2, <2>3, OneMoves
<1>2. CASE CheckPending(w)
  <2>1. UNCHANGED <<tables, history>> /\ job[w].who \in Users
    BY <1>0, <1>2 DEF CheckPending, HandlerOK, AboutUsers
  <2>2. CASE End(w)
    BY <2>1, <2>2, Ends
  <2>3. CASE Goto(w, "createInvite")
    <3>1. LinksOK'
      BY <2>1, TablesTyped DEF LinksOK, tables
    <3>2. QED BY <1>1, <2>1, <2>3, <3>1, TablesTyped, OtherRowsStep DEF tables, history
  <2>4. QED BY <1>2, <2>2, <2>3 DEF CheckPending
<1>3. CASE CreateInvite(w)
  <2>1. PICK i \in Invitations :
           /\ Row(i) = NoInvitation
           /\ invitation' = [invitation EXCEPT ![i] =
                  [email |-> job[w].who, admin |-> job[w].to.role = "ADMIN",
                   status |-> "PENDING", expired |-> FALSE]]
    BY <1>3 DEF CreateInvite
  <2>2. job[w].who \in Users
    BY <1>0, <1>3 DEF CreateInvite, HandlerOK, AboutUsers
  <2>3. [email |-> job[w].who, admin |-> job[w].to.role = "ADMIN", status |-> "PENDING",
         expired |-> FALSE] \in Invitation
    BY <2>2 DEF Invitation, InvitationStatus
  <2>4. QED BY <1>1, <1>3, <2>1, <2>2, <2>3, TablesTyped, InvitationStep DEF CreateInvite, history
<1>4. ASSUME job[w].at \in Holding
      PROVE  /\ job[w].inv \in Invitations /\ invitation[job[w].inv] \in Invitation
             /\ job[w].who \in Users
  BY <1>0, <1>4, TablesTyped DEF HandlerOK, AboutUsers
<1>5. \A i \in Invitations : Contest(w, i) => contested' \subseteq Invitations
  BY TablesTyped DEF Contest
<1>6. CASE Reopen(w)
  <2>1. PICK row \in Invitation :
           row = [invitation[job[w].inv] EXCEPT !.status = "PENDING", !.expired = FALSE]
    BY <1>4, <1>6, RowChanges DEF Reopen, InvitationStatus
  <2>2. invitation' = [invitation EXCEPT ![job[w].inv] = row]
    BY <1>4, <1>6, <2>1, TablesTyped DEF Reopen
  <2>3. QED BY <1>1, <1>4, <1>5, <1>6, <2>2, InvitationStep DEF Reopen
<1>7. ASSUME NEW status \in {"REVOKED", "EXPIRED"}, WriteStatus(w, status), End(w),
             job[w].at \in Holding
      PROVE  TypeInv'
  <2>1. PICK row \in Invitation : row = [invitation[job[w].inv] EXCEPT !.status = status]
    BY <1>4, <1>7, RowChanges DEF InvitationStatus
  <2>2. invitation' = [invitation EXCEPT ![job[w].inv] = row]
    BY <1>4, <1>7, <2>1, TablesTyped DEF WriteStatus
  <2>3. QED BY <1>0, <1>4, <1>5, <1>7, <2>2, EndsSafely, InvitationStep DEF WriteStatus
<1>8. QED BY <1>2, <1>3, <1>6, <1>7 DEF Revoke, MarkExpired

LEMMA JoinKeepsTypes ==
    ASSUME TypeInv, NEW w \in Workers, Join(w)
    PROVE  TypeInv'
<1> PICK i, u : i = job[w].inv /\ u = job[w].who
  OBVIOUS
<1>0. /\ job[w] \in Job /\ HandlerOK(job[w]) /\ AccountsTypeOK /\ job[w].at = "join"
      /\ i \in Invitations /\ invitation[i] \in Invitation /\ invitation[i] # NoInvitation
      /\ u \in Users /\ u \in People /\ job[w].root = 0
  BY TablesTyped DEF Join, HandlerOK, AboutUsers
<1>1. CASE Exists(u)
  BY <1>1, Ends DEF Join, tables, history
<1>2. CASE ~Exists(u)
  <2>1. PICK new : new = [company |-> Home, admin |-> invitation[i].admin, active |-> TRUE, pw |-> 1]
    OBVIOUS
  <2>2. invitation[i].admin \in BOOLEAN
    BY <1>0 DEF Invitation
  <2>3. new \in Account /\ new.company = Home /\ new # NoAccount
    BY <2>1, <2>2, AccountIsTyped, NobodyIsTyped DEF Companies, NoAccount
  <2>4. PICK row \in Invitation : row = [invitation[i] EXCEPT !.status = "ACCEPTED"]
    BY <1>0, RowChanges DEF InvitationStatus
  <2>5. /\ account' = [account EXCEPT ![u] = new]
        /\ invitation' = [invitation EXCEPT ![i] = row]
        /\ joined' = joined \cup {i} /\ Contest(w, i)
    BY <1>0, <1>2, <2>1, <2>4, TablesTyped DEF Join, Row
  <2>6. PICK why \in SUBSET Causes : why = IF Home \in suspended THEN {"unchecked"} ELSE {}
    BY DEF Causes
  <2>7. PICK f : f = Outdated({}, TRUE)
    OBVIOUS
  <2>8. /\ f \in [Workers -> Job] /\ f[w].at = "join" /\ f[w].who = u /\ f[w].root = 0
        /\ \A v \in Workers : /\ f[v].at = job[v].at /\ f[v].who = job[v].who
                              /\ f[v].root = job[v].root /\ f[v].inv = job[v].inv
    BY <1>0, <2>7, OutdatedIsTyped, ZenonT(40)
  <2>9. PICK J : J = [f[w] EXCEPT !.at = "issue", !.why = why]
    OBVIOUS
  <2>10. J \in Job /\ J.at = "issue" /\ J.who = u /\ J.root = 0
    <3>1. PICK K \in Job : K = f[w] /\ K.who = u /\ K.root = 0
      BY <2>8
    <3>2. J = [K EXCEPT !.at = "issue", !.why = why]
      BY <2>9, <3>1
    <3>3. QED BY <3>1, <3>2 DEF Job, Statements
  <2>11. job' = [f EXCEPT ![w] = J]
    BY <1>2, <1>0, <2>6, <2>7, <2>8, <2>9 DEF Join
  <2>12. /\ job' \in [Workers -> Job] /\ job'[w] = J
         /\ \A v \in Workers \ {w} : SameBusiness(v)
    BY <2>8, <2>10, <2>11 DEF SameBusiness
  <2>13. Exists(u)' /\ \A q \in People : q # u => account'[q] = account[q]
    BY <1>0, <2>3, <2>5, TablesTyped DEF Exists
  <2>14. UNCHANGED <<suspended, allowed, tokens, issued, links, forked, rushed>>
    BY DEF Join
  <2>15. KeepsRows /\ LinksOK' /\ suspended' \subseteq Founded
    BY <1>0, <1>2, <2>5, <2>13, <2>14, TablesTyped, NobodyIsTyped DEF KeepsRows, Exists, LinksOK, AccountsTypeOK
  <2>16. AccountsTypeOK'
    BY <1>0, <2>3, <2>5, <2>12, <2>14, TablesTyped DEF AccountsTypeOK, Contest
  <2>17. AccountsOK'
    <3>1. u \notin PlatformAdmins
      BY <1>0, PeopleAssumption
    <3>2. account'[u].company = Home
      BY <1>0, <2>3, <2>5, TablesTyped
    <3>3. QED BY <1>0, <2>13, <3>1, <3>2 DEF TypeInv, AccountsOK, Exists, People
  <2>18. TokensOK'
    BY <2>13, <2>14, <2>15 DEF TypeInv, TokensOK, KeepsRows, AccountsTypeOK, Token
  <2>19. HandlerOK(job[w])'
    BY <1>0, <2>10, <2>12, <2>13, <2>14 DEF HandlerOK, AboutUsers, AccountsTypeOK
  <2>20. QED BY <1>0, <2>12, <2>15, <2>16, <2>17, <2>18, <2>19, WritingStep
<1>3. QED BY <1>1, <1>2

LEMMA TeamKeepsTypes ==
    ASSUME TypeInv, NEW w \in Workers,
           TeamRequests(w) \/ CountActiveAdmins(w) \/ CountAdmins(w) \/ WriteUser(w) \/ Allow(w)
    PROVE  TypeInv'
<1>0. job[w] \in Job /\ HandlerOK(job[w]) /\ AccountsTypeOK
  BY TablesTyped
<1>1. ASSUME NEW a \in Users, NEW u \in Users, NEW statement \in Deciding, NEW change \in Changes, Member(u),
             job' = [job EXCEPT ![w] = [Idle EXCEPT !.at = statement, !.who = u, !.by = a, !.to = change]],
             UNCHANGED <<tables, history>>
      PROVE  TypeInv'
  <2>1. PICK J : J = [Idle EXCEPT !.at = statement, !.who = u, !.by = a, !.to = change]
    OBVIOUS
  <2>2. J \in Job /\ J.at = statement /\ J.who = u
    BY <2>1, TablesTyped, IdleIsAJob DEF Idle, Job, Statements
  <2>3. HandlerOK(J)
    BY <1>1, <2>2 DEF HandlerOK, AboutUsers
  <2>4. QED BY <1>1, <2>1, <2>2, <2>3, QuietStep DEF history, TypeInv, AccountsTypeOK
<1>2. ASSUME NEW a \in Users, NEW u \in Users, NEW c \in Changes, UpdateUser(w, a, u, c) PROVE TypeInv'
  BY <1>1, <1>2 DEF UpdateUser, Begin
<1>3. ASSUME NEW a \in Users, NEW u \in Users, RemoveUser(w, a, u) PROVE TypeInv'
  <2>1. PICK statement \in Deciding : statement = IF account[u].admin THEN "countAll" ELSE "deactivate"
    OBVIOUS
  <2>2. PICK J : J = [Idle EXCEPT !.at = statement, !.who = u, !.by = a]
    OBVIOUS
  <2>3. J \in Job /\ J.at = statement /\ J.who = u
    BY <2>2, TablesTyped, IdleIsAJob DEF Idle, Job, Statements
  <2>4. HandlerOK(J)
    BY <1>3, <2>3 DEF HandlerOK, AboutUsers, RemoveUser
  <2>5. job' = [job EXCEPT ![w] = J] /\ UNCHANGED <<tables, history>>
    BY <1>3, <2>1, <2>2 DEF RemoveUser, Begin
  <2>6. QED BY <2>3, <2>4, <2>5, QuietStep DEF history, TypeInv, AccountsTypeOK
<1>4. CASE CountActiveAdmins(w) \/ CountAdmins(w)
  <2>1. UNCHANGED <<tables, history>>
    BY <1>4 DEF CountActiveAdmins, CountAdmins
  <2>2. CASE End(w)
    BY <2>1, <2>2, Ends
  <2>3. CASE ~End(w)
    <3>1. PICK statement \in {"write", "deactivate"} : Goto(w, statement) /\ job[w].at \in Deciding
      BY <1>4, <2>3 DEF CountActiveAdmins, CountAdmins
    <3>2. PICK J : J = [job[w] EXCEPT !.at = statement]
      OBVIOUS
    <3>3. J \in Job /\ J.at = statement /\ J.who = job[w].who /\ job' = [job EXCEPT ![w] = J]
      BY <1>0, <3>1, <3>2 DEF Job, Statements, Goto
    <3>4. HandlerOK(J)
      BY <1>0, <3>1, <3>3 DEF HandlerOK, AboutUsers
    <3>5. QED BY <2>1, <3>3, <3>4, QuietStep DEF history, TypeInv, AccountsTypeOK
  <2>4. QED BY <2>2, <2>3
<1>5. CASE WriteUser(w)
  <2>1. PICK u \in Users, change \in Changes :
           u = job[w].who /\ change = job[w].to /\ u \in People /\ Member(u)
    BY <1>0, <1>5, TablesTyped DEF WriteUser, HandlerOK, AboutUsers, Job
  <2>2. account[u] \in Account /\ Exists(u) /\ u \notin PlatformAdmins
    BY <2>1, TablesTyped, NobodyIsTyped, PeopleAssumption DEF Member, Exists, NoAccount
  <2>3. PICK admin \in BOOLEAN, active \in BOOLEAN :
           /\ admin = IF change.role = "keep" THEN account[u].admin ELSE change.role = "ADMIN"
           /\ active = IF change.active = "keep" THEN account[u].active ELSE change.active = "on"
    BY <2>2 DEF Account
  <2>4. PICK a : a = [account[u] EXCEPT !.admin = admin, !.active = active]
    OBVIOUS
  <2>5. a \in Account /\ a.company = account[u].company
    BY <2>2, <2>4, AccountChanges DEF Account
  <2>6. account' = [account EXCEPT ![u] = a]
    BY <1>5, <2>1, <2>2, <2>3, <2>4, TablesTyped DEF WriteUser, Account
  <2>7. PICK people \in SUBSET People : people = IF change.active = "off" THEN {u} ELSE {}
    BY <2>1
  <2>8. job' = [Outdated(people, TRUE) EXCEPT ![w] = Idle]
    BY <1>5, <2>1, <2>7 DEF WriteUser
  <2>9. HandlerOK(job[w])'
    BY <1>0, <2>8, IdleIsAJob, OutdatedMoves DEF HandlerOK, AboutUsers
  <2>10. job' \in [Workers -> Job] /\ \A v \in Workers : SameBusiness(v) \/ HandlerOK(job[v])'
    BY <1>0, <2>8, <2>9, IdleIsAJob, OutdatedMoves
  <2>11. QED BY <1>5, <2>1, <2>2, <2>5, <2>6, <2>10, UpdatesKeepTypes DEF WriteUser
<1>6. CASE Allow(w)
  <2>1. allowed' \subseteq Users /\ LinksOK'
    BY <1>0, <1>6, TablesTyped DEF Allow, HandlerOK, AboutUsers, LinksOK
  <2>2. QED BY <1>0, <1>6, <2>1, TablesTyped, EndsSafely, OtherRowsStep DEF Allow, history
<1>7. QED BY <1>2, <1>3, <1>4, <1>5, <1>6 DEF TeamRequests

LEMMA ExpiriesKeepTypes ==
    ASSUME TypeInv, LogoutEvents \/ ExpiryEvents \/ LinkEvents \/ InvitationEvents
    PROVE  TypeInv'
<1>0. job' = job => job' \in [Workers -> Job] /\ \A v \in Workers : SameBusiness(v)
  BY TablesTyped DEF AccountsTypeOK, SameBusiness
<1>1. ASSUME NEW p \in People, NEW t \in tokens, Logout(p, t) PROVE TypeInv'
  BY <1>0, <1>1, TablesTyped, TokensStep DEF Logout
<1>2. ASSUME NEW t \in tokens, TokenExpires(t) PROVE TypeInv'
  <2>1. PICK s : s = [t EXCEPT !.expired = TRUE]
    OBVIOUS
  <2>2. s \in Token /\ s.id = t.id /\ s.root = t.root /\ s.user = t.user
    BY <2>1, TablesTyped DEF Token
  <2>3. tokens' = (tokens \ {t}) \cup {s}
    BY <1>2, <2>1 DEF TokenExpires
  <2>4. tokens' \subseteq Token
    BY <2>2, <2>3, TablesTyped
  <2>5. \A r \in tokens' : \E q \in tokens : r.id = q.id /\ r.root = q.root /\ r.user = q.user
    BY <2>2, <2>3
  <2>6. QED BY <1>0, <1>2, <2>4, <2>5, TablesTyped, TokensStep DEF TokenExpires
<1>3. ASSUME NEW l \in links, LinkExpires(l) PROVE TypeInv'
  <2>1. PICK g : g = [k \in links |-> IF k = l THEN [l EXCEPT !.expired = TRUE] ELSE k]
    OBVIOUS
  <2>2. \A k \in links : g[k].id = k.id /\ g[k] \in Link
    BY <2>1, TablesTyped, ZenonT(40) DEF Link
  <2>3. links' = {g[k] : k \in links}
    BY <1>3, <2>1 DEF LinkExpires
  <2>4. LinksOK' /\ links' \subseteq Link
    BY <2>2, <2>3, TablesTyped, LinksAreRewritten
  <2>5. QED BY <1>0, <1>3, <2>4, TablesTyped, OtherRowsStep DEF LinkExpires, history
<1>4. ASSUME NEW i \in Invitations, InvitationExpires(i) PROVE TypeInv'
  <2>1. invitation[i] \in Invitation
    BY <1>4, TablesTyped DEF InvitationExpires, Row
  <2>2. PICK row \in Invitation : row = [invitation[i] EXCEPT !.expired = TRUE]
    BY <2>1 DEF Invitation
  <2>3. invitation' = [invitation EXCEPT ![i] = row]
    BY <1>4, <2>2 DEF InvitationExpires
  <2>4. UNCHANGED <<account, suspended, allowed, tokens, issued, links, job,
                    forked, rushed, joined, contested>>
    BY <1>4 DEF InvitationExpires, history
  <2>5. LinksOK'
    BY <2>4, TablesTyped DEF LinksOK
  <2>6. invitation' \in [Invitations -> Invitation \cup {NoInvitation}]
    BY <2>2, <2>3, TablesTyped
  <2>7. ASSUME NEW k \in Invitations, invitation[k] # NoInvitation
        PROVE  invitation'[k] # NoInvitation
    BY <2>2, <2>3, <2>7, TablesTyped, NobodyIsTyped
  <2>8. /\ suspended' \subseteq Founded /\ suspended' \subseteq Companies /\ allowed' \subseteq Users
        /\ links' \subseteq Link /\ contested' \subseteq Invitations
    BY <2>4, TablesTyped
  <2>9. job' \in [Workers -> Job] /\ \A v \in Workers : SameBusiness(v)
    BY <1>0, <2>4
  <2>10. UNCHANGED <<account, tokens, issued, forked, rushed, joined>>
    BY <2>4
  <2>11. QED BY <2>5, <2>6, <2>7, <2>8, <2>9, <2>10, OtherRowsStep
<1>5. QED BY <1>1, <1>2, <1>3, <1>4 DEF LogoutEvents, ExpiryEvents, LinkEvents, InvitationEvents

LEMMA ListsKeepTypes ==
    ASSUME TypeInv, ReinstateEvents \/ AllowlistEvents
    PROVE  TypeInv'
<1>0. UNCHANGED job => job' \in [Workers -> Job] /\ \A v \in Workers : SameBusiness(v)
  BY TablesTyped DEF AccountsTypeOK, SameBusiness
<1>1. UNCHANGED links => LinksOK'
  BY TablesTyped DEF LinksOK
<1>2. ASSUME NEW c \in Companies, Reinstate(c) PROVE TypeInv'
  BY <1>0, <1>1, <1>2, TablesTyped, OtherRowsStep DEF Reinstate, history
<1>3. ASSUME NEW u \in Users, ChangeAllowlist({u}) PROVE TypeInv'
  BY <1>0, <1>1, <1>3, TablesTyped, OtherRowsStep DEF ChangeAllowlist, history
<1>4. QED BY <1>2, <1>3 DEF ReinstateEvents, AllowlistEvents

LEMMA StutterKeepsTypes ==
    ASSUME TypeInv, UNCHANGED vars
    PROVE  TypeInv'
<1>1. LinksOK' /\ job' \in [Workers -> Job] /\ \A v \in Workers : SameBusiness(v)
  BY TablesTyped DEF AccountsTypeOK, SameBusiness, LinksOK, vars, tables
<1>2. QED BY <1>1, TablesTyped, TokensStep DEF vars, tables, history

LEMMA StepKeepsTypes == TypeInv /\ [Next]_vars => TypeInv'
<1> SUFFICES ASSUME TypeInv, [Next]_vars PROVE TypeInv'
  OBVIOUS
<1>1. ASSUME NEW w \in Workers, Requests(w) PROVE TypeInv'
  BY <1>1, SignInKeepsTypes, ReadTokenKeepsTypes, ResetsKeepTypes, PlatformKeepsTypes,
     InvitesKeepTypes, TeamKeepsTypes
     DEF Requests, RefreshRequests, ResetRequests, SuspendRequests, DeactivateRequests
<1>2. ASSUME NEW w \in Workers, Continue(w) PROVE TypeInv'
  BY <1>2, IssueKeepsTypes, FindsKeepTypes, DropsKeepTypes, CreateOwnKeepsTypes, ResetsKeepTypes,
     InvitationsKeepTypes, JoinKeepsTypes, TeamKeepsTypes, PlatformKeepsTypes
     DEF Continue
<1>3. ASSUME NEW w \in Workers, Fail(w) PROVE TypeInv'
  BY <1>3, DropsKeepTypes
<1>4. ASSUME Events PROVE TypeInv'
  BY <1>4, PlatformEventsKeepTypes, ExpiriesKeepTypes, ListsKeepTypes DEF Events
<1>5. CASE UNCHANGED vars
  BY <1>5, StutterKeepsTypes
<1>6. QED BY <1>1, <1>2, <1>3, <1>4, <1>5 DEF Next

LEMMA InitIsTyped == Init => TypeInv
<1> SUFFICES ASSUME Init PROVE TypeInv
  OBVIOUS
<1>1. \A p \in People : account[p] \in Account
  <2>1. ASSUME NEW p \in People PROVE account[p] \in Account
    <3>1. CASE account[p] = NoAccount
      BY <3>1, NobodyIsTyped
    <3>2. CASE account[p] \in [company : {Home, None}, admin : BOOLEAN, active : BOOLEAN, pw : {1}]
      BY <3>2 DEF Account, Companies
    <3>3. QED BY <3>1, <3>2 DEF Init
  <2>2. QED BY <2>1
<1>2. account \in [People -> Account]
  BY <1>1 DEF Init
<1>3. AccountsTypeOK
  BY <1>2, IdleIsAJob DEF Init, AccountsTypeOK
<1>4. AccountsOK
  <2>1. \A p \in People : account[p] # NoAccount => account[p].pw = 1
    BY DEF Init
  <2>2. \A a \in PlatformAdmins : account[a] # NoAccount /\ account[a].company = None
    BY PeopleAssumption DEF Init, People, NoAccount
  <2>3. QED BY <2>1, <2>2 DEF Init, AccountsOK, Exists, People
<1>5. HandlersOK /\ TokensOK
  BY IdleIsAJob DEF Init, HandlersOK, TokensOK
<1>6. LinksOK
  BY FS_EmptySet DEF Init, LinksOK
<1>7. QED BY <1>3, <1>4, <1>5, <1>6 DEF Init, TypeInv

LEMMA TypesHold == Spec => []TypeInv
BY InitIsTyped, StepKeepsTypes, PTL DEF Spec

\* Every table of accounts, sessions, links and invitations, and every handler in
\* flight, keeps its type.
THEOREM AccountsAreTyped == Spec => []AccountsTypeOK
<1>1. TypeInv => AccountsTypeOK
  BY DEF TypeInv
<1>2. QED BY <1>1, TypesHold, PTL

-----------------------------------------------------------------------------
(* What a step does to the other handlers *)

\* The job of v is what it was, but for what has become out of date.
Keeps(v) ==
    /\ SameBusiness(v)
    /\ job'[v].by = job[v].by /\ job'[v].ref = job[v].ref /\ job'[v].pw = job[v].pw
    /\ job'[v].to = job[v].to
    /\ job[v].why # {} => job'[v].why # {}
    /\ job[v].stale => job'[v].stale

LEMMA OutdatedKeeps ==
    ASSUME AccountsTypeOK, NEW people \in SUBSET People, NEW team \in BOOLEAN, NEW v \in Workers,
           job'[v] = Outdated(people, team)[v]
    PROVE  /\ Keeps(v)
           /\ job[v].at \in Checked /\ job[v].who \in people => job'[v].why # {}
           /\ team /\ job[v].at \in Deciding => job'[v].stale
<1>1. PICK j : j = job'[v]
  OBVIOUS
<1>2. j \in {Outdated(people, team)[v]}
  BY <1>1
<1>3. /\ j.at = job[v].at /\ j.who = job[v].who /\ j.by = job[v].by /\ j.ref = job[v].ref
      /\ j.root = job[v].root /\ j.pw = job[v].pw /\ j.inv = job[v].inv /\ j.to = job[v].to
      /\ job[v].at \in Checked /\ job[v].who \in people => j.why # {}
      /\ job[v].at \notin Checked \/ job[v].who \notin people => j.why = job[v].why
      /\ j.stale <=> job[v].stale \/ (team /\ job[v].at \in Deciding)
  BY <1>2, OutdatedMarks
<1>4. QED BY <1>1, <1>3 DEF Keeps, SameBusiness

LEMMA OutdatedKeepsOthers ==
    ASSUME AccountsTypeOK, NEW people \in SUBSET People, NEW team \in BOOLEAN, NEW w \in Workers,
           NEW J, job' = [Outdated(people, team) EXCEPT ![w] = J]
    PROVE  \A v \in Workers \ {w} :
              /\ Keeps(v)
              /\ job[v].at \in Checked /\ job[v].who \in people => job'[v].why # {}
              /\ team /\ job[v].at \in Deciding => job'[v].stale
<1>1. PICK f : f = Outdated(people, team)
  OBVIOUS
<1>2. f \in [Workers -> Job]
  BY <1>1, OutdatedIsTyped
<1>3. ASSUME NEW v \in Workers \ {w} PROVE job'[v] = Outdated(people, team)[v]
  BY <1>1, <1>2
<1>4. QED BY <1>3, OutdatedKeeps

LEMMA OthersKeep ==
    ASSUME TypeInv, NEW w \in Workers, Requests(w) \/ Continue(w) \/ Fail(w)
    PROVE  \A v \in Workers \ {w} : Keeps(v)
<1>0. AccountsTypeOK /\ job \in [Workers -> Job]
  BY TablesTyped DEF AccountsTypeOK
<1>1. ASSUME NEW v \in Workers \ {w}, job'[v] = job[v] PROVE Keeps(v)
  BY <1>1 DEF Keeps, SameBusiness
<1>2. ASSUME NEW J, job' = [job EXCEPT ![w] = J] PROVE \A v \in Workers \ {w} : Keeps(v)
  BY <1>0, <1>1, <1>2
<1>3. {} \in SUBSET People /\ \A p \in People : {p} \in SUBSET People
  OBVIOUS
<1>4. CASE \/ SignInRequests(w) \/ SignUpRequests(w) \/ OAuthRequests(w) \/ PlatformRequests(w)
           \/ RefreshRequests(w) \/ ResetRequests(w)
  BY <1>2, <1>4 DEF SignInRequests, SignUpRequests, OAuthRequests, PlatformRequests,
        RefreshRequests, ResetRequests, Login, Register, SignInOAuth, PlatformLogin, ReadToken,
        ForgotPassword, ReadLink, Begin
<1>5. CASE InviteRequests(w) \/ AcceptRequests(w) \/ InvitationRequests(w) \/ TeamRequests(w)
  BY <1>2, <1>5 DEF InviteRequests, AcceptRequests, InvitationRequests, TeamRequests, Invite,
        ViewInvitation, AcceptInvitation, ResendInvitation, RevokeInvitation, RemoveUser,
        UpdateUser, Begin
<1>6. CASE SuspendRequests(w)
  <2>1. PICK c \in Founded : Suspend(w, c)
    BY <1>6 DEF SuspendRequests
  <2>2. PICK people \in SUBSET People : people = {p \in People : account[p].company = c}
    OBVIOUS
  <2>3. job' = [Outdated(people, FALSE) EXCEPT ![w] = [Idle EXCEPT !.at = "dropCompany", !.who = c]]
    BY <2>1, <2>2 DEF Suspend
  <2>4. QED BY <1>0, <2>3, OutdatedKeepsOthers
<1>7. ASSUME NEW u \in Users, job' = [Outdated({u}, TRUE) EXCEPT ![w] = [Idle EXCEPT !.at = "dropUser", !.who = u]]
      PROVE  \A v \in Workers \ {w} : Keeps(v)
  BY <1>0, <1>3, <1>7, OutdatedKeepsOthers DEF People
<1>8. CASE DeactivateRequests(w) \/ Deactivate(w)
  BY <1>7, <1>8, TablesTyped
     DEF DeactivateRequests, AdminDeactivate, Deactivate, HandlerOK, AboutUsers
<1>9. CASE ApplyReset(w)
  <2>1. job[w].who \in People
    BY <1>9, TablesTyped DEF ApplyReset, HandlerOK, AboutUsers
  <2>2. PICK people \in SUBSET People : people = {job[w].who}
    BY <2>1
  <2>3. job' = [Outdated(people, FALSE) EXCEPT ![w] = Idle]
    BY <1>9, <2>2 DEF ApplyReset
  <2>4. QED BY <1>0, <2>3, OutdatedKeepsOthers
<1>10. CASE WriteUser(w)
  <2>1. job[w].who \in People
    BY <1>10, TablesTyped DEF WriteUser, HandlerOK, AboutUsers
  <2>2. PICK people \in SUBSET People :
           people = IF job[w].to.active = "off" THEN {job[w].who} ELSE {}
    BY <2>1
  <2>3. job' = [Outdated(people, TRUE) EXCEPT ![w] = Idle]
    BY <1>10, <2>2 DEF WriteUser
  <2>4. QED BY <1>0, <2>3, OutdatedKeepsOthers
<1>11. CASE Join(w)
  <2>1. CASE Exists(job[w].who)
    BY <1>2, <1>11, <2>1 DEF Join, End
  <2>2. CASE ~Exists(job[w].who)
    <3>1. PICK f, why : /\ f = Outdated({}, TRUE)
                        /\ why = IF Home \in suspended THEN {"unchecked"} ELSE {}
      OBVIOUS
    <3>2. f \in [Workers -> Job]
      BY <1>0, <1>3, <3>1, OutdatedIsTyped
    <3>3. job' = [f EXCEPT ![w] = [f[w] EXCEPT !.at = "issue", !.why = why]]
      BY <1>11, <2>2, <3>1, <3>2 DEF Join
    <3>4. QED BY <1>0, <1>3, <3>1, <3>3, OutdatedKeepsOthers
  <2>3. QED BY <2>1, <2>2
<1>12. CASE \/ Issue(w) \/ Recheck(w) \/ Rotate(w) \/ DropExpired(w) \/ DropRefused(w)
            \/ FindLogin(w) \/ FindRegister(w) \/ FindOAuth(w) \/ CreateOwn(w)
            \/ Invalidate(w) \/ CreateLink(w) \/ DropCompany(w) \/ DropUser(w)
  BY <1>0, <1>1, <1>12 DEF Issue, Recheck, Rotate, DropExpired, DropRefused, FindLogin,
        FindRegister, FindOAuth, CreateOwn, Invalidate, CreateLink, DropCompany, DropUser, Goto, End
<1>13. CASE \/ CheckPending(w) \/ CreateInvite(w) \/ Allow(w) \/ Reopen(w) \/ Revoke(w)
            \/ MarkExpired(w) \/ CountActiveAdmins(w) \/ CountAdmins(w) \/ Fail(w)
  BY <1>0, <1>1, <1>13 DEF CheckPending, CreateInvite, Allow, Reopen, Revoke, MarkExpired,
        CountActiveAdmins, CountAdmins, Fail, Goto, End
<1>14. QED BY <1>4, <1>5, <1>6, <1>8, <1>9, <1>10, <1>11, <1>12, <1>13 DEF Requests, Continue

LEMMA EventsKeep ==
    ASSUME TypeInv, Events
    PROVE  \A v \in Workers : Keeps(v)
<1>0. AccountsTypeOK /\ {} \in SUBSET People /\ \A p \in People : {p} \in SUBSET People
  BY TablesTyped
<1>1. job' = job => \A v \in Workers : Keeps(v)
  BY DEF Keeps, SameBusiness
<1>2. CASE LogoutEvents \/ ExpiryEvents \/ ReinstateEvents \/ AllowlistEvents \/ LinkEvents
           \/ InvitationEvents
  BY <1>1, <1>2 DEF LogoutEvents, ExpiryEvents, ReinstateEvents, AllowlistEvents, LinkEvents,
        InvitationEvents, Logout, TokenExpires, Reinstate, ChangeAllowlist, LinkExpires,
        InvitationExpires
<1>3. CASE ActivateEvents \/ PlatformEvents
  <2>1. \/ UNCHANGED job
        \/ \E people \in SUBSET People, team \in BOOLEAN : job' = Outdated(people, team)
    BY <1>0, <1>3 DEF ActivateEvents, PlatformEvents, AdminActivate, SetPlatformAdmin,
          ResetPlatformAdmin, People
  <2>2. QED BY <1>0, <1>1, <2>1, OutdatedKeeps
<1>4. QED BY <1>2, <1>3 DEF Events

\* The statement a handler goes on to.
LEMMA NextStatements ==
    ASSUME TypeInv, NEW w \in Workers
    PROVE  /\ SignInRequests(w) \/ SignUpRequests(w) \/ OAuthRequests(w)
                 => job'[w].at \in {"findLogin", "findRegister", "findOAuth"}
           /\ PlatformRequests(w) => job'[w].at = "issue"
           /\ RefreshRequests(w) => job'[w].at \in {"dropExpired", "dropRefused"} \cup Refreshing
           /\ ResetRequests(w) => job'[w].at \in {"invalidate", "applyReset"}
           /\ SuspendRequests(w) => job'[w].at = "dropCompany"
           /\ DeactivateRequests(w) \/ Deactivate(w) => job'[w].at = "dropUser"
           /\ InviteRequests(w) => job'[w].at = "checkPending"
           /\ AcceptRequests(w) \/ InvitationRequests(w) => job'[w].at \in Holding
           /\ TeamRequests(w) => job'[w].at \in Deciding
           /\ Issue(w) \/ DropExpired(w) \/ DropRefused(w) \/ CreateLink(w) \/ ApplyReset(w)
                \/ DropCompany(w) \/ DropUser(w) \/ Allow(w) \/ Revoke(w) \/ MarkExpired(w)
                \/ WriteUser(w) \/ Fail(w)
                 => job'[w] = Idle
           /\ Recheck(w) => job'[w].at \in {"rotate", "dropRefused"}
           /\ Rotate(w) => job'[w].at = "issue"
           /\ FindLogin(w) \/ FindRegister(w) \/ FindOAuth(w) \/ CreateOwn(w) \/ Join(w)
                 => job'[w].at \in {"idle", "createOwn", "issue"}
           /\ Invalidate(w) => job'[w].at = "createLink"
           /\ CheckPending(w) \/ CreateInvite(w) \/ Reopen(w)
                 => job'[w].at \in {"idle", "createInvite", "allow"}
           /\ CountActiveAdmins(w) => job'[w].at \in {"idle", "write"}
           /\ CountAdmins(w) => job'[w].at \in {"idle", "deactivate"}
<1>0. job \in [Workers -> Job] /\ Idle.at = "idle"
  BY TablesTyped, IdleIsAJob DEF AccountsTypeOK
<1>1. ASSUME NEW J, Begin(w, J) PROVE job'[w] = J
  BY <1>0, <1>1 DEF Begin
<1>2. \A people, J : \A team \in BOOLEAN :
         job' = [Outdated(people, team) EXCEPT ![w] = J] => job'[w] = J
  BY DEF Outdated
<1>3. ASSUME NEW p, NEW statement, Begin(w, SigningIn(p, statement)) PROVE job'[w].at = statement
  <2>1. SigningIn(p, statement).at = statement
    BY DEF SigningIn, Idle
  <2>2. QED BY <1>1, <1>3, <2>1
<1>4. SignInRequests(w) \/ SignUpRequests(w) \/ OAuthRequests(w)
         => job'[w].at \in {"findLogin", "findRegister", "findOAuth"}
  BY <1>3 DEF SignInRequests, SignUpRequests, OAuthRequests, Login, Register, SignInOAuth
<1>5. PlatformRequests(w) => job'[w].at = "issue"
  <2>1. SUFFICES ASSUME NEW a \in PlatformAdmins, PlatformLogin(w, a) PROVE job'[w].at = "issue"
    BY DEF PlatformRequests
  <2>2. PICK J : J = [SigningIn(a, "issue") EXCEPT !.pw = account[a].pw]
    OBVIOUS
  <2>3. J.at = "issue"
    BY <2>2 DEF SigningIn, Idle
  <2>4. QED BY <1>1, <2>1, <2>2, <2>3 DEF PlatformLogin
<1>6. RefreshRequests(w) => job'[w].at \in {"dropExpired", "dropRefused"} \cup Refreshing
  <2>1. SUFFICES ASSUME NEW t \in tokens, ReadToken(w, t)
                 PROVE  job'[w].at \in {"dropExpired", "dropRefused"} \cup Refreshing
    BY DEF RefreshRequests
  <2>2. PICK refresh : refresh = [Idle EXCEPT !.who = t.user, !.ref = t.id, !.root = t.root,
                                              !.pw = t.pw, !.why = t.why]
    OBVIOUS
  <2>3. PICK statement \in {"dropExpired", "dropRefused", "recheck", "rotate"} :
           job' = [job EXCEPT ![w] = [refresh EXCEPT !.at = statement]]
    BY <2>1, <2>2 DEF ReadToken, Begin
  <2>4. [refresh EXCEPT !.at = statement].at = statement
    BY <2>2 DEF Idle
  <2>5. QED BY <1>0, <2>3, <2>4
<1>7. ResetRequests(w) => job'[w].at \in {"invalidate", "applyReset"}
  <2>1. ASSUME NEW u \in Users, ForgotPassword(w, u) PROVE job'[w].at = "invalidate"
    <3>1. PICK J : J = [Idle EXCEPT !.at = "invalidate", !.who = u]
      OBVIOUS
    <3>2. J.at = "invalidate"
      BY <3>1 DEF Idle
    <3>3. QED BY <1>1, <2>1, <3>1, <3>2 DEF ForgotPassword
  <2>2. ASSUME NEW l \in links, ReadLink(w, l) PROVE job'[w].at = "applyReset"
    <3>1. PICK J : J = [Idle EXCEPT !.at = "applyReset", !.who = l.user, !.ref = l.id]
      OBVIOUS
    <3>2. J.at = "applyReset"
      BY <3>1 DEF Idle
    <3>3. QED BY <1>1, <2>2, <3>1, <3>2 DEF ReadLink
  <2>3. QED BY <2>1, <2>2 DEF ResetRequests
<1>8. ASSUME NEW p, NEW statement, job'[w] = [Idle EXCEPT !.at = statement, !.who = p]
      PROVE  job'[w].at = statement
  BY <1>8 DEF Idle
<1>9. SuspendRequests(w) => job'[w].at = "dropCompany"
  BY <1>2, <1>8 DEF SuspendRequests, Suspend
<1>10. DeactivateRequests(w) \/ Deactivate(w) => job'[w].at = "dropUser"
  BY <1>2, <1>8 DEF DeactivateRequests, AdminDeactivate, Deactivate
<1>11. InviteRequests(w) => job'[w].at = "checkPending"
  BY <1>0 DEF InviteRequests, Invite, Begin, Idle
<1>12. AcceptRequests(w) \/ InvitationRequests(w) => job'[w].at \in Holding
  <2>1. ASSUME NEW i, NEW a, NEW statement, Begin(w, Reading(i, a, statement))
        PROVE  job'[w].at = statement
    BY <1>1, <2>1 DEF Reading, Idle
  <2>2. ASSUME NEW i, Begin(w, [Reading(i, None, "join") EXCEPT !.pw = 1])
        PROVE  job'[w].at = "join"
    BY <1>1, <2>2 DEF Reading, Idle
  <2>3. QED
    BY <2>1, <2>2 DEF AcceptRequests, InvitationRequests, ViewInvitation, AcceptInvitation,
          ResendInvitation, RevokeInvitation
<1>13. TeamRequests(w) => job'[w].at \in Deciding
  <2>1. ASSUME NEW u \in Users, NEW a \in Users, NEW c \in Changes, UpdateUser(w, a, u, c)
        PROVE  job'[w].at \in Deciding
    <3>1. PICK statement \in Deciding :
             statement = IF account[u].admin /\ (c.role = "MEMBER" \/ c.active = "off")
                         THEN "count" ELSE "write"
      OBVIOUS
    <3>2. PICK J : J = [Idle EXCEPT !.at = statement, !.who = u, !.by = a, !.to = c]
      OBVIOUS
    <3>3. J.at = statement
      BY <3>2 DEF Idle
    <3>4. QED BY <1>1, <2>1, <3>1, <3>2, <3>3 DEF UpdateUser
  <2>2. ASSUME NEW u \in Users, NEW a \in Users, RemoveUser(w, a, u)
        PROVE  job'[w].at \in Deciding
    <3>1. PICK statement \in Deciding :
             statement = IF account[u].admin THEN "countAll" ELSE "deactivate"
      OBVIOUS
    <3>2. PICK J : J = [Idle EXCEPT !.at = statement, !.who = u, !.by = a]
      OBVIOUS
    <3>3. J.at = statement
      BY <3>2 DEF Idle
    <3>4. QED BY <1>1, <2>2, <3>1, <3>2, <3>3 DEF RemoveUser
  <2>3. QED BY <2>1, <2>2 DEF TeamRequests
<1>14. Issue(w) \/ DropExpired(w) \/ DropRefused(w) \/ CreateLink(w) \/ ApplyReset(w)
         \/ DropCompany(w) \/ DropUser(w) \/ Allow(w) \/ Revoke(w) \/ MarkExpired(w)
         \/ WriteUser(w) \/ Fail(w)
          => job'[w] = Idle
  BY <1>0, <1>2 DEF Issue, DropExpired, DropRefused, CreateLink, ApplyReset, DropCompany, DropUser,
        Allow, Revoke, MarkExpired, WriteUser, Fail, End
<1>15. Join(w) => job'[w].at \in {"idle", "createOwn", "issue"}
  <2>1. PICK f, why : /\ f = Outdated({}, TRUE)
                      /\ why = IF Home \in suspended THEN {"unchecked"} ELSE {}
    OBVIOUS
  <2>2. f \in [Workers -> Job]
    BY <2>1, TablesTyped, OutdatedIsTyped
  <2>3. CASE job' = [f EXCEPT ![w] = [f[w] EXCEPT !.at = "issue", !.why = why]]
    BY <2>2, <2>3 DEF Job
  <2>4. QED BY <1>0, <2>1, <2>2, <2>3 DEF Join, End
<1>16. \A statement : Goto(w, statement) => job'[w].at = statement
  BY <1>0 DEF Goto, Job
<1>17. FindLogin(w) \/ FindRegister(w) \/ FindOAuth(w) \/ CreateOwn(w)
          => job'[w].at \in {"idle", "createOwn", "issue"}
  BY <1>0 DEF FindLogin, FindRegister, FindOAuth, CreateOwn, Goto, End, Job
<1>18. /\ Recheck(w) => job'[w].at \in {"rotate", "dropRefused"}
       /\ Rotate(w) => job'[w].at = "issue"
       /\ Invalidate(w) => job'[w].at = "createLink"
  BY <1>16 DEF Recheck, Rotate, Invalidate
<1>19. /\ CheckPending(w) \/ CreateInvite(w) \/ Reopen(w)
             => job'[w].at \in {"idle", "createInvite", "allow"}
       /\ CountActiveAdmins(w) => job'[w].at \in {"idle", "write"}
       /\ CountAdmins(w) => job'[w].at \in {"idle", "deactivate"}
  BY <1>0, <1>16 DEF CheckPending, CreateInvite, Reopen, CountActiveAdmins, CountAdmins, End
<1>20. QED
  BY <1>4, <1>5, <1>6, <1>7, <1>9, <1>10, <1>11, <1>12, <1>13, <1>14, <1>15, <1>17, <1>18, <1>19

-----------------------------------------------------------------------------
(* Accepted invitations *)

\* Worker w has read invitation i and not written it yet.
Holds(w, i) == job[w].at \in Holding /\ job[w].inv = i

\* An accepted invitation that nobody contested is in no handler's hands: whoever
\* reads it refuses it.
Settled(i) == invitation[i].status = "ACCEPTED" /\ \A w \in Workers : ~Holds(w, i)

InvitationInv == \A i \in joined : i \in contested \/ Settled(i)

\* Worker w writes no invitation and reads none.
LEMMA NothingRead ==
    ASSUME TypeInv, InvitationInv, NEW w \in Workers, \A v \in Workers \ {w} : Keeps(v),
           job'[w].at \notin Holding, UNCHANGED <<invitation, joined, contested>>
    PROVE  InvitationInv'
<1>1. ASSUME NEW i \in joined, Settled(i) PROVE Settled(i)'
  BY <1>1 DEF Settled, Holds, Keeps, SameBusiness
<1>2. QED BY <1>1 DEF InvitationInv

\* Worker w writes the invitation it holds and lets go of it.
LEMMA HeldIsWritten ==
    ASSUME TypeInv, InvitationInv, NEW w \in Workers, \A v \in Workers \ {w} : Keeps(v),
           NEW i \in Invitations, Holds(w, i), NEW row \in Invitation,
           invitation' = [invitation EXCEPT ![i] = row], job'[w].at \notin Holding,
           \/ joined' = joined
           \/ joined' = joined \cup {i} /\ row.status = "ACCEPTED",
           Contest(w, i)
    PROVE  InvitationInv'
<1>1. ASSUME NEW k \in joined, k # i, Settled(k) PROVE Settled(k)'
  BY <1>1, TablesTyped DEF Settled, Holds, Keeps, SameBusiness
<1>2. contested \subseteq contested'
  BY DEF Contest
<1>3. i \in joined => i \in contested'
  BY <1>2 DEF InvitationInv, Settled
<1>4. ASSUME i \notin contested', row.status = "ACCEPTED" PROVE Settled(i)'
  <2>1. \A v \in Workers \ {w} : ~Holds(v, i)
    BY <1>4 DEF Contest, Holds
  <2>2. invitation'[i].status = "ACCEPTED"
    BY <1>4, TablesTyped
  <2>3. QED BY <2>1, <2>2 DEF Settled, Holds, Keeps, SameBusiness
<1>5. QED BY <1>1, <1>2, <1>3, <1>4 DEF InvitationInv

LEMMA HandlersLetGo ==
    ASSUME TypeInv, NEW w \in Workers, Requests(w) \/ Continue(w) \/ Fail(w),
           ~AcceptRequests(w), ~InvitationRequests(w), ~CreateInvite(w), ~Reopen(w), ~Revoke(w),
           ~MarkExpired(w), ~Join(w)
    PROVE  job'[w].at \notin Holding /\ UNCHANGED <<invitation, joined, contested>>
<1>1. CASE SignInRequests(w) \/ SignUpRequests(w) \/ OAuthRequests(w) \/ PlatformRequests(w)
  BY <1>1, NextStatements DEF SignInRequests, SignUpRequests, OAuthRequests, PlatformRequests, Login,
        Register, SignInOAuth, PlatformLogin, tables, history
<1>2. CASE RefreshRequests(w) \/ ResetRequests(w) \/ SuspendRequests(w) \/ DeactivateRequests(w)
  BY <1>2, NextStatements DEF RefreshRequests, ResetRequests, SuspendRequests, DeactivateRequests,
        ReadToken, ForgotPassword, ReadLink, Suspend, AdminDeactivate, tables, history
<1>3. CASE InviteRequests(w) \/ TeamRequests(w)
  BY <1>3, NextStatements DEF InviteRequests, TeamRequests, Invite, UpdateUser, RemoveUser, tables,
        history
<1>4. CASE \/ Issue(w) \/ DropExpired(w) \/ DropRefused(w) \/ CreateLink(w) \/ ApplyReset(w)
           \/ DropCompany(w) \/ DropUser(w) \/ Allow(w) \/ WriteUser(w) \/ Fail(w)
  <2>1. job'[w] = Idle
    BY <1>4, NextStatements
  <2>2. UNCHANGED <<invitation, joined, contested>>
    BY <1>4 DEF Issue, DropExpired, DropRefused, CreateLink, ApplyReset, DropCompany, DropUser,
          Allow, WriteUser, Fail, history
  <2>3. QED BY <2>1, <2>2, IdleIsAJob
<1>5. CASE \/ Recheck(w) \/ Rotate(w) \/ FindLogin(w) \/ FindRegister(w) \/ FindOAuth(w)
           \/ CreateOwn(w) \/ Invalidate(w)
  BY <1>5, NextStatements DEF Recheck, Rotate, FindLogin, FindRegister, FindOAuth, CreateOwn,
        Invalidate, tables, history
<1>6. CASE CheckPending(w) \/ CountActiveAdmins(w) \/ CountAdmins(w) \/ Deactivate(w)
  BY <1>6, NextStatements DEF CheckPending, CountActiveAdmins, CountAdmins, Deactivate, tables,
        history
<1>7. QED BY <1>1, <1>2, <1>3, <1>4, <1>5, <1>6 DEF Requests, Continue

LEMMA InvitationStepKeeps == TypeInv /\ InvitationInv /\ [Next]_vars => InvitationInv'
<1> SUFFICES ASSUME TypeInv, InvitationInv, [Next]_vars PROVE InvitationInv'
  OBVIOUS
<1>0. AccountsTypeOK /\ job \in [Workers -> Job] /\ \A w \in Workers : HandlerOK(job[w])
  BY TablesTyped DEF AccountsTypeOK
<1>1. ASSUME NEW w \in Workers, Requests(w) \/ Continue(w) \/ Fail(w),
             job'[w].at \notin Holding /\ UNCHANGED <<invitation, joined, contested>>
      PROVE  InvitationInv'
  BY <1>1, OthersKeep, NothingRead
<1>2. ASSUME NEW w \in Workers, InviteRequests(w) PROVE InvitationInv'
  <2>1. job'[w].at \notin Holding /\ UNCHANGED <<invitation, joined, contested>>
    BY <1>0, <1>2 DEF InviteRequests, Invite, Begin, Idle, tables, history
  <2>2. QED BY <1>1, <1>2, <2>1 DEF Requests
<1>3. ASSUME NEW w \in Workers, AcceptRequests(w) \/ InvitationRequests(w) PROVE InvitationInv'
  <2>1. PICK i \in Invitations :
           /\ Row(i).status \notin {"none", "ACCEPTED"}
           /\ \E a, statement : \/ Begin(w, Reading(i, a, statement))
                               \/ Begin(w, [Reading(i, a, statement) EXCEPT !.pw = 1])
           /\ UNCHANGED <<tables, history>>
    BY <1>3 DEF AcceptRequests, InvitationRequests, ViewInvitation, AcceptInvitation,
          ResendInvitation, RevokeInvitation
  <2>2. job'[w].inv = i
    <3>1. PICK a, statement : \/ Begin(w, Reading(i, a, statement))
                              \/ Begin(w, [Reading(i, a, statement) EXCEPT !.pw = 1])
      BY <2>1
    <3>2. PICK J : /\ J = Reading(i, a, statement) \/ J = [Reading(i, a, statement) EXCEPT !.pw = 1]
                   /\ Begin(w, J)
      BY <3>1
    <3>3. J.inv = i
      BY <3>2 DEF Reading, Idle
    <3>4. QED BY <1>0, <3>2, <3>3 DEF Begin
  <2>3. \A v \in Workers \ {w} : Keeps(v)
    BY <1>3, OthersKeep DEF Requests
  <2>4. i \in joined => i \in contested
    BY <2>1 DEF InvitationInv, Settled, Row
  <2>5. ASSUME NEW k \in joined, Settled(k), k # i PROVE Settled(k)'
    BY <2>1, <2>2, <2>3, <2>5 DEF Settled, Holds, Keeps, SameBusiness, tables
  <2>6. QED BY <2>1, <2>4, <2>5 DEF InvitationInv, history
<1>4. ASSUME NEW w \in Workers, CreateInvite(w) PROVE InvitationInv'
  <2>1. PICK k \in Invitations :
           Row(k) = NoInvitation /\ \E row : invitation' = [invitation EXCEPT ![k] = row]
    BY <1>4 DEF CreateInvite
  <2>2. job'[w].at = "allow" /\ \A v \in Workers \ {w} : Keeps(v)
    BY <1>0, <1>4, OthersKeep DEF CreateInvite, Goto, Job, Continue
  <2>3. k \in joined => k \in contested
    BY <2>1 DEF InvitationInv, Settled, Row, NoInvitation
  <2>4. ASSUME NEW i \in joined, Settled(i), i # k PROVE Settled(i)'
    BY <2>1, <2>2, <2>4 DEF Settled, Holds, Keeps, SameBusiness
  <2>5. QED BY <1>4, <2>3, <2>4 DEF InvitationInv, CreateInvite, history
<1>5. ASSUME NEW w \in Workers, Reopen(w) \/ Revoke(w) \/ MarkExpired(w) PROVE InvitationInv'
  <2>1. PICK i \in Invitations : i = job[w].inv /\ Holds(w, i) /\ invitation[i] \in Invitation
    BY <1>0, <1>5, TablesTyped DEF HandlerOK, Reopen, Revoke, MarkExpired, Holds
  <2>2. PICK row \in Invitation : invitation' = [invitation EXCEPT ![i] = row]
    <3>1. CASE Reopen(w)
      <4>1. PICK row \in Invitation : row = [invitation[i] EXCEPT !.status = "PENDING", !.expired = FALSE]
        BY <2>1 DEF Invitation, InvitationStatus
      <4>2. QED BY <2>1, <3>1, <4>1, TablesTyped DEF Reopen
    <3>2. ASSUME NEW status \in {"REVOKED", "EXPIRED"}, WriteStatus(w, status)
          PROVE  \E row \in Invitation : invitation' = [invitation EXCEPT ![i] = row]
      <4>1. PICK row \in Invitation : row = [invitation[i] EXCEPT !.status = status]
        BY <2>1 DEF Invitation, InvitationStatus
      <4>2. QED BY <2>1, <3>2, <4>1, TablesTyped DEF WriteStatus
    <3>3. QED BY <1>5, <3>1, <3>2 DEF Revoke, MarkExpired
  <2>3. job'[w].at \notin Holding /\ UNCHANGED joined /\ Contest(w, i)
    BY <1>0, <1>5, <2>1, IdleIsAJob DEF Reopen, Revoke, MarkExpired, WriteStatus, Goto, End, Job
  <2>4. \A v \in Workers \ {w} : Keeps(v)
    BY <1>5, OthersKeep DEF Continue
  <2>5. QED BY <2>1, <2>2, <2>3, <2>4, HeldIsWritten
<1>6. ASSUME NEW w \in Workers, Join(w) PROVE InvitationInv'
  <2>1. \A v \in Workers \ {w} : Keeps(v)
    BY <1>6, OthersKeep DEF Continue
  <2>2. CASE Exists(job[w].who)
    BY <1>0, <1>6, <2>1, <2>2, NothingRead, IdleIsAJob DEF Join, End
  <2>3. CASE ~Exists(job[w].who)
    <3>1. PICK i \in Invitations : i = job[w].inv /\ Holds(w, i) /\ invitation[i] \in Invitation
      BY <1>0, <1>6, TablesTyped DEF HandlerOK, Join, Holds
    <3>2. PICK row \in Invitation : row = [invitation[i] EXCEPT !.status = "ACCEPTED"]
      BY <3>1 DEF Invitation, InvitationStatus
    <3>3. /\ invitation' = [invitation EXCEPT ![i] = row] /\ row.status = "ACCEPTED"
          /\ joined' = joined \cup {i} /\ Contest(w, i)
      BY <1>6, <2>3, <3>1, <3>2, TablesTyped DEF Join, Invitation
    <3>4. PICK f, why : /\ f = Outdated({}, TRUE)
                        /\ why = IF Home \in suspended THEN {"unchecked"} ELSE {}
      OBVIOUS
    <3>5. f \in [Workers -> Job]
      BY <1>0, <3>4, OutdatedIsTyped
    <3>6. job' = [f EXCEPT ![w] = [f[w] EXCEPT !.at = "issue", !.why = why]]
      BY <1>6, <2>3, <3>4, <3>5 DEF Join
    <3>7. job'[w].at = "issue"
      BY <3>5, <3>6 DEF Job
    <3>8. QED BY <2>1, <3>1, <3>3, <3>7, HeldIsWritten
  <2>4. QED BY <2>2, <2>3
<1>7. ASSUME Events PROVE InvitationInv'
  <2>1. UNCHANGED <<joined, contested>> /\ \A i \in joined : invitation'[i].status = invitation[i].status
    <3>1. CASE InvitationEvents
      <4>1. PICK k \in Invitations : InvitationExpires(k)
        BY <3>1 DEF InvitationEvents
      <4>2. invitation[k] \in Invitation
        BY <4>1, TablesTyped DEF InvitationExpires, Row
      <4>3. PICK row : row = [invitation[k] EXCEPT !.expired = TRUE]
        OBVIOUS
      <4>4. invitation' = [invitation EXCEPT ![k] = row] /\ row.status = invitation[k].status
        BY <4>1, <4>2, <4>3 DEF InvitationExpires, Invitation
      <4>5. QED BY <4>1, <4>4, TablesTyped DEF InvitationExpires, history, TypeInv, AccountsTypeOK
    <3>2. CASE ~InvitationEvents
      BY <1>7, <3>2 DEF Events, LogoutEvents, ExpiryEvents, ReinstateEvents, AllowlistEvents,
            LinkEvents, ActivateEvents, PlatformEvents, Logout, TokenExpires, Reinstate,
            ChangeAllowlist, LinkExpires, AdminActivate, SetPlatformAdmin, ResetPlatformAdmin, history
    <3>3. QED BY <3>1, <3>2
  <2>2. \A v \in Workers : Keeps(v)
    BY <1>7, EventsKeep
  <2>3. ASSUME NEW i \in joined, Settled(i) PROVE Settled(i)'
    BY <2>1, <2>2, <2>3 DEF Settled, Holds, Keeps, SameBusiness
  <2>4. QED BY <2>1, <2>3 DEF InvitationInv
<1>8. CASE UNCHANGED vars
  BY <1>8 DEF InvitationInv, Settled, Holds, vars, tables, history
<1>9. ASSUME NEW w \in Workers, Requests(w) \/ Continue(w) \/ Fail(w) PROVE InvitationInv'
  BY <1>1, <1>2, <1>3, <1>4, <1>5, <1>6, <1>9, HandlersLetGo DEF Requests, Continue
<1>10. QED BY <1>7, <1>8, <1>9 DEF Next

\* An invitation somebody has joined with is not opened, revoked or expired again,
\* unless another handler held what it had read of it before.
THEOREM JoinedInvitationsStay == Spec => []JoinedStaysAccepted
<1>1. Init => InvitationInv
  BY DEF Init, InvitationInv
<1>2. InvitationInv => JoinedStaysAccepted
  BY DEF InvitationInv, Settled, JoinedStaysAccepted
<1>3. QED BY <1>1, <1>2, TypesHold, InvitationStepKeeps, PTL DEF Spec

-----------------------------------------------------------------------------
(* The last administrator *)

\* The change would cost an administrator.
Costs(j) == account[j.who].admin /\ (j.to.role = "MEMBER" \/ j.to.active = "off")

\* What a handler whose picture of the team is up to date has seen to: somebody else
\* is an active administrator.
DecisionOK(j) ==
    ~j.stale =>
        /\ j.at \in {"countAll", "deactivate"} => j.by # j.who /\ j.by \in ActiveAdmins
        /\ j.at = "write" /\ Costs(j) => \E p \in ActiveAdmins : p # j.who

TeamInv == \A w \in Workers : DecisionOK(job[w])

\* Nobody joins, leaves or changes his role or activation.
SameTeam ==
    \A u \in Users : /\ Member(u)' <=> Member(u)
                     /\ Member(u) => /\ account'[u].admin = account[u].admin
                                     /\ account'[u].active = account[u].active

LEMMA TeamOfTwo ==
    ASSUME NEW u, Cardinality(ActiveAdmins) > 1
    PROVE  \E p \in ActiveAdmins : p # u
<1>1. SUFFICES ASSUME ActiveAdmins \subseteq {u} PROVE FALSE
  OBVIOUS
<1>2. IsFiniteSet({u}) /\ Cardinality({u}) = 1
  BY FS_Singleton
<1>3. Cardinality(ActiveAdmins) <= 1 /\ Cardinality(ActiveAdmins) \in Nat
  BY <1>1, <1>2, FS_Subset, FS_CardinalityType
<1>4. QED BY <1>3

LEMMA TeamStands ==
    ASSUME SameTeam
    PROVE  ActiveAdmins' = ActiveAdmins
BY DEF SameTeam, ActiveAdmins, Member

\* As long as the team stands, so do the handlers' pictures of it.
LEMMA PictureStands ==
    ASSUME TypeInv, TeamInv, SameTeam, NEW v \in Workers, Keeps(v)
    PROVE  DecisionOK(job[v])'
<1>1. DecisionOK(job[v]) /\ HandlerOK(job[v])
  BY TablesTyped DEF TeamInv
<1>2. job[v].at = "write" => (Costs(job[v])' <=> Costs(job[v]))
  BY <1>1 DEF HandlerOK, AboutUsers, Keeps, SameBusiness, SameTeam, Costs
<1>3. QED BY <1>1, <1>2, TeamStands DEF DecisionOK, Keeps, SameBusiness

LEMMA TeamUndisturbed ==
    ASSUME TypeInv, TeamInv, SameTeam, NEW w \in Workers, \A v \in Workers \ {w} : Keeps(v),
           DecisionOK(job[w])'
    PROVE  TeamInv'
BY PictureStands DEF TeamInv

\* The team changes under the handlers that have read it.
LEMMA TeamChanges ==
    ASSUME TypeInv, NEW people \in SUBSET People, NEW w \in Workers,
           NEW J, J.at \notin Deciding, job' = [Outdated(people, TRUE) EXCEPT ![w] = J]
    PROVE  TeamInv'
<1>1. \A v \in Workers \ {w} : Keeps(v) /\ (job[v].at \in Deciding => job'[v].stale)
  BY TablesTyped, OutdatedKeepsOthers
<1>2. job'[w] = J
  BY DEF Outdated
<1>3. ASSUME NEW v \in Workers PROVE job'[v].at \in Deciding => job'[v].stale
  BY <1>1, <1>2 DEF Keeps, SameBusiness
<1>4. QED BY <1>3 DEF TeamInv, DecisionOK

LEMMA SameAccountsSameTeam ==
    ASSUME UNCHANGED account
    PROVE  SameTeam
BY DEF SameTeam, Member

\* The requests that concern the team: whoever asks is an active administrator.
LEMMA TeamRequestsDecide ==
    ASSUME TypeInv, NEW w \in Workers, TeamRequests(w)
    PROVE  DecisionOK(job[w])' /\ SameTeam
<1>0. job \in [Workers -> Job] /\ UNCHANGED account
  BY TablesTyped DEF AccountsTypeOK, TeamRequests, UpdateUser, RemoveUser, tables
<1>1. ASSUME NEW a \in Users, NEW u \in Users, NEW c \in Changes, UpdateUser(w, a, u, c)
      PROVE  DecisionOK(job[w])'
  <2>1. PICK statement \in {"count", "write"} :
           statement = IF account[u].admin /\ (c.role = "MEMBER" \/ c.active = "off")
                       THEN "count" ELSE "write"
    OBVIOUS
  <2>2. PICK J : J = [Idle EXCEPT !.at = statement, !.who = u, !.by = a, !.to = c]
    OBVIOUS
  <2>3. J.at = statement /\ J.who = u /\ J.to = c
    BY <2>2 DEF Idle
  <2>4. job'[w] = J
    BY <1>0, <1>1, <2>1, <2>2 DEF UpdateUser, Begin
  <2>5. QED BY <1>0, <2>1, <2>3, <2>4 DEF DecisionOK, Costs
<1>2. ASSUME NEW a \in Users, NEW u \in Users, RemoveUser(w, a, u) PROVE DecisionOK(job[w])'
  <2>1. PICK statement \in {"countAll", "deactivate"} :
           statement = IF account[u].admin THEN "countAll" ELSE "deactivate"
    OBVIOUS
  <2>2. PICK J : J = [Idle EXCEPT !.at = statement, !.who = u, !.by = a]
    OBVIOUS
  <2>3. J.at = statement /\ J.who = u /\ J.by = a
    BY <2>2 DEF Idle
  <2>4. job'[w] = J /\ a # u
    BY <1>0, <1>2, <2>1, <2>2 DEF RemoveUser, Begin
  <2>5. a \in ActiveAdmins'
    BY <1>0, <1>2 DEF RemoveUser, IsAdmin, Authenticated, Barred, ActiveAdmins, Member
  <2>6. QED BY <2>1, <2>3, <2>4, <2>5 DEF DecisionOK
<1>3. QED BY <1>0, <1>1, <1>2, SameAccountsSameTeam DEF TeamRequests

LEMMA CountsDecide ==
    ASSUME TypeInv, TeamInv, NEW w \in Workers, CountActiveAdmins(w) \/ CountAdmins(w)
    PROVE  DecisionOK(job[w])' /\ SameTeam
<1>0. /\ job \in [Workers -> Job] /\ UNCHANGED account /\ job[w] \in Job
      /\ DecisionOK(job[w]) /\ HandlerOK(job[w])
  BY TablesTyped DEF AccountsTypeOK, CountActiveAdmins, CountAdmins, tables, TeamInv
<1>1. SameTeam /\ ActiveAdmins' = ActiveAdmins
  BY <1>0, SameAccountsSameTeam, TeamStands
<1>2. CASE End(w)
  <2>1. job'[w].at = "idle"
    BY <1>0, <1>2, IdleIsAJob DEF End
  <2>2. QED BY <1>1, <2>1 DEF DecisionOK
<1>3. CASE ~End(w)
  <2>1. PICK statement \in {"write", "deactivate"} : Goto(w, statement)
    BY <1>3 DEF CountActiveAdmins, CountAdmins
  <2>2. PICK J : J = [job[w] EXCEPT !.at = statement]
    OBVIOUS
  <2>3. /\ job'[w] = J /\ J.at = statement /\ J.who = job[w].who /\ J.by = job[w].by
        /\ J.stale = job[w].stale
    BY <1>0, <2>1, <2>2 DEF Goto, Job
  <2>4. CASE CountActiveAdmins(w)
    <3>1. Cardinality(ActiveAdmins) > 1 /\ J.at = "write"
      BY <1>0, <1>3, <2>3, <2>4, NextStatements DEF CountActiveAdmins, Goto, Job
    <3>2. \E p \in ActiveAdmins' : p # J.who
      BY <1>1, <3>1, TeamOfTwo
    <3>3. job'[w].at = "write" /\ \E p \in ActiveAdmins' : p # job'[w].who
      BY <2>3, <3>1, <3>2
    <3>4. QED BY <1>1, <3>3 DEF DecisionOK
  <2>5. CASE CountAdmins(w)
    <3>1. J.at = "deactivate" /\ job[w].at = "countAll"
      BY <2>1, <2>3, <2>5, NextStatements DEF CountAdmins
    <3>2. QED BY <1>0, <1>1, <2>3, <3>1 DEF DecisionOK
  <2>6. QED BY <2>4, <2>5
<1>4. QED BY <1>1, <1>2, <1>3

LEMMA TeamStays ==
    ASSUME TypeInv, NEW w \in Workers, Requests(w) \/ Continue(w) \/ Fail(w),
           ~DeactivateRequests(w), ~Deactivate(w), ~WriteUser(w), ~Join(w)
    PROVE  SameTeam
<1>0. account \in [People -> Account] /\ Users \subseteq People /\ HandlerOK(job[w])
  BY TablesTyped
<1>1. CASE Requests(w)
  <2>1. UNCHANGED account
    BY <1>1 DEF Requests, SignInRequests, SignUpRequests, OAuthRequests, PlatformRequests,
          RefreshRequests, ResetRequests, SuspendRequests, InviteRequests, AcceptRequests,
          InvitationRequests, TeamRequests, Login, Register, SignInOAuth, PlatformLogin, ReadToken,
          ForgotPassword, ReadLink, Suspend, Invite, ViewInvitation, AcceptInvitation,
          ResendInvitation, RevokeInvitation, UpdateUser, RemoveUser, tables
  <2>2. QED BY <2>1, SameAccountsSameTeam
<1>2. CASE CreateOwn(w)
  <2>1. PICK p \in Users : p = job[w].who /\ p # Home
    BY <1>0, <1>2, NobodyIsTyped DEF CreateOwn, HandlerOK, AboutUsers
  <2>2. PICK a : a = [company |-> p, admin |-> TRUE, active |-> TRUE, pw |-> job[w].pw]
    OBVIOUS
  <2>3. account' = account \/ (~Exists(p) /\ account' = [account EXCEPT ![p] = a])
    <3>1. CASE Exists(p)
      BY <1>2, <2>1, <3>1 DEF CreateOwn
    <3>2. CASE ~Exists(p)
      BY <1>2, <2>1, <2>2, <3>2 DEF CreateOwn
    <3>3. QED BY <3>1, <3>2
  <2>4. QED BY <1>0, <2>1, <2>2, <2>3, NobodyIsTyped DEF SameTeam, Member, Exists, NoAccount
<1>3. CASE ApplyReset(w)
  <2>1. PICK p \in People : p = job[w].who
    BY <1>0, <1>3 DEF ApplyReset, HandlerOK, AboutUsers
  <2>2. PICK a : a = [account[p] EXCEPT !.pw = account[p].pw + 1]
    OBVIOUS
  <2>3. /\ account' = [account EXCEPT ![p] = a] /\ a.company = account[p].company
        /\ a.admin = account[p].admin /\ a.active = account[p].active
    BY <1>0, <1>3, <2>1, <2>2 DEF ApplyReset, Account
  <2>4. QED BY <1>0, <2>3 DEF SameTeam, Member
<1>4. CASE Continue(w) \/ Fail(w)
  <2>1. CASE CreateOwn(w) \/ ApplyReset(w)
    BY <1>2, <1>3, <2>1
  <2>2. CASE ~CreateOwn(w) /\ ~ApplyReset(w)
    <3>1. UNCHANGED account
      BY <1>4, <2>2 DEF Continue, Issue, Recheck, Rotate, DropExpired, DropRefused, FindLogin,
            FindRegister, FindOAuth, Invalidate, CreateLink, DropCompany, DropUser, CheckPending,
            CreateInvite, Allow, Reopen, Revoke, MarkExpired, WriteStatus, CountActiveAdmins,
            CountAdmins, Fail, tables
    <3>2. QED BY <3>1, SameAccountsSameTeam
  <2>3. QED BY <2>1, <2>2
<1>5. QED BY <1>1, <1>4

LEMMA EventsKeepTeam ==
    ASSUME TypeInv, Events, ~ActivateEvents
    PROVE  SameTeam
<1>1. Users \subseteq People /\ account \in [People -> Account]
  BY TablesTyped
<1>2. \A u \in Users : account'[u] = account[u]
  BY <1>1, PeopleAssumption DEF Events, LogoutEvents, ExpiryEvents, ReinstateEvents,
        AllowlistEvents, PlatformEvents, LinkEvents, InvitationEvents, Logout, TokenExpires,
        Reinstate, ChangeAllowlist, SetPlatformAdmin, ResetPlatformAdmin, LinkExpires,
        InvitationExpires
<1>3. QED BY <1>2 DEF SameTeam, Member

LEMMA NothingDecided ==
    ASSUME TypeInv, NEW w \in Workers, Requests(w) \/ Continue(w) \/ Fail(w),
           ~TeamRequests(w), ~CountActiveAdmins(w), ~CountAdmins(w)
    PROVE  job'[w].at \notin Deciding
<1>1. CASE Requests(w)
  BY <1>1, NextStatements DEF Requests
<1>2. CASE \/ Issue(w) \/ DropExpired(w) \/ DropRefused(w) \/ CreateLink(w) \/ ApplyReset(w)
           \/ DropCompany(w) \/ DropUser(w) \/ Allow(w) \/ Revoke(w) \/ MarkExpired(w)
           \/ WriteUser(w) \/ Fail(w)
  <2>1. job'[w] = Idle
    BY <1>2, NextStatements
  <2>2. QED BY <2>1, IdleIsAJob
<1>3. CASE \/ Recheck(w) \/ Rotate(w) \/ FindLogin(w) \/ FindRegister(w) \/ FindOAuth(w)
           \/ CreateOwn(w) \/ Join(w) \/ Invalidate(w) \/ CheckPending(w) \/ CreateInvite(w)
           \/ Reopen(w) \/ Deactivate(w)
  BY <1>3, NextStatements
<1>4. QED BY <1>1, <1>2, <1>3 DEF Continue

LEMMA TeamStepKeeps == TypeInv /\ TeamInv /\ [Next]_vars => TeamInv'
<1> SUFFICES ASSUME TypeInv, TeamInv, [Next]_vars PROVE TeamInv'
  OBVIOUS
<1>0. /\ {} \in SUBSET People /\ \A p \in People : {p} \in SUBSET People
      /\ \A w \in Workers : HandlerOK(job[w])
  BY TablesTyped
<1>1. ASSUME NEW w \in Workers, TeamRequests(w) \/ CountActiveAdmins(w) \/ CountAdmins(w)
      PROVE  TeamInv'
  BY <1>1, OthersKeep, TeamRequestsDecide, CountsDecide, TeamUndisturbed DEF Requests, Continue
<1>2. ASSUME NEW w \in Workers, Requests(w) \/ Continue(w) \/ Fail(w), SameTeam,
             ~TeamRequests(w), ~CountActiveAdmins(w), ~CountAdmins(w)
      PROVE  TeamInv'
  BY <1>2, NothingDecided, OthersKeep, TeamUndisturbed DEF DecisionOK
<1>3. ASSUME NEW w \in Workers, DeactivateRequests(w) \/ Deactivate(w) PROVE TeamInv'
  <2>1. PICK u \in People :
           job' = [Outdated({u}, TRUE) EXCEPT ![w] = [Idle EXCEPT !.at = "dropUser", !.who = u]]
    BY <1>0, <1>3, TablesTyped
       DEF DeactivateRequests, AdminDeactivate, Deactivate, HandlerOK, AboutUsers
  <2>2. PICK J : J = [Idle EXCEPT !.at = "dropUser", !.who = u]
    OBVIOUS
  <2>3. J.at = "dropUser"
    BY <2>2 DEF Idle
  <2>4. QED BY <1>0, <2>1, <2>2, <2>3, TeamChanges
<1>4. ASSUME NEW w \in Workers, WriteUser(w) PROVE TeamInv'
  <2>1. PICK people \in SUBSET People :
           people = IF job[w].to.active = "off" THEN {job[w].who} ELSE {}
    BY <1>0, <1>4, TablesTyped DEF WriteUser, HandlerOK, AboutUsers
  <2>2. job' = [Outdated(people, TRUE) EXCEPT ![w] = Idle]
    BY <1>4, <2>1 DEF WriteUser
  <2>3. QED BY <2>2, IdleIsAJob, TeamChanges
<1>5. ASSUME NEW w \in Workers, Join(w) PROVE TeamInv'
  <2>1. CASE Exists(job[w].who)
    <3>1. UNCHANGED account /\ job' = [job EXCEPT ![w] = Idle]
      BY <1>5, <2>1 DEF Join, End
    <3>2. job'[w].at \notin Deciding /\ SameTeam
      BY <3>1, TablesTyped, IdleIsAJob, SameAccountsSameTeam DEF AccountsTypeOK
    <3>3. QED BY <1>5, <3>2, OthersKeep, TeamUndisturbed DEF Continue, DecisionOK
  <2>2. CASE ~Exists(job[w].who)
    <3>1. PICK f, why : /\ f = Outdated({}, TRUE)
                        /\ why = IF Home \in suspended THEN {"unchecked"} ELSE {}
      OBVIOUS
    <3>2. f \in [Workers -> Job]
      BY <3>1, TablesTyped, OutdatedIsTyped
    <3>3. PICK J : J = [f[w] EXCEPT !.at = "issue", !.why = why]
      OBVIOUS
    <3>4. job' = [f EXCEPT ![w] = J]
      BY <1>5, <2>2, <3>1, <3>2, <3>3 DEF Join
    <3>5. J.at = "issue"
      BY <3>2, <3>3 DEF Job
    <3>6. QED BY <1>0, <3>1, <3>4, <3>5, TeamChanges
  <2>3. QED BY <2>1, <2>2
<1>6. ASSUME NEW w \in Workers, Requests(w) \/ Continue(w) \/ Fail(w) PROVE TeamInv'
  BY <1>1, <1>2, <1>3, <1>4, <1>5, <1>6, TeamStays
<1>7. CASE ActivateEvents
  <2>1. job' = Outdated({}, TRUE)
    BY <1>7 DEF ActivateEvents, AdminActivate
  <2>2. \A v \in Workers : Keeps(v) /\ (job[v].at \in Deciding => job'[v].stale)
    BY <1>0, <2>1, TablesTyped, OutdatedKeeps
  <2>3. QED BY <2>2 DEF TeamInv, DecisionOK, Keeps, SameBusiness
<1>8. CASE Events /\ ~ActivateEvents
  BY <1>8, EventsKeep, EventsKeepTeam, PictureStands DEF TeamInv
<1>9. CASE UNCHANGED vars
  BY <1>9 DEF vars, tables, TeamInv, DecisionOK, Costs, ActiveAdmins, Member
<1>10. QED BY <1>6, <1>7, <1>8, <1>9 DEF Next

\* The step that leaves the team without an active administrator.
LEMMA LastAdminStep ==
    ASSUME TypeInv, TeamInv, Next, ActiveAdmins # {}, ActiveAdmins' = {}
    PROVE  \E w \in Workers :
              \/ job[w].at \in {"write", "deactivate"} /\ job[w].stale /\ job'[w] # job[w]
              \/ job[w] = Idle /\ job'[w].at = "dropUser"
<1>0. /\ account \in [People -> Account] /\ Users \subseteq People
      /\ \A w \in Workers : HandlerOK(job[w]) /\ DecisionOK(job[w]) /\ job[w] \in Job
  BY TablesTyped DEF TeamInv
<1>1. ~SameTeam
  BY TeamStands
<1>2. ASSUME NEW w \in Workers, DeactivateRequests(w)
      PROVE  job[w] = Idle /\ job'[w].at = "dropUser"
  BY <1>2, NextStatements DEF DeactivateRequests, AdminDeactivate
<1>3. ASSUME NEW w \in Workers, Deactivate(w) PROVE job[w].stale /\ job'[w] # job[w]
  <2>1. job[w].at = "deactivate" /\ job'[w].at = "dropUser"
    BY <1>3, NextStatements DEF Deactivate
  <2>2. ASSUME ~job[w].stale PROVE FALSE
    <3>1. PICK u \in Users : u = job[w].who
      BY <1>0, <2>1 DEF HandlerOK, AboutUsers
    <3>2. PICK p \in ActiveAdmins : p # u
      BY <1>0, <2>1, <2>2, <3>1 DEF DecisionOK
    <3>3. account'[p] = account[p]
      BY <1>0, <1>3, <3>1, <3>2 DEF Deactivate, ActiveAdmins
    <3>4. QED BY <3>2, <3>3 DEF ActiveAdmins, Member
  <2>3. QED BY <2>1, <2>2
<1>4. ASSUME NEW w \in Workers, WriteUser(w) PROVE job[w].stale /\ job'[w] # job[w]
  <2>1. job[w].at = "write" /\ job'[w] = Idle
    BY <1>4, NextStatements DEF WriteUser
  <2>2. ASSUME ~job[w].stale PROVE FALSE
    <3>1. PICK u \in Users, change \in Changes : u = job[w].who /\ change = job[w].to
      BY <1>0, <2>1 DEF HandlerOK, AboutUsers, Job
    <3>2. PICK admin, active :
             /\ admin = IF change.role = "keep" THEN account[u].admin ELSE change.role = "ADMIN"
             /\ active = IF change.active = "keep" THEN account[u].active ELSE change.active = "on"
      OBVIOUS
    <3>3. account' = [account EXCEPT ![u].admin = admin, ![u].active = active]
      BY <1>0, <1>4, <3>1, <3>2 DEF WriteUser, Account
    <3>4. /\ \A p \in People : p # u => account'[p] = account[p]
          /\ account'[u].company = account[u].company
          /\ account'[u].admin = admin /\ account'[u].active = active
      BY <1>0, <3>3 DEF Account
    <3>5. CASE Costs(job[w])
      <4>1. PICK p \in ActiveAdmins : p # u
        BY <1>0, <2>1, <2>2, <3>1, <3>5 DEF DecisionOK
      <4>2. QED BY <1>0, <3>4, <4>1 DEF ActiveAdmins, Member
    <3>6. CASE ~Costs(job[w])
      <4>1. PICK p \in ActiveAdmins : TRUE
        OBVIOUS
      <4>2. p \in ActiveAdmins'
        <5>1. CASE p # u
          BY <1>0, <3>4, <4>1, <5>1 DEF ActiveAdmins, Member
        <5>2. CASE p = u
          <6>1. account[u].admin /\ account[u].active /\ account[u].company = Home
            BY <4>1, <5>2 DEF ActiveAdmins, Member
          <6>2. change.role \in {"keep", "ADMIN"} /\ change.active \in {"keep", "on"}
            BY <3>1, <3>6, <6>1 DEF Costs, Changes
          <6>3. admin /\ active
            BY <3>2, <6>1, <6>2
          <6>4. QED BY <3>4, <5>2, <6>1, <6>3 DEF ActiveAdmins, Member
        <5>3. QED BY <5>1, <5>2
      <4>3. QED BY <4>2
    <3>7. QED BY <3>5, <3>6
  <2>3. QED BY <2>1, <2>2, IdleIsAJob
<1>5. ASSUME NEW w \in Workers, Join(w) PROVE FALSE
  <2>1. PICK u \in Users : u = job[w].who
    BY <1>0, <1>5 DEF Join, HandlerOK, AboutUsers
  <2>2. PICK p \in ActiveAdmins : TRUE
    OBVIOUS
  <2>3. account'[p] = account[p]
    <3>1. CASE Exists(u)
      BY <1>5, <2>1, <3>1 DEF Join
    <3>2. CASE ~Exists(u)
      <4>1. p # u
        BY <2>2, <3>2, NobodyIsTyped DEF Exists, ActiveAdmins, Member, NoAccount
      <4>2. QED BY <1>0, <1>5, <2>1, <2>2, <3>2, <4>1 DEF Join, ActiveAdmins
    <3>3. QED BY <3>1, <3>2
  <2>4. QED BY <2>2, <2>3 DEF ActiveAdmins, Member
<1>6. ASSUME ActivateEvents PROVE FALSE
  <2>1. PICK u \in Users : AdminActivate(u)
    BY <1>6 DEF ActivateEvents
  <2>2. PICK a : a = [account[u] EXCEPT !.active = TRUE]
    OBVIOUS
  <2>3. account' = [account EXCEPT ![u] = a] /\ a.active /\ a.company = account[u].company
        /\ a.admin = account[u].admin
    BY <1>0, <2>1, <2>2 DEF AdminActivate, Account
  <2>4. QED BY <1>0, <2>3 DEF ActiveAdmins, Member
<1>7. ASSUME NEW w \in Workers, Requests(w) \/ Continue(w) \/ Fail(w)
      PROVE  \/ job[w].at \in {"write", "deactivate"} /\ job[w].stale /\ job'[w] # job[w]
             \/ job[w] = Idle /\ job'[w].at = "dropUser"
  BY <1>1, <1>2, <1>3, <1>4, <1>5, <1>7, TeamStays DEF Deactivate, WriteUser
<1>8. QED BY <1>1, <1>6, <1>7, EventsKeepTeam DEF Next

\* Whatever requests interleave, the last active administrator of a team goes only by
\* the platform's hand, or by a handler whose picture of the team is out of date.
THEOREM LastAdminIsKept == Spec => LastAdminGoesByRace
<1>1. Init => TeamInv
  BY IdleIsAJob DEF Init, TeamInv, DecisionOK
<1>2. TypeInv /\ TeamInv /\ [Next]_vars =>
         [ActiveAdmins # {} /\ ActiveAdmins' = {} =>
            \E w \in Workers :
               \/ job[w].at \in {"write", "deactivate"} /\ job[w].stale /\ job'[w] # job[w]
               \/ job[w] = Idle /\ job'[w].at = "dropUser"]_vars
  BY LastAdminStep
<1>3. QED BY <1>1, <1>2, TypesHold, TeamStepKeeps, PTL DEF Spec, LastAdminGoesByRace

-----------------------------------------------------------------------------
(* Password-reset links *)

Resetting == {"invalidate", "createLink", "applyReset"}

\* Worker v is about to create a link for u.
Requesting(v, u) == job[v].at \in {"invalidate", "createLink"} /\ job[v].who = u

\* Worker v has found link number k unused and sets a password next.
Applies(v, k) == job[v].at = "applyReset" /\ job[v].ref = k

\* What a link nobody shared has seen: a password at most, and one handler at a time.
LinkOK(l) ==
    /\ ~l.used => l.uses = 0
    /\ ~l.shared => /\ l.uses <= 1
                    /\ l.uses = 1 => \A v \in Workers : ~Applies(v, l.id)
                    /\ \A v1, v2 \in Workers : Applies(v1, l.id) /\ Applies(v2, l.id) => v1 = v2

UsesInv ==
    /\ \A l \in links : LinkOK(l)
    /\ \A v \in Workers : job[v].at = "applyReset" => \E l \in links : l.id = job[v].ref

\* Somebody whose requests never overlapped has one unused link, and none while the next
\* is about to be created.
RequestsOK(u) ==
    /\ \A v1, v2 \in Workers : Requesting(v1, u) /\ Requesting(v2, u) => v1 = v2
    /\ \A l1, l2 \in links : l1.user = u /\ l2.user = u /\ ~l1.used /\ ~l2.used => l1.id = l2.id
    /\ \A v \in Workers : job[v].at = "createLink" /\ job[v].who = u =>
          \A l \in links : l.user = u => l.used

RequestsInv == \A u \in Users : u \in rushed \/ RequestsOK(u)

\* Link m is what has become of l.
Follows(m, l) == m.id = l.id /\ m.user = l.user /\ (l.used => m.used) /\ (l.shared => m.shared)

LinksFollow ==
    /\ \A m \in links' : \E l \in links : Follows(m, l)
    /\ \A l \in links : \E m \in links' : m.id = l.id

LEMMA LinksThatStay ==
    ASSUME UNCHANGED links
    PROVE  LinksFollow /\ \A m \in links' : \E l \in links : Follows(m, l) /\ m.uses = l.uses
BY DEF LinksFollow, Follows

LEMMA LinksThatFollow ==
    ASSUME NEW g, links' = {g[l] : l \in links}, \A l \in links : Follows(g[l], l)
    PROVE  LinksFollow
<1>1. ASSUME NEW l \in links PROVE g[l] \in links' /\ g[l].id = l.id
  BY DEF Follows
<1>2. ASSUME NEW m \in links' PROVE \E l \in links : Follows(m, l)
  OBVIOUS
<1>3. QED BY <1>1, <1>2 DEF LinksFollow

\* No handler begins to apply a link and none is used.
LEMMA UsesStay ==
    ASSUME TypeInv, UsesInv, LinksFollow,
           \A m \in links' : \E l \in links : Follows(m, l) /\ m.uses = l.uses,
           \A v \in Workers : job'[v].at = "applyReset" => job[v].at = "applyReset" /\ job'[v].ref = job[v].ref
    PROVE  UsesInv'
<1>1. \A v \in Workers : \A k : Applies(v, k)' => Applies(v, k)
  BY DEF Applies
<1>2. ASSUME NEW m \in links' PROVE LinkOK(m)'
  <2>1. PICK l \in links : Follows(m, l) /\ m.uses = l.uses
    OBVIOUS
  <2>2. LinkOK(l)
    BY DEF UsesInv
  <2>3. QED BY <1>1, <2>1, <2>2 DEF LinkOK, Follows
<1>3. ASSUME NEW v \in Workers, job'[v].at = "applyReset" PROVE \E m \in links' : m.id = job'[v].ref
  <2>1. PICK l \in links : l.id = job[v].ref
    BY <1>3 DEF UsesInv
  <2>2. QED BY <1>3, <2>1 DEF LinksFollow
<1>4. QED BY <1>2, <1>3 DEF UsesInv

\* No handler begins to create a link and none is created.
LEMMA RequestsStay ==
    ASSUME TypeInv, RequestsInv, LinksFollow, rushed \subseteq rushed',
           \A v \in Workers : job'[v].at \in {"invalidate", "createLink"} =>
              job'[v].at = job[v].at /\ job'[v].who = job[v].who
    PROVE  RequestsInv'
<1>1. ASSUME NEW u \in Users, RequestsOK(u) PROVE RequestsOK(u)'
  <2>1. ASSUME NEW v1 \in Workers, NEW v2 \in Workers, Requesting(v1, u)', Requesting(v2, u)'
        PROVE  v1 = v2
    BY <1>1, <2>1 DEF RequestsOK, Requesting
  <2>2. ASSUME NEW m1 \in links', NEW m2 \in links', m1.user = u, m2.user = u, ~m1.used, ~m2.used
        PROVE  m1.id = m2.id
    BY <1>1, <2>2 DEF RequestsOK, LinksFollow, Follows
  <2>3. ASSUME NEW v \in Workers, job'[v].at = "createLink", job'[v].who = u,
               NEW m \in links', m.user = u
        PROVE  m.used
    BY <1>1, <2>3 DEF RequestsOK, LinksFollow, Follows
  <2>4. QED BY <2>1, <2>2, <2>3 DEF RequestsOK
<1>2. QED BY <1>1 DEF RequestsInv

LEMMA HandlersLeaveLinks ==
    ASSUME TypeInv, NEW w \in Workers, Requests(w) \/ Continue(w) \/ Fail(w),
           ~ResetRequests(w), ~Invalidate(w), ~CreateLink(w), ~ApplyReset(w)
    PROVE  job'[w].at \notin Resetting /\ UNCHANGED <<links, rushed>>
<1>1. job'[w].at \notin Resetting
  <2>1. CASE Requests(w)
    BY <2>1, NextStatements DEF Requests, Resetting
  <2>2. CASE \/ Issue(w) \/ DropExpired(w) \/ DropRefused(w) \/ DropCompany(w) \/ DropUser(w)
             \/ Allow(w) \/ Revoke(w) \/ MarkExpired(w) \/ WriteUser(w) \/ Fail(w)
    <3>1. job'[w] = Idle
      BY <2>2, NextStatements
    <3>2. QED BY <3>1, IdleIsAJob DEF Resetting
  <2>3. CASE \/ Recheck(w) \/ Rotate(w) \/ FindLogin(w) \/ FindRegister(w) \/ FindOAuth(w)
             \/ CreateOwn(w) \/ Join(w) \/ CheckPending(w) \/ CreateInvite(w) \/ Reopen(w)
             \/ Deactivate(w) \/ CountActiveAdmins(w) \/ CountAdmins(w)
    BY <2>3, NextStatements DEF Resetting
  <2>4. QED BY <2>1, <2>2, <2>3 DEF Continue
<1>2. CASE Requests(w)
  BY <1>1, <1>2 DEF Requests, SignInRequests, SignUpRequests, OAuthRequests, PlatformRequests,
        RefreshRequests, SuspendRequests, DeactivateRequests, InviteRequests, AcceptRequests,
        InvitationRequests, TeamRequests, Login, Register, SignInOAuth, PlatformLogin, ReadToken,
        Suspend, AdminDeactivate, Invite, ViewInvitation, AcceptInvitation, ResendInvitation,
        RevokeInvitation, UpdateUser, RemoveUser, tables, history
<1>3. CASE Continue(w) \/ Fail(w)
  BY <1>1, <1>3 DEF Continue, Issue, Recheck, Rotate, DropExpired, DropRefused, FindLogin,
        FindRegister, FindOAuth, CreateOwn, DropCompany, DropUser, CheckPending, CreateInvite,
        Allow, Reopen, Revoke, MarkExpired, Join, CountActiveAdmins, WriteUser, CountAdmins,
        Deactivate, Fail, WriteStatus, Contest, tables, history
<1>4. QED BY <1>2, <1>3

LEMMA EventsLeaveLinks ==
    ASSUME TypeInv, Events
    PROVE  /\ LinksFollow /\ UNCHANGED rushed
           /\ \A m \in links' : \E l \in links : Follows(m, l) /\ m.uses = l.uses
<1>1. CASE LinkEvents
  <2>1. PICK k \in links : LinkExpires(k)
    BY <1>1 DEF LinkEvents
  <2>2. PICK g : g = [l \in links |-> IF l = k THEN [k EXCEPT !.expired = TRUE] ELSE l]
    OBVIOUS
  <2>3. links' = {g[l] : l \in links} /\ UNCHANGED rushed
    BY <2>1, <2>2 DEF LinkExpires, history
  <2>4. ASSUME NEW l \in links PROVE Follows(g[l], l) /\ g[l].uses = l.uses
    BY <2>2, TablesTyped DEF Follows, Link
  <2>5. ASSUME NEW m \in links' PROVE \E l \in links : Follows(m, l) /\ m.uses = l.uses
    BY <2>3, <2>4
  <2>6. QED BY <2>3, <2>4, <2>5, LinksThatFollow
<1>2. CASE ~LinkEvents
  <2>1. UNCHANGED <<links, rushed>>
    BY <1>2 DEF Events, LogoutEvents, ExpiryEvents, ReinstateEvents, ActivateEvents,
          AllowlistEvents, PlatformEvents, InvitationEvents, Logout, TokenExpires, Reinstate,
          AdminActivate, ChangeAllowlist, SetPlatformAdmin, ResetPlatformAdmin, InvitationExpires,
          history
  <2>2. QED BY <2>1, LinksThatStay
<1>3. QED BY <1>1, <1>2

LEMMA ForgotKeepsLinks ==
    ASSUME TypeInv, UsesInv, RequestsInv, NEW w \in Workers, NEW u \in Users, ForgotPassword(w, u)
    PROVE  UsesInv' /\ RequestsInv'
<1>0. job \in [Workers -> Job] /\ UNCHANGED links /\ rushed \subseteq rushed'
  BY TablesTyped DEF AccountsTypeOK, ForgotPassword, tables
<1>1. PICK J : J = [Idle EXCEPT !.at = "invalidate", !.who = u]
  OBVIOUS
<1>2. J.at = "invalidate" /\ J.who = u
  BY <1>1 DEF Idle
<1>3. job'[w] = J /\ \A v \in Workers \ {w} : job'[v] = job[v]
  BY <1>0, <1>1 DEF ForgotPassword, Begin
<1>4. UsesInv'
  BY <1>0, <1>2, <1>3, LinksThatStay, UsesStay
<1>5. u \notin rushed' => \A v \in Workers : ~Requesting(v, u)
  BY DEF ForgotPassword, Requesting
<1>6. ASSUME NEW x \in Users, x \notin rushed' PROVE RequestsOK(x)'
  <2>1. RequestsOK(x)
    BY <1>0, <1>6 DEF RequestsInv
  <2>2. \A v \in Workers : Requesting(v, x)' => (v = w /\ x = u) \/ (v # w /\ Requesting(v, x))
    BY <1>2, <1>3 DEF Requesting
  <2>3. \A v1, v2 \in Workers : Requesting(v1, x)' /\ Requesting(v2, x)' => v1 = v2
    BY <1>5, <1>6, <2>1, <2>2 DEF RequestsOK
  <2>4. \A v \in Workers : job'[v].at = "createLink" => job'[v] = job[v]
    BY <1>2, <1>3
  <2>5. QED BY <1>0, <2>1, <2>3, <2>4 DEF RequestsOK, Requesting
<1>7. QED BY <1>4, <1>6 DEF RequestsInv

LEMMA ReadKeepsLinks ==
    ASSUME TypeInv, UsesInv, RequestsInv, NEW w \in Workers, NEW l \in links, ReadLink(w, l)
    PROVE  UsesInv' /\ RequestsInv'
<1>0. job \in [Workers -> Job] /\ links \subseteq Link /\ LinksOK /\ UNCHANGED rushed
  BY TablesTyped DEF AccountsTypeOK, ReadLink, history
<1>1. PICK J : J = [Idle EXCEPT !.at = "applyReset", !.who = l.user, !.ref = l.id]
  OBVIOUS
<1>2. J.at = "applyReset" /\ J.ref = l.id
  BY <1>1 DEF Idle
<1>3. job'[w] = J /\ \A v \in Workers \ {w} : job'[v] = job[v]
  BY <1>0, <1>1 DEF ReadLink, Begin
<1>4. PICK g : g = [k \in links |-> IF k = l /\ \E v \in Workers : Applies(v, l.id)
                                     THEN [l EXCEPT !.shared = TRUE] ELSE k]
  OBVIOUS
<1>5. links' = {g[k] : k \in links}
  <2>1. CASE \E v \in Workers : Applies(v, l.id)
    BY <1>4, <2>1 DEF ReadLink, Applies
  <2>2. CASE ~\E v \in Workers : Applies(v, l.id)
    BY <1>4, <2>2 DEF ReadLink, Applies
  <2>3. QED BY <2>1, <2>2
<1>6. ASSUME NEW k \in links
      PROVE  /\ Follows(g[k], k) /\ g[k].uses = k.uses /\ g[k].used = k.used
             /\ k = l /\ ~g[k].shared => \A v \in Workers : ~Applies(v, l.id)
  BY <1>0, <1>4 DEF Follows, Link
<1>7. LinksFollow
  BY <1>5, <1>6, LinksThatFollow
<1>8. RequestsInv'
  BY <1>0, <1>2, <1>3, <1>7, RequestsStay
<1>9. ASSUME NEW m \in links' PROVE LinkOK(m)'
  <2>1. PICK k \in links : m = g[k]
    BY <1>5
  <2>2. LinkOK(k) /\ Follows(m, k) /\ m.uses = k.uses /\ m.used = k.used
    BY <1>6, <2>1 DEF UsesInv
  <2>3. CASE k = l
    <3>1. ~k.used /\ k.uses = 0
      BY <2>2, <2>3 DEF ReadLink, LinkOK
    <3>2. ~m.shared => \A v \in Workers : Applies(v, l.id)' => v = w
      BY <1>3, <1>6, <2>1, <2>3 DEF Applies
    <3>3. QED BY <2>2, <2>3, <3>1, <3>2 DEF LinkOK, Follows
  <2>4. CASE k # l
    <3>1. k.id # l.id
      BY <1>0, <2>4 DEF LinksOK
    <3>2. \A v \in Workers : Applies(v, k.id)' => Applies(v, k.id)
      BY <1>2, <1>3, <3>1 DEF Applies
    <3>3. QED BY <2>2, <3>2 DEF LinkOK, Follows
  <2>5. QED BY <2>3, <2>4
<1>10. ASSUME NEW v \in Workers, job'[v].at = "applyReset" PROVE \E m \in links' : m.id = job'[v].ref
  <2>1. PICK k \in links : k.id = job'[v].ref
    BY <1>2, <1>3, <1>10 DEF UsesInv
  <2>2. QED BY <1>7, <2>1 DEF LinksFollow
<1>11. QED BY <1>8, <1>9, <1>10 DEF UsesInv

LEMMA InvalidateKeepsLinks ==
    ASSUME TypeInv, UsesInv, RequestsInv, NEW w \in Workers, Invalidate(w)
    PROVE  UsesInv' /\ RequestsInv'
<1>0. job \in [Workers -> Job] /\ links \subseteq Link /\ UNCHANGED rushed /\ job[w].at = "invalidate"
  BY TablesTyped DEF AccountsTypeOK, Invalidate, history
<1>1. /\ job'[w].at = "createLink" /\ job'[w].who = job[w].who
      /\ \A v \in Workers \ {w} : job'[v] = job[v]
  BY <1>0 DEF Invalidate, Goto, Job
<1>2. PICK g : g = [l \in links |-> IF l.user = job[w].who THEN [l EXCEPT !.used = TRUE] ELSE l]
  OBVIOUS
<1>3. links' = {g[l] : l \in links}
  BY <1>2 DEF Invalidate
<1>4. ASSUME NEW l \in links
      PROVE  Follows(g[l], l) /\ g[l].uses = l.uses /\ (l.user = job[w].who => g[l].used)
  BY <1>0, <1>2 DEF Follows, Link
<1>5. LinksFollow /\ \A m \in links' : \E l \in links : Follows(m, l) /\ m.uses = l.uses
  BY <1>3, <1>4, LinksThatFollow
<1>6. UsesInv'
  BY <1>1, <1>5, UsesStay
<1>7. ASSUME NEW x \in Users, RequestsOK(x) PROVE RequestsOK(x)'
  <2>1. \A v \in Workers : Requesting(v, x)' => Requesting(v, x)
    BY <1>0, <1>1 DEF Requesting
  <2>2. \A v1, v2 \in Workers : Requesting(v1, x)' /\ Requesting(v2, x)' => v1 = v2
    BY <1>7, <2>1 DEF RequestsOK
  <2>3. ASSUME NEW m1 \in links', NEW m2 \in links', m1.user = x, m2.user = x, ~m1.used, ~m2.used
        PROVE  m1.id = m2.id
    <3>1. PICK l1 \in links, l2 \in links : Follows(m1, l1) /\ Follows(m2, l2)
      BY <1>5 DEF LinksFollow
    <3>2. QED BY <1>7, <2>3, <3>1 DEF RequestsOK, Follows
  <2>4. ASSUME NEW v \in Workers, job'[v].at = "createLink", job'[v].who = x,
               NEW m \in links', m.user = x
        PROVE  m.used
    <3>1. PICK l \in links : m = g[l]
      BY <1>3
    <3>2. l.user = x /\ (l.used => m.used)
      BY <1>4, <2>4, <3>1 DEF Follows
    <3>3. CASE v = w
      BY <1>1, <1>4, <2>4, <3>1, <3>2, <3>3
    <3>4. CASE v # w
      BY <1>1, <1>7, <2>4, <3>2, <3>4 DEF RequestsOK
    <3>5. QED BY <3>3, <3>4
  <2>5. QED BY <2>2, <2>3, <2>4 DEF RequestsOK
<1>8. QED BY <1>0, <1>6, <1>7 DEF RequestsInv

LEMMA CreateKeepsLinks ==
    ASSUME TypeInv, UsesInv, RequestsInv, NEW w \in Workers, CreateLink(w)
    PROVE  UsesInv' /\ RequestsInv'
<1>0. /\ job \in [Workers -> Job] /\ links \subseteq Link /\ LinksOK /\ UNCHANGED rushed
      /\ job[w].at = "createLink" /\ Cardinality(links) \in Nat
  BY TablesTyped, FS_CardinalityType DEF AccountsTypeOK, CreateLink, history, LinksOK
<1>1. PICK new : new = [id |-> Cardinality(links) + 1, user |-> job[w].who, used |-> FALSE,
                        expired |-> FALSE, uses |-> 0, shared |-> FALSE]
  OBVIOUS
<1>2. links' = links \cup {new}
  BY <1>1 DEF CreateLink
<1>3. job'[w].at = "idle" /\ \A v \in Workers \ {w} : job'[v] = job[v]
  BY <1>0, IdleIsAJob DEF CreateLink, End
<1>4. \A v \in Workers : \A k : Applies(v, k)' => Applies(v, k)
  BY <1>3 DEF Applies
<1>5. \A v \in Workers : ~Applies(v, new.id)
  <2>1. new.id = Cardinality(links) + 1
    BY <1>1
  <2>2. \A l \in links : l.id \in Nat /\ l.id <= Cardinality(links)
    BY <1>0 DEF LinksOK, Link
  <2>3. \A l \in links : l.id # new.id
    BY <1>0, <2>1, <2>2
  <2>4. QED BY <2>3 DEF UsesInv, Applies
<1>6. UsesInv'
  <2>1. ASSUME NEW m \in links' PROVE LinkOK(m)'
    <3>1. CASE m \in links
      BY <1>4, <3>1 DEF UsesInv, LinkOK
    <3>2. CASE m = new
      BY <1>1, <1>4, <1>5, <3>2 DEF LinkOK
    <3>3. QED BY <1>2, <3>1, <3>2
  <2>2. ASSUME NEW v \in Workers, job'[v].at = "applyReset" PROVE \E m \in links' : m.id = job'[v].ref
    <3>1. PICK l \in links : l.id = job'[v].ref
      BY <1>3, <2>2 DEF UsesInv
    <3>2. QED BY <1>2, <3>1
  <2>3. QED BY <2>1, <2>2 DEF UsesInv
<1>7. ASSUME NEW x \in Users, RequestsOK(x) PROVE RequestsOK(x)'
  <2>1. \A v \in Workers : Requesting(v, x)' => v # w /\ Requesting(v, x)
    BY <1>3 DEF Requesting
  <2>2. \A v1, v2 \in Workers : Requesting(v1, x)' /\ Requesting(v2, x)' => v1 = v2
    BY <1>7, <2>1 DEF RequestsOK
  <2>3. new.user = x => \A l \in links : l.user = x => l.used
    BY <1>0, <1>1, <1>7 DEF RequestsOK
  <2>4. ASSUME NEW m1 \in links', NEW m2 \in links', m1.user = x, m2.user = x, ~m1.used, ~m2.used
        PROVE  m1.id = m2.id
    BY <1>2, <1>7, <2>3, <2>4 DEF RequestsOK
  <2>5. ASSUME NEW v \in Workers, job'[v].at = "createLink", job'[v].who = x,
               NEW m \in links', m.user = x
        PROVE  m.used
    <3>1. v # w /\ Requesting(v, x) /\ job[v].at = "createLink" /\ job[v].who = x
      BY <1>3, <2>5 DEF Requesting
    <3>2. new.user # x
      BY <1>0, <1>1, <1>7, <3>1 DEF RequestsOK, Requesting
    <3>3. QED BY <1>2, <1>7, <2>5, <3>1, <3>2 DEF RequestsOK
  <2>6. QED BY <2>2, <2>4, <2>5 DEF RequestsOK
<1>8. QED BY <1>0, <1>6, <1>7 DEF RequestsInv

LEMMA ApplyKeepsLinks ==
    ASSUME TypeInv, UsesInv, RequestsInv, NEW w \in Workers, ApplyReset(w)
    PROVE  UsesInv' /\ RequestsInv'
<1>0. /\ links \subseteq Link /\ UNCHANGED rushed /\ job[w].at = "applyReset"
      /\ job'[w].at = "idle"
  BY TablesTyped, NextStatements, IdleIsAJob DEF ApplyReset, history
<1>1. \A v \in Workers \ {w} : Keeps(v)
  BY OthersKeep DEF Continue
<1>2. PICK g : g = [l \in links |-> IF l.id = job[w].ref
                                     THEN [l EXCEPT !.used = TRUE, !.uses = l.uses + 1] ELSE l]
  OBVIOUS
<1>3. links' = {g[l] : l \in links}
  BY <1>2 DEF ApplyReset
<1>4. ASSUME NEW l \in links
      PROVE  /\ Follows(g[l], l)
             /\ IF l.id = job[w].ref THEN g[l].used /\ g[l].uses = l.uses + 1 ELSE g[l] = l
  BY <1>0, <1>2 DEF Follows, Link
<1>5. LinksFollow
  BY <1>3, <1>4, LinksThatFollow
<1>6. RequestsInv'
  BY <1>0, <1>1, <1>5, RequestsStay DEF Keeps, SameBusiness
<1>7. \A v \in Workers : \A k : Applies(v, k)' => v # w /\ Applies(v, k)
  BY <1>0, <1>1 DEF Applies, Keeps, SameBusiness
<1>8. ASSUME NEW m \in links' PROVE LinkOK(m)'
  <2>1. PICK l \in links : m = g[l]
    BY <1>3
  <2>2. LinkOK(l) /\ Follows(m, l) /\ l.uses \in Nat
    BY <1>0, <1>4, <2>1 DEF UsesInv, Link
  <2>3. CASE l.id # job[w].ref
    BY <1>4, <1>7, <2>1, <2>2, <2>3 DEF LinkOK
  <2>4. CASE l.id = job[w].ref
    <3>1. Applies(w, l.id) /\ m.id = l.id /\ m.used /\ m.uses = l.uses + 1
      BY <1>0, <1>4, <2>1, <2>2, <2>4 DEF Applies, Follows
    <3>2. CASE m.shared
      BY <3>1, <3>2 DEF LinkOK
    <3>3. CASE ~m.shared
      <4>1. ~l.shared
        BY <2>2, <3>3 DEF Follows
      <4>2. l.uses = 0 /\ \A v \in Workers : Applies(v, l.id) => v = w
        BY <2>2, <3>1, <4>1 DEF LinkOK
      <4>3. \A v \in Workers : ~Applies(v, m.id)'
        BY <1>7, <3>1, <4>2
      <4>4. QED BY <3>1, <4>2, <4>3 DEF LinkOK
    <3>4. QED BY <3>2, <3>3
  <2>5. QED BY <2>3, <2>4
<1>9. ASSUME NEW v \in Workers, job'[v].at = "applyReset" PROVE \E m \in links' : m.id = job'[v].ref
  <2>1. PICK l \in links : l.id = job'[v].ref
    BY <1>0, <1>1, <1>9 DEF UsesInv, Keeps, SameBusiness
  <2>2. QED BY <1>5, <2>1 DEF LinksFollow
<1>10. QED BY <1>6, <1>8, <1>9 DEF UsesInv

LEMMA LinkStepKeeps ==
    TypeInv /\ UsesInv /\ RequestsInv /\ [Next]_vars => UsesInv' /\ RequestsInv'
<1> SUFFICES ASSUME TypeInv, UsesInv, RequestsInv, [Next]_vars PROVE UsesInv' /\ RequestsInv'
  OBVIOUS
<1>1. ASSUME NEW w \in Workers, ResetRequests(w) PROVE UsesInv' /\ RequestsInv'
  BY <1>1, ForgotKeepsLinks, ReadKeepsLinks DEF ResetRequests
<1>2. ASSUME NEW w \in Workers, Requests(w) \/ Continue(w) \/ Fail(w), ~ResetRequests(w),
             ~Invalidate(w), ~CreateLink(w), ~ApplyReset(w)
      PROVE  UsesInv' /\ RequestsInv'
  <2>1. job'[w].at \notin Resetting /\ UNCHANGED <<links, rushed>>
    BY <1>2, HandlersLeaveLinks
  <2>2. \A v \in Workers : job'[v].at \in Resetting =>
           job'[v].at = job[v].at /\ job'[v].who = job[v].who /\ job'[v].ref = job[v].ref
    BY <1>2, <2>1, OthersKeep DEF Keeps, SameBusiness
  <2>3. QED BY <2>1, <2>2, LinksThatStay, UsesStay, RequestsStay DEF Resetting
<1>3. ASSUME NEW w \in Workers, Requests(w) \/ Continue(w) \/ Fail(w) PROVE UsesInv' /\ RequestsInv'
  BY <1>1, <1>2, <1>3, InvalidateKeepsLinks, CreateKeepsLinks, ApplyKeepsLinks
<1>4. CASE Events
  BY <1>4, EventsKeep, EventsLeaveLinks, UsesStay, RequestsStay DEF Keeps, SameBusiness
<1>5. CASE UNCHANGED vars
  <2>1. UNCHANGED <<links, rushed, job>>
    BY <1>5 DEF vars, tables, history
  <2>2. QED BY <2>1, LinksThatStay, UsesStay, RequestsStay
<1>6. QED BY <1>3, <1>4, <1>5 DEF Next

\* A password-reset link sets one password, and somebody has one link that works, unless
\* requests for it overlapped.
THEOREM ResetLinksWorkOnce == Spec => []ResetLinksAreSpent
<1>1. Init => UsesInv /\ RequestsInv
  <2>1. Init => \A w \in Workers : job[w].at = "idle"
    BY IdleIsAJob DEF Init
  <2>2. QED BY <2>1 DEF Init, UsesInv, RequestsInv, RequestsOK, Requesting
<1>2. TypeInv /\ UsesInv /\ RequestsInv => ResetLinksAreSpent
  <2>1. ASSUME TypeInv, UsesInv, NEW l \in links, l.uses > 1 PROVE l.shared
    <3>1. l.uses \in Nat /\ LinkOK(l)
      BY <2>1, TablesTyped DEF Link, UsesInv
    <3>2. QED BY <2>1, <3>1 DEF LinkOK
  <2>2. ASSUME TypeInv, RequestsInv, NEW l1 \in links, NEW l2 \in links, ~l1.used, ~l2.used,
               l1.user = l2.user, l1 # l2
        PROVE  l1.user \in rushed
    <3>1. l1.user \in Users /\ l1.id # l2.id
      BY <2>2, TablesTyped DEF Link, LinksOK
    <3>2. QED BY <2>2, <3>1 DEF RequestsInv, RequestsOK
  <2>3. QED BY <2>1, <2>2 DEF ResetLinksAreSpent
<1>3. QED BY <1>1, <1>2, TypesHold, LinkStepKeeps, PTL DEF Spec

-----------------------------------------------------------------------------
(* Sessions that are refreshed *)

Numbered == \A t1, t2 \in tokens : t1.id = t2.id => t1 = t2

\* Worker v has checked session r and issues its next token, in a while or next.
Renews(v, r) == job[v].at \in Checked /\ job[v].root = r

\* A session nobody redeemed twice at once has one token, which at most one handler
\* exchanges; once it has deleted the old one there is none.
SessionOK(r) ==
    /\ \A t1, t2 \in tokens : t1.root = r /\ t2.root = r => t1.id = t2.id
    /\ \A v1, v2 \in Workers : Renews(v1, r) /\ Renews(v2, r) => v1 = v2
    /\ \A v \in Workers, t \in tokens :
          Renews(v, r) /\ t.root = r => job[v].at \in Refreshing /\ t.id = job[v].ref

ForkInv ==
    /\ Numbered
    /\ \A v \in Workers : job[v].at \in Refreshing => job[v].root > 0
    /\ \A r \in Nat \ {0} : r \in forked \/ SessionOK(r)

TokensFollow == \A t \in tokens' : \E s \in tokens : t.id = s.id /\ t.root = s.root

LEMMA TokensThatFollow ==
    ASSUME Numbered, NEW g, NEW kept \in SUBSET tokens, tokens' = {g[s] : s \in kept},
           \A s \in kept : g[s].id = s.id /\ g[s].root = s.root
    PROVE  TokensFollow /\ Numbered'
<1>1. \A t \in tokens' : \E s \in kept : t = g[s]
  OBVIOUS
<1>2. TokensFollow
  BY <1>1 DEF TokensFollow
<1>3. ASSUME NEW t1 \in tokens', NEW t2 \in tokens', t1.id = t2.id PROVE t1 = t2
  <2>1. PICK s1 \in kept, s2 \in kept : t1 = g[s1] /\ t2 = g[s2]
    BY <1>1
  <2>2. s1.id = s2.id
    BY <1>3, <2>1
  <2>3. QED BY <2>1, <2>2 DEF Numbered
<1>4. QED BY <1>2, <1>3 DEF Numbered

LEMMA TokensThatStay ==
    ASSUME Numbered, tokens' \subseteq tokens
    PROVE  TokensFollow /\ Numbered'
BY DEF Numbered, TokensFollow

LEMMA MarkedTokensFollow ==
    ASSUME Numbered, tokens \subseteq Token, NEW people, NEW cause, tokens' = Excused(people, cause)
    PROVE  TokensFollow /\ Numbered'
<1>1. PICK g : g = [s \in tokens |-> IF s.user \in people THEN [s EXCEPT !.why = @ \cup {cause}] ELSE s]
  OBVIOUS
<1>2. \A s \in tokens : g[s].id = s.id /\ g[s].root = s.root
  BY <1>1 DEF Token
<1>3. tokens' = {g[s] : s \in tokens}
  BY <1>1 DEF Excused
<1>4. QED BY <1>2, <1>3, TokensThatFollow

LEMMA HandlersKeepTokens ==
    ASSUME TypeInv, Numbered, NEW w \in Workers, Requests(w) \/ Continue(w) \/ Fail(w), ~Issue(w)
    PROVE  TokensFollow /\ Numbered'
<1>0. tokens \subseteq Token
  BY TablesTyped
<1>1. CASE Requests(w)
  <2>1. UNCHANGED tokens
    BY <1>1 DEF Requests, SignInRequests, SignUpRequests, OAuthRequests, PlatformRequests,
          RefreshRequests, ResetRequests, SuspendRequests, DeactivateRequests, InviteRequests,
          AcceptRequests, InvitationRequests, TeamRequests, Login, Register, SignInOAuth,
          PlatformLogin, ReadToken, ForgotPassword, ReadLink, Suspend, AdminDeactivate, Invite,
          ViewInvitation, AcceptInvitation, ResendInvitation, RevokeInvitation, UpdateUser,
          RemoveUser, tables
  <2>2. QED BY <2>1, TokensThatStay
<1>2. CASE WriteUser(w)
  BY <1>0, <1>2, TokensThatStay, MarkedTokensFollow DEF WriteUser
<1>3. CASE Fail(w)
  <2>1. tokens' = tokens \/ \E people, cause : tokens' = Excused(people, cause)
    BY <1>3 DEF Fail
  <2>2. QED BY <1>0, <2>1, TokensThatStay, MarkedTokensFollow
<1>4. CASE Continue(w) /\ ~WriteUser(w)
  <2>1. tokens' \subseteq tokens
    BY <1>4 DEF Continue, Recheck, Rotate, DropExpired, DropRefused, FindLogin, FindRegister,
          FindOAuth, CreateOwn, Invalidate, CreateLink, ApplyReset, DropCompany, DropUser,
          CheckPending, CreateInvite, Allow, Reopen, Revoke, MarkExpired, WriteStatus, Join,
          CountActiveAdmins, CountAdmins, Deactivate, tables
  <2>2. QED BY <2>1, TokensThatStay
<1>5. QED BY <1>1, <1>2, <1>3, <1>4

LEMMA EventsKeepTokens ==
    ASSUME TypeInv, Numbered, Events
    PROVE  TokensFollow /\ Numbered' /\ UNCHANGED forked
<1>0. tokens \subseteq Token
  BY TablesTyped
<1>1. UNCHANGED forked
  BY DEF Events, LogoutEvents, ExpiryEvents, ReinstateEvents, ActivateEvents, AllowlistEvents,
        PlatformEvents, LinkEvents, InvitationEvents, Logout, TokenExpires, Reinstate,
        AdminActivate, ChangeAllowlist, SetPlatformAdmin, ResetPlatformAdmin, LinkExpires,
        InvitationExpires, history
<1>2. CASE ExpiryEvents
  <2>1. PICK k \in tokens : TokenExpires(k)
    BY <1>2 DEF ExpiryEvents
  <2>2. PICK g : g = [s \in tokens |-> IF s = k THEN [k EXCEPT !.expired = TRUE] ELSE s]
    OBVIOUS
  <2>3. tokens' = {g[s] : s \in tokens}
    BY <2>1, <2>2 DEF TokenExpires
  <2>4. \A s \in tokens : g[s].id = s.id /\ g[s].root = s.root
    BY <1>0, <2>2 DEF Token
  <2>5. QED BY <1>1, <2>3, <2>4, TokensThatFollow
<1>3. CASE PlatformEvents
  <2>1. tokens' = tokens \/ \E people, cause : tokens' = Excused(people, cause)
    BY <1>3 DEF PlatformEvents, SetPlatformAdmin, ResetPlatformAdmin
  <2>2. QED BY <1>0, <1>1, <2>1, TokensThatStay, MarkedTokensFollow
<1>4. CASE ~ExpiryEvents /\ ~PlatformEvents
  <2>1. tokens' \subseteq tokens
    BY <1>4 DEF Events, LogoutEvents, ReinstateEvents, ActivateEvents, AllowlistEvents, LinkEvents,
          InvitationEvents, Logout, Reinstate, AdminActivate, ChangeAllowlist, LinkExpires,
          InvitationExpires
  <2>2. QED BY <1>1, <2>1, TokensThatStay
<1>5. QED BY <1>2, <1>3, <1>4

\* The job of v renews no session it did not renew, and has not got on with it.
Renewing(v) ==
    job'[v].at \in Checked /\ job'[v].root > 0 =>
        /\ job[v].at \in Checked /\ job'[v].root = job[v].root /\ job'[v].ref = job[v].ref
        /\ job'[v].at \in Refreshing <=> job[v].at \in Refreshing

LEMMA ForksStay ==
    ASSUME TypeInv, ForkInv, TokensFollow, Numbered', UNCHANGED forked,
           \A v \in Workers : Renewing(v) /\ (job'[v].at \in Refreshing => job'[v].root > 0)
    PROVE  ForkInv'
<1>1. ASSUME NEW r \in Nat \ {0}, SessionOK(r) PROVE SessionOK(r)'
  <2>1. ASSUME NEW v \in Workers, Renews(v, r)'
        PROVE  /\ Renews(v, r) /\ job'[v].ref = job[v].ref
               /\ job[v].at \in Refreshing => job'[v].at \in Refreshing
    BY <2>1 DEF Renews, Renewing
  <2>2. ASSUME NEW t1 \in tokens', NEW t2 \in tokens', t1.root = r, t2.root = r PROVE t1.id = t2.id
    <3>1. PICK s1 \in tokens, s2 \in tokens :
             /\ t1.id = s1.id /\ t1.root = s1.root
             /\ t2.id = s2.id /\ t2.root = s2.root
      BY DEF TokensFollow
    <3>2. QED BY <1>1, <2>2, <3>1 DEF SessionOK
  <2>3. ASSUME NEW v1 \in Workers, NEW v2 \in Workers, Renews(v1, r)', Renews(v2, r)' PROVE v1 = v2
    BY <1>1, <2>1, <2>3 DEF SessionOK
  <2>4. ASSUME NEW v \in Workers, NEW t \in tokens', Renews(v, r)', t.root = r
        PROVE  job'[v].at \in Refreshing /\ t.id = job'[v].ref
    <3>1. PICK s \in tokens : t.id = s.id /\ t.root = s.root
      BY DEF TokensFollow
    <3>2. QED BY <1>1, <2>1, <2>4, <3>1 DEF SessionOK
  <2>5. QED BY <2>2, <2>3, <2>4 DEF SessionOK
<1>2. QED BY <1>1 DEF ForkInv

\* A session that begins has no first token yet; only a refresh goes on with one.
LEMMA NewSessionsHaveNoRoot ==
    ASSUME TypeInv, NEW w \in Workers, Requests(w) \/ Continue(w) \/ Fail(w),
           ~RefreshRequests(w), ~Recheck(w), ~Rotate(w)
    PROVE  /\ UNCHANGED forked
           /\ job'[w].at \notin Refreshing
           /\ job'[w].at \in Checked => job'[w].root = 0
<1>0. job \in [Workers -> Job] /\ HandlerOK(job[w]) /\ Idle.at = "idle" /\ Idle.root = 0
  BY TablesTyped, IdleIsAJob DEF AccountsTypeOK, Idle
<1>1. UNCHANGED forked
  <2>1. CASE Requests(w)
    BY <2>1 DEF Requests, SignInRequests, SignUpRequests, OAuthRequests, PlatformRequests,
          ResetRequests, SuspendRequests, DeactivateRequests, InviteRequests, AcceptRequests,
          InvitationRequests, TeamRequests, Login, Register, SignInOAuth, PlatformLogin,
          ForgotPassword, ReadLink, Suspend, AdminDeactivate, Invite, ViewInvitation,
          AcceptInvitation, ResendInvitation, RevokeInvitation, UpdateUser, RemoveUser, history
  <2>2. CASE Continue(w) \/ Fail(w)
    BY <2>2 DEF Continue, Issue, DropExpired, DropRefused, FindLogin, FindRegister, FindOAuth,
          CreateOwn, Invalidate, CreateLink, ApplyReset, DropCompany, DropUser, CheckPending,
          CreateInvite, Allow, Reopen, Revoke, MarkExpired, WriteStatus, Join, CountActiveAdmins,
          WriteUser, CountAdmins, Deactivate, Fail, history
  <2>3. QED BY <2>1, <2>2
<1>2. CASE PlatformRequests(w)
  <2>1. PICK a \in PlatformAdmins : PlatformLogin(w, a)
    BY <1>2 DEF PlatformRequests
  <2>2. PICK J : J = [SigningIn(a, "issue") EXCEPT !.pw = account[a].pw]
    OBVIOUS
  <2>3. J.root = 0
    BY <2>2 DEF SigningIn, Idle
  <2>4. job'[w] = J
    BY <1>0, <2>1, <2>2 DEF PlatformLogin, Begin
  <2>5. QED BY <1>1, <1>2, <2>3, <2>4, NextStatements
<1>3. CASE FindLogin(w) \/ FindOAuth(w) \/ FindRegister(w) \/ CreateOwn(w)
  <2>1. job[w].root = 0
    BY <1>0, <1>3 DEF HandlerOK, FindLogin, FindOAuth, FindRegister, CreateOwn
  <2>2. job'[w].root = job[w].root \/ job'[w] = Idle
    BY <1>0, <1>3 DEF FindLogin, FindOAuth, FindRegister, CreateOwn, Goto, End, Job
  <2>3. QED BY <1>0, <1>1, <1>3, <2>1, <2>2, NextStatements
<1>4. CASE Join(w)
  <2>1. job[w].root = 0
    BY <1>0, <1>4 DEF HandlerOK, Join
  <2>2. PICK f, why : /\ f = Outdated({}, TRUE)
                      /\ why = IF Home \in suspended THEN {"unchecked"} ELSE {}
    OBVIOUS
  <2>3. f \in [Workers -> Job] /\ f[w].root = job[w].root
    BY <2>2, TablesTyped, OutdatedIsTyped
  <2>4. job' = [f EXCEPT ![w] = [f[w] EXCEPT !.at = "issue", !.why = why]] => job'[w].root = 0
    BY <2>1, <2>3 DEF Job
  <2>5. End(w) => job'[w].at = "idle"
    BY <1>0 DEF End
  <2>6. job' = [f EXCEPT ![w] = [f[w] EXCEPT !.at = "issue", !.why = why]] \/ End(w)
    BY <1>4, <2>2, <2>3 DEF Join
  <2>7. job'[w].root = 0 \/ job'[w].at = "idle"
    BY <2>4, <2>5, <2>6
  <2>8. QED BY <1>1, <1>4, <2>7, NextStatements
<1>5. CASE ~PlatformRequests(w) /\ ~FindLogin(w) /\ ~FindOAuth(w) /\ ~FindRegister(w) /\ ~CreateOwn(w)
           /\ ~Join(w)
  <2>1. job'[w].at \notin Checked
    <3>1. CASE \/ SignInRequests(w) \/ SignUpRequests(w) \/ OAuthRequests(w) \/ ResetRequests(w)
               \/ SuspendRequests(w) \/ DeactivateRequests(w) \/ Deactivate(w) \/ InviteRequests(w)
               \/ AcceptRequests(w) \/ InvitationRequests(w) \/ TeamRequests(w)
      BY <3>1, NextStatements
    <3>2. CASE \/ Issue(w) \/ DropExpired(w) \/ DropRefused(w) \/ CreateLink(w) \/ ApplyReset(w)
               \/ DropCompany(w) \/ DropUser(w) \/ Allow(w) \/ Revoke(w) \/ MarkExpired(w)
               \/ WriteUser(w) \/ Fail(w)
      <4>1. job'[w] = Idle
        BY <3>2, NextStatements
      <4>2. QED BY <1>0, <4>1
    <3>3. CASE Invalidate(w) \/ CheckPending(w) \/ CreateInvite(w) \/ Reopen(w)
               \/ CountActiveAdmins(w) \/ CountAdmins(w)
      BY <3>3, NextStatements
    <3>4. QED BY <1>5, <3>1, <3>2, <3>3 DEF Requests, Continue
  <2>2. QED BY <1>1, <2>1
<1>6. QED BY <1>2, <1>3, <1>4, <1>5

LEMMA RefreshKeepsForks ==
    ASSUME TypeInv, ForkInv, NEW w \in Workers, RefreshRequests(w)
    PROVE  ForkInv'
<1>1. PICK t \in tokens : ReadToken(w, t)
  BY DEF RefreshRequests
<1>2. t \in Token /\ t.root \in Nat /\ t.root > 0 /\ job \in [Workers -> Job]
  BY TablesTyped DEF TypeInv, TokensOK, Token, AccountsTypeOK
<1>3. PICK refresh : refresh = [Idle EXCEPT !.who = t.user, !.ref = t.id, !.root = t.root,
                                            !.pw = t.pw, !.why = t.why]
  OBVIOUS
<1>4. PICK statement \in {"dropExpired", "dropRefused", "recheck", "rotate"} :
         /\ job' = [job EXCEPT ![w] = [refresh EXCEPT !.at = statement]]
         /\ statement \in Refreshing =>
              forked' = IF \E v \in Workers : job[v].at \in Checked /\ job[v].root = t.root
                        THEN forked \cup {t.root} ELSE forked
         /\ statement \notin Refreshing => UNCHANGED forked
  BY <1>1, <1>3 DEF ReadToken, Begin
<1>5. job'[w].at = statement /\ job'[w].root = t.root /\ job'[w].ref = t.id
  <2>1. PICK J : J = [refresh EXCEPT !.at = statement]
    OBVIOUS
  <2>2. J.at = statement /\ J.root = t.root /\ J.ref = t.id
    BY <1>3, <2>1 DEF Idle
  <2>3. job'[w] = J
    BY <1>2, <1>4, <2>1
  <2>4. QED BY <2>2, <2>3
<1>6. \A v \in Workers \ {w} : job'[v] = job[v]
  BY <1>2, <1>4
<1>7. UNCHANGED tokens
  BY <1>1 DEF ReadToken, tables
<1>8. CASE statement \notin Refreshing
  <2>1. TokensFollow /\ Numbered'
    BY <1>7, TokensThatStay DEF ForkInv
  <2>2. ASSUME NEW v \in Workers
        PROVE  Renewing(v) /\ (job'[v].at \in Refreshing => job'[v].root > 0)
    BY <1>5, <1>6, <1>8 DEF Renewing, ForkInv
  <2>3. QED BY <1>4, <1>8, <2>1, <2>2, ForksStay
<1>9. CASE statement \in Refreshing
  <2>1. Numbered'
    BY <1>7 DEF ForkInv, Numbered
  <2>2. ASSUME NEW v \in Workers, job'[v].at \in Refreshing PROVE job'[v].root > 0
    BY <1>2, <1>5, <1>6, <2>2 DEF ForkInv
  <2>3. forked \subseteq forked'
    BY <1>4, <1>9
  <2>4. ASSUME NEW r \in Nat \ {0}, r \notin forked', r # t.root PROVE SessionOK(r)'
    <3>1. SessionOK(r)
      BY <2>3, <2>4 DEF ForkInv
    <3>2. \A v \in Workers : Renews(v, r)' => Renews(v, r) /\ job'[v] = job[v]
      BY <1>5, <1>6, <2>4 DEF Renews
    <3>3. QED BY <1>7, <3>1, <3>2 DEF SessionOK
  <2>5. ASSUME t.root \notin forked' PROVE SessionOK(t.root)'
    <3>1. SessionOK(t.root)
      BY <1>2, <2>3, <2>5 DEF ForkInv
    <3>2. \A v \in Workers : Renews(v, t.root)' => v = w
      BY <1>4, <1>6, <1>9, <2>5 DEF Renews
    <3>3. QED BY <1>5, <1>7, <1>9, <3>1, <3>2 DEF SessionOK
  <2>6. QED BY <2>1, <2>2, <2>4, <2>5 DEF ForkInv
<1>10. QED BY <1>8, <1>9

LEMMA RotateKeepsForks ==
    ASSUME TypeInv, ForkInv, NEW w \in Workers, Rotate(w)
    PROVE  ForkInv'
<1>1. job \in [Workers -> Job] /\ job[w].at = "rotate"
  BY TablesTyped DEF AccountsTypeOK, Rotate
<1>2. /\ job'[w].at = "issue" /\ job'[w].root = job[w].root
      /\ \A v \in Workers \ {w} : job'[v] = job[v]
  BY <1>1 DEF Rotate, Goto, Job
<1>3. tokens' = {t \in tokens : t.id # job[w].ref} /\ UNCHANGED forked
  BY DEF Rotate, history
<1>4. ASSUME NEW r \in Nat \ {0}, SessionOK(r) PROVE SessionOK(r)'
  <2>1. \A v \in Workers : Renews(v, r)' => Renews(v, r)
    BY <1>1, <1>2 DEF Renews
  <2>2. ASSUME NEW v \in Workers, NEW t \in tokens', Renews(v, r)', t.root = r
        PROVE  job'[v].at \in Refreshing /\ t.id = job'[v].ref
    <3>1. t \in tokens /\ t.id # job[w].ref /\ Renews(v, r)
      BY <1>3, <2>1, <2>2
    <3>2. t.id = job[v].ref /\ job[v].at \in Refreshing
      BY <1>4, <2>2, <3>1 DEF SessionOK
    <3>3. v # w
      BY <3>1, <3>2
    <3>4. QED BY <1>2, <3>2, <3>3
  <2>3. QED BY <1>3, <1>4, <2>1, <2>2 DEF SessionOK
<1>5. \A v \in Workers : job'[v].at \in Refreshing => job'[v].root > 0
  BY <1>2 DEF ForkInv
<1>6. Numbered'
  BY <1>3 DEF Numbered, ForkInv
<1>7. QED BY <1>3, <1>4, <1>5, <1>6 DEF ForkInv

LEMMA IssueKeepsForks ==
    ASSUME TypeInv, ForkInv, NEW w \in Workers, Issue(w)
    PROVE  ForkInv'
<1>1. /\ job \in [Workers -> Job] /\ issued \in Nat
      /\ \A t \in tokens : t \in Token /\ t.id <= issued /\ t.root <= issued
      /\ \A v \in Workers : HandlerOK(job[v])
  BY TablesTyped DEF TypeInv, AccountsTypeOK, TokensOK
<1>2. /\ job'[w].at = "idle" /\ job[w].at = "issue"
      /\ \A v \in Workers \ {w} : job'[v] = job[v]
  BY <1>1, IdleIsAJob DEF Issue, End
<1>3. PICK new : /\ new = [id |-> issued + 1,
                           root |-> IF job[w].root = 0 THEN issued + 1 ELSE job[w].root,
                           user |-> job[w].who, pw |-> job[w].pw, expired |-> FALSE,
                           why |-> job[w].why]
                 /\ tokens' = tokens \cup {new}
  BY DEF Issue
<1>4. new.id = issued + 1 /\ new.root = IF job[w].root = 0 THEN issued + 1 ELSE job[w].root
  BY <1>3
<1>5. UNCHANGED forked
  BY DEF Issue, history
<1>6. Numbered'
  <2>1. \A t \in tokens : t.id # new.id
    BY <1>1, <1>4 DEF Token
  <2>2. QED BY <1>3, <2>1 DEF Numbered, ForkInv
<1>7. \A v \in Workers : job'[v].at \in Refreshing => job'[v].root > 0
  BY <1>2 DEF ForkInv
<1>8. \A v \in Workers : \A r : Renews(v, r)' => v # w /\ Renews(v, r) /\ job'[v] = job[v]
  BY <1>2 DEF Renews
<1>9. ASSUME NEW r \in Nat \ {0}, SessionOK(r) PROVE SessionOK(r)'
  <2>1. CASE new.root # r
    <3>1. \A t \in tokens' : t.root = r => t \in tokens
      BY <1>3, <2>1
    <3>2. QED BY <1>8, <1>9, <3>1 DEF SessionOK
  <2>2. CASE new.root = r
    <3>1. \A v \in Workers : ~Renews(v, r)'
      <4>1. CASE job[w].root = 0
        <5>1. \A v \in Workers : Renews(v, r) => job[v].root <= issued
          BY <1>1 DEF Renews, HandlerOK
        <5>2. QED BY <1>1, <1>4, <1>8, <2>2, <4>1, <5>1 DEF Renews
      <4>2. CASE job[w].root # 0
        <5>1. Renews(w, r)
          BY <1>2, <1>4, <2>2, <4>2 DEF Renews
        <5>2. QED BY <1>8, <1>9, <5>1 DEF SessionOK
      <4>3. QED BY <4>1, <4>2
    <3>2. \A t \in tokens : t.root # r
      <4>1. CASE job[w].root = 0
        BY <1>1, <1>4, <2>2, <4>1 DEF Token
      <4>2. CASE job[w].root # 0
        <5>1. Renews(w, r) /\ job[w].at \notin Refreshing
          BY <1>2, <1>4, <2>2, <4>2 DEF Renews
        <5>2. QED BY <1>9, <5>1 DEF SessionOK
      <4>3. QED BY <4>1, <4>2
    <3>3. \A t \in tokens' : t.root = r => t = new
      BY <1>3, <3>2
    <3>4. QED BY <3>1, <3>3 DEF SessionOK
  <2>3. QED BY <2>1, <2>2
<1>10. QED BY <1>5, <1>6, <1>7, <1>9 DEF ForkInv

LEMMA ForkStepKeeps == TypeInv /\ ForkInv /\ [Next]_vars => ForkInv'
<1>1. SUFFICES ASSUME TypeInv, ForkInv, [Next]_vars PROVE ForkInv'
  OBVIOUS
<1>2. Numbered /\ job \in [Workers -> Job]
  BY <1>1, TablesTyped DEF ForkInv, AccountsTypeOK
<1>3. ASSUME NEW v \in Workers, Keeps(v)
      PROVE  Renewing(v) /\ (job'[v].at \in Refreshing => job'[v].root > 0)
  BY <1>1, <1>3 DEF Keeps, SameBusiness, Renewing, ForkInv
<1>4. ASSUME NEW w \in Workers, Requests(w) \/ Continue(w) \/ Fail(w) PROVE ForkInv'
  <2>1. CASE RefreshRequests(w) \/ Rotate(w) \/ Issue(w)
    BY <1>1, <2>1, RefreshKeepsForks, RotateKeepsForks, IssueKeepsForks
  <2>2. CASE ~RefreshRequests(w) /\ ~Rotate(w) /\ ~Issue(w)
    <3>1. TokensFollow /\ Numbered'
      BY <1>1, <1>2, <1>4, <2>2, HandlersKeepTokens
    <3>2. \A v \in Workers \ {w} : Keeps(v)
      BY <1>1, <1>4, OthersKeep
    <3>3. /\ UNCHANGED forked
          /\ Renewing(w) /\ (job'[w].at \in Refreshing => job'[w].root > 0)
      <4>1. CASE Recheck(w)
        <5>1. /\ job'[w].at \in {"rotate", "dropRefused"} /\ job[w].at = "recheck"
              /\ job'[w].root = job[w].root /\ job'[w].ref = job[w].ref
          BY <1>2, <4>1 DEF Recheck, Goto, Job
        <5>2. UNCHANGED forked
          BY <4>1 DEF Recheck, history
        <5>3. QED BY <1>1, <5>1, <5>2 DEF Renewing, ForkInv
      <4>2. CASE ~Recheck(w)
        <5>1. /\ UNCHANGED forked
              /\ job'[w].at \notin Refreshing
              /\ job'[w].at \in Checked => job'[w].root = 0
          BY <1>1, <1>4, <2>2, <4>2, NewSessionsHaveNoRoot
        <5>2. QED BY <5>1 DEF Renewing
      <4>3. QED BY <4>1, <4>2
    <3>4. QED BY <1>1, <1>3, <3>1, <3>2, <3>3, ForksStay
  <2>3. QED BY <2>1, <2>2
<1>5. CASE Events
  BY <1>1, <1>2, <1>3, <1>5, EventsKeep, EventsKeepTokens, ForksStay
<1>6. CASE UNCHANGED vars
  BY <1>1, <1>2, <1>6, TokensThatStay, ForksStay DEF vars, tables, history, Renewing, ForkInv
<1>7. QED BY <1>1, <1>4, <1>5, <1>6 DEF Next

\* A session has one refresh token unless two requests redeemed the same one at the same
\* time.
THEOREM SessionsForkByOverlap == Spec => []SessionForksOnlyByOverlap
<1>1. Init => ForkInv
  <2>1. Init => \A w \in Workers : job[w].at = "idle"
    BY IdleIsAJob DEF Init
  <2>2. QED BY <2>1 DEF Init, ForkInv, Numbered, SessionOK, Renews
<1>2. TypeInv /\ ForkInv => SessionForksOnlyByOverlap
  <2>1. SUFFICES ASSUME TypeInv, ForkInv, NEW t1 \in tokens, NEW t2 \in tokens,
                        t1.root = t2.root, t1 # t2
                 PROVE  t1.root \in forked
    BY DEF SessionForksOnlyByOverlap
  <2>2. t1.root \in Nat \ {0} /\ t1.id # t2.id
    BY <2>1, TablesTyped DEF TypeInv, TokensOK, Token, ForkInv, Numbered
  <2>3. QED BY <2>1, <2>2 DEF ForkInv, SessionOK
<1>3. QED BY <1>1, <1>2, TypesHold, ForkStepKeeps, PTL DEF Spec

-----------------------------------------------------------------------------
(* Sessions of people who have been deactivated, suspended or given a new password *)

\* A session without an excuse has the current password, and somebody is about to
\* delete it if its user is barred.
TokenSafe(t) ==
    t.why = {} => t.pw = account[t.user].pw /\ (Barred(t.user) => Revoking(t.user))

\* A handler whose checks nobody has made out of date issues such a session.
JobSafe(j) ==
    /\ j.at \in Checked /\ j.why = {} => j.pw = account[j.who].pw /\ ~Barred(j.who)
    /\ j.at = "join" => j.pw = 1

SurvivorInv == (\A t \in tokens : TokenSafe(t)) /\ (\A v \in Workers : JobSafe(job[v]))

Dropping == {"dropUser", "dropCompany"}

\* The sessions and handlers of harmed are accounted for one by one; nothing that
\* matters to the others happens.
LEMMA SurvivorStep ==
    ASSUME TypeInv, SurvivorInv, NEW harmed \in SUBSET People,
           \A p \in People \ harmed :
              Exists(p) => account'[p].pw = account[p].pw /\ (Barred(p)' => Barred(p)),
           \A t \in tokens' :
              \/ TokenSafe(t)'
              \/ /\ t.user \notin harmed /\ (Revoking(t.user) => Revoking(t.user)')
                 /\ \E s \in tokens : t.user = s.user /\ t.pw = s.pw /\ (s.why # {} => t.why # {}),
           \A v \in Workers :
              \/ JobSafe(job[v])'
              \/ Keeps(v) /\ (job[v].at \in Checked /\ job[v].who \in harmed => job'[v].why # {})
    PROVE  SurvivorInv'
<1>1. ASSUME NEW t \in tokens' PROVE TokenSafe(t)'
  <2>1. CASE /\ t.user \notin harmed /\ (Revoking(t.user) => Revoking(t.user)')
             /\ \E s \in tokens : t.user = s.user /\ t.pw = s.pw /\ (s.why # {} => t.why # {})
    <3>1. PICK s \in tokens : t.user = s.user /\ t.pw = s.pw /\ (s.why # {} => t.why # {})
      BY <2>1
    <3>2. t.user \in People /\ Exists(t.user)
      BY <3>1, TablesTyped DEF TypeInv, TokensOK, Token
    <3>3. t.why = {} => t.pw = account[t.user].pw /\ (Barred(t.user) => Revoking(t.user))
      BY <3>1 DEF SurvivorInv, TokenSafe
    <3>4. account'[t.user].pw = account[t.user].pw /\ (Barred(t.user)' => Barred(t.user))
      BY <2>1, <3>2
    <3>5. QED BY <2>1, <3>3, <3>4 DEF TokenSafe
  <2>2. QED BY <2>1
<1>2. ASSUME NEW v \in Workers PROVE JobSafe(job[v])'
  <2>1. CASE Keeps(v) /\ (job[v].at \in Checked /\ job[v].who \in harmed => job'[v].why # {})
    <3>1. /\ job'[v].at = job[v].at /\ job'[v].who = job[v].who /\ job'[v].pw = job[v].pw
          /\ job[v].why # {} => job'[v].why # {}
      BY <2>1 DEF Keeps, SameBusiness
    <3>2. JobSafe(job[v]) /\ HandlerOK(job[v])
      BY TablesTyped DEF SurvivorInv
    <3>3. CASE job[v].at \in Checked /\ job'[v].why = {}
      <4>1. PICK p \in People \ harmed : p = job[v].who
        BY <2>1, <3>2, <3>3 DEF HandlerOK
      <4>2. Exists(p) /\ job[v].pw = account[p].pw /\ ~Barred(p)
        BY <3>1, <3>2, <3>3, <4>1 DEF HandlerOK, JobSafe
      <4>3. account'[p].pw = account[p].pw /\ ~Barred(p)'
        BY <4>2
      <4>4. job'[v].at # "join"
        BY <3>1, <3>3
      <4>5. QED BY <3>1, <4>1, <4>2, <4>3, <4>4 DEF JobSafe, Barred, Suspended
    <3>4. QED BY <3>1, <3>2, <3>3 DEF JobSafe
  <2>2. QED BY <2>1
<1>3. QED BY <1>1, <1>2 DEF SurvivorInv

\* Worker v is about to delete the sessions of p.
Revokes(v, p) == \/ job[v].at = "dropUser" /\ job[v].who = p
                 \/ job[v].at = "dropCompany" /\ job[v].who = account[p].company

\* A step of a handler that does not end p's sessions leaves the others to it.
LEMMA RevokingStays ==
    ASSUME NEW p, account'[p].company = account[p].company,
           \A v \in Workers : Keeps(v) \/ ~Revokes(v, p)
    PROVE  Revoking(p) => Revoking(p)'
<1>1. SUFFICES ASSUME Revoking(p) PROVE Revoking(p)'
  OBVIOUS
<1>2. PICK v \in Workers : Revokes(v, p)
  BY <1>1 DEF Revoking, Revokes
<1>3. job'[v].at = job[v].at /\ job'[v].who = job[v].who
  BY <1>2 DEF Keeps, SameBusiness
<1>4. QED BY <1>2, <1>3 DEF Revoking, Revokes

LEMMA QuietSurvivors ==
    ASSUME TypeInv, SurvivorInv, NEW w \in Workers, \A v \in Workers \ {w} : Keeps(v),
           UNCHANGED <<account, suspended>>, tokens' \subseteq tokens, job[w].at \notin Dropping,
           JobSafe(job[w])'
    PROVE  SurvivorInv'
<1>1. PICK harmed \in SUBSET People : harmed = {}
  OBVIOUS
<1>2. \A p \in People \ harmed :
         Exists(p) => account'[p].pw = account[p].pw /\ (Barred(p)' => Barred(p))
  BY DEF Barred, Suspended
<1>3. \A t \in tokens' :
         /\ t.user \notin harmed /\ (Revoking(t.user) => Revoking(t.user)')
         /\ \E s \in tokens : t.user = s.user /\ t.pw = s.pw /\ (s.why # {} => t.why # {})
  BY <1>1, RevokingStays DEF Revokes, Dropping
<1>4. QED BY <1>1, <1>2, <1>3, SurvivorStep

\* A handler that has checked nobody is safe whatever it does.
LEMMA UncheckedIsSafe ==
    ASSUME NEW j, j.at \notin Checked, j.at # "join"
    PROVE  JobSafe(j)
BY DEF JobSafe

LEMMA IdleBefore ==
    ASSUME NEW w \in Workers, Requests(w)
    PROVE  job[w] = Idle
BY DEF Requests, SignInRequests, SignUpRequests, OAuthRequests, RefreshRequests, PlatformRequests,
      ResetRequests, SuspendRequests, DeactivateRequests, InviteRequests, AcceptRequests,
      InvitationRequests, TeamRequests, Login, Register, SignInOAuth, ReadToken, PlatformLogin,
      ForgotPassword, ReadLink, Suspend, AdminDeactivate, Invite, ViewInvitation, AcceptInvitation,
      ResendInvitation, RevokeInvitation, UpdateUser, RemoveUser, Begin

LEMMA SafeRefresh ==
    ASSUME TypeInv, SurvivorInv, NEW w \in Workers, RefreshRequests(w)
    PROVE  JobSafe(job[w])'
<1>1. PICK t \in tokens : ReadToken(w, t)
  BY DEF RefreshRequests
<1>2. t \in Token /\ TokenSafe(t)
  BY TablesTyped DEF SurvivorInv
<1>3. PICK refresh : refresh = [Idle EXCEPT !.who = t.user, !.ref = t.id, !.root = t.root,
                                            !.pw = t.pw, !.why = t.why]
  OBVIOUS
<1>4. PICK statement \in {"dropExpired", "dropRefused", "recheck", "rotate"} :
         /\ job' = [job EXCEPT ![w] = [refresh EXCEPT !.at = statement]]
         /\ statement \in Checked => ~Barred(t.user)
  BY <1>1, <1>3 DEF ReadToken, Begin
<1>5. job'[w].at = statement /\ job'[w].who = t.user /\ job'[w].pw = t.pw /\ job'[w].why = t.why
  <2>1. PICK J : J = [refresh EXCEPT !.at = statement]
    OBVIOUS
  <2>2. J.at = statement /\ J.who = t.user /\ J.pw = t.pw /\ J.why = t.why
    BY <1>3, <2>1 DEF Idle
  <2>3. job'[w] = J
    BY <1>4, <2>1, TablesTyped DEF AccountsTypeOK
  <2>4. QED BY <2>2, <2>3
<1>6. UNCHANGED <<account, suspended>>
  BY <1>1 DEF ReadToken, tables
<1>7. QED BY <1>2, <1>4, <1>5, <1>6 DEF JobSafe, TokenSafe, Barred, Suspended

LEMMA SafeSignIn ==
    ASSUME TypeInv, SurvivorInv, NEW w \in Workers,
           PlatformRequests(w) \/ FindLogin(w) \/ FindOAuth(w) \/ Recheck(w) \/ Rotate(w)
    PROVE  JobSafe(job[w])'
<1>0. job \in [Workers -> Job] /\ Idle.at = "idle" /\ HandlerOK(job[w])
  BY TablesTyped, IdleIsAJob DEF AccountsTypeOK
<1>1. UNCHANGED <<account, suspended>>
  BY DEF PlatformRequests, PlatformLogin, FindLogin, FindOAuth, Recheck, Rotate, tables
<1>2. CASE PlatformRequests(w)
  <2>1. PICK a \in PlatformAdmins : PlatformLogin(w, a)
    BY <1>2 DEF PlatformRequests
  <2>2. PICK J : J = [SigningIn(a, "issue") EXCEPT !.pw = account[a].pw]
    OBVIOUS
  <2>3. J.at = "issue" /\ J.who = a /\ J.pw = account[a].pw
    BY <2>2 DEF SigningIn, Idle
  <2>4. job'[w] = J
    BY <1>0, <2>1, <2>2 DEF PlatformLogin, Begin
  <2>5. account[a].company = None /\ None \notin suspended
    BY TablesTyped, NobodyIsTyped DEF TypeInv, AccountsOK, Companies, People
  <2>6. QED BY <1>1, <2>1, <2>3, <2>4, <2>5 DEF PlatformLogin, JobSafe, Barred, Suspended
<1>3. CASE FindLogin(w)
  <2>1. CASE End(w)
    BY <1>0, <2>1, UncheckedIsSafe DEF End, JobSafe
  <2>2. CASE /\ Authenticated(job[w].who)
             /\ job' = [job EXCEPT ![w].at = "issue", ![w].pw = account[job[w].who].pw]
    <3>1. job'[w].at = "issue" /\ job'[w].who = job[w].who /\ job'[w].pw = account[job[w].who].pw
      BY <1>0, <2>2 DEF Job
    <3>2. QED BY <1>1, <2>2, <3>1 DEF Authenticated, JobSafe, Barred, Suspended
  <2>3. QED BY <1>3, <2>1, <2>2 DEF FindLogin
<1>4. CASE FindOAuth(w)
  <2>1. PICK why : why = IF Suspended(job[w].who) THEN {"unchecked"} ELSE {}
    OBVIOUS
  <2>2. CASE /\ account[job[w].who].active
             /\ job' = [job EXCEPT ![w].at = "issue", ![w].pw = account[job[w].who].pw,
                                   ![w].why = why]
    <3>1. /\ job'[w].at = "issue" /\ job'[w].who = job[w].who
          /\ job'[w].pw = account[job[w].who].pw /\ job'[w].why = why
      BY <1>0, <2>2 DEF Job
    <3>2. why = {} => ~Suspended(job[w].who)
      BY <2>1
    <3>3. ~Suspended(job[w].who) => ~Barred(job[w].who)
      BY <2>2 DEF Barred
    <3>4. QED BY <1>1, <3>1, <3>2, <3>3 DEF JobSafe, Barred, Suspended
  <2>3. CASE End(w) \/ Goto(w, "createOwn")
    <3>1. job'[w].at \in {"idle", "createOwn"}
      BY <1>0, <2>3 DEF End, Goto, Job
    <3>2. QED BY <3>1 DEF JobSafe
  <2>4. QED BY <1>4, <2>1, <2>2, <2>3 DEF FindOAuth
<1>5. CASE Recheck(w) \/ Rotate(w)
  <2>1. /\ job[w].at \in Checked /\ job'[w].at # "join"
        /\ job'[w].who = job[w].who /\ job'[w].pw = job[w].pw /\ job'[w].why = job[w].why
    BY <1>0, <1>5 DEF Recheck, Rotate, Goto, Job
  <2>2. JobSafe(job[w])
    BY DEF SurvivorInv
  <2>3. QED BY <1>1, <2>1, <2>2 DEF JobSafe, Barred, Suspended
<1>6. QED BY <1>2, <1>3, <1>4, <1>5

LEMMA SafeAccept ==
    ASSUME TypeInv, NEW w \in Workers, AcceptRequests(w) \/ InvitationRequests(w)
    PROVE  JobSafe(job[w])'
<1>0. job \in [Workers -> Job]
  BY TablesTyped DEF AccountsTypeOK
<1>1. PICK i, a, statement :
         \/ statement \in {"markExpired", "reopen", "revoke"} /\ Begin(w, Reading(i, a, statement))
         \/ Begin(w, [Reading(i, None, "join") EXCEPT !.pw = 1])
  BY DEF AcceptRequests, InvitationRequests, ViewInvitation, AcceptInvitation, ResendInvitation,
        RevokeInvitation
<1>2. Reading(i, a, statement).at = statement
  BY DEF Reading, Idle
<1>3. PICK J : J = [Reading(i, None, "join") EXCEPT !.pw = 1]
  OBVIOUS
<1>4. J.at = "join" /\ J.pw = 1
  BY <1>3 DEF Reading, Idle
<1>5. QED BY <1>0, <1>1, <1>2, <1>3, <1>4 DEF Begin, JobSafe

\* The handlers that write neither accounts nor companies and delete nothing at the end.
LEMMA QuietHandlers ==
    ASSUME TypeInv, SurvivorInv, NEW w \in Workers, Requests(w) \/ Continue(w),
           ~SuspendRequests(w), ~DeactivateRequests(w), ~Issue(w), ~CreateOwn(w), ~Join(w),
           ~ApplyReset(w), ~WriteUser(w), ~Deactivate(w), ~DropCompany(w), ~DropUser(w)
    PROVE  SurvivorInv'
<1>1. \A v \in Workers \ {w} : Keeps(v)
  BY OthersKeep
<1>2. JobSafe(job[w])'
  <2>1. CASE RefreshRequests(w) \/ PlatformRequests(w) \/ FindLogin(w) \/ FindOAuth(w) \/ Recheck(w)
             \/ Rotate(w) \/ AcceptRequests(w) \/ InvitationRequests(w)
    BY <2>1, SafeRefresh, SafeSignIn, SafeAccept
  <2>2. CASE \/ SignInRequests(w) \/ SignUpRequests(w) \/ OAuthRequests(w) \/ ResetRequests(w)
             \/ InviteRequests(w) \/ TeamRequests(w) \/ Invalidate(w) \/ CheckPending(w)
             \/ CreateInvite(w) \/ Reopen(w) \/ CountActiveAdmins(w) \/ CountAdmins(w)
    <3>1. job'[w].at \notin Checked /\ job'[w].at # "join"
      BY <2>2, NextStatements
    <3>2. QED BY <3>1 DEF JobSafe
  <2>3. CASE \/ DropExpired(w) \/ DropRefused(w) \/ CreateLink(w) \/ Allow(w) \/ Revoke(w)
             \/ MarkExpired(w)
    <3>1. job'[w] = Idle
      BY <2>3, NextStatements
    <3>2. QED BY <3>1, IdleIsAJob DEF JobSafe
  <2>4. CASE FindRegister(w)
    <3>1. job'[w].at \in {"idle", "createOwn"}
      BY <2>4, IdleIsAJob, TablesTyped DEF FindRegister, End, AccountsTypeOK, Job
    <3>2. QED BY <3>1 DEF JobSafe
  <2>5. QED BY <2>1, <2>2, <2>3, <2>4 DEF Requests, Continue
<1>3. job[w].at \notin Dropping
  <2>1. CASE Requests(w)
    BY <2>1, IdleBefore, IdleIsAJob DEF Dropping
  <2>2. CASE Continue(w)
    BY <2>2 DEF Continue, Dropping, Recheck, Rotate, DropExpired, DropRefused, FindLogin,
          FindRegister, FindOAuth, Invalidate, CreateLink, CheckPending, CreateInvite, Allow, Reopen,
          Revoke, MarkExpired, CountActiveAdmins, CountAdmins
  <2>3. QED BY <2>1, <2>2
<1>4. UNCHANGED <<account, suspended>> /\ tokens' \subseteq tokens
  <2>1. CASE Requests(w)
    BY <2>1 DEF Requests, SignInRequests, SignUpRequests, OAuthRequests, PlatformRequests,
          RefreshRequests, ResetRequests, InviteRequests, AcceptRequests, InvitationRequests,
          TeamRequests, Login, Register, SignInOAuth, PlatformLogin, ReadToken, ForgotPassword,
          ReadLink, Invite, ViewInvitation, AcceptInvitation, ResendInvitation, RevokeInvitation,
          UpdateUser, RemoveUser, tables
  <2>2. CASE Continue(w)
    BY <2>2 DEF Continue, Recheck, Rotate, DropExpired, DropRefused, FindLogin, FindRegister,
          FindOAuth, Invalidate, CreateLink, CheckPending, CreateInvite, Allow, Reopen, Revoke,
          MarkExpired, WriteStatus, CountActiveAdmins, CountAdmins, tables
  <2>3. QED BY <2>1, <2>2
<1>5. QED BY <1>1, <1>2, <1>3, <1>4, QuietSurvivors

\* A handler ends: what it was to delete is deleted or excused.
LEMMA DropsKeepSurvivors ==
    ASSUME TypeInv, SurvivorInv, NEW w \in Workers, DropUser(w) \/ DropCompany(w) \/ Fail(w)
    PROVE  SurvivorInv'
<1>1. \A v \in Workers \ {w} : Keeps(v)
  BY OthersKeep DEF Continue
<1>2. job'[w] = Idle
  BY NextStatements
<1>3. JobSafe(job[w])'
  BY <1>2, IdleIsAJob DEF JobSafe
<1>4. UNCHANGED <<account, suspended>>
  BY DEF DropUser, DropCompany, Fail
<1>5. PICK harmed \in SUBSET People : harmed = {}
  OBVIOUS
<1>6. \A p \in People \ harmed :
         Exists(p) => account'[p].pw = account[p].pw /\ (Barred(p)' => Barred(p))
  BY <1>4 DEF Barred, Suspended
<1>7. ASSUME NEW t \in tokens', t.why = {}
      PROVE  /\ ~Revokes(w, t.user)
             /\ \E s \in tokens : t.user = s.user /\ t.pw = s.pw /\ (s.why # {} => t.why # {})
  <2>1. ASSUME NEW people \in SUBSET People, tokens' = Excused(people, "failed"),
               \A p \in People \ people : ~Revokes(w, p)
        PROVE  /\ ~Revokes(w, t.user)
               /\ \E s \in tokens : t.user = s.user /\ t.pw = s.pw /\ (s.why # {} => t.why # {})
    <3>1. "failed" \in Causes /\ tokens \subseteq Token
      BY TablesTyped DEF Causes
    <3>2. PICK s \in tokens :
             /\ t.user = s.user /\ t.pw = s.pw
             /\ t.user \in people => t.why # {}
             /\ t.user \notin people => t.why = s.why
      BY <2>1, <3>1, ExcusedMarks
    <3>3. t.user \in People
      BY <3>1, <3>2 DEF Token
    <3>4. QED BY <1>7, <2>1, <3>2, <3>3
  <2>2. CASE DropUser(w) \/ DropCompany(w)
    <3>1. t \in tokens /\ ~Revokes(w, t.user)
      BY <2>2 DEF DropUser, DropCompany, Revokes
    <3>2. QED BY <3>1
  <2>3. CASE Fail(w) /\ job[w].at = "dropUser"
    <3>1. PICK people : people = {job[w].who}
      OBVIOUS
    <3>2. people \in SUBSET People
      BY <2>3, <3>1, TablesTyped DEF HandlerOK, AboutUsers
    <3>3. tokens' = Excused(people, "failed")
      BY <2>3, <3>1 DEF Fail
    <3>4. \A p \in People \ people : ~Revokes(w, p)
      BY <2>3, <3>1 DEF Revokes
    <3>5. QED BY <2>1, <3>2, <3>3, <3>4
  <2>4. CASE Fail(w) /\ job[w].at = "dropCompany"
    <3>1. PICK people \in SUBSET People : people = {p \in People : account[p].company = job[w].who}
      OBVIOUS
    <3>2. tokens' = Excused(people, "failed")
      BY <2>4, <3>1 DEF Fail
    <3>3. \A p \in People \ people : ~Revokes(w, p)
      BY <2>4, <3>1 DEF Revokes
    <3>4. QED BY <2>1, <3>2, <3>3
  <2>5. CASE Fail(w) /\ job[w].at \notin Dropping
    BY <2>5 DEF Fail, Dropping, Revokes
  <2>6. QED BY <2>2, <2>3, <2>4, <2>5 DEF Dropping
<1>8. ASSUME NEW t \in tokens'
      PROVE  \/ TokenSafe(t)'
             \/ /\ t.user \notin harmed /\ (Revoking(t.user) => Revoking(t.user)')
                /\ \E s \in tokens : t.user = s.user /\ t.pw = s.pw /\ (s.why # {} => t.why # {})
  <2>1. CASE t.why # {}
    BY <2>1 DEF TokenSafe
  <2>2. CASE t.why = {}
    BY <1>1, <1>4, <1>5, <1>7, <2>2, RevokingStays
  <2>3. QED BY <2>1, <2>2
<1>9. QED BY <1>1, <1>3, <1>5, <1>6, <1>8, SurvivorStep

LEMMA IssueKeepsSurvivors ==
    ASSUME TypeInv, SurvivorInv, NEW w \in Workers, Issue(w)
    PROVE  SurvivorInv'
<1>1. \A v \in Workers \ {w} : Keeps(v)
  BY OthersKeep DEF Continue
<1>2. JobSafe(job[w])'
  BY NextStatements, IdleIsAJob DEF JobSafe
<1>3. UNCHANGED <<account, suspended>> /\ job[w].at = "issue"
  BY DEF Issue
<1>4. PICK harmed \in SUBSET People : harmed = {}
  OBVIOUS
<1>5. \A p \in People \ harmed :
         Exists(p) => account'[p].pw = account[p].pw /\ (Barred(p)' => Barred(p))
  BY <1>3 DEF Barred, Suspended
<1>6. PICK new : /\ new.user = job[w].who /\ new.pw = job[w].pw /\ new.why = job[w].why
                 /\ tokens' = tokens \cup {new}
  <2>1. PICK new : /\ new = [id |-> issued + 1,
                             root |-> IF job[w].root = 0 THEN issued + 1 ELSE job[w].root,
                             user |-> job[w].who, pw |-> job[w].pw, expired |-> FALSE,
                             why |-> job[w].why]
                   /\ tokens' = tokens \cup {new}
    BY DEF Issue
  <2>2. new.user = job[w].who /\ new.pw = job[w].pw /\ new.why = job[w].why
    BY <2>1
  <2>3. QED BY <2>1, <2>2
<1>7. TokenSafe(new)'
  <2>1. JobSafe(job[w])
    BY DEF SurvivorInv
  <2>2. QED BY <1>3, <1>6, <2>1 DEF JobSafe, TokenSafe, Barred, Suspended
<1>8. \A p : Revoking(p) => Revoking(p)'
  BY <1>1, <1>3, RevokingStays DEF Revokes
<1>9. ASSUME NEW t \in tokens'
      PROVE  \/ TokenSafe(t)'
             \/ /\ t.user \notin harmed /\ (Revoking(t.user) => Revoking(t.user)')
                /\ \E s \in tokens : t.user = s.user /\ t.pw = s.pw /\ (s.why # {} => t.why # {})
  <2>1. CASE t = new
    BY <1>7, <2>1
  <2>2. CASE t \in tokens
    BY <1>4, <1>8, <2>2
  <2>3. QED BY <1>6, <2>1, <2>2
<1>10. QED BY <1>1, <1>2, <1>4, <1>5, <1>9, SurvivorStep

\* An address gets an account: it has no sessions, and nobody is issuing one.
LEMMA FoundingKeepsSurvivors ==
    ASSUME TypeInv, SurvivorInv, NEW w \in Workers, \A v \in Workers \ {w} : Keeps(v),
           NEW u \in Users, ~Exists(u), NEW row, account' = [account EXCEPT ![u] = row],
           UNCHANGED <<suspended, tokens>>, job[w].at \notin Dropping, JobSafe(job[w])'
    PROVE  SurvivorInv'
<1>1. \A p \in People \ {u} : account'[p] = account[p]
  BY TablesTyped
<1>2. PICK harmed \in SUBSET People : harmed = {u}
  BY DEF People
<1>3. \A p \in People \ harmed :
         Exists(p) => account'[p].pw = account[p].pw /\ (Barred(p)' => Barred(p))
  BY <1>1, <1>2 DEF Barred, Suspended
<1>4. \A p \in People \ {u} : Revoking(p) => Revoking(p)'
  BY <1>1, RevokingStays DEF Revokes, Dropping
<1>5. ASSUME NEW t \in tokens
      PROVE  t.user \notin harmed /\ (Revoking(t.user) => Revoking(t.user)')
  <2>1. t.user \in People \ {u}
    BY TablesTyped DEF TypeInv, TokensOK, Token
  <2>2. QED BY <1>2, <1>4, <2>1
<1>6. \A v \in Workers : job[v].at \in Checked => job[v].who # u
  BY TablesTyped DEF HandlerOK
<1>7. QED BY <1>2, <1>3, <1>5, <1>6, SurvivorStep, ZenonT(40)

LEMMA FoundersKeepSurvivors ==
    ASSUME TypeInv, SurvivorInv, NEW w \in Workers, CreateOwn(w) \/ Join(w)
    PROVE  SurvivorInv'
<1>0. /\ job \in [Workers -> Job] /\ account \in [People -> Account]
      /\ \A v \in Workers \ {w} : Keeps(v)
      /\ job[w].who \in Users /\ Users \subseteq People
  BY OthersKeep, TablesTyped DEF Continue, AccountsTypeOK, CreateOwn, Join, HandlerOK, AboutUsers
<1>1. PICK u \in Users : u = job[w].who
  BY <1>0
<1>2. UNCHANGED <<suspended, tokens>> /\ job[w].at \notin Dropping
  BY DEF CreateOwn, Join, Dropping
<1>3. CASE Exists(u)
  <2>1. UNCHANGED account /\ job'[w] = Idle
    BY <1>0, <1>1, <1>3 DEF CreateOwn, Join, End
  <2>2. JobSafe(job[w])'
    BY <2>1, IdleIsAJob DEF JobSafe
  <2>3. QED BY <1>0, <1>2, <2>1, <2>2, QuietSurvivors
<1>4. CASE CreateOwn(w) /\ ~Exists(u)
  <2>1. PICK row : row = [company |-> u, admin |-> TRUE, active |-> TRUE, pw |-> job[w].pw]
    OBVIOUS
  <2>2. row.company = u /\ row.active /\ row.pw = job[w].pw
    BY <2>1
  <2>3. account' = [account EXCEPT ![u] = row]
    BY <1>1, <1>4, <2>1 DEF CreateOwn
  <2>4. job'[w].at = "issue" /\ job'[w].who = u /\ job'[w].pw = job[w].pw
    BY <1>0, <1>1, <1>4 DEF CreateOwn, Goto, Job
  <2>5. u \notin suspended
    <3>1. \A v \in Users : Exists(v) => account[v].company # u
      BY <1>4, NobodyIsTyped DEF TypeInv, AccountsOK
    <3>2. QED BY <3>1, TablesTyped, NobodyIsTyped DEF Founded
  <2>6. account'[u] = row
    BY <1>0, <2>3
  <2>7. JobSafe(job[w])'
    BY <1>2, <2>2, <2>4, <2>5, <2>6 DEF JobSafe, Barred, Suspended
  <2>8. QED BY <1>0, <1>2, <1>4, <2>3, <2>7, FoundingKeepsSurvivors
<1>5. CASE Join(w) /\ ~Exists(u)
  <2>1. PICK row : row = [company |-> Home, admin |-> Row(job[w].inv).admin, active |-> TRUE, pw |-> 1]
    OBVIOUS
  <2>2. row.company = Home /\ row.active /\ row.pw = 1
    BY <2>1
  <2>3. account' = [account EXCEPT ![u] = row]
    BY <1>1, <1>5, <2>1 DEF Join
  <2>4. PICK why : why = IF Home \in suspended THEN {"unchecked"} ELSE {}
    OBVIOUS
  <2>5. PICK f : f = Outdated({}, TRUE)
    OBVIOUS
  <2>6. f \in [Workers -> Job] /\ f[w] \in {Outdated({}, TRUE)[w]}
    BY <2>5, OutdatedIsTyped, TablesTyped
  <2>7. f[w].who = u /\ f[w].pw = job[w].pw
    <3>1. PICK j : j = f[w]
      OBVIOUS
    <3>2. {} \in SUBSET People /\ j \in {Outdated({}, TRUE)[w]}
      BY <2>6, <3>1
    <3>3. j.who = job[w].who /\ j.pw = job[w].pw
      BY <3>2, OutdatedMarks, TablesTyped, ZenonT(40)
    <3>4. QED BY <1>1, <3>1, <3>3
  <2>8. job' = [f EXCEPT ![w] = [f[w] EXCEPT !.at = "issue", !.why = why]]
    BY <1>1, <1>5, <2>4, <2>5, <2>6 DEF Join
  <2>9. job'[w].at = "issue" /\ job'[w].who = u /\ job'[w].pw = job[w].pw /\ job'[w].why = why
    BY <2>6, <2>7, <2>8 DEF Job
  <2>10. job[w].pw = 1
    BY <1>5 DEF Join, SurvivorInv, JobSafe
  <2>11. account'[u] = row
    BY <1>0, <2>3
  <2>12. why = {} => Home \notin suspended
    BY <2>4
  <2>13. JobSafe(job[w])'
    BY <1>2, <2>2, <2>9, <2>10, <2>11, <2>12 DEF JobSafe, Barred, Suspended
  <2>14. QED BY <1>0, <1>2, <1>5, <2>3, <2>13, FoundingKeepsSurvivors
<1>6. QED BY <1>3, <1>4, <1>5

\* The account of u changes, and nobody else's.
LEMMA OneAccount ==
    ASSUME TypeInv, NEW u \in People, NEW row, account' = [account EXCEPT ![u] = row],
           UNCHANGED suspended
    PROVE  /\ account'[u] = row
           /\ \A p \in People \ {u} :
                 /\ account'[p] = account[p]
                 /\ Barred(p)' => Barred(p)
BY TablesTyped DEF Barred, Suspended

LEMMA ResetKeepsSurvivors ==
    ASSUME TypeInv, SurvivorInv, NEW w \in Workers, ApplyReset(w)
    PROVE  SurvivorInv'
<1>1. PICK u \in People : u = job[w].who
  BY TablesTyped DEF ApplyReset, HandlerOK, AboutUsers
<1>2. PICK people \in SUBSET People : people = {u}
  OBVIOUS
<1>3. job' = [Outdated(people, FALSE) EXCEPT ![w] = Idle]
  BY <1>1, <1>2 DEF ApplyReset
<1>4. \A v \in Workers \ {w} :
         Keeps(v) /\ (job[v].at \in Checked /\ job[v].who \in people => job'[v].why # {})
  BY <1>3, OutdatedKeepsOthers, TablesTyped
<1>5. JobSafe(job[w])'
  BY NextStatements, IdleIsAJob DEF JobSafe
<1>6. account' = [account EXCEPT ![u] = [account[u] EXCEPT !.pw = account[u].pw + 1]]
  BY <1>1 DEF ApplyReset
<1>7. UNCHANGED suspended
  BY DEF ApplyReset
<1>8. \A p \in People \ {u} : account'[p] = account[p] /\ (Barred(p)' => Barred(p))
  BY <1>6, <1>7, OneAccount
<1>9. ASSUME NEW t \in tokens'
      PROVE  /\ t \in tokens /\ t.user \notin people
             /\ Revoking(t.user) => Revoking(t.user)'
  <2>1. t \in tokens /\ t.user # u
    BY <1>1 DEF ApplyReset
  <2>2. t.user \in People \ {u}
    BY <2>1, TablesTyped DEF Token
  <2>3. job[w].at = "applyReset"
    BY DEF ApplyReset
  <2>4. QED BY <1>2, <1>4, <1>8, <2>1, <2>2, <2>3, RevokingStays DEF Revokes
<1>10. QED BY <1>2, <1>4, <1>5, <1>8, <1>9, SurvivorStep, ZenonT(40)

LEMMA DeactivateKeepsSurvivors ==
    ASSUME TypeInv, SurvivorInv, NEW w \in Workers, DeactivateRequests(w) \/ Deactivate(w)
    PROVE  SurvivorInv'
<1>1. PICK u \in Users :
         /\ account' = [account EXCEPT ![u].active = FALSE]
         /\ job' = [Outdated({u}, TRUE) EXCEPT ![w] = [Idle EXCEPT !.at = "dropUser", !.who = u]]
  BY TablesTyped DEF DeactivateRequests, AdminDeactivate, Deactivate, HandlerOK, AboutUsers
<1>2. job[w].at \notin Dropping
  BY IdleIsAJob DEF DeactivateRequests, AdminDeactivate, Deactivate, Dropping
<1>3. UNCHANGED <<suspended, tokens>>
  BY DEF DeactivateRequests, AdminDeactivate, Deactivate
<1>4. PICK people \in SUBSET People : people = {u}
  BY DEF People
<1>5. PICK J : J = [Idle EXCEPT !.at = "dropUser", !.who = u]
  OBVIOUS
<1>6. job' = [Outdated(people, TRUE) EXCEPT ![w] = J]
  BY <1>1, <1>4, <1>5
<1>7. \A v \in Workers \ {w} :
         Keeps(v) /\ (job[v].at \in Checked /\ job[v].who \in people => job'[v].why # {})
  BY <1>6, OutdatedKeepsOthers, TablesTyped
<1>8. job'[w].at = "dropUser" /\ job'[w].who = u
  <2>1. J.at = "dropUser" /\ J.who = u
    BY <1>5 DEF Idle
  <2>2. job'[w] = J
    BY <1>6 DEF Outdated
  <2>3. QED BY <2>1, <2>2
<1>9. JobSafe(job[w])'
  BY <1>8 DEF JobSafe
<1>10. u \in People /\ account[u] \in Account
  BY TablesTyped DEF People
<1>11. /\ account'[u].pw = account[u].pw
       /\ \A p \in People \ {u} : account'[p] = account[p] /\ (Barred(p)' => Barred(p))
  <2>1. PICK row : row = [account[u] EXCEPT !.active = FALSE]
    OBVIOUS
  <2>2. row.pw = account[u].pw
    BY <1>10, <2>1 DEF Account
  <2>3. account' = [account EXCEPT ![u] = row]
    BY <1>1, <2>1
  <2>4. QED BY <1>3, <1>10, <2>2, <2>3, OneAccount
<1>12. ASSUME NEW t \in tokens'
       PROVE  \/ TokenSafe(t)'
              \/ /\ t.user \notin people /\ (Revoking(t.user) => Revoking(t.user)')
                 /\ \E s \in tokens : t.user = s.user /\ t.pw = s.pw /\ (s.why # {} => t.why # {})
  <2>1. t \in tokens /\ t.user \in People /\ TokenSafe(t)
    BY <1>3, TablesTyped DEF SurvivorInv, Token
  <2>2. CASE t.user = u
    <3>1. Revoking(u)'
      BY <1>8 DEF Revoking
    <3>2. QED BY <1>11, <2>1, <2>2, <3>1 DEF TokenSafe
  <2>3. CASE t.user # u
    BY <1>2, <1>4, <1>7, <1>11, <2>1, <2>3, RevokingStays DEF Revokes, Dropping
  <2>4. QED BY <2>2, <2>3
<1>13. QED BY <1>4, <1>7, <1>9, <1>11, <1>12, SurvivorStep

LEMMA SuspendKeepsSurvivors ==
    ASSUME TypeInv, SurvivorInv, NEW w \in Workers, SuspendRequests(w)
    PROVE  SurvivorInv'
<1>1. PICK c \in Founded : Suspend(w, c)
  BY DEF SuspendRequests
<1>2. PICK people \in SUBSET People : people = {p \in People : account[p].company = c}
  OBVIOUS
<1>3. PICK J : J = [Idle EXCEPT !.at = "dropCompany", !.who = c]
  OBVIOUS
<1>4. job' = [Outdated(people, FALSE) EXCEPT ![w] = J]
  BY <1>1, <1>2, <1>3 DEF Suspend
<1>5. \A v \in Workers \ {w} :
         Keeps(v) /\ (job[v].at \in Checked /\ job[v].who \in people => job'[v].why # {})
  BY <1>4, OutdatedKeepsOthers, TablesTyped
<1>6. job'[w].at = "dropCompany" /\ job'[w].who = c
  <2>1. J.at = "dropCompany" /\ J.who = c
    BY <1>3 DEF Idle
  <2>2. job'[w] = J
    BY <1>4 DEF Outdated
  <2>3. QED BY <2>1, <2>2
<1>7. JobSafe(job[w])'
  BY <1>6 DEF JobSafe
<1>8. UNCHANGED <<account, tokens>> /\ suspended' = suspended \cup {c} /\ job[w].at \notin Dropping
  BY <1>1, IdleIsAJob DEF Suspend, Dropping
<1>9. \A p \in People \ people :
         Exists(p) => account'[p].pw = account[p].pw /\ (Barred(p)' => Barred(p))
  BY <1>2, <1>8 DEF Barred, Suspended
<1>10. ASSUME NEW t \in tokens'
       PROVE  \/ TokenSafe(t)'
              \/ /\ t.user \notin people /\ (Revoking(t.user) => Revoking(t.user)')
                 /\ \E s \in tokens : t.user = s.user /\ t.pw = s.pw /\ (s.why # {} => t.why # {})
  <2>1. t \in tokens /\ t.user \in People /\ TokenSafe(t)
    BY <1>8, TablesTyped DEF SurvivorInv, Token
  <2>2. CASE t.user \in people
    <3>1. Revoking(t.user)'
      BY <1>2, <1>6, <1>8, <2>2 DEF Revoking
    <3>2. QED BY <1>8, <2>1, <3>1 DEF TokenSafe
  <2>3. CASE t.user \notin people
    BY <1>5, <1>8, <2>1, <2>3, RevokingStays DEF Revokes, Dropping
  <2>4. QED BY <2>2, <2>3
<1>11. QED BY <1>5, <1>7, <1>9, <1>10, SurvivorStep

\* PATCH users/:id: what it keeps is excused.
LEMMA WriteKeepsSurvivors ==
    ASSUME TypeInv, SurvivorInv, NEW w \in Workers, WriteUser(w)
    PROVE  SurvivorInv'
<1>1. PICK u \in Users : u = job[w].who
  BY TablesTyped DEF WriteUser, HandlerOK, AboutUsers
<1>2. u \in People /\ account[u] \in Account /\ job[w] \in Job /\ tokens \subseteq Token
  BY TablesTyped DEF People
<1>3. PICK people \in SUBSET People : people = IF job[w].to.active = "off" THEN {u} ELSE {}
  BY <1>2
<1>4. job' = [Outdated(people, TRUE) EXCEPT ![w] = Idle]
  BY <1>1, <1>3 DEF WriteUser
<1>5. \A v \in Workers \ {w} :
         Keeps(v) /\ (job[v].at \in Checked /\ job[v].who \in people => job'[v].why # {})
  BY <1>4, OutdatedKeepsOthers, TablesTyped
<1>6. JobSafe(job[w])'
  BY NextStatements, IdleIsAJob DEF JobSafe
<1>7. UNCHANGED suspended /\ job[w].at \notin Dropping
  BY DEF WriteUser, Dropping
<1>8. /\ account'[u].pw = account[u].pw /\ account'[u].company = account[u].company
      /\ job[w].to.active # "off" => (account[u].active => account'[u].active)
      /\ \A p \in People \ {u} : account'[p] = account[p] /\ (Barred(p)' => Barred(p))
  <2>1. PICK row : row = [account[u] EXCEPT
           !.admin = IF job[w].to.role = "keep" THEN @ ELSE job[w].to.role = "ADMIN",
           !.active = IF job[w].to.active = "keep" THEN @ ELSE job[w].to.active = "on"]
    OBVIOUS
  <2>2. /\ row.pw = account[u].pw /\ row.company = account[u].company
        /\ job[w].to.active # "off" => (account[u].active => row.active)
    BY <1>2, <2>1 DEF Account, Job, Changes
  <2>3. account' = [account EXCEPT ![u] = row]
    <3>1. account' = [account EXCEPT
             ![u].admin = IF job[w].to.role = "keep" THEN @ ELSE job[w].to.role = "ADMIN",
             ![u].active = IF job[w].to.active = "keep" THEN @ ELSE job[w].to.active = "on"]
      BY <1>1 DEF WriteUser
    <3>2. QED BY <1>2, <2>1, <3>1, TablesTyped DEF Account
  <2>4. QED BY <1>2, <1>7, <2>2, <2>3, OneAccount, ZenonT(40)
<1>9. \A p \in People \ people :
         Exists(p) => account'[p].pw = account[p].pw /\ (Barred(p)' => Barred(p))
  <2>1. job[w].to.active # "off" => (Barred(u)' => Barred(u))
    BY <1>7, <1>8 DEF Barred, Suspended
  <2>2. QED BY <1>3, <1>8, <2>1
<1>10. ASSUME NEW p \in People PROVE Revoking(p) => Revoking(p)'
  <2>1. account'[p].company = account[p].company
    BY <1>8
  <2>2. QED BY <1>5, <1>7, <2>1, RevokingStays DEF Revokes, Dropping
<1>11. ASSUME NEW t \in tokens'
       PROVE  \/ TokenSafe(t)'
              \/ /\ t.user \notin people /\ (Revoking(t.user) => Revoking(t.user)')
                 /\ \E s \in tokens : t.user = s.user /\ t.pw = s.pw /\ (s.why # {} => t.why # {})
  <2>1. CASE job[w].to.active = "off"
    <3>1. tokens' = Excused(people, "kept") /\ "kept" \in Causes
      BY <1>1, <1>3, <2>1 DEF WriteUser, Causes
    <3>2. PICK s \in tokens :
             /\ t.user = s.user /\ t.pw = s.pw
             /\ t.user \in people => t.why # {}
             /\ t.user \notin people => t.why = s.why
      BY <1>2, <3>1, ExcusedMarks
    <3>3. t.user \in People
      BY <1>2, <3>2 DEF Token
    <3>4. QED BY <1>10, <3>2, <3>3 DEF TokenSafe
  <2>2. CASE job[w].to.active # "off"
    <3>1. t \in tokens /\ t.user \in People /\ people = {}
      BY <1>1, <1>2, <1>3, <2>2 DEF WriteUser, Token
    <3>2. QED BY <1>10, <3>1
  <2>3. QED BY <2>1, <2>2
<1>12. QED BY <1>5, <1>6, <1>9, <1>11, SurvivorStep

\* The script for platform administrators: what it keeps is excused.
LEMMA ScriptKeepsSurvivors ==
    ASSUME TypeInv, SurvivorInv, PlatformEvents
    PROVE  SurvivorInv'
<1>1. PICK a \in PlatformAdmins : ResetPlatformAdmin(a) \/ \E b \in BOOLEAN : SetPlatformAdmin(a, b)
  BY DEF PlatformEvents
<1>2. PICK row : account' = [account EXCEPT ![a] = row] /\ row.company = account[a].company
  <2>1. PICK row1, row2, row3 : /\ row1 = [account[a] EXCEPT !.active = TRUE]
                                /\ row2 = [account[a] EXCEPT !.active = FALSE]
                                /\ row3 = [account[a] EXCEPT !.pw = @ + 1, !.active = TRUE]
    OBVIOUS
  <2>2. a \in People /\ account[a] \in Account
    BY TablesTyped DEF People
  <2>3. /\ row1.company = account[a].company /\ row2.company = account[a].company
        /\ row3.company = account[a].company
    BY <2>1, <2>2 DEF Account
  <2>4. ASSUME ResetPlatformAdmin(a) PROVE account' = [account EXCEPT ![a] = row3]
    <3>1. account' = [account EXCEPT ![a].pw = @ + 1, ![a].active = TRUE]
      BY <2>4 DEF ResetPlatformAdmin
    <3>2. QED BY <2>1, <2>2, <3>1, TablesTyped DEF Account
  <2>5. ASSUME NEW b \in BOOLEAN, SetPlatformAdmin(a, b)
        PROVE  account' = [account EXCEPT ![a] = row1] \/ account' = [account EXCEPT ![a] = row2]
    BY <2>1, <2>5 DEF SetPlatformAdmin
  <2>6. QED BY <1>1, <2>3, <2>4, <2>5
<1>3. a \in People /\ UNCHANGED suspended
  BY <1>1 DEF People, ResetPlatformAdmin, SetPlatformAdmin
<1>4. \A p \in People \ {a} : account'[p] = account[p] /\ (Barred(p)' => Barred(p))
  BY <1>2, <1>3, OneAccount
<1>5. \A p \in People : Revoking(p) => Revoking(p)'
  <2>1. \A p \in People : account'[p].company = account[p].company
    BY <1>2, <1>3, <1>4, OneAccount
  <2>2. \A v \in Workers : Keeps(v)
    BY EventsKeep DEF Events
  <2>3. QED BY <2>1, <2>2, RevokingStays
<1>6. CASE tokens' = Excused({a}, "kept") /\ job' = Outdated({a}, FALSE)
  <2>1. PICK people \in SUBSET People : people = {a}
    BY <1>3
  <2>2. ASSUME NEW v \in Workers
        PROVE  Keeps(v) /\ (job[v].at \in Checked /\ job[v].who \in people => job'[v].why # {})
    BY <1>6, <2>1, OutdatedKeeps, TablesTyped
  <2>3. ASSUME NEW t \in tokens'
        PROVE  \/ TokenSafe(t)'
               \/ /\ t.user \notin people /\ (Revoking(t.user) => Revoking(t.user)')
                  /\ \E s \in tokens : t.user = s.user /\ t.pw = s.pw /\ (s.why # {} => t.why # {})
    <3>1. tokens' = Excused(people, "kept") /\ "kept" \in Causes /\ tokens \subseteq Token
      BY <1>6, <2>1, TablesTyped DEF Causes
    <3>2. PICK s \in tokens :
             /\ t.user = s.user /\ t.pw = s.pw
             /\ t.user \in people => t.why # {}
             /\ t.user \notin people => t.why = s.why
      BY <3>1, ExcusedMarks
    <3>3. t.user \in People
      BY <3>1, <3>2 DEF Token
    <3>4. QED BY <1>5, <3>2, <3>3 DEF TokenSafe
  <2>4. QED BY <1>4, <2>1, <2>2, <2>3, SurvivorStep
<1>7. CASE SetPlatformAdmin(a, TRUE)
  <2>1. PICK people \in SUBSET People : people = {}
    OBVIOUS
  <2>2. UNCHANGED <<tokens, job>>
    BY <1>7 DEF SetPlatformAdmin
  <2>3. \A v \in Workers : Keeps(v)
    BY EventsKeep DEF Events
  <2>4. account'[a].pw = account[a].pw /\ account'[a].active /\ account'[a].company = account[a].company
    <3>1. account' = [account EXCEPT ![a].active = TRUE]
      BY <1>7 DEF SetPlatformAdmin
    <3>2. QED BY <1>3, <3>1, TablesTyped DEF Account
  <2>5. Barred(a)' => Barred(a)
    BY <1>3, <2>4 DEF Barred, Suspended
  <2>6. \A t \in tokens : t.user \in People
    BY TablesTyped DEF Token
  <2>7. QED BY <1>4, <1>5, <2>1, <2>2, <2>3, <2>4, <2>5, <2>6, SurvivorStep, ZenonT(40)
<1>8. QED BY <1>1, <1>6, <1>7 DEF ResetPlatformAdmin, SetPlatformAdmin

LEMMA EventsKeepSurvivors ==
    ASSUME TypeInv, SurvivorInv, Events
    PROVE  SurvivorInv'
<1>1. \A v \in Workers : Keeps(v)
  BY EventsKeep
<1>2. PICK people \in SUBSET People : people = {}
  OBVIOUS
<1>3. CASE ~PlatformEvents /\ ~ActivateEvents
  <2>1. UNCHANGED account /\ suspended' \subseteq suspended
    BY <1>3 DEF Events, LogoutEvents, ExpiryEvents, ReinstateEvents, AllowlistEvents, LinkEvents,
          InvitationEvents, Logout, TokenExpires, Reinstate, ChangeAllowlist, LinkExpires,
          InvitationExpires
  <2>2. \A p \in People \ people :
           Exists(p) => account'[p].pw = account[p].pw /\ (Barred(p)' => Barred(p))
    BY <2>1 DEF Barred, Suspended
  <2>3. \A p : Revoking(p) => Revoking(p)'
    BY <1>1, <2>1, RevokingStays
  <2>4. ASSUME NEW t \in tokens'
        PROVE  \E s \in tokens : t.user = s.user /\ t.pw = s.pw /\ (s.why # {} => t.why # {})
    <3>1. CASE ExpiryEvents
      <4>1. PICK k \in tokens : TokenExpires(k)
        BY <3>1 DEF ExpiryEvents
      <4>2. PICK e : e = [k EXCEPT !.expired = TRUE]
        OBVIOUS
      <4>3. e.user = k.user /\ e.pw = k.pw /\ e.why = k.why
        BY <4>2, TablesTyped DEF Token
      <4>4. t \in tokens \/ t = e
        BY <4>1, <4>2 DEF TokenExpires
      <4>5. QED BY <4>3, <4>4
    <3>2. CASE ~ExpiryEvents
      BY <1>3, <3>2 DEF Events, LogoutEvents, ReinstateEvents, AllowlistEvents, LinkEvents,
            InvitationEvents, Logout, Reinstate, ChangeAllowlist, LinkExpires, InvitationExpires
    <3>3. QED BY <3>1, <3>2
  <2>5. QED BY <1>1, <1>2, <2>2, <2>3, <2>4, SurvivorStep
<1>4. CASE ActivateEvents
  <2>1. PICK u \in Users : AdminActivate(u)
    BY <1>4 DEF ActivateEvents
  <2>2. u \in People /\ account[u] \in Account
    BY TablesTyped DEF People
  <2>3. PICK row : row = [account[u] EXCEPT !.active = TRUE]
    OBVIOUS
  <2>4. row.pw = account[u].pw /\ row.company = account[u].company /\ row.active
    BY <2>2, <2>3 DEF Account
  <2>5. /\ account'[u] = row
        /\ \A p \in People \ {u} : account'[p] = account[p] /\ (Barred(p)' => Barred(p))
    BY <2>1, <2>2, <2>3, OneAccount DEF AdminActivate
  <2>6. \A p \in People \ people :
           Exists(p) => account'[p].pw = account[p].pw /\ (Barred(p)' => Barred(p))
    BY <2>1, <2>4, <2>5 DEF AdminActivate, Barred, Suspended
  <2>7. \A p \in People : Revoking(p) => Revoking(p)'
    BY <1>1, <2>4, <2>5, RevokingStays
  <2>8. tokens' = tokens /\ \A t \in tokens : t.user \in People
    BY <2>1, TablesTyped DEF AdminActivate, Token
  <2>9. QED BY <1>1, <1>2, <2>6, <2>7, <2>8, SurvivorStep
<1>5. QED BY <1>3, <1>4, ScriptKeepsSurvivors

LEMMA SurvivorStepKeeps == TypeInv /\ SurvivorInv /\ [Next]_vars => SurvivorInv'
<1>1. SUFFICES ASSUME TypeInv, SurvivorInv, [Next]_vars PROVE SurvivorInv'
  OBVIOUS
<1>2. ASSUME NEW w \in Workers, Requests(w) \/ Continue(w) PROVE SurvivorInv'
  <2>1. CASE \/ SuspendRequests(w) \/ DeactivateRequests(w) \/ Deactivate(w) \/ ApplyReset(w)
             \/ WriteUser(w)
    BY <1>1, <2>1, SuspendKeepsSurvivors, DeactivateKeepsSurvivors, ResetKeepsSurvivors,
       WriteKeepsSurvivors
  <2>2. CASE Issue(w) \/ CreateOwn(w) \/ Join(w) \/ DropCompany(w) \/ DropUser(w)
    BY <1>1, <2>2, IssueKeepsSurvivors, FoundersKeepSurvivors, DropsKeepSurvivors
  <2>3. QED BY <1>1, <1>2, <2>1, <2>2, QuietHandlers
<1>3. ASSUME NEW w \in Workers, Fail(w) PROVE SurvivorInv'
  BY <1>1, <1>3, DropsKeepSurvivors
<1>4. CASE Events
  BY <1>1, <1>4, EventsKeepSurvivors
<1>5. CASE UNCHANGED vars
  BY <1>1, <1>5 DEF vars, tables, SurvivorInv, TokenSafe, JobSafe, Barred, Suspended, Revoking
<1>6. QED BY <1>1, <1>2, <1>3, <1>4, <1>5 DEF Next

\* A session outlives the deactivation of its user, the suspension of his company or a
\* reset of his password only for one of the known causes.
THEOREM SurvivorsAreExplained == Spec => []SurvivorHasCause
<1>1. Init => SurvivorInv
  BY IdleIsAJob DEF Init, SurvivorInv, JobSafe
<1>2. SurvivorInv => SurvivorHasCause
  BY DEF SurvivorInv, SurvivorHasCause, TokenSafe
<1>3. QED BY <1>1, <1>2, TypesHold, SurvivorStepKeeps, PTL DEF Spec
=============================================================================
