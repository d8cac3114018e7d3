------------------------------ MODULE Sessions ------------------------------
(***************************************************************************)
(* Signing in and out: the handlers of AuthService and PlatformAuthService, *)
(* and what platform administrators do to accounts, companies and the      *)
(* allowlist.  A refresh token is exchanged in three statements (read,     *)
(* delete, create) that no transaction joins.                              *)
(***************************************************************************)
EXTENDS Accounts

\* A session in the making for p.
SigningIn(p, statement) == [Idle EXCEPT !.at = statement, !.who = p]

-----------------------------------------------------------------------------
(* Tokens *)

\* generateTokens.
Issue(w) ==
    /\ job[w].at = "issue"
    /\ issued' = issued + 1
    /\ tokens' = tokens \cup
         {[id |-> issued + 1, root |-> IF job[w].root = 0 THEN issued + 1 ELSE job[w].root,
           user |-> job[w].who, pw |-> job[w].pw, expired |-> FALSE, why |-> job[w].why]}
    /\ End(w)
    /\ UNCHANGED <<account, suspended, allowed, links, invitation, history>>

TokenExpires(t) ==
    /\ t \in tokens /\ ~t.expired
    /\ tokens' = (tokens \ {t}) \cup {[t EXCEPT !.expired = TRUE]}
    /\ UNCHANGED <<account, suspended, allowed, issued, links, invitation, job, history>>

\* The first statement of refreshTokens (of either service): the row of the token
\* presented, with its account; what it decides next.
ReadToken(w, t) ==
    LET refresh == [Idle EXCEPT !.who = t.user, !.ref = t.id, !.root = t.root,
                                !.pw = t.pw, !.why = t.why]
    IN
    /\ t \in tokens
    /\ \/ /\ t.expired
          /\ Begin(w, [refresh EXCEPT !.at = "dropExpired"])
          /\ UNCHANGED forked
       \/ /\ ~t.expired /\ account[t.user].active /\ Suspended(t.user)
          /\ Begin(w, [refresh EXCEPT !.at = "dropRefused"])
          /\ UNCHANGED forked
       \/ /\ ~t.expired /\ ~Barred(t.user) /\ Room
          /\ Begin(w, [refresh EXCEPT !.at = IF t.user \in PlatformAdmins THEN "rotate"
                                                                       ELSE "recheck"])
          /\ forked' = IF \E v \in Workers : job[v].at \in Checked /\ job[v].root = t.root
                       THEN forked \cup {t.root} ELSE forked
    /\ UNCHANGED <<tables, rushed, joined, contested>>

\* refreshTokens: the allowlist again.
Recheck(w) ==
    /\ job[w].at = "recheck"
    /\ Goto(w, IF IsAllowed(job[w].who) THEN "rotate" ELSE "dropRefused")
    /\ UNCHANGED <<tables, history>>

\* Mutant: the token that was exchanged stays.
RotateKeepsOld(w) ==
    /\ job[w].at = "rotate"
    /\ Goto(w, "issue")
    /\ UNCHANGED <<tables, history>>

\* refreshTokens: deleteMany of the old token, which may be gone already.
Rotate(w) ==
    /\ job[w].at = "rotate"
    /\ tokens' = {t \in tokens : t.id # job[w].ref}
    /\ Goto(w, "issue")
    /\ UNCHANGED <<account, suspended, allowed, issued, links, invitation, history>>

DropExpired(w) ==
    /\ job[w].at = "dropExpired"
    /\ tokens' = {t \in tokens : t.id # job[w].ref}
    /\ End(w)
    /\ UNCHANGED <<account, suspended, allowed, issued, links, invitation, history>>

DropRefused(w) ==
    /\ job[w].at = "dropRefused"
    /\ tokens' = {t \in tokens : t.user # job[w].who}
    /\ End(w)
    /\ UNCHANGED <<account, suspended, allowed, issued, links, invitation, history>>

\* logout, a protected route: p holds an access token.
Logout(p, t) ==
    /\ Authenticated(p) /\ t \in tokens
    /\ tokens' = tokens \ {t}
    /\ UNCHANGED <<account, suspended, allowed, issued, links, invitation, job, history>>

-----------------------------------------------------------------------------
(* Signing in and up *)

Login(w, u) ==
    /\ IsAllowed(u) /\ Room
    /\ Begin(w, SigningIn(u, "findLogin"))
    /\ UNCHANGED <<tables, history>>

\* The row and its company, and the comparison with a correct password; a wrong one
\* ends the handler as Fail does.
FindLogin(w) ==
    LET p == job[w].who IN
    /\ job[w].at = "findLogin"
    /\ IF Authenticated(p) /\ account[p].pw > 0
       THEN job' = [job EXCEPT ![w].at = "issue", ![w].pw = account[p].pw]
       ELSE End(w)
    /\ UNCHANGED <<tables, history>>

Register(w, u) ==
    /\ IsAllowed(u) /\ Room
    /\ Begin(w, SigningIn(u, "findRegister"))
    /\ UNCHANGED <<tables, history>>

FindRegister(w) ==
    /\ job[w].at = "findRegister"
    /\ IF Exists(job[w].who) THEN End(w)
       ELSE job' = [job EXCEPT ![w].at = "createOwn", ![w].pw = 1]
    /\ UNCHANGED <<tables, history>>

\* The OAuth callback of an address: validateOAuthUser ...
SignInOAuth(w, u) ==
    /\ IsAllowed(u) /\ Room
    /\ Begin(w, SigningIn(u, "findOAuth"))
    /\ UNCHANGED <<tables, history>>

\* ... which looks at the account and not at its company, and handleOAuthCallback,
\* which looks at neither.
FindOAuth(w) ==
    LET p == job[w].who IN
    /\ job[w].at = "findOAuth"
    /\ \/ /\ account[p].active
          /\ job' = [job EXCEPT ![w].at = "issue", ![w].pw = account[p].pw,
                                ![w].why = IF Suspended(p) THEN {"unchecked"} ELSE {}]
       \/ Exists(p) /\ ~account[p].active /\ End(w)
       \/ ~Exists(p) /\ Goto(w, "createOwn")
    /\ UNCHANGED <<tables, history>>

\* The transaction that creates a company and its first administrator; the unique
\* address makes it fail when the account exists by now.
CreateOwn(w) ==
    LET p == job[w].who IN
    /\ job[w].at = "createOwn"
    /\ IF Exists(p) THEN End(w) /\ UNCHANGED account
       ELSE /\ account' = [account EXCEPT ![p] =
                 [company |-> p, admin |-> TRUE, active |-> TRUE, pw |-> job[w].pw]]
            /\ Goto(w, "issue")
    /\ UNCHANGED <<suspended, allowed, tokens, issued, links, invitation, history>>

\* PlatformAuthService.login.
PlatformLogin(w, a) ==
    /\ account[a].active /\ Room
    /\ Begin(w, [SigningIn(a, "issue") EXCEPT !.pw = account[a].pw])
    /\ UNCHANGED <<tables, history>>

-----------------------------------------------------------------------------
(* Forgotten passwords *)

\* The first statement of forgotPassword.
ForgotPassword(w, u) ==
    /\ account[u].active
    /\ Cardinality(links) + Cardinality({v \in Workers : job[v].at \in {"invalidate", "createLink"}})
         < MaxLinks
    /\ Begin(w, [Idle EXCEPT !.at = "invalidate", !.who = u])
    /\ rushed' = IF \E v \in Workers : job[v].at \in {"invalidate", "createLink"}
                                          /\ job[v].who = u
                 THEN rushed \cup {u} ELSE rushed
    /\ UNCHANGED <<tables, forked, joined, contested>>

\* Mutant: the older links stay valid.
InvalidateNothing(w) ==
    /\ job[w].at = "invalidate"
    /\ Goto(w, "createLink")
    /\ UNCHANGED <<tables, history>>

Invalidate(w) ==
    /\ job[w].at = "invalidate"
    /\ links' = {IF l.user = job[w].who THEN [l EXCEPT !.used = TRUE] ELSE l : l \in links}
    /\ Goto(w, "createLink")
    /\ UNCHANGED <<account, suspended, allowed, tokens, issued, invitation, history>>

CreateLink(w) ==
    /\ job[w].at = "createLink"
    /\ links' = links \cup {[id |-> Cardinality(links) + 1, user |-> job[w].who, used |-> FALSE,
                             expired |-> FALSE, uses |-> 0, shared |-> FALSE]}
    /\ End(w)
    /\ UNCHANGED <<account, suspended, allowed, tokens, issued, invitation, history>>

LinkExpires(l) ==
    /\ l \in links /\ ~l.expired
    /\ links' = (links \ {l}) \cup {[l EXCEPT !.expired = TRUE]}
    /\ UNCHANGED <<account, suspended, allowed, tokens, issued, invitation, job, history>>

\* The first statement of resetPassword; hashing the new password follows.
ReadLink(w, l) ==
    /\ l \in links /\ ~l.used /\ ~l.expired /\ account[l.user].active
    /\ Begin(w, [Idle EXCEPT !.at = "applyReset", !.who = l.user, !.ref = l.id])
    /\ links' = IF \E v \in Workers : job[v].at = "applyReset" /\ job[v].ref = l.id
                THEN (links \ {l}) \cup {[l EXCEPT !.shared = TRUE]} ELSE links
    /\ UNCHANGED <<account, suspended, allowed, tokens, issued, invitation, history>>

\* The transaction of resetPassword.
ApplyReset(w) ==
    LET p == job[w].who IN
    /\ job[w].at = "applyReset"
    /\ account' = [account EXCEPT ![p].pw = @ + 1]
    /\ links' = {IF l.id = job[w].ref THEN [l EXCEPT !.used = TRUE, !.uses = @ + 1] ELSE l :
                   l \in links}
    /\ tokens' = {t \in tokens : t.user # p}
    /\ job' = [Outdated({p}, FALSE) EXCEPT ![w] = Idle]
    /\ UNCHANGED <<suspended, allowed, issued, invitation, history>>

-----------------------------------------------------------------------------
(* Platform administration *)

\* The companies that exist.
Founded == {Home} \cup {account[u].company : u \in {v \in Users : Exists(v)}}

\* Mutant: the company's sessions are left alone.
SuspendOnly(w, c) ==
    /\ job[w] = Idle
    /\ c \in Founded
    /\ suspended' = suspended \cup {c}
    /\ job' = Outdated({p \in People : account[p].company = c}, FALSE)
    /\ UNCHANGED <<account, allowed, tokens, issued, links, invitation, history>>

\* AdminCompaniesService.updateStatus.
Suspend(w, c) ==
    /\ job[w] = Idle
    /\ c \in Founded
    /\ suspended' = suspended \cup {c}
    /\ job' = [Outdated({p \in People : account[p].company = c}, FALSE) EXCEPT
                 ![w] = [Idle EXCEPT !.at = "dropCompany", !.who = c]]
    /\ UNCHANGED <<account, allowed, tokens, issued, links, invitation, history>>

DropCompany(w) ==
    /\ job[w].at = "dropCompany"
    /\ tokens' = {t \in tokens : account[t.user].company # job[w].who}
    /\ End(w)
    /\ UNCHANGED <<account, suspended, allowed, issued, links, invitation, history>>

Reinstate(c) ==
    /\ c \in suspended
    /\ suspended' = suspended \ {c}
    /\ UNCHANGED <<account, allowed, tokens, issued, links, invitation, job, history>>

\* AdminUsersService.updateStatus.
AdminDeactivate(w, u) ==
    /\ job[w] = Idle /\ Exists(u)
    /\ account' = [account EXCEPT ![u].active = FALSE]
    /\ job' = [Outdated({u}, TRUE) EXCEPT ![w] = [Idle EXCEPT !.at = "dropUser", !.who = u]]
    /\ UNCHANGED <<suspended, allowed, tokens, issued, links, invitation, history>>

AdminActivate(u) ==
    /\ Exists(u) /\ ~account[u].active
    /\ account' = [account EXCEPT ![u].active = TRUE]
    /\ job' = Outdated({}, TRUE)
    /\ UNCHANGED <<suspended, allowed, tokens, issued, links, invitation, history>>

\* The last statement of updateStatus and of users.remove.
DropUser(w) ==
    /\ job[w].at = "dropUser"
    /\ tokens' = {t \in tokens : t.user # job[w].who}
    /\ End(w)
    /\ UNCHANGED <<account, suspended, allowed, issued, links, invitation, history>>

\* The script that activates and deactivates platform administrators, sessions or not.
SetPlatformAdmin(a, active) ==
    /\ account[a].active # active
    /\ account' = [account EXCEPT ![a].active = active]
    /\ tokens' = IF active THEN tokens ELSE Excused({a}, "kept")
    /\ job' = IF active THEN job ELSE Outdated({a}, FALSE)
    /\ UNCHANGED <<suspended, allowed, issued, links, invitation, history>>

\* The same script with a password for an existing administrator.
ResetPlatformAdmin(a) ==
    /\ account[a].pw < MaxLinks
    /\ account' = [account EXCEPT ![a].pw = @ + 1, ![a].active = TRUE]
    /\ tokens' = Excused({a}, "kept")
    /\ job' = Outdated({a}, FALSE)
    /\ UNCHANGED <<suspended, allowed, issued, links, invitation, history>>

\* An entry of the allowlist is added or removed.
ChangeAllowlist(people) ==
    /\ allowed' \in {allowed \cup people, allowed \ people}
    /\ UNCHANGED <<account, suspended, tokens, issued, links, invitation, job, history>>

-----------------------------------------------------------------------------
\* A statement fails, or the process stops: the rest of the handler never runs.
Fail(w) ==
    /\ job[w] # Idle
    /\ tokens' = CASE job[w].at = "dropUser" -> Excused({job[w].who}, "failed")
                   [] job[w].at = "dropCompany" ->
                        Excused({p \in People : account[p].company = job[w].who}, "failed")
                   [] OTHER -> tokens
    /\ End(w)
    /\ UNCHANGED <<account, suspended, allowed, issued, links, invitation, history>>
=============================================================================
