--------------------------- MODULE AccountService ---------------------------
(***************************************************************************)
(* Authentication and team management together, and what must hold of them. *)
(* Requests begin at any time; whatever handlers are in flight then        *)
(* interleave statement by statement, and may stop at any of them.         *)
(***************************************************************************)
EXTENDS Sessions, Team

\* A team with an administrator, some addresses without an account yet, nobody
\* signed in.
Init ==
    /\ account \in [People -> {NoAccount} \cup
                      [company : {Home, None}, admin : BOOLEAN, active : BOOLEAN, pw : {1}]]
    /\ \A p \in People : account[p] # NoAccount =>
           account[p].company = IF p \in Users THEN Home ELSE None
    /\ \A p \in PlatformAdmins : account[p].active /\ ~account[p].admin
    /\ ActiveAdmins # {}
    /\ suspended = {} /\ allowed = Users
    /\ tokens = {} /\ issued = 0 /\ links = {}
    /\ invitation = [i \in Invitations |-> NoInvitation]
    /\ job = [w \in Workers |-> Idle]
    /\ forked = {} /\ rushed = {} /\ joined = {} /\ contested = {}

\* The requests that begin a handler.
SignInRequests(w) == \E u \in Users : Login(w, u)
SignUpRequests(w) == \E u \in Users : Register(w, u)
OAuthRequests(w) == \E u \in Users : SignInOAuth(w, u)
RefreshRequests(w) == \E t \in tokens : ReadToken(w, t)
PlatformRequests(w) == \E a \in PlatformAdmins : PlatformLogin(w, a)
ResetRequests(w) ==
    \/ \E u \in Users : ForgotPassword(w, u)
    \/ \E l \in links : ReadLink(w, l)
SuspendRequests(w) == \E c \in Founded : Suspend(w, c)
DeactivateRequests(w) == \E u \in Users : AdminDeactivate(w, u)
InviteRequests(w) == \E a, u \in Users, role \in {"ADMIN", "MEMBER"} : Invite(w, a, u, role)
AcceptRequests(w) == \E i \in Invitations : ViewInvitation(w, i) \/ AcceptInvitation(w, i)
InvitationRequests(w) ==
    \E a \in Users, i \in Invitations : ResendInvitation(w, a, i) \/ RevokeInvitation(w, a, i)
TeamRequests(w) ==
    \E a, u \in Users : RemoveUser(w, a, u) \/ \E c \in Changes : UpdateUser(w, a, u, c)

Requests(w) ==
    \/ SignInRequests(w) \/ SignUpRequests(w) \/ OAuthRequests(w) \/ RefreshRequests(w)
    \/ PlatformRequests(w) \/ ResetRequests(w) \/ SuspendRequests(w)
    \/ DeactivateRequests(w) \/ InviteRequests(w) \/ AcceptRequests(w)
    \/ InvitationRequests(w) \/ TeamRequests(w)

\* The next statement of a handler.
Continue(w) ==
    \/ Issue(w) \/ Recheck(w) \/ Rotate(w) \/ DropExpired(w) \/ DropRefused(w)
    \/ FindLogin(w) \/ FindRegister(w) \/ FindOAuth(w) \/ CreateOwn(w)
    \/ Invalidate(w) \/ CreateLink(w) \/ ApplyReset(w)
    \/ DropCompany(w) \/ DropUser(w)
    \/ CheckPending(w) \/ CreateInvite(w) \/ Allow(w) \/ Reopen(w) \/ Revoke(w)
    \/ MarkExpired(w) \/ Join(w)
    \/ CountActiveAdmins(w) \/ WriteUser(w) \/ CountAdmins(w) \/ Deactivate(w)

\* Requests of one statement, and time.
LogoutEvents == \E p \in People, t \in tokens : Logout(p, t)
ExpiryEvents == \E t \in tokens : TokenExpires(t)
ReinstateEvents == \E c \in Companies : Reinstate(c)
ActivateEvents == \E u \in Users : AdminActivate(u)
AllowlistEvents == \E u \in Users : ChangeAllowlist({u})
PlatformEvents ==
    \E a \in PlatformAdmins : ResetPlatformAdmin(a) \/ \E b \in BOOLEAN : SetPlatformAdmin(a, b)
LinkEvents == \E l \in links : LinkExpires(l)
InvitationEvents == \E i \in Invitations : InvitationExpires(i)

Events ==
    \/ LogoutEvents \/ ExpiryEvents \/ ReinstateEvents \/ ActivateEvents \/ AllowlistEvents
    \/ PlatformEvents \/ LinkEvents \/ InvitationEvents

Next ==
    \/ \E w \in Workers : Requests(w) \/ Continue(w) \/ Fail(w)
    \/ Events

Spec == Init /\ [][Next]_vars

-----------------------------------------------------------------------------

\* Every variable has its type.
AccountsTypeOK ==
    /\ account \in [People -> Account]
    /\ suspended \subseteq Companies
    /\ allowed \subseteq Users
    /\ tokens \subseteq Token
    /\ issued \in Nat
    /\ links \subseteq Link
    /\ invitation \in [Invitations -> Invitation \cup {NoInvitation}]
    /\ job \in [Workers -> Job]
    /\ forked \subseteq Nat /\ rushed \subseteq Users
    /\ joined \subseteq Invitations /\ contested \subseteq Invitations

\* Ended p's sessions, or is about to: a handler that will delete them.
Revoking(p) ==
    \E w \in Workers : \/ job[w].at = "dropUser" /\ job[w].who = p
                       \/ job[w].at = "dropCompany" /\ job[w].who = account[p].company

\* A session outlives the deactivation of its user, the suspension of his company or
\* a reset of his password only for a known cause: the handler that issued it had
\* checked before, or never looks at the company; PATCH users/:id or the script for
\* platform administrators deactivated and deleted nothing; or the handler that
\* should have deleted it stopped, or has yet to do it.
SurvivorHasCause ==
    \A t \in tokens :
        Barred(t.user) \/ t.pw # account[t.user].pw =>
            t.why # {} \/ Revoking(t.user)

\* A session has one refresh token (rotation), unless two requests redeemed the same
\* token at the same time.
SessionForksOnlyByOverlap ==
    \A t1, t2 \in tokens : t1.root = t2.root /\ t1 # t2 => t1.root \in forked

\* One password-reset link works at a time and each works once, unless the requests
\* for it overlapped.
ResetLinksAreSpent ==
    /\ \A l1, l2 \in links : ~l1.used /\ ~l2.used /\ l1.user = l2.user /\ l1 # l2 =>
           l1.user \in rushed
    /\ \A l \in links : l.uses > 1 => l.shared

\* An invitation that let somebody in stays ACCEPTED: it is neither sent again nor
\* revoked nor expired, unless two handlers held it at the same time.
JoinedStaysAccepted ==
    \A i \in joined : invitation[i].status = "ACCEPTED" \/ i \in contested

\* The last active administrator goes only when the platform deactivates him, or by
\* a handler under which somebody else has changed the team ("Prevent removing the
\* last admin").
LastAdminGoesByRace ==
    [][ActiveAdmins # {} /\ ActiveAdmins' = {} =>
         \E w \in Workers :
            \/ job[w].at \in {"write", "deactivate"} /\ job[w].stale /\ job'[w] # job[w]
            \/ job[w] = Idle /\ job'[w].at = "dropUser"]_vars
=============================================================================
