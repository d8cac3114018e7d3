------------------------------ MODULE Accounts ------------------------------
(***************************************************************************)
(* The tables behind authentication and team management, and what their    *)
(* handlers share: users and platform administrators, companies, the       *)
(* allowlist, refresh tokens, password-reset tokens and invitations.       *)
(*                                                                         *)
(* An account is named by its e-mail address, which is unique.  Home is the *)
(* company whose team is modelled; whoever registers founds a company      *)
(* named after him.  The allowlist is the set of addresses some entry      *)
(* covers, exactly or by domain.                                           *)
(*                                                                         *)
(* job[w] is the handler worker w runs: its next statement and its local   *)
(* variables.  Each action is one statement between two awaits, reads that *)
(* decide nothing left out.                                                *)
(***************************************************************************)
EXTENDS Integers, FiniteSets

CONSTANTS
    Users,            \* e-mail addresses
    PlatformAdmins,   \* the platform's own administrators
    Home,             \* the company of the modelled team
    Workers,          \* handlers in flight
    Invitations,      \* rows of the invitation table
    None,
    MaxTokens,        \* bound: refresh tokens issued
    MaxLinks          \* bound: password-reset links created

People == Users \cup PlatformAdmins
Companies == Users \cup {Home}

ASSUME PeopleAssumption ==
    /\ Users \cap PlatformAdmins = {}
    /\ Home \notin Users
    /\ None \notin People \cup {Home} \cup Invitations
ASSUME FiniteAssumption == IsFiniteSet(People)
ASSUME BoundAssumption == MaxTokens \in Nat /\ MaxLinks \in Nat

VARIABLES
    account,      \* account[p]: the user row of an address, or NoAccount
    suspended,    \* the companies whose status is SUSPENDED
    allowed,      \* the addresses the allowlist admits
    tokens,       \* the refresh tokens that exist
    issued,       \* how many refresh tokens have ever been issued
    links,        \* the password-reset tokens
    invitation,   \* invitation[i]
    job,          \* job[w]
    forked,       \* history: sessions two overlapping refreshes redeemed
    rushed,       \* history: people two of whose reset requests overlapped
    joined,       \* history: invitations that created an account
    contested     \* history: invitations written under a handler that had read them

tables == <<account, suspended, allowed, tokens, issued, links, invitation>>
history == <<forked, rushed, joined, contested>>
vars == <<tables, job, history>>

\* pw counts the passwords the account has had; 0: it only signs in with OAuth.
Account == [company : Companies \cup {None}, admin : BOOLEAN, active : BOOLEAN, pw : Nat]
NoAccount == [company |-> None, admin |-> FALSE, active |-> FALSE, pw |-> 0]
Exists(p) == account[p] # NoAccount

\* Why a session may outlive what should have ended it.
Causes == {"overtaken",   \* its handler had checked the account before
           "unchecked",   \* its handler does not check the company
           "kept",        \* PATCH users/:id deactivates and keeps the sessions
           "failed"}      \* the handler stopped before it deleted them

\* root names the session: the first token of the chain of refreshes.  pw and why
\* pass from a token to the one it is exchanged for.
Token == [id : Nat, root : Nat, user : People, pw : Nat, expired : BOOLEAN,
          why : SUBSET Causes]

\* uses counts the times the link set a password; shared: two uses overlapped.
Link == [id : Nat, user : Users, used : BOOLEAN, expired : BOOLEAN, uses : Nat,
         shared : BOOLEAN]

InvitationStatus == {"PENDING", "ACCEPTED", "EXPIRED", "REVOKED"}
Invitation == [email : Users, admin : BOOLEAN, status : InvitationStatus,
               expired : BOOLEAN]
NoInvitation == [status |-> "none"]

\* The change users.update is asked for.
Changes == [role : {"keep", "ADMIN", "MEMBER"}, active : {"keep", "on", "off"}]
NoChange == [role |-> "keep", active |-> "keep"]

Refreshing == {"recheck", "rotate"}
Statements == {"idle", "findLogin", "findRegister", "findOAuth", "createOwn", "issue",
               "dropExpired", "dropRefused", "invalidate", "createLink", "applyReset",
               "checkPending", "createInvite", "allow", "reopen", "revoke",
               "markExpired", "join", "count", "countAll", "write", "deactivate", "dropUser",
               "dropCompany"} \cup Refreshing

\* who: the account the handler is about; by: who asked.  ref: the token or link
\* presented; root, pw, why: of the session in the making.  stale: another handler
\* has changed the team since this one read it.
Job == [at : Statements, who : People \cup Companies \cup {None}, by : People \cup {None},
        ref : Nat, root : Nat, pw : Nat, why : SUBSET Causes,
        inv : Invitations \cup {None}, to : Changes, stale : BOOLEAN]
Idle == [at |-> "idle", who |-> None, by |-> None, ref |-> 0, root |-> 0, pw |-> 0,
         why |-> {}, inv |-> None, to |-> NoChange, stale |-> FALSE]

-----------------------------------------------------------------------------
(* Handlers *)

Begin(w, j) == job[w] = Idle /\ job' = [job EXCEPT ![w] = j]
Goto(w, statement) == job' = [job EXCEPT ![w].at = statement]
End(w) == job' = [job EXCEPT ![w] = Idle]

IsAllowed(p) == p \in allowed
Suspended(p) == account[p].company \in suspended
Barred(p) == ~account[p].active \/ Suspended(p)

\* JwtStrategy.validate: who may call a protected route.  Access tokens outlive
\* sessions by minutes at most, so anybody with an account may hold one.
Authenticated(p) == Exists(p) /\ ~Barred(p)
IsAdmin(p) == Authenticated(p) /\ account[p].company = Home /\ account[p].admin

\* The handlers that have checked one of the accounts and not issued its token yet.
Checked == Refreshing \cup {"issue"}
Overtaken(people) == {v \in Workers : job[v].at \in Checked /\ job[v].who \in people}

\* The handlers that have read the team and not written it yet.
Deciding == {"count", "countAll", "write", "deactivate"}
Unsettled == {v \in Workers : job[v].at \in Deciding}

\* History: the jobs after a statement that makes earlier checks of people out of
\* date, and (if team) what others read of the team.
Outdated(people, team) ==
    [v \in Workers |->
        [job[v] EXCEPT
            !.why = IF v \in Overtaken(people) THEN @ \cup {"overtaken"} ELSE @,
            !.stale = @ \/ (team /\ v \in Unsettled)]]

\* History: the sessions of people that an ending did not delete.
Excused(people, cause) ==
    {IF t.user \in people THEN [t EXCEPT !.why = @ \cup {cause}] ELSE t : t \in tokens}

\* Room for the token every handler in flight may issue.
Room == issued + Cardinality({w \in Workers : job[w] # Idle}) < MaxTokens
=============================================================================
