-------------------------------- MODULE Team --------------------------------
(***************************************************************************)
(* The team of the company Home: UsersService, and the invitation half of  *)
(* AuthService.  Whoever asks is authenticated when the request comes in;  *)
(* from then on the handlers trust what they have read.                    *)
(***************************************************************************)
EXTENDS Accounts

\* Who else holds what it read of invitation i when worker w writes it.
Holding == {"markExpired", "join", "reopen", "revoke"}
Contest(w, i) ==
    contested' = IF \E v \in Workers \ {w} : job[v].at \in Holding /\ job[v].inv = i
                 THEN contested \cup {i} ELSE contested

Row(i) == invitation[i]
Open(i) == Row(i) # NoInvitation /\ Row(i).status = "PENDING" /\ ~Row(i).expired

\* A worker moves on, or writes the status of its invitation.
WriteStatus(w, status) ==
    /\ invitation' = [invitation EXCEPT ![job[w].inv].status = status]
    /\ Contest(w, job[w].inv)
    /\ UNCHANGED <<account, suspended, allowed, tokens, issued, links, forked, rushed, joined>>

-----------------------------------------------------------------------------
(* Invitations *)

\* invite: no account has the address; next, whether an invitation is pending.
Invite(w, a, u, role) ==
    /\ IsAdmin(a) /\ ~Exists(u)
    /\ Begin(w, [Idle EXCEPT !.at = "checkPending", !.who = u, !.by = a, !.to.role = role])
    /\ UNCHANGED <<tables, history>>

CheckPending(w) ==
    /\ job[w].at = "checkPending"
    /\ IF \E i \in Invitations : Open(i) /\ Row(i).email = job[w].who
       THEN End(w) ELSE Goto(w, "createInvite")
    /\ UNCHANGED <<tables, history>>

CreateInvite(w) ==
    /\ job[w].at = "createInvite"
    /\ \E i \in Invitations :
        /\ Row(i) = NoInvitation
        /\ invitation' = [invitation EXCEPT ![i] =
               [email |-> job[w].who, admin |-> job[w].to.role = "ADMIN",
                status |-> "PENDING", expired |-> FALSE]]
    /\ Goto(w, "allow")
    /\ UNCHANGED <<account, suspended, allowed, tokens, issued, links, history>>

\* AllowlistService.allow.
Allow(w) ==
    /\ job[w].at = "allow"
    /\ allowed' = allowed \cup {job[w].who}
    /\ End(w)
    /\ UNCHANGED <<account, suspended, tokens, issued, links, invitation, history>>

InvitationExpires(i) ==
    /\ Row(i) # NoInvitation /\ ~Row(i).expired
    /\ invitation' = [invitation EXCEPT ![i].expired = TRUE]
    /\ UNCHANGED <<account, suspended, allowed, tokens, issued, links, job, history>>

\* A handler that has read invitation i.
Reading(i, a, statement) ==
    [Idle EXCEPT !.at = statement, !.who = Row(i).email, !.by = a, !.inv = i]

\* Mutant: an accepted invitation is sent again.
ResendAnything(w, a, i) ==
    /\ IsAdmin(a) /\ Row(i) # NoInvitation
    /\ Begin(w, Reading(i, a, "reopen"))
    /\ UNCHANGED <<tables, history>>

ResendInvitation(w, a, i) ==
    /\ IsAdmin(a) /\ Row(i).status \notin {"none", "ACCEPTED"}
    /\ Begin(w, Reading(i, a, "reopen"))
    /\ UNCHANGED <<tables, history>>

\* A new token (the old link finds no row any more) and a new expiry.
Reopen(w) ==
    LET i == job[w].inv IN
    /\ job[w].at = "reopen"
    /\ invitation' = [invitation EXCEPT ![i].status = "PENDING", ![i].expired = FALSE]
    /\ Contest(w, i)
    /\ Goto(w, "allow")
    /\ UNCHANGED <<account, suspended, allowed, tokens, issued, links, forked, rushed, joined>>

RevokeInvitation(w, a, i) ==
    /\ IsAdmin(a) /\ Row(i).status \notin {"none", "ACCEPTED"}
    /\ Begin(w, Reading(i, a, "revoke"))
    /\ UNCHANGED <<tables, history>>

\* Mutant: a status the table does not know.
RevokeAsCancelled(w) ==
    /\ job[w].at = "revoke"
    /\ WriteStatus(w, "CANCELLED")
    /\ End(w)

Revoke(w) ==
    /\ job[w].at = "revoke"
    /\ WriteStatus(w, "REVOKED")
    /\ End(w)

\* getInvitation with the current link; it writes only what has expired.
ViewInvitation(w, i) ==
    /\ Row(i).status = "PENDING" /\ Row(i).expired
    /\ Begin(w, Reading(i, None, "markExpired"))
    /\ UNCHANGED <<tables, history>>

MarkExpired(w) ==
    /\ job[w].at = "markExpired"
    /\ WriteStatus(w, "EXPIRED")
    /\ End(w)

\* acceptInvitation with the current link: the row and whether the address has an
\* account; hashing the password follows.
AcceptInvitation(w, i) ==
    /\ Row(i).status \in {"PENDING", "EXPIRED"}
    /\ \/ Row(i).expired /\ Begin(w, Reading(i, None, "markExpired"))
       \/ /\ ~Row(i).expired /\ ~Exists(Row(i).email) /\ Room
          /\ Begin(w, [Reading(i, None, "join") EXCEPT !.pw = 1])
    /\ UNCHANGED <<tables, history>>

\* Its transaction; it looks at neither the status nor the company again.
Join(w) ==
    LET i == job[w].inv   u == job[w].who IN
    /\ job[w].at = "join"
    /\ IF Exists(u) THEN End(w) /\ UNCHANGED <<account, invitation, joined, contested>>
       ELSE /\ account' = [account EXCEPT ![u] =
                   [company |-> Home, admin |-> Row(i).admin, active |-> TRUE, pw |-> 1]]
            /\ invitation' = [invitation EXCEPT ![i].status = "ACCEPTED"]
            /\ joined' = joined \cup {i}
            /\ Contest(w, i)
            /\ job' = [Outdated({}, TRUE) EXCEPT
                         ![w].at = "issue",
                         ![w].why = IF Home \in suspended THEN {"unchecked"} ELSE {}]
    /\ UNCHANGED <<suspended, allowed, tokens, issued, links, forked, rushed>>

-----------------------------------------------------------------------------
(* Members *)

Member(u) == account[u].company = Home
ActiveAdmins == {p \in Users : Member(p) /\ account[p].admin /\ account[p].active}
Admins == {p \in Users : Member(p) /\ account[p].admin}

\* users.update, a change of role or activation (names decide nothing).  What costs
\* an administrator counts the active ones first.
UpdateUser(w, a, u, change) ==
    /\ IsAdmin(a) /\ Member(u) /\ change # NoChange
    /\ Begin(w, [Idle EXCEPT
           !.at = IF account[u].admin /\ (change.role = "MEMBER" \/ change.active = "off")
                  THEN "count" ELSE "write",
           !.who = u, !.by = a, !.to = change])
    /\ UNCHANGED <<tables, history>>

\* Mutant: inactive administrators are counted as well, as in remove.
CountThemAll(w) ==
    /\ job[w].at = "count"
    /\ IF Cardinality(Admins) > 1 THEN Goto(w, "write") ELSE End(w)
    /\ UNCHANGED <<tables, history>>

CountActiveAdmins(w) ==
    /\ job[w].at = "count"
    /\ IF Cardinality(ActiveAdmins) > 1 THEN Goto(w, "write") ELSE End(w)
    /\ UNCHANGED <<tables, history>>

\* The row is written whatever has become of it; sessions are left alone.
WriteUser(w) ==
    LET u == job[w].who
        change == job[w].to
        off == change.active = "off"
    IN
    /\ job[w].at = "write"
    /\ account' = [account EXCEPT
           ![u].admin = IF change.role = "keep" THEN @ ELSE change.role = "ADMIN",
           ![u].active = IF change.active = "keep" THEN @ ELSE change.active = "on"]
    /\ tokens' = IF off THEN Excused({u}, "kept") ELSE tokens
    /\ job' = [Outdated(IF off THEN {u} ELSE {}, TRUE) EXCEPT ![w] = Idle]
    /\ UNCHANGED <<suspended, allowed, issued, links, invitation, history>>

\* users.remove.
RemoveUser(w, a, u) ==
    /\ IsAdmin(a) /\ Member(u) /\ a # u
    /\ Begin(w, [Idle EXCEPT !.at = IF account[u].admin THEN "countAll" ELSE "deactivate",
                             !.who = u, !.by = a])
    /\ UNCHANGED <<tables, history>>

CountAdmins(w) ==
    /\ job[w].at = "countAll"
    /\ IF Cardinality(Admins) > 1 THEN Goto(w, "deactivate") ELSE End(w)
    /\ UNCHANGED <<tables, history>>

Deactivate(w) ==
    LET u == job[w].who IN
    /\ job[w].at = "deactivate"
    /\ account' = [account EXCEPT ![u].active = FALSE]
    /\ job' = [Outdated({u}, TRUE) EXCEPT ![w] = [Idle EXCEPT !.at = "dropUser", !.who = u]]
    /\ UNCHANGED <<suspended, allowed, tokens, issued, links, invitation, history>>
=============================================================================
