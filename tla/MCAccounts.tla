----------------------------- MODULE MCAccounts -----------------------------
(***************************************************************************)
(* A small instance of the account service, and of the permissions and     *)
(* templates of a company, for TLC.  Everything at once is too much for    *)
(* any bound worth having, so the environment draws its requests from one  *)
(* workload, chosen at the start; what is then in flight runs to its end.  *)
(***************************************************************************)
EXTENDS AccountService, Permissions, EmailTemplates, TLC

CONSTANTS u1, u2, a1, w1, w2, i1, i2, r1, r2, p1, p2

VARIABLE workload

Workloads == {"sessions", "allowlist", "oauth", "platform", "reset", "onboarding", "invitations", "team",
              "permissions", "templates", "seeds"}
Settings == {"permissions", "templates", "seeds"}

MCInit ==
    /\ Init
    /\ workload \in Workloads
    /\ MatrixInit /\ TemplatesInit
    /\ workload # "team" => ~Exists(u2)
    /\ workload \in Settings => ActiveAdmins = {u1}

MCRequests(w) ==
    \/ workload = "sessions" /\ (SignInRequests(w) \/ RefreshRequests(w) \/ SuspendRequests(w))
    \/ workload = "allowlist" /\ (SignInRequests(w) \/ SignUpRequests(w) \/ RefreshRequests(w))
    \/ workload = "oauth" /\ (OAuthRequests(w) \/ SuspendRequests(w))
    \/ workload = "platform" /\ (PlatformRequests(w) \/ RefreshRequests(w))
    \/ workload = "reset" /\ (SignInRequests(w) \/ ResetRequests(w))
    \/ workload = "onboarding" /\ (InviteRequests(w) \/ AcceptRequests(w) \/ SuspendRequests(w))
    \/ workload = "invitations" /\ (InviteRequests(w) \/ AcceptRequests(w) \/ InvitationRequests(w))
    \/ workload = "team" /\ (TeamRequests(w) \/ DeactivateRequests(w))

MCEvents ==
    \/ workload = "sessions" /\ (LogoutEvents \/ ReinstateEvents)
    \/ workload = "allowlist" /\ (ExpiryEvents \/ AllowlistEvents)
    \/ workload = "oauth" /\ ReinstateEvents
    \/ workload = "platform" /\ (LogoutEvents \/ PlatformEvents)
    \/ workload = "reset" /\ LinkEvents
    \/ workload = "invitations" /\ InvitationEvents
    \/ workload = "team" /\ ActivateEvents

AccountSteps ==
    \/ \E w \in Workers : MCRequests(w) \/ Continue(w) \/ Fail(w)
    \/ MCEvents

\* Matrices of every kind: empty, of one role, with a permission that is ignored.
SavedMatrices == {r1 :> a @@ r2 :> b : a \in {{}, {p1, p2}}, b \in {{}, {p1}}}
MatrixSteps ==
    \E c \in Clerks :
        \/ /\ workload = "permissions"
           /\ Inquire(c) \/ \E matrix \in SavedMatrices : SetMatrix(c, matrix)
        \/ MatrixStep(c)

\* Templates of two types, and two in all; renaming one matters to seeding only.
TemplateSteps ==
    \/ /\ workload = "templates"
       /\ \E e \in Editors :
            \/ /\ made + Cardinality({f \in Editors : editor[f].at \in {"clear", "insert"}
                                                         /\ editor[f].id = 0}) < 2
               /\ \E type \in {"OFFER", "CUSTOM"}, b \in BOOLEAN : CreateTemplate(e, type, b)
            \/ \E x \in Live, change \in TemplateChanges :
                  /\ change.type \in {"keep", "OFFER", "CUSTOM"} /\ ~change.renamed
                  /\ UpdateTemplate(e, x, change)
    \/ /\ workload = "seeds" /\ made + 12 <= MaxTemplates
       /\ \E e \in Editors : SeedDefaults(e)
    \/ \E e \in Editors : Seek(e) \/ ClearDefaults(e) \/ Insert(e) \/ Write(e) \/ EditFails(e)
    \/ workload = "templates" /\ \E x \in TemplateIds : RemoveTemplate(x)

MCNext ==
    /\ UNCHANGED workload
    /\ \/ AccountSteps /\ UNCHANGED <<matrixVars, templateVars>>
       \/ MatrixSteps /\ UNCHANGED <<vars, templateVars>>
       \/ TemplateSteps /\ UNCHANGED <<vars, matrixVars>>

MCSpec == MCInit /\ [][MCNext]_<<vars, matrixVars, templateVars, workload>>

MCUsers == {u1, u2}
MCPlatformAdmins == {a1}
MCWorkers == {w1, w2}
MCInvitations == {i1, i2}
MCRoles == {r1, r2}
MCEditable == {p1}
MCLocked == {p2}
MCDefaultPermissions == r1 :> {p1} @@ r2 :> {}
MCSymmetry == {[w \in MCWorkers |-> IF w = w1 THEN w2 ELSE w1], [w \in MCWorkers |-> w]}
=============================================================================
