----------------------------- MODULE Permissions -----------------------------
(***************************************************************************)
(* Who may do what in one company (PermissionsService): the stored matrix  *)
(* of roles and permissions, the transaction that replaces it, and the two *)
(* queries with which a request learns what its role may do.  A company    *)
(* with no rows at all has the defaults of the code.                       *)
(*                                                                         *)
(* Transactions are those of PostgreSQL at READ COMMITTED: a deletion       *)
(* deletes the rows its statement saw at its start that are still there,   *)
(* and waits for whoever has them locked.                                  *)
(***************************************************************************)
EXTENDS Integers

CONSTANTS
    Roles,               \* the configurable ones
    Editable,            \* permissions a matrix may grant
    Locked,              \* permissions of administrators only
    DefaultPermissions,  \* of each role
    Clerks,              \* requests in flight
    Unsaved

ASSUME PermissionsAssumption ==
    /\ Roles # {}
    /\ DefaultPermissions \in [Roles -> SUBSET Editable]
    /\ Editable \cap Locked = {}
    /\ Unsaved \notin [Roles -> SUBSET Editable]

VARIABLES
    granted,   \* the committed rows: pairs of a role and a permission
    clerk,     \* clerk[c]: the request c handles
    saved,     \* history: the matrix saved last, as its administrator asked for it
    mingled    \* history: the last save overlapped another one

matrixVars == <<granted, clerk, saved, mingled>>

Matrix == [Roles -> SUBSET (Editable \cup Locked)]
Rows == Roles \X Editable
RowsOf(role, rows) == {p \in Editable : <<role, p>> \in rows}

\* Why a request may act with permissions that were not in force.
Excuses == {"empty",     \* a matrix without any permission is no matrix
            "first",     \* the first rows were saved between its two queries
            "mingled"}   \* two saves left the rows of both

\* to: the rows of a matrix to be saved, asked: the matrix; doomed: the rows its deletion
\* saw; gone: those it deleted; late: somebody has committed since.  role, got: the
\* role read and what it may do; seen: what was in force meanwhile.
Writing == {"delete", "lock", "insert", "commit"}
Inquiring == {"count", "list", "answer"}
Clerk == [at : {"idle"} \cup Writing \cup Inquiring, to : SUBSET Rows, asked : Matrix,
          doomed : SUBSET Rows, gone : SUBSET Rows, late : BOOLEAN,
          role : Roles, got : SUBSET Editable, seen : SUBSET (SUBSET Editable),
          why : SUBSET Excuses]
Free == [at |-> "idle", to |-> {}, asked |-> [role \in Roles |-> {}], doomed |-> {},
         gone |-> {}, late |-> FALSE, role |-> CHOOSE role \in Roles : TRUE, got |-> {},
         seen |-> {}, why |-> {}]

Receive(c, h) == clerk[c] = Free /\ clerk' = [clerk EXCEPT ![c] = h]
Finish(c) == clerk' = [clerk EXCEPT ![c] = Free]

-----------------------------------------------------------------------------
(* Saving a matrix *)

\* What is neither editable nor a configurable role's is ignored.
Sanitized(matrix) == {row \in Rows : row[2] \in matrix[row[1]]}

SetMatrix(c, matrix) ==
    /\ Receive(c, [Free EXCEPT !.at = "delete", !.to = Sanitized(matrix), !.asked = matrix])
    /\ UNCHANGED <<granted, saved, mingled>>

\* deleteMany begins ...
DeleteRows(c) ==
    /\ clerk[c].at = "delete"
    /\ clerk' = [clerk EXCEPT ![c].at = "lock", ![c].doomed = granted, ![c].late = FALSE]
    /\ UNCHANGED <<granted, saved, mingled>>

\* ... and has the rows it saw, unless they went while it waited.
LockRows(c) ==
    /\ clerk[c].at = "lock"
    /\ \A d \in Clerks \ {c} :
          clerk[d].at \in {"insert", "commit"} => clerk[d].gone \cap clerk[c].doomed = {}
    /\ clerk' = [clerk EXCEPT ![c].at = IF clerk[c].to = {} THEN "commit" ELSE "insert",
                              ![c].gone = clerk[c].doomed \cap granted]
    /\ UNCHANGED <<granted, saved, mingled>>

\* createMany waits for transactions that insert or delete rows with its keys; a row
\* that is there makes it fail, and the transaction with it.
InsertRows(c) ==
    LET to == clerk[c].to IN
    /\ clerk[c].at = "insert"
    /\ \A d \in Clerks \ {c} :
          /\ clerk[d].at \in {"insert", "commit"} => clerk[d].gone \cap to = {}
          /\ clerk[d].at = "commit" => clerk[d].to \cap to = {}
    /\ IF to \cap (granted \ clerk[c].gone) = {}
       THEN clerk' = [clerk EXCEPT ![c].at = "commit"]
       ELSE Finish(c)
    /\ UNCHANGED <<granted, saved, mingled>>

ExcusesOf(rows, mixed) ==
    (IF rows = {} THEN {"empty"} ELSE {}) \cup (IF mixed THEN {"mingled"} ELSE {})

\* History: a commit of h, as others meet it.
Meanwhile(g, h) ==
    IF g.at \in Inquiring
    THEN [g EXCEPT !.seen = @ \cup {h.asked[g.role] \cap Editable},
                   !.why = @ \cup ExcusesOf(h.to, h.late)
                             \cup IF granted = {} THEN {"first"} ELSE {}]
    ELSE IF g.at \in Writing THEN [g EXCEPT !.late = TRUE] ELSE g

Commit(c) ==
    LET h == clerk[c] IN
    /\ h.at = "commit"
    /\ granted' = (granted \ h.gone) \cup h.to
    /\ saved' = [role \in Roles |-> h.asked[role] \cap Editable]
    /\ mingled' = h.late
    /\ clerk' = [d \in Clerks |-> IF d = c THEN Free ELSE Meanwhile(clerk[d], h)]

\* The database fails, or the process stops; a transaction is rolled back.
SaveFails(c) ==
    /\ clerk[c].at \in Writing
    /\ Finish(c)
    /\ UNCHANGED <<granted, saved, mingled>>

-----------------------------------------------------------------------------
(* Reading it *)

InForce(role) == IF saved = Unsaved THEN DefaultPermissions[role] ELSE saved[role]

\* A request that begins to read what role may do.
Inquiry(role, statement) ==
    [Free EXCEPT !.at = statement, !.role = role, !.seen = {InForce(role)},
                 !.why = IF saved = Unsaved THEN {} ELSE ExcusesOf(Sanitized(saved), mingled)]

\* getUserPermissions, for every request with a token: the rows of the role, then
\* whether there are any of the company.
ReadRows(c, role) ==
    /\ Receive(c, [Inquiry(role, "count") EXCEPT !.got = RowsOf(role, granted)])
    /\ UNCHANGED <<granted, saved, mingled>>

\* Mutant: a role without rows has its defaults.
CountOfRole(c) ==
    LET h == clerk[c] IN
    /\ h.at = "count"
    /\ clerk' = [clerk EXCEPT ![c].at = "answer",
                              ![c].got = IF @ = {} THEN DefaultPermissions[h.role] ELSE @]
    /\ UNCHANGED <<granted, saved, mingled>>

CountRows(c) ==
    LET h == clerk[c] IN
    /\ h.at = "count"
    /\ clerk' = [clerk EXCEPT ![c].at = "answer",
                              ![c].got = IF granted = {} THEN DefaultPermissions[h.role] ELSE @]
    /\ UNCHANGED <<granted, saved, mingled>>

\* getMatrix, the column of a role: the count, then the rows.
GetMatrix(c, role) ==
    /\ Receive(c, IF granted = {}
                  THEN [Inquiry(role, "answer") EXCEPT !.got = DefaultPermissions[role]]
                  ELSE Inquiry(role, "list"))
    /\ UNCHANGED <<granted, saved, mingled>>

ListRows(c) ==
    /\ clerk[c].at = "list"
    /\ clerk' = [clerk EXCEPT ![c].at = "answer", ![c].got = RowsOf(clerk[c].role, granted)]
    /\ UNCHANGED <<granted, saved, mingled>>

Answer(c) ==
    /\ clerk[c].at = "answer"
    /\ Finish(c)
    /\ UNCHANGED <<granted, saved, mingled>>

-----------------------------------------------------------------------------

MatrixInit ==
    /\ granted = {} /\ saved = Unsaved /\ mingled = FALSE
    /\ clerk = [c \in Clerks |-> Free]

Inquire(c) == \E role \in Roles : ReadRows(c, role) \/ GetMatrix(c, role)
MatrixStep(c) ==
    \/ DeleteRows(c) \/ LockRows(c) \/ InsertRows(c) \/ Commit(c) \/ SaveFails(c)
    \/ CountRows(c) \/ ListRows(c) \/ Answer(c)

MatrixNext ==
    \E c \in Clerks :
        (\E matrix \in Matrix : SetMatrix(c, matrix)) \/ Inquire(c) \/ MatrixStep(c)

MatrixSpec == MatrixInit /\ [][MatrixNext]_matrixVars

-----------------------------------------------------------------------------

\* Every variable has its type.
MatrixTypeOK ==
    /\ granted \subseteq Rows
    /\ clerk \in [Clerks -> Clerk]
    /\ saved \in [Roles -> SUBSET Editable] \cup {Unsaved}
    /\ mingled \in BOOLEAN

\* A request acts with permissions that were in force at a moment of reading them,
\* those of the matrix saved last or the defaults before there is one, unless the
\* matrix grants nobody anything, the first rows came between the two queries, or two
\* saves overlapped ("Once a company saves its matrix, every non-admin role gets
\* explicit rows").
GrantsWereInForce ==
    \A c \in Clerks :
        clerk[c].at = "answer" => clerk[c].got \in clerk[c].seen \/ clerk[c].why # {}
=============================================================================
