----------------------------- MODULE Mailboxes -----------------------------
(***************************************************************************)
(* Connected mailboxes: the rows of EmailConnection with their tokens and  *)
(* push subscriptions, the import rows and candidates made from mail, and, *)
(* outside the program, the mailboxes themselves with their history.       *)
(*                                                                         *)
(* clock counts the events of all mailboxes: it is Gmail's history id, the *)
(* position of a Graph delta link and the time of arrival at once.         *)
(*                                                                         *)
(* job[w] is the activity worker w runs: a poll, a token refresh, a watch  *)
(* renewal or a disconnection, with its next statement and its variables.  *)
(***************************************************************************)
EXTENDS Integers, FiniteSets, Sequences

CONSTANTS
    Connections,      \* ids of connection rows, each for the mailbox of its own
    Companies,
    Mails,            \* Message-IDs
    Senders,          \* addresses of applicants
    Workers,          \* activities in flight
    None,
    Page,             \* bound: messages in one page of a provider's answer
    MaxClock,         \* bound: mailbox events
    MaxGrants,        \* bound: refresh tokens a provider issues per mailbox
    MaxCandidates     \* bound: candidates created

ASSUME PageAssumption == Page \in Nat \ {0}
ASSUME MailBoundsAssumption ==
    MaxClock \in Nat /\ MaxGrants \in Nat \ {0} /\ MaxCandidates \in Nat
ASSUME NoneAssumption == None \notin Connections \cup Companies \cup Mails \cup Senders
ASSUME NoneIsNoWord ==
    None \notin {"GMAIL", "OUTLOOK", "list", "callWatch", "callSubscribe", "callRenew", "stop",
                 "unsubscribe"}
ASSUME MailsAreFinite == IsFiniteSet(Mails)

VARIABLES
    conn,         \* conn[c]: the connection row, or NoConnection
    imports,      \* imports[k]: the import row of key k, or NoImport
    candidates,   \* the candidates of all companies
    born,         \* candidates created so far
    job,          \* job[w]
    client,       \* whose credentials the one Gmail client holds
    clock,        \* mailbox events so far
    mail,         \* mail[m]: who wrote it and what it is, once it was sent
    box,          \* box[c][m]: when m arrived in the mailbox and last changed there
    grants,       \* grants[c]: the refresh tokens the provider accepts
    issued,       \* issued[c]: refresh tokens the provider has issued
    pushing,      \* the mailboxes whose provider pushes
    pushes,       \* the mailboxes with a notification under way
    settled,      \* history: mail whose processing returned
    dropped,      \* history: mail passed over, for a reason the code accepts
    shared,       \* history: import keys two polls had in hand at once
    swapped,      \* history: import keys listed with another mailbox's credentials
    uncounted,    \* history: import keys whose usage could not be counted
    unheard,      \* history: mailboxes with a notification that brought no full poll
    suspect       \* history: connections with a refresh that failed without rejection,
                  \* or that was under way when the mailbox was connected anew

rows == <<conn, imports, candidates, born>>
providers == <<clock, mail, box, grants, issued, pushing, pushes>>
history == <<settled, dropped, shared, swapped, uncounted, unheard, suspect>>
vars == <<rows, job, client, providers, history>>

\* cursor: lastHistoryId (0: null), of the provider named in by.  synced: lastSyncAt
\* as the first event after it.  created: likewise createdAt.  stale: the access token
\* is within five minutes of its end.  grant: the refresh token stored.  watch: the
\* push subscription (watchExpiration; for Outlook none without a graphSubscriptionId).
Connection == [company : Companies, provider : {"GMAIL", "OUTLOOK"}, active : BOOLEAN,
               auto : BOOLEAN, cursor : 0..MaxClock, by : {"GMAIL", "OUTLOOK"},
               synced : 0..MaxClock + 1, created : 1..MaxClock + 1, stale : BOOLEAN,
               grant : 0..MaxGrants, watch : {"none", "live", "lapsed"}]
NoConnection == [company |-> None]
Connected(c) == conn[c] # NoConnection

Kinds == {"cv",       \* an application with a CV attached
          "letter",   \* no attachment
          "bulk",     \* auto-replies, newsletters, system mail
          "own",      \* sent by the connected account
          "aside"}    \* not in the inbox
NotSent == [kind |-> None]

\* Gmail's message ids are its mailbox's own; Outlook mail is keyed by its Message-ID.
Keys == (Connections \cup {None}) \X Mails
ASSUME NoneIsNoKey == None \notin Keys
Key(provider, c, m) == IF provider = "OUTLOOK" THEN <<None, m>> ELSE <<c, m>>

Statuses == {"PENDING", "PROCESSING", "IMPORTED", "SKIPPED", "FAILED"}
\* from: the mailbox the message was read from.  body: the text is still stored.
Import == [status : Statuses, conn : Connections, from : Connections, body : BOOLEAN,
           old : BOOLEAN]
NoImport == [status |-> None]
HasImport(k) == imports[k] # NoImport
Linked(k) == {x \in candidates : x.link = k}

-----------------------------------------------------------------------------
(* Activities *)

\* c: its connection.  then: what follows the access token.  ref: the refresh token
\* presented, then the one to store.  Of a poll: the connection as read at its start;
\* box: the mailbox it listed; relist: a list in place of the changes; ids: mail to get, got: mail to process, to: the cursor to store, moved: it
\* is of a change after the arrival; m: the mail in hand, re: its row is reprocessed,
\* cv: its CV was downloaded, who: the address of the candidate.
Idle == [at |-> "idle", c |-> None, then |-> None, ref |-> 0, provider |-> None,
         auto |-> FALSE, cursor |-> 0, box |-> None, relist |-> FALSE,
         ids |-> {}, got |-> {}, to |-> 0, moved |-> FALSE,
         m |-> None, re |-> FALSE, cv |-> FALSE, who |-> None]

Begin(w, j) == job[w] = Idle /\ job' = [job EXCEPT ![w] = j]
Goto(w, statement) == job' = [job EXCEPT ![w].at = statement]
End(w) == job' = [job EXCEPT ![w] = Idle]

\* pollingConnections: the connections whose poll is under way.
Importing == {"lookup", "skip", "classify", "pending", "begin", "findCv", "findSender", "createCv",
              "createSender", "score",
              "imported", "count", "duplicate", "fail"}
PollStatements == {"list", "fallback", "get", "each", "cursor"} \cup Importing
IsPoll(j) == j.at \in PollStatements \/ j.then = "list"
Polling(c) == \E w \in Workers : IsPoll(job[w]) /\ job[w].c = c

\* What the caller of a failed activity does: it is logged, and no more, except that
\* a disconnection goes on.  A poll that ends here leaves its mail for the next.
Abort(w) ==
    /\ CASE job[w].then = "stop" -> Goto(w, "clear")
         [] job[w].then = "unsubscribe" -> Goto(w, "clearSubscription")
         [] OTHER -> End(w)
    /\ unheard' = IF IsPoll(job[w]) THEN unheard \cup {job[w].c} ELSE unheard

Arrived(c, m) == box[c][m].at
Holds(c) == {m \in Mails : Arrived(c, m) # 0}
Inbox(c) == {m \in Holds(c) : mail[m].kind # "aside"}
Now == clock + 1
=============================================================================
