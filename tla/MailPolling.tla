---------------------------- MODULE MailPolling ----------------------------
(***************************************************************************)
(* EmailMonitorService and OutlookMonitorService: what starts a poll, how  *)
(* it lists and gets the new mail, and where it leaves the cursor.  All    *)
(* Gmail polls share one client, whose credentials each of them sets.      *)
(***************************************************************************)
EXTENDS Integrations

\* The connection as a poll reads it at its start.
Poll(c, provider, cursor) ==
    [Activity(c, "token", "list") EXCEPT !.provider = provider, !.auto = conn[c].auto,
                                         !.cursor = cursor, !.box = c]

\* pollEmailsForConnection of EmailMonitorService: the guard, the row, the token.
StartGmailPoll(w, c) ==
    /\ Connected(c) /\ conn[c].provider = "GMAIL" /\ ~Polling(c)
    /\ Begin(w, Poll(c, "GMAIL", conn[c].cursor))

\* That of OutlookMonitorService; the cursor is read when the messages are listed.
StartOutlookPoll(w, c) ==
    /\ Connected(c) /\ conn[c].provider = "OUTLOOK" /\ ~Polling(c)
    /\ Begin(w, Poll(c, "OUTLOOK", 0))

\* The fallback crons: connections without a live subscription.  (They also want the
\* company to have been active within the hour, which may always fail.)
Unwatched(c) == Connected(c) /\ conn[c].active /\ conn[c].auto /\ conn[c].watch # "live"

GmailCron(w, c) ==
    /\ Unwatched(c) /\ StartGmailPoll(w, c)
    /\ UNCHANGED <<rows, client, providers, history>>

OutlookCron(w, c) ==
    /\ Unwatched(c) /\ StartOutlookPoll(w, c)
    /\ UNCHANGED <<rows, client, providers, history>>

\* POST sync/:connectionId, of whatever connection.
SyncConnection(w, c) ==
    /\ StartGmailPoll(w, c) \/ StartOutlookPoll(w, c)
    /\ UNCHANGED <<rows, client, providers, history>>

\* POST sync: the active connections of the company, each provider's one by one.
SyncGmail(w, c) ==
    /\ Connected(c) /\ conn[c].active /\ StartGmailPoll(w, c)
    /\ UNCHANGED <<rows, client, providers, history>>

SyncOutlook(w, c) ==
    /\ Connected(c) /\ conn[c].active /\ StartOutlookPoll(w, c)
    /\ UNCHANGED <<rows, client, providers, history>>

\* A notification starts a poll of a connection it finds.  One that meets a poll of its
\* mailbox is answered by that poll, which may have listed before.
Notified(c, known, starts) ==
    /\ c \in pushes
    /\ pushes' = pushes \ {c}
    /\ \/ known /\ starts /\ UNCHANGED unheard
       \/ /\ ~known \/ Polling(c)
          /\ unheard' = unheard \cup {c}
          /\ UNCHANGED job
    /\ UNCHANGED <<rows, client, clock, mail, box, grants, issued, pushing,
                   settled, dropped, shared, swapped, uncounted, suspect>>

\* handlePushNotification finds active connections by their address.
TakeGmailPush(w, c) ==
    /\ Connected(c) => conn[c].provider = "GMAIL"
    /\ Notified(c, Connected(c) /\ conn[c].active, StartGmailPoll(w, c))

\* handleChangeNotification finds them by the id of the subscription.
TakeOutlookPush(w, c) ==
    /\ Connected(c) /\ conn[c].provider = "OUTLOOK"
    /\ Notified(c, conn[c].active /\ conn[c].watch # "none", StartOutlookPoll(w, c))

-----------------------------------------------------------------------------
(* Listing *)

\* The first page of messages: the oldest of a history, the newest of a list.
Oldest(c, ms) == {m \in ms : Cardinality({n \in ms : Arrived(c, n) < Arrived(c, m)}) < Page}
Newest(c, ms) == {m \in ms : Cardinality({n \in ms : Arrived(c, n) > Arrived(c, m)}) < Page}
Unread(c) == {m \in Holds(c) : ~box[c][m].read}

\* Mutant: the history is asked for from the event after the next.
SinceLater(c, position) == {m \in Inbox(c) : Arrived(c, m) > position + 1}

Since(c, position) == {m \in Inbox(c) : Arrived(c, m) > position}

\* A page that leaves something out leaves it until the next notification.
Heard(c, complete) == unheard' = IF complete THEN unheard \ {c} ELSE unheard \cup {c}

\* Mutant: the credentials in place are taken for the connection's own.
ListGmailAsIs(w) ==
    LET c == job[w].c
        d == IF client = None THEN c ELSE client
    IN
    /\ job[w].at = "list" /\ job[w].provider = "GMAIL"
    /\ client' = d
    /\ job' = [job EXCEPT ![w].at = "get", ![w].relist = TRUE,
                          ![w].box = d, ![w].ids = Newest(d, Unread(d))]
    /\ Heard(c, TRUE)
    /\ UNCHANGED <<rows, providers, settled, dropped, shared, swapped, uncounted, suspect>>

\* fetchNewEmails: the credentials are set and the first request is sent at once.
ListGmail(w) ==
    LET c == job[w].c
        news == Since(c, job[w].cursor)
    IN
    /\ job[w].at = "list" /\ job[w].provider = "GMAIL"
    /\ client' = c
    /\ \/ /\ job[w].cursor # 0
          /\ job' = [job EXCEPT ![w].at = "get", ![w].cursor = 0, ![w].ids = Oldest(c, news)]
          /\ Heard(c, Cardinality(news) <= Page)
       \/ /\ job[w].cursor # 0
          /\ job' = [job EXCEPT ![w].at = "fallback", ![w].cursor = 0]
          /\ UNCHANGED unheard
       \/ /\ job[w].cursor = 0
          /\ job' = [job EXCEPT ![w].at = "get", ![w].relist = TRUE,
                                ![w].ids = Newest(c, Unread(c))]
          /\ Heard(c, Inbox(c) \subseteq Newest(c, Unread(c)))
       \/ Abort(w)
    /\ UNCHANGED <<rows, providers, settled, dropped, shared, swapped, uncounted, suspect>>

\* The history id was refused: the newest unread mail instead, of whatever mailbox the
\* client now has credentials for.
Fallback(w) ==
    LET c == job[w].c
        d == client
    IN
    /\ job[w].at = "fallback"
    /\ \/ /\ job' = [job EXCEPT ![w].at = "get", ![w].relist = TRUE,
                                ![w].box = d, ![w].ids = Newest(d, Unread(d))]
          /\ Heard(c, d = c /\ Inbox(d) \subseteq Newest(d, Unread(d)))
          /\ swapped' = IF d = c THEN swapped ELSE swapped \cup ({d} \X Mails)
       \/ Abort(w) /\ UNCHANGED swapped
    /\ UNCHANGED <<rows, client, providers, settled, dropped, shared, uncounted, suspect>>

\* The order in which a poll takes its messages.
First(j, ms) ==
    CHOOSE m \in ms : \A n \in ms :
        IF j.relist /\ j.provider = "GMAIL" THEN Arrived(j.box, m) >= Arrived(j.box, n)
        ELSE Arrived(j.box, m) <= Arrived(j.box, n)

\* Mutant: the mailbox's present history id is noted for the cursor.
GetMessageAtPresent(w) ==
    LET j == job[w]
        m == First(j, j.ids)
    IN
    /\ j.at = "get"
    /\ job' = [job EXCEPT ![w] =
                  IF j.ids = {} THEN [j EXCEPT !.at = "each"]
                  ELSE [j EXCEPT !.ids = @ \ {m}, !.got = @ \cup {m}, !.to = clock]]
    /\ UNCHANGED <<rows, client, providers, history>>

\* getMessageDetails: a message that cannot be read is left out.
GetMessage(w) ==
    LET j == job[w]
        m == First(j, j.ids)
        taken == [j EXCEPT !.ids = j.ids \ {m}]
    IN
    /\ j.at = "get"
    /\ \/ /\ j.ids = {}
          /\ Goto(w, "each")
          /\ UNCHANGED dropped
       \/ /\ j.ids # {} /\ client = j.box
          /\ job' = [job EXCEPT ![w] = [taken EXCEPT !.got = @ \cup {m},
                                                     !.to = box[j.box][m].last,
                                                     !.moved = box[j.box][m].last # Arrived(j.box, m)]]
          /\ UNCHANGED dropped
       \/ /\ j.ids # {}
          /\ job' = [job EXCEPT ![w] = taken]
          /\ dropped' = IF j.box = j.c THEN dropped \cup {<<j.c, m>>} ELSE dropped
    /\ UNCHANGED <<rows, client, providers, settled, shared, swapped, uncounted, unheard, suspect>>

\* buildForwardOnlySyncUrl: what arrived since a time.
ForwardOnly(c, since) == {m \in Inbox(c) : Arrived(c, m) >= since}

\* fetchNewMessages: every page of the changes since the delta link, or since the
\* connection was made.  A cursor that Gmail left is no link at all.
ListOutlook(w) ==
    LET c == job[w].c
        row == conn[c]
        all == IF row.cursor = 0 THEN ForwardOnly(c, row.created)
                                 ELSE {m \in Inbox(c) : box[c][m].last > row.cursor}
    IN
    /\ job[w].at = "list" /\ job[w].provider = "OUTLOOK"
    /\ \/ /\ Connected(c) /\ row.by = "OUTLOOK"
          /\ job' = [job EXCEPT ![w].at = "each", ![w].got = all, ![w].to = clock]
          /\ Heard(c, TRUE)
       \/ Abort(w)
    /\ UNCHANGED <<rows, client, providers, settled, dropped, shared, swapped, uncounted, suspect>>

\* The link is refused (410): the first page of what arrived since the last sync was done,
\* with a new link if there is no more.
Rebaseline(w) ==
    LET c == job[w].c
        row == conn[c]
        fresh == ForwardOnly(c, IF row.synced = 0 THEN row.created ELSE row.synced)
    IN
    /\ job[w].at = "list" /\ job[w].provider = "OUTLOOK"
    /\ Connected(c) /\ row.by = "OUTLOOK" /\ row.cursor # 0
    /\ job' = [job EXCEPT ![w].at = "each", ![w].relist = TRUE, ![w].got = Oldest(c, fresh),
                          ![w].to = IF Cardinality(fresh) <= Page THEN clock ELSE 0]
    /\ Heard(c, FALSE)
    /\ UNCHANGED <<rows, client, providers, settled, dropped, shared, swapped, uncounted, suspect>>

-----------------------------------------------------------------------------
(* One message after the other *)

\* An attachment that cannot be downloaded is left out.
Take(w, readable) ==
    LET j == job[w]
        m == First(j, j.got)
    IN
    /\ j.at = "each" /\ j.got # {}
    /\ \E cv \in IF mail[m].kind = "cv" /\ readable THEN BOOLEAN ELSE {FALSE} :
          job' = [job EXCEPT ![w].at = "lookup", ![w].m = m, ![w].cv = cv, ![w].got = @ \ {m}]
    /\ UNCHANGED <<rows, client, providers, history>>

\* normalizeGmailMessage: the attachments are fetched with the shared credentials.
TakeGmailMessage(w) == job[w].provider = "GMAIL" /\ Take(w, client = job[w].box)

\* normalizeOutlookMessage: fetchMessageAttachments presents the connection's own token.
TakeOutlookMessage(w) == job[w].provider = "OUTLOOK" /\ Take(w, TRUE)

NoMoreMessages(w) ==
    /\ job[w].at = "each" /\ job[w].got = {}
    /\ Goto(w, "cursor")
    /\ UNCHANGED <<rows, client, providers, history>>

\* The cursor goes to j.to, if there is one; it may pass mail that was not read, which
\* the code accepts of what it lists anew and of changes later than the arrival.
MoveCursor(w) ==
    LET j == job[w]
        c == j.c
        passed == {m \in Holds(c) : Arrived(c, m) <= j.to /\ <<c, m>> \notin settled}
    IN
    /\ j.at = "cursor"
    /\ \/ /\ Connected(c)
          /\ conn' = [conn EXCEPT ![c].synced = Now,
                                  ![c].cursor = IF j.to = 0 THEN @ ELSE j.to,
                                  ![c].by = IF j.to = 0 THEN @ ELSE j.provider]
          /\ dropped' = IF j.relist \/ j.moved THEN dropped \cup ({c} \X passed) ELSE dropped
          /\ End(w)
          /\ UNCHANGED unheard
       \/ /\ ~Connected(c)
          /\ Abort(w)
          /\ UNCHANGED <<conn, dropped>>
    /\ UNCHANGED <<imports, candidates, born, client, providers,
                   settled, shared, swapped, uncounted, suspect>>

\* Gmail's is the history id of the last message, as it was when the message was read.
MoveGmailCursor(w) == job[w].provider = "GMAIL" /\ MoveCursor(w)

\* Outlook's is the delta link that came with the last page.
MoveOutlookCursor(w) == job[w].provider = "OUTLOOK" /\ MoveCursor(w)

-----------------------------------------------------------------------------
(* The mailboxes *)

Arrival(c, m) ==
    /\ box' = [box EXCEPT ![c][m] = [at |-> Now, last |-> Now, read |-> FALSE]]
    /\ clock' = Now
    /\ pushes' = IF c \in pushing THEN pushes \cup {c} ELSE pushes

\* m is sent to c, or delivered to c after it was delivered elsewhere.
Deliver(c, m) ==
    /\ clock < MaxClock
    /\ m \notin Holds(c)
    /\ Arrival(c, m)
    /\ \/ mail[m] # NotSent /\ UNCHANGED mail
       \/ /\ mail[m] = NotSent
          /\ \E kind \in Kinds, who \in Senders :
                mail' = [mail EXCEPT ![m] = [kind |-> kind, sender |-> who]]
    /\ Heard(c, c \in pushing /\ c \notin unheard)
    /\ UNCHANGED <<rows, job, client, grants, issued, pushing,
                   settled, dropped, shared, swapped, uncounted, suspect>>

\* The owner of the mailbox reads m, which is a change of its own.
ReadMessage(c, m) ==
    /\ clock < MaxClock
    /\ m \in Unread(c)
    /\ box' = [box EXCEPT ![c][m].last = Now, ![c][m].read = TRUE]
    /\ clock' = Now
    /\ pushes' = IF c \in pushing THEN pushes \cup {c} ELSE pushes
    /\ UNCHANGED <<rows, job, client, mail, grants, issued, pushing, history>>
=============================================================================
