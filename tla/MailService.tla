----------------------------- MODULE MailService -----------------------------
(***************************************************************************)
(* The intake of mail as a whole: connections, polls and imports under     *)
(* notifications, schedules, users, providers and crashes, and what must   *)
(* hold of them.                                                           *)
(***************************************************************************)
EXTENDS MailImport

NoMailYet == [at |-> 0, last |-> 0, read |-> FALSE]

\* Some mailboxes are connected, as the callback leaves them; the subscription of some
\* has been set up.
Init ==
    /\ conn \in [Connections -> {NoConnection} \cup
           {[company |-> company, provider |-> provider, active |-> TRUE, auto |-> TRUE,
             cursor |-> 0, by |-> provider, synced |-> 0, created |-> 1, stale |-> stale,
             grant |-> 1, watch |-> watch] :
               company \in Companies, provider \in {"GMAIL", "OUTLOOK"}, stale \in BOOLEAN,
               watch \in {"none", "live"}}]
    /\ grants = [c \in Connections |-> IF Connected(c) THEN {1} ELSE {}]
    /\ issued = [c \in Connections |-> IF Connected(c) THEN 1 ELSE 0]
    /\ pushing = {c \in Connections : Connected(c) /\ conn[c].watch = "live"}
    /\ imports = [k \in Keys |-> NoImport]
    /\ candidates = {} /\ born = 0
    /\ job = [w \in Workers |-> Idle]
    /\ client = None
    /\ clock = 0 /\ mail = [m \in Mails |-> NotSent]
    /\ box = [c \in Connections |-> [m \in Mails |-> NoMailYet]]
    /\ pushes = {}
    /\ settled = {} /\ dropped = {} /\ shared = {} /\ swapped = {} /\ uncounted = {}
    /\ unheard = {} /\ suspect = {}

ConnectRequests(w, c) == GmailCallback(w, c) \/ OutlookCallback(w, c)
CronRequests(w, c) == GmailCron(w, c) \/ OutlookCron(w, c)
SyncRequests(w, c) == SyncConnection(w, c) \/ SyncGmail(w, c) \/ SyncOutlook(w, c)
PushRequests(w, c) == TakeGmailPush(w, c) \/ TakeOutlookPush(w, c)
PollRequests(w, c) == CronRequests(w, c) \/ SyncRequests(w, c) \/ PushRequests(w, c)
RefreshRequests(w, c) == CronRefresh(w, c)
WatchRequests(w, c) == RenewWatch(w, c) \/ RenewSubscription(w, c)
DisconnectRequests(w, c) == Disconnect(w, c)

Requests(w) ==
    \E c \in Connections :
        \/ ConnectRequests(w, c) \/ PollRequests(w, c) \/ RefreshRequests(w, c)
        \/ WatchRequests(w, c) \/ DisconnectRequests(w, c)

Continue(w) ==
    \/ Token(w) \/ RefreshGmail(w) \/ RefreshOutlook(w)
    \/ SaveGmailToken(w) \/ SaveOutlookToken(w) \/ DeactivateGmail(w) \/ DeactivateOutlook(w)
    \/ FindConnection(w) \/ ConnectGmail(w) \/ ConnectOutlook(w)
    \/ ReconnectGmail(w) \/ ReconnectOutlook(w)
    \/ Watch(w) \/ CallWatch(w) \/ SaveWatch(w)
    \/ Subscribe(w) \/ CallSubscribe(w) \/ SaveSubscription(w)
    \/ Renew(w) \/ CallRenew(w) \/ SaveRenewal(w)
    \/ StopWatch(w) \/ ClearWatch(w) \/ DeleteSubscription(w) \/ ClearSubscription(w)
    \/ Revoke(w) \/ Delete(w)
    \/ ListGmail(w) \/ Fallback(w) \/ GetMessage(w) \/ ListOutlook(w) \/ Rebaseline(w)
    \/ TakeGmailMessage(w) \/ TakeOutlookMessage(w) \/ NoMoreMessages(w)
    \/ MoveGmailCursor(w) \/ MoveOutlookCursor(w)
    \/ Lookup(w) \/ WriteSkip(w) \/ Classify(w) \/ WritePending(w)
    \/ BeginImport(w) \/ DeclineImport(w) \/ FindCvDuplicate(w) \/ FindSenderDuplicate(w)
    \/ CreateCvCandidate(w) \/ CreateCandidate(w) \/ ScoreCandidate(w)
    \/ MarkImported(w) \/ CountImport(w) \/ MarkDuplicate(w) \/ MarkFailed(w)

MailEvents == \E c \in Connections, m \in Mails : Deliver(c, m)
ReadingEvents == \E c \in Connections, m \in Mails : ReadMessage(c, m)
ProviderEvents == \E c \in Connections : ConsentWithdrawn(c)
TokenEvents == \E c \in Connections : TokenAges(c)
WatchEvents == \E c \in Connections : WatchLapses(c)
SettingEvents == \E c \in Connections, auto \in BOOLEAN : SetAutoImport(c, auto)
UpkeepEvents ==
    \/ \E k \in Keys : ImportAges(k)
    \/ CleanUp \/ Purge
    \/ \E x \in candidates : RemoveCandidate(x)

Events ==
    \/ MailEvents \/ ReadingEvents \/ ProviderEvents \/ TokenEvents \/ WatchEvents
    \/ SettingEvents \/ UpkeepEvents \/ Crash

Next == (\E w \in Workers : Requests(w) \/ Continue(w)) \/ Events

Spec == Init /\ [][Next]_vars

-----------------------------------------------------------------------------
(* Properties *)

Times == 0..MaxClock
Job == [at : {"idle", "token", "refreshGmail", "refreshOutlook", "saveGmail", "saveOutlook",
              "deactivateGmail", "deactivateOutlook", "findConnection", "connect", "reconnect",
              "watch", "callWatch", "saveWatch", "subscribe", "callSubscribe", "saveSubscription",
              "renew", "callRenew", "saveRenewal", "stop", "clear", "unsubscribe",
              "clearSubscription", "revoke", "delete"} \cup PollStatements,
        c : Connections \cup {None},
        then : {"list", "callWatch", "callSubscribe", "callRenew", "stop", "unsubscribe", None},
        ref : 0..MaxGrants, provider : {"GMAIL", "OUTLOOK", None}, auto : BOOLEAN,
        cursor : Times, box : Connections \cup {None}, relist : BOOLEAN,
        ids : SUBSET Mails, got : SUBSET Mails, to : Times, moved : BOOLEAN,
        m : Mails \cup {None}, re : BOOLEAN, cv : BOOLEAN, who : Senders \cup {None}]

\* Every table and every handler holds what its columns and variables may: cursors are
\* positions of the history, a stored grant is one the provider issued, a candidate's
\* link is the key of an import row that exists.
MailTypeOK ==
    /\ conn \in [Connections -> Connection \cup {NoConnection}]
    /\ \A c \in Connections : issued[c] \in 0..MaxGrants /\ grants[c] \subseteq 1..issued[c]
    /\ \A c \in Connections : Connected(c) => conn[c].grant \in 1..issued[c]
    /\ \A k \in Keys : imports[k] \in Import \cup {NoImport}
    /\ \A x \in candidates : x.link # None => HasImport(x.link)
    /\ job \in [Workers -> Job]
    /\ client \in Connections \cup {None} /\ clock \in Times /\ born \in 0..MaxCandidates
    /\ pushing \subseteq Connections /\ pushes \subseteq Connections

Passed(c, m) == conn[c].cursor # 0 /\ Arrived(c, m) <= conn[c].cursor
Promised(c) == IF Connected(c) THEN {m \in Inbox(c) : Arrived(c, m) >= conn[c].created} ELSE {}

\* A cursor passes no mail of its inbox that was not processed to the end, except what
\* the code gives up knowingly: messages that cannot be read or whose import throws (as it
\* does when a candidate or an import of another company holds the id of the message),
\* what a list in place of the history leaves out, and what arrives before a change of
\* the last message.  Crashes, overlapping polls and refused refreshes lose nothing.
PassedMailIsAccountedFor ==
    \A c \in Connections : \A m \in Promised(c) :
        Passed(c, m) => <<c, m>> \in settled \cup dropped

\* A message is recorded for the connection of the mailbox it was read from, unless its
\* poll listed anew with the credentials another poll had put into the shared client.
ForeignMailNeedsFallback ==
    \A k \in Keys : HasImport(k) => imports[k].from = imports[k].conn \/ k \in swapped

\* An import that is marked skipped or failed has made no candidate, unless two polls
\* had the message in hand at once or the usage of the import could not be counted.
RefusedRowsHaveNoCandidate ==
    \A k \in Keys :
        /\ HasImport(k) /\ imports[k].status \in {"SKIPPED", "FAILED"}
        /\ Linked(k) # {}
        => k \in shared \cup uncounted

\* A connection whose stored refresh token the provider accepts is active, unless a
\* refresh failed for another reason than its token, or was under way when the token
\* was replaced.
DeactivationHasCause ==
    \A c \in Connections :
        Connected(c) /\ ~conn[c].active /\ conn[c].grant \in grants[c] => c \in suspect

\* Mail that waits beyond the cursor has a notification or a poll on its way to it,
\* unless it came unannounced, its notification met a poll under way or an inactive
\* connection, or the last list was incomplete.
WaitingMailIsAnnounced ==
    \A c \in Connections : \A m \in Promised(c) :
        ~Passed(c, m) /\ <<c, m>> \notin settled \cup dropped
            => c \in pushes \cup unheard \/ Polling(c)
=============================================================================
