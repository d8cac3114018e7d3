---------------------------- MODULE Integrations ----------------------------
(***************************************************************************)
(* IntegrationsService and the push subscriptions of GmailPubsubService    *)
(* and OutlookGraphService: connecting and disconnecting a mailbox, its    *)
(* tokens, its watch.  Every failed refresh deactivates the connection,    *)
(* whatever failed.                                                        *)
(***************************************************************************)
EXTENDS Mailboxes

Activity(c, statement, then) == [Idle EXCEPT !.at = statement, !.c = c, !.then = then]

-----------------------------------------------------------------------------
(* The access token *)

\* refreshAccessToken and refreshOutlookToken, on the way from the row to the provider.
Refreshing == {"refreshGmail", "refreshOutlook", "saveGmail", "saveOutlook"}
RefreshOf(row) == IF row.provider = "OUTLOOK" THEN "refreshOutlook" ELSE "refreshGmail"

\* getValidAccessToken.
Token(w) ==
    LET c == job[w].c IN
    /\ job[w].at = "token"
    /\ \/ /\ ~Connected(c)
          /\ Abort(w)
       \/ /\ Connected(c) /\ ~conn[c].stale
          /\ Goto(w, job[w].then)
          /\ UNCHANGED unheard
       \/ /\ Connected(c) /\ conn[c].stale
          /\ job' = [job EXCEPT ![w].at = RefreshOf(conn[c]), ![w].ref = conn[c].grant]
          /\ UNCHANGED unheard
    /\ UNCHANGED <<rows, client, providers, settled, dropped, shared, swapped, uncounted, suspect>>

\* The provider takes the refresh token and gives an access token only.
Accepted(w, next) ==
    /\ job[w].ref \in grants[job[w].c]
    /\ job' = [job EXCEPT ![w].at = next, ![w].ref = 0]
    /\ UNCHANGED <<grants, issued, suspect>>

\* It refuses the refresh token, or fails for a reason of its own.
Refused(w, next) ==
    LET c == job[w].c
        ref == job[w].ref
        rivals == {v \in Workers \ {w} : job[v].c = c /\ job[v].at \in Refreshing}
        blameless == ref \notin grants[c] /\ rivals = {}
                     /\ (Connected(c) => conn[c].grant = ref)
    IN
    /\ Goto(w, next)
    /\ suspect' = IF blameless THEN suspect ELSE suspect \cup {c}
    /\ UNCHANGED <<grants, issued>>

\* Microsoft may hand out a new refresh token, and may then refuse the old one.
Rotated(w, next) ==
    LET c == job[w].c
        ref == job[w].ref
    IN
    /\ ref \in grants[c] /\ issued[c] < MaxGrants
    /\ issued' = [issued EXCEPT ![c] = @ + 1]
    /\ \E kept \in SUBSET {ref} :
          grants' = [grants EXCEPT ![c] = (@ \ {ref}) \cup kept \cup {issued'[c]}]
    /\ job' = [job EXCEPT ![w].at = next, ![w].ref = issued'[c]]
    /\ UNCHANGED suspect

\* refreshAccessToken of a Gmail connection.
RefreshGmail(w) ==
    /\ job[w].at = "refreshGmail"
    /\ Accepted(w, "saveGmail") \/ Refused(w, "deactivateGmail")
    /\ UNCHANGED <<rows, client, clock, mail, box, pushing, pushes,
                   settled, dropped, shared, swapped, uncounted, unheard>>

RefreshOutlook(w) ==
    /\ job[w].at = "refreshOutlook"
    /\ \/ Accepted(w, "saveOutlook")
       \/ Rotated(w, "saveOutlook")
       \/ Refused(w, "deactivateOutlook")
    /\ UNCHANGED <<rows, client, clock, mail, box, pushing, pushes,
                   settled, dropped, shared, swapped, uncounted, unheard>>

\* The row is updated, unless it is gone: the update then throws into the catch.
Save(w, row, otherwise) ==
    LET c == job[w].c IN
    /\ \/ /\ Connected(c)
          /\ conn' = [conn EXCEPT ![c] = row]
          /\ IF job[w].then = None THEN End(w) ELSE Goto(w, job[w].then)
       \/ /\ ~Connected(c)
          /\ Goto(w, otherwise)
          /\ UNCHANGED conn
    /\ UNCHANGED <<imports, candidates, born, client, providers, history>>

SaveGmailToken(w) ==
    /\ job[w].at = "saveGmail"
    /\ Save(w, [conn[job[w].c] EXCEPT !.stale = FALSE], "deactivateGmail")

\* A new refresh token replaces the stored one, whichever that is by now.
SaveOutlookToken(w) ==
    /\ job[w].at = "saveOutlook"
    /\ Save(w, [conn[job[w].c] EXCEPT !.stale = FALSE,
                                      !.grant = IF job[w].ref = 0 THEN @ ELSE job[w].ref],
            "deactivateOutlook")

SetInactive(w) ==
    LET c == job[w].c IN
    /\ conn' = IF Connected(c) THEN [conn EXCEPT ![c].active = FALSE] ELSE conn
    /\ Abort(w)
    /\ UNCHANGED <<imports, candidates, born, client, providers,
                   settled, dropped, shared, swapped, uncounted, suspect>>

DeactivateGmail(w) == job[w].at = "deactivateGmail" /\ SetInactive(w)
DeactivateOutlook(w) == job[w].at = "deactivateOutlook" /\ SetInactive(w)

\* handleTokenRefresh, every 30 minutes, for tokens within an hour of their end.
CronRefresh(w, c) ==
    /\ Connected(c) /\ conn[c].active
    /\ Begin(w, [Activity(c, RefreshOf(conn[c]), None) EXCEPT !.ref = conn[c].grant])
    /\ UNCHANGED <<rows, client, providers, history>>

-----------------------------------------------------------------------------
(* Connecting *)

\* The code is exchanged for tokens.
ExchangeCode(w, c, provider) ==
    /\ issued[c] < MaxGrants
    /\ issued' = [issued EXCEPT ![c] = @ + 1]
    /\ grants' = [grants EXCEPT ![c] = @ \cup {issued'[c]}]
    /\ Begin(w, [Activity(c, "findConnection", None) EXCEPT !.ref = issued'[c],
                                                            !.provider = provider])
    /\ UNCHANGED <<rows, client, clock, mail, box, pushing, pushes, history>>

GmailCallback(w, c) == ExchangeCode(w, c, "GMAIL")
OutlookCallback(w, c) == ExchangeCode(w, c, "OUTLOOK")

Connecting == {"findConnection", "connect", "reconnect"}

FindConnection(w) ==
    /\ job[w].at = "findConnection"
    /\ Goto(w, IF Connected(job[w].c) THEN "reconnect" ELSE "connect")
    /\ UNCHANGED <<rows, client, providers, history>>

\* History: a connection starts afresh, unless an earlier refresh is still under way.
Cleared(c) ==
    IF \E v \in Workers : job[v].c = c /\ job[v].at \in
           Refreshing \cup {"deactivateGmail", "deactivateOutlook"}
    THEN suspect \cup {c} ELSE suspect \ {c}

\* The unique key (companyId, email) refuses the second of two creations.  (A row id
\* of the model is used again once nothing is under way for the row that had it.)
Create(w, next) ==
    LET c == job[w].c IN
    /\ job[w].at = "connect"
    /\ \/ /\ ~Connected(c)
          /\ \A v \in Workers \ {w} : job[v].c = c => job[v].at \in Connecting
          /\ \E company \in Companies :
                conn' = [conn EXCEPT ![c] =
                    [company |-> company, provider |-> job[w].provider, active |-> TRUE,
                     auto |-> TRUE, cursor |-> 0, by |-> job[w].provider, synced |-> 0,
                     created |-> Now, stale |-> FALSE, grant |-> job[w].ref, watch |-> "none"]]
          /\ suspect' = Cleared(c)
          /\ Goto(w, next)
       \/ /\ Connected(c)
          /\ End(w)
          /\ UNCHANGED <<conn, suspect>>
    /\ UNCHANGED <<imports, candidates, born, client, providers,
                   settled, dropped, shared, swapped, uncounted, unheard>>

ConnectGmail(w) == job[w].provider = "GMAIL" /\ Create(w, "watch")
ConnectOutlook(w) == job[w].provider = "OUTLOOK" /\ Create(w, "subscribe")

\* Mutant: the connection stays inactive.
GmailReconnectedInactive(row, grant) == [row EXCEPT !.stale = FALSE, !.grant = grant]

\* The Gmail callback leaves the provider of the row alone.
GmailReconnected(row, grant) ==
    [row EXCEPT !.stale = FALSE, !.grant = grant, !.active = TRUE]

\* The Outlook callback takes a Gmail row over, its cursor included.
OutlookReconnected(row, grant) ==
    [row EXCEPT !.provider = "OUTLOOK",
                !.watch = IF row.provider = "GMAIL" THEN "none" ELSE @,
                !.stale = FALSE, !.grant = grant, !.active = TRUE]

Update(w, row, next) ==
    LET c == job[w].c IN
    /\ job[w].at = "reconnect"
    /\ \/ /\ Connected(c)
          /\ conn' = [conn EXCEPT ![c] = row]
          /\ suspect' = Cleared(c)
          /\ Goto(w, next)
       \/ /\ ~Connected(c)
          /\ End(w)
          /\ UNCHANGED <<conn, suspect>>
    /\ UNCHANGED <<imports, candidates, born, client, providers,
                   settled, dropped, shared, swapped, uncounted, unheard>>

ReconnectGmail(w) ==
    /\ job[w].provider = "GMAIL"
    /\ Update(w, GmailReconnected(conn[job[w].c], job[w].ref), "watch")

ReconnectOutlook(w) ==
    /\ job[w].provider = "OUTLOOK"
    /\ Update(w, OutlookReconnected(conn[job[w].c], job[w].ref), "subscribe")

SetAutoImport(c, auto) ==
    /\ Connected(c) /\ conn[c].auto # auto
    /\ conn' = [conn EXCEPT ![c].auto = auto]
    /\ UNCHANGED <<imports, candidates, born, job, client, providers, history>>

-----------------------------------------------------------------------------
(* Push subscriptions *)

\* renewExpiringWatches: those about to end, and connections that import and have none.
RenewWatch(w, c) ==
    /\ Connected(c) /\ conn[c].active /\ conn[c].provider = "GMAIL"
    /\ conn[c].watch # "none" \/ conn[c].auto
    /\ Begin(w, Activity(c, "watch", None))
    /\ UNCHANGED <<rows, client, providers, history>>

\* renewExpiringSubscriptions: likewise, but what has a subscription renews it.
RenewSubscription(w, c) ==
    /\ Connected(c) /\ conn[c].active /\ conn[c].provider = "OUTLOOK"
    /\ conn[c].watch # "none" \/ conn[c].auto
    /\ Begin(w, Activity(c, IF conn[c].watch # "none" THEN "renew" ELSE "subscribe", None))
    /\ UNCHANGED <<rows, client, providers, history>>

\* watchMailbox and createSubscription, as far as the access token.
IfActive(w, call) ==
    LET c == job[w].c IN
    /\ job' = [job EXCEPT ![w] = IF Connected(c) /\ conn[c].active
                                 THEN Activity(c, "token", call) ELSE Idle]
    /\ UNCHANGED <<rows, client, providers, history>>

Watch(w) == job[w].at = "watch" /\ IfActive(w, "callWatch")
Subscribe(w) == job[w].at = "subscribe" /\ IfActive(w, "callSubscribe")

\* The provider pushes from now on, or the call fails.
Pushes(w, next) ==
    /\ \/ pushing' = pushing \cup {job[w].c} /\ Goto(w, next)
       \/ UNCHANGED pushing /\ End(w)
    /\ UNCHANGED <<rows, client, clock, mail, box, grants, issued, pushes, history>>

CallWatch(w) == job[w].at = "callWatch" /\ Pushes(w, "saveWatch")
CallSubscribe(w) == job[w].at = "callSubscribe" /\ Pushes(w, "saveSubscription")

SetWatch(w, watch) ==
    LET c == job[w].c IN
    /\ conn' = IF Connected(c) THEN [conn EXCEPT ![c].watch = watch] ELSE conn
    /\ UNCHANGED <<imports, candidates, born, client, providers, history>>

\* watchExpiration alone makes no subscription of an Outlook row without its id.
Extended(c) ==
    IF Connected(c) /\ conn[c].provider = "OUTLOOK" /\ conn[c].watch = "none" THEN "none" ELSE "live"

SaveWatch(w) == job[w].at = "saveWatch" /\ SetWatch(w, Extended(job[w].c)) /\ End(w)
SaveSubscription(w) == job[w].at = "saveSubscription" /\ SetWatch(w, "live") /\ End(w)

\* renewSubscription.  A subscription cleared in the meantime is created anew.
Renew(w) ==
    LET c == job[w].c IN
    /\ job[w].at = "renew"
    /\ IF Connected(c) /\ conn[c].watch # "none"
       THEN job' = [job EXCEPT ![w] = Activity(c, "token", "callRenew")]
       ELSE Goto(w, "subscribe")
    /\ UNCHANGED <<rows, client, providers, history>>

\* Graph extends the subscription; knows none (404), whereupon one is created; or fails.
CallRenew(w) ==
    LET c == job[w].c IN
    /\ job[w].at = "callRenew"
    /\ \/ c \in pushing /\ Goto(w, "saveRenewal")
       \/ c \notin pushing /\ job' = [job EXCEPT ![w] = Activity(c, "subscribe", None)]
       \/ End(w)
    /\ UNCHANGED <<rows, client, providers, history>>

SaveRenewal(w) == job[w].at = "saveRenewal" /\ SetWatch(w, Extended(job[w].c)) /\ End(w)

-----------------------------------------------------------------------------
(* Disconnecting *)

\* Without a subscription id deleteSubscription returns at once; stopWatch calls
\* Google in any case.
Disconnect(w, c) ==
    /\ Connected(c)
    /\ Begin(w, IF conn[c].provider = "GMAIL" THEN Activity(c, "token", "stop")
                ELSE IF conn[c].watch = "none" THEN Activity(c, "revoke", None)
                ELSE Activity(c, "token", "unsubscribe"))
    /\ UNCHANGED <<rows, client, providers, history>>

\* The provider stops pushing, or the call fails: the row forgets in either case.
Stops(w, next) ==
    /\ \/ pushing' = pushing \ {job[w].c}
       \/ UNCHANGED pushing
    /\ Goto(w, next)
    /\ UNCHANGED <<rows, client, clock, mail, box, grants, issued, pushes, history>>

StopWatch(w) == job[w].at = "stop" /\ Stops(w, "clear")
DeleteSubscription(w) == job[w].at = "unsubscribe" /\ Stops(w, "clearSubscription")

ThenRevoke(w) == job' = [job EXCEPT ![w] = Activity(job[w].c, "revoke", None)]

ClearWatch(w) == job[w].at = "clear" /\ SetWatch(w, "none") /\ ThenRevoke(w)
ClearSubscription(w) == job[w].at = "clearSubscription" /\ SetWatch(w, "none") /\ ThenRevoke(w)

\* disconnectEmail: Google is asked to forget the grant, Microsoft has nothing to ask.
Revoke(w) ==
    LET c == job[w].c IN
    /\ job[w].at = "revoke"
    /\ \/ Connected(c) /\ Goto(w, "delete")
       \/ ~Connected(c) /\ End(w)
    /\ \/ Connected(c) /\ conn[c].provider = "GMAIL" /\ grants' = [grants EXCEPT ![c] = {}]
       \/ UNCHANGED grants
    /\ UNCHANGED <<rows, client, clock, mail, box, issued, pushing, pushes, history>>

\* Mutant: the candidates keep the ids of rows that went.
WithoutUnlinking(keys) ==
    /\ imports' = [k \in Keys |-> IF k \in keys THEN NoImport ELSE imports[k]]
    /\ UNCHANGED candidates

\* The import rows of the connection go with it; their candidates stay.
Without(keys) ==
    /\ imports' = [k \in Keys |-> IF k \in keys THEN NoImport ELSE imports[k]]
    /\ candidates' = {IF x.link \in keys THEN [x EXCEPT !.link = None] ELSE x : x \in candidates}

Delete(w) ==
    LET c == job[w].c IN
    /\ job[w].at = "delete"
    /\ \/ /\ Connected(c)
          /\ conn' = [conn EXCEPT ![c] = NoConnection]
          /\ Without({k \in Keys : HasImport(k) /\ imports[k].conn = c})
       \/ ~Connected(c) /\ UNCHANGED <<conn, imports, candidates>>
    /\ End(w)
    /\ UNCHANGED <<born, client, providers, history>>

-----------------------------------------------------------------------------
(* Time, the owner of the mailbox and the provider *)

TokenAges(c) ==
    /\ Connected(c) /\ ~conn[c].stale
    /\ conn' = [conn EXCEPT ![c].stale = TRUE]
    /\ UNCHANGED <<imports, candidates, born, job, client, providers, history>>

WatchLapses(c) ==
    /\ Connected(c) /\ conn[c].watch = "live"
    /\ conn' = [conn EXCEPT ![c].watch = "lapsed"]
    /\ pushing' = pushing \ {c}
    /\ UNCHANGED <<imports, candidates, born, job, client, clock, mail, box, grants, issued,
                   pushes, history>>

ConsentWithdrawn(c) ==
    /\ grants[c] # {}
    /\ grants' = [grants EXCEPT ![c] = {}]
    /\ UNCHANGED <<rows, job, client, clock, mail, box, issued, pushing, pushes, history>>
=============================================================================
