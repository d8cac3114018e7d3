------------------------------- MODULE MCMail -------------------------------
(***************************************************************************)
(* A small instance of the mail intake for TLC.  As for the accounts, the  *)
(* environment draws its requests from one workload chosen at the start;   *)
(* focus is the connection of a workload about one.                        *)
(***************************************************************************)
EXTENDS MailService, TLC

CONSTANTS c1, c2, A, B, m1, m2, m3, s1, w1, w2

VARIABLES workload, focus

Workloads == {"history", "client", "delta", "push", "repeat", "leave", "tokens", "subscriptions"}

\* The providers and the connections of a workload.
Setting(provider, on) ==
    \A c \in Connections : IF c \in on THEN Connected(c) /\ conn[c].provider = provider
                                       ELSE ~Connected(c)

MCInit ==
    /\ Init
    /\ workload \in Workloads
    /\ IF workload \in {"client", "delta"} THEN focus = None ELSE focus \in Connections
    /\ workload = "client" => Setting("GMAIL", {c1, c2}) /\ conn[c1].company = conn[c2].company
    /\ workload = "delta" => Setting("OUTLOOK", {c1, c2})
    /\ workload \in {"history", "push", "repeat", "leave"} =>
           \E p \in {"GMAIL", "OUTLOOK"} : Setting(p, {focus})
    /\ workload \in {"tokens", "subscriptions"} =>
           Setting("GMAIL", {}) \/ \E p \in {"GMAIL", "OUTLOOK"} : Setting(p, {focus})
    /\ workload \notin {"tokens", "subscriptions"} =>
           \A c \in Connections : Connected(c) => ~conn[c].stale
    /\ workload # "push" => \A c \in Connections : Connected(c) => conn[c].watch = "none"

\* The mail a workload is about, sent to connected mailboxes; to one of the two that
\* share the client.
KindsOf == [history |-> {"own"}, client |-> {"bulk"}, delta |-> {"letter"},
            push |-> {"own"}, repeat |-> {"cv", "aside"},
            leave |-> {"cv"}]
MailsOf == [history |-> Mails, client |-> {m1}, delta |-> {m1}, push |-> {m1, m2},
            repeat |-> {m1}, leave |-> {m1}]

MCMailEvents ==
    /\ workload \in DOMAIN KindsOf
    /\ \E c \in Connections, m \in MailsOf[workload] :
          /\ Connected(c) /\ (workload = "client" => mail[m] = NotSent)
          /\ Deliver(c, m)
    /\ \A m \in Mails : mail'[m] # NotSent => mail'[m].kind \in KindsOf[workload]

MCRequests(w) ==
    \E c \in Connections :
        \/ /\ workload \in {"history", "client", "delta", "repeat", "leave"}
           /\ CronRequests(w, c)
        \/ workload = "push" /\ PollRequests(w, c)
        \/ workload = "leave" /\ DisconnectRequests(w, c)
        \/ workload = "tokens" /\ c = focus
           /\ (RefreshRequests(w, c) \/ ConnectRequests(w, c))
        \/ workload = "subscriptions" /\ c = focus
           /\ (WatchRequests(w, c) \/ DisconnectRequests(w, c))

MCEvents ==
    \/ /\ workload = "push" => clock < 3
       /\ MCMailEvents \/ (workload \in {"history", "push"} /\ ReadingEvents)
    \/ workload \in {"push", "repeat", "leave"} /\ Crash
    \/ workload = "push" /\ WatchEvents
    \/ workload = "repeat" /\ UpkeepEvents
    \/ workload \in {"tokens", "subscriptions"} /\ TokenEvents
    \/ workload = "tokens" /\ ProviderEvents
    \/ workload = "subscriptions" /\ (WatchEvents \/ SettingEvents)

MCNext ==
    /\ \/ \E w \in Workers : MCRequests(w) \/ Continue(w)
       \/ MCEvents
    /\ UNCHANGED <<workload, focus>>

MCSpec == MCInit /\ [][MCNext]_<<vars, workload, focus>>

MCConnections == {c1, c2}
MCCompanies == {A, B}
MCMails == {m1, m2, m3}
MCSenders == {s1}
MCWorkers == {w1, w2}
Swaps(x, y) == {[v \in {x, y} |-> v], [v \in {x, y} |-> IF v = x THEN y ELSE x]}
MCSymmetry ==
    {f @@ h @@ g : f \in Swaps(A, B), h \in Swaps(w1, w2), g \in Swaps(c1, c2)}
=============================================================================
