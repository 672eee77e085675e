----------------------------- MODULE FeedSession ----------------------------
(***************************************************************************)
(* How a running OpenApiSpotFeed keeps its broker session: CTraderConnection *)
(* (connection.py), and the reconnect, re-authentication, token-refresh and  *)
(* pre-emptive code of open_api_spot_feed.py.                                *)
(*                                                                         *)
(* Threads: the Twisted reactor, one restore thread per connected callback *)
(* that finds _reauth_in_progress clear, the token refreshers, the          *)
(* pre-emptive monitor with its reconnect thread, the health timer.        *)
(* The broker authorises a channel, that is one TCP connection of one      *)
(* client object: first the application, then the account.                 *)
(*                                                                         *)
(* Initially start() has returned True.                                    *)
(***************************************************************************)
EXTENDS Naturals, FiniteSets, ConnectionState

CONSTANTS
    Client,       \* client objects that may be created: 1 .. some number
    Restorer,     \* restore threads that may exist at the same time
    Refresher,    \* callers of _refresh_token_and_reauth
    DegradeAt,    \* auth errors that degrade the state (3)
    CircuitAt,    \* auth errors that open the circuit (5)
    MaxDrops,     \* bound: connections lost
    MaxFails,     \* bound: requests that fail although the channel is up
    MaxRefreshes, \* bound: token refreshes
    MaxPreempts,  \* bound: pre-emptive reconnects
    MaxSilences   \* bound: heartbeat alarms

ASSUME ClientAssumption == /\ Client \subseteq Nat \ {0}
                           /\ 1 \in Client
ASSUME ThresholdAssumption == /\ DegradeAt \in Nat \ {0}
                              /\ CircuitAt \in Nat
                              /\ DegradeAt <= CircuitAt
ASSUME SessionBoundsAssumption == /\ MaxDrops \in Nat
                                  /\ MaxFails \in Nat
                                  /\ MaxRefreshes \in Nat
                                  /\ MaxPreempts \in Nat
                                  /\ MaxSilences \in Nat
ASSUME ThreadsAssumption == Restorer \cap Refresher = {}

VARIABLES
    state,        \* _state_mgr
    client,       \* _conn._client, 0 for None
    connected,    \* _conn._connected
    chan,         \* per client object: its TCP connection
    srvApp, srvAcct,  \* channels whose application, account the broker authorised
    routed,       \* clients whose messages go to _on_message
    appAuthed, authed,  \* the two events of the feed
    reauth,       \* _reauth_in_progress
    locked,       \* _session_reauth_lock
    errors, circuit,  \* _auth_error_count (up to CircuitAt), _auth_circuit_open
    reactor,      \* the reactor: idle, or before the feed's callback
    restore, tries,   \* per restore thread: its program point, failed app auths
    refresh,      \* per refresher: its program point
    queued,       \* account-auth sends queued with callFromThread
    preempt, inProgress, count,  \* the pre-emptive threads, _reconnect_count
    used          \* counters for the bounds

chanVars == <<client, connected, chan, srvApp, srvAcct, routed>>
authVars == <<appAuthed, authed, errors, circuit>>
preemptVars == <<preempt, inProgress, count>>
restoreVars == <<restore, tries>>
vars == <<state, chanVars, authVars, reauth, locked, reactor, restoreVars, refresh,
          queued, preemptVars, used>>

Troubles == {"drops", "fails", "refreshes", "preempts", "silences"}

Init == /\ state = "authenticated"
        /\ client = 1 /\ connected = TRUE
        /\ chan = [n \in Client |-> IF n = 1 THEN "up" ELSE "none"]
        /\ srvApp = {1} /\ srvAcct = {1} /\ routed = {1}
        /\ appAuthed = TRUE /\ authed = TRUE
        /\ reauth = FALSE /\ locked = FALSE
        /\ errors = 0 /\ circuit = FALSE
        /\ reactor = "idle"
        /\ restore = [i \in Restorer |-> "none"]
        /\ tries = [i \in Restorer |-> 0]
        /\ refresh = [r \in Refresher |-> "idle"]
        /\ queued = 0
        /\ preempt = "idle" /\ inProgress = FALSE /\ count = 0
        /\ used = [what \in Troubles |-> 0]

\* transition_to: rejected when the table does not have it.
Transition(target) == state' = Moved(state, target)

Spend(what, bound) == used[what] < bound /\ used' = [used EXCEPT ![what] = @ + 1]

\* A request sent now reaches the broker.
Reachable == client # 0 /\ chan[client] = "up"

\* _handle_auth_failure, _check_circuit_breaker
AuthFailure ==
    LET n == IF errors < CircuitAt THEN errors + 1 ELSE CircuitAt
    IN  /\ errors' = n
        /\ circuit' = (circuit \/ n >= CircuitAt)
        /\ IF n >= CircuitAt THEN Transition("failed")
           ELSE IF n >= DegradeAt THEN Transition("degraded")
           ELSE UNCHANGED state

-----------------------------------------------------------------------------
(* The reactor: connections come and go.                                   *)

\* _handle_disconnected, for whichever client object it is.
HandleDisconnected ==
    /\ connected' = FALSE
    /\ Transition("reconnecting")
    /\ reactor' = "lost"

\* The connection of client n breaks; ClientService dials again.
Lose(n) ==
    /\ reactor = "idle"
    /\ chan[n] = "up"
    /\ Spend("drops", MaxDrops)
    /\ chan' = [chan EXCEPT ![n] = "dialing"]
    /\ srvApp' = srvApp \ {n} /\ srvAcct' = srvAcct \ {n}
    /\ HandleDisconnected
    /\ UNCHANGED <<client, routed, authVars, reauth, locked, restoreVars, refresh,
                   queued, preemptVars>>

\* The connection of a client whose service was stopped is closed at last.
Closed(n) ==
    /\ reactor = "idle"
    /\ chan[n] = "closing"
    /\ chan' = [chan EXCEPT ![n] = "closed"]
    /\ srvApp' = srvApp \ {n} /\ srvAcct' = srvAcct \ {n}
    /\ HandleDisconnected
    /\ UNCHANGED <<client, routed, authVars, reauth, locked, restoreVars, refresh,
                   queued, preemptVars, used>>

\* _on_conn_disconnected (what it does to orders is in OrderFeed).
OnDisconnected ==
    /\ reactor = "lost"
    /\ reactor' = "idle"
    /\ authed' = FALSE /\ appAuthed' = FALSE
    /\ reauth' = FALSE
    /\ UNCHANGED <<state, chanVars, errors, circuit, locked, restoreVars, refresh,
                   queued, preemptVars, used>>

\* _handle_connected
Connect(n) ==
    /\ reactor = "idle"
    /\ chan[n] = "dialing"
    /\ chan' = [chan EXCEPT ![n] = "up"]
    /\ connected' = TRUE
    /\ Transition("connected")
    /\ reactor' = "up"
    /\ UNCHANGED <<client, srvApp, srvAcct, routed, authVars, reauth, locked,
                   restoreVars, refresh, queued, preemptVars, used>>

\* _on_conn_connected: a restore thread, unless one is thought to be at work.
OnConnected ==
    /\ reactor = "up"
    /\ reactor' = "idle"
    /\ IF reauth THEN UNCHANGED <<reauth, restoreVars>>
       ELSE /\ reauth' = TRUE
            /\ \E i \in Restorer : /\ restore[i] = "none"
                                   /\ restore' = [restore EXCEPT ![i] = "start"]
                                   /\ tries' = [tries EXCEPT ![i] = 0]
    /\ UNCHANGED <<state, chanVars, authVars, locked, refresh, queued, preemptVars, used>>

\* The queued account-auth request of a refresher is sent; the answer, if there
\* is one, only reaches _on_message.
SendQueued ==
    /\ reactor = "idle"
    /\ queued > 0
    /\ queued' = queued - 1
    /\ LET accepted == Reachable /\ client \in srvApp
           answered == accepted /\ client \in routed
           again == accepted /\ client \in srvAcct
       IN  /\ srvAcct' = IF accepted THEN srvAcct \cup {client} ELSE srvAcct
           /\ authed' = (authed \/ answered)
           /\ IF answered /\ ~again THEN errors' = 0 /\ circuit' = FALSE
              ELSE UNCHANGED <<errors, circuit>>
    /\ UNCHANGED <<state, client, connected, chan, srvApp, routed, appAuthed, reauth,
                   locked, reactor, restoreVars, refresh, preemptVars, used>>

-----------------------------------------------------------------------------
(* The restore threads: _reconnect_restore.                                *)

At(i, from, to) == restore[i] = from /\ restore' = [restore EXCEPT ![i] = to]

\* Mutant: the early return goes through the finally.
RestoreSkipReleases(i) ==
    /\ At(i, "start", "none")
    /\ locked
    /\ reauth' = FALSE
    /\ locked' = FALSE
    /\ UNCHANGED <<state, chanVars, authVars, reactor, tries, refresh, queued,
                   preemptVars, used>>

\* The lock is taken: leave it to whoever has it.
RestoreSkip(i) ==
    /\ At(i, "start", "none")
    /\ locked
    /\ reauth' = FALSE
    /\ UNCHANGED <<state, chanVars, authVars, locked, reactor, tries, refresh, queued,
                   preemptVars, used>>

RestoreAcquire(i) ==
    /\ At(i, "start", "check")
    /\ ~locked
    /\ locked' = TRUE
    /\ UNCHANGED <<state, chanVars, authVars, reauth, reactor, tries, refresh, queued,
                   preemptVars, used>>

\* Mutant: the early return does not go through the finally.
RestoreCheckLeaks(i) ==
    /\ At(i, "check", IF connected THEN "settle" ELSE "none")
    /\ UNCHANGED <<state, chanVars, authVars, reauth, locked, reactor, tries, refresh,
                   queued, preemptVars, used>>

\* if not self._conn.is_connected: return
RestoreCheck(i) ==
    /\ At(i, "check", IF connected THEN "settle" ELSE "end")
    /\ UNCHANGED <<state, chanVars, authVars, reauth, locked, reactor, tries, refresh,
                   queued, preemptVars, used>>

\* The stabilisation delay is over.
RestoreSettle(i) ==
    /\ At(i, "settle", "app")
    /\ Transition("app_auth")
    /\ UNCHANGED <<chanVars, authVars, reauth, locked, reactor, tries, refresh, queued,
                   preemptVars, used>>

\* _is_expected_auth_response accepts ALREADY_LOGGED_IN with either flag.
Tolerates == appAuthed \/ reauth

\* _handle_error takes ALREADY_LOGGED_IN, whichever request it answers, for a sign
\* that the account is authorised; S holds the channels that get this answer.
AlreadyHeard(S) == client \in S \cap routed

\* The application is authorised on the current client's channel.
RestoreAppOk(i) ==
    /\ At(i, "app", "app_ok")
    /\ queued = 0
    /\ Reachable
    /\ client \in srvApp => Tolerates
    /\ srvApp' = srvApp \cup {client}
    /\ appAuthed' = (appAuthed \/ client \in routed \ srvApp)
    /\ authed' = (authed \/ AlreadyHeard(srvApp))
    /\ UNCHANGED <<state, client, connected, chan, srvAcct, routed, errors, circuit, reauth,
                   locked, reactor, tries, refresh, queued, preemptVars, used>>

\* No answer or a refusal, the first time: one more try.
AppRefused == \/ ~Reachable /\ UNCHANGED <<srvApp, authed, used>>
              \/ /\ Reachable /\ client \in srvApp /\ ~Tolerates
                 /\ authed' = (authed \/ AlreadyHeard(srvApp))
                 /\ UNCHANGED <<srvApp, used>>
              \/ /\ Reachable
                 /\ Spend("fails", MaxFails)
                 /\ srvApp' \in {srvApp, srvApp \cup {client}}
                 /\ UNCHANGED authed

RestoreAppRetry(i) ==
    /\ At(i, "app", "app")
    /\ queued = 0
    /\ tries[i] = 0
    /\ tries' = [tries EXCEPT ![i] = 1]
    /\ AppRefused
    /\ UNCHANGED <<state, client, connected, chan, srvAcct, routed, appAuthed, errors,
                   circuit, reauth, locked, reactor, refresh, queued, preemptVars>>

RestoreAppFails(i) ==
    /\ At(i, "app", "end")
    /\ queued = 0
    /\ tries[i] = 1
    /\ AppRefused
    /\ AuthFailure
    /\ UNCHANGED <<client, connected, chan, srvAcct, routed, appAuthed, reauth,
                   locked, reactor, tries, refresh, queued, preemptVars>>

RestoreAppDone(i) ==
    /\ At(i, "app_ok", "acct_check")
    /\ appAuthed' = TRUE
    /\ Transition("acct_auth")
    /\ UNCHANGED <<chanVars, authed, errors, circuit, reauth, locked, reactor, tries,
                   refresh, queued, preemptVars, used>>

RestoreAcctCheck(i) ==
    /\ At(i, "acct_check", IF connected THEN "acct" ELSE "end")
    /\ UNCHANGED <<state, chanVars, authVars, reauth, locked, reactor, tries, refresh,
                   queued, preemptVars, used>>

\* The account is authorised; _on_message sees the answer too.
RestoreAcctOk(i) ==
    /\ At(i, "acct", "acct_ok")
    /\ queued = 0
    /\ Reachable /\ client \in srvApp
    /\ client \in srvAcct => Tolerates
    /\ srvAcct' = srvAcct \cup {client}
    /\ authed' = (authed \/ client \in routed)
    /\ IF client \in routed \ srvAcct THEN errors' = 0 /\ circuit' = FALSE
       ELSE UNCHANGED <<errors, circuit>>
    /\ UNCHANGED <<state, client, connected, chan, srvApp, routed, appAuthed, reauth,
                   locked, reactor, tries, refresh, queued, preemptVars, used>>

\* No answer, or the broker refuses: the application is not authorised on this
\* channel, or the account already is and neither flag is set.
AcctRefused ==
    \/ /\ ~Reachable \/ client \notin srvApp
       /\ UNCHANGED <<srvAcct, authed, used>>
    \/ /\ Reachable /\ client \in srvAcct /\ ~Tolerates
       /\ authed' = (authed \/ AlreadyHeard(srvAcct))
       /\ UNCHANGED <<srvAcct, used>>
    \/ /\ Reachable
       /\ Spend("fails", MaxFails)
       /\ \/ UNCHANGED srvAcct
          \/ client \in srvApp /\ srvAcct' = srvAcct \cup {client}
       /\ UNCHANGED authed

RestoreAcctFails(i) ==
    /\ At(i, "acct", "end")
    /\ queued = 0
    /\ AcctRefused
    /\ AuthFailure
    /\ UNCHANGED <<client, connected, chan, srvApp, routed, appAuthed, reauth,
                   locked, reactor, tries, refresh, queued, preemptVars>>

\* self._authed.set(), _set_message_callback
RestoreAuthed(i) ==
    /\ At(i, "acct_ok", "restored")
    /\ authed' = TRUE
    /\ routed' = IF client = 0 THEN routed ELSE routed \cup {client}
    /\ UNCHANGED <<state, client, connected, chan, srvApp, srvAcct, appAuthed, errors,
                   circuit, reauth, locked, reactor, tries, refresh, queued, preemptVars, used>>

\* The subscriptions are renewed, then AUTHENTICATED, if the table allows.
RestoreDone(i) ==
    /\ At(i, "restored", "end")
    /\ Transition("authenticated")
    /\ UNCHANGED <<chanVars, authVars, reauth, locked, reactor, tries, refresh, queued,
                   preemptVars, used>>

\* finally: the flag, then the lock.
RestoreClear(i) ==
    /\ At(i, "end", "release")
    /\ reauth' = FALSE
    /\ UNCHANGED <<state, chanVars, authVars, locked, reactor, tries, refresh, queued,
                   preemptVars, used>>

RestoreRelease(i) ==
    /\ At(i, "release", "none")
    /\ locked' = FALSE
    /\ UNCHANGED <<state, chanVars, authVars, reauth, reactor, tries, refresh, queued,
                   preemptVars, used>>

-----------------------------------------------------------------------------
(* The token refreshers: _do_refresh_offthread.                            *)

On(r, from, to) == refresh[r] = from /\ refresh' = [refresh EXCEPT ![r] = to]

\* The timer fires, or an auth error asks for a refresh.
RefreshStart(r) ==
    /\ On(r, "idle", "start")
    /\ Spend("refreshes", MaxRefreshes)
    /\ UNCHANGED <<state, chanVars, authVars, reauth, locked, reactor, restoreVars,
                   queued, preemptVars>>

RefreshSkip(r) ==
    /\ On(r, "start", "idle")
    /\ locked
    /\ UNCHANGED <<state, chanVars, authVars, reauth, locked, reactor, restoreVars,
                   queued, preemptVars, used>>

RefreshAcquire(r) ==
    /\ On(r, "start", "http")
    /\ ~locked
    /\ locked' = TRUE
    /\ UNCHANGED <<state, chanVars, authVars, reauth, reactor, restoreVars, queued,
                   preemptVars, used>>

RefreshFails(r) ==
    /\ On(r, "http", "release")
    /\ Spend("fails", MaxFails)
    /\ AuthFailure
    /\ UNCHANGED <<chanVars, appAuthed, authed, reauth, locked, reactor, restoreVars,
                   queued, preemptVars>>

RefreshOk(r) ==
    /\ On(r, "http", "link")
    /\ UNCHANGED <<state, chanVars, authVars, reauth, locked, reactor, restoreVars,
                   queued, preemptVars, used>>

\* Connection down: the reconnect owns the authentication.
RefreshLink(r) ==
    /\ On(r, "link", IF connected THEN "authed" ELSE "release")
    /\ errors' = IF connected THEN errors ELSE 0
    /\ UNCHANGED <<state, chanVars, appAuthed, authed, circuit, reauth, locked, reactor,
                   restoreVars, queued, preemptVars, used>>

\* Already authenticated: nothing to send.  Otherwise an account-auth request.
RefreshSend(r) ==
    /\ On(r, "authed", "release")
    /\ queued' = IF authed THEN queued ELSE queued + 1
    /\ errors' = 0
    /\ UNCHANGED <<state, chanVars, appAuthed, authed, circuit, reauth, locked, reactor,
                   restoreVars, preemptVars, used>>

RefreshRelease(r) ==
    /\ On(r, "release", "idle")
    /\ locked' = FALSE
    /\ UNCHANGED <<state, chanVars, authVars, reauth, reactor, restoreVars, queued,
                   preemptVars, used>>

-----------------------------------------------------------------------------
(* The pre-emptive monitor and its reconnect thread; the health timer.     *)

\* _check_preemptive_reconnect: the heartbeat is silent (the market is open and
\* no order is pending).
PreemptCheck ==
    /\ preempt = "idle"
    /\ state = "authenticated" /\ ~reauth /\ ~inProgress
    /\ Spend("preempts", MaxPreempts)
    /\ preempt' = "claim"
    /\ UNCHANGED <<state, chanVars, authVars, reauth, locked, reactor, restoreVars,
                   refresh, queued, inProgress, count>>

\* Claim the slot and set the re-auth flag; an earlier attempt that failed leaves
\* _reconnect_count above 0 and ends it here.
PreemptClaim ==
    /\ preempt = "claim"
    /\ reauth' = TRUE
    /\ preempt' = IF count > 0 THEN "idle" ELSE "backoff"
    /\ inProgress' = (count = 0)
    /\ count' = 1
    /\ UNCHANGED <<state, chanVars, authVars, locked, reactor, restoreVars, refresh,
                   queued, used>>

\* attempt_reconnect after its sleep: stop the old client.
PreemptTeardown ==
    /\ preempt = "backoff"
    /\ preempt' = "dial"
    /\ chan' = [n \in Client |-> IF n # client THEN chan[n]
                                 ELSE IF chan[n] = "up" THEN "closing" ELSE "closed"]
    /\ client' = 0
    /\ UNCHANGED <<state, connected, srvApp, srvAcct, routed, authVars, reauth, locked,
                   reactor, restoreVars, refresh, queued, inProgress, count, used>>

\* connect(): a new client object.
PreemptDial ==
    /\ preempt = "dial"
    /\ \E n \in Client :
          /\ chan[n] = "none"
          /\ client' = n
          /\ chan' = [chan EXCEPT ![n] = "dialing"]
    /\ connected' = FALSE
    /\ Transition("connecting")
    /\ preempt' = "wait"
    /\ UNCHANGED <<srvApp, srvAcct, routed, authVars, reauth, locked, reactor, restoreVars,
                   refresh, queued, inProgress, count, used>>

\* self._connected.wait(timeout) returned.
PreemptEnd ==
    /\ preempt = "wait"
    /\ preempt' = "idle"
    /\ inProgress' = FALSE
    /\ count' = IF connected THEN 0 ELSE count
    /\ UNCHANGED <<state, chanVars, authVars, reauth, locked, reactor, restoreVars, refresh,
                   queued, used>>

\* _check_heartbeat: it moves the state and does nothing else.
HeartbeatAlarm ==
    /\ state \notin {"disconnected", "connecting", "reconnecting", "failed", "app_auth",
                     "acct_auth"}
    /\ Spend("silences", MaxSilences)
    /\ Transition("reconnecting") \/ Transition("degraded")
    /\ UNCHANGED <<chanVars, authVars, reauth, locked, reactor, restoreVars, refresh, queued,
                   preemptVars>>

-----------------------------------------------------------------------------
Restore(i) == \/ RestoreSkip(i)     \/ RestoreAcquire(i)  \/ RestoreCheck(i)
              \/ RestoreSettle(i)   \/ RestoreAppOk(i)    \/ RestoreAppRetry(i)
              \/ RestoreAppFails(i) \/ RestoreAppDone(i)  \/ RestoreAcctCheck(i)
              \/ RestoreAcctOk(i)   \/ RestoreAcctFails(i) \/ RestoreAuthed(i)
              \/ RestoreDone(i)     \/ RestoreClear(i)    \/ RestoreRelease(i)
Refresh(r) == \/ RefreshSkip(r) \/ RefreshAcquire(r) \/ RefreshFails(r) \/ RefreshOk(r)
              \/ RefreshLink(r) \/ RefreshSend(r)    \/ RefreshRelease(r)
Preempt == PreemptClaim \/ PreemptTeardown \/ PreemptDial \/ PreemptEnd
Callbacks == OnDisconnected \/ OnConnected \/ SendQueued
Network == \E n \in Client : Closed(n) \/ Connect(n)

Next == \/ \E n \in Client : Lose(n)
        \/ Network \/ Callbacks
        \/ \E i \in Restorer : Restore(i)
        \/ \E r \in Refresher : RefreshStart(r) \/ Refresh(r)
        \/ PreemptCheck \/ Preempt \/ HeartbeatAlarm

Spec == Init /\ [][Next]_vars

\* Threads that can run do run, and a service that dials gets its connection: the
\* bounds make the trouble end.
FairSpec == /\ Spec
            /\ WF_vars(Network) /\ WF_vars(Callbacks) /\ WF_vars(Preempt)
            /\ \A i \in Restorer : WF_vars(Restore(i))
            /\ \A r \in Refresher : WF_vars(Refresh(r))

-----------------------------------------------------------------------------
RestorePoints == {"none", "start", "check", "settle", "app", "app_ok", "acct_check",
                  "acct", "acct_ok", "restored", "end", "release"}
RefreshPoints == {"idle", "start", "http", "link", "authed", "release"}

FlagType ==
    /\ connected \in BOOLEAN /\ appAuthed \in BOOLEAN /\ authed \in BOOLEAN
    /\ reauth \in BOOLEAN /\ locked \in BOOLEAN
    /\ circuit \in BOOLEAN /\ inProgress \in BOOLEAN

ChannelType ==
    /\ client \in Client \cup {0}
    /\ chan \in [Client -> {"none", "dialing", "up", "closing", "closed"}]
    /\ srvApp \subseteq Client /\ srvAcct \subseteq Client /\ routed \subseteq Client

ThreadType ==
    /\ state \in States
    /\ reactor \in {"idle", "lost", "up"}
    /\ restore \in [Restorer -> RestorePoints]
    /\ refresh \in [Refresher -> RefreshPoints]
    /\ preempt \in {"idle", "claim", "backoff", "dial", "wait"}

CountType ==
    /\ errors \in 0 .. CircuitAt
    /\ tries \in [Restorer -> {0, 1}]
    /\ queued \in Nat
    /\ count \in {0, 1}
    /\ used \in [Troubles -> Nat]

\* The values of the session's state.
TypeOK == FlagType /\ ChannelType /\ ThreadType /\ CountType

\* The threads between acquiring and releasing _session_reauth_lock.
Inside == {i \in Restorer : restore[i] \notin {"none", "start"}}
          \cup {r \in Refresher : refresh[r] \notin {"idle", "start"}}

\* The session mutex "wraps the entire refresh+re-auth sequence": two re-auth cycles
\* never overlap, and nobody releases the lock for somebody else although the
\* finally of _reconnect_restore releases whatever is locked.
ReauthExclusive == /\ \A x, y \in Inside : x = y
                   /\ locked <=> Inside # {}

\* An operational state (orders may be sent) means that the broker has authorised
\* the account on the current channel, unless the disconnect callback of a replaced
\* client is still to come.
OperationalIsAuthorised ==
    Operational(state) => client \in srvAcct \/ \E n \in Client : chan[n] = "closing"

\* Every way out of a re-auth cycle gives the lock back: the session mutex never
\* stays taken, which would turn off re-authentication for good.
LockFreed == []<>~locked

-----------------------------------------------------------------------------
(* What the documentation promises and the code does not keep.             *)

\* _trigger_preemptive_reconnect: "On success, _on_conn_connected fires and spawns
\* _reconnect_restore to re-authenticate".
PreemptReauthenticates ==
    [][OnConnected /\ inProgress => restore' # restore]_vars

\* _reconnect_restore may skip, because "the holder will complete the auth; if it
\* fails, the connection's own reconnect loop will retry": once the trouble is
\* over the feed is operational for good, or has failed.
SessionRestored == <>[](Operational(state) \/ state = "failed")
=============================================================================
