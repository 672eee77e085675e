---------------------------- MODULE EngineHealth ----------------------------
(***************************************************************************)
(* The forward-test engine's health monitor (forward_test_engine.py): it   *)
(* restarts a feed that is silent, down or stuck in RECONNECTING or        *)
(* FAILED, and stops the engine after too many restarts.  The session      *)
(* inside the feed is module FeedSession; here it only becomes stuck and   *)
(* recovers.                                                               *)
(*                                                                         *)
(* The monitor's thread checks every few seconds and is held up by the     *)
(* feed's stop and start; meanwhile the reactor's thread delivers ticks.   *)
(*                                                                         *)
(* The first tick after a restart is the snapshot that a subscription      *)
(* sends, which a broker that is otherwise silent sends too.  So a restart *)
(* opens a window, and only enough ticks within it clear the counter of    *)
(* attempts.                                                               *)
(*                                                                         *)
(* A duration is kept as an age that stops growing once it can no longer   *)
(* change a decision.  The feed's start does not raise here.               *)
(***************************************************************************)
EXTENDS Integers

CONSTANTS
    MaxAttempts,   \* max_reconnect_attempts
    Required,      \* sustained_ticks_required
    Window,        \* sustained_ticks_window_sec
    Stale,         \* stale_tick_threshold_sec
    Stuck,         \* _stuck_reconnect_threshold_sec
    Base, MaxDelay \* reconnect_delay_sec, max_reconnect_delay_sec

ASSUME HealthAssumption ==
    /\ MaxAttempts \in Nat \ {0} /\ Required \in Nat \ {0}
    /\ Window \in Nat /\ Stale \in Nat \ {0} /\ Stuck \in Nat
    /\ Base \in Nat /\ MaxDelay \in Nat /\ Base <= MaxDelay

VARIABLES
    running,    \* the engine's _running
    feedUp,     \* the feed's is_running
    stuck,      \* its connection state is RECONNECTING or FAILED
    closed,     \* is_forex_market_closed
    at, via,    \* what the monitor does: idle, dial or subscribe, and for whom
    attempts,   \* health.reconnection_attempts
    delay,      \* _reconnect_delay
    since,      \* age of _last_reconnect_attempt_at
    tickAge,    \* age of health.last_tick_at, None before the first tick
    stuckAge,   \* age of _reconnect_stuck_at, None when it is not set
    window,     \* age of _post_reconnect_at, None when it is not set
    got,        \* len(_post_reconnect_ticks), up to Required
    fed         \* history: ticks of the feed since its last start, up to Required

monitorVars == <<at, via, attempts, delay, since, stuckAge>>
gateVars == <<window, got>>
feedVars == <<feedUp, stuck, tickAge, fed>>
vars == <<running, closed, monitorVars, gateVars, feedVars>>

None == -1
UpTo(n, cap) == IF n < cap THEN n ELSE cap
Older(age, cap) == IF age = None THEN None ELSE UpTo(age + 1, cap)

\* The engine has started its feed; the snapshot may have arrived already.
Started ==
    /\ running' = TRUE /\ feedUp' = TRUE /\ stuck' = FALSE
    /\ at' = "idle" /\ via' = "attempt"
    /\ attempts' = 0 /\ delay' = Base /\ since' = MaxDelay
    /\ tickAge' \in {None, 0}
    /\ stuckAge' = None /\ window' = None /\ got' = 0
    /\ fed' = 0

Init ==
    /\ running = TRUE /\ feedUp = TRUE /\ stuck = FALSE
    /\ closed \in BOOLEAN
    /\ at = "idle" /\ via = "attempt"
    /\ attempts = 0 /\ delay = Base /\ since = MaxDelay
    /\ tickAge \in {None, 0}
    /\ stuckAge = None /\ window = None /\ got = 0
    /\ fed = 0

-----------------------------------------------------------------------------
(* The environment.                                                        *)

\* _on_tick.  A tick that comes after the window's end is dropped from an
\* empty list, and kept in another.
OnTick ==
    /\ running /\ (feedUp \/ at = "dial")
    /\ tickAge' = 0
    /\ got' = IF window = None \/ (window > Window /\ got = 0) THEN got
              ELSE UpTo(got + 1, Required)
    /\ fed' = IF feedUp THEN UpTo(fed + 1, Required) ELSE fed
    /\ UNCHANGED <<running, closed, monitorVars, window, feedUp, stuck>>

\* The connection is lost, its heartbeat times out or its authentication
\* fails; and the feed gets over it by itself.
FeedSticks ==
    /\ running /\ ~stuck /\ stuck' = TRUE
    /\ UNCHANGED <<running, closed, monitorVars, gateVars, feedUp, tickAge, fed>>

FeedRecovers ==
    /\ running /\ stuck /\ stuck' = FALSE
    /\ UNCHANGED <<running, closed, monitorVars, gateVars, feedUp, tickAge, fed>>

MarketTurns ==
    /\ closed' = ~closed
    /\ UNCHANGED <<running, monitorVars, gateVars, feedVars>>

TimePasses ==
    /\ running
    /\ since' = UpTo(since + 1, MaxDelay)
    /\ tickAge' = Older(tickAge, Stale)
    /\ stuckAge' = Older(stuckAge, Stuck)
    /\ window' = Older(window, Window + 1)
    /\ UNCHANGED <<running, closed, at, via, attempts, delay, got, feedUp, stuck, fed>>

-----------------------------------------------------------------------------
(* Restarting the feed.                                                    *)

\* feed.stop(), then start(): a new connection, whatever state the old one
\* was in.
Dial(who) ==
    /\ at' = "dial" /\ via' = who
    /\ feedUp' = FALSE /\ stuck' = FALSE /\ fed' = 0

\* Mutant: the breaker trips one attempt too late.
AttemptReconnectOneMore ==
    /\ attempts' = attempts + 1
    /\ window' = None /\ got' = 0
    /\ IF attempts' > MaxAttempts
       THEN running' = FALSE /\ UNCHANGED <<at, via, feedUp, stuck, fed>>
       ELSE Dial("attempt") /\ UNCHANGED running

\* _attempt_reconnect up to the feed's start.
AttemptReconnect ==
    /\ attempts' = attempts + 1
    /\ window' = None /\ got' = 0
    /\ IF attempts' >= MaxAttempts
       THEN running' = FALSE /\ UNCHANGED <<at, via, feedUp, stuck, fed>>
       ELSE Dial("attempt") /\ UNCHANGED running

\* Full jitter: anything up to a bound that doubles with every attempt.
Backoffs == 0..UpTo(Base * 2^UpTo(attempts, 8), MaxDelay)

\* start() returns False: no connection, or it is not authorised.  A failed
\* _resubscribe_market_feed changes no delay; its caller closes the window.
StartFails ==
    /\ at = "dial"
    /\ at' = "idle"
    /\ IF via = "attempt"
       THEN delay' \in Backoffs /\ UNCHANGED gateVars
       ELSE window' = None /\ got' = 0 /\ UNCHANGED delay
    /\ UNCHANGED <<running, closed, via, attempts, since, stuckAge, feedVars>>

\* start() has set _running and subscribes.
FeedComesUp ==
    /\ at = "dial"
    /\ at' = "subscribe"
    /\ feedUp' = TRUE
    /\ stuck' = FALSE
    /\ UNCHANGED <<running, closed, via, attempts, delay, since, stuckAge, gateVars,
                   tickAge, fed>>

\* start() returns True.  _resubscribe_market_feed opens the window too, and
\* its caller closes it at once.
StartReturns ==
    /\ at = "subscribe"
    /\ at' = "idle"
    /\ delay' = Base
    /\ stuckAge' = None
    /\ window' = IF via = "attempt" THEN 0 ELSE None
    /\ got' = 0
    /\ UNCHANGED <<running, closed, via, attempts, since, feedVars>>

-----------------------------------------------------------------------------
(* _check_connection_health.                                               *)

Checking == running /\ at = "idle"
StuckTooLong == stuck /\ stuckAge >= Stuck
Healthy == feedUp /\ tickAge # None /\ tickAge < Stale

\* Mutant: the time of becoming stuck is set anew by every check.
MarkStuckAgain == stuckAge' = IF stuck THEN 0 ELSE None

\* _reconnect_stuck_at: set by the first check that finds the state stuck.
MarkStuck == stuckAge' = IF ~stuck THEN None
                         ELSE IF stuckAge = None THEN 0 ELSE stuckAge

\* Stuck for too long: no backoff.  (With the market closed: nothing.)
CheckForces ==
    /\ Checking /\ StuckTooLong /\ ~closed
    /\ since' = MaxDelay
    /\ AttemptReconnect
    /\ UNCHANGED <<closed, delay, stuckAge, tickAge>>

\* Healthy, and the window is shut, or still waits for ticks.
CheckHealthy ==
    /\ Checking /\ ~StuckTooLong /\ Healthy
    /\ window = None \/ (window <= Window /\ got < Required)
    /\ MarkStuck
    /\ delay' = Base
    /\ UNCHANGED <<running, closed, at, via, attempts, since, gateVars, feedVars>>

\* Healthy, and the window's end has passed with more than the snapshot.
CheckExpires ==
    /\ Checking /\ ~StuckTooLong /\ Healthy
    /\ window > Window /\ got > 1
    /\ MarkStuck
    /\ delay' = Base
    /\ window' = None /\ got' = 0
    /\ UNCHANGED <<running, closed, at, via, attempts, since, feedVars>>

\* The same with the snapshot at most: _resubscribe_market_feed.
CheckResubscribes ==
    /\ Checking /\ ~StuckTooLong /\ Healthy
    /\ window > Window /\ got <= 1
    /\ MarkStuck
    /\ delay' = Base
    /\ Dial("resubscribe")
    /\ UNCHANGED <<running, closed, attempts, since, gateVars, tickAge>>

\* Mutant: a single tick clears the counter.
CheckSustainedByOne ==
    /\ Checking /\ ~StuckTooLong /\ Healthy
    /\ window \in 0..Window /\ got > 0
    /\ MarkStuck
    /\ delay' = Base
    /\ attempts' = 0
    /\ window' = None /\ got' = 0
    /\ UNCHANGED <<running, closed, at, via, since, feedVars>>

CheckSustained ==
    /\ Checking /\ ~StuckTooLong /\ Healthy
    /\ window \in 0..Window /\ got >= Required
    /\ MarkStuck
    /\ delay' = Base
    /\ attempts' = 0
    /\ window' = None /\ got' = 0
    /\ UNCHANGED <<running, closed, at, via, since, feedVars>>

\* No tick yet: the feed is taken to be initialising.
CheckInitialising ==
    /\ Checking /\ ~StuckTooLong
    /\ feedUp /\ tickAge = None
    /\ MarkStuck
    /\ UNCHANGED <<running, closed, at, via, attempts, delay, since, gateVars, feedVars>>

\* A feed that is up and silent while the market is closed.
CheckClosed ==
    /\ Checking /\ ~StuckTooLong
    /\ feedUp /\ tickAge >= Stale /\ closed
    /\ MarkStuck
    /\ delay' = Base
    /\ attempts' = 0
    /\ UNCHANGED <<running, closed, at, via, since, gateVars, feedVars>>

\* Down, or silent while the market is open.
Ill == ~feedUp \/ (tickAge >= Stale /\ ~closed)

CheckBacksOff ==
    /\ Checking /\ ~StuckTooLong /\ Ill
    /\ since < delay
    /\ MarkStuck
    /\ UNCHANGED <<running, closed, at, via, attempts, delay, since, gateVars, feedVars>>

\* Mutant: the attempt is noted before the backoff is tested.
CheckReconnectsNoted ==
    /\ Checking /\ ~StuckTooLong /\ Ill
    /\ MarkStuck
    /\ since' = 0
    /\ IF since >= delay THEN AttemptReconnect
       ELSE UNCHANGED <<running, at, via, attempts, gateVars, feedUp, stuck, fed>>
    /\ UNCHANGED <<closed, delay, tickAge>>

CheckReconnects ==
    /\ Checking /\ ~StuckTooLong /\ Ill
    /\ since >= delay
    /\ MarkStuck
    /\ since' = 0
    /\ AttemptReconnect
    /\ UNCHANGED <<closed, delay, tickAge>>

Check == \/ CheckForces \/ CheckHealthy \/ CheckExpires \/ CheckResubscribes
         \/ CheckSustained \/ CheckInitialising \/ CheckClosed
         \/ CheckBacksOff \/ CheckReconnects

\* _health_monitor_loop: the proactive rotation before the session is 24 h old.
Rotates ==
    /\ Checking
    /\ running' = FALSE
    /\ UNCHANGED <<closed, monitorVars, gateVars, feedVars>>

\* The launcher ends and systemd starts it again.
Restarts ==
    /\ ~running
    /\ Started
    /\ UNCHANGED closed

Next == \/ OnTick \/ FeedSticks \/ FeedRecovers \/ MarketTurns \/ TimePasses
        \/ StartFails \/ FeedComesUp \/ StartReturns
        \/ Check \/ Rotates \/ Restarts

Spec == Init /\ [][Next]_vars

\* Time passes, the monitor's loop goes round, and every wait in the feed's
\* start has a timeout.
FairSpec == /\ Spec
            /\ WF_vars(TimePasses) /\ WF_vars(Check)
            /\ WF_vars(StartFails \/ FeedComesUp) /\ WF_vars(StartReturns)

-----------------------------------------------------------------------------
(* Properties.                                                             *)

\* Every counter and age is in its range; a running engine has made fewer than
\* max_reconnect_attempts attempts since the last reset (_attempt_reconnect).
TypeOK ==
    /\ running \in BOOLEAN /\ feedUp \in BOOLEAN /\ stuck \in BOOLEAN /\ closed \in BOOLEAN
    /\ at \in {"idle", "dial", "subscribe"} /\ via \in {"attempt", "resubscribe"}
    /\ attempts \in 0..MaxAttempts /\ (running => attempts < MaxAttempts)
    /\ delay \in 0..MaxDelay /\ since \in 0..MaxDelay
    /\ tickAge \in None..Stale /\ stuckAge \in None..Stuck
    /\ window \in None..(Window + 1) /\ got \in 0..Required /\ fed \in 0..Required

\* A silent broker cannot farm the snapshots of its subscriptions: while the
\* market is open the counter of attempts falls only when the feed has delivered
\* the required ticks since its last start (the sustained-tick gate of
\* _check_connection_health, _on_tick and _attempt_reconnect).
SnapshotsDoNotCount ==
    [][running /\ ~closed /\ attempts' < attempts => fed >= Required]_vars

\* Silence does not last: an engine whose ticks have stopped while the market is
\* open gets ticks again or stops, whatever the restarts of the feed come to
\* (_check_connection_health; backoff, breaker).
SilenceEnds ==
    (running /\ ~closed /\ tickAge = Stale)
        ~> (~running \/ closed \/ tickAge # Stale)

\* A session that the feed itself leaves in RECONNECTING or FAILED (heartbeat
\* alarm, skipped or failed restore) is torn down by the engine, ticks or not
\* ("Stuck-state detection" in _check_connection_health).
StuckIsRescued ==
    (running /\ ~closed /\ stuck) ~> (~running \/ closed \/ ~stuck)

\* Every restart of the feed opens the window by which its ticks are judged
\* (_resubscribe_market_feed: "Opens a new sustained-tick gate window so we can
\* detect whether the re-subscribe itself delivered ticks").  The code does not
\* keep it: see the README.
RestartOpensWindow == [][at = "subscribe" /\ at' = "idle" => window' # None]_vars
=============================================================================
