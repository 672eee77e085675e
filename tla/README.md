# A TLA+ model of Ayumi's live trading path

Ayumi is a forex trading bot for cTrader. Most of the repository is research
code: backtests, strategies, statistics. The part that can lose money because
two things happen in the wrong order is small: the live forward-test process
under `src/forex_bot/adapters/ctrader/`. This project models that part, checks
it with TLC on small instances and proves its main guarantees with TLAPS.

File names below are short for `src/forex_bot/adapters/ctrader/<file>`;
`spot_feed` is `open_api_spot_feed.py`, `engine` is `forward_test_engine.py`,
`launcher` is `scripts/launch_blend_forward_test.py`, `blend_runner` is
`src/forex_bot/forward_test/blend_runner.py`, `sizer` is
`src/forex_bot/risk/sl_position_sizer.py`.

## The system

### Components

| component | state it keeps | operations | hard behaviour |
|---|---|---|---|
| PID guard (`pid_guard.py`) | lock file, `flock`, pid in the file | acquire, clear a stale file, release | system calls of several processes interleave; crash with the file left behind; unlock and unlink are two calls |
| Spot feed, orders (`spot_feed`) | `_pending_orders`, `_pending_client_msg_ids`, `_late_fill_registry`, `_disconnected_pending_orders`, each `Order` | `new_order`, execution and error events, deferred errors, disconnect, reconcile, `stop` | four kinds of threads share the maps without a lock; events repeated, late or lost; timeout races the answer |
| Spot feed, session (`spot_feed`, `connection.py`) | `_authed`, `_app_authed`, `_reauth_in_progress`, `_session_reauth_lock`, auth-error counter, client object | connected / disconnected callbacks, `_reconnect_restore`, token refresh, pre-emptive reconnect, heartbeat check | five kinds of threads; skipped and failed re-authentications; callbacks of replaced clients |
| Connection state machine (`connection_state.py`) | `_state` | `transition_to` | a rejected transition is only logged |
| Kill switch (`kill_switch.py`, `execution_permission.py`, `scripts/kill_switch.py`) | `_state`, two cached flags, `global.state` | activate, freeze, deactivate, record closed positions, load, save | lock-free readers; crash between steps; failing save; several processes on one file |
| Signal routing and live orders (`launcher`, `engine`) | correlation gate slots and index, signal counters, late-fill closures | gate check, blend verdict, execute a signal, classify the outcome, late callbacks, daily reset | strategies run on the reactor thread that must also send their order; verdicts late, repeated or lost |
| Risk ledger (`sizer`, `blend_runner`, `risk/state_persistence.py`) | reservations, day's risk, four identity maps, state file | reserve, fill, cancel, close, rebuild from the broker, daily resets, restore | a signal has two identities; four threads; rebuild from a stale answer; restart |
| Engine health (`engine`) | reconnect attempts, backoff, stuck-state mark, sustained-tick window | health check, restart of the feed, resubscription, rotation stop | runs beside the feed's own restore; must neither give up nor be fooled by snapshots |
| Risk guard (`risk_guard.py`, `paper_trader.py`, `engine`) | balances, day, halt until, breaker, state file | check a signal, record a trade, sync the balance, reset, save, restore | two threads, partly without the lock; two different day boundaries; restart |
| Token lifecycle, credential store (`token_lifecycle.py`, `credential_store.py`) | tokens and expiry in `.env`, cache, file lock | `ensure_valid`, `force_refresh`, timer | three threads per process, several processes; rotation kills the old token; lost answers |
| Account state, position monitor | cached balance; watched positions | | the launcher does not start the monitor; the cache decides nothing |
| Connection manager, order manager, execution event handler | an older stack | | not wired to the live feed |
| Strategies, backtest, factory, quant, ML, tournament, data, reporting, portfolio intelligence | | offline computation and I/O | sequential, floating point |

### How they interact

The launcher takes the PID guard and builds the engine, the feed and the kill
switch. Strategies are evaluated inside the tick callback, on the Twisted
reactor's thread: the router asks the correlation gate, the blend runner
reserves risk, and the engine calls `new_order` and blocks there. The same
reactor thread delivers broker messages and connection callbacks to the
feed; the feed submits `on_order_filled` and `on_order_rejected` to an executor
that runs the engine's callbacks. A connected callback spawns a restore thread
that re-authenticates, re-subscribes and reconciles the orders that were in
flight. Timers run the token refresher, the pre-emptive reconnect and the
heartbeat check. `new_order` asks the execution permission policy, which reads
the kill switch; a successful authentication deactivates the kill switch
(`_auto_clear_kill_switch`); the command line and the watchdog reach it through
its file only. The launcher's loop rebuilds the risk ledger from the broker
every five minutes, syncs the guard's balance and resets the daily counters; the
engine's monitor thread checks the feed's health, restarts it, and resets the
ledger's day. The feed's refresher and the lifecycle's timer go to the token
endpoint through `TokenLifecycle`, which other processes share by `.env`.

### What makes each part correct

- PID guard: one live forward test at a time; a crashed one never blocks the next.
- Orders: each order's outcome is reported to the engine once, a confirmed fill
  is never overwritten, and no order whose fate is open drops out of every map.
- Session: re-authentications do not overlap, the feed says it is operational
  only when the broker has authorised the account, and it gets back there after
  any loss.
- Kill switch: a kill that was saved is in force until somebody ends it,
  through crashes, and a reader without the lock never sees it lapse.
- Routing: the gate never exceeds its limit, its index never dangles, every
  order handed over is sent, and the counters tell the truth through late and
  repeated verdicts.
- Ledger: a reservation is made once and ended once, can always be ended, a
  recorded loss is not forgotten, and what drifts from the broker is repaired.
- Health: silence and stuck sessions end; only real ticks clear the counter.
- Risk guard: a declared halt is in the file, holds through restarts until its
  end, and a daily one does end.
- Tokens: `.env` holds the token the server honours, every process works with
  it, and every refresh ends.

## Modules

| module | models | extended by |
|---|---|---|
| `PidGuard` | the PID guard | `MCPidGuard`, `SupervisionProofs` |
| `OrderLife` | what the engine may rely on about an order (abstract) | instantiated by `OrderFeed` |
| `OrderFeed` | the life of an order in the feed | `MCOrderFeed`, `OrderFeedProofs` |
| `SwitchRegister` | what the kill switch's file is for (abstract) | instantiated by `KillSwitch` |
| `KillSwitch` | managers on one state directory | `MCKillSwitch`, `KillSwitchProofs` |
| `ConnectionState` | the transition table, as operators | `FeedSession` |
| `RiskBudget` | what the risk ledger promises (abstract) | instantiated by `RiskLedger` |
| `RiskLedger` | sizer, identity maps, state file | `MCRiskLedger`, `RiskLedgerProofs` |
| `SignalRouting` | gate, router, live and paper execution, late callbacks | `MCSignalRouting`, `SignalRoutingProofs` |
| `TradingHalt` | the two halts (abstract) | instantiated by `RiskGuard` |
| `RiskGuard` | guard, paper trader, balance syncs, state file | `MCRiskGuard`, `RiskGuardProofs` |
| `TokenLifecycle` | tokens of several processes on one `.env` | `MCTokenLifecycle`, `TokenLifecycleProofs` |
| `EngineHealth` | the engine's monitor of its feed | `MCEngineHealth`, `SupervisionProofs` |
| `FeedSession` | the broker session of a running feed; composes the connection, the state machine and the feed's authentication | `MCFeedSession`, `FeedSessionProofs` |

An operator with a comment that begins "Mutant:" is a plausible wrong version
of the definition that follows it. No specification uses it; it documents what
the properties are able to detect.

### PidGuard

One action is one system call. `flock` belongs to the inode, and the path names
at most one inode at a time; `Open`, `FlockOk`, `FlockBusy`, `ReadPid`,
`Refuse`, `JudgeStale` are the loop of `_acquire`, `Clear*` is
`_force_clear_stale`, `TruncatePid` and `WritePid` are `write_pid`, `Unlock` and
`Unlink` are `_release`. `Crash` is SIGKILL: the kernel drops the lock and the
file stays. PIDs are not reused. Its names (`GuardInit`, `GuardSpec`, `Nil`, ...)
differ from the other modules', since `SupervisionProofs` extends it together
with `EngineHealth`.

### OrderFeed and OrderLife

`pc[o]` is the caller of `new_order`, statement by statement. `Exec*` is
`_handle_execution_event`, `Error*` is `_handle_pending_order_error`,
`DeferredFails` and `DeferredRejects` are `on_error` of the send,
`DisconnectMove` and `DisconnectClear` the two halves of
`_on_conn_disconnected`, `Restore*` is `reconcile` and
`_resolve_disconnected_orders`, `Preempt*` the check and the tear-down of the
pre-emptive reconnect. The reactor is one thread: `ReactorFree` keeps its
callbacks apart, and nothing else is atomic beyond a single statement group.
The broker decides each order once and may send its decision any number of
times, or never; a message names the order by `clientOrderId`, by `clientMsgId`
or by both. `told[o]` is the sequence of callbacks submitted for the order, with
the handler that submitted each. All orders have one symbol, side and volume,
the case in which reconcile cannot tell positions apart; `Foreign` is the number
of positions of that shape that belong to nobody here. The kill switch is the
nondeterministic `NewOrderBlocked`; the session is the variable `link`.
`new_order` may be called from any thread, so the caller's steps interleave with
the reactor's; `SignalRouting` has the caller of the launched process, which is
the reactor's thread itself.

`OrderLife` knows neither maps nor identifiers nor threads: an order is entered,
sent, decided once by the broker, and its verdict is heard, fails, is given up
on, or is lost with the connection and guessed by reconcile. What it promises is
that a heard verdict is final but for that guess: no timeout rejects it, no
disconnect or stop makes it `PENDING`. `Stages` and `Awaited` are the mapping: the
request of an order is where its caller and its deferred are, and an order that
the disconnect callback has copied is no longer waited for although `clear()` is
still to come, so that the abstract loss of the connection is the first of the
two steps.

### KillSwitch and SwitchRegister

The RLock serialises a manager's operations, so a manager has one program
point; readers take no lock, so the two flags and the file are written in
separate steps. `Load*` is the constructor's `_load_state` for a missing, a
good, a garbled and an unreadable file. `WriteTemp`, `Rename` and `SaveFails`
are `_save_state`. `Disabled` is the set of managers with `_disabled = True`, the
class default, under which every activation is a no-op; the harness
(`scripts/backtest_blend_harness.py`) turns it off, the production launcher leaves
it. The paper trader (`paper_trader.py:75`) and the risk guard's fallback
(`risk_guard.py:591`) build managers of their own. `synced` and `standing` are
history variables: they only serve the properties.

`SwitchRegister` is a register that outlives its managers: a manager adopts what
is kept, decides, and keeps the decision whole or fails to before it decides
again; what cannot be parsed is served as the fail-safe decision. `Phases` maps
every program point to off, on, or decided and not yet kept. `synced` is part of
the mapping, so that only damage from outside, which leaves no manager current,
may spoil the file.

### FeedSession

The broker authorises a channel, which is one TCP connection of one client
object; `srvApp` and `srvAcct` hold what the broker thinks and the flags what
the feed thinks. Each connection callback is two steps, the one of
`connection.py` (`Lose`, `Closed`, `Connect`) and the one of the feed
(`OnDisconnected`, `OnConnected`), because other threads run in between.
`Restore*` follows `_reconnect_restore` in up to two threads, `Refresh*`
follows `_do_refresh_offthread`, `Preempt*` the monitor, the reconnect thread and
`attempt_reconnect`, `HeartbeatAlarm` is `_check_heartbeat`. A request may fail
although the broker granted it (the answer is lost). `queued` counts
account-auth requests handed to `callFromThread`; the reactor sends them in
order, so a later request waits for them (`queued = 0`). The model starts when
`start()` has returned True. The token endpoint is one step that succeeds or
fails; the orders of a lost connection are in `OrderFeed`.

### RiskLedger and RiskBudget

A signal is accepted under a canonical identity; those who later cancel it or
report its fill know an alias, whose timestamp is up to `MaxSkew` away.
`ResolveAlias` is `_resolve_registered_signal_id` (closeness in time, unique or
nothing) and `OldestBacker` is `_resolve_unmapped_signal_id`. `OnSignal` is
`on_signal` with `calculate`, `OrderFilled` is `register_position_mapping`,
`OrderFailed` is `cancel_risk`, `PaperClose` is `_on_position_closed` with
`close_position` and `on_fill`, `AskBroker` and `RebuildFromBroker` are the two
halves of the launcher's reconcile (the answer is applied later than it was
given, and is empty when the request failed), `EngineDailyReset` and the reset
inside `on_signal` are the two daily resets, `Restart` is `restore` with seeding.
Each sizer method runs under the sizer's lock and is one step. `VerdictLost` and
`OrphanFilled` are verdicts no callback hears. Amounts are small integers; lots
and pips are left out. `RiskBudget` is the promise: each signal is reserved at
most once and ended at most once, a loss enters the day's figure only with the
end of a reservation, only a rebuild or a restart replaces what is held.

### SignalRouting

`GateAllows`, `Reserve`, `AttachPosition`, `ReleasePending` and `Release` are
`CorrelationGate`; `at` is how far `_route_signal` is with the signal `cur`, on
the reactor's thread; `QueueOrder`, `WaitExpires` and `CountSent` are
`_execute_signal_live`, the wait of `new_order` and the bookkeeping of the
outcome. `Transmit` is `do_send`, which needs the reactor's thread and therefore
a router that is idle. `LateFilled` and `LateFailed` are `_release_late`, on the
executor's thread; `heard` is its `fired` flag. The gate releases a real slot
when a paper position closes; no callback does so for a live one. Counters other
than pending and fills are left out.

### RiskGuard and TradingHalt

`SignalHalts`, `SignalStops`, `SignalRefused` and `SignalOpens` are
`process_signal` with `check_signal`, one step under the trader's lock;
`TickCloses` and `TickEnds` are `update_market_prices`; `Sync*` is the
statements of `_sync_live_balance`, which runs on the launcher's thread and
takes the guard's lock for some of them; `SyncLive` is `sync_live_balance`.
`Crash`, `Boot` and `BootAndReset` go through the state file. Time is relative:
a block's midnight is ahead or past, the trading day is today's or an old one;
the trading day rolls at 17:00 in Toronto (`DayRolls`), a block ends at UTC
midnight (`UtcMidnight`). Saves are taken to succeed.

`TradingHalt` has two halts, one clock and a number of positions, and no memory
beside the file: it maps a halt to what the file says, so a restart is a step that
only closes the paper positions. A position is opened only while neither halt is
in force; a daily halt ends at UTC midnight, a total one by a reset, which a
daily one forbids.

### TokenLifecycle

A process has at most one refresh under way (`TokenLifecycle._lock`) and a set
of threads that wait for it. `Decides` is the three callers' test, `Enters` the
acquisition of the lock, `Locks` the file lock and the re-check under it,
`Post*` the request with every kind of answer, `Saves` and `SaveFails` the
store's write, `Raises` the exceptional exit with its `finally`. The server
grants a new access token each time and may rotate the refresh token, which
kills the replaced one; an answer may be lost after the grant. `OperatorRotates`
is a new token written into `.env` by hand. `lost` and `foreign` are history.

### EngineHealth

`Check*` are the branches of `_check_connection_health` in the code's order;
`AttemptReconnect`, `Dial`, `StartFails`, `FeedComesUp` and `StartReturns` are
`_attempt_reconnect` and `_resubscribe_market_feed`, split where ticks may arrive
in between. A duration is an age that stops growing once it cannot change a
decision. The session inside the feed is `FeedSession`'s subject; here it becomes
stuck and recovers at any time. `fed` is history.

## Runs

| run | shows | bounds |
|---|---|---|
| `pid_guard` | `RunnerPidIntact`, `SoleHolderPerFile`, `StartersSettle` | 3 processes, 4 inodes, 3 attempts |
| `order_feed` | `ExecFillOnce`, `ErrorRejectOnce`, `OutcomeKept`, `PendingIsTracked`, `LifeSpec` (refinement) | 1 order, 1 foreign position, 3 messages, 2 disconnects |
| `kill_switch` | `FlagsAgree`, `FileHoldsState`, `KillOutlivesCrash`, `NeverTorn`, `RegisterSpec` (refinement), `EscalationHasNoGap` | an enabled and a disabled manager; no other bound |
| `feed_session` | `ReauthExclusive`, `OperationalIsAuthorised` | 2 client objects, 2 restore threads, 1 refresher, thresholds 2 and 3, 2 drops, 2 failed requests, 1 refresh, 1 pre-emptive reconnect, 1 alarm |
| `feed_session_live` | `LockFreed` | 1 of each trouble, no alarm |
| `risk_ledger` | `TypeOK`, `HeldIsReachable`, `RecordedLossesKept`, `BudgetSpec` (refinement), `DriftRepaired` | 2 signals of 2 instruments, skew 2, 1 midnight, 1 restart |
| `signal_routing` | `TypeOK`, `GateCap`, `IndexNamesSlots`, `FillsExact`, `PendingBounded`, `EveryOrderSent` | 3 signals of 4 kinds on 2 symbols, limit 2 (3 in the code), 1 daily reset |
| `order_wait` (violation) | `SentWhileWaiting` fails | same |
| `risk_guard` | `HaltPersisted`, `HaltHolds`, `StopHolds`, `HaltSpec` (refinement), `HaltRecovers` | balances 1 to 3, daily limit 1, total limit 2, 2 trades a day, 2 open positions; days and crashes without bound |
| `token_lifecycle` | `EnvCurrent`, `CacheFollowsEnv`, `RefreshEnds` | 2 processes, 2 grants, threshold 2; crashes and failures without bound |
| `token_dead` (violation) | `DeadTokenNeverSent` fails | same |
| `engine_health` | `TypeOK`, `SnapshotsDoNotCount`, `SilenceEnds`, `StuckIsRescued` | 4 attempts, 3 ticks in a window of 3, thresholds of 3, delays 1 to 4; troubles without bound |

Why the bounds are enough. Two processes give the unlock-unlink race, the third
gives a starter that judges while two others change places; each process
unlinks the path once, so four inodes are all that a behaviour can create. Three
messages and two disconnects let an order be filled, filled again and met in
every map, before, between and after the disconnects. The kill switch is finite
as it stands. For the session, one drop makes a restore thread and the second
one a rival; two client objects are one pre-emptive replacement; the thresholds
3 and 5 of the code are 2 and 3 so that both are crossed. In the ledger two
signals are enough for an alias that fits both, for a fill that takes the other
signal's place and for a close that meets a rebuilt entry; a skew of 2 puts an
alias inside and outside the one-second window. In the router three signals
exceed the limit of two, and share a symbol with and without sharing a strategy.
In the guard one loss halts the day and a second one stops for good. Two grants
let each of two processes have the other's token replaced. In the monitor four
attempts are one more than the ticks required, so that snapshots alone could
clear the counter if each counted. The safety properties do not rest on
these numbers: they are proved for all of them.

`risk_guard`, `token_lifecycle` and `engine_health` check deadlock as well; in
the other runs processes exit, feeds stop, and bounds run out.

### Fairness

`PidGuard!FairGuardSpec` has weak fairness of each process's own steps: the operating
system runs live processes and grants a blocked `flock` that stays free. The work
between acquiring and releasing is excluded, since a forward test may run for
ever. `FeedSession!FairSpec` has weak fairness of the network, of the reactor's
callbacks, of the pre-emptive thread and of every restore and refresh thread:
threads run, every wait in them has a timeout, and Twisted's `ClientService`
dials until it gets through. The bounds on troubles make them end, so the
liveness properties say what happens after the last one. No trouble is fair.

`RiskLedger!FairSpec` has weak fairness of asking the broker and of applying the
answer: the launcher's loop does both every five minutes while it runs.
`SignalRouting!FairSpec` has it of the router's own steps, of the expiry of
`event.wait`, which has a timeout, and of the sending of queued requests by an
idle reactor; the broker and late callbacks are not fair. `RiskGuard!FairSpec` has
it of the two clocks only. `TokenLifecycle!FairSpec` has weak fairness of a
refresh's steps (the request has a timeout) and strong fairness of the file
lock: the kernel queues the processes blocked in `flock`. `EngineHealth!FairSpec`
has weak fairness of time, of the monitor's loop and of the end of the feed's
start, in which every wait has a timeout; ticks, recoveries and successful starts
are not fair.

### What the violations show

- `order_wait`: `new_order` hands its request to the reactor with
  `callFromThread` (`spot_feed:1539`) and waits on the same thread (`:1547`),
  because the strategies run in the tick callback. The wait always expires
  first, so a live order is reported as sent without a verdict and everything
  that happens to it is a late event; ticks stand still meanwhile. The comment at
  `:1541` says "Use timeout + 5 to give the deferred's
  responseTimeoutInSeconds callback (on_error) a chance to fire before we fall
  through to the local timeout path". `EveryOrderSent` shows that the timeout is
  what keeps this from being a deadlock.
- `token_dead`: the re-check under the file lock reads the process's own cache
  (`token_lifecycle.py:353`, `credential_store.py:73`), and `force_refresh` skips
  it; a process that waited while another one refreshed posts the replaced
  refresh token. `token_lifecycle.py:6` says "Process-safe: uses a file lock to
  prevent concurrent refreshes across processes".

### Statements the code does not keep

These definitions state what a comment or docstring says and are false in the
model as in the code. They have no run of their own; each is refuted within
seconds when it is added to the cfg of its component's run.

- `PidGuard!OnlyOneProcess` (`pid_guard.py:12` "only one process can be here"):
  `_release` unlocks (`:111`) before it unlinks (`:123`). A starter that opened
  the old file locks it in between, the path is unlinked under it, and the next
  starter creates and locks a new file.
- `OrderFeed!FilledOnce` (`spot_feed:395` "Prevents duplicate on_order_filled"):
  `_resolve_disconnected_orders` (`:2856`) announces a fill without looking at
  `_fill_cb_fired`, after a late execution event announced it.
- `OrderFeed!NotRejectedAndFilled` (`spot_feed:1572` "We do NOT fire
  on_order_rejected here"): the deferred's error handler (`:1514`) reports a
  rejection for a timeout, and the execution event then a fill.
- `OrderFeed!NothingForgotten` (`spot_feed:783` "so that execution events arriving
  after the disconnect can still be matched"): `_on_conn_disconnected` copies the
  pending orders in a loop and then clears the map (`:801`); an order registered
  in between is in no map afterwards.
- `KillSwitch!SingleSourceOfTruth` (`kill_switch.py:217` "Single source of truth
  for all kill switch state."; with `Manager <- EngineAndPaper`, `Disabled <-
  None`): a manager reads its file once (`:303`), so a kill by one manager is not
  seen by another that is up.
- `FeedSession!PreemptReauthenticates` (`spot_feed:725` "On success,
  _on_conn_connected fires and spawns _reconnect_restore to re-authenticate"):
  the pre-emptive reconnect sets `_reauth_in_progress` (`:735`), and the connected
  callback (`:772`) then starts no restore.
- `FeedSession!SessionRestored` (`spot_feed:2735` "the holder will complete the
  auth; if it fails, the connection's own reconnect loop will retry"; with
  `FairSpec`): a restore that finds the lock taken returns (`:2738`); when the
  holder is a refresher that saw no connection nobody authenticates. What ends
  this is the engine: `SilenceEnds` and `StuckIsRescued`.
- `RiskLedger!RealisedLossesConsumed` (`sizer:249` "Realized losses stay
  consumed."): a loss at the broker is never recorded in live mode, nor on paper
  when a rebuild has replaced the reservation.
- `RiskLedger!OnePositionPerSymbol` (`sizer:736`, the limit of one position per
  symbol; with `Symbol` the same for both signals): `on_signal` registers the
  reservation without its symbol, so `_count_positions_for_symbol` sees only what
  a rebuild seeded.
- `SignalRouting!AtRiskCap` (`launcher:210` "max 3 at-risk per symbol"): a late
  fill attaches no slot and a release drops every pending slot of its key, so
  orders and positions exceed the slots.
- `RiskGuard!BreachHalts` (`risk_guard.py:621` "This immediate check ensures the
  circuit breaker fires right after any trade that breaches the daily loss
  limit"): the check uses the balance of before the trade, which is updated
  afterwards.
- `RiskGuard!LiveBalanceKept` (`risk_guard.py:678` "The balance will only change
  when this method is called again"): the check of a signal sets it to the paper
  balance (`:310`).
- `EngineHealth!RestartOpensWindow` (`engine:3595` "Opens a new sustained-tick gate
  window"): the caller of `_resubscribe_market_feed` closes the window again
  (`:3424`).

## Proofs

The `*Proofs` modules prove every invariant, every action property and every
refinement of the passing runs, and the type invariant of every component, for
every value of the constants; TLC checked each inductive invariant first. Where a
run does not check the type invariant of its module, it is among the theorems
only.

- `SupervisionProofs`, PID guard. `GuardInv` adds to the properties that a lock is recorded
  for the process that owns it (`LockOwned`), that a file is open where one is
  used and that an opener has an attempt left. Two holders of one file are then
  the owner of one lock, and only an owner truncates or writes, which is why a
  runner's pid stays. `OneFileOneProcess` says what is left of the promise that
  the code does not keep (see above): no two processes are in the guarded section
  until a second lock file has been created, whatever crashes and clearings
  happened before. Assumes: `Nil` is no process and no inode, at least one attempt.
- `SupervisionProofs`, engine health. `SnapshotsDoNotCount` is not inductive: the
  monitor clears the counter on the ticks of a window, and the property is about
  the real ticks behind them. `HealthInv` adds that, while the monitor is idle, an
  open window has counted no more ticks than came since the feed's last start
  (`WindowCountsFed`); during a resubscription that is false, as the old window goes
  on counting, so it also needs that an attempt shuts the window before it dials
  (`AttemptShutsWindow`). That the
  backoff stays within its bound is a case split on the exponent, which the code
  caps. Assumes: the attempts and the ticks required are positive, the base delay
  is at most the greatest.
- `OrderFeedProofs`. `FeedInv` adds where an order is before it is sent
  (`NotSent`) and after a disconnect (`Departed`), and where a callback leaves its
  order (`FilledByEvent`, `RejectedByError`). The point is that a timed-out
  caller may put a filled order back into the registry: `fired` then still
  stops the second callback, and an order an error handler settled has no armed
  deferred that could see it `PENDING` again. `LifeInv` adds that a request that
  was not handed over has left no trace (`Unentered`), that a heard order has its
  verdict, or FILLED by reconcile, and is neither pending nor open to a timeout
  (`HeardKept`), and that reconcile works on disconnected orders only.
  `OutcomesStand` follows, and `FeedImplementsLife` maps each action
  to a step of `OrderLife` or a stutter: bookkeeping of the registry and of the
  reverse map is invisible, and a message is a step of the order it names
  whichever identifier it carries. Both assume that the broker does not send an
  ORDER_ERROR for an order it filled or refused (`~Contradictory`); without it they
  are false, see below. `PromisesUntilDisconnect` is what remains of the two
  promises `FilledOnce` and `NothingForgotten`, which do not hold in general: both
  hold as long as no connection has been lost, because only a disconnect starts the
  clearing of pending orders and only the reconcile after it fills an order without
  an event (`Undisturbed`). Assumes: the set of orders is finite, the bounds are
  natural numbers.
- `KillSwitchProofs`. `KillInv` follows an operation: the flags follow the state
  one after the other (`FlagsFollow`), a manager in step with the file still is
  when it returns (`InStep`), a standing kill is both in the file and in memory
  (`KillStands`). `NeverTorn` and `EscalationHasNoGap` are step properties; the
  latter uses that the killed flag is written first.
  `SwitchImplementsRegister` needs from `KillInv` that a manager that is not up has
  nothing in memory (`NotUp`), so that a start without a file serves the blank
  state and a crash during the load changes nothing, and `InStep`. Assumes: the disabled
  managers are managers.
- `FeedSessionProofs`. `SessionInv`: an operational state is created only by a
  restore whose account authorisation is still in place (`Awaiting`), and every
  way to lose the authorisation either moves the state to RECONNECTING in the
  same step or leaves a channel that is closing. `AuthFailure` can move to
  DEGRADED, which is operational, but only from AUTHENTICATED: the table has no
  other way in (`MovedQuiet`). Assumes: client objects are numbered from 1, the
  thresholds are ordered, restore threads and refreshers are different threads.

- `RiskLedgerProofs`. `LedgerInv` adds to `HeldIsReachable` that the maps know only
  accepted signals, that a position is not mapped before its order is filled and
  that no signal both has and lacks a position (`OnlyAccepted`), and that the file
  holds what was recorded as well as memory (`LossesKept`). An alias then resolves
  to a reserved signal without a position or to nothing, and a close arrives at a
  signal that is mapped or waits. `LedgerImplementsBudget` maps each action to a
  step of `RiskBudget` or a stutter; the hard ones are a cancel and a close, where
  the alias may resolve to another signal, which is then the one that ends.
  Assumes: sizes are positive, limits and losses natural numbers.
- `SignalRoutingProofs`. `RouterOK` ties the router's place to its order and says
  that signals not yet routed have left no trace. `GateCap` needs `RoomForCur`:
  while a signal is routed there is room for it besides its own pending slots,
  since the router is one thread; without it a late failure that frees the slot
  of the routed signal would break the cap at the attachment. The cardinality
  steps cite `FiniteSetTheorems`. Assumes: symbols and strategies are finite
  sets, the limit is positive.
- `RiskGuardProofs`. `Declared` ties the history to the file: a declared halt has
  its block ahead, a declared stop its breaker set; `HaltPersisted` carries both
  to memory, also while the unlocked sync is between two of its steps, and only a
  guard without either admits a signal. `GuardImplementsHalts` uses the same chain:
  every save of either thread writes the halts that the file already has, except
  where one is declared or reset. `SyncHasBalance` is what keeps the
  guard's balance one that an account had. Assumes: balances, limits and trade
  counts are positive.
- `TokenLifecycleProofs`. The invariant says who may hold an answer (`LockHeld`,
  `AnswerCurrent`), that `.env` is behind the server only while the holder of the
  file lock is about to save (`EnvBehind`), and `CacheFollowsEnv`. What remains of
  `DeadTokenNeverSent`, which two processes violate, follows from it: a process
  posts a live refresh token unless another one wrote `.env` after it read it
  (`DeadTokenIsForeign`), so a process that is alone always does
  (`SoleProcessSendsLiveTokens`). Assumes: the mark of a free lock is no process.

Only model-checked: `StartersSettle`, `LockFreed`, `DriftRepaired`,
`EveryOrderSent`, `HaltRecovers`, `RefreshEnds`, `SilenceEnds` and
`StuckIsRescued`, since liveness under fairness is out of the prover's reach;
and the two violations, which are single behaviours. The refinements are of the
safety part: the abstract specifications state no fairness.

## Observations

Seen while modelling, without a run of their own.

- A starter that judges a live holder stale (empty file, holder between
  `ftruncate` and `write`) waits in `flock` (`pid_guard.py:174`) for as long as the
  holder runs, while `:147` documents an exit. `StartersSettle` names this wait.
- `new_order` tests the status and then assigns the reason
  (`spot_feed:1578-1579`); an event in between leaves a settled order with the
  reason "indeterminate".
- `_consume_order_state_across_all_maps` pops the reverse map by the order id
  (`spot_feed:1132`), which is not its key, so the entry stays when the message
  carries no `clientMsgId` (`:1161-1162`); `:1123` says "Both orderings leave ALL
  THREE structures empty".
- The pre-emptive check for pending orders (`spot_feed:699`) is made before the
  backoff sleep, so the tear-down may meet an order in flight; `:693` says
  "Never trigger a reconnect while orders are in-flight".
- An ORDER_ERROR that matches the late registry sets REJECTED whatever the
  status was (`spot_feed:2230`); a broker that sends one for a filled order would
  overwrite a confirmed fill, which `:1116` rules out.
- A missing kill-switch file starts INACTIVE (`kill_switch.py:913`) although
  `:8` says "corrupt/missing state → KILL". JSON that is not an object, or bytes that
  are not UTF-8, raise out of the constructor (`:944`).
- `_auto_clear_kill_switch` (`spot_feed:898-905`) tests a bound method, which is
  always true, and so ends any kill, not only one that authentication failures
  caused.
- An activation on a disabled manager returns silently (`kill_switch.py:388`); the
  command line still prints that the kill is active (`scripts/kill_switch.py:66`).
- A downgrade from kill to freeze clears the killed flag before it sets the
  frozen one, so a lock-free reader may see neither.
- While a pre-emptive reconnect is dialling the state stays AUTHENTICATED,
  because the table has no transition from there to CONNECTING
  (`connection.py:154`). `OperationalIsAuthorised` holds as the old channel is
  still to be closed.
- The heartbeat alarm moves the state and nothing else (`connection.py:431`);
  the engine's stuck-state check is what reconnects (`StuckIsRescued`).
- The account-auth request of a refresh is sent after the session lock was
  released (`spot_feed:2620-2628`), although `:325` says the lock prevents
  "concurrent re-auth sends on the same cTrader channel"; on a channel without
  application auth it cannot succeed.
- The disconnect callback of a replaced client clears the flags of its
  successor (`connection.py:290`).
- Ledger: a `daily_risk_used` of an earlier day is restored on a later one until
  the first reset; the day is reset by two parties (`engine:3162`,
  `blend_runner:279`), and a loss recorded between the two is erased. The edge
  multiplier is applied after the cap was tested (`blend_runner:534-566`). After
  a restart the restored open risk and the seeded positions are both counted
  until the first rebuild. A failed `reconcile()` answers `[]` (`spot_feed:1818`),
  which empties the ledger. A fill that comes out of order takes the oldest
  signal's place.
- Routing: in live mode no callback releases a slot when its position closes
  (`launcher:2680`); a late fill never calls `attach_position`; slot numbers may
  repeat over time; a late fill may take back a genuine failure from
  `signals_failed_live`; `signals_pending` is too low after a daily reset;
  `_release_late` holds the engine's lock over the retries of `amend_sl_tp`.
- Guard: `reset_circuit_breaker` refuses for ever once the breaker is set and an
  expired block is left (`risk_guard.py:704-716`); the best-day rule never runs
  (`:512`); the trade count counts closes; live mode never asks the guard; the
  sync may set the baseline twice a day; a baseline from the broker is compared
  with a paper balance; the paper balance starts anew at each restart;
  `scripts/run_ttc_xauusd_forward.py:93` resets the permanent breaker at each start.
- Tokens: the lifecycle's timer is started without a callback
  (`spot_feed:441`), so the feed keeps its old access token after a timer
  refresh; `token_lifecycle.py:307` says the timer is not used in production. The
  freeze after repeated failures does not stop the retries.
- Health: after a resubscription the counter of attempts is not cleared until the
  market closes; a feed that never ticked is never restarted (`engine:3445`); a
  feed that is down when the market closes goes on being restarted and may trip
  the breaker; `feed.stop()` returns early when it is not running
  (`spot_feed:613`), so a half-started connection is not closed before the next
  start. `_on_tick` tests `_post_reconnect_at` and then adds to it (`engine:1343`)
  while the monitor may clear it, which raises and loses the tick.
- `connection_state.py:11` lists "Any → RECONNECTING"; the table does not.

## Not modelled

Strategies, signals, backtesting, ML, quantitative research, reporting and the
portfolio code are sequential computations over price series in floating point,
or I/O; neither TLC nor the prover has anything to say about them. The
connection manager, the order manager and the execution event handler are not
wired to the live feed. Of the modelled components: closing and amending
positions and the query calls of the feed, the first `start()`, `stop()` of the
session, the wording and classification of broker errors, per-strategy
freezes, trailing stops, and the numeric sizing of a position. Of the risk
guards, `portfolio_risk_guard.py`, `ftmo_guard.py` and `risk/engine.py` are
stateless checks or not wired to the launcher. Message contents, prices, volumes, reasons and logs are left out where
no property depends on them.

## Plan

Done: the PID guard, orders and session of the feed, the kill switch, the risk
ledger with its abstract specification, routing and live orders, the risk guard,
the token lifecycle and the engine's health monitor; abstract specifications of
the ledger, of an order's life, of the kill switch's file and of the halts, each
refined by its component and proved. Left, in this order:

1. `StrategyFreeze` (`kill_switch.py` 563-790, 996-1067): per-strategy freezes of
   several managers in one directory.
2. `_resolve_disconnected_orders` on several orders that look alike
   (`spot_feed:2843`).
3. Closing and amending positions in the feed, and `_release_late`'s amendment.
