----------------------------- MODULE RiskGuard -----------------------------
(***************************************************************************)
(* The drawdown limits of paper trading: RiskGuard (risk_guard.py), the    *)
(* PaperTrader that consults it and reports to it (paper_trader.py), the   *)
(* engine's and the launcher's balance syncs (forward_test_engine.py,      *)
(* launch_blend_forward_test.py) and the guard's state file.               *)
(*                                                                         *)
(* A daily loss at the limit halts trading until the next UTC midnight; a  *)
(* total drawdown at the limit halts it until reset_circuit_breaker.  Both *)
(* must outlive a restart.                                                 *)
(*                                                                         *)
(* Two threads: the reactor thread runs ticks and signals, each under      *)
(* PaperTrader's lock; the launcher's loop runs the balance sync, which    *)
(* takes the guard's lock for some steps and none for others.              *)
(*                                                                         *)
(* Time is relative: a block is "ahead" or "past" its midnight, a trading  *)
(* day is "today" or "old".  The trading day rolls at 17:00 in Toronto,    *)
(* three or four hours before UTC midnight.  Money is in units small       *)
(* enough for the limits to be a few of them.  The kill switch that a      *)
(* breach also asks for is KillSwitch's subject; its class default ignores *)
(* the request.  peak_balance and the statistics decide nothing here.      *)
(***************************************************************************)
EXTENDS Integers

CONSTANTS
    Start,        \* starting_balance
    DailyLimit,   \* starting_balance * daily_loss_limit_pct
    TotalLimit,   \* starting_balance * total_drawdown_limit_pct
    MaxTrades,    \* max_trades_per_day
    PnL,          \* what a position may earn or lose
    Money,        \* bound: balances, of the account and of PaperTrader
    MaxOpen       \* bound: positions open at once

ASSUME GuardAssumption ==
    /\ Start \in Money /\ Money \subseteq Nat \ {0}
    /\ DailyLimit \in Nat \ {0} /\ TotalLimit \in Nat \ {0}
    /\ MaxTrades \in Nat \ {0} /\ MaxOpen \in Nat
    /\ PnL \subseteq Int

VARIABLES
    up,        \* the process runs
    guard,     \* RiskGuard's fields that the file keeps
    live,      \* _live_balance_active
    file,      \* risk_guard_state.json
    paper,     \* PaperTrader._current_balance
    realized,  \* PaperTradingStats.realized_pnl
    open,      \* positions that are open in the OrderManager
    ticking,   \* update_market_prices has closed positions and still runs
    sync,      \* the balance sync: where it is, and the last balance it read
    evening,   \* between 17:00 in Toronto and UTC midnight
    halted,    \* history: a daily loss was declared, its UTC midnight is ahead
    stopped    \* history: a total drawdown was declared and not reset

traderVars == <<paper, realized, open, ticking>>
syncVars == <<sync, live>>
ghostVars == <<halted, stopped>>
vars == <<up, guard, file, traderVars, syncVars, evening, ghostVars>>

\* The persisted fields: _current_balance, _daily_start_balance, _current_day,
\* _daily_trade_count, _circuit_breaker_triggered and _blocked_until.
Guard == [cur : Money, start : Money, day : {"none", "today", "old"}, count : Nat,
          breaker : BOOLEAN, until : {"none", "ahead", "past"}]
Fresh == [cur |-> Start, start |-> Start, day |-> "none", count |-> 0,
          breaker |-> FALSE, until |-> "none"]
Idle == [at |-> "idle", bal |-> 0]

\* The first start of all: there is no state file, so the guard is as constructed.
Init == /\ up = TRUE
        /\ guard = Fresh
        /\ live = FALSE
        /\ file = Fresh
        /\ paper = Start
        /\ realized = 0
        /\ open = 0
        /\ ticking = FALSE
        /\ sync = Idle
        /\ evening = FALSE
        /\ halted = FALSE
        /\ stopped = FALSE

-----------------------------------------------------------------------------
(* The guard's rules.                                                      *)

\* Mutant: a new trading day keeps the old day's baseline and count.
TrackDayOnly(g) == [g EXCEPT !.day = "today"]

\* _update_daily_tracking: on a new trading day the baseline is the balance now.
Track(g) == IF g.day = "today" THEN g
            ELSE [g EXCEPT !.day = "today", !.start = g.cur, !.count = 0]

DailyBreach(g) == g.count > 0 /\ g.start - g.cur >= DailyLimit
Drawdown(g) == Start - g.cur >= TotalLimit

\* Mutant: blocked until the midnight before now.
HaltUntilToday(g) == [g EXCEPT !.until = "past"]

\* Mutant: a total drawdown is treated like a daily loss.
StopUntilMidnight(g) == [g EXCEPT !.until = "ahead"]

\* _trigger_circuit_breaker, for a daily loss and for a total drawdown.
Halt(g) == [g EXCEPT !.until = "ahead"]
Stop(g) == [g EXCEPT !.breaker = TRUE, !.until = "none"]

\* record_trade up to its check: one more trade, then the day.  The balance is
\* the one of the last sync: the trade that just closed is not in it.
Recorded(g) == Track([g EXCEPT !.count = @ + 1])

\* _restore_state.
Restore(f) ==
    IF f.day \in {"none", "today"} THEN f
    ELSE [f EXCEPT !.day = "today", !.start = f.cur, !.count = 0,
                   !.until = IF @ = "past" THEN "none" ELSE @]

-----------------------------------------------------------------------------
(* Signals: PaperTrader.process_signal.  A signal that check_signal        *)
(* refuses changes nothing.                                                *)

Admitted == up /\ ~ticking /\ ~guard.breaker /\ guard.until # "ahead"

\* check_trade_allowed takes PaperTrader's balance for the account's.
Checked == Track([guard EXCEPT !.cur = paper])

\* Mutant: the halt is not saved.
SignalHaltsUnsaved ==
    /\ Admitted
    /\ DailyBreach(Checked)
    /\ guard' = Halt(Checked)
    /\ halted' = TRUE
    /\ UNCHANGED <<up, file, traderVars, syncVars, evening, stopped>>

SignalHalts ==
    /\ Admitted
    /\ DailyBreach(Checked)
    /\ guard' = Halt(Checked)
    /\ file' = guard'
    /\ halted' = TRUE
    /\ UNCHANGED <<up, traderVars, syncVars, evening, stopped>>

SignalStops ==
    /\ Admitted
    /\ ~DailyBreach(Checked)
    /\ Drawdown(Checked)
    /\ guard' = Stop(Checked)
    /\ file' = guard'
    /\ stopped' = TRUE
    /\ UNCHANGED <<up, traderVars, syncVars, evening, halted>>

\* Too many trades today, too much risk or too little reward.
SignalRefused ==
    /\ Admitted
    /\ ~DailyBreach(Checked) /\ ~Drawdown(Checked)
    /\ guard' = Checked
    /\ UNCHANGED <<up, file, traderVars, syncVars, evening, ghostVars>>

\* A new position has no profit or loss yet, so the balance stays.
SignalOpens ==
    /\ Admitted
    /\ ~DailyBreach(Checked) /\ ~Drawdown(Checked)
    /\ Checked.count < MaxTrades
    /\ open < MaxOpen
    /\ guard' = Checked
    /\ open' = open + 1
    /\ UNCHANGED <<up, file, paper, realized, ticking, syncVars, evening, ghostVars>>

-----------------------------------------------------------------------------
(* Ticks: PaperTrader.update_market_prices, one step per position that the *)
(* price closes and one for the balance at the end.                        *)

TickCloses(pnl) ==
    /\ up /\ open > 0
    /\ Start + realized + pnl \in Money
    /\ open' = open - 1
    /\ realized' = realized + pnl
    /\ LET g == Recorded(guard)
       IN  /\ guard' = IF DailyBreach(g) THEN Halt(g) ELSE g
           /\ halted' = (halted \/ DailyBreach(g))
    /\ file' = guard'
    /\ ticking' = TRUE
    /\ UNCHANGED <<up, paper, syncVars, evening, stopped>>

\* Of the open positions only those of the tick's symbol are valued.
TickEnds(balance) ==
    /\ up
    /\ open = 0 => balance = Start + realized
    /\ paper' = balance
    /\ guard' = IF live THEN guard ELSE [guard EXCEPT !.cur = balance]
    /\ ticking' = FALSE
    /\ UNCHANGED <<up, file, realized, open, syncVars, evening, ghostVars>>

-----------------------------------------------------------------------------
(* The balance sync: _sync_live_balance, run once by start() and every     *)
(* five minutes by the launcher, which then calls sync_live_balance.       *)

At(l) == up /\ sync.at = l
GoTo(l) == sync' = [sync EXCEPT !.at = l]

SyncFetches(balance) ==
    /\ At("idle")
    /\ sync' = [at |-> "fetched", bal |-> balance]
    /\ UNCHANGED <<up, guard, live, file, traderVars, evening, ghostVars>>

\* No answer: the launcher goes on with the balance it last read, if any.
SyncFails ==
    /\ At("idle")
    /\ sync.bal # 0
    /\ GoTo("live")
    /\ UNCHANGED <<up, guard, live, file, traderVars, evening, ghostVars>>

\* update_balance, under the guard's lock.
SyncUpdates ==
    /\ At("fetched")
    /\ guard' = IF live THEN guard ELSE [guard EXCEPT !.cur = sync.bal]
    /\ GoTo("updated")
    /\ UNCHANGED <<up, live, file, traderVars, evening, ghostVars>>

\* The day is tested without the lock.
SyncTests ==
    /\ At("updated")
    /\ GoTo(IF guard.day = "today" THEN "paper" ELSE "rolling")
    /\ UNCHANGED <<up, guard, live, file, traderVars, evening, ghostVars>>

SyncRolls ==
    /\ At("rolling")
    /\ guard' = [guard EXCEPT !.day = "today", !.start = sync.bal, !.count = 0]
    /\ file' = guard'
    /\ GoTo("paper")
    /\ UNCHANGED <<up, live, traderVars, evening, ghostVars>>

\* PaperTrader's balance is assigned without its lock.  start()'s call ends here.
SyncPaper ==
    /\ At("paper")
    /\ paper' = sync.bal
    /\ GoTo("idle") \/ GoTo("live")
    /\ UNCHANGED <<up, guard, live, file, realized, open, ticking, evening, ghostVars>>

SyncLive ==
    /\ At("live")
    /\ live' = TRUE
    /\ guard' = [guard EXCEPT !.cur = sync.bal]
    /\ file' = guard'
    /\ GoTo("idle")
    /\ UNCHANGED <<up, traderVars, evening, ghostVars>>

-----------------------------------------------------------------------------
(* Crash and restart, and the clocks.                                      *)

\* Paper positions and their results live in memory only.
Crash ==
    /\ up
    /\ up' = FALSE
    /\ guard' = Fresh
    /\ live' = FALSE
    /\ paper' = Start /\ realized' = 0 /\ open' = 0 /\ ticking' = FALSE
    /\ sync' = Idle
    /\ UNCHANGED <<file, evening, ghostVars>>

Boot ==
    /\ ~up
    /\ up' = TRUE
    /\ guard' = Restore(file)
    /\ UNCHANGED <<live, file, traderVars, syncVars, evening, ghostVars>>

\* Mutant: the reset does not look at the time-based block.
BootAndResetBlocked ==
    /\ ~up
    /\ up' = TRUE
    /\ LET g == Restore(file)
           h == [g EXCEPT !.breaker = FALSE]
       IN  /\ guard' = [h EXCEPT !.start = h.cur, !.count = 0]
           /\ file' = IF g.breaker THEN h ELSE file
           /\ stopped' = (stopped /\ ~g.breaker)
    /\ UNCHANGED <<live, traderVars, syncVars, evening, halted>>

\* reset_on_start: PaperTrader.reset, which calls reset_circuit_breaker (refused
\* while a time-based block is recorded) and reset_daily_tracking (not saved).
BootAndReset ==
    /\ ~up
    /\ up' = TRUE
    /\ LET g == Restore(file)
           clears == g.breaker /\ g.until = "none"
           h == [g EXCEPT !.breaker = @ /\ ~clears]
       IN  /\ guard' = [h EXCEPT !.start = h.cur, !.count = 0]
           /\ file' = IF clears THEN h ELSE file
           /\ stopped' = (stopped /\ ~clears)
    /\ UNCHANGED <<live, traderVars, syncVars, evening, halted>>

\* _current_trading_day changes: 17:00 in Toronto.
DayRolls ==
    LET Older(g) == IF g.day = "today" THEN [g EXCEPT !.day = "old"] ELSE g
    IN  /\ ~evening
        /\ evening' = TRUE
        /\ guard' = Older(guard)
        /\ file' = Older(file)
        /\ UNCHANGED <<up, traderVars, syncVars, ghostVars>>

\* now >= _blocked_until.
UtcMidnight ==
    LET Expired(g) == IF g.until = "ahead" THEN [g EXCEPT !.until = "past"] ELSE g
    IN  /\ evening
        /\ evening' = FALSE
        /\ guard' = Expired(guard)
        /\ file' = Expired(file)
        /\ halted' = FALSE
        /\ UNCHANGED <<up, traderVars, syncVars, stopped>>

Next == \/ SignalHalts \/ SignalStops \/ SignalRefused \/ SignalOpens
        \/ \E pnl \in PnL : TickCloses(pnl)
        \/ \E balance \in Money : TickEnds(balance) \/ SyncFetches(balance)
        \/ SyncFails \/ SyncUpdates \/ SyncTests \/ SyncRolls \/ SyncPaper \/ SyncLive
        \/ Crash \/ Boot \/ BootAndReset
        \/ DayRolls \/ UtcMidnight

Spec == Init /\ [][Next]_vars

\* Time passes.  Nothing else is promised.
FairSpec == Spec /\ WF_vars(DayRolls) /\ WF_vars(UtcMidnight)

-----------------------------------------------------------------------------
(* Properties.                                                             *)

\* Every balance the guard works with is one an account had, and every field has
\* its type.
TypeOK ==
    /\ up \in BOOLEAN /\ live \in BOOLEAN /\ ticking \in BOOLEAN /\ evening \in BOOLEAN
    /\ guard \in Guard /\ file \in Guard
    /\ paper \in Money /\ realized \in Int /\ open \in 0..MaxOpen
    /\ sync \in [at : {"idle", "fetched", "updated", "rolling", "paper", "live"},
                 bal : Money \cup {0}]
    /\ halted \in BOOLEAN /\ stopped \in BOOLEAN

\* What the guard refuses now it would refuse after a crash: a running block and
\* the breaker are in the file whenever they are in memory, whichever thread wrote
\* it last (_save_state in _trigger_circuit_breaker and reset_circuit_breaker).
HaltPersisted ==
    up => /\ guard.breaker = file.breaker
          /\ (guard.until = "ahead") = (file.until = "ahead")

\* After a daily loss at the limit no position is opened before the next UTC
\* midnight, though the trading day rolls, the balance is synced, the process is
\* restarted and its breaker reset in between (_trigger_circuit_breaker: "block
\* until UTC midnight").
HaltHolds == [][open' > open => ~halted]_vars

\* After a total drawdown at the limit no position is opened until
\* reset_circuit_breaker clears it, on later days and after restarts too
\* (_trigger_circuit_breaker: "permanent block until manual reset").
StopHolds == [][open' > open => ~stopped]_vars

\* The guard, its two threads, its file and its restarts halt trading as
\* TradingHalt says: to the account the halts are what the file says, a restart is
\* never noticed, and each halt ends only in its own way (_trigger_circuit_breaker,
\* reset_circuit_breaker, check_signal, _restore_state).
Halts == INSTANCE TradingHalt WITH
    daily <- file.until = "ahead",
    total <- file.breaker,
    positions <- open
HaltSpec == Halts!Spec

\* A daily-loss halt is not for good: in a process that stays up the daily rule
\* some time lets a signal pass again, without a reset, unless the total drawdown
\* stops it (_trigger_circuit_breaker: "auto-recovery at UTC midnight").
HaltRecovers ==
    halted ~> (~up \/ guard.breaker \/ (guard.until # "ahead" /\ ~DailyBreach(Checked)))

\* A trade that takes the day's realised balance to the daily limit halts trading
\* in the very tick that closed it (record_trade: "This immediate check ensures
\* the circuit breaker fires right after any trade that breaches the daily loss
\* limit").  The code does not keep it: see the README.
BreachHalts ==
    [][(ticking /\ ~ticking' /\ up' /\ ~live /\ sync = Idle
          /\ guard.start - (Start + realized) >= DailyLimit)
        => guard'.until = "ahead" \/ guard'.breaker]_vars

\* Once the broker's balance is in force, nothing but the next sync changes the
\* balance the guard works with (sync_live_balance: "The balance will only change
\* when this method is called again").  The code does not keep it: see the README.
LiveBalanceKept == [][live /\ live' /\ sync' = sync => guard'.cur = guard.cur]_vars
=============================================================================
