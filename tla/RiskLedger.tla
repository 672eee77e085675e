----------------------------- MODULE RiskLedger -----------------------------
(***************************************************************************)
(* The risk ledger of the blend forward test: SLPositionSizer              *)
(* (risk/sl_position_sizer.py), the identity maps of                       *)
(* BlendForwardTestRunner (forward_test/blend_runner.py) and               *)
(* StatePersistence (risk/state_persistence.py).                           *)
(*                                                                         *)
(* A signal is accepted under a canonical identity                         *)
(* (strategy_id + "_" + timestamp).  Those who later cancel it or report   *)
(* its fill know it only by another one, an alias, built from a timestamp  *)
(* taken a little earlier or later: the runner finds the canonical         *)
(* identity by closeness in time (cancel, close) or takes the oldest       *)
(* signal without a position (fill).                                       *)
(*                                                                         *)
(* Four threads meet here: the router (one signal at a time, under the     *)
(* evaluation semaphore), the callbacks of late executions, the launcher's *)
(* loop that rebuilds the sizer from the broker every five minutes, and    *)
(* the health monitor that resets the day.  Each sizer method runs under   *)
(* the sizer's lock, so it is one step.                                    *)
(*                                                                         *)
(* Signals are numbered in the order they are accepted; "position s" is    *)
(* the position that the order of signal s opened.                         *)
(***************************************************************************)
EXTENDS Integers, FiniteSetsExt

CONSTANTS
    MaxSignals,   \* bound: signals accepted
    Symbol,       \* Symbol[s]: the instrument of signal s
    Sizes,        \* risk_amount after the regime and edge multipliers
    Base,         \* risk_per_trade, what calculate() tests with
    MaxOpen,      \* max_total_open_risk
    DailyCap,     \* account_balance * daily_risk_cap_pct
    Loss,         \* losses a close may realise; 0 is a win
    MaxTime,      \* bound: timestamps, in units of the one-second window
    MaxSkew,      \* bound: distance between an alias and its signal
    MaxDays,      \* bound: midnights
    MaxRestarts   \* bound: restarts

Signal == 1..MaxSignals
None == 0

ASSUME LedgerAssumption ==
    /\ MaxSignals \in Nat
    /\ Sizes \subseteq Nat \ {0}
    /\ Base \in Nat \ {0} /\ MaxOpen \in Nat /\ DailyCap \in Nat
    /\ Loss \subseteq Nat
    /\ MaxTime \in Nat /\ MaxSkew \in Nat
    /\ MaxDays \in Nat /\ MaxRestarts \in Nat

VARIABLES
    live,        \* live_mode: orders go to the broker, not to PaperTrader
    reserved,    \* signal keys of SLPositionSizer._open_positions
    seeded,      \* seeded_<position> keys of it
    legacy,      \* its _legacy_open_risk entry, 0 when there is none
    symbols,     \* seeded keys that are in _position_symbols
    used,        \* _daily_risk_used
    runner,      \* keys of BlendForwardTestRunner._open_positions
    unmapped,    \* _unmapped_signal_ids; the deque's order is the numbering
    mapped,      \* _mapped_signal_ids
    p2s,         \* _position_id_to_signal_id: a signal, Raw or None
    s2p,         \* _signal_id_to_position_id
    fileUsed, fileOpen,  \* the state file: daily_risk_used and open_risk
    runnerDay,   \* _current_day against today's date
    engineDay,   \* the engine's _last_reset_date against today's date
    accepted,    \* number of signals accepted so far
    size, stamp, \* risk amount and timestamp of a signal
    exec,        \* what has become of the order of a signal
    open,        \* positions that are open, at the broker or on paper
    snapshot,    \* answer of feed.reconcile() not yet applied
    days, restarts,      \* counters for the bounds
    recorded,    \* history: losses close() added since the last reset
    missed       \* history: a realised loss was not added to the day's figure

sizerVars == <<reserved, seeded, legacy, symbols, used>>
mapVars == <<runner, unmapped, mapped, p2s, s2p>>
dayVars == <<runnerDay, engineDay, days>>
signalVars == <<accepted, size, stamp>>
orderVars == <<exec, open>>
history == <<recorded, missed>>
fileVars == <<fileUsed, fileOpen>>
vars == <<live, sizerVars, mapVars, fileVars, dayVars, signalVars, orderVars,
          snapshot, restarts, history>>

\* In p2s: the callback's own alias was stored, no signal could be found.
Raw == -1
\* No answer of reconcile() is waiting.
NoAnswer == {None}

Execs == {"new", "routing", "late", "filled", "failed", "orphan"}

\* (legacy and fileOpen are sums of sizes.)
SizerType ==
    /\ reserved \subseteq Signal /\ seeded \subseteq Signal
    /\ symbols \subseteq seeded
    /\ used \in Nat /\ fileUsed \in Nat /\ recorded \in Nat
MapType ==
    /\ runner \subseteq Signal /\ unmapped \subseteq Signal
    /\ mapped \subseteq Signal
    /\ p2s \in [Signal -> Signal \cup {None, Raw}]
    /\ s2p \in [Signal -> Signal \cup {None}]
SignalType ==
    /\ accepted \in 0..MaxSignals
    /\ size \in [Signal -> Sizes \cup {0}]
    /\ stamp \in [Signal -> Nat]
    /\ exec \in [Signal -> Execs]
    /\ open \subseteq Signal
    /\ snapshot = NoAnswer \/ snapshot \subseteq Signal
    /\ days \in 0..MaxDays /\ restarts \in 0..MaxRestarts
FlagType ==
    /\ live \in BOOLEAN /\ missed \in BOOLEAN
    /\ runnerDay \in {"none", "old", "cur"} /\ engineDay \in {"old", "cur"}
TypeOK == SizerType /\ MapType /\ SignalType /\ FlagType

Init ==
    /\ live \in BOOLEAN
    /\ reserved = {} /\ seeded = {} /\ legacy = 0 /\ symbols = {}
    /\ used = 0
    /\ runner = {} /\ unmapped = {} /\ mapped = {}
    /\ p2s = [s \in Signal |-> None] /\ s2p = [s \in Signal |-> None]
    /\ fileUsed = 0 /\ fileOpen = 0
    /\ runnerDay = "none" /\ engineDay = "cur"
    /\ accepted = 0
    /\ size = [s \in Signal |-> 0]
    /\ stamp = [s \in Signal |-> 0]
    /\ exec = [s \in Signal |-> "new"]
    /\ open = {}
    /\ snapshot = NoAnswer
    /\ days = 0 /\ restarts = 0
    /\ recorded = 0 /\ missed = FALSE

-----------------------------------------------------------------------------
(* SLPositionSizer.                                                        *)

\* _open_risk: the sum over all entries.
RiskOf(res, seed, leg) == MapThenSumSet(LAMBDA s : size[s], res)
                        + MapThenSumSet(LAMBDA s : size[s], seed) + leg
OpenRisk == RiskOf(reserved, seeded, legacy)

\* calculate: the limits on a new position.  register() is given no symbol
\* by on_signal, so only rebuilt entries count against the symbol's limit.
Calculate(s, usedNow) ==
    /\ ~\E p \in symbols : Symbol[p] = Symbol[s]
    /\ OpenRisk + Base <= MaxOpen
    /\ Base <= DailyCap - usedNow - OpenRisk

-----------------------------------------------------------------------------
(* Identities in the runner.                                               *)

\* The timestamps an alias of s may carry.  Each alias is resolved at most
\* once, so its value is chosen when that happens.
AliasTimes(s) == {stamp[s] + d : d \in -MaxSkew..MaxSkew}

\* The candidates of _resolve_registered_signal_id: signals without a
\* position, still reserved, stamped within a second of the alias.
Near(time) == {c \in unmapped \cap reserved : stamp[c] - time \in -1..1}

\* The canonical identity for an alias; None when it stays unresolved.
ResolveAlias(time) == IF \E c \in Signal : Near(time) = {c}
                      THEN CHOOSE c \in Signal : Near(time) = {c}
                      ELSE None

\* _resolve_unmapped_signal_id: the oldest accepted signal that is still
\* reserved and has no position; with an empty sizer, the only one there is.
Backers == IF reserved \cup seeded # {} \/ legacy # 0
           THEN (unmapped \cap runner \cap reserved) \ mapped
           ELSE IF Cardinality(unmapped \cap runner) = 1
                THEN unmapped \cap runner
                ELSE {}
OldestBacker(r) == r \in Backers /\ \A t \in Backers : r <= t

\* _forget_signal_mapping
Forget(r) == /\ mapped' = mapped \ {r}
             /\ unmapped' = unmapped \ {r}
             /\ s2p' = [s2p EXCEPT ![r] = None]

\* The router holds the evaluation semaphore from on_signal to the outcome.
RouterIdle == \A s \in Signal : exec[s] # "routing"

-----------------------------------------------------------------------------
(* The router: on_signal and the outcome of the order.                     *)

\* on_signal accepts: _check_daily_reset, calculate, register, queue.
OnSignal(s) ==
    LET usedNow == IF runnerDay = "old" THEN 0 ELSE used IN
    /\ s = accepted + 1 /\ RouterIdle
    /\ Calculate(s, usedNow)
    /\ used' = usedNow
    /\ recorded' = IF runnerDay = "old" THEN 0 ELSE recorded
    /\ runnerDay' = "cur"
    /\ accepted' = s
    /\ \E z \in Sizes : size' = [size EXCEPT ![s] = z]
    /\ \E t \in 0..MaxTime :
         /\ \A r \in 1..accepted : stamp[r] <= t
         /\ stamp' = [stamp EXCEPT ![s] = t]
    /\ runner' = runner \cup {s}
    /\ reserved' = reserved \cup {s}
    /\ unmapped' = unmapped \cup {s}
    /\ exec' = [exec EXCEPT ![s] = "routing"]
    /\ UNCHANGED <<live, seeded, legacy, symbols, mapped, p2s, s2p, fileVars,
                   engineDay, days, open, snapshot, restarts, missed>>

\* Mutant: no day seen yet counts as a day gone by.
OnSignalRejectedFresh ==
    /\ RouterIdle /\ runnerDay # "cur"
    /\ used' = 0
    /\ recorded' = IF runnerDay = "old" THEN 0 ELSE recorded
    /\ runnerDay' = "cur"
    /\ UNCHANGED <<live, reserved, seeded, legacy, symbols, mapVars, fileVars,
                   engineDay, days, signalVars, orderVars, snapshot, restarts,
                   missed>>

\* on_signal rejects, for one of these limits or another reason: only the
\* day's reset is left behind.
OnSignalRejected ==
    /\ RouterIdle /\ runnerDay # "cur"
    /\ used' = IF runnerDay = "old" THEN 0 ELSE used
    /\ recorded' = IF runnerDay = "old" THEN 0 ELSE recorded
    /\ runnerDay' = "cur"
    /\ UNCHANGED <<live, reserved, seeded, legacy, symbols, mapVars, fileVars,
                   engineDay, days, signalVars, orderVars, snapshot, restarts,
                   missed>>

\* Mutant: the mapped signal stays in the queue of signals without a position.
OrderFilledStillQueued(s) ==
    /\ exec[s] \in {"routing", "late"}
    /\ exec' = [exec EXCEPT ![s] = "filled"]
    /\ open' = open \cup {s}
    /\ \E r \in Signal :
         /\ OldestBacker(r)
         /\ p2s' = [p2s EXCEPT ![s] = r]
         /\ s2p' = [s2p EXCEPT ![r] = s]
         /\ mapped' = mapped \cup {r}
    /\ UNCHANGED <<live, sizerVars, runner, unmapped, fileVars, dayVars,
                   signalVars, snapshot, restarts, history>>

\* The order is filled, in the router's hands or later: the callback runs
\* register_position_mapping with the alias of its own signal.
OrderFilled(s) ==
    /\ exec[s] \in {"routing", "late"}
    /\ exec' = [exec EXCEPT ![s] = "filled"]
    /\ open' = open \cup {s}
    /\ \/ /\ Backers = {}
          /\ p2s' = [p2s EXCEPT ![s] = Raw]
          /\ UNCHANGED <<s2p, mapped, unmapped>>
       \/ \E r \in Signal :
            /\ OldestBacker(r)
            /\ p2s' = [p2s EXCEPT ![s] = r]
            /\ s2p' = [s2p EXCEPT ![r] = s]
            /\ mapped' = mapped \cup {r}
            /\ unmapped' = unmapped \ {r}
    /\ UNCHANGED <<live, sizerVars, runner, fileVars, dayVars, signalVars,
                   snapshot, restarts, history>>

\* The order fails, at once or later: cancel_risk with the alias.
OrderFailed(s) ==
    /\ exec[s] \in {"routing", "late"}
    /\ exec' = [exec EXCEPT ![s] = "failed"]
    /\ \E time \in AliasTimes(s) :
         LET r == ResolveAlias(time) IN
         IF r = None
         THEN UNCHANGED <<reserved, unmapped, mapped, s2p>>
         ELSE Forget(r) /\ reserved' = reserved \ {r}
    /\ UNCHANGED <<live, seeded, legacy, symbols, used, runner, p2s, fileVars,
                   dayVars, signalVars, open, snapshot, restarts, history>>

\* Live only: the wait ends with SENT or TIMEOUT and the risk stays held.
OrderUndecided(s) ==
    /\ live /\ exec[s] = "routing"
    /\ exec' = [exec EXCEPT ![s] = "late"]
    /\ UNCHANGED <<live, sizerVars, mapVars, fileVars, dayVars, signalVars,
                   open, snapshot, restarts, history>>

\* The verdict never reaches the callbacks: it comes after the late registry's
\* 120 seconds, as an ORDER_ERROR that only that registry matches, or when the
\* feed has shut its executor down.  An orphan may still fill.
VerdictLost(s) ==
    /\ exec[s] = "late"
    /\ \E e \in {"orphan", "failed"} : exec' = [exec EXCEPT ![s] = e]
    /\ UNCHANGED <<live, sizerVars, mapVars, fileVars, dayVars, signalVars,
                   open, snapshot, restarts, history>>

-----------------------------------------------------------------------------
(* Positions end.                                                          *)

\* Mutant: the sign of the loss is wrong.
RecordCloseSigned(r, l) ==
    /\ reserved' = reserved \ {r}
    /\ runner' = runner \ {r}
    /\ Forget(r)
    /\ used' = used - l
    /\ recorded' = recorded + l
    /\ fileUsed' = used - l
    /\ fileOpen' = RiskOf(reserved \ {r}, seeded, legacy)

\* on_fill(r): the reservation ends, the loss is added, the state is saved.
RecordClose(r, l) ==
    /\ reserved' = reserved \ {r}
    /\ runner' = runner \ {r}
    /\ Forget(r)
    /\ used' = used + l
    /\ recorded' = recorded + l
    /\ fileUsed' = used + l
    /\ fileOpen' = RiskOf(reserved \ {r}, seeded, legacy)

\* The identity close_position(s) arrives at: the mapped one, registered with
\* runner or sizer; else by closeness in time to it or to the stored alias.
ClosedIdentities(s) ==
    LET r == p2s[s] IN
    IF r = None \/ r \in runner \cup reserved
    THEN {r}
    ELSE {ResolveAlias(time) :
            time \in IF r = Raw THEN AliasTimes(s) ELSE {stamp[r]}}

\* Mutant: the loss is added although the reservation is gone.
PaperCloseAnyway(s, l) ==
    /\ ~live /\ s \in open
    /\ open' = open \ {s}
    /\ p2s' = [p2s EXCEPT ![s] = None]
    /\ \E r \in ClosedIdentities(s) \cap Signal : RecordClose(r, l)
    /\ UNCHANGED <<live, seeded, legacy, symbols, dayVars, signalVars, exec,
                   snapshot, restarts, missed>>

\* A paper position closes: close_position, then on_fill.  sizer.close
\* raises KeyError when the reservation is gone, and nothing is recorded.
PaperClose(s, l) ==
    /\ ~live /\ s \in open
    /\ open' = open \ {s}
    /\ p2s' = [p2s EXCEPT ![s] = None]
    /\ \E r \in ClosedIdentities(s) :
         IF r \in reserved
         THEN RecordClose(r, l) /\ UNCHANGED missed
         ELSE /\ missed' = (missed \/ l > 0)
              /\ UNCHANGED <<reserved, runner, mapped, unmapped, s2p, used,
                             recorded, fileVars>>
    /\ UNCHANGED <<live, seeded, legacy, symbols, dayVars, signalVars, exec,
                   snapshot, restarts>>

\* A live position closes at the broker; no callback of the feed reports it.
BrokerClose(s, l) ==
    /\ live /\ s \in open
    /\ open' = open \ {s}
    /\ missed' = (missed \/ l > 0)
    /\ UNCHANGED <<live, sizerVars, mapVars, fileVars, dayVars, signalVars,
                   exec, snapshot, restarts, recorded>>

\* The broker fills an order that nobody in this process waits for.
OrphanFilled(s) ==
    /\ exec[s] = "orphan"
    /\ exec' = [exec EXCEPT ![s] = "filled"]
    /\ open' = open \cup {s}
    /\ UNCHANGED <<live, sizerVars, mapVars, fileVars, dayVars, signalVars,
                   snapshot, restarts, history>>

-----------------------------------------------------------------------------
(* The launcher's periodic rebuild.                                        *)

\* What reconcile() answers: the broker's positions, or the empty list when
\* the feed is down or the request times out.  Paper positions are not there.
Answers == IF live THEN {open, {}} ELSE {{}}

AskBroker ==
    /\ snapshot = NoAnswer
    /\ snapshot' \in Answers
    /\ UNCHANGED <<live, sizerVars, mapVars, fileVars, dayVars, signalVars,
                   orderVars, restarts, history>>

\* Mutant: an empty answer is taken for a failed request and skipped.
RebuildFromBrokerNonEmpty ==
    /\ snapshot # NoAnswer
    /\ reserved' = IF snapshot = {} THEN reserved ELSE {}
    /\ seeded' = IF snapshot = {} THEN seeded ELSE snapshot
    /\ symbols' = IF snapshot = {} THEN symbols ELSE snapshot
    /\ legacy' = IF snapshot = {} THEN legacy ELSE 0
    /\ snapshot' = NoAnswer
    /\ UNCHANGED <<live, used, mapVars, fileVars, dayVars, signalVars,
                   orderVars, restarts, history>>

\* reconcile_with_broker: drop every entry, register what the broker named.
RebuildFromBroker ==
    /\ snapshot # NoAnswer
    /\ reserved' = {}
    /\ seeded' = snapshot
    /\ symbols' = snapshot
    /\ legacy' = 0
    /\ snapshot' = NoAnswer
    /\ UNCHANGED <<live, used, mapVars, fileVars, dayVars, signalVars,
                   orderVars, restarts, history>>

-----------------------------------------------------------------------------
(* Days and restarts.                                                      *)

Midnight ==
    /\ days < MaxDays
    /\ days' = days + 1
    /\ runnerDay' = IF runnerDay = "none" THEN "none" ELSE "old"
    /\ engineDay' = "old"
    /\ UNCHANGED <<live, sizerVars, mapVars, fileVars, signalVars, orderVars,
                   snapshot, restarts, history>>

\* The health monitor sees a new date and runs the runner's daily_reset.
EngineDailyReset ==
    /\ engineDay = "old"
    /\ used' = 0 /\ recorded' = 0
    /\ engineDay' = "cur" /\ runnerDay' = "cur"
    /\ UNCHANGED <<live, reserved, seeded, legacy, symbols, mapVars, fileVars,
                   days, signalVars, orderVars, snapshot, restarts, missed>>

\* The process ends (stop() saves, a crash does not) and the next one
\* restores the state file, then seeds the positions the broker names.
Restart(clean) ==
    /\ restarts < MaxRestarts
    /\ restarts' = restarts + 1
    /\ fileUsed' = IF clean THEN used ELSE fileUsed
    /\ fileOpen' = IF clean THEN OpenRisk ELSE fileOpen
    /\ used' = fileUsed'
    /\ legacy' = fileOpen'
    /\ reserved' = {}
    /\ seeded' \in Answers
    /\ symbols' = {}
    /\ runner' = {} /\ unmapped' = {} /\ mapped' = {}
    /\ p2s' = [s \in Signal |-> None] /\ s2p' = [s \in Signal |-> None]
    /\ runnerDay' = "none" /\ engineDay' = "cur"
    /\ exec' = [s \in Signal |->
                  IF exec[s] \in {"routing", "late"}
                  THEN IF live THEN "orphan" ELSE "failed"
                  ELSE exec[s]]
    /\ open' = IF live THEN open ELSE {}
    /\ snapshot' = NoAnswer
    /\ UNCHANGED <<live, days, signalVars, history>>

Next ==
    \/ \E s \in Signal :
         \/ OnSignal(s)
         \/ OrderFilled(s)
         \/ OrderFailed(s)
         \/ OrderUndecided(s)
         \/ VerdictLost(s)
         \/ OrphanFilled(s)
         \/ \E l \in Loss : PaperClose(s, l) \/ BrokerClose(s, l)
    \/ OnSignalRejected
    \/ AskBroker
    \/ RebuildFromBroker
    \/ Midnight
    \/ EngineDailyReset
    \/ \E clean \in BOOLEAN : Restart(clean)

Spec == Init /\ [][Next]_vars

\* The launcher's loop keeps asking and rebuilding while it runs.
FairSpec == Spec /\ WF_vars(AskBroker) /\ WF_vars(RebuildFromBroker)

-----------------------------------------------------------------------------
(* Properties.                                                             *)

\* A reservation that is held can still be ended: the runner tracks it and
\* either it waits for a position in _unmapped_signal_ids, or a position is
\* mapped to it and that position's close leads back to it.  (Keys of the
\* runner's four maps after every order of fills, cancels and closes.)
HeldIsReachable ==
    \A s \in reserved :
      /\ s \in runner
      /\ (s \in unmapped) # (s \in mapped)
      /\ s \in mapped => s2p[s] # None /\ p2s[s2p[s]] = s

\* A loss that close() recorded since the last daily reset is still in
\* _daily_risk_used, whatever restarts and crashes came since: on_fill saves
\* before it returns.
RecordedLossesKept == used >= recorded

\* The sizer's keys, as the budget sees them: signals are themselves.
SeedKey(s) == -s
LegacyKey == 0
HeldKeys == reserved \cup {SeedKey(s) : s \in seeded}
                     \cup (IF legacy # 0 THEN {LegacyKey} ELSE {})
EndedSignals == (1..accepted) \ reserved

\* The ledger keeps the budget's promise (RiskBudget): whatever an alias is
\* resolved to, no reservation is made or ended twice, and a loss is added
\* only with the end of a reservation.
Budget == INSTANCE RiskBudget WITH
    Signal <- Signal,
    Other <- {SeedKey(s) : s \in Signal} \cup {LegacyKey},
    Loss <- Loss,
    held <- HeldKeys,
    ended <- EndedSignals,
    used <- used,
    saved <- fileUsed

BudgetSpec == Budget!Spec

\* Drift is repaired: once the order of a signal has failed or its position
\* has closed, no entry for it stays in the sizer for ever, whether its
\* cancel found it or not (the launcher's five-minute rebuild).
Settled(s) == exec[s] = "failed" \/ (exec[s] = "filled" /\ s \notin open)
DriftRepaired ==
    \A s \in Signal : Settled(s) ~> s \notin reserved \cup seeded

\* daily_risk_remaining: "Realized losses stay consumed."
RealisedLossesConsumed == ~missed

\* calculate: max_positions_per_symbol = 1 "prevents the 9-GBPUSD-position
\* bug where the risk engine allowed unlimited concurrent positions".
OnePositionPerSymbol ==
    \A s, t \in reserved : Symbol[s] = Symbol[t] => s = t
=============================================================================
