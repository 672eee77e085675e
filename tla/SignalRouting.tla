---------------------------- MODULE SignalRouting ----------------------------
(***************************************************************************)
(* The way of a signal through BlendForwardTestEngine._route_signal        *)
(* (scripts/launch_blend_forward_test.py): the CorrelationGate, the blend  *)
(* runner's verdict, and the order: PaperTrader.process_signal on paper,   *)
(* _execute_signal_live with its late callbacks                            *)
(* (adapters/ctrader/forward_test_engine.py) when live.  The risk that is  *)
(* reserved on the way is in RiskLedger, the fate of an order inside the   *)
(* feed in OrderFeed.                                                      *)
(*                                                                         *)
(* Threads.  Strategies are evaluated inside the feed's tick callback,     *)
(* which the feed calls where it receives the message: on the reactor's    *)
(* thread.  new_order hands the request to that same thread and waits for  *)
(* the answer, so the request leaves only after the wait has expired and   *)
(* the evaluation has returned.  Paper positions are closed by ticks, on   *)
(* the reactor's thread too.  The order callbacks run on the one thread    *)
(* of the feed's executor, the counters are reset by the launcher's loop.  *)
(***************************************************************************)
EXTENDS Integers, FiniteSets

CONSTANTS
    Symbols, Strategies, Directions,
    Emits,        \* symbol, strategy and direction of the signals emitted
    MaxAtRisk,    \* MAX_ATRISK_PER_SYMBOL
    MaxSignals,   \* bound: signals routed
    MaxDays       \* bound: resets of the daily counters

Signal == 1..MaxSignals
None == 0
NoSlot == -1

Attr == [sym : Symbols, strat : Strategies, dir : Directions]

ASSUME RoutingAssumption ==
    /\ Emits \subseteq Attr
    /\ IsFiniteSet(Symbols) /\ IsFiniteSet(Strategies)
    /\ MaxAtRisk \in Nat \ {0}
    /\ MaxSignals \in Nat /\ MaxDays \in Nat

VARIABLES
    live,      \* config.live_mode
    pend,      \* pending slots of the gate: their id and their direction
    held,      \* real slots: signals whose position holds one
    index,     \* CorrelationGate._pending: (symbol, strategy) to a slot number
    routed,    \* number of signals routed so far
    attr,      \* symbol, strategy and direction of a signal
    cur, at,   \* the signal the reactor's thread is routing, and how far it is
    order,     \* where the order of a signal is
    open,      \* positions that are open, at the broker or on paper
    heard,     \* what a late callback was told first (fired)
    pending,   \* health.signals_pending
    fills,     \* health.live_fills, which _live_fill_count follows
    days       \* counter for the bound

gateVars == <<pend, held, index>>
counters == <<pending, fills>>
routerVars == <<routed, attr, cur, at>>
vars == <<live, gateVars, routerVars, order, open, heard, counters, days>>

NoAttr == [sym |-> None, strat |-> None, dir |-> None]
Slot == [sym : Symbols, strat : Strategies, dir : Directions, n : Nat]

GateType ==
    /\ pend \subseteq Slot /\ IsFiniteSet(pend)
    /\ held \subseteq Signal
    /\ index \in [Symbols \X Strategies -> Nat \cup {NoSlot}]
RouterType ==
    /\ routed \in 0..MaxSignals
    /\ attr \in [Signal -> Attr \cup {NoAttr}]
    /\ cur \in 0..MaxSignals
    /\ at \in {"idle", "blend", "execute", "wait", "count"}
OrderType ==
    /\ order \in [Signal -> {"none", "queued", "sent", "filled", "failed"}]
    /\ open \subseteq Signal
    /\ heard \in [Signal -> {"nothing", "filled", "failed"}]
    /\ pending \in Nat /\ fills \in Nat
    /\ days \in 0..MaxDays
TypeOK == live \in BOOLEAN /\ GateType /\ RouterType /\ OrderType

Init ==
    /\ live \in BOOLEAN
    /\ pend = {} /\ held = {}
    /\ index = [k \in Symbols \X Strategies |-> NoSlot]
    /\ routed = 0
    /\ attr = [s \in Signal |-> NoAttr]
    /\ cur = None /\ at = "idle"
    /\ order = [s \in Signal |-> "none"]
    /\ open = {}
    /\ heard = [s \in Signal |-> "nothing"]
    /\ pending = 0 /\ fills = 0
    /\ days = 0

-----------------------------------------------------------------------------
(* CorrelationGate.  Each method runs under the gate's lock.  A stop is     *)
(* placed on the losing side and no amendment reaches update_sl, so every   *)
(* slot counts as at risk.                                                  *)

PendOf(y) == {p \in pend : p.sym = y}
HeldOf(y) == {s \in held : attr[s].sym = y}

\* _count_at_risk_locked
AtRisk(y) == Cardinality(PendOf(y)) + Cardinality(HeldOf(y))

Key(a) == <<a.sym, a.strat>>
PendOfKey(a) == {p \in pend : p.sym = a.sym /\ p.strat = a.strat}

\* len(self._slots) + len(self._pending): the number in a new slot's id.
FreshNumber == Cardinality(pend) + Cardinality(held)
             + Cardinality({k \in Symbols \X Strategies : index[k] # NoSlot})

\* check, when the symbol has room.  A slot of the same id is overwritten.
Reserve(a) ==
    LET n == FreshNumber IN
    /\ pend' = {p \in pend : ~(p.sym = a.sym /\ p.strat = a.strat /\ p.n = n)}
               \cup {[sym |-> a.sym, strat |-> a.strat, dir |-> a.dir, n |-> n]}
    /\ index' = [index EXCEPT ![Key(a)] = n]
    /\ UNCHANGED held

\* attach_position: every pending slot of the symbol and strategy makes way.
AttachPosition(s) ==
    /\ pend' = pend \ PendOfKey(attr[s])
    /\ index' = [index EXCEPT ![Key(attr[s])] = NoSlot]
    /\ held' = held \cup {s}

\* release_pending
ReleasePending(a) ==
    /\ pend' = pend \ PendOfKey(a)
    /\ index' = [index EXCEPT ![Key(a)] = NoSlot]
    /\ UNCHANGED held

\* Mutant: the slots go, the entries of _pending stay.
ReleaseNoSweep(a) ==
    /\ pend' = {p \in pend : ~(p.sym = a.sym /\ p.dir = a.dir)}
    /\ UNCHANGED <<held, index>>

\* release(symbol, direction), then the sweep of what names no slot.
Release(a) ==
    LET kept == {p \in pend : ~(p.sym = a.sym /\ p.dir = a.dir)} IN
    /\ pend' = kept
    /\ index' = [k \in Symbols \X Strategies |->
                   IF \E p \in kept : Key(p) = k /\ p.n = index[k]
                   THEN index[k] ELSE NoSlot]
    /\ UNCHANGED held

-----------------------------------------------------------------------------
(* _route_signal, on the reactor's thread.                                 *)

Down(n) == IF n = 0 THEN 0 ELSE n - 1

RouterIdle == cur = None
Done == cur' = None /\ at' = "idle"

\* Mutant: at the cap there is room for one more.
GateAllowsOneMore(a) ==
    /\ RouterIdle /\ routed < MaxSignals
    /\ AtRisk(a.sym) <= MaxAtRisk
    /\ Reserve(a)
    /\ routed' = routed + 1
    /\ attr' = [attr EXCEPT ![routed + 1] = a]
    /\ cur' = routed + 1 /\ at' = "blend"
    /\ UNCHANGED <<live, order, open, heard, counters, days>>

\* A strategy emits a signal; the gate has room for its symbol.
GateAllows(a) ==
    /\ RouterIdle /\ routed < MaxSignals
    /\ AtRisk(a.sym) < MaxAtRisk
    /\ Reserve(a)
    /\ routed' = routed + 1
    /\ attr' = [attr EXCEPT ![routed + 1] = a]
    /\ cur' = routed + 1 /\ at' = "blend"
    /\ UNCHANGED <<live, order, open, heard, counters, days>>

\* The blend runner rejects the signal, or raises.
BlendRejects ==
    /\ at = "blend"
    /\ ReleasePending(attr[cur])
    /\ Done
    /\ UNCHANGED <<live, routed, attr, order, open, heard, counters, days>>

BlendAccepts ==
    /\ at = "blend"
    /\ at' = "execute"
    /\ UNCHANGED <<live, gateVars, routed, attr, cur, order, open, heard,
                   counters, days>>

\* Paper: PaperTrader.process_signal opens the position.
PaperFilled ==
    /\ ~live /\ at = "execute"
    /\ AttachPosition(cur)
    /\ open' = open \cup {cur}
    /\ Done
    /\ UNCHANGED <<live, routed, attr, order, heard, counters, days>>

\* The order comes to nothing: on paper it is refused or raises; live, the
\* pre-flight tests skip it, the feed is not operational, or the feed refuses
\* it or raises.
NoOrder ==
    /\ at = "execute"
    /\ ReleasePending(attr[cur])
    /\ Done
    /\ UNCHANGED <<live, routed, attr, order, open, heard, counters, days>>

\* Live: new_order queues the request for the reactor and waits.
QueueOrder ==
    /\ live /\ at = "execute"
    /\ order' = [order EXCEPT ![cur] = "queued"]
    /\ at' = "wait"
    /\ UNCHANGED <<live, gateVars, routed, attr, cur, open, heard, counters, days>>

\* Mutant: event.wait() without a timeout.
WaitForever ==
    /\ at = "wait" /\ order[cur] # "queued"
    /\ at' = "count"
    /\ UNCHANGED <<live, gateVars, routed, attr, cur, order, open, heard,
                   counters, days>>

\* event.wait expires; the order is classified TIMEOUT and
\* _register_late_fill_callbacks registers for it.
WaitExpires ==
    /\ at = "wait"
    /\ at' = "count"
    /\ UNCHANGED <<live, gateVars, routed, attr, cur, order, open, heard,
                   counters, days>>

\* Back in _route_signal: the TIMEOUT branch keeps the slot.
CountSent ==
    /\ at = "count"
    /\ pending' = pending + 1
    /\ Done
    /\ UNCHANGED <<live, gateVars, routed, attr, order, open, heard, fills, days>>

-----------------------------------------------------------------------------
(* The reactor, between two evaluations, and the broker.                   *)

\* do_send
Transmit(s) ==
    /\ RouterIdle /\ order[s] = "queued"
    /\ order' = [order EXCEPT ![s] = "sent"]
    /\ UNCHANGED <<live, gateVars, routerVars, open, heard, counters, days>>

BrokerDecides(s) ==
    /\ order[s] = "sent"
    /\ \/ order' = [order EXCEPT ![s] = "filled"] /\ open' = open \cup {s}
       \/ order' = [order EXCEPT ![s] = "failed"] /\ UNCHANGED open
    /\ UNCHANGED <<live, gateVars, routerVars, heard, counters, days>>

\* A position is closed.  Only PaperTrader tells the gate.
PositionCloses(s) ==
    /\ s \in open
    /\ open' = open \ {s}
    /\ IF live THEN UNCHANGED held ELSE RouterIdle /\ held' = held \ {s}
    /\ UNCHANGED <<live, pend, index, routerVars, order, heard, counters, days>>

-----------------------------------------------------------------------------
(* _release_late, on the thread of the feed's executor.  The feed may       *)
(* report an order more than once, and a failure of the send for an order   *)
(* that was or will be filled; the first report counts.                     *)

\* Mutant: no fired flag.
LateFilledEachTime(s) ==
    /\ order[s] = "filled"
    /\ heard' = [heard EXCEPT ![s] = "filled"]
    /\ fills < MaxSignals + 1
    /\ fills' = fills + 1 /\ pending' = Down(pending)
    /\ UNCHANGED <<live, gateVars, routerVars, order, open, days>>

\* Mutant: signals_pending is not bounded at zero.
LateFilledBelowZero(s) ==
    /\ order[s] = "filled"
    /\ IF heard[s] = "nothing"
       THEN /\ heard' = [heard EXCEPT ![s] = "filled"]
            /\ fills' = fills + 1 /\ pending' = pending - 1
       ELSE UNCHANGED <<heard, counters>>
    /\ UNCHANGED <<live, gateVars, routerVars, order, open, days>>

LateFilled(s) ==
    /\ order[s] = "filled"
    /\ IF heard[s] = "nothing"
       THEN /\ heard' = [heard EXCEPT ![s] = "filled"]
            /\ fills' = fills + 1 /\ pending' = Down(pending)
       ELSE UNCHANGED <<heard, counters>>
    /\ UNCHANGED <<live, gateVars, routerVars, order, open, days>>

\* Mutant: a late failure leaves signals_pending alone.
LateFailedStillPending(s) ==
    /\ order[s] \in {"sent", "filled", "failed"}
    /\ IF heard[s] = "nothing"
       THEN /\ heard' = [heard EXCEPT ![s] = "failed"]
            /\ Release(attr[s])
       ELSE UNCHANGED <<heard, gateVars>>
    /\ UNCHANGED <<live, routerVars, order, open, counters, days>>

LateFailed(s) ==
    /\ order[s] \in {"sent", "filled", "failed"}
    /\ IF heard[s] = "nothing"
       THEN /\ heard' = [heard EXCEPT ![s] = "failed"]
            /\ pending' = Down(pending)
            /\ Release(attr[s])
       ELSE UNCHANGED <<heard, pending, gateVars>>
    /\ UNCHANGED <<live, routerVars, order, open, fills, days>>

\* The launcher's loop: health.reset_daily_counters, which spares live_fills.
ResetDailyCounters ==
    /\ days < MaxDays
    /\ days' = days + 1
    /\ pending' = 0
    /\ UNCHANGED <<live, gateVars, routerVars, order, open, heard, fills>>

Next ==
    \/ \E a \in Emits : GateAllows(a)
    \/ BlendRejects \/ BlendAccepts
    \/ PaperFilled
    \/ NoOrder
    \/ QueueOrder \/ WaitExpires \/ CountSent
    \/ \E s \in Signal : \/ Transmit(s) \/ BrokerDecides(s)
                         \/ PositionCloses(s)
                         \/ LateFilled(s) \/ LateFailed(s)
    \/ ResetDailyCounters

Spec == Init /\ [][Next]_vars

\* event.wait ends by its timeout, the evaluation returns, and the reactor
\* runs what was handed to it before it reads the next message.
FairSpec ==
    /\ Spec
    /\ WF_vars(WaitExpires) /\ WF_vars(CountSent)
    /\ WF_vars(BlendRejects \/ BlendAccepts)
    /\ WF_vars(PaperFilled \/ NoOrder \/ QueueOrder)
    /\ \A s \in Signal : WF_vars(Transmit(s))

-----------------------------------------------------------------------------
(* Properties.                                                             *)

\* The gate never counts more than MAX_ATRISK_PER_SYMBOL slots for a symbol
\* (CorrelationGate.check), although a late failure may free the slot of the
\* signal that is being routed before it is attached.
GateCap == \A y \in Symbols : AtRisk(y) <= MaxAtRisk

\* _pending names only slots that exist, whatever releases them: what the
\* sweep of orphans in CorrelationGate.release is for.
IndexNamesSlots ==
    \A k \in Symbols \X Strategies :
        index[k] # NoSlot => \E p \in pend : Key(p) = k /\ p.n = index[k]

\* health.live_fills is the number of orders whose fill was heard first,
\* however often the feed reports an order (fired in _release_late).
FillsExact ==
    fills = Cardinality({s \in Signal : heard[s] = "filled"})

\* signals_pending never exceeds the number of orders that still wait for a
\* verdict, through late verdicts, duplicates and daily resets.
Counted == {s \in Signal : order[s] # "none" /\ ~(s = cur)}
PendingBounded ==
    pending <= Cardinality({s \in Counted : heard[s] = "nothing"})

\* The evaluation waits on the reactor's own thread for a request only that
\* thread can send; the timeout of event.wait is what ends it, so that every
\* order handed to the reactor is sent in the end.
EveryOrderSent ==
    \A s \in Signal : order[s] = "queued" ~> order[s] # "queued"

\* The comment in new_order on its timeout + 5: the deferred gets a chance to
\* fire before the wait expires; so the request is sent by then.
SentWhileWaiting == at = "count" => order[cur] # "queued"

\* MAX_ATRISK_PER_SYMBOL, "max 3 at-risk per symbol", of the positions and
\* the orders under way rather than of the slots.
AtRiskCap ==
    \A y \in Symbols :
        Cardinality({s \in Signal : /\ attr[s].sym = y
                                    /\ \/ s \in open
                                       \/ order[s] \in {"queued", "sent"}})
            <= MaxAtRisk
=============================================================================
