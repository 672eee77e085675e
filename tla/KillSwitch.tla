----------------------------- MODULE KillSwitch -----------------------------
(***************************************************************************)
(* The global kill switch: KillSwitchManager (kill_switch.py) and the gate *)
(* that reads it, ExecutionPermissionPolicy (execution_permission.py).     *)
(*                                                                         *)
(* Several managers live on one state directory: the engine's, the one the *)
(* risk guard builds for itself when none was injected, the watchdog's and *)
(* the command line's.  A manager reads the file once, when it is built,   *)
(* and then serves from memory.                                            *)
(*                                                                         *)
(* The RLock serialises the operations of one manager, so a manager has    *)
(* one program point; readers take no lock and see every point.  The       *)
(* reason, the timestamps, the close count and history.jsonl are only      *)
(* ever written or shown and are left out.                                 *)
(***************************************************************************)

CONSTANTS
    Manager,   \* managers on the state directory
    Disabled   \* those with _disabled = True (the class default)

ASSUME DisabledAssumption == Disabled \subseteq Manager

VARIABLES
    state,     \* _state
    killed,    \* _killed_cache
    frozen,    \* _frozen_cache
    pc, op,    \* the operation under the lock (or the last one), and where it is
    file,      \* global.state
    synced,    \* history: the file still is what the manager last wrote or read
    standing   \* history: a KILL was activated and saved, nothing ended it since

memVars == <<state, killed, frozen>>
ghostVars == <<synced, standing>>
vars == <<memVars, pc, op, file, ghostVars>>

\* GlobalKillState; positions_closed is False while positions still must be closed.
State == [active : BOOLEAN, mode : {"kill", "freeze"}, closed : BOOLEAN]
Default == [active |-> FALSE, mode |-> "kill", closed |-> FALSE]
Active(mode, closed) == [active |-> TRUE, mode |-> mode, closed |-> closed]
IsKill(s) == s.active /\ s.mode = "kill"
IsFreeze(s) == s.active /\ s.mode = "freeze"

\* What the file holds: garbled is not JSON; unreadable is JSON that is not an
\* object, or not UTF-8.
Content == [kind : {"missing", "garbled", "unreadable", "ok"}, state : State]
Holding(s) == [kind |-> "ok", state |-> s]
Without(kind) == [kind |-> kind, state |-> Default]

Ops == {"none", "kill", "freeze", "recover", "auto_clear", "closed", "failsafe"}
Points == {"down", "load", "failed", "ready", "flag_killed", "flag_frozen", "write",
           "rename", "return"}

Init == /\ state = [m \in Manager |-> Default]
        /\ killed = [m \in Manager |-> FALSE]
        /\ frozen = [m \in Manager |-> FALSE]
        /\ pc = [m \in Manager |-> "down"]
        /\ op = [m \in Manager |-> "none"]
        /\ file = Without("missing")
        /\ synced = [m \in Manager |-> FALSE]
        /\ standing = [m \in Manager |-> FALSE]

Goto(m, l) == pc' = [pc EXCEPT ![m] = l]
Set(m, s) == state' = [state EXCEPT ![m] = s]
Mark(m, o) == op' = [op EXCEPT ![m] = o]
Ends(m) == standing' = [standing EXCEPT ![m] = FALSE]

-----------------------------------------------------------------------------
(* The constructor.                                                        *)

Boot(m) ==
    /\ pc[m] \in {"down", "failed"}
    /\ Goto(m, "load")
    /\ UNCHANGED <<memVars, op, file, ghostVars>>

\* The cached flags, computed from the state that was loaded.
Flags(m, s) == /\ killed' = [killed EXCEPT ![m] = IsKill(s)]
               /\ frozen' = [frozen EXCEPT ![m] = IsFreeze(s)]

\* No file: start INACTIVE.
LoadMissing(m) ==
    /\ pc[m] = "load"
    /\ file.kind = "missing"
    /\ Flags(m, Default)
    /\ Goto(m, "ready")
    /\ UNCHANGED <<state, op, file, ghostVars>>

\* Mutant: positions that were closed are taken for a kill that is over.
LoadOkSettled(m) ==
    /\ pc[m] = "load"
    /\ file.kind = "ok"
    /\ LET s == IF file.state.closed THEN Default ELSE file.state
       IN  Set(m, s) /\ Flags(m, s)
    /\ synced' = [synced EXCEPT ![m] = FALSE]
    /\ Goto(m, "ready")
    /\ UNCHANGED <<op, file, standing>>

LoadOk(m) ==
    /\ pc[m] = "load"
    /\ file.kind = "ok"
    /\ Set(m, file.state)
    /\ Flags(m, file.state)
    /\ synced' = [synced EXCEPT ![m] = TRUE]
    /\ Goto(m, "ready")
    /\ UNCHANGED <<op, file, standing>>

\* Not JSON: KILL, and the file is rewritten.
LoadCorrupt(m) ==
    /\ pc[m] = "load"
    /\ file.kind = "garbled"
    /\ Set(m, Active("kill", FALSE))
    /\ Mark(m, "failsafe")
    /\ Goto(m, "write")
    /\ UNCHANGED <<killed, frozen, file, ghostVars>>

\* AttributeError and UnicodeDecodeError are not caught: no manager is built.
LoadRaises(m) ==
    /\ pc[m] = "load"
    /\ file.kind = "unreadable"
    /\ Goto(m, "failed")
    /\ UNCHANGED <<memVars, op, file, ghostVars>>

-----------------------------------------------------------------------------
(* The operations.  Each takes the lock, swaps the state object, and goes  *)
(* on with the flags and the file.                                         *)

\* Mutant: an active freeze is cleared before the kill is set.
ActivateKillAfresh(m, close) ==
    /\ pc[m] = "ready"
    /\ m \notin Disabled
    /\ Set(m, Active("kill", ~close))
    /\ Flags(m, Default)
    /\ Mark(m, "kill")
    /\ Goto(m, "flag_killed")
    /\ UNCHANGED <<file, ghostVars>>

\* activate_global_kill(close_positions)
ActivateKill(m, close) ==
    /\ pc[m] = "ready"
    /\ m \notin Disabled
    /\ Set(m, Active("kill", ~close))
    /\ Mark(m, "kill")
    /\ Goto(m, "flag_killed")
    /\ UNCHANGED <<killed, frozen, file, ghostVars>>

\* activate_global_freeze, also by way of activate_profit_target_freeze; it does
\* not look at what is active.
ActivateFreeze(m) ==
    /\ pc[m] = "ready"
    /\ m \notin Disabled
    /\ Set(m, Active("freeze", TRUE))
    /\ Mark(m, "freeze")
    /\ Ends(m)
    /\ Goto(m, "flag_killed")
    /\ UNCHANGED <<killed, frozen, file, synced>>

\* An activation of a disabled manager returns at once.
Suppressed(m) ==
    /\ pc[m] = "ready"
    /\ m \in Disabled
    /\ \E o \in {"kill", "freeze"} : Mark(m, o)
    /\ UNCHANGED <<memVars, pc, file, ghostVars>>

\* deactivate(); it works on a disabled manager too.
Deactivate(m, caller) ==
    /\ pc[m] = "ready"
    /\ state[m].active
    /\ Set(m, Default)
    /\ Mark(m, caller)
    /\ Ends(m)
    /\ Goto(m, "flag_killed")
    /\ UNCHANGED <<killed, frozen, file, synced>>

\* The recover command first asks is_active(), which a disabled manager denies.
Recover(m) == m \notin Disabled /\ Deactivate(m, "recover")

\* _auto_clear_kill_switch of the feed, after a successful authentication: the
\* bound method is_active is always true, so it deactivates whatever is active.
AutoClear(m) == Deactivate(m, "auto_clear")

\* Mutant: the change stays in memory.
RecordClosedUnsaved(m) ==
    /\ pc[m] = "ready"
    /\ Set(m, [state[m] EXCEPT !.closed = TRUE])
    /\ UNCHANGED <<killed, frozen, pc, op, file, ghostVars>>

\* record_positions_closed, whatever the state is.
RecordClosed(m) ==
    /\ pc[m] = "ready"
    /\ Set(m, [state[m] EXCEPT !.closed = TRUE])
    /\ Mark(m, "closed")
    /\ Goto(m, "write")
    /\ UNCHANGED <<killed, frozen, file, ghostVars>>

\* self._killed_cache = ...
SetKilled(m) ==
    /\ pc[m] = "flag_killed"
    /\ killed' = [killed EXCEPT ![m] = IsKill(state[m])]
    /\ Goto(m, "flag_frozen")
    /\ UNCHANGED <<state, frozen, op, file, ghostVars>>

\* Mutant: an activation leaves the other flag alone.
SetFrozenOnly(m) ==
    /\ pc[m] = "flag_frozen"
    /\ frozen' = [frozen EXCEPT ![m] = frozen[m] \/ IsFreeze(state[m])]
    /\ Goto(m, "write")
    /\ UNCHANGED <<state, killed, op, file, ghostVars>>

\* self._frozen_cache = ...
SetFrozen(m) ==
    /\ pc[m] = "flag_frozen"
    /\ frozen' = [frozen EXCEPT ![m] = IsFreeze(state[m])]
    /\ Goto(m, "write")
    /\ UNCHANGED <<state, killed, op, file, ghostVars>>

-----------------------------------------------------------------------------
(* _save_state: a temporary file, then rename; a failure is logged only.   *)

\* Mutant: the state file is opened for writing, which truncates it.
WriteInPlace(m) ==
    /\ pc[m] = "write"
    /\ file' = Without("garbled")
    /\ Goto(m, "rename")
    /\ UNCHANGED <<memVars, op, ghostVars>>

WriteTemp(m) ==
    /\ pc[m] = "write"
    /\ Goto(m, "rename")
    /\ UNCHANGED <<memVars, op, file, ghostVars>>

Rename(m) ==
    /\ pc[m] = "rename"
    /\ file' = Holding(state[m])
    /\ synced' = [x \in Manager |-> x = m]
    /\ standing' = [x \in Manager |-> x = m /\ standing[x]]
    /\ Goto(m, "return")
    /\ UNCHANGED <<memVars, op>>

SaveFails(m) ==
    /\ pc[m] \in {"write", "rename"}
    /\ synced' = [synced EXCEPT ![m] = FALSE]
    /\ Goto(m, "return")
    /\ UNCHANGED <<memVars, op, file, standing>>

\* The lock is released; in the constructor, the flags are computed now.
Return(m) ==
    /\ pc[m] = "return"
    /\ IF op[m] = "failsafe" THEN Flags(m, state[m]) ELSE UNCHANGED <<killed, frozen>>
    /\ standing' = [standing EXCEPT ![m] =
                       @ \/ (op[m] \in {"kill", "failsafe"} /\ synced[m])]
    /\ Goto(m, "ready")
    /\ UNCHANGED <<state, op, file, synced>>

-----------------------------------------------------------------------------
(* The environment.                                                        *)

\* The process dies or is stopped; what is not in the file is gone.
Crash(m) ==
    /\ pc[m] \notin {"down", "failed"}
    /\ Goto(m, "down")
    /\ Set(m, Default)
    /\ Flags(m, Default)
    /\ Mark(m, "none")
    /\ UNCHANGED <<file, ghostVars>>

\* Somebody or something damages or removes the file.
Damage ==
    /\ \E kind \in {"missing", "garbled", "unreadable"} : file' = Without(kind)
    /\ synced' = [m \in Manager |-> FALSE]
    /\ standing' = [m \in Manager |-> FALSE]
    /\ UNCHANGED <<memVars, pc, op>>

Load(m) == LoadMissing(m) \/ LoadOk(m) \/ LoadCorrupt(m) \/ LoadRaises(m)
Call(m) == \/ \E close \in BOOLEAN : ActivateKill(m, close)
           \/ ActivateFreeze(m) \/ Suppressed(m) \/ Recover(m) \/ AutoClear(m)
           \/ RecordClosed(m)
Step(m) == \/ SetKilled(m) \/ SetFrozen(m) \/ WriteTemp(m) \/ Rename(m)
           \/ SaveFails(m) \/ Return(m)

Next == \/ \E m \in Manager : Boot(m) \/ Load(m) \/ Call(m) \/ Step(m) \/ Crash(m)
        \/ Damage

Spec == Init /\ [][Next]_vars

-----------------------------------------------------------------------------
\* ExecutionPermissionPolicy._check_kill_switch: an order may be sent, cancelled,
\* amended, or a position closed.
Allows(m) == m \in Disabled \/ ~state[m].active

TypeOK == /\ state \in [Manager -> State]
          /\ killed \in [Manager -> BOOLEAN]
          /\ frozen \in [Manager -> BOOLEAN]
          /\ pc \in [Manager -> Points]
          /\ op \in [Manager -> Ops]
          /\ file \in Content
          /\ synced \in [Manager -> BOOLEAN]
          /\ standing \in [Manager -> BOOLEAN]

\* The fast path agrees with the state: between operations is_globally_killed and
\* is_globally_frozen answer what _state says, however the manager got there
\* (an operation, a load, the fail-safe).
FlagsAgree == \A m \in Manager : pc[m] = "ready" =>
                 /\ killed[m] = IsKill(state[m])
                 /\ frozen[m] = IsFreeze(state[m])

\* "In-memory fast path with file durability": between operations, unless a save
\* failed or somebody else changed the file, it holds exactly the memory state.
FileHoldsState == \A m \in Manager :
    pc[m] = "ready" /\ synced[m] => file = Holding(state[m])

\* A KILL whose save succeeded stays in force through crashes at any point and
\* restarts: a manager that is up is killed and its gate is closed, until it is
\* deactivated or downgraded to a freeze, the file is damaged, or another manager
\* overwrites it.
KillOutlivesCrash == \A m \in Manager :
    standing[m] /\ pc[m] = "ready" => killed[m] /\ (m \notin Disabled => ~Allows(m))

\* "Atomic file writes: temp + rename, never partial writes": no step of a
\* manager, a crash included, leaves a file that the next start cannot load.
NeverTorn == [][file'.kind # "ok" /\ file' # file => Damage]_vars

\* Where a manager is, as the register knows it.
PhaseAt(l) == CASE l \in {"down", "load", "failed"} -> "off"
                [] l \in {"ready", "return"} -> "on"
                [] OTHER -> "dirty"
Phases == [m \in Manager |-> PhaseAt(pc[m])]

\* The managers, their flags, their locks and the two steps of _save_state keep the
\* state as SwitchRegister says: each decision of activate_global_kill,
\* activate_global_freeze, deactivate or record_positions_closed goes to the file
\* whole or not at all before the next one, and a start serves what is in the file.
Register == INSTANCE SwitchRegister WITH
    Owner <- Manager,
    Decision <- State,
    Blank <- Default,
    FailSafe <- Active("kill", FALSE),
    phase <- Phases,
    decided <- state,
    health <- file.kind,
    kept <- file.state,
    current <- synced
RegisterSpec == Register!Spec

\* A lock-free reader of the two flags stops seeing a block only because the switch
\* is deactivated, the process ends, or a KILL is downgraded: an escalation from
\* FREEZE to KILL never looks like trading being allowed.
Shown(m) == killed[m] \/ frozen[m]
EscalationHasNoGap ==
    [][\A m \in Manager : Shown(m) /\ ~Shown(m)' =>
          pc'[m] = "down" \/ op'[m] \in {"recover", "auto_clear", "freeze"}]_vars

-----------------------------------------------------------------------------
(* What the documentation promises and the code does not keep.             *)

\* "Single source of truth for all kill switch state. Used by ForwardTestEngine,
\* PaperTrader, and external interfaces": when nobody is in an operation and the
\* file says KILL, every enabled manager that is up is killed.
SingleSourceOfTruth ==
    (\A m \in Manager : pc[m] \in {"down", "ready"}) /\ file.kind = "ok" /\ IsKill(file.state)
    => \A m \in Manager : pc[m] = "ready" /\ m \notin Disabled => killed[m]
=============================================================================
