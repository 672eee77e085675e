--------------------------- MODULE SwitchRegister ---------------------------
(***************************************************************************)
(* What the kill switch's state file is for: a register that several       *)
(* managers decide on and that outlives them.  A manager adopts what was   *)
(* kept when it starts, keeps each decision whole or not at all before it  *)
(* takes the next, and takes a register that it cannot make out for the    *)
(* fail-safe decision.  There are no flags, no temporary file and no lock. *)
(***************************************************************************)
CONSTANTS
    Owner,      \* the managers
    Decision,   \* what a manager may decide
    Blank,      \* no decision
    FailSafe    \* what a damaged register means

VARIABLES
    phase,      \* of each manager: "off", "on", "dirty" (decided, not yet kept)
    decided,    \* what each manager serves
    health,     \* of the register: "ok", "missing", "garbled", "unreadable"
    kept,       \* what the register holds
    current     \* of each manager: it still holds what it last kept or adopted

registerVars == <<phase, decided, health, kept, current>>

Moves(m, p, d) == /\ phase' = [phase EXCEPT ![m] = p]
                  /\ decided' = [decided EXCEPT ![m] = d]

Init == /\ phase = [m \in Owner |-> "off"]
        /\ decided = [m \in Owner |-> Blank]
        /\ health = "missing"
        /\ kept = Blank
        /\ current = [m \in Owner |-> FALSE]

\* A manager starts with what is kept, or with nothing.
Adopt(m) ==
    /\ phase[m] = "off"
    /\ health \in {"ok", "missing"}
    /\ Moves(m, "on", IF health = "ok" THEN kept ELSE Blank)
    /\ current' = [current EXCEPT ![m] = health = "ok"]
    /\ UNCHANGED <<health, kept>>

\* A register that cannot be parsed counts as the fail-safe decision.
FailClosed(m) ==
    /\ phase[m] = "off"
    /\ health = "garbled"
    /\ Moves(m, "dirty", FailSafe)
    /\ UNCHANGED <<health, kept, current>>

Decide(m) ==
    /\ phase[m] = "on"
    /\ \E d \in Decision : Moves(m, "dirty", d)
    /\ UNCHANGED <<health, kept, current>>

\* The decision is kept, whole,
Keep(m) ==
    /\ phase[m] = "dirty"
    /\ Moves(m, "on", decided[m])
    /\ health' = "ok"
    /\ kept' = decided[m]
    /\ current' = [x \in Owner |-> x = m]

\* or what was kept stays.
KeepFails(m) ==
    /\ phase[m] = "dirty"
    /\ Moves(m, "on", decided[m])
    /\ current' = [current EXCEPT ![m] = FALSE]
    /\ UNCHANGED <<health, kept>>

Stop(m) ==
    /\ phase[m] # "off"
    /\ Moves(m, "off", Blank)
    /\ UNCHANGED <<health, kept, current>>

\* Damage from outside leaves nobody current: no manager damages the register.
Damage ==
    /\ health' \in {"missing", "garbled", "unreadable"}
    /\ kept' = Blank
    /\ current' = [m \in Owner |-> FALSE]
    /\ UNCHANGED <<phase, decided>>

Next == \/ \E m \in Owner : \/ Adopt(m) \/ FailClosed(m) \/ Decide(m)
                            \/ Keep(m) \/ KeepFails(m) \/ Stop(m)
        \/ Damage

Spec == Init /\ [][Next]_registerVars
=============================================================================
