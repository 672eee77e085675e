-------------------------- MODULE ConnectionState ---------------------------
(***************************************************************************)
(* The table of connection_state.py: which transitions a                   *)
(* ConnectionStateManager applies.  A transition that is not in the table  *)
(* is logged and rejected; the caller goes on as if nothing had happened.  *)
(***************************************************************************)

States == {"disconnected", "connecting", "connected", "app_auth", "acct_auth",
           "authenticated", "suspended", "subscribing", "degraded",
           "reconnecting", "failed"}

\* _VALID_TRANSITIONS
Valid ==
    [disconnected  |-> {"disconnected", "connecting"},
     connecting    |-> {"connecting", "connected", "failed", "disconnected"},
     connected     |-> {"connected", "app_auth", "disconnected", "reconnecting"},
     app_auth      |-> {"acct_auth", "failed", "reconnecting"},
     acct_auth     |-> {"authenticated", "failed", "reconnecting"},
     authenticated |-> {"authenticated", "degraded", "reconnecting", "disconnected",
                        "failed", "suspended", "subscribing"},
     suspended     |-> {"suspended", "connecting", "disconnected"},
     subscribing   |-> {"subscribing", "authenticated", "reconnecting"},
     degraded      |-> {"degraded", "authenticated", "reconnecting", "disconnected",
                        "failed"},
     reconnecting  |-> {"reconnecting", "connecting", "connected", "app_auth", "failed",
                        "disconnected"},
     failed        |-> {"failed", "disconnected", "connecting", "reconnecting",
                        "connected", "app_auth"}]

\* Mutant: the table is not consulted.
MovedAlways(s, target) == target

\* The state after transition_to(target) in state s.
Moved(s, target) == IF target \in Valid[s] THEN target ELSE s

\* is_operational
Operational(s) == s \in {"authenticated", "degraded"}
=============================================================================
