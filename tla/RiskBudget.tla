----------------------------- MODULE RiskBudget -----------------------------
(***************************************************************************)
(* What SLPositionSizer promises of its risk budget, without saying how    *)
(* identities are found: the reservation of a signal is made at most once  *)
(* and ended at most once, by a cancel, a close or a rebuild from the      *)
(* broker; a realised loss is added to the daily figure only in the step   *)
(* that ends the reservation it belongs to, and is durable at once.        *)
(***************************************************************************)
EXTENDS Naturals

CONSTANTS Signal,  \* identities a strategy's signal is reserved under
          Other,   \* identities a rebuild or a restart may reserve
          Loss     \* amounts a close may realise, 0 for a win

VARIABLES held,    \* identities with a reservation
          ended,   \* signals whose reservation has ended
          used,    \* risk used today by realised losses
          saved    \* the figure a restart comes back with

budgetVars == <<held, ended, used, saved>>

Init == held = {} /\ ended = {} /\ used = 0 /\ saved = 0

Reserve(s) == /\ s \notin held \cup ended
              /\ held' = held \cup {s}
              /\ UNCHANGED <<ended, used, saved>>

End(s) == /\ s \in held
          /\ held' = held \ {s}
          /\ ended' = ended \cup {s}

Release(s) == End(s) /\ UNCHANGED <<used, saved>>

Realise(s, l) == End(s) /\ used' = used + l /\ saved' = used + l

\* All reservations are replaced; the signals among them have ended.
Replace == /\ held' \in SUBSET Other
           /\ ended' = ended \cup (held \cap Signal)

Rebuild == Replace /\ UNCHANGED <<used, saved>>

\* A restart, clean (saved = used before) or not.
Restart == Replace /\ saved' \in {saved, used} /\ used' = saved'

NewDay == used' = 0 /\ UNCHANGED <<held, ended, saved>>

\* The first signal of a day resets the day's figure and is reserved at once.
NewDayReserve(s) == /\ s \notin held \cup ended
                    /\ held' = held \cup {s}
                    /\ used' = 0
                    /\ UNCHANGED <<ended, saved>>

Next == \/ \E s \in Signal : \/ Reserve(s)
                             \/ NewDayReserve(s)
                             \/ Release(s)
                             \/ \E l \in Loss : Realise(s, l)
        \/ Rebuild
        \/ Restart
        \/ NewDay

Spec == Init /\ [][Next]_budgetVars
=============================================================================
