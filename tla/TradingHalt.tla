---------------------------- MODULE TradingHalt ----------------------------
(***************************************************************************)
(* What the drawdown limits are for: two halts, and positions that are     *)
(* opened only while neither is in force.  A daily halt ends at UTC        *)
(* midnight and not before, a total one by a reset and not otherwise.      *)
(* There is no memory that differs from the file, so a crash closes the    *)
(* positions and touches nothing else.                                     *)
(***************************************************************************)
EXTENDS Integers

VARIABLES
    daily,      \* a daily loss has halted trading
    total,      \* a total drawdown has halted trading
    evening,    \* the trading day has rolled, UTC midnight is still ahead
    positions   \* positions that are open

haltVars == <<daily, total, evening, positions>>

Init == daily = FALSE /\ total = FALSE /\ evening = FALSE /\ positions = 0

\* The only way to one position more.
Opens ==
    /\ ~daily /\ ~total
    /\ positions' = positions + 1
    /\ UNCHANGED <<daily, total, evening>>

\* A close may show that the day's loss is at its limit.
Closes ==
    /\ positions > 0
    /\ positions' = positions - 1
    /\ daily' \in {daily, TRUE}
    /\ UNCHANGED <<total, evening>>

\* A halt is declared where none was in force, by a signal that is then refused.
HaltsDaily ==
    /\ ~daily /\ ~total
    /\ daily' = TRUE
    /\ UNCHANGED <<total, evening, positions>>

HaltsTotal ==
    /\ ~daily /\ ~total
    /\ total' = TRUE
    /\ UNCHANGED <<daily, evening, positions>>

Crashes ==
    /\ positions' = 0
    /\ UNCHANGED <<daily, total, evening>>

\* A reset lifts a total halt, unless a daily one is in force as well.
Resets ==
    /\ total /\ ~daily
    /\ total' = FALSE
    /\ UNCHANGED <<daily, evening, positions>>

DayRolls ==
    /\ ~evening
    /\ evening' = TRUE
    /\ UNCHANGED <<daily, total, positions>>

Midnight ==
    /\ evening
    /\ evening' = FALSE
    /\ daily' = FALSE
    /\ UNCHANGED <<total, positions>>

Next == \/ Opens \/ Closes \/ HaltsDaily \/ HaltsTotal \/ Crashes \/ Resets
        \/ DayRolls \/ Midnight

Spec == Init /\ [][Next]_haltVars
=============================================================================
