-------------------------- MODULE RiskGuardProofs --------------------------
(***************************************************************************)
(* The halts of RiskGuard hold for every starting balance, every limit,    *)
(* every set of results and any number of positions.                       *)
(*                                                                         *)
(* A halt is decided in memory and must be honoured by the process that    *)
(* comes after a crash, so the argument goes through the file: what was    *)
(* declared stands in the file (Declared), what stands in the file stands  *)
(* in memory (HaltPersisted), and what stands in memory refuses the signal *)
(* (Admitted).                                                             *)
(***************************************************************************)
EXTENDS RiskGuard, TLAPS

\* A sync that is under way, or goes on after a failure, has read a balance.
SyncHasBalance == sync.at # "idle" => sync.bal \in Money

\* A declared halt is in the file until its midnight, its reset.
Declared == /\ halted => file.until = "ahead"
            /\ stopped => file.breaker

IInv == TypeOK /\ SyncHasBalance /\ HaltPersisted /\ Declared

-----------------------------------------------------------------------------
\* _update_daily_tracking keeps the balance, the breaker and the block.
LEMMA TrackKeeps ==
    ASSUME NEW g \in Guard
    PROVE  /\ Track(g) \in Guard
           /\ Track(g).cur = g.cur
           /\ Track(g).breaker = g.breaker
           /\ Track(g).until = g.until
    BY DEF Track, Guard

\* A guard that a balance was assigned to is a guard.
LEMMA WithBalance ==
    ASSUME NEW g \in Guard, NEW b \in Money
    PROVE  /\ [g EXCEPT !.cur = b] \in Guard
           /\ [g EXCEPT !.cur = b].breaker = g.breaker
           /\ [g EXCEPT !.cur = b].until = g.until
    BY DEF Guard

\* The two halts, and what each leaves of the other.
LEMMA Triggered ==
    ASSUME NEW g \in Guard
    PROVE  /\ Halt(g) \in Guard /\ Halt(g).until = "ahead" /\ Halt(g).breaker = g.breaker
           /\ Stop(g) \in Guard /\ Stop(g).until = "none" /\ Stop(g).breaker
    BY DEF Halt, Stop, Guard

\* One more trade.
LEMMA RecordedKeeps ==
    ASSUME NEW g \in Guard
    PROVE  /\ Recorded(g) \in Guard
           /\ Recorded(g).breaker = g.breaker
           /\ Recorded(g).until = g.until
<1> DEFINE h == [g EXCEPT !.count = @ + 1]
<1>1. h \in Guard /\ h.breaker = g.breaker /\ h.until = g.until
    BY DEF Guard
<1> HIDE DEF h
<1>2. Track(h) \in Guard /\ Track(h).breaker = h.breaker /\ Track(h).until = h.until
    BY <1>1, TrackKeeps
<1> QED
    BY <1>1, <1>2 DEF Recorded, h

\* _restore_state keeps the breaker and a block that still runs.
LEMMA RestoreKeeps ==
    ASSUME NEW f \in Guard
    PROVE  /\ Restore(f) \in Guard
           /\ Restore(f).breaker = f.breaker
           /\ (Restore(f).until = "ahead") = (f.until = "ahead")
    BY DEF Restore, Guard

\* What check_trade_allowed works with.
LEMMA CheckedKeeps ==
    ASSUME TypeOK
    PROVE  /\ Checked \in Guard
           /\ Checked.breaker = guard.breaker
           /\ Checked.until = guard.until
<1>1. guard \in Guard /\ paper \in Money
    BY DEF TypeOK
<1> DEFINE g == [guard EXCEPT !.cur = paper]
<1>2. g \in Guard /\ g.breaker = guard.breaker /\ g.until = guard.until
    BY <1>1, WithBalance
<1> HIDE DEF g
<1> QED
    BY <1>2, TrackKeeps DEF Checked, g

-----------------------------------------------------------------------------
LEMMA InitIInv == Init => IInv
<1> SUFFICES ASSUME Init PROVE IInv
    OBVIOUS
<1>1. Fresh \in Guard
    BY GuardAssumption DEF Fresh, Guard
<1>2. TypeOK
  <2>1. guard \in Guard /\ file \in Guard /\ paper \in Money
    BY <1>1, GuardAssumption DEF Init
  <2>2. realized \in Int /\ open \in 0..MaxOpen
    BY GuardAssumption DEF Init
  <2>3. sync \in [at : {"idle", "fetched", "updated", "rolling", "paper", "live"},
                 bal : Money \cup {0}]
    BY DEF Init, Idle
  <2> QED
    BY <2>1, <2>2, <2>3, Zenon DEF Init, TypeOK
<1>3. SyncHasBalance /\ HaltPersisted /\ Declared
    BY DEF Init, SyncHasBalance, HaltPersisted, Declared, Idle
<1> QED
    BY <1>2, <1>3 DEF IInv

LEMMA NextIInv == IInv /\ [Next]_vars => IInv'
<1> SUFFICES ASSUME IInv, [Next]_vars PROVE IInv'
    OBVIOUS
<1> USE GuardAssumption
<1>t. TypeOK /\ SyncHasBalance /\ HaltPersisted /\ Declared
    BY DEF IInv
<1>g. guard \in Guard /\ file \in Guard /\ paper \in Money
    BY <1>t DEF TypeOK
<1>c. Checked \in Guard /\ Checked.breaker = guard.breaker /\ Checked.until = guard.until
    BY <1>t, CheckedKeeps
<1>1. CASE SignalHalts
  <2>1. guard' \in Guard /\ guard'.until = "ahead" /\ guard'.breaker = guard.breaker
        /\ file' = guard'
    BY <1>1, <1>c, Triggered DEF SignalHalts
  <2> QED
    BY <1>1, <1>t, <2>1 DEF SignalHalts, Admitted, IInv, TypeOK, SyncHasBalance,
       HaltPersisted, Declared, traderVars, syncVars
<1>2. CASE SignalStops
  <2>1. guard' \in Guard /\ guard'.until = "none" /\ guard'.breaker /\ file' = guard'
    BY <1>2, <1>c, Triggered DEF SignalStops
  <2> QED
    BY <1>2, <1>t, <2>1 DEF SignalStops, Admitted, IInv, TypeOK, SyncHasBalance,
       HaltPersisted, Declared, traderVars, syncVars
<1>3. CASE SignalRefused
    BY <1>3, <1>t, <1>c DEF SignalRefused, IInv, TypeOK, SyncHasBalance,
       HaltPersisted, Declared, traderVars, syncVars, ghostVars
<1>4. CASE SignalOpens
    BY <1>4, <1>t, <1>c DEF SignalOpens, IInv, TypeOK, SyncHasBalance,
       HaltPersisted, Declared, syncVars, ghostVars
<1>5. ASSUME NEW pnl \in PnL, TickCloses(pnl) PROVE IInv'
  <2>1. PICK g : g = Recorded(guard)
    OBVIOUS
  <2>2. g \in Guard /\ g.breaker = guard.breaker /\ g.until = guard.until
    BY <1>g, <2>1, RecordedKeeps
  <2>3. guard' = IF DailyBreach(g) THEN Halt(g) ELSE g
    BY <1>5, <2>1 DEF TickCloses
  <2>4. guard' \in Guard /\ guard'.breaker = guard.breaker /\ file' = guard'
    BY <1>5, <2>2, <2>3, Triggered DEF TickCloses
  <2>5. halted' => guard'.until = "ahead"
    <3>1. CASE DailyBreach(g)
        BY <2>2, <2>3, <3>1, Triggered
    <3>2. CASE ~DailyBreach(g)
        <4>1. halted' = halted
            BY <1>5, <2>1, <3>2, <1>t DEF TickCloses, TypeOK
        <4>2. guard'.until = guard.until
            BY <2>2, <2>3, <3>2
        <4> QED
            BY <4>1, <4>2, <1>5, <1>t DEF Declared, HaltPersisted, TickCloses
    <3> QED
        BY <3>1, <3>2
  <2>6. halted' \in BOOLEAN
    BY <1>5, <1>t DEF TickCloses, TypeOK, DailyBreach
  <2>7. realized' \in Int /\ open' \in 0..MaxOpen
    BY <1>5, <1>t DEF TickCloses, TypeOK
  <2>8. TypeOK'
    BY <1>5, <1>t, <2>4, <2>6, <2>7 DEF TickCloses, TypeOK, syncVars
  <2> QED
    BY <1>5, <1>t, <2>4, <2>5, <2>8 DEF TickCloses, IInv, SyncHasBalance,
       HaltPersisted, Declared, syncVars
<1>6. ASSUME NEW b \in Money, TickEnds(b) PROVE IInv'
  <2>1. guard' \in Guard /\ guard'.breaker = guard.breaker /\ guard'.until = guard.until
    BY <1>6, <1>g, WithBalance DEF TickEnds
  <2> QED
    BY <1>6, <1>t, <2>1 DEF TickEnds, IInv, TypeOK, SyncHasBalance,
       HaltPersisted, Declared, syncVars, ghostVars
<1>7. ASSUME NEW b \in Money, SyncFetches(b) PROVE IInv'
    BY <1>7, <1>t DEF SyncFetches, At, IInv, TypeOK, SyncHasBalance,
       HaltPersisted, Declared, traderVars, ghostVars
<1>8. CASE SyncFails
    BY <1>8, <1>t DEF SyncFails, At, GoTo, IInv, TypeOK, SyncHasBalance,
       HaltPersisted, Declared, traderVars, ghostVars
<1>9. CASE SyncUpdates
  <2>1. guard' \in Guard /\ guard'.breaker = guard.breaker /\ guard'.until = guard.until
    BY <1>9, <1>g, <1>t, WithBalance DEF SyncUpdates, At, SyncHasBalance
  <2> QED
    BY <1>9, <1>t, <2>1 DEF SyncUpdates, At, GoTo, IInv, TypeOK, SyncHasBalance,
       HaltPersisted, Declared, traderVars, ghostVars
<1>10. CASE SyncTests
    BY <1>10, <1>t DEF SyncTests, At, GoTo, IInv, TypeOK, SyncHasBalance,
       HaltPersisted, Declared, traderVars, ghostVars
<1>11. CASE SyncRolls
  <2>1. guard' \in Guard /\ guard'.breaker = guard.breaker /\ guard'.until = guard.until
        /\ file' = guard'
    BY <1>11, <1>g, <1>t DEF SyncRolls, At, SyncHasBalance, Guard
  <2> QED
    BY <1>11, <1>t, <2>1 DEF SyncRolls, At, GoTo, IInv, TypeOK, SyncHasBalance,
       HaltPersisted, Declared, traderVars, ghostVars
<1>12. CASE SyncPaper
    BY <1>12, <1>t DEF SyncPaper, At, GoTo, IInv, TypeOK, SyncHasBalance,
       HaltPersisted, Declared, ghostVars
<1>13. CASE SyncLive
  <2>1. guard' \in Guard /\ guard'.breaker = guard.breaker /\ guard'.until = guard.until
        /\ file' = guard'
    BY <1>13, <1>g, <1>t, WithBalance DEF SyncLive, At, SyncHasBalance
  <2> QED
    BY <1>13, <1>t, <2>1 DEF SyncLive, At, GoTo, IInv, TypeOK, SyncHasBalance,
       HaltPersisted, Declared, traderVars, ghostVars
<1>14. CASE Crash
  <2>1. guard' \in Guard
    BY <1>14 DEF Crash, Fresh, Guard
  <2>2. sync' \in [at : {"idle", "fetched", "updated", "rolling", "paper", "live"},
                  bal : Money \cup {0}]
    BY <1>14 DEF Crash, Idle
  <2>3. realized' \in Int /\ open' \in 0..MaxOpen /\ paper' \in Money
    BY <1>14 DEF Crash
  <2>4. TypeOK'
    BY <1>14, <1>t, <2>1, <2>2, <2>3, Zenon DEF Crash, TypeOK, ghostVars
  <2>5. SyncHasBalance' /\ HaltPersisted' /\ Declared'
    BY <1>14, <1>t DEF Crash, Idle, SyncHasBalance, HaltPersisted, Declared, ghostVars
  <2> QED
    BY <2>4, <2>5 DEF IInv
<1>15. CASE Boot
    BY <1>15, <1>t, <1>g, RestoreKeeps DEF Boot, IInv, TypeOK, SyncHasBalance,
       HaltPersisted, Declared, traderVars, syncVars, ghostVars
<1>16. CASE BootAndReset
  <2>1. PICK g : g = Restore(file)
    OBVIOUS
  <2>2. g \in Guard /\ g.breaker = file.breaker
        /\ (g.until = "ahead") = (file.until = "ahead")
    BY <1>g, <2>1, RestoreKeeps
  <2>3. CASE g.breaker /\ g.until = "none"
    <3>1. PICK h : h = [g EXCEPT !.breaker = FALSE]
        OBVIOUS
    <3>2. h \in Guard /\ h.until = "none" /\ h.breaker = FALSE
        BY <2>2, <2>3, <3>1 DEF Guard
    <3>3. /\ guard' = [h EXCEPT !.start = h.cur, !.count = 0]
          /\ file' = h
          /\ stopped' = FALSE
        BY <1>16, <2>1, <2>2, <2>3, <3>1 DEF BootAndReset, Guard
    <3>4. guard' \in Guard /\ guard'.until = "none" /\ guard'.breaker = FALSE
        BY <3>2, <3>3 DEF Guard
    <3>5. halted' = halted /\ ~halted
        BY <1>16, <1>t, <2>2, <2>3 DEF BootAndReset, Declared
    <3>6. TypeOK'
      <4>1. /\ up' = TRUE /\ live' = live /\ ticking' = ticking /\ evening' = evening
            /\ paper' = paper /\ realized' = realized /\ open' = open /\ sync' = sync
        BY <1>16 DEF BootAndReset, traderVars, syncVars
      <4>2. file' \in Guard /\ halted' = FALSE
        BY <3>2, <3>3, <3>5, <1>t DEF TypeOK
      <4>3. stopped' = FALSE /\ guard' \in Guard
        BY <3>3, <3>4
      <4> QED
        BY <1>t, <4>1, <4>2, <4>3 DEF TypeOK
    <3>7. SyncHasBalance' /\ HaltPersisted' /\ Declared'
      <4>1. SyncHasBalance'
        BY <1>16, <1>t DEF BootAndReset, SyncHasBalance, syncVars
      <4>2. file'.breaker = FALSE /\ file'.until = "none"
        BY <3>2, <3>3
      <4>3. HaltPersisted'
        BY <4>2, <3>4 DEF HaltPersisted
      <4>4. Declared'
        BY <3>3, <3>5, Zenon DEF Declared
      <4> QED
        BY <4>1, <4>3, <4>4
    <3> QED
        BY <3>6, <3>7 DEF IInv
  <2>4. CASE ~(g.breaker /\ g.until = "none")
    <3>1. /\ guard' = [g EXCEPT !.start = g.cur, !.count = 0]
          /\ file' = file
          /\ stopped' = stopped
        BY <1>16, <1>t, <2>1, <2>2, <2>4, ZenonT(60) DEF BootAndReset, Guard, TypeOK
    <3>2. guard' \in Guard /\ guard'.until = g.until /\ guard'.breaker = g.breaker
        BY <2>2, <3>1 DEF Guard
    <3> QED
        BY <1>16, <1>t, <2>2, <3>1, <3>2 DEF BootAndReset, IInv, TypeOK,
           SyncHasBalance, HaltPersisted, Declared, traderVars, syncVars
  <2> QED
    BY <2>3, <2>4
<1>17. CASE DayRolls
  <2>1. /\ guard' \in Guard /\ guard'.breaker = guard.breaker /\ guard'.until = guard.until
        /\ file' \in Guard /\ file'.breaker = file.breaker /\ file'.until = file.until
    BY <1>17, <1>g DEF DayRolls, Guard
  <2> QED
    BY <1>17, <1>t, <2>1 DEF DayRolls, IInv, TypeOK, SyncHasBalance,
       HaltPersisted, Declared, traderVars, syncVars, ghostVars
<1>18. CASE UtcMidnight
  <2>1. /\ guard' \in Guard /\ guard'.breaker = guard.breaker /\ guard'.until # "ahead"
        /\ file' \in Guard /\ file'.breaker = file.breaker /\ file'.until # "ahead"
    BY <1>18, <1>g DEF UtcMidnight, Guard
  <2> QED
    BY <1>18, <1>t, <2>1 DEF UtcMidnight, IInv, TypeOK, SyncHasBalance,
       HaltPersisted, Declared, traderVars, syncVars
<1>19. CASE UNCHANGED vars
    BY <1>19, <1>t DEF vars, IInv, TypeOK, SyncHasBalance, HaltPersisted, Declared,
       traderVars, syncVars, ghostVars
<1> QED
    BY <1>1, <1>2, <1>3, <1>4, <1>5, <1>6, <1>7, <1>8, <1>9, <1>10, <1>11, <1>12,
       <1>13, <1>14, <1>15, <1>16, <1>17, <1>18, <1>19 DEF Next

LEMMA GuardInvariant == Spec => []IInv
    BY InitIInv, NextIInv, PTL DEF Spec

\* Only SignalOpens opens a position, and only where memory holds no halt.
LEMMA OpensAdmitted ==
    ASSUME IInv, [Next]_vars, open' > open
    PROVE  up /\ ~guard.breaker /\ guard.until # "ahead"
<1>o. open \in Int
    BY GuardAssumption DEF IInv, TypeOK
<1>1. CASE SignalOpens
    BY <1>1 DEF SignalOpens, Admitted
<1>2. CASE ~SignalOpens
  <2>1. open' = open \/ open' = open - 1 \/ open' = 0
    BY <1>2 DEF Next, vars, traderVars, syncVars, ghostVars, SignalHalts, SignalStops,
       SignalRefused, TickCloses, TickEnds, SyncFetches, SyncFails, SyncUpdates,
       SyncTests, SyncRolls, SyncPaper, SyncLive, Crash, Boot, BootAndReset, DayRolls,
       UtcMidnight
  <2>2. open >= 0
    BY GuardAssumption DEF IInv, TypeOK
  <2> QED
    BY <1>o, <2>1, <2>2
<1> QED
    BY <1>1, <1>2

-----------------------------------------------------------------------------
\* The guard's fields, in memory and in the file, have their types, and every
\* balance it ever works with is one that an account or PaperTrader had.
THEOREM GuardTypeCorrect == Spec => []TypeOK
<1>1. IInv => TypeOK
    BY DEF IInv
<1> QED
    BY <1>1, GuardInvariant, PTL

\* A running block and the breaker are in the state file whenever they are in
\* memory: a crash loses neither.
THEOREM HaltsPersisted == Spec => []HaltPersisted
<1>1. IInv => HaltPersisted
    BY DEF IInv
<1> QED
    BY <1>1, GuardInvariant, PTL

\* No position is opened between a daily loss at the limit and UTC midnight.
THEOREM DailyHaltHolds == Spec => HaltHolds
<1>1. IInv /\ [Next]_vars => [open' > open => ~halted]_vars
  <2> SUFFICES ASSUME IInv, [Next]_vars, open' > open PROVE ~halted
    OBVIOUS
  <2> QED
    BY OpensAdmitted DEF IInv, HaltPersisted, Declared
<1> QED
    BY <1>1, GuardInvariant, PTL DEF Spec, HaltHolds

\* No position is opened between a total drawdown at the limit and its reset.
THEOREM DrawdownStopHolds == Spec => StopHolds
<1>1. IInv /\ [Next]_vars => [open' > open => ~stopped]_vars
  <2> SUFFICES ASSUME IInv, [Next]_vars, open' > open PROVE ~stopped
    OBVIOUS
  <2> QED
    BY OpensAdmitted DEF IInv, HaltPersisted, Declared
<1> QED
    BY <1>1, GuardInvariant, PTL DEF Spec, StopHolds

-----------------------------------------------------------------------------
(* The refinement: the halts are what the file says.                       *)

\* A daily block that still runs, as the file has it.
FileBlocked == file.until = "ahead"

LEMMA HaltStep ==
    ASSUME IInv, [Next]_vars
    PROVE  Halts!Next \/ UNCHANGED Halts!haltVars
<1>t. TypeOK /\ SyncHasBalance /\ HaltPersisted /\ Declared
    BY DEF IInv
<1>g. guard \in Guard /\ file \in Guard /\ open \in Nat
    BY <1>t, GuardAssumption DEF TypeOK
<1>c. Checked \in Guard /\ Checked.breaker = guard.breaker /\ Checked.until = guard.until
    BY <1>t, CheckedKeeps
<1>m. up => file.breaker = guard.breaker /\ FileBlocked = (guard.until = "ahead")
    BY <1>t DEF HaltPersisted, FileBlocked
<1>a. Admitted => ~file.breaker /\ ~FileBlocked
    BY <1>m DEF Admitted
\* A step of which the file's halts, the evening and the positions see nothing.
<1>s. ASSUME file'.breaker = file.breaker, FileBlocked' = FileBlocked,
             evening' = evening, open' = open
      PROVE  UNCHANGED Halts!haltVars
    BY <1>s DEF Halts!haltVars, FileBlocked
<1>1. CASE SignalHalts
  <2>1. file'.until = "ahead" /\ file'.breaker = file.breaker
    BY <1>1, <1>c, <1>m, Triggered DEF SignalHalts, Admitted
  <2>2. Halts!HaltsDaily
    BY <1>1, <1>a, <2>1 DEF SignalHalts, traderVars, FileBlocked, Halts!HaltsDaily
  <2> QED
    BY <2>2 DEF Halts!Next
<1>2. CASE SignalStops
  <2>1. file'.until = "none" /\ file'.breaker = TRUE
    BY <1>2, <1>c, Triggered DEF SignalStops, Guard
  <2>2. Halts!HaltsTotal
    BY <1>2, <1>a, <2>1 DEF SignalStops, traderVars, FileBlocked, Halts!HaltsTotal
  <2> QED
    BY <2>2 DEF Halts!Next
<1>3. CASE SignalRefused
    BY <1>3, <1>s DEF SignalRefused, traderVars, FileBlocked
<1>4. CASE SignalOpens
  <2>1. Halts!Opens
    BY <1>4, <1>a DEF SignalOpens, FileBlocked, Halts!Opens
  <2> QED
    BY <2>1 DEF Halts!Next
<1>5. ASSUME NEW pnl \in PnL, TickCloses(pnl) PROVE Halts!Next
  <2>1. PICK g : g = Recorded(guard)
    OBVIOUS
  <2>2. g \in Guard /\ g.breaker = guard.breaker /\ g.until = guard.until
    BY <1>g, <2>1, RecordedKeeps
  <2>3. file' = IF DailyBreach(g) THEN Halt(g) ELSE g
    BY <1>5, <2>1 DEF TickCloses
  <2>4. file'.breaker = guard.breaker /\ (file'.until = "ahead" \/ file'.until = guard.until)
    BY <2>2, <2>3, Triggered
  <2>5. file'.breaker = file.breaker /\ FileBlocked' \in {FileBlocked, TRUE}
    BY <1>5, <1>m, <2>4 DEF TickCloses, FileBlocked
  <2>6. Halts!Closes
    BY <1>5, <2>5 DEF TickCloses, FileBlocked, Halts!Closes
  <2> QED
    BY <2>6 DEF Halts!Next
<1>6. ASSUME NEW b \in Money, TickEnds(b) \/ SyncFetches(b)
      PROVE  UNCHANGED Halts!haltVars
    BY <1>6, <1>s DEF TickEnds, SyncFetches, traderVars, FileBlocked
<1>7. CASE SyncFails \/ SyncUpdates \/ SyncTests \/ SyncPaper
    BY <1>7, <1>s DEF SyncFails, SyncUpdates, SyncTests, SyncPaper, traderVars, FileBlocked
<1>8. CASE SyncRolls \/ SyncLive
  <2>1. file'.breaker = guard.breaker /\ file'.until = guard.until /\ up
    BY <1>8, <1>g DEF SyncRolls, SyncLive, At, Guard
  <2>2. file'.breaker = file.breaker /\ FileBlocked' = FileBlocked
    BY <1>m, <2>1 DEF FileBlocked
  <2> QED
    BY <1>8, <1>s, <2>2 DEF SyncRolls, SyncLive, traderVars
<1>9. CASE Crash
  <2>1. Halts!Crashes
    BY <1>9 DEF Crash, Halts!Crashes
  <2> QED
    BY <2>1 DEF Halts!Next
<1>10. CASE Boot
    BY <1>10, <1>s DEF Boot, traderVars, FileBlocked
<1>11. CASE BootAndReset
  <2>1. PICK g : g = Restore(file)
    OBVIOUS
  <2>2. g \in Guard /\ g.breaker = file.breaker
        /\ (g.until = "ahead") = (file.until = "ahead")
    BY <1>g, <2>1, RestoreKeeps
  <2>3. CASE g.breaker /\ g.until = "none"
    <3>1. file' = [g EXCEPT !.breaker = FALSE]
      BY <1>11, <2>1, <2>2, <2>3 DEF BootAndReset, Guard
    <3>2. file'.breaker = FALSE /\ file'.until = "none"
      BY <2>2, <2>3, <3>1 DEF Guard
    <3>3. file.breaker /\ file.until # "ahead"
      BY <2>2, <2>3
    <3>4. Halts!Resets
      BY <1>11, <3>2, <3>3 DEF BootAndReset, traderVars, Halts!Resets
    <3> QED
      BY <3>4 DEF Halts!Next
  <2>4. CASE ~(g.breaker /\ g.until = "none")
    <3>1. file' = file
      BY <1>11, <2>1, <2>2, <2>4, ZenonT(60) DEF BootAndReset
    <3> QED
      BY <1>11, <1>s, <3>1 DEF BootAndReset, traderVars, FileBlocked
  <2> QED
    BY <2>3, <2>4
<1>12. CASE DayRolls
  <2>1. file'.breaker = file.breaker /\ file'.until = file.until
    BY <1>12, <1>g DEF DayRolls, Guard
  <2>2. Halts!DayRolls
    BY <1>12, <2>1 DEF DayRolls, traderVars, Halts!DayRolls
  <2> QED
    BY <2>2 DEF Halts!Next
<1>13. CASE UtcMidnight
  <2>1. file'.breaker = file.breaker /\ file'.until # "ahead"
    BY <1>13, <1>g DEF UtcMidnight, Guard
  <2>2. Halts!Midnight
    BY <1>13, <2>1 DEF UtcMidnight, traderVars, Halts!Midnight
  <2> QED
    BY <2>2 DEF Halts!Next
<1>14. CASE UNCHANGED vars
    BY <1>14, <1>s DEF vars, traderVars, FileBlocked
<1> QED
    BY <1>1, <1>2, <1>3, <1>4, <1>5, <1>6, <1>7, <1>8, <1>9, <1>10, <1>11, <1>12,
       <1>13, <1>14 DEF Next

\* The guard implements the two halts: whichever thread saves last and wherever
\* the process dies, a position is opened only while neither halt is in force, and
\* a halt ends only at its UTC midnight or by a reset that no daily halt forbids.
THEOREM GuardImplementsHalts == Spec => HaltSpec
<1>1. Init => Halts!Init
    BY DEF Init, Fresh, Halts!Init
<1>2. IInv /\ [Next]_vars => [Halts!Next]_Halts!haltVars
    BY HaltStep
<1> QED
    BY <1>1, <1>2, GuardInvariant, PTL DEF Spec, HaltSpec, Halts!Spec
=============================================================================
