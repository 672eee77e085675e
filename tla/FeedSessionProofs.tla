-------------------------- MODULE FeedSessionProofs -------------------------
(* What the session code guarantees for any number of client objects, restore *)
(* threads and refreshers, and for any bounds and thresholds.                 *)
EXTENDS FeedSession, TLAPS

\* What the transition table gives.
LEMMA MovedType == \A s, t \in States : Moved(s, t) \in States
BY DEF Moved, States

-----------------------------------------------------------------------------
LEMMA SessionTypeInit == Init => TypeOK
<1> SUFFICES ASSUME Init PROVE TypeOK
  OBVIOUS
<1>1. FlagType
  BY DEF Init, FlagType
<1>2. ChannelType
  BY ClientAssumption DEF Init, ChannelType
<1>3. ThreadType
  BY DEF Init, ThreadType, States, RestorePoints, RefreshPoints
<1>4. CountType
  BY ThresholdAssumption DEF Init, CountType, Troubles
<1> QED BY <1>1, <1>2, <1>3, <1>4 DEF TypeOK

LEMMA SessionTypeStep == TypeOK /\ [Next]_vars => TypeOK'
<1> SUFFICES ASSUME TypeOK, [Next]_vars PROVE TypeOK'
  OBVIOUS
<1>1. ASSUME NEW n \in Client, Lose(n) PROVE TypeOK'
  <2>1. FlagType'
    BY <1>1, Zenon DEF Lose, HandleDisconnected, TypeOK, FlagType, authVars, preemptVars
  <2>2. ChannelType'
    BY <1>1, ClientAssumption DEF Lose, TypeOK, ChannelType
  <2>3. ThreadType'
    BY <1>1, MovedType DEF Lose, HandleDisconnected, Transition, TypeOK, ThreadType,
       preemptVars, restoreVars, States
  <2>4. CountType'
    BY <1>1, ThresholdAssumption DEF Lose, Spend, TypeOK, CountType, authVars,
       preemptVars, restoreVars, Troubles
  <2> QED BY <2>1, <2>2, <2>3, <2>4 DEF TypeOK
<1>2. ASSUME NEW n \in Client, Closed(n) PROVE TypeOK'
  <2>1. FlagType'
    BY <1>2, Zenon DEF Closed, HandleDisconnected, TypeOK, FlagType, authVars,
       preemptVars
  <2>2. ChannelType'
    BY <1>2, ClientAssumption DEF Closed, TypeOK, ChannelType
  <2>3. ThreadType'
    BY <1>2, MovedType DEF Closed, HandleDisconnected, Transition, TypeOK, ThreadType,
       preemptVars, restoreVars, States
  <2>4. CountType'
    BY <1>2, ThresholdAssumption DEF Closed, TypeOK, CountType, authVars, preemptVars,
       restoreVars
  <2> QED BY <2>1, <2>2, <2>3, <2>4 DEF TypeOK
<1>3. ASSUME NEW n \in Client, Connect(n) PROVE TypeOK'
  <2>1. FlagType'
    BY <1>3, Zenon DEF Connect, TypeOK, FlagType, authVars, preemptVars
  <2>2. ChannelType'
    BY <1>3, ClientAssumption DEF Connect, TypeOK, ChannelType
  <2>3. ThreadType'
    BY <1>3, MovedType DEF Connect, Transition, TypeOK, ThreadType, preemptVars,
       restoreVars, States
  <2>4. CountType'
    BY <1>3, ThresholdAssumption DEF Connect, TypeOK, CountType, authVars, preemptVars,
       restoreVars
  <2> QED BY <2>1, <2>2, <2>3, <2>4 DEF TypeOK
<1>4. ASSUME NEW i \in Restorer, RestoreSkip(i) PROVE TypeOK'
  <2>1. FlagType'
    BY <1>4, Zenon DEF RestoreSkip, TypeOK, FlagType, chanVars, authVars, preemptVars
  <2>2. ChannelType'
    BY <1>4, ClientAssumption DEF RestoreSkip, TypeOK, ChannelType, chanVars
  <2>3. ThreadType'
    BY <1>4 DEF RestoreSkip, At, TypeOK, ThreadType, preemptVars, RestorePoints
  <2>4. CountType'
    BY <1>4, ThresholdAssumption DEF RestoreSkip, TypeOK, CountType, authVars,
       preemptVars
  <2> QED BY <2>1, <2>2, <2>3, <2>4 DEF TypeOK
<1>5. ASSUME NEW i \in Restorer, RestoreAcquire(i) PROVE TypeOK'
  <2>1. FlagType'
    BY <1>5, Zenon DEF RestoreAcquire, TypeOK, FlagType, chanVars, authVars, preemptVars
  <2>2. ChannelType'
    BY <1>5, ClientAssumption DEF RestoreAcquire, TypeOK, ChannelType, chanVars
  <2>3. ThreadType'
    BY <1>5 DEF RestoreAcquire, At, TypeOK, ThreadType, preemptVars, RestorePoints
  <2>4. CountType'
    BY <1>5, ThresholdAssumption DEF RestoreAcquire, TypeOK, CountType, authVars,
       preemptVars
  <2> QED BY <2>1, <2>2, <2>3, <2>4 DEF TypeOK
<1>6. ASSUME NEW i \in Restorer, RestoreCheck(i) PROVE TypeOK'
  <2>1. FlagType'
    BY <1>6, Zenon DEF RestoreCheck, TypeOK, FlagType, chanVars, authVars, preemptVars
  <2>2. ChannelType'
    BY <1>6, ClientAssumption DEF RestoreCheck, TypeOK, ChannelType, chanVars
  <2>3. ThreadType'
    BY <1>6 DEF RestoreCheck, At, TypeOK, ThreadType, preemptVars, RestorePoints
  <2>4. CountType'
    BY <1>6, ThresholdAssumption DEF RestoreCheck, TypeOK, CountType, authVars,
       preemptVars
  <2> QED BY <2>1, <2>2, <2>3, <2>4 DEF TypeOK
<1>7. ASSUME NEW i \in Restorer, RestoreSettle(i) PROVE TypeOK'
  <2>1. FlagType'
    BY <1>7, Zenon DEF RestoreSettle, TypeOK, FlagType, chanVars, authVars, preemptVars
  <2>2. ChannelType'
    BY <1>7, ClientAssumption DEF RestoreSettle, TypeOK, ChannelType, chanVars
  <2>3. ThreadType'
    BY <1>7, MovedType DEF RestoreSettle, At, Transition, TypeOK, ThreadType,
       preemptVars, States, RestorePoints
  <2>4. CountType'
    BY <1>7, ThresholdAssumption DEF RestoreSettle, TypeOK, CountType, authVars,
       preemptVars
  <2> QED BY <2>1, <2>2, <2>3, <2>4 DEF TypeOK
<1>8. ASSUME NEW i \in Restorer, RestoreAppOk(i) PROVE TypeOK'
  <2>1. FlagType'
    BY <1>8, Zenon DEF RestoreAppOk, TypeOK, FlagType, preemptVars
  <2>2. ChannelType'
    BY <1>8, ClientAssumption DEF RestoreAppOk, TypeOK, ChannelType, Reachable
  <2>3. ThreadType'
    BY <1>8 DEF RestoreAppOk, At, TypeOK, ThreadType, preemptVars, RestorePoints
  <2>4. CountType'
    BY <1>8, ThresholdAssumption DEF RestoreAppOk, TypeOK, CountType, preemptVars
  <2> QED BY <2>1, <2>2, <2>3, <2>4 DEF TypeOK
<1>9. ASSUME NEW i \in Restorer, RestoreAppRetry(i) PROVE TypeOK'
  <2>1. FlagType'
    BY <1>9, Zenon DEF RestoreAppRetry, AppRefused, TypeOK, FlagType, preemptVars
  <2>2. ChannelType'
    BY <1>9, ClientAssumption DEF RestoreAppRetry, AppRefused, TypeOK, ChannelType,
       Reachable
  <2>3. ThreadType'
    BY <1>9 DEF RestoreAppRetry, At, TypeOK, ThreadType, preemptVars, RestorePoints
  <2>4. CountType'
    BY <1>9, ThresholdAssumption DEF RestoreAppRetry, AppRefused, Spend, TypeOK,
       CountType, preemptVars, Troubles
  <2> QED BY <2>1, <2>2, <2>3, <2>4 DEF TypeOK
<1>10. ASSUME NEW i \in Restorer, RestoreAppFails(i) PROVE TypeOK'
  <2>1. FlagType'
    BY <1>10, Zenon DEF RestoreAppFails, AppRefused, AuthFailure, TypeOK, FlagType,
       preemptVars
  <2>2. ChannelType'
    BY <1>10, ClientAssumption DEF RestoreAppFails, AppRefused, TypeOK, ChannelType,
       Reachable
  <2>3. ThreadType'
    BY <1>10, MovedType DEF RestoreAppFails, At, AuthFailure, Transition, TypeOK,
       ThreadType, preemptVars, States, RestorePoints
  <2>4. CountType'
    BY <1>10, ThresholdAssumption DEF RestoreAppFails, AppRefused, AuthFailure, Spend,
       TypeOK, CountType, preemptVars, Troubles
  <2> QED BY <2>1, <2>2, <2>3, <2>4 DEF TypeOK
<1>11. ASSUME NEW i \in Restorer, RestoreAppDone(i) PROVE TypeOK'
  <2>1. FlagType'
    BY <1>11, Zenon DEF RestoreAppDone, TypeOK, FlagType, chanVars, preemptVars
  <2>2. ChannelType'
    BY <1>11, ClientAssumption DEF RestoreAppDone, TypeOK, ChannelType, chanVars
  <2>3. ThreadType'
    BY <1>11, MovedType DEF RestoreAppDone, At, Transition, TypeOK, ThreadType,
       preemptVars, States, RestorePoints
  <2>4. CountType'
    BY <1>11, ThresholdAssumption DEF RestoreAppDone, TypeOK, CountType, preemptVars
  <2> QED BY <2>1, <2>2, <2>3, <2>4 DEF TypeOK
<1>12. ASSUME NEW i \in Restorer, RestoreAcctCheck(i) PROVE TypeOK'
  <2>1. FlagType'
    BY <1>12, Zenon DEF RestoreAcctCheck, TypeOK, FlagType, chanVars, authVars,
       preemptVars
  <2>2. ChannelType'
    BY <1>12, ClientAssumption DEF RestoreAcctCheck, TypeOK, ChannelType, chanVars
  <2>3. ThreadType'
    BY <1>12 DEF RestoreAcctCheck, At, TypeOK, ThreadType, preemptVars, RestorePoints
  <2>4. CountType'
    BY <1>12, ThresholdAssumption DEF RestoreAcctCheck, TypeOK, CountType, authVars,
       preemptVars
  <2> QED BY <2>1, <2>2, <2>3, <2>4 DEF TypeOK
<1>13. ASSUME NEW i \in Restorer, RestoreAcctOk(i) PROVE TypeOK'
  <2>1. FlagType'
    BY <1>13, Zenon DEF RestoreAcctOk, TypeOK, FlagType, preemptVars
  <2>2. ChannelType'
    BY <1>13, ClientAssumption DEF RestoreAcctOk, TypeOK, ChannelType, Reachable
  <2>3. ThreadType'
    BY <1>13 DEF RestoreAcctOk, At, TypeOK, ThreadType, preemptVars, RestorePoints
  <2>4. CountType'
    BY <1>13, ThresholdAssumption DEF RestoreAcctOk, TypeOK, CountType, preemptVars
  <2> QED BY <2>1, <2>2, <2>3, <2>4 DEF TypeOK
<1>14. ASSUME NEW i \in Restorer, RestoreAcctFails(i) PROVE TypeOK'
  <2>1. FlagType'
    BY <1>14, Zenon DEF RestoreAcctFails, AcctRefused, AuthFailure, TypeOK, FlagType,
       preemptVars
  <2>2. ChannelType'
    BY <1>14, ClientAssumption DEF RestoreAcctFails, AcctRefused, TypeOK, ChannelType,
       Reachable
  <2>3. ThreadType'
    BY <1>14, MovedType DEF RestoreAcctFails, At, AuthFailure, Transition, TypeOK,
       ThreadType, preemptVars, States, RestorePoints
  <2>4. CountType'
    BY <1>14, ThresholdAssumption DEF RestoreAcctFails, AcctRefused, AuthFailure, Spend,
       TypeOK, CountType, preemptVars, Troubles
  <2> QED BY <2>1, <2>2, <2>3, <2>4 DEF TypeOK
<1>15. ASSUME NEW i \in Restorer, RestoreAuthed(i) PROVE TypeOK'
  <2>1. FlagType'
    BY <1>15, Zenon DEF RestoreAuthed, TypeOK, FlagType, preemptVars
  <2>2. ChannelType'
    BY <1>15, ClientAssumption DEF RestoreAuthed, TypeOK, ChannelType, Reachable
  <2>3. ThreadType'
    BY <1>15 DEF RestoreAuthed, At, TypeOK, ThreadType, preemptVars, RestorePoints
  <2>4. CountType'
    BY <1>15, ThresholdAssumption DEF RestoreAuthed, TypeOK, CountType, preemptVars
  <2> QED BY <2>1, <2>2, <2>3, <2>4 DEF TypeOK
<1>16. ASSUME NEW i \in Restorer, RestoreDone(i) PROVE TypeOK'
  <2>1. FlagType'
    BY <1>16, Zenon DEF RestoreDone, TypeOK, FlagType, chanVars, authVars, preemptVars
  <2>2. ChannelType'
    BY <1>16, ClientAssumption DEF RestoreDone, TypeOK, ChannelType, chanVars
  <2>3. ThreadType'
    BY <1>16, MovedType DEF RestoreDone, At, Transition, TypeOK, ThreadType,
       preemptVars, States, RestorePoints
  <2>4. CountType'
    BY <1>16, ThresholdAssumption DEF RestoreDone, TypeOK, CountType, authVars,
       preemptVars
  <2> QED BY <2>1, <2>2, <2>3, <2>4 DEF TypeOK
<1>17. ASSUME NEW i \in Restorer, RestoreClear(i) PROVE TypeOK'
  <2>1. FlagType'
    BY <1>17, Zenon DEF RestoreClear, TypeOK, FlagType, chanVars, authVars, preemptVars
  <2>2. ChannelType'
    BY <1>17, ClientAssumption DEF RestoreClear, TypeOK, ChannelType, chanVars
  <2>3. ThreadType'
    BY <1>17 DEF RestoreClear, At, TypeOK, ThreadType, preemptVars, RestorePoints
  <2>4. CountType'
    BY <1>17, ThresholdAssumption DEF RestoreClear, TypeOK, CountType, authVars,
       preemptVars
  <2> QED BY <2>1, <2>2, <2>3, <2>4 DEF TypeOK
<1>18. ASSUME NEW i \in Restorer, RestoreRelease(i) PROVE TypeOK'
  <2>1. FlagType'
    BY <1>18, Zenon DEF RestoreRelease, TypeOK, FlagType, chanVars, authVars,
       preemptVars
  <2>2. ChannelType'
    BY <1>18, ClientAssumption DEF RestoreRelease, TypeOK, ChannelType, chanVars
  <2>3. ThreadType'
    BY <1>18 DEF RestoreRelease, At, TypeOK, ThreadType, preemptVars, RestorePoints
  <2>4. CountType'
    BY <1>18, ThresholdAssumption DEF RestoreRelease, TypeOK, CountType, authVars,
       preemptVars
  <2> QED BY <2>1, <2>2, <2>3, <2>4 DEF TypeOK
<1>19. ASSUME NEW r \in Refresher, RefreshStart(r) PROVE TypeOK'
  <2>1. FlagType'
    BY <1>19, Zenon DEF RefreshStart, TypeOK, FlagType, chanVars, authVars, preemptVars
  <2>2. ChannelType'
    BY <1>19, ClientAssumption DEF RefreshStart, TypeOK, ChannelType, chanVars
  <2>3. ThreadType'
    BY <1>19 DEF RefreshStart, On, TypeOK, ThreadType, preemptVars, restoreVars,
       RefreshPoints
  <2>4. CountType'
    BY <1>19, ThresholdAssumption DEF RefreshStart, Spend, TypeOK, CountType, authVars,
       preemptVars, restoreVars, Troubles
  <2> QED BY <2>1, <2>2, <2>3, <2>4 DEF TypeOK
<1>20. ASSUME NEW r \in Refresher, RefreshSkip(r) PROVE TypeOK'
  <2>1. FlagType'
    BY <1>20, Zenon DEF RefreshSkip, TypeOK, FlagType, chanVars, authVars, preemptVars
  <2>2. ChannelType'
    BY <1>20, ClientAssumption DEF RefreshSkip, TypeOK, ChannelType, chanVars
  <2>3. ThreadType'
    BY <1>20 DEF RefreshSkip, On, TypeOK, ThreadType, preemptVars, restoreVars,
       RefreshPoints
  <2>4. CountType'
    BY <1>20, ThresholdAssumption DEF RefreshSkip, TypeOK, CountType, authVars,
       preemptVars, restoreVars
  <2> QED BY <2>1, <2>2, <2>3, <2>4 DEF TypeOK
<1>21. ASSUME NEW r \in Refresher, RefreshAcquire(r) PROVE TypeOK'
  <2>1. FlagType'
    BY <1>21, Zenon DEF RefreshAcquire, TypeOK, FlagType, chanVars, authVars,
       preemptVars
  <2>2. ChannelType'
    BY <1>21, ClientAssumption DEF RefreshAcquire, TypeOK, ChannelType, chanVars
  <2>3. ThreadType'
    BY <1>21 DEF RefreshAcquire, On, TypeOK, ThreadType, preemptVars, restoreVars,
       RefreshPoints
  <2>4. CountType'
    BY <1>21, ThresholdAssumption DEF RefreshAcquire, TypeOK, CountType, authVars,
       preemptVars, restoreVars
  <2> QED BY <2>1, <2>2, <2>3, <2>4 DEF TypeOK
<1>22. ASSUME NEW r \in Refresher, RefreshFails(r) PROVE TypeOK'
  <2>1. FlagType'
    BY <1>22, Zenon DEF RefreshFails, AuthFailure, TypeOK, FlagType, chanVars,
       preemptVars
  <2>2. ChannelType'
    BY <1>22, ClientAssumption DEF RefreshFails, TypeOK, ChannelType, chanVars
  <2>3. ThreadType'
    BY <1>22, MovedType DEF RefreshFails, On, AuthFailure, Transition, TypeOK,
       ThreadType, preemptVars, restoreVars, States, RefreshPoints
  <2>4. CountType'
    BY <1>22, ThresholdAssumption DEF RefreshFails, AuthFailure, Spend, TypeOK,
       CountType, preemptVars, restoreVars, Troubles
  <2> QED BY <2>1, <2>2, <2>3, <2>4 DEF TypeOK
<1>23. ASSUME NEW r \in Refresher, RefreshOk(r) PROVE TypeOK'
  <2>1. FlagType'
    BY <1>23, Zenon DEF RefreshOk, TypeOK, FlagType, chanVars, authVars, preemptVars
  <2>2. ChannelType'
    BY <1>23, ClientAssumption DEF RefreshOk, TypeOK, ChannelType, chanVars
  <2>3. ThreadType'
    BY <1>23 DEF RefreshOk, On, TypeOK, ThreadType, preemptVars, restoreVars,
       RefreshPoints
  <2>4. CountType'
    BY <1>23, ThresholdAssumption DEF RefreshOk, TypeOK, CountType, authVars,
       preemptVars, restoreVars
  <2> QED BY <2>1, <2>2, <2>3, <2>4 DEF TypeOK
<1>24. ASSUME NEW r \in Refresher, RefreshLink(r) PROVE TypeOK'
  <2>1. FlagType'
    BY <1>24, Zenon DEF RefreshLink, TypeOK, FlagType, chanVars, preemptVars
  <2>2. ChannelType'
    BY <1>24, ClientAssumption DEF RefreshLink, TypeOK, ChannelType, chanVars
  <2>3. ThreadType'
    BY <1>24 DEF RefreshLink, On, TypeOK, ThreadType, preemptVars, restoreVars,
       RefreshPoints
  <2>4. CountType'
    BY <1>24, ThresholdAssumption DEF RefreshLink, TypeOK, CountType, preemptVars,
       restoreVars
  <2> QED BY <2>1, <2>2, <2>3, <2>4 DEF TypeOK
<1>25. ASSUME NEW r \in Refresher, RefreshSend(r) PROVE TypeOK'
  <2>1. FlagType'
    BY <1>25, Zenon DEF RefreshSend, TypeOK, FlagType, chanVars, preemptVars
  <2>2. ChannelType'
    BY <1>25, ClientAssumption DEF RefreshSend, TypeOK, ChannelType, chanVars
  <2>3. ThreadType'
    BY <1>25 DEF RefreshSend, On, TypeOK, ThreadType, preemptVars, restoreVars,
       RefreshPoints
  <2>4. CountType'
    BY <1>25, ThresholdAssumption DEF RefreshSend, TypeOK, CountType, preemptVars,
       restoreVars
  <2> QED BY <2>1, <2>2, <2>3, <2>4 DEF TypeOK
<1>26. ASSUME NEW r \in Refresher, RefreshRelease(r) PROVE TypeOK'
  <2>1. FlagType'
    BY <1>26, Zenon DEF RefreshRelease, TypeOK, FlagType, chanVars, authVars,
       preemptVars
  <2>2. ChannelType'
    BY <1>26, ClientAssumption DEF RefreshRelease, TypeOK, ChannelType, chanVars
  <2>3. ThreadType'
    BY <1>26 DEF RefreshRelease, On, TypeOK, ThreadType, preemptVars, restoreVars,
       RefreshPoints
  <2>4. CountType'
    BY <1>26, ThresholdAssumption DEF RefreshRelease, TypeOK, CountType, authVars,
       preemptVars, restoreVars
  <2> QED BY <2>1, <2>2, <2>3, <2>4 DEF TypeOK
<1>27. ASSUME OnDisconnected PROVE TypeOK'
  <2>1. FlagType'
    BY <1>27, Zenon DEF OnDisconnected, TypeOK, FlagType, chanVars, preemptVars
  <2>2. ChannelType'
    BY <1>27, ClientAssumption DEF OnDisconnected, TypeOK, ChannelType, chanVars
  <2>3. ThreadType'
    BY <1>27 DEF OnDisconnected, TypeOK, ThreadType, preemptVars, restoreVars
  <2>4. CountType'
    BY <1>27, ThresholdAssumption DEF OnDisconnected, TypeOK, CountType, preemptVars,
       restoreVars
  <2> QED BY <2>1, <2>2, <2>3, <2>4 DEF TypeOK
<1>28. ASSUME OnConnected PROVE TypeOK'
  <2>1. FlagType'
    BY <1>28, Zenon DEF OnConnected, TypeOK, FlagType, chanVars, authVars, preemptVars
  <2>2. ChannelType'
    BY <1>28, ClientAssumption DEF OnConnected, TypeOK, ChannelType, chanVars
  <2>3. ThreadType'
    BY <1>28 DEF OnConnected, TypeOK, ThreadType, preemptVars, restoreVars,
       RestorePoints
  <2>4. CountType'
    BY <1>28, ThresholdAssumption DEF OnConnected, TypeOK, CountType, authVars,
       preemptVars, restoreVars
  <2> QED BY <2>1, <2>2, <2>3, <2>4 DEF TypeOK
<1>29. ASSUME SendQueued PROVE TypeOK'
  <2>1. FlagType'
    BY <1>29, Zenon DEF SendQueued, TypeOK, FlagType, preemptVars
  <2>2. ChannelType'
    BY <1>29, ClientAssumption DEF SendQueued, TypeOK, ChannelType, Reachable
  <2>3. ThreadType'
    BY <1>29 DEF SendQueued, TypeOK, ThreadType, preemptVars, restoreVars
  <2>4. CountType'
    BY <1>29, ThresholdAssumption DEF SendQueued, TypeOK, CountType, preemptVars,
       restoreVars
  <2> QED BY <2>1, <2>2, <2>3, <2>4 DEF TypeOK
<1>30. ASSUME PreemptCheck PROVE TypeOK'
  <2>1. FlagType'
    BY <1>30, Zenon DEF PreemptCheck, TypeOK, FlagType, chanVars, authVars
  <2>2. ChannelType'
    BY <1>30, ClientAssumption DEF PreemptCheck, TypeOK, ChannelType, chanVars
  <2>3. ThreadType'
    BY <1>30 DEF PreemptCheck, TypeOK, ThreadType, restoreVars
  <2>4. CountType'
    BY <1>30, ThresholdAssumption DEF PreemptCheck, Spend, TypeOK, CountType, authVars,
       restoreVars, Troubles
  <2> QED BY <2>1, <2>2, <2>3, <2>4 DEF TypeOK
<1>31. ASSUME PreemptClaim PROVE TypeOK'
  <2>1. FlagType'
    BY <1>31, Zenon DEF PreemptClaim, TypeOK, FlagType, chanVars, authVars
  <2>2. ChannelType'
    BY <1>31, ClientAssumption DEF PreemptClaim, TypeOK, ChannelType, chanVars
  <2>3. ThreadType'
    BY <1>31 DEF PreemptClaim, TypeOK, ThreadType, restoreVars
  <2>4. CountType'
    BY <1>31, ThresholdAssumption DEF PreemptClaim, TypeOK, CountType, authVars,
       restoreVars
  <2> QED BY <2>1, <2>2, <2>3, <2>4 DEF TypeOK
<1>32. ASSUME PreemptTeardown PROVE TypeOK'
  <2>1. FlagType'
    BY <1>32, Zenon DEF PreemptTeardown, TypeOK, FlagType, authVars
  <2>2. ChannelType'
    BY <1>32, ClientAssumption DEF PreemptTeardown, TypeOK, ChannelType
  <2>3. ThreadType'
    BY <1>32 DEF PreemptTeardown, TypeOK, ThreadType, restoreVars
  <2>4. CountType'
    BY <1>32, ThresholdAssumption DEF PreemptTeardown, TypeOK, CountType, authVars,
       restoreVars
  <2> QED BY <2>1, <2>2, <2>3, <2>4 DEF TypeOK
<1>33. ASSUME PreemptDial PROVE TypeOK'
  <2>1. FlagType'
    BY <1>33, Zenon DEF PreemptDial, TypeOK, FlagType, authVars
  <2>2. ChannelType'
    BY <1>33, ClientAssumption DEF PreemptDial, TypeOK, ChannelType
  <2>3. ThreadType'
    BY <1>33, MovedType DEF PreemptDial, Transition, TypeOK, ThreadType, restoreVars,
       States
  <2>4. CountType'
    BY <1>33, ThresholdAssumption DEF PreemptDial, TypeOK, CountType, authVars,
       restoreVars
  <2> QED BY <2>1, <2>2, <2>3, <2>4 DEF TypeOK
<1>34. ASSUME PreemptEnd PROVE TypeOK'
  <2>1. FlagType'
    BY <1>34, Zenon DEF PreemptEnd, TypeOK, FlagType, chanVars, authVars
  <2>2. ChannelType'
    BY <1>34, ClientAssumption DEF PreemptEnd, TypeOK, ChannelType, chanVars
  <2>3. ThreadType'
    BY <1>34 DEF PreemptEnd, TypeOK, ThreadType, restoreVars
  <2>4. CountType'
    BY <1>34, ThresholdAssumption DEF PreemptEnd, TypeOK, CountType, authVars,
       restoreVars
  <2> QED BY <2>1, <2>2, <2>3, <2>4 DEF TypeOK
<1>35. ASSUME HeartbeatAlarm PROVE TypeOK'
  <2>1. FlagType'
    BY <1>35, Zenon DEF HeartbeatAlarm, TypeOK, FlagType, chanVars, authVars,
       preemptVars
  <2>2. ChannelType'
    BY <1>35, ClientAssumption DEF HeartbeatAlarm, TypeOK, ChannelType, chanVars
  <2>3. ThreadType'
    BY <1>35, MovedType DEF HeartbeatAlarm, Transition, TypeOK, ThreadType, preemptVars,
       restoreVars, States
  <2>4. CountType'
    BY <1>35, ThresholdAssumption DEF HeartbeatAlarm, Spend, TypeOK, CountType,
       authVars, preemptVars, restoreVars, Troubles
  <2> QED BY <2>1, <2>2, <2>3, <2>4 DEF TypeOK
<1>36. CASE UNCHANGED vars
  BY <1>36 DEF vars, TypeOK, FlagType, ChannelType, ThreadType, CountType, chanVars,
     authVars, preemptVars, restoreVars
<1> QED BY <1>1, <1>2, <1>3, <1>4, <1>5, <1>6, <1>7, <1>8, <1>9, <1>10, <1>11, <1>12,
   <1>13, <1>14, <1>15, <1>16, <1>17, <1>18, <1>19, <1>20, <1>21, <1>22, <1>23, <1>24,
   <1>25, <1>26, <1>27, <1>28, <1>29, <1>30, <1>31, <1>32, <1>33, <1>34, <1>35, <1>36
  DEF Next, Network, Callbacks, Restore, Refresh, Preempt

\* Type correctness of the session state.
THEOREM SessionTypeOK == Spec => []TypeOK
BY SessionTypeInit, SessionTypeStep, PTL DEF Spec

-----------------------------------------------------------------------------
\* The inductive invariant behind the operational state.  Covered is what an
\* operational state needs; a restore thread whose account was just authorised
\* waits for the transition to AUTHENTICATED with it already in place.
Covered == client \in srvAcct \/ \E n \in Client : chan[n] = "closing"
Awaiting == \A i \in Restorer :
               restore[i] \in {"acct_ok", "restored"} /\ state = "acct_auth" => Covered
CurrentIsOpen == client # 0 => chan[client] \in {"dialing", "up"}
AuthorisedIsOpen == \A n \in srvAcct : chan[n] \in {"up", "closing"}
DialHasNoClient == preempt = "dial" => client = 0
NeverParked == state \notin {"suspended", "subscribing"}
SessionAux == /\ Awaiting /\ CurrentIsOpen /\ AuthorisedIsOpen /\ DialHasNoClient
              /\ NeverParked
SessionInv == TypeOK /\ ReauthExclusive /\ OperationalIsAuthorised /\ SessionAux

LEMMA SessionInvInit == Init => SessionInv
<1> SUFFICES ASSUME Init PROVE SessionInv
  OBVIOUS
<1>1. TypeOK
  BY SessionTypeInit
<1>2. ReauthExclusive
  BY DEF Init, ReauthExclusive, Inside
<1>3. OperationalIsAuthorised
  BY DEF Init, OperationalIsAuthorised
<1>4. SessionAux
  BY ClientAssumption DEF Init, SessionAux, Awaiting, Covered, CurrentIsOpen,
     AuthorisedIsOpen, DialHasNoClient, NeverParked
<1> QED BY <1>1, <1>2, <1>3, <1>4 DEF SessionInv

-----------------------------------------------------------------------------
\* Inside, as far as one thread is concerned.
Holds(i) == restore[i] \notin {"none", "start"}
Keeps(r) == refresh[r] \notin {"idle", "start"}

\* The mutex does not care about steps that neither enter nor leave.
LEMMA ExclusiveFrame ==
    ASSUME ReauthExclusive, UNCHANGED locked,
           \A i \in Restorer : Holds(i)' <=> Holds(i),
           \A r \in Refresher : Keeps(r)' <=> Keeps(r)
    PROVE  ReauthExclusive'
<1>1. Inside' = Inside
  BY Zenon DEF Inside, Holds, Keeps
<1> QED BY <1>1, Zenon DEF ReauthExclusive

LEMMA ExclusiveStep == TypeOK /\ ReauthExclusive /\ [Next]_vars => ReauthExclusive'
<1> SUFFICES ASSUME TypeOK, ReauthExclusive, [Next]_vars PROVE ReauthExclusive'
  OBVIOUS
<1> USE DEF TypeOK, ThreadType
<1>1. ASSUME NEW n \in Client, Lose(n) PROVE ReauthExclusive'
  BY <1>1, ExclusiveFrame DEF Lose, restoreVars, Holds, Keeps
<1>2. ASSUME NEW n \in Client, Closed(n) PROVE ReauthExclusive'
  BY <1>2, ExclusiveFrame DEF Closed, restoreVars, Holds, Keeps
<1>3. ASSUME NEW n \in Client, Connect(n) PROVE ReauthExclusive'
  BY <1>3, ExclusiveFrame DEF Connect, restoreVars, Holds, Keeps
<1>4. ASSUME NEW i \in Restorer, RestoreSkip(i) PROVE ReauthExclusive'
  BY <1>4, ExclusiveFrame DEF RestoreSkip, At, Holds, Keeps
<1>5. ASSUME NEW i \in Restorer, RestoreAcquire(i) PROVE ReauthExclusive'
  <2>1. Inside = {} /\ locked'
    BY <1>5 DEF RestoreAcquire, ReauthExclusive
  <2>2. Inside' = {i}
    BY <1>5, <2>1, ThreadsAssumption DEF RestoreAcquire, At, Inside
  <2> QED BY <2>1, <2>2 DEF ReauthExclusive
<1>6. ASSUME NEW i \in Restorer, RestoreCheck(i) PROVE ReauthExclusive'
  BY <1>6, ExclusiveFrame DEF RestoreCheck, At, Holds, Keeps
<1>7. ASSUME NEW i \in Restorer, RestoreSettle(i) PROVE ReauthExclusive'
  BY <1>7, ExclusiveFrame DEF RestoreSettle, At, Holds, Keeps
<1>8. ASSUME NEW i \in Restorer, RestoreAppOk(i) PROVE ReauthExclusive'
  BY <1>8, ExclusiveFrame DEF RestoreAppOk, At, Holds, Keeps
<1>9. ASSUME NEW i \in Restorer, RestoreAppRetry(i) PROVE ReauthExclusive'
  BY <1>9, ExclusiveFrame DEF RestoreAppRetry, At, Holds, Keeps
<1>10. ASSUME NEW i \in Restorer, RestoreAppFails(i) PROVE ReauthExclusive'
  BY <1>10, ExclusiveFrame DEF RestoreAppFails, At, Holds, Keeps
<1>11. ASSUME NEW i \in Restorer, RestoreAppDone(i) PROVE ReauthExclusive'
  BY <1>11, ExclusiveFrame DEF RestoreAppDone, At, Holds, Keeps
<1>12. ASSUME NEW i \in Restorer, RestoreAcctCheck(i) PROVE ReauthExclusive'
  BY <1>12, ExclusiveFrame DEF RestoreAcctCheck, At, Holds, Keeps
<1>13. ASSUME NEW i \in Restorer, RestoreAcctOk(i) PROVE ReauthExclusive'
  BY <1>13, ExclusiveFrame DEF RestoreAcctOk, At, Holds, Keeps
<1>14. ASSUME NEW i \in Restorer, RestoreAcctFails(i) PROVE ReauthExclusive'
  BY <1>14, ExclusiveFrame DEF RestoreAcctFails, At, Holds, Keeps
<1>15. ASSUME NEW i \in Restorer, RestoreAuthed(i) PROVE ReauthExclusive'
  BY <1>15, ExclusiveFrame DEF RestoreAuthed, At, Holds, Keeps
<1>16. ASSUME NEW i \in Restorer, RestoreDone(i) PROVE ReauthExclusive'
  BY <1>16, ExclusiveFrame DEF RestoreDone, At, Holds, Keeps
<1>17. ASSUME NEW i \in Restorer, RestoreClear(i) PROVE ReauthExclusive'
  BY <1>17, ExclusiveFrame DEF RestoreClear, At, Holds, Keeps
<1>18. ASSUME NEW i \in Restorer, RestoreRelease(i) PROVE ReauthExclusive'
  <2>1. Inside = {i} /\ ~locked'
    BY <1>18 DEF RestoreRelease, At, Inside, ReauthExclusive
  <2>2. Inside' = {}
    BY <1>18, <2>1, ThreadsAssumption DEF RestoreRelease, At, Inside
  <2> QED BY <2>1, <2>2 DEF ReauthExclusive
<1>19. ASSUME NEW r \in Refresher, RefreshStart(r) PROVE ReauthExclusive'
  BY <1>19, ExclusiveFrame DEF RefreshStart, On, restoreVars, Holds, Keeps
<1>20. ASSUME NEW r \in Refresher, RefreshSkip(r) PROVE ReauthExclusive'
  BY <1>20, ExclusiveFrame DEF RefreshSkip, On, restoreVars, Holds, Keeps
<1>21. ASSUME NEW r \in Refresher, RefreshAcquire(r) PROVE ReauthExclusive'
  <2>1. Inside = {} /\ locked'
    BY <1>21 DEF RefreshAcquire, ReauthExclusive
  <2>2. Inside' = {r}
    BY <1>21, <2>1, ThreadsAssumption DEF RefreshAcquire, On, restoreVars, Inside
  <2> QED BY <2>1, <2>2 DEF ReauthExclusive
<1>22. ASSUME NEW r \in Refresher, RefreshFails(r) PROVE ReauthExclusive'
  BY <1>22, ExclusiveFrame DEF RefreshFails, On, restoreVars, Holds, Keeps
<1>23. ASSUME NEW r \in Refresher, RefreshOk(r) PROVE ReauthExclusive'
  BY <1>23, ExclusiveFrame DEF RefreshOk, On, restoreVars, Holds, Keeps
<1>24. ASSUME NEW r \in Refresher, RefreshLink(r) PROVE ReauthExclusive'
  BY <1>24, ExclusiveFrame DEF RefreshLink, On, restoreVars, Holds, Keeps
<1>25. ASSUME NEW r \in Refresher, RefreshSend(r) PROVE ReauthExclusive'
  BY <1>25, ExclusiveFrame DEF RefreshSend, On, restoreVars, Holds, Keeps
<1>26. ASSUME NEW r \in Refresher, RefreshRelease(r) PROVE ReauthExclusive'
  <2>1. Inside = {r} /\ ~locked'
    BY <1>26 DEF RefreshRelease, On, restoreVars, Inside, ReauthExclusive
  <2>2. Inside' = {}
    BY <1>26, <2>1, ThreadsAssumption DEF RefreshRelease, On, restoreVars, Inside
  <2> QED BY <2>1, <2>2 DEF ReauthExclusive
<1>27. ASSUME OnDisconnected PROVE ReauthExclusive'
  BY <1>27, ExclusiveFrame DEF OnDisconnected, restoreVars, Holds, Keeps
<1>28. ASSUME OnConnected PROVE ReauthExclusive'
  BY <1>28, ExclusiveFrame DEF OnConnected, restoreVars, Holds, Keeps
<1>29. ASSUME SendQueued PROVE ReauthExclusive'
  BY <1>29, ExclusiveFrame DEF SendQueued, restoreVars, Holds, Keeps
<1>30. ASSUME PreemptCheck PROVE ReauthExclusive'
  BY <1>30, ExclusiveFrame DEF PreemptCheck, restoreVars, Holds, Keeps
<1>31. ASSUME PreemptClaim PROVE ReauthExclusive'
  BY <1>31, ExclusiveFrame DEF PreemptClaim, restoreVars, Holds, Keeps
<1>32. ASSUME PreemptTeardown PROVE ReauthExclusive'
  BY <1>32, ExclusiveFrame DEF PreemptTeardown, restoreVars, Holds, Keeps
<1>33. ASSUME PreemptDial PROVE ReauthExclusive'
  BY <1>33, ExclusiveFrame DEF PreemptDial, restoreVars, Holds, Keeps
<1>34. ASSUME PreemptEnd PROVE ReauthExclusive'
  BY <1>34, ExclusiveFrame DEF PreemptEnd, restoreVars, Holds, Keeps
<1>35. ASSUME HeartbeatAlarm PROVE ReauthExclusive'
  BY <1>35, ExclusiveFrame DEF HeartbeatAlarm, restoreVars, Holds, Keeps
<1>36. CASE UNCHANGED vars
  BY <1>36, ExclusiveFrame DEF vars, restoreVars, Holds, Keeps
<1> QED BY <1>1, <1>2, <1>3, <1>4, <1>5, <1>6, <1>7, <1>8, <1>9, <1>10, <1>11, <1>12,
   <1>13, <1>14, <1>15, <1>16, <1>17, <1>18, <1>19, <1>20, <1>21, <1>22, <1>23, <1>24,
   <1>25, <1>26, <1>27, <1>28, <1>29, <1>30, <1>31, <1>32, <1>33, <1>34, <1>35, <1>36
  DEF Next, Network, Callbacks, Restore, Refresh, Preempt

-----------------------------------------------------------------------------
\* A step that keeps the channels and does not finish an authentication keeps
\* Covered, and with it all of the invariant.
Quiet == {"disconnected", "connecting", "connected", "app_auth", "degraded",
          "reconnecting", "failed"}

LEMMA MovedQuiet ==
    \A s \in States, t \in Quiet :
       /\ Moved(s, t) = "acct_auth" => s = "acct_auth"
       /\ Moved(s, t) \in {"suspended", "subscribing"} => s = Moved(s, t)
       /\ Operational(Moved(s, t)) /\ s \notin {"suspended", "subscribing"} => Operational(s)
BY DEF Quiet, Moved, Valid, States, Operational

\* A lost connection leaves no state in which something may be authorised.
LEMMA MovedLostQuiet ==
    \A s \in States : s \notin {"suspended", "subscribing"} =>
       /\ Moved(s, "reconnecting") \notin {"acct_auth", "suspended", "subscribing"}
       /\ ~Operational(Moved(s, "reconnecting"))
BY DEF Moved, Valid, States, Operational

LEMMA MovedAcct ==
    \A s \in States : s \notin {"suspended", "subscribing"} =>
       /\ Moved(s, "acct_auth") \notin {"suspended", "subscribing"}
       /\ Operational(Moved(s, "acct_auth")) => Operational(s)
BY DEF Moved, Valid, States, Operational

\* Only ACCT_AUTHENTICATING may become AUTHENTICATED.
LEMMA MovedDone ==
    \A s \in States : s \notin {"suspended", "subscribing"} =>
       /\ Moved(s, "authenticated") # "acct_auth"
       /\ Moved(s, "authenticated") \notin {"suspended", "subscribing"}
       /\ Operational(Moved(s, "authenticated")) => Operational(s) \/ s = "acct_auth"
BY DEF Moved, Valid, States, Operational

LEMMA CoveredFrame ==
    ASSUME TypeOK, OperationalIsAuthorised, SessionAux,
           UNCHANGED <<client, chan>>,
           srvAcct \subseteq srvAcct',
           srvAcct' # srvAcct => chan[client] = "up" /\ srvAcct' = srvAcct \cup {client},
           preempt' = "dial" => preempt = "dial",
           \A i \in Restorer : restore'[i] \in {"acct_ok", "restored"} =>
                               restore[i] \in {"acct_ok", "restored"},
           state' = state \/ \E t \in Quiet : state' = Moved(state, t)
    PROVE  (OperationalIsAuthorised /\ SessionAux)'
<1>1. /\ state' = "acct_auth" => state = "acct_auth"
      /\ state' \notin {"suspended", "subscribing"}
      /\ Operational(state') => Operational(state)
  BY MovedQuiet DEF TypeOK, ThreadType, SessionAux, NeverParked
<1>2. Covered => Covered'
  BY DEF Covered
<1>3. OperationalIsAuthorised'
  BY <1>1, <1>2 DEF OperationalIsAuthorised, Covered
<1>4. Awaiting'
  BY <1>1, <1>2 DEF SessionAux, Awaiting
<1>5. (CurrentIsOpen /\ AuthorisedIsOpen /\ DialHasNoClient)'
  BY DEF SessionAux, CurrentIsOpen, AuthorisedIsOpen, DialHasNoClient
<1> QED BY <1>1, <1>3, <1>4, <1>5 DEF SessionAux, NeverParked

LEMMA CoveredStep == SessionInv /\ [Next]_vars => (OperationalIsAuthorised /\ SessionAux)'
<1> SUFFICES ASSUME TypeOK, ReauthExclusive, OperationalIsAuthorised, SessionAux, [Next]_vars
             PROVE  (OperationalIsAuthorised /\ SessionAux)'
  BY DEF SessionInv
<1> DEFINE Goal == (OperationalIsAuthorised /\ SessionAux)'
<1> USE DEF TypeOK, ThreadType
<1>1. ASSUME NEW n \in Client, Lose(n) PROVE Goal
  <2>1. /\ state' \notin {"acct_auth", "suspended", "subscribing"}
        /\ ~Operational(state')
    BY <1>1, MovedLostQuiet DEF Lose, HandleDisconnected, Transition, SessionAux,
       NeverParked
  <2>2. (CurrentIsOpen /\ AuthorisedIsOpen /\ DialHasNoClient)'
    BY <1>1 DEF Lose, ChannelType, SessionAux, CurrentIsOpen, AuthorisedIsOpen,
       DialHasNoClient, preemptVars
  <2> QED BY <2>1, <2>2 DEF OperationalIsAuthorised, SessionAux, Awaiting, NeverParked
<1>2. ASSUME NEW n \in Client, Closed(n) PROVE Goal
  <2>1. /\ state' \notin {"acct_auth", "suspended", "subscribing"}
        /\ ~Operational(state')
    BY <1>2, MovedLostQuiet DEF Closed, HandleDisconnected, Transition, SessionAux,
       NeverParked
  <2>2. (CurrentIsOpen /\ AuthorisedIsOpen /\ DialHasNoClient)'
    BY <1>2 DEF Closed, ChannelType, SessionAux, CurrentIsOpen, AuthorisedIsOpen,
       DialHasNoClient, preemptVars
  <2> QED BY <2>1, <2>2 DEF OperationalIsAuthorised, SessionAux, Awaiting, NeverParked
<1>3. ASSUME NEW n \in Client, Connect(n) PROVE Goal
  <2>1. Covered => Covered'
    BY <1>3 DEF Connect, Covered, ChannelType
  <2>2. (CurrentIsOpen /\ AuthorisedIsOpen /\ DialHasNoClient)'
    BY <1>3 DEF Connect, ChannelType, SessionAux, CurrentIsOpen, AuthorisedIsOpen,
       DialHasNoClient, preemptVars
  <2>3. /\ state' = "acct_auth" => state = "acct_auth"
        /\ state' \notin {"suspended", "subscribing"}
        /\ Operational(state') => Operational(state)
    BY <1>3, MovedQuiet DEF Connect, Transition, Quiet, SessionAux, NeverParked
  <2> QED BY <1>3, <2>1, <2>2, <2>3 DEF Connect, OperationalIsAuthorised, Covered,
     SessionAux, Awaiting, NeverParked, restoreVars
<1>4. ASSUME NEW i \in Restorer, RestoreSkip(i) PROVE Goal
  BY <1>4, CoveredFrame DEF RestoreSkip, At, chanVars, preemptVars
<1>5. ASSUME NEW i \in Restorer, RestoreAcquire(i) PROVE Goal
  BY <1>5, CoveredFrame DEF RestoreAcquire, At, chanVars, preemptVars
<1>6. ASSUME NEW i \in Restorer, RestoreCheck(i) PROVE Goal
  BY <1>6, CoveredFrame DEF RestoreCheck, At, chanVars, preemptVars
<1>7. ASSUME NEW i \in Restorer, RestoreSettle(i) PROVE Goal
  BY <1>7, CoveredFrame DEF RestoreSettle, At, Transition, chanVars, preemptVars, Quiet
<1>8. ASSUME NEW i \in Restorer, RestoreAppOk(i) PROVE Goal
  BY <1>8, CoveredFrame DEF RestoreAppOk, At, preemptVars
<1>9. ASSUME NEW i \in Restorer, RestoreAppRetry(i) PROVE Goal
  BY <1>9, CoveredFrame DEF RestoreAppRetry, At, preemptVars
<1>10. ASSUME NEW i \in Restorer, RestoreAppFails(i) PROVE Goal
  BY <1>10, CoveredFrame DEF RestoreAppFails, At, AuthFailure, Transition, preemptVars,
     Quiet
<1>11. ASSUME NEW i \in Restorer, RestoreAppDone(i) PROVE Goal
  <2>1. \A j \in Restorer : restore'[j] \notin {"acct_ok", "restored"}
    BY <1>11 DEF RestoreAppDone, At, ReauthExclusive, Inside
  <2>2. /\ state' \notin {"suspended", "subscribing"}
        /\ Operational(state') => Operational(state)
    BY <1>11, MovedAcct DEF RestoreAppDone, Transition, SessionAux, NeverParked
  <2> QED BY <1>11, <2>1, <2>2 DEF RestoreAppDone, OperationalIsAuthorised, SessionAux,
     Awaiting, CurrentIsOpen, AuthorisedIsOpen, DialHasNoClient, NeverParked, chanVars,
     preemptVars
<1>12. ASSUME NEW i \in Restorer, RestoreAcctCheck(i) PROVE Goal
  BY <1>12, CoveredFrame DEF RestoreAcctCheck, At, chanVars, preemptVars
<1>13. ASSUME NEW i \in Restorer, RestoreAcctOk(i) PROVE Goal
  <2>1. client \in srvAcct'
    BY <1>13 DEF RestoreAcctOk
  <2>2. (CurrentIsOpen /\ AuthorisedIsOpen /\ DialHasNoClient)'
    BY <1>13 DEF RestoreAcctOk, Reachable, SessionAux, CurrentIsOpen, AuthorisedIsOpen,
       DialHasNoClient, preemptVars
  <2> QED BY <1>13, <2>1, <2>2 DEF RestoreAcctOk, OperationalIsAuthorised, SessionAux,
     Awaiting, Covered, NeverParked
<1>14. ASSUME NEW i \in Restorer, RestoreAcctFails(i) PROVE Goal
  BY <1>14, CoveredFrame DEF RestoreAcctFails, At, AcctRefused, AuthFailure, Transition,
     preemptVars, Quiet, Reachable
<1>15. ASSUME NEW i \in Restorer, RestoreAuthed(i) PROVE Goal
  BY <1>15, CoveredFrame DEF RestoreAuthed, At, preemptVars
<1>16. ASSUME NEW i \in Restorer, RestoreDone(i) PROVE Goal
  <2>1. /\ state' # "acct_auth"  \/ state' = state
        /\ state' \notin {"suspended", "subscribing"}
        /\ Operational(state') => Operational(state) \/ state = "acct_auth"
    BY <1>16, MovedDone DEF RestoreDone, Transition, SessionAux, NeverParked
  <2>2. Operational(state') => Covered
    BY <1>16, <2>1 DEF RestoreDone, At, OperationalIsAuthorised, SessionAux, Awaiting,
       Covered
  <2>3. \A j \in Restorer : restore'[j] \notin {"acct_ok", "restored"}
    BY <1>16 DEF RestoreDone, At, ReauthExclusive, Inside
  <2> QED BY <1>16, <2>1, <2>2, <2>3 DEF RestoreDone, OperationalIsAuthorised,
     SessionAux, Awaiting, Covered, CurrentIsOpen, AuthorisedIsOpen, DialHasNoClient,
     NeverParked, chanVars, preemptVars
<1>17. ASSUME NEW i \in Restorer, RestoreClear(i) PROVE Goal
  BY <1>17, CoveredFrame DEF RestoreClear, At, chanVars, preemptVars
<1>18. ASSUME NEW i \in Restorer, RestoreRelease(i) PROVE Goal
  BY <1>18, CoveredFrame DEF RestoreRelease, At, chanVars, preemptVars
<1>19. ASSUME NEW r \in Refresher, RefreshStart(r) PROVE Goal
  BY <1>19, CoveredFrame DEF RefreshStart, chanVars, preemptVars, restoreVars
<1>20. ASSUME NEW r \in Refresher, RefreshSkip(r) PROVE Goal
  BY <1>20, CoveredFrame DEF RefreshSkip, chanVars, preemptVars, restoreVars
<1>21. ASSUME NEW r \in Refresher, RefreshAcquire(r) PROVE Goal
  BY <1>21, CoveredFrame DEF RefreshAcquire, chanVars, preemptVars, restoreVars
<1>22. ASSUME NEW r \in Refresher, RefreshFails(r) PROVE Goal
  BY <1>22, CoveredFrame DEF RefreshFails, AuthFailure, Transition, chanVars,
     preemptVars, restoreVars, Quiet
<1>23. ASSUME NEW r \in Refresher, RefreshOk(r) PROVE Goal
  BY <1>23, CoveredFrame DEF RefreshOk, chanVars, preemptVars, restoreVars
<1>24. ASSUME NEW r \in Refresher, RefreshLink(r) PROVE Goal
  BY <1>24, CoveredFrame DEF RefreshLink, chanVars, preemptVars, restoreVars
<1>25. ASSUME NEW r \in Refresher, RefreshSend(r) PROVE Goal
  BY <1>25, CoveredFrame DEF RefreshSend, chanVars, preemptVars, restoreVars
<1>26. ASSUME NEW r \in Refresher, RefreshRelease(r) PROVE Goal
  BY <1>26, CoveredFrame DEF RefreshRelease, chanVars, preemptVars, restoreVars
<1>27. ASSUME OnDisconnected PROVE Goal
  BY <1>27, CoveredFrame DEF OnDisconnected, chanVars, preemptVars, restoreVars
<1>28. ASSUME OnConnected PROVE Goal
  BY <1>28, CoveredFrame DEF OnConnected, chanVars, preemptVars, restoreVars
<1>29. ASSUME SendQueued PROVE Goal
  BY <1>29, CoveredFrame DEF SendQueued, preemptVars, restoreVars, Reachable
<1>30. ASSUME PreemptCheck PROVE Goal
  BY <1>30, CoveredFrame DEF PreemptCheck, chanVars, restoreVars
<1>31. ASSUME PreemptClaim PROVE Goal
  BY <1>31, CoveredFrame DEF PreemptClaim, chanVars, restoreVars
<1>32. ASSUME PreemptTeardown PROVE Goal
  <2>1. Covered => Covered'
    <3>1. CASE client \in srvAcct
      <4>1. chan'[client] = "closing" /\ client \in Client
        BY <1>32, <3>1, ClientAssumption DEF PreemptTeardown, ChannelType, SessionAux,
           CurrentIsOpen, AuthorisedIsOpen
      <4> QED BY <4>1 DEF Covered
    <3>2. CASE client \notin srvAcct
      BY <1>32, <3>2, ClientAssumption DEF PreemptTeardown, Covered, ChannelType,
         SessionAux, CurrentIsOpen
    <3> QED BY <3>1, <3>2
  <2>2. (CurrentIsOpen /\ DialHasNoClient)'
    BY <1>32 DEF PreemptTeardown, CurrentIsOpen, DialHasNoClient
  <2>3. AuthorisedIsOpen'
    BY <1>32, ClientAssumption DEF PreemptTeardown, ChannelType, SessionAux,
       AuthorisedIsOpen, CurrentIsOpen
  <2> QED BY <1>32, <2>1, <2>2, <2>3 DEF PreemptTeardown, OperationalIsAuthorised,
     Covered, SessionAux, Awaiting, NeverParked, restoreVars
<1>33. ASSUME PreemptDial PROVE Goal
  <2>1. client = 0 /\ client \notin srvAcct
    BY <1>33, ClientAssumption DEF PreemptDial, ChannelType, SessionAux, DialHasNoClient
  <2>2. Covered => Covered'
    BY <1>33, <2>1 DEF PreemptDial, Covered, ChannelType
  <2>3. (CurrentIsOpen /\ AuthorisedIsOpen /\ DialHasNoClient)'
    BY <1>33 DEF PreemptDial, ChannelType, SessionAux, CurrentIsOpen, AuthorisedIsOpen,
       DialHasNoClient
  <2>4. /\ state' = "acct_auth" => state = "acct_auth"
        /\ state' \notin {"suspended", "subscribing"}
        /\ Operational(state') => Operational(state)
    BY <1>33, MovedQuiet DEF PreemptDial, Transition, Quiet, SessionAux, NeverParked
  <2> QED BY <1>33, <2>2, <2>3, <2>4 DEF PreemptDial, OperationalIsAuthorised, Covered,
     SessionAux, Awaiting, NeverParked, restoreVars
<1>34. ASSUME PreemptEnd PROVE Goal
  BY <1>34, CoveredFrame DEF PreemptEnd, chanVars, restoreVars
<1>35. ASSUME HeartbeatAlarm PROVE Goal
  BY <1>35, CoveredFrame DEF HeartbeatAlarm, Transition, chanVars, preemptVars,
     restoreVars, Quiet
<1>36. CASE UNCHANGED vars
  BY <1>36, CoveredFrame DEF vars, restoreVars, chanVars, preemptVars
<1> QED BY <1>1, <1>2, <1>3, <1>4, <1>5, <1>6, <1>7, <1>8, <1>9, <1>10, <1>11, <1>12,
   <1>13, <1>14, <1>15, <1>16, <1>17, <1>18, <1>19, <1>20, <1>21, <1>22, <1>23, <1>24,
   <1>25, <1>26, <1>27, <1>28, <1>29, <1>30, <1>31, <1>32, <1>33, <1>34, <1>35, <1>36
  DEF Next, Network, Callbacks, Restore, Refresh, Preempt

-----------------------------------------------------------------------------
LEMMA SessionInvStep == SessionInv /\ [Next]_vars => SessionInv'
BY SessionTypeStep, ExclusiveStep, CoveredStep DEF SessionInv

LEMMA SessionAlways == Spec => []SessionInv
BY SessionInvInit, SessionInvStep, PTL DEF Spec

\* _session_reauth_lock: two re-auth cycles never overlap, whoever runs them, and the
\* lock is taken exactly while one is under way.
THEOREM ReauthIsExclusive == Spec => []ReauthExclusive
<1>1. SessionInv => ReauthExclusive
  BY DEF SessionInv
<1> QED BY <1>1, SessionAlways, PTL

\* An operational feed has an authorised channel, or a disconnect callback to come.
THEOREM OperationalAuthorised == Spec => []OperationalIsAuthorised
<1>1. SessionInv => OperationalIsAuthorised
  BY DEF SessionInv
<1> QED BY <1>1, SessionAlways, PTL
=============================================================================
