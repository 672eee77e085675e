-------------------------- MODULE RiskLedgerProofs --------------------------
(* What the risk ledger guarantees for any number of signals, any limits,     *)
(* sizes and losses, and any distance between an alias and its signal.        *)
EXTENDS RiskLedger, TLAPS

\* Only accepted signals are known to the maps; a position has no mapping
\* before its order is filled; no signal both has and lacks a position.
OnlyAccepted ==
    /\ reserved \cup runner \cup unmapped \cup mapped \subseteq 1..accepted
    /\ \A s \in Signal : exec[s] = "new" <=> s > accepted
    /\ \A s \in Signal : exec[s] # "filled" => p2s[s] = None
    /\ unmapped \cap mapped = {}

\* The state file holds the losses recorded since the reset, too.
LossesKept == used >= recorded /\ fileUsed >= recorded

LedgerInv == TypeOK /\ OnlyAccepted /\ HeldIsReachable /\ LossesKept

-----------------------------------------------------------------------------
(* What the identity look-ups return.                                      *)

\* An alias resolves to a reserved signal without a position, or to nothing.
LEMMA ResolvedIsWaiting ==
    \A time : ResolveAlias(time) = None
              \/ ResolveAlias(time) \in unmapped \cap reserved \cap Signal
<1> SUFFICES ASSUME NEW time, \E c \in Signal : Near(time) = {c}
             PROVE  ResolveAlias(time) \in unmapped \cap reserved \cap Signal
  BY DEF ResolveAlias
<1>1. PICK c \in Signal : Near(time) = {c}
  OBVIOUS
<1>2. ResolveAlias(time) = c
  BY <1>1 DEF ResolveAlias
<1> QED BY <1>1, <1>2 DEF Near

\* A fill is given to a signal that the runner tracks and that waits.
LEMMA BackerIsWaiting ==
    \A r : OldestBacker(r) => r \in unmapped \cap runner
BY DEF OldestBacker, Backers

\* A close arrives at the signal its position is mapped to, or at one that
\* waits for a position, or at nothing.
LEMMA ClosedIsKnown ==
    \A s \in Signal : \A r \in ClosedIdentities(s) :
        /\ r = p2s[s] \/ r = None \/ r \in unmapped \cap reserved \cap Signal
        /\ p2s[s] \in reserved => r = p2s[s]
BY ResolvedIsWaiting DEF ClosedIdentities

-----------------------------------------------------------------------------
(* Type correctness.                                                       *)

LEMMA LedgerTypeInit == Init => TypeOK
<1> SUFFICES ASSUME Init PROVE TypeOK
  OBVIOUS
<1>1. SizerType
  BY DEF Init, SizerType
<1>2. MapType
  BY DEF Init, MapType
<1>3. SignalType
  BY LedgerAssumption DEF Init, SignalType, Signal, Execs
<1>4. FlagType
  BY DEF Init, FlagType
<1> QED BY <1>1, <1>2, <1>3, <1>4 DEF TypeOK

LEMMA LedgerTypeStep == TypeOK /\ [Next]_vars => TypeOK'
<1> SUFFICES ASSUME TypeOK, [Next]_vars PROVE TypeOK'
  OBVIOUS
<1> USE DEF sizerVars, mapVars, fileVars, dayVars, signalVars, orderVars, history
<1>1. ASSUME NEW s \in Signal, OnSignal(s) PROVE TypeOK'
  <2>1. SizerType'
    BY <1>1, LedgerAssumption DEF OnSignal, TypeOK, SizerType, SignalType
  <2>2. MapType'
    BY <1>1 DEF OnSignal, TypeOK, MapType
  <2>3. SignalType'
    BY <1>1, LedgerAssumption DEF OnSignal, TypeOK, SignalType, Signal,
       Execs
  <2>4. FlagType'
    BY <1>1, Zenon DEF OnSignal, TypeOK, FlagType
  <2> QED BY <2>1, <2>2, <2>3, <2>4 DEF TypeOK
<1>2. ASSUME OnSignalRejected PROVE TypeOK'
  <2>1. SizerType'
    BY <1>2, LedgerAssumption DEF OnSignalRejected, TypeOK, SizerType, SignalType
  <2>2. MapType'
    BY <1>2 DEF OnSignalRejected, TypeOK, MapType
  <2>3. SignalType'
    BY <1>2, LedgerAssumption DEF OnSignalRejected, TypeOK, SignalType, Signal,
       Execs
  <2>4. FlagType'
    BY <1>2, Zenon DEF OnSignalRejected, TypeOK, FlagType
  <2> QED BY <2>1, <2>2, <2>3, <2>4 DEF TypeOK
<1>3. ASSUME NEW s \in Signal, OrderFilled(s) PROVE TypeOK'
  <2>1. SizerType'
    BY <1>3, LedgerAssumption DEF OrderFilled, TypeOK, SizerType, SignalType
  <2>2. MapType'
    BY <1>3, BackerIsWaiting DEF OrderFilled, TypeOK, MapType
  <2>3. SignalType'
    BY <1>3, LedgerAssumption DEF OrderFilled, TypeOK, SignalType, Signal,
       Execs
  <2>4. FlagType'
    BY <1>3, Zenon DEF OrderFilled, TypeOK, FlagType
  <2> QED BY <2>1, <2>2, <2>3, <2>4 DEF TypeOK
<1>4. ASSUME NEW s \in Signal, OrderFailed(s) PROVE TypeOK'
  <2>1. SizerType'
    BY <1>4, LedgerAssumption DEF OrderFailed, Forget, TypeOK, SizerType, SignalType
  <2>2. MapType'
    BY <1>4, ResolvedIsWaiting DEF OrderFailed, Forget, TypeOK, MapType
  <2>3. SignalType'
    BY <1>4, LedgerAssumption DEF OrderFailed, Forget, TypeOK, SignalType, Signal,
       Execs
  <2>4. FlagType'
    BY <1>4, Zenon DEF OrderFailed, Forget, TypeOK, FlagType
  <2> QED BY <2>1, <2>2, <2>3, <2>4 DEF TypeOK
<1>5. ASSUME NEW s \in Signal, OrderUndecided(s) PROVE TypeOK'
  <2>1. SizerType'
    BY <1>5, LedgerAssumption DEF OrderUndecided, TypeOK, SizerType, SignalType
  <2>2. MapType'
    BY <1>5 DEF OrderUndecided, TypeOK, MapType
  <2>3. SignalType'
    BY <1>5, LedgerAssumption DEF OrderUndecided, TypeOK, SignalType, Signal,
       Execs
  <2>4. FlagType'
    BY <1>5, Zenon DEF OrderUndecided, TypeOK, FlagType
  <2> QED BY <2>1, <2>2, <2>3, <2>4 DEF TypeOK
<1>6. ASSUME NEW s \in Signal, OrphanFilled(s) PROVE TypeOK'
  <2>1. SizerType'
    BY <1>6, LedgerAssumption DEF OrphanFilled, TypeOK, SizerType, SignalType
  <2>2. MapType'
    BY <1>6 DEF OrphanFilled, TypeOK, MapType
  <2>3. SignalType'
    BY <1>6, LedgerAssumption DEF OrphanFilled, TypeOK, SignalType, Signal,
       Execs
  <2>4. FlagType'
    BY <1>6, Zenon DEF OrphanFilled, TypeOK, FlagType
  <2> QED BY <2>1, <2>2, <2>3, <2>4 DEF TypeOK
<1>7. ASSUME NEW s \in Signal, NEW l \in Loss, PaperClose(s, l) PROVE TypeOK'
  <2>1. SizerType'
    BY <1>7, LedgerAssumption DEF PaperClose, RecordClose, Forget, TypeOK, SizerType, SignalType
  <2>2. MapType'
    BY <1>7, ResolvedIsWaiting DEF PaperClose, RecordClose, Forget, TypeOK, MapType
  <2>3. SignalType'
    BY <1>7, LedgerAssumption DEF PaperClose, RecordClose, Forget, TypeOK, SignalType, Signal,
       Execs
  <2>4. FlagType'
    BY <1>7, Zenon DEF PaperClose, RecordClose, Forget, TypeOK, FlagType
  <2> QED BY <2>1, <2>2, <2>3, <2>4 DEF TypeOK
<1>8. ASSUME NEW s \in Signal, NEW l \in Loss, BrokerClose(s, l) PROVE TypeOK'
  <2>1. SizerType'
    BY <1>8, LedgerAssumption DEF BrokerClose, TypeOK, SizerType, SignalType
  <2>2. MapType'
    BY <1>8 DEF BrokerClose, TypeOK, MapType
  <2>3. SignalType'
    BY <1>8, LedgerAssumption DEF BrokerClose, TypeOK, SignalType, Signal,
       Execs
  <2>4. FlagType'
    BY <1>8, Zenon DEF BrokerClose, TypeOK, FlagType
  <2> QED BY <2>1, <2>2, <2>3, <2>4 DEF TypeOK
<1>9. ASSUME AskBroker PROVE TypeOK'
  <2>1. SizerType'
    BY <1>9, LedgerAssumption DEF AskBroker, Answers, TypeOK, SizerType, SignalType
  <2>2. MapType'
    BY <1>9 DEF AskBroker, Answers, TypeOK, MapType
  <2>3. SignalType'
    BY <1>9, LedgerAssumption DEF AskBroker, Answers, TypeOK, SignalType, Signal,
       Execs
  <2>4. FlagType'
    BY <1>9, Zenon DEF AskBroker, Answers, TypeOK, FlagType
  <2> QED BY <2>1, <2>2, <2>3, <2>4 DEF TypeOK
<1>10. ASSUME RebuildFromBroker PROVE TypeOK'
  <2>1. SizerType'
    BY <1>10, LedgerAssumption DEF RebuildFromBroker, NoAnswer, TypeOK, SizerType, SignalType
  <2>2. MapType'
    BY <1>10 DEF RebuildFromBroker, NoAnswer, TypeOK, MapType
  <2>3. SignalType'
    BY <1>10, LedgerAssumption DEF RebuildFromBroker, NoAnswer, TypeOK, SignalType, Signal,
       Execs
  <2>4. FlagType'
    BY <1>10, Zenon DEF RebuildFromBroker, NoAnswer, TypeOK, FlagType
  <2> QED BY <2>1, <2>2, <2>3, <2>4 DEF TypeOK
<1>11. ASSUME Midnight PROVE TypeOK'
  <2>1. SizerType'
    BY <1>11, LedgerAssumption DEF Midnight, TypeOK, SizerType, SignalType
  <2>2. MapType'
    BY <1>11 DEF Midnight, TypeOK, MapType
  <2>3. SignalType'
    BY <1>11, LedgerAssumption DEF Midnight, TypeOK, SignalType, Signal,
       Execs
  <2>4. FlagType'
    BY <1>11, Zenon DEF Midnight, TypeOK, FlagType
  <2> QED BY <2>1, <2>2, <2>3, <2>4 DEF TypeOK
<1>12. ASSUME EngineDailyReset PROVE TypeOK'
  <2>1. SizerType'
    BY <1>12, LedgerAssumption DEF EngineDailyReset, TypeOK, SizerType, SignalType
  <2>2. MapType'
    BY <1>12 DEF EngineDailyReset, TypeOK, MapType
  <2>3. SignalType'
    BY <1>12, LedgerAssumption DEF EngineDailyReset, TypeOK, SignalType, Signal,
       Execs
  <2>4. FlagType'
    BY <1>12, Zenon DEF EngineDailyReset, TypeOK, FlagType
  <2> QED BY <2>1, <2>2, <2>3, <2>4 DEF TypeOK
<1>13. ASSUME NEW clean \in BOOLEAN, Restart(clean) PROVE TypeOK'
  <2>1. SizerType'
    BY <1>13, LedgerAssumption DEF Restart, Answers, TypeOK, SizerType, SignalType
  <2>2. MapType'
    BY <1>13 DEF Restart, Answers, TypeOK, MapType
  <2>3. SignalType'
    BY <1>13, LedgerAssumption DEF Restart, Answers, TypeOK, SignalType, Signal,
       Execs
  <2>4. FlagType'
    BY <1>13, Zenon DEF Restart, Answers, TypeOK, FlagType
  <2> QED BY <2>1, <2>2, <2>3, <2>4 DEF TypeOK
<1>14. ASSUME UNCHANGED vars PROVE TypeOK'
  BY <1>14 DEF TypeOK, SizerType, MapType, SignalType, FlagType, vars
<1>15. ASSUME NEW s \in Signal, VerdictLost(s) PROVE TypeOK'
  <2>1. SizerType'
    BY <1>15, LedgerAssumption DEF VerdictLost, TypeOK, SizerType, SignalType
  <2>2. MapType'
    BY <1>15 DEF VerdictLost, TypeOK, MapType
  <2>3. SignalType'
    BY <1>15, LedgerAssumption DEF VerdictLost, TypeOK, SignalType, Signal,
       Execs
  <2>4. FlagType'
    BY <1>15, Zenon DEF VerdictLost, TypeOK, FlagType
  <2> QED BY <2>1, <2>2, <2>3, <2>4 DEF TypeOK
<1> QED BY <1>1, <1>2, <1>3, <1>4, <1>5, <1>6, <1>7, <1>8, <1>9, <1>10, <1>11,
         <1>12, <1>13, <1>14, <1>15 DEF Next

-----------------------------------------------------------------------------
(* The inductive invariant.                                                *)

LEMMA LedgerInvInit == Init => LedgerInv
<1> SUFFICES ASSUME Init PROVE LedgerInv
  OBVIOUS
<1>1. OnlyAccepted
  BY DEF Init, OnlyAccepted, Signal
<1>2. HeldIsReachable
  BY DEF Init, HeldIsReachable
<1>3. LossesKept
  BY DEF Init, LossesKept
<1> QED BY <1>1, <1>2, <1>3, LedgerTypeInit DEF LedgerInv

LEMMA LedgerInvStep == LedgerInv /\ [Next]_vars => LedgerInv'
<1> SUFFICES ASSUME LedgerInv, [Next]_vars PROVE LedgerInv'
  OBVIOUS
<1> USE DEF sizerVars, mapVars, fileVars, dayVars, signalVars, orderVars, history
<1>0. TypeOK /\ TypeOK'
  BY LedgerTypeStep DEF LedgerInv
<1>1. ASSUME NEW s \in Signal, OnSignal(s) PROVE LedgerInv'
  <2>1. OnlyAccepted'
    BY <1>0, <1>1, LedgerAssumption DEF OnSignal, LedgerInv,
       OnlyAccepted, TypeOK, MapType, SignalType, Signal, Execs, None
  <2>2. HeldIsReachable'
    BY <1>0, <1>1 DEF OnSignal, LedgerInv, OnlyAccepted,
       HeldIsReachable, TypeOK, SizerType, MapType, SignalType, Signal,
       None
  <2>3. LossesKept'
    BY <1>0, <1>1, LedgerAssumption DEF OnSignal, LedgerInv, LossesKept,
       TypeOK, SizerType
  <2> QED BY <1>0, <2>1, <2>2, <2>3 DEF LedgerInv
<1>2. ASSUME OnSignalRejected PROVE LedgerInv'
  <2>1. OnlyAccepted'
    BY <1>0, <1>2, LedgerAssumption DEF OnSignalRejected, LedgerInv,
       OnlyAccepted, TypeOK, MapType, SignalType, Signal, Execs, None
  <2>2. HeldIsReachable'
    BY <1>0, <1>2 DEF OnSignalRejected, LedgerInv, OnlyAccepted,
       HeldIsReachable, TypeOK, SizerType, MapType, SignalType, Signal,
       None
  <2>3. LossesKept'
    BY <1>0, <1>2, LedgerAssumption DEF OnSignalRejected, LedgerInv, LossesKept,
       TypeOK, SizerType
  <2> QED BY <1>0, <2>1, <2>2, <2>3 DEF LedgerInv
<1>3. ASSUME NEW s \in Signal, OrderFilled(s) PROVE LedgerInv'
  <2>1. OnlyAccepted'
    BY <1>0, <1>3, BackerIsWaiting, LedgerAssumption DEF OrderFilled, LedgerInv,
       OnlyAccepted, TypeOK, MapType, SignalType, Signal, Execs, None
  <2>2. HeldIsReachable'
    <3>1. reserved' = reserved /\ runner' = runner
      BY <1>3 DEF OrderFilled
    <3>2. p2s[s] = None
      BY <1>3 DEF OrderFilled, LedgerInv, OnlyAccepted
    <3>3. CASE /\ p2s' = [p2s EXCEPT ![s] = Raw]
               /\ UNCHANGED <<s2p, mapped, unmapped>>
      BY <1>0, <3>1, <3>2, <3>3 DEF LedgerInv, HeldIsReachable, TypeOK,
         SizerType, MapType, Signal, None
    <3>4. CASE \E r \in Signal :
                 /\ OldestBacker(r)
                 /\ p2s' = [p2s EXCEPT ![s] = r]
                 /\ s2p' = [s2p EXCEPT ![r] = s]
                 /\ mapped' = mapped \cup {r}
                 /\ unmapped' = unmapped \ {r}
      <4>1. PICK r \in Signal :
              /\ OldestBacker(r)
              /\ p2s' = [p2s EXCEPT ![s] = r]
              /\ s2p' = [s2p EXCEPT ![r] = s]
              /\ mapped' = mapped \cup {r}
              /\ unmapped' = unmapped \ {r}
        BY <3>4
      <4> SUFFICES ASSUME NEW q \in reserved
                   PROVE  /\ q \in runner
                          /\ (q \in unmapped') # (q \in mapped')
                          /\ q \in mapped' => s2p'[q] # None /\ p2s'[s2p'[q]] = q
        BY <3>1 DEF HeldIsReachable
      <4>2. /\ q \in Signal /\ q \in runner
            /\ (q \in unmapped) # (q \in mapped)
            /\ q \in mapped => s2p[q] # None /\ p2s[s2p[q]] = q
        BY <1>0 DEF LedgerInv, HeldIsReachable, TypeOK, SizerType
      <4>3. /\ s # None /\ q # None
            /\ p2s \in [Signal -> Signal \cup {None, Raw}]
            /\ s2p \in [Signal -> Signal \cup {None}]
        BY <1>0, <4>2 DEF TypeOK, MapType, Signal, None
      <4>4. CASE q = r
        BY <4>1, <4>2, <4>3, <4>4
      <4>5. CASE q # r
        BY <3>2, <4>1, <4>2, <4>3, <4>5
      <4> QED BY <4>4, <4>5
    <3> QED BY <1>3, <3>3, <3>4 DEF OrderFilled
  <2>3. LossesKept'
    BY <1>0, <1>3, LedgerAssumption DEF OrderFilled, LedgerInv, LossesKept,
       TypeOK, SizerType
  <2> QED BY <1>0, <2>1, <2>2, <2>3 DEF LedgerInv
<1>4. ASSUME NEW s \in Signal, OrderFailed(s) PROVE LedgerInv'
  <2>1. OnlyAccepted'
    BY <1>0, <1>4, ResolvedIsWaiting, LedgerAssumption DEF OrderFailed, Forget, LedgerInv,
       OnlyAccepted, TypeOK, MapType, SignalType, Signal, Execs, None
  <2>2. HeldIsReachable'
    BY <1>0, <1>4, ResolvedIsWaiting DEF OrderFailed, Forget, LedgerInv, OnlyAccepted,
       HeldIsReachable, TypeOK, SizerType, MapType, SignalType, Signal,
       None
  <2>3. LossesKept'
    BY <1>0, <1>4, LedgerAssumption DEF OrderFailed, Forget, LedgerInv, LossesKept,
       TypeOK, SizerType
  <2> QED BY <1>0, <2>1, <2>2, <2>3 DEF LedgerInv
<1>5. ASSUME NEW s \in Signal, OrderUndecided(s) PROVE LedgerInv'
  <2>1. OnlyAccepted'
    BY <1>0, <1>5, LedgerAssumption DEF OrderUndecided, LedgerInv,
       OnlyAccepted, TypeOK, MapType, SignalType, Signal, Execs, None
  <2>2. HeldIsReachable'
    BY <1>0, <1>5 DEF OrderUndecided, LedgerInv, OnlyAccepted,
       HeldIsReachable, TypeOK, SizerType, MapType, SignalType, Signal,
       None
  <2>3. LossesKept'
    BY <1>0, <1>5, LedgerAssumption DEF OrderUndecided, LedgerInv, LossesKept,
       TypeOK, SizerType
  <2> QED BY <1>0, <2>1, <2>2, <2>3 DEF LedgerInv
<1>6. ASSUME NEW s \in Signal, OrphanFilled(s) PROVE LedgerInv'
  <2>1. OnlyAccepted'
    BY <1>0, <1>6, LedgerAssumption DEF OrphanFilled, LedgerInv,
       OnlyAccepted, TypeOK, MapType, SignalType, Signal, Execs, None
  <2>2. HeldIsReachable'
    BY <1>0, <1>6 DEF OrphanFilled, LedgerInv, OnlyAccepted,
       HeldIsReachable, TypeOK, SizerType, MapType, SignalType, Signal,
       None
  <2>3. LossesKept'
    BY <1>0, <1>6, LedgerAssumption DEF OrphanFilled, LedgerInv, LossesKept,
       TypeOK, SizerType
  <2> QED BY <1>0, <2>1, <2>2, <2>3 DEF LedgerInv
<1>7. ASSUME NEW s \in Signal, NEW l \in Loss, PaperClose(s, l) PROVE LedgerInv'
  <2>1. OnlyAccepted'
    BY <1>0, <1>7, ClosedIsKnown, LedgerAssumption DEF PaperClose, RecordClose, Forget, LedgerInv,
       OnlyAccepted, TypeOK, MapType, SignalType, Signal, Execs, None
  <2>2. HeldIsReachable'
    <3>1. PICK r \in ClosedIdentities(s) :
            IF r \in reserved
            THEN RecordClose(r, l) /\ UNCHANGED missed
            ELSE /\ missed' = (missed \/ l > 0)
                 /\ UNCHANGED <<reserved, runner, mapped, unmapped, s2p, used,
                                recorded, fileVars>>
      BY <1>7 DEF PaperClose
    <3>2. p2s' = [p2s EXCEPT ![s] = None]
      BY <1>7 DEF PaperClose
    <3>3. p2s[s] \in reserved => r = p2s[s]
      BY ClosedIsKnown
    <3>4. CASE r \in reserved
      <4>1. /\ reserved' = reserved \ {r} /\ runner' = runner \ {r}
            /\ mapped' = mapped \ {r} /\ unmapped' = unmapped \ {r}
            /\ s2p' = [s2p EXCEPT ![r] = None]
        BY <3>1, <3>4 DEF RecordClose, Forget
      <4> QED BY <1>0, <3>2, <3>3, <4>1 DEF LedgerInv, HeldIsReachable, TypeOK,
               SizerType, MapType
    <3>5. CASE r \notin reserved
      BY <1>0, <3>1, <3>2, <3>3, <3>5 DEF LedgerInv, HeldIsReachable, TypeOK,
         SizerType, MapType
    <3> QED BY <3>4, <3>5
  <2>3. LossesKept'
    BY <1>0, <1>7, LedgerAssumption DEF PaperClose, RecordClose, Forget, LedgerInv, LossesKept,
       TypeOK, SizerType
  <2> QED BY <1>0, <2>1, <2>2, <2>3 DEF LedgerInv
<1>8. ASSUME NEW s \in Signal, NEW l \in Loss, BrokerClose(s, l) PROVE LedgerInv'
  <2>1. OnlyAccepted'
    BY <1>0, <1>8, LedgerAssumption DEF BrokerClose, LedgerInv,
       OnlyAccepted, TypeOK, MapType, SignalType, Signal, Execs, None
  <2>2. HeldIsReachable'
    BY <1>0, <1>8 DEF BrokerClose, LedgerInv, OnlyAccepted,
       HeldIsReachable, TypeOK, SizerType, MapType, SignalType, Signal,
       None
  <2>3. LossesKept'
    BY <1>0, <1>8, LedgerAssumption DEF BrokerClose, LedgerInv, LossesKept,
       TypeOK, SizerType
  <2> QED BY <1>0, <2>1, <2>2, <2>3 DEF LedgerInv
<1>9. ASSUME AskBroker PROVE LedgerInv'
  <2>1. OnlyAccepted'
    BY <1>0, <1>9, LedgerAssumption DEF AskBroker, Answers, LedgerInv,
       OnlyAccepted, TypeOK, MapType, SignalType, Signal, Execs, None
  <2>2. HeldIsReachable'
    BY <1>0, <1>9 DEF AskBroker, Answers, LedgerInv, OnlyAccepted,
       HeldIsReachable, TypeOK, SizerType, MapType, SignalType, Signal,
       None
  <2>3. LossesKept'
    BY <1>0, <1>9, LedgerAssumption DEF AskBroker, Answers, LedgerInv, LossesKept,
       TypeOK, SizerType
  <2> QED BY <1>0, <2>1, <2>2, <2>3 DEF LedgerInv
<1>10. ASSUME RebuildFromBroker PROVE LedgerInv'
  <2>1. OnlyAccepted'
    BY <1>0, <1>10, LedgerAssumption DEF RebuildFromBroker, NoAnswer, LedgerInv,
       OnlyAccepted, TypeOK, MapType, SignalType, Signal, Execs, None
  <2>2. HeldIsReachable'
    BY <1>0, <1>10 DEF RebuildFromBroker, NoAnswer, LedgerInv, OnlyAccepted,
       HeldIsReachable, TypeOK, SizerType, MapType, SignalType, Signal,
       None
  <2>3. LossesKept'
    BY <1>0, <1>10, LedgerAssumption DEF RebuildFromBroker, NoAnswer, LedgerInv, LossesKept,
       TypeOK, SizerType
  <2> QED BY <1>0, <2>1, <2>2, <2>3 DEF LedgerInv
<1>11. ASSUME Midnight PROVE LedgerInv'
  <2>1. OnlyAccepted'
    BY <1>0, <1>11, LedgerAssumption DEF Midnight, LedgerInv,
       OnlyAccepted, TypeOK, MapType, SignalType, Signal, Execs, None
  <2>2. HeldIsReachable'
    BY <1>0, <1>11 DEF Midnight, LedgerInv, OnlyAccepted,
       HeldIsReachable, TypeOK, SizerType, MapType, SignalType, Signal,
       None
  <2>3. LossesKept'
    BY <1>0, <1>11, LedgerAssumption DEF Midnight, LedgerInv, LossesKept,
       TypeOK, SizerType
  <2> QED BY <1>0, <2>1, <2>2, <2>3 DEF LedgerInv
<1>12. ASSUME EngineDailyReset PROVE LedgerInv'
  <2>1. OnlyAccepted'
    BY <1>0, <1>12, LedgerAssumption DEF EngineDailyReset, LedgerInv,
       OnlyAccepted, TypeOK, MapType, SignalType, Signal, Execs, None
  <2>2. HeldIsReachable'
    BY <1>0, <1>12 DEF EngineDailyReset, LedgerInv, OnlyAccepted,
       HeldIsReachable, TypeOK, SizerType, MapType, SignalType, Signal,
       None
  <2>3. LossesKept'
    BY <1>0, <1>12, LedgerAssumption DEF EngineDailyReset, LedgerInv, LossesKept,
       TypeOK, SizerType
  <2> QED BY <1>0, <2>1, <2>2, <2>3 DEF LedgerInv
<1>13. ASSUME NEW clean \in BOOLEAN, Restart(clean) PROVE LedgerInv'
  <2>1. OnlyAccepted'
    BY <1>0, <1>13, LedgerAssumption DEF Restart, Answers, LedgerInv,
       OnlyAccepted, TypeOK, MapType, SignalType, Signal, Execs, None
  <2>2. HeldIsReachable'
    BY <1>0, <1>13 DEF Restart, Answers, LedgerInv, OnlyAccepted,
       HeldIsReachable, TypeOK, SizerType, MapType, SignalType, Signal,
       None
  <2>3. LossesKept'
    BY <1>0, <1>13, LedgerAssumption DEF Restart, Answers, LedgerInv, LossesKept,
       TypeOK, SizerType
  <2> QED BY <1>0, <2>1, <2>2, <2>3 DEF LedgerInv
<1>14. ASSUME UNCHANGED vars PROVE LedgerInv'
  BY <1>0, <1>14 DEF LedgerInv, OnlyAccepted, HeldIsReachable, LossesKept, vars
<1>15. ASSUME NEW s \in Signal, VerdictLost(s) PROVE LedgerInv'
  <2>1. OnlyAccepted'
    BY <1>0, <1>15, LedgerAssumption DEF VerdictLost, LedgerInv,
       OnlyAccepted, TypeOK, MapType, SignalType, Signal, Execs, None
  <2>2. HeldIsReachable'
    BY <1>0, <1>15 DEF VerdictLost, LedgerInv, OnlyAccepted,
       HeldIsReachable, TypeOK, SizerType, MapType, SignalType, Signal,
       None
  <2>3. LossesKept'
    BY <1>0, <1>15, LedgerAssumption DEF VerdictLost, LedgerInv, LossesKept,
       TypeOK, SizerType
  <2> QED BY <1>0, <2>1, <2>2, <2>3 DEF LedgerInv
<1> QED BY <1>1, <1>2, <1>3, <1>4, <1>5, <1>6, <1>7, <1>8, <1>9, <1>10, <1>11,
         <1>12, <1>13, <1>14, <1>15 DEF Next

-----------------------------------------------------------------------------
(* Theorems.                                                               *)

\* Every variable of the ledger keeps its type.
THEOREM LedgerTypeCorrect == Spec => []TypeOK
<1>1. Init => TypeOK
  BY LedgerTypeInit
<1>2. TypeOK /\ [Next]_vars => TypeOK'
  BY LedgerTypeStep
<1> QED BY <1>1, <1>2, PTL DEF Spec

LEMMA LedgerInvariant == Spec => []LedgerInv
<1>1. Init => LedgerInv
  BY LedgerInvInit
<1>2. LedgerInv /\ [Next]_vars => LedgerInv'
  BY LedgerInvStep
<1> QED BY <1>1, <1>2, PTL DEF Spec

\* Every held reservation can be ended by the close or the cancel that is
\* due to it (the four maps of BlendForwardTestRunner agree on it).
THEOREM HeldReservationsReachable == Spec => []HeldIsReachable
<1>1. LedgerInv => HeldIsReachable
  BY DEF LedgerInv
<1> QED BY <1>1, LedgerInvariant, PTL

\* A recorded loss stays in the day's figure across crashes and restarts,
\* until the next daily reset (on_fill saves before it returns).
THEOREM LossesSurviveRestart == Spec => []RecordedLossesKept
<1>1. LedgerInv => RecordedLossesKept
  BY DEF LedgerInv, LossesKept, RecordedLossesKept
<1> QED BY <1>1, LedgerInvariant, PTL

-----------------------------------------------------------------------------
(* The refinement.                                                         *)

\* The keys of the ledger that the budget sees as signals.
LEMMA HeldSignals == TypeOK => HeldKeys \cap Signal = reserved
<1> SUFFICES ASSUME TypeOK PROVE HeldKeys \cap Signal = reserved
  OBVIOUS
<1>1. reserved \subseteq HeldKeys \cap Signal
  BY DEF TypeOK, SizerType, HeldKeys
<1>2. ASSUME NEW x \in HeldKeys, x \in Signal PROVE x \in reserved
  <2>1. x \in Int /\ 1 <= x
    BY <1>2, LedgerAssumption DEF Signal
  <2>2. CASE x \in {SeedKey(s) : s \in seeded}
    <3>1. PICK s \in seeded : x = SeedKey(s)
      BY <2>2
    <3>2. s \in Int /\ 1 <= s
      BY LedgerAssumption DEF TypeOK, SizerType, Signal
    <3> QED BY <2>1, <3>1, <3>2 DEF SeedKey
  <2>3. CASE x = LegacyKey
    BY <2>1, <2>3 DEF LegacyKey
  <2> QED BY <1>2, <2>2, <2>3 DEF HeldKeys
<1> QED BY <1>1, <1>2

\* A step that leaves sizer, file and count of signals alone.
LEMMA LedgerQuiet ==
    UNCHANGED <<sizerVars, fileUsed, accepted>> => UNCHANGED Budget!budgetVars
BY DEF sizerVars, Budget!budgetVars, HeldKeys, EndedSignals, SeedKey

\* A step that ends the reservation of one signal.
LEMMA LedgerEnds ==
    ASSUME LedgerInv, NEW r \in reserved, reserved' = reserved \ {r},
           UNCHANGED <<seeded, legacy, accepted>>
    PROVE  Budget!End(r)
<1>1. r \in HeldKeys
  BY DEF HeldKeys
<1>2. HeldKeys' = HeldKeys \ {r}
  BY LedgerAssumption DEF LedgerInv, TypeOK, SizerType, HeldKeys, SeedKey, LegacyKey, Signal
<1>3. EndedSignals' = EndedSignals \cup {r}
  BY DEF EndedSignals, LedgerInv, OnlyAccepted
<1> QED BY <1>1, <1>2, <1>3 DEF Budget!End

\* A step that drops every signal's reservation.
LEMMA LedgerReplaced ==
    ASSUME LedgerInv, reserved' = {}, seeded' \subseteq Signal,
           UNCHANGED accepted
    PROVE  Budget!Replace
<1>1. HeldKeys' \in SUBSET ({SeedKey(s) : s \in Signal} \cup {LegacyKey})
  BY DEF HeldKeys, SeedKey, LegacyKey
<1>2. EndedSignals' = EndedSignals \cup (HeldKeys \cap Signal)
  BY HeldSignals DEF EndedSignals, LedgerInv, OnlyAccepted
<1> QED BY <1>1, <1>2 DEF Budget!Replace

LEMMA BudgetStep == LedgerInv /\ [Next]_vars => [Budget!Next]_(Budget!budgetVars)
<1> SUFFICES ASSUME LedgerInv, [Next]_vars
             PROVE  Budget!Next \/ UNCHANGED Budget!budgetVars
  OBVIOUS
<1> USE DEF sizerVars, mapVars, fileVars, dayVars, signalVars, orderVars, history
<1>1. ASSUME NEW s \in Signal, OnSignal(s) PROVE Budget!Next
  <2>1. s \notin HeldKeys \cup EndedSignals
    <3>1. accepted \in Nat /\ s = accepted + 1
      BY <1>1 DEF OnSignal, LedgerInv, TypeOK, SignalType
    <3>2. s \notin 1..accepted
      BY <3>1
    <3>3. s \notin reserved
      BY <3>2 DEF LedgerInv, OnlyAccepted
    <3>4. s \notin HeldKeys
      BY <3>3, HeldSignals DEF LedgerInv
    <3> QED BY <3>2, <3>4 DEF EndedSignals
  <2>2. HeldKeys' = HeldKeys \cup {s}
    BY <1>1 DEF OnSignal, HeldKeys, SeedKey
  <2>3. EndedSignals' = EndedSignals
    BY <1>1, LedgerAssumption DEF OnSignal, EndedSignals, LedgerInv, OnlyAccepted,
       TypeOK, SignalType, Signal
  <2>4. CASE runnerDay = "old"
    <3>1. Budget!NewDayReserve(s)
      BY <1>1, <2>1, <2>2, <2>3, <2>4 DEF OnSignal, Budget!NewDayReserve
    <3> QED BY <3>1 DEF Budget!Next
  <2>5. CASE runnerDay # "old"
    <3>1. Budget!Reserve(s)
      BY <1>1, <2>1, <2>2, <2>3, <2>5 DEF OnSignal, Budget!Reserve
    <3> QED BY <3>1 DEF Budget!Next
  <2> QED BY <2>4, <2>5
<1>2. ASSUME OnSignalRejected PROVE Budget!Next \/ UNCHANGED Budget!budgetVars
  <2>1. HeldKeys' = HeldKeys /\ EndedSignals' = EndedSignals
    BY <1>2 DEF OnSignalRejected, HeldKeys, EndedSignals, SeedKey
  <2> QED BY <1>2, <2>1 DEF OnSignalRejected, Budget!Next, Budget!NewDay,
           Budget!budgetVars
<1>3. ASSUME NEW s \in Signal, OrderFilled(s) PROVE UNCHANGED Budget!budgetVars
  BY <1>3, LedgerQuiet DEF OrderFilled
<1>4. ASSUME NEW s \in Signal, OrderFailed(s)
      PROVE  Budget!Next \/ UNCHANGED Budget!budgetVars
  <2>1. PICK time \in AliasTimes(s) :
          IF ResolveAlias(time) = None
          THEN UNCHANGED <<reserved, unmapped, mapped, s2p>>
          ELSE /\ Forget(ResolveAlias(time))
               /\ reserved' = reserved \ {ResolveAlias(time)}
    BY <1>4 DEF OrderFailed
  <2>2. CASE ResolveAlias(time) = None
    BY <1>4, <2>1, <2>2, LedgerQuiet DEF OrderFailed
  <2>3. CASE ResolveAlias(time) # None
    <3> DEFINE r == ResolveAlias(time)
    <3>1. r \in reserved /\ r \in Signal
      BY <2>3, ResolvedIsWaiting
    <3>2. Budget!End(r)
      BY <1>4, <2>1, <2>3, <3>1, LedgerEnds DEF OrderFailed
    <3>3. Budget!Release(r)
      BY <1>4, <3>2 DEF OrderFailed, Budget!Release
    <3> QED BY <3>1, <3>3 DEF Budget!Next
  <2> QED BY <2>2, <2>3
<1>5. ASSUME NEW s \in Signal, OrderUndecided(s) PROVE UNCHANGED Budget!budgetVars
  BY <1>5, LedgerQuiet DEF OrderUndecided
<1>6. ASSUME NEW s \in Signal, OrphanFilled(s) PROVE UNCHANGED Budget!budgetVars
  BY <1>6, LedgerQuiet DEF OrphanFilled
<1>7. ASSUME NEW s \in Signal, NEW l \in Loss, PaperClose(s, l)
      PROVE  Budget!Next \/ UNCHANGED Budget!budgetVars
  <2>1. PICK r \in ClosedIdentities(s) :
          IF r \in reserved
          THEN RecordClose(r, l) /\ UNCHANGED missed
          ELSE /\ missed' = (missed \/ l > 0)
               /\ UNCHANGED <<reserved, runner, mapped, unmapped, s2p, used,
                              recorded, fileVars>>
    BY <1>7 DEF PaperClose
  <2>2. CASE r \in reserved
    <3>1. Budget!End(r)
      BY <1>7, <2>1, <2>2, LedgerEnds DEF PaperClose, RecordClose
    <3>2. Budget!Realise(r, l)
      BY <2>1, <2>2, <3>1 DEF RecordClose, Budget!Realise
    <3>3. r \in Signal
      BY <2>2 DEF LedgerInv, TypeOK, SizerType
    <3> QED BY <3>2, <3>3 DEF Budget!Next
  <2>3. CASE r \notin reserved
    BY <1>7, <2>1, <2>3, LedgerQuiet DEF PaperClose
  <2> QED BY <2>2, <2>3
<1>8. ASSUME NEW s \in Signal, NEW l \in Loss, BrokerClose(s, l)
      PROVE  UNCHANGED Budget!budgetVars
  BY <1>8, LedgerQuiet DEF BrokerClose
<1>9. ASSUME AskBroker PROVE UNCHANGED Budget!budgetVars
  BY <1>9, LedgerQuiet DEF AskBroker
<1>10. ASSUME RebuildFromBroker PROVE Budget!Next
  <2>1. seeded' \subseteq Signal
    BY <1>10 DEF RebuildFromBroker, LedgerInv, TypeOK, SignalType
  <2>2. Budget!Replace
    BY <1>10, <2>1, LedgerReplaced DEF RebuildFromBroker
  <2>3. Budget!Rebuild
    BY <1>10, <2>2 DEF RebuildFromBroker, Budget!Rebuild
  <2> QED BY <2>3 DEF Budget!Next
<1>11. ASSUME Midnight PROVE UNCHANGED Budget!budgetVars
  BY <1>11, LedgerQuiet DEF Midnight
<1>12. ASSUME EngineDailyReset PROVE Budget!Next
  <2>1. HeldKeys' = HeldKeys /\ EndedSignals' = EndedSignals
    BY <1>12 DEF EngineDailyReset, HeldKeys, EndedSignals, SeedKey
  <2> QED BY <1>12, <2>1 DEF EngineDailyReset, Budget!Next, Budget!NewDay
<1>13. ASSUME NEW clean \in BOOLEAN, Restart(clean) PROVE Budget!Next
  <2>1. seeded' \subseteq Signal
    BY <1>13 DEF Restart, Answers, LedgerInv, TypeOK, SignalType
  <2>2. Budget!Replace
    BY <1>13, <2>1, LedgerReplaced DEF Restart
  <2>3. Budget!Restart
    BY <1>13, <2>2 DEF Restart, Budget!Restart
  <2> QED BY <2>3 DEF Budget!Next
<1>14. ASSUME UNCHANGED vars PROVE UNCHANGED Budget!budgetVars
  BY <1>14, LedgerQuiet DEF vars
<1>15. ASSUME NEW s \in Signal, VerdictLost(s) PROVE UNCHANGED Budget!budgetVars
  BY <1>15, LedgerQuiet DEF VerdictLost
<1> QED BY <1>1, <1>2, <1>3, <1>4, <1>5, <1>6, <1>7, <1>8, <1>9, <1>10, <1>11,
         <1>12, <1>13, <1>14, <1>15 DEF Next

\* The ledger implements the abstract budget: whatever identities the runner
\* resolves, reservations are made once and ended once, and a loss enters
\* the day's figure only together with the end of a reservation.
THEOREM LedgerImplementsBudget == Spec => BudgetSpec
<1>1. Init => Budget!Init
  BY DEF Init, Budget!Init, HeldKeys, EndedSignals
<1>2. LedgerInv /\ [Next]_vars => [Budget!Next]_(Budget!budgetVars)
  BY BudgetStep
<1> QED BY <1>1, <1>2, LedgerInvariant, PTL DEF Spec, BudgetSpec, Budget!Spec
=============================================================================
