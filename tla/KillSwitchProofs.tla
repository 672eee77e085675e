-------------------------- MODULE KillSwitchProofs --------------------------
(* What the kill switch guarantees for any number of managers on one state   *)
(* directory, enabled or disabled.                                           *)
EXTENDS KillSwitch, TLAPS

\* Points at which a manager is up, and those inside an operation.
UpPC == Points \ {"down", "load", "failed"}
OpPC == UpPC \ {"ready"}

\* The flags follow the state, one after the other; the constructor's are last.
FlagsFollow == \A m \in Manager :
    /\ pc[m] = "flag_frozen" => killed[m] = IsKill(state[m])
    /\ pc[m] \in {"write", "rename", "return"} /\ op[m] # "failsafe" =>
          killed[m] = IsKill(state[m]) /\ frozen[m] = IsFreeze(state[m])

\* A manager that is not up has nothing in memory.
NotUp == \A m \in Manager : pc[m] \notin UpPC => state[m] = Default

\* A manager in step with the file, from the rename on.
InStep == \A m \in Manager : synced[m] =>
    /\ file.kind = "ok"
    /\ pc[m] = "return" => file = Holding(state[m])

\* A standing KILL is in the file and in the memory of its manager.
KillStands == \A m \in Manager :
    /\ standing[m] => file.kind = "ok" /\ IsKill(file.state)
    /\ standing[m] /\ pc[m] \in UpPC => IsKill(state[m])
    /\ pc[m] \in OpPC /\ op[m] \in {"kill", "failsafe"} => IsKill(state[m])

\* The inductive invariant.
KillInv == /\ TypeOK /\ FlagsAgree /\ FlagsFollow /\ NotUp /\ FileHoldsState /\ InStep
           /\ KillStands

\* What the operators on states and files give.
LEMMA StateFacts ==
    /\ Default \in State /\ ~IsKill(Default) /\ ~IsFreeze(Default)
    /\ \A c \in BOOLEAN : /\ Active("kill", c) \in State
                          /\ IsKill(Active("kill", c)) /\ ~IsFreeze(Active("kill", c))
                          /\ Active("freeze", c) \in State
                          /\ ~IsKill(Active("freeze", c)) /\ IsFreeze(Active("freeze", c))
    /\ \A s \in State : /\ IsKill(s) \in BOOLEAN /\ IsFreeze(s) \in BOOLEAN
                        /\ [s EXCEPT !.closed = TRUE] \in State
                        /\ IsKill([s EXCEPT !.closed = TRUE]) <=> IsKill(s)
                        /\ IsFreeze([s EXCEPT !.closed = TRUE]) <=> IsFreeze(s)
BY DEF State, Default, Active, IsKill, IsFreeze

LEMMA FileFacts ==
    /\ \A s \in State : /\ Holding(s) \in Content
                        /\ Holding(s).kind = "ok" /\ Holding(s).state = s
    /\ \A k \in {"missing", "garbled", "unreadable"} :
          Without(k) \in Content /\ Without(k).kind = k
    /\ \A f \in Content : f.state \in State /\ (f.kind = "ok" => f = Holding(f.state))
BY StateFacts DEF Content, Holding, Without

-----------------------------------------------------------------------------
(* Types.                                                                  *)

LEMMA FlagsType ==
    ASSUME TypeOK, NEW m \in Manager, NEW s, Flags(m, s)
    PROVE  killed' \in [Manager -> BOOLEAN] /\ frozen' \in [Manager -> BOOLEAN]
BY DEF TypeOK, Flags, IsKill, IsFreeze

LEMMA InitKill == Init => KillInv
BY StateFacts, FileFacts
   DEF Init, KillInv, TypeOK, FlagsAgree, FlagsFollow, NotUp, FileHoldsState, InStep,
       KillStands, Ops, Points, UpPC, OpPC

LEMMA NextType == TypeOK /\ [Next]_vars => TypeOK'
<1> SUFFICES ASSUME TypeOK, [Next]_vars PROVE TypeOK'
  OBVIOUS
<1> USE StateFacts, FileFacts
    DEF TypeOK, Ops, Points, Goto, Set, Mark, Ends, memVars, ghostVars
<1>1. ASSUME NEW m \in Manager, Boot(m) PROVE TypeOK'
  BY <1>1 DEF Boot
<1>2. ASSUME NEW m \in Manager, LoadMissing(m) PROVE TypeOK'
  BY <1>2, FlagsType DEF LoadMissing
<1>3. ASSUME NEW m \in Manager, LoadOk(m) PROVE TypeOK'
  BY <1>3, FlagsType DEF LoadOk
<1>4. ASSUME NEW m \in Manager, LoadCorrupt(m) PROVE TypeOK'
  BY <1>4 DEF LoadCorrupt
<1>5. ASSUME NEW m \in Manager, LoadRaises(m) PROVE TypeOK'
  BY <1>5 DEF LoadRaises
<1>6. ASSUME NEW m \in Manager, NEW close \in BOOLEAN, ActivateKill(m, close) PROVE TypeOK'
  BY <1>6 DEF ActivateKill
<1>7. ASSUME NEW m \in Manager, ActivateFreeze(m) PROVE TypeOK'
  BY <1>7 DEF ActivateFreeze
<1>8. ASSUME NEW m \in Manager, Suppressed(m) PROVE TypeOK'
  BY <1>8 DEF Suppressed
<1>9. ASSUME NEW m \in Manager, Recover(m) PROVE TypeOK'
  BY <1>9 DEF Recover, Deactivate
<1>10. ASSUME NEW m \in Manager, AutoClear(m) PROVE TypeOK'
  BY <1>10 DEF AutoClear, Deactivate
<1>11. ASSUME NEW m \in Manager, RecordClosed(m) PROVE TypeOK'
  BY <1>11 DEF RecordClosed
<1>12. ASSUME NEW m \in Manager, SetKilled(m) PROVE TypeOK'
  BY <1>12 DEF SetKilled, IsKill
<1>13. ASSUME NEW m \in Manager, SetFrozen(m) PROVE TypeOK'
  BY <1>13 DEF SetFrozen, IsFreeze
<1>14. ASSUME NEW m \in Manager, WriteTemp(m) PROVE TypeOK'
  BY <1>14 DEF WriteTemp
<1>15. ASSUME NEW m \in Manager, Rename(m) PROVE TypeOK'
  BY <1>15 DEF Rename
<1>16. ASSUME NEW m \in Manager, SaveFails(m) PROVE TypeOK'
  BY <1>16 DEF SaveFails
<1>17. ASSUME NEW m \in Manager, Return(m) PROVE TypeOK'
  <2>1. killed' \in [Manager -> BOOLEAN] /\ frozen' \in [Manager -> BOOLEAN]
    BY <1>17, FlagsType DEF Return
  <2>2. standing' \in [Manager -> BOOLEAN]
    BY <1>17 DEF Return
  <2> QED
    BY <1>17, <2>1, <2>2 DEF Return
<1>18. ASSUME NEW m \in Manager, Crash(m) PROVE TypeOK'
  BY <1>18, FlagsType DEF Crash
<1>19. CASE Damage
  BY <1>19 DEF Damage
<1>20. CASE UNCHANGED vars
  BY <1>20 DEF vars
<1> HIDE DEF TypeOK
<1> QED
  BY <1>1, <1>2, <1>3, <1>4, <1>5, <1>6, <1>7, <1>8, <1>9, <1>10,
     <1>11, <1>12, <1>13, <1>14, <1>15, <1>16, <1>17, <1>18, <1>19, <1>20
     DEF Next, Load, Call, Step

-----------------------------------------------------------------------------
(* The inductive step.                                                     *)

Safe == FlagsAgree /\ FlagsFollow /\ NotUp /\ FileHoldsState /\ InStep /\ KillStands

LEMMA NextSafe == TypeOK /\ Safe /\ [Next]_vars => Safe'
<1> SUFFICES ASSUME TypeOK, Safe, [Next]_vars PROVE Safe'
  OBVIOUS
<1> USE DEF TypeOK, Safe, FlagsAgree, FlagsFollow, NotUp, FileHoldsState, InStep, KillStands,
        State, Default, Active, IsKill, IsFreeze, Content, Holding, Without, Points,
        UpPC, OpPC, Goto, Set, Mark, Ends, Flags, memVars, ghostVars
<1>1. ASSUME NEW m \in Manager, Boot(m) PROVE Safe'
  BY <1>1 DEF Boot
<1>2. ASSUME NEW m \in Manager, LoadMissing(m) PROVE Safe'
  <2>1. FlagsAgree' /\ FlagsFollow'
    BY <1>2 DEF LoadMissing
  <2>2. NotUp' /\ FileHoldsState'
    BY <1>2 DEF LoadMissing
  <2>3. InStep'
    BY <1>2 DEF LoadMissing
  <2>4. KillStands'
    BY <1>2 DEF LoadMissing
  <2> HIDE DEF FlagsAgree, FlagsFollow, NotUp, FileHoldsState, InStep, KillStands
  <2> QED
    BY <2>1, <2>2, <2>3, <2>4
<1>3. ASSUME NEW m \in Manager, LoadOk(m) PROVE Safe'
  <2>1. FlagsAgree' /\ FlagsFollow'
    BY <1>3 DEF LoadOk
  <2>2. NotUp' /\ FileHoldsState'
    BY <1>3, ZenonT(60) DEF LoadOk
  <2>3. InStep'
    BY <1>3 DEF LoadOk
  <2>4. KillStands'
    BY <1>3 DEF LoadOk
  <2> HIDE DEF FlagsAgree, FlagsFollow, NotUp, FileHoldsState, InStep, KillStands
  <2> QED
    BY <2>1, <2>2, <2>3, <2>4
<1>4. ASSUME NEW m \in Manager, LoadCorrupt(m) PROVE Safe'
  <2>1. FlagsAgree' /\ FlagsFollow'
    BY <1>4 DEF LoadCorrupt
  <2>2. NotUp' /\ FileHoldsState'
    BY <1>4, ZenonT(60) DEF LoadCorrupt
  <2>3. InStep'
    BY <1>4 DEF LoadCorrupt
  <2>4. KillStands'
    BY <1>4 DEF LoadCorrupt
  <2> HIDE DEF FlagsAgree, FlagsFollow, NotUp, FileHoldsState, InStep, KillStands
  <2> QED
    BY <2>1, <2>2, <2>3, <2>4
<1>5. ASSUME NEW m \in Manager, LoadRaises(m) PROVE Safe'
  BY <1>5 DEF LoadRaises
<1>6. ASSUME NEW m \in Manager, NEW close \in BOOLEAN, ActivateKill(m, close) PROVE Safe'
  <2>1. FlagsAgree' /\ FlagsFollow'
    BY <1>6 DEF ActivateKill
  <2>2. NotUp' /\ FileHoldsState'
    BY <1>6, ZenonT(60) DEF ActivateKill
  <2>3. InStep'
    BY <1>6 DEF ActivateKill
  <2>4. KillStands'
    BY <1>6 DEF ActivateKill
  <2> HIDE DEF FlagsAgree, FlagsFollow, NotUp, FileHoldsState, InStep, KillStands
  <2> QED
    BY <2>1, <2>2, <2>3, <2>4
<1>7. ASSUME NEW m \in Manager, ActivateFreeze(m) PROVE Safe'
  <2>1. FlagsAgree' /\ FlagsFollow'
    BY <1>7 DEF ActivateFreeze
  <2>2. NotUp' /\ FileHoldsState'
    BY <1>7, ZenonT(60) DEF ActivateFreeze
  <2>3. InStep'
    BY <1>7 DEF ActivateFreeze
  <2>4. KillStands'
    BY <1>7 DEF ActivateFreeze
  <2> HIDE DEF FlagsAgree, FlagsFollow, NotUp, FileHoldsState, InStep, KillStands
  <2> QED
    BY <2>1, <2>2, <2>3, <2>4
<1>8. ASSUME NEW m \in Manager, Suppressed(m) PROVE Safe'
  BY <1>8 DEF Suppressed
<1>9. ASSUME NEW m \in Manager, Recover(m) PROVE Safe'
  <2>1. FlagsAgree' /\ FlagsFollow'
    BY <1>9 DEF Recover, Deactivate
  <2>2. NotUp' /\ FileHoldsState'
    BY <1>9 DEF Recover, Deactivate
  <2>3. InStep'
    BY <1>9 DEF Recover, Deactivate
  <2>4. KillStands'
    BY <1>9 DEF Recover, Deactivate
  <2> HIDE DEF FlagsAgree, FlagsFollow, NotUp, FileHoldsState, InStep, KillStands
  <2> QED
    BY <2>1, <2>2, <2>3, <2>4
<1>10. ASSUME NEW m \in Manager, AutoClear(m) PROVE Safe'
  <2>1. FlagsAgree' /\ FlagsFollow'
    BY <1>10 DEF AutoClear, Deactivate
  <2>2. NotUp' /\ FileHoldsState'
    BY <1>10 DEF AutoClear, Deactivate
  <2>3. InStep'
    BY <1>10 DEF AutoClear, Deactivate
  <2>4. KillStands'
    BY <1>10 DEF AutoClear, Deactivate
  <2> HIDE DEF FlagsAgree, FlagsFollow, NotUp, FileHoldsState, InStep, KillStands
  <2> QED
    BY <2>1, <2>2, <2>3, <2>4
<1>11. ASSUME NEW m \in Manager, RecordClosed(m) PROVE Safe'
  <2>1. FlagsAgree' /\ FlagsFollow'
    BY <1>11 DEF RecordClosed
  <2>2. NotUp' /\ FileHoldsState'
    BY <1>11, ZenonT(60) DEF RecordClosed
  <2>3. InStep'
    BY <1>11 DEF RecordClosed
  <2>4. KillStands'
    BY <1>11 DEF RecordClosed
  <2> HIDE DEF FlagsAgree, FlagsFollow, NotUp, FileHoldsState, InStep, KillStands
  <2> QED
    BY <2>1, <2>2, <2>3, <2>4
<1>12. ASSUME NEW m \in Manager, SetKilled(m) PROVE Safe'
  <2>1. FlagsAgree' /\ FlagsFollow'
    BY <1>12 DEF SetKilled
  <2>2. NotUp' /\ FileHoldsState'
    BY <1>12 DEF SetKilled
  <2>3. InStep'
    BY <1>12 DEF SetKilled
  <2>4. KillStands'
    BY <1>12 DEF SetKilled
  <2> HIDE DEF FlagsAgree, FlagsFollow, NotUp, FileHoldsState, InStep, KillStands
  <2> QED
    BY <2>1, <2>2, <2>3, <2>4
<1>13. ASSUME NEW m \in Manager, SetFrozen(m) PROVE Safe'
  <2>1. FlagsAgree' /\ FlagsFollow'
    BY <1>13 DEF SetFrozen
  <2>2. NotUp' /\ FileHoldsState'
    BY <1>13 DEF SetFrozen
  <2>3. InStep'
    BY <1>13 DEF SetFrozen
  <2>4. KillStands'
    BY <1>13 DEF SetFrozen
  <2> HIDE DEF FlagsAgree, FlagsFollow, NotUp, FileHoldsState, InStep, KillStands
  <2> QED
    BY <2>1, <2>2, <2>3, <2>4
<1>14. ASSUME NEW m \in Manager, WriteTemp(m) PROVE Safe'
  BY <1>14 DEF WriteTemp
<1>15. ASSUME NEW m \in Manager, Rename(m) PROVE Safe'
  <2>1. FlagsAgree' /\ FlagsFollow'
    BY <1>15 DEF Rename
  <2>2. NotUp' /\ FileHoldsState'
    BY <1>15 DEF Rename
  <2>3. InStep'
    BY <1>15 DEF Rename
  <2>4. KillStands'
    BY <1>15 DEF Rename
  <2> HIDE DEF FlagsAgree, FlagsFollow, NotUp, FileHoldsState, InStep, KillStands
  <2> QED
    BY <2>1, <2>2, <2>3, <2>4
<1>16. ASSUME NEW m \in Manager, SaveFails(m) PROVE Safe'
  BY <1>16 DEF SaveFails
<1>17. ASSUME NEW m \in Manager, Return(m) PROVE Safe'
  <2>1. FlagsAgree' /\ FlagsFollow'
    BY <1>17 DEF Return
  <2>2. NotUp' /\ FileHoldsState'
    BY <1>17 DEF Return
  <2>3. InStep'
    BY <1>17 DEF Return
  <2>4. KillStands'
    BY <1>17 DEF Return
  <2> HIDE DEF FlagsAgree, FlagsFollow, NotUp, FileHoldsState, InStep, KillStands
  <2> QED
    BY <2>1, <2>2, <2>3, <2>4
<1>18. ASSUME NEW m \in Manager, Crash(m) PROVE Safe'
  <2>1. FlagsAgree' /\ FlagsFollow'
    BY <1>18 DEF Crash
  <2>2. NotUp' /\ FileHoldsState'
    BY <1>18, ZenonT(60) DEF Crash
  <2>3. InStep'
    BY <1>18 DEF Crash
  <2>4. KillStands'
    BY <1>18 DEF Crash
  <2> HIDE DEF FlagsAgree, FlagsFollow, NotUp, FileHoldsState, InStep, KillStands
  <2> QED
    BY <2>1, <2>2, <2>3, <2>4
<1>19. CASE Damage
  BY <1>19 DEF Damage
<1>20. CASE UNCHANGED vars
  BY <1>20 DEF vars
<1> HIDE DEF Safe
<1> QED
  BY <1>1, <1>2, <1>3, <1>4, <1>5, <1>6, <1>7, <1>8, <1>9, <1>10,
     <1>11, <1>12, <1>13, <1>14, <1>15, <1>16, <1>17, <1>18, <1>19, <1>20
     DEF Next, Load, Call, Step

LEMMA KillHolds == Spec => []KillInv
<1>1. KillInv /\ [Next]_vars => KillInv'
  BY NextType, NextSafe DEF KillInv, Safe
<1> QED
  BY InitKill, <1>1, PTL DEF Spec

\* Every variable keeps its type.
THEOREM KillSwitchTypeOK == Spec => []TypeOK
<1>1. KillInv => TypeOK
  BY DEF KillInv
<1> QED
  BY <1>1, KillHolds, PTL

\* Between operations the fast-path flags answer what the state says.
THEOREM FlagsAlwaysAgree == Spec => []FlagsAgree
<1>1. KillInv => FlagsAgree
  BY DEF KillInv
<1> QED
  BY <1>1, KillHolds, PTL

\* Between operations the file holds the memory state, unless a save failed or
\* somebody else changed the file.
THEOREM FileAlwaysHoldsState == Spec => []FileHoldsState
<1>1. KillInv => FileHoldsState
  BY DEF KillInv
<1> QED
  BY <1>1, KillHolds, PTL

\* A saved KILL survives crashes and restarts and keeps the order gate closed.
THEOREM KillsOutliveCrashes == Spec => []KillOutlivesCrash
<1>1. KillInv => KillOutlivesCrash
  BY DEF KillInv, FlagsAgree, KillStands, KillOutlivesCrash, Allows, IsKill, UpPC, Points
<1> QED
  BY <1>1, KillHolds, PTL

\* No step of a manager leaves a file that is not a whole state.
THEOREM WritesAreWhole == Spec => NeverTorn
<1>1. [Next]_vars => [file'.kind # "ok" /\ file' # file => Damage]_vars
  <2> SUFFICES ASSUME Next, file'.kind # "ok", file' # file PROVE Damage
    BY DEF vars
  <2>1. ASSUME NEW m \in Manager, Rename(m) PROVE FALSE
    BY <2>1 DEF Rename, Holding
  <2>2. ASSUME NEW m \in Manager, Boot(m) \/ Load(m) \/ Call(m) \/ Step(m) \/ Crash(m)
        PROVE  FALSE
    BY <2>1, <2>2
       DEF Boot, Load, LoadMissing, LoadOk, LoadCorrupt, LoadRaises, Call, ActivateKill,
           ActivateFreeze, Suppressed, Recover, AutoClear, Deactivate, RecordClosed, Step,
           SetKilled, SetFrozen, WriteTemp, SaveFails, Return, Crash
  <2> QED
    BY <2>2 DEF Next
<1> QED
  BY <1>1, PTL DEF Spec, NeverTorn
-----------------------------------------------------------------------------
\* Which operation sets the flags, and that a manager that is not up shows none.
FlagOps == \A m \in Manager :
    /\ pc[m] \in {"flag_killed", "flag_frozen"} =>
          op[m] \in {"kill", "freeze", "recover", "auto_clear"}
    /\ pc[m] \notin UpPC => ~killed[m] /\ ~frozen[m]

LEMMA InitFlagOps == Init => FlagOps
BY DEF Init, FlagOps, UpPC, Points

LEMMA NextFlagOps == TypeOK /\ FlagOps /\ [Next]_vars => FlagOps'
<1> SUFFICES ASSUME TypeOK, FlagOps, [Next]_vars PROVE FlagOps'
  OBVIOUS
<1> USE DEF TypeOK, FlagOps, UpPC, Points, Goto, Mark
<1>1. ASSUME NEW m \in Manager, Boot(m) PROVE FlagOps'
  BY <1>1 DEF Boot, memVars
<1>2. ASSUME NEW m \in Manager, Load(m) PROVE FlagOps'
  BY <1>2, ZenonT(60) DEF Load, LoadMissing, LoadOk, LoadCorrupt, LoadRaises, Flags, memVars
<1>3. ASSUME NEW m \in Manager, Call(m) PROVE FlagOps'
  BY <1>3, ZenonT(60) DEF Call, ActivateKill, ActivateFreeze, Suppressed, Recover, AutoClear,
              Deactivate, RecordClosed, memVars
<1>4. ASSUME NEW m \in Manager, Step(m) PROVE FlagOps'
  BY <1>4 DEF Step, SetKilled, SetFrozen, WriteTemp, Rename, SaveFails, Return, Flags,
              memVars
<1>5. ASSUME NEW m \in Manager, Crash(m) PROVE FlagOps'
  BY <1>5 DEF Crash, Flags, IsKill, IsFreeze, Default
<1>6. CASE Damage
  BY <1>6 DEF Damage, memVars
<1>7. CASE UNCHANGED vars
  BY <1>7 DEF vars, memVars
<1> QED
  BY <1>1, <1>2, <1>3, <1>4, <1>5, <1>6, <1>7 DEF Next

\* A lock-free reader loses sight of a block only by a deactivation, the end of
\* the process or a downgrade: the two flags are written in an order that leaves
\* no gap when a freeze becomes a kill.
THEOREM EscalationsHaveNoGap == Spec => EscalationHasNoGap
<1> DEFINE Gap(m) == Shown(m) /\ ~Shown(m)'
           Ended(m) == pc'[m] = "down" \/ op'[m] \in {"recover", "auto_clear", "freeze"}
<1>1. KillInv /\ FlagOps /\ [Next]_vars => [\A m \in Manager : Gap(m) => Ended(m)]_vars
  <2> SUFFICES ASSUME KillInv, FlagOps, Next, NEW m \in Manager, Gap(m)
               PROVE  Ended(m)
    BY DEF vars
  <2> USE DEF KillInv, TypeOK, Shown
  <2>1. ASSUME NEW x \in Manager, Load(x) PROVE FALSE
    BY <2>1 DEF Load, LoadMissing, LoadOk, LoadCorrupt, LoadRaises, Flags, memVars, FlagOps,
                UpPC, Points
  <2>2. ASSUME NEW x \in Manager, Boot(x) \/ Call(x) \/ Damage PROVE FALSE
    BY <2>2 DEF Boot, Call, ActivateKill, ActivateFreeze, Suppressed, Recover, AutoClear,
                Deactivate, RecordClosed, Damage, memVars
  <2>3. ASSUME NEW x \in Manager, SetKilled(x) PROVE Ended(m)
    BY <2>3 DEF SetKilled, FlagOps, KillStands, OpPC, UpPC, Points
  <2>4. ASSUME NEW x \in Manager, SetFrozen(x) PROVE Ended(m)
    BY <2>4 DEF SetFrozen, FlagOps, FlagsFollow, KillStands, OpPC, UpPC, Points
  <2>5. ASSUME NEW x \in Manager, Return(x) PROVE FALSE
    BY <2>5 DEF Return, Flags, KillStands, OpPC, UpPC, Points
  <2>6. ASSUME NEW x \in Manager, WriteTemp(x) \/ Rename(x) \/ SaveFails(x) PROVE FALSE
    BY <2>6 DEF WriteTemp, Rename, SaveFails, memVars
  <2>7. ASSUME NEW x \in Manager, Crash(x) PROVE Ended(m)
    BY <2>7 DEF Crash, Flags, Goto
  <2> QED
    BY <2>1, <2>2, <2>3, <2>4, <2>5, <2>6, <2>7 DEF Next, Step
<1>2. KillInv => TypeOK
  BY DEF KillInv
<1> QED
  BY <1>1, <1>2, KillHolds, InitFlagOps, NextFlagOps, PTL
     DEF Spec, EscalationHasNoGap

-----------------------------------------------------------------------------
(* The refinement.                                                         *)

LEMMA PhaseFacts ==
    /\ PhaseAt("down") = "off" /\ PhaseAt("load") = "off" /\ PhaseAt("failed") = "off"
    /\ PhaseAt("ready") = "on" /\ PhaseAt("return") = "on"
    /\ PhaseAt("flag_killed") = "dirty" /\ PhaseAt("flag_frozen") = "dirty"
    /\ PhaseAt("write") = "dirty" /\ PhaseAt("rename") = "dirty"
BY DEF PhaseAt

\* A manager that goes on moves its phase, or keeps it.
LEMMA PhaseMoves ==
    ASSUME TypeOK, NEW m \in Manager, NEW l, Goto(m, l)
    PROVE  /\ Phases' = [Phases EXCEPT ![m] = PhaseAt(l)]
           /\ PhaseAt(l) = Phases[m] => Phases' = Phases
<1>1. pc' = [pc EXCEPT ![m] = l] /\ pc \in [Manager -> Points]
  BY DEF Goto, TypeOK
<1>2. Phases' = [x \in Manager |-> PhaseAt(pc'[x])]
  BY DEF Phases
<1>3. \A x \in Manager : PhaseAt(pc'[x]) = IF x = m THEN PhaseAt(l) ELSE PhaseAt(pc[x])
  BY <1>1
<1>4. Phases' = [x \in Manager |-> IF x = m THEN PhaseAt(l) ELSE PhaseAt(pc[x])]
  BY <1>2, <1>3
<1> QED
  BY <1>4 DEF Phases

\* A step that leaves the memory, the file and the phase alone.
LEMMA RegisterStutters ==
    ASSUME TypeOK, NEW m \in Manager, NEW l, Goto(m, l), PhaseAt(l) = PhaseAt(pc[m]),
           UNCHANGED <<state, file, synced>>
    PROVE  UNCHANGED Register!registerVars
<1>1. Phases' = Phases
  BY PhaseMoves DEF Phases
<1> QED
  BY <1>1 DEF Register!registerVars

\* A call that decides s and goes on with the flags or the file.
LEMMA Decides ==
    ASSUME TypeOK, NEW m \in Manager, pc[m] = "ready", NEW s \in State, Set(m, s),
           NEW l \in {"flag_killed", "write"}, Goto(m, l), UNCHANGED <<file, synced>>
    PROVE  Register!Next
<1>1. Phases' = [Phases EXCEPT ![m] = "dirty"] /\ Phases[m] = "on"
  BY PhaseMoves, PhaseFacts DEF Phases
<1>2. Register!Moves(m, "dirty", s)
  BY <1>1 DEF Register!Moves, Set
<1>3. Register!Decide(m)
  BY <1>1, <1>2 DEF Register!Decide
<1> QED
  BY <1>3 DEF Register!Next

LEMMA RegisterStep ==
    ASSUME KillInv, [Next]_vars
    PROVE  Register!Next \/ UNCHANGED Register!registerVars
<1>t. TypeOK /\ NotUp /\ InStep
  BY DEF KillInv
<1>s. \A m \in Manager : state[m] \in State /\ [state EXCEPT ![m] = state[m]] = state
  BY <1>t DEF TypeOK
<1>c. file.state \in State
  BY <1>t, FileFacts DEF TypeOK
<1>1. ASSUME NEW m \in Manager, Boot(m) PROVE UNCHANGED Register!registerVars
  BY <1>t, <1>1, PhaseFacts, RegisterStutters DEF Boot, memVars, ghostVars
<1>2. ASSUME NEW m \in Manager, LoadMissing(m) PROVE Register!Next
  <2>1. Phases' = [Phases EXCEPT ![m] = "on"] /\ Phases[m] = "off"
    BY <1>t, <1>2, PhaseMoves, PhaseFacts DEF Phases, LoadMissing
  <2>2. state[m] = Default /\ state' = [state EXCEPT ![m] = Default]
    BY <1>t, <1>s, <1>2 DEF NotUp, UpPC, LoadMissing
  <2>3. synced[m] = FALSE /\ synced' = [synced EXCEPT ![m] = FALSE]
    BY <1>t, <1>2 DEF InStep, TypeOK, LoadMissing, ghostVars
  <2>4. Register!Adopt(m)
    BY <1>2, <2>1, <2>2, <2>3 DEF LoadMissing, Register!Adopt, Register!Moves
  <2> QED
    BY <2>4 DEF Register!Next
<1>3. ASSUME NEW m \in Manager, LoadOk(m) PROVE Register!Next
  <2>1. Phases' = [Phases EXCEPT ![m] = "on"] /\ Phases[m] = "off"
    BY <1>t, <1>3, PhaseMoves, PhaseFacts DEF Phases, LoadOk
  <2>2. Register!Adopt(m)
    BY <1>3, <2>1 DEF LoadOk, Set, Register!Adopt, Register!Moves
  <2> QED
    BY <2>2 DEF Register!Next
<1>4. ASSUME NEW m \in Manager, LoadCorrupt(m) PROVE Register!Next
  <2>1. Phases' = [Phases EXCEPT ![m] = "dirty"] /\ Phases[m] = "off"
    BY <1>t, <1>4, PhaseMoves, PhaseFacts DEF Phases, LoadCorrupt
  <2>2. Register!FailClosed(m)
    BY <1>4, <2>1 DEF LoadCorrupt, Set, ghostVars, Register!FailClosed, Register!Moves
  <2> QED
    BY <2>2 DEF Register!Next
<1>5. ASSUME NEW m \in Manager, LoadRaises(m) PROVE UNCHANGED Register!registerVars
  BY <1>t, <1>5, PhaseFacts, RegisterStutters DEF LoadRaises, memVars, ghostVars
<1>6. ASSUME NEW m \in Manager, NEW close \in BOOLEAN, ActivateKill(m, close)
      PROVE  Register!Next
  <2>1. Active("kill", ~close) \in State
    BY StateFacts
  <2> QED
    BY <1>t, <1>6, <2>1, Decides DEF ActivateKill, ghostVars
<1>7. ASSUME NEW m \in Manager, ActivateFreeze(m) PROVE Register!Next
  <2>1. Active("freeze", TRUE) \in State
    BY StateFacts
  <2> QED
    BY <1>t, <1>7, <2>1, Decides DEF ActivateFreeze
<1>8. ASSUME NEW m \in Manager, Suppressed(m) PROVE UNCHANGED Register!registerVars
  BY <1>8 DEF Suppressed, memVars, ghostVars, Phases, Register!registerVars
<1>9. ASSUME NEW m \in Manager, NEW caller, Deactivate(m, caller) PROVE Register!Next
  BY <1>t, <1>9, StateFacts, Decides DEF Deactivate
<1>10. ASSUME NEW m \in Manager, RecordClosed(m) PROVE Register!Next
  <2>1. [state[m] EXCEPT !.closed = TRUE] \in State
    BY <1>s, StateFacts
  <2> QED
    BY <1>t, <1>10, <2>1, Decides DEF RecordClosed, ghostVars
<1>11. ASSUME NEW m \in Manager, SetKilled(m) \/ SetFrozen(m) \/ WriteTemp(m)
       PROVE  UNCHANGED Register!registerVars
  BY <1>t, <1>11, PhaseFacts, RegisterStutters
     DEF SetKilled, SetFrozen, WriteTemp, memVars, ghostVars
<1>12. ASSUME NEW m \in Manager, Rename(m) PROVE Register!Next
  <2>1. Phases' = [Phases EXCEPT ![m] = "on"] /\ Phases[m] = "dirty"
    BY <1>t, <1>12, PhaseMoves, PhaseFacts DEF Phases, Rename
  <2>2. file'.kind = "ok" /\ file'.state = state[m]
    BY <1>s, <1>12, FileFacts DEF Rename
  <2>3. Register!Keep(m)
    BY <1>s, <1>12, <2>1, <2>2 DEF Rename, memVars, Register!Keep, Register!Moves
  <2> QED
    BY <2>3 DEF Register!Next
<1>13. ASSUME NEW m \in Manager, SaveFails(m) PROVE Register!Next
  <2>1. Phases' = [Phases EXCEPT ![m] = "on"] /\ Phases[m] = "dirty"
    BY <1>t, <1>13, PhaseMoves, PhaseFacts DEF Phases, SaveFails
  <2>2. Register!KeepFails(m)
    BY <1>s, <1>13, <2>1 DEF SaveFails, memVars, Register!KeepFails, Register!Moves
  <2> QED
    BY <2>2 DEF Register!Next
<1>14. ASSUME NEW m \in Manager, Return(m) PROVE UNCHANGED Register!registerVars
  BY <1>t, <1>14, PhaseFacts, RegisterStutters DEF Return
<1>15. ASSUME NEW m \in Manager, Crash(m)
       PROVE  Register!Next \/ UNCHANGED Register!registerVars
  <2>1. CASE pc[m] = "load"
    <3>1. state' = state
      BY <1>t, <1>s, <1>15, <2>1 DEF NotUp, UpPC, Crash, Set
    <3> QED
      BY <1>t, <1>15, <2>1, <3>1, PhaseFacts, RegisterStutters DEF Crash, ghostVars
  <2>2. CASE pc[m] # "load"
    <3>1. pc[m] \in {"ready", "flag_killed", "flag_frozen", "write", "rename", "return"}
      BY <1>t, <1>15, <2>2 DEF Crash, TypeOK, Points
    <3>2. Phases[m] # "off"
      BY <3>1, PhaseFacts DEF Phases
    <3>3. Phases' = [Phases EXCEPT ![m] = "off"]
      BY <1>t, <1>15, PhaseMoves, PhaseFacts DEF Crash
    <3>4. Register!Stop(m)
      BY <1>15, <3>2, <3>3 DEF Crash, Set, ghostVars, Register!Stop, Register!Moves
    <3> QED
      BY <3>4 DEF Register!Next
  <2> QED
    BY <2>1, <2>2
<1>16. CASE Damage
  <2>1. PICK k \in {"missing", "garbled", "unreadable"} : file' = Without(k)
    BY <1>16 DEF Damage
  <2>2. file'.kind = k /\ file'.state = Default
    BY <2>1 DEF Without
  <2>3. Register!Damage
    BY <1>16, <2>2 DEF Damage, memVars, Phases, Register!Damage
  <2> QED
    BY <2>3 DEF Register!Next
<1>17. CASE UNCHANGED vars
  BY <1>17 DEF vars, memVars, ghostVars, Phases, Register!registerVars
<1> QED
  BY <1>1, <1>2, <1>3, <1>4, <1>5, <1>6, <1>7, <1>8, <1>9, <1>10, <1>11, <1>12,
     <1>13, <1>14, <1>15, <1>16, <1>17 DEF Next, Load, Call, Step, Recover, AutoClear

\* The managers implement the register: whatever the locks, the flags and the two
\* steps of a save interleave with, each decision is kept whole or not at all
\* before its manager takes the next, a start serves exactly what is kept, a file
\* that is not JSON is served as KILL, and no manager damages the file.
THEOREM SwitchImplementsRegister == Spec => RegisterSpec
<1>1. Init => Register!Init
  <2> SUFFICES ASSUME Init PROVE Register!Init
    OBVIOUS
  <2>1. Phases = [m \in Manager |-> "off"]
    BY PhaseFacts DEF Init, Phases
  <2> QED
    BY <2>1 DEF Init, Without, Register!Init
<1>2. KillInv /\ [Next]_vars => [Register!Next]_Register!registerVars
  BY RegisterStep
<1> QED
  BY <1>1, <1>2, KillHolds, PTL DEF Spec, RegisterSpec, Register!Spec
=============================================================================
