-------------------------- MODULE SupervisionProofs --------------------------
(***************************************************************************)
(* What keeps one engine alive and no more than one per file: the launcher *)
(* goes through the PID guard, and the engine's health monitor watches the *)
(* feed.  The two share no state; each has its own specification here.     *)
(***************************************************************************)
EXTENDS PidGuard, EngineHealth, TLAPS

-----------------------------------------------------------------------------
(* The PID guard, for every set of processes and inodes.                   *)

\* Program points at which a file is open but not locked.
OpenPC == {"flock", "read", "clear_flock"}

FdOpen == \A p \in Proc : pc[p] \in OpenPC => fd[p] \in Inode

\* A process that is about to open the file has an attempt left.
AttemptLeft == \A p \in Proc : pc[p] \in {"off", "open"} => attempt[p] < MaxTries

\* The inductive invariant: a lock is recorded for the process that owns it, so
\* two owners of one file are the same process, and only an owner writes a file.
GuardInv == GuardTypeOK /\ FdOpen /\ AttemptLeft /\ LockOwned /\ RunnerPidIntact

LEMMA InitGuard == GuardInit => GuardInv
BY NilAssumption, TriesAssumption
   DEF GuardInit, GuardInv, GuardTypeOK, FdOpen, AttemptLeft, LockOwned, RunnerPidIntact, OpenPC, PC,
       LockedPC, CriticalPC, GonePC

LEMMA NextGuard == GuardInv /\ [GuardNext]_guardVars => GuardInv'
<1> SUFFICES ASSUME GuardInv, [GuardNext]_guardVars PROVE GuardInv'
  OBVIOUS
<1> USE NilAssumption, TriesAssumption
    DEF GuardInv, GuardTypeOK, FdOpen, AttemptLeft, LockOwned, RunnerPidIntact, OpenPC, PC,
        LockedPC, CriticalPC, GonePC, Goto
<1>1. ASSUME NEW p \in Proc, Start(p) PROVE GuardInv'
  BY <1>1 DEF Start
<1>2. ASSUME NEW p \in Proc, Open(p) PROVE GuardInv'
  BY <1>2 DEF Open, OpenFile
<1>3. ASSUME NEW p \in Proc, FlockOk(p) PROVE GuardInv'
  BY <1>3 DEF FlockOk
<1>4. ASSUME NEW p \in Proc, FlockBusy(p) PROVE GuardInv'
  BY <1>4 DEF FlockBusy
<1>5. ASSUME NEW p \in Proc, ReadPid(p) PROVE GuardInv'
  BY <1>5 DEF ReadPid
<1>6. ASSUME NEW p \in Proc, Refuse(p) PROVE GuardInv'
  BY <1>6 DEF Refuse
<1>7. ASSUME NEW p \in Proc, JudgeStale(p) PROVE GuardInv'
  BY <1>7 DEF JudgeStale
<1>8. ASSUME NEW p \in Proc, ClearOpen(p) PROVE GuardInv'
  BY <1>8 DEF ClearOpen, OpenFile
<1>9. ASSUME NEW p \in Proc, ClearFlock(p) PROVE GuardInv'
  BY <1>9 DEF ClearFlock
<1>10. ASSUME NEW p \in Proc, ClearTruncate(p) PROVE GuardInv'
  BY <1>10 DEF ClearTruncate
<1>11. ASSUME NEW p \in Proc, ClearUnlock(p) PROVE GuardInv'
  BY <1>11 DEF ClearUnlock, GiveUp
<1>12. ASSUME NEW p \in Proc, TruncatePid(p) PROVE GuardInv'
  BY <1>12 DEF TruncatePid
<1>13. ASSUME NEW p \in Proc, WritePid(p) PROVE GuardInv'
  BY <1>13 DEF WritePid
<1>14. ASSUME NEW p \in Proc, Unlock(p) PROVE GuardInv'
  BY <1>14 DEF Unlock
<1>15. ASSUME NEW p \in Proc, Unlink(p) PROVE GuardInv'
  BY <1>15 DEF Unlink
<1>16. ASSUME NEW p \in Proc, Crash(p) PROVE GuardInv'
  BY <1>16 DEF Crash
<1>17. CASE UNCHANGED guardVars
  BY <1>17 DEF guardVars
<1> QED
  BY <1>1, <1>2, <1>3, <1>4, <1>5, <1>6, <1>7, <1>8, <1>9, <1>10, <1>11,
     <1>12, <1>13, <1>14, <1>15, <1>16, <1>17 DEF GuardNext, Step

LEMMA GuardHolds == GuardSpec => []GuardInv
BY InitGuard, NextGuard, PTL DEF GuardSpec

\* Every variable keeps its type, for any number of processes and inodes.
THEOREM PidGuardTypeOK == GuardSpec => []GuardTypeOK
<1>1. GuardInv => GuardTypeOK
  BY DEF GuardInv
<1> QED
  BY <1>1, GuardHolds, PTL

\* The PID a running process wrote stays in the file it locked: write_pid and
\* _force_clear_stale of other processes never reach it.
THEOREM RunnerPidStays == GuardSpec => []RunnerPidIntact
<1>1. GuardInv => RunnerPidIntact
  BY DEF GuardInv
<1> QED
  BY <1>1, GuardHolds, PTL

\* Whatever is open or has the path's name was created; a lock is held on such a
\* file only.
Made == /\ path \in made \cup {Nil}
        /\ \A p \in Proc : fd[p] \in made \cup {Nil}

LEMMA MadeHolds == GuardSpec => []Made
<1>1. GuardInit => Made
  BY DEF GuardInit, Made
<1>2. GuardInv /\ Made /\ [GuardNext]_guardVars => Made'
  BY DEF GuardInv, GuardTypeOK, Made, GuardNext, Step, guardVars, Start, Open, OpenFile,
     FlockOk, FlockBusy, ReadPid, Refuse, JudgeStale, ClearOpen, ClearFlock,
     ClearTruncate, ClearUnlock, TruncatePid, WritePid, Unlock, Unlink, Crash
<1> QED
  BY <1>1, <1>2, GuardHolds, PTL DEF GuardSpec

\* Two processes inside the guarded section have locked different files.
THEOREM FileIsExclusive == GuardSpec => []SoleHolderPerFile
<1>1. GuardInv => SoleHolderPerFile
  BY DEF GuardInv, LockOwned, SoleHolderPerFile, Critical, LockedPC
<1> QED
  BY <1>1, GuardHolds, PTL
\* No unlink of _release has taken effect before a later open: the path has named
\* one file only.
OneFile == \A i, j \in made : i = j

\* "Only one process can be here" (pid_guard.py) is kept until a second file is
\* created: two engines at once need an unlink between two opens, and neither
\* crashes, stale locks nor concurrent clearing alone lead there.
THEOREM OneFileOneProcess == GuardSpec => [](OneFile => OnlyOneProcess)
<1>1. GuardInv /\ Made => (OneFile => OnlyOneProcess)
  <2> SUFFICES ASSUME GuardInv, Made, OneFile, NEW p \in Proc, NEW q \in Proc,
                      Critical(p), Critical(q)
               PROVE  p = q
    BY DEF OnlyOneProcess
  <2>1. /\ fd[p] \in Inode /\ lock[fd[p]] = p
        /\ fd[q] \in Inode /\ lock[fd[q]] = q
    BY DEF GuardInv, LockOwned, Critical, LockedPC
  <2>2. fd[p] = fd[q]
    BY <2>1, NilAssumption DEF Made, OneFile
  <2> QED
    BY <2>1, <2>2
<1> QED
  BY <1>1, GuardHolds, MadeHolds, PTL

-----------------------------------------------------------------------------
(* The health monitor, for every limit, threshold and delay.               *)

\* While the monitor is idle and the window is open, every tick it has counted
\* was delivered since the feed's last start.  (During a resubscription the old
\* window still counts the ticks of the connection that is being replaced.)
WindowCountsFed == at = "idle" /\ window # None => got <= fed

\* An attempt shuts the window before it dials.
AttemptShutsWindow == at # "idle" /\ via = "attempt" => window = None

HealthInv == TypeOK /\ WindowCountsFed /\ AttemptShutsWindow

LEMMA NoneIsMinusOne == None = -1 /\ None \in Int
BY DEF None

LEMMA UpToFacts ==
    ASSUME NEW n \in Nat, NEW cap \in Nat
    PROVE  UpTo(n, cap) \in 0..cap
BY DEF UpTo

\* The counters of a tick keep their order.
LEMMA UpToMonotone ==
    ASSUME NEW m \in Nat, NEW n \in Nat, NEW cap \in Nat, m <= n
    PROVE  UpTo(m, cap) <= UpTo(n, cap)
BY DEF UpTo

LEMMA OlderType ==
    ASSUME NEW cap \in Nat, NEW age \in None..cap
    PROVE  Older(age, cap) \in None..cap /\ (Older(age, cap) = None <=> age = None)
BY DEF Older, UpTo, None

LEMMA PowerOfTwo == \A n \in 0..8 : 2^n \in Nat
<1> SUFFICES ASSUME NEW n \in 0..8 PROVE 2^n \in Nat
  OBVIOUS
<1>0. CASE n = 0  BY <1>0
<1>1. CASE n = 1  BY <1>1
<1>2. CASE n = 2  BY <1>2
<1>3. CASE n = 3  BY <1>3
<1>4. CASE n = 4  BY <1>4
<1>5. CASE n = 5  BY <1>5
<1>6. CASE n = 6  BY <1>6
<1>7. CASE n = 7  BY <1>7
<1>8. CASE n = 8  BY <1>8
<1> QED
  BY <1>0, <1>1, <1>2, <1>3, <1>4, <1>5, <1>6, <1>7, <1>8

\* Jitter and doubling never exceed max_reconnect_delay_sec.
LEMMA BackoffBounded ==
    ASSUME attempts \in Nat
    PROVE  Backoffs \subseteq 0..MaxDelay
<1>1. UpTo(attempts, 8) \in 0..8
  BY UpToFacts
<1>2. 2^UpTo(attempts, 8) \in Nat
  BY <1>1, PowerOfTwo
<1>3. PICK k \in Nat : k = 2^UpTo(attempts, 8)
  BY <1>2
<1>4. Base * k \in Nat /\ MaxDelay \in Nat
  BY HealthAssumption
<1>5. UpTo(Base * k, MaxDelay) \in 0..MaxDelay
  BY <1>4, UpToFacts
<1> QED
  BY <1>3, <1>5, HealthAssumption DEF Backoffs

LEMMA InitHealth == Init => HealthInv
<1> SUFFICES ASSUME Init PROVE HealthInv
  OBVIOUS
<1>1. /\ attempts \in 0..MaxAttempts /\ attempts < MaxAttempts
      /\ delay \in 0..MaxDelay /\ since \in 0..MaxDelay
      /\ tickAge \in None..Stale /\ stuckAge \in None..Stuck
      /\ window \in None..(Window + 1) /\ got \in 0..Required /\ fed \in 0..Required
  BY HealthAssumption DEF Init, None
<1>2. /\ running \in BOOLEAN /\ feedUp \in BOOLEAN /\ stuck \in BOOLEAN
      /\ at \in {"idle", "dial", "subscribe"} /\ via \in {"attempt", "resubscribe"}
  BY DEF Init
<1>3. WindowCountsFed /\ AttemptShutsWindow
  BY DEF Init, WindowCountsFed, AttemptShutsWindow
<1> QED
  BY <1>1, <1>2, <1>3 DEF Init, HealthInv, TypeOK

LEMMA MarkStuckType ==
    ASSUME TypeOK, MarkStuck
    PROVE  stuckAge' \in None..Stuck
BY HealthAssumption DEF TypeOK, MarkStuck, None

\* _attempt_reconnect: the breaker trips, or a dial begins with the window shut.
LEMMA AttemptFacts ==
    ASSUME TypeOK, running, AttemptReconnect
    PROVE  /\ running' \in BOOLEAN /\ feedUp' \in BOOLEAN /\ stuck' \in BOOLEAN
           /\ at' \in {"idle", "dial", "subscribe"} /\ via' \in {"attempt", "resubscribe"}
           /\ attempts' \in 0..MaxAttempts /\ (running' => attempts' < MaxAttempts)
           /\ window' = None /\ got' = 0 /\ fed' \in 0..Required
<1>1. attempts' = attempts + 1 /\ attempts' \in 0..MaxAttempts /\ window' = None /\ got' = 0
  BY HealthAssumption DEF TypeOK, AttemptReconnect
<1>2. CASE attempts' >= MaxAttempts
  BY <1>1, <1>2 DEF TypeOK, AttemptReconnect
<1>3. CASE ~(attempts' >= MaxAttempts)
  <2>1. attempts' < MaxAttempts /\ running' = running /\ Dial("attempt")
    BY <1>1, <1>3, HealthAssumption DEF AttemptReconnect
  <2>2. fed' \in 0..Required
    BY <2>1, HealthAssumption DEF Dial
  <2>3. /\ feedUp' \in BOOLEAN /\ stuck' \in BOOLEAN
        /\ at' \in {"idle", "dial", "subscribe"} /\ via' \in {"attempt", "resubscribe"}
    BY <2>1 DEF Dial
  <2>4. running' \in BOOLEAN
    BY <2>1 DEF TypeOK
  <2> QED
    BY <1>1, <2>1, <2>2, <2>3, <2>4
<1> QED
  BY <1>2, <1>3

LEMMA NextHealth == HealthInv /\ [Next]_vars => HealthInv'
<1> SUFFICES ASSUME HealthInv, [Next]_vars PROVE HealthInv'
  OBVIOUS
<1> USE HealthAssumption, NoneIsMinusOne
    DEF HealthInv, TypeOK, WindowCountsFed, AttemptShutsWindow, vars, monitorVars, gateVars, feedVars
<1>1. CASE OnTick
  <2>1. fed' \in 0..Required /\ got' \in 0..Required
    BY <1>1, UpToFacts DEF OnTick
  <2>2. WindowCountsFed'
    <3> SUFFICES ASSUME at = "idle", window # None PROVE got' <= fed'
      BY <1>1 DEF OnTick
    <3>1. feedUp /\ got <= fed
      BY <1>1 DEF OnTick
    <3>2. fed' = UpTo(fed + 1, Required)
      BY <1>1, <3>1 DEF OnTick
    <3>3. got' = got \/ got' = UpTo(got + 1, Required)
      BY <1>1 DEF OnTick
    <3>4. UpTo(got + 1, Required) <= UpTo(fed + 1, Required)
      BY <3>1, UpToMonotone
    <3>5. got <= UpTo(fed + 1, Required)
      BY <3>1 DEF UpTo
    <3> QED
      BY <3>2, <3>3, <3>4, <3>5
  <2>3. tickAge' \in None..Stale
    BY <1>1 DEF OnTick
  <2> QED
    BY <1>1, <2>1, <2>2, <2>3 DEF OnTick
<1>2. CASE FeedSticks
  BY <1>2 DEF FeedSticks
<1>3. CASE FeedRecovers
  BY <1>3 DEF FeedRecovers
<1>4. CASE MarketTurns
  BY <1>4 DEF MarketTurns
<1>5. CASE TimePasses
  <2>1. since' \in 0..MaxDelay
    BY <1>5, UpToFacts DEF TimePasses
  <2>2. tickAge' \in None..Stale /\ stuckAge' \in None..Stuck
    BY <1>5, OlderType DEF TimePasses
  <2>3. window' \in None..(Window + 1) /\ (window' = None <=> window = None)
    BY <1>5, OlderType DEF TimePasses
  <2> QED
    BY <1>5, <2>1, <2>2, <2>3 DEF TimePasses
<1>6. CASE StartFails
  <2>1. delay' \in 0..MaxDelay
    BY <1>6, BackoffBounded DEF StartFails
  <2>2. TypeOK'
    BY <1>6, <2>1 DEF StartFails
  <2>3. WindowCountsFed' /\ AttemptShutsWindow'
    BY <1>6 DEF StartFails
  <2> QED
    BY <2>2, <2>3
<1>7. CASE FeedComesUp
  BY <1>7 DEF FeedComesUp
<1>8. CASE StartReturns
  BY <1>8 DEF StartReturns
<1>9. CASE CheckForces
  BY <1>9, AttemptFacts DEF CheckForces, Checking
<1>10. CASE CheckHealthy
  BY <1>10, MarkStuckType DEF CheckHealthy
<1>11. CASE CheckExpires
  BY <1>11, MarkStuckType DEF CheckExpires
<1>12. CASE CheckResubscribes
  <2>1. at' = "dial" /\ via' = "resubscribe" /\ feedUp' = FALSE /\ stuck' = FALSE /\ fed' = 0
    BY <1>12 DEF CheckResubscribes, Dial
  <2>2. stuckAge' \in None..Stuck /\ fed' \in 0..Required /\ delay' \in 0..MaxDelay
    BY <1>12, <2>1, MarkStuckType DEF CheckResubscribes
  <2>b. feedUp' \in BOOLEAN /\ stuck' \in BOOLEAN
    BY <2>1
  <2>3. /\ UNCHANGED <<running, closed, attempts, since, gateVars, tickAge>>
        /\ at' \in {"idle", "dial", "subscribe"} /\ via' \in {"attempt", "resubscribe"}
    BY <1>12, <2>1 DEF CheckResubscribes
  <2> QED
    BY <2>1, <2>2, <2>b, <2>3
<1>13. CASE CheckSustained
  BY <1>13, MarkStuckType DEF CheckSustained
<1>14. CASE CheckInitialising
  BY <1>14, MarkStuckType DEF CheckInitialising
<1>15. CASE CheckClosed
  BY <1>15, MarkStuckType DEF CheckClosed
<1>16. CASE CheckBacksOff
  BY <1>16, MarkStuckType DEF CheckBacksOff
<1>17. CASE CheckReconnects
  BY <1>17, MarkStuckType, AttemptFacts DEF CheckReconnects, Checking
<1>18. CASE Rotates
  BY <1>18 DEF Rotates
<1>19. CASE Restarts
  <2>1. /\ attempts' \in 0..MaxAttempts /\ attempts' < MaxAttempts
        /\ delay' \in 0..MaxDelay /\ since' \in 0..MaxDelay
        /\ tickAge' \in None..Stale /\ stuckAge' \in None..Stuck
        /\ window' \in None..(Window + 1) /\ got' \in 0..Required /\ fed' \in 0..Required
    BY <1>19 DEF Restarts, Started
  <2>2. WindowCountsFed' /\ AttemptShutsWindow'
    BY <1>19 DEF Restarts, Started
  <2>3. /\ running' \in BOOLEAN /\ feedUp' \in BOOLEAN /\ stuck' \in BOOLEAN
        /\ at' \in {"idle", "dial", "subscribe"} /\ via' \in {"attempt", "resubscribe"}
        /\ closed' \in BOOLEAN
    BY <1>19 DEF Restarts, Started
  <2> QED
    BY <2>1, <2>2, <2>3
<1>20. CASE UNCHANGED vars
  BY <1>20
<1> QED
  BY <1>1, <1>2, <1>3, <1>4, <1>5, <1>6, <1>7, <1>8, <1>9, <1>10, <1>11, <1>12,
     <1>13, <1>14, <1>15, <1>16, <1>17, <1>18, <1>19, <1>20 DEF Next, Check

LEMMA HealthHolds == Spec => []HealthInv
BY InitHealth, NextHealth, PTL DEF Spec

\* Every counter and age stays in its range, the jittered delay included, and an
\* engine that runs has an attempt left (_attempt_reconnect): whatever the order
\* of forced attempts, backoffs, resubscriptions and resets.
THEOREM HealthTypeOK == Spec => []TypeOK
<1>1. HealthInv => TypeOK
  BY DEF HealthInv
<1> QED
  BY <1>1, HealthHolds, PTL

\* While the market is open, only CheckSustained clears the counter.
LEMMA OnlySustainedClears ==
    ASSUME HealthInv, [Next]_vars, running, ~closed, attempts' < attempts
    PROVE  CheckSustained
<1>a. attempts \in Int
  BY HealthAssumption DEF HealthInv, TypeOK
<1> SUFFICES ASSUME ~CheckSustained PROVE attempts' = attempts \/ attempts' = attempts + 1
  BY <1>a
<1> USE DEF monitorVars, gateVars, feedVars
<1>1. CASE CheckForces \/ CheckReconnects
  BY <1>1 DEF CheckForces, CheckReconnects, AttemptReconnect
<1>2. CASE CheckHealthy \/ CheckExpires \/ CheckResubscribes \/ CheckInitialising \/ CheckBacksOff
  BY <1>2 DEF CheckHealthy, CheckExpires, CheckResubscribes, CheckInitialising, CheckBacksOff
<1>3. CASE OnTick \/ FeedSticks \/ FeedRecovers \/ MarketTurns \/ TimePasses
  BY <1>3 DEF OnTick, FeedSticks, FeedRecovers, MarketTurns, TimePasses
<1>4. CASE StartFails \/ FeedComesUp \/ StartReturns \/ Rotates
  BY <1>4 DEF StartFails, FeedComesUp, StartReturns, Rotates
<1>5. CASE UNCHANGED vars
  BY <1>5 DEF vars
<1>6. ~CheckClosed /\ ~Restarts
  BY DEF CheckClosed, Restarts
<1> QED
  BY <1>1, <1>2, <1>3, <1>4, <1>5, <1>6 DEF Next, Check

\* The snapshots that subscriptions send never clear the counter of attempts: in
\* an open market it falls only after the required ticks since the feed's last
\* start, however restarts, resubscriptions and late ticks interleave.
THEOREM SnapshotsNeverCount == Spec => SnapshotsDoNotCount
<1>1. HealthInv /\ [Next]_vars
          => [running /\ ~closed /\ attempts' < attempts => fed >= Required]_vars
  <2> SUFFICES ASSUME HealthInv, [Next]_vars, running, ~closed, attempts' < attempts
               PROVE  fed >= Required
    OBVIOUS
  <2>1. at = "idle" /\ window \in 0..Window /\ got >= Required
    BY OnlySustainedClears DEF CheckSustained, Checking
  <2>2. got <= fed
    BY <2>1 DEF HealthInv, WindowCountsFed, None
  <2> QED
    BY <2>1, <2>2, HealthAssumption DEF HealthInv, TypeOK
<1> QED
  BY <1>1, HealthHolds, PTL DEF Spec, SnapshotsDoNotCount
=============================================================================
