------------------------ MODULE TokenLifecycleProofs ------------------------
(* Proofs about TokenLifecycle, for any set of processes, any threshold and  *)
(* any number of tokens.                                                     *)
EXTENDS TokenLifecycle, TLAPS

\* The file lock belongs to the process whose refresh is past it, and only a
\* process that runs refreshes.
LockHeld == \A p \in Process : /\ lock = p <=> at[p] \in {"post", "save"}
                               /\ at[p] # "idle" \/ want[p] # {} => up[p]

\* A response in hand is the server's last word: nobody else can refresh.
AnswerCurrent == \A p \in Process : at[p] = "save" => answer[p].refresh = server.refresh

\* .env is behind the server only while a response is in hand.
EnvBehind == ~lost /\ (\A p \in Process : at[p] # "save") => env.refresh = server.refresh

IInv == LockHeld /\ AnswerCurrent /\ EnvBehind /\ CacheFollowsEnv

USE FreeIsNoProcess DEF Free

-----------------------------------------------------------------------------

LEMMA InitIInv == Init => TypeOK /\ IInv
<1>0. 1 \in Token /\ 0 \in 0..(MaxGrants + 1) /\ 0 \in 0..Threshold
  BY TokenAssumption DEF Token
<1>1. ASSUME Init PROVE TypeOK
  <2>1. server \in Answer /\ NoAnswer \in Answer /\ NoCreds \in Creds
    BY <1>0, <1>1 DEF Init, Answer, Creds, NoAnswer, NoCreds
  <2>2. PICK b \in BOOLEAN : env = [access |-> 1, refresh |-> 1, timed |-> b]
    BY <1>1 DEF Init
  <2>3. env \in Creds
    BY <1>0, <2>2 DEF Creds
  <2>. QED BY <1>0, <1>1, <2>1, <2>3 DEF Init, TypeOK, Points, Thread
<1>2. Init => IInv
  BY DEF Init, IInv, LockHeld, AnswerCurrent, EnvBehind, CacheFollowsEnv
<1>. QED BY <1>1, <1>2

\* What the server issues is a token.
LEMMA GrantType ==
    ASSUME TypeOK, server.access <= MaxGrants, NEW rotates \in BOOLEAN
    PROVE  Grant(rotates) \in Answer
BY TokenAssumption DEF TypeOK, Grant, Answer, Token

\* An error leaves the types as they are, whoever asked for the refresh.
LEMMA RaisesType ==
    ASSUME TypeOK, NEW p \in Process, NEW b \in BOOLEAN, Raises(p, b)
    PROVE  /\ cache' \in [Process -> Creds] /\ up' \in [Process -> BOOLEAN]
           /\ lock' \in Process \cup {Free} /\ want' \in [Process -> SUBSET Thread]
           /\ at' \in [Process -> Points] /\ by' \in [Process -> Thread]
           /\ answer' \in [Process -> Answer] /\ feed' \in [Process -> Token \cup {0}]
           /\ fails' \in [Process -> 0..Threshold] /\ foreign' \in [Process -> BOOLEAN]
<1>1. NoAnswer \in Answer /\ NoCreds \in Creds
  BY TokenAssumption DEF NoAnswer, NoCreds, Answer, Creds, Token
<1>2. /\ lock' \in Process \cup {Free} /\ at' \in [Process -> Points]
      /\ by' \in [Process -> Thread] /\ answer' \in [Process -> Answer]
  BY <1>1 DEF TypeOK, Raises, Ends, Goto, Points, Thread
<1>3. CASE by[p] = "ensure"
  <2>1. Dies(p)
    BY <1>3 DEF Raises, Propagates
  <2>2. /\ cache' \in [Process -> Creds] /\ up' \in [Process -> BOOLEAN]
        /\ want' \in [Process -> SUBSET Thread] /\ foreign' \in [Process -> BOOLEAN]
    BY <1>1, <2>1 DEF TypeOK, Dies
  <2>3. feed' \in [Process -> Token \cup {0}] /\ fails' \in [Process -> 0..Threshold]
    BY <2>1, TokenAssumption DEF TypeOK, Dies
  <2>. QED BY <1>2, <2>2, <2>3
<1>4. CASE by[p] # "ensure"
  <2>1. UNCHANGED <<up, want, feed, cache, foreign>>
    BY <1>4 DEF Raises, Propagates
  <2>2. fails' \in [Process -> 0..Threshold]
    <3>1. CASE b
      BY <1>4, <3>1, TokenAssumption DEF TypeOK, Raises, Propagates, CountFailure
    <3>2. CASE ~b
      BY <1>4, <3>2 DEF TypeOK, Raises, Propagates
    <3>. QED BY <3>1, <3>2
  <2>. QED BY <1>2, <2>1, <2>2 DEF TypeOK
<1>. QED BY <1>3, <1>4

\* The types after update_tokens wrote well-formed credentials.
LEMMA SavesType ==
    ASSUME TypeOK, NEW p \in Process, Saves(p)
    PROVE  TypeOK'
<1>. DEFINE new == [access |-> answer[p].access, refresh |-> answer[p].refresh, timed |-> TRUE]
<1>1. new \in Creds /\ NoAnswer \in Answer
  BY TokenAssumption DEF TypeOK, Answer, Creds, NoAnswer, Token
<1>2. Stored(p, new)
  BY DEF Saves
<1>3. new.access \in Token
  BY DEF TypeOK, Answer
<1>. HIDE DEF new
<1>4. env' \in Creds /\ cache' \in [Process -> Creds]
  BY <1>1, <1>2 DEF TypeOK, Stored
<1>5. foreign' \in [Process -> BOOLEAN]
  BY <1>2 DEF TypeOK, Stored
<1>6. fails' \in [Process -> 0..Threshold] /\ feed' \in [Process -> Token \cup {0}]
  BY <1>2, <1>3, TokenAssumption DEF TypeOK, Stored
<1>7. /\ lock' \in Process \cup {Free} /\ at' \in [Process -> Points]
      /\ by' \in [Process -> Thread] /\ answer' \in [Process -> Answer]
  BY <1>1, <1>2 DEF TypeOK, Stored, Ends, Goto, Points, Thread
<1>. QED BY <1>2, <1>4, <1>5, <1>6, <1>7 DEF TypeOK, Stored

LEMMA NextType == TypeOK /\ [Next]_vars => TypeOK'
<1>. SUFFICES ASSUME TypeOK, [Next]_vars PROVE TypeOK'
  OBVIOUS
<1>0. NoAnswer \in Answer /\ NoCreds \in Creds
  BY TokenAssumption DEF NoAnswer, NoCreds, Answer, Creds, Token
<1>1. ASSUME NEW p \in Process, Boot(p) PROVE TypeOK'
  <2>1. feed' \in [Process -> Token \cup {0}] /\ want' \in [Process -> SUBSET Thread]
    <3>1. env.access \in Token
      BY DEF TypeOK, Creds
    <3>2. CASE IsValid(env)
      BY <1>1, <3>1, <3>2 DEF Boot, TypeOK
    <3>3. CASE ~IsValid(env)
      BY <1>1, <3>3 DEF Boot, TypeOK, Thread
    <3>. QED BY <3>2, <3>3
  <2>2. up' \in [Process -> BOOLEAN] /\ cache' \in [Process -> Creds] /\ foreign' \in [Process -> BOOLEAN]
    BY <1>1 DEF Boot, TypeOK
  <2>. QED BY <1>1, <2>1, <2>2 DEF Boot, TypeOK
<1>2. ASSUME NEW p \in Process, Crash(p) PROVE TypeOK'
  <2>1. /\ cache' \in [Process -> Creds] /\ up' \in [Process -> BOOLEAN]
        /\ want' \in [Process -> SUBSET Thread] /\ foreign' \in [Process -> BOOLEAN]
    BY <1>0, <1>2 DEF TypeOK, Crash, Dies
  <2>2. feed' \in [Process -> Token \cup {0}] /\ fails' \in [Process -> 0..Threshold]
    BY <1>2, TokenAssumption DEF TypeOK, Crash, Dies
  <2>3. /\ lock' \in Process \cup {Free} /\ at' \in [Process -> Points]
        /\ by' \in [Process -> Thread] /\ answer' \in [Process -> Answer] /\ lost' \in BOOLEAN
    BY <1>0, <1>2 DEF TypeOK, Crash, Ends, Goto, Points, Thread
  <2>. QED BY <1>2, <2>1, <2>2, <2>3 DEF Crash, TypeOK
<1>3. ASSUME NEW p \in Process, NEW t \in Thread, Decides(p, t) PROVE TypeOK'
  BY <1>3 DEF Decides, TypeOK, refreshVars
<1>4. ASSUME NEW p \in Process, NEW t \in Thread, Enters(p, t) PROVE TypeOK'
  BY <1>4 DEF Enters, TypeOK, Goto, Points
<1>5. ASSUME NEW p \in Process, Locks(p) PROVE TypeOK'
  BY <1>5 DEF Locks, TypeOK, Goto, Points, procVars
<1>6. ASSUME NEW p \in Process, NEW b \in BOOLEAN, PostGranted(p, b) PROVE TypeOK'
  <2>1. server' \in Answer
    BY <1>6, GrantType DEF PostGranted
  <2>. QED BY <1>6, <2>1 DEF PostGranted, TypeOK, Goto, Points, procVars
<1>7. ASSUME NEW p \in Process, NEW b \in BOOLEAN, PostLost(p, b) PROVE TypeOK'
  <2>1. server' \in Answer
    BY <1>7, GrantType DEF PostLost
  <2>2. Raises(p, TRUE)
    BY <1>7 DEF PostLost
  <2>. QED BY <1>7, <2>1, <2>2, RaisesType DEF PostLost, TypeOK
<1>8. ASSUME NEW p \in Process, PostFails(p) PROVE TypeOK'
  <2>1. Raises(p, TRUE)
    BY <1>8 DEF PostFails
  <2>. QED BY <1>8, <2>1, RaisesType DEF PostFails, TypeOK
<1>9. ASSUME NEW p \in Process, PostRejected(p) PROVE TypeOK'
  <2>1. Raises(p, FALSE)
    BY <1>9 DEF PostRejected
  <2>. QED BY <1>9, <2>1, RaisesType DEF PostRejected, TypeOK
<1>10. ASSUME NEW p \in Process, SaveFails(p) PROVE TypeOK'
  <2>1. Raises(p, FALSE)
    BY <1>10 DEF SaveFails
  <2>. QED BY <1>10, <2>1, RaisesType DEF SaveFails, TypeOK
<1>11. ASSUME OperatorRotates PROVE TypeOK'
  <2>1. server' \in Answer
    BY <1>11, GrantType DEF OperatorRotates
  <2>2. env' \in Creds
    <3>1. PICK b \in BOOLEAN :
             env' = [access |-> server'.access, refresh |-> server'.refresh, timed |-> b]
      BY <1>11 DEF OperatorRotates
    <3>2. server'.access \in Token /\ server'.refresh \in Token
      BY <2>1 DEF Answer
    <3>. QED BY <3>1, <3>2 DEF Creds
  <2>. QED BY <1>11, <2>1, <2>2 DEF OperatorRotates, TypeOK, procVars, refreshVars
<1>12. ASSUME Expires PROVE TypeOK'
  BY <1>12, TokenAssumption DEF Expires, TypeOK, Answer, Token, procVars, refreshVars
<1>13. CASE UNCHANGED vars
  BY <1>13 DEF TypeOK, vars, procVars, refreshVars
<1>. QED
  BY <1>1, <1>2, <1>3, <1>4, <1>5, <1>6, <1>7, <1>8, <1>9, <1>10, <1>11, <1>12, <1>13,
     SavesType DEF Next, Refresh

-----------------------------------------------------------------------------

\* What every error leaves behind: p's refresh is over and the lock is free; the
\* other processes do not notice.
LEMMA RaisesEffect ==
    ASSUME TypeOK, IInv, NEW p \in Process, NEW b \in BOOLEAN, Raises(p, b)
    PROVE  /\ lock' = Free /\ at'[p] = "idle"
           /\ want'[p] # {} => up'[p]
           /\ up'[p] => up[p] /\ cache'[p] = cache[p] /\ foreign'[p] = foreign[p]
           /\ \A q \in Process \ {p} :
                 /\ at'[q] = at[q] /\ want'[q] = want[q] /\ up'[q] = up[q]
                 /\ answer'[q] = answer[q] /\ cache'[q] = cache[q] /\ foreign'[q] = foreign[q]
<1>1. /\ lock' = Free /\ at'[p] = "idle"
      /\ \A q \in Process \ {p} : at'[q] = at[q] /\ answer'[q] = answer[q]
  BY DEF Raises, Ends, Goto, TypeOK
<1>2. CASE by[p] = "ensure"
  <2>1. Dies(p)
    BY <1>2 DEF Raises, Propagates
  <2>. QED BY <1>1, <2>1 DEF Dies, TypeOK
<1>3. CASE by[p] # "ensure"
  <2>1. UNCHANGED <<up, want, feed, cache, foreign>>
    BY <1>3 DEF Raises, Propagates
  <2>. QED BY <1>1, <2>1 DEF IInv, LockHeld
<1>. QED BY <1>2, <1>3

\* The invariant after an error under the file lock, whatever became of the answer.
LEMMA RaisesInv ==
    ASSUME TypeOK, IInv, NEW p \in Process, NEW b \in BOOLEAN, Raises(p, b),
           lock = p, env' = env, ~lost' => server'.refresh = env.refresh
    PROVE  IInv'
<1>1. LockHeld'
  BY RaisesEffect DEF IInv, LockHeld
<1>2. AnswerCurrent'
  BY RaisesEffect DEF IInv, LockHeld, AnswerCurrent
<1>3. EnvBehind'
  BY DEF EnvBehind
<1>4. CacheFollowsEnv'
  BY RaisesEffect DEF IInv, CacheFollowsEnv
<1>. QED BY <1>1, <1>2, <1>3, <1>4 DEF IInv

\* While the lock's holder has not posted, .env is as current as it gets.
LEMMA AtPost ==
    ASSUME IInv, NEW p \in Process, at[p] = "post"
    PROVE  lock = p /\ (~lost => env.refresh = server.refresh)
BY DEF IInv, LockHeld, EnvBehind

LEMMA NextIInv == TypeOK /\ IInv /\ [Next]_vars => IInv'
<1>. SUFFICES ASSUME TypeOK, IInv, [Next]_vars PROVE IInv'
  OBVIOUS
<1>. USE DEF LockHeld, AnswerCurrent, EnvBehind, CacheFollowsEnv
<1>1. ASSUME NEW p \in Process, Boot(p) PROVE IInv'
  <2>1. LockHeld' /\ AnswerCurrent' /\ EnvBehind'
    BY <1>1 DEF Boot, TypeOK, IInv
  <2>2. CacheFollowsEnv'
    BY <1>1 DEF Boot, TypeOK, IInv
  <2>. QED BY <2>1, <2>2 DEF IInv
<1>2. ASSUME NEW p \in Process, Crash(p) PROVE IInv'
  <2>1. LockHeld'
    BY <1>2 DEF Crash, Dies, Ends, Goto, TypeOK, IInv
  <2>2. AnswerCurrent' /\ CacheFollowsEnv'
    BY <1>2 DEF Crash, Dies, Ends, Goto, TypeOK, IInv
  <2>3. EnvBehind'
    BY <1>2 DEF Crash, Ends, Goto, TypeOK, IInv
  <2>. QED BY <2>1, <2>2, <2>3 DEF IInv
<1>3. ASSUME NEW p \in Process, NEW t \in Thread, Decides(p, t) PROVE IInv'
  BY <1>3 DEF Decides, TypeOK, IInv, refreshVars
<1>4. ASSUME NEW p \in Process, NEW t \in Thread, Enters(p, t) PROVE IInv'
  BY <1>4 DEF Enters, TypeOK, IInv, Goto
<1>5. ASSUME NEW p \in Process, Locks(p) PROVE IInv'
  BY <1>5 DEF Locks, TypeOK, IInv, Goto, procVars
<1>6. ASSUME NEW p \in Process, NEW b \in BOOLEAN, PostGranted(p, b) PROVE IInv'
  <2>1. LockHeld' /\ EnvBehind' /\ CacheFollowsEnv'
    BY <1>6 DEF PostGranted, TypeOK, IInv, Goto, procVars
  <2>2. AnswerCurrent'
    BY <1>6 DEF PostGranted, TypeOK, IInv, Goto
  <2>. QED BY <2>1, <2>2 DEF IInv
<1>7. ASSUME NEW p \in Process, NEW b \in BOOLEAN, PostLost(p, b) PROVE IInv'
  <2>1. Raises(p, TRUE) /\ lock = p /\ env' = env
    BY <1>7, AtPost DEF PostLost
  <2>2. ~lost' => server'.refresh = env.refresh
    BY <1>7, AtPost DEF PostLost, Grant
  <2>. QED BY <2>1, <2>2, RaisesInv
<1>8. ASSUME NEW p \in Process, PostFails(p) PROVE IInv'
  <2>1. Raises(p, TRUE) /\ lock = p /\ env' = env /\ (~lost' => server'.refresh = env.refresh)
    BY <1>8, AtPost DEF PostFails
  <2>. QED BY <2>1, RaisesInv
<1>9. ASSUME NEW p \in Process, PostRejected(p) PROVE IInv'
  <2>1. Raises(p, FALSE) /\ lock = p /\ env' = env /\ (~lost' => server'.refresh = env.refresh)
    BY <1>9, AtPost DEF PostRejected
  <2>. QED BY <2>1, RaisesInv
<1>10. ASSUME NEW p \in Process, SaveFails(p) PROVE IInv'
  <2>1. Raises(p, FALSE) /\ lock = p /\ env' = env
    BY <1>10 DEF SaveFails, IInv
  <2>2. ~lost' => server'.refresh = env.refresh
    BY <1>10 DEF SaveFails, IInv
  <2>. QED BY <2>1, <2>2, RaisesInv
<1>11. ASSUME NEW p \in Process, Saves(p) PROVE IInv'
  <2>. DEFINE new == [access |-> answer[p].access, refresh |-> answer[p].refresh, timed |-> TRUE]
  <2>1. Stored(p, new) /\ lock = p /\ new.refresh = server.refresh
    BY <1>11 DEF Saves, IInv
  <2>. HIDE DEF new
  <2>2. LockHeld' /\ AnswerCurrent'
    BY <2>1 DEF Stored, Ends, Goto, TypeOK, IInv
  <2>3. EnvBehind' /\ CacheFollowsEnv'
    BY <2>1 DEF Stored, TypeOK, IInv
  <2>. QED BY <2>2, <2>3 DEF IInv
<1>12. ASSUME OperatorRotates PROVE IInv'
  <2>1. \A p \in Process : ~up[p] /\ at[p] = "idle"
    BY <1>12 DEF OperatorRotates, IInv
  <2>2. env'.refresh = server'.refresh
    BY <1>12 DEF OperatorRotates
  <2>3. UNCHANGED <<lock, at, want, up, answer, foreign>>
    BY <1>12 DEF OperatorRotates, procVars, refreshVars
  <2>. QED BY <2>1, <2>2, <2>3 DEF IInv
<1>13. ASSUME Expires PROVE IInv'
  BY <1>13 DEF Expires, IInv, procVars, refreshVars
<1>14. CASE UNCHANGED vars
  BY <1>14 DEF IInv, vars, procVars, refreshVars
<1>. QED
  BY <1>1, <1>2, <1>3, <1>4, <1>5, <1>6, <1>7, <1>8, <1>9, <1>10, <1>11, <1>12, <1>13, <1>14
  DEF Next, Refresh

-----------------------------------------------------------------------------

LEMMA Invariance == Spec => [](TypeOK /\ IInv)
<1>1. TypeOK /\ IInv /\ [Next]_vars => (TypeOK /\ IInv)'
  BY NextType, NextIInv
<1>. QED BY InitIInv, <1>1, PTL DEF Spec

\* Every token in .env, in a cache, in an answer or in the feed is one the server
\* issued, through refreshes, crashes and manual rotations.
THEOREM TokensTypeCorrect == Spec => []TypeOK
BY Invariance, PTL

\* update_tokens under the file lock: no process and no thread can leave .env with
\* a refresh token the server has replaced, unless a response was lost.
THEOREM EnvNeverBehind == Spec => []EnvCurrent
<1>1. IInv => EnvCurrent
  BY DEF IInv, EnvCurrent, LockHeld, EnvBehind
<1>. QED BY Invariance, <1>1, PTL

\* The store's cache, which every refresh of the process reads, is .env until
\* another process writes it.
THEOREM CacheIsEnv == Spec => []CacheFollowsEnv
<1>1. IInv => CacheFollowsEnv
  BY DEF IInv
<1>. QED BY Invariance, <1>1, PTL

\* The store re-reads .env only where a process starts: what a process posts is the
\* server's refresh token unless another process wrote .env after that.  This is all
\* that is left of the re-check that DeadTokenNeverSent asks for.
THEOREM DeadTokenIsForeign ==
    Spec => [](\A p \in Process : at[p] = "post" /\ ~lost /\ ~foreign[p]
                                  => cache[p].refresh = server.refresh)
<1>1. ASSUME IInv, NEW p \in Process, at[p] = "post", ~lost, ~foreign[p]
      PROVE  cache[p].refresh = server.refresh
  <2>1. env.refresh = server.refresh
    BY <1>1, AtPost
  <2>2. cache[p] = env
    BY <1>1 DEF IInv, LockHeld, CacheFollowsEnv
  <2>. QED BY <2>1, <2>2
<1>2. IInv => \A p \in Process : at[p] = "post" /\ ~lost /\ ~foreign[p]
                                 => cache[p].refresh = server.refresh
  BY <1>1
<1>. QED BY Invariance, <1>2, PTL

\* Only another process's save makes a process's copy foreign.
LEMMA NextUnwritten ==
    ASSUME \A p, q \in Process : p = q, TypeOK, \A p \in Process : ~foreign[p], [Next]_vars
    PROVE  \A p \in Process : ~foreign'[p]
<1>1. ASSUME NEW p \in Process, NEW b \in BOOLEAN, Raises(p, b)
      PROVE  \A q \in Process : ~foreign'[q]
  BY <1>1 DEF Raises, Propagates, Dies, TypeOK
<1>2. ASSUME NEW p \in Process, NEW new, Stored(p, new)
      PROVE  \A q \in Process : ~foreign'[q]
  BY <1>2 DEF Stored
<1>3. ASSUME NEW p \in Process, Boot(p) \/ Crash(p)
      PROVE  \A q \in Process : ~foreign'[q]
  BY <1>3 DEF Boot, Crash, Dies, TypeOK
<1>4. ASSUME NEW p \in Process, Refresh(p)
      PROVE  \A q \in Process : ~foreign'[q]
  BY <1>1, <1>2, <1>4
     DEF Refresh, PostGranted, PostLost, PostFails, PostRejected, SaveFails, Saves
<1>. QED BY <1>3, <1>4 DEF Next, Decides, Enters, Locks, OperatorRotates, Expires, vars

\* A single process on the .env keeps the promise that two of them break: it never
\* posts a refresh token that the server has replaced, across its threads, its
\* restarts and the operator's rotations.
THEOREM SoleProcessSendsLiveTokens ==
    ASSUME \A p, q \in Process : p = q
    PROVE  Spec => []DeadTokenNeverSent
<1>. DEFINE Unwritten == \A p \in Process : ~foreign[p]
<1>1. Init => Unwritten
  BY DEF Init
<1>2. TypeOK /\ Unwritten /\ [Next]_vars => Unwritten'
  BY NextUnwritten
<1>3. Spec => []Unwritten
  BY <1>1, <1>2, Invariance, PTL DEF Spec
<1>4. Unwritten /\ (\A p \in Process : at[p] = "post" /\ ~lost /\ ~foreign[p]
                                       => cache[p].refresh = server.refresh)
      => DeadTokenNeverSent
  BY DEF DeadTokenNeverSent
<1>. QED BY <1>3, <1>4, DeadTokenIsForeign, PTL
=============================================================================
