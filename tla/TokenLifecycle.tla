--------------------------- MODULE TokenLifecycle ---------------------------
(***************************************************************************)
(* OAuth tokens: TokenLifecycle (token_lifecycle.py), CredentialStore      *)
(* (credential_store.py) and the three callers of a process: the start of  *)
(* the engine (ensure_valid), the lifecycle's own timer and the feed's     *)
(* refresh (force_refresh).                                                *)
(*                                                                         *)
(* The server hands out a new access token at every refresh and may rotate *)
(* the refresh token, which kills the one it replaces.  Processes share    *)
(* .env and a file lock; each reads .env once and then works with its      *)
(* cache.  In a process the refreshes are serialised by TokenLifecycle's   *)
(* lock, so a process has one refresh under way and a set of threads that  *)
(* decided to refresh and wait for that lock.                              *)
(*                                                                         *)
(* Tokens are numbered in the order the server issues them; a token is due *)
(* when its known expiry is less than five days away.  The advisory        *)
(* validation of a new token changes nothing and is left out.              *)
(***************************************************************************)
EXTENDS Integers

CONSTANTS
    Process,      \* processes on one .env
    Threshold,    \* auth_failure_threshold
    MaxGrants     \* bound: tokens the server issues

ASSUME TokenAssumption ==
    /\ Threshold \in Nat \ {0}
    /\ MaxGrants \in Nat

Free == "free"
ASSUME FreeIsNoProcess == Free \notin Process

VARIABLES
    server,   \* what the server honours: the last access and refresh tokens
    due,      \* tokens up to this one expire within REFRESH_BUFFER
    env,      \* .env
    cache,    \* CredentialStore._cached; TokenLifecycle's own copy follows it
    up,       \* the process runs
    lock,     \* who has flock(.token_refresh.lock)
    want,     \* threads that wait for TokenLifecycle._lock
    at, by,   \* the refresh under that lock: where it is and whose it is
    answer,   \* the tokens of the response it holds, NoAnswer without one
    feed,     \* OpenApiSpotFeed._access_token, 0 before the feed is built
    fails,    \* _consecutive_auth_failures, up to the threshold
    lost,     \* history: the server rotated and no one could store the answer
    foreign   \* history: .env was written by another since the process read it

procVars == <<up, want, feed, fails>>
refreshVars == <<cache, at, by, answer>>
vars == <<server, due, env, procVars, refreshVars, lock, lost, foreign>>

\* "ensure" is ensure_valid at start, "timer" is _timer_loop, "feed" is
\* _refresh_token_and_reauth.
Thread == {"ensure", "timer", "feed"}
Token == 1..(MaxGrants + 1)
\* timed: .env has the token's expiry; without it the token is taken for fresh.
Creds == [access : Token, refresh : Token, timed : BOOLEAN]
Answer == [access : Token, refresh : Token]
NoAnswer == [access |-> 1, refresh |-> 1]
\* The cache of a process that does not run.
NoCreds == [access |-> 1, refresh |-> 1, timed |-> FALSE]
Points == {"idle", "flock", "post", "save"}

Init == /\ server = [access |-> 1, refresh |-> 1]
        /\ due = 0
        /\ env \in {[access |-> 1, refresh |-> 1, timed |-> b] : b \in BOOLEAN}
        /\ cache = [p \in Process |-> NoCreds]
        /\ up = [p \in Process |-> FALSE]
        /\ lock = Free
        /\ want = [p \in Process |-> {}]
        /\ at = [p \in Process |-> "idle"]
        /\ by = [p \in Process |-> "ensure"]
        /\ answer = [p \in Process |-> NoAnswer]
        /\ feed = [p \in Process |-> 0]
        /\ fails = [p \in Process |-> 0]
        /\ lost = FALSE
        /\ foreign = [p \in Process |-> FALSE]

-----------------------------------------------------------------------------
(* Helpers.                                                                *)

\* _is_valid.
IsValid(c) == c.timed => c.access > due

\* The server's answer: a new access token, and perhaps a new refresh token.
Grant(rotates) == [access |-> server.access + 1,
                   refresh |-> IF rotates THEN server.access + 1 ELSE server.refresh]

Goto(p, l) == at' = [at EXCEPT ![p] = l]

\* TokenLifecycle._lock is free again.
Ends(p) == /\ Goto(p, "idle")
           /\ by' = [by EXCEPT ![p] = "ensure"]
           /\ answer' = [answer EXCEPT ![p] = NoAnswer]

\* The process dies, and with it its cache and its locks.
Dies(p) ==
    /\ up' = [up EXCEPT ![p] = FALSE]
    /\ want' = [want EXCEPT ![p] = {}]
    /\ feed' = [feed EXCEPT ![p] = 0]
    /\ fails' = [fails EXCEPT ![p] = 0]
    /\ cache' = [cache EXCEPT ![p] = NoCreds]
    /\ foreign' = [foreign EXCEPT ![p] = FALSE]

\* _record_auth_failure.  At the threshold it asks the kill switch for the global
\* freeze (module KillSwitch), which stops no refresh.
CountFailure(p) ==
    fails' = [fails EXCEPT ![p] = IF @ < Threshold THEN @ + 1 ELSE @]

\* What the caller makes of an error: a failed start ends the process, the other
\* two log it.
Propagates(p, retryable) ==
    IF by[p] = "ensure" THEN Dies(p)
    ELSE /\ IF retryable THEN CountFailure(p) ELSE UNCHANGED fails
         /\ UNCHANGED <<up, want, feed, cache, foreign>>

\* Mutant: the file lock is released on success only.
RaisesLocked(p, retryable) ==
    /\ Ends(p)
    /\ UNCHANGED lock
    /\ Propagates(p, retryable)

\* A refresh that raises, through the finally clause of _do_refresh.
Raises(p, retryable) ==
    /\ Ends(p)
    /\ lock' = Free
    /\ Propagates(p, retryable)

-----------------------------------------------------------------------------
(* Starting and stopping.                                                  *)

\* _build_live_credentials: load .env, ensure_valid, build the feed.
Boot(p) ==
    /\ ~up[p]
    /\ up' = [up EXCEPT ![p] = TRUE]
    /\ cache' = [cache EXCEPT ![p] = env]
    /\ foreign' = [foreign EXCEPT ![p] = FALSE]
    /\ IF IsValid(env)
       THEN feed' = [feed EXCEPT ![p] = env.access] /\ UNCHANGED want
       ELSE want' = [want EXCEPT ![p] = {"ensure"}] /\ UNCHANGED feed
    /\ UNCHANGED <<server, due, env, at, by, answer, fails, lock, lost>>

Crash(p) ==
    /\ up[p]
    /\ Dies(p)
    /\ Ends(p)
    /\ lock' = IF lock = p THEN Free ELSE lock
    /\ lost' = (lost \/ (at[p] = "save" /\ answer[p].refresh # env.refresh))
    /\ UNCHANGED <<server, due, env>>

\* The runbook's manual rotation, with the service stopped.
OperatorRotates ==
    /\ \A p \in Process : ~up[p]
    /\ server.access <= MaxGrants
    /\ server' = Grant(TRUE)
    /\ \E timed \in BOOLEAN :
          env' = [access |-> server'.access, refresh |-> server'.refresh, timed |-> timed]
    /\ lost' = FALSE
    /\ UNCHANGED <<due, procVars, refreshVars, lock, foreign>>

\* Time passes: every token issued so far comes within five days of its expiry.
Expires ==
    /\ due < server.access
    /\ due' = server.access
    /\ UNCHANGED <<server, env, procVars, refreshVars, lock, lost, foreign>>

-----------------------------------------------------------------------------
(* A refresh.                                                              *)

\* The timer finds the token due; the feed refreshes on its own schedule and
\* when the server says that the token is not valid.
Decides(p, t) ==
    /\ up[p] /\ feed[p] # 0
    /\ t \in {"timer", "feed"}
    /\ t \notin want[p] /\ ~(at[p] # "idle" /\ by[p] = t)
    /\ t = "timer" => ~IsValid(cache[p])
    /\ want' = [want EXCEPT ![p] = @ \cup {t}]
    /\ UNCHANGED <<server, due, env, up, feed, fails, refreshVars, lock, lost, foreign>>

\* TokenLifecycle._lock.  force_refresh does not look again whether the token
\* still is due.
Enters(p, t) ==
    /\ at[p] = "idle"
    /\ t \in want[p]
    /\ want' = [want EXCEPT ![p] = @ \ {t}]
    /\ by' = [by EXCEPT ![p] = t]
    /\ Goto(p, "flock")
    /\ UNCHANGED <<server, due, env, up, feed, fails, cache, answer, lock, lost, foreign>>

\* The file lock.  ensure_valid's _sync_from_store reads the store's cache again,
\* not .env, so the test after it finds what it found before.
Locks(p) ==
    /\ at[p] = "flock"
    /\ lock = Free
    /\ lock' = p
    /\ Goto(p, "post")
    /\ UNCHANGED <<server, due, env, procVars, cache, by, answer, lost, foreign>>

\* HTTP 200.
PostGranted(p, rotates) ==
    /\ at[p] = "post"
    /\ cache[p].refresh = server.refresh
    /\ server.access <= MaxGrants
    /\ server' = Grant(rotates)
    /\ answer' = [answer EXCEPT ![p] = server']
    /\ Goto(p, "save")
    /\ UNCHANGED <<due, env, procVars, cache, by, lock, lost, foreign>>

\* The server did its part and the response never arrived.
PostLost(p, rotates) ==
    /\ at[p] = "post"
    /\ cache[p].refresh = server.refresh
    /\ server.access <= MaxGrants
    /\ server' = Grant(rotates)
    /\ lost' = (lost \/ rotates)
    /\ Raises(p, TRUE)
    /\ UNCHANGED <<due, env>>

\* The request never arrived, or HTTP 5xx.
PostFails(p) ==
    /\ at[p] = "post"
    /\ Raises(p, TRUE)
    /\ UNCHANGED <<server, due, env, lost>>

\* HTTP 400, the answer to a dead token, or another status.
PostRejected(p) ==
    /\ at[p] = "post"
    /\ Raises(p, FALSE)
    /\ UNCHANGED <<server, due, env, lost>>

\* The store, the cache and the caller after update_tokens wrote new.
Stored(p, new) ==
    /\ env' = new
    /\ cache' = [cache EXCEPT ![p] = new]
    /\ foreign' = [q \in Process |-> IF q = p THEN foreign[q] ELSE up[q]]
    /\ fails' = [fails EXCEPT ![p] = 0]
    /\ feed' = IF by[p] = "timer" THEN feed ELSE [feed EXCEPT ![p] = new.access]
    /\ lock' = Free
    /\ Ends(p)
    /\ UNCHANGED <<server, due, up, want, lost>>

\* Mutant: the refresh token is kept although there is a new one.
SavesOldRefresh(p) ==
    /\ at[p] = "save"
    /\ Stored(p, [access |-> answer[p].access, refresh |-> cache[p].refresh, timed |-> TRUE])

\* Mutant: .env is written and the cache is not.
SavesFileOnly(p) ==
    /\ at[p] = "save"
    /\ env' = [access |-> answer[p].access, refresh |-> answer[p].refresh, timed |-> TRUE]
    /\ foreign' = [q \in Process |-> IF q = p THEN foreign[q] ELSE up[q]]
    /\ lock' = Free
    /\ Ends(p)
    /\ UNCHANGED <<server, due, procVars, cache, lost>>

Saves(p) ==
    /\ at[p] = "save"
    /\ Stored(p, [access |-> answer[p].access, refresh |-> answer[p].refresh, timed |-> TRUE])

\* update_tokens raises before it has replaced .env.
SaveFails(p) ==
    /\ at[p] = "save"
    /\ lost' = (lost \/ answer[p].refresh # env.refresh)
    /\ Raises(p, FALSE)
    /\ UNCHANGED <<server, due, env>>

Refresh(p) == \/ \E rotates \in BOOLEAN : PostGranted(p, rotates) \/ PostLost(p, rotates)
              \/ PostFails(p) \/ PostRejected(p) \/ Saves(p) \/ SaveFails(p)

Next == \/ \E p \in Process :
              \/ Boot(p) \/ Crash(p)
              \/ \E t \in Thread : Decides(p, t) \/ Enters(p, t)
              \/ Locks(p) \/ Refresh(p)
        \/ OperatorRotates \/ Expires

Spec == Init /\ [][Next]_vars

\* Every request has a timeout, and a process that waits in flock is served.
FairSpec == Spec /\ \A p \in Process : WF_vars(Refresh(p)) /\ SF_vars(Locks(p))

-----------------------------------------------------------------------------
(* Properties.                                                             *)

\* Every token that is stored, cached or used was issued by the server.
TypeOK ==
    /\ server \in Answer /\ due \in 0..(MaxGrants + 1)
    /\ env \in Creds /\ cache \in [Process -> Creds]
    /\ up \in [Process -> BOOLEAN]
    /\ lock \in Process \cup {Free}
    /\ want \in [Process -> SUBSET Thread]
    /\ at \in [Process -> Points] /\ by \in [Process -> Thread]
    /\ answer \in [Process -> Answer]
    /\ feed \in [Process -> Token \cup {0}]
    /\ fails \in [Process -> 0..Threshold] 
    /\ lost \in BOOLEAN /\ foreign \in [Process -> BOOLEAN]

\* Between refreshes .env holds the refresh token the server honours, whichever
\* process and thread refreshed last, unless a response was lost on its way to it:
\* a process that starts then can refresh (update_tokens under the file lock).
EnvCurrent == lock = Free /\ ~lost => env.refresh = server.refresh

\* The timer and the feed of one process never work with tokens that the other has
\* replaced: the cache is .env's content until another process writes it
\* (update_tokens "Update cache", TokenLifecycle._lock).
CacheFollowsEnv == \A p \in Process : up[p] /\ ~foreign[p] => cache[p] = env

\* A refresh that got TokenLifecycle's lock ends and gives it back, whatever the
\* server answers and however many processes wait for the file lock
\* (_do_refresh: finally).
RefreshEnds == \A p \in Process : at[p] # "idle" ~> at[p] = "idle"

\* A refresh is never attempted with a refresh token that another process has had
\* replaced ("Process-safe: uses a file lock to prevent concurrent refreshes across
\* processes"; "After acquiring the file lock, re-check if the token was refreshed
\* by another process while we were waiting").  The code does not keep it: see the
\* README.
DeadTokenNeverSent ==
    \A p \in Process : at[p] = "post" /\ ~lost => cache[p].refresh = server.refresh
=============================================================================
