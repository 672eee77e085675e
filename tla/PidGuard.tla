------------------------------ MODULE PidGuard ------------------------------
(***************************************************************************)
(* The single-instance guard of the forward-test launcher                  *)
(* (adapters/ctrader/pid_guard.py).  A process opens the PID file, takes   *)
(* flock on it, writes its PID, works, unlocks and only then unlinks the   *)
(* path.  One action is one system call, because every pair of calls of    *)
(* two processes may interleave.  flock belongs to the open file, that is  *)
(* to the inode; the path names at most one inode at a time.               *)
(***************************************************************************)
EXTENDS Naturals

CONSTANTS Proc,         \* processes; a process is its own PID
          Inode,        \* inodes the file system may create
          Nil,          \* no process, no inode, no PID
          MaxTries      \* the literal 3 of _acquire

ASSUME NilAssumption == Nil \notin Proc /\ Nil \notin Inode
ASSUME TriesAssumption == MaxTries \in Nat \ {0}

VARIABLES
    path,     \* the inode the path names, or Nil
    made,     \* inodes created so far
    lock,     \* per inode: the process whose open file holds the flock
    content,  \* per inode: the PID in the file, Nil when empty
    pc,       \* per process: its next system call
    fd,       \* per process: the inode it has open
    seen,     \* per process: existing_pid
    attempt   \* per process: attempt

guardVars == <<path, made, lock, content, pc, fd, seen, attempt>>

\* Between __enter__ and __exit__: "only one process can be here".
CriticalPC == {"held", "writing", "running"}
\* Program points at which the process owns the lock on fd.
LockedPC == CriticalPC \cup {"clear_trunc", "clear_unlock"}
GonePC == {"off", "exited", "refused", "dead"}
PC == LockedPC \cup GonePC \cup
      {"open", "flock", "read", "judge", "clear_open", "clear_flock", "unlink"}

GuardInit == /\ path = Nil
             /\ made = {}
             /\ lock = [i \in Inode |-> Nil]
             /\ content = [i \in Inode |-> Nil]
             /\ pc = [p \in Proc |-> "off"]
             /\ fd = [p \in Proc |-> Nil]
             /\ seen = [p \in Proc |-> Nil]
             /\ attempt = [p \in Proc |-> 0]

Goto(p, l) == pc' = [pc EXCEPT ![p] = l]

\* os.open(path, O_RDWR | O_CREAT): the named inode, or a new one.
OpenFile(p) ==
    \/ /\ path # Nil
       /\ fd' = [fd EXCEPT ![p] = path]
       /\ UNCHANGED <<path, made>>
    \/ /\ path = Nil
       /\ \E i \in Inode \ made :
             /\ path' = i
             /\ made' = made \cup {i}
             /\ fd' = [fd EXCEPT ![p] = i]

\* The launcher reaches acquire_pid_lock.
Start(p) == /\ pc[p] = "off"
            /\ Goto(p, "open")
            /\ UNCHANGED <<path, made, lock, content, fd, seen, attempt>>

\* attempt += 1, then os.open.
Open(p) == /\ pc[p] = "open"
           /\ OpenFile(p)
           /\ attempt' = [attempt EXCEPT ![p] = @ + 1]
           /\ Goto(p, "flock")
           /\ UNCHANGED <<lock, content, seen>>

\* Mutant: a shared lock, granted whoever holds the file.
FlockShared(p) == /\ pc[p] = "flock"
                  /\ lock' = [lock EXCEPT ![fd[p]] = p]
                  /\ Goto(p, "held")
                  /\ UNCHANGED <<path, made, content, fd, seen, attempt>>

\* flock(LOCK_EX | LOCK_NB) succeeds.
FlockOk(p) == /\ pc[p] = "flock"
              /\ lock[fd[p]] = Nil
              /\ lock' = [lock EXCEPT ![fd[p]] = p]
              /\ Goto(p, "held")
              /\ UNCHANGED <<path, made, content, fd, seen, attempt>>

\* flock(LOCK_EX | LOCK_NB) raises BlockingIOError.
FlockBusy(p) == /\ pc[p] = "flock"
                /\ lock[fd[p]] # Nil
                /\ Goto(p, "read")
                /\ UNCHANGED <<path, made, lock, content, fd, seen, attempt>>

\* existing_pid = int(os.read(...)), Nil when empty; then os.close(fd).
ReadPid(p) == /\ pc[p] = "read"
              /\ seen' = [seen EXCEPT ![p] = content[fd[p]]]
              /\ fd' = [fd EXCEPT ![p] = Nil]
              /\ Goto(p, "judge")
              /\ UNCHANGED <<path, made, lock, content, attempt>>

\* _is_pid_alive: os.kill(pid, 0).
IsPidAlive(q) == pc[q] \notin GonePC

\* A live PID in the file: sys.exit(1).
Refuse(p) == /\ pc[p] = "judge"
             /\ seen[p] # Nil
             /\ IsPidAlive(seen[p])
             /\ Goto(p, "refused")
             /\ UNCHANGED <<path, made, lock, content, fd, seen, attempt>>

\* No PID or a dead one: the lock counts as stale, _force_clear_stale is called.
JudgeStale(p) == /\ pc[p] = "judge"
                 /\ seen[p] # Nil => ~IsPidAlive(seen[p])
                 /\ Goto(p, "clear_open")
                 /\ UNCHANGED <<path, made, lock, content, fd, seen, attempt>>

ClearOpen(p) == /\ pc[p] = "clear_open"
                /\ OpenFile(p)
                /\ Goto(p, "clear_flock")
                /\ UNCHANGED <<lock, content, seen, attempt>>

\* Mutant: the clearer truncates without waiting for the lock.
ClearFlockNoWait(p) == /\ pc[p] = "clear_flock"
                       /\ Goto(p, "clear_trunc")
                       /\ UNCHANGED <<path, made, lock, content, fd, seen, attempt>>

\* flock(LOCK_EX): blocks until the holder lets go.
ClearFlock(p) == /\ pc[p] = "clear_flock"
                 /\ lock[fd[p]] = Nil
                 /\ lock' = [lock EXCEPT ![fd[p]] = p]
                 /\ Goto(p, "clear_trunc")
                 /\ UNCHANGED <<path, made, content, fd, seen, attempt>>

ClearTruncate(p) == /\ pc[p] = "clear_trunc"
                    /\ content' = [content EXCEPT ![fd[p]] = Nil]
                    /\ Goto(p, "clear_unlock")
                    /\ UNCHANGED <<path, made, lock, fd, seen, attempt>>

\* attempt >= 3.
GiveUp(p) == attempt[p] >= MaxTries

\* Mutant: the clearer retries without closing its descriptor.
ClearUnlockLeak(p) == /\ pc[p] = "clear_unlock"
                      /\ Goto(p, IF GiveUp(p) THEN "exited" ELSE "open")
                      /\ UNCHANGED <<path, made, lock, content, fd, seen, attempt>>

\* flock(LOCK_UN), os.close, then sys.exit(1) after the last attempt or retry.
ClearUnlock(p) == /\ pc[p] = "clear_unlock"
                  /\ lock' = [lock EXCEPT ![fd[p]] = Nil]
                  /\ fd' = [fd EXCEPT ![p] = Nil]
                  /\ Goto(p, IF GiveUp(p) THEN "exited" ELSE "open")
                  /\ UNCHANGED <<path, made, content, seen, attempt>>

\* write_pid, first half: lseek and ftruncate.
TruncatePid(p) == /\ pc[p] = "held"
                  /\ content' = [content EXCEPT ![fd[p]] = Nil]
                  /\ Goto(p, "writing")
                  /\ UNCHANGED <<path, made, lock, fd, seen, attempt>>

\* write_pid, second half: os.write.
WritePid(p) == /\ pc[p] = "writing"
               /\ content' = [content EXCEPT ![fd[p]] = p]
               /\ Goto(p, "running")
               /\ UNCHANGED <<path, made, lock, fd, seen, attempt>>

\* _release, first half: the main work is over; flock(LOCK_UN), os.close.
Unlock(p) == /\ pc[p] = "running"
             /\ lock' = [lock EXCEPT ![fd[p]] = Nil]
             /\ fd' = [fd EXCEPT ![p] = Nil]
             /\ Goto(p, "unlink")
             /\ UNCHANGED <<path, made, content, seen, attempt>>

\* _release, second half: self._path.unlink(missing_ok=True), whatever inode
\* the path names by now.
Unlink(p) == /\ pc[p] = "unlink"
             /\ path' = Nil
             /\ Goto(p, "exited")
             /\ UNCHANGED <<made, lock, content, fd, seen, attempt>>

\* SIGKILL or power loss of one process: the kernel closes its files and so
\* frees its lock; nothing unlinks the path.
Crash(p) == /\ pc[p] \notin GonePC
            /\ lock' = [i \in Inode |-> IF lock[i] = p THEN Nil ELSE lock[i]]
            /\ fd' = [fd EXCEPT ![p] = Nil]
            /\ Goto(p, "dead")
            /\ UNCHANGED <<path, made, content, seen, attempt>>

\* The steps a live process takes by itself once it has been started, its main
\* work (which may last for ever) excepted.
Step(p) == \/ Open(p)       \/ FlockOk(p)       \/ FlockBusy(p)
           \/ ReadPid(p)    \/ Refuse(p)        \/ JudgeStale(p)
           \/ ClearOpen(p)  \/ ClearFlock(p)    \/ ClearTruncate(p)
           \/ ClearUnlock(p) \/ TruncatePid(p)  \/ WritePid(p)
           \/ Unlink(p)

GuardNext == \E p \in Proc : Start(p) \/ Step(p) \/ Unlock(p) \/ Crash(p)

GuardSpec == GuardInit /\ [][GuardNext]_guardVars

\* The operating system schedules every live process; a blocked flock is
\* granted when it stays free.
FairGuardSpec == GuardSpec /\ \A p \in Proc : WF_guardVars(Step(p))

-----------------------------------------------------------------------------
Critical(p) == pc[p] \in CriticalPC

GuardTypeOK == /\ path \in Inode \cup {Nil}
               /\ made \in SUBSET Inode
               /\ lock \in [Inode -> Proc \cup {Nil}]
               /\ content \in [Inode -> Proc \cup {Nil}]
               /\ pc \in [Proc -> PC]
               /\ fd \in [Proc -> Inode \cup {Nil}]
               /\ seen \in [Proc -> Proc \cup {Nil}]
               /\ attempt \in [Proc -> 0 .. MaxTries]

\* A process that owns the lock has its file open, and the kernel records it.
LockOwned == \A p \in Proc : pc[p] \in LockedPC =>
                fd[p] \in Inode /\ lock[fd[p]] = p

\* What the code does guarantee (write_pid, _force_clear_stale): once a process
\* has written its PID, the file it has locked keeps that PID until it unlocks;
\* no other starter's clearing or writing reaches it.
RunnerPidIntact == \A p \in Proc : pc[p] = "running" => content[fd[p]] = p

\* What the code does guarantee (flock in _acquire): two processes are never
\* inside the guarded section on the same file.
SoleHolderPerFile ==
    \A p, q \in Proc : Critical(p) /\ Critical(q) /\ fd[p] = fd[q] => p = q

\* pid_guard.py promises "only one process can be here": no two processes are
\* inside the guarded section, whatever file they locked.
OnlyOneProcess == \A p, q \in Proc : Critical(p) /\ Critical(q) => p = q

\* Every started process settles: it runs, is gone, or waits for ever in
\* _force_clear_stale behind a process that is running (the three attempts of
\* _acquire rule out that two starters clear each other's locks for ever).
Settled(p) == \/ pc[p] \in GonePC \cup {"running"}
              \/ /\ pc[p] = "clear_flock"
                 /\ \E q \in Proc : lock[fd[p]] = q /\ pc[q] = "running"
StartersSettle == <>[](\A p \in Proc : Settled(p))
=============================================================================
