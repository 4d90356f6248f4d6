------------------------------- MODULE Mutex -------------------------------
(***************************************************************************)
(* The engine's mutex (rt/mutex.rs, not among the sources: modelled from  *)
(* spec sections 3, 4.6 and 5).  The engine record s carries               *)
(*   mutexes : [MutexIds -> [owner, sync, last]]                           *)
(* A thread waiting for the lock registers its intent as its pending      *)
(* operation on the mutex; the `waiters` of the spec are those threads.   *)
(* `lock` and `unlock` are suspension points (spec section 5): the part   *)
(* before the branch lives in Execution, the part after it is here.       *)
(***************************************************************************)
EXTENDS Atomic

NewMutex == [owner |-> None, sync |-> ZeroVV, last |-> None]

MutexObj(m) == [kind |-> "mutex", id |-> m]

\* The other threads whose pending operation is on mutex m.
MutexWaiters(s, m) ==
  {u \in DOMAIN s.threads \ {s.active} :
     s.threads[u].op # None /\ s.threads[u].op.obj = MutexObj(m)}

SetStates(s, us, st) ==
  [s EXCEPT !.threads = [u \in DOMAIN @ |->
                           IF u \in us THEN [@[u] EXCEPT !.state = st] ELSE @[u]]]

(***************************************************************************)
(* lock before its branch: the thread registers its intent and, when the  *)
(* mutex is held, is blocked so that the scheduler does not pick it.      *)
(***************************************************************************)
LockBranch(s, m) ==
  [s EXCEPT !.threads[s.active].op = [obj |-> MutexObj(m), act |-> "Opaque"],
            !.threads[s.active].state = IF s.mutexes[m].owner # None THEN "Blocked" ELSE @]

\* lock after its branch: the mutex must be free ("expected to be able to
\* acquire lock"); the thread takes it, acquires from its Synchronize, and
\* blocks every other thread that is waiting for it.
CanAcquire(s, m) == s.mutexes[m].owner = None

acquire_lock(s, m) ==
  LET s1 == sync_load([s EXCEPT !.mutexes[m].owner = s.active], s.mutexes[m].sync, "Acquire")
  IN SetStates(s1, MutexWaiters(s1, m), "Blocked")

(***************************************************************************)
(* release_lock: no branch of its own; it frees the mutex, releases into  *)
(* its Synchronize and makes the threads waiting for it runnable again.   *)
(***************************************************************************)
release_lock(s, m) ==
  LET s1 == [s EXCEPT !.mutexes[m].owner = None,
                      !.mutexes[m].sync = SyncStoreVV(s, @, "Release")]
  IN SetStates(s1, MutexWaiters(s1, m), "Runnable")

=============================================================================
