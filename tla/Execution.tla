----------------------------- MODULE Execution -----------------------------
(***************************************************************************)
(* One exploration of a test by the engine (src/src/rt/execution.rs): the *)
(* DPOR scheduler `schedule`, the replay reset `step`, and the driver     *)
(* loop that replays the test until the path is exhausted.                 *)
(*                                                                         *)
(* The test is a program: for each thread slot a sequence of instructions *)
(* (the wrapper calls the engine sees).  Slot 0 is the main closure; a    *)
(* "spawn" gives the next free slot its body.  A spawned body is followed *)
(* by the JoinHandle epilogue: notify its gate, then terminate.           *)
(*                                                                         *)
(* The engine is single-threaded and cooperative: between two suspension *)
(* points the active thread runs alone.  One step of this specification   *)
(* is one such segment: the active thread resumes after its branch, does  *)
(* the rest of the engine call it was suspended in, runs to its next      *)
(* suspension point, records its pending operation and calls `schedule`.  *)
(* The whole exploration of a program is therefore one behaviour; the     *)
(* nondeterminism is the choice of the program in Init.                   *)
(***************************************************************************)
EXTENDS Notify, Condvar, Alloc, FiniteSetsExt, SequencesExt

CONSTANTS
  Programs,   \* set of candidate programs: [Slots -> Seq(Instr)]
  Atoms,      \* ids of the atomics the main closure creates first
  MutexIds,   \* ids of the mutexes it creates
  CondvarIds  \* ids of the condition variables it creates

VARIABLES
  prog,       \* the program under test
  threads, active, seqcst,  \* thread::Set
  path,       \* Path
  atomics, notifies, mutexes, condvars,  \* object::Set
  allocs, raw,              \* allocation objects, raw_allocations
  handles,    \* the test's typed Allocation values: handle -> object
  pc,         \* per slot: 0 = not started, k = suspended at Body[k]
  obs,        \* per slot: the values its loads and rmws returned
  status,     \* "running", "done", or the message the engine panicked with
  explored,   \* history: the outcomes (obs) of the finished replays
  tapes       \* history: the decisions of the finished replays

objects == <<atomics, notifies, mutexes, condvars, allocs, raw, handles>>

vars == <<prog, threads, active, seqcst, path, objects, pc, obs, status,
          explored, tapes>>

AtomObj(a) == [kind |-> "atomic", id |-> a]

(***************************************************************************)
(* A program instruction as the engine calls it: a condvar wait guarded  *)
(* by the test's `if value == 0` is a skip over the calls of             *)
(* Condvar::wait; every other instruction is one call.                   *)
(***************************************************************************)
Calls(ins) ==
  IF ins.op = "cv_wait_if_zero"
  THEN <<[op |-> "skip", when |-> "nonzero", n |-> Len(wait_steps(ins.cv, ins.m))]>>
         \o wait_steps(ins.cv, ins.m)
  ELSE <<ins>>

\* A spawned body ends by notifying its join gate; every body terminates.
Body(t) ==
  FlattenSeq([i \in DOMAIN prog[t] |-> Calls(prog[t][i])]) \o (IF t = 0 THEN <<>> ELSE <<[op |-> "notify", n |-> t]>>) \o <<[op |-> "done"]>>

\* The engine record the component operators work on.
Rec == [threads |-> threads, active |-> active, seqcst |-> seqcst, path |-> path,
        atomics |-> atomics, notifies |-> notifies, mutexes |-> mutexes,
        condvars |-> condvars, allocs |-> allocs, raw |-> raw, handles |-> handles,
        pc |-> pc, obs |-> obs,
        ret |-> None, panic |-> None]

Panic(s, msg) == [s EXCEPT !.panic = msg]

\* The arena of each object kind, and the last dependent access it keeps.
Arena == [atomic |-> "atomics", notify |-> "notifies", mutex |-> "mutexes",
          condvar |-> "condvars"]

LastAccess(s, obj) == s[Arena[obj.kind]][obj.id].last

SetLastAccess(s, obj, acc) == [s EXCEPT ![Arena[obj.kind]][obj.id].last = acc]

(***************************************************************************)
(* Step 1 of schedule: every thread whose pending operation races with    *)
(* the last access to the same object (the access's DPOR clock is not     *)
(* below the thread's) is added as a backtrack point at that access.      *)
(* Backtracking only turns Skip into Pending, so the order does not matter.*)
(***************************************************************************)
Races(s) ==
  {u \in DOMAIN s.threads :
     /\ s.threads[u].op # None
     /\ LastAccess(s, s.threads[u].op.obj) # None
     /\ ~LeqVV(LastAccess(s, s.threads[u].op.obj).dpor, s.threads[u].dpor)}

RECURSIVE BacktrackRaces(_, _)
BacktrackRaces(s, todo) ==
  IF todo = {} THEN s
  ELSE LET u == CHOOSE u \in todo : TRUE
       IN BacktrackRaces([s EXCEPT !.path = backtrack(@, LastAccess(s, s.threads[u].op.obj).pathId, u)],
                         todo \ {u})

\* Step 2: the seed; the current thread is preferred if still runnable.
\* Mutant of Initial: the current thread is kept even when it is blocked.
Initial_KeepActive(s) ==
  IF ~is_terminated(s.threads[s.active]) THEN s.active
  ELSE IF \E u \in DOMAIN s.threads : IsRunnable(s.threads[u])
       THEN Min({u \in DOMAIN s.threads : IsRunnable(s.threads[u])})
       ELSE None

Initial(s) ==
  IF IsRunnable(s.threads[s.active]) THEN s.active
  ELSE IF \E u \in DOMAIN s.threads : IsRunnable(s.threads[u])
       THEN Min({u \in DOMAIN s.threads : IsRunnable(s.threads[u])})
       ELSE None

\* Mutant of Seed: a disabled thread is reported with its thread state.
Seed_ThreadState(s) ==
  [u \in DOMAIN s.threads |->
     IF u = Initial(s) THEN "Active"
     ELSE IF is_yield(s.threads[u]) THEN "Yield"
     ELSE IF ~IsRunnable(s.threads[u]) THEN s.threads[u].state
     ELSE "Skip"]

Seed(s) ==
  [u \in DOMAIN s.threads |->
     IF u = Initial(s) THEN "Active"
     ELSE IF is_yield(s.threads[u]) THEN "Yield"
     ELSE IF ~IsRunnable(s.threads[u]) THEN "Disabled"
     ELSE "Skip"]

\* Step 4: the newly active thread's DPOR clock absorbs the last access of
\* the object it is about to touch, ticks, and becomes that last access.
\* Mutant of RecordAccess: the DPOR clock does not tick.
RecordAccess_NoTick(s, pathId) ==
  LET th  == s.threads[s.active]
      acc == LastAccess(s, th.op.obj)
      d   == IF acc = None THEN th.dpor ELSE JoinVV(th.dpor, acc.dpor)
  IN SetLastAccess([s EXCEPT !.threads[s.active].dpor = d], th.op.obj,
                   [pathId |-> pathId, dpor |-> d])

\* Mutant of RecordAccess: the clock is replaced by the last access's clock.
RecordAccess_Overwrite(s, pathId) ==
  LET th  == s.threads[s.active]
      acc == LastAccess(s, th.op.obj)
      d   == IncVV(IF acc = None THEN th.dpor ELSE acc.dpor, s.active)
  IN SetLastAccess([s EXCEPT !.threads[s.active].dpor = d], th.op.obj,
                   [pathId |-> pathId, dpor |-> d])

RecordAccess(s, pathId) ==
  LET th  == s.threads[s.active]
      acc == LastAccess(s, th.op.obj)
      d   == IncVV(IF acc = None THEN th.dpor ELSE JoinVV(th.dpor, acc.dpor), s.active)
  IN SetLastAccess([s EXCEPT !.threads[s.active].dpor = d], th.op.obj,
                   [pathId |-> pathId, dpor |-> d])

\* Mutant of Reactivate: yielded threads stay in Yield.
Reactivate_None(s) == s

\* Step 5: yielded threads other than the new active one become runnable.
Reactivate(s) ==
  [s EXCEPT !.threads = [u \in DOMAIN @ |->
                           IF is_yield(@[u]) /\ u # s.active
                           THEN set_runnable(@[u]) ELSE @[u]]]

(***************************************************************************)
(* Execution::schedule.  With no thread to run, the replay is over if     *)
(* every thread terminated, and the engine panics with "deadlock" if not.  *)
(***************************************************************************)
schedule(s) ==
  LET s1     == BacktrackRaces(s, Races(s))
      seed   == Seed(s1)
      pathId == s1.path.pos
      next   == ThreadChoice(s1.path, seed)
      s2     == [s1 EXCEPT !.path = branch_thread(@, seed), !.active = next]
  IN IF ~CanBranch(s1.path) THEN Panic(s1, "max_branches")
     ELSE IF ~ReplayKindOk(s1.path, "Schedule") THEN Panic(s1, "path")
     ELSE IF next = None
          THEN IF \A u \in DOMAIN s2.threads : is_terminated(s2.threads[u])
               THEN s2 ELSE Panic(s2, "deadlock")
     ELSE Reactivate(IF s2.threads[next].op # None THEN RecordAccess(s2, pathId) ELSE s2)

(***************************************************************************)
(* The rest of the engine call a thread was suspended in, once it is      *)
(* scheduled again.  Atomic load, store and rmw run inside `synchronize`, *)
(* which first bumps the active thread's own causality entry.             *)
(***************************************************************************)
Read(s, a) == s.atomics[a].history[s.ret + 1].val

Observe(s, v) == [s EXCEPT !.obs[s.active] = Append(@, v)]

Resumed(s, ins) ==
  CASE ins.op = "load" ->
         IF ~CanBranch(s.path) THEN Panic(s, "max_branches")
         ELSE IF ~ReplayKindOk(s.path, "Write") THEN Panic(s, "path")
         ELSE LET s1 == load(active_causality_inc(s), ins.atom, ins.ord)
              IN Observe(s1, Read(s1, ins.atom))
    [] ins.op = "store" -> store(active_causality_inc(s), ins.atom, ins.ord, ins.val)
    [] ins.op = "rmw" ->
         LET s1 == rmw(active_causality_inc(s), ins.atom, ins.ord, ins.fail, ins.f)
         IN Observe(s1, Read(s1, ins.atom))
    [] ins.op = "get_mut" ->
         IF ~happens_before(s, ins.atom)
         THEN Panic(s, "get_mut requires entire history to happen-before current thread")
         ELSE Observe(s, Last(s.atomics[ins.atom].history).val)
    [] ins.op = "join" ->
         IF ~WaitAssertOk(s, ins.child) THEN Panic(s, "notified") ELSE wait(s, ins.child)
    [] ins.op = "notify" -> notify(s, ins.n)
    [] ins.op = "lock" ->
         IF ~CanAcquire(s, ins.m) THEN Panic(s, "expected to be able to acquire lock")
         ELSE acquire_lock(s, ins.m)
    [] ins.op = "unlock" -> release_lock(s, ins.m)
    [] ins.op = "cv_enqueue" -> enqueue(s, ins.cv)
    [] ins.op = "cv_notify_one" -> notify_one(s, ins.cv)
    [] ins.op = "cv_notify_all" -> notify_all(s, ins.cv)
    [] OTHER -> s   \* spawn, yield and park do nothing once resumed

(***************************************************************************)
(* Running to the next suspension point of Body(t), from index k: record  *)
(* the pending operation (or the state change of spawn, yield, join and   *)
(* termination), then call schedule.  A fence is not a suspension point:  *)
(* it runs in `synchronize` and the thread continues.                     *)
(***************************************************************************)
SetOp(s, obj, act) == [s EXCEPT !.threads[s.active].op = [obj |-> obj, act |-> act]]

RECURSIVE Reach(_, _)
Reach(s, k) ==
  LET t   == s.active
      ins == Body(t)[k]
      at  == [s EXCEPT !.pc[t] = k]
  IN CASE ins.op = "fence" ->
            IF ~FenceSupported(ins.order)
            THEN Panic(s, "only Acquire fences are currently supported")
            ELSE Reach(fence(active_causality_inc(s), ins.order), k + 1)
       [] ins.op \in {"load", "store", "rmw", "get_mut"} ->
            schedule(SetOp(at, AtomObj(ins.atom),
                           CASE ins.op = "load" -> "Load" [] ins.op = "store" -> "Store"
                             [] OTHER -> "Rmw"))
       [] ins.op = "spawn" ->
            IF ~CanSpawn(at) THEN Panic(at, "max_threads") ELSE schedule(new_thread(at))
       [] ins.op = "yield" -> schedule([at EXCEPT !.threads[t] = set_yield(@, t)])
       [] ins.op = "join" -> schedule(WaitBranch(at, ins.child))
       [] ins.op = "notify" -> schedule(SetOp(at, NotifyObj(ins.n), "Opaque"))
       [] ins.op = "release" -> Reach(release_lock(s, ins.m), k + 1)
       [] ins.op = "new_atomic" ->
            Reach([s EXCEPT !.atomics[ins.atom] = NewAtomic(s, 0)], k + 1)
       [] ins.op = "alloc" ->
            IF AlreadyTracked(s, ins.p) THEN Panic(alloc(s, ins.p), "pointer already tracked")
            ELSE Reach(alloc(s, ins.p), k + 1)
       [] ins.op = "dealloc" ->
            IF Untracked(s, ins.p) THEN Panic(s, "pointer not tracked")
            ELSE Reach(dealloc(s, ins.p), k + 1)
       [] ins.op = "new_allocation" -> Reach(Allocation_new(s, ins.h), k + 1)
       [] ins.op = "drop_allocation" -> Reach(Allocation_drop(s, ins.h), k + 1)
       [] ins.op = "skip" ->
            Reach(s, k + 1 + (IF (Last(s.obs[t]) = 0) = (ins.when = "zero") THEN ins.n ELSE 0))
       [] ins.op = "lock" -> schedule(LockBranch(at, ins.m))
       [] ins.op = "unlock" -> schedule(SetOp(at, MutexObj(ins.m), "Opaque"))
       [] ins.op \in {"cv_enqueue", "cv_notify_one", "cv_notify_all"} ->
            schedule(SetOp(at, CondvarObj(ins.cv), "Opaque"))
       [] ins.op = "park" -> schedule(park(at))
       [] ins.op = "done" -> schedule([at EXCEPT !.threads[t] = set_terminated(@)])

\* Segment: resume the active thread, clear its pending operation, run on.
Segment(t) ==
  LET s0 == Rec
      s1 == IF pc[t] = 0 THEN s0 ELSE Resumed(s0, Body(t)[pc[t]])
      s2 == [s1 EXCEPT !.threads[t].op = None]
  IN IF s1.panic # None THEN s1 ELSE Reach(s2, pc[t] + 1)

Unpack(s) ==
  /\ threads' = s.threads
  /\ active' = s.active
  /\ seqcst' = s.seqcst
  /\ path' = s.path
  /\ atomics' = s.atomics
  /\ notifies' = s.notifies
  /\ mutexes' = s.mutexes
  /\ condvars' = s.condvars
  /\ allocs' = s.allocs
  /\ raw' = s.raw
  /\ handles' = s.handles
  /\ pc' = s.pc
  /\ obs' = s.obs

Run ==
  /\ status = "running"
  /\ active # None
  /\ LET s == Segment(active)
     IN /\ Unpack(s)
        /\ status' = IF s.panic = None THEN "running" ELSE s.panic
  /\ UNCHANGED <<prog, explored, tapes>>

(***************************************************************************)
(* Replay start: the thread set holds the root thread alone, the main     *)
(* closure has created the atomics (initial value 0), and each potential  *)
(* child has its join gate (JoinHandle uses a SeqCst Notify).             *)
(***************************************************************************)
ChildSlots == Slots \ {0}

Fresh(p) ==
  LET s == [threads |-> RootThreads, active |-> 0, seqcst |-> ZeroVV]
  IN [threads |-> s.threads, active |-> 0, seqcst |-> ZeroVV, path |-> p,
      atomics |-> [a \in Atoms |-> NewAtomic(s, 0)],
      notifies |-> [n \in ChildSlots |-> NewNotify(TRUE)],
      mutexes |-> [m \in MutexIds |-> NewMutex],
      condvars |-> [c \in CondvarIds |-> NewCondvar],
      allocs |-> <<>>, raw |-> [q \in {} |-> 0], handles |-> [q \in {} |-> 0],
      pc |-> [u \in Slots |-> 0], obs |-> [u \in Slots |-> <<>>]]

\* The decisions a finished replay took: thread per Schedule, store per Write.
Decisions(p) ==
  [i \in DOMAIN p.branches |->
     IF p.branches[i].kind = "Schedule" THEN ActiveOf(p.branches[i].threads)
     ELSE p.branches[i].writes[1]]

(***************************************************************************)
(* The driver after the closure returned.  An allocation object not      *)
(* dropped is a leak, and the replay panics.  Otherwise Execution::step   *)
(* clears the objects, advances the path, and resets the threads;         *)
(* exploration ends when the path has nothing left.                       *)
(***************************************************************************)
Leaked ==
  /\ ~check_for_leaks(Rec)
  /\ status' = "object leaked"
  /\ UNCHANGED <<threads, active, seqcst, path, objects, pc, obs, explored, tapes>>

Replayed ==
  /\ check_for_leaks(Rec)
  /\ explored' = explored \cup {obs}
  /\ tapes' = tapes \cup {Decisions(path)}
  /\ LET r == step(path) IN
       IF r.more
       THEN Unpack(Fresh(r.path)) /\ UNCHANGED status
       ELSE /\ status' = "done"
            /\ path' = r.path
            /\ UNCHANGED <<threads, active, seqcst, objects, pc, obs>>

NextReplay ==
  /\ status = "running"
  /\ active = None
  /\ Leaked \/ Replayed
  /\ UNCHANGED prog

Init ==
  /\ prog \in Programs
  /\ status = "running"
  /\ explored = {}
  /\ tapes = {}
  /\ LET s == Fresh(NewPath(PreemptionBound)) IN
       /\ threads = s.threads
       /\ active = s.active
       /\ seqcst = s.seqcst
       /\ path = s.path
       /\ atomics = s.atomics
       /\ notifies = s.notifies
       /\ mutexes = s.mutexes
       /\ condvars = s.condvars
       /\ allocs = s.allocs
       /\ raw = s.raw
       /\ handles = s.handles
       /\ pc = s.pc
       /\ obs = s.obs

(***************************************************************************)
(* Type invariant: the shapes of the thread set, the tape and the object  *)
(* arenas.  lastYield is an atomic version, never a whole clock.          *)
(***************************************************************************)
ThreadOK(th) ==
  /\ th.state \in ThreadStates
  /\ th.causality \in [Slots -> Nat] /\ th.dpor \in [Slots -> Nat]
  /\ th.lastYield \in Nat \cup {None}
  /\ th.yieldCount \in Nat

BranchOK(b) ==
  \/ b.kind = "Schedule" /\ \A i \in DOMAIN b.threads : b.threads[i] \in Status
  \/ b.kind = "Write" /\ b.writes # <<>>

TypeOK ==
  /\ DOMAIN threads \subseteq Slots /\ 0 \in DOMAIN threads
  /\ \A u \in DOMAIN threads : ThreadOK(threads[u])
  /\ active \in DOMAIN threads \cup {None}
  /\ seqcst \in [Slots -> Nat]
  /\ path.pos \in 0 .. Len(path.branches) /\ Len(path.branches) <= MaxBranches
  /\ \A i \in DOMAIN path.branches : BranchOK(path.branches[i])
  /\ \A a \in Atoms : atomics[a].history # <<>>
  /\ pc \in [Slots -> Nat] /\ obs \in [Slots -> Seq(Nat)]
  /\ \A m \in MutexIds : mutexes[m].owner \in DOMAIN threads \cup {None}
  /\ \A c \in CondvarIds : condvars[c].waiters \in Seq(DOMAIN threads)

Next == Run \/ NextReplay

(***************************************************************************)
(* Spec is the safety part.  FairSpec adds that the driver, one           *)
(* deterministic loop, keeps taking its next step.                        *)
(* This is weak fairness of Next, with ENABLED <<Next>>_vars written as   *)
(* the state predicate it equals: while running, Run is enabled when a    *)
(* thread is active, and when none is, Leaked or Replayed is (one of them  *)
(* holds whatever check_for_leaks says).                                   *)
(***************************************************************************)
Running == status = "running"

Spec == Init /\ [][Next]_vars

FairSpec == Spec /\ (<>[]Running => []<><<Next>>_vars)

=============================================================================
