------------------------------ MODULE ThreadSet ------------------------------
(***************************************************************************)
(* The thread set of one replay (src/src/rt/thread.rs) and the thread     *)
(* operations of the execution that use it (execution.rs new_thread).      *)
(*                                                                         *)
(* The operators work on an engine record s with the fields               *)
(*   threads : [0..n-1 -> Thread]   the `threads` vector                   *)
(*   active  : a slot or None       Set::active                            *)
(*   seqcst  : a version vector     Set::seq_cst_causality                 *)
(* A Thread is [state, op, causality, dpor, lastYield, yieldCount]; the    *)
(* `critical` flag is left out: nothing in the engine reads it.            *)
(***************************************************************************)
EXTENDS VersionVec, Path, FiniteSets

ThreadStates == {"Runnable", "Blocked", "Yield", "Terminated"}

\* Thread::new
NewThread == [state |-> "Runnable", op |-> None, causality |-> ZeroVV,
              dpor |-> ZeroVV, lastYield |-> None, yieldCount |-> 0]

IsRunnable(th) == th.state = "Runnable"

\* Thread::is_blocked, is_yield and is_terminated.
is_blocked(th) == th.state = "Blocked"
is_yield(th) == th.state = "Yield"
is_terminated(th) == th.state = "Terminated"

\* Thread::set_runnable, set_blocked and set_terminated.
set_runnable(th) == [th EXCEPT !.state = "Runnable"]
set_blocked(th) == [th EXCEPT !.state = "Blocked"]
set_terminated(th) == [th EXCEPT !.state = "Terminated"]

\* Thread::unpark: join the unparker's causality; a blocked or yielded
\* thread becomes runnable.
ThreadUnpark(th, unparker) ==
  LET th1 == [th EXCEPT !.causality = JoinVV(@, unparker.causality)]
  IN IF is_blocked(th1) \/ is_yield(th1) THEN set_runnable(th1) ELSE th1

\* Thread::set_yield: remembers the atomic version at which it yielded.
set_yield(th, self) ==
  [th EXCEPT !.state = "Yield", !.lastYield = th.causality[self], !.yieldCount = @ + 1]

\* Set::active_causality_inc
active_causality_inc(s) ==
  [s EXCEPT !.threads[s.active].causality = IncVV(@, s.active)]

\* Set::active_atomic_version
ActiveAtomicVersion(s) == s.threads[s.active].causality[s.active]

\* Set::unpark: unparking oneself does nothing.
unpark(s, id) ==
  IF id = s.active THEN s
  ELSE [s EXCEPT !.threads[id] = ThreadUnpark(@, s.threads[s.active])]

\* Mutant of seq_cst: the thread takes the seq-cst clock instead of joining it.
seq_cst_Assign(s) ==
  [s EXCEPT !.threads[s.active].causality = s.seqcst,
            !.seqcst = JoinVV(@, s.threads[s.active].causality)]

\* Set::seq_cst: the active causality and the seq-cst causality join both ways.
seq_cst(s) ==
  LET c == JoinVV(s.threads[s.active].causality, s.seqcst)
  IN [s EXCEPT !.threads[s.active].causality = c, !.seqcst = JoinVV(@, c)]

\* Set::new_thread's assertion: threads.len() < max.
CanSpawn(s) == Cardinality(DOMAIN s.threads) < MaxThreads

\* Set::new_thread: push a fresh thread at the next slot.
push_thread(ths) ==
  [u \in 0 .. Cardinality(DOMAIN ths) |-> IF u \in DOMAIN ths THEN ths[u] ELSE NewThread]

(***************************************************************************)
(* Execution::new_thread: push a thread that inherits the active thread's *)
(* causality and DPOR clock, then bump its own causality entry.            *)
(***************************************************************************)
new_thread(s) ==
  LET id  == Cardinality(DOMAIN s.threads)
      par == s.threads[s.active]
  IN [s EXCEPT !.threads = [push_thread(@) EXCEPT
                              ![id].causality = IncVV(JoinVV(@, par.causality), id),
                              ![id].dpor = JoinVV(@, par.dpor)]]

\* Set::clear followed by the root thread: a replay starts with slot 0 only.
RootThreads == [u \in {0} |-> NewThread]

=============================================================================
