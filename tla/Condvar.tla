------------------------------ MODULE Condvar ------------------------------
(***************************************************************************)
(* Condition variables (src/src/rt/condvar.rs).  The engine record s      *)
(* carries  condvars : [CondvarIds -> [waiters : Seq(slot), last]].        *)
(* Each call starts with `branch_opaque`, the suspension point; the part  *)
(* after the branch is an operator here.                                  *)
(***************************************************************************)
EXTENDS Mutex

\* Condvar::new
NewCondvar == [waiters |-> <<>>, last |-> None]

CondvarObj(c) == [kind |-> "condvar", id |-> c]

(***************************************************************************)
(* Condvar::wait, as the sequence of engine calls the waiting thread      *)
(* makes: branch_opaque and push itself as a waiter; release_lock (no     *)
(* branch); rt::park (blocked, a suspension point); acquire_lock (lock).  *)
(***************************************************************************)
\* Mutant of wait_steps: a scheduling point between release_lock and park.
wait_steps_YieldBeforePark(c, m) ==
  << [op |-> "cv_enqueue", cv |-> c], [op |-> "release", m |-> m], [op |-> "yield"],
     [op |-> "park"], [op |-> "lock", m |-> m] >>

wait_steps(c, m) ==
  << [op |-> "cv_enqueue", cv |-> c], [op |-> "release", m |-> m],
     [op |-> "park"], [op |-> "lock", m |-> m] >>

\* Condvar::wait after its branch: track the current thread as a waiter.
enqueue(s, c) == [s EXCEPT !.condvars[c].waiters = Append(@, s.active)]

\* rt::park: the active thread is disabled until some thread unparks it.
park(s) == [s EXCEPT !.threads[s.active] = set_blocked(@)]

\* Condvar::notify_one after its branch: pop the first waiter and unpark it.
\* Mutant of notify_one: the waiter is popped but not unparked.
notify_one_NoUnpark(s, c) ==
  IF s.condvars[c].waiters = <<>> THEN s
  ELSE [s EXCEPT !.condvars[c].waiters = Tail(@)]

notify_one(s, c) ==
  IF s.condvars[c].waiters = <<>> THEN s
  ELSE unpark([s EXCEPT !.condvars[c].waiters = Tail(@)], Head(s.condvars[c].waiters))

\* Condvar::notify_all after its branch: drain the queue, unparking each.
RECURSIVE UnparkAll(_, _)
UnparkAll(s, ws) == IF ws = <<>> THEN s ELSE UnparkAll(unpark(s, Head(ws)), Tail(ws))

notify_all(s, c) ==
  UnparkAll([s EXCEPT !.condvars[c].waiters = <<>>], s.condvars[c].waiters)

=============================================================================
