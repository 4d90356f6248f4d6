---------------------------- MODULE MCBlocking ----------------------------
(***************************************************************************)
(* Test programs with a mutex and a condition variable: the mutual        *)
(* exclusion and condvar tests of spec section 8, run by the Execution    *)
(* model, and the properties checked of their exploration.                 *)
(***************************************************************************)
EXTENDS MCExecution

M == 1
C == 1
BlockingMutexes == {M}
BlockingCondvars == {C}

\* Instructions: the mutex and condvar calls a test's wrappers make.
Lock(m)              == [op |-> "lock", m |-> m]
Unlock(m)            == [op |-> "unlock", m |-> m]
CvWaitIfZero(c, m)   == [op |-> "cv_wait_if_zero", cv |-> c, m |-> m]
CvNotifyOne(c)       == [op |-> "cv_notify_one", cv |-> c]
CvNotifyAll(c)       == [op |-> "cv_notify_all", cv |-> c]

(***************************************************************************)
(* mutex_mutual_exclusion (spec 8.3): each child increments the counter X *)
(* under M k times, each time as a Relaxed load then a store of its own   *)
(* id.  Main either returns at once or joins both and reads the counter.  *)
(***************************************************************************)
Inc(u) == <<Lock(M), Ld(X, "Relaxed"), St(X, "Relaxed", u), Unlock(M)>>

Incs(u, k) == FlattenSeq([i \in 1..k |-> Inc(u)])

CounterMains == {<<>>, <<Join(1), Join(2), Ld(X, "Relaxed")>>}

CounterPrograms == {Two(Inc(1), Inc(2), m) : m \in CounterMains}

Counter2Programs == {Two(Incs(1, k), Incs(2, k), m) : m \in CounterMains, k \in {2, 3}}

\* The number of critical sections of each child.
Sections(p) == Len(p[1]) \div Len(Inc(1))

\* A serial order of the critical sections: which child runs the i-th.
SerialOrders(k) == {o \in [1..2 * k -> {1, 2}] : Cardinality({i \in DOMAIN o : o[i] = 1}) = k}

\* The switches of o away from a child that still has sections to run.
Preemptions(o) ==
  {i \in 1 .. Len(o) - 1 : o[i] # o[i + 1] /\ \E j \in i + 2 .. Len(o) : o[j] = o[i]}

(***************************************************************************)
(* The outcome of a serial order o: each critical section reads the id    *)
(* the one before it stored (0 for the first), and main, if it reads, the *)
(* id of the last.                                                         *)
(***************************************************************************)
Serial(p, o) ==
  LET Prev(i) == IF i = 1 THEN 0 ELSE o[i - 1]
      Mine(u) == SetToSortSeq({i \in DOMAIN o : o[i] = u}, <)
  IN [u \in Slots |-> CASE u \in {1, 2} -> [j \in DOMAIN Mine(u) |-> Prev(Mine(u)[j])]
                         [] u = 0 /\ Len(p[0]) > 2 -> <<o[Len(o)]>>
                         [] OTHER -> <<>>]

SerialOutcomes(p) == {Serial(p, o) : o \in SerialOrders(Sections(p))}

\* The outcomes of the serial orders with at most one preemption.
OnePreemptionOutcomes(p) ==
  {Serial(p, o) : o \in {o2 \in SerialOrders(Sections(p)) : Cardinality(Preemptions(o2)) <= 1}}

(***************************************************************************)
(* Preemption-bounded DPOR with bound 1 (path.rs 210-234): every replay   *)
(* is a serial order of the critical sections, and once the exploration   *)
(* is done it has found every serial order that needs at most one         *)
(* preemption, such as 1 2 2 1 with two sections per child.  The normal  *)
(* backtrack points alone miss 2 1 1 2; the conservative point added at   *)
(* the latest schedule whose active thread changed recovers it.           *)
(***************************************************************************)
BoundedDporFindsOrders ==
  /\ status \in {"running", "done"}
  /\ explored \subseteq SerialOutcomes(prog)
  /\ status = "done" => OnePreemptionOutcomes(prog) \subseteq explored

(***************************************************************************)
(* condvar_signal (spec 8.4): a consumer holds M, reads the flag X and    *)
(* waits on C while it is 0, then reads it again; a producer sets the     *)
(* flag under M and notifies, inside or after the critical section.      *)
(* With notify_all, two consumers wait for one producer.                  *)
(***************************************************************************)
Consumer == <<Lock(M), Ld(X, "Relaxed"), CvWaitIfZero(C, M), Ld(X, "Relaxed"), Unlock(M)>>

Producers(wake) ==
  { <<Lock(M), St(X, "Relaxed", 1), wake, Unlock(M)>>,
    <<Lock(M), St(X, "Relaxed", 1), Unlock(M), wake>> }

OneConsumer == {Two(Consumer, pr, <<>>) : pr \in Producers(CvNotifyOne(C))}

TwoConsumers ==
  {[u \in Slots |-> CASE u = 0 -> <<Spawn, Spawn, Spawn>>
                      [] u = 3 -> pr
                      [] u \in {1, 2} -> Consumer
                      [] OTHER -> <<>>] : pr \in Producers(CvNotifyAll(C))}

CondvarPrograms == OneConsumer \cup TwoConsumers

Consumers == {u \in Slots : prog[u] = Consumer}

CounterAllPrograms == CounterPrograms \cup Counter2Programs

BlockingPrograms == CounterAllPrograms \cup CondvarPrograms

(***************************************************************************)
(* Spec 8.3, mutex_mutual_exclusion: no replay panics (no deadlock, and a *)
(* thread the mutex woke always finds it free), every replay produces the *)
(* outcome of a serial order of the critical sections (no update is lost, *)
(* none is read twice), and the exploration finds every order.  It rests on *)
(* the scheduler never running a thread blocked on the mutex and on DPOR  *)
(* seeing the race between the two lock calls (execution.rs schedule).    *)
(***************************************************************************)
CounterSerial ==
  prog \in CounterPrograms \cup Counter2Programs =>
    /\ status \in {"running", "done"}
    /\ explored \subseteq SerialOutcomes(prog)
    /\ status = "done" => explored = SerialOutcomes(prog)

(***************************************************************************)
(* Spec 8.4, condvar_signal: no replay deadlocks, every consumer reads    *)
(* the flag set in its last load, and the exploration includes a replay   *)
(* in which a consumer found the flag clear and waited (condvar.rs wait,  *)
(* notify_one, notify_all).                                                *)
(***************************************************************************)
CondvarSignalDelivered ==
  prog \in CondvarPrograms =>
    /\ status \in {"running", "done"}
    /\ \A o \in explored : \A u \in Consumers : Last(o[u]) = 1
    /\ status = "done" => \E o \in explored : \E u \in Consumers : o[u][1] = 0

(***************************************************************************)
(* Spec section 3: a thread in a condvar's waiter queue is Blocked and    *)
(* has released the mutex.  Condvar::wait pushes the waiter, releases the *)
(* mutex and parks without a suspension point in between; a notify that  *)
(* ran in such a gap would pop a thread not yet parked, and the wakeup    *)
(* would be lost (condvar.rs lines 41-48).                                *)
(***************************************************************************)
CondvarWaitersParked ==
  \A c \in CondvarIds : \A i \in DOMAIN condvars[c].waiters :
     LET u == condvars[c].waiters[i]
     IN /\ threads[u].state = "Blocked"
        /\ \A m \in MutexIds : mutexes[m].owner # u

=============================================================================
