---------------------------- MODULE MCExecution ----------------------------
(***************************************************************************)
(* Test programs for the Execution model, and the properties checked of   *)
(* their exploration.  The programs are the litmus tests of spec section  *)
(* 8 and of tests/atomic.rs, written in the engine's instruction set.     *)
(***************************************************************************)
EXTENDS Execution

\* Instructions: the engine calls a test's wrappers make.
Ld(a, o)    == [op |-> "load", atom |-> a, ord |-> o]
St(a, o, v) == [op |-> "store", atom |-> a, ord |-> o, val |-> v]
Rmw(a, o)   == [op |-> "rmw", atom |-> a, ord |-> o, fail |-> o, f |-> [op |-> "add"]]
Cas(a, e, n, so, fo) ==
  [op |-> "rmw", atom |-> a, ord |-> so, fail |-> fo, f |-> [op |-> "cas", expected |-> e, new |-> n]]
GetMut(a)   == [op |-> "get_mut", atom |-> a]
Spawn       == [op |-> "spawn"]
Join(c)     == [op |-> "join", child |-> c]
Yield       == [op |-> "yield"]
Fence       == [op |-> "fence", order |-> "Acquire"]
NewAtom(a)  == [op |-> "new_atomic", atom |-> a]

\* Two children run b1 and b2; main spawns them and then runs m.
Two(b1, b2, m) == [u \in Slots |-> CASE u = 0 -> <<Spawn, Spawn>> \o m
                                      [] u = 1 -> b1
                                      [] u = 2 -> b2
                                      [] OTHER -> <<>>]

X == 1
Y == 1 + 1

(***************************************************************************)
(* Store buffering, tests scenario 5: each thread stores 1 to its atomic  *)
(* with ordering so and loads the other's with ordering lo.                *)
(***************************************************************************)
SB(so, lo) == Two(<<St(X, so, 1), Ld(Y, lo)>>, <<St(Y, so, 1), Ld(X, lo)>>, <<>>)

SBAtoms == {X, Y}
(***************************************************************************)
(* Reference: the outcomes of a program of SeqCst instructions under      *)
(* sequential consistency, by enumerating every interleaving of the       *)
(* threads' instructions over a single memory.  A join waits for its      *)
(* child's last instruction.                                               *)
(***************************************************************************)
RECURSIVE SCFrom(_, _, _, _)
SCFrom(p, k, mem, o) ==
  LET live  == {u \in Slots : k[u] <= Len(p[u])}
      ready == {u \in live : p[u][k[u]].op = "join" => p[u][k[u]].child \notin live}
  IN IF live = {} THEN {o}
     ELSE UNION {LET ins == p[u][k[u]]
                     k2  == [k EXCEPT ![u] = @ + 1]
                 IN CASE ins.op = "load" ->
                           SCFrom(p, k2, mem, [o EXCEPT ![u] = Append(@, mem[ins.atom])])
                      [] ins.op = "store" ->
                           SCFrom(p, k2, [mem EXCEPT ![ins.atom] = ins.val], o)
                      [] ins.op = "rmw" ->
                           SCFrom(p, k2, [mem EXCEPT ![ins.atom] =
                                            IF Attempt(ins.f, @) THEN NewValue(ins.f, @) ELSE @],
                                  [o EXCEPT ![u] = Append(@, mem[ins.atom])])
                      [] OTHER -> SCFrom(p, k2, mem, o)
                 : u \in ready}

\* The instructions of each thread that matter to the reference.
MemOps(p) == [u \in Slots |-> SelectSeq(p[u], LAMBDA i : i.op \in {"load", "store", "rmw", "join"})]

SCOutcomes(p) == SCFrom(MemOps(p), [u \in Slots |-> 1], [a \in Atoms |-> 0], [u \in Slots |-> <<>>])

\* Every program of two children, each running one SeqCst load or store, or
\* two different ones, of X and Y (a store writes 10 plus its thread's slot), or a single
\* rmw of X, while main, after spawning them, runs nothing, stores X, or
\* joins the first child and loads X.
SCOps(u) == {Ld(X, "SeqCst"), Ld(Y, "SeqCst"), St(X, "SeqCst", u + 10), St(Y, "SeqCst", u + 10)}
SCBodies(u) == {<<i>> : i \in SCOps(u)} \cup {<<Rmw(X, "SeqCst")>>}
                \cup {<<i, j>> \in SCOps(u) \X SCOps(u) : i # j}
SCMain == {<<>>, <<St(X, "SeqCst", 10)>>, <<Join(1), Ld(X, "SeqCst")>>}
SCPrograms == {Two(b1, b2, m) : b1 \in SCBodies(1), b2 \in SCBodies(2), m \in SCMain}

(***************************************************************************)
(* DPOR completeness (spec P4): with no preemption bound, once the driver *)
(* finds the path exhausted it has run a replay for every outcome the     *)
(* program has under sequential consistency, and for no other; no replay *)
(* deadlocks, overruns the tape or panics on the join gate's assertion.   *)
(* This is what the backtrack points that `schedule` adds at racing      *)
(* accesses, and Path::step's promotion of them, must achieve together.   *)
(***************************************************************************)
DporExploresAllSC ==
  /\ status \in {"running", "done"}
  /\ status = "done" => explored = SCOutcomes(prog)

(***************************************************************************)
(* The driver makes progress (spec P4): every step either ends the        *)
(* exploration, or starts a replay whose finished tape differs from every *)
(* earlier one (Path::step moved it to a decision not yet taken), or      *)
(* moves the running thread forward in its body.  With the state space    *)
(* finite, this is why the exploration of every program terminates.       *)
(***************************************************************************)
PcSum(f) == SumFunction(f)

DriverProgress ==
  [][ \/ status' # "running"
      \/ Cardinality(tapes') > Cardinality(tapes)
      \/ PcSum(pc') > PcSum(pc) ]_vars

(***************************************************************************)
(* Spec P1, clock monotonicity: within a replay, no step lowers any entry *)
(* of any thread's causality or DPOR clock.  Every engine call that       *)
(* touches a clock must join into it (sync_load, seq_cst, unpark,         *)
(* new_thread, the DPOR update of schedule) and never overwrite it.  A    *)
(* new replay (NextReplay) starts from fresh clocks and is exempt.         *)
(***************************************************************************)
ClockMonotonic ==
  [][ status = "running" /\ active # None =>
        \A u \in DOMAIN threads :
           /\ LeqVV(threads[u].causality, threads'[u].causality)
           /\ LeqVV(threads[u].dpor, threads'[u].dpor) ]_vars

(***************************************************************************)
(* Spec P4, termination: under the driver's own loop (the fairness of     *)
(* Spec), every exploration eventually ends, with "done" or a panic.  It  *)
(* fails if Path::step can bring the tape back to a decision it already   *)
(* explored (path.rs step), so that replays cycle.                         *)
(***************************************************************************)
Terminates == <>(status # "running")

(***************************************************************************)
(* The assertion of Schedule::backtrack: no schedule on the tape ever     *)
(* carries more preemptions than the bound.  It rests on backtracking     *)
(* being suppressed where the bound is reached and on how branch_thread   *)
(* counts a preemption from the previous schedule.                         *)
(***************************************************************************)
PreemptionsWithinBound ==
  path.bound # None =>
    \A i \in DOMAIN path.branches :
      path.branches[i].kind = "Schedule" => path.branches[i].preemptions <= path.bound

(***************************************************************************)
(* Litmus tests of the memory model.  Each names outcomes C11 forbids     *)
(* (no replay may produce them) and outcomes C11 allows that the engine   *)
(* is meant to find (some replay must produce them).  Outcomes are given  *)
(* as the loads of the reading child.                                      *)
(***************************************************************************)
MP(wo, ro) == Two(<<St(X, "Relaxed", 1), St(Y, wo, 1)>>, <<Ld(Y, ro), Ld(X, "Relaxed")>>, <<>>)

\* Release sequence: a relaxed rmw by a third thread continues the release.
MPRmw == [u \in Slots |-> CASE u = 0 -> <<Spawn, Spawn, Spawn>>
                            [] u = 1 -> <<St(X, "Relaxed", 1), St(Y, "Release", 1)>>
                            [] u = 2 -> <<Rmw(Y, "Relaxed")>>
                            [] u = 3 -> <<Ld(Y, "Acquire"), Ld(X, "Relaxed")>>]

\* Acquire fence after a relaxed load of the flag.
MPFence == Two(<<St(X, "Relaxed", 1), St(Y, "Release", 1)>>,
               <<Ld(Y, "Relaxed"), Fence, Ld(X, "Relaxed")>>, <<>>)

\* Read-read coherence: two stores by one thread, two loads by another.
CoRR == Two(<<St(X, "Relaxed", 1), St(X, "Relaxed", 2)>>,
            <<Ld(X, "Relaxed"), Ld(X, "Relaxed")>>, <<>>)

\* A flag taken by compare_exchange: when it fails on the released flag,
\* its failure ordering decides whether the relaxed data load is ordered.
MPCas(fo) == Two(<<St(X, "Relaxed", 1), St(Y, "Release", 1)>>,
                 <<Cas(Y, 0, 2, "Relaxed", fo), Ld(X, "Relaxed")>>, <<>>)

\* An outcome restricted to the reading threads R.
Project(o, R) == [u \in R |-> o[u]]

Litmus ==
  { [prog |-> SB("SeqCst", "SeqCst"), readers |-> {1, 2},
     forbid |-> {(1 :> <<0>>) @@ (2 :> <<0>>)}, require |-> {}],
    [prog |-> SB("Relaxed", "Relaxed"), readers |-> {1, 2},
     forbid |-> {}, require |-> {(1 :> <<0>>) @@ (2 :> <<0>>)}],
    [prog |-> SB("Release", "Acquire"), readers |-> {1, 2},
     forbid |-> {}, require |-> {(1 :> <<0>>) @@ (2 :> <<0>>)}],
    [prog |-> MP("Release", "Acquire"), readers |-> {2},
     forbid |-> {2 :> <<1, 0>>}, require |-> {2 :> <<1, 1>>, 2 :> <<0, 0>>}],
    [prog |-> MP("Relaxed", "Relaxed"), readers |-> {2},
     forbid |-> {}, require |-> {2 :> <<1, 0>>}],
    [prog |-> MP("Release", "Relaxed"), readers |-> {2},
     forbid |-> {}, require |-> {2 :> <<1, 0>>}],
    [prog |-> MPRmw, readers |-> {3},
     forbid |-> {3 :> <<2, 0>>}, require |-> {3 :> <<1, 0>>, 3 :> <<2, 1>>}],
    [prog |-> MPFence, readers |-> {2},
     forbid |-> {2 :> <<1, 0>>}, require |-> {2 :> <<0, 0>>, 2 :> <<1, 1>>}],
    [prog |-> MPCas("Acquire"), readers |-> {2},
     forbid |-> {2 :> <<1, 0>>}, require |-> {2 :> <<1, 1>>, 2 :> <<0, 0>>}],
    [prog |-> MPCas("Relaxed"), readers |-> {2},
     forbid |-> {}, require |-> {2 :> <<1, 0>>}],
    [prog |-> CoRR, readers |-> {2},
     forbid |-> {2 :> <<2, 1>>, 2 :> <<2, 0>>, 2 :> <<1, 0>>},
     require |-> {2 :> <<0, 2>>, 2 :> <<0, 1>>}] }

LitmusPrograms == {t.prog : t \in Litmus}
Test(p) == CHOOSE t \in Litmus : t.prog = p

(***************************************************************************)
(* No replay produces an outcome the memory model forbids (spec P1, P2):  *)
(* pick_store offers only stores the loading thread may still read        *)
(* (coherence, the SeqCst short-cut), and release/acquire carries          *)
(* causality, also through an rmw's cloned sync and an acquire fence.     *)
(***************************************************************************)
LitmusForbiddenNeverExplored ==
  prog \in LitmusPrograms =>
    \A o \in explored : Project(o, Test(prog).readers) \notin Test(prog).forbid

(***************************************************************************)
(* The exploration finds the weak outcomes each test is written to expose *)
(* (spec P3): pick_store offers the stale stores a relaxed load may read,  *)
(* and Path::step visits every one of them before the path is exhausted.  *)
(***************************************************************************)
LitmusWeakOutcomesFound ==
  prog \in LitmusPrograms /\ status = "done" =>
    Test(prog).require \subseteq {Project(o, Test(prog).readers) : o \in explored}

(***************************************************************************)
(* get_mut (tests scenarios 1 and 2).  In valid_get_mut the main thread   *)
(* joins the storing child before get_mut; in invalid_get_mut it does not. *)
(***************************************************************************)
\* The storing child uses a releasing ordering; the other child reads X.
GetMutOthers == {<<>>, <<Ld(X, "Relaxed")>>, <<Ld(X, "Acquire")>>}
\* Main may load X before joining: the race on X lets the child finish
\* first, so that join finds its gate already notified.
ValidGetMuts ==
  {Two(<<St(X, o, 1)>>, b, m \o <<Join(1), GetMut(X)>>) :
     o \in {"Relaxed", "Release", "SeqCst"}, b \in GetMutOthers, m \in {<<>>, <<Ld(X, "Relaxed")>>}}
InvalidGetMuts ==
  {Two(<<St(X, o, 1)>>, b, <<GetMut(X)>>) : o \in {"Release", "SeqCst"}, b \in GetMutOthers}
GetMutPrograms == ValidGetMuts \cup InvalidGetMuts

\* invalid_get_mut with a Relaxed store: the store does not happen-before
\* main, but its Synchronize stays empty (a relaxed sync_store is a no-op).
RelaxedInvalidGetMut == {Two(<<St(X, "Relaxed", 1)>>, <<>>, <<GetMut(X)>>)}

GetMutPanic == "get_mut requires entire history to happen-before current thread"

(***************************************************************************)
(* The get_mut assertion is exact: after the join transferred the child's *)
(* causality (notify at the child's end, wait in join) no replay panics   *)
(* and get_mut reads 1; without the join, DPOR reaches the interleaving   *)
(* where the store precedes get_mut and the engine panics there, so the   *)
(* exploration never completes cleanly.                                   *)
(***************************************************************************)
GetMutAssertionExact ==
  IF prog \in ValidGetMuts
  THEN status \in {"running", "done"} /\ \A o \in explored : Last(o[0]) = 1
  ELSE status \in {"running", GetMutPanic}

(***************************************************************************)
(* Preemption bounding and yields.  Each child yields between its two     *)
(* accesses; main stores or loads.                                        *)
(***************************************************************************)
YieldPrograms ==
  { Two(<<Ld(X, "Relaxed"), Yield, Ld(X, "Relaxed")>>, <<St(X, "Relaxed", 1)>>, <<>>),
    Two(<<St(X, "SeqCst", 1), Yield, Ld(Y, "SeqCst")>>, <<St(Y, "SeqCst", 1), Ld(X, "SeqCst")>>,
        <<Ld(X, "SeqCst")>>),
    Two(<<Rmw(X, "AcqRel"), Rmw(X, "AcqRel")>>, <<Rmw(X, "AcqRel"), Yield, Ld(X, "Acquire")>>,
        <<Rmw(X, "AcqRel")>>),
    Two(<<Yield, St(X, "Release", 1), Yield, Ld(Y, "Acquire")>>,
        <<Yield, St(Y, "Release", 1), Yield, Ld(X, "Acquire")>>, <<Yield, Ld(X, "Acquire")>>) }

(***************************************************************************)
(* branch_thread turns every Yield status of a new schedule into Active   *)
(* when none is Active, and asserts at most one Active before that.  At   *)
(* most one Active must remain: Path::step marks only the first Active    *)
(* Visited, and branch_thread on replay returns the first one, so a second *)
(* Active would never be explored and would shadow later choices.  It     *)
(* rests on schedule's re-enabling of every yielded thread but the one    *)
(* chosen, so that two threads are never in Yield at once.                *)
(***************************************************************************)
ScheduleHasOneActive ==
  \A i \in DOMAIN path.branches :
    path.branches[i].kind = "Schedule" =>
      Cardinality({u \in DOMAIN path.branches[i].threads : path.branches[i].threads[u] = "Active"}) <= 1

BoundedPrograms == YieldPrograms \cup LitmusPrograms

(***************************************************************************)
(* Spawning up to the limit: main spawns k children, each stores its id, *)
(* then main loads.  With k = MaxThreads the last spawn exceeds it.       *)
(***************************************************************************)
Spawner(k) == [u \in Slots |-> IF u = 0 THEN [i \in 1 .. k |-> Spawn] \o <<Ld(X, "Relaxed")>>
                                ELSE <<St(X, "Relaxed", u)>>]

SpawnLimitPrograms == {Spawner(k) : k \in 1 .. MaxThreads}

\* The litmus run also spawns up to and past the thread limit, where
\* Set::new_thread's assertion (thread.rs 158) ends the exploration.
LitmusRunPrograms == LitmusPrograms \cup SpawnLimitPrograms

(***************************************************************************)
(* An atomic created by a child: child 1 stores the data X, creates F and *)
(* raises the relaxed flag Y; child 2, once it sees the flag, loads F's   *)
(* initial value with Acquire and then X.  F is not touched before it is  *)
(* created.                                                                *)
(***************************************************************************)
F == 3
InitAtoms == {X, Y, F}

InitPublish ==
  {Two(<<St(X, "Relaxed", 1), NewAtom(F), St(Y, "Relaxed", 1)>>,
       <<Ld(Y, "Relaxed"), [op |-> "skip", when |-> "zero", n |-> 2],
         Ld(F, "Acquire"), Ld(X, "Relaxed")>>, <<>>)}

(***************************************************************************)
(* Spec section 3 and the comment of Atomic::new (atomic.rs 55-56): the   *)
(* initial store carries the causality of the thread that created the     *)
(* atomic.  Then a thread that acquires F's initial value sees every      *)
(* store its creator made before, and never reads the stale X.            *)
(***************************************************************************)
InitialStoreCarriesCreator ==
  \A o \in explored : o[2] # <<1, 0, 0>>


=============================================================================
