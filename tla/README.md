# TLA+ models of the permutation-testing engine

The engine under `src/src/rt/` runs a concurrent test many times, once per
*replay*. Each time it takes a different interleaving of the test's logical
threads, and a different choice of the store each atomic load reads. It
explores these choices with dynamic partial-order reduction (DPOR), optionally
bounded by a number of preemptions. This directory models that engine in
TLA+ and checks it with TLC.

## The system and how its parts interact

| Part | Source | Role |
|---|---|---|
| Path | `rt/path.rs` | The tape of decisions. A Schedule entry records which thread runs and the exploration status of every thread. A Write entry records which store a load reads. `backtrack` marks alternatives; `step` advances to the next replay. |
| Thread set | `rt/thread.rs` | Per thread: its state, pending operation, causality clock, DPOR clock and yield bookkeeping. Also the seq-cst clock. |
| Execution | `rt/execution.rs` | `schedule`, the DPOR scheduler called at every suspension point; `new_thread`; `step`, the reset between replays. |
| Atomic simulator | `rt/atomic.rs` | Store history per atomic, `pick_store` (the stores a load may read), first-seen tracking, rmw, `get_mut`'s assertion, the acquire fence. |
| Notify | `rt/notify.rs` | A park/unpark gate. Thread join uses it: a child notifies its gate when its body ends, and `join` waits on it. |
| Condvar | `rt/condvar.rs` | A waiter queue. `wait` enqueues the thread, releases the mutex, parks, and re-acquires the mutex. `notify_one` and `notify_all` pop waiters and unpark them. |
| Allocation tracker | `rt/alloc.rs` | Tracks raw pointers and typed allocations. `alloc` and `dealloc` panic on a double track or an untracked free. `Allocation::new` creates a typed allocation, and its `Drop` marks it dropped. Each allocation object must be dropped by the end of the replay. |
| Mutex | not among the sources | The lock that `Condvar::wait` releases and re-acquires. It is modelled from spec §3, §4.6 and §5. |
| Version vectors, Synchronize, object store, runtime entry points and `park` | not among the sources | Modelled from `spec.md` §4.1, §4.2 and §5, and marked `spec_modelled` in `PROJECT.json`. |
| Futures glue | `futures/mod.rs` | Not modelled (see below). |

The engine is single-threaded and cooperative. Only the active logical thread
runs. It runs until its next suspension point, which is an engine call: an
atomic access, spawn, yield, join, notify, a mutex lock or unlock, a condvar
call, `park`, or thread end. Allocation tracking, `release_lock`, fences and
`Atomic::new` run inside a segment without a branch. There it records its
pending operation and calls `schedule`. `schedule` works in five steps:

1. It adds backtrack points on the Path wherever a pending operation races
   with the last access to the same object.
2. It asks the Path for the next thread, preferring the current one.
3. It switches to that thread.
4. It advances that thread's DPOR clock.
5. It re-enables yielded threads.

A load asks the Path which store to read (`branch_write`), choosing among the
stores `pick_store` allows. When the test closure returns, `Execution::step`
resets the per-replay state and calls `Path::step`. Exploration ends when the
tape has no alternative left.

## Modules

- `VersionVec`: version vectors over the slots `0..MaxThreads-1`.
- `Path`: the tape as a record `[branches, pos, bound]`, where each entry
  carries its own payload and `bound` is the preemption bound given to
  `Path::new`.
  - `branch_write` and `branch_thread` record a new entry when the tape is
    exhausted, and otherwise replay the existing one.
  - `NewSchedule` does the Yield toggle, derives `initial_active` and counts
    preemptions.
  - `ScheduleBacktrack` is `Schedule::backtrack`. `backtrack` adds the
    conservative point used under a preemption bound. `step` is the
    recursive walk from the tail of the tape.
- `ThreadSet`: the thread states with the code's helpers (`is_blocked`,
  `set_blocked` and so on), `Thread::unpark` (join the unparker's clock,
  wake a blocked or yielded thread), `Set::unpark`, `seq_cst`, `new_thread`
  and `clear`. Condvar, Notify and the scheduler use these helpers, as the
  code does.
- `Atomic`: Synchronize (from the spec), FirstSeen, `pick_store` (the
  recursive `Walk` translates the `take_while` closure), `load`, `store`,
  `rmw`, `happens_before` and `fence`.
  - `fence` panics unless its ordering is Acquire (`FenceSupported`). The
    test programs use Acquire fences only, so no run reaches that panic.
  - A store also carries the value the wrapper keeps for that index, so that
    outcomes can be compared.
  - `rmw` carries the closure the wrapper passes to it: `fetch_add(1)`, or
    `compare_exchange(e, n)`. A failed attempt acquires with the failure
    ordering and stores nothing.
- `Notify`: `notify` and `wait`, each split at its branch point. The part
  before the branch is the caller's suspension, which lives in `Execution`.
- `Mutex` (from the spec): `LockBranch` is the part of `lock` before its
  branch. It registers the thread's intent and blocks the thread while the
  mutex is held. `acquire_lock` asserts that the mutex is free, takes it,
  acquires from its Synchronize, and blocks the other threads waiting for
  it. `release_lock` frees the mutex, releases into its Synchronize, and
  makes those threads runnable.
- `Condvar`: `wait_steps` is `Condvar::wait` as the sequence of engine calls
  it makes: branch and enqueue, release, park, lock. `enqueue`,
  `notify_one` and `notify_all` are the parts after the branch.
- `Alloc`: `alloc`, `dealloc` (remove the pointer, then drop its object),
  `Allocation::new`, the `Drop` of an `Allocation`, and `check_for_leaks`.
  The engine record gets an `allocs` sequence and a `raw` map, because
  `execution.rs` has no `raw_allocations` field for `alloc.rs` to use. It
  also gets `handles`, the typed `Allocation` values the test holds, each
  named by a handle. The test's values are dropped with its closure, so a
  replay starts with none.
- `Execution`: one exploration of one test program, as a single behaviour.
  - A test program gives each slot a sequence of instructions:
    - load, store, rmw (fetch_add or compare_exchange), get_mut, fence and
      `new_atomic`;
    - spawn, yield and join;
    - lock and unlock;
    - a condvar wait guarded by `if value == 0`, notify_one and notify_all;
    - alloc and dealloc of a raw pointer, and `Allocation::new` and drop of
      a typed allocation;
    - a test-level `if` that skips instructions on the value last read.
  - A spawned body ends with a notify of its join gate and then
    terminates.
  - **`Run`** is one segment of the active thread, done in four parts. First,
    `Resumed` finishes the engine call the thread was suspended in. Second,
    the pending operation is cleared. Third, `Reach` runs to the next
    suspension point and records the new pending operation. Fourth,
    `schedule` picks the next thread.
  - Every one of those parts, and the calls they make that change state,
    happens inside the one step, as in the code. An assertion or panic of the
    engine sets `status` to its message.
  - **Backtracking from a race** (`BacktrackRaces`). `execution.rs:138`
    calls `path.schedule_mut(access.path_id).backtrack(th_id)`, but path.rs
    has no `schedule_mut`, so that line does not compile as given. The
    model calls `Path::backtrack(point, thread_id)` (path.rs 210-234)
    instead, the only method of that shape. It applies the preemption
    bound and adds the conservative point, so under a bound the model does
    more than a direct `Schedule::backtrack` would.
  - **`NextReplay`** is the driver after the closure returns. Either some
    allocation was not dropped and the replay panics with "object leaked"
    (`Leaked`), or it records the outcome (`obs`, the values the loads
    returned) and the decisions taken (`Replayed`). It then calls
    `Path::step` and either restarts the replay or ends the exploration.
  - The only nondeterminism is the choice of program in `Init`. Every
    interleaving comes from the engine's own exploration, just as in the
    code, which is a deterministic loop.
- `MCExecution`: the test programs and the properties.
  - The programs are the litmus tests of spec §8 and `tests/atomic.rs`.
  - It also holds a reference semantics: the outcomes of a program under
    sequential consistency, found by enumerating every interleaving
    (`SCFrom`, recursive).
- `MCBlocking`: the mutex and condvar tests of spec §8.3 and §8.4.
- `MCAlloc`: allocation tests, each with the verdict the exploration must
  reach.
- `MCPreempt`: spec §8.6. It runs two explorations of the same test, one
  after the other. The first is exhaustive. When it is done, `Restart`
  starts the engine over on `NewPath(0)`, the way a second model run does.
  `firstTapes` remembers how many paths the first exploration replayed.
  The path keeps its own bound (`NewPath(bound)`, like
  `Path::new(max_branches, preemption_bound)`). `Schedule::backtrack` and
  `Path::backtrack` read it from there.
  - Driver: the test driver that gives the bound is not under src/, so
    `Restart` is modelled from the spec.
  - Mismatched call: `Execution::new` (execution.rs:44) calls
    `Path::new(max_branches)` with one argument, but path.rs:82 takes two.
    The model takes the bound as `Init` configuration
    (`NewPath(PreemptionBound)`).
- `ExecutionStep`: `Execution::step` exactly as coded. It is used by a
  violation run.

## Runs

| Run | What it checks and shows |
|---|---|
| `litmus` | Covers ten litmus tests: SB with SeqCst, Relaxed and Release/Acquire; MP with Release/Acquire, Relaxed and Release/Relaxed; a release sequence through a relaxed rmw by a third thread; MP with a relaxed flag load and an acquire fence; MP whose flag is taken by a `compare_exchange` that fails with an Acquire or a Relaxed failure ordering; CoRR. No replay produces an outcome C11 forbids (`LitmusForbiddenNeverExplored`), and every weak outcome the test targets is found (`LitmusWeakOutcomesFound`). Each driver step ends the exploration, starts a replay with a new tape, or moves a thread forward (`DriverProgress`). No step of a replay lowers any thread's causality or DPOR clock (`ClockMonotonic`, spec P1). The run also spawns 1 to 4 children under MaxThreads 4, so the last program ends on the `max_threads` assertion. SB with Release stores and Acquire loads must still reach both loads reading 0: release/acquire does not order a store before a later load of another atomic. |
| `dpor_sc` | Covers 867 programs. Two children each run one SeqCst load or store on two atomics, two different ones, or a single rmw. Main, after spawning them, runs nothing, a store, or a join of the first child followed by a load. Unbounded DPOR never panics, and it ends having produced exactly the set of outcomes the sequential-consistency reference gives (`DporExploresAllSC`). This is the completeness of the race detection plus `Path::step`, checked against an independent definition. |
| `get_mut` | After a join, `get_mut` never panics and reads the stored value. This includes the case where main raced with the child first, so that join finds its gate already notified and acquires through `wait`. Without a join, against a Release or SeqCst store, the exploration ends with the happens-before panic (`GetMutAssertionExact`). |
| `bound1` | Preemption bound 1, over the litmus tests and four programs that yield. No schedule carries more preemptions than the bound (`PreemptionsWithinBound`, the assertion of `Schedule::backtrack`). No schedule holds two Active threads (`ScheduleHasOneActive`). The driver progresses, and `TypeOK` holds. |
| `bounded_dpor` | Preemption bound 1, over the counter test with 1, 2 or 3 sections per child. Every replay is a serial order of the critical sections. Once the exploration is done, it has found every serial order that needs at most one preemption (`BoundedDporFindsOrders`). Orders needing more are allowed to be missed: with a bound, the spec gives up completeness (§1, §4.3). Without the conservative backtrack point of `Path::backtrack`, the order 2 1 1 2 is never explored. |
| `blocking` | Covers the counter test: two children each lock M, load the counter, store their id and unlock, once, twice or three times, and main may join both and read it. It also covers condvar_signal, with notify_one inside or after the critical section, and a notify_all variant with two consumers. `CounterSerial`: no replay panics or deadlocks, every outcome is one of the serial orders of the critical sections (2, 6 or 20 of them), and every order is found. `CondvarSignalDelivered`: no deadlock, every consumer ends reading the flag set, and the replay where a consumer waited is explored. `CondvarWaitersParked`: every thread in a waiter queue is Blocked and holds no mutex. Every exploration ends (`Terminates`, under the fairness below). `ClockMonotonic` holds here too, through mutex hand-overs, condvar wakeups and joins. |
| `preempt` | Spec §8.6. The counter test (two increments per child, main joins and reads) is explored exhaustively and then with preemption bound 0. Both end with "done" and serial outcomes only. The bounded one takes strictly fewer paths: 1 against 42 (`BoundReducesSpace`). With the bound ignored in `Schedule::backtrack`, both take the same number. |
| `alloc` | Covers a hand-off by a flag (leaks when the reader runs first), a claim by fetch_add (correct), a claim by load-then-store (double free when both read 0), a free after join, a free-and-reallocate, and an address tracked twice ("pointer already tracked"). A reference count on a typed allocation is released by fetch_add (correct) or by load-then-store (a leak when both children miss the other's release). The exploration ends with exactly the expected verdict (`AllocVerdictExact`). |
| `atomic_init` (violation) | A child stores X, creates F and raises a relaxed flag. The other child, having seen the flag, acquires F's initial value and still reads the old X. |
| `get_mut_relaxed` (violation) | `invalid_get_mut` with a Relaxed store: the exploration completes without a panic. |
| `reset` (violation) | The coded `Execution::step` starts a replay with two threads. |

`DriverProgress` is an action property. Together with the finite state space
TLC explores, it gives termination of every exploration. A temporal
`<>(status # "running")` would say the same, but TLC's evaluation of
`ENABLED` on the large segment operator made that check impractically slow.

## Findings

- **get_mut misses Relaxed stores** (`atomic.rs:207`). The assertion compares
  the thread's causality with each store's Synchronize. A Relaxed store
  leaves that empty, so `get_mut` after an unjoined Relaxed store passes in
  every replay. The spec (§4.6) and `invalid_get_mut` say it must panic
  unless every store happens-before the current thread.
- **The replay reset leaves two threads** (`execution.rs:104`). `Set::clear`
  already pushes the root thread, and `step` then calls `new_thread`, which
  pushes a second one. `Execution::new` does the same at lines 37-40.
  - `execution.rs` calls `Set::new` and `clear` with signatures that
    `thread.rs` no longer has. It appears to predate the thread set.
  - The main model follows the spec (a single Runnable root thread), and
    `ExecutionStep` models the coded reset.

- **An atomic's initial store does not carry its creator's causality**
  (`atomic.rs:58`).
  - `Atomic::new` seeds the store with an empty `Synchronize`. The comment
    just above it (lines 55-56) and spec §3 say the store brings the
    creating thread's causality.
  - The `atomic_init` run shows the consequence. A thread that acquires the
    initial value of an atomic another thread created can still read data
    the creator overwrote before creating it.
  - With the creator's causality in the initial store, the same program
    passes. C11 does not treat initialisation as a release, so the code may
    be the intended behaviour, and it is the comment and the spec that are
    wrong.

## Bounds and why they are enough

- `MaxThreads` is 3: main plus two children. It is 4 where a third thread
  makes the release sequence.
- `MaxBranches` is 40. This is above the longest tape of any program, so the
  max-branches assertion never cuts an exploration short.
- The values are small integers, and there are two atomics.
- The SC programs cover one SeqCst load or store per child, two different
  ones, an rmw racing with them, and a join. This includes every pair of
  conflicting accesses, in both orders.
- Each litmus test is the smallest program that shows its pattern.
- The blocking tests use one mutex and one condvar, and at most three
  children. This is enough for a waiter, a producer, and a thread competing
  for the lock when the waiter is woken.
- `blocking` also runs the counter test with two and three critical
  sections per child. A lost update that needs the mutex handed over
  several times shows up only there. `MaxBranches` is 80 in `blocking`,
  because three sections per child take more branches. `bounded_dpor`
  uses the same counter programs: with two or three sections there are
  orders of one preemption that start with either child. A replay that runs out would panic and
  fail `CounterSerial`.
- `preempt` uses spec §8.6's own instance, two increments per child. The
  two explorations run one after the other, so the product stays linear
  (1,163 states).
- The allocation tests use one pointer or one typed allocation, and two
  threads. This is the smallest case where a leak or a double free depends
  on the interleaving.
- The `dpor_sc` run is the largest: about 197,000 states in under half a
  minute. A body does not repeat one instruction (`Ld X; Ld X`). A repeat
  meets the same racing accesses as the single instruction plus one of
  the other bodies. Keeping the repeats pushed the run past the memory TLC
  has with coverage statistics on.

## Fairness

The engine is one deterministic loop that keeps taking its next step, so
`FairSpec` adds weak fairness of `Next` to `Spec`. Only the `blocking` run,
which checks a liveness property, uses it. It is written as
`<>[]Running => []<><<Next>>_vars`, where `Running` (`status = "running"`)
is the state predicate that `ENABLED <<Next>>_vars` equals. While running,
`Run` is enabled whenever a thread is active. When none is, `Leaked` or
`Replayed` is enabled, whichever `check_for_leaks` selects. TLC evaluates
`ENABLED` of the recursive segment operators without sharing their `LET`s,
which made `WF_vars(Next)` intractable even on a few hundred states. The
explicit form checks in seconds.

Under this fairness `Terminates` (`<>(status # "running")`) holds in
`blocking`, where threads block on the mutex and the condvar: every
exploration ends with "done" or a panic. The mutant that returns an explored thread to Pending in
`Path::step` makes replays cycle, and TLC reports the lasso.
`DriverProgress` adds the per-step claim that no finished tape repeats.

## Mutants

Every property of a passing run has a mutant in `PROJECT.json`: a plausible
bug in a mapped definition that TLC then catches.

- A load that does not acquire from the store it read.
- `pick_store` keeping only the newest store.
- `step` not marking the explored thread Visited.
- The DPOR clock not ticking.
- `wait` dropping its synchronisation.
- Seeding a Schedule with thread states.
- No early return at the preemption bound.
- Yielded threads not re-enabled.
- An rmw that does not clone the sync.
- A Visited thread marked Pending again, so a tape repeats.
- The scheduler keeping the current thread although it is blocked.
- `notify_one` popping a waiter without unparking it.
- A scheduling point between `release_lock` and `park` in `Condvar::wait`.
  This is the lost wakeup: TLC finds a waiter that is not parked, and also a
  deadlock.
- `dealloc` not dropping the allocation object.
- `Path::step` returning the explored thread to Pending, so that replays
  cycle and the exploration never ends.
- `Path::backtrack` without the conservative backtrack point.
- A failed compare_exchange acquiring with the success ordering.
- `seq_cst` assigning the seq-cst clock to the thread instead of joining it.
- The DPOR update of `schedule` replacing the thread's clock by the last
  access's clock instead of joining them.

## Not modelled

- **Mutex details.** `try_lock` and the seq_cst flavour are not modelled,
  because `rt/mutex.rs` is not among the sources and nothing in `condvar.rs`
  uses them.
- **Unwinding after a double track.** `alloc` replaces the tracked record
  before its assertion fires, and the replaced record is dropped while the
  panic unwinds. The model stops the exploration at the panic.
- **`Execution::unpark_thread`** (`execution.rs` 70-82). It has the same
  body as `Set::unpark`, and none of the given sources calls it.
- **Not planned.** The `critical` flag, logging, the arena, the checkpoint
  serialisation and the futures waker glue (`futures/mod.rs` only forwards
  to `future_notify`, whose code is not given). Nothing modelled reads them.
