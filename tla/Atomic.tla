------------------------------- MODULE Atomic -------------------------------
(***************************************************************************)
(* The atomic-memory simulator (src/src/rt/atomic.rs) and the Synchronize *)
(* object it stores in every write (rt/synchronize.rs, not among the      *)
(* sources given: modelled from spec section 4.2).                        *)
(*                                                                         *)
(* The engine record s carries, besides the thread-set fields,            *)
(*   atomics : [AtomIds -> [history : Seq(Store), last : Access or None]] *)
(*   path    : the Path record                                             *)
(*   ret     : the store index the last load or rmw returned               *)
(* A Store is [sync, firstSeen, seqcst, val]: `val` is the payload the     *)
(* wrapper keeps for that store index (the simulator is payload-agnostic). *)
(***************************************************************************)
EXTENDS ThreadSet

Orders == {"Relaxed", "Acquire", "Release", "AcqRel", "SeqCst"}

(***************************************************************************)
(* Synchronize::sync_load / sync_store.  sync_store is split in the new   *)
(* vector of the store (SyncStoreVV) and its effect on the thread set.    *)
(***************************************************************************)
sync_load(s, vv, ord) ==
  LET s1 == IF ord \in {"Acquire", "AcqRel", "SeqCst"}
            THEN [s EXCEPT !.threads[s.active].causality = JoinVV(@, vv)]
            ELSE s
  IN IF ord = "SeqCst" THEN seq_cst(s1) ELSE s1

SyncStoreVV(s, vv, ord) ==
  IF ord \in {"Release", "AcqRel", "SeqCst"}
  THEN JoinVV(vv, s.threads[s.active].causality) ELSE vv

SyncStoreThreads(s, ord) == IF ord = "SeqCst" THEN seq_cst(s) ELSE s

(***************************************************************************)
(* FirstSeen: for each slot, the atomic version at which that thread       *)
(* first read the store, or None.                                          *)
(***************************************************************************)
\* FirstSeen::touch
touch(fs, s) ==
  IF fs[s.active] = None THEN [fs EXCEPT ![s.active] = ActiveAtomicVersion(s)] ELSE fs

\* FirstSeen::new
NewFirstSeen(s) == touch([u \in Slots |-> None], s)

\* FirstSeen::is_seen_by_current
is_seen_by_current(st, s) ==
  \E u \in Slots : st.firstSeen[u] # None
                   /\ st.firstSeen[u] <= s.threads[s.active].causality[u]

\* FirstSeen::is_seen_before_yield
is_seen_before_yield(st, s) ==
  LET ly == s.threads[s.active].lastYield
  IN /\ ly # None
     /\ st.firstSeen[s.active] # None
     /\ st.firstSeen[s.active] <= ly

(***************************************************************************)
(* History::pick_store's seed: the store indices (0-based, newest first)  *)
(* the take_while keeps.  Walk(i, inCaus, first) visits store i (1-based). *)
(***************************************************************************)
RECURSIVE Walk(_, _, _, _, _, _)
Walk(h, s, ord, i, inCaus, first) ==
  IF i = 0 THEN <<>>
  ELSE IF is_seen_before_yield(h[i], s)
       THEN IF first THEN <<i - 1>> ELSE <<>>
  ELSE IF inCaus THEN <<>>
  ELSE <<i - 1>> \o Walk(h, s, ord, i - 1,
                         (ord = "SeqCst" /\ h[i].seqcst) \/ is_seen_by_current(h[i], s),
                         FALSE)

\* Mutant of PickSeed: the take_while stops after the newest store.
PickSeed_LatestOnly(h, s, ord) == <<Len(h) - 1>>

PickSeed(h, s, ord) == Walk(h, s, ord, Len(h), FALSE, TRUE)

\* Atomic::new: one initial store, seen by its creator, with an empty sync.
NewAtomic(s, val) ==
  [history |-> <<[sync |-> ZeroVV, firstSeen |-> NewFirstSeen(s),
                  seqcst |-> FALSE, val |-> val]>>,
   last |-> None]

(***************************************************************************)
(* State::load, after the `synchronize` that bumps the active causality:   *)
(* branch on the legal stores, mark the chosen one seen, acquire from it.  *)
(***************************************************************************)
\* Mutant of load: the chosen store's sync is not acquired.
load_NoSync(s, a, ord) ==
  LET h    == s.atomics[a].history
      seed == PickSeed(h, s, ord)
      i    == WriteChoice(s.path, seed)
  IN [s EXCEPT !.path = branch_write(@, seed), !.ret = i,
               !.atomics[a].history[i + 1].firstSeen = touch(@, s)]

load(s, a, ord) ==
  LET h    == s.atomics[a].history
      seed == PickSeed(h, s, ord)
      i    == WriteChoice(s.path, seed)
      s1   == [s EXCEPT !.path = branch_write(@, seed), !.ret = i,
                        !.atomics[a].history[i + 1].firstSeen = touch(@, s)]
  IN sync_load(s1, h[i + 1].sync, ord)

\* State::store: append a store whose sync carries the releaser's causality.
store(s, a, ord, val) ==
  LET st == [sync |-> SyncStoreVV(s, ZeroVV, ord), firstSeen |-> NewFirstSeen(s),
             seqcst |-> ord = "SeqCst", val |-> val]
  IN SyncStoreThreads([s EXCEPT !.atomics[a].history = Append(@, st)], ord)

(***************************************************************************)
(* The closure the wrapper passes to rmw, on the value of the newest      *)
(* store: fetch_add(1) always succeeds, compare_exchange(e, n) succeeds   *)
(* when that value is e.  An rmw instruction carries it as f.             *)
(***************************************************************************)
Attempt(f, v) == f.op = "add" \/ v = f.expected

NewValue(f, v) == IF f.op = "add" THEN v + 1 ELSE f.new

\* Mutant of rmw: a failed attempt acquires with the success ordering.
rmw_FailWithSuccess(s, a, success, failure, f) ==
  LET n   == Len(s.atomics[a].history)
      v   == s.atomics[a].history[n].val
      s1  == [s EXCEPT !.atomics[a].history[n].firstSeen = touch(@, s), !.ret = n - 1]
      s2  == sync_load(s1, s.atomics[a].history[n].sync, success)
      st  == [sync |-> SyncStoreVV(s2, s.atomics[a].history[n].sync, success),
              firstSeen |-> NewFirstSeen(s2), seqcst |-> success = "SeqCst",
              val |-> NewValue(f, v)]
  IN IF ~Attempt(f, v) THEN s2
     ELSE SyncStoreThreads([s2 EXCEPT !.atomics[a].history = Append(@, st)], success)

(***************************************************************************)
(* State::rmw, always on the newest store: mark it seen; a failed attempt *)
(* acquires with the failure ordering and stores nothing; otherwise it    *)
(* acquires with the success ordering and appends a store whose sync      *)
(* clones the old one, which forms the release sequence.                  *)
(***************************************************************************)
rmw(s, a, success, failure, f) ==
  LET n   == Len(s.atomics[a].history)
      v   == s.atomics[a].history[n].val
      s1  == [s EXCEPT !.atomics[a].history[n].firstSeen = touch(@, s), !.ret = n - 1]
      s2  == sync_load(s1, s.atomics[a].history[n].sync, success)
      st  == [sync |-> SyncStoreVV(s2, s.atomics[a].history[n].sync, success),
              firstSeen |-> NewFirstSeen(s2), seqcst |-> success = "SeqCst",
              val |-> NewValue(f, v)]
  IN IF ~Attempt(f, v) THEN sync_load(s1, s.atomics[a].history[n].sync, failure)
     ELSE SyncStoreThreads([s2 EXCEPT !.atomics[a].history = Append(@, st)], success)

\* State::happens_before, asserted by get_mut.
happens_before(s, a) ==
  \A i \in DOMAIN s.atomics[a].history :
    LeqVV(s.atomics[a].history[i].sync, s.threads[s.active].causality)

(***************************************************************************)
(* fence: acquire (with the fence's ordering) from every store of every   *)
(* atomic that the current thread has seen.                                *)
(***************************************************************************)
RECURSIVE FenceFrom(_, _, _)
FenceFrom(s, todo, order) ==
  IF todo = <<>> THEN s
  ELSE LET st == s.atomics[Head(todo)[1]].history[Head(todo)[2]]
       IN FenceFrom(IF is_seen_by_current(st, s) THEN sync_load(s, st.sync, order) ELSE s,
                    Tail(todo), order)

\* Every (atomic, store) pair, atomics in arena order, stores oldest first.
AllStores(s) ==
  SetToSortSeq(UNION {{<<a, i>> : i \in DOMAIN s.atomics[a].history} : a \in DOMAIN s.atomics},
               LAMBDA x, y : x[1] < y[1] \/ (x[1] = y[1] /\ x[2] < y[2]))

\* fence's assertion: only Acquire fences are supported.
FenceSupported(order) == order = "Acquire"

fence(s, order) == FenceFrom(s, AllStores(s), order)

=============================================================================
