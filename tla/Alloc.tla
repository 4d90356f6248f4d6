------------------------------- MODULE Alloc -------------------------------
(***************************************************************************)
(* The allocation tracker (src/src/rt/alloc.rs).  The engine record s     *)
(* carries                                                                 *)
(*   allocs : Seq([is_dropped : BOOLEAN])  the allocation objects, in the *)
(*            order the object store inserted them                         *)
(*   raw    : a function from the tracked raw pointers to their object    *)
(*            (Execution::raw_allocations)                                 *)
(*   handles : the typed Allocation values the test holds, from a handle  *)
(*            name to the allocation object it tracks                      *)
(* No call is a suspension point: no branch is taken.                     *)
(***************************************************************************)
EXTENDS Sequences, Functions, TLC

\* objects.insert_alloc(State { is_dropped: false })
insert_alloc(s) == [s EXCEPT !.allocs = Append(@, [is_dropped |-> FALSE])]

\* raw_allocations.insert returned a previous allocation for the pointer.
AlreadyTracked(s, p) == p \in DOMAIN s.raw

\* alloc: a new allocation object, tracked under the pointer (the insert
\* happens before the assertion on its result).
alloc(s, p) ==
  LET s1 == insert_alloc(s)
  IN [s1 EXCEPT !.raw = (p :> Len(s1.allocs)) @@ @]

\* dealloc's match: the pointer has no tracked allocation.
Untracked(s, p) == p \notin DOMAIN s.raw

\* Mutant of dealloc: the allocation is removed but its Drop never runs.
dealloc_NoDrop(s, p) == [s EXCEPT !.raw = Restrict(@, DOMAIN @ \ {p})]

\* dealloc: remove the tracked allocation, then drop it (is_dropped = true).
dealloc(s, p) ==
  [s EXCEPT !.raw = Restrict(@, DOMAIN @ \ {p}),
            !.allocs[s.raw[p]].is_dropped = TRUE]

\* Allocation::new: a new allocation object, held by the test as handle h.
Allocation_new(s, h) ==
  LET s1 == insert_alloc(s)
  IN [s1 EXCEPT !.handles = (h :> Len(s1.allocs)) @@ @]

\* Drop for Allocation: the object of handle h is marked dropped.
Allocation_drop(s, h) == [s EXCEPT !.allocs[s.handles[h]].is_dropped = TRUE]

\* State::check_for_leaks over every allocation object of the replay.
check_for_leaks(s) == \A i \in DOMAIN s.allocs : s.allocs[i].is_dropped

=============================================================================
