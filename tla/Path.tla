-------------------------------- MODULE Path --------------------------------
(***************************************************************************)
(* The branch tape of one exploration (src/src/rt/path.rs).                *)
(*                                                                         *)
(* A path is a record [branches, pos].  The code keeps a vector of branch  *)
(* kinds and, beside it, one vector of Schedule records and one of write   *)
(* queues; here each entry of `branches` carries its own payload:          *)
(*   [kind |-> "Schedule", threads, preemptions, initial]                  *)
(*   [kind |-> "Write",    writes]                                         *)
(* `threads` maps the thread slots that existed when the schedule was      *)
(* recorded to their exploration status; `writes` is the queue of store   *)
(* indices still to be read, its head being the current choice.           *)
(* `pos` counts the branches consumed by the running replay.               *)
(*                                                                         *)
(* Every operation is an operator from a path to a path, so that the       *)
(* execution can compose it with the other steps of one engine call.       *)
(***************************************************************************)
EXTENDS Naturals, Sequences, SequencesExt

CONSTANTS
  PreemptionBound,  \* a natural number, or None for exhaustive search
  MaxBranches,      \* Path::max_branches
  None              \* model value standing for Rust's None

Status == {"Disabled", "Skip", "Yield", "Pending", "Active", "Visited"}

\* Path::new(max_branches, preemption_bound): an empty tape that keeps its
\* bound (a natural number, or None).
NewPath(bound) == [branches |-> <<>>, pos |-> 0, bound |-> bound]

\* fn active(threads): the first slot whose status is Active, or None.
ActiveOf(ths) ==
  IF \E i \in DOMAIN ths : ths[i] = "Active"
  THEN CHOOSE i \in DOMAIN ths : ths[i] = "Active"
                                 /\ \A j \in DOMAIN ths : j < i => ths[j] # "Active"
  ELSE None

\* Positions (1-based, in `branches`) of the Schedule entries, in order:
\* SchedPos(b)[k+1] is where `schedules[k]` of the code lives.
SchedPos(b) == SelectSeq([i \in 1 .. Len(b) |-> i], LAMBDA i : b[i].kind = "Schedule")

\* The assertion guarding every branch: branches.len() < max_branches.
CanBranch(p) == Len(p.branches) < MaxBranches

(***************************************************************************)
(* Path::branch_write: record the seed as a new Write branch when at the   *)
(* end of the tape, then consume the branch at `pos`.  The store read is   *)
(* WriteChoice(p) of the path before the call.                             *)
(***************************************************************************)
RecordWrite(p, seed) ==
  IF p.pos = Len(p.branches)
  THEN [p EXCEPT !.branches = Append(@, [kind |-> "Write", writes |-> seed])]
  ELSE p

branch_write(p, seed) == [RecordWrite(p, seed) EXCEPT !.pos = @ + 1]

WriteChoice(p, seed) == RecordWrite(p, seed).branches[p.pos + 1].writes[1]

(***************************************************************************)
(* Path::branch_thread, recording half: the first time a position is      *)
(* reached, toggle the yielded threads to Active if none is Active, and    *)
(* derive `initial_active` and `preemptions` from the previous Schedule.   *)
(***************************************************************************)
NewSchedule(b, seed) ==
  LET ths   == IF \E i \in DOMAIN seed : seed[i] = "Active"
               THEN seed
               ELSE [i \in DOMAIN seed |-> IF seed[i] = "Yield" THEN "Active" ELSE seed[i]]
      sp    == SchedPos(b)
      prev  == b[sp[Len(sp)]]
      cur   == ActiveOf(ths)
      init  == IF sp = <<>> THEN cur
               ELSE IF cur = ActiveOf(prev.threads) THEN cur ELSE None
      preem == IF sp = <<>> THEN 0
               ELSE IF prev.initial # None /\ prev.initial # ActiveOf(prev.threads)
                    THEN prev.preemptions + 1
                    ELSE prev.preemptions
  IN [kind |-> "Schedule", threads |-> ths, preemptions |-> preem, initial |-> init]

RecordThread(p, seed) ==
  IF p.pos = Len(p.branches)
  THEN [p EXCEPT !.branches = Append(@, NewSchedule(@, seed))]
  ELSE p

branch_thread(p, seed) == [RecordThread(p, seed) EXCEPT !.pos = @ + 1]

\* The thread branch_thread returns (None when no thread is Active).
ThreadChoice(p, seed) == ActiveOf(RecordThread(p, seed).branches[p.pos + 1].threads)

\* The kind the entry at `pos` must have on replay (else the code panics).
ReplayKindOk(p, kind) == p.pos < Len(p.branches) => p.branches[p.pos + 1].kind = kind

(***************************************************************************)
(* Schedule::backtrack and Thread::explore.                                *)
(***************************************************************************)
\* Mutant of Explore: a Visited thread is marked Pending again.
Explore_Revisit(s) == IF s \in {"Skip", "Visited"} THEN "Pending" ELSE s

Explore(s) == IF s = "Skip" THEN "Pending" ELSE s

\* Mutant of ScheduleBacktrack: no early return at the preemption bound.
ScheduleBacktrack_NoBound(sch, tid, bound) ==
  IF tid \notin DOMAIN sch.threads THEN sch
  ELSE IF sch.threads[tid] # "Disabled"
       THEN [sch EXCEPT !.threads[tid] = Explore(@)]
       ELSE [sch EXCEPT !.threads = [i \in DOMAIN @ |-> Explore(@[i])]]

ScheduleBacktrack(sch, tid, bound) ==
  IF bound # None /\ sch.preemptions = bound THEN sch
  ELSE IF tid \notin DOMAIN sch.threads THEN sch
  ELSE IF sch.threads[tid] # "Disabled"
       THEN [sch EXCEPT !.threads[tid] = Explore(@)]
       ELSE [sch EXCEPT !.threads = [i \in DOMAIN @ |-> Explore(@[i])]]

\* Apply ScheduleBacktrack to schedules[k] (0-based schedule index).
BacktrackAt(p, k, tid) ==
  LET i == SchedPos(p.branches)[k + 1]
  IN [p EXCEPT !.branches[i] = ScheduleBacktrack(@, tid, p.bound)]

\* Index of a branch position among the schedules.
SchedIndex(p, point) ==
  CHOOSE k \in 0 .. Len(SchedPos(p.branches)) - 1 : SchedPos(p.branches)[k + 1] = point + 1

\* The nearest j in index-1..1 whose active thread differs from j-1's, or 0.
ConservativePoint(p, index) ==
  LET act(k) == ActiveOf(p.branches[SchedPos(p.branches)[k + 1]].threads)
      js     == {j \in 1 .. index - 1 : act(j) # act(j - 1)}
  IN IF js = {} THEN 0 ELSE CHOOSE j \in js : \A j2 \in js : j2 <= j

\* Mutant of backtrack: no conservative backtrack point under a bound.
backtrack_NoConservative(p, point, tid) == BacktrackAt(p, SchedIndex(p, point), tid)

\* Path::backtrack(point, thread_id)
backtrack(p, point, tid) ==
  LET index == SchedIndex(p, point)
      p1    == BacktrackAt(p, index, tid)
  IN IF p.bound # None /\ index > 0
     THEN BacktrackAt(p1, ConservativePoint(p1, index), tid)
     ELSE p1

(***************************************************************************)
(* Path::step: from the tail, a Schedule turns its Active thread Visited  *)
(* and promotes the first Pending one, a Write drops its head; an entry   *)
(* with nothing left is popped.  Returns [branches, more].                 *)
(***************************************************************************)
First(ths, st) == CHOOSE i \in DOMAIN ths : ths[i] = st /\ \A j \in DOMAIN ths : j < i => ths[j] # st

\* Mutant of StepSchedule: the explored thread is not marked Visited.
StepSchedule_NoVisit(ths) ==
  IF \E i \in DOMAIN ths : ths[i] = "Pending"
  THEN [ths EXCEPT ![First(ths, "Pending")] = "Active"] ELSE ths

\* Mutant of StepSchedule: the explored thread goes back to Pending.
StepSchedule_Repend(ths) ==
  LET t1 == IF \E i \in DOMAIN ths : ths[i] = "Active"
            THEN [ths EXCEPT ![First(ths, "Active")] = "Pending"] ELSE ths
  IN IF \E i \in DOMAIN t1 : t1[i] = "Pending"
     THEN [t1 EXCEPT ![First(t1, "Pending")] = "Active"] ELSE t1

StepSchedule(ths) ==
  LET t1 == IF \E i \in DOMAIN ths : ths[i] = "Active"
            THEN [ths EXCEPT ![First(ths, "Active")] = "Visited"] ELSE ths
  IN IF \E i \in DOMAIN t1 : t1[i] = "Pending"
     THEN [t1 EXCEPT ![First(t1, "Pending")] = "Active"] ELSE t1

RECURSIVE StepBranches(_)
StepBranches(b) ==
  IF b = <<>> THEN [branches |-> b, more |-> FALSE]
  ELSE LET e == Last(b) IN
    IF e.kind = "Schedule"
    THEN IF \E i \in DOMAIN e.threads : e.threads[i] = "Pending"
         THEN [branches |-> [b EXCEPT ![Len(b)] = [e EXCEPT !.threads = StepSchedule(@)]],
               more |-> TRUE]
         ELSE StepBranches(Front(b))
    ELSE IF Len(e.writes) > 1
         THEN [branches |-> [b EXCEPT ![Len(b)] = [e EXCEPT !.writes = Tail(@)]], more |-> TRUE]
         ELSE StepBranches(Front(b))

step(p) ==
  LET r == StepBranches(p.branches)
  IN [path |-> [p EXCEPT !.branches = r.branches, !.pos = 0], more |-> r.more]

=============================================================================
