------------------------------ MODULE MCAlloc ------------------------------
(***************************************************************************)
(* Test programs that allocate and free a raw pointer and hand it between *)
(* threads, and the verdict the engine must reach for each: a leak or a   *)
(* double free that happens in some interleaving must end the exploration *)
(* with the tracker's panic, and a correct hand-off must not.              *)
(***************************************************************************)
EXTENDS MCExecution

P == 1   \* the one raw pointer
H == 1   \* the one typed allocation (the inner block of an Arc)

\* Instructions: the tracking calls of the allocator wrapper, and the
\* test's `if` on the value its last load or rmw returned.
Alloc(p)       == [op |-> "alloc", p |-> p]
Dealloc(p)     == [op |-> "dealloc", p |-> p]
New(h)         == [op |-> "new_allocation", h |-> h]
Drop(h)        == [op |-> "drop_allocation", h |-> h]
SkipIfZero(n)    == [op |-> "skip", when |-> "zero", n |-> n]
SkipIfNonzero(n) == [op |-> "skip", when |-> "nonzero", n |-> n]

\* Main allocates, then spawns the two children.
Shared(b1, b2) == [u \in Slots |-> CASE u = 0 -> <<Alloc(P), Spawn, Spawn>>
                                      [] u = 1 -> b1
                                      [] u = 2 -> b2
                                      [] OTHER -> <<>>]

\* Main creates the typed allocation, then spawns the two children.
Owned(b1, b2) == [u \in Slots |-> CASE u = 0 -> <<New(H), Spawn, Spawn>>
                                     [] u = 1 -> b1
                                     [] u = 2 -> b2
                                     [] OTHER -> <<>>]

(***************************************************************************)
(* The programs and their verdicts:                                        *)
(*  - hand-off by a flag: the second child frees only if it saw the flag, *)
(*    so the replay where it loads first leaks;                            *)
(*  - claim by fetch_add: exactly one child reads 0 and frees;             *)
(*  - claim by load then store: both may read 0, and the second free is   *)
(*    of an untracked pointer;                                             *)
(*  - free after join, and free and allocate the same address again;      *)
(*  - an address allocated twice (freed in between behind the tracker's   *)
(*    back): the second alloc finds the pointer already tracked;           *)
(*  - a reference count on a typed allocation: each child releases its    *)
(*    reference and the one that releases the last drops the object.      *)
(*    By fetch_add exactly one child sees the other's release; by load    *)
(*    then store both may miss it, and nobody drops: a leak.              *)
(***************************************************************************)
RcRelease(o)   == <<Rmw(X, o), SkipIfZero(1), Drop(H)>>
RcLoadStore(o) == <<Ld(X, o), St(X, o, 1), SkipIfZero(1), Drop(H)>>
RmwClaim(o)  == <<Rmw(X, o), SkipIfNonzero(1), Dealloc(P)>>
LoadClaim(o) == <<Ld(X, o), SkipIfNonzero(2), St(X, o, 1), Dealloc(P)>>
HandOff(o)   == Shared(<<St(X, o, 1)>>, <<Ld(X, o), SkipIfZero(1), Dealloc(P)>>)

Orders2 == {"Relaxed", "SeqCst"}

Verdicts ==
  {[prog |-> HandOff(o), verdict |-> "object leaked"] : o \in Orders2} \cup
  {[prog |-> Shared(RmwClaim(o), RmwClaim(o)), verdict |-> "done"] : o \in Orders2} \cup
  {[prog |-> Shared(LoadClaim(o), LoadClaim(o)), verdict |-> "pointer not tracked"] : o \in Orders2} \cup
  {[prog |-> Owned(RcRelease(o), RcRelease(o)), verdict |-> "done"] : o \in Orders2} \cup
  {[prog |-> Owned(RcLoadStore(o), RcLoadStore(o)), verdict |-> "object leaked"] : o \in Orders2} \cup
  { [prog |-> Shared(<<Ld(Y, "Relaxed"), Dealloc(P)>>, <<St(Y, "Relaxed", 1)>>), verdict |-> "done"],
    [prog |-> Shared(<<Dealloc(P)>>, <<Ld(X, "Relaxed")>>), verdict |-> "done"],
    [prog |-> [u \in Slots |-> CASE u = 0 -> <<Alloc(P), Spawn, Join(1), Dealloc(P), Alloc(P), Dealloc(P)>>
                                 [] OTHER -> <<St(X, "Relaxed", 1)>>],
     verdict |-> "done"],
    [prog |-> [u \in Slots |-> IF u = 0 THEN <<Alloc(P), Alloc(P)>> ELSE <<>>],
     verdict |-> "pointer already tracked"] }

AllocPrograms == {v.prog : v \in Verdicts}

Verdict(p) == (CHOOSE v \in Verdicts : v.prog = p).verdict

(***************************************************************************)
(* Spec P6 and section 6: the exploration ends with the tracker's panic   *)
(* exactly when some interleaving leaks the allocation or frees it twice,  *)
(* and with "done" otherwise; no other panic occurs on the way.  This is  *)
(* dealloc's removal and drop, check_for_leaks at the end of each replay, *)
(* and DPOR finding the interleaving that has the bug (alloc.rs).         *)
(***************************************************************************)
AllocVerdictExact == status \in {"running", Verdict(prog)}

=============================================================================
