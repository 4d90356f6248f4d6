----------------------------- MODULE VersionVec -----------------------------
(***************************************************************************)
(* The version vector of the engine (rt/vv.rs, not part of the sources     *)
(* given; modelled from spec section 4.1): one counter per thread slot.    *)
(* A vector is a function from the slots 0..MaxThreads-1 to Nat; it is     *)
(* used both as a thread's causality clock and as its DPOR clock.          *)
(***************************************************************************)
EXTENDS Naturals

CONSTANT MaxThreads

Slots == 0 .. MaxThreads - 1

\* VersionVec::new(max_threads): every entry zero.
ZeroVV == [u \in Slots |-> 0]

\* VersionVec::join: pointwise maximum.
JoinVV(a, b) == [u \in Slots |-> IF a[u] >= b[u] THEN a[u] ELSE b[u]]

\* VersionVec::inc / `vv[id] += 1`.
IncVV(a, u) == [a EXCEPT ![u] = @ + 1]

\* PartialOrd for VersionVec: a <= b pointwise.
LeqVV(a, b) == \A u \in Slots : a[u] <= b[u]

=============================================================================
