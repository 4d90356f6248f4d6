----------------------------- MODULE MCPreempt -----------------------------
(***************************************************************************)
(* Spec 8.6, bounded_preemption_reduces_space: the same test explored    *)
(* twice, as a test that builds two Builders would: first exhaustively   *)
(* (the path of Init, with PreemptionBound = None), then, once that       *)
(* driver loop is done, with a fresh Path::new(max_branches, Some(0)).    *)
(* firstTapes remembers how many paths the first exploration replayed.   *)
(***************************************************************************)
EXTENDS MCBlocking

VARIABLE firstTapes

\* Spec 8.3 with two increments per child, main joining both and reading.
ScenarioPrograms == {Two(Incs(1, 2), Incs(2, 2), <<Join(1), Join(2), Ld(X, "Relaxed")>>)}

\* The bound of the second exploration.
SecondBound == 0

BothInit == Init /\ firstTapes = None

\* The second model run: the engine starts over on a path with bound 0;
\* the outcomes seen so far are kept, the replay count starts again.
Restart ==
  /\ status = "done" /\ firstTapes = None
  /\ firstTapes' = Cardinality(tapes)
  /\ Unpack(Fresh(NewPath(SecondBound)))
  /\ status' = "running"
  /\ tapes' = {}
  /\ UNCHANGED <<prog, explored>>

BothNext == (Next /\ UNCHANGED firstTapes) \/ Restart

BothSpec == BothInit /\ [][BothNext]_<<vars, firstTapes>>

(***************************************************************************)
(* Spec 8.6: with preemption bound 0 the counter test explores strictly   *)
(* fewer paths than without a bound, and both explorations end with every *)
(* replay passing (no panic) and outcomes of serial orders only.  It     *)
(* fails if Schedule::backtrack ignores the bound (path.rs 291), so that *)
(* the bounded search is as large as the exhaustive one.                   *)
(***************************************************************************)
BoundReducesSpace ==
  /\ status \in {"running", "done"}
  /\ explored \subseteq SerialOutcomes(prog)
  /\ firstTapes # None /\ status = "done" => Cardinality(tapes) < firstTapes

=============================================================================
