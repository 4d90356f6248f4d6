--------------------------- MODULE ExecutionStep ---------------------------
(***************************************************************************)
(* Execution::step exactly as written in src/src/rt/execution.rs: after   *)
(* the path advanced, it calls threads.clear(), which already pushes the  *)
(* root thread (thread.rs Set::clear), and then threads.new_thread(),     *)
(* which pushes a second one.  Execution models the reset the spec        *)
(* describes; this module replaces it by the coded one.                   *)
(***************************************************************************)
EXTENDS MCExecution

\* Execution::step: clear objects, advance the path, clear the threads and
\* push one more thread.
CodedNextReplay ==
  /\ status = "running"
  /\ active = None
  /\ check_for_leaks(Rec)
  /\ explored' = explored \cup {obs}
  /\ tapes' = tapes \cup {Decisions(path)}
  /\ LET r == step(path) IN
       IF r.more
       THEN Unpack([Fresh(r.path) EXCEPT !.threads = push_thread(RootThreads)])
            /\ UNCHANGED status
       ELSE /\ status' = "done"
            /\ path' = r.path
            /\ UNCHANGED <<threads, active, seqcst, objects, pc, obs>>
  /\ UNCHANGED prog

\* The store-buffering test alone.
SBSeqCstOnly == {SB("SeqCst", "SeqCst")}

CodedSpec == Init /\ [][Run \/ CodedNextReplay]_vars

(***************************************************************************)
(* Spec section 3 (Lifecycle): between replays the thread set is reset to *)
(* a single Runnable thread, so every replay starts with the main thread  *)
(* alone in slot 0, as the first one does.                                *)
(***************************************************************************)
ResetToSingleThread == (\A u \in Slots : pc[u] = 0) => DOMAIN threads = {0}

=============================================================================
