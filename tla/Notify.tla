------------------------------- MODULE Notify -------------------------------
(***************************************************************************)
(* The park/unpark gate (src/src/rt/notify.rs), used by JoinHandle: a     *)
(* spawned thread notifies its gate when its body returns, and `join`     *)
(* waits on it.  The engine record s carries                               *)
(*   notifies : [NotifyIds -> [seqcst, notified, sync, last]]             *)
(* Each Notify call is split at its branch point: the part before the     *)
(* branch (the caller's suspension) lives in Execution, the part after it *)
(* is an operator here.                                                   *)
(***************************************************************************)
EXTENDS Atomic

\* Notify::new
NewNotify(seqcst) == [seqcst |-> seqcst, notified |-> FALSE, sync |-> ZeroVV, last |-> None]

\* The object a pending operation names.
NotifyObj(n) == [kind |-> "notify", id |-> n]

(***************************************************************************)
(* Notify::notify after its branch: release into the gate, set the flag,   *)
(* and unpark every other thread whose pending operation is on this gate.  *)
(***************************************************************************)
notify(s, n) ==
  LET s1 == [s EXCEPT !.notifies[n].sync = SyncStoreVV(s, @, "Release")]
      s2 == IF s.notifies[n].seqcst THEN seq_cst(s1) ELSE s1
      s3 == [s2 EXCEPT !.notifies[n].notified = TRUE]
      waiting == {u \in DOMAIN s3.threads \ {s3.active} :
                    s3.threads[u].op # None /\ s3.threads[u].op.obj = NotifyObj(n)}
      woken == [u \in DOMAIN s3.threads |->
                  IF u \in waiting
                  THEN ThreadUnpark(s3.threads[u], s3.threads[s3.active])
                  ELSE s3.threads[u]]
  IN [s3 EXCEPT !.threads = woken]

(***************************************************************************)
(* Notify::wait before its branch: when not yet notified the thread is    *)
(* blocked (branch_acquire(true)); in both cases its pending operation is *)
(* on the gate, which is what `notify` looks for.                          *)
(***************************************************************************)
WaitBranch(s, n) ==
  [s EXCEPT !.threads[s.active].op = [obj |-> NotifyObj(n), act |-> "Opaque"],
            !.threads[s.active] = IF s.notifies[n].notified THEN @ ELSE set_blocked(@)]

\* Notify::wait after its branch asserts the gate was notified.
WaitAssertOk(s, n) == s.notifies[n].notified

\* Notify::wait after its branch: acquire from the gate and consume the flag.
\* Mutant of wait: the synchronisation block is dropped, only the flag is consumed.
wait_NoSync(s, n) == [s EXCEPT !.notifies[n].notified = FALSE]

\* Notify::wait after its branch: acquire from the gate and consume the flag.
wait(s, n) ==
  LET s1 == sync_load(s, s.notifies[n].sync, "Acquire")
      s2 == IF s.notifies[n].seqcst THEN seq_cst(s1) ELSE s1
  IN [s2 EXCEPT !.notifies[n].notified = FALSE]

=============================================================================
