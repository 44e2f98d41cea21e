------------------------- MODULE SequentialInvariant -------------------------
(***************************************************************************)
(* The inductive invariant that ties the rounds to sequential execution,   *)
(* for transactions whose read sets are complete.                          *)
(***************************************************************************)
EXTENDS SchedulerInvariant

(* What a transaction does, unless it is refused, depends on the words it  *)
(* reads only: the read set is complete.  A refused one records nothing,   *)
(* and may be accepted on another state.                                   *)
ASSUME ReadsAssumption ==
  \A p \in Programs, s \in States :
    LET out == Deliver(p, s)
    IN  out.result # "err" =>
          \A t \in States : (\A k \in out.reads : s[k] = t[k]) => Deliver(p, t) = out

\* In a validation phase: the task has not been, and is not being, invalidated.
Sound(i) ==
  /\ status[i] \in {"executed", "validated"}
  /\ pc[i] \in {"idle", "validate", "check"}

(* The reads of a task that were checked are still valid unless a task     *)
(* before it has been invalidated, or is about to be run again.            *)
CheckedOK(i) ==
  i >= lastStoreIdx /\ (\A j \in Tasks : j <= i => Sound(j)) =>
    /\ pc[i] = "check" /\ valid[i] =>
         \A k \in Keys \ todo[i] : ReadValid(i, k, parentStore)
    /\ pc[i] = "idle" => \A k \in Keys : ReadValid(i, k, parentStore)

(* Each task that has been written back did what its transaction does on   *)
(* the state the tasks before it leave.                                    *)
CommittedStep(i) == Replayed[i + 1] = Ideal!CommitTransaction(txs[i], Replayed[i])

(* Each word of the parent state was written back, or was there before.    *)
ParentOK ==
  \A k \in Keys :
    \/ parentStore[k] = InitState[k]
    \/ \E j \in Tasks : /\ j < lastStoreIdx
                        /\ multiVersionMap[k][j].kind = "value"
                        /\ multiVersionMap[k][j].value = parentStore[k]

SequentialInv ==
  /\ phase \in {"loop", "validate"} => \A i \in Tasks : CheckedOK(i)
  /\ phase = "execute" => status[lastStoreIdx] # "validated"
  /\ phase = "sync" => synchronous
  /\ \A i \in Tasks : i < lastStoreIdx =>
       CommittedStep(i) /\ \A k \in Keys : ~IsEstimate(multiVersionMap[k][i])
  /\ InRounds => ParentOK
  /\ phase = "done" /\ ~synchronous => SequentialResult

=============================================================================
