------------------------- MODULE SchedulerInvariant -------------------------
(***************************************************************************)
(* The inductive invariant of the rounds: what holds of one task at every  *)
(* step of its worker, and of the incarnations of a round together.        *)
(***************************************************************************)
EXTENDS SchedulerCorrectness

InRounds == phase \in {"loop", "execute", "validate"}

-----------------------------------------------------------------------------
(* One task.                                                               *)

\* The read set of a run that has read the words of these keys in state s.
ReadsOf(keys, s) == [k \in Keys |-> IF k \in keys THEN {s[k]} ELSE {}]

\* The version a run with these writes leaves of a key.
HoldsWrite(version, writes, k) ==
  IF k \in DOMAIN writes THEN version.kind = "value" /\ version.value = writes[k]
                         ELSE version.kind = "none"

\* What the task has published is a run of its transaction on s.
Ran(i, s) ==
  /\ Deliver(txs[i], s).result # "err"
  /\ txReadSets[i] = ReadsOf(Deliver(txs[i], s).reads, s)
  /\ \A k \in Keys : HoldsWrite(multiVersionMap[k][i], Deliver(txs[i], s).writes, k)

\* Nothing of an earlier run is left but estimates.
Clean(i) ==
  /\ txReadSets[i] = NoReads
  /\ \A k \in Keys : multiVersionMap[k][i].kind # "value"

(* While a task runs, its tracer has what the transaction does on the      *)
(* parent state, which no round changes after its start.                   *)
TracerOK(i) ==
  /\ pc[i] \notin {"run", "publish"} => readset[i] = NoReads
  /\ pc[i] \in {"run", "publish"} =>
       outcome[i] = Deliver(txs[i], parentStore) /\ outcome[i].result # "err"
  /\ pc[i] = "run" =>
       /\ todo[i] \subseteq outcome[i].reads
       /\ readset[i] = ReadsOf(outcome[i].reads \ todo[i], parentStore)
  /\ pc[i] = "publish" => readset[i] = ReadsOf(outcome[i].reads, parentStore)

(* The status says how far the task has come, in and between the phases.   *)
StatusOK(i) ==
  /\ pc[i] \in {"queued", "run", "max", "store"} => status[i] = "pending"
  /\ pc[i] = "publish" => status[i] \in {"executed", "aborted"}
  /\ pc[i] \in {"check", "invalidate"} => status[i] \in {"executed", "validated"}
  /\ pc[i] \in {"depend", "wait"} => status[i] \in {"executed", "validated", "waiting"}
  /\ phase \in {"loop", "validate"} =>
       /\ i \in toExecute <=> pc[i] = "idle" /\ status[i] = "pending"
       /\ pc[i] = "idle" => status[i] \in {"pending", "validated", "waiting"}
  /\ InRounds => (response[i] <=> status[i] \in {"executed", "validated", "waiting"})

(* A task that is to run again has been invalidated first.                 *)
CleanOK(i) ==
  /\ status[i] \in {"pending", "aborted", "waiting"} => Clean(i)
  /\ pc[i] \in {"depend", "wait", "reset", "max", "store"} => Clean(i)
  /\ pc[i] = "invalidate" =>
       \A k \in Keys \ todo[i] : multiVersionMap[k][i].kind # "value"

(* A task that has run and was not invalidated since holds one run.        *)
ResultOK(i) ==
  /\ status[i] \in {"executed", "validated"} /\ pc[i] \in {"idle", "validate", "check"} =>
       \E s \in States : Ran(i, s)
  /\ status[i] = "executed" /\ pc[i] = "publish" =>
       \A k \in Keys \ todo[i] :
         HoldsWrite(multiVersionMap[k][i], outcome[i].writes, k)

(* findConflicts reports a conflict only with an invalid read.             *)
CheckOK(i) ==
  /\ pc[i] \notin {"check", "invalidate"} => valid[i] /\ conflicts[i] = {}
  /\ pc[i] = "check" /\ valid[i] => conflicts[i] = {}

TaskOK(i) == TracerOK(i) /\ StatusOK(i) /\ CleanOK(i) /\ ResultOK(i) /\ CheckOK(i)

(* A task that has been written back is left alone.                        *)
CommittedOK ==
  /\ \A i \in Tasks : i < lastStoreIdx => status[i] = "validated" /\ pc[i] = "idle"
  /\ phase = "execute" => toExecute = {}
  /\ phase = "sync" => lastStoreIdx <= syncIdx

RoundsInv == (InRounds => \A i \in Tasks : TaskOK(i)) /\ CommittedOK

-----------------------------------------------------------------------------
(* The incarnations of a round.                                            *)

(* With m the highest incarnation the round began with, no task gets above *)
(* m + 1, and only m + 1 is ever stored.                                   *)
IncarnationsBelow(m) ==
  /\ maxIncarnation \in {m, m + 1}
  /\ \A i \in Tasks :
       /\ pc[i] = "idle" => incarnation[i] <= maxIncarnation
       /\ pc[i] \notin {"idle", "max", "store"} => incarnation[i] <= m
       /\ pc[i] = "max" => incarnation[i] <= m + 1
       /\ pc[i] = "store" => incarnation[i] = m + 1
  /\ \E i \in Tasks :
       \/ incarnation[i] = maxIncarnation
       \/ incarnation[i] = maxIncarnation + 1 /\ pc[i] \in {"max", "store"}

IncarnationInv ==
  /\ phase = "validate" => \E m \in 0 .. maxIncarnation : IncarnationsBelow(m)
  /\ phase \in {"loop", "execute"} =>
       /\ \A i \in Tasks : incarnation[i] <= maxIncarnation
       /\ \E i \in Tasks : incarnation[i] = maxIncarnation

=============================================================================
