-------------------------- MODULE UpdateInvariant --------------------------
(***************************************************************************)
(* The inductive invariants for blocks of updates: every executor of a     *)
(* round reads all that has been committed, a task at the front costs two  *)
(* rounds, and the fallback ends what the rounds have begun.               *)
(***************************************************************************)
EXTENDS SequentialInvariant

-----------------------------------------------------------------------------
(* The rounds.                                                             *)

(* Every value the task has in the store is one that its transaction       *)
(* writes on s, and what it has published is the run on s.                 *)
RunsOn(i, s) ==
  /\ \A k \in Keys : multiVersionMap[k][i].kind = "value" =>
       /\ Deliver(txs[i], s).result # "err"
       /\ k \in DOMAIN Deliver(txs[i], s).writes
       /\ multiVersionMap[k][i].value = Deliver(txs[i], s).writes[k]
  /\ Sound(i) => Ran(i, s)

\* No task from lastStoreIdx up to the reader holds a version of the key.
Untouched(j, k) ==
  \A i \in Tasks : lastStoreIdx <= i /\ i < j => multiVersionMap[k][i].kind = "none"

(* A read that validates is of a key that nobody in between has written:   *)
(* any version there would have changed the word.                          *)
ReadsUntouched(j) ==
  /\ status[j] = "validated" /\ pc[j] = "idle" => \A k \in KeysRead(j) : Untouched(j, k)
  /\ pc[j] = "check" /\ valid[j] => \A k \in KeysRead(j) \ todo[j] : Untouched(j, k)

UpdateInv ==
  InRounds /\ UpdatesOnly =>
    /\ parentStore = Replayed[lastStoreIdx]
    /\ \A i \in Tasks : i >= lastStoreIdx => RunsOn(i, parentStore)
    /\ phase \in {"loop", "validate"} =>
         \A j \in Tasks : j >= lastStoreIdx => ReadsUntouched(j)

-----------------------------------------------------------------------------
(* How many rounds a task at the front can take.                           *)

Below(i) == {j \in Tasks : j < i}

(* A task waits on tasks before it only.                                   *)
WaitsBelow(i) ==
  /\ dependencies[i] \subseteq Below(i)
  /\ conflicts[i] \subseteq Below(i)
  /\ abortCh[i] \in Below(i) \cup {NoTask}
  /\ pc[i] # "run" => abortCh[i] = NoTask

(* Between rounds: a task that has been left waiting has one round less.   *)
FrontBetween(start) ==
  /\ iterations <= 2 * start
  /\ status[start] = "waiting" => iterations < 2 * start

(* In the execution phase the task at the front neither fails nor aborts.  *)
FrontExecutes(front) ==
  /\ status[front] \in {"pending", "executed", "waiting"}
  /\ pc[front] = "idle" => status[front] # "pending"
  /\ abortCh[front] = NoTask
  /\ FrontBetween(front)

(* In the validation phase it is validated if it was executed, and         *)
(* otherwise it is reset, since all it can wait on is validated.           *)
FrontValidates(front) ==
  \/ /\ status[front] \in {"executed", "validated"}
     /\ pc[front] \in {"validate", "check", "idle"}
     /\ pc[front] = "idle" => status[front] = "validated"
     /\ pc[front] = "check" => valid[front]
     /\ iterations <= 2 * front
  \/ /\ status[front] = "waiting"
     /\ pc[front] \in {"validate", "depend", "reset"}
     /\ pc[front] = "depend" => depsLeft[front] \subseteq Below(front)
     /\ iterations < 2 * front
  \/ /\ status[front] = "pending"
     /\ pc[front] \in {"max", "store", "idle"}
     /\ iterations < 2 * front

\* None fails when its turn comes.
NoneRefused == \A i \in Tasks : Deliver(txs[i], Sequential[i]).result # "err"

WaitInv == InRounds /\ UpdatesOnly => \A i \in Tasks : WaitsBelow(i)

FrontInv ==
  UpdatesOnly /\ NoneRefused =>
    /\ phase = "loop" => \A start \in Tasks : FirstNonValidated(start) => FrontBetween(start)
    /\ phase = "execute" => FrontExecutes(lastStoreIdx)
    /\ phase = "validate" => FrontValidates(lastStoreIdx)

-----------------------------------------------------------------------------
(* The fallback.                                                           *)

\* The keys the transaction writes when its turn comes.
WritesOf(i) == DOMAIN Deliver(txs[i], Sequential[i]).writes

(* Once it has run, a task has a version, or an estimate, of every key it  *)
(* is going to write.                                                      *)
HeldInv ==
  SteadyUpdates =>
    /\ phase = "loop" => toExecute = Tasks \/ \A i \in Tasks : txWritesetKeys[i] = WritesOf(i)
    /\ phase = "execute" =>
         \A i \in Tasks : pc[i] = "idle" => txWritesetKeys[i] = WritesOf(i)
    /\ phase = "validate" => \A i \in Tasks : txWritesetKeys[i] = WritesOf(i)

(* A task the fallback has not come to yet is as the rounds left it: a     *)
(* validated one read no key that a task before it is going to write.      *)
LeftOver(j) ==
  \/ /\ status[j] = "validated" /\ response[j]
     /\ Ran(j, Sequential[lastStoreIdx])
     /\ \A k \in KeysRead(j), i \in Tasks :
          lastStoreIdx <= i /\ i < j => k \notin WritesOf(i)
  \/ status[j] \in {"pending", "waiting"} /\ Clean(j)

(* The tasks before it are committed, and the parent state is that of a    *)
(* prefix from which the next write-back goes on.                          *)
FallbackInv ==
  phase = "sync" /\ SteadyUpdates =>
    /\ \A i \in Tasks : i < syncIdx =>
         /\ CommittedStep(i)
         /\ response[i]
         /\ \A k \in Keys : /\ ~IsEstimate(multiVersionMap[k][i])
                            /\ lastStoreIdx <= i /\ k \notin WritesOf(i) =>
                                 multiVersionMap[k][i].kind = "none"
    /\ \A j \in Tasks : j >= syncIdx => LeftOver(j)
    /\ \E m \in lastStoreIdx .. syncIdx : parentStore = Replayed[m] /\ syncStoreIdx <= m

SteadyInv ==
  /\ HeldInv
  /\ FallbackInv
  /\ InRounds => ~synchronous
  /\ ParallelIsSequential

=============================================================================
