------------------------ MODULE SchedulerCorrectness ------------------------
(***************************************************************************)
(* What ProcessAll promises: the effect of the block executed one          *)
(* transaction after the other (chain.Executor.CommitTransaction), and the *)
(* invariants of the rounds that make it so.                               *)
(***************************************************************************)
EXTENDS Scheduler

(* The states that the versions of tasks 0 .. n - 1 stand for.             *)
Replayed == Replay(multiVersionMap, InitState)

(* What a caller can see of the block: while the rounds go on, the tasks   *)
(* below lastStoreIdx and the state their versions stand for; in the end,  *)
(* the parent state.                                                       *)
Ideal == INSTANCE SequentialBlock WITH
  committed <- IF phase = "done" THEN N ELSE lastStoreIdx,
  state     <- IF phase = "done" THEN parentStore ELSE Replayed[lastStoreIdx]

\* The state after the first n transactions of the block, in order.
Sequential == Ideal!Sequential

-----------------------------------------------------------------------------
(* The tasks below lastStoreIdx did what sequential execution does, and    *)
(* none of their versions is an estimate.  This is what the parallel       *)
(* rounds are for: lastStoreIdx is never moved back, so a wrong value      *)
(* below it is never revisited (scheduler.go:292-325).                     *)
CommittedIsSequential ==
  /\ Replayed[lastStoreIdx] = Sequential[lastStoreIdx]
  /\ \A k \in Keys, i \in Tasks :
       i < lastStoreIdx => ~IsEstimate(multiVersionMap[k][i])

(* Executors only ever read committed values: each word of the parent      *)
(* state is one that sequential execution of some committed prefix of the  *)
(* block leaves there, never one of a task that may still be re-executed.  *)
(* It need not be the latest, since WriteLatestToStoreUntil skips a key    *)
(* that a later task wrote (store.go:313-316).                             *)
ParentIsCommitted ==
  phase \in {"loop", "execute", "validate"} =>
    \A k \in Keys : \E n \in 0 .. lastStoreIdx : parentStore[k] = Sequential[n][k]

(* Every transaction of the block updates: unless it is refused, it meets  *)
(* no SELFDESTRUCT, and it reads, and changes, every word that it writes,  *)
(* whichever of the states before its turn it runs on.  Counters, and      *)
(* transfers that leave no balance as it was, do so.                       *)
UpdatesOnly ==
  LET seq == Sequential
  IN  \A i \in Tasks : \A n \in 0 .. i :
        LET out == Deliver(txs[i], seq[n])
        IN  out.result # "err" =>
              /\ out.result = "ok"
              /\ \A k \in DOMAIN out.writes : k \in out.reads /\ out.writes[k] # seq[n][k]

(* They are steady when, besides, none is refused on one of those states,  *)
(* and each writes the same keys on all of them.                           *)
SteadyUpdates ==
  /\ UpdatesOnly
  /\ LET seq == Sequential
     IN  \A i \in Tasks : \A n \in 0 .. i :
           /\ Deliver(txs[i], seq[n]).result # "err"
           /\ DOMAIN Deliver(txs[i], seq[n]).writes = DOMAIN Deliver(txs[i], seq[i]).writes

(* In a block of updates the parent state is the latest: the executors of  *)
(* a round read all that has been committed.  The write-back skips a key   *)
(* that a task beyond the prefix has written (store.go:313-316); such a    *)
(* task is validated, so nobody between has changed the key it read.       *)
UpdatesSeeLatest ==
  phase \in {"loop", "execute", "validate"} /\ UpdatesOnly =>
    parentStore = Sequential[lastStoreIdx]

\* The result of sequential execution, with a response for every transaction.
SequentialResult == parentStore = Sequential[N] /\ \A i \in Tasks : response[i]

(* When ProcessAll returns without the synchronous fallback, the state is  *)
(* that of sequential execution and every transaction has a response       *)
(* (scheduler.go:327-329; processor_test.go compares the two roots).  With *)
(* the fallback the same holds for steady updates: its second validation   *)
(* agrees, and no transaction meets an estimate (scheduler.go:332-345).    *)
ParallelIsSequential ==
  phase = "done" /\ (~synchronous \/ SteadyUpdates) => SequentialResult

(* ProcessAll implements the sequential block: with or without the         *)
(* fallback, the committed prefix only grows, its state is always the      *)
(* sequential one, and when ProcessAll returns all of the block is         *)
(* committed (scheduler.go:289-330).  It is checked for blocks of two      *)
(* accounts' transfers, some of which are refused.                         *)
ImplementsSequential == Ideal!Spec

(* For every block, the same up to the return of the fallback, and for     *)
(* steady updates that one too: each step of ProcessAll is a step of the   *)
(* sequential block, which commits the tasks a round has validated         *)
(* (scheduler.go:307-310) or all that are left (:327-329), or one that a   *)
(* caller does not see.                                                    *)
RoundsImplementSequential ==
  /\ Ideal!Init
  /\ [][\/ [Ideal!Next]_(Ideal!vars)
        \/ synchronous /\ phase' = "done" /\ ~SteadyUpdates]_vars

(* No step of any worker touches a task that has been written back: its    *)
(* status, its incarnation, its response and its versions stay.  Its read  *)
(* set would no longer validate, since the parent state now holds its own  *)
(* writes; only starting at the first task that is not validated keeps it  *)
(* from being invalidated (scheduler.go:398-405).                          *)
CommittedIsFinal ==
  [][\A i \in Tasks : i < lastStoreIdx =>
       /\ status'[i] = status[i]
       /\ incarnation'[i] = incarnation[i]
       /\ response'[i] = response[i]
       /\ \A k \in Keys : multiVersionMap'[k][i] = multiVersionMap[k][i]]_vars

(* maxIncarnation is the highest incarnation at the end of every round,    *)
(* although the workers compare and store it in two steps                  *)
(* (scheduler.go:414-416): all that store in one round store the same.     *)
MaxIncarnationExact ==
  phase = "loop" =>
    /\ \A i \in Tasks : incarnation[i] <= maxIncarnation
    /\ \E i \in Tasks : incarnation[i] = maxIncarnation

(* Between rounds no task is forgotten: one that is not validated is       *)
(* either in the next round, reset, or waits, and then it has been         *)
(* invalidated: no read set, no version that is not an estimate            *)
(* (scheduler.go:341-377, 412-418).                                        *)
NoTaskForgotten ==
  phase = "loop" =>
    \A i \in Tasks : status[i] # "validated" =>
      /\ ~response[i] <=> i \in toExecute
      /\ status[i] = IF i \in toExecute THEN "pending" ELSE "waiting"
      /\ KeysRead(i) = {}
      /\ \A k \in Keys : multiVersionMap[k][i].kind # "value"

(* A task has a version of a key exactly when the key is in its recorded   *)
(* write set, at every moment it is not publishing one: a version that     *)
(* was not recorded would outlive its incarnation (store.go:107-159).      *)
VersionsRecorded ==
  \A i \in Tasks, k \in Keys : pc[i] # "publish" =>
    (i \in Held(multiVersionMap[k]) <=> k \in txWritesetKeys[i])

(* Workers are busy only in the phase they belong to, which the two        *)
(* WaitGroups see to, and rounds stay below the limit.                     *)
PhaseOK ==
  /\ phase \in {"loop", "sync", "done"} => AllIdle
  /\ phase = "execute" => \A i \in Tasks : pc[i] \in {"idle"} \cup Executing
  /\ phase = "validate" => \A i \in Tasks : pc[i] \in {"idle"} \cup Validating
  /\ phase \in {"execute", "validate"} => iterations < MaxIterations

(* VersionsRecorded for one task, made inductive: while the task publishes *)
(* its write set, a key it has gone through has a version exactly if the   *)
(* new write set names it; and only recorded keys are turned to estimates. *)
TaskRecorded(i) ==
  /\ \A k \in Keys : pc[i] # "publish" =>
       (i \in Held(multiVersionMap[k]) <=> k \in txWritesetKeys[i])
  /\ pc[i] = "publish" =>
       \A k \in Keys : k \notin todo[i] =>
         (i \in Held(multiVersionMap[k]) <=> k \in DOMAIN outcome[i].writes)
  /\ pc[i] = "invalidate" => todo[i] \subseteq txWritesetKeys[i]

(* In a block of updates of which none fails when its turn comes, a task   *)
(* costs at most two rounds once the tasks before it are validated: one    *)
(* that executes it, and one more if it read the status of its dependency  *)
(* too early and was left waiting (scheduler.go:357-374).  So a chain of   *)
(* five transactions or fewer stays within maximumIterations.              *)
RoundsPerTask ==
  /\ phase = "loop"
  /\ UpdatesOnly
  /\ \A i \in Tasks : Deliver(txs[i], Sequential[i]).result # "err"
  => \A start \in Tasks : FirstNonValidated(start) => iterations <= 2 * start

(* ProcessAll returns: tasks that wait on each other, abort for ever or    *)
(* fail for ever end in the synchronous pass (scheduler.go:295-305).       *)
Termination == <>(phase = "done")

-----------------------------------------------------------------------------
(* What comments and tests of the repository say, and the code does not do *)
(* for every block.                                                        *)

(* The state ProcessAll leaves is that of sequential execution, with or    *)
(* without the fallback (processor_test.go:238, `assert.Equal(t, root,     *)
(* rootSequential)`).  It fails when WriteLatestToStoreUntil passes over a *)
(* committed value because a later task holds a version of the key: the    *)
(* tasks between read a stale parent state, in every round and in          *)
(* processAllSync (store.go:304-316).  The later task may have written     *)
(* blindly, or was validated before the task between them wrote, or        *)
(* because that one wrote the stale word again (store.go:263).             *)
AlwaysSequential == phase = "done" => parentStore = Sequential[N]

(* "validated tasks can become unvalidated if an earlier re-run task now   *)
(* conflicts" (scheduler.go:347): a task whose versions were invalidated   *)
(* does not end as validated, its writes lost.                             *)
ValidatedKeepsVersions ==
  phase = "done" =>
    \A i \in Tasks, k \in Keys :
      status[i] = "validated" => ~IsEstimate(multiVersionMap[k][i])

(* Every transaction that sequential execution does not refuse gets a      *)
(* response (processor_test.go:241, a receipt with status 1 for each).  A  *)
(* transaction that meets SELFDESTRUCT does not, although it "Need[s]       *)
(* sequential execution" (tracer.go:179), since it aborts there too; nor   *)
(* does one that reads a key of which a transaction that has come to fail  *)
(* has left an estimate (scheduler.go:493-496).                            *)
SuccessfulIsExecuted ==
  phase = "done" =>
    \A i \in Tasks : Deliver(txs[i], Sequential[i]).result # "err" => response[i]

=============================================================================
