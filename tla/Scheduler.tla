------------------------------ MODULE Scheduler ------------------------------
(***************************************************************************)
(* One call of scheduler.ProcessAll (scheduler/scheduler.go) on a block of *)
(* N transactions: rounds of parallel execution followed by parallel       *)
(* validation until every task is validated, or, after MaxIterations       *)
(* rounds, a sequential pass over the tasks that are left.                 *)
(*                                                                         *)
(* The main goroutine takes the steps of the loop (phase).  A worker that  *)
(* executes or validates task i takes the steps of task i (pc[i]); a task  *)
(* is never in two workers.  A worker step touches shared state once: one  *)
(* key's versions, one task's status, or maxIncarnation.                   *)
(*                                                                         *)
(* What ApplyTransaction does to a state is external: Deliver(tx, state)   *)
(* gives the keys a transaction reads and the values it writes there, as   *)
(* the tracer records them, or the error that discards it.                 *)
(***************************************************************************)
EXTENDS MultiVersionStore, FiniteSets

CONSTANTS
  Workers,        \* s.workers: size of the execution pool, 0 for one per task
  MaxIterations,  \* maximumIterations
  Programs,       \* the transactions
  Blocks,         \* the blocks ProcessAll is called with
  Deliver(_, _)   \* external: the outcome of a transaction on a state

NoTask == -1

\* "selfdestruct" is an execution that succeeds but meets that opcode.
Outcomes == [result : {"ok", "err", "selfdestruct"},
             reads  : SUBSET Keys,
             writes : WriteSet]

NoOutcome == [result |-> "err", reads |-> {}, writes |-> [k \in {} |-> Zero]]

ASSUME WorkersAssumption == Workers \in Int
ASSUME MaxIterationsAssumption == MaxIterations \in Nat
ASSUME BlocksAssumption == Blocks \subseteq [Tasks -> Programs]
ASSUME DeliverAssumption ==
  \A p \in Programs, s \in States : Deliver(p, s) \in Outcomes

VARIABLES
  (* ProcessAll *)
  txs,             \* task -> its transaction
  phase,           \* where the main goroutine is
  iterations,      \* completed rounds
  lastStoreIdx,    \* tasks below it were written back to the parent state
  toExecute,       \* tasks of the next round: what validateAll received
  synchronous,     \* the fallback was entered
  maxIncarnation,  \* highest incarnation
  syncIdx,         \* processAllSync: the task at hand
  syncStoreIdx,    \* processAllSync: its own lastStoreIdx
  (* DeliverTxTask *)
  status, incarnation, dependencies,
  response,        \* task -> whether Response is set
  (* AccessListTracer and State of a running task *)
  outcome,         \* task -> what its run on the copy of the parent state does
  readset,         \* task -> values read so far
  abortCh,         \* task -> content of its abort channel
  (* the worker that has the task *)
  pc,              \* task -> where its worker is
  todo,            \* task -> keys the current loop has left
  valid, conflicts, \* task -> result of findConflicts so far
  depsLeft         \* task -> dependencies that dependenciesValidated has left

mainVars   == <<txs, phase, iterations, lastStoreIdx, synchronous>>
syncVars   == <<syncIdx, syncStoreIdx>>
taskVars   == <<status, incarnation, dependencies, response>>
tracerVars == <<outcome, readset, abortCh>>
checkVars  == <<valid, conflicts, depsLeft>>
vars == <<storeVars, mainVars, syncVars, toExecute, maxIncarnation, taskVars,
          tracerVars, checkVars, pc, todo>>

Phases   == {"loop", "execute", "validate", "sync", "done"}
Statuses == {"pending", "executed", "aborted", "validated", "waiting"}
Executing  == {"queued", "run", "publish"}
Validating == {"validate", "check", "invalidate", "depend", "wait", "reset",
               "max", "store"}

TypeOK ==
  /\ StoreTypeOK
  /\ txs \in Blocks
  /\ phase \in Phases
  /\ iterations \in 0 .. MaxIterations
  /\ lastStoreIdx \in Tasks
  /\ toExecute \subseteq Tasks
  /\ synchronous \in BOOLEAN
  /\ maxIncarnation \in Nat
  /\ syncIdx \in 0 .. N
  /\ syncStoreIdx \in Tasks
  /\ status \in [Tasks -> Statuses]
  /\ incarnation \in [Tasks -> Nat]
  /\ dependencies \in [Tasks -> SUBSET Tasks]
  /\ response \in [Tasks -> BOOLEAN]
  /\ outcome \in [Tasks -> Outcomes]
  /\ readset \in [Tasks -> ReadSet]
  /\ abortCh \in [Tasks -> Tasks \cup {NoTask}]
  /\ pc \in [Tasks -> {"idle"} \cup Executing \cup Validating]
  /\ todo \in [Tasks -> SUBSET Keys]
  /\ valid \in [Tasks -> BOOLEAN]
  /\ conflicts \in [Tasks -> SUBSET Tasks]
  /\ depsLeft \in [Tasks -> SUBSET Tasks]

Init ==
  /\ StoreInit
  /\ txs \in Blocks
  /\ phase = "loop"
  /\ iterations = 0
  /\ lastStoreIdx = 0
  /\ toExecute = Tasks
  /\ synchronous = FALSE
  /\ maxIncarnation = 0
  /\ syncIdx = 0
  /\ syncStoreIdx = 0
  /\ status = [i \in Tasks |-> "pending"]
  /\ incarnation = [i \in Tasks |-> 0]
  /\ dependencies = [i \in Tasks |-> {}]
  /\ response = [i \in Tasks |-> FALSE]
  /\ outcome = [i \in Tasks |-> NoOutcome]
  /\ readset = [i \in Tasks |-> NoReads]
  /\ abortCh = [i \in Tasks |-> NoTask]
  /\ pc = [i \in Tasks |-> "idle"]
  /\ todo = [i \in Tasks |-> {}]
  /\ valid = [i \in Tasks |-> TRUE]
  /\ conflicts = [i \in Tasks |-> {}]
  /\ depsLeft = [i \in Tasks |-> {}]

-----------------------------------------------------------------------------
(* ProcessAll, the main goroutine.                                         *)

AllValidated == \A i \in Tasks : status[i] = "validated"
AllIdle == \A i \in Tasks : pc[i] = "idle"

\* findFirstNonValidated returns start.
FirstNonValidated(start) ==
  /\ status[start] # "validated"
  /\ \A i \in Tasks : i < start => status[i] = "validated"

\* Mutant: one round more than maximumIterations.
StartRoundOnceMore(start) ==
  /\ phase = "loop"
  /\ FirstNonValidated(start)
  /\ iterations <= MaxIterations
  /\ phase' = "execute"
  /\ pc' = [i \in Tasks |-> IF i \in toExecute THEN "queued" ELSE "idle"]
  /\ toExecute' = {}
  /\ UNCHANGED <<storeVars, txs, iterations, lastStoreIdx, synchronous,
                 maxIncarnation, syncVars, taskVars, tracerVars, checkVars, todo>>

\* The tasks at the front of a round are written back to the parent state, and
\* executeAll sends the tasks to run to the pool.
StartRound(start) ==
  /\ phase = "loop"
  /\ FirstNonValidated(start)
  /\ iterations < MaxIterations
  /\ IF start > lastStoreIdx
     THEN /\ WriteLatestToStoreUntil(lastStoreIdx, start)
          /\ lastStoreIdx' = start
     ELSE UNCHANGED <<storeVars, lastStoreIdx>>
  /\ phase' = "execute"
  /\ pc' = [i \in Tasks |-> IF i \in toExecute THEN "queued" ELSE "idle"]
  /\ toExecute' = {}
  /\ UNCHANGED <<txs, iterations, synchronous, maxIncarnation, syncVars,
                 taskVars, tracerVars, checkVars, todo>>

HandOut(tasks) ==
  /\ phase = "execute"
  /\ AllIdle
  /\ phase' = "validate"
  /\ pc' = [i \in Tasks |-> IF i \in tasks THEN "validate" ELSE "idle"]
  /\ UNCHANGED <<storeVars, txs, iterations, lastStoreIdx, synchronous, syncVars,
                 toExecute, maxIncarnation, taskVars, tracerVars, checkVars, todo>>

\* Mutant: validated tasks are not validated again.
ValidateUnvalidated(start) ==
  /\ FirstNonValidated(start)
  /\ HandOut({i \in Tasks : status[i] # "validated"})

\* Mutant: every task is validated again, those written back too.
ValidateFromZero(start) ==
  /\ FirstNonValidated(start)
  /\ HandOut(Tasks)

\* wg.Wait returned: validateAll hands out every task from the first one that
\* is not validated, not only those just executed.
StartValidation(start) ==
  /\ FirstNonValidated(start)
  /\ HandOut({i \in Tasks : i >= start})

\* Mutant: a round in which every task left waits is not counted.
EndRoundWithWork ==
  /\ phase = "validate"
  /\ AllIdle
  /\ phase' = "loop"
  /\ iterations' = IF toExecute = {} THEN iterations ELSE iterations + 1
  /\ UNCHANGED <<storeVars, txs, lastStoreIdx, synchronous, syncVars, toExecute,
                 maxIncarnation, taskVars, tracerVars, checkVars, pc, todo>>

\* resChan is closed: the round is over.
EndRound ==
  /\ phase = "validate"
  /\ AllIdle
  /\ phase' = "loop"
  /\ iterations' = iterations + 1
  /\ UNCHANGED <<storeVars, txs, lastStoreIdx, synchronous, syncVars, toExecute,
                 maxIncarnation, taskVars, tracerVars, checkVars, pc, todo>>

\* Too many rounds: processAllSync takes over from the first task left.
GoSynchronous(start) ==
  /\ phase = "loop"
  /\ FirstNonValidated(start)
  /\ iterations >= MaxIterations
  /\ synchronous' = TRUE
  /\ phase' = "sync"
  /\ syncIdx' = start
  /\ syncStoreIdx' = 0
  /\ UNCHANGED <<storeVars, txs, iterations, lastStoreIdx, toExecute,
                 maxIncarnation, taskVars, tracerVars, checkVars, pc, todo>>

\* The loop is left: the last values of the store are written back.
Return ==
  /\ \/ phase = "loop" /\ AllValidated
     \/ phase = "sync" /\ syncIdx = N
  /\ WriteLatestToStore
  /\ phase' = "done"
  /\ UNCHANGED <<txs, iterations, lastStoreIdx, synchronous, syncVars, toExecute,
                 maxIncarnation, taskVars, tracerVars, checkVars, pc, todo>>

\* ProcessAll has returned.
Terminated == phase = "done" /\ UNCHANGED vars

-----------------------------------------------------------------------------
(* executeTask, in a worker of the execution pool.                         *)

NumWorkers == IF Workers < 1 \/ N < Workers THEN N ELSE Workers

Running == {i \in Tasks : pc[i] \in {"run", "publish"}}

\* prepareTask makes a new tracer and abort channel, the transaction starts on
\* a copy of the parent state; an error leaves the task as it was.
Begin(i) ==
  /\ pc[i] = "queued"
  /\ Cardinality(Running) < NumWorkers
  /\ LET out == Deliver(txs[i], parentStore)
     IN  IF out.result = "err"
         THEN /\ pc' = [pc EXCEPT ![i] = "idle"]
              /\ UNCHANGED <<outcome, todo>>
         ELSE /\ pc' = [pc EXCEPT ![i] = "run"]
              /\ outcome' = [outcome EXCEPT ![i] = out]
              /\ todo' = [todo EXCEPT ![i] = out.reads]
  /\ UNCHANGED <<storeVars, mainVars, syncVars, toExecute, maxIncarnation, taskVars,
                 readset, abortCh, checkVars>>

\* The channel holds one abort; a later one is discarded.
WriteAbort(i, dependent) ==
  abortCh' = [abortCh EXCEPT ![i] = IF @ = NoTask THEN dependent ELSE @]

\* The estimate, if any, that a read of the key by the task runs into.
EstimateBefore(index, key) ==
  {j \in LatestBefore(index, key) : IsEstimate(multiVersionMap[key][j])}

\* Mutant: the read is not added to the read set.
GetUnrecorded(i, k) ==
  /\ pc[i] = "run"
  /\ k \in todo[i]
  /\ todo' = [todo EXCEPT ![i] = @ \ {k}]
  /\ \/ EstimateBefore(i, k) = {} /\ UNCHANGED abortCh
     \/ \E j \in EstimateBefore(i, k) : WriteAbort(i, j)
  /\ UNCHANGED <<storeVars, mainVars, syncVars, toExecute, maxIncarnation, taskVars,
                 outcome, readset, checkVars, pc>>

\* tracer.Get: an estimate aborts the task, but the run goes on, and the value
\* read is the parent's whatever the store holds.
Get(i, k) ==
  /\ pc[i] = "run"
  /\ k \in todo[i]
  /\ todo' = [todo EXCEPT ![i] = @ \ {k}]
  /\ readset' = [readset EXCEPT ![i][k] = @ \cup {parentStore[k]}]
  /\ \/ EstimateBefore(i, k) = {} /\ UNCHANGED abortCh
     \/ \E j \in EstimateBefore(i, k) : WriteAbort(i, j)
  /\ UNCHANGED <<storeVars, mainVars, syncVars, toExecute, maxIncarnation, taskVars,
                 outcome, checkVars, pc>>

\* CaptureState meets SELFDESTRUCT: the task aborts on itself.
SelfDestruct(i) ==
  /\ pc[i] = "run"
  /\ outcome[i].result = "selfdestruct"
  /\ abortCh[i] = NoTask
  /\ WriteAbort(i, i)
  /\ UNCHANGED <<storeVars, mainVars, syncVars, toExecute, maxIncarnation, taskVars,
                 outcome, readset, checkVars, pc, todo>>

Delivered(i) ==
  /\ pc[i] = "run"
  /\ todo[i] = {}
  /\ outcome[i].result = "selfdestruct" => abortCh[i] # NoTask

\* removeOldWriteset takes the recorded keys; they and the new ones are to be
\* gone through.
TakeWriteset(i) ==
  /\ pc' = [pc EXCEPT ![i] = "publish"]
  /\ todo' = [todo EXCEPT ![i] = txWritesetKeys[i] \cup DOMAIN outcome[i].writes]
  /\ txWritesetKeys' = [txWritesetKeys EXCEPT ![i] = {}]
  /\ UNCHANGED <<multiVersionMap, txReadSets, parentStore>>

Aborted(i) ==
  /\ Delivered(i)
  /\ abortCh[i] # NoTask
  /\ status' = [status EXCEPT ![i] = "aborted"]
  /\ dependencies' = [dependencies EXCEPT ![i] = @ \cup {abortCh[i]}]
  /\ abortCh' = [abortCh EXCEPT ![i] = NoTask]
  /\ TakeWriteset(i)
  /\ UNCHANGED <<mainVars, syncVars, toExecute, maxIncarnation, incarnation,
                 response, outcome, readset, checkVars>>

Executed(i) ==
  /\ Delivered(i)
  /\ abortCh[i] = NoTask
  /\ status' = [status EXCEPT ![i] = "executed"]
  /\ response' = [response EXCEPT ![i] = TRUE]
  /\ TakeWriteset(i)
  /\ UNCHANGED <<mainVars, syncVars, toExecute, maxIncarnation, incarnation,
                 dependencies, abortCh, outcome, readset, checkVars>>

\* One key of SetWriteset, or of SetEstimatedWriteset for an aborted task: the
\* keys of the old write set alone are removed before the new ones are set.
Publish(i, k) ==
  /\ pc[i] = "publish"
  /\ k \in todo[i]
  /\ k \in DOMAIN outcome[i].writes => todo[i] \subseteq DOMAIN outcome[i].writes
  /\ todo' = [todo EXCEPT ![i] = @ \ {k}]
  /\ multiVersionMap' = [multiVersionMap EXCEPT ![k] =
       PublishKey(@, i, incarnation[i], outcome[i].writes, k, status[i] = "aborted")]
  /\ UNCHANGED <<txWritesetKeys, txReadSets, parentStore, mainVars, syncVars,
                 toExecute, maxIncarnation, taskVars, tracerVars, checkVars, pc>>

\* Mutant: the keys of an aborted task's estimates are not recorded.
FinishUnrecorded(i) ==
  /\ pc[i] = "publish"
  /\ todo[i] = {}
  /\ IF status[i] = "executed"
     THEN /\ txWritesetKeys' = [txWritesetKeys EXCEPT ![i] = DOMAIN outcome[i].writes]
          /\ txReadSets' = [txReadSets EXCEPT ![i] = readset[i]]
     ELSE UNCHANGED <<txWritesetKeys, txReadSets>>
  /\ pc' = [pc EXCEPT ![i] = "idle"]
  /\ outcome' = [outcome EXCEPT ![i] = NoOutcome]
  /\ readset' = [readset EXCEPT ![i] = NoReads]
  /\ UNCHANGED <<multiVersionMap, parentStore, mainVars, syncVars, toExecute,
                 maxIncarnation, taskVars, abortCh, checkVars, todo>>

\* The keys are recorded, and the read set of a task that did not abort; the
\* tracer is not used again.
Finish(i) ==
  /\ pc[i] = "publish"
  /\ todo[i] = {}
  /\ txWritesetKeys' = [txWritesetKeys EXCEPT ![i] = DOMAIN outcome[i].writes]
  /\ txReadSets' = IF status[i] = "executed"
                   THEN [txReadSets EXCEPT ![i] = readset[i]] ELSE txReadSets
  /\ pc' = [pc EXCEPT ![i] = "idle"]
  /\ outcome' = [outcome EXCEPT ![i] = NoOutcome]
  /\ readset' = [readset EXCEPT ![i] = NoReads]
  /\ UNCHANGED <<multiVersionMap, parentStore, mainVars, syncVars, toExecute,
                 maxIncarnation, taskVars, abortCh, checkVars, todo>>

-----------------------------------------------------------------------------
(* validateTask and what follows it, in a worker of the validation pool.   *)

\* shouldRerun branches on the status.
Branch(i) ==
  /\ pc[i] = "validate"
  /\ \/ /\ status[i] \in {"aborted", "pending"}
        /\ pc' = [pc EXCEPT ![i] = "reset"]
        /\ UNCHANGED <<todo, depsLeft>>
     \/ /\ status[i] \in {"executed", "validated"}
        /\ pc' = [pc EXCEPT ![i] = "check"]
        /\ todo' = [todo EXCEPT ![i] = KeysRead(i)]
        /\ UNCHANGED depsLeft
     \/ /\ status[i] = "waiting"
        /\ pc' = [pc EXCEPT ![i] = "depend"]
        /\ depsLeft' = [depsLeft EXCEPT ![i] = dependencies[i]]
        /\ UNCHANGED todo
  /\ UNCHANGED <<storeVars, mainVars, syncVars, toExecute, maxIncarnation, taskVars,
                 tracerVars, valid, conflicts>>

\* One key of findConflicts.
CheckRead(i, k) ==
  /\ pc[i] = "check"
  /\ k \in todo[i]
  /\ todo' = [todo EXCEPT ![i] = @ \ {k}]
  /\ valid' = [valid EXCEPT ![i] = @ /\ ReadValid(i, k, parentStore)]
  /\ conflicts' = [conflicts EXCEPT ![i] = @ \cup ReadConflicts(i, k)]
  /\ UNCHANGED <<storeVars, mainVars, syncVars, toExecute, maxIncarnation, taskVars,
                 tracerVars, depsLeft, pc>>

Accept(i) ==
  /\ pc[i] = "check"
  /\ todo[i] = {}
  /\ valid[i]
  /\ status' = [status EXCEPT ![i] = IF conflicts[i] = {} THEN "validated" ELSE @]
  /\ pc' = [pc EXCEPT ![i] = "idle"]
  /\ conflicts' = [conflicts EXCEPT ![i] = {}]
  /\ UNCHANGED <<storeVars, mainVars, syncVars, toExecute, maxIncarnation, incarnation,
                 dependencies, response, tracerVars, valid, depsLeft, todo>>

Reject(i) ==
  /\ pc[i] = "check"
  /\ todo[i] = {}
  /\ ~valid[i]
  /\ pc' = [pc EXCEPT ![i] = "invalidate"]
  /\ todo' = [todo EXCEPT ![i] = txWritesetKeys[i]]
  /\ UNCHANGED <<storeVars, mainVars, syncVars, toExecute, maxIncarnation, taskVars,
                 tracerVars, checkVars>>

\* One key of InvalidateWriteset.
Invalidate(i, k) ==
  /\ pc[i] = "invalidate"
  /\ k \in todo[i]
  /\ todo' = [todo EXCEPT ![i] = @ \ {k}]
  /\ multiVersionMap' = [multiVersionMap EXCEPT ![k] =
                           SetEstimate(@, i, incarnation[i])]
  /\ UNCHANGED <<txWritesetKeys, txReadSets, parentStore, mainVars, syncVars,
                 toExecute, maxIncarnation, taskVars, tracerVars, checkVars, pc>>

\* Mutant: the read set of an invalidated task is kept.
DependUncleared(i) ==
  /\ pc[i] = "invalidate"
  /\ todo[i] = {}
  /\ dependencies' = [dependencies EXCEPT ![i] = @ \cup conflicts[i]]
  /\ depsLeft' = [depsLeft EXCEPT ![i] = dependencies[i] \cup conflicts[i]]
  /\ valid' = [valid EXCEPT ![i] = TRUE]
  /\ conflicts' = [conflicts EXCEPT ![i] = {}]
  /\ pc' = [pc EXCEPT ![i] = "depend"]
  /\ UNCHANGED <<storeVars, mainVars, syncVars, toExecute, maxIncarnation, status,
                 incarnation, response, tracerVars, todo>>

\* The read set is cleared, the conflicts become dependencies.
Depend(i) ==
  /\ pc[i] = "invalidate"
  /\ todo[i] = {}
  /\ ClearReadset(i)
  /\ dependencies' = [dependencies EXCEPT ![i] = @ \cup conflicts[i]]
  /\ depsLeft' = [depsLeft EXCEPT ![i] = dependencies[i] \cup conflicts[i]]
  /\ valid' = [valid EXCEPT ![i] = TRUE]
  /\ conflicts' = [conflicts EXCEPT ![i] = {}]
  /\ pc' = [pc EXCEPT ![i] = "depend"]
  /\ UNCHANGED <<mainVars, syncVars, toExecute, maxIncarnation, status, incarnation,
                 response, tracerVars, todo>>

\* dependenciesValidated looks at the status of one dependency.
DependencyCheck(i, j) ==
  /\ pc[i] = "depend"
  /\ j \in depsLeft[i]
  /\ IF status[j] = "validated"
     THEN /\ depsLeft' = [depsLeft EXCEPT ![i] = @ \ {j}]
          /\ UNCHANGED pc
     ELSE /\ depsLeft' = [depsLeft EXCEPT ![i] = {}]
          /\ pc' = [pc EXCEPT ![i] = "wait"]
  /\ UNCHANGED <<storeVars, mainVars, syncVars, toExecute, maxIncarnation, taskVars,
                 tracerVars, valid, conflicts, todo>>

DependenciesMet(i) ==
  /\ pc[i] = "depend"
  /\ depsLeft[i] = {}
  /\ pc' = [pc EXCEPT ![i] = "reset"]
  /\ UNCHANGED <<storeVars, mainVars, syncVars, toExecute, maxIncarnation, taskVars,
                 tracerVars, checkVars, todo>>

Wait(i) ==
  /\ pc[i] = "wait"
  /\ status' = [status EXCEPT ![i] = "waiting"]
  /\ pc' = [pc EXCEPT ![i] = "idle"]
  /\ UNCHANGED <<storeVars, mainVars, syncVars, toExecute, maxIncarnation, incarnation,
                 dependencies, response, tracerVars, checkVars, todo>>

\* Reset and Increment.
Reset(i) ==
  /\ pc[i] = "reset"
  /\ status' = [status EXCEPT ![i] = "pending"]
  /\ response' = [response EXCEPT ![i] = FALSE]
  /\ incarnation' = [incarnation EXCEPT ![i] = @ + 1]
  /\ pc' = [pc EXCEPT ![i] = "max"]
  /\ UNCHANGED <<storeVars, mainVars, syncVars, toExecute, maxIncarnation,
                 dependencies, tracerVars, checkVars, todo>>

\* Mutant: >= for >.
LoadMaxOrEqual(i) ==
  /\ pc[i] = "max"
  /\ IF incarnation[i] >= maxIncarnation
     THEN /\ pc' = [pc EXCEPT ![i] = "store"]
          /\ UNCHANGED toExecute
     ELSE /\ pc' = [pc EXCEPT ![i] = "idle"]
          /\ toExecute' = toExecute \cup {i}
  /\ UNCHANGED <<storeVars, mainVars, syncVars, maxIncarnation, taskVars,
                 tracerVars, checkVars, todo>>

\* maxIncarnation is loaded here and stored in a later step; then the task is
\* sent to resChan.
LoadMax(i) ==
  /\ pc[i] = "max"
  /\ IF incarnation[i] > maxIncarnation
     THEN /\ pc' = [pc EXCEPT ![i] = "store"]
          /\ UNCHANGED toExecute
     ELSE /\ pc' = [pc EXCEPT ![i] = "idle"]
          /\ toExecute' = toExecute \cup {i}
  /\ UNCHANGED <<storeVars, mainVars, syncVars, maxIncarnation, taskVars,
                 tracerVars, checkVars, todo>>

StoreMax(i) ==
  /\ pc[i] = "store"
  /\ maxIncarnation' = incarnation[i]
  /\ pc' = [pc EXCEPT ![i] = "idle"]
  /\ toExecute' = toExecute \cup {i}
  /\ UNCHANGED <<storeVars, mainVars, syncVars, taskVars, tracerVars, checkVars, todo>>

-----------------------------------------------------------------------------
(* processAllSync: the loop body for one task, with nothing running beside *)
(* it.  The parent state the body works on is the one written back first.  *)

SyncParent == LatestToStoreUntil(syncStoreIdx, syncIdx)

SyncCheck(i) == ValidateTransactionState(i, SyncParent)

SyncDependencies(i) ==
  IF status[i] = "validated" /\ ~SyncCheck(i).valid
  THEN dependencies[i] \cup SyncCheck(i).conflicts
  ELSE dependencies[i]

\* Mutant: the next task's write-back starts one task late.
SyncStepLate(i) ==
  /\ phase = "sync"
  /\ i = syncIdx
  /\ parentStore' = SyncParent
  /\ syncStoreIdx' = i + 1
  /\ syncIdx' = i + 1
  /\ UNCHANGED <<mainVars, toExecute, maxIncarnation, tracerVars, checkVars, pc, todo>>

SyncStep(i) ==
  /\ phase = "sync"
  /\ i = syncIdx
  /\ parentStore' = SyncParent
  /\ syncStoreIdx' = i
  /\ syncIdx' = i + 1
  /\ UNCHANGED <<mainVars, toExecute, maxIncarnation, tracerVars, checkVars, pc, todo>>

\* Validated, and the second validation agrees.
SyncSkip(i) ==
  /\ SyncStep(i)
  /\ status[i] = "validated"
  /\ SyncCheck(i).valid
  /\ UNCHANGED <<multiVersionMap, txWritesetKeys, txReadSets, taskVars>>

\* Validated, and the second validation fails with every dependency validated:
\* shouldRerun invalidates the task and returns true, which executeTask ignores;
\* the status is still validated, so the task is not run again.
SyncStrand(i) ==
  /\ SyncStep(i)
  /\ status[i] = "validated"
  /\ ~SyncCheck(i).valid
  /\ \A j \in SyncDependencies(i) : status[j] = "validated"
  /\ multiVersionMap' = Invalidated(i, incarnation[i])
  /\ txReadSets' = [txReadSets EXCEPT ![i] = NoReads]
  /\ dependencies' = [dependencies EXCEPT ![i] = SyncDependencies(i)]
  /\ UNCHANGED <<txWritesetKeys, status, incarnation, response>>

SyncOutcome(i) == Deliver(txs[i], SyncParent)

\* The first abort of a run: any estimate its reads meet, or itself.
SyncAborts(i) ==
  UNION {EstimateBefore(i, k) : k \in SyncOutcome(i).reads}
    \cup (IF SyncOutcome(i).result = "selfdestruct" THEN {i} ELSE {})

SyncIncarnation(i) ==
  IF status[i] = "pending" THEN incarnation[i] ELSE incarnation[i] + 1

\* A task that was validated loses its read set when it is invalidated.
SyncReadSets(i) ==
  IF status[i] = "validated" THEN [txReadSets EXCEPT ![i] = NoReads] ELSE txReadSets

\* executeTask to its end: the transaction fails, aborts, or is executed.
SyncFail(i) ==
  /\ SyncOutcome(i).result = "err"
  /\ multiVersionMap' = IF status[i] = "validated" THEN Invalidated(i, incarnation[i])
                                                   ELSE multiVersionMap
  /\ txReadSets' = SyncReadSets(i)
  /\ status' = [status EXCEPT ![i] = "pending"]
  /\ response' = [response EXCEPT ![i] = FALSE]
  /\ dependencies' = [dependencies EXCEPT ![i] = SyncDependencies(i)]
  /\ UNCHANGED txWritesetKeys

SyncPublish(i, estimate) ==
  LET writes == SyncOutcome(i).writes
  IN  /\ SyncOutcome(i).result # "err"
      /\ multiVersionMap' = Published(i, SyncIncarnation(i), writes, estimate)
      /\ txWritesetKeys' = [txWritesetKeys EXCEPT ![i] = DOMAIN writes]

SyncAbort(i, dependent) ==
  /\ dependent \in SyncAborts(i)
  /\ SyncPublish(i, TRUE)
  /\ txReadSets' = SyncReadSets(i)
  /\ status' = [status EXCEPT ![i] = "aborted"]
  /\ response' = [response EXCEPT ![i] = FALSE]
  /\ dependencies' = [dependencies EXCEPT ![i] = SyncDependencies(i) \cup {dependent}]

SyncExecute(i) ==
  /\ SyncAborts(i) = {}
  /\ SyncPublish(i, FALSE)
  /\ txReadSets' = [txReadSets EXCEPT ![i] = [k \in Keys |->
       IF k \in SyncOutcome(i).reads THEN {SyncParent[k]} ELSE {}]]
  /\ status' = [status EXCEPT ![i] = "executed"]
  /\ response' = [response EXCEPT ![i] = TRUE]
  /\ dependencies' = [dependencies EXCEPT ![i] = SyncDependencies(i)]

\* Reset and Increment unless the task is pending, then executeTask.
SyncRun(i) ==
  /\ SyncStep(i)
  /\ status[i] = "validated" =>
       ~SyncCheck(i).valid /\ \E j \in SyncDependencies(i) : status[j] # "validated"
  /\ incarnation' = [incarnation EXCEPT ![i] = SyncIncarnation(i)]
  /\ SyncFail(i) \/ SyncExecute(i) \/ \E j \in Tasks : SyncAbort(i, j)

-----------------------------------------------------------------------------

Execute(i) ==
  \/ Begin(i) \/ SelfDestruct(i) \/ Aborted(i) \/ Executed(i) \/ Finish(i)
  \/ \E k \in Keys : Get(i, k) \/ Publish(i, k)

Validate(i) ==
  \/ Branch(i) \/ Accept(i) \/ Reject(i) \/ Depend(i) \/ DependenciesMet(i)
  \/ Wait(i) \/ Reset(i) \/ LoadMax(i) \/ StoreMax(i)
  \/ \E k \in Keys : CheckRead(i, k) \/ Invalidate(i, k)
  \/ \E j \in Tasks : DependencyCheck(i, j)

ProcessAllSync(i) == SyncSkip(i) \/ SyncStrand(i) \/ SyncRun(i)

Next ==
  \/ \E i \in Tasks : \/ StartRound(i) \/ StartValidation(i) \/ GoSynchronous(i)
                      \/ Execute(i) \/ Validate(i) \/ ProcessAllSync(i)
  \/ EndRound
  \/ Return
  \/ Terminated

\* Goroutines that can run do run: the workers block on nothing but the main
\* goroutine's channels and the short locks of a key's tree.
Spec == Init /\ [][Next]_vars /\ WF_vars(Next)

=============================================================================
