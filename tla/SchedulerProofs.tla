--------------------------- MODULE SchedulerProofs ---------------------------
(***************************************************************************)
(* Type correctness of the scheduler and the exactness of the recorded     *)
(* write sets under every interleaving of its workers, for any number of   *)
(* transactions, keys, words and workers.                                  *)
(***************************************************************************)
EXTENDS SchedulerCorrectness, MultiVersionStoreLemmas

USE DEF Tasks

-----------------------------------------------------------------------------
(* The operators return what TypeOK says.                                  *)

(* A lookup finds transactions of the block.                               *)
LEMMA LookupTypes ==
  /\ \A i, k : LatestBefore(i, k) \subseteq Tasks
  /\ \A i, k : EstimateBefore(i, k) \subseteq Tasks
  /\ \A i, k : ReadConflicts(i, k) \subseteq Tasks
  /\ \A i, p : ValidateTransactionState(i, p).conflicts \subseteq Tasks
<1>1. \A i, k : LatestBefore(i, k) \subseteq Tasks
  BY DEF LatestBefore, GetLatestBeforeIndex, Latest, Held
<1>2. \A i, k : EstimateBefore(i, k) \subseteq Tasks
  BY <1>1 DEF EstimateBefore
<1>3. \A i, k : ReadConflicts(i, k) \subseteq Tasks
  BY <1>1 DEF ReadConflicts
<1>4. \A i, p : ValidateTransactionState(i, p).conflicts \subseteq Tasks
  BY <1>3 DEF ValidateTransactionState
<1>5. QED
  BY <1>1, <1>2, <1>3, <1>4

(* The outcome of a transaction of the block on a state.                   *)
LEMMA OutcomeTypes ==
  ASSUME TypeOK, NEW i \in Tasks, NEW s \in States
  PROVE  /\ Deliver(txs[i], s) \in Outcomes
         /\ Deliver(txs[i], s).reads \subseteq Keys
         /\ Deliver(txs[i], s).writes \in WriteSet
         /\ DOMAIN Deliver(txs[i], s).writes \subseteq Keys
<1>1. txs[i] \in Programs
  BY BlocksAssumption DEF TypeOK
<1>2. Deliver(txs[i], s) \in Outcomes
  BY <1>1, DeliverAssumption
<1>3. /\ Deliver(txs[i], s).reads \subseteq Keys
      /\ Deliver(txs[i], s).writes \in WriteSet
  BY <1>2 DEF Outcomes
<1>4. QED
  BY <1>2, <1>3, WriteSetValues

(* No outcome is an outcome.                                               *)
LEMMA NoOutcomeType == NoOutcome \in Outcomes
<1>1. [k \in {} |-> Zero] \in WriteSet
  BY DEF WriteSet
<1>2. QED
  BY <1>1 DEF NoOutcome, Outcomes

(* The read set of a new tracer is empty.                                  *)
LEMMA NoReadsType == NoReads \in ReadSet
BY DEF NoReads, ReadSet

-----------------------------------------------------------------------------
(* Type correctness.                                                       *)

(* Every behaviour starts in a typed state with every worker idle.         *)
LEMMA InitTypeOK == Init => TypeOK /\ PhaseOK
<1> SUFFICES ASSUME Init PROVE TypeOK /\ PhaseOK
  OBVIOUS
<1>1. NoVersion \in Version
  BY ZeroAssumption DEF NoVersion, Version
<1>2. EmptyTree \in Tree
  BY <1>1 DEF EmptyTree, Tree
<1>3. StoreTypeOK
  BY <1>2, NoReadsType, InitStateAssumption DEF Init, StoreInit, StoreTypeOK
<1>4. TypeOK
  <2>1. /\ synchronous \in BOOLEAN
        /\ response \in [Tasks -> BOOLEAN]
        /\ valid \in [Tasks -> BOOLEAN]
    BY Zenon DEF Init
  <2>2. /\ txs \in Blocks
        /\ phase \in Phases
        /\ iterations \in 0 .. MaxIterations
        /\ lastStoreIdx \in Tasks
        /\ maxIncarnation \in Nat
        /\ syncIdx \in 0 .. N
        /\ syncStoreIdx \in Tasks
    BY BlockAssumption, MaxIterationsAssumption DEF Init, Phases
  <2>3. /\ toExecute \subseteq Tasks
        /\ status \in [Tasks -> Statuses]
        /\ incarnation \in [Tasks -> Nat]
        /\ dependencies \in [Tasks -> SUBSET Tasks]
        /\ outcome \in [Tasks -> Outcomes]
        /\ readset \in [Tasks -> ReadSet]
        /\ abortCh \in [Tasks -> Tasks \cup {NoTask}]
        /\ pc \in [Tasks -> {"idle"} \cup Executing \cup Validating]
        /\ todo \in [Tasks -> SUBSET Keys]
        /\ conflicts \in [Tasks -> SUBSET Tasks]
        /\ depsLeft \in [Tasks -> SUBSET Tasks]
    BY NoReadsType, NoOutcomeType DEF Init, Statuses
  <2>4. QED
    BY <1>3, <2>1, <2>2, <2>3 DEF TypeOK
<1>5. PhaseOK
  BY DEF Init, PhaseOK, AllIdle
<1>6. QED
  BY <1>4, <1>5

(* The steps of the main goroutine.                                        *)
LEMMA MainTypeOK ==
  ASSUME TypeOK, PhaseOK,
         \/ \E i \in Tasks : StartRound(i) \/ StartValidation(i) \/ GoSynchronous(i)
         \/ EndRound \/ Return \/ Terminated
  PROVE  TypeOK' /\ PhaseOK'
<1>1. ASSUME NEW i \in Tasks, StartRound(i)
      PROVE  TypeOK' /\ PhaseOK'
  <2>1. LatestToStoreUntil(lastStoreIdx, i) \in States
    BY WriteBackStates DEF TypeOK
  <2>2. StoreTypeOK'
    BY <1>1, <2>1 DEF TypeOK, StoreTypeOK, StartRound, WriteLatestToStoreUntil, storeVars
  <2>3. TypeOK'
    BY <1>1, <2>2 DEF TypeOK, StartRound, Phases, Executing, syncVars, taskVars,
       tracerVars, checkVars
  <2>4. PhaseOK'
    BY <1>1 DEF TypeOK, PhaseOK, StartRound, Executing
  <2>5. QED
    BY <2>3, <2>4
<1>2. ASSUME NEW i \in Tasks, StartValidation(i)
      PROVE  TypeOK' /\ PhaseOK'
  BY <1>2 DEF TypeOK, StoreTypeOK, PhaseOK, StartValidation, HandOut, Phases,
     Validating, AllIdle, storeVars, syncVars, taskVars, tracerVars, checkVars
<1>3. ASSUME NEW i \in Tasks, GoSynchronous(i)
      PROVE  TypeOK' /\ PhaseOK'
  <2>1. synchronous' \in BOOLEAN
    BY <1>3, Zenon DEF GoSynchronous
  <2>2. TypeOK'
    BY <1>3, <2>1, BlockAssumption DEF TypeOK, StoreTypeOK, GoSynchronous, Phases, storeVars,
       taskVars, tracerVars, checkVars
  <2>3. PhaseOK'
    BY <1>3 DEF PhaseOK, GoSynchronous, AllIdle
  <2>4. QED
    BY <2>2, <2>3
<1>4. CASE EndRound
  BY <1>4, MaxIterationsAssumption DEF TypeOK, StoreTypeOK, PhaseOK, EndRound, Phases,
     AllIdle, storeVars, syncVars, taskVars, tracerVars, checkVars
<1>5. CASE Return
  <2>1. LatestToStore \in States
    BY WriteBackStates DEF TypeOK
  <2>2. StoreTypeOK'
    BY <1>5, <2>1 DEF TypeOK, StoreTypeOK, Return, WriteLatestToStore
  <2>3. QED
    BY <1>5, <2>2 DEF TypeOK, PhaseOK, Return, Phases, AllIdle, syncVars, taskVars,
       tracerVars, checkVars
<1>6. CASE Terminated
  BY <1>6 DEF TypeOK, StoreTypeOK, PhaseOK, AllIdle, Terminated, vars, storeVars,
     mainVars, syncVars, taskVars, tracerVars, checkVars
<1>7. QED
  BY <1>1, <1>2, <1>3, <1>4, <1>5, <1>6

(* The steps of a worker that executes a task.                             *)
LEMMA ExecuteTypeOK ==
  ASSUME TypeOK, PhaseOK, NEW i \in Tasks, Execute(i)
  PROVE  TypeOK' /\ PhaseOK'
<1> USE DEF mainVars, syncVars, taskVars, tracerVars, checkVars, storeVars
<1>1. CASE Begin(i)
  <2>1. Deliver(txs[i], parentStore) \in Outcomes
        /\ Deliver(txs[i], parentStore).reads \subseteq Keys
    BY OutcomeTypes DEF TypeOK, StoreTypeOK
  <2>2. PICK c \in {"idle", "run"} : pc' = [pc EXCEPT ![i] = c]
    BY <1>1 DEF Begin
  <2>3. /\ outcome' \in [Tasks -> Outcomes]
        /\ todo' \in [Tasks -> SUBSET Keys]
    BY <1>1, <2>1 DEF TypeOK, Begin
  <2>4. /\ pc[i] = "queued"
        /\ UNCHANGED <<storeVars, mainVars, syncVars, toExecute, maxIncarnation,
                       taskVars, readset, abortCh, checkVars>>
    BY <1>1 DEF Begin
  <2>5. TypeOK'
    BY <2>2, <2>3, <2>4 DEF TypeOK, StoreTypeOK, Executing
  <2>6. PhaseOK'
    BY <2>2, <2>4 DEF TypeOK, PhaseOK, AllIdle, Executing, Validating
  <2>7. QED
    BY <2>5, <2>6
<1>2. CASE SelfDestruct(i)
  BY <1>2 DEF TypeOK, StoreTypeOK, PhaseOK, SelfDestruct, WriteAbort, AllIdle
<1>3. CASE Aborted(i)
  <2>1. abortCh[i] \in Tasks
    BY <1>3 DEF TypeOK, Aborted
  <2>2. DOMAIN outcome[i].writes \subseteq Keys
    BY WriteSetValues DEF TypeOK, Outcomes
  <2>3. TypeOK'
    BY <1>3, <2>1, <2>2 DEF TypeOK, StoreTypeOK, Aborted, TakeWriteset, Statuses, Executing
  <2>4. PhaseOK'
    BY <1>3 DEF TypeOK, PhaseOK, Aborted, Delivered, TakeWriteset, AllIdle, Executing, Validating
  <2>5. QED
    BY <2>3, <2>4
<1>4. CASE Executed(i)
  <2>1. response' \in [Tasks -> BOOLEAN]
    BY <1>4, Zenon DEF TypeOK, Executed
  <2>2. DOMAIN outcome[i].writes \subseteq Keys
    BY WriteSetValues DEF TypeOK, Outcomes
  <2>3. TypeOK'
    BY <1>4, <2>1, <2>2 DEF TypeOK, StoreTypeOK, Executed, TakeWriteset, Statuses, Executing
  <2>4. PhaseOK'
    BY <1>4 DEF TypeOK, PhaseOK, Executed, Delivered, TakeWriteset, AllIdle, Executing, Validating
  <2>5. QED
    BY <2>3, <2>4
<1>5. CASE Finish(i)
  <2>1. DOMAIN outcome[i].writes \subseteq Keys
    BY WriteSetValues DEF TypeOK, Outcomes
  <2>2. TypeOK'
    BY <1>5, <2>1, NoOutcomeType, NoReadsType DEF TypeOK, StoreTypeOK, Finish
  <2>3. PhaseOK'
    BY <1>5 DEF TypeOK, PhaseOK, Finish, AllIdle, Executing, Validating
  <2>4. QED
    BY <2>2, <2>3
<1>6. ASSUME NEW k \in Keys, Get(i, k)
      PROVE  TypeOK' /\ PhaseOK'
  <2>1. abortCh' \in [Tasks -> Tasks \cup {NoTask}]
    BY <1>6, LookupTypes DEF TypeOK, Get, WriteAbort
  <2>2. readset' \in [Tasks -> ReadSet]
    <3>1. parentStore[k] \in Values
      BY DEF TypeOK, StoreTypeOK, States
    <3>2. QED
      BY <1>6, <3>1 DEF TypeOK, Get, ReadSet
  <2>3. TypeOK'
    BY <1>6, <2>1, <2>2 DEF TypeOK, StoreTypeOK, Get
  <2>4. PhaseOK'
    BY <1>6 DEF PhaseOK, Get, AllIdle
  <2>5. QED
    BY <2>3, <2>4
<1>7. ASSUME NEW k \in Keys, Publish(i, k)
      PROVE  TypeOK' /\ PhaseOK'
  <2>1. (status[i] = "aborted") \in BOOLEAN
    OBVIOUS
  <2>2. PublishKey(multiVersionMap[k], i, incarnation[i], outcome[i].writes, k,
                   status[i] = "aborted") \in Tree
    BY <2>1, PublishKeyTree DEF TypeOK, StoreTypeOK, Outcomes
  <2>3. StoreTypeOK'
    BY <1>7, <2>2 DEF TypeOK, StoreTypeOK, Publish
  <2>4. TypeOK'
    BY <1>7, <2>3 DEF TypeOK, Publish
  <2>5. PhaseOK'
    BY <1>7 DEF PhaseOK, Publish, AllIdle
  <2>6. QED
    BY <2>4, <2>5
<1>8. QED
  BY <1>1, <1>2, <1>3, <1>4, <1>5, <1>6, <1>7 DEF Execute

(* The steps of a worker that validates a task.                            *)
LEMMA ValidateTypeOK ==
  ASSUME TypeOK, PhaseOK, NEW i \in Tasks, Validate(i)
  PROVE  TypeOK' /\ PhaseOK'
<1> USE DEF mainVars, syncVars, taskVars, tracerVars, checkVars, storeVars
<1>1. CASE Branch(i)
  <2>1. KeysRead(i) \subseteq Keys
    BY DEF KeysRead
  <2>2. TypeOK'
    BY <1>1, <2>1 DEF TypeOK, StoreTypeOK, Branch, Validating
  <2>3. PhaseOK'
    BY <1>1 DEF TypeOK, PhaseOK, Branch, AllIdle, Executing, Validating
  <2>4. QED
    BY <2>2, <2>3
<1>2. CASE Accept(i)
  <2>1. TypeOK'
    BY <1>2 DEF TypeOK, StoreTypeOK, Accept, Statuses
  <2>2. PhaseOK'
    BY <1>2 DEF TypeOK, PhaseOK, Accept, AllIdle, Executing, Validating
  <2>3. QED
    BY <2>1, <2>2
<1>3. CASE Reject(i)
  <2>1. TypeOK'
    BY <1>3 DEF TypeOK, StoreTypeOK, Reject, Validating
  <2>2. PhaseOK'
    BY <1>3 DEF TypeOK, PhaseOK, Reject, AllIdle, Executing, Validating
  <2>3. QED
    BY <2>1, <2>2
<1>4. CASE Depend(i)
  <2>1. valid' \in [Tasks -> BOOLEAN]
    BY <1>4, Zenon DEF TypeOK, Depend
  <2>2. TypeOK'
    BY <1>4, <2>1, NoReadsType DEF TypeOK, StoreTypeOK, Depend, ClearReadset, Validating
  <2>3. PhaseOK'
    BY <1>4 DEF TypeOK, PhaseOK, Depend, AllIdle, Executing, Validating
  <2>4. QED
    BY <2>2, <2>3
<1>5. CASE DependenciesMet(i)
  BY <1>5 DEF TypeOK, StoreTypeOK, PhaseOK, DependenciesMet, AllIdle, Executing, Validating
<1>6. CASE Wait(i)
  <2>1. TypeOK'
    BY <1>6 DEF TypeOK, StoreTypeOK, Wait, Statuses
  <2>2. PhaseOK'
    BY <1>6 DEF TypeOK, PhaseOK, Wait, AllIdle, Executing, Validating
  <2>3. QED
    BY <2>1, <2>2
<1>7. CASE Reset(i)
  <2>1. response' \in [Tasks -> BOOLEAN]
    BY <1>7, Zenon DEF TypeOK, Reset
  <2>2. TypeOK'
    BY <1>7, <2>1 DEF TypeOK, StoreTypeOK, Reset, Statuses, Validating
  <2>3. PhaseOK'
    BY <1>7 DEF TypeOK, PhaseOK, Reset, AllIdle, Executing, Validating
  <2>4. QED
    BY <2>2, <2>3
<1>8. CASE LoadMax(i)
  <2>1. PICK c \in {"idle", "store"} : pc' = [pc EXCEPT ![i] = c]
    BY <1>8 DEF LoadMax
  <2>2. /\ pc[i] = "max"
        /\ toExecute' \subseteq Tasks
        /\ UNCHANGED <<storeVars, mainVars, syncVars, maxIncarnation, taskVars,
                       tracerVars, checkVars, todo>>
    BY <1>8 DEF TypeOK, LoadMax
  <2>3. TypeOK'
    BY <2>1, <2>2 DEF TypeOK, StoreTypeOK, Validating
  <2>4. PhaseOK'
    BY <2>1, <2>2 DEF TypeOK, PhaseOK, AllIdle, Executing, Validating
  <2>5. QED
    BY <2>3, <2>4
<1>9. CASE StoreMax(i)
  <2>1. TypeOK'
    BY <1>9 DEF TypeOK, StoreTypeOK, StoreMax
  <2>2. PhaseOK'
    BY <1>9 DEF TypeOK, PhaseOK, StoreMax, AllIdle, Executing, Validating
  <2>3. QED
    BY <2>1, <2>2
<1>10. ASSUME NEW k \in Keys, CheckRead(i, k)
       PROVE  TypeOK' /\ PhaseOK'
  <2>1. valid' \in [Tasks -> BOOLEAN]
    <3>1. (valid[i] /\ ReadValid(i, k, parentStore)) \in BOOLEAN
      OBVIOUS
    <3>2. QED
      BY <1>10, <3>1, Zenon DEF TypeOK, CheckRead
  <2>2. TypeOK'
    BY <1>10, <2>1, LookupTypes DEF TypeOK, StoreTypeOK, CheckRead
  <2>3. PhaseOK'
    BY <1>10 DEF PhaseOK, CheckRead, AllIdle
  <2>4. QED
    BY <2>2, <2>3
<1>11. ASSUME NEW k \in Keys, Invalidate(i, k)
       PROVE  TypeOK' /\ PhaseOK'
  <2>1. SetEstimate(multiVersionMap[k], i, incarnation[i]) \in Tree
    BY SetEstimateTree DEF TypeOK, StoreTypeOK
  <2>2. StoreTypeOK'
    BY <1>11, <2>1 DEF TypeOK, StoreTypeOK, Invalidate
  <2>3. TypeOK'
    BY <1>11, <2>2 DEF TypeOK, Invalidate
  <2>4. PhaseOK'
    BY <1>11 DEF PhaseOK, Invalidate, AllIdle
  <2>5. QED
    BY <2>3, <2>4
<1>12. ASSUME NEW j \in Tasks, DependencyCheck(i, j)
       PROVE  TypeOK' /\ PhaseOK'
  <2>1. TypeOK'
    BY <1>12 DEF TypeOK, StoreTypeOK, DependencyCheck, Validating
  <2>2. PhaseOK'
    BY <1>12 DEF TypeOK, PhaseOK, DependencyCheck, AllIdle, Executing, Validating
  <2>3. QED
    BY <2>1, <2>2
<1>13. QED
  BY <1>1, <1>2, <1>3, <1>4, <1>5, <1>6, <1>7, <1>8, <1>9, <1>10, <1>11, <1>12
  DEF Validate

(* The body of processAllSync.                                             *)
LEMMA SyncTypeOK ==
  ASSUME TypeOK, PhaseOK, NEW i \in Tasks, ProcessAllSync(i)
  PROVE  TypeOK' /\ PhaseOK'
<1> USE DEF mainVars, syncVars, taskVars, tracerVars, checkVars
<1>1. SyncStep(i)
  BY DEF ProcessAllSync, SyncSkip, SyncStrand, SyncRun
<1>2. SyncParent \in States
  BY WriteBackStates DEF TypeOK, SyncParent
<1>3. SyncDependencies(i) \subseteq Tasks
  BY LookupTypes DEF TypeOK, SyncDependencies, SyncCheck
<1> DEFINE Goal ==
      /\ multiVersionMap' \in [Keys -> Tree]
      /\ txWritesetKeys' \in [Tasks -> SUBSET Keys]
      /\ txReadSets' \in [Tasks -> ReadSet]
      /\ status' \in [Tasks -> Statuses]
      /\ incarnation' \in [Tasks -> Nat]
      /\ dependencies' \in [Tasks -> SUBSET Tasks]
      /\ response' \in [Tasks -> BOOLEAN]
<1>4. Goal
  <2>1. CASE SyncSkip(i)
    BY <2>1 DEF SyncSkip, TypeOK, StoreTypeOK
  <2>2. CASE SyncStrand(i)
    <3>1. Invalidated(i, incarnation[i]) \in [Keys -> Tree]
      BY InvalidatedMap DEF TypeOK
    <3>2. QED
      BY <2>2, <3>1, <1>3, NoReadsType DEF SyncStrand, TypeOK, StoreTypeOK
  <2>3. CASE SyncRun(i)
    <3>1. /\ SyncOutcome(i).reads \subseteq Keys
          /\ SyncOutcome(i).writes \in WriteSet
          /\ DOMAIN SyncOutcome(i).writes \subseteq Keys
      BY <1>2, OutcomeTypes DEF SyncOutcome
    <3>2. SyncIncarnation(i) \in Nat
      BY DEF TypeOK, SyncIncarnation
    <3>3. incarnation' \in [Tasks -> Nat]
      BY <2>3, <3>2 DEF SyncRun, TypeOK
    <3>4. SyncReadSets(i) \in [Tasks -> ReadSet]
      BY NoReadsType DEF SyncReadSets, TypeOK, StoreTypeOK
    <3>5. CASE SyncFail(i)
      <4>1. Invalidated(i, incarnation[i]) \in [Keys -> Tree]
        BY InvalidatedMap DEF TypeOK
      <4>2. response' \in [Tasks -> BOOLEAN]
        BY <3>5, Zenon DEF SyncFail, TypeOK
      <4>3. QED
        BY <3>3, <3>4, <3>5, <4>1, <4>2, <1>3 DEF SyncFail, TypeOK, StoreTypeOK, Statuses
    <3>6. CASE SyncExecute(i)
      <4>1. Published(i, SyncIncarnation(i), SyncOutcome(i).writes, FALSE) \in [Keys -> Tree]
        BY <3>1, <3>2, PublishedMap DEF TypeOK
      <4>2. response' \in [Tasks -> BOOLEAN]
        BY <3>6, Zenon DEF SyncExecute, TypeOK
      <4>3. [k \in Keys |-> IF k \in SyncOutcome(i).reads THEN {SyncParent[k]} ELSE {}]
              \in ReadSet
        BY <1>2 DEF States, ReadSet
      <4>4. QED
        BY <3>1, <3>3, <3>6, <4>1, <4>2, <4>3, <1>3
        DEF SyncExecute, SyncPublish, TypeOK, StoreTypeOK, Statuses
    <3>7. ASSUME NEW j \in Tasks, SyncAbort(i, j)
          PROVE  Goal
      <4>1. Published(i, SyncIncarnation(i), SyncOutcome(i).writes, TRUE) \in [Keys -> Tree]
        BY <3>1, <3>2, PublishedMap DEF TypeOK
      <4>2. response' \in [Tasks -> BOOLEAN]
        BY <3>7, Zenon DEF SyncAbort, TypeOK
      <4>3. QED
        BY <3>1, <3>3, <3>4, <3>7, <4>1, <4>2, <1>3
        DEF SyncAbort, SyncPublish, TypeOK, StoreTypeOK, Statuses
    <3>8. QED
      BY <2>3, <3>5, <3>6, <3>7 DEF SyncRun
  <2>4. QED
    BY <2>1, <2>2, <2>3 DEF ProcessAllSync
<1>5. TypeOK'
  <2>1. StoreTypeOK'
    BY <1>1, <1>2, <1>4 DEF SyncStep, StoreTypeOK
  <2>2. syncIdx' \in 0 .. N /\ syncStoreIdx' \in Tasks
    BY <1>1, BlockAssumption DEF SyncStep
  <2>3. UNCHANGED <<mainVars, toExecute, maxIncarnation, tracerVars, checkVars, pc, todo>>
    BY <1>1 DEF SyncStep
  <2>4. QED
    BY <1>4, <2>1, <2>2, <2>3 DEF TypeOK
<1>6. PhaseOK'
  BY <1>1 DEF SyncStep, PhaseOK, AllIdle
<1>7. QED
  BY <1>5, <1>6

(* Every step keeps the types and the phases.                              *)
LEMMA NextTypeOK ==
  ASSUME TypeOK, PhaseOK, [Next]_vars
  PROVE  TypeOK' /\ PhaseOK'
<1>1. CASE UNCHANGED vars
  BY <1>1 DEF TypeOK, StoreTypeOK, PhaseOK, AllIdle, vars, storeVars, mainVars, syncVars,
     taskVars, tracerVars, checkVars
<1>2. CASE Next
  BY <1>2, MainTypeOK, ExecuteTypeOK, ValidateTypeOK, SyncTypeOK DEF Next
<1>3. QED
  BY <1>1, <1>2

(* The scheduler is type correct for every block: indices stay in the      *)
(* block, the rounds stay within maximumIterations, no abort names a task  *)
(* outside the block.                                                      *)
THEOREM TypeCorrect == Spec => []TypeOK
<1>1. TypeOK /\ PhaseOK /\ [Next]_vars => (TypeOK /\ PhaseOK)'
  BY NextTypeOK
<1>2. QED
  BY InitTypeOK, <1>1, PTL DEF Spec

-----------------------------------------------------------------------------
(* The recorded write sets.                                                *)

(* A step that leaves a task, its worker and its versions alone.           *)
LEMMA OtherTask ==
  ASSUME NEW j \in Tasks, TaskRecorded(j),
         pc'[j] = pc[j], todo'[j] = todo[j], outcome'[j] = outcome[j],
         txWritesetKeys'[j] = txWritesetKeys[j],
         \A k \in Keys : multiVersionMap'[k][j] = multiVersionMap[k][j]
  PROVE  TaskRecorded(j)'
BY DEF TaskRecorded, Held

(* Between phases every worker is idle, and what a task holds is recorded. *)
LEMMA MainRecorded ==
  ASSUME TypeOK, PhaseOK, \A j \in Tasks : TaskRecorded(j),
         \/ \E i \in Tasks : StartRound(i) \/ StartValidation(i) \/ GoSynchronous(i)
         \/ EndRound \/ Return \/ Terminated
  PROVE  \A j \in Tasks : TaskRecorded(j)'
<1> SUFFICES ASSUME NEW j \in Tasks PROVE TaskRecorded(j)'
  OBVIOUS
<1>1. pc[j] = "idle"
  BY DEF PhaseOK, StartRound, StartValidation, HandOut, GoSynchronous, EndRound, Return,
     Terminated, AllIdle
<1>2. /\ pc'[j] \in {"idle", "queued", "validate"}
      /\ UNCHANGED <<multiVersionMap, txWritesetKeys>>
  BY <1>1 DEF StartRound, StartValidation, HandOut, GoSynchronous, EndRound, Return,
     Terminated, WriteLatestToStoreUntil, WriteLatestToStore, storeVars, vars
<1>3. QED
  BY <1>1, <1>2 DEF TaskRecorded

(* The steps of an executing worker.                                       *)
LEMMA ExecuteRecorded ==
  ASSUME TypeOK, PhaseOK, \A j \in Tasks : TaskRecorded(j),
         NEW i \in Tasks, Execute(i)
  PROVE  \A j \in Tasks : TaskRecorded(j)'
<1> SUFFICES ASSUME NEW j \in Tasks PROVE TaskRecorded(j)'
  OBVIOUS
<1> USE DEF storeVars, tracerVars
<1>1. CASE Begin(i)
  <2>1. UNCHANGED <<multiVersionMap, txWritesetKeys>>
    BY <1>1 DEF Begin
  <2>2. CASE j = i
    BY <1>1, <2>1, <2>2 DEF Begin, TypeOK, TaskRecorded
  <2>3. CASE j # i
    <3>1. pc'[j] = pc[j] /\ todo'[j] = todo[j] /\ outcome'[j] = outcome[j]
      BY <1>1, <2>3 DEF Begin, TypeOK
    <3>2. QED
      BY <2>1, <3>1, OtherTask
  <2>4. QED
    BY <2>2, <2>3
<1>2. CASE SelfDestruct(i)
  BY <1>2, OtherTask DEF SelfDestruct
<1>3. CASE Aborted(i) \/ Executed(i)
  <2>1. /\ TakeWriteset(i)
        /\ pc[i] = "run"
        /\ UNCHANGED outcome
    BY <1>3 DEF Aborted, Executed, Delivered
  <2>2. CASE j = i
    <3>1. /\ pc'[i] = "publish"
          /\ todo'[i] = txWritesetKeys[i] \cup DOMAIN outcome[i].writes
      BY <2>1 DEF TakeWriteset, TypeOK
    <3>2. QED
      BY <2>1, <2>2, <3>1 DEF TakeWriteset, TaskRecorded
  <2>3. CASE j # i
    BY <2>1, <2>3, OtherTask DEF TakeWriteset, TypeOK, StoreTypeOK
  <2>4. QED
    BY <2>2, <2>3
<1>4. CASE Finish(i)
  <2>1. UNCHANGED <<multiVersionMap, todo>>
    BY <1>4 DEF Finish
  <2>2. CASE j = i
    <3>1. /\ pc[i] = "publish"
          /\ todo[i] = {}
          /\ pc'[i] = "idle"
          /\ txWritesetKeys'[i] = DOMAIN outcome[i].writes
      BY <1>4 DEF Finish, TypeOK, StoreTypeOK
    <3>2. QED
      BY <2>1, <2>2, <3>1 DEF TaskRecorded
  <2>3. CASE j # i
    <3>1. /\ pc'[j] = pc[j]
          /\ outcome'[j] = outcome[j]
          /\ txWritesetKeys'[j] = txWritesetKeys[j]
      BY <1>4, <2>3 DEF Finish, TypeOK, StoreTypeOK
    <3>2. QED
      BY <2>1, <3>1, OtherTask
  <2>4. QED
    BY <2>2, <2>3
<1>5. ASSUME NEW k \in Keys, Get(i, k)
      PROVE  TaskRecorded(j)'
  <2>1. CASE j = i
    BY <1>5, <2>1 DEF Get, TaskRecorded
  <2>2. CASE j # i
    BY <1>5, <2>2, OtherTask DEF Get, TypeOK
  <2>3. QED
    BY <2>1, <2>2
<1>6. ASSUME NEW k \in Keys, Publish(i, k)
      PROVE  TaskRecorded(j)'
  <2> DEFINE tree == PublishKey(multiVersionMap[k], i, incarnation[i],
                                outcome[i].writes, k, status[i] = "aborted")
  <2>1. (status[i] = "aborted") \in BOOLEAN
    OBVIOUS
  <2>2. /\ i \in Held(tree) <=> k \in DOMAIN outcome[i].writes
        /\ \A n \in Tasks : n # i => tree[n] = multiVersionMap[k][n]
    <3>1. /\ multiVersionMap[k] \in Tree
          /\ incarnation[i] \in Nat
          /\ outcome[i].writes \in WriteSet
      BY DEF TypeOK, StoreTypeOK, Outcomes
    <3>2. ASSUME NEW ws \in WriteSet, NEW old \in Tree, NEW n \in Nat, NEW e \in BOOLEAN
          PROVE  LET new == PublishKey(old, i, n, ws, k, e)
                 IN  /\ i \in Held(new) <=> k \in DOMAIN ws
                     /\ \A m \in Tasks : m # i => new[m] = old[m]
      BY PublishKeyTree
    <3>3. QED
      BY <2>1, <3>1, <3>2
  <2> HIDE DEF tree
  <2>3. /\ multiVersionMap' = [multiVersionMap EXCEPT ![k] = tree]
        /\ todo' = [todo EXCEPT ![i] = @ \ {k}]
        /\ pc[i] = "publish"
        /\ UNCHANGED <<pc, outcome, txWritesetKeys>>
    BY <1>6 DEF Publish, tree
  <2>4. CASE j = i
    <3>1. ASSUME NEW l \in Keys, l \notin todo'[i]
          PROVE  i \in Held(multiVersionMap'[l]) <=> l \in DOMAIN outcome[i].writes
      <4>1. CASE l = k
        BY <2>2, <2>3, <4>1 DEF TypeOK, StoreTypeOK
      <4>2. CASE l # k
        BY <2>3, <3>1, <4>2 DEF TypeOK, StoreTypeOK, TaskRecorded
      <4>3. QED
        BY <4>1, <4>2
    <3>2. QED
      BY <2>3, <2>4, <3>1 DEF TaskRecorded
  <2>5. CASE j # i
    <3>1. \A l \in Keys : multiVersionMap'[l][j] = multiVersionMap[l][j]
      BY <2>2, <2>3, <2>5 DEF TypeOK, StoreTypeOK
    <3>2. todo'[j] = todo[j]
      BY <2>3, <2>5 DEF TypeOK
    <3>3. QED
      BY <2>3, <3>1, <3>2, OtherTask
  <2>6. QED
    BY <2>4, <2>5
<1>7. QED
  BY <1>1, <1>2, <1>3, <1>4, <1>5, <1>6 DEF Execute

(* The steps of a validating worker.                                       *)
LEMMA ValidateRecorded ==
  ASSUME TypeOK, PhaseOK, \A j \in Tasks : TaskRecorded(j),
         NEW i \in Tasks, Validate(i)
  PROVE  \A j \in Tasks : TaskRecorded(j)'
<1> SUFFICES ASSUME NEW j \in Tasks PROVE TaskRecorded(j)'
  OBVIOUS
<1> USE DEF storeVars, tracerVars
<1>1. CASE \/ Branch(i) \/ Accept(i) \/ Depend(i) \/ DependenciesMet(i) \/ Wait(i)
           \/ Reset(i) \/ LoadMax(i) \/ StoreMax(i)
           \/ \E n \in Tasks : DependencyCheck(i, n)
  <2>1. /\ UNCHANGED <<multiVersionMap, txWritesetKeys, outcome>>
        /\ pc[i] \in Validating
    BY <1>1 DEF Branch, Accept, Depend, ClearReadset, DependenciesMet, Wait, Reset,
       LoadMax, StoreMax, DependencyCheck, Validating
  <2>2. \E c \in Validating \cup {"idle"} :
          /\ pc' = [pc EXCEPT ![i] = c]
          /\ c # "invalidate"
    <3>1. CASE Branch(i)
      BY <3>1 DEF Branch, Validating
    <3>2. CASE Accept(i) \/ Depend(i) \/ DependenciesMet(i) \/ Wait(i)
               \/ Reset(i) \/ StoreMax(i)
      BY <3>2 DEF Accept, Depend, DependenciesMet, Wait, Reset, StoreMax, Validating
    <3>3. CASE LoadMax(i)
      BY <3>3 DEF LoadMax, Validating
    <3>4. CASE \E n \in Tasks : DependencyCheck(i, n)
      <4>1. PICK n \in Tasks : DependencyCheck(i, n)
        BY <3>4
      <4>2. CASE status[n] = "validated"
        <5>1. pc' = [pc EXCEPT ![i] = "depend"]
          BY <4>1, <4>2 DEF DependencyCheck, TypeOK
        <5>2. QED
          BY <5>1 DEF Validating
      <4>3. CASE status[n] # "validated"
        BY <4>1, <4>3 DEF DependencyCheck, Validating
      <4>4. QED
        BY <4>2, <4>3
    <3>5. QED
      BY <1>1, <3>1, <3>2, <3>3, <3>4
  <2>3. CASE j = i
    BY <2>1, <2>2, <2>3 DEF TaskRecorded, TypeOK, Validating
  <2>4. CASE j # i
    <3>1. todo'[j] = todo[j]
      BY <1>1, <2>4 DEF Branch, Accept, Depend, DependenciesMet, Wait, Reset, LoadMax,
         StoreMax, DependencyCheck, TypeOK
    <3>2. pc'[j] = pc[j]
      BY <2>2, <2>4 DEF TypeOK
    <3>3. QED
      BY <2>1, <3>1, <3>2, OtherTask
  <2>5. QED
    BY <2>3, <2>4
<1>2. CASE Reject(i)
  <2>1. UNCHANGED <<multiVersionMap, txWritesetKeys, outcome>>
    BY <1>2 DEF Reject
  <2>2. CASE j = i
    <3>1. /\ pc[i] = "check"
          /\ pc'[i] = "invalidate"
          /\ todo'[i] = txWritesetKeys[i]
      BY <1>2 DEF Reject, TypeOK
    <3>2. QED
      BY <2>1, <2>2, <3>1 DEF TaskRecorded
  <2>3. CASE j # i
    BY <1>2, <2>1, <2>3, OtherTask DEF Reject, TypeOK
  <2>4. QED
    BY <2>2, <2>3
<1>3. ASSUME NEW k \in Keys, CheckRead(i, k)
      PROVE  TaskRecorded(j)'
  <2>1. CASE j = i
    BY <1>3, <2>1 DEF CheckRead, TaskRecorded
  <2>2. CASE j # i
    BY <1>3, <2>2, OtherTask DEF CheckRead, TypeOK
  <2>3. QED
    BY <2>1, <2>2
<1>4. ASSUME NEW k \in Keys, Invalidate(i, k)
      PROVE  TaskRecorded(j)'
  <2> DEFINE tree == SetEstimate(multiVersionMap[k], i, incarnation[i])
  <2>1. /\ Held(tree) = Held(multiVersionMap[k]) \cup {i}
        /\ \A n \in Tasks : n # i => tree[n] = multiVersionMap[k][n]
    <3>1. multiVersionMap[k] \in Tree /\ incarnation[i] \in Nat
      BY DEF TypeOK, StoreTypeOK
    <3>2. QED
      BY <3>1, SetEstimateTree
  <2> HIDE DEF tree
  <2>2. /\ multiVersionMap' = [multiVersionMap EXCEPT ![k] = tree]
        /\ todo' = [todo EXCEPT ![i] = @ \ {k}]
        /\ pc[i] = "invalidate"
        /\ k \in todo[i]
        /\ UNCHANGED <<pc, outcome, txWritesetKeys>>
    BY <1>4 DEF Invalidate, tree
  <2>3. CASE j = i
    <3>1. k \in txWritesetKeys[i] /\ todo'[i] \subseteq txWritesetKeys[i]
      BY <2>2 DEF TaskRecorded, TypeOK
    <3>2. ASSUME NEW l \in Keys
          PROVE  i \in Held(multiVersionMap'[l]) <=> l \in txWritesetKeys[i]
      <4>1. CASE l = k
        BY <2>1, <2>2, <3>1, <4>1 DEF TypeOK, StoreTypeOK
      <4>2. CASE l # k
        BY <2>2, <4>2 DEF TypeOK, StoreTypeOK, TaskRecorded
      <4>3. QED
        BY <4>1, <4>2
    <3>3. QED
      BY <2>2, <2>3, <3>1, <3>2 DEF TaskRecorded
  <2>4. CASE j # i
    <3>1. \A l \in Keys : multiVersionMap'[l][j] = multiVersionMap[l][j]
      BY <2>1, <2>2, <2>4 DEF TypeOK, StoreTypeOK
    <3>2. todo'[j] = todo[j]
      BY <2>2, <2>4 DEF TypeOK
    <3>3. QED
      BY <2>2, <3>1, <3>2, OtherTask
  <2>5. QED
    BY <2>3, <2>4
<1>5. QED
  BY <1>1, <1>2, <1>3, <1>4 DEF Validate

(* The body of processAllSync.                                             *)
LEMMA SyncRecorded ==
  ASSUME TypeOK, PhaseOK, \A j \in Tasks : TaskRecorded(j),
         NEW i \in Tasks, ProcessAllSync(i)
  PROVE  \A j \in Tasks : TaskRecorded(j)'
<1> SUFFICES ASSUME NEW j \in Tasks PROVE TaskRecorded(j)'
  OBVIOUS
<1> USE DEF tracerVars
<1>1. pc[j] = "idle" /\ UNCHANGED <<pc, todo, outcome>>
  BY DEF ProcessAllSync, SyncSkip, SyncStrand, SyncRun, SyncStep, PhaseOK, AllIdle
<1>2. StoreTypeOK /\ incarnation[i] \in Nat
  BY DEF TypeOK
<1>3. CASE /\ multiVersionMap' = Invalidated(i, incarnation[i])
           /\ UNCHANGED txWritesetKeys
  <2>1. ASSUME NEW k \in Keys
        PROVE  j \in Held(multiVersionMap'[k]) <=> k \in txWritesetKeys'[j]
    <3>1. CASE k \in txWritesetKeys[i]
      <4>1. Held(multiVersionMap'[k]) = Held(multiVersionMap[k]) \cup {i}
        BY <1>2, <1>3, <3>1, InvalidatedMap
      <4>2. QED
        BY <1>1, <1>3, <3>1, <4>1 DEF TaskRecorded
    <3>2. CASE k \notin txWritesetKeys[i]
      <4>1. multiVersionMap'[k] = multiVersionMap[k]
        BY <1>2, <1>3, <3>2, InvalidatedMap
      <4>2. QED
        BY <1>1, <1>3, <4>1 DEF TaskRecorded
    <3>3. QED
      BY <3>1, <3>2
  <2>2. QED
    BY <1>1, <2>1 DEF TaskRecorded
<1>4. CASE UNCHANGED <<multiVersionMap, txWritesetKeys>>
  BY <1>1, <1>4, OtherTask
<1>5. ASSUME NEW e \in BOOLEAN, SyncPublish(i, e)
      PROVE  TaskRecorded(j)'
  <2> DEFINE ws == SyncOutcome(i).writes
  <2>1. SyncParent \in States
    BY <1>2, WriteBackStates DEF SyncParent
  <2>2. ws \in WriteSet
    BY <2>1, OutcomeTypes DEF SyncOutcome
  <2>3. SyncIncarnation(i) \in Nat
    BY DEF TypeOK, SyncIncarnation
  <2>4. /\ multiVersionMap' = Published(i, SyncIncarnation(i), ws, e)
        /\ txWritesetKeys' = [txWritesetKeys EXCEPT ![i] = DOMAIN ws]
    BY <1>5 DEF SyncPublish
  <2> HIDE DEF ws
  <2>5. CASE j = i
    <3>1. txWritesetKeys'[i] = DOMAIN ws
      BY <1>2, <2>4 DEF StoreTypeOK
    <3>2. ASSUME NEW k \in Keys
          PROVE  i \in Held(multiVersionMap'[k]) <=> k \in DOMAIN ws
      <4>1. CASE k \in txWritesetKeys[i] \cup DOMAIN ws
        BY <1>2, <2>2, <2>3, <2>4, <4>1, PublishedMap
      <4>2. CASE k \notin txWritesetKeys[i] \cup DOMAIN ws
        <5>1. multiVersionMap'[k] = multiVersionMap[k]
          BY <1>2, <2>2, <2>3, <2>4, <4>2, PublishedMap
        <5>2. QED
          BY <1>1, <2>5, <4>2, <5>1 DEF TaskRecorded
      <4>3. QED
        BY <4>1, <4>2
    <3>3. QED
      BY <1>1, <2>5, <3>1, <3>2 DEF TaskRecorded
  <2>6. CASE j # i
    <3>1. \A k \in Keys : multiVersionMap'[k][j] = multiVersionMap[k][j]
      BY <1>2, <2>2, <2>3, <2>4, <2>6, PublishedMap
    <3>2. txWritesetKeys'[j] = txWritesetKeys[j]
      BY <1>2, <2>4, <2>6 DEF StoreTypeOK
    <3>3. QED
      BY <1>1, <3>1, <3>2, OtherTask
  <2>7. QED
    BY <2>5, <2>6
<1>6. QED
  <2>1. CASE SyncSkip(i)
    BY <1>4, <2>1 DEF SyncSkip
  <2>2. CASE SyncStrand(i)
    BY <1>3, <2>2 DEF SyncStrand
  <2>3. CASE SyncRun(i)
    <3>1. CASE SyncFail(i)
      BY <1>3, <1>4, <3>1 DEF SyncFail
    <3>2. CASE SyncExecute(i)
      BY <1>5, <3>2 DEF SyncExecute
    <3>3. ASSUME NEW n \in Tasks, SyncAbort(i, n)
          PROVE  TaskRecorded(j)'
      BY <1>5, <3>3 DEF SyncAbort
    <3>4. QED
      BY <2>3, <3>1, <3>2, <3>3 DEF SyncRun
  <2>4. QED
    BY <2>1, <2>2, <2>3 DEF ProcessAllSync

(* The invariant behind VersionsRecorded is inductive.                     *)
LEMMA InitRecorded ==
  Init => TypeOK /\ PhaseOK /\ \A i \in Tasks : TaskRecorded(i)
<1>1. NoVersion.kind = "none"
  BY DEF NoVersion
<1>2. Held(EmptyTree) = {}
  BY <1>1 DEF EmptyTree, Held
<1>3. Init => \A i \in Tasks : TaskRecorded(i)
  BY <1>2 DEF Init, StoreInit, TaskRecorded
<1>4. QED
  BY <1>3, InitTypeOK

(* Every step keeps it.                                                    *)
LEMMA NextRecorded ==
  ASSUME TypeOK, PhaseOK, \A i \in Tasks : TaskRecorded(i), [Next]_vars
  PROVE  TypeOK' /\ PhaseOK' /\ \A i \in Tasks : TaskRecorded(i)'
<1>1. TypeOK' /\ PhaseOK'
  BY NextTypeOK
<1>2. CASE UNCHANGED vars
  <2>1. UNCHANGED <<pc, todo, outcome, txWritesetKeys, multiVersionMap>>
    BY <1>2 DEF vars, storeVars, tracerVars
  <2>2. QED
    BY <1>1, <2>1, OtherTask
<1>3. CASE Next
  <2>1. \A i \in Tasks : TaskRecorded(i)'
    BY <1>3, MainRecorded, ExecuteRecorded, ValidateRecorded, SyncRecorded DEF Next
  <2>2. QED
    BY <1>1, <2>1
<1>4. QED
  BY <1>2, <1>3

(* Under every interleaving of executing and validating workers, and in    *)
(* the synchronous pass, a task that is not publishing holds a version of  *)
(* a key exactly when the key is recorded for it: whatever is invalidated  *)
(* or published next reaches every version an earlier incarnation left.    *)
THEOREM VersionsAreRecorded == Spec => []VersionsRecorded
<1> DEFINE Inv == TypeOK /\ PhaseOK /\ \A i \in Tasks : TaskRecorded(i)
<1>1. Init => Inv
  BY InitRecorded
<1>2. Inv /\ [Next]_vars => Inv'
  BY NextRecorded
<1>3. Inv => VersionsRecorded
  BY DEF TaskRecorded, VersionsRecorded
<1>4. QED
  BY <1>1, <1>2, <1>3, PTL DEF Spec

=============================================================================
