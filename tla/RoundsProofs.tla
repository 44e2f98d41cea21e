---------------------------- MODULE RoundsProofs ----------------------------
(***************************************************************************)
(* The rounds: no task is forgotten, none that was written back is         *)
(* touched, and maxIncarnation is exact, for any number of transactions,   *)
(* keys, words, workers and rounds and every interleaving of the workers.  *)
(***************************************************************************)
EXTENDS SchedulerInvariant, SchedulerProofs

USE DEF Tasks

-----------------------------------------------------------------------------
(* What the steps of one task leave alone.                                 *)

\* The step leaves the task, its worker and its versions as they are.
Same(j) ==
  /\ pc'[j] = pc[j]
  /\ todo'[j] = todo[j]
  /\ status'[j] = status[j]
  /\ incarnation'[j] = incarnation[j]
  /\ response'[j] = response[j]
  /\ outcome'[j] = outcome[j]
  /\ readset'[j] = readset[j]
  /\ valid'[j] = valid[j]
  /\ conflicts'[j] = conflicts[j]
  /\ txReadSets'[j] = txReadSets[j]
  /\ \A k \in Keys : multiVersionMap'[k][j] = multiVersionMap[k][j]
  /\ j \in toExecute' <=> j \in toExecute

\* The step is a worker's.
WorkerStep == UNCHANGED <<txs, phase, lastStoreIdx, synchronous, parentStore, syncIdx>>

(* What publishing a key leaves in the store.                              *)
LEMMA PublishVersion ==
  ASSUME TypeOK, NEW i \in Tasks, NEW k \in Keys, Publish(i, k)
  PROVE  /\ \A l \in Keys, j \in Tasks :
              l # k \/ j # i => multiVersionMap'[l][j] = multiVersionMap[l][j]
         /\ status[i] = "aborted" => multiVersionMap'[k][i].kind # "value"
         /\ status[i] # "aborted" =>
              HoldsWrite(multiVersionMap'[k][i], outcome[i].writes, k)
<1> DEFINE e == status[i] = "aborted"
           tree == PublishKey(multiVersionMap[k], i, incarnation[i], outcome[i].writes, k, e)
<1>1. /\ e \in BOOLEAN
      /\ multiVersionMap[k] \in Tree
      /\ incarnation[i] \in Nat
      /\ outcome[i].writes \in WriteSet
  BY DEF TypeOK, StoreTypeOK, Outcomes
<1>2. ASSUME NEW b \in BOOLEAN, NEW old \in Tree, NEW n \in Nat, NEW ws \in WriteSet
      PROVE  LET new == PublishKey(old, i, n, ws, k, b)
             IN  /\ new \in Tree
                 /\ i \in Held(new) <=> k \in DOMAIN ws
                 /\ \A j \in Tasks : j # i => new[j] = old[j]
                 /\ k \in DOMAIN ws /\ ~b => new[i].kind = "value" /\ new[i].value = ws[k]
                 /\ b => new[i].kind # "value"
  BY PublishKeyTree
<1>3. /\ i \in Held(tree) <=> k \in DOMAIN outcome[i].writes
      /\ \A j \in Tasks : j # i => tree[j] = multiVersionMap[k][j]
      /\ k \in DOMAIN outcome[i].writes /\ ~e =>
           tree[i].kind = "value" /\ tree[i].value = outcome[i].writes[k]
      /\ e => tree[i].kind # "value"
  <2> HIDE DEF e
  <2>1. QED
    BY <1>1, <1>2
<1>4. multiVersionMap' = [multiVersionMap EXCEPT ![k] = tree]
  BY DEF Publish
<1> HIDE DEF tree
<1>5. /\ multiVersionMap'[k] = tree
      /\ \A l \in Keys : l # k => multiVersionMap'[l] = multiVersionMap[l]
  BY <1>4 DEF TypeOK, StoreTypeOK
<1>6. QED
  BY <1>3, <1>5 DEF HoldsWrite, Held

(* A worker that executes a task touches no other.                         *)
LEMMA ExecuteFrame ==
  ASSUME TypeOK, NEW i \in Tasks, Execute(i)
  PROVE  /\ WorkerStep
         /\ UNCHANGED <<toExecute, maxIncarnation, incarnation>>
         /\ pc[i] \in Executing
         /\ \A j \in Tasks : j # i => Same(j)
<1> USE DEF mainVars, syncVars, taskVars, tracerVars, checkVars, storeVars, WorkerStep,
            Executing, Same, TypeOK, StoreTypeOK
<1>1. CASE Begin(i)
  BY <1>1 DEF Begin
<1>2. CASE SelfDestruct(i)
  BY <1>2 DEF SelfDestruct, WriteAbort
<1>3. CASE Aborted(i)
  BY <1>3 DEF Aborted, Delivered, TakeWriteset
<1>4. CASE Executed(i)
  BY <1>4 DEF Executed, Delivered, TakeWriteset
<1>5. CASE Finish(i)
  BY <1>5 DEF Finish
<1>6. ASSUME NEW k \in Keys, Get(i, k)
      PROVE  /\ WorkerStep
             /\ UNCHANGED <<toExecute, maxIncarnation, incarnation>>
             /\ pc[i] \in Executing
             /\ \A j \in Tasks : j # i => Same(j)
  BY <1>6 DEF Get
<1>7. ASSUME NEW k \in Keys, Publish(i, k)
      PROVE  /\ WorkerStep
             /\ UNCHANGED <<toExecute, maxIncarnation, incarnation>>
             /\ pc[i] \in Executing
             /\ \A j \in Tasks : j # i => Same(j)
  <2>1. \A l \in Keys, j \in Tasks : j # i => multiVersionMap'[l][j] = multiVersionMap[l][j]
    <3> HIDE DEF TypeOK
    <3>1. QED
      BY <1>7, PublishVersion
  <2>2. QED
    BY <1>7, <2>1 DEF Publish
<1>8. QED
  BY <1>1, <1>2, <1>3, <1>4, <1>5, <1>6, <1>7 DEF Execute

(* A worker that validates a task touches no other.                        *)
LEMMA ValidateFrame ==
  ASSUME TypeOK, NEW i \in Tasks, Validate(i)
  PROVE  /\ WorkerStep
         /\ pc[i] \in Validating
         /\ \A j \in Tasks : j # i => Same(j)
<1> USE DEF mainVars, syncVars, taskVars, tracerVars, checkVars, storeVars, WorkerStep,
            Validating, Same, TypeOK, StoreTypeOK
<1>1. CASE Branch(i)
  BY <1>1 DEF Branch
<1>2. CASE Accept(i)
  BY <1>2 DEF Accept
<1>3. CASE Reject(i)
  BY <1>3 DEF Reject
<1>4. CASE Depend(i)
  BY <1>4 DEF Depend, ClearReadset
<1>5. CASE DependenciesMet(i)
  BY <1>5 DEF DependenciesMet
<1>6. CASE Wait(i)
  BY <1>6 DEF Wait
<1>7. CASE Reset(i)
  BY <1>7 DEF Reset
<1>8. CASE LoadMax(i)
  BY <1>8 DEF LoadMax
<1>9. CASE StoreMax(i)
  BY <1>9 DEF StoreMax
<1>10. CASE \E k \in Keys : CheckRead(i, k)
  BY <1>10 DEF CheckRead
<1>11. CASE \E k \in Keys : Invalidate(i, k)
  BY <1>11 DEF Invalidate, SetEstimate, Tree
<1>12. CASE \E j \in Tasks : DependencyCheck(i, j)
  BY <1>12 DEF DependencyCheck
<1>13. QED
  BY <1>1, <1>2, <1>3, <1>4, <1>5, <1>6, <1>7, <1>8, <1>9, <1>10, <1>11, <1>12
  DEF Validate

(* processAllSync touches the task at hand and no other.                   *)
LEMMA SyncFrame ==
  ASSUME TypeOK, NEW i \in Tasks, ProcessAllSync(i)
  PROVE  /\ phase = "sync" /\ i = syncIdx /\ syncIdx' = i + 1
         /\ UNCHANGED <<txs, phase, lastStoreIdx, synchronous, toExecute, pc>>
         /\ \A j \in Tasks : j # i => Same(j)
<1> USE DEF mainVars, syncVars, taskVars, tracerVars, checkVars
<1>1. SyncStep(i)
  BY DEF ProcessAllSync, SyncSkip, SyncStrand, SyncRun
<1>2. ASSUME NEW j \in Tasks, j # i
      PROVE  /\ status'[j] = status[j]
             /\ incarnation'[j] = incarnation[j]
             /\ response'[j] = response[j]
             /\ txReadSets'[j] = txReadSets[j]
             /\ \A k \in Keys : multiVersionMap'[k][j] = multiVersionMap[k][j]
  <2>1. CASE SyncSkip(i)
    BY <2>1 DEF SyncSkip
  <2>2. \A k \in Keys : Invalidated(i, incarnation[i])[k][j] = multiVersionMap[k][j]
    <3>1. StoreTypeOK /\ incarnation[i] \in Nat
      BY DEF TypeOK
    <3>2. QED
      BY <1>2, <3>1, InvalidatedMap
  <2> USE DEF TypeOK, StoreTypeOK
  <2>3. CASE SyncStrand(i)
    BY <1>2, <2>2, <2>3 DEF SyncStrand
  <2>4. CASE SyncRun(i)
    <3>1. SyncReadSets(i)[j] = txReadSets[j]
      BY <1>2 DEF SyncReadSets
    <3>2. incarnation'[j] = incarnation[j]
      BY <1>2, <2>4 DEF SyncRun
    <3>3. CASE SyncFail(i)
      BY <1>2, <2>2, <3>1, <3>2, <3>3 DEF SyncFail
    <3>4. ASSUME NEW e \in BOOLEAN, SyncPublish(i, e)
          PROVE  \A k \in Keys : multiVersionMap'[k][j] = multiVersionMap[k][j]
      <4>1. SyncParent \in States
        BY WriteBackStates DEF SyncParent
      <4>2. SyncOutcome(i).writes \in WriteSet
        BY <4>1, OutcomeTypes DEF SyncOutcome
      <4>3. SyncIncarnation(i) \in Nat
        BY DEF SyncIncarnation
      <4>4. ASSUME NEW ws \in WriteSet, NEW n \in Nat
            PROVE  \A k \in Keys : Published(i, n, ws, e)[k][j] = multiVersionMap[k][j]
        BY <1>2, PublishedMap
      <4>5. QED
        BY <3>4, <4>2, <4>3, <4>4 DEF SyncPublish
    <3>5. CASE SyncExecute(i)
      BY <1>2, <3>2, <3>4, <3>5 DEF SyncExecute
    <3>6. ASSUME NEW n \in Tasks, SyncAbort(i, n)
          PROVE  /\ status'[j] = status[j]
                 /\ response'[j] = response[j]
                 /\ txReadSets'[j] = txReadSets[j]
                 /\ \A k \in Keys : multiVersionMap'[k][j] = multiVersionMap[k][j]
      BY <1>2, <3>1, <3>4, <3>6 DEF SyncAbort
    <3>7. QED
      BY <2>4, <3>2, <3>3, <3>5, <3>6 DEF SyncRun
  <2>5. QED
    BY <2>1, <2>3, <2>4 DEF ProcessAllSync
<1>3. QED
  BY <1>1, <1>2 DEF SyncStep, Same

-----------------------------------------------------------------------------
(* TaskOK is preserved.                                                    *)

(* A task that a step leaves alone stays as TaskOK says.                   *)
LEMMA SameTaskOK ==
  ASSUME NEW j \in Tasks, TaskOK(j), Same(j), WorkerStep
  PROVE  TaskOK(j)'
<1> USE DEF Same, WorkerStep
<1>1. TracerOK(j)'
  BY DEF TaskOK, TracerOK
<1>2. StatusOK(j)'
  BY DEF TaskOK, StatusOK, InRounds
<1>3. CleanOK(j)'
  BY DEF TaskOK, CleanOK, Clean
<1>4. ResultOK(j)'
  <2>1. ASSUME NEW s \in States, Ran(j, s)
        PROVE  Ran(j, s)'
    BY <2>1 DEF Ran
  <2>2. QED
    BY <2>1 DEF TaskOK, ResultOK
<1>5. CheckOK(j)'
  BY DEF TaskOK, CheckOK
<1>6. QED
  BY <1>1, <1>2, <1>3, <1>4, <1>5 DEF TaskOK

(* The steps of a worker that executes the task: from a task that holds    *)
(* nothing of an earlier run to one that holds exactly the new one.        *)
LEMMA ExecuteTaskOK ==
  ASSUME TypeOK, PhaseOK, NEW i \in Tasks, TaskOK(i), TaskRecorded(i), Execute(i)
  PROVE  TaskOK(i)'
<1>1. WorkerStep /\ UNCHANGED toExecute /\ pc[i] \in Executing
  BY ExecuteFrame
<1>2. phase = "execute"
  BY <1>1 DEF PhaseOK, AllIdle, Executing, Validating, TypeOK, Phases
<1> USE DEF mainVars, syncVars, taskVars, tracerVars, checkVars, storeVars, TypeOK, StoreTypeOK,
            WorkerStep, InRounds, Executing
<1>3. CASE Begin(i)
  <2>1. /\ pc[i] = "queued"
        /\ UNCHANGED <<status, response, readset, valid, conflicts, txReadSets, multiVersionMap>>
        /\ pc'[i] \in {"idle", "run"}
    BY <1>3 DEF Begin
  <2>2. TracerOK(i)'
    <3>1. CASE pc'[i] = "idle"
      BY <2>1, <3>1 DEF TaskOK, TracerOK
    <3>2. CASE pc'[i] = "run"
      <4>1. /\ outcome'[i] = Deliver(txs[i], parentStore)
            /\ outcome'[i].result # "err"
            /\ todo'[i] = outcome'[i].reads
        <5> DEFINE out == Deliver(txs[i], parentStore)
        <5>1. IF out.result = "err"
              THEN pc' = [pc EXCEPT ![i] = "idle"]
              ELSE /\ outcome' = [outcome EXCEPT ![i] = out]
                   /\ todo' = [todo EXCEPT ![i] = out.reads]
          BY <1>3 DEF Begin
        <5> HIDE DEF out
        <5>2. out.result # "err"
          BY <3>2, <5>1
        <5>3. outcome'[i] = out /\ todo'[i] = out.reads
          BY <5>1, <5>2
        <5>4. QED
          BY <5>2, <5>3, Zenon DEF out
      <4>2. readset'[i] = ReadsOf({}, parentStore)
        BY <2>1 DEF TaskOK, TracerOK, NoReads, ReadsOf
      <4>3. outcome'[i].reads \ todo'[i] = {}
        BY <4>1
      <4>4. QED
        BY <1>1, <3>2, <4>1, <4>2, <4>3 DEF TracerOK
    <3>3. QED
      BY <2>1, <3>1, <3>2
  <2>3. StatusOK(i)' /\ CleanOK(i)' /\ ResultOK(i)' /\ CheckOK(i)'
    BY <1>1, <1>2, <2>1 DEF TaskOK, StatusOK, CleanOK, Clean, ResultOK, CheckOK
  <2>4. QED
    BY <2>2, <2>3 DEF TaskOK
<1>4. CASE SelfDestruct(i)
  <2>1. Same(i)
    BY <1>4 DEF SelfDestruct, Same
  <2>2. QED
    BY <1>1, <2>1, SameTaskOK
<1>5. ASSUME NEW k \in Keys, Get(i, k)
      PROVE  TaskOK(i)'
  <2>1. /\ pc[i] = "run" /\ k \in todo[i]
        /\ todo'[i] = todo[i] \ {k}
        /\ readset'[i] = [readset[i] EXCEPT ![k] = @ \cup {parentStore[k]}]
        /\ UNCHANGED <<pc, status, response, valid, conflicts, txReadSets, multiVersionMap,
                       outcome>>
    BY <1>5 DEF Get
  <2>2. TracerOK(i)'
    <3>1. /\ todo[i] \subseteq outcome[i].reads
          /\ readset[i] = ReadsOf(outcome[i].reads \ todo[i], parentStore)
          /\ outcome[i] = Deliver(txs[i], parentStore) /\ outcome[i].result # "err"
      BY <2>1 DEF TaskOK, TracerOK
    <3>2. readset'[i] = ReadsOf(outcome[i].reads \ todo'[i], parentStore)
      BY <2>1, <3>1 DEF ReadsOf
    <3>3. QED
      BY <1>1, <2>1, <3>1, <3>2 DEF TracerOK
  <2>3. StatusOK(i)' /\ CleanOK(i)' /\ ResultOK(i)' /\ CheckOK(i)'
    BY <1>1, <1>2, <2>1 DEF TaskOK, StatusOK, CleanOK, Clean, ResultOK, CheckOK
  <2>4. QED
    BY <2>2, <2>3 DEF TaskOK
<1>6. CASE Aborted(i) \/ Executed(i)
  <2>1. /\ pc[i] = "run" /\ todo[i] = {}
        /\ pc'[i] = "publish"
        /\ todo'[i] = txWritesetKeys[i] \cup DOMAIN outcome[i].writes
        /\ UNCHANGED <<valid, conflicts, txReadSets, multiVersionMap, outcome, readset>>
    BY <1>6 DEF Aborted, Executed, Delivered, TakeWriteset
  <2>2. \/ status'[i] = "aborted" /\ response'[i] = response[i]
        \/ status'[i] = "executed" /\ response'[i] = TRUE
    BY <1>6 DEF Aborted, Executed
  <2>3. TracerOK(i)'
    <3>1. outcome[i].reads \ todo[i] = outcome[i].reads
      BY <2>1
    <3>2. QED
      BY <1>1, <2>1, <3>1 DEF TaskOK, TracerOK
  <2>4. StatusOK(i)'
    BY <1>1, <1>2, <2>1, <2>2 DEF TaskOK, StatusOK
  <2>5. CleanOK(i)'
    BY <2>1, <2>2 DEF TaskOK, StatusOK, CleanOK, Clean
  <2>6. ResultOK(i)'
    <3>1. ASSUME NEW k \in Keys, k \notin todo'[i]
          PROVE  HoldsWrite(multiVersionMap[k][i], outcome[i].writes, k)
      BY <2>1, <3>1 DEF HoldsWrite, TaskRecorded, Held
    <3>2. QED
      BY <2>1, <3>1 DEF ResultOK
  <2>7. CheckOK(i)'
    BY <2>1 DEF TaskOK, CheckOK
  <2>8. QED
    BY <2>3, <2>4, <2>5, <2>6, <2>7 DEF TaskOK
<1>7. ASSUME NEW k \in Keys, Publish(i, k)
      PROVE  TaskOK(i)'
  <2>1. /\ pc[i] = "publish"
        /\ todo'[i] = todo[i] \ {k}
        /\ UNCHANGED <<pc, status, response, valid, conflicts, txReadSets, outcome, readset>>
    BY <1>7 DEF Publish
  <2>2. /\ \A l \in Keys : l # k => multiVersionMap'[l][i] = multiVersionMap[l][i]
        /\ status[i] = "aborted" => multiVersionMap'[k][i].kind # "value"
        /\ status[i] # "aborted" =>
             HoldsWrite(multiVersionMap'[k][i], outcome[i].writes, k)
    <3> HIDE DEF TypeOK
    <3>1. QED
      BY <1>7, PublishVersion
  <2>3. TracerOK(i)' /\ StatusOK(i)' /\ CheckOK(i)'
    BY <1>1, <1>2, <2>1 DEF TaskOK, TracerOK, StatusOK, CheckOK
  <2>4. CleanOK(i)'
    BY <2>1, <2>2 DEF TaskOK, StatusOK, CleanOK, Clean
  <2>5. ResultOK(i)'
    BY <2>1, <2>2 DEF TaskOK, ResultOK
  <2>6. QED
    BY <2>3, <2>4, <2>5 DEF TaskOK
<1>8. CASE Finish(i)
  <2>1. /\ pc[i] = "publish" /\ todo[i] = {}
        /\ pc'[i] = "idle" /\ readset'[i] = NoReads
        /\ txReadSets'[i] = IF status[i] = "executed" THEN readset[i] ELSE txReadSets[i]
        /\ UNCHANGED <<status, response, valid, conflicts, multiVersionMap>>
    BY <1>8 DEF Finish
  <2>2. TracerOK(i)' /\ StatusOK(i)' /\ CheckOK(i)'
    BY <1>1, <1>2, <2>1 DEF TaskOK, TracerOK, StatusOK, CheckOK
  <2>3. CleanOK(i)'
    BY <2>1 DEF TaskOK, CleanOK, Clean
  <2>4. ResultOK(i)'
    <3>1. ASSUME status[i] = "executed"
          PROVE  Ran(i, parentStore)'
      BY <1>1, <2>1, <3>1 DEF TaskOK, TracerOK, ResultOK, Ran
    <3>2. status[i] \in {"executed", "aborted"}
      BY <2>1 DEF TaskOK, StatusOK
    <3>3. QED
      BY <1>1, <2>1, <3>1, <3>2 DEF ResultOK
  <2>5. QED
    BY <2>2, <2>3, <2>4 DEF TaskOK
<1>9. QED
  BY <1>3, <1>4, <1>5, <1>6, <1>7, <1>8 DEF Execute

(* A read that is valid adds no conflict.                                  *)
LEMMA ValidHasNoConflict ==
  ASSUME NEW i \in Tasks, NEW k \in Keys, ReadValid(i, k, parentStore)
  PROVE  ReadConflicts(i, k) = {}
<1>1. ASSUME NEW j \in LatestBefore(i, k), NEW v \in Values, txReadSets[i][k] = {v}
      PROVE  VersionGives(k, j, v)
  BY <1>1 DEF ReadValid
<1>2. QED
  BY <1>1 DEF ReadConflicts

(* The steps of a worker that validates the task.                          *)
LEMMA ValidateTaskOK ==
  ASSUME TypeOK, PhaseOK, NEW i \in Tasks, TaskOK(i), TaskRecorded(i), Validate(i)
  PROVE  TaskOK(i)'
<1>1. WorkerStep /\ pc[i] \in Validating
  BY ValidateFrame
<1>2. phase = "validate"
  BY <1>1 DEF PhaseOK, AllIdle, Executing, Validating, TypeOK, Phases
<1> USE DEF mainVars, syncVars, taskVars, tracerVars, checkVars, storeVars, TypeOK, StoreTypeOK,
            WorkerStep, InRounds, Validating
<1> DEFINE NoRun == pc'[i] \notin {"run", "publish"} /\ readset'[i] = readset[i]
<1>3. NoRun => TracerOK(i)'
  BY <1>1 DEF TaskOK, TracerOK
<1>4. UNCHANGED <<txReadSets, multiVersionMap, txs>> =>
        /\ Clean(i) => Clean(i)'
        /\ (\E s \in States : Ran(i, s)) => \E s \in States : Ran(i, s)'
  BY DEF Clean, Ran
<1>5. CASE Branch(i)
  <2>1. /\ pc[i] = "validate"
        /\ \/ status[i] \in {"aborted", "pending"} /\ pc'[i] = "reset"
           \/ status[i] \in {"executed", "validated"} /\ pc'[i] = "check"
           \/ status[i] = "waiting" /\ pc'[i] = "depend"
        /\ UNCHANGED <<status, response, valid, conflicts, txReadSets, multiVersionMap,
                       readset, toExecute>>
    BY <1>5 DEF Branch
  <2>2. StatusOK(i)' /\ CheckOK(i)'
    BY <1>1, <1>2, <2>1 DEF TaskOK, StatusOK, CheckOK
  <2>3. CleanOK(i)' /\ ResultOK(i)'
    BY <1>1, <1>4, <2>1 DEF TaskOK, CleanOK, ResultOK
  <2>4. QED
    BY <1>3, <2>1, <2>2, <2>3 DEF TaskOK
<1>6. ASSUME NEW k \in Keys, CheckRead(i, k)
      PROVE  TaskOK(i)'
  <2>1. /\ pc[i] = "check"
        /\ valid'[i] = (valid[i] /\ ReadValid(i, k, parentStore))
        /\ conflicts'[i] = conflicts[i] \cup ReadConflicts(i, k)
        /\ UNCHANGED <<pc, status, response, txReadSets, multiVersionMap, readset, toExecute>>
    BY <1>6 DEF CheckRead
  <2>2. valid'[i] => conflicts'[i] = {}
    BY <2>1, ValidHasNoConflict DEF TaskOK, CheckOK
  <2>3. StatusOK(i)' /\ CheckOK(i)'
    BY <1>1, <1>2, <2>1, <2>2 DEF TaskOK, StatusOK, CheckOK
  <2>4. CleanOK(i)' /\ ResultOK(i)'
    BY <1>1, <1>4, <2>1 DEF TaskOK, CleanOK, ResultOK
  <2>5. QED
    BY <1>3, <2>1, <2>3, <2>4 DEF TaskOK
<1>7. CASE Accept(i)
  <2>1. /\ pc[i] = "check" /\ valid[i] /\ pc'[i] = "idle"
        /\ status'[i] = IF conflicts[i] = {} THEN "validated" ELSE status[i]
        /\ conflicts'[i] = {}
        /\ UNCHANGED <<response, valid, txReadSets, multiVersionMap, readset, toExecute>>
    BY <1>7 DEF Accept
  <2>2. status'[i] = "validated"
    BY <2>1 DEF TaskOK, CheckOK
  <2>3. StatusOK(i)' /\ CheckOK(i)'
    BY <1>1, <1>2, <2>1, <2>2 DEF TaskOK, StatusOK, CheckOK
  <2>4. CleanOK(i)' /\ ResultOK(i)'
    BY <1>1, <1>4, <2>1, <2>2 DEF TaskOK, StatusOK, CleanOK, ResultOK
  <2>5. QED
    BY <1>3, <2>1, <2>3, <2>4 DEF TaskOK
<1>8. CASE Reject(i)
  <2>1. /\ pc[i] = "check" /\ pc'[i] = "invalidate" /\ todo'[i] = txWritesetKeys[i]
        /\ UNCHANGED <<status, response, valid, conflicts, txReadSets, multiVersionMap,
                       readset, toExecute>>
    BY <1>8 DEF Reject
  <2>2. StatusOK(i)' /\ CheckOK(i)' /\ ResultOK(i)'
    BY <1>1, <1>2, <2>1 DEF TaskOK, StatusOK, CheckOK, ResultOK
  <2>3. CleanOK(i)'
    <3>1. \A k \in Keys \ todo'[i] : multiVersionMap[k][i].kind # "value"
      BY <2>1 DEF TaskRecorded, Held
    <3>2. QED
      BY <2>1, <3>1 DEF TaskOK, StatusOK, CleanOK
  <2>4. QED
    BY <1>3, <2>1, <2>2, <2>3 DEF TaskOK
<1>9. ASSUME NEW k \in Keys, Invalidate(i, k)
      PROVE  TaskOK(i)'
  <2>1. /\ pc[i] = "invalidate" /\ todo'[i] = todo[i] \ {k}
        /\ UNCHANGED <<pc, status, response, valid, conflicts, txReadSets, readset, toExecute>>
    BY <1>9 DEF Invalidate
  <2>2. /\ multiVersionMap'[k][i].kind # "value"
        /\ \A l \in Keys : l # k => multiVersionMap'[l][i] = multiVersionMap[l][i]
    <3>1. IsEstimate(SetEstimate(multiVersionMap[k], i, incarnation[i])[i])
      BY SetEstimateTree
    <3>2. QED
      BY <1>9, <3>1 DEF Invalidate, IsEstimate
  <2>3. StatusOK(i)' /\ CheckOK(i)' /\ ResultOK(i)'
    BY <1>1, <1>2, <2>1 DEF TaskOK, StatusOK, CheckOK, ResultOK
  <2>4. CleanOK(i)'
    BY <2>1, <2>2 DEF TaskOK, StatusOK, CleanOK
  <2>5. QED
    BY <1>3, <2>1, <2>3, <2>4 DEF TaskOK
<1>10. CASE Depend(i)
  <2>1. /\ pc[i] = "invalidate" /\ todo[i] = {} /\ pc'[i] = "depend"
        /\ txReadSets'[i] = NoReads
        /\ valid'[i] /\ conflicts'[i] = {}
        /\ UNCHANGED <<status, response, multiVersionMap, readset, toExecute>>
    BY <1>10 DEF Depend, ClearReadset
  <2>2. StatusOK(i)' /\ CheckOK(i)' /\ ResultOK(i)'
    BY <1>1, <1>2, <2>1 DEF TaskOK, StatusOK, CheckOK, ResultOK
  <2>3. CleanOK(i)'
    BY <2>1 DEF TaskOK, CleanOK, Clean
  <2>4. QED
    BY <1>3, <2>1, <2>2, <2>3 DEF TaskOK
<1>11. CASE DependenciesMet(i) \/ \E j \in Tasks : DependencyCheck(i, j)
  <2>1. /\ pc[i] = "depend" /\ pc'[i] \in {"depend", "wait", "reset"}
        /\ UNCHANGED <<status, response, valid, conflicts, txReadSets, multiVersionMap,
                       readset, toExecute>>
    BY <1>11 DEF DependenciesMet, DependencyCheck
  <2>2. StatusOK(i)' /\ CheckOK(i)' /\ ResultOK(i)'
    BY <1>1, <1>2, <2>1 DEF TaskOK, StatusOK, CheckOK, ResultOK
  <2>3. CleanOK(i)'
    BY <1>4, <2>1, <1>1 DEF TaskOK, CleanOK
  <2>4. QED
    BY <1>3, <2>1, <2>2, <2>3 DEF TaskOK
<1>12. CASE Wait(i)
  <2>1. /\ pc[i] = "wait" /\ pc'[i] = "idle" /\ status'[i] = "waiting"
        /\ UNCHANGED <<response, valid, conflicts, txReadSets, multiVersionMap,
                       readset, toExecute>>
    BY <1>12 DEF Wait
  <2>2. StatusOK(i)' /\ CheckOK(i)' /\ ResultOK(i)'
    BY <1>1, <1>2, <2>1 DEF TaskOK, StatusOK, CheckOK, ResultOK
  <2>3. CleanOK(i)'
    BY <1>1, <1>4, <2>1 DEF TaskOK, CleanOK
  <2>4. QED
    BY <1>3, <2>1, <2>2, <2>3 DEF TaskOK
<1>13. CASE Reset(i)
  <2>1. /\ pc[i] = "reset" /\ pc'[i] = "max" /\ status'[i] = "pending"
        /\ ~response'[i]
        /\ UNCHANGED <<valid, conflicts, txReadSets, multiVersionMap, readset, toExecute>>
    BY <1>13 DEF Reset
  <2>2. StatusOK(i)' /\ CheckOK(i)' /\ ResultOK(i)'
    BY <1>1, <1>2, <2>1 DEF TaskOK, StatusOK, CheckOK, ResultOK
  <2>3. CleanOK(i)'
    BY <1>1, <1>4, <2>1 DEF TaskOK, CleanOK
  <2>4. QED
    BY <1>3, <2>1, <2>2, <2>3 DEF TaskOK
<1>14. CASE LoadMax(i) \/ StoreMax(i)
  <2>1. /\ pc[i] \in {"max", "store"}
        /\ \/ pc'[i] = "store" /\ UNCHANGED toExecute
           \/ pc'[i] = "idle" /\ i \in toExecute'
        /\ UNCHANGED <<status, response, valid, conflicts, txReadSets, multiVersionMap,
                       readset>>
    BY <1>14 DEF LoadMax, StoreMax
  <2>2. StatusOK(i)' /\ CheckOK(i)' /\ ResultOK(i)'
    BY <1>1, <1>2, <2>1 DEF TaskOK, StatusOK, CheckOK, ResultOK
  <2>3. CleanOK(i)'
    BY <1>1, <1>4, <2>1 DEF TaskOK, CleanOK
  <2>4. QED
    BY <1>3, <2>1, <2>2, <2>3 DEF TaskOK
<1>15. QED
  BY <1>5, <1>6, <1>7, <1>8, <1>9, <1>10, <1>11, <1>12, <1>13, <1>14 DEF Validate

-----------------------------------------------------------------------------
(* The invariant of the rounds.                                            *)

TaskInv == TypeOK /\ PhaseOK /\ \A i \in Tasks : TaskRecorded(i)

RoundsInvariant == TaskInv /\ RoundsInv

(* The first task that is not validated was not written back.              *)
LEMMA StartNotCommitted ==
  ASSUME TypeOK, CommittedOK, NEW start \in Tasks, FirstNonValidated(start)
  PROVE  lastStoreIdx <= start
BY DEF TypeOK, CommittedOK, FirstNonValidated

(* Every behaviour starts with tasks that have done nothing.               *)
LEMMA InitRounds == Init => RoundsInv
<1> SUFFICES ASSUME Init PROVE RoundsInv
  OBVIOUS
<1>1. NoVersion.kind = "none"
  BY DEF NoVersion
<1>2. ASSUME NEW i \in Tasks
      PROVE  TaskOK(i)
  <2>1. Clean(i)
    BY <1>1 DEF Init, StoreInit, Clean, EmptyTree
  <2>2. valid[i] /\ ~response[i]
    BY Zenon DEF Init
  <2>3. QED
    BY <2>1, <2>2 DEF Init, TaskOK, TracerOK, StatusOK, CleanOK, ResultOK, CheckOK, InRounds
<1>3. CommittedOK
  BY DEF Init, CommittedOK
<1>4. QED
  BY <1>2, <1>3 DEF RoundsInv

(* The steps of the main goroutine: the next round starts with exactly the *)
(* tasks that were reset, and validation with the first one not validated. *)
LEMMA MainRounds ==
  ASSUME RoundsInvariant,
         \/ \E i \in Tasks : StartRound(i) \/ StartValidation(i) \/ GoSynchronous(i)
         \/ EndRound \/ Return \/ Terminated
  PROVE  RoundsInv'
<1> USE DEF mainVars, syncVars, taskVars, tracerVars, checkVars, storeVars, TypeOK, StoreTypeOK
<1>1. TypeOK /\ PhaseOK /\ CommittedOK /\ (InRounds => \A i \in Tasks : TaskOK(i))
  BY DEF RoundsInvariant, TaskInv, RoundsInv
<1>2. UNCHANGED <<txReadSets, multiVersionMap, txs>> =>
        \A j \in Tasks : /\ Clean(j) => Clean(j)'
                         /\ (\E s \in States : Ran(j, s)) => \E s \in States : Ran(j, s)'
  BY DEF Clean, Ran
<1>3. ASSUME NEW start \in Tasks, StartRound(start)
      PROVE  RoundsInv'
  <2>1. /\ phase = "loop" /\ phase' = "execute" /\ toExecute' = {}
        /\ pc' = [j \in Tasks |-> IF j \in toExecute THEN "queued" ELSE "idle"]
        /\ UNCHANGED <<txs, status, response, readset, valid, conflicts, txReadSets,
                       multiVersionMap>>
        /\ lastStoreIdx' \in {lastStoreIdx, start}
        /\ FirstNonValidated(start)
    BY <1>3 DEF StartRound, WriteLatestToStoreUntil
  <2>2. \A j \in Tasks : pc[j] = "idle" /\ TaskOK(j)
    BY <1>1, <2>1 DEF PhaseOK, AllIdle, InRounds
  <2>3. ASSUME NEW j \in Tasks
        PROVE  TaskOK(j)'
    <3>1. TracerOK(j)' /\ StatusOK(j)' /\ CheckOK(j)'
      BY <2>1, <2>2 DEF TaskOK, TracerOK, StatusOK, CheckOK, InRounds
    <3>2. CleanOK(j)' /\ ResultOK(j)'
      BY <1>2, <2>1, <2>2 DEF TaskOK, StatusOK, CleanOK, ResultOK
    <3>3. QED
      BY <3>1, <3>2 DEF TaskOK
  <2>4. CommittedOK'
    <3>1. ASSUME NEW j \in Tasks, j < lastStoreIdx'
          PROVE  status'[j] = "validated" /\ pc'[j] = "idle"
      <4>1. status[j] = "validated"
        BY <1>1, <2>1, <3>1 DEF CommittedOK, FirstNonValidated
      <4>2. j \notin toExecute
        BY <2>1, <2>2, <4>1 DEF TaskOK, StatusOK
      <4>3. QED
        BY <2>1, <4>1, <4>2
    <3>2. QED
      BY <2>1, <3>1 DEF CommittedOK
  <2>5. QED
    BY <2>3, <2>4 DEF RoundsInv
<1>4. ASSUME NEW start \in Tasks, StartValidation(start)
      PROVE  RoundsInv'
  <2>1. /\ phase = "execute" /\ phase' = "validate"
        /\ pc' = [j \in Tasks |-> IF j >= start THEN "validate" ELSE "idle"]
        /\ UNCHANGED <<txs, status, response, readset, valid, conflicts, txReadSets,
                       multiVersionMap, lastStoreIdx, toExecute>>
        /\ FirstNonValidated(start)
        /\ AllIdle
    BY <1>4 DEF StartValidation, HandOut
  <2>2. toExecute = {} /\ lastStoreIdx <= start
    BY <1>1, <2>1, StartNotCommitted DEF CommittedOK
  <2>3. \A j \in Tasks : pc[j] = "idle" /\ TaskOK(j)
    BY <1>1, <2>1 DEF AllIdle, InRounds
  <2>4. ASSUME NEW j \in Tasks
        PROVE  TaskOK(j)'
    <3>1. TracerOK(j)' /\ CheckOK(j)'
      BY <2>1, <2>3 DEF TaskOK, TracerOK, CheckOK
    <3>2. StatusOK(j)'
      BY <2>1, <2>2, <2>3 DEF TaskOK, StatusOK, InRounds, FirstNonValidated
    <3>3. CleanOK(j)' /\ ResultOK(j)'
      BY <1>2, <2>1, <2>3 DEF TaskOK, CleanOK, ResultOK
    <3>4. QED
      BY <3>1, <3>2, <3>3 DEF TaskOK
  <2>5. CommittedOK'
    BY <1>1, <2>1, <2>2 DEF CommittedOK
  <2>6. QED
    BY <2>4, <2>5 DEF RoundsInv
<1>5. ASSUME NEW start \in Tasks, GoSynchronous(start)
      PROVE  RoundsInv'
  <2>1. lastStoreIdx <= start
    BY <1>1, <1>5, StartNotCommitted DEF GoSynchronous
  <2>2. CommittedOK'
    BY <1>1, <1>5, <2>1 DEF CommittedOK, GoSynchronous
  <2>3. QED
    BY <1>5, <2>2 DEF RoundsInv, GoSynchronous, InRounds
<1>6. CASE EndRound
  <2>1. \A j \in Tasks : pc[j] = "idle" /\ TaskOK(j)
    BY <1>1, <1>6 DEF EndRound, AllIdle, InRounds
  <2>2. ASSUME NEW j \in Tasks
        PROVE  TaskOK(j)'
    <3>1. TracerOK(j)' /\ StatusOK(j)' /\ CheckOK(j)'
      BY <1>6, <2>1 DEF TaskOK, TracerOK, StatusOK, CheckOK, InRounds, EndRound
    <3>2. CleanOK(j)' /\ ResultOK(j)'
      BY <1>2, <1>6, <2>1 DEF TaskOK, CleanOK, ResultOK, EndRound
    <3>3. QED
      BY <3>1, <3>2 DEF TaskOK
  <2>3. CommittedOK'
    BY <1>1, <1>6 DEF CommittedOK, EndRound
  <2>4. QED
    BY <2>2, <2>3 DEF RoundsInv
<1>7. CASE Return
  <2>1. CommittedOK'
    BY <1>1, <1>7 DEF CommittedOK, Return
  <2>2. QED
    BY <1>7, <2>1 DEF RoundsInv, Return, InRounds
<1>8. CASE Terminated
  <2>1. CommittedOK'
    BY <1>1, <1>8 DEF CommittedOK, Terminated, vars
  <2>2. QED
    BY <1>8, <2>1 DEF RoundsInv, Terminated, InRounds, vars
<1>9. QED
  BY <1>3, <1>4, <1>5, <1>6, <1>7, <1>8

(* The steps of the workers and of processAllSync.                         *)
LEMMA WorkerRounds ==
  ASSUME RoundsInvariant, NEW i \in Tasks, Execute(i) \/ Validate(i) \/ ProcessAllSync(i)
  PROVE  RoundsInv'
<1>1. /\ TypeOK /\ PhaseOK /\ CommittedOK /\ (\A j \in Tasks : TaskRecorded(j))
      /\ InRounds => \A j \in Tasks : TaskOK(j)
  BY DEF RoundsInvariant, TaskInv, RoundsInv
<1>2. ASSUME Execute(i) \/ Validate(i)
      PROVE  RoundsInv'
  <2>1. /\ WorkerStep /\ pc[i] \in Executing \cup Validating
        /\ \A j \in Tasks : j # i => Same(j)
    BY <1>1, <1>2, ExecuteFrame, ValidateFrame
  <2>2. InRounds
    BY <1>1, <2>1 DEF InRounds, PhaseOK, AllIdle, Executing, Validating, TypeOK, Phases
  <2>3. TaskOK(i)'
    BY <1>1, <1>2, <2>2, ExecuteTaskOK, ValidateTaskOK
  <2>4. \A j \in Tasks : TaskOK(j)'
    BY <1>1, <2>1, <2>2, <2>3, SameTaskOK
  <2>5. CommittedOK'
    <3>1. phase = "execute" => UNCHANGED toExecute
      BY <1>1, <1>2, <2>1, ExecuteFrame, ValidateFrame
      DEF PhaseOK, Executing, Validating, TypeOK
    <3>2. i >= lastStoreIdx
      BY <1>1, <2>1 DEF CommittedOK, TypeOK, Executing, Validating
    <3>3. ASSUME NEW j \in Tasks, j < lastStoreIdx
          PROVE  status'[j] = "validated" /\ pc'[j] = "idle"
      <4>1. j # i
        BY <1>1, <3>2, <3>3 DEF TypeOK
      <4>2. QED
        BY <1>1, <2>1, <3>3, <4>1 DEF CommittedOK, Same
    <3>4. QED
      BY <1>1, <2>1, <2>2, <3>1, <3>3 DEF CommittedOK, WorkerStep, InRounds
  <2>6. QED
    BY <2>4, <2>5 DEF RoundsInv
<1>3. ASSUME ProcessAllSync(i)
      PROVE  RoundsInv'
  <2>1. /\ phase = "sync" /\ i = syncIdx /\ syncIdx' = i + 1
        /\ UNCHANGED <<txs, phase, lastStoreIdx, synchronous, toExecute, pc>>
        /\ \A j \in Tasks : j # i => Same(j)
    BY <1>1, <1>3, SyncFrame
  <2>2. CommittedOK'
    BY <1>1, <2>1 DEF CommittedOK, Same, TypeOK
  <2>3. QED
    BY <2>1, <2>2 DEF RoundsInv, InRounds
<1>4. QED
  BY <1>2, <1>3

(* The invariant is inductive.                                             *)
LEMMA RoundsInductive ==
  /\ Init => RoundsInvariant
  /\ RoundsInvariant /\ [Next]_vars => RoundsInvariant'
<1>1. Init => RoundsInvariant
  BY InitRecorded, InitRounds DEF RoundsInvariant, TaskInv
<1>2. ASSUME RoundsInvariant, [Next]_vars
      PROVE  RoundsInvariant'
  <2>1. TaskInv'
    BY <1>2, NextRecorded DEF RoundsInvariant, TaskInv
  <2>2. CASE UNCHANGED vars
    <3>1. CommittedOK'
      BY <1>2, <2>2 DEF RoundsInvariant, RoundsInv, CommittedOK, vars, mainVars, syncVars, taskVars
    <3>2. InRounds => \A j \in Tasks : Same(j) /\ WorkerStep
      BY <2>2 DEF Same, WorkerStep, vars, storeVars, mainVars, syncVars, taskVars, tracerVars,
         checkVars
    <3>3. InRounds' => InRounds
      BY <2>2 DEF InRounds, vars, mainVars
    <3>4. QED
      BY <1>2, <2>1, <3>1, <3>2, <3>3, SameTaskOK DEF RoundsInvariant, RoundsInv
  <2>3. CASE Next
    <3>1. RoundsInv'
      BY <1>2, <2>3, MainRounds, WorkerRounds DEF Next
    <3>2. QED
      BY <2>1, <3>1 DEF RoundsInvariant
  <2>4. QED
    BY <1>2, <2>2, <2>3
<1>3. QED
  BY <1>1, <1>2

-----------------------------------------------------------------------------
(* What the invariant gives.                                               *)

(* Between rounds no task is forgotten, whatever the workers did: one that *)
(* is not validated is in the next round, or waits, and has left no read   *)
(* set and no value behind.                                                *)
THEOREM NoTaskIsForgotten == Spec => []NoTaskForgotten
<1>1. RoundsInvariant => NoTaskForgotten
  <2> SUFFICES ASSUME RoundsInvariant, phase = "loop",
                      NEW i \in Tasks, status[i] # "validated"
               PROVE  /\ ~response[i] <=> i \in toExecute
                      /\ status[i] = IF i \in toExecute THEN "pending" ELSE "waiting"
                      /\ KeysRead(i) = {}
                      /\ \A k \in Keys : multiVersionMap[k][i].kind # "value"
    BY DEF NoTaskForgotten
  <2>1. TaskOK(i) /\ pc[i] = "idle"
    BY DEF RoundsInvariant, TaskInv, RoundsInv, InRounds, PhaseOK, AllIdle
  <2>2. /\ status[i] \in {"pending", "waiting"}
        /\ i \in toExecute <=> status[i] = "pending"
        /\ response[i] <=> status[i] = "waiting"
    BY <2>1 DEF TaskOK, StatusOK, InRounds
  <2>3. Clean(i)
    BY <2>1, <2>2 DEF TaskOK, CleanOK
  <2>4. QED
    BY <2>2, <2>3 DEF Clean, KeysRead, NoReads
<1>2. QED
  BY <1>1, RoundsInductive, PTL DEF Spec

(* A step touches no task that has been written back: the main goroutine   *)
(* touches none, a worker and processAllSync only the one they are at.     *)
LEMMA CommittedUntouched ==
  ASSUME TypeOK, CommittedOK, Next, NEW j \in Tasks, j < lastStoreIdx
  PROVE  /\ status'[j] = status[j]
         /\ incarnation'[j] = incarnation[j]
         /\ response'[j] = response[j]
         /\ \A k \in Keys : multiVersionMap'[k][j] = multiVersionMap[k][j]
<1>1. CASE \/ \E i \in Tasks : StartRound(i) \/ StartValidation(i) \/ GoSynchronous(i)
           \/ EndRound \/ Return \/ Terminated
  <2>1. UNCHANGED <<status, incarnation, response, multiVersionMap>>
    BY <1>1 DEF StartRound, WriteLatestToStoreUntil, StartValidation, HandOut, GoSynchronous,
       EndRound, Return, WriteLatestToStore, Terminated, vars, storeVars, taskVars
  <2>2. QED
    BY <2>1
<1>2. ASSUME NEW i \in Tasks, Execute(i) \/ Validate(i) \/ ProcessAllSync(i)
      PROVE  Same(j)
  <2>1. \A l \in Tasks : l # i => Same(l)
    BY <1>2, ExecuteFrame, ValidateFrame, SyncFrame
  <2>2. i >= lastStoreIdx
    <3>1. CASE ProcessAllSync(i)
      BY <3>1, SyncFrame DEF CommittedOK, TypeOK
    <3>2. CASE Execute(i) \/ Validate(i)
      <4>1. pc[i] # "idle"
        BY <3>2, ExecuteFrame, ValidateFrame DEF Executing, Validating
      <4>2. QED
        BY <4>1 DEF CommittedOK, TypeOK
    <3>3. QED
      BY <1>2, <3>1, <3>2
  <2>3. j # i
    BY <2>2 DEF TypeOK
  <2>4. QED
    BY <2>1, <2>3
<1>3. QED
  BY <1>1, <1>2 DEF Next, Same

(* No step of any worker, of the main goroutine or of processAllSync       *)
(* touches a task that has been written back.                              *)
THEOREM CommittedTasksAreFinal == Spec => CommittedIsFinal
<1> DEFINE Kept ==
      \A i \in Tasks : i < lastStoreIdx =>
        /\ status'[i] = status[i]
        /\ incarnation'[i] = incarnation[i]
        /\ response'[i] = response[i]
        /\ \A k \in Keys : multiVersionMap'[k][i] = multiVersionMap[k][i]
<1>1. RoundsInvariant /\ Next => Kept
  BY CommittedUntouched DEF RoundsInvariant, TaskInv, RoundsInv
<1> HIDE DEF Kept
<1>2. RoundsInvariant /\ [Next]_vars => [Kept]_vars
  BY <1>1
<1>3. Spec => [][Kept]_vars
  BY <1>2, RoundsInductive, PTL DEF Spec
<1>4. QED
  BY <1>3 DEF CommittedIsFinal, Kept

-----------------------------------------------------------------------------
(* maxIncarnation.                                                         *)

(* Validating workers raise incarnations to at most one above the highest  *)
(* the round began with, and store nothing but that.                       *)
LEMMA ValidateIncarnations ==
  ASSUME TypeOK, NEW i \in Tasks, Validate(i),
         NEW m \in 0 .. maxIncarnation, IncarnationsBelow(m)
  PROVE  IncarnationsBelow(m)' /\ maxIncarnation <= maxIncarnation'
<1>1. /\ pc[i] \in Validating
      /\ \A j \in Tasks : j # i => pc'[j] = pc[j] /\ incarnation'[j] = incarnation[j]
  BY ValidateFrame DEF Same
<1>2. /\ \A j \in Tasks : incarnation[j] \in Nat
      /\ maxIncarnation \in Nat /\ m \in Nat /\ m <= maxIncarnation
      /\ maxIncarnation \in {m, m + 1}
  BY DEF TypeOK, IncarnationsBelow
<1> USE DEF TypeOK, taskVars
<1>3. CASE Reset(i)
  <2>1. /\ pc[i] = "reset" /\ pc'[i] = "max"
        /\ incarnation'[i] = incarnation[i] + 1
        /\ UNCHANGED maxIncarnation
    BY <1>3 DEF Reset
  <2>2. ASSUME NEW j \in Tasks
        PROVE  /\ pc'[j] = "idle" => incarnation'[j] <= maxIncarnation
               /\ pc'[j] \notin {"idle", "max", "store"} => incarnation'[j] <= m
               /\ pc'[j] = "max" => incarnation'[j] <= m + 1
               /\ pc'[j] = "store" => incarnation'[j] = m + 1
    <3>1. CASE j = i
      <4>1. incarnation[i] <= m
        BY <2>1 DEF IncarnationsBelow
      <4>2. incarnation'[i] <= m + 1
        BY <1>2, <2>1, <4>1
      <4>3. QED
        BY <2>1, <3>1, <4>2
    <3>2. CASE j # i
      BY <1>1, <3>2 DEF IncarnationsBelow
    <3>3. QED
      BY <3>1, <3>2
  <2>3. PICK j \in Tasks :
          \/ incarnation[j] = maxIncarnation
          \/ incarnation[j] = maxIncarnation + 1 /\ pc[j] \in {"max", "store"}
    BY DEF IncarnationsBelow
  <2>4. \/ incarnation'[j] = maxIncarnation
        \/ incarnation'[j] = maxIncarnation + 1 /\ pc'[j] \in {"max", "store"}
    BY <1>1, <2>1, <2>3
  <2>5. QED
    BY <1>2, <2>1, <2>2, <2>4 DEF IncarnationsBelow
<1>4. CASE LoadMax(i)
  <2>1. /\ pc[i] = "max"
        /\ pc'[i] = IF incarnation[i] > maxIncarnation THEN "store" ELSE "idle"
        /\ UNCHANGED <<incarnation, maxIncarnation>>
    BY <1>4 DEF LoadMax
  <2>2. ASSUME NEW j \in Tasks
        PROVE  /\ pc'[j] = "idle" => incarnation[j] <= maxIncarnation
               /\ pc'[j] \notin {"idle", "max", "store"} => incarnation[j] <= m
               /\ pc'[j] = "max" => incarnation[j] <= m + 1
               /\ pc'[j] = "store" => incarnation[j] = m + 1
    BY <1>1, <1>2, <2>1 DEF IncarnationsBelow
  <2>3. PICK j \in Tasks :
          \/ incarnation[j] = maxIncarnation
          \/ incarnation[j] = maxIncarnation + 1 /\ pc[j] \in {"max", "store"}
    BY DEF IncarnationsBelow
  <2>4. \/ incarnation[j] = maxIncarnation
        \/ incarnation[j] = maxIncarnation + 1 /\ pc'[j] \in {"max", "store"}
    BY <1>1, <1>2, <2>1, <2>3
  <2>5. QED
    BY <1>2, <2>1, <2>2, <2>4 DEF IncarnationsBelow
<1>5. CASE StoreMax(i)
  <2>1. /\ pc[i] = "store" /\ pc'[i] = "idle"
        /\ maxIncarnation' = incarnation[i]
        /\ UNCHANGED incarnation
    BY <1>5 DEF StoreMax
  <2>2. maxIncarnation' = m + 1
    BY <2>1 DEF IncarnationsBelow
  <2>3. ASSUME NEW j \in Tasks
        PROVE  /\ pc'[j] = "idle" => incarnation[j] <= m + 1
               /\ pc'[j] \notin {"idle", "max", "store"} => incarnation[j] <= m
               /\ pc'[j] = "max" => incarnation[j] <= m + 1
               /\ pc'[j] = "store" => incarnation[j] = m + 1
    BY <1>1, <1>2, <2>1, <2>2 DEF IncarnationsBelow
  <2>4. QED
    BY <1>2, <2>1, <2>2, <2>3 DEF IncarnationsBelow
<1>6. CASE \/ Branch(i) \/ Accept(i) \/ Reject(i) \/ Depend(i) \/ DependenciesMet(i)
           \/ Wait(i)
           \/ \E k \in Keys : CheckRead(i, k) \/ Invalidate(i, k)
           \/ \E j \in Tasks : DependencyCheck(i, j)
  <2>1. /\ pc[i] \notin {"idle", "max", "store"}
        /\ pc'[i] \notin {"max", "store"}
        /\ UNCHANGED <<incarnation, maxIncarnation>>
    BY <1>6 DEF Branch, Accept, Reject, Depend, DependenciesMet, Wait, CheckRead, Invalidate,
       DependencyCheck
  <2>2. ASSUME NEW j \in Tasks
        PROVE  /\ pc'[j] = "idle" => incarnation[j] <= maxIncarnation
               /\ pc'[j] \notin {"idle", "max", "store"} => incarnation[j] <= m
               /\ pc'[j] = "max" => incarnation[j] <= m + 1
               /\ pc'[j] = "store" => incarnation[j] = m + 1
    BY <1>1, <1>2, <2>1 DEF IncarnationsBelow
  <2>3. PICK j \in Tasks :
          \/ incarnation[j] = maxIncarnation
          \/ incarnation[j] = maxIncarnation + 1 /\ pc[j] \in {"max", "store"}
    BY DEF IncarnationsBelow
  <2>4. \/ incarnation[j] = maxIncarnation
        \/ incarnation[j] = maxIncarnation + 1 /\ pc'[j] \in {"max", "store"}
    BY <1>1, <2>1, <2>3
  <2>5. QED
    BY <1>2, <2>1, <2>2, <2>4 DEF IncarnationsBelow
<1>7. QED
  BY <1>3, <1>4, <1>5, <1>6 DEF Validate

(* maxIncarnation is the highest incarnation at the end of every round,    *)
(* although several workers may have compared it with their own before the *)
(* first of them stores.                                                   *)
THEOREM MaxIncarnationIsExact == Spec => []MaxIncarnationExact
<1> DEFINE Inv == TypeOK /\ PhaseOK /\ IncarnationInv
<1>1. Init => Inv
  <2> SUFFICES ASSUME Init PROVE Inv
    OBVIOUS
  <2>1. 0 \in Tasks
    BY BlockAssumption
  <2>2. IncarnationInv
    BY <2>1 DEF Init, IncarnationInv
  <2>3. QED
    BY <2>2, InitTypeOK
<1>2. ASSUME Inv, [Next]_vars
      PROVE  Inv'
  <2>1. TypeOK' /\ PhaseOK'
    BY <1>2, NextTypeOK
  <2>2. /\ \A j \in Tasks : incarnation[j] \in Nat
        /\ maxIncarnation \in Nat
    BY <1>2 DEF TypeOK
  <2> USE DEF IncarnationInv
  <2>3. CASE UNCHANGED vars
    <3>1. UNCHANGED <<phase, pc, incarnation, maxIncarnation>>
      BY <2>3 DEF vars, mainVars, taskVars
    <3>2. ASSUME NEW m \in 0 .. maxIncarnation, IncarnationsBelow(m)
          PROVE  IncarnationsBelow(m)'
      BY <3>1, <3>2 DEF IncarnationsBelow
    <3>3. QED
      BY <1>2, <2>1, <3>1, <3>2
  <2>4. CASE \/ \E i \in Tasks : StartRound(i) \/ GoSynchronous(i) \/ ProcessAllSync(i)
             \/ Return \/ Terminated
    <3>1. \/ phase' \in {"sync", "done"}
          \/ /\ phase = "loop" /\ phase' = "execute"
             /\ UNCHANGED <<incarnation, maxIncarnation>>
      BY <2>4 DEF StartRound, GoSynchronous, ProcessAllSync, SyncSkip, SyncStrand, SyncRun,
         SyncStep, Return, Terminated, vars, mainVars, taskVars
    <3>2. QED
      BY <1>2, <2>1, <3>1
  <2>5. ASSUME NEW i \in Tasks, StartValidation(i)
        PROVE  Inv'
    <3>1. /\ phase = "execute" /\ phase' = "validate"
          /\ \A j \in Tasks : pc'[j] \in {"validate", "idle"}
          /\ UNCHANGED <<incarnation, maxIncarnation>>
      BY <2>5 DEF StartValidation, HandOut, taskVars
    <3>2. IncarnationsBelow(maxIncarnation)'
      BY <1>2, <2>2, <3>1 DEF IncarnationsBelow
    <3>3. maxIncarnation' \in 0 .. maxIncarnation'
      BY <2>2, <3>1
    <3>4. QED
      BY <2>1, <3>1, <3>2, <3>3
  <2>6. CASE EndRound
    <3>1. /\ phase = "validate" /\ phase' = "loop"
          /\ \A j \in Tasks : pc[j] = "idle"
          /\ UNCHANGED <<incarnation, maxIncarnation>>
      BY <2>6 DEF EndRound, AllIdle, taskVars
    <3>2. QED
      BY <1>2, <2>1, <3>1 DEF IncarnationsBelow
  <2>7. ASSUME NEW i \in Tasks, Execute(i)
        PROVE  Inv'
    <3>1. pc[i] \in Executing /\ UNCHANGED <<phase, incarnation, maxIncarnation>>
      BY <1>2, <2>7, ExecuteFrame DEF WorkerStep
    <3>2. phase = "execute"
      BY <1>2, <3>1 DEF PhaseOK, AllIdle, Executing, Validating, TypeOK, Phases
    <3>3. QED
      BY <1>2, <2>1, <3>1, <3>2
  <2>8. ASSUME NEW i \in Tasks, Validate(i)
        PROVE  Inv'
    <3>1. pc[i] \in Validating /\ UNCHANGED phase
      BY <1>2, <2>8, ValidateFrame DEF WorkerStep
    <3>2. phase = "validate"
      BY <1>2, <3>1 DEF PhaseOK, AllIdle, Executing, Validating, TypeOK, Phases
    <3>3. PICK m \in 0 .. maxIncarnation : IncarnationsBelow(m)
      BY <1>2, <3>2
    <3>4. IncarnationsBelow(m)' /\ maxIncarnation <= maxIncarnation'
      BY <1>2, <2>8, <3>3, ValidateIncarnations
    <3>5. maxIncarnation' \in Nat
      BY <2>1 DEF TypeOK
    <3>6. m \in 0 .. maxIncarnation'
      BY <2>2, <3>4, <3>5
    <3>7. QED
      BY <2>1, <3>1, <3>2, <3>4, <3>6
  <2>9. QED
    BY <1>2, <2>3, <2>4, <2>5, <2>6, <2>7, <2>8 DEF Next
<1>3. Inv => MaxIncarnationExact
  BY DEF IncarnationInv, MaxIncarnationExact
<1>4. QED
  BY <1>1, <1>2, <1>3, PTL DEF Spec

=============================================================================
