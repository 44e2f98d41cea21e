---------------------------- MODULE UpdateProofs ----------------------------
(***************************************************************************)
(* Blocks of updates: in every round the executors read all that has been  *)
(* committed, a task at the front costs at most two rounds, and for steady *)
(* updates the fallback, too, does what sequential execution does.  For    *)
(* any number of transactions, keys, words, workers and rounds, and every  *)
(* interleaving of the workers.                                            *)
(***************************************************************************)
EXTENDS UpdateInvariant, SequentialProofs

USE DEF Tasks

-----------------------------------------------------------------------------
(* Updates.                                                                *)

(* What a block is does not change.                                        *)
LEMMA BlockKept ==
  ASSUME UNCHANGED txs
  PROVE  /\ UpdatesOnly' <=> UpdatesOnly
         /\ SteadyUpdates' <=> SteadyUpdates
         /\ NoneRefused' <=> NoneRefused
         /\ \A i \in Tasks : WritesOf(i)' = WritesOf(i)
<1>1. Sequential' = Sequential
  BY SequentialKept
<1>2. UpdatesOnly' <=> UpdatesOnly
  BY <1>1 DEF UpdatesOnly
<1>3. SteadyUpdates' <=> SteadyUpdates
  BY <1>1, <1>2 DEF SteadyUpdates
<1>4. NoneRefused' <=> NoneRefused
  BY <1>1 DEF NoneRefused
<1>5. \A i \in Tasks : WritesOf(i)' = WritesOf(i)
  BY <1>1 DEF WritesOf
<1>6. QED
  BY <1>2, <1>3, <1>4, <1>5

(* An update that is not refused reads and changes the words it writes.    *)
LEMMA UpdateChanges ==
  ASSUME UpdatesOnly, NEW i \in Tasks, NEW n \in 0 .. i,
         Deliver(txs[i], Sequential[n]).result # "err"
  PROVE  /\ Deliver(txs[i], Sequential[n]).result = "ok"
         /\ \A k \in DOMAIN Deliver(txs[i], Sequential[n]).writes :
              /\ k \in Deliver(txs[i], Sequential[n]).reads
              /\ Deliver(txs[i], Sequential[n]).writes[k] # Sequential[n][k]
BY DEF UpdatesOnly

(* The parent state is sequential when it replays the committed tasks.     *)
LEMMA ParentSequential ==
  ASSUME TypeOK, SequentialInv, parentStore = Replayed[lastStoreIdx]
  PROVE  /\ lastStoreIdx \in 0 .. N
         /\ parentStore = Sequential[lastStoreIdx]
         /\ \A n \in 0 .. lastStoreIdx : Replayed[n] = Sequential[n]
<1>1. lastStoreIdx \in 0 .. N /\ lastStoreIdx \in 0 .. lastStoreIdx
  <2>1. lastStoreIdx \in Tasks
    BY DEF TypeOK
  <2>2. QED
    BY <2>1, BlockAssumption
<1>2. \A n \in 0 .. lastStoreIdx : Replayed[n] = Sequential[n]
  BY <1>1, StepsAreSequential DEF SequentialInv
<1>3. QED
  BY <1>1, <1>2

(* The keys of the read set of a run are the keys the transaction reads,   *)
(* and those of its write set among them.                                  *)
LEMMA RanReads ==
  ASSUME TypeOK, NEW i \in Tasks, NEW s \in States, Ran(i, s)
  PROVE  /\ KeysRead(i) = Deliver(txs[i], s).reads
         /\ \A k \in KeysRead(i) : txReadSets[i][k] = {s[k]}
<1>1. Deliver(txs[i], s).reads \subseteq Keys
  BY OutcomeTypes
<1>2. txReadSets[i] = ReadsOf(Deliver(txs[i], s).reads, s)
  BY DEF Ran
<1> DEFINE keys == Deliver(txs[i], s).reads
<1> HIDE DEF keys
<1>3. KeysRead(i) = keys /\ \A k \in keys : txReadSets[i][k] = {s[k]}
  BY <1>1, <1>2 DEF ReadsOf, KeysRead, keys
<1>4. QED
  BY <1>3 DEF keys

(* A run on one state is a run on every state that has the words it read.  *)
LEMMA RanElsewhere ==
  ASSUME TypeOK, NEW i \in Tasks, NEW s \in States, NEW t \in States, Ran(i, s),
         \A k \in KeysRead(i) : s[k] = t[k]
  PROVE  Ran(i, t) /\ Deliver(txs[i], t) = Deliver(txs[i], s)
<1>1. txs[i] \in Programs
  BY BlocksAssumption DEF TypeOK
<1>2. Deliver(txs[i], s).reads = KeysRead(i)
  BY RanReads
<1>3. Deliver(txs[i], t) = Deliver(txs[i], s)
  BY <1>1, <1>2, ReadsAssumption DEF Ran
<1>4. KeysRead(i) \subseteq Keys
  BY DEF KeysRead
<1>5. ReadsOf(KeysRead(i), s) = ReadsOf(KeysRead(i), t)
  <2> DEFINE keys == KeysRead(i)
  <2> HIDE DEF keys
  <2>1. \A k \in keys : s[k] = t[k]
    BY DEF keys
  <2>2. ReadsOf(keys, s) = ReadsOf(keys, t)
    BY <2>1 DEF ReadsOf
  <2>3. QED
    BY <2>2 DEF keys
<1>6. Ran(i, t)
  BY <1>2, <1>3, <1>5 DEF Ran
<1>7. QED
  BY <1>3, <1>6

(* The writes of a run on what the tasks before it leave make the task's   *)
(* step.                                                                   *)
LEMMA WritesAreStep ==
  ASSUME NEW map \in [Keys -> Tree], NEW i \in Tasks, NEW p, NEW s,
         s = Replay(map, InitState)[i],
         Deliver(p, s).result # "err",
         \A k \in Keys : HoldsWrite(map[k][i], Deliver(p, s).writes, k)
  PROVE  Replay(map, InitState)[i + 1] = Ideal!CommitTransaction(p, s)
<1> DEFINE r == Replay(map, InitState)
           out == Deliver(p, s)
<1>1. i \in 0 .. N /\ i + 1 \in 1 .. N /\ i + 1 \in 0 .. N /\ (i + 1) - 1 = i
  BY BlockAssumption
<1>2. /\ r \in [0 .. N -> States]
      /\ \A n \in 1 .. N, k \in Keys :
           r[n][k] = IF map[k][n - 1].kind = "value" THEN map[k][n - 1].value ELSE r[n - 1][k]
  BY InitStateAssumption, ReplayEquation
<1>3. Ideal!CommitTransaction(p, s) =
        IF out.result = "err" THEN s
        ELSE [k \in Keys |-> IF k \in DOMAIN out.writes THEN out.writes[k] ELSE s[k]]
  BY DEF Ideal!CommitTransaction
<1>4. out.result # "err" /\ s = r[i] /\ \A k \in Keys : HoldsWrite(map[k][i], out.writes, k)
  OBVIOUS
<1> HIDE DEF r, out
<1>5. \A k \in Keys : r[i + 1][k] = IF k \in DOMAIN out.writes THEN out.writes[k] ELSE s[k]
  BY <1>1, <1>2, <1>4 DEF HoldsWrite
<1>6. r[i + 1] = [k \in Keys |-> r[i + 1][k]]
  BY <1>1, <1>2 DEF States
<1>7. r[i + 1] = Ideal!CommitTransaction(p, s)
  BY <1>3, <1>4, <1>5, <1>6
<1>8. QED
  BY <1>7 DEF r

(* So does what a task has published.                                      *)
LEMMA RanIsStep ==
  ASSUME TypeOK, NEW i \in Tasks, Ran(i, Replayed[i])
  PROVE  CommittedStep(i)
<1>1. multiVersionMap \in [Keys -> Tree]
  BY DEF TypeOK, StoreTypeOK
<1>2. QED
  BY <1>1, WritesAreStep DEF Ran, Replayed, CommittedStep

-----------------------------------------------------------------------------
(* The steps of a round.                                                   *)

(* What a task holds stays a run while the step leaves the task alone.     *)
LEMMA RunsOnKept ==
  ASSUME WorkerStep, NEW j \in Tasks, Same(j), RunsOn(j, parentStore)
  PROVE  RunsOn(j, parentStore)'
BY DEF WorkerStep, Same, RunsOn, Sound, Ran

(* An executor publishes a run on the parent state.                        *)
LEMMA ExecuteRunsOn ==
  ASSUME TypeOK, PhaseOK, NEW i \in Tasks, TaskOK(i), Execute(i), RunsOn(i, parentStore)
  PROVE  RunsOn(i, parentStore)'
<1>1. /\ WorkerStep /\ pc[i] \in Executing
      /\ UNCHANGED <<txs, parentStore>>
  BY ExecuteFrame DEF WorkerStep
<1> DEFINE out == Deliver(txs[i], parentStore)
           Writes(k) == multiVersionMap[k][i].kind = "value" =>
                          /\ out.result # "err"
                          /\ k \in DOMAIN out.writes
                          /\ multiVersionMap[k][i].value = out.writes[k]
           Result == /\ \A k \in Keys : Writes(k)'
                     /\ Sound(i)' => Ran(i, parentStore)'
<1>2. Result => RunsOn(i, parentStore)'
  BY <1>1 DEF RunsOn
<1>3. \A k \in Keys : Writes(k)
  BY DEF RunsOn
<1> USE DEF taskVars, storeVars, Sound
<1>4. CASE Begin(i)
  <2>1. /\ UNCHANGED <<status, multiVersionMap>> /\ pc[i] = "queued"
    BY <1>4 DEF Begin
  <2>2. status'[i] = "pending"
    BY <2>1 DEF TaskOK, StatusOK
  <2>3. QED
    BY <1>1, <1>2, <1>3, <2>1, <2>2
<1>5. CASE SelfDestruct(i) \/ Aborted(i) \/ Executed(i) \/ \E k \in Keys : Get(i, k)
  <2>1. UNCHANGED multiVersionMap /\ pc'[i] \in {"run", "publish"}
    BY <1>5 DEF SelfDestruct, Aborted, Executed, Get, Delivered, TakeWriteset, TypeOK
  <2>2. QED
    BY <1>1, <1>2, <1>3, <2>1
<1>6. ASSUME NEW k \in Keys, Publish(i, k)
      PROVE  RunsOn(i, parentStore)'
  <2>1. pc[i] = "publish" /\ pc' = pc
    BY <1>6 DEF Publish
  <2>2. out = outcome[i] /\ out.result # "err" /\ status[i] \in {"executed", "aborted"}
    BY <2>1 DEF TaskOK, TracerOK, StatusOK
  <2>3. /\ \A l \in Keys : l # k => multiVersionMap'[l][i] = multiVersionMap[l][i]
        /\ status[i] = "aborted" => multiVersionMap'[k][i].kind # "value"
        /\ status[i] # "aborted" =>
             HoldsWrite(multiVersionMap'[k][i], outcome[i].writes, k)
    BY <1>6, PublishVersion
  <2> HIDE DEF out
  <2>4. \A l \in Keys : Writes(l)'
    <3>1. ASSUME NEW l \in Keys
          PROVE  Writes(l)'
      <4>1. out' = out
        BY <1>1 DEF out
      <4>2. CASE l # k
        BY <1>3, <2>3, <4>1, <4>2
      <4>3. CASE l = k
        BY <2>2, <2>3, <4>1, <4>3 DEF HoldsWrite
      <4>4. QED
        BY <4>2, <4>3
    <3>2. QED
      BY <3>1
  <2>5. QED
    BY <1>2, <2>1, <2>4
<1>7. CASE Finish(i)
  <2>1. /\ pc[i] = "publish" /\ todo[i] = {}
        /\ txReadSets'[i] = IF status[i] = "executed" THEN readset[i] ELSE txReadSets[i]
        /\ UNCHANGED <<status, multiVersionMap>>
    BY <1>7 DEF Finish, TypeOK, StoreTypeOK
  <2>2. ASSUME status[i] = "executed"
        PROVE  Ran(i, parentStore)'
    BY <1>1, <2>1, <2>2 DEF TaskOK, TracerOK, ResultOK, Ran
  <2>3. status[i] \in {"executed", "aborted"}
    BY <2>1 DEF TaskOK, StatusOK
  <2>4. \A k \in Keys : Writes(k)'
    BY <1>1, <1>3, <2>1
  <2> HIDE DEF out
  <2>5. QED
    BY <1>2, <2>1, <2>2, <2>3, <2>4
<1>8. QED
  BY <1>4, <1>5, <1>6, <1>7 DEF Execute

(* A validating worker turns values into estimates, or leaves the run.     *)
LEMMA ValidateRunsOn ==
  ASSUME TypeOK, NEW i \in Tasks, TaskOK(i), phase = "validate", Validate(i),
         RunsOn(i, parentStore)
  PROVE  RunsOn(i, parentStore)'
<1>1. UNCHANGED <<txs, parentStore>>
  BY ValidateFrame DEF WorkerStep
<1>2. ASSUME NEW k \in Keys, multiVersionMap'[k][i].kind = "value"
      PROVE  multiVersionMap'[k][i] = multiVersionMap[k][i]
  <2>1. ASSUME NEW l \in Keys, Invalidate(i, l)
        PROVE  multiVersionMap'[k][i] = multiVersionMap[k][i]
    <3>1. multiVersionMap' = [multiVersionMap EXCEPT ![l] = SetEstimate(@, i, incarnation[i])]
      BY <2>1 DEF Invalidate
    <3>2. multiVersionMap[l] \in Tree /\ incarnation[i] \in Nat
      BY DEF TypeOK, StoreTypeOK
    <3>3. IsEstimate(SetEstimate(multiVersionMap[l], i, incarnation[i])[i])
      BY <3>2, SetEstimateTree
    <3>4. multiVersionMap'[l] = SetEstimate(multiVersionMap[l], i, incarnation[i])
      BY <3>1 DEF TypeOK, StoreTypeOK
    <3>5. k # l
      BY <1>2, <3>3, <3>4 DEF IsEstimate
    <3>6. QED
      BY <3>1, <3>5 DEF TypeOK, StoreTypeOK
  <2>2. (\E l \in Keys : Invalidate(i, l)) \/ UNCHANGED multiVersionMap
    BY DEF Validate, Branch, Accept, Reject, Depend, ClearReadset, DependenciesMet, Wait, Reset,
       LoadMax, StoreMax, CheckRead, DependencyCheck, storeVars
  <2>3. QED
    BY <2>1, <2>2
<1>3. ASSUME Sound(i)'
      PROVE  Ran(i, parentStore)'
  BY <1>1, <1>3, SoundSteps DEF RunsOn, Ran
<1>4. QED
  BY <1>1, <1>2, <1>3 DEF RunsOn

(* A validating worker gives no task a version of another key.             *)
LEMMA ValidateHoldsNoMore ==
  ASSUME TypeOK, NEW i \in Tasks, TaskRecorded(i), Validate(i),
         NEW k \in Keys, NEW j \in Tasks, multiVersionMap[k][j].kind = "none"
  PROVE  multiVersionMap'[k][j].kind = "none"
<1>1. CASE j # i
  BY <1>1, ValidateFrame DEF Same
<1>2. CASE j = i
  <2>1. ASSUME NEW l \in Keys, Invalidate(i, l)
        PROVE  multiVersionMap'[k] = multiVersionMap[k]
    <3>1. pc[i] = "invalidate" /\ l \in todo[i]
      BY <2>1 DEF Invalidate
    <3>2. i \in Held(multiVersionMap[l])
      BY <3>1 DEF TaskRecorded
    <3>3. k # l
      BY <1>2, <3>2 DEF Held
    <3>4. QED
      BY <2>1, <3>3 DEF Invalidate, TypeOK, StoreTypeOK
  <2>2. (\E l \in Keys : Invalidate(i, l)) \/ UNCHANGED multiVersionMap
    BY DEF Validate, Branch, Accept, Reject, Depend, ClearReadset, DependenciesMet, Wait, Reset,
       LoadMax, StoreMax, CheckRead, DependencyCheck, storeVars
  <2>3. QED
    BY <2>1, <2>2
<1>3. QED
  BY <1>1, <1>2

(* A valid read is of a key that no task in between holds a version of: it *)
(* would be the value of an update, and that changed the word.             *)
LEMMA ValidReadUntouched ==
  ASSUME TypeOK, UpdatesOnly, parentStore = Sequential[lastStoreIdx],
         \A i \in Tasks : i >= lastStoreIdx => RunsOn(i, parentStore),
         NEW j \in Tasks, j >= lastStoreIdx, Ran(j, parentStore),
         NEW k \in KeysRead(j), ReadValid(j, k, parentStore)
  PROVE  Untouched(j, k)
<1>1. StoreTypeOK /\ k \in Keys /\ parentStore \in States /\ lastStoreIdx \in Tasks
  BY DEF TypeOK, StoreTypeOK, KeysRead
<1>2. txReadSets[j][k] = {parentStore[k]}
  BY <1>1, RanReads
<1>3. CASE LatestBefore(j, k) = {}
  BY <1>1, <1>3, LatestBeforeFinds DEF Untouched
<1>4. ASSUME NEW m \in LatestBefore(j, k)
      PROVE  Untouched(j, k)
  <2>1. VersionGives(k, m, parentStore[k])
    BY <1>2, <1>4 DEF ReadValid
  <2>2. /\ m \in Tasks /\ m < j
        /\ multiVersionMap[k][m].kind # "none"
        /\ \A l \in Tasks : m < l /\ l < j => multiVersionMap[k][l].kind = "none"
    BY <1>1, LatestBeforeFinds
  <2>3. multiVersionMap[k][m].kind \in {"none", "value", "estimate"}
    BY <1>1, <2>2 DEF StoreTypeOK, Tree, Version
  <2>4. multiVersionMap[k][m].kind = "value" /\ multiVersionMap[k][m].value = parentStore[k]
    BY <2>1, <2>2, <2>3 DEF VersionGives, IsEstimate
  <2>5. m < lastStoreIdx
    <3>1. SUFFICES ASSUME m >= lastStoreIdx PROVE FALSE
      BY <1>1, <2>2
    <3>2. RunsOn(m, parentStore) /\ lastStoreIdx \in 0 .. m
      BY <1>1, <2>2, <3>1
    <3>3. /\ Deliver(txs[m], parentStore).result # "err"
          /\ k \in DOMAIN Deliver(txs[m], parentStore).writes
          /\ parentStore[k] = Deliver(txs[m], parentStore).writes[k]
      BY <1>1, <2>4, <3>2 DEF RunsOn
    <3>4. QED
      BY <2>2, <3>2, <3>3, UpdateChanges
  <2>6. QED
    BY <1>1, <2>2, <2>5 DEF Untouched
<1>5. QED
  BY <1>3, <1>4

(* What a validated task, or one that is being checked, has read stays     *)
(* untouched.                                                              *)
LEMMA ValidateUntouched ==
  ASSUME RoundsInvariant, UpdatesOnly, parentStore = Sequential[lastStoreIdx],
         phase = "validate", NEW i \in Tasks, Validate(i),
         \A j \in Tasks : j >= lastStoreIdx => RunsOn(j, parentStore) /\ ReadsUntouched(j),
         NEW j \in Tasks, j >= lastStoreIdx
  PROVE  ReadsUntouched(j)'
<1>1. /\ TypeOK /\ TaskOK(i) /\ TaskRecorded(i)
      /\ UNCHANGED lastStoreIdx
      /\ \A l \in Tasks : l # i => Same(l)
  BY ValidateFrame DEF RoundsInvariant, TaskInv, RoundsInv, InRounds, WorkerStep
<1>2. ASSUME NEW k \in Keys, Untouched(j, k)
      PROVE  Untouched(j, k)'
  BY <1>1, <1>2, ValidateHoldsNoMore DEF Untouched
<1>3. KeysRead(j) \subseteq Keys
  BY DEF KeysRead
<1>4. /\ status[j] = "validated" /\ pc[j] = "idle" => \A k \in KeysRead(j) : Untouched(j, k)
      /\ pc[j] = "check" /\ valid[j] => \A k \in KeysRead(j) \ todo[j] : Untouched(j, k)
  BY DEF ReadsUntouched
<1>5. CASE j # i
  <2>1. Same(j)
    BY <1>1, <1>5
  <2>2. KeysRead(j)' = KeysRead(j)
    BY <2>1 DEF Same, KeysRead
  <2>3. QED
    BY <1>2, <1>3, <1>4, <2>1, <2>2 DEF Same, ReadsUntouched
<1>6. CASE j = i
  <2> USE DEF taskVars, storeVars
  <2>1. CASE Branch(i)
    <3>1. /\ pc'[i] # "idle"
          /\ pc'[i] = "check" => todo'[i] = KeysRead(i)
          /\ UNCHANGED txReadSets
      BY <1>1, <2>1 DEF Branch, TypeOK
    <3>2. KeysRead(i)' = KeysRead(i)
      BY <3>1 DEF KeysRead
    <3>3. QED
      BY <1>6, <3>1, <3>2 DEF ReadsUntouched
  <2>2. ASSUME NEW k \in Keys, CheckRead(i, k)
        PROVE  ReadsUntouched(j)'
    <3>1. /\ pc[i] = "check" /\ k \in todo[i] /\ todo'[i] = todo[i] \ {k}
          /\ valid'[i] = (valid[i] /\ ReadValid(i, k, parentStore))
          /\ pc'[i] = "check" /\ UNCHANGED txReadSets
      BY <1>1, <2>2 DEF CheckRead, TypeOK
    <3>2. KeysRead(i)' = KeysRead(i)
      BY <3>1 DEF KeysRead
    <3>3. Ran(i, parentStore)
      BY <1>1, <1>6, <3>1 DEF RunsOn, Sound, TaskOK, StatusOK
    <3>4. ASSUME valid'[i], NEW l \in KeysRead(i) \ todo'[i]
          PROVE  Untouched(i, l)
      <4>1. CASE l = k
        BY <1>1, <1>6, <3>1, <3>3, <3>4, <4>1, ValidReadUntouched
      <4>2. CASE l # k
        BY <1>4, <1>6, <3>1, <3>4, <4>2
      <4>3. QED
        BY <4>1, <4>2
    <3>5. QED
      BY <1>2, <1>3, <1>6, <3>1, <3>2, <3>4 DEF ReadsUntouched
  <2>3. CASE Accept(i)
    <3>1. /\ pc[i] = "check" /\ todo[i] = {} /\ valid[i]
          /\ pc'[i] = "idle" /\ UNCHANGED txReadSets
      BY <1>1, <2>3 DEF Accept, TypeOK
    <3>2. KeysRead(i)' = KeysRead(i)
      BY <3>1 DEF KeysRead
    <3>3. QED
      BY <1>2, <1>3, <1>4, <1>6, <3>1, <3>2 DEF ReadsUntouched
  <2>4. CASE \/ Reject(i) \/ Depend(i) \/ DependenciesMet(i) \/ Wait(i) \/ Reset(i)
             \/ \E k \in Keys : Invalidate(i, k)
             \/ \E l \in Tasks : DependencyCheck(i, l)
    <3>1. \/ pc'[i] \in {"invalidate", "depend", "wait", "reset", "max"}
          \/ pc'[i] = "idle" /\ status'[i] = "waiting"
      BY <1>1, <2>4
      DEF Reject, Depend, DependenciesMet, Wait, Reset, Invalidate, DependencyCheck, TypeOK
    <3>2. QED
      BY <1>6, <3>1 DEF ReadsUntouched
  <2>5. CASE LoadMax(i) \/ StoreMax(i)
    <3>1. pc'[i] \in {"idle", "store"} /\ status'[i] = "pending"
      BY <1>1, <2>5 DEF LoadMax, StoreMax, TaskOK, StatusOK, TypeOK
    <3>2. QED
      BY <1>6, <3>1 DEF ReadsUntouched
  <2>6. QED
    BY <2>1, <2>2, <2>3, <2>4, <2>5 DEF Validate
<1>7. QED
  BY <1>5, <1>6

(* The write-back that starts a round brings the parent state up to date:  *)
(* a task beyond the prefix that holds a value has been validated, so it   *)
(* read the key, and no task of the prefix has touched it.  For the same   *)
(* reason what it holds is a run on the new parent state as well.          *)
LEMMA StartRoundUpdates ==
  ASSUME RoundsInvariant, SequentialInv, UpdateInv, UpdatesOnly,
         NEW start \in Tasks, StartRound(start), lastStoreIdx' = start, lastStoreIdx <= start
  PROVE  /\ parentStore' = Replayed[start]
         /\ \A j \in Tasks : j >= start => RunsOn(j, parentStore)'
<1>1. /\ TypeOK /\ StoreTypeOK /\ N \in Nat /\ lastStoreIdx \in Tasks
      /\ \A j \in Tasks : TaskOK(j) /\ pc[j] = "idle"
      /\ phase = "loop" /\ FirstNonValidated(start)
      /\ UNCHANGED <<txs, multiVersionMap, txReadSets, status>>
  <2>1. /\ phase = "loop" /\ FirstNonValidated(start)
        /\ UNCHANGED <<txs, multiVersionMap, txReadSets, status>>
    BY DEF StartRound, WriteLatestToStoreUntil, storeVars, taskVars
  <2>2. QED
    BY <2>1, BlockAssumption DEF RoundsInvariant, TaskInv, RoundsInv, TypeOK, InRounds, PhaseOK, AllIdle
<1>2. /\ parentStore = Replayed[lastStoreIdx]
      /\ \A j \in Tasks : j >= lastStoreIdx => RunsOn(j, parentStore) /\ ReadsUntouched(j)
  BY <1>1 DEF UpdateInv, InRounds
<1>3. /\ parentStore = Sequential[lastStoreIdx]
      /\ lastStoreIdx \in 0 .. N /\ start \in 0 .. N
      /\ parentStore \in States /\ multiVersionMap \in [Keys -> Tree]
  BY <1>1, <1>2, ParentSequential DEF StoreTypeOK
<1>4. ASSUME NEW j \in Tasks, start <= j, status[j] = "validated"
      PROVE  /\ Ran(j, parentStore)
             /\ \A k \in KeysRead(j) : Untouched(j, k)
  <2>1. j >= lastStoreIdx
    BY <1>1, <1>4
  <2>2. QED
    BY <1>1, <1>2, <1>4, <2>1 DEF RunsOn, ReadsUntouched, Sound
<1>5. ASSUME NEW j \in Tasks, start <= j, status[j] # "validated", NEW k \in Keys
      PROVE  multiVersionMap[k][j].kind # "value"
  BY <1>1, <1>5 DEF TaskOK, StatusOK, CleanOK, Clean
<1>6. Replayed[start] \in States
  BY <1>3, InitStateAssumption, ReplayEquation DEF Replayed
<1>7. parentStore' = Replayed[start]
  <2>1. CASE start = lastStoreIdx
    BY <1>1, <1>2, <2>1 DEF StartRound, storeVars
  <2>2. CASE start # lastStoreIdx
    <3>1. parentStore' = LatestToStoreUntil(lastStoreIdx, start)
      BY <1>1, <2>2 DEF StartRound, WriteLatestToStoreUntil
    <3>2. ASSUME NEW k \in Keys, NEW i \in Tasks, NEW j \in Tasks,
                 lastStoreIdx <= i, i < start, start <= j, multiVersionMap[k][j].kind = "value"
          PROVE  multiVersionMap[k][i].kind # "value"
      <4>1. Ran(j, parentStore) /\ \A l \in KeysRead(j) : Untouched(j, l)
        BY <1>4, <1>5, <3>2
      <4>2. lastStoreIdx \in 0 .. j /\ i < j
        BY <1>1, <3>2
      <4>3. k \in DOMAIN Deliver(txs[j], parentStore).writes
        BY <1>2, <3>2, <4>2 DEF RunsOn
      <4>4. k \in Deliver(txs[j], parentStore).reads
        BY <1>3, <4>1, <4>2, <4>3, UpdateChanges DEF Ran
      <4>5. k \in KeysRead(j)
        BY <1>1, <1>3, <4>1, <4>4, RanReads
      <4>6. QED
        BY <3>2, <4>1, <4>2, <4>5 DEF Untouched
    <3>3. LatestToStoreUntil(lastStoreIdx, start) = Replay(multiVersionMap, InitState)[start]
      <4>1. \A k \in Keys, i, j \in Tasks :
              lastStoreIdx <= i /\ i < start /\ start <= j /\ multiVersionMap[k][j].kind = "value" =>
                multiVersionMap[k][i].kind # "value"
        BY <3>2
      <4>2. parentStore = Replay(multiVersionMap, InitState)[lastStoreIdx]
        BY <1>2 DEF Replayed
      <4>3. StoreTypeOK /\ lastStoreIdx <= lastStoreIdx /\ lastStoreIdx <= start
        BY <1>1, <1>3
      <4>4. lastStoreIdx \in 0 .. N /\ start \in 0 .. N
        BY <1>3
      <4>5. QED
        BY <4>1, <4>2, <4>3, <4>4, InitStateAssumption, LatestToStoreUntilReplays
    <3>4. QED
      BY <3>1, <3>3 DEF Replayed
  <2>3. QED
    BY <2>1, <2>2
<1>8. ASSUME NEW j \in Tasks, j >= start
      PROVE  RunsOn(j, parentStore)'
  <2>1. CASE status[j] = "validated"
    <3>1. Ran(j, parentStore) /\ \A k \in KeysRead(j) : Untouched(j, k)
      BY <1>4, <1>8, <2>1
    <3>2. ASSUME NEW k \in KeysRead(j)
          PROVE  parentStore[k] = Replayed[start][k]
      <4>1. \A i \in Tasks : lastStoreIdx <= i /\ i < start => multiVersionMap[k][i].kind # "value"
        BY <1>8, <3>1 DEF Untouched
      <4>2. k \in Keys
        BY DEF KeysRead
      <4>3. Replay(multiVersionMap, InitState)[start][k]
              = Replay(multiVersionMap, InitState)[lastStoreIdx][k]
        BY <1>3, <4>1, <4>2, InitStateAssumption, ReplayUntouched
      <4>4. QED
        BY <1>2, <4>3 DEF Replayed
    <3>3. Ran(j, Replayed[start])
      BY <1>1, <1>3, <1>6, <3>1, <3>2, RanElsewhere
    <3> DEFINE s == Replayed[start]
               out == Deliver(txs[j], s)
    <3>4. \A k \in Keys : HoldsWrite(multiVersionMap[k][j], out.writes, k) /\ out.result # "err"
      BY <3>3 DEF Ran
    <3>5. Ran(j, parentStore)'
      BY <1>1, <1>7, <3>3 DEF Ran
    <3>6. out = Deliver(txs'[j], parentStore')
      BY <1>1, <1>7
    <3> HIDE DEF out
    <3>7. QED
      BY <1>1, <3>4, <3>5, <3>6 DEF RunsOn, HoldsWrite
  <2>2. CASE status[j] # "validated"
    <3>1. status[j] \notin {"executed", "validated"}
      BY <1>1, <2>2 DEF TaskOK, StatusOK
    <3>2. QED
      BY <1>1, <1>5, <1>8, <2>2, <3>1 DEF RunsOn, Sound
  <2>3. QED
    BY <2>1, <2>2
<1>9. QED
  BY <1>7, <1>8

(* Nothing has been published when the block starts.                       *)
LEMMA InitUpdates == Init => UpdateInv
<1> SUFFICES ASSUME Init PROVE UpdateInv
  OBVIOUS
<1>1. TypeOK
  BY InitTypeOK
<1>2. parentStore = Replayed[lastStoreIdx]
  <2>1. multiVersionMap \in [Keys -> Tree] /\ lastStoreIdx = 0 /\ parentStore = InitState
    BY <1>1 DEF Init, StoreInit, TypeOK, StoreTypeOK
  <2>2. Replayed[0] = InitState
    BY <2>1, InitStateAssumption, ReplayEquation DEF Replayed
  <2>3. QED
    BY <2>1, <2>2
<1>3. ASSUME NEW i \in Tasks
      PROVE  RunsOn(i, parentStore) /\ ReadsUntouched(i)
  <2>1. status[i] = "pending" /\ pc[i] = "idle" /\ \A k \in Keys : multiVersionMap[k][i].kind = "none"
    BY DEF Init, StoreInit, EmptyTree, NoVersion
  <2>2. QED
    BY <2>1 DEF RunsOn, Sound, ReadsUntouched
<1>4. QED
  BY <1>2, <1>3 DEF UpdateInv

(* The first task of a round is the first that has not been written back.  *)
LEMMA ValidationStartsAtFront ==
  ASSUME TypeOK, CommittedOK, SequentialInv, phase = "execute",
         NEW start \in Tasks, FirstNonValidated(start)
  PROVE  start = lastStoreIdx
<1>1. lastStoreIdx \in Tasks /\ status[lastStoreIdx] # "validated"
  BY DEF TypeOK, SequentialInv
<1>2. lastStoreIdx <= start
  BY StartNotCommitted
<1>3. ~(lastStoreIdx < start)
  BY <1>1 DEF FirstNonValidated
<1>4. QED
  BY <1>1, <1>2, <1>3

(* The other steps of the rounds.                                          *)
LEMMA StepUpdates ==
  ASSUME RoundsInvariant, SequentialInv, UpdateInv, TypeOK', UpdatesOnly, InRounds,
         \/ \E i \in Tasks : StartValidation(i) \/ Execute(i) \/ Validate(i)
         \/ EndRound
  PROVE  UpdateInv'
<1>1. /\ TypeOK /\ PhaseOK /\ CommittedOK /\ lastStoreIdx \in Tasks
      /\ \A j \in Tasks : TaskOK(j) /\ TaskRecorded(j)
  BY DEF RoundsInvariant, TaskInv, RoundsInv, TypeOK
<1>2. /\ parentStore = Replayed[lastStoreIdx]
      /\ \A j \in Tasks : j >= lastStoreIdx => RunsOn(j, parentStore)
      /\ phase \in {"loop", "validate"} => \A j \in Tasks : j >= lastStoreIdx => ReadsUntouched(j)
  BY DEF UpdateInv
<1>3. parentStore = Sequential[lastStoreIdx] /\ lastStoreIdx \in 0 .. N
      /\ lastStoreIdx \in 0 .. lastStoreIdx
  BY <1>1, <1>2, ParentSequential
<1>4. UNCHANGED <<txs, lastStoreIdx, parentStore>>
  BY <1>1, ExecuteFrame, ValidateFrame
  DEF WorkerStep, StartValidation, HandOut, EndRound, storeVars
<1>5. parentStore' = Replayed'[lastStoreIdx']
  <2>1. \A k \in Keys, j \in Tasks : j < lastStoreIdx =>
          multiVersionMap'[k][j] = multiVersionMap[k][j]
    BY <1>1, CommittedUntouched DEF Next
  <2>2. Replayed'[lastStoreIdx] = Replayed[lastStoreIdx]
    BY <1>1, <1>3, <1>4, <2>1, StepsKept
  <2>3. QED
    BY <1>2, <1>4, <2>2
<1> DEFINE Rest == /\ \A j \in Tasks : j >= lastStoreIdx => RunsOn(j, parentStore)'
                   /\ phase' \in {"loop", "validate"} =>
                        \A j \in Tasks : j >= lastStoreIdx => ReadsUntouched(j)'
<1>6. Rest => UpdateInv'
  BY <1>4, <1>5 DEF UpdateInv
<1>7. ASSUME NEW i \in Tasks, StartValidation(i)
      PROVE  Rest
  <2>1. /\ phase = "execute" /\ AllIdle /\ i = lastStoreIdx
        /\ pc' = [j \in Tasks |-> IF j \in {l \in Tasks : l >= i} THEN "validate" ELSE "idle"]
        /\ UNCHANGED <<multiVersionMap, txReadSets, status>>
    BY <1>1, <1>7, ValidationStartsAtFront DEF StartValidation, HandOut, storeVars, taskVars
  <2>2. ASSUME NEW j \in Tasks, j >= lastStoreIdx
        PROVE  RunsOn(j, parentStore)' /\ ReadsUntouched(j)'
    <3>1. pc'[j] = "validate" /\ pc[j] = "idle" /\ RunsOn(j, parentStore)
      BY <1>2, <2>1, <2>2 DEF AllIdle
    <3>2. QED
      BY <1>4, <2>1, <3>1 DEF RunsOn, Ran, Sound, ReadsUntouched
  <2>3. QED
    BY <2>2
<1>8. ASSUME NEW i \in Tasks, Execute(i)
      PROVE  Rest
  <2>1. /\ WorkerStep /\ pc[i] \in Executing
        /\ \A j \in Tasks : j # i => Same(j)
    BY <1>1, <1>8, ExecuteFrame
  <2>2. phase' = "execute"
    BY <1>1, <2>1 DEF WorkerStep, PhaseOK, AllIdle, Executing, Validating, InRounds
  <2>3. ASSUME NEW j \in Tasks, j >= lastStoreIdx
        PROVE  RunsOn(j, parentStore)'
    BY <1>1, <1>2, <1>8, <2>1, <2>3, ExecuteRunsOn, RunsOnKept
  <2>4. QED
    BY <2>2, <2>3
<1>9. ASSUME NEW i \in Tasks, Validate(i)
      PROVE  Rest
  <2>1. /\ WorkerStep /\ pc[i] \in Validating
        /\ \A j \in Tasks : j # i => Same(j)
    BY <1>1, <1>9, ValidateFrame
  <2>2. phase = "validate"
    BY <1>1, <2>1 DEF WorkerStep, PhaseOK, AllIdle, Executing, Validating, InRounds
  <2>3. ASSUME NEW j \in Tasks, j >= lastStoreIdx
        PROVE  RunsOn(j, parentStore)'
    BY <1>1, <1>2, <1>9, <2>1, <2>2, <2>3, ValidateRunsOn, RunsOnKept
  <2>4. \A j \in Tasks : j >= lastStoreIdx => RunsOn(j, parentStore) /\ ReadsUntouched(j)
    BY <1>2, <2>2
  <2>5. ASSUME NEW j \in Tasks, j >= lastStoreIdx
        PROVE  ReadsUntouched(j)'
    BY <1>3, <1>9, <2>2, <2>4, <2>5, ValidateUntouched
  <2>6. QED
    BY <2>3, <2>5
<1>10. ASSUME EndRound
       PROVE  Rest
  <2>1. /\ phase = "validate"
        /\ UNCHANGED <<multiVersionMap, txReadSets, status, pc, valid, todo>>
    BY <1>10 DEF EndRound, storeVars, taskVars, checkVars
  <2>2. ASSUME NEW j \in Tasks, j >= lastStoreIdx
        PROVE  RunsOn(j, parentStore)'
    BY <1>2, <1>4, <2>1, <2>2 DEF RunsOn, Ran, Sound
  <2>3. ASSUME NEW j \in Tasks, j >= lastStoreIdx
        PROVE  ReadsUntouched(j)'
    BY <1>2, <1>4, <2>1, <2>3 DEF ReadsUntouched, Untouched, KeysRead
  <2>4. QED
    BY <2>2, <2>3
<1>11. QED
  <2> HIDE DEF Rest
  <2>1. Rest
    BY <1>7, <1>8, <1>9, <1>10
  <2>2. QED
    BY <1>6, <2>1

(* The invariants of the rounds together.                                  *)
Rounds == RoundsInvariant /\ SequentialInv

(* The invariant is inductive.                                             *)
LEMMA UpdateInductive ==
  /\ Init => UpdateInv
  /\ Rounds /\ UpdateInv /\ [Next]_vars => UpdateInv'
<1>1. ASSUME Rounds, UpdateInv, [Next]_vars
      PROVE  UpdateInv'
  <2>1. RoundsInvariant /\ SequentialInv /\ RoundsInvariant'
    BY <1>1, SequentialInductive DEF Rounds
  <2>2. TypeOK /\ TypeOK' /\ PhaseOK
    BY <2>1 DEF RoundsInvariant, TaskInv
  <2>3. SUFFICES ASSUME InRounds', UpdatesOnly' PROVE UpdateInv'
    BY DEF UpdateInv
  <2>4. CASE UNCHANGED vars
    <3>1. /\ UNCHANGED <<multiVersionMap, txReadSets, parentStore, status, pc, valid, todo>>
          /\ UNCHANGED <<txs, phase, lastStoreIdx>>
      BY <2>4 DEF vars, storeVars, mainVars, taskVars, checkVars
    <3>2. UpdatesOnly /\ InRounds
      BY <2>3, <3>1, BlockKept DEF InRounds
    <3>3. Replayed' = Replayed
      BY <3>1 DEF Replayed
    <3>4. \A j \in Tasks : /\ RunsOn(j, parentStore) => RunsOn(j, parentStore)'
                           /\ ReadsUntouched(j) => ReadsUntouched(j)'
      BY <3>1 DEF RunsOn, Ran, Sound, ReadsUntouched, Untouched, KeysRead
    <3>5. QED
      BY <1>1, <3>1, <3>2, <3>3, <3>4 DEF UpdateInv
  <2>5. ASSUME NEW start \in Tasks, StartRound(start)
        PROVE  UpdateInv'
    <3>1. UNCHANGED <<txs, multiVersionMap>> /\ phase' = "execute"
      BY <2>5 DEF StartRound, WriteLatestToStoreUntil, storeVars
    <3>2. UpdatesOnly
      BY <2>3, <3>1, BlockKept
    <3>3. lastStoreIdx' = start /\ lastStoreIdx <= start
      BY <2>1, <2>2, <2>5, StartRoundSequential
    <3>4. /\ parentStore' = Replayed[start]
          /\ \A j \in Tasks : j >= start => RunsOn(j, parentStore)'
      BY <1>1, <2>1, <2>5, <3>2, <3>3, StartRoundUpdates
    <3>5. Replayed' = Replayed
      BY <3>1 DEF Replayed
    <3>6. QED
      BY <3>1, <3>3, <3>4, <3>5 DEF UpdateInv
  <2>6. CASE \/ \E i \in Tasks : StartValidation(i) \/ Execute(i) \/ Validate(i)
             \/ EndRound
    <3>1. UNCHANGED txs /\ InRounds
      BY <2>2, <2>3, <2>6, ExecuteFrame, ValidateFrame
      DEF WorkerStep, StartValidation, HandOut, EndRound, InRounds
    <3>2. UpdatesOnly
      BY <2>3, <3>1, BlockKept
    <3>3. QED
      BY <1>1, <2>1, <2>2, <2>6, <3>1, <3>2, StepUpdates
  <2>7. CASE (\E i \in Tasks : GoSynchronous(i) \/ ProcessAllSync(i)) \/ Return
    <3>1. ~InRounds'
      BY <2>2, <2>7, SyncFrame DEF GoSynchronous, Return, InRounds
    <3>2. QED
      BY <2>3, <3>1
  <2>8. QED
    BY <1>1, <2>4, <2>5, <2>6, <2>7 DEF Next, Terminated
<1>2. QED
  BY <1>1, InitUpdates

(* In a block of updates the executors of every round read all that has    *)
(* been committed.                                                         *)
THEOREM UpdatesReadLatest == Spec => []UpdatesSeeLatest
<1>1. Rounds /\ UpdateInv => UpdatesSeeLatest
  <2>1. Rounds => TypeOK /\ SequentialInv
    BY DEF Rounds, RoundsInvariant, TaskInv
  <2>2. QED
    BY <2>1, ParentSequential DEF UpdateInv, UpdatesSeeLatest, InRounds
<1>2. Init => Rounds
  BY SequentialInductive DEF Rounds
<1>3. Rounds /\ [Next]_vars => Rounds'
  BY SequentialInductive DEF Rounds
<1>4. QED
  BY <1>1, <1>2, <1>3, UpdateInductive, PTL DEF Spec

-----------------------------------------------------------------------------
(* How many rounds a task at the front can take.                           *)

\* The step leaves alone what the task waits on.
WaitSame(j) ==
  /\ dependencies'[j] = dependencies[j]
  /\ abortCh'[j] = abortCh[j]
  /\ depsLeft'[j] = depsLeft[j]

(* A worker leaves alone what the other tasks wait on, and the count of    *)
(* rounds.                                                                 *)
LEMMA WaitFrame ==
  ASSUME TypeOK, NEW i \in Tasks, Execute(i) \/ Validate(i)
  PROVE  /\ UNCHANGED iterations
         /\ \A j \in Tasks : j # i => WaitSame(j)
<1> USE DEF WaitSame, TypeOK, mainVars, taskVars, tracerVars, checkVars
<1>1. CASE Begin(i) \/ SelfDestruct(i) \/ Aborted(i) \/ Executed(i) \/ Finish(i)
  BY <1>1 DEF Begin, SelfDestruct, WriteAbort, Aborted, Executed, Finish
<1>2. ASSUME NEW k \in Keys, Get(i, k) \/ Publish(i, k)
      PROVE  UNCHANGED iterations /\ \A j \in Tasks : j # i => WaitSame(j)
  BY <1>2 DEF Get, WriteAbort, Publish
<1>3. CASE \/ Branch(i) \/ Accept(i) \/ Reject(i) \/ Depend(i) \/ DependenciesMet(i)
           \/ Wait(i) \/ Reset(i) \/ LoadMax(i) \/ StoreMax(i)
  BY <1>3 DEF Branch, Accept, Reject, Depend, DependenciesMet, Wait, Reset, LoadMax, StoreMax
<1>4. ASSUME NEW k \in Keys, CheckRead(i, k) \/ Invalidate(i, k)
      PROVE  UNCHANGED iterations /\ \A j \in Tasks : j # i => WaitSame(j)
  BY <1>4 DEF CheckRead, Invalidate
<1>5. ASSUME NEW j \in Tasks, DependencyCheck(i, j)
      PROVE  UNCHANGED iterations /\ \A l \in Tasks : l # i => WaitSame(l)
  BY <1>5 DEF DependencyCheck
<1>6. QED
  BY <1>1, <1>2, <1>3, <1>4, <1>5 DEF Execute, Validate

(* What a read runs into, or conflicts with, is a task before the reader.  *)
LEMMA LookupsBelow ==
  ASSUME TypeOK, NEW i \in Tasks, NEW k \in Keys
  PROVE  /\ EstimateBefore(i, k) \subseteq Below(i)
         /\ ReadConflicts(i, k) \subseteq Below(i)
BY LatestBeforeFinds DEF TypeOK, EstimateBefore, ReadConflicts, Below

(* No executor of a block of updates meets SELFDESTRUCT.                   *)
LEMMA NoSelfDestruct ==
  ASSUME RoundsInvariant, UpdatesOnly, InRounds, parentStore = Sequential[lastStoreIdx],
         NEW i \in Tasks, pc[i] = "run"
  PROVE  /\ lastStoreIdx \in 0 .. i
         /\ outcome[i].result = "ok"
<1>1. /\ lastStoreIdx \in Tasks
      /\ \A j \in Tasks : j < lastStoreIdx => pc[j] = "idle"
      /\ outcome[i] = Deliver(txs[i], parentStore) /\ outcome[i].result # "err"
  BY DEF RoundsInvariant, TaskInv, RoundsInv, CommittedOK, TaskOK, TracerOK, TypeOK
<1>2. lastStoreIdx \in 0 .. i
  BY <1>1
<1>3. QED
  BY <1>1, <1>2, UpdateChanges

(* A worker makes its task wait on tasks before it only.                   *)
LEMMA WorkerWaits ==
  ASSUME RoundsInvariant, UpdatesOnly, InRounds, parentStore = Sequential[lastStoreIdx],
         NEW i \in Tasks, WaitsBelow(i), Execute(i) \/ Validate(i)
  PROVE  WaitsBelow(i)'
<1>1. TypeOK
  BY DEF RoundsInvariant, TaskInv
<1>2. ~SelfDestruct(i)
  BY NoSelfDestruct DEF SelfDestruct
<1> DEFINE B == Below(i)
<1>3. /\ dependencies[i] \subseteq B /\ conflicts[i] \subseteq B
      /\ abortCh[i] \in B \cup {NoTask}
      /\ pc[i] # "run" => abortCh[i] = NoTask
  BY DEF WaitsBelow
<1>4. SUFFICES /\ dependencies'[i] \subseteq B /\ conflicts'[i] \subseteq B
               /\ abortCh'[i] \in B \cup {NoTask}
               /\ pc'[i] # "run" => abortCh'[i] = NoTask
  BY DEF WaitsBelow, Below
<1>5. \A k \in Keys : EstimateBefore(i, k) \subseteq B /\ ReadConflicts(i, k) \subseteq B
  BY <1>1, LookupsBelow
<1> HIDE DEF B
<1> DEFINE Result == /\ dependencies'[i] \subseteq B /\ conflicts'[i] \subseteq B
                     /\ abortCh'[i] \in B \cup {NoTask}
                     /\ pc'[i] # "run" => abortCh'[i] = NoTask
<1>6. /\ i \in DOMAIN dependencies /\ i \in DOMAIN conflicts
      /\ i \in DOMAIN abortCh /\ i \in DOMAIN pc
      /\ UNCHANGED pc => pc'[i] = pc[i]
  BY <1>1 DEF TypeOK
<1> USE DEF taskVars, tracerVars, checkVars
<1>7. CASE Begin(i) \/ Finish(i)
  BY <1>3, <1>6, <1>7 DEF Begin, Finish
<1>8. CASE Aborted(i)
  <2>1. /\ dependencies'[i] = dependencies[i] \cup {abortCh[i]} /\ abortCh[i] # NoTask
        /\ abortCh'[i] = NoTask /\ UNCHANGED conflicts
    BY <1>6, <1>8 DEF Aborted
  <2>2. QED
    BY <1>3, <2>1
<1>9. CASE Executed(i)
  BY <1>3, <1>6, <1>9 DEF Executed, TakeWriteset
<1>10. ASSUME NEW k \in Keys, Get(i, k) \/ Publish(i, k)
       PROVE  Result
  <2>1. /\ UNCHANGED <<dependencies, conflicts, pc>>
        /\ pc[i] = "run" \/ UNCHANGED abortCh
        /\ abortCh'[i] \in {abortCh[i]} \cup EstimateBefore(i, k)
    BY <1>6, <1>10 DEF Get, WriteAbort, Publish
  <2>2. QED
    BY <1>3, <1>5, <2>1
<1>11. CASE \/ Branch(i) \/ Reject(i) \/ DependenciesMet(i) \/ Wait(i) \/ Reset(i)
            \/ LoadMax(i) \/ StoreMax(i)
  <2>1. UNCHANGED <<dependencies, conflicts, abortCh>> /\ pc[i] # "run"
    BY <1>11 DEF Branch, Reject, DependenciesMet, Wait, Reset, LoadMax, StoreMax
  <2>2. QED
    BY <1>3, <2>1
<1>12. CASE Accept(i) \/ Depend(i)
  <2>1. /\ conflicts'[i] = {} /\ UNCHANGED abortCh /\ pc[i] # "run"
        /\ dependencies'[i] \subseteq dependencies[i] \cup conflicts[i]
    BY <1>6, <1>12 DEF Accept, Depend
  <2>2. QED
    BY <1>3, <2>1
<1>13. ASSUME NEW k \in Keys, CheckRead(i, k) \/ Invalidate(i, k)
       PROVE  Result
  <2>1. /\ UNCHANGED <<dependencies, abortCh>> /\ pc[i] # "run"
        /\ conflicts'[i] \subseteq conflicts[i] \cup ReadConflicts(i, k)
    BY <1>6, <1>13 DEF CheckRead, Invalidate
  <2>2. QED
    BY <1>3, <1>5, <2>1
<1>14. ASSUME NEW j \in Tasks, DependencyCheck(i, j)
       PROVE  Result
  <2>1. UNCHANGED <<dependencies, conflicts, abortCh>> /\ pc[i] # "run"
    BY <1>14 DEF DependencyCheck
  <2>2. QED
    BY <1>3, <2>1
<1>15. QED
  <2>1. \/ Begin(i) \/ Finish(i) \/ Aborted(i) \/ Executed(i)
        \/ (\E k \in Keys : Get(i, k) \/ Publish(i, k))
        \/ Branch(i) \/ Reject(i) \/ DependenciesMet(i) \/ Wait(i) \/ Reset(i)
        \/ LoadMax(i) \/ StoreMax(i) \/ Accept(i) \/ Depend(i)
        \/ (\E k \in Keys : CheckRead(i, k) \/ Invalidate(i, k))
        \/ \E j \in Tasks : DependencyCheck(i, j)
    BY <1>2 DEF Execute, Validate
  <2>2. QED
    BY <2>1, <1>7, <1>8, <1>9, <1>10, <1>11, <1>12, <1>13, <1>14

(* The steps of the main goroutine leave that alone, and so does a step    *)
(* that changes nothing.                                                   *)
LEMMA MainWaits ==
  ASSUME TypeOK, PhaseOK, NEW j \in Tasks, WaitsBelow(j),
         \/ UNCHANGED vars
         \/ \E i \in Tasks : StartRound(i) \/ StartValidation(i)
         \/ EndRound
  PROVE  WaitsBelow(j)'
<1>1. UNCHANGED <<dependencies, conflicts, abortCh>>
  BY DEF vars, StartRound, StartValidation, HandOut, EndRound, taskVars, tracerVars, checkVars
<1>2. pc[j] # "run" \/ pc' = pc
  BY DEF vars, StartRound, StartValidation, HandOut, EndRound, PhaseOK, AllIdle
<1>3. pc'[j] # "run" \/ pc' = pc
  BY DEF vars, StartRound, StartValidation, HandOut, EndRound
<1>4. QED
  BY <1>1, <1>2, <1>3 DEF WaitsBelow, Below

(* A task waits on tasks before it only, at every step.                    *)
LEMMA WaitInductive ==
  /\ Init => WaitInv
  /\ Rounds /\ UpdateInv /\ WaitInv /\ [Next]_vars => WaitInv'
<1>1. Init => WaitInv
  BY DEF Init, WaitInv, WaitsBelow
<1>2. ASSUME Rounds, UpdateInv, WaitInv, [Next]_vars
      PROVE  WaitInv'
  <2>1. /\ RoundsInvariant /\ SequentialInv /\ TypeOK /\ PhaseOK
    BY <1>2 DEF Rounds, RoundsInvariant, TaskInv
  <2>2. SUFFICES ASSUME InRounds', UpdatesOnly' PROVE \A j \in Tasks : WaitsBelow(j)'
    BY DEF WaitInv
  <2>3. CASE \/ UNCHANGED vars
             \/ \E i \in Tasks : StartRound(i) \/ StartValidation(i)
             \/ EndRound
    <3>1. UNCHANGED txs /\ InRounds
      BY <2>2, <2>3 DEF vars, mainVars, StartRound, StartValidation, HandOut, EndRound, InRounds
    <3>2. \A j \in Tasks : WaitsBelow(j)
      BY <1>2, <2>2, <3>1, BlockKept DEF WaitInv
    <3>3. QED
      BY <2>1, <2>3, <3>2, MainWaits
  <2>4. ASSUME NEW i \in Tasks, Execute(i) \/ Validate(i)
        PROVE  \A j \in Tasks : WaitsBelow(j)'
    <3>1. WorkerStep /\ \A j \in Tasks : j # i => Same(j) /\ WaitSame(j)
      BY <2>1, <2>4, ExecuteFrame, ValidateFrame, WaitFrame
    <3>2. UNCHANGED txs /\ InRounds
      BY <2>2, <3>1 DEF WorkerStep, InRounds
    <3>3. UpdatesOnly /\ \A j \in Tasks : WaitsBelow(j)
      BY <1>2, <2>2, <3>2, BlockKept DEF WaitInv
    <3>4. parentStore = Sequential[lastStoreIdx]
      BY <1>2, <2>1, <3>2, <3>3, ParentSequential DEF UpdateInv
    <3>5. WaitsBelow(i)'
      BY <2>1, <2>4, <3>2, <3>3, <3>4, WorkerWaits
    <3>6. \A j \in Tasks : j # i => WaitsBelow(j)'
      BY <3>1, <3>3 DEF WaitsBelow, Below, Same, WaitSame
    <3>7. QED
      BY <3>5, <3>6
  <2>5. CASE (\E i \in Tasks : GoSynchronous(i) \/ ProcessAllSync(i)) \/ Return
    <3>1. ~InRounds'
      BY <2>1, <2>5, SyncFrame DEF GoSynchronous, Return, InRounds
    <3>2. QED
      BY <2>2, <3>1
  <2>6. QED
    BY <1>2, <2>3, <2>4, <2>5 DEF Next, Terminated
<1>3. QED
  BY <1>1, <1>2

(* A task reads what the tasks before it leave when none of them holds an  *)
(* estimate, and such a read is valid.                                     *)
LEMMA SettledReads ==
  ASSUME TypeOK, NEW i \in Tasks, NEW k \in Keys,
         \A j \in Tasks : j < i => ~IsEstimate(multiVersionMap[k][j])
  PROVE  /\ EstimateBefore(i, k) = {}
         /\ txReadSets[i][k] \subseteq {Replayed[i][k]} => ReadValid(i, k, Replayed[i])
<1>1. /\ StoreTypeOK /\ multiVersionMap \in [Keys -> Tree] /\ i \in 0 .. N
  BY BlockAssumption DEF TypeOK, StoreTypeOK
<1>2. ASSUME NEW j \in LatestBefore(i, k)
      PROVE  /\ multiVersionMap[k][j].kind = "value"
             /\ multiVersionMap[k][j].value = Replayed[i][k]
  <2>1. /\ j \in Tasks /\ j < i /\ multiVersionMap[k][j].kind # "none"
        /\ \A l \in Tasks : j < l /\ l < i => multiVersionMap[k][l].kind = "none"
    BY <1>1, <1>2, LatestBeforeFinds
  <2>2. multiVersionMap[k][j].kind = "value"
    BY <1>1, <2>1 DEF Tree, Version, IsEstimate
  <2>3. \A l \in Tasks : j < l /\ l < i => multiVersionMap[k][l].kind # "value"
    BY <2>1
  <2>4. Replay(multiVersionMap, InitState)[i][k] = multiVersionMap[k][j].value
    BY <1>1, <2>1, <2>2, <2>3, InitStateAssumption, ReplayLatest
  <2>5. QED
    BY <2>2, <2>4 DEF Replayed
<1>3. EstimateBefore(i, k) = {}
  BY <1>2 DEF EstimateBefore, IsEstimate
<1>4. ASSUME txReadSets[i][k] \subseteq {Replayed[i][k]}
      PROVE  ReadValid(i, k, Replayed[i])
  <2>1. \A j \in LatestBefore(i, k) : VersionGives(k, j, Replayed[i][k])
    BY <1>2 DEF VersionGives, IsEstimate
  <2>2. QED
    BY <1>4, <2>1 DEF ReadValid
<1>5. QED
  BY <1>3, <1>4

(* The task at the front reads what has been committed: no estimate, and   *)
(* the words of the parent state.                                          *)
LEMMA FrontReads ==
  ASSUME TypeOK, SequentialInv, parentStore = Replayed[lastStoreIdx], NEW k \in Keys
  PROVE  /\ EstimateBefore(lastStoreIdx, k) = {}
         /\ Ran(lastStoreIdx, parentStore) => ReadValid(lastStoreIdx, k, parentStore)
<1>1. /\ lastStoreIdx \in Tasks /\ parentStore \in States
      /\ \A j \in Tasks : j < lastStoreIdx => ~IsEstimate(multiVersionMap[k][j])
  BY DEF TypeOK, StoreTypeOK, SequentialInv
<1>2. ASSUME Ran(lastStoreIdx, parentStore)
      PROVE  txReadSets[lastStoreIdx][k] \subseteq {parentStore[k]}
  BY <1>1, <1>2, RanReads DEF KeysRead
<1>3. QED
  BY <1>1, <1>2, SettledReads

\* What the lemmas on the front start from.
FrontFacts ==
  /\ RoundsInvariant /\ SequentialInv /\ UpdatesOnly /\ NoneRefused
  /\ parentStore = Replayed[lastStoreIdx]
  /\ parentStore = Sequential[lastStoreIdx]
  /\ RunsOn(lastStoreIdx, parentStore)
  /\ WaitsBelow(lastStoreIdx)

(* The executor of the task at the front meets no error and no estimate.   *)
LEMMA FrontExecuted ==
  ASSUME FrontFacts, phase = "execute", FrontExecutes(lastStoreIdx), Execute(lastStoreIdx)
  PROVE  FrontExecutes(lastStoreIdx)'
<1> DEFINE front == lastStoreIdx
<1>1. /\ TypeOK /\ front \in Tasks /\ InRounds /\ TaskOK(front)
  BY DEF FrontFacts, RoundsInvariant, TaskInv, RoundsInv, TypeOK, InRounds
<1>2. UNCHANGED <<lastStoreIdx, iterations>>
  BY <1>1, ExecuteFrame, WaitFrame DEF WorkerStep
<1>3. /\ status[front] \in {"pending", "executed", "waiting"}
      /\ pc[front] = "idle" => status[front] # "pending"
      /\ abortCh[front] = NoTask
      /\ iterations <= 2 * front
      /\ status[front] = "waiting" => iterations < 2 * front
  BY DEF FrontExecutes, FrontBetween
<1>4. /\ pc[front] \in {"queued", "run"} => status[front] = "pending"
      /\ pc[front] = "publish" => status[front] = "executed"
  BY <1>1, <1>3 DEF TaskOK, StatusOK
<1> DEFINE Result == /\ \/ status'[front] = "pending" /\ pc'[front] # "idle"
                        \/ status'[front] = "executed"
                     /\ abortCh'[front] = NoTask
<1>5. SUFFICES Result
  BY <1>2, <1>3 DEF FrontExecutes, FrontBetween
<1>6. /\ front \in DOMAIN status /\ front \in DOMAIN pc
  BY <1>1 DEF TypeOK
<1> HIDE DEF front
<1> USE DEF taskVars
<1>7. CASE Begin(front)
  <2>1. Deliver(txs[front], parentStore).result # "err"
    BY <1>1 DEF FrontFacts, NoneRefused, front
  <2>2. pc'[front] = "run" /\ UNCHANGED <<status, abortCh>> /\ pc[front] = "queued"
    BY <1>6, <1>7, <2>1 DEF Begin
  <2>3. QED
    BY <1>3, <1>4, <2>2
<1>8. ASSUME NEW k \in Keys, Get(front, k)
      PROVE  Result
  <2>1. EstimateBefore(front, k) = {}
    BY <1>1, FrontReads DEF FrontFacts, front
  <2>2. UNCHANGED <<pc, status, abortCh>> /\ pc[front] = "run"
    BY <1>8, <2>1 DEF Get
  <2>3. QED
    BY <1>3, <1>4, <2>2
<1>9. ~SelfDestruct(front)
  BY <1>1, NoSelfDestruct DEF FrontFacts, SelfDestruct, front
<1>10. ~Aborted(front)
  BY <1>3 DEF Aborted
<1>11. CASE Executed(front)
  BY <1>3, <1>6, <1>11 DEF Executed, TakeWriteset
<1>12. CASE Finish(front) \/ \E k \in Keys : Publish(front, k)
  <2>1. pc[front] = "publish" /\ UNCHANGED <<status, abortCh>>
    BY <1>12 DEF Finish, Publish, tracerVars
  <2>2. QED
    BY <1>3, <1>4, <2>1
<1>13. QED
  BY <1>7, <1>8, <1>9, <1>10, <1>11, <1>12 DEF Execute, front

(* The worker that validates it agrees, or resets it: all it can wait on   *)
(* has been validated.                                                     *)
LEMMA FrontValidated ==
  ASSUME FrontFacts, phase = "validate", FrontValidates(lastStoreIdx), Validate(lastStoreIdx)
  PROVE  FrontValidates(lastStoreIdx)'
<1> DEFINE front == lastStoreIdx
           Accepts == /\ status[front] \in {"executed", "validated"}
                      /\ pc[front] \in {"validate", "check", "idle"}
                      /\ pc[front] = "idle" => status[front] = "validated"
                      /\ pc[front] = "check" => valid[front]
                      /\ iterations <= 2 * front
           Waits == /\ status[front] = "waiting"
                    /\ pc[front] \in {"validate", "depend", "reset"}
                    /\ pc[front] = "depend" => depsLeft[front] \subseteq Below(front)
                    /\ iterations < 2 * front
           Restarts == /\ status[front] = "pending"
                       /\ pc[front] \in {"max", "store", "idle"}
                       /\ iterations < 2 * front
<1>1. /\ TypeOK /\ front \in Tasks /\ TaskOK(front) /\ CommittedOK
  BY DEF FrontFacts, RoundsInvariant, TaskInv, RoundsInv, TypeOK, InRounds
<1>2. UNCHANGED <<lastStoreIdx, iterations>>
  BY <1>1, ValidateFrame, WaitFrame DEF WorkerStep
<1>3. Accepts \/ Waits \/ Restarts
  BY DEF FrontValidates
<1>4. SUFFICES Accepts' \/ Waits' \/ Restarts'
  BY DEF FrontValidates
<1>5. /\ front \in DOMAIN status /\ front \in DOMAIN pc /\ front \in DOMAIN valid
      /\ front \in DOMAIN depsLeft
      /\ dependencies[front] \subseteq Below(front)
      /\ Below(front)' = Below(front) /\ front' = front
  BY <1>1, <1>2 DEF TypeOK, FrontFacts, WaitsBelow, Below
<1>6. /\ pc[front] \notin {"check", "invalidate"} => valid[front]
      /\ pc[front] = "check" /\ valid[front] => conflicts[front] = {}
  BY <1>1 DEF TaskOK, CheckOK
<1>7. \A j \in Below(front) : status[j] = "validated"
  BY <1>1 DEF CommittedOK, Below
<1>8. ASSUME NEW k \in Keys, Accepts, pc[front] = "check"
      PROVE  ReadValid(front, k, parentStore)
  <2>1. Ran(front, parentStore)
    BY <1>8 DEF FrontFacts, RunsOn, Sound
  <2>2. QED
    BY <1>1, <2>1, FrontReads DEF FrontFacts
<1> HIDE DEF front
<1> USE DEF taskVars
<1>9. CASE Accepts
  <2>1. CASE Branch(front)
    <3>1. pc'[front] = "check" /\ UNCHANGED <<status, valid>> /\ pc[front] = "validate"
      BY <1>5, <1>9, <2>1 DEF Branch
    <3>2. QED
      BY <1>2, <1>5, <1>6, <1>9, <3>1
  <2>2. ASSUME NEW k \in Keys, CheckRead(front, k)
        PROVE  Accepts'
    <3>1. /\ valid'[front] = (valid[front] /\ ReadValid(front, k, parentStore))
          /\ UNCHANGED <<pc, status>> /\ pc[front] = "check"
      BY <1>5, <2>2 DEF CheckRead
    <3>2. QED
      BY <1>2, <1>5, <1>8, <1>9, <3>1
  <2>3. CASE Accept(front)
    <3>1. status'[front] = "validated" /\ pc'[front] = "idle"
      BY <1>5, <1>6, <2>3 DEF Accept
    <3>2. QED
      BY <1>2, <1>5, <1>9, <3>1
  <2>4. QED
    BY <1>9, <2>1, <2>2, <2>3
    DEF Validate, Reject, Depend, DependenciesMet, Wait, Reset, LoadMax, StoreMax, Invalidate,
        DependencyCheck, front
<1>10. CASE Waits
  <2>1. CASE Branch(front)
    <3>1. pc'[front] = "depend" /\ UNCHANGED status /\ depsLeft'[front] = dependencies[front]
      BY <1>5, <1>10, <2>1 DEF Branch
    <3>2. QED
      BY <1>2, <1>5, <1>10, <3>1
  <2>2. ASSUME NEW j \in Tasks, DependencyCheck(front, j)
        PROVE  Waits'
    <3>1. pc[front] = "depend" /\ j \in depsLeft[front] /\ j \in Below(front)
      BY <1>10, <2>2 DEF DependencyCheck
    <3>2. UNCHANGED <<pc, status>> /\ depsLeft'[front] = depsLeft[front] \ {j}
      BY <1>5, <1>7, <2>2, <3>1 DEF DependencyCheck
    <3>3. QED
      BY <1>2, <1>5, <1>10, <3>1, <3>2
  <2>3. CASE DependenciesMet(front)
    <3>1. pc'[front] = "reset" /\ UNCHANGED status
      BY <1>5, <2>3 DEF DependenciesMet
    <3>2. QED
      BY <1>2, <1>5, <1>10, <3>1
  <2>4. CASE Reset(front)
    <3>1. pc'[front] = "max" /\ status'[front] = "pending"
      BY <1>5, <2>4 DEF Reset
    <3>2. QED
      BY <1>2, <1>5, <1>10, <3>1
  <2>5. QED
    BY <1>10, <2>1, <2>2, <2>3, <2>4
    DEF Validate, CheckRead, Accept, Reject, Depend, Wait, LoadMax, StoreMax, Invalidate, front
<1>11. CASE Restarts
  <2>1. CASE LoadMax(front) \/ StoreMax(front)
    <3>1. pc'[front] \in {"store", "idle"} /\ UNCHANGED status
      BY <1>5, <2>1 DEF LoadMax, StoreMax
    <3>2. QED
      BY <1>2, <1>5, <1>11, <3>1
  <2>2. QED
    BY <1>11, <2>1
    DEF Validate, Branch, CheckRead, Accept, Reject, Depend, DependenciesMet, DependencyCheck,
        Wait, Reset, Invalidate, front
<1>12. QED
  BY <1>3, <1>9, <1>10, <1>11

(* The rounds begin with none used up.                                     *)
LEMMA InitFront == Init => FrontInv
<1> SUFFICES ASSUME Init PROVE FrontInv
  OBVIOUS
<1>1. \A start \in Tasks : status[start] = "pending" /\ iterations <= 2 * start
  BY DEF Init
<1>2. QED
  BY <1>1 DEF Init, FrontInv, FrontBetween

(* A task that the front reaches has the rounds that FrontBetween says.    *)
LEMMA EndRoundFront ==
  ASSUME TypeOK, CommittedOK, FrontValidates(lastStoreIdx), EndRound,
         NEW start \in Tasks, FirstNonValidated(start)'
  PROVE  FrontBetween(start)'
<1>1. /\ AllIdle /\ UNCHANGED <<status, pc>> /\ iterations' = iterations + 1
      /\ lastStoreIdx \in Tasks /\ iterations \in Nat
  BY MaxIterationsAssumption DEF EndRound, taskVars, TypeOK
<1>2. pc[lastStoreIdx] = "idle" /\ FirstNonValidated(start)
  BY <1>1 DEF AllIdle, FirstNonValidated
<1>3. lastStoreIdx <= start
  BY <1>2, StartNotCommitted
<1>4. CASE status[lastStoreIdx] = "validated" /\ iterations <= 2 * lastStoreIdx
  <2>1. start # lastStoreIdx
    BY <1>2, <1>4 DEF FirstNonValidated
  <2>2. lastStoreIdx + 1 <= start
    BY <1>1, <1>3, <2>1
  <2>3. QED
    BY <1>1, <1>4, <2>2 DEF FrontBetween
<1>5. CASE status[lastStoreIdx] = "pending" /\ iterations < 2 * lastStoreIdx
  <2>1. start = lastStoreIdx
    BY <1>1, <1>2, <1>3, <1>5 DEF FirstNonValidated
  <2>2. QED
    BY <1>1, <1>5, <2>1 DEF FrontBetween
<1>6. QED
  BY <1>2, <1>4, <1>5 DEF FrontValidates

(* The invariant of the front is inductive.                                *)
LEMMA FrontInductive ==
  /\ Init => FrontInv
  /\ Rounds /\ UpdateInv /\ WaitInv /\ FrontInv /\ [Next]_vars => FrontInv'
<1>1. ASSUME Rounds, UpdateInv, WaitInv, FrontInv, [Next]_vars
      PROVE  FrontInv'
  <2>1. /\ RoundsInvariant /\ SequentialInv /\ TypeOK /\ PhaseOK /\ CommittedOK /\ TypeOK'
        /\ lastStoreIdx \in Tasks
    <3>1. RoundsInvariant /\ SequentialInv /\ RoundsInvariant'
      BY <1>1, SequentialInductive DEF Rounds
    <3>2. QED
      BY <3>1 DEF RoundsInvariant, TaskInv, RoundsInv, TypeOK
  <2>2. SUFFICES ASSUME InRounds', UpdatesOnly', NoneRefused'
                 PROVE  /\ phase' = "loop" => \A start \in Tasks :
                             FirstNonValidated(start)' => FrontBetween(start)'
                        /\ phase' = "execute" => FrontExecutes(lastStoreIdx)'
                        /\ phase' = "validate" => FrontValidates(lastStoreIdx)'
    BY DEF FrontInv, InRounds
  <2>3. ASSUME UNCHANGED txs, InRounds
        PROVE  /\ FrontFacts
               /\ \A j \in Tasks : WaitsBelow(j)
               /\ phase = "loop" => \A start \in Tasks :
                    FirstNonValidated(start) => FrontBetween(start)
               /\ phase = "execute" => FrontExecutes(lastStoreIdx)
               /\ phase = "validate" => FrontValidates(lastStoreIdx)
    <3>1. UpdatesOnly /\ NoneRefused
      BY <2>2, <2>3, BlockKept
    <3>2. parentStore = Replayed[lastStoreIdx] /\ RunsOn(lastStoreIdx, parentStore)
      BY <1>1, <2>1, <2>3, <3>1 DEF UpdateInv
    <3>3. parentStore = Sequential[lastStoreIdx]
      BY <2>1, <3>2, ParentSequential
    <3>4. \A j \in Tasks : WaitsBelow(j)
      BY <1>1, <2>3, <3>1 DEF WaitInv
    <3>5. FrontFacts
      BY <2>1, <3>1, <3>2, <3>3, <3>4 DEF FrontFacts
    <3>6. QED
      BY <1>1, <3>1, <3>4, <3>5 DEF FrontInv
  <2>4. CASE UNCHANGED vars
    <3>1. UNCHANGED <<txs, phase, lastStoreIdx, iterations, status, pc, valid, abortCh, depsLeft>>
      BY <2>4 DEF vars, mainVars, taskVars, tracerVars, checkVars
    <3>2. InRounds
      BY <2>2, <3>1 DEF InRounds
    <3>3. QED
      BY <2>3, <3>1, <3>2
      DEF FirstNonValidated, FrontBetween, FrontExecutes, FrontValidates, Below
  <2>5. ASSUME NEW start \in Tasks, StartRound(start)
        PROVE  phase' = "execute" /\ FrontExecutes(lastStoreIdx)'
    <3>1. /\ phase = "loop" /\ phase' = "execute" /\ FirstNonValidated(start)
          /\ UNCHANGED <<txs, iterations, status, abortCh>>
          /\ pc' = [i \in Tasks |-> IF i \in toExecute THEN "queued" ELSE "idle"]
      BY <2>5 DEF StartRound, taskVars, tracerVars
    <3>2. lastStoreIdx' = start
      BY <2>1, <2>5, StartRoundSequential
    <3>3. InRounds /\ pc[start] = "idle" /\ TaskOK(start)
      BY <2>1, <3>1 DEF InRounds, PhaseOK, AllIdle, RoundsInvariant, RoundsInv
    <3>4. FrontBetween(start) /\ abortCh[start] = NoTask
      BY <2>3, <3>1, <3>3 DEF WaitsBelow
    <3>5. /\ status[start] \in {"pending", "waiting"}
          /\ start \in toExecute <=> status[start] = "pending"
      BY <3>1, <3>3 DEF TaskOK, StatusOK, FirstNonValidated
    <3>6. QED
      BY <3>1, <3>2, <3>4, <3>5 DEF FrontExecutes, FrontBetween
  <2>6. ASSUME NEW start \in Tasks, StartValidation(start)
        PROVE  phase' = "validate" /\ FrontValidates(lastStoreIdx)'
    <3>1. /\ phase = "execute" /\ phase' = "validate" /\ FirstNonValidated(start) /\ AllIdle
          /\ UNCHANGED <<txs, iterations, status, lastStoreIdx>>
          /\ pc' = [i \in Tasks |-> IF i \in {j \in Tasks : j >= start} THEN "validate" ELSE "idle"]
      BY <2>6 DEF StartValidation, HandOut, taskVars
    <3>2. start = lastStoreIdx
      BY <2>1, <3>1, ValidationStartsAtFront
    <3>3. FrontExecutes(start) /\ pc[start] = "idle" /\ pc'[start] = "validate"
      BY <2>3, <3>1, <3>2 DEF InRounds, AllIdle
    <3>4. QED
      BY <3>1, <3>2, <3>3 DEF FrontExecutes, FrontBetween, FrontValidates
  <2>7. ASSUME NEW i \in Tasks, Execute(i)
        PROVE  phase' = "execute" /\ FrontExecutes(lastStoreIdx)'
    <3>1. /\ WorkerStep /\ pc[i] \in Executing
          /\ UNCHANGED iterations
          /\ \A j \in Tasks : j # i => Same(j) /\ WaitSame(j)
      BY <2>1, <2>7, ExecuteFrame, WaitFrame
    <3>2. UNCHANGED <<txs, phase, lastStoreIdx>> /\ InRounds
      BY <2>2, <3>1 DEF WorkerStep, InRounds
    <3>3. phase = "execute"
      BY <2>1, <3>1, <3>2 DEF PhaseOK, AllIdle, Executing, Validating, InRounds
    <3>4. FrontFacts /\ FrontExecutes(lastStoreIdx)
      BY <2>3, <3>2, <3>3
    <3>5. CASE i = lastStoreIdx
      BY <2>7, <3>2, <3>3, <3>4, <3>5, FrontExecuted
    <3>6. CASE i # lastStoreIdx
      BY <2>1, <3>1, <3>2, <3>3, <3>4, <3>6 DEF FrontExecutes, FrontBetween, Same, WaitSame
    <3>7. QED
      BY <3>5, <3>6
  <2>8. ASSUME NEW i \in Tasks, Validate(i)
        PROVE  phase' = "validate" /\ FrontValidates(lastStoreIdx)'
    <3>1. /\ WorkerStep /\ pc[i] \in Validating
          /\ UNCHANGED iterations
          /\ \A j \in Tasks : j # i => Same(j) /\ WaitSame(j)
      BY <2>1, <2>8, ValidateFrame, WaitFrame
    <3>2. UNCHANGED <<txs, phase, lastStoreIdx>> /\ InRounds
      BY <2>2, <3>1 DEF WorkerStep, InRounds
    <3>3. phase = "validate"
      BY <2>1, <3>1, <3>2 DEF PhaseOK, AllIdle, Executing, Validating, InRounds
    <3>4. FrontFacts /\ FrontValidates(lastStoreIdx)
      BY <2>3, <3>2, <3>3
    <3>5. CASE i = lastStoreIdx
      BY <2>8, <3>2, <3>3, <3>4, <3>5, FrontValidated
    <3>6. CASE i # lastStoreIdx
      BY <2>1, <3>1, <3>2, <3>3, <3>4, <3>6 DEF FrontValidates, Below, Same, WaitSame
    <3>7. QED
      BY <3>5, <3>6
  <2>9. CASE EndRound
    <3>1. phase = "validate" /\ phase' = "loop" /\ UNCHANGED txs
      BY <2>9 DEF EndRound
    <3>2. FrontValidates(lastStoreIdx)
      BY <2>3, <3>1 DEF InRounds
    <3>3. QED
      BY <2>1, <2>9, <3>1, <3>2, EndRoundFront
  <2>10. CASE (\E i \in Tasks : GoSynchronous(i) \/ ProcessAllSync(i)) \/ Return
    <3>1. ~InRounds'
      BY <2>1, <2>10, SyncFrame DEF GoSynchronous, Return, InRounds
    <3>2. QED
      BY <2>2, <3>1
  <2>11. QED
    BY <1>1, <2>4, <2>5, <2>6, <2>7, <2>8, <2>9, <2>10 DEF Next, Terminated
<1>2. QED
  BY <1>1, InitFront

(* In a block of updates of which none fails when its turn comes, the      *)
(* first task that is not validated has cost at most two rounds for each   *)
(* task before it.                                                         *)
THEOREM TwoRoundsPerTask == Spec => []RoundsPerTask
<1>1. FrontInv => RoundsPerTask
  BY DEF FrontInv, FrontBetween, NoneRefused, RoundsPerTask
<1>2. Init => Rounds
  BY SequentialInductive DEF Rounds
<1>3. Rounds /\ [Next]_vars => Rounds'
  BY SequentialInductive DEF Rounds
<1>4. QED
  BY <1>1, <1>2, <1>3, UpdateInductive, WaitInductive, FrontInductive, PTL DEF Spec

-----------------------------------------------------------------------------
(* The fallback, for steady updates.                                       *)

(* A steady update is never refused, and always writes the same keys.      *)
LEMMA SteadyWrites ==
  ASSUME SteadyUpdates, NEW i \in Tasks, NEW n \in 0 .. i
  PROVE  /\ UpdatesOnly
         /\ Deliver(txs[i], Sequential[n]).result = "ok"
         /\ DOMAIN Deliver(txs[i], Sequential[n]).writes = WritesOf(i)
<1>1. /\ UpdatesOnly
      /\ Deliver(txs[i], Sequential[n]).result # "err"
      /\ DOMAIN Deliver(txs[i], Sequential[n]).writes = WritesOf(i)
  BY DEF SteadyUpdates, WritesOf
<1>2. QED
  BY <1>1, UpdateChanges

(* Once a task has run, its recorded keys are those it is going to write.  *)
LEMMA ExecuteHeld ==
  ASSUME RoundsInvariant, SteadyUpdates, phase = "execute",
         parentStore = Sequential[lastStoreIdx],
         NEW i \in Tasks, Execute(i),
         \A j \in Tasks : pc[j] = "idle" => txWritesetKeys[j] = WritesOf(j)
  PROVE  \A j \in Tasks : pc'[j] = "idle" => txWritesetKeys'[j] = WritesOf(j)
<1>1. /\ TypeOK /\ TaskOK(i) /\ CommittedOK /\ lastStoreIdx \in Tasks /\ pc[i] # "idle"
      /\ \A j \in Tasks : j # i => pc'[j] = pc[j]
      /\ txWritesetKeys \in [Tasks -> SUBSET Keys] /\ i \in DOMAIN pc
  <2>1. TypeOK /\ TaskOK(i) /\ CommittedOK
    BY DEF RoundsInvariant, TaskInv, RoundsInv, InRounds
  <2>2. QED
    BY <2>1, ExecuteFrame DEF TypeOK, StoreTypeOK, Executing, Same
<1>2. lastStoreIdx \in 0 .. i
  BY <1>1 DEF CommittedOK
<1>3. /\ Deliver(txs[i], parentStore).result = "ok"
      /\ DOMAIN Deliver(txs[i], parentStore).writes = WritesOf(i)
  BY <1>2, SteadyWrites
<1>4. SUFFICES /\ \A j \in Tasks : j # i => txWritesetKeys'[j] = txWritesetKeys[j]
               /\ pc'[i] = "idle" => txWritesetKeys'[i] = WritesOf(i)
  BY <1>1
<1> USE DEF storeVars
<1>5. CASE Begin(i)
  BY <1>1, <1>3, <1>5 DEF Begin
<1>6. CASE SelfDestruct(i) \/ \E k \in Keys : Get(i, k) \/ Publish(i, k)
  BY <1>1, <1>6 DEF SelfDestruct, Get, Publish
<1>7. CASE Aborted(i) \/ Executed(i)
  BY <1>1, <1>7 DEF Aborted, Executed, TakeWriteset
<1>8. CASE Finish(i)
  <2>1. outcome[i] = Deliver(txs[i], parentStore)
    BY <1>1, <1>8 DEF Finish, TaskOK, TracerOK
  <2>2. txWritesetKeys' = [txWritesetKeys EXCEPT ![i] = DOMAIN outcome[i].writes]
    BY <1>8 DEF Finish
  <2>3. QED
    BY <1>1, <1>3, <2>1, <2>2
<1>9. QED
  BY <1>5, <1>6, <1>7, <1>8 DEF Execute

(* That is so at every step of the rounds.                                 *)
LEMMA HeldInductive ==
  /\ Init => HeldInv
  /\ Rounds /\ UpdateInv /\ HeldInv /\ [Next]_vars => HeldInv'
<1>1. Init => HeldInv
  BY DEF Init, HeldInv
<1>2. ASSUME Rounds, UpdateInv, HeldInv, [Next]_vars
      PROVE  HeldInv'
  <2>1. /\ RoundsInvariant /\ SequentialInv /\ TypeOK /\ PhaseOK
    BY <1>2 DEF Rounds, RoundsInvariant, TaskInv
  <2> DEFINE Recorded == \A i \in Tasks : txWritesetKeys[i] = WritesOf(i)
             Idle == \A i \in Tasks : pc[i] = "idle" => txWritesetKeys[i] = WritesOf(i)
  <2>2. SUFFICES ASSUME InRounds', SteadyUpdates'
                 PROVE  /\ phase' = "loop" => toExecute' = Tasks \/ Recorded'
                        /\ phase' = "execute" => Idle'
                        /\ phase' = "validate" => Recorded'
    BY DEF HeldInv, InRounds
  <2>3. ASSUME UNCHANGED txs
        PROVE  /\ SteadyUpdates
               /\ \A i \in Tasks : WritesOf(i)' = WritesOf(i)
               /\ phase = "loop" => toExecute = Tasks \/ Recorded
               /\ phase = "execute" => Idle
               /\ phase = "validate" => Recorded
    BY <1>2, <2>2, <2>3, BlockKept DEF HeldInv
  <2>4. CASE UNCHANGED vars
    <3>1. UNCHANGED <<txs, phase, toExecute, pc, txWritesetKeys>>
      BY <2>4 DEF vars, storeVars, mainVars
    <3>2. QED
      BY <2>3, <3>1
  <2>5. ASSUME NEW i \in Tasks, StartRound(i)
        PROVE  phase' = "execute" /\ Idle'
    <3>1. /\ phase = "loop" /\ phase' = "execute" /\ UNCHANGED <<txs, txWritesetKeys>>
          /\ pc' = [j \in Tasks |-> IF j \in toExecute THEN "queued" ELSE "idle"]
      BY <2>5 DEF StartRound, WriteLatestToStoreUntil, storeVars
    <3>2. QED
      BY <2>3, <3>1
  <2>6. ASSUME NEW i \in Tasks, StartValidation(i)
        PROVE  phase' = "validate" /\ Recorded'
    <3>1. phase = "execute" /\ phase' = "validate" /\ AllIdle /\ UNCHANGED <<txs, txWritesetKeys>>
      BY <2>6 DEF StartValidation, HandOut, storeVars
    <3>2. QED
      BY <2>3, <3>1 DEF AllIdle
  <2>7. ASSUME NEW i \in Tasks, Execute(i)
        PROVE  phase' = "execute" /\ Idle'
    <3>1. WorkerStep /\ pc[i] \in Executing
      BY <2>1, <2>7, ExecuteFrame
    <3>2. UNCHANGED <<txs, phase>> /\ phase = "execute"
      BY <2>1, <2>2, <3>1 DEF WorkerStep, PhaseOK, AllIdle, Executing, Validating, InRounds
    <3>3. SteadyUpdates /\ UpdatesOnly /\ Idle
      BY <2>3, <3>2 DEF SteadyUpdates
    <3>4. parentStore = Sequential[lastStoreIdx]
      BY <1>2, <2>1, <3>2, <3>3, ParentSequential DEF UpdateInv, InRounds
    <3>5. \A j \in Tasks : pc'[j] = "idle" => txWritesetKeys'[j] = WritesOf(j)
      BY <2>1, <2>7, <3>2, <3>3, <3>4, ExecuteHeld
    <3>6. QED
      BY <2>3, <3>2, <3>5
  <2>8. ASSUME NEW i \in Tasks, Validate(i)
        PROVE  phase' = "validate" /\ Recorded'
    <3>1. WorkerStep /\ pc[i] \in Validating
      BY <2>1, <2>8, ValidateFrame
    <3>2. UNCHANGED <<txs, phase>> /\ phase = "validate"
      BY <2>1, <2>2, <3>1 DEF WorkerStep, PhaseOK, AllIdle, Executing, Validating, InRounds
    <3>3. UNCHANGED txWritesetKeys
      BY <2>8 DEF Validate, Branch, Accept, Reject, Depend, ClearReadset, DependenciesMet, Wait,
         Reset, LoadMax, StoreMax, CheckRead, DependencyCheck, Invalidate, storeVars
    <3>4. QED
      BY <2>3, <3>2, <3>3
  <2>9. CASE EndRound
    <3>1. phase = "validate" /\ phase' = "loop" /\ UNCHANGED <<txs, txWritesetKeys>>
      BY <2>9 DEF EndRound, storeVars
    <3>2. QED
      BY <2>3, <3>1
  <2>10. CASE (\E i \in Tasks : GoSynchronous(i) \/ ProcessAllSync(i)) \/ Return
    <3>1. ~InRounds'
      BY <2>1, <2>10, SyncFrame DEF GoSynchronous, Return, InRounds
    <3>2. QED
      BY <2>2, <3>1
  <2>11. QED
    <3> HIDE DEF Recorded, Idle
    <3>1. QED
      BY <1>2, <2>4, <2>5, <2>6, <2>7, <2>8, <2>9, <2>10 DEF Next, Terminated
<1>3. QED
  BY <1>1, <1>2

(* The fallback starts with every task as FallbackInv says.                *)
LEMMA GoSynchronousFallback ==
  ASSUME Rounds, UpdateInv, HeldInv, SteadyUpdates, NEW start \in Tasks, GoSynchronous(start)
  PROVE  FallbackInv'
<1>1. /\ phase = "loop" /\ FirstNonValidated(start)
      /\ phase' = "sync" /\ syncIdx' = start /\ syncStoreIdx' = 0
      /\ UNCHANGED <<txs, lastStoreIdx, multiVersionMap, txReadSets, parentStore, status, response>>
  BY DEF GoSynchronous, storeVars, taskVars
<1>2. /\ RoundsInvariant /\ SequentialInv /\ TypeOK /\ PhaseOK /\ CommittedOK
      /\ \A j \in Tasks : TaskOK(j) /\ TaskRecorded(j) /\ pc[j] = "idle"
      /\ lastStoreIdx \in Tasks /\ start \in 0 .. N
  <2>1. RoundsInvariant /\ SequentialInv
    BY DEF Rounds
  <2>2. /\ TypeOK /\ PhaseOK /\ CommittedOK
        /\ \A j \in Tasks : TaskOK(j) /\ TaskRecorded(j) /\ pc[j] = "idle"
    BY <1>1, <2>1 DEF RoundsInvariant, TaskInv, RoundsInv, InRounds, PhaseOK, AllIdle
  <2>3. QED
    BY <2>1, <2>2, BlockAssumption DEF TypeOK
<1>3. lastStoreIdx <= start
  BY <1>1, <1>2, StartNotCommitted
<1>4. UpdatesOnly
  BY DEF SteadyUpdates
<1>5. /\ parentStore = Replayed[lastStoreIdx]
      /\ \A j \in Tasks : j >= lastStoreIdx => RunsOn(j, parentStore) /\ ReadsUntouched(j)
  BY <1>1, <1>4 DEF UpdateInv, InRounds
<1>6. parentStore = Sequential[lastStoreIdx]
  BY <1>2, <1>5, ParentSequential
<1>7. ASSUME NEW l \in Tasks, status[l] = "validated"
      PROVE  \A i \in Tasks, k \in Keys : k \in WritesOf(i) <=> multiVersionMap[k][i].kind # "none"
  <2>1. l \notin toExecute
    BY <1>1, <1>2, <1>7 DEF TaskOK, StatusOK
  <2>2. \A i \in Tasks : txWritesetKeys[i] = WritesOf(i)
    BY <1>1, <1>7, <2>1 DEF HeldInv
  <2>3. QED
    BY <1>2, <2>2 DEF TaskRecorded, Held
<1>8. Sequential' = Sequential /\ Replayed' = Replayed
      /\ \A i \in Tasks : WritesOf(i)' = WritesOf(i)
  BY <1>1, SequentialKept, BlockKept DEF Replayed
<1>9. ASSUME NEW i \in Tasks, i < start
      PROVE  /\ CommittedStep(i)'
             /\ response'[i]
             /\ \A k \in Keys : /\ ~IsEstimate(multiVersionMap'[k][i])
                                /\ k \notin WritesOf(i) => multiVersionMap'[k][i].kind = "none"
  <2>1. status[i] = "validated"
    BY <1>1, <1>9 DEF FirstNonValidated
  <2>2. CommittedStep(i) /\ \A k \in Keys : ~IsEstimate(multiVersionMap[k][i])
    BY <1>1, <1>2, <1>9, ValidatedPrefix DEF FirstNonValidated
  <2>3. CommittedStep(i)'
    BY <1>1, <1>8, <2>2 DEF CommittedStep, Ideal!CommitTransaction
  <2>4. response[i]
    BY <1>1, <1>2, <2>1 DEF TaskOK, StatusOK, InRounds
  <2>5. QED
    BY <1>1, <1>7, <2>1, <2>2, <2>3, <2>4
<1>10. ASSUME NEW j \in Tasks, j >= start
       PROVE  LeftOver(j)'
  <2>1. /\ status[j] \in {"pending", "validated", "waiting"}
        /\ status[j] \in {"pending", "waiting"} => Clean(j)
        /\ status[j] = "validated" => response[j]
    BY <1>1, <1>2 DEF TaskOK, StatusOK, CleanOK, InRounds
  <2>2. ASSUME Clean(j)
        PROVE  Clean(j)'
    BY <1>1, <2>2 DEF Clean
  <2>3. CASE status[j] = "validated"
    <3>1. RunsOn(j, parentStore) /\ ReadsUntouched(j)
      BY <1>2, <1>3, <1>5, <1>10
    <3>2. /\ Ran(j, Sequential[lastStoreIdx])
          /\ \A k \in KeysRead(j) : Untouched(j, k)
      BY <1>2, <1>6, <2>3, <3>1 DEF RunsOn, Sound, ReadsUntouched
    <3>3. ASSUME NEW k \in KeysRead(j), NEW i \in Tasks, lastStoreIdx <= i, i < j
          PROVE  k \notin WritesOf(i)
      BY <1>7, <2>3, <3>2, <3>3 DEF Untouched, KeysRead
    <3>4. KeysRead(j)' = KeysRead(j) /\ Ran(j, Sequential[lastStoreIdx])'
      BY <1>1, <1>8, <3>2 DEF KeysRead, Ran
    <3>5. QED
      BY <1>1, <1>8, <2>1, <2>3, <3>3, <3>4 DEF LeftOver
  <2>4. CASE status[j] # "validated"
    BY <1>1, <2>1, <2>2, <2>4 DEF LeftOver
  <2>5. QED
    BY <2>3, <2>4
<1>11. \E m \in lastStoreIdx .. start : parentStore = Replayed[m] /\ 0 <= m
  BY <1>2, <1>3, <1>5
<1>12. QED
  BY <1>1, <1>8, <1>9, <1>10, <1>11 DEF FallbackInv

(* The write-back of the fallback gives a task the sequential state.       *)
LEMMA FallbackParent ==
  ASSUME RoundsInvariant, FallbackInv, SteadyUpdates, phase = "sync", syncIdx \in Tasks
  PROVE  /\ SyncParent = Replayed[syncIdx]
         /\ \A n \in 0 .. syncIdx : Replayed[n] = Sequential[n]
         /\ lastStoreIdx \in 0 .. syncIdx
<1> DEFINE s == syncIdx
<1>1. /\ TypeOK /\ StoreTypeOK /\ N \in Nat /\ lastStoreIdx \in Tasks /\ lastStoreIdx <= s
      /\ syncStoreIdx \in Tasks
  BY BlockAssumption DEF RoundsInvariant, TaskInv, RoundsInv, CommittedOK, TypeOK
<1>2. s \in 0 .. N /\ lastStoreIdx \in 0 .. s
  BY <1>1
<1>3. /\ \A i \in Tasks : i < s => CommittedStep(i)
      /\ \A i \in Tasks, k \in Keys : i < s /\ lastStoreIdx <= i /\ k \notin WritesOf(i) =>
           multiVersionMap[k][i].kind = "none"
      /\ \A j \in Tasks : j >= s => LeftOver(j)
  BY DEF FallbackInv
<1>4. \A n \in 0 .. s : Replayed[n] = Sequential[n]
  BY <1>1, <1>2, <1>3, StepsAreSequential
<1>5. PICK m \in lastStoreIdx .. s : parentStore = Replayed[m] /\ syncStoreIdx <= m
  BY DEF FallbackInv
<1>6. m \in 0 .. N /\ syncStoreIdx \in 0 .. N /\ m <= s
  BY <1>1, <1>2
<1>7. ASSUME NEW k \in Keys, NEW i \in Tasks, NEW j \in Tasks,
             m <= i, i < s, s <= j, multiVersionMap[k][j].kind = "value"
      PROVE  multiVersionMap[k][i].kind # "value"
  <2>1. LeftOver(j) /\ ~Clean(j) /\ lastStoreIdx \in 0 .. j /\ lastStoreIdx <= i /\ i < j
    BY <1>1, <1>3, <1>7 DEF Clean
  <2>2. /\ Ran(j, Sequential[lastStoreIdx])
        /\ \A l \in KeysRead(j) : l \notin WritesOf(i)
    BY <2>1 DEF LeftOver
  <2>3. k \in DOMAIN Deliver(txs[j], Sequential[lastStoreIdx]).writes
    BY <1>7, <2>2 DEF Ran, HoldsWrite
  <2>4. k \in Deliver(txs[j], Sequential[lastStoreIdx]).reads
    BY <2>1, <2>2, <2>3, UpdateChanges DEF Ran, SteadyUpdates
  <2>5. Sequential[lastStoreIdx] \in States
    BY <1>1, <1>2, SequentialEquation
  <2>6. k \in KeysRead(j)
    BY <1>1, <2>2, <2>4, <2>5, RanReads
  <2>7. QED
    BY <1>3, <1>7, <2>1, <2>2, <2>6
<1>8. SyncParent = Replayed[s]
  <2>1. \A k \in Keys, i, j \in Tasks :
          m <= i /\ i < s /\ s <= j /\ multiVersionMap[k][j].kind = "value" =>
            multiVersionMap[k][i].kind # "value"
    BY <1>7
  <2>2. parentStore = Replay(multiVersionMap, InitState)[m] /\ syncStoreIdx <= m
    BY <1>5 DEF Replayed
  <2>3. LatestToStoreUntil(syncStoreIdx, s) = Replay(multiVersionMap, InitState)[s]
    <3> HIDE DEF s
    <3>1. s \in 0 .. N
      BY <1>2 DEF s
    <3>2. QED
      BY <1>1, <1>6, <2>1, <2>2, <3>1, InitStateAssumption, LatestToStoreUntilReplays
  <2>4. QED
    BY <2>3 DEF SyncParent, Replayed
<1>9. QED
  BY <1>2, <1>4, <1>8

(* A validated task passes the second validation: what it read has not     *)
(* changed since the state it ran on.                                      *)
LEMMA FallbackSkips ==
  ASSUME RoundsInvariant, FallbackInv, SteadyUpdates, phase = "sync", syncIdx \in Tasks,
         status[syncIdx] = "validated"
  PROVE  Ran(syncIdx, Replayed[syncIdx]) /\ SyncCheck(syncIdx).valid /\ response[syncIdx]
<1> DEFINE s == syncIdx
<1>1. /\ SyncParent = Replayed[s]
      /\ \A n \in 0 .. s : Replayed[n] = Sequential[n]
      /\ lastStoreIdx \in 0 .. s
  BY FallbackParent
<1>2. /\ TypeOK /\ multiVersionMap \in [Keys -> Tree] /\ s \in 0 .. N /\ lastStoreIdx \in 0 .. N
  <2>1. TypeOK /\ multiVersionMap \in [Keys -> Tree] /\ N \in Nat
    BY BlockAssumption DEF RoundsInvariant, TaskInv, TypeOK, StoreTypeOK
  <2>2. QED
    BY <1>1, <2>1
<1>3. /\ Ran(s, Sequential[lastStoreIdx]) /\ response[s]
      /\ \A k \in KeysRead(s), i \in Tasks : lastStoreIdx <= i /\ i < s => k \notin WritesOf(i)
  <2>1. LeftOver(s)
    BY <1>2 DEF FallbackInv
  <2>2. QED
    BY <2>1 DEF LeftOver
<1>4. \A i \in Tasks : i < s =>
        \A k \in Keys : /\ ~IsEstimate(multiVersionMap[k][i])
                        /\ lastStoreIdx <= i /\ k \notin WritesOf(i) =>
                             multiVersionMap[k][i].kind = "none"
  BY DEF FallbackInv
<1>5. Replayed[s] \in States /\ Sequential[lastStoreIdx] \in States
      /\ Replayed[lastStoreIdx] = Sequential[lastStoreIdx]
  BY <1>1, <1>2, InitStateAssumption, ReplayEquation, SequentialEquation DEF Replayed
<1>6. ASSUME NEW k \in KeysRead(s)
      PROVE  Sequential[lastStoreIdx][k] = Replayed[s][k]
  <2>1. \A i \in Tasks : lastStoreIdx <= i /\ i < s => multiVersionMap[k][i].kind # "value"
    BY <1>3, <1>4, <1>6 DEF KeysRead
  <2>2. k \in Keys /\ lastStoreIdx <= s
    BY <1>1 DEF KeysRead
  <2>3. Replay(multiVersionMap, InitState)[s][k] = Replay(multiVersionMap, InitState)[lastStoreIdx][k]
    BY <1>2, <2>1, <2>2, InitStateAssumption, ReplayUntouched
  <2>4. QED
    BY <1>5, <2>3 DEF Replayed
<1>7. Ran(s, Replayed[s])
  BY <1>2, <1>3, <1>5, <1>6, RanElsewhere
<1>8. ASSUME NEW k \in KeysRead(s)
      PROVE  ReadValid(s, k, Replayed[s])
  <2>1. txReadSets[s][k] = {Replayed[s][k]} /\ k \in Keys
    BY <1>2, <1>5, <1>7, <1>8, RanReads DEF KeysRead
  <2>2. QED
    BY <1>2, <1>4, <2>1, SettledReads
<1>9. SyncCheck(s).valid
  BY <1>1, <1>8 DEF SyncCheck, ValidateTransactionState
<1>10. QED
  BY <1>3, <1>7, <1>9

(* A task that is left runs on the sequential state, meets no estimate,    *)
(* and is executed.                                                        *)
LEMMA FallbackExecutes ==
  ASSUME RoundsInvariant, FallbackInv, SteadyUpdates, phase = "sync", syncIdx \in Tasks,
         ProcessAllSync(syncIdx), status[syncIdx] # "validated"
  PROVE  /\ SyncExecute(syncIdx)
         /\ response'[syncIdx]
         /\ Deliver(txs[syncIdx], Replayed[syncIdx]).result # "err"
         /\ \A k \in Keys : HoldsWrite(multiVersionMap'[k][syncIdx],
                                       Deliver(txs[syncIdx], Replayed[syncIdx]).writes, k)
<1> DEFINE s == syncIdx
           out == Deliver(txs[s], Replayed[s])
<1>1. /\ SyncParent = Replayed[s]
      /\ Replayed[s] = Sequential[s]
      /\ s \in 0 .. s
  BY FallbackParent
<1>2. TypeOK /\ StoreTypeOK /\ TaskRecorded(s) /\ pc[s] = "idle"
  BY DEF RoundsInvariant, TaskInv, TypeOK, PhaseOK, AllIdle
<1>3. SyncOutcome(s) = out /\ out.result = "ok"
  BY <1>1, SteadyWrites DEF SyncOutcome
<1>4. Replayed[s] \in States
  <2>1. s \in 0 .. N
    BY <1>2 DEF TypeOK
  <2>2. QED
    BY <1>1, <1>2, <2>1, SequentialEquation
<1>5. out.reads \subseteq Keys /\ out.writes \in WriteSet /\ DOMAIN out.writes \subseteq Keys
  BY <1>2, <1>4, OutcomeTypes
<1> HIDE DEF out
<1>6. \A k \in Keys : EstimateBefore(s, k) = {}
  BY <1>2, SettledReads DEF FallbackInv
<1>7. SyncAborts(s) = {}
  <2>1. \A k \in SyncOutcome(s).reads : EstimateBefore(s, k) = {}
    BY <1>3, <1>5, <1>6
  <2>2. QED
    BY <1>3, <2>1 DEF SyncAborts
<1>8. SyncExecute(s)
  BY <1>3, <1>7 DEF ProcessAllSync, SyncSkip, SyncStrand, SyncRun, SyncFail, SyncAbort
<1>9. /\ response'[s]
      /\ multiVersionMap' = Published(s, SyncIncarnation(s), out.writes, FALSE)
  BY <1>2, <1>3, <1>8 DEF SyncExecute, SyncPublish, TypeOK
<1>10. SyncIncarnation(s) \in Nat
  BY <1>2 DEF SyncIncarnation, TypeOK
<1>11. ASSUME NEW k \in Keys
       PROVE  HoldsWrite(multiVersionMap'[k][s], out.writes, k)
  <2>1. CASE k \in txWritesetKeys[s] \cup DOMAIN out.writes
    <3> DEFINE tree == PublishKey(multiVersionMap[k], s, SyncIncarnation(s), out.writes, k, FALSE)
    <3>1. multiVersionMap'[k] = tree
      BY <1>9, <2>1 DEF Published
    <3>2. /\ s \in Held(tree) <=> k \in DOMAIN out.writes
          /\ k \in DOMAIN out.writes => tree[s].kind = "value" /\ tree[s].value = out.writes[k]
      <4>1. multiVersionMap[k] \in Tree
        BY <1>2 DEF StoreTypeOK
      <4>2. ASSUME NEW e \in BOOLEAN, ~e,
                   NEW t, t = PublishKey(multiVersionMap[k], s, SyncIncarnation(s), out.writes, k, e)
            PROVE  /\ s \in Held(t) <=> k \in DOMAIN out.writes
                   /\ k \in DOMAIN out.writes => t[s].kind = "value" /\ t[s].value = out.writes[k]
        BY <1>5, <1>10, <4>1, <4>2, PublishKeyTree
      <4> HIDE DEF s
      <4>3. QED
        BY <4>2
    <3> HIDE DEF tree
    <3>3. QED
      BY <3>1, <3>2 DEF HoldsWrite, Held
  <2>2. CASE k \notin txWritesetKeys[s] \cup DOMAIN out.writes
    <3>1. multiVersionMap'[k] = multiVersionMap[k]
      BY <1>9, <2>2 DEF Published
    <3>2. multiVersionMap[k][s].kind = "none"
      BY <1>2, <2>2 DEF TaskRecorded, Held
    <3>3. QED
      BY <2>2, <3>1, <3>2 DEF HoldsWrite
  <2>3. QED
    BY <2>1, <2>2
<1>12. QED
  BY <1>3, <1>8, <1>9, <1>11 DEF out

(* The fallback commits one task after the other.                          *)
LEMMA SyncFallback ==
  ASSUME RoundsInvariant, TypeOK', FallbackInv, SteadyUpdates, NEW s \in Tasks, ProcessAllSync(s)
  PROVE  FallbackInv'
<1>1. TypeOK /\ lastStoreIdx \in Tasks /\ N \in Nat
  BY BlockAssumption DEF RoundsInvariant, TaskInv, TypeOK
<1>2. /\ phase = "sync" /\ s = syncIdx /\ syncIdx' = s + 1
      /\ UNCHANGED <<txs, lastStoreIdx>>
      /\ \A j \in Tasks : j # s => Same(j)
  BY <1>1, SyncFrame
<1>3. parentStore' = SyncParent /\ syncStoreIdx' = s
  BY DEF ProcessAllSync, SyncSkip, SyncStrand, SyncRun, SyncStep
<1>4. /\ SyncParent = Replayed[s]
      /\ Replayed[s] = Sequential[s] /\ s \in 0 .. s
      /\ lastStoreIdx \in 0 .. s /\ s \in 0 .. N
  BY <1>1, <1>2, FallbackParent
<1>5. Sequential' = Sequential /\ \A i \in Tasks : WritesOf(i)' = WritesOf(i)
  BY <1>2, SequentialKept, BlockKept
<1>6. /\ \A k \in Keys, j \in Tasks : j < s => multiVersionMap'[k][j] = multiVersionMap[k][j]
      /\ Replayed'[s] = Replayed[s]
      /\ \A i \in Tasks : i < s /\ CommittedStep(i) => CommittedStep(i)'
  <2>1. \A k \in Keys, j \in Tasks : j < s => multiVersionMap'[k][j] = multiVersionMap[k][j]
    BY <1>2 DEF Same
  <2>2. QED
    BY <1>1, <1>2, <1>4, <2>1, StepsKept
<1> DEFINE out == Deliver(txs[s], Replayed[s])
<1>7. /\ response'[s] /\ out.result # "err"
      /\ \A k \in Keys : HoldsWrite(multiVersionMap'[k][s], out.writes, k)
  <2>1. CASE status[s] = "validated"
    <3>1. Ran(s, Replayed[s]) /\ SyncCheck(s).valid /\ response[s]
      BY <1>2, <2>1, FallbackSkips
    <3>2. UNCHANGED <<multiVersionMap, response>>
      BY <2>1, <3>1 DEF ProcessAllSync, SyncSkip, SyncStrand, SyncRun, taskVars
    <3>3. QED
      BY <3>1, <3>2 DEF Ran
  <2>2. CASE status[s] # "validated"
    BY <1>2, <2>2, FallbackExecutes
  <2>3. QED
    BY <2>1, <2>2
<1>8. CommittedStep(s)'
  <2>1. multiVersionMap' \in [Keys -> Tree] /\ Replayed[s] = Replay(multiVersionMap', InitState)[s]
    BY <1>6 DEF TypeOK, StoreTypeOK, Replayed
  <2>2. Replay(multiVersionMap', InitState)[s + 1] = Ideal!CommitTransaction(txs[s], Replayed[s])
    BY <1>7, <2>1, WritesAreStep
  <2>3. Replayed'[s + 1] = Ideal!CommitTransaction(txs[s], Replayed'[s])
    BY <1>6, <2>2 DEF Replayed
  <2>4. QED
    BY <1>2, <2>3 DEF CommittedStep, Ideal!CommitTransaction
<1>9. ASSUME NEW i \in Tasks, i < s + 1
      PROVE  /\ CommittedStep(i)'
             /\ response'[i]
             /\ \A k \in Keys : /\ ~IsEstimate(multiVersionMap'[k][i])
                                /\ lastStoreIdx <= i /\ k \notin WritesOf(i) =>
                                     multiVersionMap'[k][i].kind = "none"
  <2>1. CASE i = s
    <3>1. DOMAIN out.writes = WritesOf(s)
      BY <1>4, SteadyWrites
    <3> HIDE DEF out
    <3>2. QED
      BY <1>7, <1>8, <2>1, <3>1 DEF HoldsWrite, IsEstimate
  <2>2. CASE i # s
    <3>1. i < s /\ Same(i)
      BY <1>2, <1>9, <2>2
    <3>2. /\ CommittedStep(i) /\ response[i]
          /\ \A k \in Keys : /\ ~IsEstimate(multiVersionMap[k][i])
                             /\ lastStoreIdx <= i /\ k \notin WritesOf(i) =>
                                  multiVersionMap[k][i].kind = "none"
      BY <1>2, <3>1 DEF FallbackInv
    <3>3. QED
      BY <1>6, <3>1, <3>2 DEF Same
  <2>3. QED
    BY <2>1, <2>2
<1>10. ASSUME NEW j \in Tasks, j >= s + 1
       PROVE  LeftOver(j)'
  <2>1. Same(j) /\ LeftOver(j)
    BY <1>2, <1>10 DEF FallbackInv
  <2>2. KeysRead(j)' = KeysRead(j)
    BY <2>1 DEF Same, KeysRead
  <2>3. /\ Ran(j, Sequential[lastStoreIdx]) => Ran(j, Sequential[lastStoreIdx])'
        /\ Clean(j) => Clean(j)'
    BY <1>2, <1>5, <2>1 DEF Same, Ran, Clean
  <2>4. QED
    BY <1>2, <1>5, <2>1, <2>2, <2>3 DEF LeftOver, Same
<1>11. \E m \in lastStoreIdx .. s + 1 : parentStore' = Replayed'[m] /\ syncStoreIdx' <= m
  BY <1>1, <1>3, <1>4, <1>6
<1>12. QED
  BY <1>2, <1>5, <1>9, <1>10, <1>11 DEF FallbackInv

(* Its last write-back gives the sequential result.                        *)
LEMMA FallbackReturns ==
  ASSUME RoundsInvariant, FallbackInv, SteadyUpdates, phase = "sync", Return
  PROVE  SequentialResult'
<1>1. /\ TypeOK /\ StoreTypeOK /\ N \in 0 .. N /\ syncIdx = N
      /\ parentStore' = LatestToStore /\ UNCHANGED <<txs, response>>
      /\ multiVersionMap \in [Keys -> Tree] /\ lastStoreIdx \in 0 .. N
  <2>1. TypeOK /\ StoreTypeOK /\ multiVersionMap \in [Keys -> Tree] /\ lastStoreIdx \in Tasks
    BY DEF RoundsInvariant, TaskInv, TypeOK, StoreTypeOK
  <2>2. QED
    BY <2>1, BlockAssumption DEF Return, WriteLatestToStore, taskVars
<1>2. \A i \in Tasks : i < N /\ CommittedStep(i) /\ response[i]
  BY <1>1 DEF FallbackInv
<1>3. PICK m \in lastStoreIdx .. N : parentStore = Replayed[m]
  BY <1>1 DEF FallbackInv
<1>4. m \in 0 .. N
  BY <1>1
<1>5. ASSUME NEW k \in Keys, \A j \in Tasks : multiVersionMap[k][j].kind # "value"
      PROVE  parentStore[k] = InitState[k]
  BY <1>1, <1>3, <1>4, <1>5, InitStateAssumption, ReplayLatest DEF Replayed
<1>6. LatestToStore = Replayed[N]
  BY <1>1, <1>5, InitStateAssumption, LatestToStoreReplays DEF Replayed
<1>7. Replayed[N] = Sequential[N]
  BY <1>1, <1>2, StepsAreSequential
<1>8. QED
  BY <1>1, <1>2, <1>6, <1>7, SequentialKept DEF SequentialResult

(* The invariant of the fallback is inductive.                             *)
LEMMA SteadyInductive ==
  /\ Init => SteadyInv
  /\ Rounds /\ UpdateInv /\ SteadyInv /\ [Next]_vars => SteadyInv'
<1>1. Init => SteadyInv
  BY HeldInductive DEF Init, SteadyInv, FallbackInv, ParallelIsSequential
<1>2. ASSUME Rounds, UpdateInv, SteadyInv, [Next]_vars
      PROVE  SteadyInv'
  <2>1. /\ RoundsInvariant /\ SequentialInv /\ TypeOK /\ PhaseOK /\ TypeOK' /\ SequentialInv'
    BY <1>2, SequentialInductive DEF Rounds, RoundsInvariant, TaskInv
  <2>2. HeldInv /\ FallbackInv /\ (InRounds => ~synchronous) /\ ParallelIsSequential
    BY <1>2 DEF SteadyInv
  <2>3. HeldInv'
    BY <1>2, <2>2, HeldInductive
  <2> DEFINE Rest == /\ FallbackInv'
                     /\ InRounds' => ~synchronous'
                     /\ ParallelIsSequential'
  <2>4. SUFFICES Rest
    BY <2>3 DEF SteadyInv
  <2>5. CASE UNCHANGED vars
    <3>1. /\ UNCHANGED <<txs, phase, lastStoreIdx, synchronous, syncIdx, syncStoreIdx>>
          /\ UNCHANGED <<multiVersionMap, txReadSets, parentStore, status, response>>
      BY <2>5 DEF vars, storeVars, mainVars, syncVars, taskVars
    <3>2. Sequential' = Sequential /\ Replayed' = Replayed
      BY <3>1, SequentialKept DEF Replayed
    <3>3. /\ SteadyUpdates' <=> SteadyUpdates
          /\ \A i \in Tasks : WritesOf(i)' = WritesOf(i)
      BY <3>1, BlockKept
    <3>4. \A j \in Tasks : /\ CommittedStep(j)' <=> CommittedStep(j)
                           /\ KeysRead(j)' = KeysRead(j)
                           /\ Clean(j)' <=> Clean(j)
                           /\ Ran(j, Sequential[lastStoreIdx])' <=> Ran(j, Sequential[lastStoreIdx])
      BY <3>1, <3>2 DEF CommittedStep, Ideal!CommitTransaction, KeysRead, Clean, Ran
    <3>5. \A j \in Tasks : LeftOver(j) => LeftOver(j)'
      BY <3>1, <3>3, <3>4 DEF LeftOver
    <3>6. FallbackInv'
      BY <2>2, <3>1, <3>2, <3>3, <3>4, <3>5 DEF FallbackInv
    <3>7. ParallelIsSequential'
      BY <2>2, <3>1, <3>2, <3>3 DEF ParallelIsSequential, SequentialResult
    <3>8. QED
      BY <2>2, <3>1, <3>6, <3>7 DEF InRounds
  <2>6. CASE \/ \E i \in Tasks : StartRound(i) \/ StartValidation(i) \/ Execute(i) \/ Validate(i)
             \/ EndRound
    <3>1. InRounds /\ InRounds' /\ UNCHANGED synchronous
      <4>1. ASSUME NEW i \in Tasks, Execute(i) \/ Validate(i)
            PROVE  InRounds /\ UNCHANGED <<phase, synchronous>>
        <5>1. WorkerStep /\ pc[i] # "idle"
          BY <2>1, <4>1, ExecuteFrame, ValidateFrame DEF Executing, Validating
        <5>2. phase \in Phases
          BY <2>1 DEF TypeOK
        <5>3. QED
          BY <2>1, <5>1, <5>2 DEF WorkerStep, PhaseOK, AllIdle, Phases, InRounds
      <4>2. CASE (\E i \in Tasks : StartRound(i) \/ StartValidation(i)) \/ EndRound
        BY <4>2 DEF StartRound, StartValidation, HandOut, EndRound, InRounds
      <4>3. QED
        BY <2>6, <4>1, <4>2 DEF InRounds
    <3>2. QED
      BY <2>2, <3>1 DEF InRounds, FallbackInv, ParallelIsSequential
  <2>7. ASSUME NEW i \in Tasks, GoSynchronous(i)
        PROVE  Rest
    <3>1. phase' = "sync" /\ UNCHANGED txs
      BY <2>7 DEF GoSynchronous
    <3>2. SteadyUpdates' => SteadyUpdates
      BY <3>1, BlockKept
    <3>3. SteadyUpdates => FallbackInv'
      BY <1>2, <2>2, <2>7, GoSynchronousFallback
    <3>4. QED
      BY <3>1, <3>2, <3>3 DEF FallbackInv, ParallelIsSequential, InRounds
  <2>8. ASSUME NEW i \in Tasks, ProcessAllSync(i)
        PROVE  Rest
    <3>1. phase' = "sync" /\ UNCHANGED txs
      BY <2>1, <2>8, SyncFrame
    <3>2. SteadyUpdates' => SteadyUpdates
      BY <3>1, BlockKept
    <3>3. SteadyUpdates => FallbackInv'
      BY <2>1, <2>2, <2>8, SyncFallback
    <3>4. QED
      BY <3>1, <3>2, <3>3 DEF FallbackInv, ParallelIsSequential, InRounds
  <2>9. CASE Return
    <3>1. /\ phase' = "done" /\ UNCHANGED <<txs, synchronous>>
          /\ phase \in {"loop", "sync"}
      BY <2>9 DEF Return
    <3>2. CASE phase = "loop"
      <4>1. SequentialResult'
        BY <2>1, <2>2, <3>1, <3>2 DEF SequentialInv, InRounds
      <4>2. QED
        BY <3>1, <4>1 DEF FallbackInv, ParallelIsSequential, InRounds
    <3>3. CASE phase = "sync"
      <4>1. SteadyUpdates' => SteadyUpdates
        BY <3>1, BlockKept
      <4>2. SteadyUpdates => SequentialResult'
        BY <2>1, <2>2, <2>9, <3>3, FallbackReturns
      <4>3. synchronous'
        BY <2>1, <3>1, <3>3 DEF SequentialInv
      <4>4. QED
        BY <3>1, <4>1, <4>2, <4>3 DEF FallbackInv, ParallelIsSequential, InRounds
    <3>4. QED
      BY <3>1, <3>2, <3>3
  <2>10. QED
    <3> HIDE DEF Rest
    <3>1. QED
      BY <1>2, <2>5, <2>6, <2>7, <2>8, <2>9 DEF Next, Terminated
<1>3. QED
  BY <1>1, <1>2

-----------------------------------------------------------------------------
(* What ProcessAll promises.                                               *)

(* Parallel execution is sequential execution: without the fallback for    *)
(* every block whose read sets are complete, with it for steady updates.   *)
THEOREM ParallelExecutionIsSequential == Spec => []ParallelIsSequential
<1>1. SteadyInv => ParallelIsSequential
  BY DEF SteadyInv
<1>2. Init => Rounds
  BY SequentialInductive DEF Rounds
<1>3. Rounds /\ [Next]_vars => Rounds'
  BY SequentialInductive DEF Rounds
<1>4. QED
  BY <1>1, <1>2, <1>3, UpdateInductive, SteadyInductive, PTL DEF Spec

(* ProcessAll implements the sequential block: each of its steps is one    *)
(* of the block, or one that commits nothing, up to the return of the      *)
(* fallback, and for steady updates that one too.                          *)
THEOREM RoundsImplementTheBlock == Spec => RoundsImplementSequential
<1> DEFINE Inv == Rounds /\ UpdateInv /\ SteadyInv
           Step == \/ [Ideal!Next]_(Ideal!vars)
                   \/ synchronous /\ phase' = "done" /\ ~SteadyUpdates
<1>1. Init => Ideal!Init
  <2> SUFFICES ASSUME Init PROVE Ideal!Init
    OBVIOUS
  <2>1. multiVersionMap \in [Keys -> Tree] /\ lastStoreIdx = 0 /\ phase = "loop"
    BY InitTypeOK DEF Init, TypeOK, StoreTypeOK
  <2>2. Replayed[0] = InitState
    BY <2>1, InitStateAssumption, ReplayEquation DEF Replayed
  <2>3. txs \in Blocks
    BY DEF Init
  <2>4. QED
    BY <2>1, <2>2, <2>3 DEF Ideal!Init
<1>2. Init => Inv
  BY SequentialInductive, UpdateInductive, SteadyInductive DEF Rounds
<1>3. Inv /\ [Next]_vars => Inv'
  BY SequentialInductive, UpdateInductive, SteadyInductive DEF Rounds
<1>4. ASSUME Inv, Inv', [Next]_vars
      PROVE  [Step]_vars
  <2>1. RoundsInvariant /\ SequentialInv /\ TypeOK'
    BY <1>4 DEF Rounds, RoundsInvariant, TaskInv
  <2>2. CASE UNCHANGED vars
    BY <2>2
  <2>3. CASE \E i \in Tasks : StartRound(i)
    BY <2>1, <2>3, StartRoundCommits
  <2>4. CASE Return
    <3>1. phase' = "done" /\ UNCHANGED <<txs, synchronous>>
      BY <2>4 DEF Return
    <3>2. CASE synchronous /\ ~SteadyUpdates
      BY <3>1, <3>2
    <3>3. CASE ~synchronous \/ SteadyUpdates
      <4>1. SequentialResult'
        BY <1>4, <3>1, <3>3, BlockKept DEF SteadyInv, ParallelIsSequential
      <4>2. parentStore' = Sequential[N]
        BY <3>1, <4>1, SequentialKept DEF SequentialResult
      <4>3. QED
        BY <2>1, <2>4, <4>2, ReturnCommits
    <3>4. QED
      BY <3>2, <3>3
  <2>5. CASE \/ \E i \in Tasks : \/ StartValidation(i) \/ GoSynchronous(i)
                                 \/ Execute(i) \/ Validate(i) \/ ProcessAllSync(i)
             \/ EndRound
    BY <2>1, <2>5, StepCommitsNothing
  <2>6. QED
    BY <1>4, <2>2, <2>3, <2>4, <2>5 DEF Next, Terminated
<1>5. QED
  <2>1. Init /\ [][Next]_vars => []Inv
    BY <1>2, <1>3, PTL
  <2>2. Inv /\ Inv' /\ [Next]_vars => [Step]_vars
    BY <1>4
  <2>3. QED
    BY <1>1, <2>1, <2>2, PTL DEF Spec, RoundsImplementSequential

=============================================================================
