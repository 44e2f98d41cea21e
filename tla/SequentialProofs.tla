-------------------------- MODULE SequentialProofs --------------------------
(***************************************************************************)
(* The parallel rounds do what sequential execution does, for any number   *)
(* of transactions, keys, words, workers and rounds, any transactions      *)
(* whose read sets are complete, and every interleaving of the workers.    *)
(***************************************************************************)
EXTENDS SequentialInvariant, RoundsProofs

USE DEF Tasks

-----------------------------------------------------------------------------
(* Sequential execution.                                                   *)

(* A commit yields a state.                                                *)
LEMMA CommitState ==
  ASSUME TypeOK, NEW i \in Tasks, NEW s \in States
  PROVE  Ideal!CommitTransaction(txs[i], s) \in States
<1> DEFINE out == Deliver(txs[i], s)
<1>1. /\ DOMAIN out.writes \subseteq Keys
      /\ \A k \in DOMAIN out.writes : out.writes[k] \in Values
  BY OutcomeTypes, WriteSetValues
<1>2. Ideal!CommitTransaction(txs[i], s) =
        IF out.result = "err" THEN s
        ELSE [k \in Keys |-> IF k \in DOMAIN out.writes THEN out.writes[k] ELSE s[k]]
  BY DEF Ideal!CommitTransaction
<1> HIDE DEF out
<1>3. QED
  BY <1>1, <1>2 DEF States

(* Sequential satisfies its defining equation, and yields states.          *)
LEMMA SequentialEquation ==
  ASSUME TypeOK
  PROVE  /\ Sequential \in [0 .. N -> States]
         /\ Sequential[0] = InitState
         /\ \A i \in Tasks :
              Sequential[i + 1] = Ideal!CommitTransaction(txs[i], Sequential[i])
<1> DEFINE Commit(n, s) == Ideal!CommitTransaction(txs[n - 1], s)
           step == [n \in 1 .. N |-> [s \in States |-> Commit(n, s)]]
           Is(f) == f = [n \in 0 .. N |-> IF n = 0 THEN InitState ELSE Commit(n, f[n - 1])]
<1>1. N \in Nat /\ InitState \in States
  BY BlockAssumption, InitStateAssumption
<1>2. ASSUME NEW n \in 1 .. N, NEW s \in States
      PROVE  Commit(n, s) \in States
  <2>1. n - 1 \in Tasks
    BY <1>1
  <2>2. QED
    BY <2>1, CommitState
<1>3. step \in [1 .. N -> [States -> States]]
  <2> HIDE DEF Commit
  <2>1. QED
    BY <1>2
<1>4. PICK f : GivenBy(f, N, States, InitState, step)
  <2> HIDE DEF step
  <2>1. QED
    BY <1>1, <1>3, Recursion
<1>5. ASSUME NEW n \in 0 .. N
      PROVE  f[n] = IF n = 0 THEN InitState ELSE Commit(n, f[n - 1])
  <2> HIDE DEF Commit
  <2>1. CASE n = 0
    BY <1>4, <2>1 DEF GivenBy
  <2>2. CASE n # 0
    <3>1. n \in 1 .. N /\ n - 1 \in 0 .. N
      BY <1>1, <2>2
    <3>2. f[n - 1] \in States
      BY <1>4, <3>1 DEF GivenBy
    <3>3. QED
      BY <1>4, <2>2, <3>1, <3>2 DEF GivenBy
  <2>3. QED
    BY <2>1, <2>2
<1>6. Is(f)
  <2> HIDE DEF step, Commit
  <2>1. QED
    BY <1>4, <1>5 DEF GivenBy
<1>7. Is(Sequential)
  <2>1. Sequential = CHOOSE g : Is(g)
    BY DEF Sequential, Ideal!Sequential
  <2> HIDE DEF Is
  <2>2. QED
    BY <1>6, <2>1
<1> HIDE DEF Commit
<1>8. Sequential[0] = InitState
  BY <1>1, <1>7
<1>9. ASSUME NEW n \in 1 .. N
      PROVE  Sequential[n] = Commit(n, Sequential[n - 1])
  <2>1. n \in 0 .. N /\ n # 0
    BY <1>1
  <2>2. QED
    BY <1>7, <2>1
<1>10. \A n \in 0 .. N : Sequential[n] \in States
  <2> DEFINE S == {n \in Nat : Sequential[n] \in States}
  <2>1. 0 \in S
    BY <1>1, <1>8
  <2>2. \A n \in 1 .. N : n - 1 \in S => n \in S
    BY <1>2, <1>9
  <2> HIDE DEF S
  <2>3. \A n \in 0 .. N : n \in S
    BY <1>1, <2>1, <2>2, Induction
  <2>4. QED
    BY <2>3 DEF S
<1>11. Sequential \in [0 .. N -> States]
  BY <1>7, <1>10
<1>12. ASSUME NEW i \in Tasks
       PROVE  Sequential[i + 1] = Ideal!CommitTransaction(txs[i], Sequential[i])
  <2>1. i + 1 \in 1 .. N /\ (i + 1) - 1 = i
    BY <1>1
  <2>2. Sequential[i + 1] = Commit(i + 1, Sequential[i])
    BY <1>9, <2>1
  <2>3. QED
    BY <2>1, <2>2 DEF Commit
<1>13. QED
  BY <1>8, <1>11, <1>12

(* Tasks that each did their step leave the states of sequential           *)
(* execution.                                                              *)
LEMMA StepsAreSequential ==
  ASSUME TypeOK, NEW n \in 0 .. N, \A i \in Tasks : i < n => CommittedStep(i)
  PROVE  \A m \in 0 .. n : Replayed[m] = Sequential[m]
<1> DEFINE S == {m \in Nat : Replayed[m] = Sequential[m]}
<1>1. n \in Nat /\ N \in Nat
  BY BlockAssumption
<1>2. Replayed[0] = Sequential[0]
  <2>1. multiVersionMap \in [Keys -> Tree]
    BY DEF TypeOK, StoreTypeOK
  <2>2. Replay(multiVersionMap, InitState)[0] = InitState
    BY <2>1, InitStateAssumption, ReplayEquation
  <2>3. QED
    BY <2>2, SequentialEquation DEF Replayed
<1>3. ASSUME NEW m \in 1 .. n, Replayed[m - 1] = Sequential[m - 1]
      PROVE  Replayed[m] = Sequential[m]
  <2>1. m - 1 \in Tasks /\ m - 1 < n /\ (m - 1) + 1 = m
    BY <1>1
  <2>2. Replayed[m] = Ideal!CommitTransaction(txs[m - 1], Replayed[m - 1])
    BY <2>1 DEF CommittedStep
  <2>3. Sequential[m] = Ideal!CommitTransaction(txs[m - 1], Sequential[m - 1])
    BY <2>1, SequentialEquation
  <2>4. QED
    BY <1>3, <2>2, <2>3
<1>4. \A m \in 1 .. n : m - 1 \in S => m \in S
  BY <1>1, <1>3
<1>5. 0 \in S
  BY <1>2
<1> HIDE DEF S
<1>6. \A m \in 0 .. n : m \in S
  BY <1>1, <1>4, <1>5, Induction
<1>7. QED
  BY <1>6 DEF S

-----------------------------------------------------------------------------
(* What a validated task has done.                                         *)

(* A key that no task below holds a version of has never been written      *)
(* back.                                                                   *)
LEMMA ParentUntouched ==
  ASSUME TypeOK, ParentOK, NEW i \in Tasks, lastStoreIdx <= i, NEW k \in Keys,
         LatestBefore(i, k) = {}
  PROVE  parentStore[k] = InitState[k]
<1>1. StoreTypeOK /\ lastStoreIdx \in Tasks
  BY DEF TypeOK
<1>2. \A j \in Tasks : j < i => multiVersionMap[k][j].kind = "none"
  BY <1>1, LatestBeforeFinds
<1>3. ASSUME NEW j \in Tasks, j < lastStoreIdx, multiVersionMap[k][j].kind = "value"
      PROVE  FALSE
  <2>1. j < i
    BY <1>1, <1>3
  <2>2. QED
    BY <1>2, <1>3, <2>1
<1>4. QED
  BY <1>3 DEF ParentOK

(* A run all of whose reads are valid is what the transaction does on the  *)
(* state the tasks before it leave.  This is where the read set has to be  *)
(* complete.                                                               *)
LEMMA ValidRunIsStep ==
  ASSUME TypeOK, ParentOK, NEW i \in Tasks, lastStoreIdx <= i,
         NEW s \in States, Ran(i, s),
         \A k \in Keys : ReadValid(i, k, parentStore)
  PROVE  CommittedStep(i)
<1> DEFINE out == Deliver(txs[i], s)
           r == Replayed
<1>1. StoreTypeOK /\ multiVersionMap \in [Keys -> Tree] /\ N \in Nat
  BY BlockAssumption DEF TypeOK, StoreTypeOK
<1>2. i \in 0 .. N /\ i + 1 \in 1 .. N /\ (i + 1) - 1 = i
  BY <1>1
<1>3. /\ r[i] \in States
      /\ r[i + 1] \in States
      /\ \A k \in Keys : r[i + 1][k] = IF multiVersionMap[k][i].kind = "value"
                                       THEN multiVersionMap[k][i].value ELSE r[i][k]
  <2>1. /\ Replay(multiVersionMap, InitState) \in [0 .. N -> States]
        /\ \A n \in 1 .. N, k \in Keys :
             Replay(multiVersionMap, InitState)[n][k] =
               IF multiVersionMap[k][n - 1].kind = "value" THEN multiVersionMap[k][n - 1].value
               ELSE Replay(multiVersionMap, InitState)[n - 1][k]
    BY <1>1, InitStateAssumption, ReplayEquation
  <2> HIDE DEF r
  <2>2. /\ r \in [0 .. N -> States]
        /\ \A n \in 1 .. N, k \in Keys :
             r[n][k] = IF multiVersionMap[k][n - 1].kind = "value"
                       THEN multiVersionMap[k][n - 1].value ELSE r[n - 1][k]
    BY <2>1 DEF r, Replayed
  <2>3. QED
    BY <1>2, <2>2
<1>4. /\ out.result # "err"
      /\ out.reads \subseteq Keys
      /\ txReadSets[i] = ReadsOf(out.reads, s)
      /\ \A k \in Keys : HoldsWrite(multiVersionMap[k][i], out.writes, k)
  BY OutcomeTypes DEF Ran
<1>5. ASSUME NEW k \in out.reads
      PROVE  s[k] = r[i][k]
  <2>1. k \in Keys /\ txReadSets[i][k] = {s[k]}
    BY <1>4 DEF ReadsOf
  <2>2. LatestBefore(i, k) = {} => parentStore[k] = InitState[k]
    BY <2>1, ParentUntouched
  <2>3. txReadSets[i][k] = {Replay(multiVersionMap, InitState)[i][k]}
    BY <1>1, <2>1, <2>2, InitStateAssumption, ReadValidReplays
  <2>4. QED
    BY <2>1, <2>3 DEF Replayed
<1>6. Deliver(txs[i], r[i]) = out
  <2>1. txs[i] \in Programs
    BY BlocksAssumption DEF TypeOK
  <2> HIDE DEF r
  <2>2. QED
    BY <1>3, <1>4, <1>5, <2>1, ReadsAssumption
<1>7. Ideal!CommitTransaction(txs[i], r[i]) =
        [k \in Keys |-> IF k \in DOMAIN out.writes THEN out.writes[k] ELSE r[i][k]]
  <2> HIDE DEF r
  <2>1. Ideal!CommitTransaction(txs[i], r[i]) =
          IF Deliver(txs[i], r[i]).result = "err" THEN r[i]
          ELSE [k \in Keys |-> IF k \in DOMAIN Deliver(txs[i], r[i]).writes
                               THEN Deliver(txs[i], r[i]).writes[k] ELSE r[i][k]]
    BY DEF Ideal!CommitTransaction
  <2> HIDE DEF out
  <2>2. QED
    BY <1>4, <1>6, <2>1
<1>8. ASSUME NEW k \in Keys
      PROVE  r[i + 1][k] = IF k \in DOMAIN out.writes THEN out.writes[k] ELSE r[i][k]
  <2> HIDE DEF r, out
  <2>1. QED
    BY <1>3, <1>4 DEF HoldsWrite
<1>9. r[i + 1] = Ideal!CommitTransaction(txs[i], r[i])
  <2> HIDE DEF r, out
  <2>1. r[i + 1] = [k \in Keys |-> r[i + 1][k]]
    BY <1>3 DEF States
  <2>2. QED
    BY <1>7, <1>8, <2>1
<1>10. QED
  BY <1>9 DEF CommittedStep

(* What is still checked when a round ends: the tasks from lastStoreIdx up *)
(* to the first that is not validated did their step, and hold no          *)
(* estimate.                                                               *)
LEMMA ValidatedPrefix ==
  ASSUME RoundsInvariant, SequentialInv, phase = "loop",
         NEW n \in 0 .. N, \A i \in Tasks : i < n => status[i] = "validated"
  PROVE  \A i \in Tasks : i < n =>
           CommittedStep(i) /\ \A k \in Keys : ~IsEstimate(multiVersionMap[k][i])
<1> SUFFICES ASSUME NEW i \in Tasks, i < n
             PROVE  CommittedStep(i) /\ \A k \in Keys : ~IsEstimate(multiVersionMap[k][i])
  OBVIOUS
<1>1. /\ TypeOK /\ ParentOK /\ CheckedOK(i) /\ lastStoreIdx \in Tasks /\ N \in Nat
      /\ \A j \in Tasks : pc[j] = "idle" /\ TaskOK(j)
  BY BlockAssumption DEF RoundsInvariant, TaskInv, TypeOK, PhaseOK, AllIdle, RoundsInv,
     SequentialInv, InRounds
<1>2. CASE i < lastStoreIdx
  BY <1>2 DEF SequentialInv
<1>3. CASE i >= lastStoreIdx
  <2>1. \A j \in Tasks : j <= i => Sound(j)
    <3>1. ASSUME NEW j \in Tasks, j <= i
          PROVE  Sound(j)
      <4>1. j < n
        BY <1>1, <3>1
      <4>2. QED
        BY <1>1, <4>1 DEF Sound
    <3>2. QED
      BY <3>1
  <2>2. \A k \in Keys : ReadValid(i, k, parentStore)
    BY <1>1, <1>3, <2>1 DEF CheckedOK
  <2>3. PICK s \in States : Ran(i, s)
    BY <1>1 DEF TaskOK, ResultOK
  <2>4. CommittedStep(i)
    BY <1>1, <1>3, <2>2, <2>3, ValidRunIsStep
  <2>5. \A k \in Keys : ~IsEstimate(multiVersionMap[k][i])
    BY <2>3 DEF Ran, HoldsWrite, IsEstimate
  <2>6. QED
    BY <2>4, <2>5
<1>4. QED
  BY <1>1, <1>2, <1>3

-----------------------------------------------------------------------------
(* What steps keep.                                                        *)

(* The validity of a read depends on the versions below the task.          *)
LEMMA ReadValidKept ==
  ASSUME NEW i \in Tasks, NEW k \in Keys, UNCHANGED parentStore,
         txReadSets'[i] = txReadSets[i],
         \A j \in Tasks : j < i => multiVersionMap'[k][j] = multiVersionMap[k][j]
  PROVE  ReadValid(i, k, parentStore)' <=> ReadValid(i, k, parentStore)
<1>1. \A j \in Tasks : j <= i - 1 => multiVersionMap'[k][j] = multiVersionMap[k][j]
  OBVIOUS
<1>2. {j \in Held(multiVersionMap'[k]) : j <= i - 1} = {j \in Held(multiVersionMap[k]) : j <= i - 1}
  BY <1>1 DEF Held
<1>3. LatestBefore(i, k)' = LatestBefore(i, k)
  BY <1>2 DEF LatestBefore, GetLatestBeforeIndex
<1>4. \A j \in LatestBefore(i, k) : multiVersionMap'[k][j] = multiVersionMap[k][j]
  BY <1>1 DEF LatestBefore, GetLatestBeforeIndex, Latest, Held
<1>5. QED
  BY <1>3, <1>4 DEF ReadValid, VersionGives

(* The steps of the tasks below n stay while their versions do.            *)
LEMMA StepsKept ==
  ASSUME TypeOK, TypeOK', UNCHANGED txs, NEW n \in 0 .. N,
         \A k \in Keys, j \in Tasks : j < n => multiVersionMap'[k][j] = multiVersionMap[k][j]
  PROVE  /\ \A m \in 0 .. n : Replayed'[m] = Replayed[m]
         /\ \A i \in Tasks : i < n /\ CommittedStep(i) => CommittedStep(i)'
<1>1. multiVersionMap \in [Keys -> Tree] /\ multiVersionMap' \in [Keys -> Tree] /\ N \in Nat
  BY BlockAssumption DEF TypeOK, StoreTypeOK
<1>2. ASSUME NEW map \in [Keys -> Tree], NEW new \in [Keys -> Tree],
             \A k \in Keys, j \in Tasks : j < n => new[k][j] = map[k][j]
      PROVE  \A m \in 0 .. n : Replay(new, InitState)[m] = Replay(map, InitState)[m]
  BY <1>2, InitStateAssumption, ReplayPrefix
<1>3. \A m \in 0 .. n : Replayed'[m] = Replayed[m]
  BY <1>1, <1>2 DEF Replayed
<1>4. ASSUME NEW i \in Tasks, i < n, CommittedStep(i)
      PROVE  CommittedStep(i)'
  <2>1. i \in 0 .. n /\ i + 1 \in 0 .. n
    BY <1>1, <1>4
  <2>2. Replayed'[i] = Replayed[i] /\ Replayed'[i + 1] = Replayed[i + 1]
    BY <1>3, <2>1
  <2>3. QED
    BY <1>4, <2>2 DEF CommittedStep, Ideal!CommitTransaction
<1>5. QED
  BY <1>3, <1>4

(* No step of a validating worker makes a task sound again, and one that   *)
(* leaves it sound changes nothing that its reads are checked against.     *)
LEMMA SoundSteps ==
  ASSUME TypeOK, NEW i \in Tasks, TaskOK(i), phase = "validate", Validate(i), Sound(i)'
  PROVE  /\ Sound(i)
         /\ UNCHANGED <<multiVersionMap, txReadSets, parentStore>>
         /\ Branch(i) \/ Accept(i) \/ \E k \in Keys : CheckRead(i, k)
<1> USE DEF TypeOK, taskVars, storeVars, Sound
<1>1. CASE Branch(i) \/ Accept(i) \/ \E k \in Keys : CheckRead(i, k)
  BY <1>1 DEF Branch, Accept, CheckRead, TaskOK, StatusOK
<1>2. CASE \/ Reject(i) \/ Depend(i) \/ DependenciesMet(i) \/ Wait(i) \/ Reset(i)
           \/ \E k \in Keys : Invalidate(i, k)
           \/ \E j \in Tasks : DependencyCheck(i, j)
  <2>1. \/ pc'[i] \in {"invalidate", "depend", "wait", "reset", "max"}
        \/ status'[i] = "waiting"
    BY <1>2 DEF Reject, Depend, DependenciesMet, Wait, Reset, Invalidate, DependencyCheck
  <2>2. QED
    BY <2>1
<1>3. CASE LoadMax(i) \/ StoreMax(i)
  <2>1. status[i] = "pending" /\ UNCHANGED status
    BY <1>3 DEF LoadMax, StoreMax, TaskOK, StatusOK
  <2>2. QED
    BY <2>1
<1>4. QED
  BY <1>1, <1>2, <1>3 DEF Validate

(* A checked read stays valid for as long as every task up to the reader   *)
(* is sound.                                                               *)
LEMMA ValidateChecked ==
  ASSUME RoundsInvariant, NEW i \in Tasks, Validate(i), phase = "validate",
         \A j \in Tasks : CheckedOK(j), NEW n \in Tasks
  PROVE  CheckedOK(n)'
<1>1. /\ TypeOK /\ TaskOK(i)
      /\ UNCHANGED <<lastStoreIdx, parentStore>>
      /\ \A j \in Tasks : j # i => Same(j)
  BY ValidateFrame DEF RoundsInvariant, TaskInv, RoundsInv, InRounds, WorkerStep
<1>2. SUFFICES ASSUME n >= lastStoreIdx, \A j \in Tasks : j <= n => Sound(j)'
               PROVE  /\ pc'[n] = "check" /\ valid'[n] =>
                           \A k \in Keys \ todo'[n] : ReadValid(n, k, parentStore)'
                      /\ pc'[n] = "idle" => \A k \in Keys : ReadValid(n, k, parentStore)'
  BY <1>1 DEF CheckedOK
<1>3. \A j \in Tasks : j <= n => Sound(j)
  BY <1>1, <1>2, SoundSteps DEF Same, Sound
<1>4. ASSUME i <= n
      PROVE  /\ UNCHANGED <<multiVersionMap, txReadSets>>
             /\ Branch(i) \/ Accept(i) \/ \E k \in Keys : CheckRead(i, k)
  BY <1>1, <1>2, <1>4, SoundSteps
<1>5. /\ txReadSets'[n] = txReadSets[n]
      /\ \A k \in Keys, j \in Tasks : j < n => multiVersionMap'[k][j] = multiVersionMap[k][j]
  <2>1. CASE i <= n
    BY <1>4, <2>1
  <2>2. CASE ~(i <= n)
    <3>1. n # i /\ \A j \in Tasks : j < n => j # i
      BY <2>2
    <3>2. QED
      BY <1>1, <3>1 DEF Same
  <2>3. QED
    BY <2>1, <2>2
<1>6. \A k \in Keys : ReadValid(n, k, parentStore)' <=> ReadValid(n, k, parentStore)
  BY <1>1, <1>5, ReadValidKept
<1>7. /\ pc[n] = "check" /\ valid[n] =>
           \A k \in Keys \ todo[n] : ReadValid(n, k, parentStore)
      /\ pc[n] = "idle" => \A k \in Keys : ReadValid(n, k, parentStore)
  BY <1>2, <1>3 DEF CheckedOK
<1>8. CASE n # i
  BY <1>1, <1>6, <1>7, <1>8 DEF Same
<1>9. CASE n = i
  <2>1. CASE Branch(i)
    <3>1. /\ pc'[i] # "idle"
          /\ pc'[i] = "check" => todo'[i] = KeysRead(i)
      BY <1>1, <2>1 DEF Branch, TypeOK
    <3>2. \A k \in Keys \ KeysRead(i) : ReadValid(i, k, parentStore)
      BY DEF KeysRead, ReadValid
    <3>3. QED
      BY <1>6, <1>9, <3>1, <3>2
  <2>2. ASSUME NEW k \in Keys, CheckRead(i, k)
        PROVE  pc'[i] = "check" /\ valid'[i] =>
                 \A l \in Keys \ todo'[i] : ReadValid(i, l, parentStore)
    <3>1. /\ pc[i] = "check" /\ todo'[i] = todo[i] \ {k}
          /\ valid'[i] = (valid[i] /\ ReadValid(i, k, parentStore))
      BY <1>1, <2>2 DEF CheckRead, TypeOK
    <3>2. QED
      BY <1>7, <1>9, <3>1
  <2>3. CASE \E k \in Keys : CheckRead(i, k)
    <3>1. pc'[i] = "check"
      BY <2>3 DEF CheckRead
    <3>2. QED
      BY <1>6, <1>9, <2>2, <2>3, <3>1
  <2>4. CASE Accept(i)
    <3>1. /\ pc[i] = "check" /\ todo[i] = {} /\ valid[i]
          /\ pc'[i] = "idle"
      BY <1>1, <2>4 DEF Accept, TypeOK
    <3>2. QED
      BY <1>6, <1>7, <1>9, <3>1
  <2>5. QED
    BY <1>4, <1>9, <2>1, <2>3, <2>4
<1>10. QED
  BY <1>8, <1>9

(* Sequential execution of a block depends on the block only.              *)
LEMMA SequentialKept ==
  ASSUME UNCHANGED txs
  PROVE  Sequential' = Sequential
BY DEF Sequential, Ideal!Sequential, Ideal!CommitTransaction

-----------------------------------------------------------------------------
(* The invariant.                                                          *)

\* What SequentialInv says of the tasks below n.
CommittedBelow(n) ==
  \A i \in Tasks : i < n =>
    CommittedStep(i) /\ \A k \in Keys : ~IsEstimate(multiVersionMap[k][i])

(* It stays while the versions of those tasks do.                          *)
LEMMA CommittedBelowKept ==
  ASSUME TypeOK, TypeOK', UNCHANGED txs, NEW n \in 0 .. N, CommittedBelow(n),
         \A k \in Keys, j \in Tasks : j < n => multiVersionMap'[k][j] = multiVersionMap[k][j]
  PROVE  CommittedBelow(n)'
BY StepsKept DEF CommittedBelow

(* The words of the parent state stay accounted for.                       *)
LEMMA ParentKept ==
  ASSUME ParentOK, UNCHANGED <<parentStore, lastStoreIdx>>,
         \A k \in Keys, j \in Tasks : j < lastStoreIdx =>
           multiVersionMap'[k][j] = multiVersionMap[k][j]
  PROVE  ParentOK'
BY DEF ParentOK

(* Every behaviour starts with nothing written back.                       *)
LEMMA InitSequential == Init => SequentialInv
<1> SUFFICES ASSUME Init PROVE SequentialInv
  OBVIOUS
<1>1. TypeOK
  BY InitTypeOK
<1>2. ASSUME NEW i \in Tasks
      PROVE  CheckedOK(i)
  BY DEF Init, CheckedOK, Sound
<1>3. ParentOK
  BY DEF Init, StoreInit, ParentOK
<1>4. QED
  BY <1>2, <1>3 DEF Init, SequentialInv

(* StartRound: the tasks it commits did their step, and what it writes     *)
(* back are their values.                                                  *)
LEMMA StartRoundSequential ==
  ASSUME RoundsInvariant, SequentialInv, TypeOK', NEW start \in Tasks, StartRound(start)
  PROVE  SequentialInv' /\ lastStoreIdx' = start /\ lastStoreIdx <= start
<1>1. TypeOK /\ StoreTypeOK /\ CommittedOK /\ N \in Nat /\ lastStoreIdx \in Tasks
  BY BlockAssumption DEF RoundsInvariant, TaskInv, RoundsInv, TypeOK
<1>2. /\ phase = "loop" /\ phase' = "execute" /\ FirstNonValidated(start)
      /\ UNCHANGED <<txs, multiVersionMap, status, synchronous>>
  BY DEF StartRound, WriteLatestToStoreUntil, taskVars, storeVars
<1>3. lastStoreIdx <= start
  BY <1>1, <1>2, StartNotCommitted
<1>4. lastStoreIdx' = start
  BY <1>1, <1>3 DEF StartRound
<1>5. start \in 0 .. N /\ \A i \in Tasks : i < start => status[i] = "validated"
  BY <1>1, <1>2 DEF FirstNonValidated
<1>6. CommittedBelow(start)
  BY <1>2, <1>5, ValidatedPrefix DEF CommittedBelow
<1>7. CommittedBelow(start)'
  BY <1>1, <1>2, <1>5, <1>6, CommittedBelowKept
<1>8. ParentOK'
  <2>1. ParentOK
    BY <1>2 DEF SequentialInv, InRounds
  <2>2. CASE UNCHANGED parentStore
    <3>1. \A j \in Tasks : j < lastStoreIdx => j < start
      BY <1>1, <1>3
    <3>2. QED
      BY <1>2, <1>4, <2>1, <2>2, <3>1 DEF ParentOK
  <2>3. CASE parentStore' = LatestToStoreUntil(lastStoreIdx, start)
    <3>1. ASSUME NEW k \in Keys
          PROVE  \/ parentStore'[k] = parentStore[k]
                 \/ \E j \in Tasks : /\ j < start
                                     /\ multiVersionMap[k][j].kind = "value"
                                     /\ multiVersionMap[k][j].value = parentStore'[k]
      <4> DEFINE picked == {j \in GetLatestNonEstimate(multiVersionMap[k]) :
                              lastStoreIdx <= j /\ j < start}
      <4>1. parentStore'[k] = IF picked = {} THEN parentStore[k]
                              ELSE multiVersionMap[k][CHOOSE j \in picked : TRUE].value
        BY <2>3 DEF LatestToStoreUntil, WrittenBack
      <4>2. \A j \in picked : /\ j \in Tasks /\ j < start
                              /\ multiVersionMap[k][j].kind = "value"
        BY <1>1 DEF GetLatestNonEstimate, Latest, Held, IsEstimate, StoreTypeOK, Tree, Version
      <4> HIDE DEF picked
      <4>3. CASE picked = {}
        BY <4>1, <4>3
      <4>4. CASE picked # {}
        <5>1. PICK j \in picked : j = CHOOSE l \in picked : TRUE
          BY <4>4
        <5>2. QED
          BY <4>1, <4>2, <4>4, <5>1
      <4>5. QED
        BY <4>3, <4>4
    <3>2. \A j \in Tasks : j < lastStoreIdx => j < start
      BY <1>1, <1>3
    <3>3. QED
      BY <1>2, <1>4, <2>1, <3>1, <3>2 DEF ParentOK
  <2>4. QED
    BY <2>2, <2>3 DEF StartRound, WriteLatestToStoreUntil, storeVars
<1>9. QED
  BY <1>2, <1>3, <1>4, <1>7, <1>8
  DEF SequentialInv, CommittedBelow, FirstNonValidated

(* Return from the rounds: every task did its step, so what is written     *)
(* back is the state of sequential execution.                              *)
LEMMA ReturnSequential ==
  ASSUME RoundsInvariant, SequentialInv, TypeOK', Return
  PROVE  SequentialInv'
<1>1. TypeOK /\ StoreTypeOK /\ N \in Nat /\ N \in 0 .. N /\ lastStoreIdx \in 0 .. N
  <2>1. TypeOK /\ StoreTypeOK /\ lastStoreIdx \in Tasks
    BY DEF RoundsInvariant, TaskInv, TypeOK
  <2>2. QED
    BY <2>1, BlockAssumption
<1>2. /\ phase' = "done" /\ parentStore' = LatestToStore
      /\ UNCHANGED <<txs, multiVersionMap, lastStoreIdx, synchronous, response>>
  BY DEF Return, WriteLatestToStore, taskVars
<1>3. CommittedBelow(lastStoreIdx)'
  BY <1>1, <1>2, CommittedBelowKept DEF SequentialInv, CommittedBelow
<1>4. CASE phase = "sync"
  BY <1>2, <1>3, <1>4 DEF SequentialInv, CommittedBelow, InRounds
<1>5. CASE phase = "loop" /\ AllValidated
  <2>1. \A i \in Tasks : i < N => CommittedStep(i)
    BY <1>1, <1>5, ValidatedPrefix DEF AllValidated
  <2>2. Replayed[N] = Sequential[N]
    BY <1>1, <2>1, StepsAreSequential
  <2>3. LatestToStore = Replay(multiVersionMap, InitState)[N]
    <3>1. ASSUME NEW k \in Keys, \A j \in Tasks : multiVersionMap[k][j].kind # "value"
          PROVE  parentStore[k] = InitState[k]
      BY <1>5, <3>1 DEF SequentialInv, InRounds, ParentOK
    <3>2. QED
      BY <1>1, <3>1, InitStateAssumption, LatestToStoreReplays
  <2>4. \A i \in Tasks : response[i]
    BY <1>5 DEF AllValidated, RoundsInvariant, RoundsInv, InRounds, TaskOK, StatusOK
  <2>5. parentStore' = Sequential'[N] /\ \A i \in Tasks : response'[i]
    BY <1>2, <2>2, <2>3, <2>4, SequentialKept DEF Replayed
  <2>6. QED
    BY <1>2, <1>3, <2>5 DEF SequentialInv, CommittedBelow, SequentialResult, InRounds
<1>6. QED
  BY <1>4, <1>5 DEF Return

(* The other steps of the main goroutine, the workers and processAllSync.  *)
LEMMA StepSequential ==
  ASSUME RoundsInvariant, SequentialInv, TypeOK',
         \/ \E i \in Tasks : \/ StartValidation(i) \/ GoSynchronous(i)
                             \/ Execute(i) \/ Validate(i) \/ ProcessAllSync(i)
         \/ EndRound
  PROVE  SequentialInv'
<1>1. /\ TypeOK /\ PhaseOK /\ CommittedOK /\ N \in Nat
      /\ lastStoreIdx \in Tasks /\ lastStoreIdx \in 0 .. N
  <2>1. TypeOK /\ PhaseOK /\ CommittedOK /\ lastStoreIdx \in Tasks
    BY DEF RoundsInvariant, TaskInv, RoundsInv, TypeOK
  <2>2. QED
    BY <2>1, BlockAssumption
<1>2. \A k \in Keys, j \in Tasks : j < lastStoreIdx =>
        multiVersionMap'[k][j] = multiVersionMap[k][j]
  BY <1>1, CommittedUntouched DEF Next
<1>3. UNCHANGED <<txs, lastStoreIdx>>
  BY <1>1, ExecuteFrame, ValidateFrame, SyncFrame
  DEF StartValidation, HandOut, GoSynchronous, EndRound, WorkerStep
<1>4. CommittedBelow(lastStoreIdx)'
  BY <1>1, <1>2, <1>3, CommittedBelowKept DEF SequentialInv, CommittedBelow
<1>5. UNCHANGED parentStore /\ InRounds => ParentOK'
  BY <1>2, <1>3, ParentKept DEF SequentialInv
<1> DEFINE Rest == /\ phase' \in {"loop", "validate"} => \A i \in Tasks : CheckedOK(i)'
                   /\ phase' = "execute" => status'[lastStoreIdx] # "validated"
                   /\ phase' = "sync" => synchronous'
                   /\ InRounds' => ParentOK'
                   /\ phase' # "done"
<1>6. Rest => SequentialInv'
  BY <1>3, <1>4 DEF SequentialInv, CommittedBelow
<1>7. ASSUME NEW i \in Tasks, StartValidation(i)
      PROVE  Rest
  <2>1. /\ phase = "execute" /\ phase' = "validate" /\ FirstNonValidated(i)
        /\ pc' = [j \in Tasks |-> IF j >= i THEN "validate" ELSE "idle"]
        /\ UNCHANGED parentStore
    BY <1>7 DEF StartValidation, HandOut, storeVars
  <2>2. lastStoreIdx >= i
    BY <1>1, <2>1 DEF SequentialInv, FirstNonValidated
  <2>3. ASSUME NEW j \in Tasks, j >= lastStoreIdx
        PROVE  pc'[j] = "validate"
    BY <1>1, <2>1, <2>2, <2>3
  <2>4. \A j \in Tasks : CheckedOK(j)'
    BY <1>3, <2>3 DEF CheckedOK
  <2>5. QED
    BY <1>5, <2>1, <2>4 DEF InRounds
<1>8. ASSUME NEW i \in Tasks, GoSynchronous(i)
      PROVE  Rest
  BY <1>8 DEF GoSynchronous, InRounds
<1>9. ASSUME NEW i \in Tasks, Execute(i)
      PROVE  Rest
  <2>1. /\ WorkerStep /\ pc[i] \in Executing
        /\ \A j \in Tasks : j # i => Same(j)
    BY <1>1, <1>9, ExecuteFrame
  <2>2. phase = "execute" /\ phase' = "execute"
    BY <1>1, <2>1 DEF PhaseOK, AllIdle, Executing, Validating, TypeOK, Phases, WorkerStep
  <2>3. status'[i] \in {status[i], "aborted", "executed"}
    BY <1>1, <1>9 DEF Execute, Begin, SelfDestruct, Aborted, Executed, Finish, Get, Publish,
       taskVars, TypeOK
  <2>4. status'[lastStoreIdx] # "validated"
    BY <1>1, <2>1, <2>2, <2>3 DEF SequentialInv, Same
  <2>5. QED
    BY <1>5, <2>1, <2>2, <2>4 DEF WorkerStep, InRounds
<1>10. ASSUME NEW i \in Tasks, Validate(i)
       PROVE  Rest
  <2>1. WorkerStep /\ pc[i] \in Validating
    BY <1>1, <1>10, ValidateFrame
  <2>2. phase = "validate" /\ phase' = "validate"
    BY <1>1, <2>1 DEF PhaseOK, AllIdle, Executing, Validating, TypeOK, Phases, WorkerStep
  <2>3. \A j \in Tasks : CheckedOK(j)'
    BY <1>10, <2>2, ValidateChecked DEF SequentialInv
  <2>4. QED
    BY <1>5, <2>1, <2>2, <2>3 DEF WorkerStep, InRounds
<1>11. ASSUME NEW i \in Tasks, ProcessAllSync(i)
       PROVE  Rest
  <2>1. phase = "sync" /\ UNCHANGED <<phase, synchronous>>
    BY <1>1, <1>11, SyncFrame
  <2>2. QED
    BY <2>1 DEF SequentialInv, InRounds
<1>12. ASSUME EndRound
       PROVE  Rest
  <2>1. /\ phase = "validate" /\ phase' = "loop"
        /\ UNCHANGED <<multiVersionMap, txReadSets, parentStore, status, pc, valid, todo>>
    BY <1>12 DEF EndRound, storeVars, taskVars, checkVars
  <2>2. \A j \in Tasks, k \in Keys :
          ReadValid(j, k, parentStore)' <=> ReadValid(j, k, parentStore)
    BY <2>1, ReadValidKept
  <2>3. \A j \in Tasks : CheckedOK(j)'
    BY <1>3, <2>1, <2>2 DEF SequentialInv, CheckedOK, Sound
  <2>4. QED
    BY <1>5, <2>1, <2>3 DEF InRounds
<1>13. QED
  <2> HIDE DEF Rest
  <2>1. Rest
    BY <1>7, <1>8, <1>9, <1>10, <1>11, <1>12
  <2>2. QED
    BY <1>6, <2>1

(* The invariant is inductive.                                             *)
LEMMA SequentialInductive ==
  /\ Init => RoundsInvariant /\ SequentialInv
  /\ RoundsInvariant /\ SequentialInv /\ [Next]_vars => (RoundsInvariant /\ SequentialInv)'
<1>1. Init => RoundsInvariant /\ SequentialInv
  BY RoundsInductive, InitSequential
<1>2. ASSUME RoundsInvariant, SequentialInv, [Next]_vars
      PROVE  (RoundsInvariant /\ SequentialInv)'
  <2>1. RoundsInvariant'
    BY <1>2, RoundsInductive
  <2>2. TypeOK /\ TypeOK'
    BY <1>2, <2>1 DEF RoundsInvariant, TaskInv
  <2>3. CASE UNCHANGED vars
    <3>1. /\ UNCHANGED <<multiVersionMap, txReadSets, parentStore, status, pc, valid, todo>>
          /\ UNCHANGED <<txs, phase, lastStoreIdx, synchronous, response>>
      BY <2>3 DEF vars, storeVars, mainVars, taskVars, checkVars
    <3>2. \A j \in Tasks, k \in Keys :
            ReadValid(j, k, parentStore)' <=> ReadValid(j, k, parentStore)
      BY <3>1, ReadValidKept
    <3>3. phase \in {"loop", "validate"} => \A j \in Tasks : CheckedOK(j)'
      BY <1>2, <3>1, <3>2 DEF SequentialInv, CheckedOK, Sound
    <3>4. CommittedBelow(lastStoreIdx)'
      <4>1. lastStoreIdx \in 0 .. N
        <5>1. lastStoreIdx \in Tasks
          BY <2>2 DEF TypeOK
        <5>2. QED
          BY <5>1, BlockAssumption
      <4>2. QED
        BY <1>2, <2>2, <3>1, <4>1, CommittedBelowKept DEF SequentialInv, CommittedBelow
    <3>5. InRounds => ParentOK'
      BY <1>2, <3>1, ParentKept DEF SequentialInv
    <3>6. phase = "done" /\ ~synchronous => SequentialResult'
      BY <1>2, <3>1, SequentialKept DEF SequentialInv, SequentialResult
    <3>7. QED
      BY <1>2, <2>1, <3>1, <3>3, <3>4, <3>5, <3>6 DEF SequentialInv, CommittedBelow, InRounds
  <2>4. CASE Next
    <3>1. CASE Terminated
      BY <2>3, <3>1 DEF Terminated
    <3>2. SequentialInv' \/ Terminated
      BY <1>2, <2>2, <2>4, StartRoundSequential, ReturnSequential, StepSequential DEF Next
    <3>3. QED
      BY <2>1, <3>1, <3>2
  <2>5. QED
    BY <1>2, <2>3, <2>4
<1>3. QED
  BY <1>1, <1>2

-----------------------------------------------------------------------------
(* What the invariant gives.                                               *)

(* The tasks that have been written back did what sequential execution     *)
(* does, and hold no estimate.                                             *)
THEOREM CommittedPrefixIsSequential == Spec => []CommittedIsSequential
<1>1. RoundsInvariant /\ SequentialInv => CommittedIsSequential
  <2> SUFFICES ASSUME RoundsInvariant, SequentialInv PROVE CommittedIsSequential
    OBVIOUS
  <2>1. TypeOK /\ lastStoreIdx \in Tasks
    BY DEF RoundsInvariant, TaskInv, TypeOK
  <2>2. lastStoreIdx \in 0 .. N /\ lastStoreIdx \in 0 .. lastStoreIdx
    BY <2>1, BlockAssumption
  <2>3. Replayed[lastStoreIdx] = Sequential[lastStoreIdx]
    BY <2>1, <2>2, StepsAreSequential DEF SequentialInv
  <2>4. QED
    BY <2>3 DEF CommittedIsSequential, SequentialInv
<1>2. QED
  BY <1>1, SequentialInductive, PTL DEF Spec

(* In every round, each word an executor can read is one that sequential   *)
(* execution of a prefix of the block, already written back, leaves there. *)
THEOREM ParentWordsAreCommitted == Spec => []ParentIsCommitted
<1>1. RoundsInvariant /\ SequentialInv => ParentIsCommitted
  <2> SUFFICES ASSUME RoundsInvariant, SequentialInv, InRounds, NEW k \in Keys
               PROVE  \E n \in 0 .. lastStoreIdx : parentStore[k] = Sequential[n][k]
    BY DEF ParentIsCommitted, InRounds
  <2>1. TypeOK /\ lastStoreIdx \in Tasks /\ multiVersionMap \in [Keys -> Tree] /\ ParentOK
    BY DEF RoundsInvariant, TaskInv, TypeOK, StoreTypeOK, SequentialInv
  <2>2. lastStoreIdx \in 0 .. N /\ 0 \in 0 .. lastStoreIdx /\ N \in Nat
    BY <2>1, BlockAssumption
  <2>3. \A n \in 0 .. lastStoreIdx : Replayed[n] = Sequential[n]
    BY <2>1, <2>2, StepsAreSequential DEF SequentialInv
  <2>4. CASE parentStore[k] = InitState[k]
    <3>1. Sequential[0] = InitState
      BY <2>1, SequentialEquation
    <3>2. QED
      BY <2>2, <2>4, <3>1
  <2>5. ASSUME NEW j \in Tasks, j < lastStoreIdx, multiVersionMap[k][j].kind = "value",
               multiVersionMap[k][j].value = parentStore[k]
        PROVE  \E n \in 0 .. lastStoreIdx : parentStore[k] = Sequential[n][k]
    <3>1. j + 1 \in 1 .. N /\ (j + 1) - 1 = j /\ j + 1 \in 0 .. lastStoreIdx
      BY <2>1, <2>2, <2>5
    <3>2. Replay(multiVersionMap, InitState)[j + 1][k] =
            IF multiVersionMap[k][(j + 1) - 1].kind = "value"
            THEN multiVersionMap[k][(j + 1) - 1].value
            ELSE Replay(multiVersionMap, InitState)[(j + 1) - 1][k]
      BY <2>1, <3>1, InitStateAssumption, ReplayEquation
    <3>3. Replayed[j + 1][k] = parentStore[k]
      BY <2>5, <3>1, <3>2 DEF Replayed
    <3>4. QED
      BY <2>3, <3>1, <3>3
  <2>6. QED
    BY <2>1, <2>4, <2>5 DEF ParentOK
<1>2. QED
  BY <1>1, SequentialInductive, PTL DEF Spec

-----------------------------------------------------------------------------
(* The rounds implement the sequential block.                              *)

(* StartRound commits the tasks up to the first that is not validated.     *)
LEMMA StartRoundCommits ==
  ASSUME RoundsInvariant, SequentialInv, TypeOK', NEW start \in Tasks, StartRound(start)
  PROVE  [Ideal!Next]_(Ideal!vars)
<1>1. TypeOK /\ N \in Nat /\ lastStoreIdx \in Tasks /\ start \in 0 .. N
  <2>1. TypeOK /\ lastStoreIdx \in Tasks
    BY DEF RoundsInvariant, TaskInv, TypeOK
  <2>2. QED
    BY <2>1, BlockAssumption
<1>2. lastStoreIdx' = start /\ lastStoreIdx <= start
  BY StartRoundSequential
<1>3. /\ phase = "loop" /\ phase' = "execute" /\ UNCHANGED <<txs, multiVersionMap>>
      /\ \A i \in Tasks : i < start => status[i] = "validated"
  BY DEF StartRound, FirstNonValidated, WriteLatestToStoreUntil, storeVars
<1>4. Replayed' = Replayed
  BY <1>3 DEF Replayed
<1>5. CASE start = lastStoreIdx
  BY <1>2, <1>3, <1>4, <1>5 DEF Ideal!vars
<1>6. CASE start # lastStoreIdx
  <2>1. start > lastStoreIdx /\ start \in 1 .. N /\ start \in 0 .. start
    BY <1>1, <1>2, <1>6
  <2>2. \A i \in Tasks : i < start => CommittedStep(i)
    BY <1>1, <1>3, ValidatedPrefix
  <2>3. Replayed[start] = Sequential[start]
    BY <1>1, <2>1, <2>2, StepsAreSequential
  <2>4. Ideal!CommitUpTo(start)
    BY <1>2, <1>3, <1>4, <2>1, <2>3 DEF Ideal!CommitUpTo, Sequential
  <2>5. QED
    BY <2>1, <2>4 DEF Ideal!Next
<1>7. QED
  BY <1>5, <1>6

(* Return with the sequential result commits the tasks that are left.      *)
LEMMA ReturnCommits ==
  ASSUME RoundsInvariant, Return, parentStore' = Sequential[N]
  PROVE  [Ideal!Next]_(Ideal!vars)
<1>1. N \in Nat \ {0} /\ lastStoreIdx \in Tasks
  BY BlockAssumption DEF RoundsInvariant, TaskInv, TypeOK
<1>2. phase # "done" /\ phase' = "done" /\ UNCHANGED txs
  BY DEF Return
<1>3. N \in 1 .. N /\ N > lastStoreIdx
  BY <1>1
<1>4. Ideal!CommitUpTo(N)
  BY <1>2, <1>3 DEF Ideal!CommitUpTo, Sequential
<1>5. QED
  BY <1>3, <1>4 DEF Ideal!Next

(* The other steps commit nothing.                                         *)
LEMMA StepCommitsNothing ==
  ASSUME RoundsInvariant, TypeOK',
         \/ \E i \in Tasks : \/ StartValidation(i) \/ GoSynchronous(i)
                             \/ Execute(i) \/ Validate(i) \/ ProcessAllSync(i)
         \/ EndRound
  PROVE  UNCHANGED Ideal!vars
<1>1. TypeOK /\ PhaseOK /\ CommittedOK /\ lastStoreIdx \in 0 .. N /\ lastStoreIdx \in 0 .. lastStoreIdx
  <2>1. TypeOK /\ PhaseOK /\ CommittedOK /\ lastStoreIdx \in Tasks
    BY DEF RoundsInvariant, TaskInv, RoundsInv, TypeOK
  <2>2. QED
    BY <2>1, BlockAssumption
<1>2. \A k \in Keys, j \in Tasks : j < lastStoreIdx =>
        multiVersionMap'[k][j] = multiVersionMap[k][j]
  BY <1>1, CommittedUntouched DEF Next
<1>3. UNCHANGED <<txs, lastStoreIdx>> /\ phase # "done" /\ phase' # "done"
  <2>1. ASSUME NEW i \in Tasks, Execute(i) \/ Validate(i)
        PROVE  UNCHANGED <<txs, lastStoreIdx, phase>> /\ phase # "done"
    <3>1. WorkerStep /\ pc[i] # "idle"
      BY <1>1, <2>1, ExecuteFrame, ValidateFrame DEF Executing, Validating
    <3>2. QED
      BY <1>1, <3>1 DEF WorkerStep, PhaseOK, AllIdle
  <2>2. ASSUME NEW i \in Tasks, ProcessAllSync(i)
        PROVE  UNCHANGED <<txs, lastStoreIdx, phase>> /\ phase = "sync"
    BY <1>1, <2>2, SyncFrame
  <2>3. QED
    BY <2>1, <2>2 DEF StartValidation, HandOut, GoSynchronous, EndRound
<1>4. Replayed'[lastStoreIdx] = Replayed[lastStoreIdx]
  BY <1>1, <1>2, <1>3, StepsKept
<1>5. QED
  BY <1>3, <1>4 DEF Ideal!vars

=============================================================================
