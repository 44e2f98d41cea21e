-------------------------- MODULE StoreClientProofs --------------------------
(***************************************************************************)
(* Whatever calls a client makes, the store's key index is exact, a valid  *)
(* read set is a re-read, and the write-back is the replay of the block.   *)
(***************************************************************************)
EXTENDS StoreClient, MultiVersionStoreLemmas

IndexInv == StoreTypeOK /\ WritesetIndexed

(* A new store is typed and has an exact index.                            *)
LEMMA StoreInitIndexed == Init => IndexInv
<1> SUFFICES ASSUME Init PROVE IndexInv
  OBVIOUS
<1>1. NoVersion \in Version /\ NoVersion.kind = "none"
  BY ZeroAssumption DEF NoVersion, Version
<1>2. EmptyTree \in Tree /\ Held(EmptyTree) = {}
  BY <1>1 DEF EmptyTree, Tree, Held
<1>3. StoreTypeOK
  BY <1>2, InitStateAssumption DEF Init, StoreInit, StoreTypeOK, ReadSet, NoReads
<1>4. WritesetIndexed
  BY <1>2 DEF Init, StoreInit, WritesetIndexed
<1>5. QED
  BY <1>3, <1>4 DEF IndexInv

(* Publishing values or estimates keeps the index exact: removeOldWriteset *)
(* drops what the new write set does not name, the setter adds the rest.   *)
LEMMA PublishIndexed ==
  ASSUME IndexInv, NEW i \in Tasks, NEW n \in Nat, NEW ws \in WriteSet,
         NEW e \in BOOLEAN,
         multiVersionMap' = Published(i, n, ws, e),
         txWritesetKeys' = [txWritesetKeys EXCEPT ![i] = DOMAIN ws],
         UNCHANGED <<txReadSets, parentStore>>
  PROVE  IndexInv'
<1>1. DOMAIN ws \subseteq Keys
  BY WriteSetValues
<1>2. StoreTypeOK'
  BY <1>1, PublishedMap DEF IndexInv, StoreTypeOK
<1>3. ASSUME NEW j \in Tasks, NEW k \in Keys
      PROVE  j \in Held(multiVersionMap'[k]) <=> k \in txWritesetKeys'[j]
  <2>1. CASE j # i
    <3>1. multiVersionMap'[k][j] = multiVersionMap[k][j]
      BY <2>1, PublishedMap DEF IndexInv
    <3>2. txWritesetKeys'[j] = txWritesetKeys[j]
      BY <2>1 DEF IndexInv, StoreTypeOK
    <3>3. QED
      BY <3>1, <3>2 DEF IndexInv, WritesetIndexed, Held
  <2>2. CASE j = i /\ k \in txWritesetKeys[i] \cup DOMAIN ws
    <3>1. i \in Held(multiVersionMap'[k]) <=> k \in DOMAIN ws
      BY <2>2, PublishedMap DEF IndexInv
    <3>2. txWritesetKeys'[i] = DOMAIN ws
      BY DEF IndexInv, StoreTypeOK
    <3>3. QED
      BY <2>2, <3>1, <3>2
  <2>3. CASE j = i /\ k \notin txWritesetKeys[i] \cup DOMAIN ws
    <3>1. multiVersionMap'[k] = multiVersionMap[k]
      BY <2>3, PublishedMap DEF IndexInv
    <3>2. txWritesetKeys'[i] = DOMAIN ws
      BY DEF IndexInv, StoreTypeOK
    <3>3. QED
      BY <2>3, <3>1, <3>2 DEF IndexInv, WritesetIndexed
  <2>4. QED
    BY <2>1, <2>2, <2>3
<1>4. QED
  BY <1>2, <1>3 DEF IndexInv, WritesetIndexed

(* Turning recorded keys into estimates keeps the index exact.             *)
LEMMA InvalidateIndexed ==
  ASSUME IndexInv, NEW i \in Tasks, NEW n \in Nat, InvalidateWriteset(i, n)
  PROVE  IndexInv'
<1>1. StoreTypeOK'
  BY InvalidatedMap DEF IndexInv, StoreTypeOK, InvalidateWriteset
<1>2. ASSUME NEW j \in Tasks, NEW k \in Keys
      PROVE  j \in Held(multiVersionMap'[k]) <=> k \in txWritesetKeys'[j]
  <2>1. CASE k \in txWritesetKeys[i]
    <3>1. Held(multiVersionMap'[k]) = Held(multiVersionMap[k]) \cup {i}
      BY <2>1, InvalidatedMap DEF IndexInv, InvalidateWriteset
    <3>2. QED
      BY <2>1, <3>1 DEF IndexInv, WritesetIndexed, InvalidateWriteset
  <2>2. CASE k \notin txWritesetKeys[i]
    <3>1. multiVersionMap'[k] = multiVersionMap[k]
      BY <2>2, InvalidatedMap DEF IndexInv, InvalidateWriteset
    <3>2. QED
      BY <3>1 DEF IndexInv, WritesetIndexed, InvalidateWriteset
  <2>3. QED
    BY <2>1, <2>2
<1>3. QED
  BY <1>1, <1>2 DEF IndexInv, WritesetIndexed

(* Every call of the interface keeps the index exact.                      *)
LEMMA StoreNextIndexed == IndexInv /\ [Next]_storeVars => IndexInv'
<1> SUFFICES ASSUME IndexInv, [Next]_storeVars PROVE IndexInv'
  OBVIOUS
<1>1. ASSUME NEW i \in Tasks, NEW n \in 0 .. MaxIncarnation, NEW ws \in WriteSet,
             SetWriteset(i, n, ws)
      PROVE  IndexInv'
  <2>1. n \in Nat
    BY IncarnationAssumption
  <2>2. QED
    BY <1>1, <2>1, PublishIndexed DEF SetWriteset
<1>2. ASSUME NEW i \in Tasks, NEW n \in 0 .. MaxIncarnation, NEW ws \in WriteSet,
             SetEstimatedWriteset(i, n, ws)
      PROVE  IndexInv'
  <2>1. n \in Nat
    BY IncarnationAssumption
  <2>2. QED
    BY <1>2, <2>1, PublishIndexed DEF SetEstimatedWriteset
<1>3. ASSUME NEW i \in Tasks, NEW n \in 0 .. MaxIncarnation, InvalidateWriteset(i, n)
      PROVE  IndexInv'
  <2>1. n \in Nat
    BY IncarnationAssumption
  <2>2. QED
    BY <1>3, <2>1, InvalidateIndexed
<1>4. ASSUME NEW i \in Tasks, ClearReadset(i)
      PROVE  IndexInv'
  BY <1>4 DEF IndexInv, StoreTypeOK, WritesetIndexed, ClearReadset, ReadSet, NoReads
<1>5. ASSUME NEW i \in Tasks, NEW rs \in ReadSet, SetReadset(i, rs)
      PROVE  IndexInv'
  BY <1>5 DEF IndexInv, StoreTypeOK, WritesetIndexed, SetReadset
<1>6. CASE WriteLatestToStore
  <2>1. LatestToStore \in States
    BY WriteBackStates DEF IndexInv
  <2>2. QED
    BY <1>6, <2>1 DEF IndexInv, StoreTypeOK, WritesetIndexed, WriteLatestToStore
<1>7. ASSUME NEW lo \in Tasks, NEW hi \in 0 .. N, WriteLatestToStoreUntil(lo, hi)
      PROVE  IndexInv'
  <2>1. LatestToStoreUntil(lo, hi) \in States
    BY WriteBackStates DEF IndexInv
  <2>2. QED
    BY <1>7, <2>1 DEF IndexInv, StoreTypeOK, WritesetIndexed, WriteLatestToStoreUntil
<1>8. CASE UNCHANGED storeVars
  BY <1>8 DEF IndexInv, StoreTypeOK, WritesetIndexed, storeVars
<1>9. QED
  BY <1>1, <1>2, <1>3, <1>4, <1>5, <1>6, <1>7, <1>8 DEF Next

(* Whatever calls a client makes, in whatever order and for any number of  *)
(* transactions and keys, the store stays typed and a transaction holds a  *)
(* version of a key exactly when the key is in its recorded write set: no  *)
(* version can outlive the incarnation that wrote it unnoticed.            *)
THEOREM StoreIndexIsExact == Spec => [](StoreTypeOK /\ WritesetIndexed)
<1>1. IndexInv => StoreTypeOK /\ WritesetIndexed
  BY DEF IndexInv
<1>2. QED
  BY StoreInitIndexed, StoreNextIndexed, <1>1, PTL DEF Spec

(* Whatever calls a client makes, a read set that is accepted is exactly   *)
(* what a re-execution would read, none of it behind an estimate: the      *)
(* answer the scheduler relies on when it marks a task validated.          *)
THEOREM ValidReadsAreRereads == Spec => []ValidMeansReread
<1>1. StoreTypeOK => ValidMeansReread
  <2> SUFFICES ASSUME StoreTypeOK, NEW i \in Tasks,
                      ValidateTransactionState(i, parentStore).valid,
                      NEW k \in KeysRead(i)
               PROVE  /\ txReadSets[i][k] = {Replayed[i][k]}
                      /\ \A j \in LatestBefore(i, k) : ~IsEstimate(multiVersionMap[k][j])
    BY DEF ValidMeansReread
  <2>1. parentStore \in States
    BY DEF StoreTypeOK
  <2>2. k \in Keys /\ txReadSets[i][k] # {}
    BY DEF KeysRead
  <2>3. ReadValid(i, k, parentStore)
    BY DEF ValidateTransactionState
  <2>4. QED
    BY <2>1, <2>2, <2>3, ReadValidReplays DEF Replayed
<1>2. QED
  BY StoreInitIndexed, StoreNextIndexed, <1>1, PTL DEF Spec, IndexInv

(* Whatever the store holds, the final write-back leaves in the parent     *)
(* state what replaying the block in order does.                           *)
THEOREM WriteBackIsReplay == Spec => WriteBackReplays
<1>1. StoreTypeOK /\ WriteLatestToStore => parentStore' = Replayed[N]
  <2> SUFFICES ASSUME StoreTypeOK, WriteLatestToStore
               PROVE  parentStore' = Replayed[N]
    OBVIOUS
  <2>1. parentStore \in States
    BY DEF StoreTypeOK
  <2>2. LatestToStore = Replay(multiVersionMap, parentStore)[N]
    BY <2>1, LatestToStoreReplays
  <2>3. QED
    BY <2>2 DEF WriteLatestToStore, Replayed
<1>2. StoreTypeOK => [WriteLatestToStore => parentStore' = Replayed[N]]_storeVars
  BY <1>1
<1>3. QED
  BY StoreInitIndexed, StoreNextIndexed, <1>2, PTL DEF Spec, IndexInv, WriteBackReplays

=============================================================================
