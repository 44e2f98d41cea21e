-------------------------- MODULE MultiVersionStore --------------------------
(***************************************************************************)
(* The multi-version store (multiversion/store.go) shared by every task of *)
(* a block: the versions of each key, the keys each transaction wrote, the *)
(* read set each transaction published for validation, and the parent      *)
(* state the block is executed on.                                         *)
(*                                                                         *)
(* A read set maps a key to the list of distinct values read from it; the  *)
(* list is a set here, and a key that was not read has the empty set.  A   *)
(* missing entry of txWritesetKeys or txReadSets is told from an empty one *)
(* by no operation, and both are written as empty.                         *)
(*                                                                         *)
(* The calls at the end are whole and atomic, for module StoreClient, which *)
(* makes them in any order; module Scheduler drives the same state in      *)
(* steps of one key.                                                       *)
(***************************************************************************)
EXTENDS MultiVersionItem

CONSTANTS
  Keys,       \* StorageKey: the keys the block touches
  InitState   \* contents of the StateDB before the block

States   == [Keys -> Values]
WriteSet == UNION {[K -> Values] : K \in SUBSET Keys}
ReadSet  == [Keys -> SUBSET Values]
NoReads  == [k \in Keys |-> {}]

ASSUME InitStateAssumption == InitState \in States

VARIABLES
  multiVersionMap,  \* key -> its versions
  txWritesetKeys,   \* transaction index -> keys of its last write set
  txReadSets,       \* transaction index -> its published read set
  parentStore       \* the StateDB: initial values plus what was written back

storeVars == <<multiVersionMap, txWritesetKeys, txReadSets, parentStore>>

StoreTypeOK ==
  /\ multiVersionMap \in [Keys -> Tree]
  /\ txWritesetKeys \in [Tasks -> SUBSET Keys]
  /\ txReadSets \in [Tasks -> ReadSet]
  /\ parentStore \in States

StoreInit ==
  /\ multiVersionMap = [k \in Keys |-> EmptyTree]
  /\ txWritesetKeys = [i \in Tasks |-> {}]
  /\ txReadSets = [i \in Tasks |-> NoReads]
  /\ parentStore = InitState

-----------------------------------------------------------------------------
(* Publishing the write set of one transaction.                            *)

\* The version of a key after its write: the empty word is a deletion.
VersionSet(tree, index, incarnation, value) ==
  IF value = Zero THEN Delete(tree, index, incarnation)
                  ELSE Set(tree, index, incarnation, value)

\* Mutant: a key the new incarnation no longer writes keeps its old version.
KeepOldKey(tree, index, incarnation, writeset, key, estimate) ==
  IF key \notin DOMAIN writeset THEN tree
  ELSE IF estimate THEN SetEstimate(tree, index, incarnation)
  ELSE VersionSet(tree, index, incarnation, writeset[key])

\* What publishing a write set, or the estimates for it, does to one key that
\* the old or the new write set names: removeOldWriteset drops a key only the
\* old one has, the loop of the setter overwrites the others.
PublishKey(tree, index, incarnation, writeset, key, estimate) ==
  IF key \notin DOMAIN writeset THEN Remove(tree, index)
  ELSE IF estimate THEN SetEstimate(tree, index, incarnation)
  ELSE VersionSet(tree, index, incarnation, writeset[key])

Published(index, incarnation, writeset, estimate) ==
  [k \in Keys |->
     IF k \in txWritesetKeys[index] \cup DOMAIN writeset
     THEN PublishKey(multiVersionMap[k], index, incarnation, writeset, k, estimate)
     ELSE multiVersionMap[k]]

\* All versions of the transaction's recorded keys turned into estimates.
Invalidated(index, incarnation) ==
  [k \in Keys |->
     IF k \in txWritesetKeys[index]
     THEN SetEstimate(multiVersionMap[k], index, incarnation)
     ELSE multiVersionMap[k]]

-----------------------------------------------------------------------------
(* Validation of one transaction's read set against a parent state.        *)

LatestBefore(index, key) == GetLatestBeforeIndex(multiVersionMap[key], index)

\* The version j of the key still gives the value that was read.  A deleted
\* item has the empty word as its value, so both branches of the code compare.
VersionGives(key, j, value) ==
  /\ ~IsEstimate(multiVersionMap[key][j])
  /\ multiVersionMap[key][j].value = value

\* Mutant: a read for which there is no version is not compared with the parent
\* state, which may have moved since.
ReadValidUnversioned(index, key, parent) ==
  LET read == txReadSets[index][key]
  IN  \/ read = {}
      \/ \E v \in read :
           /\ read = {v}
           /\ \A j \in LatestBefore(index, key) : VersionGives(key, j, v)

\* One key of checkReadsetAtIndex: exactly one value was read, and it is the
\* value of the latest version before the index or, without one, the parent's.
ReadValid(index, key, parent) ==
  LET read == txReadSets[index][key]
  IN  \/ read = {}
      \/ \E v \in read :
           /\ read = {v}
           /\ IF LatestBefore(index, key) = {}
              THEN parent[key] = v
              ELSE \A j \in LatestBefore(index, key) : VersionGives(key, j, v)

\* The indices that the same key adds to the conflicts.
ReadConflicts(index, key) ==
  {j \in LatestBefore(index, key) :
     \E v \in Values : txReadSets[index][key] = {v} /\ ~VersionGives(key, j, v)}

KeysRead(index) == {k \in Keys : txReadSets[index][k] # {}}

ValidateTransactionState(index, parent) ==
  [valid     |-> \A k \in KeysRead(index) : ReadValid(index, k, parent),
   conflicts |-> UNION {ReadConflicts(index, k) : k \in KeysRead(index)}]

-----------------------------------------------------------------------------
(* Writing back to the parent state.                                       *)

\* The parent state once, for each key, the version picked was written to it.
WrittenBack(picked) ==
  [k \in Keys |-> IF picked[k] = {} THEN parentStore[k]
                  ELSE multiVersionMap[k][CHOOSE j \in picked[k] : TRUE].value]

LatestToStore ==
  WrittenBack([k \in Keys |-> GetLatestNonEstimate(multiVersionMap[k])])

\* Mutant: versions of transactions that are not yet validated are written too.
LatestToStoreBeyond(lastStoreIndex, startIndex) ==
  WrittenBack([k \in Keys |->
    {j \in GetLatestNonEstimate(multiVersionMap[k]) : lastStoreIndex <= j}])

\* Mutant: the last validated transaction is left out.
LatestToStoreShort(lastStoreIndex, startIndex) ==
  WrittenBack([k \in Keys |->
    {j \in GetLatestNonEstimate(multiVersionMap[k]) :
       lastStoreIndex <= j /\ j < startIndex - 1}])

\* Only versions of transactions lastStoreIndex .. startIndex - 1 are written,
\* and only where such a version is the latest non-estimate of all indices.
LatestToStoreUntil(lastStoreIndex, startIndex) ==
  WrittenBack([k \in Keys |->
    {j \in GetLatestNonEstimate(multiVersionMap[k]) :
       lastStoreIndex <= j /\ j < startIndex}])

-----------------------------------------------------------------------------
(* Reference: the states after replaying on base, in index order, the      *)
(* values (never the estimates) that transactions 0 .. n - 1 have in map.  *)

Replay(map, base) ==
  LET after[n \in 0 .. N] ==
        IF n = 0 THEN base
        ELSE [k \in Keys |-> IF map[k][n - 1].kind = "value"
                             THEN map[k][n - 1].value
                             ELSE after[n - 1][k]]
  IN  after

-----------------------------------------------------------------------------
(* The calls of the MultiVersionStore interface that change the store.     *)

SetWriteset(index, incarnation, writeset) ==
  /\ multiVersionMap' = Published(index, incarnation, writeset, FALSE)
  /\ txWritesetKeys' = [txWritesetKeys EXCEPT ![index] = DOMAIN writeset]
  /\ UNCHANGED <<txReadSets, parentStore>>

SetEstimatedWriteset(index, incarnation, writeset) ==
  /\ multiVersionMap' = Published(index, incarnation, writeset, TRUE)
  /\ txWritesetKeys' = [txWritesetKeys EXCEPT ![index] = DOMAIN writeset]
  /\ UNCHANGED <<txReadSets, parentStore>>

InvalidateWriteset(index, incarnation) ==
  /\ multiVersionMap' = Invalidated(index, incarnation)
  /\ UNCHANGED <<txWritesetKeys, txReadSets, parentStore>>

SetReadset(index, readset) ==
  /\ txReadSets' = [txReadSets EXCEPT ![index] = readset]
  /\ UNCHANGED <<multiVersionMap, txWritesetKeys, parentStore>>

ClearReadset(index) ==
  /\ txReadSets' = [txReadSets EXCEPT ![index] = NoReads]
  /\ UNCHANGED <<multiVersionMap, txWritesetKeys, parentStore>>

WriteLatestToStore ==
  /\ parentStore' = LatestToStore
  /\ UNCHANGED <<multiVersionMap, txWritesetKeys, txReadSets>>

WriteLatestToStoreUntil(lastStoreIndex, startIndex) ==
  /\ parentStore' = LatestToStoreUntil(lastStoreIndex, startIndex)
  /\ UNCHANGED <<multiVersionMap, txWritesetKeys, txReadSets>>

=============================================================================
